----------------------------- MODULE ShamirShares -----------------------------
(***************************************************************************)
(* `galdra shamir`: a signing key split into share files and recovered     *)
(* from some of them.  The token behind Device is outside (its host driver *)
(* is still a stub).                                                       *)
(***************************************************************************)
EXTENDS SecretSharing

CONSTANTS
    Keys,               \* signing keys a token slot may hold
    Plans,              \* Shamir parameters of profiles, [k, n]
    RandomBytes,        \* bytes the generator may return
    Handmade,           \* share texts not written by this program
    MaxGiven,           \* bound on the shares given to one recovery
    MaxShamirCommands   \* bound on the commands started

(* ShamirShareExport; split is which split it came from, which the text *)
(* does not say (0: none).                                              *)
Shares == [split : Nat, k : Field, n : Field, index : Field, value : Field]

ASSUME ShamirAssumption ==
    /\ Keys \subseteq Field /\ Keys # {} /\ RandomBytes \subseteq Field
    /\ Plans \subseteq [k : Field, n : Field]
    /\ Handmade \subseteq Shares /\ \A t \in Handmade : t.split = 0
    /\ MaxGiven \in Nat /\ MaxShamirCommands \in Nat

-----------------------------------------------------------------------------
VARIABLES
    slotKey,        \* the signing key in the token's slot
    splits,         \* the splits made: the key and the parameters
    directory,      \* --output-dir: share texts by <<index, total>>
    copies,         \* share texts saved from a QR image
    writing,        \* shares `split` has still to write
    restored,       \* what the last recovery was given and did
    shamirCommands  \* commands started

shamirVars == <<slotKey, splits, directory, copies, writing, restored, shamirCommands>>

ShamirInit ==
    /\ slotKey = CHOOSE s \in Keys : TRUE
    /\ splits = <<>> /\ directory = <<>> /\ copies = Handmade /\ writing = <<>>
    /\ restored = [given |-> "nothing", out |-> -1]
    /\ shamirCommands = 0

ShamirStart == writing = <<>> /\ shamirCommands < MaxShamirCommands
               /\ shamirCommands' = shamirCommands + 1

(* A share text without a Threshold line says 0 here; from_armoured reads *)
(* it as 1.                                                               *)
FromArmoured(t) == IF t.k = 0 THEN [t EXCEPT !.k = 1] ELSE t

Texts == {directory[f] : f \in DOMAIN directory} \cup copies

(* The token gets a new signing key. *)
NewKey ==
    /\ writing = <<>> /\ \E s \in Keys : s # slotKey /\ slotKey' = s
    /\ UNCHANGED <<splits, directory, copies, writing, restored, shamirCommands>>

(* shamir_split_key: the texts of a new split of the slot's key. *)
Armoured(p, random) ==
    LET v == SharesOf(slotKey, p, random) IN
    [i \in 1..p.n |-> [split |-> Len(splits) + 1, k |-> p.k, n |-> p.n, index |-> i, value |-> v[i]]]

Recorded(p) == splits' = Append(splits, [key |-> slotKey, k |-> p.k, n |-> p.n])

(* shamir split; nothing is written when the parameters, the token or the *)
(* generator fail.                                                        *)
Split ==
    /\ ShamirStart
    /\ \/ \E p \in {q \in Plans : CanSplit(q)} : \E r \in [1..(p.k - 1) -> RandomBytes] :
            writing' = Armoured(p, r) /\ Recorded(p)
       \/ UNCHANGED <<writing, splits>>
    /\ UNCHANGED <<slotKey, directory, copies, restored>>

(* POST /shamir/split answers with all the texts at once. *)
SplitHandler ==
    /\ ShamirStart
    /\ \/ \E p \in {q \in Plans : CanSplit(q)} : \E r \in [1..(p.k - 1) -> RandomBytes] :
            copies' = copies \cup ToSet(Armoured(p, r)) /\ Recorded(p)
       \/ UNCHANGED <<copies, splits>>
    /\ UNCHANGED <<slotKey, directory, writing, restored>>

(* The files of one split go one by one over what the directory has; a     *)
(* failing write or a killed command leaves the rest out.                  *)
WriteShare ==
    /\ writing # <<>>
    /\ \/ LET t == Head(writing) IN
          /\ directory' = [f \in DOMAIN directory \cup {<<t.index, t.n>>} |->
                             IF f = <<t.index, t.n>> THEN t ELSE directory[f]]
          /\ writing' = Tail(writing)
       \/ writing' = <<>> /\ UNCHANGED directory
    /\ UNCHANGED <<slotKey, splits, copies, restored, shamirCommands>>

(* export-qr and import-qr: the text, parsed and written out again. *)
CopyByQr ==
    /\ ShamirStart
    /\ \E t \in Texts : copies' = copies \cup {FromArmoured(t)}
    /\ UNCHANGED <<slotKey, splits, directory, writing, restored>>

(* Mutant: one share too few is taken. *)
TakenOneLess(given, k) == SubSeq(given, 1, k - 1)

(* iter().take(k): the first k shares in the order given. *)
Taken(given, k) == SubSeq(given, 1, k)

(* shamir_recover_key: the threshold is the first share's, len() as u8 is  *)
(* compared with it.                                                       *)
RecoverKey(given) ==
    IF given = <<>> THEN -1
    ELSE LET k == given[1].k IN
         IF k = 0 \/ Len(given) % FieldSize < k THEN -1 ELSE RecoverSecret(Taken(given, k), k)

(* What kind of list was given: shares of one split of which the first k   *)
(* are different, the same with too few or a share twice, or anything else. *)
(* Beyond the values of a u8 the length wraps.                             *)
Kind(given) ==
    IF given = <<>> \/ (\E i \in DOMAIN given : given[i].split # given[1].split \/ given[i].split = 0)
    THEN "mixed"
    ELSE LET k == given[1].k IN
         IF Len(given) < k THEN "few"
         ELSE IF ~IsInjective([i \in 1..k |-> given[i].index]) THEN "repeated"
         ELSE IF Len(given) < FieldSize THEN "enough" ELSE "wrapped"

Restore(given, imports) ==
    LET out == RecoverKey(given) IN
    /\ restored' = [given |-> Kind(given), out |-> out,
                    key |-> IF Kind(given) = "mixed" THEN -1 ELSE splits[given[1].split].key]
    /\ slotKey' = IF out # -1 /\ imports THEN out ELSE slotKey

(* shamir recover --confirm, and POST /shamir/recover: the recovered key    *)
(* replaces the slot's; the import may still fail at the token.             *)
Recover ==
    /\ ShamirStart
    /\ \E len \in 0..MaxGiven : \E texts \in [1..len -> Texts], imports \in BOOLEAN :
         Restore([i \in 1..len |-> FromArmoured(texts[i])], imports)
    /\ UNCHANGED <<splits, directory, copies, writing>>

ShamirNext == NewKey \/ Split \/ SplitHandler \/ WriteShare \/ CopyByQr \/ Recover

ShamirSpec == ShamirInit /\ [][ShamirNext]_shamirVars

-----------------------------------------------------------------------------
ShamirTypeOK ==
    /\ slotKey \in Field /\ shamirCommands \in 0..MaxShamirCommands
    /\ Texts \subseteq Shares
    /\ \A i \in DOMAIN splits : splits[i].key \in Field
    /\ restored.out \in Field \cup {-1}

(* Shares of one split bring back exactly the key that was split, in any   *)
(* order, with spare ones and through QR copies, as soon as there are k    *)
(* different ones; fewer, or the same one twice, are refused and never     *)
(* become another key.  A list of 256 shares or more may be refused, too.  *)
(* (Shares of two splits are not told apart.)                              *)
SharesRecover ==
    /\ restored.given = "enough" => restored.out = restored.key
    /\ restored.given = "wrapped" => restored.out \in {restored.key, -1}
    /\ restored.given \in {"few", "repeated"} => restored.out = -1
=============================================================================
