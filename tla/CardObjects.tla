----------------------------- MODULE CardObjects -----------------------------
(***************************************************************************)
(* What the OpenPGP card keeps behind its commands: the DO store of        *)
(* usb-personality (do_store.rs) and the private keys whose algorithm the  *)
(* attribute objects C1, C2, C3 name (vault_backend.rs).  PIN verifiers,   *)
(* counters and the master key are in module OpenPgpToken.                 *)
(*                                                                         *)
(* Each RRAM write is one step, may fail (`ok` is FALSE), and is whole or  *)
(* absent after a power cut.  A DO value is what its bytes mean: the       *)
(* algorithm in C1..C3, the number in 93, a text elsewhere.                *)
(***************************************************************************)
EXTENDS Naturals, Sequences, SequencesExt

CONSTANTS
    SlotCount,      \* slots of the DO region
    CounterMod,     \* 2^24, the width of DO 93
    Texts,          \* values of the objects that are plain text
    Keys,           \* private keys the TRNG may yield
    None

KeySlot == {"SIG", "DEC", "AUT"}
AttrTag == [s \in KeySlot |-> CASE s = "SIG" -> "C1" [] s = "DEC" -> "C2" [] s = "AUT" -> "C3"]
Algs    == {"ecdsa", "eddsa", "ecdh", "x25519", "rsa"}

ASSUME ObjectsAssumption ==
    /\ SlotCount \in Nat /\ SlotCount >= 5      \* room for the defaults; 32 in the code
    /\ CounterMod \in Nat \ {0} /\ Keys # {}
    /\ None \notin Texts \cup Keys \cup Algs \cup {"Brainpool", "Ed25519", "X25519"}

VARIABLES
    header,     \* the region carries the OPGP magic
    slots,      \* its slots: tag ("00" when empty) and value
    blob,       \* sealed key of each slot, with the algorithm it was made for
    keyRam,     \* key in RAM, with the form it was loaded in
    sigCounter, \* RAM
    wrote,      \* history: the last value stored under each tag
    fit         \* history: key slots whose attributes named the key's own algorithm
                \*          when the key was made or last loaded

objects == <<header, slots, blob, keyRam, sigCounter, wrote, fit>>

EmptySlot  == [tag |-> "00", val |-> None]
EmptySlots == [i \in 1..SlotCount |-> EmptySlot]
NoKeys     == [s \in KeySlot |-> None]

(* init_production_defaults: the objects seeded, in order. *)
Defaults == <<<<"C1", "ecdsa">>, <<"C2", "ecdh">>, <<"C3", "ecdsa">>,
              <<"C4", "status">>, <<"93", 0>>>>

(* A card of the factory, or one in use that holds keys made under the defaults. *)
ObjectsInit ==
    /\ keyRam = NoKeys /\ sigCounter = 0 /\ fit = {}
    /\ \/ /\ header = FALSE /\ slots = EmptySlots
          /\ blob = NoKeys /\ wrote = <<>>
       \/ /\ header = TRUE
          /\ slots = [i \in 1..SlotCount |->
                        IF i <= Len(Defaults) THEN [tag |-> Defaults[i][1], val |-> Defaults[i][2]]
                                              ELSE EmptySlot]
          /\ wrote = [t \in {d[1] : d \in Range(Defaults)} |->
                        (CHOOSE d \in Range(Defaults) : d[1] = t)[2]]
          /\ LET k == CHOOSE k \in Keys : TRUE IN
                blob = [s \in KeySlot |-> [key |-> k, alg |-> IF s = "DEC" THEN "ecdh" ELSE "ecdsa"]]

-----------------------------------------------------------------------------
(* do_store.rs *)

(* DoStore::read: the first slot with the tag. *)
Read(t) ==
    LET at == SelectInSeq(slots, LAMBDA s : s.tag = t)
    IN  IF ~header \/ at = 0 THEN None ELSE slots[at].val

(* Mutant: an empty slot is taken before one that has the tag. *)
PlaceEmptyFirst(t) ==
    LET free == SelectInSeq(slots, LAMBDA s : s.tag = "00")
    IN  IF free # 0 THEN free ELSE SelectInSeq(slots, LAMBDA s : s.tag = t)

(* The slot a write goes to: the one with the tag, else the first empty; 0 when full. *)
Place(t) ==
    LET has == SelectInSeq(slots, LAMBDA s : s.tag = t)
    IN  IF has # 0 THEN has ELSE SelectInSeq(slots, LAMBDA s : s.tag = "00")

(* DoStore::write, its slot write; the header exists once the card serves. *)
Store(t, v) ==
    /\ Place(t) # 0
    /\ slots' = [slots EXCEPT ![Place(t)] = [tag |-> t, val |-> v]]
    /\ wrote' = [u \in {t} \cup DOMAIN wrote |-> IF u = t THEN v ELSE wrote[u]]
    /\ UNCHANGED header

-----------------------------------------------------------------------------
(* vault_backend.rs: algorithms and keys *)

(* algorithm_attributes_for_slot: absent or unparsable attributes mean BrainpoolP256r1. *)
Attributes(s) ==
    IF Read(AttrTag[s]) \in Algs THEN Read(AttrTag[s])
    ELSE IF s = "DEC" THEN "ecdh" ELSE "ecdsa"

(* The key object an algorithm calls for in a slot, None for those not served. *)
Form(s, alg) ==
    IF s = "DEC"
    THEN CASE alg = "x25519" -> "X25519" [] alg = "ecdh" -> "Brainpool" [] OTHER -> None
    ELSE CASE alg = "eddsa" -> "Ed25519" [] alg = "ecdsa" -> "Brainpool" [] OTHER -> None

(* A key is usable by a command when its object has the form the attributes call for. *)
Usable(s) ==
    keyRam[s] # None /\ Form(s, Attributes(s)) # None
        /\ keyRam[s].form = Form(s, Attributes(s))

(* Mutant: every blob loads as a Brainpool scalar. *)
LoadedAsBrainpool(s) ==
    IF blob[s] = None THEN {None} ELSE {[key |-> blob[s].key, form |-> "Brainpool"]}

(* What the 32 bytes of a blob load as; as a Brainpool scalar they may be out of range. *)
Loaded(s) ==
    LET form == Form(s, Attributes(s))
    IN  IF blob[s] = None \/ form = None THEN {None}
        ELSE {[key |-> blob[s].key, form |-> form]}
             \cup IF form = "Brainpool" /\ Form(s, blob[s].alg) # form THEN {None} ELSE {}

(* load_private_keys, at the end of OpenPgpVaultBackend::new and ::open *)
LoadPrivateKeys ==
    \E sig \in Loaded("SIG"), dec \in Loaded("DEC"), aut \in Loaded("AUT") :
        /\ keyRam' = [s \in KeySlot |-> CASE s = "SIG" -> sig [] s = "DEC" -> dec [] s = "AUT" -> aut]
        /\ fit' = {s \in KeySlot : blob[s] # None /\ Attributes(s) = blob[s].alg}

(* generate_or_read_key, P1 = 80: the blob first, then RAM. *)
MakeKey(s, k) ==
    LET alg == Attributes(s)
    IN  /\ Form(s, alg) # None
        /\ blob' = [blob EXCEPT ![s] = [key |-> k, alg |-> alg]]
        /\ keyRam' = [keyRam EXCEPT ![s] = [key |-> k, form |-> Form(s, alg)]]
        /\ fit' = fit \cup {s}
        /\ UNCHANGED <<header, slots, sigCounter, wrote>>

(* increment_signature_counter: RAM first, then DO 93 with its low 24 bits. *)
CountSignature(ok) ==
    /\ sigCounter' = sigCounter + 1
    /\ IF ok THEN Store("93", (sigCounter + 1) % CounterMod)
             ELSE UNCHANGED <<header, slots, wrote>>
    /\ UNCHANGED <<blob, keyRam, fit>>

(* put_do: attributes naming the retired P-512 curve are refused. *)
PutObject(t, v) ==
    /\ v # "p512"
    /\ Store(t, v)
    /\ UNCHANGED <<blob, keyRam, fit, sigCounter>>

(* Power is lost: RRAM stays. *)
ForgetRam ==
    /\ keyRam' = NoKeys /\ sigCounter' = 0 /\ fit' = {}
    /\ UNCHANGED <<header, slots, blob, wrote>>
=============================================================================
