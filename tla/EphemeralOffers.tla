--------------------------- MODULE EphemeralOffers ---------------------------
(***************************************************************************)
(* `galdra epk`: one-time Brainpool keys offered to a peer as signed and   *)
(* encrypted files.  Each installation has its own ephemeral_offers table; *)
(* a command runs in a process of its own, every SQL statement, audit row  *)
(* and file write is a step, and the process may be killed between two.    *)
(***************************************************************************)
EXTENDS Integers, FiniteSets, TLC

CONSTANTS
    Installs,       \* installations, each with a GnuPG key and a database
    EpkProcs,       \* processes running `galdra epk`
    HomeOf,         \* the installation a process belongs to
    Keyring,        \* per installation: the keys its GnuPG keyring holds
    Sids,           \* session ids (16 random bytes)
    Received,       \* offer files other programs produced (gr-linux-crypto)
    Lifetimes,      \* values of --expires
    MaxTime,        \* bound on the clock
    MaxEpkCommands  \* bound on the commands started

ASSUME EpkAssumption ==
    /\ HomeOf \in [EpkProcs -> Installs] /\ Keyring \in [Installs -> SUBSET Installs]
    /\ MaxTime \in Nat /\ MaxEpkCommands \in Nat /\ Lifetimes \subseteq Int

VARIABLES
    offers,         \* per installation: its table, a function of the session ids
    epkLog,         \* per installation: the audit rows <<action, session, reason>>
    offerFiles,     \* .epk.gpg files that exist
    task,           \* per process: the command it runs and where it stands
    now,            \* Utc::now
    epkCommands     \* commands started

epkVars == <<offers, epkLog, offerFiles, task, now, epkCommands>>

Resting == [at |-> "idle"]

(* OfferJson inside the GnuPG envelope.  fp is the key it claims, signer the *)
(* one that signed the EPK bytes, to the keys it is encrypted to.           *)
Offers == [sid : Sids, fp : Installs, signer : Installs, to : SUBSET Installs,
           expires : Int, schema : {1, 2}, consumed : BOOLEAN]

(* OfferRow; key says whether my_private_key_pem is not NULL. *)
Rows == [fp : Installs, expires : Int, consumed : BOOLEAN, revoked : BOOLEAN,
         key : BOOLEAN]

RowOf(f, key) == [fp |-> f.fp, expires |-> f.expires, consumed |-> FALSE,
                  revoked |-> FALSE, key |-> key]

(* INSERT of a row. *)
WithRow(t, s, row) == [x \in DOMAIN t \cup {s} |-> IF x = s THEN row ELSE t[x]]

ASSUME ReceivedAssumption == Received \subseteq Offers

OffersInit ==
    /\ offers = [h \in Installs |-> <<>>]
    /\ epkLog = [h \in Installs |-> {}]
    /\ offerFiles = Received
    /\ task = [p \in EpkProcs |-> Resting]
    /\ now = 0 /\ epkCommands = 0

-----------------------------------------------------------------------------
Home(p) == HomeOf[p]
Has(h, s) == s \in DOMAIN offers[h]

EpkGoto(p, t) == task' = [task EXCEPT ![p] = t]

EpkStart(p) ==
    /\ task[p] = Resting /\ epkCommands < MaxEpkCommands
    /\ epkCommands' = epkCommands + 1

(* What a step leaves alone when it only moves its process on. *)
EpkKept == <<offers, epkLog, offerFiles, now>>

Known == {f.sid : f \in offerFiles} \cup UNION {DOMAIN offers[h] : h \in Installs}
         \cup {task[p].file.sid : p \in {q \in EpkProcs : "file" \in DOMAIN task[q]}}

(* gpg --detach-sign over the EPK, gpg --sign --encrypt over the offer. *)
MakeOffer(h, s, to, expires) ==
    [sid |-> s, fp |-> h, signer |-> h, to |-> to, expires |-> expires,
     schema |-> 1, consumed |-> FALSE]

(* gpg --decrypt, and gpg --verify of the inner signature, which is good  *)
(* when the keyring holds the key that made it, whichever key that is.    *)
CanDecrypt(h, f) == h \in f.to
SignatureGood(h, f) == f.signer \in Keyring[h]

(* Mutant: the file is written before the row that holds its key. *)
GenerateWrites(p) ==
    /\ EpkStart(p)
    /\ \E life \in Lifetimes, to \in SUBSET Installs : life > 0 /\ to # {} /\
         \E s \in Sids \ Known :
           LET f == MakeOffer(Home(p), s, to, now + life) IN
           /\ offerFiles' = offerFiles \cup {f}
           /\ EpkGoto(p, [at |-> "store", file |-> f, mine |-> TRUE])
    /\ UNCHANGED <<offers, epkLog, now>>

(* generate_offer up to the row: arguments, key pair, gpg sign and encrypt; *)
(* a bad argument or a failing gpg ends the command with nothing stored.    *)
Generate(p) ==
    /\ EpkStart(p)
    /\ \E life \in Lifetimes, to \in SUBSET Installs :
         IF life <= 0 \/ to = {} THEN UNCHANGED task
         ELSE \/ UNCHANGED task
              \/ \E s \in Sids \ Known :
                   EpkGoto(p, [at |-> "store", mine |-> TRUE,
                               file |-> MakeOffer(Home(p), s, to, now + life)])
    /\ UNCHANGED EpkKept

(* import_offer's checks in their order. *)
Reason(h, f, want) ==
    CASE f.schema # 1                  -> "bad_schema"
      [] f.consumed                    -> "already_consumed"
      [] now >= f.expires              -> "expired"
      [] f.fp # want                   -> "fingerprint_mismatch"
      [] ~SignatureGood(h, f)          -> "bad_epk_signature"
      [] OTHER                         -> "none"

Import(p) ==
    /\ EpkStart(p)
    /\ \E f \in offerFiles, want \in Installs :
         IF ~CanDecrypt(Home(p), f) THEN UNCHANGED task
         ELSE LET r == Reason(Home(p), f, want) IN
              IF r = "none" THEN EpkGoto(p, [at |-> "store", file |-> f, mine |-> FALSE])
              ELSE EpkGoto(p, [at |-> "audit", row |-> <<"EpkReject", f.sid, r>>, next |-> Resting])
    /\ UNCHANGED EpkKept

(* After the row: its audit entry, and the file of a generated offer. *)
Stored(t) ==
    IF t.mine THEN [at |-> "audit", row |-> <<"EpkGenerate", t.file.sid, "none">>,
                    next |-> [at |-> "write", file |-> t.file]]
    ELSE [at |-> "audit", row |-> <<"EpkImport", t.file.sid, "none">>, next |-> Resting]

(* Mutant: INSERT OR REPLACE. *)
StoreOfferReplaces(p) ==
    /\ task[p].at = "store"
    /\ LET f == task[p].file  h == Home(p) IN
       /\ offers' = [offers EXCEPT ![h] = WithRow(@, f.sid, RowOf(f, task[p].mine))]
       /\ EpkGoto(p, Stored(task[p]))
    /\ UNCHANGED <<epkLog, offerFiles, now, epkCommands>>

(* store_offer: session_id is the primary key, so a second row for the same *)
(* session fails and ends the command.                                      *)
StoreOffer(p) ==
    /\ task[p].at = "store"
    /\ LET f == task[p].file  h == Home(p) IN
       IF Has(h, f.sid) THEN EpkGoto(p, Resting) /\ UNCHANGED offers
       ELSE /\ offers' = [offers EXCEPT ![h] = WithRow(@, f.sid, RowOf(f, task[p].mine))]
            /\ EpkGoto(p, Stored(task[p]))
    /\ UNCHANGED <<epkLog, offerFiles, now, epkCommands>>

(* audit_append; when it fails the command returns the error. *)
EpkAudit(p) ==
    /\ task[p].at = "audit"
    /\ \/ /\ epkLog' = [epkLog EXCEPT ![Home(p)] = @ \cup {task[p].row}]
          /\ EpkGoto(p, task[p].next)
       \/ UNCHANGED epkLog /\ EpkGoto(p, Resting)
    /\ UNCHANGED <<offers, offerFiles, now, epkCommands>>

(* run_generate: the file, once the row and its audit entry are there. *)
WriteOffer(p) ==
    /\ task[p].at = "write"
    /\ \/ offerFiles' = offerFiles \cup {task[p].file}
       \/ UNCHANGED offerFiles
    /\ EpkGoto(p, Resting)
    /\ UNCHANGED <<offers, epkLog, now, epkCommands>>

(* run_expire without and with --confirm: revoke_offer's SELECT. *)
Expire(p) ==
    /\ EpkStart(p)
    /\ \E confirm \in BOOLEAN, s \in Sids :
         IF confirm /\ Has(Home(p), s) THEN EpkGoto(p, [at |-> "revoke", sid |-> s])
         ELSE UNCHANGED task
    /\ UNCHANGED EpkKept

(* revoke_offer's UPDATE. *)
Revoke(p) ==
    /\ task[p].at = "revoke"
    /\ LET s == task[p].sid IN
       /\ offers' = [offers EXCEPT ![Home(p)][s].revoked = TRUE, ![Home(p)][s].key = FALSE]
       /\ EpkGoto(p, [at |-> "audit", row |-> <<"EpkReject", s, "manual_revoke">>,
                      next |-> Resting])
    /\ UNCHANGED <<epkLog, offerFiles, now, epkCommands>>

(* mark_consumed (no command calls it): the check, and the UPDATE, which   *)
(* leaves the private key where it is.                                     *)
CheckConsumed(p) ==
    /\ EpkStart(p)
    /\ \E s \in Sids :
         IF Has(Home(p), s) /\ ~offers[Home(p)][s].consumed
         THEN EpkGoto(p, [at |-> "consume", sid |-> s])
         ELSE UNCHANGED task
    /\ UNCHANGED EpkKept

MarkConsumed(p) ==
    /\ task[p].at = "consume"
    /\ offers' = [offers EXCEPT ![Home(p)][task[p].sid].consumed = TRUE]
    /\ EpkGoto(p, Resting)
    /\ UNCHANGED <<epkLog, offerFiles, now, epkCommands>>

EpkKilled(p) ==
    /\ task[p] # Resting /\ EpkGoto(p, Resting)
    /\ UNCHANGED <<EpkKept, epkCommands>>

Tick ==
    /\ now < MaxTime /\ now' = now + 1
    /\ UNCHANGED <<offers, epkLog, offerFiles, task, epkCommands>>

OffersNext ==
    \/ \E p \in EpkProcs :
         \/ Generate(p) \/ Import(p) \/ Expire(p) \/ CheckConsumed(p)
         \/ StoreOffer(p) \/ EpkAudit(p) \/ WriteOffer(p) \/ Revoke(p) \/ MarkConsumed(p)
         \/ EpkKilled(p)
    \/ Tick

OffersSpec == OffersInit /\ [][OffersNext]_epkVars

-----------------------------------------------------------------------------
EpkReasons == {"none", "bad_schema", "already_consumed", "expired", "fingerprint_mismatch",
               "bad_epk_signature", "manual_revoke"}

OffersTypeOK ==
    /\ DOMAIN offers = Installs
    /\ \A h \in Installs : DOMAIN offers[h] \subseteq Sids
                           /\ \A s \in DOMAIN offers[h] : offers[h][s] \in Rows
    /\ epkLog \in [Installs -> SUBSET ({"EpkGenerate", "EpkImport", "EpkReject"} \X Sids \X EpkReasons)]
    /\ offerFiles \subseteq Offers /\ now \in 0..MaxTime /\ epkCommands \in 0..MaxEpkCommands
    /\ \A p \in EpkProcs : task[p].at \in {"idle", "store", "audit", "write", "revoke", "consume"}

(* Whoever holds an offer file galdra wrote can be answered: the issuer has *)
(* the row and the private key, whatever was killed or failed, unless the   *)
(* offer was revoked or consumed, and generating it is in its audit log.    *)
OfferAnswerable ==
    \A f \in offerFiles \ Received :
        /\ Has(f.fp, f.sid)
        /\ LET row == offers[f.fp][f.sid] IN row.key \/ row.revoked \/ row.consumed
        /\ <<"EpkGenerate", f.sid, "none">> \in epkLog[f.fp]

(* A revoked offer stays revoked and its key gone, a consumed one consumed, *)
(* even when its own file is imported again; no stored row disappears, and  *)
(* none gains a private key it was not generated with.                      *)
RevocationFinal ==
    [][\A h \in Installs : \A s \in DOMAIN offers[h] :
          /\ s \in DOMAIN offers'[h]
          /\ offers[h][s].revoked => offers'[h][s].revoked
          /\ offers[h][s].consumed => offers'[h][s].consumed
          /\ offers'[h][s].key => offers[h][s].key /\ ~offers'[h][s].revoked]_offers

(* EPHEMERAL_KEY_EXCHANGE.md, section 6: "After `mark_consumed` or          *)
(* `revoke_offer`, the column is set to NULL in-place."  The UPDATE of      *)
(* mark_consumed sets the flag and leaves the column of the private key.    *)
ConsumedKeyCleared ==
    \A h \in Installs : \A s \in DOMAIN offers[h] :
        offers[h][s].consumed => ~offers[h][s].key
=============================================================================
