--------------------------- MODULE HostToolsProofs ---------------------------
(***************************************************************************)
(* What the command groups of galdra promise.  Each group is proved from   *)
(* its own specification; at the end, their composition implements every   *)
(* one of them.                                                            *)
(***************************************************************************)
EXTENDS HostTools, ShamirSharesProofs

-----------------------------------------------------------------------------
(* `galdra epk`, for any number of installations, processes, sessions and   *)
(* commands, and whatever is killed.                                        *)

AuditRows == {"EpkGenerate", "EpkImport", "EpkReject"} \X Sids \X EpkReasons

(* No row is revoked and still holds its private key. *)
RowsInv ==
    /\ DOMAIN offers = Installs
    /\ \A h \in Installs : DOMAIN offers[h] \subseteq Sids
    /\ \A h \in Installs : \A s \in DOMAIN offers[h] :
        offers[h][s] \in Rows /\ ~(offers[h][s].key /\ offers[h][s].revoked)

PlainInv ==
    /\ epkLog \in [Installs -> SUBSET AuditRows]
    /\ offerFiles \subseteq Offers /\ now \in 0..MaxTime /\ epkCommands \in 0..MaxEpkCommands
    /\ DOMAIN task = EpkProcs

(* The issuer has the row of an offer, with its key unless revoked ... *)
Keyed(f, table) ==
    /\ f \in Offers /\ f.sid \in DOMAIN table[f.fp]
    /\ table[f.fp][f.sid].key # table[f.fp][f.sid].revoked

(* ... and generating it is in its audit log. *)
OfferLogged(f, log) == <<"EpkGenerate", f.sid, "none">> \in log[f.fp]

(* What a process knows at each point: the row is there before its audit    *)
(* entry, and both before the file.                                         *)
TaskInv(p) ==
    /\ task[p].at \in {"idle", "store", "audit", "write", "revoke", "consume"}
    /\ task[p].at = "store" =>
        /\ task[p].file \in Offers /\ task[p].mine \in BOOLEAN
        /\ task[p].mine => task[p].file.fp = Home(p)
    /\ task[p].at = "audit" =>
        /\ task[p].row \in AuditRows
        /\ task[p].next # Resting =>
            /\ task[p].next.at = "write" /\ task[p].next.file.fp = Home(p)
            /\ Keyed(task[p].next.file, offers)
            /\ task[p].row = <<"EpkGenerate", task[p].next.file.sid, "none">>
    /\ task[p].at = "write" => Keyed(task[p].file, offers) /\ OfferLogged(task[p].file, epkLog)
    /\ task[p].at \in {"revoke", "consume"} => Has(Home(p), task[p].sid)

FilesInv == \A f \in offerFiles \ Received : Keyed(f, offers) /\ OfferLogged(f, epkLog)

EpkInv == RowsInv /\ PlainInv /\ (\A p \in EpkProcs : TaskInv(p)) /\ FilesInv

(* What a step does: more than RevocationFinal asks, since nothing but a    *)
(* revocation takes a key away.                                             *)
Final ==
    \A h \in Installs : \A s \in DOMAIN offers[h] :
        /\ s \in DOMAIN offers'[h]
        /\ offers[h][s].revoked => offers'[h][s].revoked
        /\ offers[h][s].consumed => offers'[h][s].consumed
        /\ offers'[h][s].key = (offers[h][s].key /\ ~offers'[h][s].revoked)

-----------------------------------------------------------------------------
(* A process has an installation. *)
LEMMA HomeIs == \A p \in EpkProcs : Home(p) \in Installs
BY EpkAssumption DEF Home

(* Fields of an offer. *)
LEMMA OfferFields ==
    ASSUME NEW f \in Offers
    PROVE  f.sid \in Sids /\ f.fp \in Installs /\ f.expires \in Int
BY DEF Offers

(* A table that is left alone. *)
LEMMA SameRows ==
    ASSUME EpkInv, UNCHANGED offers
    PROVE  RowsInv' /\ Final
<1>1. RowsInv'
  BY DEF EpkInv, RowsInv
<1>2. ASSUME NEW h \in Installs, NEW s \in DOMAIN offers[h]
      PROVE  offers[h][s].key = (offers[h][s].key /\ ~offers[h][s].revoked)
  <2>1. offers[h][s].key \in BOOLEAN /\ offers[h][s].revoked \in BOOLEAN
        /\ ~(offers[h][s].key /\ offers[h][s].revoked)
    BY DEF EpkInv, RowsInv, Rows
  <2>. QED BY <2>1
<1>. QED BY <1>1, <1>2 DEF Final

(* Each statement on the table keeps revoked rows revoked and keys where they were. *)
LEMMA RowsStep ==
    ASSUME EpkInv, OffersNext
    PROVE  RowsInv' /\ Final
<1>1. ASSUME NEW p \in EpkProcs, StoreOffer(p) PROVE RowsInv' /\ Final
  <2>. DEFINE f == task[p].file
              h == Home(p)
              r == RowOf(f, task[p].mine)
  <2>1. task[p].at = "store" /\ f \in Offers /\ task[p].mine \in BOOLEAN /\ h \in Installs
    BY <1>1, HomeIs DEF StoreOffer, EpkInv, TaskInv
  <2>2. CASE Has(h, f.sid)
    BY <1>1, <2>2, SameRows DEF StoreOffer
  <2>3. CASE ~Has(h, f.sid)
    <3>1. offers' = [offers EXCEPT ![h] = WithRow(offers[h], f.sid, r)]
      BY <1>1, <2>3 DEF StoreOffer
    <3>2. r \in Rows /\ ~r.revoked
      BY <2>1 DEF RowOf, Rows, Offers
    <3>3. f.sid \in Sids /\ f.sid \notin DOMAIN offers[h]
      BY <2>1, <2>3, OfferFields DEF Has
    <3>. HIDE DEF f, h, r
    <3>4. /\ DOMAIN offers' = Installs
          /\ \A g \in Installs : g # h => offers'[g] = offers[g]
          /\ DOMAIN offers'[h] = DOMAIN offers[h] \cup {f.sid} /\ offers'[h][f.sid] = r
          /\ \A s \in DOMAIN offers[h] : offers'[h][s] = offers[h][s]
      BY <2>1, <3>1, <3>3 DEF EpkInv, RowsInv, WithRow
    <3>5. RowsInv'
      BY <2>1, <3>2, <3>3, <3>4 DEF EpkInv, RowsInv
    <3>6. ASSUME NEW g \in Installs, NEW s \in DOMAIN offers[g]
          PROVE  s \in DOMAIN offers'[g] /\ offers'[g][s] = offers[g][s]
      BY <2>1, <3>4
    <3>7. ASSUME NEW g \in Installs, NEW s \in DOMAIN offers[g]
          PROVE  offers[g][s].key = (offers[g][s].key /\ ~offers[g][s].revoked)
      <4>1. offers[g][s].key \in BOOLEAN /\ offers[g][s].revoked \in BOOLEAN
            /\ ~(offers[g][s].key /\ offers[g][s].revoked)
        BY DEF EpkInv, RowsInv, Rows
      <4>. QED BY <4>1
    <3>8. Final
      BY <3>6, <3>7 DEF Final
    <3>. QED BY <3>5, <3>8
  <2>. QED BY <2>2, <2>3
<1>2. ASSUME NEW h \in Installs, NEW s \in DOMAIN offers[h], NEW r \in Rows,
             offers' = [offers EXCEPT ![h] = [offers[h] EXCEPT ![s] = r]],
             offers[h][s].revoked => r.revoked, offers[h][s].consumed => r.consumed,
             r.key = (offers[h][s].key /\ ~r.revoked)
      PROVE  RowsInv' /\ Final
  <2>1. /\ DOMAIN offers' = Installs
        /\ \A g \in Installs : DOMAIN offers'[g] = DOMAIN offers[g]
        /\ \A g \in Installs : \A x \in DOMAIN offers[g] :
              offers'[g][x] = IF g = h /\ x = s THEN r ELSE offers[g][x]
    BY <1>2 DEF EpkInv, RowsInv
  <2>2. ~(r.key /\ r.revoked)
    BY <1>2
  <2>3. RowsInv'
    BY <2>1, <2>2 DEF EpkInv, RowsInv
  <2>4. ASSUME NEW g \in Installs, NEW x \in DOMAIN offers[g]
        PROVE  offers[g][x].key = (offers[g][x].key /\ ~offers[g][x].revoked)
    <3>1. offers[g][x].key \in BOOLEAN /\ offers[g][x].revoked \in BOOLEAN
          /\ ~(offers[g][x].key /\ offers[g][x].revoked)
      BY DEF EpkInv, RowsInv, Rows
    <3>. QED BY <3>1
  <2>5. Final
    BY <1>2, <2>1, <2>4 DEF Final
  <2>. QED BY <2>3, <2>5
<1>3. ASSUME NEW p \in EpkProcs, Revoke(p) PROVE RowsInv' /\ Final
  <2>. DEFINE h == Home(p)
              s == task[p].sid
              r == [offers[h][s] EXCEPT !.revoked = TRUE, !.key = FALSE]
  <2>1. h \in Installs /\ s \in DOMAIN offers[h]
    BY <1>3, HomeIs DEF Revoke, EpkInv, TaskInv, Has
  <2>2. offers[h][s] \in Rows
    BY <2>1 DEF EpkInv, RowsInv
  <2>3. r \in Rows /\ r.revoked /\ ~r.key /\ r.consumed = offers[h][s].consumed
    BY <2>2 DEF Rows
  <2>4. offers' = [offers EXCEPT ![h] = [offers[h] EXCEPT ![s] = r]]
    BY <1>3, <2>1 DEF Revoke, EpkInv, RowsInv
  <2>5. r.key = (offers[h][s].key /\ ~r.revoked) /\ (offers[h][s].revoked => r.revoked)
        /\ (offers[h][s].consumed => r.consumed)
    <3>1. r.key \in BOOLEAN
      BY <2>3 DEF Rows
    <3>. HIDE DEF h, s, r
    <3>. QED BY <2>3, <3>1
  <2>. HIDE DEF h, s, r
  <2>. QED BY <1>2, <2>1, <2>3, <2>4, <2>5
<1>4. ASSUME NEW p \in EpkProcs, MarkConsumed(p) PROVE RowsInv' /\ Final
  <2>. DEFINE h == Home(p)
              s == task[p].sid
              r == [offers[h][s] EXCEPT !.consumed = TRUE]
  <2>1. h \in Installs /\ s \in DOMAIN offers[h]
    BY <1>4, HomeIs DEF MarkConsumed, EpkInv, TaskInv, Has
  <2>2. offers[h][s] \in Rows /\ ~(offers[h][s].key /\ offers[h][s].revoked)
    BY <2>1 DEF EpkInv, RowsInv
  <2>3. r \in Rows /\ r.consumed /\ r.key = offers[h][s].key /\ r.revoked = offers[h][s].revoked
        /\ r.key \in BOOLEAN /\ r.revoked \in BOOLEAN
    BY <2>2 DEF Rows
  <2>4. offers' = [offers EXCEPT ![h] = [offers[h] EXCEPT ![s] = r]]
    BY <1>4, <2>1 DEF MarkConsumed, EpkInv, RowsInv
  <2>5. r.key = (offers[h][s].key /\ ~r.revoked) /\ (offers[h][s].revoked => r.revoked)
        /\ (offers[h][s].consumed => r.consumed)
    <3>. HIDE DEF h, s, r
    <3>. QED BY <2>2, <2>3
  <2>. HIDE DEF h, s, r
  <2>. QED BY <1>2, <2>1, <2>3, <2>4, <2>5
<1>5. ASSUME NEW p \in EpkProcs, Generate(p) \/ Import(p) \/ Expire(p) \/ CheckConsumed(p) \/ EpkAudit(p)
                                 \/ WriteOffer(p) \/ EpkKilled(p)
      PROVE  RowsInv' /\ Final
  <2>1. UNCHANGED offers
    BY <1>5 DEF Generate, Import, Expire, CheckConsumed, EpkAudit, WriteOffer, EpkKilled, EpkKept
  <2>. QED BY <2>1, SameRows
<1>6. CASE Tick
  BY <1>6, SameRows DEF Tick
<1>. QED BY <1>1, <1>3, <1>4, <1>5, <1>6 DEF OffersNext

(* The types of the rest: every step writes audit rows and offers of the right shape. *)
LEMMA PlainStep ==
    ASSUME EpkInv, OffersNext
    PROVE  PlainInv' /\ \A h \in Installs : epkLog[h] \subseteq epkLog'[h]
<1>. USE DEF EpkInv, PlainInv, EpkKept
<1>1. ASSUME NEW p \in EpkProcs, Generate(p) \/ Import(p) \/ Expire(p) \/ CheckConsumed(p)
      PROVE  PlainInv' /\ epkLog' = epkLog
  <2>1. UNCHANGED <<epkLog, offerFiles, now>> /\ epkCommands < MaxEpkCommands /\ epkCommands' = epkCommands + 1
    BY <1>1 DEF Generate, Import, Expire, CheckConsumed, EpkStart
  <2>2. UNCHANGED task \/ \E t : task' = [task EXCEPT ![p] = t]
    BY <1>1 DEF Generate, Import, Expire, CheckConsumed, EpkGoto
  <2>3. DOMAIN task' = EpkProcs
    BY <2>2
  <2>. QED BY <2>1, <2>3, EpkAssumption
<1>2. ASSUME NEW p \in EpkProcs, StoreOffer(p) \/ Revoke(p) \/ MarkConsumed(p) \/ EpkKilled(p)
      PROVE  PlainInv' /\ epkLog' = epkLog
  <2>1. UNCHANGED <<epkLog, offerFiles, now, epkCommands>>
    BY <1>2 DEF StoreOffer, Revoke, MarkConsumed, EpkKilled
  <2>2. \E t : task' = [task EXCEPT ![p] = t]
    BY <1>2 DEF StoreOffer, Revoke, MarkConsumed, EpkKilled, EpkGoto
  <2>3. DOMAIN task' = EpkProcs
    BY <2>2
  <2>. QED BY <2>1, <2>3
<1>3. ASSUME NEW p \in EpkProcs, EpkAudit(p)
      PROVE  PlainInv' /\ \A h \in Installs : epkLog[h] \subseteq epkLog'[h]
  <2>1. UNCHANGED <<offerFiles, now, epkCommands>> /\ DOMAIN task' = EpkProcs
    BY <1>3 DEF EpkAudit, EpkGoto
  <2>2. task[p].row \in AuditRows /\ Home(p) \in Installs
    BY <1>3, HomeIs DEF EpkAudit, TaskInv
  <2>3. epkLog' = epkLog \/ epkLog' = [epkLog EXCEPT ![Home(p)] = @ \cup {task[p].row}]
    BY <1>3 DEF EpkAudit
  <2>4. epkLog' \in [Installs -> SUBSET AuditRows] /\ \A h \in Installs : epkLog[h] \subseteq epkLog'[h]
    BY <2>2, <2>3
  <2>. QED BY <2>1, <2>4
<1>4. ASSUME NEW p \in EpkProcs, WriteOffer(p) PROVE PlainInv' /\ epkLog' = epkLog
  <2>1. UNCHANGED <<epkLog, now, epkCommands>> /\ DOMAIN task' = EpkProcs
        /\ (offerFiles' = offerFiles \/ offerFiles' = offerFiles \cup {task[p].file})
    BY <1>4 DEF WriteOffer, EpkGoto
  <2>2. task[p].file \in Offers
    BY <1>4 DEF WriteOffer, TaskInv, Keyed
  <2>. QED BY <2>1, <2>2
<1>5. CASE Tick
  BY <1>5, EpkAssumption DEF Tick
<1>. QED BY <1>1, <1>2, <1>3, <1>4, <1>5 DEF OffersNext

(* What was true of an offer's row and its audit entry stays true. *)
LEMMA StaysAnswerable ==
    ASSUME EpkInv, RowsInv', Final, \A h \in Installs : epkLog[h] \subseteq epkLog'[h]
    PROVE  /\ \A f : Keyed(f, offers) => Keyed(f, offers')
           /\ \A f \in Offers : OfferLogged(f, epkLog) => OfferLogged(f, epkLog')
           /\ \A p \in EpkProcs : \A s : Has(Home(p), s) => s \in DOMAIN offers'[Home(p)]
<1>1. ASSUME NEW f, Keyed(f, offers) PROVE Keyed(f, offers')
  <2>. DEFINE h == f.fp
              s == f.sid
  <2>1. f \in Offers /\ h \in Installs /\ s \in DOMAIN offers[h] /\ offers[h][s].key # offers[h][s].revoked
    BY <1>1, OfferFields DEF Keyed
  <2>2. /\ s \in DOMAIN offers'[h]
        /\ offers[h][s].revoked => offers'[h][s].revoked
        /\ offers'[h][s].key = (offers[h][s].key /\ ~offers'[h][s].revoked)
    BY <2>1 DEF Final
  <2>3. /\ offers[h][s].key \in BOOLEAN /\ offers[h][s].revoked \in BOOLEAN
        /\ offers'[h][s].key \in BOOLEAN /\ offers'[h][s].revoked \in BOOLEAN
    BY <2>1, <2>2 DEF EpkInv, RowsInv, Rows
  <2>4. offers'[h][s].key # offers'[h][s].revoked
    BY <2>1, <2>2, <2>3
  <2>. QED BY <2>1, <2>2, <2>4 DEF Keyed
<1>2. \A f \in Offers : OfferLogged(f, epkLog) => OfferLogged(f, epkLog')
  BY OfferFields DEF OfferLogged
<1>3. \A p \in EpkProcs : \A s : Has(Home(p), s) => s \in DOMAIN offers'[Home(p)]
  BY HomeIs DEF Final, Has
<1>. QED BY <1>1, <1>2, <1>3

(* A process that does not move keeps what it knows. *)
LEMMA OthersStay ==
    ASSUME EpkInv, RowsInv', Final, \A h \in Installs : epkLog[h] \subseteq epkLog'[h],
           NEW p \in EpkProcs, task'[p] = task[p]
    PROVE  TaskInv(p)'
<1>1. TaskInv(p)
  BY DEF EpkInv
<1>2. task[p].at = "audit" /\ task[p].next # Resting => Keyed(task[p].next.file, offers')
  BY <1>1, StaysAnswerable DEF TaskInv
<1>3. task[p].at = "write" => Keyed(task[p].file, offers') /\ OfferLogged(task[p].file, epkLog')
  BY <1>1, StaysAnswerable DEF TaskInv, Keyed
<1>4. task[p].at \in {"revoke", "consume"} => task[p].sid \in DOMAIN offers'[Home(p)]
  BY <1>1, StaysAnswerable DEF TaskInv
<1>. QED BY <1>1, <1>2, <1>3, <1>4 DEF TaskInv, Has

(* A process that is back at rest. *)
LEMMA RestingInv ==
    ASSUME NEW p \in EpkProcs, task'[p] = Resting
    PROVE  TaskInv(p)'
BY DEF TaskInv, Resting

(* The process that moves. *)
LEMMA TaskStep ==
    ASSUME EpkInv, RowsInv', PlainInv', Final, \A h \in Installs : epkLog[h] \subseteq epkLog'[h],
           NEW p \in EpkProcs,
           \/ Generate(p) \/ Import(p) \/ Expire(p) \/ CheckConsumed(p)
           \/ StoreOffer(p) \/ EpkAudit(p) \/ WriteOffer(p) \/ Revoke(p) \/ MarkConsumed(p)
           \/ EpkKilled(p)
    PROVE  /\ TaskInv(p)'
           /\ \A q \in EpkProcs : q # p => task'[q] = task[q]
<1>. USE DEF EpkKept
<1>1. DOMAIN task = EpkProcs /\ TaskInv(p) /\ Home(p) \in Installs
  BY HomeIs DEF EpkInv, PlainInv
<1>2. UNCHANGED task \/ \E t : task' = [task EXCEPT ![p] = t]
  BY DEF Generate, Import, Expire, CheckConsumed, StoreOffer, EpkAudit, WriteOffer, Revoke, MarkConsumed,
         EpkKilled, EpkGoto
<1>3. \A q \in EpkProcs : q # p => task'[q] = task[q]
  BY <1>1, <1>2
<1>4. CASE UNCHANGED task
  BY <1>4, OthersStay
<1>5. CASE task'[p] = Resting
  BY <1>3, <1>5, RestingInv
<1>6. CASE Generate(p)
  <2>1. SUFFICES ASSUME NEW life \in Lifetimes, NEW to \in SUBSET Installs, NEW s \in Sids,
                        task' = [task EXCEPT ![p] = [at |-> "store", mine |-> TRUE,
                                    file |-> MakeOffer(Home(p), s, to, now + life)]]
                 PROVE  TaskInv(p)'
    BY <1>3, <1>4, <1>6 DEF Generate, EpkGoto
  <2>. DEFINE f == MakeOffer(Home(p), s, to, now + life)
  <2>2. now + life \in Int
    BY EpkAssumption DEF EpkInv, PlainInv
  <2>3. f \in Offers /\ f.fp = Home(p)
    BY <1>1, <2>2 DEF MakeOffer, Offers
  <2>. HIDE DEF f
  <2>4. task'[p] = [at |-> "store", mine |-> TRUE, file |-> f]
    BY <1>1, <2>1 DEF f
  <2>. QED BY <2>3, <2>4 DEF TaskInv
<1>7. CASE Import(p)
  <2>1. PICK f \in offerFiles, want \in Installs :
             IF ~CanDecrypt(Home(p), f) THEN UNCHANGED task
             ELSE LET r == Reason(Home(p), f, want) IN
                  IF r = "none" THEN EpkGoto(p, [at |-> "store", file |-> f, mine |-> FALSE])
                  ELSE EpkGoto(p, [at |-> "audit", row |-> <<"EpkReject", f.sid, r>>, next |-> Resting])
    BY <1>7 DEF Import
  <2>. DEFINE r == Reason(Home(p), f, want)
  <2>2. f \in Offers /\ f.sid \in Sids /\ r \in EpkReasons
    <3>1. f \in Offers
      BY DEF EpkInv, PlainInv
    <3>2. r \in EpkReasons
      BY DEF Reason, EpkReasons
    <3>. QED BY <3>1, <3>2, OfferFields
  <2>. HIDE DEF r
  <2>3. CASE task' = [task EXCEPT ![p] = [at |-> "store", file |-> f, mine |-> FALSE]]
    <3>1. task'[p] = [at |-> "store", file |-> f, mine |-> FALSE]
      BY <1>1, <2>3
    <3>. QED BY <1>3, <2>2, <3>1 DEF TaskInv
  <2>4. CASE task' = [task EXCEPT ![p] = [at |-> "audit", row |-> <<"EpkReject", f.sid, r>>, next |-> Resting]]
    <3>1. task'[p] = [at |-> "audit", row |-> <<"EpkReject", f.sid, r>>, next |-> Resting]
      BY <1>1, <2>4
    <3>2. <<"EpkReject", f.sid, r>> \in AuditRows
      BY <2>2 DEF AuditRows
    <3>. QED BY <1>3, <3>1, <3>2 DEF TaskInv
  <2>. QED BY <1>3, <1>4, <2>1, <2>3, <2>4 DEF EpkGoto, r
<1>8. CASE Expire(p)
  <2>1. SUFFICES ASSUME NEW s \in Sids, Has(Home(p), s),
                        task' = [task EXCEPT ![p] = [at |-> "revoke", sid |-> s]]
                 PROVE  TaskInv(p)'
    BY <1>3, <1>4, <1>8 DEF Expire, EpkGoto
  <2>2. task'[p] = [at |-> "revoke", sid |-> s] /\ s \in DOMAIN offers'[Home(p)]
    BY <1>1, <2>1, StaysAnswerable
  <2>. QED BY <2>2 DEF TaskInv, Has
<1>9. CASE CheckConsumed(p)
  <2>1. SUFFICES ASSUME NEW s \in Sids, Has(Home(p), s),
                        task' = [task EXCEPT ![p] = [at |-> "consume", sid |-> s]]
                 PROVE  TaskInv(p)'
    BY <1>3, <1>4, <1>9 DEF CheckConsumed, EpkGoto
  <2>2. task'[p] = [at |-> "consume", sid |-> s] /\ s \in DOMAIN offers'[Home(p)]
    BY <1>1, <2>1, StaysAnswerable
  <2>. QED BY <2>2 DEF TaskInv, Has
<1>10. CASE StoreOffer(p)
  <2>. DEFINE f == task[p].file
              h == Home(p)
              r == RowOf(f, task[p].mine)
  <2>1. f \in Offers /\ f.sid \in Sids /\ task[p].mine \in BOOLEAN /\ (task[p].mine => f.fp = h)
    BY <1>1, <1>10, OfferFields DEF StoreOffer, TaskInv
  <2>2. CASE Has(h, f.sid)
    BY <1>1, <1>3, <1>5, <1>10, <2>2 DEF StoreOffer, EpkGoto
  <2>3. CASE ~Has(h, f.sid)
    <3>1. offers' = [offers EXCEPT ![h] = WithRow(offers[h], f.sid, r)] /\ task'[p] = Stored(task[p])
      BY <1>1, <1>10, <2>3 DEF StoreOffer, EpkGoto
    <3>2. r.key = task[p].mine /\ ~r.revoked /\ r.revoked \in BOOLEAN
      BY DEF RowOf
    <3>3. f.sid \in DOMAIN offers'[h] /\ offers'[h][f.sid] = r
      <4>. HIDE DEF f, h, r
      <4>. QED BY <1>1, <3>1 DEF EpkInv, RowsInv, WithRow, h
    <3>4. task[p].mine => Keyed(f, offers')
      BY <2>1, <3>2, <3>3 DEF Keyed
    <3>5. <<"EpkGenerate", f.sid, "none">> \in AuditRows /\ <<"EpkImport", f.sid, "none">> \in AuditRows
      BY <2>1 DEF AuditRows, EpkReasons
    <3>6. CASE task[p].mine
      <4>1. task'[p] = [at |-> "audit", row |-> <<"EpkGenerate", f.sid, "none">>,
                        next |-> [at |-> "write", file |-> f]]
        BY <3>1, <3>6 DEF Stored
      <4>. HIDE DEF f
      <4>. QED BY <1>3, <2>1, <3>4, <3>5, <3>6, <4>1 DEF TaskInv
    <3>7. CASE ~task[p].mine
      <4>1. task'[p] = [at |-> "audit", row |-> <<"EpkImport", f.sid, "none">>, next |-> Resting]
        BY <3>1, <3>7 DEF Stored
      <4>. HIDE DEF f
      <4>. QED BY <1>3, <3>5, <4>1 DEF TaskInv
    <3>. QED BY <3>6, <3>7
  <2>. QED BY <2>2, <2>3
<1>11. CASE EpkAudit(p)
  <2>1. SUFFICES ASSUME task[p].next # Resting, task' = [task EXCEPT ![p] = task[p].next],
                        epkLog' = [epkLog EXCEPT ![Home(p)] = @ \cup {task[p].row}]
                 PROVE  TaskInv(p)'
    BY <1>1, <1>3, <1>5, <1>11 DEF EpkAudit, EpkGoto
  <2>. DEFINE n == task[p].next
  <2>2. /\ n.at = "write" /\ n.file.fp = Home(p) /\ Keyed(n.file, offers)
        /\ task[p].row = <<"EpkGenerate", n.file.sid, "none">>
    BY <1>1, <1>11, <2>1 DEF EpkAudit, TaskInv
  <2>3. Keyed(n.file, offers')
    BY <2>2, StaysAnswerable
  <2>4. OfferLogged(n.file, epkLog')
    BY <1>1, <2>1, <2>2 DEF OfferLogged, EpkInv, PlainInv
  <2>5. task'[p] = n
    BY <1>1, <2>1
  <2>. HIDE DEF n
  <2>. QED BY <2>2, <2>3, <2>4, <2>5 DEF TaskInv
<1>12. CASE Revoke(p)
  <2>. DEFINE s == task[p].sid
  <2>1. task'[p] = [at |-> "audit", row |-> <<"EpkReject", s, "manual_revoke">>, next |-> Resting]
    BY <1>1, <1>12 DEF Revoke, EpkGoto
  <2>2. s \in Sids
    BY <1>1, <1>12 DEF Revoke, TaskInv, Has, EpkInv, RowsInv
  <2>3. <<"EpkReject", s, "manual_revoke">> \in AuditRows
    BY <2>2 DEF AuditRows, EpkReasons
  <2>. QED BY <1>3, <2>1, <2>3 DEF TaskInv
<1>13. CASE WriteOffer(p) \/ MarkConsumed(p) \/ EpkKilled(p)
  BY <1>1, <1>3, <1>5, <1>13 DEF WriteOffer, MarkConsumed, EpkKilled, EpkGoto
<1>. QED BY <1>6, <1>7, <1>8, <1>9, <1>10, <1>11, <1>12, <1>13

(* A file is written only when its row and its audit entry are there. *)
LEMMA FilesStep ==
    ASSUME EpkInv, OffersNext, RowsInv', Final, \A h \in Installs : epkLog[h] \subseteq epkLog'[h]
    PROVE  FilesInv'
<1>1. offerFiles' = offerFiles \/ \E p \in EpkProcs : WriteOffer(p)
  BY DEF OffersNext, Generate, Import, Expire, CheckConsumed, StoreOffer, EpkAudit, Revoke, MarkConsumed,
         EpkKilled, Tick, EpkKept
<1>2. ASSUME NEW f \in offerFiles \ Received PROVE Keyed(f, offers') /\ OfferLogged(f, epkLog')
  <2>1. Keyed(f, offers) /\ OfferLogged(f, epkLog) /\ f \in Offers
    BY DEF EpkInv, FilesInv, PlainInv
  <2>. QED BY <2>1, StaysAnswerable
<1>3. ASSUME NEW p \in EpkProcs, WriteOffer(p)
      PROVE  Keyed(task[p].file, offers') /\ OfferLogged(task[p].file, epkLog')
  <2>1. Keyed(task[p].file, offers) /\ OfferLogged(task[p].file, epkLog) /\ task[p].file \in Offers
    BY <1>3 DEF WriteOffer, EpkInv, TaskInv, Keyed
  <2>. QED BY <2>1, StaysAnswerable
<1>4. CASE offerFiles' = offerFiles
  BY <1>2, <1>4 DEF FilesInv
<1>5. ASSUME NEW p \in EpkProcs, WriteOffer(p) PROVE FilesInv'
  <2>1. offerFiles' \subseteq offerFiles \cup {task[p].file}
    BY <1>5 DEF WriteOffer
  <2>2. ASSUME NEW f \in offerFiles' \ Received PROVE Keyed(f, offers') /\ OfferLogged(f, epkLog')
    <3>1. CASE f \in offerFiles
      BY <1>2, <3>1
    <3>2. CASE f = task[p].file
      BY <1>3, <1>5, <3>2
    <3>. QED BY <2>1, <3>1, <3>2
  <2>. QED BY <2>2 DEF FilesInv
<1>. QED BY <1>1, <1>4, <1>5

(* One step of any process. *)
LEMMA EpkStep ==
    ASSUME EpkInv, OffersNext
    PROVE  EpkInv' /\ Final
<1>1. RowsInv' /\ Final /\ PlainInv' /\ \A h \in Installs : epkLog[h] \subseteq epkLog'[h]
  BY RowsStep, PlainStep
<1>2. FilesInv'
  BY <1>1, FilesStep
<1>3. CASE Tick
  <2>1. \A p \in EpkProcs : task'[p] = task[p]
    BY <1>3 DEF Tick
  <2>2. \A p \in EpkProcs : TaskInv(p)'
    BY <1>1, <2>1, OthersStay
  <2>. QED BY <1>1, <1>2, <2>2 DEF EpkInv
<1>4. ASSUME NEW p \in EpkProcs,
             \/ Generate(p) \/ Import(p) \/ Expire(p) \/ CheckConsumed(p)
             \/ StoreOffer(p) \/ EpkAudit(p) \/ WriteOffer(p) \/ Revoke(p) \/ MarkConsumed(p)
             \/ EpkKilled(p)
      PROVE  EpkInv'
  <2>1. TaskInv(p)' /\ \A q \in EpkProcs : q # p => task'[q] = task[q]
    BY <1>1, <1>4, TaskStep
  <2>2. \A q \in EpkProcs : TaskInv(q)'
    BY <1>1, <2>1, OthersStay
  <2>. QED BY <1>1, <1>2, <2>2 DEF EpkInv
<1>. QED BY <1>1, <1>3, <1>4 DEF OffersNext

(* A step that leaves everything alone. *)
LEMMA EpkStutter ==
    ASSUME EpkInv, UNCHANGED epkVars
    PROVE  EpkInv' /\ Final
<1>1. RowsInv' /\ Final
  BY SameRows DEF epkVars
<1>2. PlainInv' /\ FilesInv' /\ \A p \in EpkProcs : TaskInv(p)'
  BY DEF EpkInv, epkVars, PlainInv, FilesInv, TaskInv, Has
<1>. QED BY <1>1, <1>2 DEF EpkInv

-----------------------------------------------------------------------------
(* The inductive invariant of `galdra epk`: the row comes before its audit  *)
(* entry and both before the file, and a revoked row has no private key.    *)
THEOREM OffersInvariance == OffersSpec => []EpkInv
<1>1. OffersInit => EpkInv
  <2>1. SUFFICES ASSUME OffersInit PROVE EpkInv
    OBVIOUS
  <2>2. DOMAIN offers = Installs /\ \A h \in Installs : DOMAIN offers[h] = {}
    BY <2>1 DEF OffersInit
  <2>3. PlainInv
    BY <2>1, EpkAssumption, ReceivedAssumption DEF OffersInit, PlainInv
  <2>4. \A p \in EpkProcs : TaskInv(p)
    BY <2>1 DEF OffersInit, TaskInv, Resting
  <2>. QED BY <2>1, <2>2, <2>3, <2>4 DEF EpkInv, RowsInv, FilesInv, OffersInit
<1>2. EpkInv /\ [OffersNext]_epkVars => EpkInv'
  BY EpkStep, EpkStutter
<1>. QED BY <1>1, <1>2, PTL DEF OffersSpec

(* Tables, audit logs, files and running commands have the shapes the code  *)
(* of epk.rs gives them.                                                    *)
THEOREM OffersTypeCorrect == OffersSpec => []OffersTypeOK
<1>1. EpkInv => OffersTypeOK
  BY DEF EpkInv, RowsInv, PlainInv, TaskInv, OffersTypeOK, AuditRows
<1>. QED BY <1>1, OffersInvariance, PTL

(* generate_offer, store_offer, audit_append and run_generate: whoever      *)
(* holds an offer file can be answered by its issuer, unless the offer was  *)
(* revoked or consumed, wherever a process was killed.                      *)
THEOREM OffersAreAnswerable == OffersSpec => []OfferAnswerable
<1>1. EpkInv => OfferAnswerable
  <2>1. SUFFICES ASSUME EpkInv, NEW f \in offerFiles \ Received
                 PROVE  /\ Has(f.fp, f.sid)
                        /\ offers[f.fp][f.sid].key \/ offers[f.fp][f.sid].revoked
                        /\ <<"EpkGenerate", f.sid, "none">> \in epkLog[f.fp]
    BY DEF OfferAnswerable
  <2>2. Keyed(f, offers) /\ OfferLogged(f, epkLog) /\ f.fp \in Installs
    BY <2>1, OfferFields DEF EpkInv, FilesInv, Keyed
  <2>3. offers[f.fp][f.sid].key \in BOOLEAN /\ offers[f.fp][f.sid].revoked \in BOOLEAN
    BY <2>1, <2>2 DEF EpkInv, RowsInv, Keyed, Rows
  <2>. QED BY <2>2, <2>3 DEF Keyed, OfferLogged, Has
<1>. QED BY <1>1, OffersInvariance, PTL

(* revoke_offer, mark_consumed and store_offer: a revoked offer stays       *)
(* revoked and its key gone, a consumed one consumed, no row disappears and *)
(* none gains a private key.                                                *)
THEOREM RevocationIsFinal == OffersSpec => RevocationFinal
<1>1. EpkInv /\ [OffersNext]_epkVars => [Final]_offers
  <2>1. ASSUME EpkInv, OffersNext PROVE Final
    BY <2>1, EpkStep
  <2>2. ASSUME EpkInv, UNCHANGED epkVars PROVE UNCHANGED offers
    BY <2>2 DEF epkVars
  <2>. QED BY <2>1, <2>2
<1>. DEFINE Asked ==
        \A h \in Installs : \A s \in DOMAIN offers[h] :
            /\ s \in DOMAIN offers'[h]
            /\ offers[h][s].revoked => offers'[h][s].revoked
            /\ offers[h][s].consumed => offers'[h][s].consumed
            /\ offers'[h][s].key => offers[h][s].key /\ ~offers'[h][s].revoked
<1>2. [Final]_offers => [Asked]_offers
  BY DEF Final
<1>3. OffersSpec => [][Asked]_offers
  <2>. HIDE DEF Asked
  <2>. QED BY <1>1, <1>2, OffersInvariance, PTL DEF OffersSpec
<1>. QED BY <1>3 DEF RevocationFinal

-----------------------------------------------------------------------------
(* `galdra keyserver`, for every list of nodes, every configuration and    *)
(* every sequence of lost, late and unreadable answers.                    *)

Bodies  == {"none", "not_json", "unreadable", "text", "accepted", "pending_confirmation", "error", "other",
            "records", "empty"}
Replies == Registries \X Nat \X Bodies
Found   == {"certs", "bad_cert", "empty", "error", "timeout"}
Servers == (STRING \X BOOLEAN) \cup {<<"wkd", FALSE>>}

Asking(ops, what, nodes, answers) ==
    [at : {"ask", "done"}, op : ops, what : what, endpoints : Seq(nodes), failover : BOOLEAN,
     asked : Seq(answers), out : {"none", "uploaded", "failed", "found", "not_found", "killed"}]

PushCall  == Asking({"push"}, Uploads, Registries, Replies)
FetchCall == Asking({"fetch"}, Nat, Registries, Replies)
HkpCall   == Asking({"hkp"}, Nat, Servers, Servers \X Found)

(* What nodes hold was sent by earlier commands, under an address of its certificate. *)
HeldInv ==
    /\ held \in [Registries -> SUBSET Uploads]
    /\ \A n \in Registries : \A u \in held[n] : u.email \in u.on /\ u.id < calls
    /\ calls \in 0..MaxCalls

CallInv ==
    /\ call.at \in {"none", "ask", "done"}
    /\ call.at # "none" => call \in PushCall \/ call \in FetchCall \/ call \in HkpCall
    /\ call.at = "ask" => Len(call.asked) < Len(call.endpoints)

(* A running push: every node it has asked left it in doubt, and no other holds the upload. *)
PushInv ==
    call.at = "ask" /\ call.op = "push" =>
        /\ call.what.email \in call.what.on /\ call.what.id < calls
        /\ \A i \in 1..Len(call.asked) : Undecided(call.asked[i])
        /\ \A n \in Registries : call.what \in held[n] =>
              \E i \in 1..Len(call.asked) : call.asked[i][1] = n

(* A push that is over: see UploadedOnce. *)
DoneInv ==
    call.at = "done" /\ call.op = "push" /\ call.asked # <<>> =>
        LET k == Len(call.asked) IN
        /\ \A n \in Registries : call.what \in held[n] =>
              \/ n = call.asked[k][1]
              \/ \E i \in 1..(k - 1) : Undecided(call.asked[i]) /\ call.asked[i][1] = n
        /\ call.out = "uploaded" => call.asked[k][1] \in Registries /\ call.what \in held[call.asked[k][1]]
        /\ call.out = "failed" /\ call.failover /\ Undecided(call.asked[k]) => k = Len(call.endpoints)

RegInv == HeldInv /\ CallInv /\ PushInv /\ DoneInv

-----------------------------------------------------------------------------
(* resolve_registry yields at least one node, each a real URL. *)
LEMMA Resolved ==
    ASSUME NEW r \in Resolutions, r.ok
    PROVE  r.endpoints \in Seq(Registries) /\ Len(r.endpoints) >= 1 /\ r.failover \in BOOLEAN
<1>1. PICK f \in Registries \cup {NoUrl}, e \in Registries \cup {NoUrl},
           s \in {{}} \cup {{t} : t \in Sections} : r = Resolve(f, e, s)
  BY DEF Resolutions
<1>2. ASSUME NEW u \in Registries
      PROVE  Single(u).endpoints \in Seq(Registries) /\ Len(Single(u).endpoints) >= 1
             /\ Single(u).failover \in BOOLEAN
  BY DEF Single
<1>3. Refused.ok = FALSE
  BY DEF Refused
<1>4. ASSUME NEW t \in Sections, FromSection(t).ok
      PROVE  /\ FromSection(t).endpoints \in Seq(Registries) /\ Len(FromSection(t).endpoints) >= 1
             /\ FromSection(t).failover \in BOOLEAN
  <2>. DEFINE n == Endpoints(t)
  <2>1. n \in Seq(Registries \cup {NoUrl}) /\ Len(n) >= 1
    <3>1. t.nodes \in Seq(Registries \cup {NoUrl}) /\ t.url \in Registries \cup {NoUrl}
      BY RegistryAssumption
    <3>2. CASE t.nodes = <<>>
      BY <3>1, <3>2 DEF Endpoints
    <3>3. CASE t.nodes # <<>>
      BY <3>1, <3>3 DEF Endpoints
    <3>. QED BY <3>2, <3>3
  <2>2. /\ \A i \in DOMAIN n : n[i] # NoUrl
        /\ FromSection(t) = [ok |-> TRUE, endpoints |-> n, failover |-> t.failover /\ Len(n) > 1]
    BY <1>3, <1>4 DEF FromSection
  <2>. HIDE DEF n
  <2>3. n \in Seq(Registries)
    BY <2>1, <2>2
  <2>4. (t.failover /\ Len(n) > 1) \in BOOLEAN
    OBVIOUS
  <2>. QED BY <2>1, <2>2, <2>3, <2>4
<1>5. \/ \E u \in Registries : r = Single(u)
      \/ r = Refused
      \/ \E t \in Sections : r = FromSection(t)
  <2>1. CASE f # NoUrl
    BY <1>1, <2>1 DEF Resolve
  <2>2. CASE f = NoUrl /\ e # NoUrl
    BY <1>1, <2>2 DEF Resolve
  <2>3. CASE f = NoUrl /\ e = NoUrl /\ s = {}
    BY <1>1, <2>3 DEF Resolve
  <2>4. CASE f = NoUrl /\ e = NoUrl /\ s # {}
    <3>1. r = FromSection(CHOOSE x \in s : TRUE)
      BY <1>1, <2>4 DEF Resolve
    <3>2. PICK t \in Sections : s = {t}
      BY <2>4
    <3>3. (CHOOSE x \in s : TRUE) = t
      BY <3>2
    <3>. QED BY <3>1, <3>3
  <2>. QED BY <2>1, <2>2, <2>3, <2>4
<1>. QED BY <1>2, <1>3, <1>4, <1>5

(* resolve_email_for_push names an address of the certificate. *)
LEMMA EmailIsOn ==
    ASSUME NEW emails \in TokenCerts, NEW given, EmailFor(emails, given) # NoAddress
    PROVE  EmailFor(emails, given) \in emails /\ EmailFor(emails, given) \in Addresses
<1>1. CASE given # NoAddress
  BY <1>1, RegistryAssumption DEF EmailFor
<1>2. CASE given = NoAddress
  <2>1. Cardinality(emails) = 1
    BY <1>2 DEF EmailFor
  <2>2. emails # {}
    BY <2>1, FS_EmptySet
  <2>. QED BY <1>2, <2>1, <2>2, RegistryAssumption DEF EmailFor
<1>. QED BY <1>1, <1>2

-----------------------------------------------------------------------------
(* The first states: no command, and the nodes hold nothing. *)
LEMMA RegistryInitInv == RegistryInit => RegInv
  BY RegistryAssumption DEF RegistryInit, RegInv, HeldInv, CallInv, PushInv, DoneInv

(* A command that did not start leaves the invariant as it is. *)
LEMMA NoCall ==
    ASSUME RegInv, Ready, calls' = calls + 1, UNCHANGED held, call' = [at |-> "none"]
    PROVE  RegInv'
<1>1. HeldInv'
  BY RegistryAssumption DEF RegInv, HeldInv, Ready, Uploads
<1>2. call'.at = "none"
  OBVIOUS
<1>. QED BY <1>1, <1>2 DEF RegInv, CallInv, PushInv, DoneInv

(* A command that starts has asked nobody yet; a push carries a number no node has seen. *)
LEMMA NewCall ==
    ASSUME RegInv, Ready, calls' = calls + 1, UNCHANGED held,
           NEW op, NEW what, NEW r, call' = Ask(op, what, r),
           \/ /\ op = "push" /\ what \in Uploads /\ what.email \in what.on /\ what.id = calls
              /\ r.endpoints \in Seq(Registries)
           \/ op = "fetch" /\ what \in Nat /\ r.endpoints \in Seq(Registries)
           \/ op = "hkp" /\ what \in Nat /\ r.endpoints \in Seq(Servers),
           r.failover \in BOOLEAN, Len(r.endpoints) >= 1
    PROVE  RegInv'
<1>1. HeldInv'
  BY RegistryAssumption DEF RegInv, HeldInv, Ready, Uploads
<1>2. /\ call' = [at |-> "ask", op |-> op, what |-> what, endpoints |-> r.endpoints,
                  failover |-> r.failover, asked |-> <<>>, out |-> "none"]
      /\ call'.at = "ask" /\ call'.op = op /\ call'.what = what /\ call'.asked = <<>>
      /\ call'.endpoints = r.endpoints
  BY DEF Ask
<1>3. CallInv'
  <2>1. call' \in PushCall \/ call' \in FetchCall \/ call' \in HkpCall
    <3>1. <<>> \in Seq(Replies) /\ <<>> \in Seq(Servers \X Found)
      OBVIOUS
    <3>2. CASE op = "push"
      BY <1>2, <3>1, <3>2 DEF PushCall, Asking
    <3>3. CASE op = "fetch"
      BY <1>2, <3>1, <3>3 DEF FetchCall, Asking
    <3>4. CASE op = "hkp"
      BY <1>2, <3>1, <3>4 DEF HkpCall, Asking
    <3>. QED BY <3>2, <3>3, <3>4
  <2>. QED BY <1>2, <2>1 DEF CallInv
<1>4. PushInv'
  <2>1. SUFFICES ASSUME op = "push" PROVE PushInv'
    BY <1>2 DEF PushInv
  <2>2. what.email \in what.on /\ what.id = calls /\ calls \in Nat
    BY <1>2, <2>1 DEF RegInv, HeldInv
  <2>3. \A n \in Registries : what \notin held[n]
    BY <2>2 DEF RegInv, HeldInv
  <2>. QED BY <1>2, <2>2, <2>3 DEF PushInv
<1>5. DoneInv'
  BY <1>2 DEF DoneInv
<1>. QED BY <1>1, <1>3, <1>4, <1>5 DEF RegInv

(* run_push up to its loop. *)
LEMMA StartPushStep == RegInv /\ StartPush => RegInv'
<1>. SUFFICES ASSUME RegInv, StartPush PROVE RegInv'
  OBVIOUS
<1>1. Ready /\ calls' = calls + 1 /\ UNCHANGED held
  BY DEF StartPush
<1>2. PICK a \in PushArgs, r \in Resolutions, emails \in TokenCerts, connected \in BOOLEAN :
        LET upload == [id |-> calls, email |-> EmailFor(emails, a.email), on |-> emails] IN
        call' = IF DmrIdOk(a.dmrId) /\ r.ok /\ ~a.dryRun /\ ~a.fixture /\ connected
                   /\ upload.email # NoAddress
                THEN Ask("push", upload, r) ELSE [at |-> "none"]
  BY DEF StartPush
<1>. DEFINE upload == [id |-> calls, email |-> EmailFor(emails, a.email), on |-> emails]
<1>3. CASE call' = [at |-> "none"]
  BY <1>1, <1>3, NoCall
<1>4. CASE call' = Ask("push", upload, r) /\ r.ok /\ upload.email # NoAddress
  <2>1. EmailFor(emails, a.email) \in emails /\ EmailFor(emails, a.email) \in Addresses
    BY <1>4, EmailIsOn
  <2>2. calls \in 0..MaxCalls
    BY DEF RegInv, HeldInv
  <2>3. upload \in Uploads /\ upload.email \in upload.on /\ upload.id = calls
    BY <2>1, <2>2 DEF Uploads
  <2>4. r.endpoints \in Seq(Registries) /\ Len(r.endpoints) >= 1 /\ r.failover \in BOOLEAN
    BY <1>4, Resolved
  <2>. HIDE DEF upload
  <2>. QED BY <1>1, <1>4, <2>3, <2>4, NewCall
<1>. QED BY <1>2, <1>3, <1>4

(* run_fetch up to its loop. *)
LEMMA StartFetchStep == RegInv /\ StartFetch => RegInv'
<1>. SUFFICES ASSUME RegInv, StartFetch PROVE RegInv'
  OBVIOUS
<1>1. Ready /\ calls' = calls + 1 /\ UNCHANGED held
  BY DEF StartFetch
<1>2. PICK r \in Resolutions, id \in 0..(MaxCalls - 1), argumentsOk \in BOOLEAN :
        call' = IF argumentsOk /\ r.ok THEN Ask("fetch", id, r) ELSE [at |-> "none"]
  BY DEF StartFetch
<1>3. CASE call' = [at |-> "none"]
  BY <1>1, <1>3, NoCall
<1>4. CASE call' = Ask("fetch", id, r) /\ r.ok
  <2>1. id \in Nat
    OBVIOUS
  <2>2. r.endpoints \in Seq(Registries) /\ Len(r.endpoints) >= 1 /\ r.failover \in BOOLEAN
    BY <1>4, Resolved
  <2>. QED BY <1>1, <1>4, <2>1, <2>2, NewCall
<1>. QED BY <1>2, <1>3, <1>4

(* keyserver_fetch and wkd_fetch up to their loop. *)
LEMMA StartHkpStep == RegInv /\ StartHkp => RegInv'
<1>. SUFFICES ASSUME RegInv, StartHkp PROVE RegInv'
  OBVIOUS
<1>1. Ready /\ calls' = calls + 1 /\ UNCHANGED held
  BY DEF StartHkp
<1>2. PICK l \in HkpLists \cup {Wkd} :
        call' = IF l = <<>> THEN [at |-> "none"] ELSE Ask("hkp", 0, [endpoints |-> l, failover |-> TRUE])
  BY DEF StartHkp
<1>3. CASE l = <<>>
  BY <1>1, <1>2, <1>3, NoCall
<1>4. CASE l # <<>>
  <2>. DEFINE r == [endpoints |-> l, failover |-> TRUE]
  <2>1. l \in Seq(Servers)
    <3>1. <<"wkd", FALSE>> \in Servers
      BY DEF Servers
    <3>2. Wkd \in Seq(Servers)
      BY <3>1 DEF Wkd
    <3>3. \A x \in HkpLists : x \in Seq(Servers)
      <4>1. STRING \X BOOLEAN \subseteq Servers
        BY DEF Servers
      <4>2. ASSUME NEW x \in Seq(STRING \X BOOLEAN) PROVE x \in Seq(Servers)
        BY <4>1
      <4>. QED BY <4>2, RegistryAssumption
    <3>. QED BY <3>2, <3>3
  <2>2. r.endpoints = l /\ r.failover \in BOOLEAN /\ Len(l) >= 1
    BY <2>1, <1>4
  <2>3. call' = Ask("hkp", 0, r)
    BY <1>2, <1>4
  <2>. HIDE DEF r
  <2>. QED BY <1>1, <2>1, <2>2, <2>3, NewCall
<1>. QED BY <1>3, <1>4

-----------------------------------------------------------------------------
Outs == {"none", "uploaded", "failed", "found", "not_found", "killed"}

Over(e, out) == [Answered(e) EXCEPT !.at = "done", !.out = out]

(* An answer is added to the list of a running command, which goes on or ends. *)
LEMMA AnswerRecorded ==
    ASSUME NEW ops, NEW what, NEW nodes, NEW answers,
           call \in Asking(ops, what, nodes, answers), NEW e \in answers, NEW out \in Outs
    PROVE  LET on == Answered(e)
               over == Over(e, out)
           IN /\ on \in Asking(ops, what, nodes, answers) /\ over \in Asking(ops, what, nodes, answers)
              /\ on.at = call.at /\ on.op = call.op /\ on.what = call.what /\ on.endpoints = call.endpoints
              /\ on.failover = call.failover /\ on.asked = Append(call.asked, e)
              /\ over.at = "done" /\ over.op = call.op /\ over.what = call.what
              /\ over.endpoints = call.endpoints /\ over.failover = call.failover
              /\ over.asked = Append(call.asked, e) /\ over.out = out
<1>1. Append(call.asked, e) \in Seq(answers)
  BY DEF Asking
<1>. QED BY <1>1 DEF Asking, Outs, Answered, Over

(* Which of the three loops a running command is in. *)
LEMMA KindOfCall ==
    ASSUME CallInv, call.at # "none"
    PROVE  /\ call.op = "push" => call \in PushCall
           /\ call.op = "fetch" => call \in FetchCall
           /\ call.op = "hkp" => call \in HkpCall
           /\ call.op \in {"push", "fetch", "hkp"}
  BY DEF CallInv, PushCall, FetchCall, HkpCall, Asking

(* The node asked next is one of the list. *)
LEMMA NextNode ==
    ASSUME NEW ops, NEW what, NEW nodes, NEW answers,
           call \in Asking(ops, what, nodes, answers), Len(call.asked) < Len(call.endpoints)
    PROVE  Node \in nodes
<1>1. call.asked \in Seq(answers) /\ call.endpoints \in Seq(nodes)
  BY DEF Asking
<1>2. Len(call.asked) + 1 \in 1..Len(call.endpoints)
  BY <1>1
<1>. QED BY <1>1, <1>2 DEF Node

(* Statuses are numbers and bodies are of the known kinds. *)
LEMMA AnswerTypes ==
    ASSUME NEW bodies \in SUBSET Bodies, NEW a \in Answers(bodies)
    PROVE  a = <<a[1], a[2]>> /\ a[1] \in Nat /\ a[2] \in Bodies
<1>1. CASE a \in {<<Lost, "none">>}
  BY <1>1 DEF Lost, Bodies
<1>2. CASE a \in {200} \X (bodies \cup {"not_json", "unreadable"})
  <2>1. PICK b \in bodies \cup {"not_json", "unreadable"} : a = <<200, b>>
    BY <1>2
  <2>. QED BY <2>1 DEF Bodies
<1>3. CASE a \in (StatusCodes \ {200}) \X {"text", "unreadable"}
  <2>1. PICK c \in StatusCodes, b \in {"text", "unreadable"} : a = <<c, b>>
    BY <1>3
  <2>. QED BY <2>1, RegistryAssumption DEF Bodies
<1>. QED BY <1>1, <1>2, <1>3 DEF Answers

-----------------------------------------------------------------------------
(* One turn of run_push's loop.  The node may take the upload whatever it   *)
(* answers, save an answer that says it did not; the loop goes on only when *)
(* the answer leaves that open.                                             *)
LEMMA PushToStep == RegInv /\ PushTo => RegInv'
<1>. SUFFICES ASSUME RegInv, PushTo PROVE RegInv'
  OBVIOUS
<1>1. call.at = "ask" /\ call.op = "push" /\ calls' = calls /\ HeldInv /\ CallInv /\ PushInv
  BY DEF PushTo, RegInv
<1>2. call \in PushCall /\ Len(call.asked) < Len(call.endpoints)
  BY <1>1, KindOfCall DEF CallInv
<1>3. /\ call.what \in Uploads /\ call.asked \in Seq(Replies) /\ call.endpoints \in Seq(Registries)
      /\ call.failover \in BOOLEAN
  BY <1>2 DEF PushCall, Asking
<1>. DEFINE bodies == {"accepted", "pending_confirmation", "error", "other"}
            N == Node
            k == Len(call.asked)
<1>4. N \in Registries
  BY <1>2, NextNode DEF PushCall
<1>5. PICK a \in Answers(bodies) :
        /\ \E keeps \in MayHold(a[1], a[2]) :
              held' = IF keeps THEN [held EXCEPT ![Node] = @ \cup {call.what}] ELSE held
        /\ IF GoesOn(a[1], a[2]) THEN call' = Answered(<<Node, a[1], a[2]>>)
           ELSE Ends(<<Node, a[1], a[2]>>,
                     IF a[1] = 200 /\ a[2] \in {"accepted", "pending_confirmation"}
                     THEN "uploaded" ELSE "failed")
  BY DEF PushTo
<1>. DEFINE e == <<N, a[1], a[2]>>
            told == a[1] = 200 /\ a[2] \in {"accepted", "pending_confirmation"}
            out == IF told THEN "uploaded" ELSE "failed"
<1>6. a[1] \in Nat /\ a[2] \in Bodies
  <2>1. bodies \in SUBSET Bodies
    BY DEF Bodies
  <2>. HIDE DEF bodies
  <2>. QED BY <2>1, AnswerTypes
<1>7. e \in Replies /\ e[1] = N /\ out \in Outs
  BY <1>4, <1>6 DEF Replies, Outs
<1>8. Undecided(e) <=> (a[1] = Lost \/ (GatewayStatus(a[1]) /\ a[2] # "unreadable"))
  BY DEF Undecided
<1>9. /\ held' = held \/ held' = [held EXCEPT ![N] = @ \cup {call.what}]
      /\ told => held' = [held EXCEPT ![N] = @ \cup {call.what}]
  <2>1. CASE told
    <3>1. ~((a[1] = 200 /\ a[2] \in {"unreadable", "not_json", "other"}) \/ a[1] \in {Lost, 500, 502, 504})
      BY <2>1 DEF Lost
    <3>2. MayHold(a[1], a[2]) = {TRUE}
      BY <2>1, <3>1, Zenon DEF MayHold
    <3>. QED BY <1>5, <3>2, Zenon
  <2>2. CASE ~told
    BY <1>5, <2>2
  <2>. QED BY <2>1, <2>2
<1>10. HeldInv'
  <2>1. call.what.email \in call.what.on /\ call.what.id < calls
    BY <1>1 DEF PushInv
  <2>. QED BY <1>1, <1>3, <1>4, <1>9, <2>1 DEF HeldInv
<1>11. \A n \in Registries : call.what \in held'[n] => n = N \/ call.what \in held[n]
  BY <1>1, <1>4, <1>9 DEF HeldInv
<1>12. told => call.what \in held'[N]
  BY <1>1, <1>4, <1>9 DEF HeldInv
<1>13. /\ \A i \in 1..k : Undecided(call.asked[i])
       /\ \A n \in Registries : call.what \in held[n] => \E i \in 1..k : call.asked[i][1] = n
  BY <1>1 DEF PushInv
<1>14. /\ Len(Append(call.asked, e)) = k + 1 /\ Append(call.asked, e)[k + 1] = e
       /\ \A i \in 1..k : Append(call.asked, e)[i] = call.asked[i]
       /\ k \in Nat /\ Append(call.asked, e) # <<>>
  <2>. HIDE DEF e
  <2>. QED BY <1>3, <1>7
<1>. DEFINE on == Answered(e)
            over == Over(e, out)
<1>15. /\ on \in PushCall /\ over \in PushCall
       /\ on.at = "ask" /\ on.op = "push" /\ on.what = call.what /\ on.endpoints = call.endpoints
       /\ on.asked = Append(call.asked, e)
       /\ over.at = "done" /\ over.op = "push" /\ over.what = call.what
       /\ over.endpoints = call.endpoints /\ over.failover = call.failover
       /\ over.asked = Append(call.asked, e) /\ over.out = out
  <2>. HIDE DEF e, out
  <2>. QED BY <1>1, <1>2, <1>7, AnswerRecorded DEF PushCall
<1>16. CASE GoesOn(a[1], a[2])
  <2>1. call' = on
    BY <1>5, <1>16
  <2>2. Undecided(e) /\ k + 1 < Len(call.endpoints)
    BY <1>8, <1>16 DEF GoesOn, More
  <2>. HIDE DEF on, over, e, N, k, out
  <2>3. CallInv'
    BY <2>1, <2>2, <1>14, <1>15 DEF CallInv
  <2>4. PushInv'
    <3>1. call.what.email \in call.what.on /\ call.what.id < calls
      BY <1>1 DEF PushInv
    <3>2. \A i \in 1..(k + 1) : Undecided(Append(call.asked, e)[i])
      BY <2>2, <1>13, <1>14
    <3>3. ASSUME NEW n \in Registries, call.what \in held'[n]
          PROVE  \E i \in 1..(k + 1) : Append(call.asked, e)[i][1] = n
      <4>1. CASE n = N
        BY <4>1, <1>7, <1>14
      <4>2. CASE call.what \in held[n]
        BY <4>2, <1>13, <1>14
      <4>. QED BY <3>3, <4>1, <4>2, <1>11
    <3>. DEFINE seq == Append(call.asked, e)
    <3>4. /\ call'.what = call.what /\ call'.asked = seq /\ calls' = calls /\ Len(seq) = k + 1
          /\ \A i \in 1..(k + 1) : Undecided(seq[i])
          /\ \A n \in Registries : call.what \in held'[n] => \E i \in 1..(k + 1) : seq[i][1] = n
      BY <1>1, <1>14, <1>15, <2>1, <3>2, <3>3
    <3>. HIDE DEF seq
    <3>. QED BY <3>1, <3>4 DEF PushInv, Undecided
  <2>5. DoneInv'
    BY <2>1, <1>15 DEF DoneInv
  <2>. QED BY <1>10, <2>3, <2>4, <2>5 DEF RegInv
<1>17. CASE ~GoesOn(a[1], a[2])
  <2>1. call' = over
    BY <1>5, <1>17 DEF Ends, Over
  <2>2. call.failover /\ Undecided(e) => k + 1 = Len(call.endpoints)
    BY <1>2, <1>3, <1>8, <1>17 DEF GoesOn, More
  <2>3. out = "uploaded" => told
    OBVIOUS
  <2>. HIDE DEF on, over, e, N, k, out, told
  <2>4. CallInv'
    BY <2>1, <1>15 DEF CallInv
  <2>5. PushInv'
    BY <2>1, <1>15 DEF PushInv
  <2>6. DoneInv'
    <3>1. ASSUME NEW n \in Registries, call.what \in held'[n]
          PROVE  \/ n = Append(call.asked, e)[k + 1][1]
                 \/ \E i \in 1..k : Undecided(Append(call.asked, e)[i]) /\ Append(call.asked, e)[i][1] = n
      <4>1. CASE n = N
        BY <4>1, <1>7, <1>14
      <4>2. CASE call.what \in held[n]
        BY <4>2, <1>13, <1>14
      <4>. QED BY <3>1, <4>1, <4>2, <1>11
    <3>2. (k + 1) - 1 = k
      BY <1>14
    <3>. DEFINE seq == Append(call.asked, e)
    <3>3. /\ call'.what = call.what /\ call'.asked = seq /\ call'.out = out /\ Len(seq) = k + 1
          /\ call'.endpoints = call.endpoints /\ call'.failover = call.failover
          /\ seq[k + 1] = e /\ e[1] = N
          /\ \A n \in Registries : call.what \in held'[n] =>
                n = seq[k + 1][1] \/ \E i \in 1..k : Undecided(seq[i]) /\ seq[i][1] = n
      BY <1>7, <1>14, <1>15, <2>1, <3>1
    <3>. HIDE DEF seq
    <3>. QED BY <1>4, <1>12, <2>2, <2>3, <3>2, <3>3 DEF DoneInv, Undecided
  <2>. QED BY <1>10, <2>4, <2>5, <2>6 DEF RegInv
<1>. QED BY <1>16, <1>17

(* A command other than push leaves the nodes, and what is said of pushes, alone. *)
LEMMA OtherCall ==
    ASSUME RegInv, UNCHANGED <<held, calls>>, CallInv', call'.op # "push", call'.at # "none"
    PROVE  RegInv'
  BY DEF RegInv, HeldInv, PushInv, DoneInv

(* One turn of run_fetch's loop. *)
LEMMA FetchFromStep == RegInv /\ FetchFrom => RegInv'
<1>. SUFFICES ASSUME RegInv, FetchFrom PROVE RegInv'
  OBVIOUS
<1>1. call.at = "ask" /\ call.op = "fetch" /\ UNCHANGED <<held, calls>> /\ CallInv
  BY DEF FetchFrom, RegInv
<1>2. call \in FetchCall /\ Len(call.asked) < Len(call.endpoints) /\ call.asked \in Seq(Replies)
  BY <1>1, KindOfCall DEF CallInv, FetchCall, Asking
<1>. DEFINE bodies == {"records", "empty"}
            N == Node
<1>3. N \in Registries
  BY <1>2, NextNode DEF FetchCall
<1>4. PICK a \in Answers(bodies), saved \in BOOLEAN :
        IF GoesOn(a[1], a[2]) THEN call' = Answered(<<Node, a[1], a[2]>>)
        ELSE Ends(<<Node, a[1], a[2]>>,
                  CASE a[2] = "unreadable" \/ a[1] = Lost -> "failed"
                    [] a[1] = 404 \/ (a[1] = 200 /\ a[2] = "empty") -> "not_found"
                    [] a[1] = 200 /\ a[2] = "records" /\ saved -> "found"
                    [] OTHER -> "failed")
  BY DEF FetchFrom
<1>. DEFINE e == <<N, a[1], a[2]>>
<1>5. PICK out \in Outs :
        IF GoesOn(a[1], a[2]) THEN call' = Answered(e) ELSE Ends(e, out)
  <2>1. CASE GoesOn(a[1], a[2])
    BY <1>4, <2>1 DEF Outs
  <2>2. CASE ~GoesOn(a[1], a[2])
    <3>1. \E out \in {"failed", "not_found", "found"} : Ends(e, out)
      BY <1>4, <2>2
    <3>. QED BY <2>2, <3>1 DEF Outs
  <2>. QED BY <2>1, <2>2
<1>6. a[1] \in Nat /\ a[2] \in Bodies
  <2>1. bodies \in SUBSET Bodies
    BY DEF Bodies
  <2>. HIDE DEF bodies
  <2>. QED BY <2>1, AnswerTypes
<1>7. e \in Replies
  BY <1>3, <1>6 DEF Replies
<1>8. Len(Append(call.asked, e)) = Len(call.asked) + 1
  <2>. HIDE DEF e
  <2>. QED BY <1>2, <1>7
<1>. HIDE DEF e
<1>9. /\ call' \in FetchCall /\ call'.op = "fetch" /\ call'.at \in {"ask", "done"}
      /\ call'.at = "ask" => Len(call'.asked) < Len(call'.endpoints)
  <2>. DEFINE on == Answered(e)
              over == Over(e, out)
  <2>1. /\ on \in FetchCall /\ over \in FetchCall
        /\ on.at = "ask" /\ on.op = "fetch" /\ on.endpoints = call.endpoints
        /\ on.asked = Append(call.asked, e) /\ over.at = "done" /\ over.op = "fetch"
    BY <1>1, <1>2, <1>7, AnswerRecorded DEF FetchCall
  <2>2. CASE GoesOn(a[1], a[2])
    <3>1. call' = on /\ Len(call.asked) + 1 < Len(call.endpoints)
      BY <1>5, <2>2 DEF GoesOn, More
    <3>. HIDE DEF on, over
    <3>. QED BY <2>1, <3>1, <1>8
  <2>3. CASE ~GoesOn(a[1], a[2])
    <3>1. call' = over
      BY <1>5, <2>3 DEF Over, Ends
    <3>. HIDE DEF on, over
    <3>. QED BY <2>1, <3>1
  <2>. QED BY <2>2, <2>3
<1>10. CallInv'
  BY <1>9 DEF CallInv
<1>. QED BY <1>1, <1>9, <1>10, OtherCall

(* One turn of keyserver_fetch's loop. *)
LEMMA SearchHkpStep == RegInv /\ SearchHkp => RegInv'
<1>. SUFFICES ASSUME RegInv, SearchHkp PROVE RegInv'
  OBVIOUS
<1>1. call.at = "ask" /\ call.op = "hkp" /\ UNCHANGED <<held, calls>> /\ CallInv
  BY DEF SearchHkp, RegInv
<1>2. call \in HkpCall /\ Len(call.asked) < Len(call.endpoints) /\ call.asked \in Seq(Servers \X Found)
  BY <1>1, KindOfCall DEF CallInv, HkpCall, Asking
<1>. DEFINE N == Node
<1>3. N \in Servers
  BY <1>2, NextNode DEF HkpCall
<1>4. PICK answer \in Found :
        LET a == <<Node, answer>> IN
        IF Node[2] \/ answer = "bad_cert" THEN Ends(a, "failed")
        ELSE IF answer = "certs" THEN Ends(a, "found")
        ELSE IF More THEN call' = Answered(a) ELSE Ends(a, "failed")
  BY DEF SearchHkp, Found
<1>. DEFINE e == <<N, answer>>
<1>5. \/ \E out \in Outs : call' = Over(e, out)
      \/ call' = Answered(e) /\ More
  BY <1>4 DEF Ends, Over, Outs
<1>6. e \in Servers \X Found
  BY <1>3
<1>. HIDE DEF e
<1>7. Len(Append(call.asked, e)) = Len(call.asked) + 1
  BY <1>2, <1>6
<1>8. /\ call' \in HkpCall /\ call'.op = "hkp" /\ call'.at \in {"ask", "done"}
      /\ call'.at = "ask" => Len(call'.asked) < Len(call'.endpoints)
  <2>1. CASE call' = Answered(e) /\ More
    <3>1. "failed" \in Outs
      BY DEF Outs
    <3>2. /\ Answered(e) \in HkpCall /\ Answered(e).at = "ask" /\ Answered(e).op = "hkp"
          /\ Answered(e).endpoints = call.endpoints /\ Answered(e).asked = Append(call.asked, e)
      BY <1>1, <1>2, <1>6, <3>1, AnswerRecorded DEF HkpCall
    <3>3. Len(call.asked) + 1 < Len(call.endpoints)
      BY <2>1 DEF More
    <3>. QED BY <1>7, <2>1, <3>2, <3>3
  <2>2. CASE \E out \in Outs : call' = Over(e, out)
    <3>1. PICK out \in Outs : call' = Over(e, out)
      BY <2>2
    <3>2. Over(e, out) \in HkpCall /\ Over(e, out).at = "done" /\ Over(e, out).op = "hkp"
      <4>1. call \in Asking({"hkp"}, Nat, Servers, Servers \X Found)
        BY <1>2 DEF HkpCall
      <4>2. /\ Over(e, out) \in Asking({"hkp"}, Nat, Servers, Servers \X Found)
            /\ Over(e, out).at = "done" /\ Over(e, out).op = call.op
        BY <1>6, <4>1, AnswerRecorded
      <4>. QED BY <1>1, <4>2 DEF HkpCall
    <3>. QED BY <3>1, <3>2
  <2>. QED BY <1>5, <2>1, <2>2
<1>9. CallInv'
  BY <1>8 DEF CallInv
<1>. QED BY <1>1, <1>8, <1>9, OtherCall

(* The command is killed: the servers keep what they have. *)
LEMMA ClientKilledStep == RegInv /\ ClientKilled => RegInv'
<1>. SUFFICES ASSUME RegInv, ClientKilled PROVE RegInv'
  OBVIOUS
<1>1. /\ call.at = "ask" /\ UNCHANGED <<held, calls>> /\ HeldInv /\ CallInv /\ PushInv
      /\ call' = [call EXCEPT !.at = "done", !.out = "killed"]
  BY DEF ClientKilled, Finish, RegInv
<1>2. /\ call'.at = "done" /\ call'.op = call.op /\ call'.what = call.what /\ call'.asked = call.asked
      /\ call'.out = "killed" /\ (call' \in PushCall \/ call' \in FetchCall \/ call' \in HkpCall)
  <2>1. CASE call \in PushCall
    BY <1>1, <2>1 DEF PushCall, Asking
  <2>2. CASE call \in FetchCall
    BY <1>1, <2>2 DEF FetchCall, Asking
  <2>3. CASE call \in HkpCall
    BY <1>1, <2>3 DEF HkpCall, Asking
  <2>. QED BY <1>1, <2>1, <2>2, <2>3 DEF CallInv
<1>3. CallInv' /\ PushInv'
  BY <1>2 DEF CallInv, PushInv
<1>4. HeldInv'
  BY <1>1 DEF HeldInv
<1>5. DoneInv'
  <2>1. SUFFICES ASSUME call.op = "push", call.asked # <<>> PROVE DoneInv'
    BY <1>2 DEF DoneInv
  <2>2. call.asked \in Seq(Replies)
    BY <1>1, <2>1, KindOfCall DEF PushCall, Asking
  <2>. DEFINE k == Len(call.asked)
  <2>3. k \in Nat /\ k >= 1
    BY <2>1, <2>2
  <2>4. /\ \A i \in 1..k : Undecided(call.asked[i])
        /\ \A n \in Registries : call.what \in held[n] => \E i \in 1..k : call.asked[i][1] = n
    BY <1>1, <2>1 DEF PushInv
  <2>5. \A n \in Registries : call.what \in held[n] =>
           n = call.asked[k][1] \/ \E i \in 1..(k - 1) : Undecided(call.asked[i]) /\ call.asked[i][1] = n
    BY <2>3, <2>4
  <2>. HIDE DEF k
  <2>6. k = Len(call'.asked) /\ held' = held
    BY <1>1, <1>2 DEF k
  <2>7. (call.out)' = "killed" /\ call'.what = call.what /\ call'.asked = call.asked
    BY <1>2
  <2>. QED BY <2>5, <2>6, <2>7 DEF DoneInv
<1>. QED BY <1>3, <1>4, <1>5 DEF RegInv

-----------------------------------------------------------------------------
(* RegInv holds in every state of the registry commands. *)
THEOREM RegistryInvariance == RegistrySpec => []RegInv
<1>1. RegInv /\ [RegistryNext]_registryVars => RegInv'
  <2>. SUFFICES ASSUME RegInv, [RegistryNext]_registryVars PROVE RegInv'
    OBVIOUS
  <2>1. CASE StartPush
    BY <2>1, StartPushStep
  <2>2. CASE StartFetch
    BY <2>2, StartFetchStep
  <2>3. CASE StartHkp
    BY <2>3, StartHkpStep
  <2>4. CASE PushTo
    BY <2>4, PushToStep
  <2>5. CASE FetchFrom
    BY <2>5, FetchFromStep
  <2>6. CASE SearchHkp
    BY <2>6, SearchHkpStep
  <2>7. CASE ClientKilled
    BY <2>7, ClientKilledStep
  <2>8. CASE UNCHANGED registryVars
    BY <2>8 DEF registryVars, RegInv, HeldInv, CallInv, PushInv, DoneInv
  <2>. QED BY <2>1, <2>2, <2>3, <2>4, <2>5, <2>6, <2>7, <2>8 DEF RegistryNext
<1>. QED BY <1>1, RegistryInitInv, PTL DEF RegistrySpec

(* The nodes hold uploads and nothing else, and a running command of push, fetch or the HKP *)
(* search always has a server of its list left to ask.                                      *)
THEOREM RegistryTypeCorrect == RegistrySpec => []RegistryTypeOK
<1>1. RegInv => RegistryTypeOK
  BY DEF RegInv, HeldInv, CallInv, RegistryTypeOK
<1>. QED BY <1>1, RegistryInvariance, PTL

(* run_push's loop: a push that reports success left the upload at the node it asked last, *)
(* no node holds it save that one and those whose reply was lost or came from a gateway,   *)
(* and it gives up only on an answer or at the end of the list.                            *)
THEOREM PushUploadsOnce == RegistrySpec => []UploadedOnce
<1>1. ASSUME RegInv PROVE UploadedOnce
  <2>1. \A n \in Registries : \A u \in held[n] : u.email \in u.on
    BY <1>1 DEF RegInv, HeldInv
  <2>2. ASSUME call.at = "done", call.op = "push", call.asked # <<>>
        PROVE  LET k == Len(call.asked)
                   unsure == {call.asked[i][1] : i \in {j \in 1..(k - 1) : Undecided(call.asked[j])}} IN
               /\ HoldersOf(call.what) \subseteq unsure \cup {call.asked[k][1]}
               /\ call.out = "uploaded" => call.asked[k][1] \in HoldersOf(call.what)
               /\ call.out = "failed" /\ call.failover /\ Undecided(call.asked[k])
                    => k = Len(call.endpoints)
    BY <1>1, <2>2 DEF RegInv, DoneInv, HoldersOf
  <2>. QED BY <2>1, <2>2 DEF UploadedOnce
<1>. QED BY <1>1, RegistryInvariance, PTL

-----------------------------------------------------------------------------
(* Profiles, encrypt and decrypt, for any number of stations, processes and *)
(* messages.                                                                *)

(* An earlier version's row, or two adds at once, may have spoilt a table. *)
Spoilt(s) == s \in overlapped \/ \E n \in DOMAIN OldRows[s] : ~Decodes(OldRows[s][n])

(* A table that loads and has a place left. *)
Spare(t) == Loads(t) /\ Cardinality(Builtin) + Cardinality(DOMAIN t) < Capacity

RowOk(r) == r.flag \in Flags /\ Builds(r.layers)
MailOk(m) == m.form \in {"galdracp", "cess", "age", "raw"} /\ m.to \subseteq Certs

(* What a process is about to do, given the tables as they are. *)
JobOk(p, j) ==
    /\ j.at \in {"rest", "insert", "delete", "write", "log"}
    /\ j.at = "insert" => /\ RowOk(j.row) /\ Decodes(j.row)
                          /\ Spoilt(Station(p)) \/ Spare(Table(p))
    /\ j.at = "write" => MailOk(j.mail)

TablesInv ==
    /\ rows = [s \in Stations |-> rows[s]] /\ overlapped \subseteq Stations
    /\ \A s \in Stations : IsFiniteSet(DOMAIN rows[s]) /\ \A n \in DOMAIN rows[s] : RowOk(rows[s][n])
    /\ ProfilesLoad

JobsInv ==
    /\ mjob = [p \in MailProcs |-> mjob[p]]
    /\ \A p \in MailProcs : JobOk(p, mjob[p])

Writers == {p \in MailProcs : mjob[p].at = "write"}

(* A message about to be written has its place among MaxMail already. *)
SentInv ==
    /\ IsFiniteSet(mail) /\ \A m \in mail : MailOk(m)
    /\ Cardinality(mail) + Cardinality(Writers) <= MaxMail

CountInv == mailCommands \in 0..MaxMailCommands

MailInv == TablesInv /\ JobsInv /\ SentInv /\ CountInv

-----------------------------------------------------------------------------
(* The three built-in profiles are a finite set. *)
LEMMA BuiltinFinite == IsFiniteSet(Builtin) /\ Cardinality(Builtin) \in Nat
<1>1. IsFiniteSet({"standard", "conservative"} \cup {"conservative-shamir"})
  <2>1. IsFiniteSet({"standard"}) /\ IsFiniteSet({"conservative"}) /\ IsFiniteSet({"conservative-shamir"})
    BY FS_Singleton
  <2>2. IsFiniteSet({"standard"} \cup {"conservative"})
    BY <2>1, FS_Union
  <2>3. {"standard"} \cup {"conservative"} = {"standard", "conservative"}
    OBVIOUS
  <2>. QED BY <2>1, <2>2, <2>3, FS_Union
<1>2. Builtin = {"standard", "conservative"} \cup {"conservative-shamir"}
  BY DEF Builtin
<1>3. IsFiniteSet(Builtin)
  BY <1>1, <1>2
<1>. QED BY <1>3, FS_CardinalityType

(* The processes about to write are finitely many, and one fewer without p. *)
LEMMA WritersFinite ==
    ASSUME NEW p \in MailProcs
    PROVE  /\ IsFiniteSet(Writers) /\ Cardinality(Writers) \in Nat
           /\ IsFiniteSet(Writers \cup {p}) /\ Cardinality(Writers \cup {p}) \in Nat
           /\ IsFiniteSet(Writers \ {p}) /\ Cardinality(Writers \ {p}) \in Nat
           /\ Cardinality(Writers \ {p}) <= Cardinality(Writers)
           /\ Cardinality(Writers \cup {p}) <= Cardinality(Writers) + 1
           /\ p \in Writers => Cardinality(Writers \ {p}) = Cardinality(Writers) - 1
<1>1. IsFiniteSet(MailProcs) /\ Writers \subseteq MailProcs
  BY MailAssumption DEF Writers
<1>2. IsFiniteSet(Writers)
  BY <1>1, FS_Subset
<1>3. IsFiniteSet(Writers \ {p}) /\ IsFiniteSet(Writers \cup {p})
  BY <1>2, FS_RemoveElement, FS_AddElement
<1>4. /\ Cardinality(Writers \cup {p}) = IF p \in Writers THEN Cardinality(Writers) ELSE Cardinality(Writers) + 1
      /\ Cardinality(Writers \ {p}) = IF p \in Writers THEN Cardinality(Writers) - 1 ELSE Cardinality(Writers)
  BY <1>2, FS_RemoveElement, FS_AddElement
<1>5. /\ Cardinality(Writers) \in Nat /\ Cardinality(Writers \ {p}) \in Nat
      /\ Cardinality(Writers \cup {p}) \in Nat
  BY <1>2, <1>3, FS_CardinalityType
<1>. QED BY <1>2, <1>3, <1>4, <1>5

(* The first states. *)
LEMMA MailInitInv == MailInit => MailInv
<1>. SUFFICES ASSUME MailInit PROVE MailInv
  OBVIOUS
<1>1. TablesInv
  <2>1. ProfilesLoad
    BY ProfilesAssumption DEF MailInit, ProfilesLoad, Loads
  <2>. QED BY <2>1, ProfilesAssumption DEF MailInit, TablesInv, RowOk
<1>2. JobsInv
  BY DEF MailInit, JobsInv, JobOk, AtRest
<1>3. SentInv
  <2>1. Writers = {}
    BY DEF MailInit, Writers, AtRest
  <2>2. Cardinality(Writers) = 0
    BY <2>1, FS_EmptySet
  <2>3. Cardinality(Foreign) \in Nat
    BY MailAssumption, FS_CardinalityType
  <2>. QED BY <2>2, <2>3, MailAssumption DEF MailInit, SentInv, MailOk
<1>4. CountInv
  BY MailAssumption DEF MailInit, CountInv
<1>. QED BY <1>1, <1>2, <1>3, <1>4 DEF MailInv

-----------------------------------------------------------------------------
(* A process that leaves the tables alone may take up any job that fits them. *)
LEMMA JobChange ==
    ASSUME MailInv, NEW p \in MailProcs, UNCHANGED <<rows, overlapped>>,
           \/ UNCHANGED mjob
           \/ mjob' = [mjob EXCEPT ![p] = mjob'[p]] /\ JobOk(p, mjob'[p])
    PROVE  TablesInv' /\ JobsInv'
<1>1. TablesInv'
  BY DEF MailInv, TablesInv, ProfilesLoad
<1>2. JobsInv'
  <2>1. mjob' = [q \in MailProcs |-> mjob'[q]]
    BY DEF MailInv, JobsInv
  <2>2. ASSUME NEW q \in MailProcs PROVE JobOk(q, mjob'[q])
    BY DEF MailInv, JobsInv
  <2>3. ASSUME NEW q \in MailProcs PROVE JobOk(q, mjob[q])'
    BY <2>2 DEF JobOk, Spoilt, Spare, Table, Station
  <2>. QED BY <2>1, <2>3 DEF JobsInv
<1>. QED BY <1>1, <1>2

(* While mail is as it was, a process that does not take up a "write" keeps the count. *)
LEMMA NoMail ==
    ASSUME MailInv, NEW p \in MailProcs, UNCHANGED mail,
           \/ UNCHANGED mjob
           \/ mjob' = [mjob EXCEPT ![p] = mjob'[p]] /\ mjob'[p].at # "write"
    PROVE  SentInv'
<1>1. CASE UNCHANGED mjob
  BY <1>1 DEF MailInv, SentInv, Writers
<1>2. CASE mjob' = [mjob EXCEPT ![p] = mjob'[p]] /\ mjob'[p].at # "write"
  <2>1. Writers' = Writers \ {p}
    BY <1>2 DEF MailInv, JobsInv, Writers
  <2>2. Cardinality(Writers') <= Cardinality(Writers) /\ Cardinality(Writers) \in Nat
        /\ Cardinality(Writers') \in Nat
    BY <2>1, WritersFinite
  <2>3. Cardinality(mail) \in Nat
    BY FS_CardinalityType DEF MailInv, SentInv
  <2>. QED BY <2>2, <2>3, MailAssumption DEF MailInv, SentInv
<1>. QED BY <1>1, <1>2

(* A command started counts once. *)
LEMMA Counted == ASSUME MailInv, NEW p \in MailProcs, MailStart(p) PROVE CountInv'
  BY MailAssumption DEF MailInv, CountInv, MailStart

-----------------------------------------------------------------------------
(* profile add and POST /profiles: the row is built and the table has a place for it. *)
LEMMA AddedStep ==
    ASSUME MailInv, NEW p \in MailProcs, MailStart(p), NEW np \in NewProfiles, Added(p, np),
           UNCHANGED MailKept
    PROVE  MailInv'
<1>1. \/ UNCHANGED mjob
      \/ /\ mjob' = [mjob EXCEPT ![p] = mjob'[p]] /\ JobOk(p, mjob'[p]) /\ mjob'[p].at # "write"
  <2>1. CASE Builds(np.layers) /\ Loads(Table(p)) /\ CanRegister(Table(p), np.name)
    <3>. DEFINE r == [layers |-> np.layers, curve |-> "brainpoolP256r1",
                      flag |-> IF np.ecdh THEN "1" ELSE "0"]
                j == [at |-> "insert", name |-> np.name, row |-> r]
    <3>1. mjob' = [mjob EXCEPT ![p] = j]
      BY <2>1 DEF Added, MailGoto
    <3>2. mjob'[p] = j
      BY <3>1 DEF MailInv, JobsInv
    <3>3. Decodes(r)
      <4>1. ToSet(np.layers) \subseteq Layers
        BY ProfilesAssumption DEF ToSet
      <4>. QED BY <4>1 DEF Decodes
    <3>4. RowOk(r)
      BY <2>1 DEF RowOk, Flags
    <3>5. Spare(Table(p))
      BY <2>1 DEF Spare, CanRegister
    <3>6. j.at = "insert" /\ j.row = r
      OBVIOUS
    <3>. HIDE DEF j, r
    <3>7. JobOk(p, j) /\ j.at # "write"
      BY <3>3, <3>4, <3>5, <3>6 DEF JobOk
    <3>. QED BY <3>1, <3>2, <3>7
  <2>2. CASE ~(Builds(np.layers) /\ Loads(Table(p)) /\ CanRegister(Table(p), np.name))
    BY <2>2 DEF Added
  <2>. QED BY <2>1, <2>2
<1>2. UNCHANGED <<rows, overlapped>> /\ UNCHANGED mail
  BY DEF MailKept
<1>3. TablesInv' /\ JobsInv'
  BY <1>1, <1>2, JobChange
<1>4. SentInv'
  BY <1>1, <1>2, NoMail
<1>. QED BY <1>3, <1>4, Counted DEF MailInv

(* profile remove and DELETE /profiles, up to the DELETE. *)
LEMMA RemovedStep ==
    ASSUME MailInv, NEW p \in MailProcs, MailStart(p), UNCHANGED MailKept,
           UNCHANGED mjob \/ \E n : Removed(p, n)
    PROVE  MailInv'
<1>1. \/ UNCHANGED mjob
      \/ /\ mjob' = [mjob EXCEPT ![p] = mjob'[p]] /\ JobOk(p, mjob'[p]) /\ mjob'[p].at # "write"
  <2>1. ASSUME NEW n, mjob' = [mjob EXCEPT ![p] = [at |-> "delete", name |-> n]]
        PROVE  mjob' = [mjob EXCEPT ![p] = mjob'[p]] /\ JobOk(p, mjob'[p]) /\ mjob'[p].at # "write"
    <3>1. mjob'[p] = [at |-> "delete", name |-> n]
      BY <2>1 DEF MailInv, JobsInv
    <3>2. mjob'[p].at = "delete"
      BY <3>1
    <3>3. JobOk(p, mjob'[p])
      BY <3>2 DEF JobOk
    <3>. QED BY <2>1, <3>1, <3>2, <3>3
  <2>. QED BY <2>1 DEF Removed, MailGoto
<1>2. UNCHANGED <<rows, overlapped>> /\ UNCHANGED mail
  BY DEF MailKept
<1>3. TablesInv' /\ JobsInv'
  BY <1>1, <1>2, JobChange
<1>4. SentInv'
  BY <1>1, <1>2, NoMail
<1>. QED BY <1>3, <1>4, Counted DEF MailInv

(* A job that is over, or a process that dies. *)
LEMMA Rests ==
    ASSUME MailInv, NEW p \in MailProcs, MailGoto(p, AtRest)
    PROVE  /\ mjob' = [mjob EXCEPT ![p] = mjob'[p]] /\ JobOk(p, mjob'[p]) /\ mjob'[p].at = "rest"
           /\ mjob'[p].at # "write" /\ mjob'[p].at # "insert"
<1>1. mjob' = [mjob EXCEPT ![p] = AtRest]
  BY DEF MailGoto
<1>2. mjob'[p] = AtRest
  BY <1>1 DEF MailInv, JobsInv
<1>3. mjob'[p].at = "rest"
  BY <1>2 DEF AtRest
<1>4. JobOk(p, mjob'[p])
  BY <1>3 DEF JobOk
<1>. QED BY <1>1, <1>2, <1>3, <1>4

(* insert_user_row: the one add that runs finds the place its load saw; of two, the table may be spoilt. *)
LEMMA InsertStep ==
    ASSUME MailInv, NEW p \in MailProcs, InsertProfile(p)
    PROVE  MailInv'
<1>. DEFINE n == mjob[p].name
            s == Station(p)
            r == mjob[p].row
<1>1. mjob[p].at = "insert" /\ MailGoto(p, AtRest) /\ UNCHANGED <<mail, cryptLog, opened, mailCommands>>
  BY DEF InsertProfile
<1>2. /\ mjob' = [mjob EXCEPT ![p] = mjob'[p]] /\ JobOk(p, mjob'[p])
      /\ mjob'[p].at # "write" /\ mjob'[p].at # "insert"
  BY <1>1, Rests
<1>3. SentInv' /\ CountInv'
  BY <1>1, <1>2, NoMail DEF MailInv, CountInv
<1>4. CASE n \in DOMAIN rows[s]
  <2>1. UNCHANGED <<rows, overlapped>>
    BY <1>4 DEF InsertProfile
  <2>. QED BY <1>2, <1>3, <2>1, JobChange DEF MailInv
<1>5. CASE n \notin DOMAIN rows[s]
  <2>. DEFINE others == \E q \in MailProcs \ {p} : Station(q) = s /\ mjob[q].at = "insert"
              t == [x \in DOMAIN rows[s] \cup {n} |-> IF x = n THEN r ELSE rows[s][x]]
  <2>1. /\ rows' = [rows EXCEPT ![s] = t]
        /\ overlapped' = IF others THEN overlapped \cup {s} ELSE overlapped
    BY <1>5 DEF InsertProfile
  <2>2. s \in Stations
    BY MailAssumption DEF Station
  <2>3. RowOk(r) /\ Decodes(r) /\ (Spoilt(s) \/ Spare(rows[s]))
    BY <1>1 DEF MailInv, JobsInv, JobOk, Table
  <2>4. /\ rows'[s] = t /\ \A x \in Stations \ {s} : rows'[x] = rows[x]
        /\ rows' = [x \in Stations |-> rows'[x]]
    BY <2>1, <2>2 DEF MailInv, TablesInv
  <2>5. /\ DOMAIN t = DOMAIN rows[s] \cup {n} /\ t[n] = r
        /\ \A x \in DOMAIN rows[s] : x # n => t[x] = rows[s][x]
    OBVIOUS
  <2>. HIDE DEF t, s, n, r, others
  <2>6. IsFiniteSet(DOMAIN rows[s])
    BY <2>2 DEF MailInv, TablesInv
  <2>7. IsFiniteSet(DOMAIN t) /\ Cardinality(DOMAIN t) = Cardinality(DOMAIN rows[s]) + 1
        /\ Cardinality(DOMAIN rows[s]) \in Nat
    <3>1. /\ IsFiniteSet(DOMAIN rows[s] \cup {n})
          /\ Cardinality(DOMAIN rows[s] \cup {n}) =
               IF n \in DOMAIN rows[s] THEN Cardinality(DOMAIN rows[s]) ELSE Cardinality(DOMAIN rows[s]) + 1
      BY <2>6, FS_AddElement
    <3>. QED BY <1>5, <2>5, <2>6, <3>1, FS_CardinalityType
  <2>8. overlapped \subseteq overlapped' /\ overlapped' \subseteq overlapped \cup {s}
    BY <2>1
  <2>9. \A x : Spoilt(x) => Spoilt(x)'
    BY <2>8 DEF Spoilt
  <2>10. Spare(rows[s]) => Loads(t)
    BY <2>3, <2>5, <2>7, BuiltinFinite, MailAssumption DEF Spare, Loads
  <2>11. TablesInv'
    <3>1. ASSUME NEW x \in Stations PROVE IsFiniteSet(DOMAIN rows'[x]) /\ \A y \in DOMAIN rows'[x] : RowOk(rows'[x][y])
      <4>1. CASE x = s
        <5>1. \A y \in DOMAIN rows[s] : RowOk(rows[s][y])
          BY <2>2 DEF MailInv, TablesInv
        <5>. QED BY <4>1, <5>1, <2>3, <2>4, <2>5, <2>7
      <4>2. CASE x # s
        BY <4>2, <2>4 DEF MailInv, TablesInv
      <4>. QED BY <4>1, <4>2
    <3>2. ASSUME NEW x \in Stations PROVE Loads(rows'[x]) \/ Spoilt(x)'
      <4>1. CASE x = s
        BY <4>1, <2>3, <2>4, <2>9, <2>10
      <4>2. CASE x # s
        <5>1. Loads(rows[x]) \/ Spoilt(x)
          BY DEF MailInv, TablesInv, ProfilesLoad, Spoilt
        <5>. QED BY <4>2, <5>1, <2>4, <2>9
      <4>. QED BY <4>1, <4>2
    <3>3. ProfilesLoad'
      BY <3>2 DEF ProfilesLoad, Spoilt
    <3>4. overlapped' \subseteq Stations
      BY <2>2, <2>8 DEF MailInv, TablesInv
    <3>. QED BY <2>4, <3>1, <3>3, <3>4 DEF TablesInv
  <2>12. JobsInv'
    <3>1. ASSUME NEW q \in MailProcs PROVE JobOk(q, mjob[q])'
      <4>1. CASE q = p
        BY <1>2, <4>1 DEF JobOk
      <4>2. CASE q # p
        <5>1. mjob'[q] = mjob[q] /\ JobOk(q, mjob[q])
          BY <1>2, <4>2 DEF MailInv, JobsInv
        <5>2. mjob[q].at = "insert" => Spoilt(Station(q))' \/ Spare(rows'[Station(q)])
          <6>1. CASE Station(q) = s
            <7>1. mjob[q].at = "insert" => s \in overlapped'
              BY <2>1, <4>2, <6>1 DEF others
            <7>. QED BY <6>1, <7>1 DEF Spoilt
          <6>2. CASE Station(q) # s
            <7>1. rows'[Station(q)] = rows[Station(q)]
              BY <2>4, <6>2, MailAssumption DEF Station
            <7>. QED BY <5>1, <7>1, <2>9 DEF JobOk, Table
          <6>. QED BY <6>1, <6>2
        <5>3. Station(q)' = Station(q) /\ (Table(q))' = rows'[Station(q)]
          BY DEF Station, Table
        <5>. QED BY <5>1, <5>2, <5>3 DEF JobOk, Spoilt
      <4>. QED BY <4>1, <4>2
    <3>2. mjob' = [q \in MailProcs |-> mjob'[q]]
      BY <1>2 DEF MailInv, JobsInv
    <3>. QED BY <3>1, <3>2 DEF JobsInv
  <2>. QED BY <1>3, <2>11, <2>12 DEF MailInv
<1>. QED BY <1>4, <1>5

(* The DELETE of profile remove only makes room. *)
LEMMA DeleteStep ==
    ASSUME MailInv, NEW p \in MailProcs, DeleteProfile(p)
    PROVE  MailInv'
<1>. DEFINE s == Station(p)
            n == mjob[p].name
            t == [x \in DOMAIN rows[s] \ {n} |-> rows[s][x]]
<1>1. /\ MailGoto(p, AtRest) /\ UNCHANGED <<mail, overlapped, mailCommands>>
      /\ rows' = [rows EXCEPT ![s] = t]
  BY DEF DeleteProfile
<1>2. /\ mjob' = [mjob EXCEPT ![p] = mjob'[p]] /\ JobOk(p, mjob'[p])
      /\ mjob'[p].at # "write" /\ mjob'[p].at # "insert"
  BY <1>1, Rests
<1>3. SentInv' /\ CountInv'
  BY <1>1, <1>2, NoMail DEF MailInv, CountInv
<1>4. s \in Stations
  BY MailAssumption DEF Station
<1>5. /\ rows'[s] = t /\ \A x \in Stations \ {s} : rows'[x] = rows[x]
      /\ rows' = [x \in Stations |-> rows'[x]]
  BY <1>1, <1>4 DEF MailInv, TablesInv
<1>6. DOMAIN t = DOMAIN rows[s] \ {n} /\ \A x \in DOMAIN t : t[x] = rows[s][x]
  OBVIOUS
<1>. HIDE DEF t, s, n
<1>7. IsFiniteSet(DOMAIN rows[s]) /\ \A x \in DOMAIN rows[s] : RowOk(rows[s][x])
  BY <1>4 DEF MailInv, TablesInv
<1>8. /\ IsFiniteSet(DOMAIN t) /\ Cardinality(DOMAIN t) <= Cardinality(DOMAIN rows[s])
      /\ Cardinality(DOMAIN t) \in Nat /\ Cardinality(DOMAIN rows[s]) \in Nat
  BY <1>6, <1>7, FS_Subset, FS_CardinalityType
<1>9. (Loads(rows[s]) => Loads(t)) /\ (Spare(rows[s]) => Spare(t))
  BY <1>6, <1>8, BuiltinFinite, MailAssumption DEF Loads, Spare
<1>10. \A x : Spoilt(x)' <=> Spoilt(x)
  BY <1>1 DEF Spoilt
<1>11. \A x \in Stations : /\ Loads(rows[x]) => Loads(rows'[x])
                           /\ Spare(rows[x]) => Spare(rows'[x])
  BY <1>5, <1>9
<1>12. TablesInv'
  <2>1. ASSUME NEW x \in Stations PROVE IsFiniteSet(DOMAIN rows'[x]) /\ \A y \in DOMAIN rows'[x] : RowOk(rows'[x][y])
    <3>1. CASE x = s
      BY <3>1, <1>5, <1>6, <1>7, <1>8
    <3>2. CASE x # s
      BY <3>2, <1>5 DEF MailInv, TablesInv
    <3>. QED BY <3>1, <3>2
  <2>2. ProfilesLoad'
    BY <1>1, <1>11 DEF MailInv, TablesInv, ProfilesLoad
  <2>. QED BY <1>1, <1>5, <2>1, <2>2 DEF MailInv, TablesInv
<1>13. JobsInv'
  <2>1. ASSUME NEW q \in MailProcs PROVE JobOk(q, mjob[q])'
    <3>1. CASE q = p
      BY <1>2, <3>1 DEF JobOk
    <3>2. CASE q # p
      <4>1. mjob'[q] = mjob[q] /\ JobOk(q, mjob[q])
        BY <1>2, <3>2 DEF MailInv, JobsInv
      <4>2. Station(q) \in Stations /\ Station(q)' = Station(q) /\ (Table(q))' = rows'[Station(q)]
            /\ Table(q) = rows[Station(q)]
        BY MailAssumption DEF Station, Table
      <4>3. mjob[q].at = "insert" => Spoilt(Station(q)) \/ Spare(rows'[Station(q)])
        BY <1>11, <4>1, <4>2 DEF JobOk
      <4>4. Spoilt(Station(q)) <=> Spoilt(Station(q))'
        BY <1>1, <4>2 DEF Spoilt
      <4>. QED BY <4>1, <4>2, <4>3, <4>4 DEF JobOk
    <3>. QED BY <3>1, <3>2
  <2>2. mjob' = [q \in MailProcs |-> mjob'[q]]
    BY <1>2 DEF MailInv, JobsInv
  <2>. QED BY <2>1, <2>2 DEF JobsInv
<1>. QED BY <1>3, <1>12, <1>13 DEF MailInv

-----------------------------------------------------------------------------
(* A message about to be written takes one of the places that Room found. *)
LEMMA TakesAPlace ==
    ASSUME MailInv, NEW p \in MailProcs, Room, UNCHANGED mail,
           \/ UNCHANGED mjob
           \/ mjob' = [mjob EXCEPT ![p] = mjob'[p]]
    PROVE  SentInv'
<1>1. CASE UNCHANGED mjob
  BY <1>1, NoMail
<1>2. CASE mjob' = [mjob EXCEPT ![p] = mjob'[p]]
  <2>1. Writers' = Writers \cup {p} \/ Writers' = Writers \ {p}
    BY <1>2 DEF MailInv, JobsInv, Writers
  <2>2. /\ Cardinality(Writers') <= Cardinality(Writers) + 1
        /\ Cardinality(Writers') \in Nat /\ Cardinality(Writers) \in Nat
    <3>1. CASE Writers' = Writers \cup {p}
      BY <3>1, WritersFinite
    <3>2. CASE Writers' = Writers \ {p}
      <4>1. /\ Cardinality(Writers \ {p}) <= Cardinality(Writers)
            /\ Cardinality(Writers \ {p}) \in Nat /\ Cardinality(Writers) \in Nat
        BY WritersFinite
      <4>. QED BY <3>2, <4>1
    <3>. QED BY <2>1, <3>1, <3>2
  <2>3. Cardinality(mail) \in Nat
    BY FS_CardinalityType DEF MailInv, SentInv
  <2>4. Cardinality(mail) + Cardinality(Writers) < MaxMail
    BY DEF Room, Writers
  <2>. QED BY <2>2, <2>3, <2>4, MailAssumption DEF MailInv, SentInv
<1>. QED BY <1>1, <1>2

(* What encrypt makes of a request is addressed to known certificates. *)
LEMMA MessageOk ==
    ASSUME NEW p \in MailProcs, NEW r \in Requests, NEW fp
    PROVE  MailOk(Message(p, r, fp))
<1>1. Message(p, r, fp).form \in {"galdracp", "cess"} /\ Message(p, r, fp).to = SubkeysOf(r.to)
  BY DEF Message
<1>2. SubkeysOf(r.to) \subseteq Certs
  BY MailAssumption DEF SubkeysOf
<1>. QED BY <1>1, <1>2 DEF MailOk

(* A process that takes up the writing of a well-formed message. *)
LEMMA WriteJob ==
    ASSUME MailInv, NEW p \in MailProcs, NEW m, MailOk(m),
           mjob' = [mjob EXCEPT ![p] = [at |-> "write", mail |-> m]]
    PROVE  mjob' = [mjob EXCEPT ![p] = mjob'[p]] /\ JobOk(p, mjob'[p])
<1>1. mjob'[p] = [at |-> "write", mail |-> m]
  BY DEF MailInv, JobsInv
<1>2. mjob'[p].at = "write" /\ mjob'[p].mail = m
  BY <1>1
<1>3. JobOk(p, mjob'[p])
  BY <1>2 DEF JobOk
<1>. QED BY <1>1, <1>3

(* A process that goes on to the audit row. *)
LEMMA LogJob ==
    ASSUME MailInv, NEW p \in MailProcs, NEW row, NEW reply,
           mjob' = [mjob EXCEPT ![p] = [at |-> "log", row |-> row, reply |-> reply]]
    PROVE  /\ mjob' = [mjob EXCEPT ![p] = mjob'[p]] /\ JobOk(p, mjob'[p])
           /\ mjob'[p].at = "log"
<1>1. mjob'[p] = [at |-> "log", row |-> row, reply |-> reply]
  BY DEF MailInv, JobsInv
<1>2. mjob'[p].at = "log"
  BY <1>1
<1>3. JobOk(p, mjob'[p])
  BY <1>2 DEF JobOk
<1>. QED BY <1>1, <1>2, <1>3

(* run_encrypt and run_encrypt_age, up to the file. *)
LEMMA EncryptStep ==
    ASSUME MailInv, NEW p \in MailProcs, Encrypt(p) \/ EncryptAge(p)
    PROVE  MailInv'
<1>1. MailStart(p) /\ Room /\ UNCHANGED <<rows, overlapped>> /\ UNCHANGED mail
  BY DEF Encrypt, EncryptAge, MailKept
<1>2. UNCHANGED mjob \/ (mjob' = [mjob EXCEPT ![p] = mjob'[p]] /\ JobOk(p, mjob'[p]))
  <2>1. CASE Encrypt(p)
    <3>1. PICK r \in Requests, fp \in {"card", "placeholder"} :
            UNCHANGED mjob \/ mjob' = [mjob EXCEPT ![p] = [at |-> "write", mail |-> Message(p, r, fp)]]
      BY <2>1 DEF Encrypt, MailGoto
    <3>2. MailOk(Message(p, r, fp))
      BY MessageOk
    <3>. DEFINE m == Message(p, r, fp)
    <3>. HIDE DEF m
    <3>3. MailOk(m) /\ (UNCHANGED mjob \/ mjob' = [mjob EXCEPT ![p] = [at |-> "write", mail |-> m]])
      BY <3>1, <3>2 DEF m
    <3>. QED BY <3>3, WriteJob
  <2>2. CASE EncryptAge(p)
    <3>1. PICK to \in SUBSET Certs :
            \/ UNCHANGED mjob
            \/ mjob' = [mjob EXCEPT ![p] = [at |-> "write",
                           mail |-> [id |-> mailCommands, form |-> "age", k |-> "none",
                                     env |-> <<>>, to |-> to, layers |-> <<>>]]]
      BY <2>2 DEF EncryptAge, MailGoto
    <3>. DEFINE m == [id |-> mailCommands, form |-> "age", k |-> "none",
                      env |-> <<>>, to |-> to, layers |-> <<>>]
    <3>2. MailOk(m)
      BY DEF MailOk
    <3>3. UNCHANGED mjob \/ mjob' = [mjob EXCEPT ![p] = [at |-> "write", mail |-> m]]
      BY <3>1
    <3>. HIDE DEF m
    <3>. QED BY <3>2, <3>3, WriteJob
  <2>. QED BY <2>1, <2>2
<1>3. TablesInv' /\ JobsInv'
  BY <1>1, <1>2, JobChange
<1>4. SentInv'
  BY <1>1, <1>2, TakesAPlace
<1>. QED BY <1>1, <1>3, <1>4, Counted DEF MailInv

(* One message more, well formed. *)
LEMMA OneMore ==
    ASSUME MailInv, NEW m, MailOk(m)
    PROVE  /\ IsFiniteSet(mail \cup {m}) /\ \A x \in mail \cup {m} : MailOk(x)
           /\ Cardinality(mail \cup {m}) \in Nat /\ Cardinality(mail) \in Nat
           /\ Cardinality(mail \cup {m}) <= Cardinality(mail) + 1
<1>1. IsFiniteSet(mail) /\ \A x \in mail : MailOk(x)
  BY DEF MailInv, SentInv
<1>2. /\ IsFiniteSet(mail \cup {m})
      /\ Cardinality(mail \cup {m}) = IF m \in mail THEN Cardinality(mail) ELSE Cardinality(mail) + 1
  BY <1>1, FS_AddElement
<1>3. Cardinality(mail) \in Nat /\ Cardinality(mail \cup {m}) \in Nat
  BY <1>1, <1>2, FS_CardinalityType
<1>. QED BY <1>1, <1>2, <1>3

(* encrypt_msg: the daemon answers with the message at once. *)
LEMMA EncryptMsgStep ==
    ASSUME MailInv, NEW p \in MailProcs, EncryptMsg(p)
    PROVE  MailInv'
<1>1. MailStart(p) /\ Room /\ UNCHANGED <<rows, overlapped>> /\ UNCHANGED mjob
  BY DEF EncryptMsg
<1>2. TablesInv' /\ JobsInv'
  BY <1>1, JobChange
<1>3. SentInv'
  <2>1. PICK r \in Requests :
          mail' = mail \/ mail' = mail \cup {Message(p, r, "placeholder")}
    BY DEF EncryptMsg
  <2>2. CASE mail' = mail
    BY <1>1, <2>2, NoMail
  <2>3. CASE mail' = mail \cup {Message(p, r, "placeholder")}
    <3>. DEFINE m == Message(p, r, "placeholder")
    <3>1. MailOk(m)
      BY MessageOk
    <3>2. mail' = mail \cup {m}
      BY <2>3
    <3>. HIDE DEF m
    <3>3. /\ IsFiniteSet(mail') /\ Cardinality(mail') \in Nat /\ \A x \in mail' : MailOk(x)
          /\ Cardinality(mail) \in Nat /\ Cardinality(mail') <= Cardinality(mail) + 1
      BY <3>1, <3>2, OneMore
    <3>4. Writers' = Writers /\ Cardinality(Writers) \in Nat
      BY <1>1, WritersFinite DEF Writers
    <3>5. Cardinality(mail) + Cardinality(Writers) < MaxMail
      BY <1>1 DEF Room, Writers
    <3>. QED BY <3>3, <3>4, <3>5, MailAssumption DEF SentInv
  <2>. QED BY <2>1, <2>2, <2>3
<1>. QED BY <1>1, <1>2, <1>3, Counted DEF MailInv

(* The file is written, or the command fails. *)
LEMMA WriteMailStep ==
    ASSUME MailInv, NEW p \in MailProcs, WriteMail(p)
    PROVE  MailInv'
<1>1. mjob[p].at = "write" /\ UNCHANGED <<rows, overlapped>> /\ UNCHANGED mailCommands
  BY DEF WriteMail
<1>2. CountInv'
  BY <1>1 DEF MailInv, CountInv
<1>3. CASE UNCHANGED mail /\ MailGoto(p, AtRest)
  <2>1. mjob' = [mjob EXCEPT ![p] = mjob'[p]] /\ JobOk(p, mjob'[p]) /\ mjob'[p].at # "write"
    BY <1>3, Rests
  <2>. QED BY <1>1, <1>2, <1>3, <2>1, JobChange, NoMail DEF MailInv
<1>4. CASE /\ mail' = mail \cup {mjob[p].mail}
           /\ MailGoto(p, [at |-> "log", row |-> <<"Encrypt", mjob[p].mail.id>>, reply |-> {}])
  <2>1. /\ mjob' = [mjob EXCEPT ![p] = mjob'[p]] /\ JobOk(p, mjob'[p]) /\ mjob'[p].at = "log"
    <3>. DEFINE row == <<"Encrypt", mjob[p].mail.id>>
    <3>1. mjob' = [mjob EXCEPT ![p] = [at |-> "log", row |-> row, reply |-> {}]]
      BY <1>4 DEF MailGoto
    <3>. HIDE DEF row
    <3>. QED BY <3>1, LogJob
  <2>2. TablesInv' /\ JobsInv'
    BY <1>1, <2>1, JobChange
  <2>. DEFINE m == mjob[p].mail
  <2>3. MailOk(m) /\ mail' = mail \cup {m}
    BY <1>1, <1>4 DEF MailInv, JobsInv, JobOk
  <2>. HIDE DEF m
  <2>4. /\ IsFiniteSet(mail') /\ Cardinality(mail') \in Nat /\ \A x \in mail' : MailOk(x)
        /\ Cardinality(mail) \in Nat /\ Cardinality(mail') <= Cardinality(mail) + 1
    BY <2>3, OneMore
  <2>5. p \in Writers /\ Writers' = Writers \ {p}
    BY <1>1, <2>1 DEF MailInv, JobsInv, Writers
  <2>6. /\ Cardinality(Writers') = Cardinality(Writers) - 1
        /\ Cardinality(Writers') \in Nat /\ Cardinality(Writers) \in Nat
    BY <2>5, WritersFinite
  <2>7. Cardinality(mail) + Cardinality(Writers) <= MaxMail
    BY DEF MailInv, SentInv
  <2>8. SentInv'
    BY <2>4, <2>6, <2>7, MailAssumption DEF SentInv
  <2>. QED BY <1>2, <2>2, <2>8 DEF MailInv
<1>. QED BY <1>3, <1>4 DEF WriteMail

(* The decrypt commands change no table and no message; what they do next is the audit row. *)
LEMMA DecryptStep ==
    ASSUME MailInv, NEW p \in MailProcs, Decrypt(p) \/ DecryptMsg(p) \/ DecryptAge(p)
    PROVE  MailInv'
<1>1. MailStart(p) /\ UNCHANGED <<rows, overlapped>> /\ UNCHANGED mail
  BY DEF Decrypt, DecryptMsg, DecryptAge, MailKept
<1>2. UNCHANGED mjob \/ \E row, reply : mjob' = [mjob EXCEPT ![p] = [at |-> "log", row |-> row, reply |-> reply]]
  <2>1. CASE Decrypt(p)
    <3>1. UNCHANGED mjob \/ \E o : MailGoto(p, Logged(o, {}))
      BY <2>1 DEF Decrypt
    <3>. QED BY <3>1 DEF MailGoto, Logged
  <2>2. CASE DecryptMsg(p)
    <3>1. UNCHANGED mjob \/ \E o : MailGoto(p, Logged(o, {o}))
      BY <2>2 DEF DecryptMsg
    <3>. QED BY <3>1 DEF MailGoto, Logged
  <2>3. CASE DecryptAge(p)
    BY <2>3 DEF DecryptAge, MailGoto
  <2>. QED BY <2>1, <2>2, <2>3
<1>3. \/ UNCHANGED mjob
      \/ mjob' = [mjob EXCEPT ![p] = mjob'[p]] /\ JobOk(p, mjob'[p]) /\ mjob'[p].at # "write"
  BY <1>2, LogJob
<1>4. TablesInv' /\ JobsInv'
  BY <1>1, <1>3, JobChange
<1>5. SentInv'
  BY <1>1, <1>3, NoMail
<1>. QED BY <1>1, <1>4, <1>5, Counted DEF MailInv

(* audit_append, and a process that is killed. *)
LEMMA RestStep ==
    ASSUME MailInv, NEW p \in MailProcs, LogCrypt(p) \/ MailKilled(p)
    PROVE  MailInv'
<1>1. MailGoto(p, AtRest) /\ UNCHANGED <<rows, overlapped>> /\ UNCHANGED mail /\ UNCHANGED mailCommands
  BY DEF LogCrypt, MailKilled, MailKept
<1>2. mjob' = [mjob EXCEPT ![p] = mjob'[p]] /\ JobOk(p, mjob'[p]) /\ mjob'[p].at # "write"
  BY <1>1, Rests
<1>3. TablesInv' /\ JobsInv' /\ SentInv'
  BY <1>1, <1>2, JobChange, NoMail
<1>. QED BY <1>1, <1>3 DEF MailInv, CountInv

-----------------------------------------------------------------------------
(* MailInv holds in every state of the profile and message commands. *)
THEOREM MailInvariance == MailSpec => []MailInv
<1>1. MailInv /\ [MailNext]_mailVars => MailInv'
  <2>. SUFFICES ASSUME MailInv, [MailNext]_mailVars PROVE MailInv'
    OBVIOUS
  <2>1. ASSUME NEW p \in MailProcs, AddProfile(p) \/ CreateProfile(p) PROVE MailInv'
    BY <2>1, AddedStep DEF AddProfile, CreateProfile
  <2>2. ASSUME NEW p \in MailProcs, RemoveProfile(p) \/ DropProfile(p) PROVE MailInv'
    <3>1. /\ MailStart(p) /\ UNCHANGED MailKept
          /\ UNCHANGED mjob \/ \E n : Removed(p, n)
      BY <2>2 DEF RemoveProfile, DropProfile
    <3>. QED BY <3>1, RemovedStep
  <2>3. ASSUME NEW p \in MailProcs, InsertProfile(p) PROVE MailInv'
    BY <2>3, InsertStep
  <2>4. ASSUME NEW p \in MailProcs, DeleteProfile(p) PROVE MailInv'
    BY <2>4, DeleteStep
  <2>5. ASSUME NEW p \in MailProcs, Encrypt(p) \/ EncryptAge(p) PROVE MailInv'
    BY <2>5, EncryptStep
  <2>6. ASSUME NEW p \in MailProcs, EncryptMsg(p) PROVE MailInv'
    BY <2>6, EncryptMsgStep
  <2>7. ASSUME NEW p \in MailProcs, WriteMail(p) PROVE MailInv'
    BY <2>7, WriteMailStep
  <2>8. ASSUME NEW p \in MailProcs, Decrypt(p) \/ DecryptMsg(p) \/ DecryptAge(p) PROVE MailInv'
    BY <2>8, DecryptStep
  <2>9. ASSUME NEW p \in MailProcs, LogCrypt(p) \/ MailKilled(p) PROVE MailInv'
    BY <2>9, RestStep
  <2>10. CASE UNCHANGED mailVars
    <3>1. UNCHANGED <<rows, overlapped>> /\ UNCHANGED mjob /\ UNCHANGED mail /\ UNCHANGED mailCommands
      BY <2>10 DEF mailVars
    <3>2. TablesInv' /\ JobsInv' /\ SentInv'
      BY <3>1 DEF MailInv, TablesInv, JobsInv, SentInv, ProfilesLoad, JobOk, Spoilt, Table, Station, Writers
    <3>. QED BY <3>1, <3>2 DEF MailInv, CountInv
  <2>. QED BY <2>1, <2>2, <2>3, <2>4, <2>5, <2>6, <2>7, <2>8, <2>9, <2>10 DEF MailNext
<1>. QED BY <1>1, MailInitInv, PTL DEF MailSpec

(* Every row of a profile table was built, every message is addressed to known certificates, *)
(* and the commands that wait for their next statement never outgrow their bounds.            *)
THEOREM MailTypeCorrect == MailSpec => []MailTypeOK
<1>1. ASSUME MailInv PROVE MailTypeOK
  <2>1. Cardinality(mail) <= MaxMail
    <3>1. Cardinality(mail) \in Nat
      BY <1>1, FS_CardinalityType DEF MailInv, SentInv
    <3>2. IsFiniteSet(Writers)
      BY MailAssumption, FS_Subset DEF Writers
    <3>3. Cardinality(Writers) \in Nat
      BY <3>2, FS_CardinalityType
    <3>. QED BY <1>1, <3>1, <3>3, MailAssumption DEF MailInv, SentInv
  <2>. QED BY <1>1, <2>1 DEF MailInv, TablesInv, JobsInv, SentInv, CountInv, JobOk, RowOk, MailOk, MailTypeOK
<1>. QED BY <1>1, MailInvariance, PTL

(* ProfileStore::load succeeds on every station's table, unless an earlier version left a row *)
(* of a removed curve there, or an INSERT ran while another add was past its own check.       *)
THEOREM ProfilesAlwaysLoad == MailSpec => []ProfilesLoad
<1>1. MailInv => ProfilesLoad
  BY DEF MailInv, TablesInv
<1>. QED BY <1>1, MailInvariance, PTL

-----------------------------------------------------------------------------
(* The cascade. *)

(* The boxes around a plaintext, and what lies between layer i and the next. *)
Boxes(name, layers, prk, aad) ==
    {LayerBox(name, layers, prk, aad, i) : i \in 1..Len(layers)}
    \cup {GapBox(name, prk, i) : i \in 1..Len(layers)}

GapPart(name, prk, n, i) == IF Suite(name) # 0 /\ i < n THEN <<GapBox(name, prk, i)>> ELSE <<>>

(* e[i] is the list after layer i of cascade_forward_encrypt. *)
Forward(e, name, layers, prk, aad) ==
    /\ e \in [0..Len(layers) -> Seq(Boxes(name, layers, prk, aad))]
    /\ e[0] = <<>>
    /\ \A i \in 1..Len(layers) :
         e[i] = e[i - 1] \o <<LayerBox(name, layers, prk, aad, i)>> \o GapPart(name, prk, Len(layers), i)

(* cascade_forward_encrypt puts the boxes on one after the other. *)
LEMMA Encrypts ==
    ASSUME NEW name, NEW layers, Len(layers) \in Nat, NEW prk, NEW aad, NEW len \in Nat
    PROVE  \E e : /\ Forward(e, name, layers, prk, aad)
                  /\ CascadeEncrypt(name, layers, prk, aad, len).boxes = e[Len(layers)]
<1>. DEFINE n == Len(layers)
            B == Boxes(name, layers, prk, aad)
            X == [ok : BOOLEAN, len : Nat, boxes : Seq(B)]
            L(i) == LayerBox(name, layers, prk, aad, i)
            gap(i) == Suite(name) # 0 /\ i < n
            G(i) == IF gap(i) THEN <<GapBox(name, prk, i)>> ELSE <<>>
            up(p, i) == [ok    |-> p.ok /\ Fits(layers[i], p.len),
                         len   |-> p.len + TagLen(layers[i]) + (IF gap(i) THEN GapLen ELSE 0),
                         boxes |-> p.boxes \o <<L(i)>> \o G(i)]
            b == [ok |-> len <= MaxPlaintext, len |-> len, boxes |-> <<>>]
            Body(f) == [i \in 0..n |-> IF i = 0 THEN b ELSE up(f[i - 1], i)]
            next == [q \in (1..n) \X X |-> up(q[2], q[1])]
<1>1. n \in Nat /\ b \in X
  OBVIOUS
<1>2. ASSUME NEW i \in 1..n, NEW p \in X PROVE up(p, i) \in X
  <2>1. L(i) \in B /\ GapBox(name, prk, i) \in B
    BY DEF Boxes
  <2>2. <<L(i)>> \in Seq(B) /\ G(i) \in Seq(B)
    <3>. HIDE DEF B, L
    <3>. QED BY <2>1
  <2>3. p.ok \in BOOLEAN /\ p.len \in Nat /\ p.boxes \in Seq(B)
    OBVIOUS
  <2>4. p.boxes \o <<L(i)>> \o G(i) \in Seq(B)
    <3>. HIDE DEF B, L, G
    <3>. QED BY <2>2, <2>3
  <2>5. p.len + TagLen(layers[i]) + (IF gap(i) THEN GapLen ELSE 0) \in Nat
    BY <2>3 DEF TagLen, GapLen
  <2>. HIDE DEF B, L, G, gap
  <2>. QED BY <2>4, <2>5
<1>3. CascadeEncrypt(name, layers, prk, aad, len) = (CHOOSE f : f = Body(f))[n]
  BY DEF CascadeEncrypt
<1>. HIDE DEF n, up, b
<1>4. \E f : f = Body(f)
  <2>. HIDE DEF X
  <2>1. next \in [(1..n) \X X -> X] /\ \A i \in 1..n, x \in X : next[<<i, x>>] = up(x, i)
    <3>1. \A q \in (1..n) \X X : q[1] \in 1..n /\ q[2] \in X /\ up(q[2], q[1]) \in X
      BY <1>2
    <3>. QED BY <3>1
  <2>. HIDE DEF next
  <2>2. HasIteration(n, X, b, next)
    BY <1>1, <2>1, Recursion
  <2>3. PICK f \in [0..n -> X] : f[0] = b /\ \A i \in 1..n : f[i] = next[<<i, f[i - 1]>>]
    BY <2>2 DEF HasIteration, Iterates
  <2>4. ASSUME NEW i \in 0..n PROVE f[i] = IF i = 0 THEN b ELSE up(f[i - 1], i)
    <3>1. i # 0 => i \in 1..n /\ f[i - 1] \in X
      BY <1>1
    <3>. QED BY <2>1, <2>3, <3>1
  <2>5. f = Body(f)
    BY <2>4
  <2>. QED BY <2>5
<1>. DEFINE g == CHOOSE f : f = Body(f)
<1>5. g = Body(g)
  BY <1>4
<1>. HIDE DEF g
<1>6. g[0] = b /\ \A i \in 1..n : g[i] = up(g[i - 1], i)
  <2>1. \A i \in 0..n : g[i] = IF i = 0 THEN b ELSE up(g[i - 1], i)
    BY <1>5, Zenon
  <2>2. 0 \in 0..n /\ \A i \in 1..n : i \in 0..n /\ i # 0
    BY <1>1
  <2>. QED BY <2>1, <2>2
<1>. DEFINE K == {k \in 0..n : g[k] \in X}
<1>7. n \in Nat /\ \A k \in 0..n : g[k] \in X
  <2>. HIDE DEF X
  <2>1. 0 \in K
    BY <1>1, <1>6
  <2>2. ASSUME NEW k \in 0..(n - 1), k \in K PROVE k + 1 \in K
    <3>1. k + 1 \in 1..n /\ (k + 1) - 1 = k /\ k + 1 \in 0..n
      BY <1>1
    <3>. QED BY <1>2, <1>6, <2>2, <3>1
  <2>. HIDE DEF K
  <2>3. 0..n \subseteq K
    BY <1>1, <2>1, <2>2, UpTo
  <2>. QED BY <1>1, <2>3 DEF K
<1>. DEFINE e == [i \in 0..n |-> g[i].boxes]
<1>8. \A i \in 0..n : e[i] = g[i].boxes /\ e[i] \in Seq(B)
  <2>. HIDE DEF B
  <2>. QED BY <1>7
<1>9. e[0] = <<>>
  BY <1>1, <1>6, <1>8 DEF b
<1>10. ASSUME NEW i \in 1..n PROVE e[i] = e[i - 1] \o <<L(i)>> \o G(i)
  <2>1. i \in 0..n /\ i - 1 \in 0..n
    BY <1>1
  <2>. HIDE DEF e, L, G
  <2>2. g[i].boxes = g[i - 1].boxes \o <<L(i)>> \o G(i)
    <3>1. g[i] = up(g[i - 1], i)
      BY <1>6
    <3>2. \A p : up(p, i).boxes = p.boxes \o <<L(i)>> \o G(i)
      BY DEF up
    <3>. QED BY <3>1, <3>2
  <2>. QED BY <1>8, <2>1, <2>2
<1>11. e \in [0..n -> Seq(B)]
  <2>. HIDE DEF B
  <2>. QED BY <1>8
<1>12. CascadeEncrypt(name, layers, prk, aad, len).boxes = e[n]
  BY <1>1, <1>3, <1>8 DEF g
<1>. HIDE DEF e
<1>13. Forward(e, name, layers, prk, aad)
  BY <1>9, <1>10, <1>11 DEF Forward, GapPart, n
<1>. QED BY <1>12, <1>13 DEF n

(* A list that is being opened. *)
Opened(B) == [ok : BOOLEAN, boxes : Seq(B)]

(* An opening succeeds on the right outermost box only, and takes it off. *)
LEMMA Unboxed ==
    ASSUME NEW B, NEW c \in Opened(B), NEW b
    PROVE  /\ Unbox(c, b) \in Opened(B)
           /\ Unbox(c, b).ok => /\ c.ok /\ Len(c.boxes) > 0 /\ Last(c.boxes) = b
                                /\ Len(Unbox(c, b).boxes) = Len(c.boxes) - 1
<1>1. c.ok \in BOOLEAN /\ c.boxes \in Seq(B) /\ <<>> \in Seq(B)
  BY DEF Opened
<1>. DEFINE s == c.boxes
<1>. HIDE DEF s
<1>2. s \in Seq(B) /\ (s # <<>> => Len(s) > 0)
  BY <1>1 DEF s
<1>3. s # <<>> => Front(s) \in Seq(B) /\ Len(Front(s)) = Len(s) - 1
  <2>. SUFFICES ASSUME s # <<>> PROVE Front(s) \in Seq(B) /\ Len(Front(s)) = Len(s) - 1
    OBVIOUS
  <2>. DEFINE m == Len(s) - 1
  <2>1. m \in Nat /\ m <= Len(s) /\ Len(s) \in Nat
    BY <1>2
  <2>. HIDE DEF m
  <2>2. SubSeq(s, 1, m) \in Seq(B)
    BY <1>2, <2>1
  <2>3. Len(SubSeq(s, 1, m)) = m
    BY <1>2, <2>1
  <2>. QED BY <2>2, <2>3 DEF Front, m
<1>4. CASE c.ok /\ s # <<>> /\ Last(s) = b
  <2>1. Unbox(c, b) = [ok |-> TRUE, boxes |-> Front(s)]
    BY <1>4 DEF Unbox, s
  <2>. QED BY <1>2, <1>3, <1>4, <2>1 DEF Opened, s
<1>5. CASE ~(c.ok /\ s # <<>> /\ Last(s) = b)
  <2>1. Unbox(c, b) = [ok |-> FALSE, boxes |-> <<>>]
    BY <1>5 DEF Unbox, s
  <2>. QED BY <1>1, <2>1 DEF Opened
<1>. QED BY <1>4, <1>5

(* The box put on last comes off first. *)
LEMMA UnboxPush ==
    ASSUME NEW B, NEW s \in Seq(B), NEW b \in B, NEW c, c.ok, c.boxes = s \o <<b>>
    PROVE  Unbox(c, b) = [ok |-> TRUE, boxes |-> s]
<1>. DEFINE t == s \o <<b>>
<1>1. t \in Seq(B) /\ Len(t) = Len(s) + 1 /\ t[Len(t)] = b /\ \A i \in 1..Len(s) : t[i] = s[i]
  OBVIOUS
<1>. HIDE DEF t
<1>2. t # <<>> /\ Last(t) = b
  BY <1>1 DEF Last
<1>3. Front(t) = s
  <2>1. Front(t) \in Seq(B) /\ Len(Front(t)) = Len(s) /\ \A i \in 1..Len(s) : Front(t)[i] = s[i]
    BY <1>1 DEF Front
  <2>. HIDE DEF t
  <2>. DEFINE r == Front(t)
  <2>2. r \in Seq(B) /\ Len(r) = Len(s) /\ \A i \in 1..Len(s) : r[i] = s[i]
    BY <2>1
  <2>. HIDE DEF r
  <2>3. r = s
    BY <2>2
  <2>. QED BY <2>3 DEF r
<1>. QED BY <1>2, <1>3 DEF Unbox, t

(* One turn of cascade_decrypt: layer i + 1, then the gap below it. *)
Peel(c, name, layers, prk, aad, i) ==
    LET u == Unbox(c, LayerBox(name, layers, prk, aad, i + 1))
    IN  IF Suite(name) # 0 /\ i > 0 THEN Unbox(u, GapBox(name, prk, i)) ELSE u

(* A turn that succeeds takes off a layer, and the gap if there is one. *)
TakesOff(c, d, name, layers, prk, aad, i) ==
    d.ok => /\ c.ok /\ Last(c.boxes) = LayerBox(name, layers, prk, aad, i + 1)
            /\ Len(d.boxes) = Len(c.boxes) - (IF Suite(name) # 0 /\ i > 0 THEN 2 ELSE 1)

LEMMA Peeled ==
    ASSUME NEW B, NEW c \in Opened(B), NEW name, NEW layers, NEW prk, NEW aad, NEW i \in Nat
    PROVE  /\ Peel(c, name, layers, prk, aad, i) \in Opened(B)
           /\ TakesOff(c, Peel(c, name, layers, prk, aad, i), name, layers, prk, aad, i)
<1>. DEFINE l == LayerBox(name, layers, prk, aad, i + 1)
            u == Unbox(c, l)
            v == Unbox(u, GapBox(name, prk, i))
<1>. HIDE DEF l
<1>1. /\ u \in Opened(B)
      /\ u.ok => c.ok /\ Len(c.boxes) > 0 /\ Last(c.boxes) = l /\ Len(u.boxes) = Len(c.boxes) - 1
  BY Unboxed
<1>. HIDE DEF u
<1>2. v \in Opened(B) /\ (v.ok => u.ok /\ Len(v.boxes) = Len(u.boxes) - 1)
  BY <1>1, Unboxed
<1>3. Len(c.boxes) \in Nat /\ Len(u.boxes) \in Nat
  BY <1>1 DEF Opened
<1>. HIDE DEF v
<1>4. Peel(c, name, layers, prk, aad, i) = IF Suite(name) # 0 /\ i > 0 THEN v ELSE u
  BY DEF Peel, u, v, l
<1>5. CASE Suite(name) # 0 /\ i > 0
  BY <1>1, <1>2, <1>3, <1>4, <1>5 DEF l, TakesOff
<1>6. CASE ~(Suite(name) # 0 /\ i > 0)
  BY <1>1, <1>2, <1>3, <1>4, <1>6 DEF l, TakesOff
<1>. QED BY <1>5, <1>6

(* d[i] is what is left once the layers above i are off. *)
Backward(d, name, layers, prk, aad, ct, B) ==
    /\ d \in [0..Len(layers) -> Opened(B)]
    /\ d[Len(layers)] = [ok |-> ct.name = name, boxes |-> ct.boxes]
    /\ \A i \in 0..(Len(layers) - 1) : d[i] = Peel(d[i + 1], name, layers, prk, aad, i)

(* cascade_decrypt takes the layers off one after the other. *)
LEMMA Decrypts ==
    ASSUME NEW name, NEW layers, Len(layers) \in Nat, NEW prk, NEW aad, NEW ct,
           NEW B, ct.boxes \in Seq(B)
    PROVE  \E d : /\ Backward(d, name, layers, prk, aad, ct, B)
                  /\ CascadeDecrypt(name, layers, prk, aad, ct) = d[0]
<1>. DEFINE n == Len(layers)
            X == Opened(B)
            P(c, i) == Peel(c, name, layers, prk, aad, i)
            b == [ok |-> ct.name = name, boxes |-> ct.boxes]
            Body(f) == [i \in 0..n |-> IF i = n THEN b ELSE P(f[i + 1], i)]
            next == [q \in (1..n) \X X |-> P(q[2], n - q[1])]
<1>1. n \in Nat /\ b \in X
  BY DEF Opened
<1>2. ASSUME NEW i \in Nat, NEW c \in X PROVE P(c, i) \in X
  BY Peeled
<1>3. CascadeDecrypt(name, layers, prk, aad, ct) = (CHOOSE f : f = Body(f))[0]
  BY DEF CascadeDecrypt, Peel
<1>. HIDE DEF n, P, b, X
<1>4. \E f : f = Body(f)
  <2>1. next \in [(1..n) \X X -> X] /\ \A i \in 1..n, x \in X : next[<<i, x>>] = P(x, n - i)
    <3>1. \A q \in (1..n) \X X : q[1] \in 1..n /\ q[2] \in X /\ n - q[1] \in Nat
      BY <1>1
    <3>2. \A q \in (1..n) \X X : P(q[2], n - q[1]) \in X
      BY <1>2, <3>1
    <3>. QED BY <3>2
  <2>. HIDE DEF next
  <2>2. HasIteration(n, X, b, next)
    BY <1>1, <2>1, Recursion
  <2>3. PICK h \in [0..n -> X] : h[0] = b /\ \A i \in 1..n : h[i] = next[<<i, h[i - 1]>>]
    BY <2>2 DEF HasIteration, Iterates
  <2>. DEFINE f == [i \in 0..n |-> h[n - i]]
  <2>4. ASSUME NEW i \in 0..n PROVE f[i] = IF i = n THEN b ELSE P(f[i + 1], i)
    <3>1. f[i] = h[n - i]
      OBVIOUS
    <3>2. CASE i = n
      BY <1>1, <2>3, <3>1, <3>2
    <3>3. CASE i # n
      <4>1. n - i \in 1..n /\ i + 1 \in 0..n /\ (n - i) - 1 = n - (i + 1) /\ n - (n - i) = i
            /\ (n - i) - 1 \in 0..n
        BY <1>1, <3>3
      <4>2. f[i + 1] = h[(n - i) - 1] /\ h[(n - i) - 1] \in X
        BY <4>1
      <4>. HIDE DEF f
      <4>3. h[n - i] = next[<<n - i, h[(n - i) - 1]>>]
        BY <2>3, <4>1
      <4>4. next[<<n - i, h[(n - i) - 1]>>] = P(h[(n - i) - 1], i)
        BY <2>1, <4>1, <4>2
      <4>. QED BY <3>1, <3>3, <4>2, <4>3, <4>4
    <3>. QED BY <3>2, <3>3
  <2>5. f = Body(f)
    BY <2>4
  <2>. QED BY <2>5
<1>. DEFINE g == CHOOSE f : f = Body(f)
<1>5. g = Body(g)
  BY <1>4
<1>. HIDE DEF g
<1>6. g[n] = b /\ \A i \in 0..(n - 1) : g[i] = P(g[i + 1], i)
  <2>1. \A i \in 0..n : g[i] = IF i = n THEN b ELSE P(g[i + 1], i)
    BY <1>5, Zenon
  <2>2. n \in 0..n /\ \A i \in 0..(n - 1) : i \in 0..n /\ i # n
    BY <1>1
  <2>. QED BY <2>1, <2>2
<1>7. DOMAIN g = 0..n /\ g = [i \in 0..n |-> g[i]]
  <2>. DEFINE bo == Body(g)
  <2>1. DOMAIN bo = 0..n /\ bo = [i \in 0..n |-> bo[i]]
    OBVIOUS
  <2>. HIDE DEF bo
  <2>2. g = bo
    BY <1>5 DEF bo
  <2>. QED BY <2>1, <2>2
<1>. DEFINE K == {k \in 0..n : g[n - k] \in X}
<1>8. \A k \in 0..n : g[k] \in X
  <2>1. 0 \in K
    BY <1>1, <1>6
  <2>2. ASSUME NEW k \in 0..(n - 1), k \in K PROVE k + 1 \in K
    <3>1. n - (k + 1) \in 0..(n - 1) /\ (n - (k + 1)) + 1 = n - k /\ k + 1 \in 0..n
          /\ n - (k + 1) \in Nat
      BY <1>1
    <3>2. g[n - (k + 1)] = P(g[n - k], n - (k + 1))
      BY <1>6, <3>1
    <3>. QED BY <1>2, <2>2, <3>1, <3>2
  <2>. HIDE DEF K
  <2>3. 0..n \subseteq K
    BY <1>1, <2>1, <2>2, UpTo
  <2>4. ASSUME NEW k \in 0..n PROVE g[k] \in X
    <3>1. n - k \in 0..n /\ n - (n - k) = k
      BY <1>1
    <3>. QED BY <2>3, <3>1 DEF K
  <2>. QED BY <2>4
<1>9. g \in [0..n -> X]
  BY <1>7, <1>8
<1>10. Backward(g, name, layers, prk, aad, ct, B)
  BY <1>6, <1>9 DEF Backward, n, P, b, X
<1>. QED BY <1>3, <1>10 DEF g

(* One list after another. *)
LEMMA Joined ==
    ASSUME NEW B, NEW s \in Seq(B), NEW t \in Seq(B)
    PROVE  /\ s \o t \in Seq(B)
           /\ Len(s \o t) = Len(s) + Len(t)
           /\ Len(t) > 0 => (s \o t)[Len(s) + 1] = t[1]
<1>1. s \o t \in Seq(B) /\ Len(s \o t) = Len(s) + Len(t)
  OBVIOUS
<1>2. ASSUME Len(t) > 0 PROVE (s \o t)[Len(s) + 1] = t[1]
  BY <1>2
<1>. QED BY <1>1, <1>2

(* The number of boxes left when layer i is the outermost. *)
Depth(name, i) == IF Suite(name) # 0 /\ i > 0 THEN 2 * i - 1 ELSE i

(* The last layer is the outermost box, and nothing is counted twice. *)
Topped(e, name, layers, prk, aad, n) ==
    /\ e[n] \in Seq(Boxes(name, layers, prk, aad)) /\ Len(e[n]) = Depth(name, n)
    /\ e[n] = e[n - 1] \o <<LayerBox(name, layers, prk, aad, n)>>
    /\ Last(e[n]) = LayerBox(name, layers, prk, aad, n)

LEMMA Outermost ==
    ASSUME NEW name, NEW layers, Len(layers) \in Nat \ {0}, NEW prk, NEW aad, NEW e,
           Forward(e, name, layers, prk, aad)
    PROVE  Topped(e, name, layers, prk, aad, Len(layers))
<1>. DEFINE n == Len(layers)
            B == Boxes(name, layers, prk, aad)
            L(i) == LayerBox(name, layers, prk, aad, i)
            G(i) == GapPart(name, prk, n, i)
            w(i) == IF Suite(name) # 0 THEN 2 * i ELSE i
<1>1. /\ n \in Nat /\ n > 0 /\ e \in [0..n -> Seq(B)] /\ e[0] = <<>>
      /\ \A i \in 1..n : e[i] = e[i - 1] \o <<L(i)>> \o G(i)
  BY DEF Forward
<1>2. \A i \in 1..n : L(i) \in B /\ GapBox(name, prk, i) \in B
  BY DEF Boxes
<1>3. /\ \A i \in 1..n : i < n => G(i) \in Seq(B) /\ Len(G(i)) = (IF Suite(name) # 0 THEN 1 ELSE 0)
      /\ G(n) = <<>>
  <2>1. ASSUME NEW i \in 1..n, i < n
        PROVE  G(i) \in Seq(B) /\ Len(G(i)) = (IF Suite(name) # 0 THEN 1 ELSE 0)
    <3>. DEFINE x == GapBox(name, prk, i)
    <3>1. G(i) = IF Suite(name) # 0 THEN <<x>> ELSE <<>>
      BY <2>1 DEF GapPart
    <3>2. x \in B
      BY <1>2
    <3>. HIDE DEF x, B, G
    <3>3. <<x>> \in Seq(B) /\ Len(<<x>>) = 1 /\ <<>> \in Seq(B) /\ Len(<<>>) = 0
      BY <3>2
    <3>. QED BY <3>1, <3>3
  <2>2. G(n) = <<>>
    BY <1>1 DEF GapPart
  <2>. QED BY <2>1, <2>2
<1>. HIDE DEF n, B, L, G
<1>4. \A i \in 1..n : <<L(i)>> \in Seq(B) /\ Len(<<L(i)>>) = 1 /\ e[i - 1] \in Seq(B)
  <2>1. TAKE i \in 1..n
  <2>2. i - 1 \in 0..n /\ L(i) \in B
    BY <1>1, <1>2
  <2>. QED BY <1>1, <2>2
<1>. DEFINE K == {k \in 0..(n - 1) : Len(e[k]) = w(k)}
<1>5. n - 1 \in K
  <2>1. 0 \in K
    BY <1>1
  <2>2. ASSUME NEW k \in 0..((n - 1) - 1), k \in K PROVE k + 1 \in K
    <3>1. k + 1 \in 1..n /\ k + 1 < n /\ (k + 1) - 1 = k /\ k + 1 \in 0..(n - 1)
      BY <1>1
    <3>. DEFINE a == e[k]
                l == <<L(k + 1)>>
                m == G(k + 1)
    <3>2. /\ e[k + 1] = a \o l \o m /\ a \in Seq(B) /\ l \in Seq(B) /\ m \in Seq(B)
          /\ Len(l) = 1 /\ Len(m) = (IF Suite(name) # 0 THEN 1 ELSE 0) /\ Len(a) = w(k)
      BY <1>1, <1>3, <1>4, <2>2, <3>1
    <3>. HIDE DEF a, l, m
    <3>3. Len(a \o l \o m) = Len(a) + Len(l) + Len(m)
      <4>. DEFINE al == a \o l
      <4>1. al \in Seq(B) /\ Len(al) = Len(a) + Len(l)
        BY <3>2, Joined
      <4>. HIDE DEF al
      <4>2. Len(al \o m) = Len(al) + Len(m)
        BY <3>2, <4>1, Joined
      <4>. QED BY <4>1, <4>2 DEF al
    <3>4. Len(e[k + 1]) = w(k + 1)
      BY <3>1, <3>2, <3>3
    <3>. QED BY <3>1, <3>4
  <2>. HIDE DEF K
  <2>3. n - 1 \in Nat /\ n - 1 \in 0..(n - 1)
    BY <1>1
  <2>4. 0..(n - 1) \subseteq K
    BY <2>1, <2>2, <2>3, UpTo
  <2>. QED BY <2>3, <2>4
<1>. DEFINE a == e[n - 1]
            l == <<L(n)>>
<1>6. n \in 1..n /\ e[n] = a \o l \o <<>> /\ a \in Seq(B) /\ L(n) \in B /\ Len(a) = w(n - 1)
  <2>1. n \in 1..n
    BY <1>1
  <2>. QED BY <1>1, <1>2, <1>3, <1>4, <1>5, <2>1
<1>. HIDE DEF a
<1>7. a \o l \in Seq(B) /\ Len(a \o l) = Len(a) + 1 /\ (a \o l)[Len(a) + 1] = L(n)
  <2>1. l \in Seq(B) /\ Len(l) = 1 /\ l[1] = L(n)
    BY <1>6
  <2>. HIDE DEF l
  <2>2. a \o l \in Seq(B) /\ Len(a \o l) = Len(a) + Len(l)
    BY <1>6, <2>1, Joined
  <2>3. (a \o l)[Len(a) + 1] = l[1]
    <3>1. a \in Seq(B) /\ l \in Seq(B) /\ Len(l) > 0
      BY <1>6, <2>1
    <3>. QED BY <3>1, Joined, Zenon
  <2>. QED BY <2>1, <2>2, <2>3
<1>. DEFINE t == a \o l
<1>8. t \o <<>> = t
  <2>1. t \in Seq(B)
    BY <1>7
  <2>. HIDE DEF t
  <2>. QED BY <2>1
<1>9. e[n] = a \o l
  BY <1>6, <1>8
<1>10. Len(e[n]) = Depth(name, n)
  BY <1>1, <1>6, <1>7, <1>9 DEF Depth
<1>11. Last(e[n]) = L(n)
  BY <1>6, <1>7, <1>9 DEF Last
<1>12. e[n] \in Seq(B)
  BY <1>7, <1>9
<1>. QED BY <1>9, <1>10, <1>11, <1>12 DEF n, B, L, a, Topped

(* cascade_decrypt with any definition of the profile: once every layer of it  *)
(* is off, nothing is left.  The outermost box names the number of layers.     *)
LEMMA NothingLeft ==
    ASSUME NEW name, NEW layers, Len(layers) \in Nat \ {0}, NEW other, Len(other) \in Nat \ {0},
           NEW prk, NEW aad, NEW len \in Nat, NEW ct,
           ct.boxes = CascadeEncrypt(name, layers, prk, aad, len).boxes,
           CascadeDecrypt(name, other, prk, aad, ct).ok
    PROVE  CascadeDecrypt(name, other, prk, aad, ct).boxes = <<>>
<1>. DEFINE n == Len(layers)
            B == Boxes(name, layers, prk, aad)
            m == Len(other)
<1>1. PICK e : Forward(e, name, layers, prk, aad) /\ ct.boxes = e[n]
  BY Encrypts
<1>2. /\ ct.boxes \in Seq(B) /\ Len(ct.boxes) = Depth(name, n)
      /\ Last(ct.boxes) = LayerBox(name, layers, prk, aad, n)
  <2>1. Topped(e, name, layers, prk, aad, n)
    BY <1>1, Outermost
  <2>. QED BY <1>1, <2>1 DEF Topped
<1>3. PICK d : Backward(d, name, other, prk, aad, ct, B) /\ CascadeDecrypt(name, other, prk, aad, ct) = d[0]
  BY <1>2, Decrypts
<1>4. /\ m \in Nat /\ m > 0 /\ n \in Nat /\ d \in [0..m -> Opened(B)] /\ d[m].boxes = ct.boxes
      /\ \A i \in 0..(m - 1) : d[i] = Peel(d[i + 1], name, other, prk, aad, i)
      /\ d[0].ok
  BY <1>3 DEF Backward
<1>. HIDE DEF n, B, m
<1>5. ASSUME NEW i \in 0..(m - 1), d[i].ok
      PROVE  /\ d[i + 1].ok /\ Last(d[i + 1].boxes) = LayerBox(name, other, prk, aad, i + 1)
             /\ Len(d[i].boxes) = Len(d[i + 1].boxes) - (IF Suite(name) # 0 /\ i > 0 THEN 2 ELSE 1)
  <2>1. d[i + 1] \in Opened(B) /\ i \in Nat
    BY <1>4
  <2>. DEFINE c == d[i + 1]
  <2>2. TakesOff(c, Peel(c, name, other, prk, aad, i), name, other, prk, aad, i)
    BY <2>1, Peeled
  <2>3. TakesOff(c, d[i], name, other, prk, aad, i)
    BY <1>4, <2>2
  <2>. QED BY <1>5, <2>3 DEF TakesOff
<1>. DEFINE K == {k \in 0..m : d[k].ok}
<1>6. \A k \in 0..m : d[k].ok
  <2>1. 0 \in K
    BY <1>4
  <2>2. ASSUME NEW k \in 0..(m - 1), k \in K PROVE k + 1 \in K
    <3>1. k + 1 \in 0..m
      BY <1>4
    <3>. QED BY <1>5, <2>2, <3>1
  <2>. HIDE DEF K
  <2>3. 0..m \subseteq K
    BY <1>4, <2>1, <2>2, UpTo
  <2>. QED BY <2>3 DEF K
<1>7. m = n
  <2>1. m - 1 \in 0..(m - 1) /\ m - 1 \in 0..m /\ (m - 1) + 1 = m
    BY <1>4
  <2>2. Last(ct.boxes) = LayerBox(name, other, prk, aad, m)
    BY <1>4, <1>5, <1>6, <2>1
  <2>3. LayerBox(name, other, prk, aad, m).label = LayerBox(name, layers, prk, aad, n).label
    BY <1>2, <2>2
  <2>4. LayerLabel(name, other[m], m)[3] = LayerLabel(name, layers[n], n)[3]
    BY <2>3 DEF LayerBox
  <2>5. LayerLabel(name, other[m], m)[3] = m /\ LayerLabel(name, layers[n], n)[3] = n
    BY DEF LayerLabel
  <2>. QED BY <2>4, <2>5
<1>. DEFINE J == {k \in 0..m : Len(d[m - k].boxes) = Depth(name, m - k)}
<1>8. m \in J
  <2>1. 0 \in J
    BY <1>2, <1>4, <1>7
  <2>2. ASSUME NEW k \in 0..(m - 1), k \in J PROVE k + 1 \in J
    <3>. DEFINE i == m - (k + 1)
    <3>1. i \in 0..(m - 1) /\ i + 1 = m - k /\ k + 1 \in 0..m /\ i \in 0..m /\ i \in Nat
      BY <1>4
    <3>. HIDE DEF i
    <3>2. Len(d[i].boxes) = Depth(name, i + 1) - (IF Suite(name) # 0 /\ i > 0 THEN 2 ELSE 1)
      BY <1>5, <1>6, <2>2, <3>1
    <3>3. Len(d[i].boxes) = Depth(name, i)
      BY <3>1, <3>2 DEF Depth
    <3>. QED BY <3>1, <3>3 DEF i
  <2>. HIDE DEF J
  <2>3. 0..m \subseteq J
    BY <1>4, <2>1, <2>2, UpTo
  <2>. QED BY <1>4, <2>3
<1>9. Len(d[0].boxes) = 0
  <2>1. m - m = 0
    BY <1>4
  <2>. QED BY <1>8, <2>1 DEF Depth
<1>10. d[0].boxes \in Seq(B)
  <2>1. 0 \in 0..m
    BY <1>4
  <2>. QED BY <1>4, <2>1 DEF Opened
<1>. QED BY <1>3, <1>9, <1>10

(* With the definition it was sealed with, every layer comes off. *)
LEMMA Reopens ==
    ASSUME NEW name, NEW layers, Len(layers) \in Nat \ {0},
           NEW prk, NEW aad, NEW len \in Nat, NEW ct, ct.name = name,
           ct.boxes = CascadeEncrypt(name, layers, prk, aad, len).boxes
    PROVE  CascadeDecrypt(name, layers, prk, aad, ct).ok
<1>. DEFINE n == Len(layers)
            B == Boxes(name, layers, prk, aad)
            L(i) == LayerBox(name, layers, prk, aad, i)
            g(i) == GapBox(name, prk, i)
<1>1. PICK e : Forward(e, name, layers, prk, aad) /\ ct.boxes = e[n]
  BY Encrypts
<1>2. ct.boxes \in Seq(B) /\ e[n] = e[n - 1] \o <<L(n)>>
  <2>1. Topped(e, name, layers, prk, aad, n)
    BY <1>1, Outermost
  <2>. QED BY <1>1, <2>1 DEF Topped
<1>3. PICK d : Backward(d, name, layers, prk, aad, ct, B) /\ CascadeDecrypt(name, layers, prk, aad, ct) = d[0]
  BY <1>2, Decrypts
<1>4. /\ n \in Nat /\ n > 0
      /\ e \in [0..n -> Seq(B)]
      /\ \A i \in 1..n : e[i] = e[i - 1] \o <<L(i)>> \o GapPart(name, prk, n, i)
  BY <1>1 DEF Forward
<1>5. /\ d[n] = [ok |-> TRUE, boxes |-> ct.boxes]
      /\ \A i \in 0..(n - 1) : d[i] = Peel(d[i + 1], name, layers, prk, aad, i)
  BY <1>3 DEF Backward
<1>6. \A i \in 1..n : L(i) \in B /\ g(i) \in B
  BY DEF Boxes
<1>7. ASSUME NEW i \in 0..(n - 1), d[i + 1] = [ok |-> TRUE, boxes |-> e[i] \o <<L(i + 1)>>]
      PROVE  /\ d[i].ok
             /\ i > 0 => d[i] = [ok |-> TRUE, boxes |-> e[i - 1] \o <<L(i)>>]
  <2>. HIDE DEF n, B
  <2>1. i + 1 \in 1..n /\ i \in 0..n /\ (i > 0 => i \in 1..n /\ i < n /\ i - 1 \in 0..n)
    BY <1>4
  <2>2. e[i] \in Seq(B) /\ L(i + 1) \in B
    BY <1>4, <1>6, <2>1
  <2>. DEFINE c == d[i + 1]
              l == L(i + 1)
              s == e[i]
              u == Unbox(c, l)
  <2>. HIDE DEF l, s
  <2>3. c.ok /\ c.boxes = s \o <<l>>
    BY <1>7 DEF l, s
  <2>. HIDE DEF c
  <2>4. u = [ok |-> TRUE, boxes |-> s]
    BY <2>2, <2>3, UnboxPush DEF l, s
  <2>. HIDE DEF u
  <2>5. d[i] = IF Suite(name) # 0 /\ i > 0 THEN Unbox(u, g(i)) ELSE u
    BY <1>5 DEF Peel, u, c, l
  <2>6. CASE i = 0
    BY <2>4, <2>5, <2>6
  <2>7. CASE i > 0 /\ Suite(name) = 0
    <3>1. s = e[i - 1] \o <<L(i)>> \o <<>>
      BY <1>4, <2>1, <2>7 DEF GapPart, s
    <3>. DEFINE t == e[i - 1] \o <<L(i)>>
    <3>2. t \in Seq(B)
      BY <1>4, <1>6, <2>1, <2>7
    <3>3. t \o <<>> = t
      <4>. HIDE DEF t
      <4>. QED BY <3>2
    <3>4. s = t
      BY <3>1, <3>3
    <3>. QED BY <2>4, <2>5, <2>7, <3>4
  <2>8. CASE i > 0 /\ Suite(name) # 0
    <3>. DEFINE t == e[i - 1] \o <<L(i)>>
                x == g(i)
    <3>1. s = t \o <<x>>
      BY <1>4, <2>1, <2>8 DEF GapPart, s
    <3>2. t \in Seq(B) /\ x \in B
      BY <1>4, <1>6, <2>1, <2>8
    <3>. HIDE DEF t, x
    <3>3. u.ok /\ u.boxes = t \o <<x>>
      BY <2>4, <3>1
    <3>4. Unbox(u, x) = [ok |-> TRUE, boxes |-> t]
      BY <3>2, <3>3, UnboxPush
    <3>5. d[i] = [ok |-> TRUE, boxes |-> t]
      BY <2>5, <2>8, <3>4 DEF x
    <3>. QED BY <3>5 DEF t
  <2>. QED BY <2>1, <2>6, <2>7, <2>8
<1>. DEFINE K == {k \in 0..(n - 1) : d[n - k] = [ok |-> TRUE, boxes |-> e[(n - k) - 1] \o <<L(n - k)>>]}
<1>8. n - 1 \in K
  <2>. HIDE DEF n, L
  <2>1. 0 \in K
    <3>1. n - 0 = n /\ (n - 0) - 1 = n - 1 /\ 0 \in 0..(n - 1)
      BY <1>4
    <3>. QED BY <1>1, <1>2, <1>5, <3>1
  <2>2. ASSUME NEW k \in 0..((n - 1) - 1), k \in K PROVE k + 1 \in K
    <3>. DEFINE i == n - (k + 1)
    <3>1. i \in 0..(n - 1) /\ i + 1 = n - k /\ (n - k) - 1 = i /\ k + 1 \in 0..(n - 1) /\ i > 0
      BY <1>4
    <3>. HIDE DEF i
    <3>2. d[i + 1] = [ok |-> TRUE, boxes |-> e[i] \o <<L(i + 1)>>]
      BY <2>2, <3>1
    <3>3. d[i] = [ok |-> TRUE, boxes |-> e[i - 1] \o <<L(i)>>]
      BY <1>7, <3>1, <3>2
    <3>. QED BY <3>1, <3>3 DEF i
  <2>. HIDE DEF K
  <2>3. n - 1 \in Nat /\ n - 1 \in 0..(n - 1)
    BY <1>4
  <2>4. 0..(n - 1) \subseteq K
    BY <2>1, <2>2, <2>3, UpTo
  <2>. QED BY <2>3, <2>4
<1>. HIDE DEF n, L
<1>9. n - (n - 1) = 1 /\ 1 - 1 = 0 /\ 0 \in 0..(n - 1) /\ 0 + 1 = 1
  BY <1>4
<1>10. d[0 + 1] = [ok |-> TRUE, boxes |-> e[0] \o <<L(0 + 1)>>]
  BY <1>8, <1>9
<1>. QED BY <1>3, <1>7, <1>9, <1>10

-----------------------------------------------------------------------------
(* A message of encrypt holds what seal_plaintext_with_profile made of some   *)
(* plaintext with the layers it records; only a profile with a suite has a    *)
(* CESS wrapper, which always has a key.                                      *)
SealedOk(m) ==
    m.form \in {"galdracp", "cess"} =>
        /\ \E prk, fp : \E len \in Nat : m.env = SealPlaintext(m.env.name, m.layers, prk, fp, len).env
        /\ Len(m.layers) \in Nat \ {0}
        /\ m.form = "cess" => m.k # "none" /\ CanWrap(m.env.name)

(* What SealedOpens says of one outcome. *)
OutcomeOk(o) ==
    /\ o.out # "inner"
    /\ o.out = "literal" => o.k = "none" /\ o.msg.form \in {"cess", "raw"}
    /\ o.same /\ o.msg.env.name # Retired /\ (o.msg.form = "cess" => o.k = o.msg.k)
         => o.out = "plain"

(* open_plaintext_after_openpgp gives the plaintext or refuses, and with the   *)
(* definition that sealed it gives the plaintext.                              *)
LEMMA EnvelopeOpens ==
    ASSUME NEW m, SealedOk(m), m.form \in {"galdracp", "cess"},
           NEW reg, \A n \in DOMAIN reg : Len(reg[n]) \in Nat \ {0}
    PROVE  /\ OpenEnvelope(m.env, reg) \in {"plain", "refused"}
           /\ m.env.name \in DOMAIN reg /\ m.env.name # Retired /\ m.layers = reg[m.env.name]
                => OpenEnvelope(m.env, reg) = "plain"
<1>. DEFINE env == m.env
            name == env.name
<1>1. PICK prk, fp : \E len \in Nat : m.env = SealPlaintext(m.env.name, m.layers, prk, fp, len).env
  BY DEF SealedOk
<1>2. PICK len \in Nat : m.env = SealPlaintext(m.env.name, m.layers, prk, fp, len).env
  BY <1>1
<1>. DEFINE aad == Aad(name, fp)
            c(layers) == CascadeDecrypt(name, layers, env.prk, Aad(name, env.fp), env)
<1>3. /\ env.prk = prk /\ env.fp = fp
      /\ env.boxes = CascadeEncrypt(name, m.layers, prk, aad, len).boxes
  <2>. DEFINE x == CascadeEncrypt(name, m.layers, prk, aad, len).boxes
              nm == m.env.name
  <2>1. m.env = [name |-> nm, fp |-> fp, prk |-> prk, boxes |-> x]
    BY <1>2 DEF SealPlaintext
  <2>. HIDE DEF x, nm
  <2>2. m.env.fp = fp /\ m.env.prk = prk /\ m.env.boxes = x
    BY <2>1
  <2>. QED BY <2>2 DEF x
<1>4. Len(m.layers) \in Nat \ {0}
  BY DEF SealedOk
<1>. HIDE DEF env, name, aad
<1>5. \A layers : c(layers) = CascadeDecrypt(name, layers, prk, aad, env)
  BY <1>3 DEF aad
<1>. HIDE DEF c
<1>6. OpenEnvelope(env, reg) =
        IF name = Retired \/ name \notin DOMAIN reg THEN "refused"
        ELSE IF ~c(reg[name]).ok THEN "refused" ELSE IF c(reg[name]).boxes = <<>> THEN "plain" ELSE "inner"
  BY DEF OpenEnvelope, name, c
<1>7. ASSUME name \in DOMAIN reg, c(reg[name]).ok PROVE c(reg[name]).boxes = <<>>
  <2>. DEFINE other == reg[name]
  <2>1. Len(other) \in Nat \ {0} /\ CascadeDecrypt(name, other, prk, aad, env).ok
    BY <1>5, <1>7
  <2>. HIDE DEF other
  <2>2. CascadeDecrypt(name, other, prk, aad, env).boxes = <<>>
    BY <1>3, <1>4, <2>1, NothingLeft
  <2>. QED BY <1>5, <2>2 DEF other
<1>8. c(m.layers).ok
  <2>1. CascadeDecrypt(name, m.layers, prk, aad, env).ok
    BY <1>3, <1>4, Reopens DEF name
  <2>. QED BY <1>5, <2>1
<1>. QED BY <1>6, <1>7, <1>8 DEF env, name

(* Every profile of a registry has layers. *)
LEMMA RegistryLayers ==
    ASSUME NEW t, \A n \in DOMAIN t : RowOk(t[n])
    PROVE  \A n \in DOMAIN Registry(t) : Len(Registry(t)[n]) \in Nat \ {0}
<1>1. TAKE n \in DOMAIN Registry(t)
<1>2. Registry(t)[n] = (IF n \in Builtin THEN BuiltinLayers(n) ELSE t[n].layers)
      /\ n \in Builtin \cup DOMAIN t
  BY DEF Registry
<1>3. CASE n \in Builtin
  <2>1. Len(BuiltinLayers(n)) \in {1, 2}
    <3>1. Len(<<"chacha">>) = 1 /\ Len(<<"chacha", "serpent">>) = 2
      OBVIOUS
    <3>. QED BY <3>1 DEF BuiltinLayers
  <2>. QED BY <1>2, <1>3, <2>1
<1>4. CASE n \notin Builtin
  BY <1>2, <1>4 DEF RowOk, Builds
<1>. QED BY <1>3, <1>4

(* What decrypt makes of any message that is not an age file. *)
LEMMA OpeningOk ==
    ASSUME MailInv, NEW p \in MailProcs, NEW m, MailOk(m), SealedOk(m), m.form # "age", NEW k
    PROVE  OutcomeOk(Opening(p, m, k))
<1>. DEFINE reg == Registry(Table(p))
            o == Opening(p, m, k)
            out == OpenLiteral(m, k, reg)
            same == /\ m.form \in {"galdracp", "cess"} /\ m.env.name \in DOMAIN reg
                    /\ m.layers = reg[m.env.name]
<1>1. o.msg = m /\ o.k = k /\ o.same = same /\ o.out = out
  BY DEF Opening
<1>2. \A n \in DOMAIN reg : Len(reg[n]) \in Nat \ {0}
  <2>1. Station(p) \in Stations
    BY MailAssumption DEF Station
  <2>2. \A n \in DOMAIN Table(p) : RowOk(Table(p)[n])
    BY <2>1 DEF MailInv, TablesInv, Table
  <2>. QED BY <2>2, RegistryLayers
<1>. HIDE DEF reg
<1>3. m.form \in {"galdracp", "cess", "raw"}
  BY DEF MailOk
<1>. DEFINE v == OpenEnvelope(m.env, reg)
<1>4. m.form \in {"galdracp", "cess"} =>
        v \in {"plain", "refused"} /\ (same /\ m.env.name # Retired => v = "plain")
  BY <1>2, EnvelopeOpens
<1>5. /\ out # "inner"
      /\ out = "literal" => k = "none" /\ m.form \in {"cess", "raw"}
      /\ same /\ m.env.name # Retired /\ (m.form = "cess" => k = m.k) => out = "plain"
  <2>1. CASE m.form = "galdracp"
    <3>1. out = v
      BY <2>1 DEF OpenLiteral
    <3>. HIDE DEF out, v, same
    <3>. QED BY <1>4, <2>1, <3>1
  <2>2. CASE m.form # "galdracp" /\ k = "none"
    <3>1. out = "literal"
      BY <2>2 DEF OpenLiteral
    <3>2. m.form = "cess" => m.k # "none"
      BY DEF SealedOk
    <3>. HIDE DEF out
    <3>. QED BY <1>3, <2>2, <3>1, <3>2
  <2>3. CASE m.form # "galdracp" /\ k # "none" /\ OuterOpens(m, k)
    <3>1. out = v /\ m.form = "cess"
      BY <2>3 DEF OpenLiteral, OuterOpens
    <3>. HIDE DEF out, v, same
    <3>. QED BY <1>4, <3>1
  <2>4. CASE m.form # "galdracp" /\ k # "none" /\ ~OuterOpens(m, k)
    <3>1. out = "refused"
      BY <2>4 DEF OpenLiteral
    <3>2. m.form = "cess" => k # m.k
      BY <2>4 DEF OuterOpens, SealedOk, CanWrap
    <3>3. same => m.form = "cess"
      BY <1>3, <2>4
    <3>. HIDE DEF out, same
    <3>. QED BY <3>1, <3>2, <3>3
  <2>. QED BY <2>1, <2>2, <2>3, <2>4
<1>. HIDE DEF o, out, same
<1>. QED BY <1>1, <1>5 DEF OutcomeOk, o

(* What encrypt makes of a request it accepts. *)
LEMMA MessageSealed ==
    ASSUME MailInv, NEW p \in MailProcs, NEW r \in Requests, NEW fp,
           r.name \in DOMAIN Registry(Table(p)), r.k # "none" => CanWrap(r.name)
    PROVE  SealedOk(Message(p, r, fp))
<1>. DEFINE m == Message(p, r, fp)
            layers == Registry(Table(p))[r.name]
            x == CascadeEncrypt(r.name, layers, mailCommands, Aad(r.name, fp), r.len).boxes
<1>1. r.len \in Nat
  BY MailAssumption
<1>2. Len(layers) \in Nat \ {0}
  <2>1. Station(p) \in Stations
    BY MailAssumption DEF Station
  <2>2. \A n \in DOMAIN Table(p) : RowOk(Table(p)[n])
    BY <2>1 DEF MailInv, TablesInv, Table
  <2>. QED BY <2>2, RegistryLayers
<1>. HIDE DEF layers
<1>3. /\ m.form = (IF r.k = "none" THEN "galdracp" ELSE "cess") /\ m.k = r.k /\ m.layers = layers
      /\ m.env = SealPlaintext(r.name, layers, mailCommands, fp, r.len).env
  BY DEF Message, Sealed, layers
<1>4. m.env.name = r.name
  <2>1. m.env = [name |-> r.name, fp |-> fp, prk |-> mailCommands, boxes |-> x]
    BY <1>3 DEF SealPlaintext
  <2>. HIDE DEF x, m
  <2>. QED BY <2>1
<1>. HIDE DEF m
<1>5. \E prk, f : \E len \in Nat : m.env = SealPlaintext(m.env.name, m.layers, prk, f, len).env
  BY <1>1, <1>3, <1>4
<1>6. SealedOk(m)
  BY <1>2, <1>3, <1>4, <1>5 DEF SealedOk
<1>. QED BY <1>6 DEF m

(* The messages, the ones about to be written, the outcomes, and the answers   *)
(* that wait for their audit row.                                              *)
JobCrypt(j) ==
    /\ j.at = "write" => SealedOk(j.mail)
    /\ j.at = "log" => \A o \in j.reply : OutcomeOk(o)

CryptInv ==
    /\ \A m \in mail : SealedOk(m)
    /\ \A p \in MailProcs : JobCrypt(mjob[p])
    /\ \A o \in opened : OutcomeOk(o)

(* Steps that add only what is right. *)
LEMMA CryptStep ==
    ASSUME MailInv, CryptInv, NEW p \in MailProcs,
           \/ UNCHANGED mjob
           \/ \E j : mjob' = [mjob EXCEPT ![p] = j] /\ JobCrypt(j),
           \A m \in mail' : m \in mail \/ SealedOk(m),
           \A o \in opened' : o \in opened \/ OutcomeOk(o)
    PROVE  CryptInv'
<1>1. (\A m \in mail' : SealedOk(m)) /\ (\A o \in opened' : OutcomeOk(o))
  BY DEF CryptInv
<1>2. ASSUME NEW q \in MailProcs PROVE JobCrypt(mjob'[q])
  <2>1. mjob = [x \in MailProcs |-> mjob[x]] /\ JobCrypt(mjob[q])
    BY DEF MailInv, JobsInv, CryptInv
  <2>2. ASSUME NEW j, mjob' = [mjob EXCEPT ![p] = j], JobCrypt(j) PROVE JobCrypt(mjob'[q])
    <3>1. mjob'[q] = j \/ mjob'[q] = mjob[q]
      BY <2>1, <2>2
    <3>. QED BY <2>1, <2>2, <3>1
  <2>. QED BY <2>1, <2>2
<1>. QED BY <1>1, <1>2 DEF CryptInv, JobCrypt

(* encrypt, in galdra and in galdrad *)
LEMMA EncryptCrypt ==
    ASSUME MailInv, CryptInv, NEW p \in MailProcs, Encrypt(p) \/ EncryptMsg(p) \/ EncryptAge(p)
    PROVE  CryptInv'
<1>1. UNCHANGED opened
  BY DEF Encrypt, EncryptMsg, EncryptAge, MailKept
<1>2. CASE Encrypt(p)
  <2>1. UNCHANGED mail
    BY <1>2 DEF Encrypt, MailKept
  <2>2. PICK r \in Requests, fp \in {"card", "placeholder"} :
          \/ UNCHANGED mjob
          \/ Accepts(p, r) /\ mjob' = [mjob EXCEPT ![p] = [at |-> "write", mail |-> Message(p, r, fp)]]
    BY <1>2 DEF Encrypt, MailGoto
  <2>3. CASE UNCHANGED mjob
    BY <1>1, <2>1, <2>3, CryptStep
  <2>4. CASE Accepts(p, r) /\ mjob' = [mjob EXCEPT ![p] = [at |-> "write", mail |-> Message(p, r, fp)]]
    <3>1. SealedOk(Message(p, r, fp))
      BY <2>4, MessageSealed DEF Accepts, Acceptable
    <3>. DEFINE m == Message(p, r, fp)
                j == [at |-> "write", mail |-> m]
    <3>. HIDE DEF m
    <3>2. JobCrypt(j)
      BY <3>1 DEF JobCrypt, m
    <3>3. mjob' = [mjob EXCEPT ![p] = j]
      BY <2>4 DEF m
    <3>. HIDE DEF j
    <3>. QED BY <1>1, <2>1, <3>2, <3>3, CryptStep
  <2>. QED BY <2>2, <2>3, <2>4
<1>3. CASE EncryptMsg(p)
  <2>1. UNCHANGED mjob
    BY <1>3 DEF EncryptMsg
  <2>2. PICK r \in Requests :
          \/ mail' = mail
          \/ Acceptable(p, [r EXCEPT !.strict = TRUE]) /\ mail' = mail \cup {Message(p, r, "placeholder")}
    BY <1>3 DEF EncryptMsg
  <2>3. ASSUME Acceptable(p, [r EXCEPT !.strict = TRUE]) PROVE SealedOk(Message(p, r, "placeholder"))
    <3>1. [r EXCEPT !.strict = TRUE].name = r.name /\ [r EXCEPT !.strict = TRUE].k = r.k
      BY MailAssumption
    <3>2. r.name \in DOMAIN Registry(Table(p)) /\ (r.k # "none" => CanWrap(r.name))
      BY <2>3, <3>1 DEF Acceptable
    <3>. QED BY <3>2, MessageSealed
  <2>4. \A m \in mail' : m \in mail \/ SealedOk(m)
    BY <2>2, <2>3
  <2>. QED BY <1>1, <2>1, <2>4, CryptStep
<1>4. CASE EncryptAge(p)
  <2>1. UNCHANGED mail
    BY <1>4 DEF EncryptAge, MailKept
  <2>2. UNCHANGED mjob \/ \E m : m.form = "age" /\ mjob' = [mjob EXCEPT ![p] = [at |-> "write", mail |-> m]]
    BY <1>4 DEF EncryptAge, MailGoto
  <2>3. ASSUME NEW m, m.form = "age" PROVE JobCrypt([at |-> "write", mail |-> m])
    BY <2>3 DEF JobCrypt, SealedOk
  <2>4. UNCHANGED mjob \/ \E j : mjob' = [mjob EXCEPT ![p] = j] /\ JobCrypt(j)
    BY <2>2, <2>3
  <2>. QED BY <1>1, <2>1, <2>4, CryptStep
<1>. QED BY <1>2, <1>3, <1>4

(* decrypt, in galdra and in galdrad *)
LEMMA DecryptCrypt ==
    ASSUME MailInv, CryptInv, NEW p \in MailProcs, Decrypt(p) \/ DecryptMsg(p) \/ DecryptAge(p)
    PROVE  CryptInv'
<1>1. UNCHANGED mail
  BY DEF Decrypt, DecryptMsg, DecryptAge, MailKept
<1>2. ASSUME NEW o \in Openings(p) PROVE OutcomeOk(o)
  <2>1. PICK m \in mail, k \in OuterKeys \cup {"none"} : m.form # "age" /\ o = Opening(p, m, k)
    BY DEF Openings
  <2>2. MailOk(m) /\ SealedOk(m)
    BY DEF MailInv, SentInv, CryptInv
  <2>. QED BY <2>1, <2>2, OpeningOk
<1>3. \A o : JobCrypt(Logged(o, {}))
  BY DEF JobCrypt, Logged
<1>4. \A o \in Openings(p) : JobCrypt(Logged(o, {o}))
  <2>1. TAKE o \in Openings(p)
  <2>2. Logged(o, {o}).at = "log" /\ Logged(o, {o}).reply = {o}
    BY DEF Logged
  <2>. QED BY <1>2, <2>2 DEF JobCrypt
<1>5. CASE Decrypt(p)
  <2>1. \/ UNCHANGED <<mjob, opened>>
        \/ \E o \in Openings(p) : /\ opened' = opened \cup {o}
                                  /\ UNCHANGED mjob \/ MailGoto(p, Logged(o, {}))
    BY <1>5 DEF Decrypt
  <2>2. UNCHANGED mjob \/ \E j : mjob' = [mjob EXCEPT ![p] = j] /\ JobCrypt(j)
    <3>. HIDE DEF Logged
    <3>. QED BY <1>3, <2>1 DEF MailGoto
  <2>3. \A o \in opened' : o \in opened \/ OutcomeOk(o)
    BY <1>2, <2>1
  <2>. QED BY <1>1, <2>2, <2>3, CryptStep
<1>6. CASE DecryptMsg(p)
  <2>1. \/ UNCHANGED <<mjob, opened>>
        \/ \E o \in Openings(p) : \/ opened' = opened \cup {o} /\ UNCHANGED mjob
                                  \/ MailGoto(p, Logged(o, {o})) /\ UNCHANGED opened
    BY <1>6 DEF DecryptMsg
  <2>2. UNCHANGED mjob \/ \E j : mjob' = [mjob EXCEPT ![p] = j] /\ JobCrypt(j)
    BY <1>4, <2>1 DEF MailGoto
  <2>3. \A o \in opened' : o \in opened \/ OutcomeOk(o)
    BY <1>2, <2>1
  <2>. QED BY <1>1, <2>2, <2>3, CryptStep
<1>7. CASE DecryptAge(p)
  <2>1. UNCHANGED opened
    BY <1>7 DEF DecryptAge, MailKept
  <2>2. UNCHANGED mjob \/ \E row : mjob' = [mjob EXCEPT ![p] = [at |-> "log", row |-> row, reply |-> {}]]
    BY <1>7 DEF DecryptAge, MailGoto
  <2>3. \A row : JobCrypt([at |-> "log", row |-> row, reply |-> {}])
    BY DEF JobCrypt
  <2>4. UNCHANGED mjob \/ \E j : mjob' = [mjob EXCEPT ![p] = j] /\ JobCrypt(j)
    BY <2>2, <2>3
  <2>. QED BY <1>1, <2>1, <2>4, CryptStep
<1>. QED BY <1>5, <1>6, <1>7

(* The audit row, the file, the profile commands and a process that is killed. *)
LEMMA OtherCrypt ==
    ASSUME MailInv, CryptInv, NEW p \in MailProcs,
           \/ AddProfile(p) \/ CreateProfile(p) \/ InsertProfile(p)
           \/ RemoveProfile(p) \/ DropProfile(p) \/ DeleteProfile(p)
           \/ WriteMail(p) \/ LogCrypt(p) \/ MailKilled(p)
    PROVE  CryptInv'
<1>1. JobCrypt(AtRest) /\ JobCrypt(mjob[p])
  BY DEF JobCrypt, AtRest, CryptInv
<1>2. CASE \/ AddProfile(p) \/ CreateProfile(p) \/ InsertProfile(p)
           \/ RemoveProfile(p) \/ DropProfile(p) \/ DeleteProfile(p) \/ MailKilled(p)
  <2>1. UNCHANGED <<mail, opened>>
    BY <1>2 DEF AddProfile, CreateProfile, InsertProfile, RemoveProfile, DropProfile, DeleteProfile,
                MailKilled, MailKept
  <2>2. \/ UNCHANGED mjob \/ MailGoto(p, AtRest)
        \/ \E n, r : MailGoto(p, [at |-> "insert", name |-> n, row |-> r])
        \/ \E n : MailGoto(p, [at |-> "delete", name |-> n])
    <3>1. CASE AddProfile(p) \/ CreateProfile(p)
      BY <3>1 DEF AddProfile, CreateProfile, Added
    <3>2. CASE RemoveProfile(p) \/ DropProfile(p)
      BY <3>2 DEF RemoveProfile, DropProfile, Removed
    <3>. QED BY <1>2, <3>1, <3>2 DEF InsertProfile, DeleteProfile, MailKilled
  <2>3. /\ \A n, r : JobCrypt([at |-> "insert", name |-> n, row |-> r])
        /\ \A n : JobCrypt([at |-> "delete", name |-> n])
    BY DEF JobCrypt
  <2>4. UNCHANGED mjob \/ \E j : mjob' = [mjob EXCEPT ![p] = j] /\ JobCrypt(j)
    BY <1>1, <2>2, <2>3 DEF MailGoto
  <2>. QED BY <2>1, <2>4, CryptStep
<1>3. CASE WriteMail(p)
  <2>1. /\ mjob[p].at = "write" /\ UNCHANGED opened
        /\ mail' = mail \/ mail' = mail \cup {mjob[p].mail}
        /\ \/ MailGoto(p, AtRest)
           \/ \E row : MailGoto(p, [at |-> "log", row |-> row, reply |-> {}])
    BY <1>3 DEF WriteMail
  <2>2. \A row : JobCrypt([at |-> "log", row |-> row, reply |-> {}])
    BY DEF JobCrypt
  <2>3. \E j : mjob' = [mjob EXCEPT ![p] = j] /\ JobCrypt(j)
    BY <1>1, <2>1, <2>2 DEF MailGoto
  <2>4. \A m \in mail' : m \in mail \/ SealedOk(m)
    BY <1>1, <2>1 DEF JobCrypt
  <2>. QED BY <2>1, <2>3, <2>4, CryptStep
<1>4. CASE LogCrypt(p)
  <2>1. /\ mjob[p].at = "log" /\ UNCHANGED mail /\ MailGoto(p, AtRest)
        /\ opened' = opened \/ opened' = opened \cup mjob[p].reply
    BY <1>4 DEF LogCrypt
  <2>2. \A o \in opened' : o \in opened \/ OutcomeOk(o)
    BY <1>1, <2>1 DEF JobCrypt
  <2>3. \E j : mjob' = [mjob EXCEPT ![p] = j] /\ JobCrypt(j)
    BY <1>1, <2>1 DEF MailGoto
  <2>. QED BY <2>1, <2>2, <2>3, CryptStep
<1>. QED BY <1>2, <1>3, <1>4

(* decrypt hands out the plaintext that was sealed or refuses, for every       *)
(* profile, definition of it at the receiver and number of layers, and hands   *)
(* it out when the definitions agree; profiles may be removed and added again  *)
(* under the same name at any time.                                            *)
THEOREM SealedMailOpens == MailSpec => []SealedOpens
<1>1. MailInit => CryptInv
  BY MailAssumption DEF MailInit, CryptInv, JobCrypt, AtRest, SealedOk
<1>2. MailInv /\ CryptInv /\ [MailNext]_mailVars => CryptInv'
  <2>. SUFFICES ASSUME MailInv, CryptInv, [MailNext]_mailVars PROVE CryptInv'
    OBVIOUS
  <2>1. CASE UNCHANGED mailVars
    BY <2>1 DEF mailVars, CryptInv, JobCrypt
  <2>2. ASSUME NEW p \in MailProcs, Encrypt(p) \/ EncryptMsg(p) \/ EncryptAge(p) PROVE CryptInv'
    BY <2>2, EncryptCrypt
  <2>3. ASSUME NEW p \in MailProcs, Decrypt(p) \/ DecryptMsg(p) \/ DecryptAge(p) PROVE CryptInv'
    BY <2>3, DecryptCrypt
  <2>4. ASSUME NEW p \in MailProcs,
               \/ AddProfile(p) \/ CreateProfile(p) \/ InsertProfile(p)
               \/ RemoveProfile(p) \/ DropProfile(p) \/ DeleteProfile(p)
               \/ WriteMail(p) \/ LogCrypt(p) \/ MailKilled(p)
        PROVE  CryptInv'
    BY <2>4, OtherCrypt
  <2>. QED BY <2>1, <2>2, <2>3, <2>4 DEF MailNext
<1>3. CryptInv => SealedOpens
  BY DEF CryptInv, OutcomeOk, SealedOpens
<1>. QED BY <1>1, <1>2, <1>3, MailInvariance, PTL DEF MailSpec

-----------------------------------------------------------------------------
(* The composition.  A step of one group is a step of that group's own     *)
(* specification and leaves the variables of the others alone.             *)
LEMMA StepsOfParts ==
    ASSUME [ToolsNext]_toolVars
    PROVE  /\ [OffersNext]_epkVars /\ [MailNext]_mailVars
           /\ [RegistryNext]_registryVars /\ [ShamirNext]_shamirVars /\ UNCHANGED area
<1>1. CASE UNCHANGED toolVars
  BY <1>1 DEF toolVars
<1>2. CASE ToolsNext
  BY <1>2 DEF ToolsNext
<1>. QED BY <1>1, <1>2

(* galdra with all four groups behaves, for each of them, as that group     *)
(* alone: no command of one group disturbs the tables, files, messages or   *)
(* running commands of another.                                             *)
THEOREM ToolsImplementParts ==
    ToolsSpec => OffersSpec /\ MailSpec /\ RegistrySpec /\ ShamirSpec
<1>1. ToolsInit => OffersInit /\ MailInit /\ RegistryInit /\ ShamirInit
  BY DEF ToolsInit
<1>2. [ToolsNext]_toolVars => /\ [OffersNext]_epkVars /\ [MailNext]_mailVars
                              /\ [RegistryNext]_registryVars /\ [ShamirNext]_shamirVars
  BY StepsOfParts
<1>. QED BY <1>1, <1>2, PTL DEF ToolsSpec, OffersSpec, MailSpec, RegistrySpec, ShamirSpec

(* The tables, files, messages, share texts and running commands of all     *)
(* four groups keep the shapes their code gives them, in every behaviour of *)
(* the composition.                                                         *)
THEOREM HostToolsTypeCorrect == ToolsSpec => []HostToolsTypeOK
<1>1. ToolsInit => area \in Areas
  BY DEF ToolsInit
<1>2. area \in Areas /\ [ToolsNext]_toolVars => (area \in Areas)'
  <2>. SUFFICES ASSUME area \in Areas, [ToolsNext]_toolVars PROVE area' \in Areas
    OBVIOUS
  <2>1. UNCHANGED area
    BY StepsOfParts
  <2>. QED BY <2>1
<1>3. ToolsSpec => [](area \in Areas)
  BY <1>1, <1>2, PTL DEF ToolsSpec
<1>4. ShamirSpec => []ShamirTypeOK
  BY ShamirInvariance, ShamirInvTypes, PTL
<1>5. area \in Areas /\ OffersTypeOK /\ MailTypeOK /\ RegistryTypeOK /\ ShamirTypeOK => HostToolsTypeOK
  BY DEF HostToolsTypeOK
<1>. QED BY <1>3, <1>4, <1>5, ToolsImplementParts, OffersTypeCorrect, MailTypeCorrect, RegistryTypeCorrect, PTL

(* What each group promises holds of the composition as well: offers can be *)
(* answered and revocation is final, profiles load and sealed mail opens, a *)
(* push uploads once, and shares recover their key.                         *)
THEOREM ToolsKeepPromises ==
    ToolsSpec => /\ [](OfferAnswerable /\ ProfilesLoad /\ SealedOpens /\ UploadedOnce /\ SharesRecover)
                 /\ RevocationFinal
BY ToolsImplementParts, OffersAreAnswerable, RevocationIsFinal, ProfilesAlwaysLoad, SealedMailOpens,
   PushUploadsOnce, SharesAlwaysRecover, PTL
=============================================================================
