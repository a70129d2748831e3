---------------------------- MODULE ContactStore ----------------------------
(***************************************************************************)
(* crates/contact-store: the on-chip contact directory.  Records, string   *)
(* heap, key region, timing log, integrity register and provision marker   *)
(* live in RRAM; the sorted index, the two bump pointers and the length of *)
(* the timing log live in RAM and are rebuilt, or not, by init_on_boot.    *)
(*                                                                         *)
(* A step is the code between two RRAM writes; a write may fail and power  *)
(* may be cut before or after it.  Cells are written whole.  The keyed     *)
(* BLAKE3 digest stands for what it hashes.  A fingerprint stands for its  *)
(* 16-byte prefix, strings and keys take one cell of their region, and     *)
(* every contact is PIN protected (for another, unlock changes nothing).   *)
(***************************************************************************)
EXTENDS PinPolicy, SequencesExt

CONSTANTS
    Fps,            \* fingerprints, ordered as the index orders them
    Texts,          \* string contents
    SlotCount,      \* CONTACT_SLOT_COUNT (54)
    OwnCount,       \* own-identity slots 0..OwnCount-1 (4)
    HeapSize,       \* STRING_HEAP_BYTES
    KeySize,        \* KEY_REGION_BYTES
    LogSize,        \* MAX_ENTRIES of the timing log
    Blank,          \* zeroed cell, unset field
    WriteOk         \* outcomes of an RRAM write: {TRUE} or BOOLEAN

Slot  == 0..(SlotCount - 1)
Field == {"email", "name"}      \* of the 15 string fields, the ones the API sets

(* ContactRecord: references into the regions; `text` is a ghost, the strings   *)
(* the caller gave, and is not part of the digest.                              *)
Contact == [fp : Fps, key : 0..(KeySize - 1),
            ref : [Field -> 0..(HeapSize - 1) \cup {Blank}],
            text : [Field -> Texts \cup {Blank}]]

Entry == 0..CounterMax      \* TimingLogEntry: its sequence number

ASSUME ContactAssumption ==
    /\ Fps \subseteq Nat
    /\ SlotCount \in Nat \ {0} /\ OwnCount \in 0..SlotCount
    /\ HeapSize \in Nat \ {0} /\ KeySize \in Nat \ {0} /\ LogSize \in Nat \ {0}
    /\ Blank \notin Nat \cup Texts \cup Contact
    /\ WriteOk \subseteq BOOLEAN

VARIABLES
    \* RRAM
    rec,        \* record array
    heap, keys, \* string heap and key region
    log,        \* timing log entries
    integrity,  \* integrity register mirror: <<>> while zero, else <<digest>>
    marker,     \* provision marker
    ctr,        \* the counter shared by unlock_pin_protected and the timing log
    provCtr,    \* always-on provisioning counter (slot 7)
    \* RAM
    gate,       \* integrity_gate
    index,      \* ContactIndex
    heapBump, keyBump,
    logCount,   \* TimingLog::count
    bricked,    \* the caller's PinPolicyMachine is Bricked
    pc, job, at,
    \* history
    tries       \* unlock attempts charged and not given back

rram  == <<rec, heap, keys, log, integrity, marker, ctr, provCtr>>
ram   == <<gate, index, heapBump, keyBump, logCount, bricked>>
vars  == <<rram, ram, pc, job, at, tries>>

Active(s) == rec[s] # Blank
ActiveSlots == {s \in Slot : Active(s)}
SlotSeq == [i \in 1..SlotCount |-> i - 1]

(* compute_integrity_digest: the occupied records in slot order, then the log. *)
Digest ==
    [recs |-> LET used == SelectSeq(SlotSeq, Active)
              IN  [i \in DOMAIN used |-> [fp |-> rec[used[i]].fp, key |-> rec[used[i]].key,
                                          ref |-> rec[used[i]].ref]],
     log  |-> log]

Matches == marker = 1 /\ integrity = <<Digest>>     \* verify_integrity

-----------------------------------------------------------------------------
(* Entries put at the end instead of at their place in the order. *)
IndexAppend(idx, fp, s) == Append(idx, [fp |-> fp, slot |-> s])

(* ContactIndex::insert.  The position found is past every equal prefix, so the *)
(* replacement branch of the code is never taken and duplicates coexist; the    *)
(* array of SlotCount entries is never full, since no slot is entered twice.    *)
IndexInsert(idx, fp, s) ==
    LET above == SelectInSeq(idx, LAMBDA e : e.fp > fp)
        pos   == IF above = 0 THEN Len(idx) + 1 ELSE above
    IN  InsertAt(idx, pos, [fp |-> fp, slot |-> s])

(* ContactIndex::remove *)
IndexRemove(idx, s) ==
    LET kept[i \in 0..Len(idx)] ==
            IF i = 0 THEN <<>>
            ELSE IF idx[i].slot # s THEN Append(kept[i - 1], idx[i]) ELSE kept[i - 1]
    IN  kept[Len(idx)]

(* ContactIndex::rebuild_from_records *)
IndexRebuild ==
    LET built[n \in 0..SlotCount] ==
            IF n = 0 THEN <<>>
            ELSE IF Active(n - 1) THEN IndexInsert(built[n - 1], rec[n - 1].fp, n - 1)
            ELSE built[n - 1]
    IN  built[SlotCount]

(* ContactIndex::lookup_prefix, the binary search between lo = r[1] and hi = r[2] *)
LookupPrefix(idx, fp) ==
    LET search[r \in (0..Len(idx)) \X (0..Len(idx))] ==
            LET mid == r[1] + (r[2] - r[1]) \div 2
            IN  IF r[1] >= r[2] THEN Blank
                ELSE IF idx[mid + 1].fp < fp THEN search[<<mid + 1, r[2]>>]
                ELSE IF idx[mid + 1].fp > fp THEN search[<<r[1], mid>>]
                ELSE idx[mid + 1].slot
    IN  search[<<0, Len(idx)>>]

(* The highest offset in use, taken for the first free one. *)
PastLast(offsets) == Max(offsets \cup {0})

(* The end of the highest live cell, as scan_bumps computes it. *)
EndOf(offsets) == Max({o + 1 : o \in offsets} \cup {0})

(* scan_bumps *)
ScanHeap == EndOf({rec[s].ref[f] : s \in ActiveSlots, f \in Field} \ {Blank})
ScanKeys == EndOf({rec[s].key : s \in ActiveSlots})

-----------------------------------------------------------------------------
Init ==
    /\ rec = [s \in Slot |-> Blank]
    /\ heap = [o \in 0..(HeapSize - 1) |-> Blank]
    /\ keys = [o \in 0..(KeySize - 1) |-> Blank]
    /\ log = [i \in 0..(LogSize - 1) |-> Blank]
    /\ integrity = <<>>
    /\ marker = 0
    /\ ctr = 0
    /\ provCtr = 0
    /\ gate = FALSE
    /\ index = <<>>
    /\ heapBump = 0 /\ keyBump = 0 /\ logCount = 0
    /\ bricked = FALSE
    /\ pc = "idle"
    /\ job = Blank
    /\ at = 0
    /\ tries = 0

(* Power is cut and comes back: ContactStore::new over the same RRAM. *)
PowerCycle ==
    /\ pc' = "idle"
    /\ gate' = FALSE
    /\ index' = <<>>
    /\ heapBump' = 0 /\ keyBump' = 0 /\ logCount' = 0
    /\ bricked' = FALSE
    /\ job' = Blank
    /\ at' = 0
    /\ UNCHANGED <<rram, tries>>

Done == pc' = "idle" /\ job' = Blank

(* init_on_boot only reads; it leaves the length of the timing log alone, and   *)
(* may be called again on an open store.                                        *)
InitOnBoot ==
    /\ pc = "idle"
    /\ heapBump' = ScanHeap
    /\ keyBump' = ScanKeys
    /\ index' = IndexRebuild
    /\ gate' = Matches
    /\ UNCHANGED <<rram, logCount, bricked, pc, job, at, tries>>

(***************************************************************************)
(* provision_fresh                                                         *)
(***************************************************************************)

(* A provisioning that looks at the marker only. *)
ProvisionUnmarked ==
    /\ pc = "idle"
    /\ marker = 0
    /\ pc' = "provZero"
    /\ UNCHANGED <<rram, ram, job, at, tries>>

(* The two AlreadyProvisioned tests *)
ProvisionFresh ==
    /\ pc = "idle"
    /\ integrity = <<>>
    /\ marker = 0
    /\ pc' = "provZero"
    /\ UNCHANGED <<rram, ram, job, at, tries>>

(* Zero the records and the three regions; the RAM state starts over. *)
ProvisionZero(ok) ==
    /\ pc = "provZero"
    /\ IF ok
       THEN /\ rec' = [s \in Slot |-> Blank]
            /\ heap' = [o \in 0..(HeapSize - 1) |-> Blank]
            /\ keys' = [o \in 0..(KeySize - 1) |-> Blank]
            /\ log' = [i \in 0..(LogSize - 1) |-> Blank]
            /\ heapBump' = 0 /\ keyBump' = 0 /\ logCount' = 0
            /\ index' = <<>>
            /\ pc' = "provDigest"
       ELSE /\ pc' = "idle"
            /\ UNCHANGED <<rec, heap, keys, log, heapBump, keyBump, logCount, index>>
    /\ UNCHANGED <<integrity, marker, ctr, provCtr, gate, bricked, job, at, tries>>

(* persist_integrity_register *)
ProvisionDigest(ok) ==
    /\ pc = "provDigest"
    /\ integrity' = IF ok THEN <<Digest>> ELSE integrity
    /\ pc' = IF ok THEN "provCount" ELSE "idle"
    /\ UNCHANGED <<rec, heap, keys, log, marker, ctr, provCtr, ram, job, at, tries>>

(* counter.increment *)
ProvisionCount(ok) ==
    /\ pc = "provCount"
    /\ provCtr' = IF ok THEN Increment(provCtr) ELSE provCtr
    /\ pc' = IF ok THEN "provMark" ELSE "idle"
    /\ UNCHANGED <<rec, heap, keys, log, integrity, marker, ctr, ram, job, at, tries>>

(* write_provision_marker, then the gate opens. *)
ProvisionMark(ok) ==
    /\ pc = "provMark"
    /\ marker' = IF ok THEN 1 ELSE marker
    /\ gate' = IF ok THEN TRUE ELSE gate
    /\ pc' = "idle"
    /\ UNCHANGED <<rec, heap, keys, log, integrity, ctr, provCtr, index, heapBump, keyBump,
                   logCount, bricked, job, at, tries>>

(***************************************************************************)
(* insert, update, delete                                                  *)
(***************************************************************************)
Ready == pc = "idle" /\ gate

(* The string fields a command still has to allocate, e-mail first. *)
Todo(fields, text) ==
    [i \in 1..Cardinality(fields) |->
        [field |-> IF i = 1 /\ "email" \in fields THEN "email" ELSE "name", text |-> text]]

(* insert up to the key region: the first free slot of its class, then the key. *)
Insert(own, fp, fields, text, ok) ==
    LET free == {s \in Slot : ~Active(s) /\ (s < OwnCount) = own}
    IN  /\ Ready
        /\ ok
        /\ "email" \in fields
        /\ free # {}
        /\ keyBump < KeySize
        /\ keys' = [keys EXCEPT ![keyBump] = fp]
        /\ keyBump' = keyBump + 1
        /\ job' = [op |-> "insert", slot |-> Min(free), todo |-> Todo(fields, text),
                   draft |-> [fp |-> fp, key |-> keyBump,
                              ref |-> [f \in Field |-> Blank],
                              text |-> [f \in Field |-> Blank]]]
        /\ pc' = "alloc"
        /\ UNCHANGED <<rec, heap, log, integrity, marker, ctr, provCtr, gate, index,
                       heapBump, logCount, bricked, at, tries>>

(* update: the record is read once; callsign, DMR id, dates and flags are data. *)
Update(s, fields, text) ==
    /\ Ready
    /\ Active(s)
    /\ job' = [op |-> "update", slot |-> s, todo |-> Todo(fields, text), draft |-> rec[s]]
    /\ pc' = IF fields = {} THEN "write" ELSE "alloc"
    /\ UNCHANGED <<rram, ram, at, tries>>

(* delete accepts an empty slot too. *)
Delete(s) ==
    /\ Ready
    /\ job' = [op |-> "delete", slot |-> s, todo |-> <<>>, draft |-> Blank]
    /\ pc' = "write"
    /\ UNCHANGED <<rram, ram, at, tries>>

(* StringHeap::alloc of the next field *)
AllocWith(ok, room) ==
    LET next == Head(job.todo)
    IN  /\ pc = "alloc"
        /\ IF ok /\ room
           THEN /\ heap' = [heap EXCEPT ![heapBump] = next.text]
                /\ heapBump' = heapBump + 1
                /\ job' = [job EXCEPT !.todo = Tail(@),
                                      !.draft.ref[next.field] = heapBump,
                                      !.draft.text[next.field] = next.text]
                /\ pc' = IF Tail(job.todo) = <<>> THEN "write" ELSE "alloc"
           ELSE Done /\ UNCHANGED <<heap, heapBump>>
        /\ UNCHANGED <<rec, keys, log, integrity, marker, ctr, provCtr, gate, index,
                       keyBump, logCount, bricked, at, tries>>

(* An allocation without the HeapFull test. *)
AllocUnchecked(ok) == AllocWith(ok, TRUE)

AllocString(ok) == AllocWith(ok, heapBump < HeapSize)

(* write_record and the matching change of the index *)
WriteRecord(ok) ==
    /\ pc = "write"
    /\ IF ok
       THEN /\ rec' = [rec EXCEPT ![job.slot] = job.draft]
            /\ index' = CASE job.op = "insert" -> IndexInsert(index, job.draft.fp, job.slot)
                          [] job.op = "delete" -> IndexRemove(index, job.slot)
                          [] OTHER -> index
            /\ pc' = "digest"
            /\ UNCHANGED job
       ELSE Done /\ UNCHANGED <<rec, index>>
    /\ UNCHANGED <<heap, keys, log, integrity, marker, ctr, provCtr, gate, heapBump,
                   keyBump, logCount, bricked, at, tries>>

(* update_integrity *)
UpdateIntegrity(ok) ==
    /\ pc = "digest"
    /\ integrity' = IF ok THEN <<Digest>> ELSE integrity
    /\ Done
    /\ UNCHANGED <<rec, heap, keys, log, marker, ctr, provCtr, ram, at, tries>>

(***************************************************************************)
(* timing_log_append.  merge works on a scratch copy of the records that   *)
(* the caller drops, so all that is left of it is the clearing of the log  *)
(* (the slot and time of an entry are therefore left out); an unreadable   *)
(* entry makes it fail.  The integrity register is not updated.            *)
(***************************************************************************)
LogAppend(ok) ==
    /\ Ready
    /\ ok
    /\ ctr' = Increment(ctr)
    /\ at' = 0
    /\ pc' = IF logCount < LogSize THEN "entry"
             ELSE IF \E i \in 0..(logCount - 1) : log[i] = Blank THEN "idle" ELSE "clear"
    /\ job' = IF pc' = "idle" THEN Blank ELSE [seq |-> ctr']
    /\ UNCHANGED <<rec, heap, keys, log, integrity, marker, provCtr, ram, tries>>

(* TimingLog::clear, entry by entry; the count is reset after the last one. *)
LogClear(ok) ==
    /\ pc = "clear"
    /\ IF ok
       THEN /\ log' = [log EXCEPT ![at] = Blank]
            /\ at' = IF at = LogSize - 1 THEN 0 ELSE at + 1
            /\ logCount' = IF at = LogSize - 1 THEN 0 ELSE logCount
            /\ pc' = IF at = LogSize - 1 THEN "entry" ELSE "clear"
            /\ UNCHANGED job
       ELSE Done /\ at' = 0 /\ UNCHANGED <<log, logCount>>
    /\ UNCHANGED <<rec, heap, keys, integrity, marker, ctr, provCtr, gate, index,
                   heapBump, keyBump, bricked, tries>>

(* write_entry at the end of the log *)
LogWrite(ok) ==
    /\ pc = "entry"
    /\ log' = IF ok THEN [log EXCEPT ![logCount] = job.seq] ELSE log
    /\ logCount' = IF ok THEN logCount + 1 ELSE logCount
    /\ Done
    /\ UNCHANGED <<rec, heap, keys, integrity, marker, ctr, provCtr, gate, index,
                   heapBump, keyBump, bricked, at, tries>>

(***************************************************************************)
(* unlock_pin_protected: submit_attempt on the shared counter              *)
(***************************************************************************)
Unlock(s, right, ok) ==
    /\ Ready
    /\ Active(s)
    /\ ok
    /\ ~bricked
    /\ ctr' = Increment(ctr)
    /\ IF Breach(ctr')
       THEN bricked' = TRUE /\ UNCHANGED <<pc, job, tries>>
       ELSE /\ pc' = "unlock"
            /\ job' = [right |-> right]
            /\ tries' = tries + 1
            /\ UNCHANGED bricked
    /\ UNCHANGED <<rec, heap, keys, log, integrity, marker, provCtr, gate, index,
                   heapBump, keyBump, logCount, at>>

(* The compare and the refund, whose error is ignored. *)
SettleWith(refund) ==
    /\ pc = "unlock"
    /\ ctr' = IF refund THEN Refund(ctr) ELSE ctr
    /\ tries' = IF refund /\ job.right THEN tries - 1 ELSE tries
    /\ Done
    /\ UNCHANGED <<rec, heap, keys, log, integrity, marker, provCtr, ram, at>>

(* A refund whatever the comparison said. *)
SettleAlways(ok) == SettleWith(ok)

Settle(ok) == SettleWith(ok /\ job.right)

-----------------------------------------------------------------------------
Boot == PowerCycle \/ InitOnBoot

Provision ==
    \/ ProvisionFresh
    \/ \E ok \in WriteOk :
        ProvisionZero(ok) \/ ProvisionDigest(ok) \/ ProvisionCount(ok) \/ ProvisionMark(ok)

Call ==
    \/ \E fields \in SUBSET Field, text \in Texts :
        \/ \E own \in BOOLEAN, fp \in Fps, ok \in WriteOk : Insert(own, fp, fields, text, ok)
        \/ \E s \in Slot : Update(s, fields, text)
    \/ \E s \in Slot : Delete(s)
    \/ \E ok \in WriteOk : LogAppend(ok)
    \/ \E s \in Slot, right \in BOOLEAN, ok \in WriteOk : Unlock(s, right, ok)

Continue ==
    \E ok \in WriteOk :
        \/ AllocString(ok) \/ WriteRecord(ok) \/ UpdateIntegrity(ok)
        \/ LogClear(ok) \/ LogWrite(ok) \/ Settle(ok)

Next == Boot \/ Provision \/ Call \/ Continue

Spec == Init /\ [][Next]_vars

-----------------------------------------------------------------------------
(* Every variable keeps its type; the bump pointers and the log length never   *)
(* leave their regions (HeapFull, KEY_REGION_BYTES and MAX_ENTRIES tests).     *)
StoreTypeOK ==
    /\ rec \in [Slot -> Contact \cup {Blank}]
    /\ heap \in [0..(HeapSize - 1) -> Texts \cup {Blank}]
    /\ keys \in [0..(KeySize - 1) -> Fps \cup {Blank}]
    /\ log \in [0..(LogSize - 1) -> Entry \cup {Blank}]
    /\ marker \in {0, 1}
    /\ ctr \in 0..CounterMax /\ provCtr \in 0..CounterMax
    /\ gate \in BOOLEAN /\ bricked \in BOOLEAN
    /\ index \in Seq([fp : Fps, slot : Slot])
    /\ heapBump \in 0..HeapSize /\ keyBump \in 0..KeySize
    /\ logCount \in 0..LogSize /\ at \in 0..(LogSize - 1)

(* lookup_by_fingerprint on an open store: the sorted index, kept up by insert *)
(* and delete and rebuilt at boot, finds a contact exactly when some record    *)
(* holds it, also with several records of one fingerprint and after commands  *)
(* that failed half way.                                                       *)
LookupComplete ==
    gate => \A fp \in Fps :
        LET s == LookupPrefix(index, fp)
        IN  IF \E t \in ActiveSlots : rec[t].fp = fp
            THEN s \in ActiveSlots /\ rec[s].fp = fp
            ELSE s = Blank

(* scan_bumps against the allocators: no string or key that a record refers    *)
(* to is ever overwritten, however often power is cut between the writes of    *)
(* insert, update and delete.                                                  *)
LiveDataIntact ==
    \A s \in ActiveSlots :
        /\ keys[rec[s].key] = rec[s].fp
        /\ \A f \in Field :
            rec[s].ref[f] # Blank => heap[rec[s].ref[f]] = rec[s].text[f]

(* TimingLog::append and submit_attempt share one counter that unlock may also *)
(* decrement: the entries to be merged still carry rising sequence numbers     *)
(* until the counter saturates.                                                *)
LogOrdered ==
    \A i, j \in 0..(logCount - 1) :
        (i < j /\ log[i] # Blank /\ log[j] # Blank) =>
            (log[i] < log[j] \/ log[j] = CounterMax)

(* provision_fresh: whatever was cut or failed, the always-on counter records  *)
(* one provisioning at most, and an open or marked store exactly one.          *)
ProvisionCounted ==
    /\ provCtr <= 1
    /\ (gate \/ marker = 1) => provCtr = 1

(* unlock_pin_protected: at most max_attempts attempts are ever compared       *)
(* without being given back, although timing_log_append moves the same counter.*)
UnlockBound == tries <= MaxAttempts

(* Doc claim (store.rs: "Update backup-register mirror after a committed       *)
(* mutation"): when no write fails, an open store between two calls matches    *)
(* its integrity register, so that the next boot can open it.                  *)
MirrorFollowsMutations == Ready => integrity = <<Digest>>

(* Doc claim (machine.rs: "three tries before lockout / zeroisation"): the     *)
(* zeroisation is triggered only once max_attempts unlock attempts are spent.  *)
BreachNeedsTries == [][(~bricked /\ bricked') => tries = MaxAttempts]_vars

=============================================================================
