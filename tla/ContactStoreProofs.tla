------------------------- MODULE ContactStoreProofs -------------------------
(***************************************************************************)
(* What ContactStore promises of its counters, of provisioning and of the  *)
(* regions its records refer to, for every number of slots, region size,   *)
(* attempt limit and write outcome.                                        *)
(***************************************************************************)
EXTENDS ContactStore, Iteration, FiniteSetTheorems, TLAPS

LogIdx == 0..(LogSize - 1)

(* The two persistent counters and the log are well typed. *)
CounterInv ==
    /\ ctr \in 0..CounterMax
    /\ provCtr \in 0..CounterMax
    /\ marker \in {0, 1}
    /\ log \in [LogIdx -> Entry \cup {Blank}]
    /\ logCount \in 0..LogSize

(* Every unlock attempt not given back is in the shared counter. *)
AttemptInv ==
    /\ tries \in Nat
    /\ tries <= ctr
    /\ tries <= MaxAttempts
    /\ pc = "unlock" => tries >= 1

(* No entry is ahead of the counter; a charge in flight, which a refund may    *)
(* take back, is above every entry, and so is the number of an entry that is   *)
(* about to be written.                                                        *)
SequenceInv ==
    /\ \A i \in LogIdx : log[i] # Blank =>
        /\ log[i] <= ctr
        /\ pc = "unlock" => log[i] < ctr
        /\ pc \in {"clear", "entry"} => log[i] < job.seq \/ job.seq = CounterMax
    /\ pc \in {"clear", "entry"} => job.seq = ctr
    /\ pc = "entry" => logCount < LogSize

(* How far a provisioning has come, read off what it has written. *)
ProvisionInv ==
    /\ pc \in {"provZero", "provDigest"} => integrity = <<>>
    /\ integrity = <<>> => provCtr = 0 /\ marker = 0 /\ ~gate
    /\ pc = "provCount" => provCtr = 0
    /\ pc = "provMark" => provCtr = 1
    /\ pc \in {"provCount", "provMark"} => integrity # <<>>
    /\ pc \in {"alloc", "write", "digest", "clear", "entry", "unlock"} => gate
    /\ provCtr <= 1
    /\ gate \/ marker = 1 => provCtr = 1

IInv == CounterInv /\ AttemptInv /\ SequenceInv /\ LogOrdered /\ ProvisionInv

(* What the invariant speaks of, apart from pc and job. *)
Counted == <<ctr, provCtr, marker, integrity, log, logCount, tries>>

(* Steps that leave the counters, the log and the registers of provisioning    *)
(* alone, do not open the gate and do not enter a step the invariant guards.   *)
LEMMA QuietStep ==
    ASSUME IInv, UNCHANGED Counted, gate' = gate,
           \/ pc' = "idle"
           \/ pc' \in {"alloc", "write", "digest"} /\ gate
           \/ pc' = "provZero" /\ integrity = <<>>
    PROVE  IInv'
BY DEF IInv, Counted, CounterInv, AttemptInv, SequenceInv, LogOrdered, ProvisionInv, LogIdx

(* The timing log holds at least one entry. *)
LEMMA LogCapacity == LogSize \in Nat \ {0}
BY ContactAssumption

(* An empty log is in order. *)
LEMMA EmptyOrdered == logCount = 0 => LogOrdered
BY DEF LogOrdered

(* A factory-fresh store satisfies IInv. *)
LEMMA InitIInv == Init => IInv
<1>. SUFFICES ASSUME Init PROVE IInv
  OBVIOUS
<1>1. CounterInv /\ AttemptInv
  BY PinPolicyAssumption, LogCapacity DEF Init, CounterInv, AttemptInv, LogIdx
<1>2. SequenceInv /\ ProvisionInv
  BY DEF Init, SequenceInv, ProvisionInv, LogIdx
<1>. QED BY <1>1, <1>2, EmptyOrdered DEF IInv, Init

(* A power cycle and init_on_boot preserve IInv. *)
LEMMA BootIInv == ASSUME IInv, Boot PROVE IInv'
<1>1. CASE PowerCycle
  <2>1. CounterInv' /\ AttemptInv' /\ SequenceInv'
    BY <1>1, LogCapacity DEF PowerCycle, rram, IInv, CounterInv, AttemptInv, SequenceInv
  <2>2. ProvisionInv'
    BY <1>1 DEF PowerCycle, rram, IInv, ProvisionInv
  <2>3. LogOrdered'
    BY <1>1 DEF PowerCycle, LogOrdered
  <2>. QED BY <2>1, <2>2, <2>3 DEF IInv
<1>2. CASE InitOnBoot
  <2>1. CounterInv' /\ AttemptInv' /\ SequenceInv' /\ LogOrdered'
    BY <1>2
    DEF InitOnBoot, rram, IInv, CounterInv, AttemptInv, SequenceInv, LogOrdered, LogIdx
  <2>2. ProvisionInv'
    <3>1. gate' => marker = 1
      BY <1>2 DEF InitOnBoot, Matches
    <3>2. pc = "idle" /\ UNCHANGED <<pc, integrity, marker, provCtr>>
      BY <1>2 DEF InitOnBoot, rram
    <3>. QED BY <3>1, <3>2 DEF IInv, ProvisionInv
  <2>. QED BY <2>1, <2>2 DEF IInv
<1>. QED BY <1>1, <1>2 DEF Boot

(* Every step of provision_fresh preserves IInv, whether its write succeeds or  *)
(* fails.                                                                       *)
LEMMA ProvisionIInv == ASSUME IInv, Provision PROVE IInv'
<1>1. CASE ProvisionFresh
  BY <1>1, QuietStep DEF ProvisionFresh, rram, ram, Counted
<1>2. ASSUME NEW ok \in WriteOk, ProvisionZero(ok) PROVE IInv'
  BY <1>2, LogCapacity
  DEF ProvisionZero, IInv, CounterInv, AttemptInv, SequenceInv, LogOrdered, ProvisionInv,
      LogIdx
<1>3. ASSUME NEW ok \in WriteOk, ProvisionDigest(ok) PROVE IInv'
  BY <1>3
  DEF ProvisionDigest, ram, IInv, CounterInv, AttemptInv, SequenceInv, LogOrdered,
      ProvisionInv, LogIdx
<1>4. ASSUME NEW ok \in WriteOk, ProvisionCount(ok) PROVE IInv'
  BY <1>4, PinPolicyAssumption
  DEF ProvisionCount, Increment, ram, IInv, CounterInv, AttemptInv, SequenceInv, LogOrdered,
      ProvisionInv, LogIdx
<1>5. ASSUME NEW ok \in WriteOk, ProvisionMark(ok) PROVE IInv'
  BY <1>5
  DEF ProvisionMark, IInv, CounterInv, AttemptInv, SequenceInv, LogOrdered, ProvisionInv,
      LogIdx
<1>. QED BY <1>1, <1>2, <1>3, <1>4, <1>5 DEF Provision

(* timing_log_append takes the next number of the shared counter. *)
LEMMA LogAppendIInv == ASSUME IInv, NEW ok \in WriteOk, LogAppend(ok) PROVE IInv'
<1>1. CounterInv' /\ AttemptInv'
  BY PinPolicyAssumption DEF IInv, LogAppend, Increment, ram, CounterInv, AttemptInv
<1>2. SequenceInv'
  BY PinPolicyAssumption
  DEF IInv, LogAppend, Ready, Increment, ram, CounterInv, SequenceInv, Entry, LogIdx
<1>3. LogOrdered' /\ ProvisionInv'
  BY DEF IInv, LogAppend, Ready, ram, LogOrdered, ProvisionInv
<1>. QED BY <1>1, <1>2, <1>3 DEF IInv

(* An unlock attempt is charged before it is judged. *)
LEMMA UnlockIInv ==
    ASSUME IInv, NEW s \in Slot, NEW right \in BOOLEAN, NEW ok \in WriteOk,
           Unlock(s, right, ok)
    PROVE  IInv'
<1>1. CounterInv' /\ AttemptInv'
  BY PinPolicyAssumption
  DEF IInv, Unlock, Ready, Increment, Breach, CounterInv, AttemptInv
<1>2. SequenceInv'
  BY PinPolicyAssumption
  DEF IInv, Unlock, Ready, Increment, Breach, CounterInv, SequenceInv, Entry, LogIdx
<1>3. LogOrdered' /\ ProvisionInv'
  BY DEF IInv, Unlock, Ready, LogOrdered, ProvisionInv
<1>. QED BY <1>1, <1>2, <1>3 DEF IInv

(* Every call preserves IInv. *)
LEMMA CallIInv == ASSUME IInv, Call PROVE IInv'
<1>1. ASSUME NEW own \in BOOLEAN, NEW fp \in Fps, NEW fields \in SUBSET Field,
             NEW text \in Texts, NEW ok \in WriteOk, Insert(own, fp, fields, text, ok)
      PROVE  IInv'
  BY <1>1, QuietStep DEF Insert, Ready, Counted
<1>2. ASSUME NEW s \in Slot, NEW fields \in SUBSET Field, NEW text \in Texts,
             Update(s, fields, text)
      PROVE  IInv'
  BY <1>2, QuietStep DEF Update, Ready, rram, ram, Counted
<1>3. ASSUME NEW s \in Slot, Delete(s) PROVE IInv'
  BY <1>3, QuietStep DEF Delete, Ready, rram, ram, Counted
<1>. QED BY <1>1, <1>2, <1>3, LogAppendIInv, UnlockIInv DEF Call

(* The comparison of unlock_pin_protected gives back its own charge at most. *)
LEMMA SettleIInv == ASSUME IInv, NEW ok \in WriteOk, Settle(ok) PROVE IInv'
<1>1. CounterInv' /\ AttemptInv'
  BY PinPolicyAssumption
  DEF IInv, Settle, SettleWith, Done, Refund, ram, CounterInv, AttemptInv
<1>2. SequenceInv'
  BY PinPolicyAssumption
  DEF IInv, Settle, SettleWith, Done, Refund, ram, CounterInv, SequenceInv, AttemptInv,
      Entry, LogIdx
<1>3. LogOrdered' /\ ProvisionInv'
  BY DEF IInv, Settle, SettleWith, Done, ram, LogOrdered, ProvisionInv
<1>. QED BY <1>1, <1>2, <1>3 DEF IInv

(* Every later step of a call preserves IInv. *)
LEMMA ContinueIInv == ASSUME IInv, Continue PROVE IInv'
<1>1. ASSUME NEW ok \in WriteOk, AllocString(ok) PROVE IInv'
  BY <1>1, QuietStep DEF AllocString, AllocWith, Done, Counted, IInv, ProvisionInv
<1>2. ASSUME NEW ok \in WriteOk, WriteRecord(ok) PROVE IInv'
  BY <1>2, QuietStep DEF WriteRecord, Done, Counted, IInv, ProvisionInv
<1>3. ASSUME NEW ok \in WriteOk, UpdateIntegrity(ok) PROVE IInv'
  BY <1>3
  DEF UpdateIntegrity, Done, ram, IInv, CounterInv, AttemptInv, SequenceInv, LogOrdered,
      ProvisionInv, LogIdx
<1>4. ASSUME NEW ok \in WriteOk, LogClear(ok) PROVE IInv'
  <2>1. CounterInv' /\ AttemptInv' /\ ProvisionInv'
    BY <1>4, LogCapacity DEF LogClear, Done, IInv, CounterInv, AttemptInv, ProvisionInv
  <2>2. SequenceInv'
    BY <1>4, LogCapacity DEF LogClear, Done, IInv, CounterInv, SequenceInv, LogIdx
  <2>3. LogOrdered'
    <3>1. \/ logCount' = 0
          \/ logCount' = logCount /\ log' \in {log, [log EXCEPT ![at] = Blank]}
      BY <1>4 DEF LogClear
    <3>2. CASE logCount' = 0
      BY <3>2 DEF LogOrdered
    <3>3. CASE logCount' = logCount /\ log' = log
      BY <3>3 DEF LogOrdered, IInv
    <3>4. CASE logCount' = logCount /\ log' = [log EXCEPT ![at] = Blank]
      <4>. SUFFICES ASSUME NEW i \in 0..(logCount - 1), NEW j \in 0..(logCount - 1), i < j,
                           log'[i] # Blank, log'[j] # Blank
                    PROVE  log'[i] < log'[j] \/ log'[j] = CounterMax
        BY <3>4 DEF LogOrdered
      <4>1. i \in LogIdx /\ j \in LogIdx
        BY LogCapacity DEF IInv, CounterInv, LogIdx
      <4>2. log'[i] = log[i] /\ log'[j] = log[j]
        BY <3>4, <4>1 DEF IInv, CounterInv
      <4>. QED BY <4>2 DEF IInv, LogOrdered
    <3>. QED BY <3>1, <3>2, <3>3, <3>4
  <2>. QED BY <2>1, <2>2, <2>3 DEF IInv
<1>5. ASSUME NEW ok \in WriteOk, LogWrite(ok) PROVE IInv'
  <2>1. CounterInv' /\ AttemptInv'
    <3>1. job.seq \in Entry /\ logCount + 1 \in 0..LogSize
      BY <1>5, LogCapacity DEF LogWrite, IInv, CounterInv, SequenceInv, Entry
    <3>. QED BY <1>5, <3>1 DEF LogWrite, Done, IInv, CounterInv, AttemptInv
  <2>4. ProvisionInv'
    BY <1>5 DEF LogWrite, Done, IInv, ProvisionInv
  <2>2. SequenceInv'
    BY <1>5 DEF LogWrite, Done, IInv, CounterInv, SequenceInv, LogIdx
  <2>3. LogOrdered'
    <3>1. CASE ok
      <4>. SUFFICES ASSUME NEW i \in 0..logCount, NEW j \in 0..logCount, i < j,
                           log'[i] # Blank, log'[j] # Blank
                    PROVE  log'[i] < log'[j] \/ log'[j] = CounterMax
        BY <1>5, <3>1 DEF LogWrite, IInv, CounterInv, LogOrdered
      <4>1. i \in LogIdx /\ j \in LogIdx /\ i < logCount /\ log'[i] = log[i]
        BY <1>5, <3>1, LogCapacity DEF LogWrite, IInv, CounterInv, SequenceInv, LogIdx
      <4>2. CASE j = logCount
        BY <1>5, <3>1, <4>1, <4>2 DEF LogWrite, IInv, CounterInv, SequenceInv
      <4>3. CASE j < logCount
        BY <1>5, <3>1, <4>1, <4>3 DEF LogWrite, IInv, CounterInv, LogOrdered
      <4>. QED BY <4>2, <4>3 DEF IInv, CounterInv
    <3>. QED BY <1>5, <3>1 DEF LogWrite, IInv, LogOrdered
  <2>. QED BY <2>1, <2>2, <2>3, <2>4 DEF IInv
<1>. QED BY <1>1, <1>2, <1>3, <1>4, <1>5, SettleIInv DEF Continue

(* IInv is an invariant of the contact store. *)
THEOREM StoreInvariance == Spec => []IInv
<1>1. IInv /\ UNCHANGED vars => IInv'
  BY DEF vars, rram, ram, IInv, CounterInv, AttemptInv, SequenceInv, LogOrdered,
         ProvisionInv, LogIdx
<1>2. IInv /\ [Next]_vars => IInv'
  BY <1>1, BootIInv, ProvisionIInv, CallIInv, ContinueIInv DEF Next
<1>. QED BY <1>2, InitIInv, PTL DEF Spec

(* unlock_pin_protected compares at most max_attempts PINs it does not give     *)
(* back, whatever timing_log_append and power cuts do to the shared counter.    *)
THEOREM UnlockIsBounded == Spec => []UnlockBound
<1>1. IInv => UnlockBound
  BY DEF IInv, AttemptInv, UnlockBound
<1>. QED BY <1>1, StoreInvariance, PTL

(* The timing log stays in the order of the shared counter although unlock may  *)
(* decrement it.                                                                *)
THEOREM LogStaysOrdered == Spec => []LogOrdered
<1>1. IInv => LogOrdered
  BY DEF IInv
<1>. QED BY <1>1, StoreInvariance, PTL

(* provision_fresh runs to its counter once, and no store opens without it.     *)
THEOREM ProvisionedOnce == Spec => []ProvisionCounted
<1>1. IInv => ProvisionCounted
  BY DEF IInv, ProvisionInv, ProvisionCounted
<1>. QED BY <1>1, StoreInvariance, PTL

-----------------------------------------------------------------------------
(* The string heap and the key region. *)

(* A set of numbers has a least one. *)
LEMMA MinOf ==
    ASSUME NEW S, S \subseteq Nat, S # {}
    PROVE  Min(S) \in S /\ \A y \in S : Min(S) <= y
<1>1. \E x \in S : \A y \in S : x <= y
  BY Least
<1>. QED BY <1>1 DEF Min

(* A bounded set of numbers has a greatest one. *)
LEMMA MaxOf ==
    ASSUME NEW n \in Nat, NEW S, S \subseteq 0..n, S # {}
    PROVE  Max(S) \in S /\ \A y \in S : Max(S) >= y
<1>. DEFINE T == {n - y : y \in S}
<1>1. \A y \in S : y \in Nat /\ n - y \in Nat
  OBVIOUS
<1>2. T \subseteq Nat /\ T # {}
  BY <1>1
<1>3. Min(T) \in T /\ \A z \in T : Min(T) <= z
  BY <1>2, MinOf
<1>4. PICK x \in S : Min(T) = n - x
  BY <1>3
<1>5. \A y \in S : n - x <= n - y
  BY <1>3, <1>4
<1>6. \A y \in S : x >= y
  BY <1>1, <1>5
<1>. QED BY <1>6 DEF Max

(* What scan_bumps finds is past every offset in use and within the region. *)
LEMMA EndOfBound ==
    ASSUME NEW n \in Nat \ {0}, NEW O, O \subseteq 0..(n - 1)
    PROVE  EndOf(O) \in 0..n /\ \A o \in O : o < EndOf(O)
<1>. DEFINE E == {o + 1 : o \in O} \cup {0}
<1>1. E \subseteq 0..n /\ E # {} /\ \A o \in O : o \in Nat /\ o + 1 \in E
  OBVIOUS
<1>. HIDE DEF E
<1>2. Max(E) \in 0..n /\ \A y \in E : Max(E) >= y
  BY <1>1, MaxOf
<1>3. \A o \in O : o < Max(E)
  BY <1>1, <1>2
<1>. QED BY <1>2, <1>3 DEF EndOf, E

HeapIdx == 0..(HeapSize - 1)
KeyIdx  == 0..(KeySize - 1)

(* The strings and the key of a record are the ones its caller gave ... *)
Intact(r, k, h) ==
    /\ k[r.key] = r.fp
    /\ \A f \in Field : r.ref[f] # Blank => h[r.ref[f]] = r.text[f]

(* ... and the allocators will not reach them. *)
Below(r, k, h) ==
    /\ r.key < k
    /\ \A f \in Field : r.ref[f] # Blank => r.ref[f] < h

(* An insert, update or delete under way. *)
Edit == [op : {"insert", "update", "delete"}, slot : Slot,
         todo : Seq([field : Field, text : Texts]), draft : Contact \cup {Blank}]

RegionInv ==
    /\ rec \in [Slot -> Contact \cup {Blank}]
    /\ heap \in [HeapIdx -> Texts \cup {Blank}] /\ keys \in [KeyIdx -> Fps \cup {Blank}]
    /\ heapBump \in 0..HeapSize /\ keyBump \in 0..KeySize

(* Every record is intact.  The bump pointers, which a power cycle forgets,   *)
(* are past the records as soon as something may be allocated, and past the   *)
(* record a command is putting together.                                      *)
LiveInv ==
    /\ RegionInv
    /\ \A s \in Slot : rec[s] # Blank => Intact(rec[s], keys, heap)
    /\ gate \/ pc \in {"provDigest", "provCount", "provMark"} =>
          \A s \in Slot : rec[s] # Blank => Below(rec[s], keyBump, heapBump)
    /\ pc \in {"alloc", "write"} =>
          /\ job \in Edit
          /\ job.draft # Blank => /\ Intact(job.draft, keys, heap)
                                 /\ Below(job.draft, keyBump, heapBump)
    /\ pc = "alloc" => job.draft # Blank /\ job.todo # <<>>

(* The sizes and Blank. *)
LEMMA Sizes ==
    /\ HeapSize \in Nat \ {0} /\ KeySize \in Nat \ {0} /\ SlotCount \in Nat \ {0}
    /\ Blank \notin Nat /\ Blank \notin Contact
BY ContactAssumption

(* The fields a command sets are a sequence, empty only without a field. *)
LEMMA TodoType ==
    ASSUME NEW fields \in SUBSET Field, NEW text \in Texts
    PROVE  /\ Todo(fields, text) \in Seq([field : Field, text : Texts])
           /\ fields # {} => Todo(fields, text) # <<>>
<1>1. IsFiniteSet(Field)
  <2>1. IsFiniteSet({"email"}) /\ IsFiniteSet({"name"})
    BY FS_Singleton
  <2>2. Field = {"email"} \cup {"name"}
    BY DEF Field
  <2>. QED BY <2>1, <2>2, FS_Union
<1>2. Cardinality(fields) \in Nat /\ (Cardinality(fields) = 0 <=> fields = {})
  BY <1>1, FS_Subset, FS_CardinalityType, FS_EmptySet
<1>. DEFINE n == Cardinality(fields)
            P == [field : Field, text : Texts]
            T(i) == [field |-> IF i = 1 /\ "email" \in fields THEN "email" ELSE "name",
                     text |-> text]
<1>3. Todo(fields, text) = [i \in 1..n |-> T(i)]
  BY DEF Todo
<1>4. \A i \in 1..n : T(i) \in P
  BY DEF Field
<1>. HIDE DEF n, T, P
<1>5. Todo(fields, text) \in Seq(P) /\ Len(Todo(fields, text)) = n
  BY <1>2, <1>3, <1>4 DEF n
<1>6. fields # {} => Todo(fields, text) # <<>>
  BY <1>2, <1>5 DEF n
<1>. QED BY <1>5, <1>6 DEF P

(* Steps that write no region, move no pointer and start no record. *)
LEMMA QuietLive ==
    ASSUME LiveInv, UNCHANGED <<rec, heap, keys, heapBump, keyBump>>,
           gate' => gate \/ pc \in {"provDigest", "provCount", "provMark"},
           pc' \notin {"alloc", "write"},
           pc' \in {"provDigest", "provCount", "provMark"} =>
               pc \in {"provDigest", "provCount", "provMark"}
    PROVE  LiveInv'
BY DEF LiveInv, RegionInv, Intact, Below

(* insert writes the key at the bump pointer, where no record has one. *)
LEMMA InsertLive ==
    ASSUME LiveInv, NEW own \in BOOLEAN, NEW fp \in Fps, NEW fields \in SUBSET Field,
           NEW text \in Texts, NEW ok \in WriteOk, Insert(own, fp, fields, text, ok)
    PROVE  LiveInv'
<1>. DEFINE free == {s \in Slot : ~Active(s) /\ (s < OwnCount) = own}
            d == [fp |-> fp, key |-> keyBump, ref |-> [f \in Field |-> Blank],
                  text |-> [f \in Field |-> Blank]]
<1>1. /\ gate /\ "email" \in fields /\ free # {} /\ keyBump < KeySize /\ pc' = "alloc"
      /\ keys' = [keys EXCEPT ![keyBump] = fp] /\ keyBump' = keyBump + 1
      /\ UNCHANGED <<rec, heap, heapBump, gate>>
      /\ job' = [op |-> "insert", slot |-> Min(free), todo |-> Todo(fields, text), draft |-> d]
  BY DEF Insert, Ready
<1>2. free \subseteq Nat /\ free \subseteq Slot
  BY Sizes DEF Slot
<1>. HIDE DEF free
<1>3. Min(free) \in Slot
  BY <1>1, <1>2, MinOf
<1>4. keyBump \in KeyIdx /\ keyBump + 1 \in 0..KeySize
  BY <1>1, Sizes DEF LiveInv, RegionInv, KeyIdx
<1>5. d \in Contact /\ d.key = keyBump /\ d.fp = fp /\ \A f \in Field : d.ref[f] = Blank
  BY <1>4 DEF Contact, KeyIdx
<1>. HIDE DEF d
<1>6. RegionInv'
  BY <1>1, <1>4 DEF LiveInv, RegionInv
<1>7. \A s \in Slot : rec[s] # Blank => rec[s].key \in KeyIdx /\ rec[s].key < keyBump
  BY <1>1 DEF LiveInv, RegionInv, Below, Contact, KeyIdx
<1>8. \A s \in Slot : rec[s] # Blank => keys'[rec[s].key] = keys[rec[s].key]
  BY <1>1, <1>4, <1>7 DEF LiveInv, RegionInv
<1>9. \A s \in Slot : rec[s] # Blank =>
        Intact(rec[s], keys', heap') /\ Below(rec[s], keyBump', heapBump')
  BY <1>1, <1>4, <1>7, <1>8 DEF LiveInv, Intact, Below, KeyIdx
<1>10. Intact(d, keys', heap') /\ Below(d, keyBump', heapBump')
  BY <1>1, <1>4, <1>5 DEF Intact, Below, LiveInv, RegionInv, KeyIdx
<1>11. job' \in Edit /\ job'.draft = d /\ job'.todo # <<>>
  <2>1. Todo(fields, text) \in Seq([field : Field, text : Texts]) /\ Todo(fields, text) # <<>>
    BY <1>1, TodoType
  <2>. QED BY <1>1, <1>3, <1>5, <2>1 DEF Edit
<1>12. Intact(job'.draft, keys', heap') /\ Below(job'.draft, keyBump', heapBump') /\ d # Blank
  BY <1>5, <1>10, <1>11, Sizes DEF Intact, Below
<1>. QED BY <1>1, <1>6, <1>9, <1>11, <1>12 DEF LiveInv, Intact, Below

(* update and delete read the record and change nothing yet. *)
LEMMA UpdateLive ==
    ASSUME LiveInv, NEW s \in Slot,
           \/ \E fields \in SUBSET Field, text \in Texts : Update(s, fields, text)
           \/ Delete(s)
    PROVE  LiveInv'
<1>1. UNCHANGED <<rec, heap, keys, heapBump, keyBump, gate>> /\ gate
  BY DEF Update, Delete, Ready, rram, ram
<1>2. /\ RegionInv'
      /\ \A t \in Slot : rec[t] # Blank =>
           Intact(rec[t], keys', heap') /\ Below(rec[t], keyBump', heapBump')
  BY <1>1 DEF LiveInv, RegionInv, Intact, Below
<1>3. ASSUME NEW fields \in SUBSET Field, NEW text \in Texts, Update(s, fields, text)
      PROVE  LiveInv'
  <2>1. /\ rec[s] \in Contact /\ rec[s] # Blank
        /\ job' = [op |-> "update", slot |-> s, todo |-> Todo(fields, text), draft |-> rec[s]]
        /\ pc' \in {"alloc", "write"} /\ (pc' = "alloc" => fields # {})
    BY <1>3 DEF Update, Active, LiveInv, RegionInv
  <2>2. /\ Todo(fields, text) \in Seq([field : Field, text : Texts])
        /\ fields # {} => Todo(fields, text) # <<>>
    BY TodoType
  <2>3. job' \in Edit /\ job'.draft = rec[s] /\ (pc' = "alloc" => job'.todo # <<>>)
    BY <2>1, <2>2 DEF Edit
  <2>. QED BY <1>1, <1>2, <2>1, <2>3 DEF LiveInv, Intact, Below
<1>4. CASE Delete(s)
  <2>1. pc' = "write" /\ job' \in Edit /\ job'.draft = Blank
    BY <1>4 DEF Delete, Edit
  <2>. QED BY <1>1, <1>2, <2>1 DEF LiveInv, Intact, Below
<1>. QED BY <1>3, <1>4

(* StringHeap::alloc writes at the bump pointer, where no record has a string. *)
LEMMA AllocLive ==
    ASSUME IInv, LiveInv, NEW ok \in WriteOk, AllocString(ok)
    PROVE  LiveInv'
<1>1. CASE ~(ok /\ heapBump < HeapSize)
  BY <1>1, QuietLive DEF AllocString, AllocWith, Done
<1>2. CASE ok /\ heapBump < HeapSize
  <2>. DEFINE next == Head(job.todo)
              d == [job.draft EXCEPT !.ref[next.field] = heapBump,
                                     !.text[next.field] = next.text]
  <2>1. /\ pc = "alloc" /\ gate /\ pc' \in {"alloc", "write"} /\ heapBump' = heapBump + 1
        /\ heap' = [heap EXCEPT ![heapBump] = next.text]
        /\ job' = [job EXCEPT !.todo = Tail(@), !.draft.ref[next.field] = heapBump,
                              !.draft.text[next.field] = next.text]
        /\ pc' = "alloc" => Tail(job.todo) # <<>>
        /\ UNCHANGED <<rec, keys, keyBump, gate>>
    BY <1>2 DEF AllocString, AllocWith, IInv, ProvisionInv
  <2>2. /\ job \in Edit /\ job.draft \in Contact
        /\ Intact(job.draft, keys, heap) /\ Below(job.draft, keyBump, heapBump)
        /\ job.todo \in Seq([field : Field, text : Texts]) /\ job.todo # <<>>
    BY <2>1 DEF LiveInv, Edit
  <2>3. next \in [field : Field, text : Texts] /\ heapBump \in HeapIdx
    <3>1. next \in [field : Field, text : Texts]
      <4>. DEFINE T == [field : Field, text : Texts]
      <4>1. job.todo \in Seq(T) /\ job.todo # <<>>
        BY <2>2
      <4>2. ASSUME NEW q \in Seq(T), q # <<>> PROVE Head(q) \in T
        <5>. HIDE DEF T
        <5>. QED BY <4>2
      <4>. QED BY <4>1, <4>2
    <3>2. heapBump \in HeapIdx
      BY <1>2, Sizes DEF LiveInv, RegionInv, HeapIdx
    <3>. QED BY <3>1, <3>2
  <2>4. Tail(job.todo) \in Seq([field : Field, text : Texts])
    BY <2>2
  <2>. HIDE DEF next
  <2>5. /\ d \in Contact /\ d.key = job.draft.key /\ d.fp = job.draft.fp
        /\ d.ref = [job.draft.ref EXCEPT ![next.field] = heapBump]
        /\ d.text = [job.draft.text EXCEPT ![next.field] = next.text]
    BY <2>2, <2>3 DEF Contact, HeapIdx
  <2>6. job' \in Edit /\ job'.draft = d /\ job'.todo = Tail(job.todo)
    <3>1. job' = [job EXCEPT !.todo = Tail(job.todo), !.draft = d]
      BY <2>1, <2>2 DEF Edit, Contact
    <3>. HIDE DEF d
    <3>. QED BY <2>2, <2>4, <2>5, <3>1 DEF Edit
  <2>. HIDE DEF d
  <2>7. RegionInv'
    <3>1. heapBump' \in 0..HeapSize
      BY <1>2, <2>1, <2>3, Sizes DEF HeapIdx
    <3>. QED BY <2>1, <2>3, <3>1 DEF LiveInv, RegionInv
  <2>8. ASSUME NEW r \in Contact, Intact(r, keys, heap), Below(r, keyBump, heapBump)
        PROVE  Intact(r, keys', heap') /\ Below(r, keyBump', heapBump')
    <3>1. \A f \in Field : r.ref[f] # Blank => r.ref[f] \in HeapIdx /\ r.ref[f] < heapBump
      BY <2>8 DEF Contact, HeapIdx, Below
    <3>2. \A f \in Field : r.ref[f] # Blank =>
            heap'[r.ref[f]] = heap[r.ref[f]] /\ r.ref[f] < heapBump'
      BY <2>1, <2>3, <3>1, Sizes DEF LiveInv, RegionInv, HeapIdx
    <3>. QED BY <2>1, <2>8, <3>2 DEF Intact, Below
  <2>9. Intact(d, keys', heap') /\ Below(d, keyBump', heapBump')
    <3>1. keys'[d.key] = d.fp /\ d.key < keyBump'
      BY <2>1, <2>2, <2>5 DEF Intact, Below
    <3>2. heap'[heapBump] = next.text /\ heapBump < heapBump'
      BY <2>1, <2>3, Sizes DEF LiveInv, RegionInv, HeapIdx
    <3>3. Intact(job.draft, keys', heap') /\ Below(job.draft, keyBump', heapBump')
      BY <2>2, <2>8
    <3>4. ASSUME NEW f \in Field, d.ref[f] # Blank
          PROVE  heap'[d.ref[f]] = d.text[f] /\ d.ref[f] < heapBump'
      <4>1. job.draft.ref \in [Field -> HeapIdx \cup {Blank}]
            /\ job.draft.text \in [Field -> Texts \cup {Blank}]
        BY <2>2 DEF Contact, HeapIdx
      <4>2. CASE f = next.field
        BY <2>3, <2>5, <3>2, <4>1, <4>2
      <4>3. CASE f # next.field
        BY <2>3, <2>5, <3>3, <3>4, <4>1, <4>3 DEF Intact, Below
      <4>. QED BY <4>2, <4>3
    <3>. QED BY <3>1, <3>4 DEF Intact, Below
  <2>10. \A s \in Slot : rec[s] # Blank =>
           Intact(rec[s], keys', heap') /\ Below(rec[s], keyBump', heapBump')
    BY <2>1, <2>8 DEF LiveInv, RegionInv
  <2>11. d # Blank
    BY <2>5, Sizes
  <2>12. /\ Intact(job'.draft, keys', heap') /\ Below(job'.draft, keyBump', heapBump')
         /\ job'.draft # Blank /\ (pc' = "alloc" => job'.todo # <<>>)
    BY <2>1, <2>6, <2>9, <2>11
  <2>13. \A s \in Slot : rec'[s] # Blank =>
           Intact(rec'[s], keys', heap') /\ Below(rec'[s], keyBump', heapBump')
    BY <2>1, <2>10
  <2>. QED BY <2>1, <2>6, <2>7, <2>12, <2>13 DEF LiveInv
<1>. QED BY <1>1, <1>2

(* write_record stores the record that was put together, or empties the slot. *)
LEMMA WriteLive ==
    ASSUME IInv, LiveInv, NEW ok \in WriteOk, WriteRecord(ok)
    PROVE  LiveInv'
<1>1. CASE ~ok
  BY <1>1, QuietLive DEF WriteRecord, Done
<1>2. CASE ok
  <2>1. /\ pc = "write" /\ gate /\ pc' = "digest" /\ rec' = [rec EXCEPT ![job.slot] = job.draft]
        /\ UNCHANGED <<heap, keys, heapBump, keyBump, gate>>
    BY <1>2 DEF WriteRecord, IInv, ProvisionInv
  <2>2. /\ job.slot \in Slot /\ job.draft \in Contact \cup {Blank}
        /\ job.draft # Blank => /\ Intact(job.draft, keys, heap)
                                /\ Below(job.draft, keyBump, heapBump)
    BY <2>1 DEF LiveInv, Edit
  <2>3. RegionInv'
    BY <2>1, <2>2 DEF LiveInv, RegionInv
  <2>4. \A s \in Slot : rec'[s] # Blank =>
          Intact(rec'[s], keys', heap') /\ Below(rec'[s], keyBump', heapBump')
    BY <2>1, <2>2 DEF LiveInv, RegionInv
  <2>. QED BY <2>1, <2>3, <2>4 DEF LiveInv
<1>. QED BY <1>1, <1>2

(* init_on_boot puts both pointers past everything the records refer to. *)
LEMMA BootLive == ASSUME LiveInv, InitOnBoot PROVE LiveInv'
<1>1. /\ pc = "idle" /\ pc' = "idle" /\ UNCHANGED <<rec, heap, keys>>
      /\ heapBump' = ScanHeap /\ keyBump' = ScanKeys
  BY DEF InitOnBoot, rram
<1>. DEFINE H == {rec[s].ref[f] : s \in ActiveSlots, f \in Field} \ {Blank}
            K == {rec[s].key : s \in ActiveSlots}
<1>2. \A s \in ActiveSlots : s \in Slot /\ rec[s] # Blank /\ rec[s] \in Contact
  BY DEF ActiveSlots, Active, LiveInv, RegionInv
<1>3. H \subseteq 0..(HeapSize - 1) /\ K \subseteq 0..(KeySize - 1)
  BY <1>2 DEF Contact
<1>4. /\ heapBump' \in 0..HeapSize /\ \A o \in H : o < heapBump'
      /\ keyBump' \in 0..KeySize /\ \A o \in K : o < keyBump'
  <2>. HIDE DEF H, K
  <2>1. heapBump' = EndOf(H) /\ keyBump' = EndOf(K)
    BY <1>1 DEF ScanHeap, ScanKeys, H, K
  <2>. QED BY <1>3, <2>1, EndOfBound, Sizes
<1>5. \A s \in Slot : rec[s] # Blank => Below(rec[s], keyBump', heapBump')
  BY <1>4 DEF ActiveSlots, Active, Below
<1>. QED BY <1>1, <1>4, <1>5 DEF LiveInv, RegionInv

(* provision_fresh blanks the regions and the pointers together. *)
LEMMA ZeroLive ==
    ASSUME IInv, LiveInv, NEW ok \in WriteOk, ProvisionZero(ok)
    PROVE  LiveInv'
<1>1. CASE ~ok
  BY <1>1, QuietLive DEF ProvisionZero
<1>2. CASE ok
  <2>1. /\ pc' = "provDigest" /\ heapBump' = 0 /\ keyBump' = 0
        /\ rec' = [s \in Slot |-> Blank] /\ heap' = [o \in HeapIdx |-> Blank]
        /\ keys' = [o \in KeyIdx |-> Blank]
    BY <1>2 DEF ProvisionZero, HeapIdx, KeyIdx
  <2>2. RegionInv' /\ \A s \in Slot : rec'[s] = Blank
    BY <2>1, Sizes DEF RegionInv
  <2>. QED BY <2>1, <2>2 DEF LiveInv
<1>. QED BY <1>1, <1>2

(* Every step keeps the records intact and the pointers past them. *)
LEMMA LiveStep == ASSUME IInv, LiveInv, [Next]_vars PROVE LiveInv'
<1>1. CASE UNCHANGED vars
  BY <1>1 DEF vars, rram, ram, LiveInv, RegionInv
<1>2. CASE PowerCycle
  BY <1>2, Sizes DEF PowerCycle, rram, LiveInv, RegionInv
<1>3. CASE Provision
  <2>1. CASE ProvisionFresh
    BY <2>1, QuietLive DEF ProvisionFresh, rram, ram
  <2>2. ASSUME NEW ok \in WriteOk,
               ProvisionDigest(ok) \/ ProvisionCount(ok) \/ ProvisionMark(ok)
        PROVE  LiveInv'
    BY <2>2, QuietLive DEF ProvisionDigest, ProvisionCount, ProvisionMark, ram
  <2>. QED BY <1>3, <2>1, <2>2, ZeroLive DEF Provision
<1>4. CASE Call
  <2>1. ASSUME NEW ok \in WriteOk, LogAppend(ok) PROVE LiveInv'
    BY <2>1, QuietLive DEF LogAppend, Ready, ram
  <2>2. ASSUME NEW s \in Slot, NEW right \in BOOLEAN, NEW ok \in WriteOk, Unlock(s, right, ok)
        PROVE  LiveInv'
    <3>1. pc' \in {"idle", "unlock"} /\ UNCHANGED <<rec, heap, keys, heapBump, keyBump, gate>>
      BY <2>2 DEF Unlock, Ready
    <3>. QED BY <3>1, QuietLive
  <2>. QED BY <1>4, <2>1, <2>2, InsertLive, UpdateLive DEF Call
<1>5. CASE Continue
  <2>1. ASSUME NEW ok \in WriteOk,
               UpdateIntegrity(ok) \/ LogClear(ok) \/ LogWrite(ok) \/ Settle(ok)
        PROVE  LiveInv'
    BY <2>1, QuietLive DEF UpdateIntegrity, LogClear, LogWrite, Settle, SettleWith, Done, ram
  <2>. QED BY <1>5, <2>1, AllocLive, WriteLive DEF Continue
<1>. QED BY <1>1, <1>2, <1>3, <1>4, <1>5, BootLive DEF Next, Boot

(* No string or key a record refers to is ever overwritten: scan_bumps, the    *)
(* allocators and provision_fresh agree on what is in use, wherever power is   *)
(* cut or a write fails.                                                       *)
THEOREM LiveDataStaysIntact == Spec => []LiveDataIntact
<1>1. Init => LiveInv
  BY Sizes DEF Init, LiveInv, RegionInv, HeapIdx, KeyIdx
<1>2. IInv /\ LiveInv /\ [Next]_vars => LiveInv'
  BY LiveStep
<1>3. LiveInv => LiveDataIntact
  BY DEF LiveInv, Intact, LiveDataIntact, ActiveSlots, Active
<1>. QED BY <1>1, <1>2, <1>3, StoreInvariance, PTL DEF Spec

-----------------------------------------------------------------------------
(* The sorted index. *)

IndexEntries == [fp : Fps, slot : Slot]

(* Sorted by fingerprint, ... *)
Ordered(idx) == \A i, j \in 1..Len(idx) : i < j => idx[i].fp <= idx[j].fp

(* ... no slot twice, ... *)
Distinct(idx) == \A i, j \in 1..Len(idx) : i # j => idx[i].slot # idx[j].slot

(* ... and exactly the records of S that are active. *)
Shows(idx, S, R) ==
    /\ \A i \in 1..Len(idx) :
          idx[i].slot \in S /\ R[idx[i].slot] # Blank /\ R[idx[i].slot].fp = idx[i].fp
    /\ \A s \in S : R[s] # Blank => \E i \in 1..Len(idx) : idx[i].slot = s

GoodIndex(idx, S, R) == idx \in Seq(IndexEntries) /\ Ordered(idx) /\ Distinct(idx) /\ Shows(idx, S, R)

(* new is idx with an entry for s put between the fingerprints up to fp and    *)
(* the ones above it.                                                          *)
Placed(new, idx, fp, s) ==
    /\ new \in Seq(IndexEntries) /\ Len(new) = Len(idx) + 1
    /\ \E p \in 1..(Len(idx) + 1) :
         /\ new[p] = [fp |-> fp, slot |-> s]
         /\ \A i \in 1..(p - 1) : new[i] = idx[i] /\ idx[i].fp <= fp
         /\ \A i \in (p + 1)..(Len(idx) + 1) : new[i] = idx[i - 1] /\ idx[i - 1].fp > fp

(* ContactIndex::insert shifts the entries above the position it found. *)
LEMMA Inserted ==
    ASSUME NEW idx \in Seq(IndexEntries), Ordered(idx), NEW fp \in Fps, NEW s \in Slot
    PROVE  Placed(IndexInsert(idx, fp, s), idx, fp, s)
<1>. DEFINE I == {i \in 1..Len(idx) : idx[i].fp > fp}
            above == IF I # {} THEN Min(I) ELSE 0
            p == IF above = 0 THEN Len(idx) + 1 ELSE above
            e == [fp |-> fp, slot |-> s]
            new == IndexInsert(idx, fp, s)
<1>1. new = InsertAt(idx, p, e)
  BY DEF IndexInsert, SelectInSeq
<1>2. fp \in Nat /\ \A i \in 1..Len(idx) : idx[i] \in IndexEntries /\ idx[i].fp \in Nat
  <2>1. \A i \in 1..Len(idx) : idx[i] \in IndexEntries
    OBVIOUS
  <2>2. Fps \subseteq Nat /\ \A x \in IndexEntries : x.fp \in Fps
    BY ContactAssumption DEF IndexEntries
  <2>. QED BY <2>1, <2>2
<1>3. /\ p \in 1..(Len(idx) + 1)
      /\ \A i \in 1..(p - 1) : idx[i].fp <= fp
      /\ \A i \in p..Len(idx) : idx[i].fp > fp
  <2>1. CASE I = {}
    <3>1. p = Len(idx) + 1
      BY <2>1
    <3>2. \A i \in 1..Len(idx) : idx[i].fp <= fp
      BY <1>2, <2>1
    <3>. HIDE DEF p
    <3>3. Len(idx) \in Nat /\ p - 1 = Len(idx) /\ p..Len(idx) = {}
      BY <3>1
    <3>. QED BY <3>1, <3>2, <3>3
  <2>2. CASE I # {}
    <3>1. Min(I) \in I /\ \A y \in I : Min(I) <= y
      BY <2>2, MinOf
    <3>2. p = Min(I)
      BY <2>2, <3>1
    <3>. HIDE DEF p
    <3>3. p \in 1..Len(idx) /\ idx[p].fp > fp
      BY <3>1, <3>2
    <3>4. \A i \in 1..(p - 1) : idx[i].fp <= fp
      <4>1. TAKE i \in 1..(p - 1)
      <4>2. i \in 1..Len(idx) /\ i < p
        BY <3>3
      <4>3. i \notin I
        BY <3>1, <3>2, <4>2
      <4>. QED BY <4>2, <4>3, <1>2
    <3>5. \A i \in p..Len(idx) : idx[i].fp > fp
      <4>1. TAKE i \in p..Len(idx)
      <4>2. i \in 1..Len(idx) /\ (i = p \/ p < i)
        BY <3>3
      <4>3. idx[p].fp <= idx[i].fp
        BY <3>3, <4>2, <1>2 DEF Ordered
      <4>. QED BY <3>3, <4>2, <4>3, <1>2
    <3>. QED BY <3>3, <3>4, <3>5
  <2>. QED BY <2>1, <2>2
<1>. HIDE DEF p
<1>4. e \in IndexEntries
  BY DEF IndexEntries
<1>. HIDE DEF e
<1>5. /\ SubSeq(idx, 1, p - 1) \in Seq(IndexEntries) /\ Len(SubSeq(idx, 1, p - 1)) = p - 1
      /\ \A i \in 1..(p - 1) : SubSeq(idx, 1, p - 1)[i] = idx[i]
      /\ SubSeq(idx, p, Len(idx)) \in Seq(IndexEntries) /\ Len(SubSeq(idx, p, Len(idx))) = Len(idx) - p + 1
      /\ \A i \in 1..(Len(idx) - p + 1) : SubSeq(idx, p, Len(idx))[i] = idx[i + p - 1]
  BY <1>2, <1>3
<1>. DEFINE A == SubSeq(idx, 1, p - 1)
            B == SubSeq(idx, p, Len(idx))
            C == A \o <<e>>
<1>6. new = C \o B
  BY <1>1 DEF InsertAt
<1>. HIDE DEF A, B, C, new
<1>7. /\ new \in Seq(IndexEntries) /\ Len(new) = Len(idx) + 1 /\ new[p] = e
      /\ \A i \in 1..(p - 1) : new[i] = A[i]
      /\ \A i \in (p + 1)..(Len(idx) + 1) : new[i] = B[i - p]
  <2>1. A \in Seq(IndexEntries) /\ Len(A) = p - 1 /\ p \in Nat /\ p >= 1 /\ Len(idx) \in Nat
        /\ B \in Seq(IndexEntries) /\ Len(B) = Len(idx) - p + 1 /\ p <= Len(idx) + 1
    BY <1>3, <1>5 DEF A, B
  <2>2. /\ C \in Seq(IndexEntries) /\ Len(C) = p /\ C[p] = e
        /\ \A i \in 1..(p - 1) : C[i] = A[i]
    <3>1. /\ <<e>> \in Seq(IndexEntries) /\ Len(<<e>>) = 1 /\ <<e>>[1] = e
      BY <1>4
    <3>2. C \in Seq(IndexEntries) /\ Len(C) = Len(A) + 1
      BY <2>1, <3>1 DEF C
    <3>3. \A i \in 1..Len(A) : C[i] = A[i]
      BY <2>1, <3>1 DEF C
    <3>4. C[Len(A) + 1] = e
      BY <2>1, <3>1 DEF C
    <3>. QED BY <2>1, <3>2, <3>3, <3>4
  <2>3. /\ new \in Seq(IndexEntries) /\ Len(new) = Len(idx) + 1
        /\ \A i \in 1..p : new[i] = C[i]
    <3>1. new \in Seq(IndexEntries) /\ Len(new) = Len(C) + Len(B)
      BY <1>6, <2>1, <2>2
    <3>2. \A i \in 1..Len(C) : new[i] = C[i]
      BY <1>6, <2>1, <2>2
    <3>3. Len(C) + Len(B) = Len(idx) + 1
      BY <2>1, <2>2
    <3>. QED BY <2>2, <3>1, <3>2, <3>3
  <2>4. \A i \in (p + 1)..(Len(idx) + 1) : new[i] = B[i - p]
    BY <1>6, <2>1, <2>2
  <2>. QED BY <2>1, <2>2, <2>3, <2>4
<1>8. \A i \in 1..(p - 1) : new[i] = idx[i]
  BY <1>5, <1>7 DEF A
<1>9. \A i \in (p + 1)..(Len(idx) + 1) : new[i] = idx[i - 1] /\ idx[i - 1].fp > fp
  <2>1. TAKE i \in (p + 1)..(Len(idx) + 1)
  <2>2. i - p \in 1..(Len(idx) - p + 1) /\ (i - p) + p - 1 = i - 1 /\ i - 1 \in p..Len(idx)
    BY <1>3
  <2>3. B[i - p] = idx[i - 1]
    BY <2>2, <1>5 DEF B
  <2>. QED BY <1>3, <1>7, <2>2, <2>3
<1>. QED BY <1>3, <1>7, <1>8, <1>9 DEF e, new, Placed

(* The result is sorted again. *)
LEMMA InsertOrdered ==
    ASSUME NEW idx \in Seq(IndexEntries), Ordered(idx), NEW fp \in Fps, NEW s \in Slot
    PROVE  IndexInsert(idx, fp, s) \in Seq(IndexEntries) /\ Ordered(IndexInsert(idx, fp, s))
<1>. DEFINE new == IndexInsert(idx, fp, s)
            n == Len(idx)
<1>0. Placed(new, idx, fp, s)
  BY Inserted
<1>. HIDE DEF new
<1>1. /\ new \in Seq(IndexEntries) /\ Len(new) = n + 1
      /\ \E p \in 1..(n + 1) :
           /\ new[p] = [fp |-> fp, slot |-> s]
           /\ \A i \in 1..(p - 1) : new[i] = idx[i] /\ idx[i].fp <= fp
           /\ \A i \in (p + 1)..(n + 1) : new[i] = idx[i - 1] /\ idx[i - 1].fp > fp
  BY <1>0 DEF Placed
<1>2. PICK p \in 1..(n + 1) :
           /\ new[p] = [fp |-> fp, slot |-> s]
           /\ \A i \in 1..(p - 1) : new[i] = idx[i] /\ idx[i].fp <= fp
           /\ \A i \in (p + 1)..(n + 1) : new[i] = idx[i - 1] /\ idx[i - 1].fp > fp
  BY <1>1
<1>3. n \in Nat /\ p \in Nat /\ new[p].fp = fp /\ fp \in Nat
  BY <1>2, ContactAssumption
<1>4. \A i \in 1..n : idx[i].fp \in Nat
  <2>1. \A i \in 1..n : idx[i] \in IndexEntries
    OBVIOUS
  <2>. QED BY <2>1, ContactAssumption DEF IndexEntries
<1>5. \A i, j \in 1..n : i < j => idx[i].fp <= idx[j].fp
  BY DEF Ordered
<1>. HIDE DEF n
<1>6. ASSUME NEW i \in 1..(n + 1), NEW j \in 1..(n + 1), i < j PROVE new[i].fp <= new[j].fp
  <2>1. CASE j < p
    <3>1. i \in 1..(p - 1) /\ j \in 1..(p - 1) /\ i \in 1..n /\ j \in 1..n
      BY <1>3, <1>6, <2>1
    <3>. QED BY <1>2, <1>5, <1>6, <3>1
  <2>2. CASE j = p
    <3>1. i \in 1..(p - 1)
      BY <1>3, <1>6, <2>2
    <3>. QED BY <1>2, <1>3, <2>2, <3>1
  <2>3. CASE j > p
    <3>1. j \in (p + 1)..(n + 1) /\ j - 1 \in 1..n
      BY <1>3, <2>3
    <3>2. new[j].fp = idx[j - 1].fp /\ idx[j - 1].fp > fp /\ idx[j - 1].fp \in Nat
      BY <1>2, <1>4, <3>1
    <3>3. CASE i < p
      <4>1. i \in 1..(p - 1) /\ i \in 1..n
        BY <1>3, <3>3
      <4>2. new[i].fp = idx[i].fp /\ idx[i].fp <= fp /\ idx[i].fp \in Nat
        BY <1>2, <1>4, <4>1
      <4>. QED BY <1>3, <3>2, <4>2
    <3>4. CASE i = p
      BY <1>3, <3>2, <3>4
    <3>5. CASE i > p
      <4>1. i \in (p + 1)..(n + 1) /\ i - 1 \in 1..n /\ i - 1 < j - 1
        BY <1>3, <1>6, <3>5
      <4>2. new[i].fp = idx[i - 1].fp
        BY <1>2, <4>1
      <4>3. idx[i - 1].fp <= idx[j - 1].fp
        BY <1>5, <3>1, <4>1
      <4>. QED BY <3>2, <4>2, <4>3
    <3>. QED BY <1>3, <3>3, <3>4, <3>5
  <2>. QED BY <1>3, <2>1, <2>2, <2>3
<1>7. Ordered(new)
  BY <1>1, <1>6 DEF Ordered
<1>. QED BY <1>1, <1>7 DEF new

(* An index of the records of S becomes one of S and s when s is entered. *)
LEMMA InsertGood ==
    ASSUME NEW idx \in Seq(IndexEntries), NEW S \in SUBSET Slot, NEW R, GoodIndex(idx, S, R),
           NEW fp \in Fps, NEW s \in Slot, \A i \in 1..Len(idx) : idx[i].slot # s,
           NEW Q, Q[s] # Blank, Q[s].fp = fp, \A t \in S : t # s => Q[t] = R[t]
    PROVE  GoodIndex(IndexInsert(idx, fp, s), S \cup {s}, Q)
<1>. DEFINE new == IndexInsert(idx, fp, s)
            n == Len(idx)
<1>1. idx \in Seq(IndexEntries) /\ Ordered(idx) /\ n \in Nat
  BY DEF GoodIndex
<1>2. new \in Seq(IndexEntries) /\ Ordered(new)
  BY <1>1, InsertOrdered
<1>0. Placed(new, idx, fp, s)
  BY <1>1, Inserted
<1>. HIDE DEF new
<1>3. /\ new \in Seq(IndexEntries) /\ Len(new) = n + 1
      /\ \E p \in 1..(n + 1) :
           /\ new[p] = [fp |-> fp, slot |-> s]
           /\ \A i \in 1..(p - 1) : new[i] = idx[i] /\ idx[i].fp <= fp
           /\ \A i \in (p + 1)..(n + 1) : new[i] = idx[i - 1] /\ idx[i - 1].fp > fp
  BY <1>0 DEF Placed
<1>4. PICK p \in 1..(n + 1) :
           /\ new[p] = [fp |-> fp, slot |-> s]
           /\ \A i \in 1..(p - 1) : new[i] = idx[i]
           /\ \A i \in (p + 1)..(n + 1) : new[i] = idx[i - 1]
  BY <1>3
<1>5. \A i \in 1..n : /\ idx[i].slot \in S /\ idx[i].slot # s
                      /\ R[idx[i].slot] # Blank /\ R[idx[i].slot].fp = idx[i].fp
  BY DEF GoodIndex, Shows
<1>6. \A i, j \in 1..n : i # j => idx[i].slot # idx[j].slot
  BY DEF GoodIndex, Distinct
<1>7. \A t \in S : R[t] # Blank => \E i \in 1..n : idx[i].slot = t
  BY DEF GoodIndex, Shows
<1>. HIDE DEF n
<1>. DEFINE old(i) == IF i < p THEN i ELSE i - 1
<1>8. \A i \in 1..(n + 1) : i # p => old(i) \in 1..n /\ new[i] = idx[old(i)]
  BY <1>1, <1>4
<1>9. \A i, j \in 1..(n + 1) : i # p /\ j # p /\ i # j => old(i) # old(j)
  BY <1>1
<1>10. \A i \in 1..n : \E j \in 1..(n + 1) : new[j] = idx[i]
  <2>1. TAKE i \in 1..n
  <2>2. CASE i < p
    BY <1>1, <1>4, <2>2
  <2>3. CASE i >= p
    <3>1. i + 1 \in (p + 1)..(n + 1) /\ (i + 1) - 1 = i /\ i + 1 \in 1..(n + 1)
      BY <1>1, <2>3
    <3>. QED BY <1>4, <3>1
  <2>. QED BY <1>1, <2>2, <2>3
<1>. HIDE DEF old
<1>11. new[p].slot = s /\ new[p].fp = fp
  BY <1>4
<1>12. Distinct(new)
  <2>1. ASSUME NEW i \in 1..(n + 1), NEW j \in 1..(n + 1), i # j PROVE new[i].slot # new[j].slot
    <3>1. CASE i # p /\ j # p
      BY <1>6, <1>8, <1>9, <2>1, <3>1
    <3>2. CASE i = p
      BY <1>5, <1>8, <1>11, <2>1, <3>2
    <3>3. CASE j = p
      BY <1>5, <1>8, <1>11, <2>1, <3>3
    <3>. QED BY <3>1, <3>2, <3>3
  <2>. QED BY <1>3, <2>1 DEF Distinct
<1>13. Shows(new, S \cup {s}, Q)
  <2>1. ASSUME NEW i \in 1..(n + 1)
        PROVE  new[i].slot \in S \cup {s} /\ Q[new[i].slot] # Blank /\ Q[new[i].slot].fp = new[i].fp
    <3>1. CASE i = p
      BY <1>11, <3>1
    <3>2. CASE i # p
      BY <1>5, <1>8, <3>2
    <3>. QED BY <3>1, <3>2
  <2>2. ASSUME NEW t \in S \cup {s}, Q[t] # Blank PROVE \E i \in 1..(n + 1) : new[i].slot = t
    <3>1. CASE t = s
      BY <1>11, <3>1
    <3>2. CASE t # s
      <4>1. PICK i \in 1..n : idx[i].slot = t
        BY <1>7, <2>2, <3>2
      <4>. QED BY <1>10, <4>1
    <3>. QED BY <3>1, <3>2
  <2>. QED BY <1>3, <2>1, <2>2 DEF Shows
<1>. QED BY <1>2, <1>12, <1>13 DEF GoodIndex, new

(* rebuild_from_records lists the active records. *)
LEMMA RebuildGood ==
    ASSUME rec \in [Slot -> Contact \cup {Blank}]
    PROVE  GoodIndex(IndexRebuild, Slot, rec)
<1>. DEFINE X == {x \in Seq(IndexEntries) : Ordered(x)}
            Body(f) == [n \in 0..SlotCount |->
                          IF n = 0 THEN <<>>
                          ELSE IF Active(n - 1) THEN IndexInsert(f[n - 1], rec[n - 1].fp, n - 1)
                          ELSE f[n - 1]]
            next == [q \in (1..SlotCount) \X X |->
                          IF Active(q[1] - 1) THEN IndexInsert(q[2], rec[q[1] - 1].fp, q[1] - 1) ELSE q[2]]
<1>1. SlotCount \in Nat /\ Slot = 0..(SlotCount - 1)
  BY Sizes DEF Slot
<1>2. \A n \in 1..SlotCount : n - 1 \in Slot /\ (Active(n - 1) => rec[n - 1].fp \in Fps)
  BY <1>1 DEF Active, Contact
<1>3. <<>> \in X
  BY DEF Ordered
<1>4. \A n \in 1..SlotCount, x \in X : Active(n - 1) => IndexInsert(x, rec[n - 1].fp, n - 1) \in X
  BY <1>2, InsertOrdered
<1>5. \E g : g = Body(g)
  <2>1. next \in [(1..SlotCount) \X X -> X]
    <3>. HIDE DEF X
    <3>1. ASSUME NEW q \in (1..SlotCount) \X X
          PROVE  (IF Active(q[1] - 1) THEN IndexInsert(q[2], rec[q[1] - 1].fp, q[1] - 1) ELSE q[2]) \in X
      <4>1. q[1] \in 1..SlotCount /\ q[2] \in X
        OBVIOUS
      <4>. QED BY <1>4, <4>1
    <3>. QED BY <3>1
  <2>2. \A n \in 1..SlotCount, x \in X :
          next[<<n, x>>] = IF Active(n - 1) THEN IndexInsert(x, rec[n - 1].fp, n - 1) ELSE x
    <3>. HIDE DEF X
    <3>. QED OBVIOUS
  <2>. HIDE DEF X, next
  <2>. DEFINE b == <<>>
  <2>0. b \in X
    BY <1>3
  <2>. HIDE DEF b
  <2>3. PICK f \in [0..SlotCount -> X] :
          f[0] = b /\ \A i \in 1..SlotCount : f[i] = next[<<i, f[i - 1]>>]
    <3>1. HasIteration(SlotCount, X, b, next)
      BY <1>1, <2>0, <2>1, Recursion
    <3>. QED BY <3>1 DEF HasIteration, Iterates
  <2>4. ASSUME NEW n \in 0..SlotCount
        PROVE  f[n] = IF n = 0 THEN <<>>
                      ELSE IF Active(n - 1) THEN IndexInsert(f[n - 1], rec[n - 1].fp, n - 1)
                      ELSE f[n - 1]
    <3>1. CASE n = 0
      BY <2>3, <3>1 DEF b
    <3>2. CASE n # 0
      <4>1. n \in 1..SlotCount /\ f[n - 1] \in X
        BY <1>1, <3>2
      <4>. QED BY <2>2, <2>3, <3>2, <4>1
    <3>. QED BY <3>1, <3>2
  <2>5. f = Body(f)
    BY <2>4
  <2>. QED BY <2>5
<1>. DEFINE g == CHOOSE f : f = Body(f)
<1>6. g = Body(g)
  BY <1>5
<1>7. IndexRebuild = g[SlotCount]
  BY DEF IndexRebuild
<1>. DEFINE K == {k \in 0..SlotCount : GoodIndex(g[k], 0..(k - 1), rec)}
<1>8. /\ g[0] = <<>>
      /\ \A n \in 1..SlotCount :
           g[n] = IF Active(n - 1) THEN IndexInsert(g[n - 1], rec[n - 1].fp, n - 1) ELSE g[n - 1]
  <2>. HIDE DEF g
  <2>. QED BY <1>1, <1>6
<1>. HIDE DEF g
<1>9. 0 \in K
  <2>1. g[0] \in Seq(IndexEntries) /\ Len(g[0]) = 0 /\ 0..(0 - 1) = {}
    BY <1>8
  <2>2. GoodIndex(g[0], 0..(0 - 1), rec)
    BY <2>1 DEF GoodIndex, Ordered, Distinct, Shows
  <2>. QED BY <1>1, <2>2
<1>10. ASSUME NEW k \in 0..(SlotCount - 1), k \in K PROVE k + 1 \in K
  <2>1. GoodIndex(g[k], 0..(k - 1), rec) /\ k \in Nat /\ k + 1 \in 1..SlotCount /\ (k + 1) - 1 = k
        /\ k \in Slot /\ 0..k = 0..(k - 1) \cup {k} /\ 0..(k - 1) \in SUBSET Slot
    BY <1>1, <1>10
  <2>2. g[k + 1] = IF Active(k) THEN IndexInsert(g[k], rec[k].fp, k) ELSE g[k]
    BY <1>8, <2>1
  <2>3. CASE Active(k)
    <3>1. rec[k] # Blank /\ rec[k].fp \in Fps
      BY <1>2, <2>1, <2>3 DEF Active
    <3>2. g[k] \in Seq(IndexEntries) /\ \A i \in 1..Len(g[k]) : g[k][i].slot # k
      BY <2>1 DEF GoodIndex, Shows
    <3>3. GoodIndex(IndexInsert(g[k], rec[k].fp, k), 0..(k - 1) \cup {k}, rec)
      BY <2>1, <3>1, <3>2, InsertGood
    <3>4. GoodIndex(g[k + 1], 0..((k + 1) - 1), rec)
      BY <2>1, <2>2, <2>3, <3>3
    <3>. QED BY <2>1, <3>4
  <2>4. CASE ~Active(k)
    <3>1. GoodIndex(g[k], 0..k, rec)
      BY <2>1, <2>4 DEF GoodIndex, Shows, Active
    <3>. QED BY <2>1, <2>2, <2>4, <3>1
  <2>. QED BY <2>3, <2>4
<1>11. SlotCount \in K
  <2>. HIDE DEF K
  <2>1. 0..SlotCount \subseteq K
    BY <1>1, <1>9, <1>10, UpTo
  <2>. QED BY <1>1, <2>1
<1>. QED BY <1>1, <1>7, <1>11

(* seq holds the first k entries of idx without the ones of slot s. *)
Kept(seq, idx, k, s) ==
    /\ seq \in Seq(IndexEntries) /\ Ordered(seq) /\ Distinct(seq)
    /\ \A i \in 1..Len(seq) : \E j \in 1..k : seq[i] = idx[j] /\ idx[j].slot # s
    /\ \A j \in 1..k : idx[j].slot # s => \E i \in 1..Len(seq) : seq[i] = idx[j]

(* One more entry is looked at, and copied down or skipped. *)
LEMMA KeepNext ==
    ASSUME NEW idx \in Seq(IndexEntries), Ordered(idx), Distinct(idx), NEW s,
           NEW k \in 0..(Len(idx) - 1), NEW seq, Kept(seq, idx, k, s)
    PROVE  Kept(IF idx[k + 1].slot # s THEN Append(seq, idx[k + 1]) ELSE seq, idx, k + 1, s)
<1>. DEFINE e == idx[k + 1]
            new == Append(seq, e)
            n == Len(seq)
<1>1. seq \in Seq(IndexEntries) /\ n \in Nat /\ k \in Nat /\ k + 1 \in 1..Len(idx) /\ e \in IndexEntries
  BY DEF Kept
<1>2. /\ \A i \in 1..n : \E j \in 1..k : seq[i] = idx[j] /\ idx[j].slot # s
      /\ \A j \in 1..k : idx[j].slot # s => \E i \in 1..n : seq[i] = idx[j]
  BY DEF Kept
<1>3. /\ \A i, j \in 1..n : i < j => seq[i].fp <= seq[j].fp
      /\ \A i, j \in 1..n : i # j => seq[i].slot # seq[j].slot
  BY DEF Kept, Ordered, Distinct
<1>4. 1..k \subseteq 1..(k + 1) /\ \A j \in 1..(k + 1) : j \in 1..k \/ j = k + 1
  BY <1>1
<1>5. CASE e.slot = s
  <2>1. \A i \in 1..n : \E j \in 1..(k + 1) : seq[i] = idx[j] /\ idx[j].slot # s
    BY <1>2, <1>4
  <2>2. \A j \in 1..(k + 1) : idx[j].slot # s => \E i \in 1..n : seq[i] = idx[j]
    BY <1>2, <1>4, <1>5
  <2>. QED BY <1>5, <2>1, <2>2 DEF Kept
<1>6. CASE e.slot # s
  <2>1. new \in Seq(IndexEntries) /\ Len(new) = n + 1 /\ new[n + 1] = e /\ \A i \in 1..n : new[i] = seq[i]
    BY <1>1
  <2>. HIDE DEF new, n, e
  <2>2. 1..n \subseteq 1..(n + 1) /\ n + 1 \in 1..(n + 1) /\ \A i \in 1..(n + 1) : i \in 1..n \/ i = n + 1
    BY <1>1
  <2>3. \A i \in 1..n : seq[i].fp <= e.fp /\ seq[i].slot # e.slot
    <3>1. TAKE i \in 1..n
    <3>2. PICK j \in 1..k : seq[i] = idx[j]
      BY <1>2
    <3>3. j \in 1..Len(idx) /\ j < k + 1
      BY <1>1
    <3>. QED BY <1>1, <3>2, <3>3 DEF Ordered, Distinct, e
  <2>4. Ordered(new)
    <3>1. ASSUME NEW i \in 1..(n + 1), NEW j \in 1..(n + 1), i < j PROVE new[i].fp <= new[j].fp
      <4>1. i \in 1..n
        BY <1>1, <3>1
      <4>2. CASE j \in 1..n
        BY <1>3, <2>1, <3>1, <4>1, <4>2
      <4>3. CASE j = n + 1
        BY <2>1, <2>3, <4>1, <4>3
      <4>. QED BY <2>2, <4>2, <4>3
    <3>. QED BY <2>1, <3>1 DEF Ordered
  <2>5. Distinct(new)
    <3>1. ASSUME NEW i \in 1..(n + 1), NEW j \in 1..(n + 1), i # j PROVE new[i].slot # new[j].slot
      <4>1. CASE i \in 1..n /\ j \in 1..n
        BY <1>3, <2>1, <3>1, <4>1
      <4>2. CASE i = n + 1 /\ j \in 1..n
        BY <2>1, <2>3, <4>2
      <4>3. CASE i \in 1..n /\ j = n + 1
        BY <2>1, <2>3, <4>3
      <4>. QED BY <2>2, <3>1, <4>1, <4>2, <4>3
    <3>. QED BY <2>1, <3>1 DEF Distinct
  <2>6. ASSUME NEW i \in 1..(n + 1) PROVE \E j \in 1..(k + 1) : new[i] = idx[j] /\ idx[j].slot # s
    <3>1. CASE i \in 1..n
      BY <1>2, <1>4, <2>1, <3>1
    <3>2. CASE i = n + 1
      <4>1. k + 1 \in 1..(k + 1) /\ new[i] = idx[k + 1] /\ idx[k + 1].slot # s
        BY <1>1, <1>6, <2>1, <3>2 DEF e
      <4>. QED BY <4>1
    <3>. QED BY <2>2, <3>1, <3>2
  <2>7. ASSUME NEW j \in 1..(k + 1), idx[j].slot # s PROVE \E i \in 1..(n + 1) : new[i] = idx[j]
    <3>1. CASE j \in 1..k
      BY <1>2, <2>1, <2>2, <2>7, <3>1
    <3>2. CASE j = k + 1
      BY <2>1, <2>2, <3>2 DEF e
    <3>. QED BY <1>4, <3>1, <3>2
  <2>8. Kept(new, idx, k + 1, s)
    BY <2>1, <2>4, <2>5, <2>6, <2>7 DEF Kept
  <2>. QED BY <1>6, <2>8 DEF e, new
<1>. QED BY <1>5, <1>6

(* ContactIndex::remove leaves the entries of the other slots, in their order. *)
LEMMA Removed ==
    ASSUME NEW idx \in Seq(IndexEntries), Ordered(idx), Distinct(idx), NEW s
    PROVE  Kept(IndexRemove(idx, s), idx, Len(idx), s)
<1>. DEFINE n == Len(idx)
            X == Seq(IndexEntries)
            Body(f) == [i \in 0..n |->
                          IF i = 0 THEN <<>>
                          ELSE IF idx[i].slot # s THEN Append(f[i - 1], idx[i]) ELSE f[i - 1]]
            next == [q \in (1..n) \X X |->
                          IF idx[q[1]].slot # s THEN Append(q[2], idx[q[1]]) ELSE q[2]]
            b == <<>>
<1>1. n \in Nat /\ b \in X /\ \A i \in 1..n : idx[i] \in IndexEntries
  OBVIOUS
<1>2. \A i \in 1..n, x \in X : Append(x, idx[i]) \in X
  BY <1>1
<1>3. \E g : g = Body(g)
  <2>. HIDE DEF n, X
  <2>1. next \in [(1..n) \X X -> X]
    <3>1. ASSUME NEW q \in (1..n) \X X
          PROVE  (IF idx[q[1]].slot # s THEN Append(q[2], idx[q[1]]) ELSE q[2]) \in X
      <4>1. q[1] \in 1..n /\ q[2] \in X
        OBVIOUS
      <4>. QED BY <1>2, <4>1
    <3>. QED BY <3>1
  <2>2. \A i \in 1..n, x \in X :
          next[<<i, x>>] = IF idx[i].slot # s THEN Append(x, idx[i]) ELSE x
    OBVIOUS
  <2>. HIDE DEF next, b
  <2>3. PICK f \in [0..n -> X] : f[0] = b /\ \A i \in 1..n : f[i] = next[<<i, f[i - 1]>>]
    <3>1. HasIteration(n, X, b, next)
      BY <1>1, <2>1, Recursion
    <3>. QED BY <3>1 DEF HasIteration, Iterates
  <2>4. ASSUME NEW i \in 0..n
        PROVE  f[i] = IF i = 0 THEN <<>>
                      ELSE IF idx[i].slot # s THEN Append(f[i - 1], idx[i]) ELSE f[i - 1]
    <3>1. CASE i = 0
      BY <2>3, <3>1 DEF b
    <3>2. CASE i # 0
      <4>1. i \in 1..n /\ f[i - 1] \in X
        BY <1>1, <3>2
      <4>. QED BY <2>2, <2>3, <3>2, <4>1
    <3>. QED BY <3>1, <3>2
  <2>5. f = Body(f)
    BY <2>4
  <2>. QED BY <2>5
<1>. DEFINE g == CHOOSE f : f = Body(f)
<1>4. g = Body(g)
  BY <1>3
<1>5. IndexRemove(idx, s) = g[n]
  BY DEF IndexRemove
<1>6. /\ g[0] = <<>>
      /\ \A i \in 1..n : g[i] = IF idx[i].slot # s THEN Append(g[i - 1], idx[i]) ELSE g[i - 1]
  <2>. HIDE DEF g, n
  <2>1. \A i \in 0..n : g[i] = IF i = 0 THEN <<>>
                               ELSE IF idx[i].slot # s THEN Append(g[i - 1], idx[i]) ELSE g[i - 1]
    BY <1>4, Zenon
  <2>2. 0 \in 0..n /\ \A i \in 1..n : i \in 0..n /\ i # 0
    BY <1>1
  <2>. QED BY <2>1, <2>2
<1>. HIDE DEF g
<1>. DEFINE K == {k \in 0..n : Kept(g[k], idx, k, s)}
<1>7. 0 \in K
  <2>1. g[0] \in Seq(IndexEntries) /\ Len(g[0]) = 0 /\ 1..0 = {}
    BY <1>6
  <2>2. Kept(g[0], idx, 0, s)
    BY <2>1 DEF Kept, Ordered, Distinct
  <2>. QED BY <1>1, <2>2
<1>8. ASSUME NEW k \in 0..(n - 1), k \in K PROVE k + 1 \in K
  <2>1. Kept(g[k], idx, k, s) /\ k + 1 \in 1..n /\ (k + 1) - 1 = k
    BY <1>1, <1>8
  <2>2. g[k + 1] = IF idx[k + 1].slot # s THEN Append(g[k], idx[k + 1]) ELSE g[k]
    BY <1>6, <2>1
  <2>3. Kept(g[k + 1], idx, k + 1, s)
    BY <2>1, <2>2, KeepNext
  <2>. QED BY <2>1, <2>3
<1>9. n \in K
  <2>. HIDE DEF K
  <2>1. 0..n \subseteq K
    BY <1>1, <1>7, <1>8, UpTo
  <2>. QED BY <1>1, <2>1
<1>. QED BY <1>5, <1>9

(* An index stays good when a slot leaves it together with its record. *)
LEMMA RemoveGood ==
    ASSUME NEW idx, NEW R, GoodIndex(idx, Slot, R), NEW s \in Slot,
           NEW Q, Q[s] = Blank, \A t \in Slot : t # s => Q[t] = R[t]
    PROVE  GoodIndex(IndexRemove(idx, s), Slot, Q)
<1>. DEFINE new == IndexRemove(idx, s)
<1>1. idx \in Seq(IndexEntries) /\ Ordered(idx) /\ Distinct(idx) /\ Shows(idx, Slot, R)
  BY DEF GoodIndex
<1>2. Kept(new, idx, Len(idx), s)
  BY <1>1, Removed
<1>. HIDE DEF new
<1>3. ASSUME NEW i \in 1..Len(new)
      PROVE  new[i].slot \in Slot /\ Q[new[i].slot] # Blank /\ Q[new[i].slot].fp = new[i].fp
  <2>1. PICK j \in 1..Len(idx) : new[i] = idx[j] /\ idx[j].slot # s
    BY <1>2 DEF Kept
  <2>. QED BY <1>1, <2>1 DEF Shows
<1>4. ASSUME NEW t \in Slot, Q[t] # Blank PROVE \E i \in 1..Len(new) : new[i].slot = t
  <2>1. t # s /\ R[t] # Blank
    BY <1>4
  <2>2. PICK j \in 1..Len(idx) : idx[j].slot = t
    BY <1>1, <2>1 DEF Shows
  <2>. QED BY <1>2, <2>1, <2>2 DEF Kept
<1>5. Shows(new, Slot, Q)
  BY <1>3, <1>4 DEF Shows
<1>. QED BY <1>2, <1>5 DEF GoodIndex, Kept, new

(* The intervals of lookup_prefix, its middle entry, and one turn of its loop, *)
(* where f answers for the interval that is left.                              *)
Ranges(idx) == (0..Len(idx)) \X (0..Len(idx))

Mid(r) == r[1] + (r[2] - r[1]) \div 2

Probe(f, idx, fp, r) ==
    IF r[1] >= r[2] THEN Blank
    ELSE IF idx[Mid(r) + 1].fp < fp THEN f[<<Mid(r) + 1, r[2]>>]
    ELSE IF idx[Mid(r) + 1].fp > fp THEN f[<<r[1], Mid(r)>>]
    ELSE idx[Mid(r) + 1].slot

Searches(f, idx, fp) == f = [r \in Ranges(idx) |-> Probe(f, idx, fp, r)]

(* Both halves are intervals again, and shorter. *)
LEMMA Halves ==
    ASSUME NEW idx \in Seq(IndexEntries), NEW r \in Ranges(idx), r[1] < r[2]
    PROVE  /\ Mid(r) \in Nat /\ r[1] <= Mid(r) /\ Mid(r) < r[2] /\ Mid(r) + 1 \in 1..Len(idx)
           /\ <<Mid(r) + 1, r[2]>> \in Ranges(idx) /\ <<r[1], Mid(r)>> \in Ranges(idx)
           /\ r[2] - (Mid(r) + 1) < r[2] - r[1] /\ Mid(r) - r[1] < r[2] - r[1]
<1>1. Len(idx) \in Nat /\ r[1] \in 0..Len(idx) /\ r[2] \in 0..Len(idx)
  BY DEF Ranges
<1>. DEFINE h == (r[2] - r[1]) \div 2
<1>2. h \in Nat /\ h < r[2] - r[1]
  BY <1>1
<1>3. Mid(r) = r[1] + h
  BY DEF Mid
<1>. HIDE DEF h
<1>4. Mid(r) \in 0..Len(idx) /\ r[1] <= Mid(r) /\ Mid(r) < r[2] /\ Mid(r) + 1 \in 1..Len(idx)
      /\ Mid(r) + 1 \in 0..Len(idx)
  BY <1>1, <1>2, <1>3
<1>5. r[2] - (Mid(r) + 1) < r[2] - r[1] /\ Mid(r) - r[1] < r[2] - r[1]
  BY <1>1, <1>4
<1>6. <<Mid(r) + 1, r[2]>> \in Ranges(idx) /\ <<r[1], Mid(r)>> \in Ranges(idx)
  BY <1>1, <1>4 DEF Ranges
<1>. QED BY <1>4, <1>5, <1>6

(* lookup_prefix terminates: the recursion that describes it has a solution,   *)
(* reached after as many turns as there are entries.                           *)
LEMMA SearchExists ==
    ASSUME NEW idx \in Seq(IndexEntries), NEW fp
    PROVE  \E f : Searches(f, idx, fp)
<1>. DEFINE n == Len(idx)
            D == Ranges(idx)
            V == Slot \cup {Blank}
            X == [D -> V]
            turn(f) == [r \in D |-> Probe(f, idx, fp, r)]
            next == [q \in (1..(n + 1)) \X X |-> turn(q[2])]
            b == [r \in D |-> Blank]
<1>1. n \in Nat /\ n + 1 \in Nat /\ b \in X
  OBVIOUS
<1>2. ASSUME NEW f \in X PROVE turn(f) \in X
  <2>1. ASSUME NEW r \in D PROVE Probe(f, idx, fp, r) \in V
    <3>1. CASE r[1] >= r[2]
      BY <3>1 DEF Probe
    <3>2. CASE r[1] < r[2]
      <4>1. /\ <<Mid(r) + 1, r[2]>> \in D /\ <<r[1], Mid(r)>> \in D
            /\ Mid(r) + 1 \in 1..Len(idx)
        BY <3>2, Halves
      <4>2. idx[Mid(r) + 1].slot \in Slot
        <5>1. idx[Mid(r) + 1] \in IndexEntries
          BY <4>1
        <5>. QED BY <5>1 DEF IndexEntries
      <4>3. f[<<Mid(r) + 1, r[2]>>] \in V /\ f[<<r[1], Mid(r)>>] \in V
        BY <4>1
      <4>. HIDE DEF V
      <4>. QED BY <4>2, <4>3 DEF Probe, V
    <3>3. r[1] \in Nat /\ r[2] \in Nat
      BY DEF Ranges
    <3>. QED BY <3>1, <3>2, <3>3
  <2>. QED BY <2>1
<1>. HIDE DEF n, V, D, turn
<1>3. next \in [(1..(n + 1)) \X X -> X]
  <2>1. \A q \in (1..(n + 1)) \X X : turn(q[2]) \in X
    <3>. HIDE DEF X
    <3>. QED BY <1>2
  <2>. HIDE DEF X
  <2>. QED BY <2>1
<1>4. \A i \in 1..(n + 1), x \in X : next[<<i, x>>] = turn(x)
  <2>. HIDE DEF X
  <2>. QED OBVIOUS
<1>. HIDE DEF next, b, X
<1>5. PICK f \in [0..(n + 1) -> X] :
        f[0] = b /\ \A i \in 1..(n + 1) : f[i] = next[<<i, f[i - 1]>>]
  <2>1. HasIteration(n + 1, X, b, next)
    BY <1>1, <1>3, Recursion
  <2>. QED BY <2>1 DEF HasIteration, Iterates
<1>6. \A k \in 0..n : f[k + 1] = turn(f[k]) /\ f[k] \in X
  <2>1. TAKE k \in 0..n
  <2>2. k + 1 \in 1..(n + 1) /\ (k + 1) - 1 = k /\ k \in 0..(n + 1)
    BY <1>1
  <2>. QED BY <1>4, <1>5, <2>2
<1>. DEFINE K == {k \in 0..n : \A r \in D : r[2] - r[1] <= k => f[k + 1][r] = f[k][r]}
<1>7. \A k \in 0..n, r \in D : f[k + 1][r] = Probe(f[k], idx, fp, r)
  <2>1. TAKE k \in 0..n, r \in D
  <2>2. turn(f[k])[r] = Probe(f[k], idx, fp, r)
    BY DEF turn
  <2>. QED BY <1>6, <2>2
<1>8. 0 \in K
  <2>1. ASSUME NEW r \in D, r[2] - r[1] <= 0 PROVE f[0 + 1][r] = f[0][r]
    <3>1. r[1] >= r[2]
      BY <2>1 DEF D, Ranges
    <3>2. Probe(f[0], idx, fp, r) = Blank
      BY <3>1 DEF Probe
    <3>3. f[0][r] = Blank
      BY <1>5 DEF b
    <3>. QED BY <1>1, <1>7, <3>2, <3>3
  <2>. QED BY <1>1, <2>1
<1>9. ASSUME NEW k \in 0..(n - 1), k \in K PROVE k + 1 \in K
  <2>1. k \in Nat /\ k + 1 \in 0..n /\ k \in 0..n
    BY <1>1
  <2>2. ASSUME NEW r \in D, r[2] - r[1] <= k + 1 PROVE f[(k + 1) + 1][r] = f[k + 1][r]
    <3>1. f[(k + 1) + 1][r] = Probe(f[k + 1], idx, fp, r) /\ f[k + 1][r] = Probe(f[k], idx, fp, r)
      BY <1>7, <2>1
    <3>2. r[1] \in Nat /\ r[2] \in Nat
      BY DEF D, Ranges
    <3>3. CASE r[1] >= r[2]
      BY <3>1, <3>3 DEF Probe
    <3>4. CASE r[1] < r[2]
      <4>. DEFINE u == <<Mid(r) + 1, r[2]>>
                  v == <<r[1], Mid(r)>>
      <4>1. u \in D /\ v \in D /\ u[2] - u[1] <= k /\ v[2] - v[1] <= k
        <5>1. /\ Mid(r) \in Nat /\ u \in D /\ v \in D
              /\ r[2] - (Mid(r) + 1) < r[2] - r[1] /\ Mid(r) - r[1] < r[2] - r[1]
          BY <3>4, Halves DEF D
        <5>2. u[1] = Mid(r) + 1 /\ u[2] = r[2] /\ v[1] = r[1] /\ v[2] = Mid(r)
          OBVIOUS
        <5>. HIDE DEF u, v
        <5>. QED BY <2>1, <2>2, <3>2, <5>1, <5>2
      <4>2. f[k + 1][u] = f[k][u] /\ f[k + 1][v] = f[k][v]
        <5>. HIDE DEF u, v
        <5>. QED BY <1>9, <4>1
      <4>. QED BY <3>1, <4>2 DEF Probe
    <3>. QED BY <3>2, <3>3, <3>4
  <2>. QED BY <2>1, <2>2
<1>10. n \in K
  <2>. HIDE DEF K
  <2>1. 0..n \subseteq K
    BY <1>1, <1>8, <1>9, UpTo
  <2>. QED BY <1>1, <2>1
<1>11. \A r \in D : f[n + 1][r] = f[n][r]
  <2>1. \A r \in D : r[2] - r[1] <= n
    BY <1>1 DEF D, Ranges, n
  <2>. QED BY <1>10, <2>1
<1>12. f[n] = turn(f[n])
  <2>1. n \in 0..n /\ n \in 0..(n + 1) /\ n + 1 \in 0..(n + 1)
    BY <1>1
  <2>2. f[n] \in [D -> V] /\ f[n + 1] \in [D -> V]
    BY <1>5, <2>1 DEF X
  <2>3. f[n + 1] = f[n]
    BY <1>11, <2>2
  <2>. QED BY <1>6, <2>1, <2>3
<1>. QED BY <1>12 DEF Searches, turn, D

(* v is the slot of an entry of fp between lo and hi, or Blank without one. *)
Found(v, idx, fp, lo, hi) ==
    \/ \E i \in (lo + 1)..hi : idx[i].fp = fp /\ v = idx[i].slot
    \/ (\A i \in (lo + 1)..hi : idx[i].fp # fp) /\ v = Blank

(* On a sorted index the search finds an entry whenever there is one. *)
LEMMA SearchFinds ==
    ASSUME NEW idx \in Seq(IndexEntries), Ordered(idx), NEW fp \in Fps
    PROVE  Found(LookupPrefix(idx, fp), idx, fp, 0, Len(idx))
<1>. DEFINE n == Len(idx)
            D == Ranges(idx)
            g == CHOOSE f : Searches(f, idx, fp)
<1>1. Searches(g, idx, fp)
  BY SearchExists
<1>2. LookupPrefix(idx, fp) = g[<<0, n>>]
  BY DEF LookupPrefix, Searches, Probe, Mid, Ranges
<1>. HIDE DEF g
<1>3. n \in Nat /\ fp \in Nat /\ \A i \in 1..n : idx[i].fp \in Nat
  <2>1. n \in Nat /\ \A i \in 1..n : idx[i] \in IndexEntries
    OBVIOUS
  <2>. HIDE DEF n
  <2>2. fp \in Nat /\ \A e \in IndexEntries : e.fp \in Nat
    BY ContactAssumption DEF IndexEntries
  <2>. QED BY <2>1, <2>2
<1>4. \A r \in D : g[r] = Probe(g, idx, fp, r) /\ r[1] \in 0..n /\ r[2] \in 0..n
  <2>1. TAKE r \in D
  <2>2. r[1] \in 0..n /\ r[2] \in 0..n
    BY DEF Ranges
  <2>. HIDE DEF D
  <2>. QED BY <1>1, <2>2 DEF Searches, D
<1>5. \A i, j \in 1..n : i < j => idx[i].fp <= idx[j].fp
  BY DEF Ordered
<1>. DEFINE K == {k \in 0..n : \A r \in D : r[2] - r[1] <= k => Found(g[r], idx, fp, r[1], r[2])}
<1>6. ASSUME NEW r \in D, r[1] >= r[2] PROVE Found(g[r], idx, fp, r[1], r[2])
  <2>1. g[r] = Blank
    BY <1>4, <1>6 DEF Probe
  <2>2. (r[1] + 1)..r[2] = {}
    BY <1>3, <1>4, <1>6
  <2>. QED BY <2>1, <2>2 DEF Found
<1>7. 0 \in K
  <2>1. \A r \in D : r[2] - r[1] <= 0 => r[1] >= r[2]
    BY <1>3, <1>4
  <2>. HIDE DEF D, n
  <2>. QED BY <1>3, <1>6, <2>1
<1>8. ASSUME NEW k \in 0..(n - 1), k \in K PROVE k + 1 \in K
  <2>1. ASSUME NEW r \in D, r[2] - r[1] <= k + 1, r[1] < r[2]
        PROVE  Found(g[r], idx, fp, r[1], r[2])
    <3>. DEFINE m == Mid(r) + 1
                u == <<m, r[2]>>
                v == <<r[1], Mid(r)>>
    <3>1. /\ m \in 1..n /\ r[1] < m /\ m <= r[2] /\ Mid(r) = m - 1
          /\ u \in D /\ v \in D /\ r[2] - m <= k /\ Mid(r) - r[1] <= k
      <4>1. /\ Mid(r) \in Nat /\ r[1] <= Mid(r) /\ Mid(r) < r[2] /\ Mid(r) + 1 \in 1..n
            /\ u \in D /\ v \in D
            /\ r[2] - (Mid(r) + 1) < r[2] - r[1] /\ Mid(r) - r[1] < r[2] - r[1]
        BY <2>1, Halves
      <4>2. r[1] \in Nat /\ r[2] \in Nat /\ k \in Nat
        BY <1>3, <1>4
      <4>. HIDE DEF u, v, D
      <4>. QED BY <2>1, <4>1, <4>2
    <3>2. /\ g[r] = IF idx[m].fp < fp THEN g[u] ELSE IF idx[m].fp > fp THEN g[v] ELSE idx[m].slot
          /\ r[1] \in 0..n /\ r[2] \in 0..n
      <4>1. g[r] = Probe(g, idx, fp, r) /\ r[1] \in 0..n /\ r[2] \in 0..n
        BY <1>4
      <4>2. ~(r[1] >= r[2])
        BY <2>1, <4>1
      <4>. QED BY <4>1, <4>2 DEF Probe
    <3>3. Found(g[u], idx, fp, m, r[2]) /\ Found(g[v], idx, fp, r[1], m - 1)
      <4>1. u[1] = m /\ u[2] = r[2] /\ v[1] = r[1] /\ v[2] = m - 1
        BY <3>1
      <4>. HIDE DEF m, u, v, D, n
      <4>2. u[2] - u[1] <= k /\ v[2] - v[1] <= k
        BY <3>1, <4>1
      <4>. QED BY <1>8, <3>1, <4>1, <4>2
    <3>. HIDE DEF m, u, v, D, n
    <3>4. CASE idx[m].fp < fp
      <4>1. ASSUME NEW i \in (r[1] + 1)..r[2], i \notin (m + 1)..r[2] PROVE idx[i].fp # fp
        <5>1. i \in 1..n /\ (i < m \/ i = m)
          BY <1>3, <3>1, <3>2, <4>1
        <5>2. idx[i].fp <= idx[m].fp
          BY <1>3, <1>5, <3>1, <5>1
        <5>. QED BY <1>3, <3>1, <3>4, <5>1, <5>2
      <4>2. (m + 1)..r[2] \subseteq (r[1] + 1)..r[2]
        BY <3>1, <3>2
      <4>3. g[r] = g[u]
        BY <3>2, <3>4
      <4>. QED BY <3>3, <4>1, <4>2, <4>3 DEF Found
    <3>5. CASE idx[m].fp > fp
      <4>1. ASSUME NEW i \in (r[1] + 1)..r[2], i \notin (r[1] + 1)..(m - 1) PROVE idx[i].fp # fp
        <5>1. i \in 1..n /\ (m < i \/ i = m)
          BY <1>3, <3>1, <3>2, <4>1
        <5>2. idx[m].fp <= idx[i].fp
          BY <1>3, <1>5, <3>1, <5>1
        <5>. QED BY <1>3, <3>1, <3>5, <5>1, <5>2
      <4>2. (r[1] + 1)..(m - 1) \subseteq (r[1] + 1)..r[2]
        BY <3>1, <3>2
      <4>3. g[r] = g[v]
        BY <1>3, <3>1, <3>2, <3>5
      <4>. QED BY <3>3, <4>1, <4>2, <4>3 DEF Found
    <3>6. CASE idx[m].fp = fp
      <4>1. m \in (r[1] + 1)..r[2]
        BY <3>1, <3>2
      <4>2. g[r] = idx[m].slot
        BY <1>3, <3>2, <3>6
      <4>. QED BY <3>6, <4>1, <4>2 DEF Found
    <3>. QED BY <1>3, <3>1, <3>4, <3>5, <3>6
  <2>2. \A r \in D : r[1] >= r[2] \/ r[1] < r[2]
    BY <1>3, <1>4
  <2>3. k + 1 \in 0..n
    BY <1>3
  <2>. HIDE DEF D, n
  <2>. QED BY <1>6, <2>1, <2>2, <2>3
<1>9. n \in K
  <2>. HIDE DEF K
  <2>1. 0..n \subseteq K
    BY <1>3, <1>7, <1>8, UpTo
  <2>. QED BY <1>3, <2>1
<1>10. <<0, n>> \in D /\ <<0, n>>[1] = 0 /\ <<0, n>>[2] = n /\ n - 0 <= n
  BY <1>3 DEF Ranges
<1>. HIDE DEF D
<1>11. Found(g[<<0, n>>], idx, fp, 0, n)
  <2>. DEFINE r == <<0, n>>
  <2>1. r \in D /\ r[1] = 0 /\ r[2] = n /\ r[2] - r[1] <= n
    BY <1>3, <1>10
  <2>. HIDE DEF r
  <2>2. Found(g[r], idx, fp, r[1], r[2])
    BY <1>9, <2>1
  <2>. QED BY <2>1, <2>2 DEF r
<1>. QED BY <1>2, <1>11

(* The index of an open store lists its records.  A command that is under way  *)
(* will write a new record into an empty slot, the changed record of the same  *)
(* contact, or an empty slot, which is what its change of the index is for.    *)
IndexInv ==
    /\ gate \in BOOLEAN /\ bricked \in BOOLEAN /\ at \in LogIdx
    /\ index \in Seq(IndexEntries)
    /\ gate \/ pc \in {"provDigest", "provCount", "provMark"} => GoodIndex(index, Slot, rec)
    /\ pc \in {"alloc", "write"} =>
          /\ job.op = "insert" => rec[job.slot] = Blank /\ job.draft # Blank
          /\ job.op = "update" => /\ rec[job.slot] # Blank /\ job.draft # Blank
                                  /\ job.draft.fp = rec[job.slot].fp
          /\ job.op = "delete" => job.draft = Blank

(* Steps that change neither the records nor the index and start no command. *)
LEMMA QuietIndex ==
    ASSUME IndexInv, UNCHANGED <<rec, index>>,
           gate' \in BOOLEAN, bricked' \in BOOLEAN, at' \in LogIdx,
           gate' => gate \/ pc \in {"provDigest", "provCount", "provMark"},
           pc' \notin {"alloc", "write"},
           pc' \in {"provDigest", "provCount", "provMark"} =>
               pc \in {"provDigest", "provCount", "provMark"}
    PROVE  IndexInv'
BY DEF IndexInv, GoodIndex, Shows

(* Without records the empty index is the right one. *)
LEMMA EmptyIndex ==
    ASSUME NEW R, \A s \in Slot : R[s] = Blank
    PROVE  <<>> \in Seq(IndexEntries) /\ GoodIndex(<<>>, Slot, R)
<1>. DEFINE e == <<>>
<1>1. e \in Seq(IndexEntries) /\ Len(e) = 0 /\ 1..0 = {}
  OBVIOUS
<1>. HIDE DEF e
<1>2. GoodIndex(e, Slot, R)
  BY <1>1 DEF GoodIndex, Ordered, Distinct, Shows
<1>. QED BY <1>1, <1>2 DEF e

(* insert picks an empty slot; update reads the record it will write back. *)
LEMMA CallIndex ==
    ASSUME LiveInv, IndexInv,
           \/ \E own \in BOOLEAN, fp \in Fps, fields \in SUBSET Field, text \in Texts,
                 ok \in WriteOk : Insert(own, fp, fields, text, ok)
           \/ \E s \in Slot, fields \in SUBSET Field, text \in Texts : Update(s, fields, text)
           \/ \E s \in Slot : Delete(s)
    PROVE  IndexInv'
<1>1. gate /\ UNCHANGED <<rec, index, gate, bricked, at>>
  BY DEF Insert, Update, Delete, Ready, rram, ram
<1>2. /\ gate' \in BOOLEAN /\ bricked' \in BOOLEAN /\ at' \in LogIdx
      /\ index' \in Seq(IndexEntries) /\ GoodIndex(index', Slot, rec')
  BY <1>1 DEF IndexInv
<1>3. ASSUME NEW own \in BOOLEAN, NEW fp \in Fps, NEW fields \in SUBSET Field,
             NEW text \in Texts, NEW ok \in WriteOk, Insert(own, fp, fields, text, ok)
      PROVE  IndexInv'
  <2>. DEFINE free == {s \in Slot : ~Active(s) /\ (s < OwnCount) = own}
              d == [fp |-> fp, key |-> keyBump, ref |-> [f \in Field |-> Blank],
                    text |-> [f \in Field |-> Blank]]
  <2>1. /\ free # {} /\ keyBump < KeySize
        /\ job' = [op |-> "insert", slot |-> Min(free), todo |-> Todo(fields, text), draft |-> d]
    BY <1>3 DEF Insert
  <2>2. free \subseteq Nat
    BY Sizes DEF Slot
  <2>3. Min(free) \in free
    BY <2>1, <2>2, MinOf
  <2>4. rec[Min(free)] = Blank
    <3>. DEFINE m == Min(free)
    <3>1. m \in free
      BY <2>3
    <3>. HIDE DEF m
    <3>2. rec[m] = Blank
      BY <3>1 DEF Active
    <3>. QED BY <3>2 DEF m
  <2>5. d # Blank
    <3>1. keyBump \in 0..(KeySize - 1)
      BY <2>1, Sizes DEF LiveInv, RegionInv
    <3>2. d \in Contact
      BY <3>1 DEF Contact
    <3>. QED BY <3>2, Sizes
  <2>. HIDE DEF free, d
  <2>6. job'.op = "insert" /\ rec'[job'.slot] = Blank /\ job'.draft # Blank
    BY <1>1, <2>1, <2>4, <2>5
  <2>. QED BY <1>2, <2>6 DEF IndexInv
<1>4. ASSUME NEW s \in Slot, NEW fields \in SUBSET Field, NEW text \in Texts,
             Update(s, fields, text)
      PROVE  IndexInv'
  <2>1. job'.op = "update" /\ job'.slot = s /\ job'.draft = rec[s] /\ rec[s] # Blank
    BY <1>4 DEF Update, Active
  <2>. QED BY <1>1, <1>2, <2>1 DEF IndexInv
<1>5. ASSUME NEW s \in Slot, Delete(s) PROVE IndexInv'
  <2>1. job'.op = "delete" /\ job'.draft = Blank
    BY <1>5 DEF Delete
  <2>. QED BY <1>2, <2>1 DEF IndexInv
<1>. QED BY <1>3, <1>4, <1>5

(* Setting a string field changes neither the kind, the slot nor the contact    *)
(* of the command.                                                              *)
LEMMA AllocIndex ==
    ASSUME IInv, LiveInv, IndexInv, NEW ok \in WriteOk, AllocString(ok)
    PROVE  IndexInv'
<1>1. CASE ~(ok /\ heapBump < HeapSize)
  BY <1>1, QuietIndex DEF AllocString, AllocWith, Done, IndexInv
<1>2. CASE ok /\ heapBump < HeapSize
  <2>. DEFINE next == Head(job.todo)
              d == [job.draft EXCEPT !.ref[next.field] = heapBump,
                                     !.text[next.field] = next.text]
  <2>1. /\ pc = "alloc" /\ gate
        /\ job' = [job EXCEPT !.todo = Tail(@), !.draft.ref[next.field] = heapBump,
                              !.draft.text[next.field] = next.text]
        /\ UNCHANGED <<rec, index, gate, bricked, at>>
    BY <1>2 DEF AllocString, AllocWith, IInv, ProvisionInv
  <2>2. job \in Edit /\ job.draft \in Contact /\ job.draft # Blank
    BY <2>1 DEF LiveInv, Edit
  <2>. HIDE DEF next
  <2>3. job' = [job EXCEPT !.todo = Tail(job.todo), !.draft = d]
    BY <2>1, <2>2 DEF Edit, Contact
  <2>4. d.fp = job.draft.fp
    BY <2>2 DEF Contact
  <2>5. LiveInv'
    BY AllocLive
  <2>. HIDE DEF d
  <2>6. job'.op = job.op /\ job'.slot = job.slot /\ job'.draft = d
    BY <2>2, <2>3 DEF Edit
  <2>7. CASE pc' = "alloc"
    <3>1. job'.draft # Blank
      BY <2>5, <2>7 DEF LiveInv
    <3>. QED BY <2>1, <2>2, <2>4, <2>6, <3>1 DEF IndexInv, GoodIndex, Shows
  <2>8. CASE pc' # "alloc"
    <3>1. d # Blank
      <4>1. next \in [field : Field, text : Texts] /\ heapBump \in 0..(HeapSize - 1)
        <5>. DEFINE T == [field : Field, text : Texts]
        <5>1. job.todo \in Seq(T) /\ job.todo # <<>>
          BY <2>1, <2>2 DEF LiveInv, Edit
        <5>2. ASSUME NEW q \in Seq(T), q # <<>> PROVE Head(q) \in T
          <6>. HIDE DEF T
          <6>. QED BY <5>2
        <5>3. heapBump \in 0..(HeapSize - 1)
          BY <1>2, Sizes DEF LiveInv, RegionInv
        <5>. QED BY <5>1, <5>2, <5>3 DEF next
      <4>2. d \in Contact
        BY <2>2, <4>1 DEF Contact, d
      <4>. QED BY <4>2, Sizes
    <3>. QED BY <2>1, <2>2, <2>4, <2>6, <3>1 DEF IndexInv, GoodIndex, Shows
  <2>. QED BY <2>7, <2>8
<1>. QED BY <1>1, <1>2

(* write_record and the change of the index belong together. *)
LEMMA WriteIndex ==
    ASSUME IInv, LiveInv, IndexInv, NEW ok \in WriteOk, WriteRecord(ok)
    PROVE  IndexInv'
<1>1. CASE ~ok
  BY <1>1, QuietIndex DEF WriteRecord, Done, IndexInv
<1>2. CASE ok
  <2>1. /\ pc = "write" /\ gate /\ pc' = "digest"
        /\ rec' = [rec EXCEPT ![job.slot] = job.draft]
        /\ index' = CASE job.op = "insert" -> IndexInsert(index, job.draft.fp, job.slot)
                      [] job.op = "delete" -> IndexRemove(index, job.slot)
                      [] OTHER -> index
        /\ UNCHANGED <<gate, bricked, at>>
    BY <1>2 DEF WriteRecord, IInv, ProvisionInv
  <2>2. /\ job.slot \in Slot /\ job.draft \in Contact \cup {Blank}
        /\ job.op \in {"insert", "update", "delete"}
        /\ rec \in [Slot -> Contact \cup {Blank}]
    BY <2>1 DEF LiveInv, RegionInv, Edit
  <2>3. rec'[job.slot] = job.draft /\ \A t \in Slot : t # job.slot => rec'[t] = rec[t]
    BY <2>1, <2>2
  <2>4. GoodIndex(index, Slot, rec) /\ index \in Seq(IndexEntries)
    BY <2>1 DEF IndexInv
  <2>5. GoodIndex(index', Slot, rec')
    <3>1. CASE job.op = "insert"
      <4>1. rec[job.slot] = Blank /\ job.draft # Blank
        BY <2>1, <3>1 DEF IndexInv
      <4>2. job.draft.fp \in Fps
        BY <2>2, <4>1 DEF Contact
      <4>3. \A i \in 1..Len(index) : index[i].slot # job.slot
        BY <2>4, <4>1 DEF GoodIndex, Shows
      <4>4. GoodIndex(IndexInsert(index, job.draft.fp, job.slot), Slot \cup {job.slot}, rec')
        <5>1. Slot \in SUBSET Slot /\ rec'[job.slot] # Blank /\ rec'[job.slot].fp = job.draft.fp
          BY <2>3, <4>1
        <5>. QED BY <2>2, <2>3, <2>4, <4>2, <4>3, <5>1, InsertGood
      <4>5. Slot \cup {job.slot} = Slot
        BY <2>2
      <4>. QED BY <2>1, <3>1, <4>4, <4>5
    <3>2. CASE job.op = "delete"
      <4>1. job.draft = Blank
        BY <2>1, <3>2 DEF IndexInv
      <4>2. GoodIndex(IndexRemove(index, job.slot), Slot, rec')
        BY <2>2, <2>3, <2>4, <4>1, RemoveGood
      <4>. QED BY <2>1, <3>2, <4>2
    <3>3. CASE job.op = "update"
      <4>1. rec[job.slot] # Blank /\ job.draft # Blank /\ job.draft.fp = rec[job.slot].fp
        BY <2>1, <3>3 DEF IndexInv
      <4>2. index' = index
        BY <2>1, <3>3
      <4>3. \A t \in Slot : (rec'[t] # Blank <=> rec[t] # Blank) /\ (rec[t] # Blank => rec'[t].fp = rec[t].fp)
        BY <2>3, <4>1
      <4>4. GoodIndex(index, Slot, rec')
        BY <2>4, <4>3 DEF GoodIndex, Shows
      <4>. QED BY <4>2, <4>4
    <3>. QED BY <2>2, <3>1, <3>2, <3>3
  <2>6. index' \in Seq(IndexEntries)
    BY <2>5 DEF GoodIndex
  <2>. QED BY <2>1, <2>5, <2>6 DEF IndexInv
<1>. QED BY <1>1, <1>2

(* Every step keeps the index of an open store in step with its records. *)
LEMMA IndexStep == ASSUME IInv, LiveInv, IndexInv, [Next]_vars PROVE IndexInv'
<1>0. IndexInv => gate \in BOOLEAN /\ bricked \in BOOLEAN /\ at \in LogIdx /\ 0 \in LogIdx
  BY LogCapacity DEF IndexInv, LogIdx
<1>1. CASE UNCHANGED vars
  BY <1>1 DEF vars, rram, ram, IndexInv, GoodIndex, Shows
<1>2. CASE PowerCycle
  <2>1. index' = <<>> /\ ~gate' /\ pc' = "idle" /\ bricked' = FALSE /\ gate' = FALSE /\ at' = 0
    BY <1>2 DEF PowerCycle
  <2>2. <<>> \in Seq(IndexEntries)
    OBVIOUS
  <2>. QED BY <1>0, <2>1, <2>2 DEF IndexInv
<1>3. CASE InitOnBoot
  <2>1. /\ index' = IndexRebuild /\ pc' = "idle" /\ UNCHANGED <<rec, bricked, at>>
        /\ gate' = Matches
    BY <1>3 DEF InitOnBoot, rram
  <2>2. gate' \in BOOLEAN
    BY <2>1 DEF Matches
  <2>3. GoodIndex(IndexRebuild, Slot, rec)
    BY RebuildGood DEF LiveInv, RegionInv
  <2>4. IndexRebuild \in Seq(IndexEntries)
    BY <2>3 DEF GoodIndex
  <2>5. index' \in Seq(IndexEntries) /\ GoodIndex(index', Slot, rec')
    BY <2>1, <2>3, <2>4
  <2>. QED BY <1>0, <2>1, <2>2, <2>5 DEF IndexInv
<1>4. CASE Provision
  <2>1. CASE ProvisionFresh
    BY <1>0, <2>1, QuietIndex DEF ProvisionFresh, rram, ram
  <2>2. ASSUME NEW ok \in WriteOk,
               ProvisionDigest(ok) \/ ProvisionCount(ok) \/ ProvisionMark(ok)
        PROVE  IndexInv'
    BY <1>0, <2>2, QuietIndex DEF ProvisionDigest, ProvisionCount, ProvisionMark, ram
  <2>3. ASSUME NEW ok \in WriteOk, ProvisionZero(ok) PROVE IndexInv'
    <3>1. CASE ~ok
      BY <1>0, <2>3, <3>1, QuietIndex DEF ProvisionZero
    <3>2. CASE ok
      <4>1. /\ index' = <<>> /\ pc' = "provDigest" /\ \A s \in Slot : rec'[s] = Blank
            /\ UNCHANGED <<gate, bricked, at>>
        BY <2>3, <3>2 DEF ProvisionZero
      <4>2. index' \in Seq(IndexEntries) /\ GoodIndex(index', Slot, rec')
        BY <4>1, EmptyIndex
      <4>. QED BY <1>0, <4>1, <4>2 DEF IndexInv
    <3>. QED BY <3>1, <3>2
  <2>. QED BY <1>4, <2>1, <2>2, <2>3 DEF Provision
<1>5. CASE Call
  <2>1. ASSUME NEW ok \in WriteOk, LogAppend(ok) PROVE IndexInv'
    BY <1>0, <2>1, QuietIndex DEF LogAppend, Ready, ram
  <2>2. ASSUME NEW s \in Slot, NEW right \in BOOLEAN, NEW ok \in WriteOk, Unlock(s, right, ok)
        PROVE  IndexInv'
    <3>1. /\ pc' \in {"idle", "unlock"} /\ UNCHANGED <<rec, index, gate, at>>
          /\ bricked' \in {TRUE, bricked}
      BY <2>2 DEF Unlock, Ready
    <3>2. bricked' \in BOOLEAN
      BY <1>0, <3>1
    <3>. QED BY <1>0, <3>1, <3>2, QuietIndex
  <2>. QED BY <1>5, <2>1, <2>2, CallIndex DEF Call
<1>6. CASE Continue
  <2>1. ASSUME NEW ok \in WriteOk, UpdateIntegrity(ok) \/ LogWrite(ok) \/ Settle(ok)
        PROVE  IndexInv'
    BY <1>0, <2>1, QuietIndex DEF UpdateIntegrity, LogWrite, Settle, SettleWith, Done, ram
  <2>2. ASSUME NEW ok \in WriteOk, LogClear(ok) PROVE IndexInv'
    <3>1. at' \in LogIdx
      BY <1>0, <2>2, LogCapacity DEF LogClear, LogIdx
    <3>. QED BY <1>0, <2>2, <3>1, QuietIndex DEF LogClear, Done
  <2>. QED BY <1>6, <2>1, <2>2, AllocIndex, WriteIndex DEF Continue
<1>. QED BY <1>1, <1>2, <1>3, <1>4, <1>5, <1>6 DEF Next, Boot

(* The counters, the regions and the index together. *)
THEOREM StoreIndexInvariance == Spec => [](IInv /\ LiveInv /\ IndexInv)
<1>1. Init => LiveInv
  BY Sizes DEF Init, LiveInv, RegionInv, HeapIdx, KeyIdx
<1>2. Init => IndexInv
  <2>. SUFFICES ASSUME Init PROVE IndexInv
    OBVIOUS
  <2>1. <<>> \in Seq(IndexEntries) /\ 0 \in LogIdx
    BY LogCapacity DEF LogIdx
  <2>2. gate = FALSE /\ bricked = FALSE /\ at = 0 /\ index = <<>> /\ pc = "idle"
    BY DEF Init
  <2>. QED BY <2>1, <2>2 DEF IndexInv
<1>3. IInv /\ LiveInv /\ IndexInv /\ [Next]_vars => LiveInv' /\ IndexInv'
  BY LiveStep, IndexStep
<1>. QED BY <1>1, <1>2, <1>3, StoreInvariance, PTL DEF Spec

(* Every variable of the contact store keeps its type: the bump pointers stay   *)
(* in their regions, the log within MAX_ENTRIES, and the index lists slots.     *)
THEOREM StoreTypeCorrect == Spec => []StoreTypeOK
<1>1. IInv /\ LiveInv /\ IndexInv => StoreTypeOK
  BY DEF IInv, CounterInv, LiveInv, RegionInv, IndexInv, IndexEntries, StoreTypeOK,
         LogIdx, HeapIdx, KeyIdx
<1>. QED BY <1>1, StoreIndexInvariance, PTL

(* lookup_by_fingerprint on an open store finds a contact exactly when a record *)
(* holds its fingerprint, for any number of slots and duplicates: the index     *)
(* stays sorted and complete through insert, delete, rebuild, power cuts and    *)
(* failed writes, and on such an index the binary search is right.              *)
THEOREM LookupIsComplete == Spec => []LookupComplete
<1>1. ASSUME LiveInv, IndexInv PROVE LookupComplete
  <2>. SUFFICES ASSUME gate, NEW fp \in Fps
                PROVE  IF \E t \in ActiveSlots : rec[t].fp = fp
                       THEN /\ LookupPrefix(index, fp) \in ActiveSlots
                            /\ rec[LookupPrefix(index, fp)].fp = fp
                       ELSE LookupPrefix(index, fp) = Blank
    BY DEF LookupComplete
  <2>. DEFINE v == LookupPrefix(index, fp)
  <2>1. index \in Seq(IndexEntries) /\ Ordered(index) /\ Shows(index, Slot, rec)
    BY <1>1 DEF IndexInv, GoodIndex
  <2>2. Found(v, index, fp, 0, Len(index))
    BY <2>1, SearchFinds
  <2>. HIDE DEF v
  <2>3. /\ Len(index) \in Nat /\ 0 + 1 = 1
        /\ \A i \in 1..Len(index) : /\ index[i].slot \in ActiveSlots
                                    /\ rec[index[i].slot].fp = index[i].fp
        /\ \A s \in ActiveSlots : \E i \in 1..Len(index) : index[i].slot = s
    BY <2>1 DEF Shows, ActiveSlots, Active
  <2>4. CASE \E i \in 1..Len(index) : index[i].fp = fp /\ v = index[i].slot
    <3>1. v \in ActiveSlots /\ rec[v].fp = fp
      BY <2>3, <2>4
    <3>. QED BY <3>1 DEF v
  <2>5. CASE (\A i \in 1..Len(index) : index[i].fp # fp) /\ v = Blank
    <3>1. \A t \in ActiveSlots : rec[t].fp # fp
      BY <2>3, <2>5
    <3>. QED BY <2>5, <3>1 DEF v
  <2>. QED BY <2>2, <2>3, <2>4, <2>5 DEF Found
<1>. QED BY <1>1, StoreIndexInvariance, PTL
=============================================================================
