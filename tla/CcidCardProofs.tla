--------------------------- MODULE CcidCardProofs ---------------------------
(***************************************************************************)
(* What the card promises a host over CCID, for every set of commands, any *)
(* size of the DO region and any number of enumerations and power cuts:    *)
(* objects read as last written, keys reload, no command runs under the    *)
(* VERIFY of an earlier enumeration, chained answers continue, and each    *)
(* answer is the answer of its command.                                    *)
(***************************************************************************)
EXTENDS CcidCard, WellFoundedInduction, SequenceTheorems, TLAPS

-----------------------------------------------------------------------------
(* The DO region and the keys. *)

Tags   == {"00", "C1", "C2", "C3", "C4", "93"} \cup {c.arg : c \in Commands}
Values == {None, "ecdsa", "ecdh", "status"} \cup Nat \cup {c.val : c \in Commands}
Slot   == [tag : Tags, val : Values]

(* The first slot with a tag holds what was last written under it. *)
Kept ==
    \A t \in DOMAIN wrote \ {"00"} : \E i \in 1..SlotCount :
        /\ slots[i].tag = t /\ slots[i].val = wrote[t]
        /\ \A j \in 1..(i - 1) : slots[j].tag # t

RegionInv ==
    /\ header \in BOOLEAN /\ slots \in [1..SlotCount -> Slot] /\ sigCounter \in Nat
    /\ boot \in 1..8
    /\ boot >= 2 => header
    /\ ~header => DOMAIN wrote = {}
    /\ Kept

KeysInv ==
    /\ DOMAIN blob = KeySlot /\ DOMAIN keyRam = KeySlot /\ fit \subseteq KeySlot
    /\ \A s \in KeySlot : blob[s] # None => Form(s, blob[s].alg) # None
    /\ KeysReload

ObjInv == RegionInv /\ KeysInv

(* The first slot with a tag, 0 when there is none. *)
At(t) == SelectInSeq(slots, LAMBDA s : s.tag = t)

(* A set of numbers has a least one. *)
LEMMA LeastNumber ==
    ASSUME NEW S, S \subseteq Nat, S # {}
    PROVE  Min(S) \in S /\ \A y \in S : Min(S) <= y
<1>. DEFINE R == OpToRel(<, Nat)
<1>1. IsWellFoundedOn(R, Nat)
  BY NatLessThanWellFounded
<1>2. \A x, y \in Nat : y < x => <<y, x>> \in R
  BY DEF OpToRel
<1>. HIDE DEF R
<1>3. PICK x \in S : \A y \in S : ~ (<<y, x>> \in R)
  BY <1>1, WFMin
<1>4. \A y \in S : x <= y
  <2>1. \A y \in S : ~ (y < x)
    BY <1>2, <1>3
  <2>. QED BY <2>1
<1>. QED BY <1>4 DEF Min

(* The region is a sequence of SlotCount slots. *)
LEMMA RegionLen ==
    ASSUME slots \in [1..SlotCount -> Slot]
    PROVE  Len(slots) = SlotCount
<1>1. slots \in Seq(Slot)
  BY ObjectsAssumption, SeqDef
<1>. QED BY <1>1, ObjectsAssumption

(* At finds the first slot with the tag. *)
LEMMA AtFirst ==
    ASSUME slots \in [1..SlotCount -> Slot], NEW t
    PROVE  /\ At(t) \in 0..SlotCount
           /\ At(t) # 0 => /\ slots[At(t)].tag = t
                           /\ \A j \in 1..(At(t) - 1) : slots[j].tag # t
           /\ At(t) = 0 => \A j \in 1..SlotCount : slots[j].tag # t
<1>. DEFINE I == {i \in 1..SlotCount : slots[i].tag = t}
<1>1. At(t) = IF I # {} THEN Min(I) ELSE 0
  BY RegionLen DEF At, SelectInSeq
<1>2. CASE I = {}
  BY <1>1, <1>2, ObjectsAssumption
<1>3. CASE I # {}
  <2>1. Min(I) \in I /\ \A y \in I : Min(I) <= y
    <3>1. I \subseteq Nat
      OBVIOUS
    <3>. HIDE DEF I
    <3>. QED BY <3>1, <1>3, LeastNumber
  <2>2. At(t) \in I /\ \A y \in I : At(t) <= y
    BY <1>1, <1>3, <2>1
  <2>. QED BY <2>2, ObjectsAssumption
<1>. QED BY <1>2, <1>3

(* The slot of a kept object is the one At finds. *)
LEMMA AtIs ==
    ASSUME slots \in [1..SlotCount -> Slot], NEW t, NEW i \in 1..SlotCount,
           slots[i].tag = t, \A j \in 1..(i - 1) : slots[j].tag # t
    PROVE  At(t) = i
<1>1. At(t) # 0
  BY AtFirst
<1>2. At(t) \in 1..SlotCount /\ slots[At(t)].tag = t /\ \A j \in 1..(At(t) - 1) : slots[j].tag # t
  BY <1>1, AtFirst, ObjectsAssumption
<1>. QED BY <1>2, ObjectsAssumption

(* Kept is what ReadsLastWritten needs. *)
LEMMA KeptReads == ASSUME RegionInv PROVE ReadsLastWritten
<1>1. ASSUME NEW t \in DOMAIN wrote \ {"00"} PROVE Read(t) = wrote[t]
  <2>1. PICK i \in 1..SlotCount : /\ slots[i].tag = t /\ slots[i].val = wrote[t]
                                  /\ \A j \in 1..(i - 1) : slots[j].tag # t
    BY DEF RegionInv, Kept
  <2>2. header /\ slots \in [1..SlotCount -> Slot]
    BY DEF RegionInv
  <2>3. At(t) = i
    BY <2>1, <2>2, AtIs
  <2>4. Read(t) = IF ~header \/ At(t) = 0 THEN None ELSE slots[At(t)].val
    BY DEF Read, At
  <2>. QED BY <2>1, <2>2, <2>3, <2>4
<1>. QED BY <1>1 DEF ReadsLastWritten

(* DoStore::write keeps every other object and puts the new value first. *)
LEMMA StoreKeeps ==
    ASSUME RegionInv, header, NEW t \in Tags, NEW v \in Values, Store(t, v)
    PROVE  /\ slots' \in [1..SlotCount -> Slot] /\ Kept' /\ header'
<1>. DEFINE p == Place(t)
<1>1. p = IF At(t) # 0 THEN At(t) ELSE At("00")
  BY DEF Place, At
<1>2. slots \in [1..SlotCount -> Slot]
  BY DEF RegionInv
<1>3. p # 0 /\ slots' = [slots EXCEPT ![p] = [tag |-> t, val |-> v]] /\ header'
  BY DEF Store
<1>. HIDE DEF p
<1>4. p \in 1..SlotCount /\ slots[p].tag \in {t, "00"} /\ \A j \in 1..(p - 1) : slots[j].tag # t
  <2>1. CASE At(t) # 0
    BY <1>1, <1>2, <2>1, AtFirst, ObjectsAssumption
  <2>2. CASE At(t) = 0
    <3>1. p = At("00") /\ \A j \in 1..SlotCount : slots[j].tag # t
      BY <1>1, <1>2, <2>2, AtFirst
    <3>2. p \in 1..SlotCount /\ slots[p].tag = "00"
      BY <1>2, <1>3, <3>1, AtFirst, ObjectsAssumption
    <3>. QED BY <3>1, <3>2, ObjectsAssumption
  <2>. QED BY <2>1, <2>2
<1>5. slots' \in [1..SlotCount -> Slot]
  BY <1>2, <1>3, <1>4 DEF Slot
<1>6. DOMAIN wrote' = {t} \cup DOMAIN wrote /\ wrote'[t] = v
      /\ \A u \in DOMAIN wrote : u # t => wrote'[u] = wrote[u]
  BY DEF Store
<1>7. ASSUME NEW u \in DOMAIN wrote' \ {"00"}
      PROVE  \E i \in 1..SlotCount : /\ slots'[i].tag = u /\ slots'[i].val = wrote'[u]
                                     /\ \A j \in 1..(i - 1) : slots'[j].tag # u
  <2>1. CASE u = t
    <3>1. slots'[p].tag = t /\ slots'[p].val = v
      BY <1>2, <1>3, <1>4
    <3>2. \A j \in 1..(p - 1) : slots'[j].tag # t
      BY <1>2, <1>3, <1>4
    <3>. QED BY <1>4, <1>6, <2>1, <3>1, <3>2
  <2>2. CASE u # t
    <3>1. PICK i \in 1..SlotCount : /\ slots[i].tag = u /\ slots[i].val = wrote[u]
                                    /\ \A j \in 1..(i - 1) : slots[j].tag # u
      BY <1>6, <2>2 DEF RegionInv, Kept
    <3>2. i # p /\ slots'[i] = slots[i]
      BY <1>2, <1>3, <1>4, <2>2, <3>1
    <3>3. \A j \in 1..(i - 1) : slots'[j].tag # u
      BY <1>2, <1>3, <1>4, <2>2, <3>1, ObjectsAssumption
    <3>. QED BY <1>6, <2>2, <3>1, <3>2, <3>3
  <2>. QED BY <2>1, <2>2
<1>. QED BY <1>3, <1>5, <1>7 DEF Kept

(* The objects seeded at first boot, by position. *)
LEMMA DefaultsAre ==
    /\ Len(Defaults) = 5
    /\ \A i \in 1..5 : Defaults[i][1] \in Tags \ {"00"} /\ Defaults[i][2] \in Values
    /\ \A i, j \in 1..5 : i # j => Defaults[i][1] # Defaults[j][1]
    /\ Range(Defaults) = {Defaults[i] : i \in 1..5}
<1>1. /\ Defaults[1] = <<"C1", "ecdsa">> /\ Defaults[2] = <<"C2", "ecdh">>
      /\ Defaults[3] = <<"C3", "ecdsa">> /\ Defaults[4] = <<"C4", "status">>
      /\ Defaults[5] = <<"93", 0>>
  BY DEF Defaults
<1>2. Len(Defaults) = 5 /\ DOMAIN Defaults = 1..5
  BY DEF Defaults
<1>3. Range(Defaults) = {Defaults[i] : i \in 1..5}
  BY <1>2 DEF Range
<1>4. \A i \in 1..5 : i = 1 \/ i = 2 \/ i = 3 \/ i = 4 \/ i = 5
  OBVIOUS
<1>5. \A i \in 1..5 : Defaults[i][1] \in Tags \ {"00"} /\ Defaults[i][2] \in Values
  BY <1>1, <1>4 DEF Tags, Values
<1>6. \A i, j \in 1..5 : i # j => Defaults[i][1] # Defaults[j][1]
  BY <1>1, <1>4
<1>. QED BY <1>2, <1>3, <1>5, <1>6

(* A card of the factory, and one in use. *)
LEMMA ObjectsStart == ASSUME Init PROVE ObjInv
<1>1. KeysInv
  <2>1. boot = 1 /\ fit = {} /\ keyRam = NoKeys /\ DOMAIN keyRam = KeySlot
    BY DEF Init, ObjectsInit, NoKeys
  <2>2. DOMAIN blob = KeySlot /\ \A s \in KeySlot : blob[s] # None => Form(s, blob[s].alg) # None
    <3>1. CASE blob = NoKeys
      BY <3>1 DEF NoKeys
    <3>2. CASE \E k : blob = [s \in KeySlot |-> [key |-> k, alg |-> IF s = "DEC" THEN "ecdh" ELSE "ecdsa"]]
      <4>1. DOMAIN blob = KeySlot
            /\ \A s \in KeySlot : blob[s].alg = IF s = "DEC" THEN "ecdh" ELSE "ecdsa"
        BY <3>2
      <4>2. \A s \in KeySlot : Form(s, blob[s].alg) = "Brainpool"
        BY <4>1 DEF Form
      <4>3. "Brainpool" # None
        BY ObjectsAssumption
      <4>. QED BY <4>1, <4>2, <4>3
    <3>. QED BY <3>1, <3>2 DEF Init, ObjectsInit
  <2>. QED BY <2>1, <2>2 DEF KeysInv, KeysReload
<1>2. boot = 1 /\ sigCounter = 0
  BY DEF Init, ObjectsInit
<1>3. CASE header = FALSE /\ slots = EmptySlots /\ wrote = <<>>
  <2>1. slots \in [1..SlotCount -> Slot]
    BY <1>3 DEF EmptySlots, EmptySlot, Slot, Tags, Values
  <2>2. DOMAIN wrote = {} /\ Kept
    <3>1. DOMAIN wrote = {}
      BY <1>3
    <3>. QED BY <3>1 DEF Kept
  <2>3. header \in BOOLEAN /\ ~header
    BY <1>3
  <2>. QED BY <1>1, <1>2, <2>1, <2>2, <2>3 DEF ObjInv, RegionInv
<1>4. CASE /\ header = TRUE
           /\ slots = [i \in 1..SlotCount |->
                        IF i <= Len(Defaults) THEN [tag |-> Defaults[i][1], val |-> Defaults[i][2]]
                                              ELSE EmptySlot]
           /\ wrote = [t \in {d[1] : d \in Range(Defaults)} |->
                        (CHOOSE d \in Range(Defaults) : d[1] = t)[2]]
  <2>1. \A i \in 1..5 : i \in 1..SlotCount /\ slots[i] = [tag |-> Defaults[i][1], val |-> Defaults[i][2]]
    BY <1>4, DefaultsAre, ObjectsAssumption
  <2>2. slots \in [1..SlotCount -> Slot]
    <3>1. ASSUME NEW i \in 1..SlotCount, i <= 5
          PROVE  [tag |-> Defaults[i][1], val |-> Defaults[i][2]] \in Slot
      BY <3>1, DefaultsAre DEF Slot
    <3>2. EmptySlot \in Slot
      BY DEF EmptySlot, Slot, Tags, Values
    <3>. QED BY <1>4, <3>1, <3>2, DefaultsAre
  <2>3. ASSUME NEW t \in DOMAIN wrote
        PROVE  \E i \in 1..5 : t = Defaults[i][1] /\ wrote[t] = Defaults[i][2]
    <3>. DEFINE d == CHOOSE d \in Range(Defaults) : d[1] = t
    <3>1. t \in {x[1] : x \in Range(Defaults)} /\ wrote[t] = d[2]
      BY <1>4
    <3>2. d \in Range(Defaults) /\ d[1] = t
      BY <3>1
    <3>. HIDE DEF d
    <3>. QED BY <3>1, <3>2, DefaultsAre
  <2>4. Kept
    <3>1. ASSUME NEW t \in DOMAIN wrote
          PROVE  \E i \in 1..SlotCount : /\ slots[i].tag = t /\ slots[i].val = wrote[t]
                                         /\ \A j \in 1..(i - 1) : slots[j].tag # t
      <4>1. PICK i \in 1..5 : t = Defaults[i][1] /\ wrote[t] = Defaults[i][2]
        BY <2>3
      <4>2. \A j \in 1..(i - 1) : j \in 1..5 /\ j # i
        OBVIOUS
      <4>3. \A j \in 1..(i - 1) : slots[j].tag # t
        BY <2>1, <4>1, <4>2, DefaultsAre
      <4>. QED BY <2>1, <4>1, <4>3
    <3>. QED BY <3>1 DEF Kept
  <2>. QED BY <1>1, <1>2, <1>4, <2>2, <2>4 DEF ObjInv, RegionInv
<1>. QED BY <1>3, <1>4 DEF Init, ObjectsInit

(* A boot that finds no header empties the region; one cut short is left as it is. *)
LEMMA BootObjects ==
    ASSUME ObjInv, BootHeader \/ BootDefault \/ BootKeys
    PROVE  ObjInv'
<1>1. CASE BootHeader
  <2>1. boot = 1 /\ boot' \in {2, 7} /\ header' /\ UNCHANGED <<blob, keyRam, sigCounter, wrote, fit>>
    BY <1>1 DEF BootHeader, Fresh, ObjInv, RegionInv
  <2>2. KeysInv'
    BY <2>1 DEF ObjInv, KeysInv, KeysReload
  <2>3. CASE Fresh
    <3>1. DOMAIN wrote' = {} /\ slots' = EmptySlots
      BY <1>1, <2>1, <2>3 DEF BootHeader, Fresh, ObjInv, RegionInv
    <3>2. slots' \in [1..SlotCount -> Slot]
      BY <3>1 DEF EmptySlots, EmptySlot, Slot, Tags, Values
    <3>3. Kept'
      BY <3>1 DEF Kept
    <3>. QED BY <2>1, <2>2, <3>1, <3>2, <3>3 DEF ObjInv, RegionInv
  <2>4. CASE ~Fresh
    <3>1. UNCHANGED <<header, slots, wrote, sigCounter>>
      BY <1>1, <2>4 DEF BootHeader
    <3>. QED BY <2>1, <2>2, <3>1 DEF ObjInv, RegionInv, Kept
  <2>. QED BY <2>3, <2>4
<1>2. CASE BootDefault
  <2>1. /\ boot \in 2..6 /\ boot' = boot + 1 /\ boot - 1 \in 1..5
        /\ UNCHANGED <<blob, keyRam, sigCounter, fit>>
        /\ Store(Defaults[boot - 1][1], Defaults[boot - 1][2])
    BY <1>2 DEF BootDefault
  <2>2. KeysInv'
    BY <2>1 DEF ObjInv, KeysInv, KeysReload
  <2>3. RegionInv /\ header
    BY <2>1 DEF ObjInv, RegionInv
  <2>4. slots' \in [1..SlotCount -> Slot] /\ Kept' /\ header'
    BY <2>1, <2>3, StoreKeeps, DefaultsAre
  <2>. QED BY <2>1, <2>2, <2>3, <2>4 DEF ObjInv, RegionInv
<1>3. CASE BootKeys
  <2>1. boot = 7 /\ boot' = 8 /\ LoadPrivateKeys /\ UNCHANGED <<header, slots, blob, sigCounter, wrote>>
    BY <1>3 DEF BootKeys
  <2>2. RegionInv'
    BY <2>1 DEF ObjInv, RegionInv, Kept
  <2>3. DOMAIN keyRam' = KeySlot /\ \A s \in KeySlot : keyRam'[s] \in Loaded(s)
    BY <2>1 DEF LoadPrivateKeys, KeySlot
  <2>4. fit' = {s \in KeySlot : blob[s] # None /\ Attributes(s) = blob[s].alg}
    BY <2>1 DEF LoadPrivateKeys
  <2>5. ASSUME NEW s \in fit'
        PROVE  keyRam'[s] = [key |-> blob[s].key, form |-> Form(s, blob[s].alg)]
    <3>1. s \in KeySlot /\ blob[s] # None /\ Form(s, Attributes(s)) = Form(s, blob[s].alg)
          /\ Form(s, blob[s].alg) # None
      BY <2>4 DEF ObjInv, KeysInv
    <3>. QED BY <2>3, <3>1 DEF Loaded
  <2>. QED BY <2>1, <2>2, <2>3, <2>4, <2>5 DEF ObjInv, KeysInv, KeysReload
<1>. QED BY <1>1, <1>2, <1>3

-----------------------------------------------------------------------------
(* What a command does to the card. *)

RestOK == rest # None => rest \in Rest /\ rest.at < rest.len

(* The host has collected the data up to where the response buffer goes on. *)
Chained == have # None /\ rest # None => have = [of |-> rest.of, to |-> rest.at]

(* An answer on its way continues what the host has, and the buffer goes on after it. *)
Follows(a) ==
    IF a.chunk = None THEN Chained
    ELSE /\ have # None /\ a.chunk.from # 0 => have = [of |-> a.chunk.of, to |-> a.chunk.from]
         /\ a.chunk.more /\ rest # None => rest.of = a.chunk.of /\ rest.at = a.chunk.to

(* The frame f is replied to, and the response buffer is as its answer says. *)
Replied(f) ==
    /\ ans' \in Answers /\ ans'.of = Id(f)
    /\ RestOK'
    /\ (rest # None => rest.of[1] = f.era) =>
        /\ rest' # None => rest'.of[1] = f.era
        /\ ans'.chunk # None => ans'.chunk.of[1] = f.era
    /\ have' = have /\ Chained => Follows(ans)'

(* A command is answered under its own number. *)
Answered(f) == Replied(f) /\ ans'.seq = f.seq

(* Flags are set by VERIFY in the enumeration of its frame, and no stale one is used. *)
Guarded(f) ==
    /\ flags' \in Flags
    /\ \A p \in Purposes : flags'[p] \in {None, f.era, flags[p]}
    /\ ~unsafe /\ (\A p \in Purposes : ~Stale(f, p)) => ~unsafe'

(* The number of a frame and its enumeration. *)
LEMMA IdOf ==
    ASSUME NEW f \in Frame
    PROVE  Id(f) \in Ids /\ Id(f)[1] = f.era /\ Id(f)[2] = f.seq /\ f.cmd \in Commands
           /\ f.seq \in Nat /\ f.era \in 1..MaxEra
BY DEF Frame, Id, Ids

(* An answer without data. *)
LEMMA SayAnswers ==
    ASSUME NEW f \in Frame, NEW kind \in {"ok", "err"}, Say(f, kind), RestOK,
           rest' = rest \/ rest' = None
    PROVE  Answered(f)
<1>1. ans' = [seq |-> f.seq, of |-> Id(f), kind |-> kind, chunk |-> None]
  BY DEF Say, Answer
<1>2. ans' \in Answers /\ ans'.seq = f.seq /\ ans'.of = Id(f) /\ ans'.chunk = None
  BY <1>1, IdOf DEF Answers
<1>3. have' = have /\ Chained => Follows(ans)'
  BY <1>2 DEF Follows, Chained
<1>. QED BY <1>2, <1>3 DEF Answered, Replied, RestOK

(* chunk_response *)
LEMMA ChunkAnswers ==
    ASSUME NEW f \in Frame, Chunk(f), RestOK
    PROVE  Answered(f)
<1>. DEFINE n    == DataLen(f)
            take == IF n <= f.cmd.le THEN n ELSE f.cmd.le
            c    == [of |-> Id(f), from |-> 0, to |-> take, more |-> n > take]
<1>1. n \in Nat /\ f.cmd.le \in Nat
  BY IdOf, CardAssumption DEF DataLen
<1>2. take \in Nat
  BY <1>1
<1>3. ans' = [seq |-> f.seq, of |-> Id(f), kind |-> "ok", chunk |-> c]
      /\ rest' = IF n > take THEN [of |-> Id(f), at |-> take, len |-> n] ELSE rest
  BY DEF Chunk, Answer
<1>. HIDE DEF n, take
<1>4. c \in Chunks /\ c # None /\ c.of = Id(f) /\ c.from = 0 /\ c.to = take /\ c.more = (n > take)
  <2>1. c \in Chunks
    BY <1>1, <1>2, IdOf DEF Chunks, Ids
  <2>. QED BY <2>1, CardAssumption
<1>. HIDE DEF c
<1>5. ans' \in Answers /\ ans'.seq = f.seq /\ ans'.of = Id(f) /\ ans'.chunk = c
  BY <1>3, <1>4, IdOf DEF Answers
<1>6. CASE n > take
  <2>1. rest' = [of |-> Id(f), at |-> take, len |-> n]
    BY <1>3, <1>6
  <2>2. rest' \in Rest /\ rest'.at < rest'.len /\ rest'.of = Id(f) /\ rest'.at = take
    BY <1>1, <1>2, <1>6, <2>1, IdOf DEF Rest
  <2>. QED BY <1>4, <1>5, <2>2, IdOf DEF Answered, Replied, RestOK, Follows
<1>7. CASE ~(n > take)
  BY <1>3, <1>4, <1>5, <1>7, IdOf DEF Answered, Replied, RestOK, Follows
<1>. QED BY <1>6, <1>7

(* handle_get_response *)
LEMMA ResponseAnswers ==
    ASSUME NEW f \in Frame, GetResponse(f), RestOK
    PROVE  Answered(f)
<1>1. CASE rest = None
  BY <1>1, SayAnswers DEF GetResponse
<1>2. CASE rest # None
  <2>. DEFINE left0 == rest.len - rest.at
              take  == IF left0 <= f.cmd.le THEN left0 ELSE f.cmd.le
              c     == [of |-> rest.of, from |-> rest.at, to |-> rest.at + take, more |-> left0 > take]
  <2>1. rest \in Rest /\ rest.of \in Ids /\ rest.at \in Nat /\ rest.len \in Nat /\ rest.at < rest.len
    BY <1>2 DEF RestOK, Rest
  <2>2. left0 \in Nat /\ f.cmd.le \in Nat
    BY <2>1, IdOf, CardAssumption
  <2>3. take \in Nat /\ rest.at + take \in Nat /\ (left0 > take => rest.at + take < rest.len)
    BY <2>1, <2>2
  <2>4. ans' = [seq |-> f.seq, of |-> Id(f), kind |-> "ok", chunk |-> c]
        /\ rest' = IF left0 > take THEN [rest EXCEPT !.at = @ + take] ELSE None
    BY <1>2 DEF GetResponse, Answer
  <2>5. c \in Chunks /\ c # None /\ c.of = rest.of /\ c.from = rest.at /\ c.to = rest.at + take
        /\ c.more = (left0 > take)
    <3>1. c \in Chunks
      <4>. HIDE DEF left0, take
      <4>. QED BY <2>1, <2>2, <2>3 DEF Chunks, Ids
    <3>. QED BY <3>1, CardAssumption
  <2>. HIDE DEF c, left0, take
  <2>6. ans' \in Answers /\ ans'.seq = f.seq /\ ans'.of = Id(f) /\ ans'.chunk = c
    BY <2>4, <2>5, IdOf DEF Answers
  <2>7. rest' # None => /\ left0 > take
                        /\ rest' \in Rest /\ rest'.at < rest'.len
                        /\ rest'.of = rest.of /\ rest'.at = rest.at + take
    BY <2>1, <2>3, <2>4 DEF Rest
  <2>8. have' = have /\ Chained => Follows(ans)'
    BY <1>2, <2>5, <2>6, <2>7 DEF Chained, Follows
  <2>9. (rest # None => rest.of[1] = f.era) =>
            /\ rest' # None => rest'.of[1] = f.era
            /\ ans'.chunk # None => ans'.chunk.of[1] = f.era
    BY <1>2, <2>5, <2>6, <2>7
  <2>. QED BY <2>6, <2>7, <2>8, <2>9 DEF Answered, Replied, RestOK
<1>. QED BY <1>1, <1>2

(* handle_ccid, case by case. *)
LEMMA HandleCases ==
    ASSUME NEW f, NEW ok, Handle(f, ok)
    PROVE  \/ Say(f, "ok") /\ UNCHANGED <<objects, card, unsafe>>
           \/ Say(f, "ok") /\ ResetState /\ UNCHANGED <<objects, unsafe>>
           \/ Refuse(f) /\ UNCHANGED unsafe
           \/ backend = "stub" /\ StubApdu(f)
           \/ backend # "stub" /\ VaultApdu(f, ok)
BY DEF Handle

(* Every command is answered. *)
LEMMA HandleAnswers ==
    ASSUME NEW f \in Frame, NEW ok, Handle(f, ok), RestOK
    PROVE  Answered(f)
<1>1. CASE Say(f, "ok") /\ UNCHANGED card
  BY <1>1, SayAnswers DEF card
<1>2. CASE Say(f, "ok") /\ ResetState
  BY <1>2, SayAnswers DEF ResetState
<1>3. CASE Refuse(f)
  BY <1>3, SayAnswers DEF Refuse, card
<1>4. CASE StubApdu(f)
  BY <1>1, <1>3, <1>4, ChunkAnswers DEF StubApdu
<1>5. CASE VaultApdu(f, ok)
  <2>1. CASE Verify(f, ok)
    BY <2>1, SayAnswers DEF Verify
  <2>2. CASE Plain(f)
    BY <1>1, <2>2 DEF Plain
  <2>3. CASE PutData(f, ok)
    BY <1>1, <1>3, <2>3 DEF PutData
  <2>4. CASE GetData(f)
    BY <1>3, <2>4, ChunkAnswers DEF GetData
  <2>5. CASE Sign(f, ok)
    <3>1. Chunk(f) \/ (Say(f, "err") /\ UNCHANGED card) \/ Refuse(f)
      BY <2>5 DEF Sign
    <3>. QED BY <1>3, <3>1, ChunkAnswers, SayAnswers DEF card
  <2>6. CASE UseKey(f)
    BY <1>3, <2>6, ChunkAnswers DEF UseKey
  <2>7. CASE Generate(f, ok)
    BY <1>3, <2>7, ChunkAnswers DEF Generate
  <2>8. CASE GetResponse(f)
    BY <2>8, ResponseAnswers
  <2>. QED BY <1>5, <2>1, <2>2, <2>3, <2>4, <2>5, <2>6, <2>7, <2>8 DEF VaultApdu
<1>. QED BY <1>1, <1>2, <1>3, <1>4, <1>5, HandleCases

(* A message that does not parse is answered too, by CcidClass under the number 0. *)
LEMMA MalformedAnswers ==
    ASSUME NEW f \in Frame, Malformed(f), RestOK
    PROVE  Replied(f)
<1>1. ans' = [seq |-> 0, of |-> Id(f), kind |-> "err", chunk |-> None] /\ UNCHANGED rest
  BY DEF Malformed, Answer, card
<1>2. ans' \in Answers /\ ans'.of = Id(f) /\ ans'.chunk = None
  BY <1>1, IdOf DEF Answers
<1>3. have' = have /\ Chained => Follows(ans)'
  BY <1>1, <1>2 DEF Follows, Chained
<1>. QED BY <1>1, <1>2, <1>3 DEF Replied, RestOK

(* Commands under a PIN run under a VERIFY of their enumeration when the flags are of it. *)
LEMMA HandleGuards ==
    ASSUME NEW f \in Frame, NEW ok, Handle(f, ok), flags \in Flags
    PROVE  Guarded(f)
<1>1. CASE UNCHANGED flags /\ (~unsafe /\ (\A p \in Purposes : ~Stale(f, p)) => ~unsafe')
  BY <1>1 DEF Guarded
<1>2. CASE ResetState /\ UNCHANGED unsafe
  BY <1>2 DEF ResetState, NoFlags, Guarded, Flags
<1>3. CASE UNCHANGED <<card, unsafe>>
  BY <1>1, <1>3 DEF card
<1>4. CASE Refuse(f) /\ UNCHANGED unsafe
  BY <1>3, <1>4 DEF Refuse
<1>5. CASE StubApdu(f)
  BY <1>1, <1>5 DEF StubApdu, Refuse, card
<1>6. CASE VaultApdu(f, ok)
  <2>1. CASE Verify(f, ok)
    <3>1. UNCHANGED unsafe /\ (UNCHANGED flags \/ flags' = [flags EXCEPT ![f.cmd.arg] = f.era])
      BY <2>1 DEF Verify
    <3>2. f.cmd.arg \in Purposes /\ f.era \in 1..MaxEra
      BY <2>1, IdOf, CardAssumption DEF Verify
    <3>. QED BY <3>1, <3>2 DEF Guarded, Flags
  <2>2. CASE Plain(f)
    BY <1>3, <2>2 DEF Plain
  <2>3. CASE PutData(f, ok)
    <3>1. UNCHANGED flags /\ unsafe' = (unsafe \/ Stale(f, "Admin"))
      BY <2>3 DEF PutData, Refuse, card
    <3>. QED BY <1>1, <3>1 DEF Purposes
  <2>4. CASE GetData(f)
    BY <1>1, <2>4 DEF GetData, Refuse, card
  <2>5. CASE Sign(f, ok)
    <3>1. UNCHANGED flags \/ flags' = [flags EXCEPT !["Sign"] = None]
      BY <2>5 DEF Sign, Refuse, card
    <3>2. unsafe' = (unsafe \/ Stale(f, "Sign"))
      BY <2>5 DEF Sign
    <3>. QED BY <3>1, <3>2 DEF Guarded, Flags, Purposes
  <2>6. CASE UseKey(f)
    <3>1. UNCHANGED flags /\ unsafe' = (unsafe \/ Stale(f, "Other"))
      BY <2>6 DEF UseKey, Refuse, card
    <3>. QED BY <1>1, <3>1 DEF Purposes
  <2>7. CASE Generate(f, ok)
    <3>1. UNCHANGED flags /\ unsafe' = (unsafe \/ Stale(f, "Admin"))
      BY <2>7 DEF Generate, Refuse, card
    <3>. QED BY <1>1, <3>1 DEF Purposes
  <2>8. CASE GetResponse(f)
    BY <1>1, <2>8 DEF GetResponse
  <2>. QED BY <1>6, <2>1, <2>2, <2>3, <2>4, <2>5, <2>6, <2>7, <2>8 DEF VaultApdu
<1>. QED BY <1>2, <1>3, <1>4, <1>5, <1>6, HandleCases

(* The objects a command changes. *)
LEMMA HandleTouches ==
    ASSUME NEW f, NEW ok, Handle(f, ok)
    PROVE  \/ UNCHANGED objects
           \/ /\ backend # "stub"
              /\ \/ f.cmd.op = "PUT" /\ PutObject(f.cmd.arg, f.cmd.val)
                 \/ CountSignature(ok)
                 \/ f.cmd.op = "GENERATE" /\ \E k \in Keys : MakeKey(f.cmd.arg, k)
<1>1. CASE backend = "stub" /\ StubApdu(f)
  BY <1>1 DEF StubApdu, Refuse
<1>2. CASE backend # "stub" /\ VaultApdu(f, ok)
  BY <1>2 DEF VaultApdu, Verify, Plain, PutData, GetData, Sign, UseKey, Generate, GetResponse, Refuse
<1>3. CASE Refuse(f)
  BY <1>3 DEF Refuse
<1>. QED BY <1>1, <1>2, <1>3, HandleCases

(* Commands leave the DO region a map, and the keys of RAM those of the blobs. *)
LEMMA HandleObjects ==
    ASSUME ObjInv, backend = "stub" \/ boot = 8, boot' = boot,
           NEW f \in Frame, NEW ok \in BOOLEAN, Handle(f, ok)
    PROVE  ObjInv'
<1>1. CASE UNCHANGED objects
  BY <1>1 DEF ObjInv, RegionInv, KeysInv, KeysReload, Kept, objects
<1>2. ASSUME NEW t \in Tags, NEW v \in Values, header, Store(t, v), UNCHANGED <<blob, keyRam, fit>>,
             sigCounter' \in Nat
      PROVE  ObjInv'
  <2>1. slots' \in [1..SlotCount -> Slot] /\ Kept' /\ header'
    BY <1>2, StoreKeeps DEF ObjInv
  <2>. QED BY <1>2, <2>1 DEF ObjInv, RegionInv, KeysInv, KeysReload
<1>3. CASE boot = 8 /\ PutObject(f.cmd.arg, f.cmd.val)
  <2>1. f.cmd.arg \in Tags /\ f.cmd.val \in Values
    BY IdOf DEF Tags, Values
  <2>2. header /\ Store(f.cmd.arg, f.cmd.val) /\ UNCHANGED <<blob, keyRam, fit>> /\ sigCounter' \in Nat
    BY <1>3 DEF PutObject, ObjInv, RegionInv
  <2>. QED BY <1>2, <2>1, <2>2
<1>4. CASE boot = 8 /\ CountSignature(ok)
  <2>1. sigCounter' \in Nat /\ sigCounter + 1 \in Nat /\ UNCHANGED <<blob, keyRam, fit>> /\ header
    BY <1>4 DEF CountSignature, ObjInv, RegionInv
  <2>2. CASE ok
    <3>1. Store("93", (sigCounter + 1) % CounterMod)
      BY <1>4, <2>2 DEF CountSignature
    <3>2. (sigCounter + 1) % CounterMod \in Values
      BY <2>1, ObjectsAssumption DEF Values
    <3>3. "93" \in Tags
      BY DEF Tags
    <3>. QED BY <1>2, <2>1, <3>1, <3>2, <3>3
  <2>3. CASE ~ok
    <3>1. UNCHANGED <<header, slots, wrote>>
      BY <1>4, <2>3 DEF CountSignature
    <3>. QED BY <2>1, <3>1 DEF ObjInv, RegionInv, KeysInv, KeysReload, Kept
  <2>. QED BY <2>2, <2>3
<1>5. CASE f.cmd.op = "GENERATE" /\ \E k \in Keys : MakeKey(f.cmd.arg, k)
  <2>. DEFINE s   == f.cmd.arg
              alg == Attributes(s)
  <2>1. s \in KeySlot
    BY <1>5, IdOf, CardAssumption
  <2>2. PICK k \in Keys : MakeKey(s, k)
    BY <1>5
  <2>3. /\ Form(s, alg) # None
        /\ blob' = [blob EXCEPT ![s] = [key |-> k, alg |-> alg]]
        /\ keyRam' = [keyRam EXCEPT ![s] = [key |-> k, form |-> Form(s, alg)]]
        /\ fit' = fit \cup {s}
        /\ UNCHANGED <<header, slots, sigCounter, wrote>>
    BY <2>2 DEF MakeKey
  <2>. HIDE DEF s, alg
  <2>4. RegionInv'
    BY <2>3 DEF ObjInv, RegionInv, Kept
  <2>5. DOMAIN blob' = KeySlot /\ DOMAIN keyRam' = KeySlot /\ fit' \subseteq KeySlot
        /\ blob'[s] = [key |-> k, alg |-> alg] /\ keyRam'[s] = [key |-> k, form |-> Form(s, alg)]
        /\ \A r \in KeySlot : r # s => blob'[r] = blob[r] /\ keyRam'[r] = keyRam[r]
    BY <2>1, <2>3 DEF ObjInv, KeysInv
  <2>6. \A r \in KeySlot : blob'[r] # None => Form(r, blob'[r].alg) # None
    BY <2>3, <2>5 DEF ObjInv, KeysInv
  <2>7. KeysReload'
    BY <2>3, <2>5 DEF ObjInv, KeysInv, KeysReload
  <2>. QED BY <2>4, <2>5, <2>6, <2>7 DEF ObjInv, KeysInv
<1>. QED BY <1>1, <1>3, <1>4, <1>5, HandleTouches

-----------------------------------------------------------------------------
(* The wire: what is on its way between the host and the card. *)

(* An answer is being sent. *)
Flying == IF via = "class" THEN ans # None ELSE loop = "tx"

TypesInv ==
    /\ via \in {"class", "baosec", "dabao"} /\ backend \in {"stub", "vault"}
    /\ flags \in Flags /\ RestOK
    /\ left \in 0..2 /\ (Flying => ans \in Answers)
    /\ rx \in Seq(Frame) /\ Len(rx) < 2
    /\ inbox \in Seq(Frame) /\ Len(inbox) <= sent /\ sent \in 0..MaxCommands
    /\ era \in 1..MaxEra /\ seq \in Nat
    /\ link \in {"up", "down"} /\ last \in {"up", "down"} /\ loop \in {"poll", "wait", "tx"}
    /\ missed \in BOOLEAN

(* The host waits for a command of this enumeration, the last it sent, and has *)
(* collected data only to go on with GET RESPONSE.                             *)
HostInv ==
    /\ host.st \in {"idle", "waiting", "reset", "recover"}
    /\ host.st = "waiting" =>
        /\ host \in Waiting /\ host.frame.era = era /\ host.frame.seq + 1 = seq
        /\ host.frame.cmd.op # "RESPONSE" => have = None
    /\ host.st \in {"reset", "recover"} => have = None
    /\ link = "down" => host = Idle /\ have = None

(* CcidClass: the receive buffer holds packets of the host's frame only, and   *)
(* an answer is sent once the frame is whole.                                  *)
ClassInv ==
    via = "class" =>
        /\ link = "up" /\ last = "up" /\ loop = "poll" /\ inbox = <<>> /\ ~missed
        /\ host.st # "recover"
        /\ host.st = "idle" => rx = <<>> /\ ans = None
        /\ host.st = "waiting" =>
            /\ host.sent <= FramePackets(host.frame)
            /\ host.sent = FramePackets(host.frame) \/ ans = None
            /\ rx = IF host.sent = 1 /\ FramePackets(host.frame) = 2 THEN <<host.frame>> ELSE <<>>
            /\ ans # None => ans.of = Id(host.frame)

(* The host is getting back in step: it gave up on a command, or waits for an  *)
(* answer to the POWEROFF or ABORT that follows.                               *)
Recovering ==
    \/ host.st = "recover"
    \/ host.st = "waiting" /\ host.frame.cmd.op \in {"POWEROFF", "ABORT"}

(* The service loop: frames wait in order, the host's own last, and unless the *)
(* host is recovering they are its own or ones usb-bao1x has answered.         *)
LoopInv ==
    via # "class" /\ ~missed =>
        /\ host.st # "reset"
        /\ \A i \in 1..Len(inbox) : inbox[i].era = era /\ inbox[i].seq < seq
        /\ ~Recovering => \A i \in 1..Len(inbox) :
            Inline(inbox[i]) \/ (host.st = "waiting" /\ inbox[i] = host.frame)
        /\ host.st = "waiting" /\ ~Inline(host.frame) /\ inbox # <<>> =>
            /\ \A i \in 1..(Len(inbox) - 1) : inbox[i].seq < host.frame.seq
            /\ inbox[Len(inbox)] = host.frame
            /\ loop = "tx" => ans.seq < host.frame.seq
        /\ link = "up" /\ loop = "tx" =>
            /\ ans.seq < seq
            /\ ~Recovering => /\ host.st = "waiting" /\ ~Inline(host.frame)
                              /\ ans.seq = host.frame.seq /\ inbox = <<>>

(* As long as no change of the link was missed, everything on a card whose     *)
(* link is up is of this enumeration, and chained data is in order.            *)
LiveInv ==
    ~missed /\ link = "up" =>
        /\ \A p \in Purposes : flags[p] \in {None, era}
        /\ rest # None => rest.of[1] = era
        /\ Flying => /\ via # "class" => ans.of = <<era, ans.seq>>
                     /\ ans.chunk # None => ans.chunk.of[1] = era
                     /\ Follows(ans)
        /\ (/\ ~Flying
            /\ ~(via = "class" /\ host.st = "waiting" /\ host.sent = FramePackets(host.frame)))
           => Chained

(* With the link down no frame is left, and nothing at all once the loop saw it. *)
DownInv ==
    ~missed /\ link = "down" =>
        /\ inbox = <<>>
        /\ last = "down" => flags = NoFlags /\ rest = None /\ loop # "tx"

HistInv == ~unsafe /\ ~gap /\ AnswersOwnCommand

WireInv == TypesInv /\ HostInv /\ ClassInv /\ LoopInv /\ LiveInv /\ DownInv /\ HistInv

(* The dispatcher runs whenever the loop is past its poll. *)
ServesInv == loop # "poll" => Up

(* The empty values. *)
LEMMA Nothing ==
    /\ NoFlags \in Flags /\ \A p \in Purposes : NoFlags[p] = None
    /\ <<>> \in Seq(Frame) /\ Len(<<>>) = 0
    /\ Idle.st = "idle" /\ Idle.frame = None
    /\ 0 \in 0..MaxCommands /\ 1 \in 1..MaxEra
<1>1. NoFlags \in Flags /\ \A p \in Purposes : NoFlags[p] = None
  BY DEF NoFlags, Flags
<1>2. <<>> \in Seq(Frame) /\ Len(<<>>) = 0
  OBVIOUS
<1>3. Idle.st = "idle" /\ Idle.frame = None
  BY DEF Idle
<1>4. 0 \in 0..MaxCommands /\ 1 \in 1..MaxEra
  BY CardAssumption
<1>. QED BY <1>1, <1>2, <1>3, <1>4

(* A card at power-on. *)
LEMMA WireStart == ASSUME Init PROVE WireInv /\ ServesInv
<1>1. /\ via \in {"class", "baosec", "dabao"} /\ backend \in {"stub", "vault"}
      /\ flags = NoFlags /\ rest = None /\ rx = <<>> /\ ans = None /\ left = 0
      /\ link = "up" /\ last = "up" /\ loop = "poll" /\ inbox = <<>>
      /\ host = Idle /\ era = 1 /\ seq = 0 /\ sent = 0
      /\ have = None /\ missed \in BOOLEAN /\ ~missed /\ ~unsafe /\ ~gap
  BY CardAssumption DEF Init
<1>2. host.st = "idle" /\ host.frame = None
  BY <1>1 DEF Idle
<1>3. ~Flying
  BY <1>1 DEF Flying
<1>4. TypesInv
  BY <1>1, <1>3, Nothing DEF TypesInv, RestOK
<1>5. HostInv /\ ClassInv
  BY <1>1, <1>2 DEF HostInv, ClassInv
<1>6. LoopInv
  BY <1>1, <1>2 DEF LoopInv, Recovering
<1>7. LiveInv /\ DownInv
  BY <1>1, <1>3, Nothing DEF LiveInv, DownInv, Chained
<1>8. HistInv
  BY <1>1, <1>2 DEF HistInv, AnswersOwnCommand
<1>. QED BY <1>1, <1>4, <1>5, <1>6, <1>7, <1>8 DEF WireInv, ServesInv

(* The boot changes nothing on the wire. *)
LEMMA BootWire ==
    ASSUME WireInv, ServesInv, BootHeader \/ BootDefault \/ BootKeys
    PROVE  WireInv' /\ ServesInv'
<1>1. UNCHANGED <<via, backend, card, wire, hist>>
  BY DEF BootHeader, BootDefault, BootKeys
<1>2. loop = "poll"
  BY DEF BootHeader, BootDefault, BootKeys, WireInv, TypesInv, ServesInv, Up
<1>3. WireInv'
  <2>. USE <1>1 DEF card, wire, hist
  <2>1. Flying' = Flying /\ Recovering' = Recovering /\ Chained' = Chained /\ Follows(ans)' = Follows(ans)
    BY DEF Flying, Recovering, Chained, Follows
  <2>2. TypesInv' /\ HostInv' /\ ClassInv'
    BY <2>1 DEF WireInv, TypesInv, RestOK, HostInv, ClassInv
  <2>3. LoopInv' /\ LiveInv' /\ DownInv' /\ HistInv'
    BY <2>1 DEF WireInv, LoopInv, LiveInv, DownInv, HistInv, AnswersOwnCommand
  <2>. QED BY <2>2, <2>3 DEF WireInv
<1>. QED BY <1>1, <1>2, <1>3 DEF ServesInv, wire

(* Power is lost. *)
LEMMA PowerCutWire ==
    ASSUME WireInv, PowerCut
    PROVE  WireInv' /\ ServesInv'
<1>1. /\ flags' = NoFlags /\ rest' = None /\ rx' = <<>> /\ ans' = None /\ left' = 0
      /\ link' = "up" /\ last' = "up" /\ loop' = "poll" /\ inbox' = <<>>
      /\ host' = Idle /\ era' = era + 1 /\ era < MaxEra /\ seq' = 0 /\ have' = None
      /\ via' = via /\ sent' = sent /\ gap' = gap /\ unsafe' = unsafe
      /\ missed' \in BOOLEAN /\ ~missed' /\ backend' \in {"stub", "vault"}
  BY DEF PowerCut, ResetState
<1>2. host'.st = "idle" /\ host'.frame = None
  BY <1>1, Nothing
<1>3. ~Flying'
  BY <1>1 DEF Flying
<1>4. TypesInv'
  BY <1>1, <1>3, Nothing, CardAssumption DEF WireInv, TypesInv, RestOK
<1>5. HostInv' /\ ClassInv'
  BY <1>1, <1>2 DEF HostInv, ClassInv
<1>6. LoopInv'
  BY <1>1, <1>2 DEF LoopInv, Recovering
<1>7. LiveInv' /\ DownInv'
  BY <1>1, <1>3, Nothing DEF LiveInv, DownInv, Chained
<1>8. HistInv'
  BY <1>1, <1>2 DEF WireInv, HistInv, AnswersOwnCommand
<1>. QED BY <1>1, <1>4, <1>5, <1>6, <1>7, <1>8 DEF WireInv, ServesInv

(* Dabao's switch makes a new dispatcher, with no flag and an empty buffer. *)
LEMMA SwitchWire ==
    ASSUME WireInv, Switch
    PROVE  WireInv' /\ ServesInv'
<1>1. /\ loop = "poll" /\ flags' = NoFlags /\ rest' = None /\ last' = link /\ backend' = "vault"
      /\ UNCHANGED <<via, rx, ans, left, link, loop, inbox, host, era, seq, sent, have, missed, unsafe, gap>>
  BY DEF Switch, hist
<1>2. Flying' = Flying /\ Recovering' = Recovering /\ Chained'
  BY <1>1 DEF Flying, Recovering, Chained
<1>3. TypesInv'
  BY <1>1, <1>2, Nothing DEF WireInv, TypesInv, RestOK
<1>4. HostInv'
  BY <1>1 DEF WireInv, HostInv
<1>5. ClassInv'
  BY <1>1 DEF WireInv, ClassInv
<1>6. LoopInv'
  BY <1>1, <1>2 DEF WireInv, LoopInv
<1>7. LiveInv'
  <2>1. Follows(ans) => Follows(ans)'
    BY <1>1, <1>2 DEF Follows
  <2>. QED BY <1>1, <1>2, <2>1, Nothing DEF WireInv, LiveInv
<1>8. DownInv' /\ HistInv'
  BY <1>1 DEF WireInv, DownInv, HistInv, AnswersOwnCommand
<1>. QED BY <1>1, <1>3, <1>4, <1>5, <1>6, <1>7, <1>8 DEF WireInv, ServesInv

(* The loop sees the state of the link. *)
LEMMA PollWire ==
    ASSUME WireInv, Poll
    PROVE  WireInv' /\ ServesInv'
<1>1. /\ via # "class" /\ Up /\ loop = "poll" /\ loop' = "wait" /\ last' = link
      /\ UNCHANGED <<via, boot, backend, rx, ans, left, link, inbox, host, era, seq, sent, have, missed, unsafe, gap>>
  BY DEF Poll, hist
<1>2. IF link # last /\ link # "up" THEN flags' = NoFlags /\ rest' = None ELSE UNCHANGED <<flags, rest>>
  BY DEF Poll, ResetState, card
<1>3. ~Flying /\ ~Flying' /\ Recovering' = Recovering
  BY <1>1 DEF Flying, Recovering
<1>4. TypesInv'
  BY <1>1, <1>2, <1>3, Nothing DEF WireInv, TypesInv, RestOK
<1>5. HostInv' /\ ClassInv'
  BY <1>1 DEF WireInv, HostInv, ClassInv
<1>6. LoopInv'
  BY <1>1, <1>3 DEF WireInv, LoopInv
<1>7. LiveInv'
  <2>1. Chained => Chained'
    BY <1>1, <1>2 DEF Chained
  <2>. QED BY <1>1, <1>2, <1>3, <2>1, Nothing DEF WireInv, LiveInv
<1>8. DownInv'
  BY <1>1, <1>2 DEF WireInv, TypesInv, DownInv
<1>9. HistInv' /\ ServesInv'
  BY <1>1 DEF WireInv, HistInv, AnswersOwnCommand, ServesInv, Up
<1>. QED BY <1>4, <1>5, <1>6, <1>7, <1>8, <1>9 DEF WireInv

(* The loop's wait fails: the session is reset. *)
LEMMA WaitFailsWire ==
    ASSUME WireInv, WaitFails
    PROVE  WireInv' /\ ServesInv'
<1>1. /\ loop = "wait" /\ link = "down" /\ loop' = "poll" /\ flags' = NoFlags /\ rest' = None
      /\ UNCHANGED <<via, backend, rx, ans, left, link, last, inbox, host, era, seq, sent, have, missed, unsafe, gap>>
  BY DEF WaitFails, ResetState, hist
<1>2. via # "class" /\ ~Flying' /\ Recovering' = Recovering
  BY <1>1 DEF Flying, Recovering, WireInv, ClassInv
<1>3. TypesInv'
  BY <1>1, <1>2, Nothing DEF WireInv, TypesInv, RestOK
<1>4. HostInv' /\ ClassInv'
  BY <1>1, <1>2 DEF WireInv, HostInv, ClassInv
<1>5. LoopInv'
  BY <1>1, <1>2 DEF WireInv, LoopInv
<1>6. LiveInv' /\ DownInv' /\ HistInv'
  BY <1>1 DEF WireInv, LiveInv, DownInv, HistInv, AnswersOwnCommand
<1>. QED BY <1>1, <1>3, <1>4, <1>5, <1>6 DEF WireInv, ServesInv

(* The driver stops waiting. *)
LEMMA HostGivesUpWire ==
    ASSUME WireInv, ServesInv, HostGivesUp
    PROVE  WireInv' /\ ServesInv'
<1>1. /\ host.st = "waiting" /\ have' = None
      /\ host' = [Idle EXCEPT !.st = IF via = "class" THEN "reset" ELSE "recover"]
      /\ UNCHANGED <<via, boot, backend, flags, rest, rx, ans, left, link, last, loop, inbox, era, seq, sent,
                     missed, unsafe, gap>>
  BY DEF HostGivesUp, card
<1>2. host'.st = (IF via = "class" THEN "reset" ELSE "recover")
  BY <1>1 DEF Idle
<1>3. Flying' = Flying /\ Chained' /\ link = "up"
  BY <1>1, Nothing DEF Flying, Chained, WireInv, TypesInv, HostInv
<1>4. TypesInv'
  BY <1>1, <1>3 DEF WireInv, TypesInv, RestOK
<1>5. HostInv' /\ ClassInv'
  BY <1>1, <1>2, <1>3 DEF WireInv, HostInv, ClassInv
<1>6. LoopInv'
  <2>1. via # "class" => Recovering'
    BY <1>1, <1>2 DEF Recovering
  <2>. QED BY <1>1, <1>2, <2>1 DEF WireInv, LoopInv
<1>7. LiveInv'
  <2>1. Follows(ans) => Follows(ans)'
    BY <1>1, <1>3 DEF Follows
  <2>. QED BY <1>1, <1>3, <2>1 DEF WireInv, LiveInv
<1>8. DownInv' /\ HistInv' /\ ServesInv'
  BY <1>1, <1>2, <1>3 DEF WireInv, DownInv, HistInv, AnswersOwnCommand, ServesInv, Up
<1>. QED BY <1>4, <1>5, <1>6, <1>7, <1>8 DEF WireInv

(* USB bus reset under CcidClass *)
LEMMA BusResetWire ==
    ASSUME WireInv, BusReset
    PROVE  WireInv' /\ ServesInv'
<1>1. /\ via = "class" /\ flags' = NoFlags /\ rest' = None /\ rx' = <<>> /\ ans' = None /\ left' = 0
      /\ host' = Idle /\ era' = era + 1 /\ era < MaxEra /\ seq' = 0 /\ have' = None
      /\ UNCHANGED <<sent, via, boot, backend, link, last, loop, inbox, missed, unsafe, gap>>
  BY DEF BusReset, ProtocolReset, ResetState
<1>2. host'.st = "idle" /\ host'.frame = None /\ ~Flying'
  BY <1>1, Nothing DEF Flying
<1>3. link = "up" /\ last = "up" /\ loop = "poll" /\ inbox = <<>> /\ ~missed
  BY <1>1 DEF WireInv, ClassInv
<1>4. TypesInv'
  BY <1>1, <1>2, Nothing, CardAssumption DEF WireInv, TypesInv, RestOK
<1>5. HostInv' /\ ClassInv' /\ LoopInv'
  BY <1>1, <1>2, <1>3 DEF HostInv, ClassInv, LoopInv
<1>6. LiveInv' /\ DownInv'
  BY <1>1, <1>2, <1>3, Nothing DEF LiveInv, DownInv, Chained
<1>7. HistInv' /\ ServesInv'
  BY <1>1, <1>2, <1>3 DEF WireInv, HistInv, AnswersOwnCommand, ServesInv
<1>. QED BY <1>4, <1>5, <1>6, <1>7 DEF WireInv

(* The cable is pulled, or the host resets the port. *)
LEMMA LinkDownWire ==
    ASSUME WireInv, ServesInv, LinkDown
    PROVE  WireInv' /\ ServesInv'
<1>1. /\ via # "class" /\ link' = "down" /\ host' = Idle /\ era' = era + 1 /\ era < MaxEra /\ seq' = 0
      /\ have' = None /\ inbox' \in {inbox, <<>>}
      /\ UNCHANGED <<sent, via, boot, backend, flags, rest, rx, ans, left, last, loop, unsafe, gap>>
  BY DEF LinkDown, card
<1>2. missed' \in BOOLEAN /\ (~missed' => ~missed /\ inbox' = <<>> /\ last # "down")
  BY DEF LinkDown
<1>3. host'.st = "idle" /\ host'.frame = None /\ Flying' = Flying
  BY <1>1, Nothing DEF Flying
<1>4. TypesInv'
  <2>1. inbox' \in Seq(Frame) /\ Len(inbox') <= sent'
    <3>1. CASE inbox' = inbox
      BY <1>1, <3>1 DEF WireInv, TypesInv
    <3>2. CASE inbox' = <<>>
      BY <1>1, <3>2, Nothing, CardAssumption DEF WireInv, TypesInv
    <3>. QED BY <1>1, <3>1, <3>2
  <2>2. era' \in 1..MaxEra /\ seq' \in Nat
    BY <1>1, CardAssumption DEF WireInv, TypesInv
  <2>. QED BY <1>1, <1>2, <1>3, <2>1, <2>2 DEF WireInv, TypesInv, RestOK
<1>5. HostInv' /\ ClassInv'
  BY <1>1, <1>3 DEF HostInv, ClassInv
<1>6. LoopInv'
  BY <1>1, <1>2, <1>3 DEF LoopInv, Recovering
<1>7. LiveInv' /\ DownInv'
  BY <1>1, <1>2 DEF LiveInv, DownInv
<1>8. HistInv' /\ ServesInv'
  BY <1>1, <1>3 DEF WireInv, HistInv, AnswersOwnCommand, ServesInv, Up
<1>. QED BY <1>4, <1>5, <1>6, <1>7, <1>8 DEF WireInv

(* The link comes back. *)
LEMMA LinkUpWire ==
    ASSUME WireInv, ServesInv, LinkUp
    PROVE  WireInv' /\ ServesInv'
<1>1. /\ link = "down" /\ link' = "up"
      /\ UNCHANGED <<via, boot, backend, flags, rest, rx, ans, left, last, loop, inbox, host, era, seq, sent,
                     have, unsafe, gap>>
  BY DEF LinkUp, card
<1>2. missed' \in BOOLEAN /\ (~missed' => ~missed /\ last # "up")
  BY DEF LinkUp
<1>3. via # "class" /\ host = Idle /\ have = None /\ host.st = "idle" /\ host.frame = None
  BY <1>1, Nothing DEF WireInv, HostInv, ClassInv
<1>4. Flying' = Flying
  BY <1>1 DEF Flying
<1>5. ~missed' => inbox = <<>> /\ flags = NoFlags /\ rest = None /\ loop # "tx"
  BY <1>1, <1>2 DEF WireInv, TypesInv, DownInv
<1>6. TypesInv'
  BY <1>1, <1>2, <1>4 DEF WireInv, TypesInv, RestOK
<1>7. HostInv' /\ ClassInv'
  BY <1>1, <1>3 DEF HostInv, ClassInv
<1>8. LoopInv'
  BY <1>1, <1>3, <1>5 DEF LoopInv, Recovering
<1>9. LiveInv' /\ DownInv'
  BY <1>1, <1>3, <1>4, <1>5, Nothing DEF LiveInv, DownInv, Flying, Chained
<1>10. HistInv' /\ ServesInv'
  BY <1>1, <1>3 DEF WireInv, HistInv, AnswersOwnCommand, ServesInv, Up
<1>. QED BY <1>6, <1>7, <1>8, <1>9, <1>10 DEF WireInv

(* The driver takes the answer it waits for: its own, and in sequence. *)
LEMMA Delivery ==
    ASSUME WireInv, NEW a \in Answers, Deliver(a), host.st = "waiting", a.seq = host.frame.seq,
           ~missed => /\ a.of = Id(host.frame)
                      /\ a.chunk # None => a.chunk.of[1] = era
                      /\ Follows(a)
    PROVE  /\ host'.st = "idle" /\ (~missed => host'.frame.own)
           /\ ~gap'
           /\ ~missed /\ rest' = rest => Chained'
<1>1. host' = [Idle EXCEPT !.frame = [own |-> a.of = Id(host.frame)]]
      /\ IF a.chunk = None THEN UNCHANGED <<have, gap>>
            ELSE /\ have' = IF a.chunk.more THEN [of |-> a.chunk.of, to |-> a.chunk.to] ELSE None
                 /\ gap' = (gap \/ (~missed /\ Misplaced(a.chunk)))
  BY DEF Deliver
<1>2. host'.st = "idle" /\ host'.frame.own = (a.of = Id(host.frame))
  BY <1>1 DEF Idle
<1>3. ~gap'
  <2>1. ~gap
    BY DEF WireInv, HistInv
  <2>2. ~missed /\ a.chunk # None => ~Misplaced(a.chunk)
    BY DEF Misplaced, Follows
  <2>. QED BY <1>1, <2>1, <2>2
<1>4. ASSUME ~missed, rest' = rest PROVE Chained'
  <2>1. CASE a.chunk = None
    BY <1>1, <1>4, <2>1 DEF Follows, Chained
  <2>2. CASE a.chunk # None
    BY <1>1, <1>4, <2>2 DEF Follows, Chained
  <2>. QED BY <2>1, <2>2
<1>. QED BY <1>2, <1>3, <1>4

(* usb-bao1x answers POWERON and STATUS itself. *)
LEMMA InlineAnswerWire ==
    ASSUME WireInv, ServesInv, InlineAnswer
    PROVE  WireInv' /\ ServesInv'
<1>1. /\ via # "class" /\ link = "up" /\ host.st = "waiting" /\ Inline(host.frame)
      /\ Deliver(Answer(host.frame, "ok", None))
      /\ UNCHANGED <<via, boot, backend, flags, rest, rx, ans, left, link, last, loop, inbox, era, seq, sent,
                     missed, unsafe>>
  BY DEF InlineAnswer, card
<1>2. /\ host' = [Idle EXCEPT !.frame = [own |-> Id(host.frame) = Id(host.frame)]]
      /\ UNCHANGED <<have, gap>>
  BY <1>1 DEF Deliver, Answer
<1>3. host'.st = "idle" /\ host'.frame.own
  BY <1>2 DEF Idle
<1>4. ~Recovering /\ ~Recovering'
  BY <1>1, <1>3 DEF Recovering, Inline
<1>5. Flying' = Flying /\ Chained' = Chained /\ Follows(ans)' = Follows(ans)
  BY <1>1, <1>2 DEF Flying, Chained, Follows
<1>6. TypesInv'
  BY <1>1, <1>5 DEF WireInv, TypesInv, RestOK
<1>7. HostInv' /\ ClassInv'
  BY <1>1, <1>3 DEF WireInv, HostInv, ClassInv
<1>8. LoopInv'
  BY <1>1, <1>3, <1>4 DEF WireInv, LoopInv
<1>9. LiveInv' /\ DownInv'
  BY <1>1, <1>5 DEF WireInv, LiveInv, DownInv
<1>10. HistInv' /\ ServesInv'
  BY <1>1, <1>2, <1>3 DEF WireInv, HistInv, AnswersOwnCommand, ServesInv, Up
<1>. QED BY <1>6, <1>7, <1>8, <1>9, <1>10 DEF WireInv

(* The driver sends a command. *)
LEMMA HostSendWire ==
    ASSUME WireInv, ServesInv, NEW c \in Commands, HostSend(c)
    PROVE  WireInv' /\ ServesInv'
<1>. DEFINE f == [cmd |-> c, seq |-> seq, era |-> era]
<1>1. /\ link = "up" /\ sent < MaxCommands
      /\ host.st = "idle" \/ (host.st = "recover" /\ c.op \in {"POWEROFF", "ABORT"})
      /\ seq' = seq + 1 /\ sent' = sent + 1
      /\ host' = [st |-> "waiting", frame |-> f, sent |-> 0]
      /\ inbox' = IF via = "class" THEN inbox ELSE Append(inbox, f)
      /\ have' = IF c.op = "RESPONSE" THEN have ELSE None
      /\ UNCHANGED <<via, boot, backend, flags, rest, rx, ans, left, link, last, loop, era, missed, unsafe, gap>>
  BY DEF HostSend, card
<1>2. f \in Frame /\ f.cmd = c /\ f.seq = seq /\ f.era = era /\ seq \in Nat
  BY DEF WireInv, TypesInv, Frame
<1>. HIDE DEF f
<1>3. host' \in Waiting /\ host'.st = "waiting" /\ host'.frame = f /\ host'.sent = 0
  BY <1>1, <1>2 DEF Waiting
<1>4. Flying' = Flying /\ (Chained => Chained') /\ (Follows(ans) => Follows(ans)')
  <2>1. Flying' = Flying /\ (Chained => Chained')
    BY <1>1 DEF Flying, Chained
  <2>. QED BY <1>1, <2>1 DEF Follows
<1>5. inbox \in Seq(Frame) /\ Len(inbox) \in Nat /\ Len(inbox) <= sent /\ sent \in Nat
  BY CardAssumption DEF WireInv, TypesInv
<1>6. TypesInv'
  <2>1. inbox' \in Seq(Frame) /\ Len(inbox') <= sent' /\ sent' \in 0..MaxCommands /\ seq' \in Nat
    BY <1>1, <1>2, <1>5, CardAssumption
  <2>. QED BY <1>1, <1>4, <2>1 DEF WireInv, TypesInv, RestOK
<1>7. HostInv'
  BY <1>1, <1>2, <1>3 DEF HostInv
<1>8. ClassInv'
  <2>1. FramePackets(f) \in {1, 2}
    BY DEF FramePackets
  <2>. QED BY <1>1, <1>3, <2>1 DEF WireInv, ClassInv
<1>9. LoopInv'
  <2>1. SUFFICES ASSUME via # "class", ~missed PROVE LoopInv'
    BY <1>1 DEF LoopInv
  <2>2. inbox' = Append(inbox, f) /\ Len(inbox') = Len(inbox) + 1 /\ inbox'[Len(inbox')] = f
        /\ \A i \in 1..Len(inbox) : inbox'[i] = inbox[i]
    BY <1>1, <1>2, <1>5, <2>1
  <2>3. \A i \in 1..Len(inbox') : i \in 1..Len(inbox) \/ i = Len(inbox')
    BY <1>5, <2>2
  <2>4. \A i \in 1..Len(inbox) : inbox[i].era = era /\ inbox[i].seq < seq /\ inbox[i].seq \in Nat
    <3>1. \A i \in 1..Len(inbox) : inbox[i] \in Frame
      BY <1>5
    <3>. QED BY <2>1, <3>1, IdOf DEF WireInv, LoopInv
  <2>5. \A i \in 1..Len(inbox') : inbox'[i].era = era' /\ inbox'[i].seq < seq'
    BY <1>1, <1>2, <2>2, <2>3, <2>4
  <2>6. ~Recovering' => host.st = "idle" /\ ~Recovering
    BY <1>1, <1>2, <1>3 DEF Recovering
  <2>7. ~Recovering' => \A i \in 1..Len(inbox') :
            Inline(inbox'[i]) \/ (host'.st = "waiting" /\ inbox'[i] = host'.frame)
    BY <1>3, <2>1, <2>2, <2>3, <2>6 DEF WireInv, LoopInv
  <2>8. /\ \A i \in 1..(Len(inbox') - 1) : inbox'[i].seq < host'.frame.seq
        /\ inbox'[Len(inbox')] = host'.frame
    BY <1>2, <1>3, <1>5, <2>2, <2>4
  <2>9. loop = "tx" => ans.seq < seq /\ Recovering' /\ ans.seq \in Nat
    <3>1. loop = "tx" => ans.seq \in Nat
      BY <2>1 DEF WireInv, TypesInv, Flying, Answers
    <3>. QED BY <1>1, <2>1, <2>6, <3>1 DEF WireInv, LoopInv
  <2>10. loop = "tx" => ans.seq < seq' /\ ans.seq < host'.frame.seq
    BY <1>1, <1>2, <1>3, <2>9
  <2>. QED BY <1>1, <1>3, <2>5, <2>7, <2>8, <2>9, <2>10 DEF LoopInv
<1>10. LiveInv' /\ DownInv'
  <2>1. via = "class" /\ host.st # "idle" => FALSE
    BY <1>1 DEF WireInv, ClassInv
  <2>2. ~missed /\ ~Flying => Chained
    BY <1>1, <2>1 DEF WireInv, LiveInv
  <2>. QED BY <1>1, <1>4, <2>2 DEF WireInv, LiveInv, DownInv
<1>11. HistInv' /\ ServesInv'
  BY <1>1, <1>3 DEF WireInv, HistInv, AnswersOwnCommand, ServesInv, Up
<1>. QED BY <1>6, <1>7, <1>8, <1>9, <1>10, <1>11 DEF WireInv

(* ccid_rx_deferred returns a frame: skipped when usb-bao1x has answered it, handled otherwise. *)
LEMMA TakeWire ==
    ASSUME WireInv, ServesInv, NEW ok \in BOOLEAN, Take(ok)
    PROVE  WireInv' /\ ServesInv'
<1>. DEFINE f == Head(inbox)
<1>1. /\ loop = "wait" /\ inbox # <<>> /\ inbox' = Tail(inbox)
      /\ UNCHANGED <<via, boot, backend, rx, link, last, host, era, seq, sent, have, missed, gap>>
  BY DEF Take
<1>2. IF Inline(f) THEN loop' = "poll" /\ UNCHANGED <<flags, rest, ans, left, unsafe>>
                   ELSE /\ loop' = "tx" /\ left' = 0
                        /\ (Refuse(f) /\ UNCHANGED unsafe) \/ Handle(f, ok)
  BY DEF Take, card
<1>3. via # "class"
  BY <1>1 DEF WireInv, ClassInv
<1>4. /\ inbox \in Seq(Frame) /\ Len(inbox) \in Nat \ {0} /\ f = inbox[1] /\ f \in Frame
      /\ inbox' \in Seq(Frame) /\ Len(inbox') = Len(inbox) - 1
      /\ \A i \in 1..Len(inbox') : i + 1 \in 1..Len(inbox) /\ inbox'[i] = inbox[i + 1]
  BY <1>1 DEF WireInv, TypesInv
<1>. HIDE DEF f
<1>5. f.seq \in Nat /\ f.era \in 1..MaxEra
  BY <1>4, IdOf
<1>6. Recovering' = Recovering
  BY <1>1 DEF Recovering
<1>7. flags \in Flags /\ RestOK /\ sent \in 0..MaxCommands /\ Len(inbox) <= sent
  BY DEF WireInv, TypesInv
<1>8. ~missed => link = "up"
  BY <1>1 DEF WireInv, TypesInv, DownInv
<1>9. HostInv' /\ ClassInv' /\ DownInv'
  BY <1>1, <1>3, <1>8 DEF WireInv, HostInv, ClassInv, DownInv
<1>10. ASSUME via # "class", ~missed
       PROVE  /\ \A i \in 1..Len(inbox') : inbox'[i].era = era /\ inbox'[i].seq < seq
              /\ ~Recovering => \A i \in 1..Len(inbox') :
                    Inline(inbox'[i]) \/ (host.st = "waiting" /\ inbox'[i] = host.frame)
              /\ host.st = "waiting" /\ ~Inline(host.frame) /\ inbox' # <<>> =>
                    /\ \A i \in 1..(Len(inbox') - 1) : inbox'[i].seq < host.frame.seq
                    /\ inbox'[Len(inbox')] = host.frame
                    /\ f.seq < host.frame.seq
              /\ host.st # "reset" /\ f.era = era /\ f.seq < seq
              /\ ~Recovering /\ ~Inline(f) => host.st = "waiting" /\ f = host.frame
              /\ ~Recovering /\ ~Inline(f) => inbox' = <<>>
  <2>1. 1 \in 1..Len(inbox) /\ Len(inbox) \in 1..Len(inbox)
    BY <1>4
  <2>2. host.st # "reset" /\ f.era = era /\ f.seq < seq
    BY <1>4, <1>10, <2>1 DEF WireInv, LoopInv
  <2>3. ~Recovering /\ ~Inline(f) => host.st = "waiting" /\ f = host.frame
    BY <1>4, <1>10, <2>1 DEF WireInv, LoopInv
  <2>4. /\ \A i \in 1..Len(inbox') : inbox'[i].era = era /\ inbox'[i].seq < seq
        /\ ~Recovering => \A i \in 1..Len(inbox') :
                    Inline(inbox'[i]) \/ (host.st = "waiting" /\ inbox'[i] = host.frame)
    BY <1>4, <1>10 DEF WireInv, LoopInv
  <2>5. ASSUME host.st = "waiting", ~Inline(host.frame)
        PROVE  /\ \A i \in 1..(Len(inbox) - 1) : inbox[i].seq < host.frame.seq
               /\ inbox[Len(inbox)] = host.frame
    BY <1>1, <1>10, <2>5 DEF WireInv, LoopInv
  <2>6. inbox' # <<>> => Len(inbox') >= 1 /\ 1 \in 1..(Len(inbox) - 1)
    BY <1>4
  <2>7. \A i \in 1..(Len(inbox') - 1) : i + 1 \in 1..(Len(inbox) - 1) /\ i \in 1..Len(inbox')
    BY <1>4
  <2>8. host.st = "waiting" /\ ~Inline(host.frame) /\ inbox' # <<>> =>
                    /\ \A i \in 1..(Len(inbox') - 1) : inbox'[i].seq < host.frame.seq
                    /\ inbox'[Len(inbox')] = host.frame
                    /\ f.seq < host.frame.seq
    BY <1>4, <2>5, <2>6, <2>7
  <2>9. ~Recovering /\ ~Inline(f) => inbox' = <<>>
    BY <1>5, <2>3, <2>8
  <2>. QED BY <2>2, <2>3, <2>4, <2>8, <2>9
<1>11. CASE Inline(f)
  <2>1. loop' = "poll" /\ UNCHANGED <<flags, rest, ans, left, unsafe>>
    BY <1>2, <1>11
  <2>2. ~Flying /\ ~Flying' /\ Chained' = Chained
    BY <1>1, <1>3, <2>1 DEF Flying, Chained
  <2>3. TypesInv'
    BY <1>1, <1>4, <1>7, <2>1, <2>2, CardAssumption DEF WireInv, TypesInv, RestOK
  <2>4. LoopInv'
    BY <1>1, <1>6, <1>10, <2>1 DEF LoopInv
  <2>5. LiveInv'
    BY <1>1, <1>3, <2>1, <2>2 DEF WireInv, LiveInv
  <2>6. HistInv' /\ ServesInv'
    BY <1>1, <2>1 DEF WireInv, HistInv, AnswersOwnCommand, ServesInv
  <2>. QED BY <1>9, <2>3, <2>4, <2>5, <2>6 DEF WireInv
<1>12. CASE ~Inline(f)
  <2>1. loop' = "tx" /\ left' = 0
    BY <1>2, <1>12
  <2>2. Answered(f) /\ Guarded(f)
    <3>1. CASE Handle(f, ok)
      BY <1>4, <1>7, <3>1, HandleAnswers, HandleGuards
    <3>2. CASE Refuse(f) /\ UNCHANGED unsafe
      <4>1. Answered(f)
        BY <1>4, <1>7, <3>2, SayAnswers DEF Refuse, card
      <4>2. Guarded(f)
        BY <1>7, <3>2 DEF Refuse, card, Guarded, Flags
      <4>. QED BY <4>1, <4>2
    <3>. QED BY <1>2, <1>12, <3>1, <3>2
  <2>3. Flying' /\ ~Flying
    BY <1>1, <1>3, <2>1 DEF Flying
  <2>4. ans' \in Answers /\ ans'.seq = f.seq /\ ans'.of = Id(f)
    BY <2>2 DEF Answered, Replied
  <2>5. TypesInv'
    BY <1>1, <1>4, <1>7, <2>1, <2>2, <2>4, CardAssumption DEF WireInv, TypesInv, Answered, Replied, Guarded
  <2>6. LoopInv'
    BY <1>1, <1>6, <1>10, <1>12, <2>1, <2>4 DEF LoopInv
  <2>7. ASSUME ~missed
        PROVE  /\ \A p \in Purposes : flags[p] \in {None, era}
               /\ rest # None => rest.of[1] = era
               /\ Chained /\ f.era = era
    BY <1>3, <1>8, <1>10, <2>3, <2>7 DEF WireInv, LiveInv
  <2>8. LiveInv'
    <3>1. SUFFICES ASSUME ~missed PROVE LiveInv'
      BY <1>1 DEF LiveInv
    <3>2. ans'.of = <<era, ans'.seq>>
      BY <2>4, <2>7, <3>1 DEF Id
    <3>3. /\ rest' # None => rest'.of[1] = era
          /\ ans'.chunk # None => ans'.chunk.of[1] = era
          /\ Follows(ans)'
      BY <1>1, <2>2, <2>7, <3>1 DEF Answered, Replied
    <3>4. \A p \in Purposes : flags'[p] \in {None, era}
      BY <2>2, <2>7, <3>1 DEF Guarded
    <3>. QED BY <1>1, <2>3, <3>2, <3>3, <3>4 DEF LiveInv
  <2>9. HistInv'
    <3>1. \A p \in Purposes : ~Stale(f, p)
      <4>1. CASE missed
        BY <4>1 DEF Stale
      <4>2. CASE ~missed
        <5>1. \A p \in Purposes : flags[p] # None => ~(flags[p] < f.era)
          BY <1>5, <2>7, <4>2
        <5>. QED BY <5>1 DEF Stale
      <4>. QED BY <4>1, <4>2
    <3>2. ~unsafe'
      BY <2>2, <3>1 DEF Guarded, WireInv, HistInv
    <3>. QED BY <1>1, <3>2 DEF WireInv, HistInv, AnswersOwnCommand
  <2>10. ServesInv'
    BY <1>1 DEF ServesInv, Up
  <2>. QED BY <1>9, <2>5, <2>6, <2>8, <2>9, <2>10 DEF WireInv
<1>. QED BY <1>11, <1>12

(* ccid_tx *)
LEMMA TransmitWire ==
    ASSUME WireInv, NEW ok \in BOOLEAN, Transmit(ok)
    PROVE  WireInv' /\ ServesInv'
<1>1. /\ loop = "tx" /\ loop' = "poll" /\ ans' = None
      /\ UNCHANGED <<via, boot, backend, rx, left, link, last, inbox, era, seq, sent, missed, unsafe>>
  BY DEF Transmit
<1>2. via # "class" /\ Flying /\ ~Flying'
  BY <1>1 DEF WireInv, ClassInv, Flying
<1>3. ans \in Answers /\ flags \in Flags
  BY <1>2 DEF WireInv, TypesInv
<1>4. ASSUME ~missed, link = "up"
      PROVE  /\ ans.of = <<era, ans.seq>> /\ (ans.chunk # None => ans.chunk.of[1] = era) /\ Follows(ans)
             /\ ~Recovering => host.st = "waiting" /\ ans.seq = host.frame.seq /\ inbox = <<>>
             /\ Recovering => have = None
  BY <1>1, <1>2, <1>4 DEF WireInv, LiveInv, LoopInv, HostInv, Recovering
<1>5. ClassInv'
  BY <1>1, <1>2 DEF ClassInv
<1>6. CASE ok /\ link = "up"
  <2>1. Deliver(ans) /\ UNCHANGED <<flags, rest>>
    BY <1>6 DEF Transmit, card
  <2>2. TypesInv'
    BY <1>1, <1>2, <2>1 DEF WireInv, TypesInv, RestOK
  <2>3. CASE host.st = "waiting" /\ ans.seq = host.frame.seq
    <3>0. ~missed => ans.of = Id(host.frame)
      BY <1>4, <1>6, <2>3 DEF Id, WireInv, HostInv
    <3>1. host'.st = "idle" /\ (~missed => host'.frame.own) /\ ~gap' /\ (~missed => Chained')
      BY <1>3, <1>4, <1>6, <2>1, <2>3, <3>0, Delivery
    <3>2. HostInv'
      BY <1>1, <1>6, <3>1 DEF HostInv
    <3>3. LoopInv'
      <4>1. SUFFICES ASSUME ~missed PROVE LoopInv'
        BY <1>1 DEF LoopInv
      <4>2. inbox = <<>>
        <5>1. CASE ~Recovering
          BY <1>4, <1>6, <4>1, <5>1
        <5>2. CASE Recovering
          <6>1. ~Inline(host.frame)
            BY <2>3, <5>2 DEF Recovering, Inline
          <6>2. ans.seq \in Nat
            BY <1>3 DEF Answers
          <6>. QED BY <1>1, <1>2, <2>3, <4>1, <6>1, <6>2 DEF WireInv, LoopInv
        <5>. QED BY <5>1, <5>2
      <4>. QED BY <1>1, <3>1, <4>2 DEF LoopInv
    <3>4. LiveInv' /\ DownInv'
      BY <1>1, <1>2, <1>6, <2>1, <3>1 DEF WireInv, LiveInv, DownInv
    <3>5. HistInv' /\ ServesInv'
      BY <1>1, <3>1 DEF WireInv, HistInv, AnswersOwnCommand, ServesInv
    <3>. QED BY <1>5, <2>2, <3>2, <3>3, <3>4, <3>5 DEF WireInv
  <2>4. CASE ~(host.st = "waiting" /\ ans.seq = host.frame.seq)
    <3>1. UNCHANGED <<host, have, gap>>
      BY <2>1, <2>4 DEF Deliver
    <3>2. ~missed => Chained'
      BY <1>4, <1>6, <2>4, <3>1 DEF Chained
    <3>3. HostInv'
      BY <1>1, <3>1 DEF WireInv, HostInv
    <3>4. LoopInv'
      BY <1>1, <3>1 DEF WireInv, LoopInv, Recovering
    <3>5. LiveInv' /\ DownInv'
      BY <1>1, <1>2, <1>6, <2>1, <3>2 DEF WireInv, LiveInv, DownInv
    <3>6. HistInv' /\ ServesInv'
      BY <1>1, <3>1 DEF WireInv, HistInv, AnswersOwnCommand, ServesInv
    <3>. QED BY <1>5, <2>2, <3>3, <3>4, <3>5, <3>6 DEF WireInv
  <2>. QED BY <2>3, <2>4
<1>7. CASE ~(ok /\ link = "up")
  <2>1. flags' = NoFlags /\ rest' = None /\ UNCHANGED <<host, have, gap>>
    BY <1>7 DEF Transmit, ResetState
  <2>2. TypesInv'
    BY <1>1, <1>2, <2>1, Nothing DEF WireInv, TypesInv, RestOK
  <2>3. HostInv'
    BY <1>1, <2>1 DEF WireInv, HostInv
  <2>4. LoopInv'
    BY <1>1, <2>1 DEF WireInv, LoopInv, Recovering
  <2>5. LiveInv' /\ DownInv'
    BY <1>1, <1>2, <2>1, Nothing DEF WireInv, LiveInv, DownInv, Chained
  <2>6. HistInv' /\ ServesInv'
    BY <1>1, <2>1 DEF WireInv, HistInv, AnswersOwnCommand, ServesInv
  <2>. QED BY <1>5, <2>2, <2>3, <2>4, <2>5, <2>6 DEF WireInv
<1>. QED BY <1>6, <1>7

(* The first packet of a long frame is kept; with the last one the frame is dispatched. *)
LEMMA PushOutSteps ==
    ASSUME WireInv, NEW ok, PushOut(ok)
    PROVE  /\ via = "class" /\ host.st = "waiting" /\ ans = None
           /\ host' = [host EXCEPT !.sent = @ + 1]
           /\ \/ /\ host.sent = 0 /\ FramePackets(host.frame) = 2 /\ rx' = <<host.frame>>
                 /\ UNCHANGED <<objects, card, ans, left, unsafe>>
              \/ /\ host.sent + 1 = FramePackets(host.frame) /\ rx' = <<>>
                 /\ Dispatch(host.frame, ok)
<1>. DEFINE f    == host.frame
            buf  == Append(rx, f)
            need == FramePackets(Head(buf))
<1>1. /\ via = "class" /\ host.st = "waiting" /\ host.sent < FramePackets(f)
      /\ host' = [host EXCEPT !.sent = @ + 1]
      /\ IF Len(buf) < need
           THEN rx' = buf /\ UNCHANGED <<objects, card, ans, left, unsafe>>
           ELSE /\ rx' = SubSeq(buf, need + 1, Len(buf))
                /\ IF \A i \in 1..need : buf[i] = buf[1]
                   THEN Dispatch(buf[1], ok)
                   ELSE Malformed(f) /\ left' = 1
  BY DEF PushOut
<1>2. /\ f \in Frame /\ host.sent \in 0..2
      /\ host.sent = FramePackets(f) \/ ans = None
      /\ rx = IF host.sent = 1 /\ FramePackets(f) = 2 THEN <<f>> ELSE <<>>
  BY <1>1 DEF WireInv, HostInv, ClassInv, Waiting
<1>3. FramePackets(f) \in {1, 2}
  BY DEF FramePackets
<1>4. ans = None
  BY <1>1, <1>2, <1>3
<1>. HIDE DEF f
<1>5. CASE host.sent = 0
  <2>1. buf = <<f>> /\ Len(buf) = 1 /\ Head(buf) = f /\ buf[1] = f
    BY <1>2, <1>5
  <2>2. CASE FramePackets(f) = 2
    BY <1>1, <1>4, <1>5, <2>1, <2>2 DEF f
  <2>3. CASE FramePackets(f) = 1
    <3>1. need = 1 /\ ~(Len(buf) < need) /\ \A i \in 1..need : buf[i] = buf[1]
      BY <2>1, <2>3
    <3>2. SubSeq(buf, 2, 1) = <<>>
      BY <2>1, <1>2
    <3>. QED BY <1>1, <1>4, <1>5, <2>1, <2>3, <3>1, <3>2 DEF f
  <2>. QED BY <1>3, <2>2, <2>3
<1>6. CASE host.sent = 1 /\ FramePackets(f) = 2
  <2>1. Len(buf) = 2 /\ Head(buf) = f /\ buf[1] = f /\ buf[2] = f
    <3>1. rx = <<f>>
      BY <1>2, <1>6
    <3>2. rx \in Seq(Frame) /\ Len(rx) = 1 /\ rx[1] = f
      BY <1>2, <3>1
    <3>3. buf \in Seq(Frame) /\ Len(buf) = 2 /\ buf[1] = f /\ buf[2] = f
      BY <1>2, <3>2
    <3>. HIDE DEF buf
    <3>. QED BY <3>3
  <2>2. need = 2 /\ ~(Len(buf) < need)
    BY <1>6, <2>1
  <2>3. \A i \in 1..need : buf[i] = buf[1]
    <3>1. \A i \in 1..need : i = 1 \/ i = 2
      BY <2>2
    <3>. QED BY <2>1, <3>1
  <2>4. SubSeq(buf, 3, 2) = <<>>
    BY <1>2, <2>1
  <2>. QED BY <1>1, <1>4, <1>6, <2>1, <2>2, <2>3, <2>4 DEF f
<1>. QED BY <1>1, <1>2, <1>3, <1>5, <1>6

(* endpoint_out *)
LEMMA PushOutWire ==
    ASSUME WireInv, ServesInv, NEW ok \in BOOLEAN, PushOut(ok)
    PROVE  WireInv' /\ ServesInv'
<1>. DEFINE f == host.frame
<1>1. UNCHANGED <<via, boot, backend, link, last, loop, inbox, era, seq, sent, have, missed, gap>>
  BY DEF PushOut
<1>2. /\ via = "class" /\ host.st = "waiting" /\ ans = None /\ host' = [host EXCEPT !.sent = @ + 1]
      /\ \/ /\ host.sent = 0 /\ FramePackets(f) = 2 /\ rx' = <<f>>
            /\ UNCHANGED <<flags, rest, ans, left, unsafe>>
         \/ host.sent + 1 = FramePackets(f) /\ rx' = <<>> /\ Dispatch(f, ok)
  BY PushOutSteps DEF card
<1>3. /\ host \in Waiting /\ f \in Frame /\ host.sent \in 0..2 /\ f.era = era /\ f.seq + 1 = seq
      /\ f.cmd.op # "RESPONSE" => have = None
  BY <1>2 DEF WireInv, HostInv, Waiting
<1>4. FramePackets(f) \in {1, 2}
  BY DEF FramePackets
<1>5. host' \in Waiting /\ host'.st = "waiting" /\ host'.frame = f /\ host'.sent = host.sent + 1
  BY <1>2, <1>3, <1>4 DEF Waiting
<1>. HIDE DEF f
<1>6. /\ link = "up" /\ last = "up" /\ loop = "poll" /\ inbox = <<>> /\ ~missed /\ ~Flying
      /\ flags \in Flags /\ RestOK
  BY <1>2 DEF WireInv, ClassInv, TypesInv, Flying
<1>7. /\ \A p \in Purposes : flags[p] \in {None, era}
      /\ rest # None => rest.of[1] = era
  BY <1>6 DEF WireInv, LiveInv
<1>8. Chained
  <2>1. host.sent # FramePackets(f)
    BY <1>2, <1>3, <1>4
  <2>. QED BY <1>6, <2>1 DEF WireInv, LiveInv, f
<1>9. HostInv'
  BY <1>1, <1>3, <1>5, <1>6 DEF HostInv
<1>10. LoopInv' /\ DownInv' /\ ServesInv'
  BY <1>1, <1>2, <1>6 DEF LoopInv, DownInv, ServesInv
<1>11. CASE host.sent = 0 /\ FramePackets(f) = 2 /\ rx' = <<f>> /\ UNCHANGED <<flags, rest, ans, left, unsafe>>
  <2>1. rx' \in Seq(Frame) /\ Len(rx') < 2
    BY <1>3, <1>11
  <2>2. ~Flying' /\ Chained'
    BY <1>1, <1>2, <1>8, <1>11 DEF Flying, Chained
  <2>3. TypesInv'
    BY <1>1, <1>11, <2>1, <2>2 DEF WireInv, TypesInv, RestOK
  <2>4. ClassInv'
    BY <1>1, <1>2, <1>5, <1>6, <1>11 DEF ClassInv
  <2>5. LiveInv'
    BY <1>1, <1>7, <1>11, <2>2 DEF LiveInv
  <2>6. HistInv'
    BY <1>1, <1>5, <1>11 DEF WireInv, HistInv, AnswersOwnCommand
  <2>. QED BY <1>9, <1>10, <2>3, <2>4, <2>5, <2>6 DEF WireInv
<1>12. CASE host.sent + 1 = FramePackets(f) /\ rx' = <<>> /\ Dispatch(f, ok)
  <2>1. (Malformed(f) \/ Handle(f, ok)) /\ left' = Packets(ans')
    BY <1>12 DEF Dispatch
  <2>2. Replied(f) /\ Guarded(f)
    <3>1. CASE Handle(f, ok)
      BY <1>3, <1>6, <3>1, HandleAnswers, HandleGuards DEF Answered
    <3>2. CASE Malformed(f)
      <4>1. Guarded(f)
        BY <1>6, <3>2 DEF Malformed, card, Guarded, Flags
      <4>. QED BY <1>3, <1>6, <3>2, <4>1, MalformedAnswers
    <3>. QED BY <2>1, <3>1, <3>2
  <2>3. ans' \in Answers /\ ans'.of = Id(f) /\ left' \in 0..2
    BY <2>1, <2>2 DEF Replied, Packets
  <2>4. TypesInv'
    BY <1>1, <1>12, <2>2, <2>3, Nothing DEF WireInv, TypesInv, Replied, Guarded
  <2>5. ClassInv'
    <3>1. rx' = IF host'.sent = 1 /\ FramePackets(f) = 2 THEN <<f>> ELSE <<>>
      BY <1>5, <1>12
    <3>2. host'.sent = FramePackets(f) /\ host'.sent <= FramePackets(f)
      BY <1>4, <1>5, <1>12
    <3>. QED BY <1>1, <1>5, <1>6, <2>3, <3>1, <3>2 DEF ClassInv
  <2>6. LiveInv'
    <3>1. /\ rest' # None => rest'.of[1] = era
          /\ ans'.chunk # None => ans'.chunk.of[1] = era
          /\ Follows(ans)'
      BY <1>1, <1>3, <1>7, <1>8, <2>2 DEF Replied
    <3>2. \A p \in Purposes : flags'[p] \in {None, era}
      BY <1>3, <1>7, <2>2 DEF Guarded
    <3>3. via' = "class" /\ host'.st = "waiting" /\ host'.sent = FramePackets(host'.frame)
      BY <1>1, <1>2, <1>5, <1>12
    <3>. QED BY <1>1, <1>2, <3>1, <3>2, <3>3 DEF LiveInv
  <2>7. HistInv'
    <3>1. \A p \in Purposes : ~Stale(f, p)
      <4>1. era \in Nat
        BY DEF WireInv, TypesInv
      <4>2. \A p \in Purposes : flags[p] # None => ~(flags[p] < f.era)
        BY <1>3, <1>7, <4>1
      <4>. QED BY <4>2 DEF Stale
    <3>2. ~unsafe'
      BY <2>2, <3>1 DEF Guarded, WireInv, HistInv
    <3>. QED BY <1>1, <1>5, <3>2 DEF WireInv, HistInv, AnswersOwnCommand
  <2>. QED BY <1>9, <1>10, <2>4, <2>5, <2>6, <2>7 DEF WireInv
<1>. QED BY <1>2, <1>11, <1>12

(* poll_bulk_in_inner *)
LEMMA PollInWire ==
    ASSUME WireInv, ServesInv, NEW ok \in BOOLEAN, PollIn(ok)
    PROVE  WireInv' /\ ServesInv'
<1>1. /\ via = "class" /\ ans # None
      /\ UNCHANGED <<via, boot, backend, flags, rest, rx, link, last, loop, inbox, era, seq, sent, missed, unsafe>>
  BY DEF PollIn, card
<1>2. /\ link = "up" /\ last = "up" /\ loop = "poll" /\ inbox = <<>> /\ ~missed /\ Flying
      /\ host.st # "recover" /\ host.st # "idle" /\ ans \in Answers
  BY <1>1 DEF WireInv, ClassInv, TypesInv, Flying
<1>3. /\ \A p \in Purposes : flags[p] \in {None, era}
      /\ rest # None => rest.of[1] = era
      /\ (ans.chunk # None => ans.chunk.of[1] = era) /\ Follows(ans)
  BY <1>2 DEF WireInv, LiveInv
<1>4. host.st = "waiting" => /\ host.sent = FramePackets(host.frame) /\ rx = <<>>
                             /\ ans.of = Id(host.frame)
  <2>1. ~(FramePackets(host.frame) = 1 /\ FramePackets(host.frame) = 2)
    OBVIOUS
  <2>. QED BY <1>1, <2>1 DEF WireInv, ClassInv
<1>5. host.st \in {"waiting", "reset"}
  BY <1>2 DEF WireInv, HostInv
<1>6. LoopInv' /\ DownInv' /\ ServesInv'
  BY <1>1, <1>2 DEF LoopInv, DownInv, ServesInv
<1>7. CASE ok /\ left > 1
  <2>1. left' = left - 1 /\ UNCHANGED <<ans, host, have, gap>>
    BY <1>7 DEF PollIn
  <2>2. Flying' = Flying /\ Chained' = Chained /\ Follows(ans)' = Follows(ans) /\ left' \in 0..2
    BY <1>1, <1>7, <2>1 DEF Flying, Chained, Follows, WireInv, TypesInv
  <2>3. TypesInv'
    BY <1>1, <2>1, <2>2 DEF WireInv, TypesInv, RestOK
  <2>4. HostInv' /\ ClassInv'
    BY <1>1, <2>1 DEF WireInv, HostInv, ClassInv
  <2>5. LiveInv' /\ HistInv'
    BY <1>1, <2>1, <2>2 DEF WireInv, LiveInv, HistInv, AnswersOwnCommand
  <2>. QED BY <1>6, <2>3, <2>4, <2>5 DEF WireInv
<1>8. CASE ~(ok /\ left > 1)
  <2>1. /\ ans' = None /\ left' = 0
        /\ IF ok THEN Deliver(ans) ELSE UNCHANGED <<host, have, gap>>
    BY <1>8 DEF PollIn
  <2>2. ~Flying'
    BY <1>1, <2>1 DEF Flying
  <2>3. TypesInv'
    BY <1>1, <2>1, <2>2 DEF WireInv, TypesInv, RestOK
  <2>4. CASE ok /\ host.st = "waiting" /\ ans.seq = host.frame.seq
    <3>1. host'.st = "idle" /\ host'.frame.own /\ ~gap' /\ Chained'
      BY <1>1, <1>2, <1>3, <1>4, <2>1, <2>4, Delivery
    <3>2. HostInv' /\ ClassInv'
      BY <1>1, <1>2, <1>4, <2>1, <2>4, <3>1 DEF HostInv, ClassInv
    <3>3. LiveInv'
      BY <1>1, <1>3, <2>2, <3>1 DEF LiveInv
    <3>4. HistInv'
      BY <1>1, <3>1 DEF WireInv, HistInv, AnswersOwnCommand
    <3>. QED BY <1>6, <2>3, <3>2, <3>3, <3>4 DEF WireInv
  <2>5. CASE ~(ok /\ host.st = "waiting" /\ ans.seq = host.frame.seq)
    <3>1. UNCHANGED <<host, have, gap>>
      BY <2>1, <2>5 DEF Deliver
    <3>2. HostInv' /\ ClassInv'
      BY <1>1, <1>2, <1>4, <1>5, <2>1, <3>1 DEF WireInv, HostInv, ClassInv
    <3>3. host.st = "reset" => Chained'
      BY <3>1 DEF WireInv, HostInv, Chained
    <3>4. LiveInv'
      BY <1>1, <1>3, <1>4, <1>5, <2>2, <3>1, <3>3 DEF LiveInv
    <3>5. HistInv'
      BY <1>1, <3>1 DEF WireInv, HistInv, AnswersOwnCommand
    <3>. QED BY <1>6, <2>3, <3>2, <3>4, <3>5 DEF WireInv
  <2>. QED BY <2>4, <2>5
<1>. QED BY <1>7, <1>8

-----------------------------------------------------------------------------
(* The whole card. *)

CardInv == ObjInv /\ WireInv /\ ServesInv

(* A step that leaves the objects and the boot alone. *)
LEMMA SameObjects ==
    ASSUME ObjInv, UNCHANGED <<objects, boot>>
    PROVE  ObjInv'
BY DEF ObjInv, RegionInv, KeysInv, KeysReload, Kept, objects

(* Frames reach the objects through the dispatcher only; a power cut forgets the keys of RAM. *)
LEMMA ObjectsStep ==
    ASSUME CardInv, Next
    PROVE  ObjInv'
<1>. USE DEF CardInv
<1>1. CASE BootHeader \/ BootDefault \/ BootKeys
  BY <1>1, BootObjects
<1>2. CASE Switch \/ InlineAnswer \/ Poll \/ WaitFails \/ HostGivesUp \/ BusReset \/ LinkDown \/ LinkUp
  <2>1. UNCHANGED <<objects, boot>>
    BY <1>2 DEF Switch, InlineAnswer, Poll, WaitFails, HostGivesUp, BusReset, LinkDown, LinkUp
  <2>. QED BY <2>1, SameObjects
<1>3. ASSUME NEW ok \in BOOLEAN, PollIn(ok) \/ Transmit(ok) PROVE ObjInv'
  <2>1. UNCHANGED <<objects, boot>>
    BY <1>3 DEF PollIn, Transmit
  <2>. QED BY <2>1, SameObjects
<1>4. ASSUME NEW c \in Commands, HostSend(c) PROVE ObjInv'
  <2>1. UNCHANGED <<objects, boot>>
    BY <1>4 DEF HostSend
  <2>. QED BY <2>1, SameObjects
<1>5. ASSUME NEW ok \in BOOLEAN, PushOut(ok) PROVE ObjInv'
  <2>1. boot' = boot /\ (backend = "stub" \/ boot = 8)
    BY <1>5 DEF PushOut, Up
  <2>2. host.frame \in Frame
    BY <1>5, PushOutSteps DEF WireInv, HostInv, Waiting
  <2>3. UNCHANGED objects \/ Handle(host.frame, ok)
    BY <1>5, PushOutSteps DEF Dispatch, Malformed
  <2>. QED BY <2>1, <2>2, <2>3, HandleObjects, SameObjects
<1>6. ASSUME NEW ok \in BOOLEAN, Take(ok) PROVE ObjInv'
  <2>1. boot' = boot /\ (backend = "stub" \/ boot = 8)
    BY <1>6 DEF Take, ServesInv, Up
  <2>2. Head(inbox) \in Frame
    BY <1>6 DEF Take, WireInv, TypesInv
  <2>3. UNCHANGED objects \/ Handle(Head(inbox), ok)
    BY <1>6 DEF Take, Refuse
  <2>. QED BY <2>1, <2>2, <2>3, HandleObjects, SameObjects
<1>7. CASE PowerCut
  <2>1. boot' = 1 /\ keyRam' = NoKeys /\ sigCounter' = 0 /\ fit' = {} /\ UNCHANGED <<header, slots, blob, wrote>>
    BY <1>7 DEF PowerCut, ForgetRam
  <2>2. RegionInv'
    BY <2>1 DEF ObjInv, RegionInv, Kept
  <2>3. KeysInv'
    BY <2>1 DEF ObjInv, KeysInv, KeysReload, NoKeys
  <2>. QED BY <2>2, <2>3 DEF ObjInv
<1>. QED BY <1>1, <1>2, <1>3, <1>4, <1>5, <1>6, <1>7 DEF Next, Device

(* The wire, step by step. *)
LEMMA WireStep ==
    ASSUME CardInv, Next
    PROVE  WireInv' /\ ServesInv'
<1>. USE DEF CardInv
<1>1. CASE Device
  <2>1. CASE BootHeader \/ BootDefault \/ BootKeys
    BY <2>1, BootWire
  <2>2. CASE Switch \/ InlineAnswer \/ Poll \/ WaitFails
    BY <2>2, SwitchWire, InlineAnswerWire, PollWire, WaitFailsWire
  <2>3. CASE \E ok \in BOOLEAN : PushOut(ok) \/ PollIn(ok) \/ Take(ok) \/ Transmit(ok)
    BY <2>3, PushOutWire, PollInWire, TakeWire, TransmitWire
  <2>. QED BY <1>1, <2>1, <2>2, <2>3 DEF Device
<1>2. CASE \E c \in Commands : HostSend(c)
  BY <1>2, HostSendWire
<1>3. CASE HostGivesUp \/ BusReset \/ LinkDown \/ LinkUp \/ PowerCut
  BY <1>3, HostGivesUpWire, BusResetWire, LinkDownWire, LinkUpWire, PowerCutWire
<1>. QED BY <1>1, <1>2, <1>3 DEF Next

(* The inductive invariant of the card holds in every behaviour: the DO     *)
(* region and the keys of vault_backend.rs, what is on its way between the  *)
(* driver and the dispatcher, and the enumeration everything belongs to.    *)
THEOREM CardInvariance == Spec => []CardInv
<1>1. Init => CardInv
  BY ObjectsStart, WireStart DEF CardInv
<1>2. CardInv /\ [Next]_vars => CardInv'
  <2>1. ASSUME CardInv, Next PROVE CardInv'
    BY <2>1, ObjectsStep, WireStep DEF CardInv
  <2>2. ASSUME CardInv, UNCHANGED vars PROVE CardInv'
    <3>1. /\ UNCHANGED <<objects, boot>>
          /\ UNCHANGED <<via, backend, flags, rest, rx, ans, left, link, last, loop, inbox, host, era, seq, sent,
                         have, missed, unsafe, gap>>
      BY <2>2 DEF vars, card, wire, hist
    <3>2. ObjInv'
      BY <2>2, <3>1, SameObjects DEF CardInv
    <3>3. Flying' = Flying /\ Recovering' = Recovering /\ Chained' = Chained /\ Follows(ans)' = Follows(ans)
      BY <3>1 DEF Flying, Recovering, Chained, Follows
    <3>4. TypesInv' /\ HostInv' /\ ClassInv'
      BY <2>2, <3>1, <3>3 DEF CardInv, WireInv, TypesInv, RestOK, HostInv, ClassInv
    <3>5. LoopInv' /\ LiveInv' /\ DownInv' /\ HistInv' /\ ServesInv'
      BY <2>2, <3>1, <3>3 DEF CardInv, WireInv, LoopInv, LiveInv, DownInv, HistInv, AnswersOwnCommand,
                              ServesInv, Up
    <3>. QED BY <3>2, <3>4, <3>5 DEF CardInv, WireInv
  <2>. QED BY <2>1, <2>2
<1>. QED BY <1>1, <1>2, PTL DEF Spec

-----------------------------------------------------------------------------
(* Types that the invariant above does not say. *)

HeldInv ==
    /\ \A i \in 1..SlotCount : Holds(slots[i].tag, slots[i].val)
    /\ \A t \in DOMAIN wrote : Holds(t, wrote[t])

KeyTypes == blob \in [KeySlot -> Blobs] /\ keyRam \in [KeySlot -> RamKeys]

HostTypes ==
    /\ host \in Hosts /\ have \in [of : Ids, to : Nat] \cup {None}
    /\ gap \in BOOLEAN /\ lost \in BOOLEAN

ShapeInv ==
    /\ HeldInv /\ KeyTypes /\ HostTypes
    /\ via \in Vias /\ ans \in Answers \cup {None} /\ unsafe \in BOOLEAN /\ seq \in 0..sent

(* The defaults are stored under their tags. *)
LEMMA DefaultsHold ==
    /\ \A i \in 1..5 : Holds(Defaults[i][1], Defaults[i][2])
    /\ \A d \in Range(Defaults) : Holds(d[1], d[2])
<1>1. /\ Defaults[1] = <<"C1", "ecdsa">> /\ Defaults[2] = <<"C2", "ecdh">>
      /\ Defaults[3] = <<"C3", "ecdsa">> /\ Defaults[4] = <<"C4", "status">>
      /\ Defaults[5] = <<"93", 0>>
  BY DEF Defaults
<1>2. \A i \in 1..5 : i = 1 \/ i = 2 \/ i = 3 \/ i = 4 \/ i = 5
  OBVIOUS
<1>3. \A i \in 1..5 : Defaults[i] = <<Defaults[i][1], Defaults[i][2]>> /\ Defaults[i] \in Range(Defaults)
  BY <1>1, <1>2, DefaultsAre
<1>4. \A i \in 1..5 : Holds(Defaults[i][1], Defaults[i][2])
  BY <1>3 DEF Holds
<1>. QED BY <1>4, DefaultsAre

(* DoStore::write puts nothing else anywhere. *)
LEMMA StoreHolds ==
    ASSUME RegionInv, HeldInv, NEW t, NEW v, Holds(t, v), Store(t, v)
    PROVE  HeldInv'
<1>1. /\ slots' = [slots EXCEPT ![Place(t)] = [tag |-> t, val |-> v]]
      /\ wrote' = [u \in {t} \cup DOMAIN wrote |-> IF u = t THEN v ELSE wrote[u]]
      /\ DOMAIN slots = 1..SlotCount
  BY DEF Store, RegionInv
<1>2. ASSUME NEW i \in 1..SlotCount PROVE Holds(slots'[i].tag, slots'[i].val)
  <2>1. CASE i = Place(t)
    <3>1. slots'[i].tag = t /\ slots'[i].val = v
      BY <1>1, <2>1
    <3>. QED BY <3>1
  <2>2. CASE i # Place(t)
    <3>1. slots'[i] = slots[i]
      BY <1>1, <2>2
    <3>. QED BY <3>1 DEF HeldInv
  <2>. QED BY <2>1, <2>2
<1>3. ASSUME NEW u \in DOMAIN wrote' PROVE Holds(u, wrote'[u])
  <2>1. CASE u = t
    <3>1. wrote'[u] = v
      BY <1>1, <2>1
    <3>. QED BY <2>1, <3>1
  <2>2. CASE u # t
    <3>1. u \in DOMAIN wrote /\ wrote'[u] = wrote[u]
      BY <1>1, <2>2
    <3>. QED BY <3>1 DEF HeldInv
  <2>. QED BY <2>1, <2>2
<1>. QED BY <1>2, <1>3 DEF HeldInv, Holds

(* The attributes of a slot name one of the algorithms, and its form is one of the three. *)
LEMMA AlgForms ==
    ASSUME NEW s \in KeySlot, NEW alg
    PROVE  /\ Attributes(s) \in Algs
           /\ Form(s, alg) # None => Form(s, alg) \in {"Brainpool", "Ed25519", "X25519"}
BY DEF Attributes, Algs, Form

(* A key in RAM comes from a blob. *)
LEMMA LoadTypes ==
    ASSUME blob \in [KeySlot -> Blobs], NEW s \in KeySlot
    PROVE  Loaded(s) \subseteq RamKeys
<1>. DEFINE form == Form(s, Attributes(s))
<1>1. blob[s] # None => blob[s].key \in Keys
  BY DEF Blobs
<1>2. form # None => form \in {"Brainpool", "Ed25519", "X25519"}
  BY AlgForms
<1>3. ASSUME blob[s] # None, form # None PROVE [key |-> blob[s].key, form |-> form] \in RamKeys
  BY <1>1, <1>2, <1>3 DEF RamKeys
<1>4. None \in RamKeys
  BY DEF RamKeys
<1>5. Loaded(s) \subseteq {None} \cup (IF blob[s] # None /\ form # None
                                       THEN {[key |-> blob[s].key, form |-> form]} ELSE {})
  BY DEF Loaded
<1>. HIDE DEF form
<1>. QED BY <1>3, <1>4, <1>5

(* At power-on. *)
LEMMA ShapeStart == ASSUME Init PROVE ShapeInv
<1>1. /\ via \in Vias /\ ans = None /\ unsafe = FALSE /\ gap = FALSE /\ lost = FALSE /\ have = None
      /\ host = Idle /\ seq = 0 /\ sent = 0 /\ keyRam = NoKeys
  BY DEF Init, ObjectsInit
<1>2. host \in Hosts
  BY <1>1 DEF Idle, Hosts
<1>3. keyRam \in [KeySlot -> RamKeys]
  BY <1>1 DEF NoKeys, RamKeys
<1>4. blob \in [KeySlot -> Blobs]
  <2>. DEFINE k == CHOOSE k \in Keys : TRUE
  <2>1. blob = NoKeys
        \/ blob = [s \in KeySlot |-> [key |-> k, alg |-> IF s = "DEC" THEN "ecdh" ELSE "ecdsa"]]
    BY DEF Init, ObjectsInit
  <2>2. k \in Keys
    BY ObjectsAssumption
  <2>. HIDE DEF k
  <2>. QED BY <2>1, <2>2 DEF NoKeys, Blobs, Algs
<1>5. HeldInv
  <2>1. Holds("00", None)
    BY DEF Holds
  <2>2. CASE slots = EmptySlots /\ wrote = <<>>
    <3>1. DOMAIN wrote = {}
      BY <2>2
    <3>2. \A i \in 1..SlotCount : slots[i].tag = "00" /\ slots[i].val = None
      BY <2>2 DEF EmptySlots, EmptySlot
    <3>. QED BY <2>1, <3>1, <3>2 DEF HeldInv
  <2>3. CASE /\ slots = [i \in 1..SlotCount |->
                        IF i <= Len(Defaults) THEN [tag |-> Defaults[i][1], val |-> Defaults[i][2]]
                                              ELSE EmptySlot]
             /\ wrote = [t \in {d[1] : d \in Range(Defaults)} |->
                        (CHOOSE d \in Range(Defaults) : d[1] = t)[2]]
    <3>1. ASSUME NEW i \in 1..SlotCount PROVE Holds(slots[i].tag, slots[i].val)
      <4>1. CASE i <= Len(Defaults)
        <5>1. i \in 1..5 /\ slots[i].tag = Defaults[i][1] /\ slots[i].val = Defaults[i][2]
          BY <2>3, <4>1, DefaultsAre
        <5>. QED BY <5>1, DefaultsHold
      <4>2. CASE ~(i <= Len(Defaults))
        <5>1. slots[i].tag = "00" /\ slots[i].val = None
          BY <2>3, <4>2 DEF EmptySlot
        <5>. QED BY <2>1, <5>1
      <4>. QED BY <4>1, <4>2
    <3>2. ASSUME NEW t \in DOMAIN wrote PROVE Holds(t, wrote[t])
      <4>. DEFINE d == CHOOSE d \in Range(Defaults) : d[1] = t
      <4>1. t \in {x[1] : x \in Range(Defaults)} /\ wrote[t] = d[2]
        BY <2>3
      <4>2. d \in Range(Defaults) /\ d[1] = t
        BY <4>1
      <4>. HIDE DEF d
      <4>. QED BY <4>1, <4>2, DefaultsHold
    <3>. QED BY <3>1, <3>2 DEF HeldInv
  <2>. QED BY <2>2, <2>3 DEF Init, ObjectsInit
<1>6. HostTypes
  BY <1>1, <1>2 DEF HostTypes
<1>7. ans \in Answers \cup {None} /\ unsafe \in BOOLEAN
  BY <1>1
<1>8. seq \in 0..sent
  BY <1>1
<1>. QED BY <1>1, <1>3, <1>4, <1>5, <1>6, <1>7, <1>8 DEF ShapeInv, KeyTypes

(* A command stores what a PUT DATA names or the signature counter, and makes a key of the TRNG. *)
LEMMA HandleTypes ==
    ASSUME RegionInv, HeldInv, KeyTypes, NEW f \in Frame, NEW ok \in BOOLEAN,
           Handle(f, ok) \/ UNCHANGED objects
    PROVE  HeldInv' /\ KeyTypes'
<1>1. CASE UNCHANGED objects
  BY <1>1 DEF HeldInv, KeyTypes, Holds, objects
<1>2. CASE f.cmd.op = "PUT" /\ PutObject(f.cmd.arg, f.cmd.val)
  <2>1. Holds(f.cmd.arg, f.cmd.val)
    BY <1>2, IdOf DEF Holds
  <2>2. Store(f.cmd.arg, f.cmd.val) /\ UNCHANGED <<blob, keyRam>>
    BY <1>2 DEF PutObject
  <2>. QED BY <2>1, <2>2, StoreHolds DEF KeyTypes
<1>3. CASE CountSignature(ok)
  <2>1. CASE ok
    <3>1. sigCounter + 1 \in Nat
      BY DEF RegionInv
    <3>2. (sigCounter + 1) % CounterMod \in 0..(CounterMod - 1)
      BY <3>1, ObjectsAssumption
    <3>3. Holds("93", (sigCounter + 1) % CounterMod)
      BY <3>2 DEF Holds
    <3>4. Store("93", (sigCounter + 1) % CounterMod) /\ UNCHANGED <<blob, keyRam>>
      BY <1>3, <2>1 DEF CountSignature
    <3>. QED BY <3>3, <3>4, StoreHolds DEF KeyTypes
  <2>2. CASE ~ok
    BY <1>3, <2>2 DEF CountSignature, HeldInv, KeyTypes, Holds
  <2>. QED BY <2>1, <2>2
<1>4. CASE f.cmd.op = "GENERATE" /\ \E k \in Keys : MakeKey(f.cmd.arg, k)
  <2>. DEFINE s   == f.cmd.arg
              alg == Attributes(s)
  <2>1. s \in KeySlot
    BY <1>4, IdOf, CardAssumption
  <2>2. PICK k \in Keys : MakeKey(s, k)
    BY <1>4
  <2>3. /\ Form(s, alg) # None
        /\ blob' = [blob EXCEPT ![s] = [key |-> k, alg |-> alg]]
        /\ keyRam' = [keyRam EXCEPT ![s] = [key |-> k, form |-> Form(s, alg)]]
        /\ UNCHANGED <<slots, wrote>>
    BY <2>2 DEF MakeKey
  <2>4. alg \in Algs /\ Form(s, alg) \in {"Brainpool", "Ed25519", "X25519"}
    BY <2>1, <2>3, AlgForms
  <2>. HIDE DEF s, alg
  <2>5. [key |-> k, alg |-> alg] \in Blobs /\ [key |-> k, form |-> Form(s, alg)] \in RamKeys
    BY <2>4 DEF Blobs, RamKeys
  <2>6. KeyTypes'
    BY <2>1, <2>3, <2>5 DEF KeyTypes
  <2>. QED BY <2>3, <2>6 DEF HeldInv, Holds
<1>. QED BY <1>1, <1>2, <1>3, <1>4, HandleTouches

(* What becomes of the history when a frame is handled. *)
LEMMA HandleUnsafe ==
    ASSUME NEW f, NEW ok, Handle(f, ok), unsafe \in BOOLEAN
    PROVE  unsafe' \in BOOLEAN
<1>1. CASE UNCHANGED unsafe
  BY <1>1
<1>2. CASE \E p \in Purposes : unsafe' = (unsafe \/ Stale(f, p))
  BY <1>2
<1>3. CASE VaultApdu(f, ok)
  BY <1>1, <1>2, <1>3 DEF VaultApdu, Verify, Plain, PutData, GetData, Sign, UseKey, Generate, GetResponse,
                          Purposes
<1>. QED BY <1>1, <1>3, HandleCases DEF StubApdu

(* The driver and an answer. *)
LEMMA DeliverTypes ==
    ASSUME HostTypes, NEW a \in Answers, Deliver(a) \/ UNCHANGED <<host, have, gap>>, lost' \in BOOLEAN
    PROVE  HostTypes'
<1>1. CASE UNCHANGED <<host, have, gap>>
  BY <1>1 DEF HostTypes
<1>2. CASE Deliver(a) /\ host.st = "waiting" /\ a.seq = host.frame.seq
  <2>1. /\ host' = [Idle EXCEPT !.frame = [own |-> a.of = Id(host.frame)]]
        /\ IF a.chunk = None THEN UNCHANGED <<have, gap>>
           ELSE /\ have' = IF a.chunk.more THEN [of |-> a.chunk.of, to |-> a.chunk.to] ELSE None
                /\ gap' = (gap \/ (~missed /\ Misplaced(a.chunk)))
    BY <1>2 DEF Deliver
  <2>2. host' \in Hosts
    BY <2>1 DEF Idle, Hosts
  <2>3. gap' \in BOOLEAN
    BY <2>1 DEF HostTypes
  <2>4. have' \in [of : Ids, to : Nat] \cup {None}
    <3>1. a.chunk # None => a.chunk.of \in Ids /\ a.chunk.to \in Nat
      BY DEF Answers, Chunks, Ids
    <3>. QED BY <2>1, <3>1 DEF HostTypes
  <2>. QED BY <2>2, <2>3, <2>4 DEF HostTypes
<1>3. CASE Deliver(a) /\ ~(host.st = "waiting" /\ a.seq = host.frame.seq)
  BY <1>1, <1>3 DEF Deliver
<1>. QED BY <1>1, <1>2, <1>3

(* A reset, a power cut or a driver that gives up leaves the driver without a frame. *)
LEMMA IdleHosts ==
    /\ Idle \in Hosts
    /\ \A st \in {"idle", "reset", "recover"} : [Idle EXCEPT !.st = st] \in Hosts
BY DEF Idle, Hosts

(* No step leaves the types. *)
LEMMA ShapeStep ==
    ASSUME CardInv, ShapeInv, Next
    PROVE  ShapeInv'
<1>1. /\ RegionInv /\ WireInv /\ ServesInv /\ HeldInv /\ KeyTypes /\ HostTypes
      /\ via \in Vias /\ ans \in Answers \cup {None} /\ unsafe \in BOOLEAN
      /\ seq \in 0..sent /\ sent \in Nat
      /\ host \in Hosts /\ have \in [of : Ids, to : Nat] \cup {None}
      /\ gap \in BOOLEAN /\ lost \in BOOLEAN
  BY CardAssumption DEF CardInv, ObjInv, ShapeInv, WireInv, TypesInv, HostTypes
<1>2. UNCHANGED <<slots, wrote>> => HeldInv'
  BY <1>1 DEF HeldInv, Holds
<1>3. UNCHANGED <<blob, keyRam>> => KeyTypes'
  BY <1>1 DEF KeyTypes
<1>4. UNCHANGED objects => HeldInv' /\ KeyTypes'
  BY <1>2, <1>3 DEF objects
<1>5. UNCHANGED <<host, have, gap, lost>> => HostTypes'
  BY <1>1 DEF HostTypes
<1>6. UNCHANGED <<via, ans, unsafe, seq, sent>> =>
        via' \in Vias /\ ans' \in Answers \cup {None} /\ unsafe' \in BOOLEAN /\ seq' \in 0..sent'
  BY <1>1
<1>7. CASE BootHeader \/ BootDefault \/ BootKeys
  <2>1. UNCHANGED <<via, card, wire, hist>>
    BY <1>7 DEF BootHeader, BootDefault, BootKeys
  <2>2. HeldInv' /\ KeyTypes'
    <3>1. CASE BootHeader
      <4>1. UNCHANGED <<blob, keyRam, wrote>> /\ (UNCHANGED slots \/ slots' = EmptySlots)
        BY <3>1 DEF BootHeader
      <4>2. slots' = EmptySlots => \A i \in 1..SlotCount : Holds(slots'[i].tag, slots'[i].val)
        BY DEF EmptySlots, EmptySlot, Holds
      <4>3. HeldInv'
        BY <1>1, <4>1, <4>2 DEF HeldInv, Holds
      <4>. QED BY <1>3, <4>1, <4>3
    <3>2. CASE BootDefault
      <4>1. /\ boot - 1 \in 1..5 /\ Store(Defaults[boot - 1][1], Defaults[boot - 1][2])
            /\ UNCHANGED <<blob, keyRam>>
        BY <3>2 DEF BootDefault
      <4>2. Holds(Defaults[boot - 1][1], Defaults[boot - 1][2])
        BY <4>1, DefaultsHold
      <4>. QED BY <1>1, <1>3, <4>1, <4>2, StoreHolds
    <3>3. CASE BootKeys
      <4>1. LoadPrivateKeys /\ UNCHANGED <<slots, blob, wrote>>
        BY <3>3 DEF BootKeys
      <4>2. blob \in [KeySlot -> Blobs]
        BY <1>1 DEF KeyTypes
      <4>3. PICK sig \in Loaded("SIG"), dec \in Loaded("DEC"), aut \in Loaded("AUT") :
                keyRam' = [s \in KeySlot |-> CASE s = "SIG" -> sig [] s = "DEC" -> dec [] s = "AUT" -> aut]
        BY <4>1 DEF LoadPrivateKeys
      <4>4. sig \in RamKeys /\ dec \in RamKeys /\ aut \in RamKeys
        BY <4>2, <4>3, LoadTypes DEF KeySlot
      <4>5. keyRam' \in [KeySlot -> RamKeys]
        BY <4>3, <4>4 DEF KeySlot
      <4>. QED BY <1>2, <4>1, <4>2, <4>5 DEF KeyTypes
    <3>. QED BY <1>7, <3>1, <3>2, <3>3
  <2>. QED BY <1>5, <1>6, <2>1, <2>2 DEF wire, hist, ShapeInv
<1>8. CASE Switch \/ Poll \/ WaitFails
  <2>1. UNCHANGED <<objects, via, ans, unsafe, seq, sent, host, have, gap, lost>>
    BY <1>8 DEF Switch, Poll, WaitFails, hist
  <2>. QED BY <1>4, <1>5, <1>6, <2>1 DEF ShapeInv
<1>9. CASE InlineAnswer
  <2>1. /\ host.st = "waiting" /\ Deliver(Answer(host.frame, "ok", None))
        /\ UNCHANGED <<objects, via, ans, unsafe, seq, sent, lost>>
    BY <1>9 DEF InlineAnswer
  <2>2. host.frame \in Frame
    BY <1>1, <2>1 DEF WireInv, HostInv, Waiting
  <2>3. Answer(host.frame, "ok", None) \in Answers
    BY <2>2, IdOf DEF Answer, Answers
  <2>4. HostTypes'
    BY <1>1, <2>1, <2>3, DeliverTypes
  <2>. QED BY <1>4, <1>6, <2>1, <2>4 DEF ShapeInv
<1>10. ASSUME NEW ok \in BOOLEAN, PushOut(ok) PROVE ShapeInv'
  <2>. DEFINE f == host.frame
  <2>1. /\ via = "class" /\ host.st = "waiting" /\ ans = None
        /\ host' = [host EXCEPT !.sent = @ + 1]
        /\ \/ host.sent = 0 /\ FramePackets(f) = 2 /\ UNCHANGED <<objects, card, ans, left, unsafe>>
           \/ host.sent + 1 = FramePackets(f) /\ Dispatch(f, ok)
    BY <1>1, <1>10, PushOutSteps
  <2>2. UNCHANGED <<via, seq, sent, have, lost, gap>>
    BY <1>10 DEF PushOut
  <2>3. host \in Waiting /\ f \in Frame
    BY <1>1, <2>1 DEF WireInv, HostInv, Waiting
  <2>4. host' \in Hosts
    <3>1. FramePackets(f) \in {1, 2}
      BY DEF FramePackets
    <3>. HIDE DEF f
    <3>2. host.sent + 1 \in 0..2
      BY <2>1, <2>3, <3>1 DEF Waiting
    <3>. QED BY <2>1, <2>3, <3>2 DEF Waiting, Hosts
  <2>. HIDE DEF f
  <2>5. HostTypes'
    BY <1>1, <2>2, <2>4 DEF HostTypes
  <2>6. flags \in Flags /\ RestOK
    BY <1>1 DEF WireInv, TypesInv
  <2>7. CASE UNCHANGED <<objects, card, ans, left, unsafe>>
    BY <1>4, <1>6, <2>2, <2>5, <2>7 DEF ShapeInv
  <2>8. CASE Dispatch(f, ok)
    <3>1. CASE Malformed(f)
      <4>1. UNCHANGED <<objects, unsafe>> /\ ans' \in Answers
        BY <2>3, <2>6, <3>1, MalformedAnswers DEF Malformed, Replied
      <4>. QED BY <1>1, <1>4, <2>2, <2>5, <4>1 DEF ShapeInv
    <3>2. CASE Handle(f, ok)
      <4>1. ans' \in Answers
        BY <2>3, <2>6, <3>2, HandleAnswers DEF Answered, Replied
      <4>2. unsafe' \in BOOLEAN
        BY <1>1, <3>2, HandleUnsafe
      <4>3. HeldInv' /\ KeyTypes'
        BY <1>1, <2>3, <3>2, HandleTypes
      <4>. QED BY <1>1, <2>2, <2>5, <4>1, <4>2, <4>3 DEF ShapeInv
    <3>. QED BY <2>8, <3>1, <3>2 DEF Dispatch
  <2>. QED BY <2>1, <2>7, <2>8
<1>11. ASSUME NEW ok \in BOOLEAN, Take(ok) PROVE ShapeInv'
  <2>. DEFINE f == Head(inbox)
  <2>1. inbox # <<>> /\ UNCHANGED <<via, host, seq, sent, have, lost, gap>>
    BY <1>11 DEF Take
  <2>2. f \in Frame /\ flags \in Flags /\ RestOK
    BY <1>1, <2>1 DEF WireInv, TypesInv
  <2>3. UNCHANGED <<objects, ans, unsafe>> \/ (Refuse(f) /\ UNCHANGED unsafe) \/ Handle(f, ok)
    BY <1>11 DEF Take
  <2>. HIDE DEF f
  <2>4. CASE UNCHANGED <<objects, ans, unsafe>>
    BY <1>4, <1>5, <1>6, <2>1, <2>4 DEF ShapeInv
  <2>5. CASE Refuse(f) /\ UNCHANGED unsafe
    <3>1. UNCHANGED objects /\ ans' \in Answers
      BY <2>2, <2>5, SayAnswers DEF Refuse, card, Answered, Replied
    <3>. QED BY <1>1, <1>4, <1>5, <2>1, <2>5, <3>1 DEF ShapeInv
  <2>6. CASE Handle(f, ok)
    <3>1. ans' \in Answers
      BY <2>2, <2>6, HandleAnswers DEF Answered, Replied
    <3>2. unsafe' \in BOOLEAN
      BY <1>1, <2>6, HandleUnsafe
    <3>3. HeldInv' /\ KeyTypes'
      BY <1>1, <2>2, <2>6, HandleTypes
    <3>. QED BY <1>1, <1>5, <2>1, <3>1, <3>2, <3>3 DEF ShapeInv
  <2>. QED BY <2>3, <2>4, <2>5, <2>6
<1>12. ASSUME NEW ok \in BOOLEAN, PollIn(ok) \/ Transmit(ok) PROVE ShapeInv'
  <2>1. /\ UNCHANGED <<objects, via, unsafe, seq, sent>> /\ (ans' = None \/ ans' = ans)
        /\ Deliver(ans) \/ UNCHANGED <<host, have, gap>>
        /\ lost' = (lost \/ ~ok)
    BY <1>12 DEF PollIn, Transmit
  <2>2. ans \in Answers
    BY <1>1, <1>12 DEF PollIn, Transmit, WireInv, ClassInv, TypesInv, Flying
  <2>3. lost' \in BOOLEAN
    BY <1>1, <2>1
  <2>4. HostTypes'
    BY <1>1, <2>1, <2>2, <2>3, DeliverTypes
  <2>. QED BY <1>1, <1>4, <2>1, <2>4 DEF ShapeInv
<1>13. ASSUME NEW c \in Commands, HostSend(c) PROVE ShapeInv'
  <2>1. /\ seq' = seq + 1 /\ sent' = sent + 1 /\ lost' = FALSE
        /\ host' = [st |-> "waiting", frame |-> [cmd |-> c, seq |-> seq, era |-> era], sent |-> 0]
        /\ have' = have \/ have' = None
        /\ UNCHANGED <<objects, via, ans, unsafe, gap>>
    BY <1>13 DEF HostSend
  <2>2. [cmd |-> c, seq |-> seq, era |-> era] \in Frame
    BY <1>1 DEF WireInv, TypesInv, Frame
  <2>3. host' \in Hosts
    BY <2>1, <2>2 DEF Hosts, Waiting
  <2>4. HostTypes'
    BY <1>1, <2>1, <2>3 DEF HostTypes
  <2>5. seq' \in 0..sent'
    BY <1>1, <2>1
  <2>. QED BY <1>1, <1>4, <2>1, <2>4, <2>5 DEF ShapeInv
<1>14. CASE HostGivesUp \/ BusReset \/ LinkDown \/ LinkUp
  <2>1. /\ UNCHANGED <<objects, via, unsafe, sent, lost, gap>> /\ (ans' = None \/ ans' = ans)
        /\ seq' = seq \/ seq' = 0
        /\ have' = have \/ have' = None
    BY <1>14 DEF HostGivesUp, BusReset, ProtocolReset, LinkDown, LinkUp
  <2>2. host' = host \/ host' = Idle \/ \E st \in {"reset", "recover"} : host' = [Idle EXCEPT !.st = st]
    BY <1>14 DEF HostGivesUp, BusReset, LinkDown, LinkUp
  <2>3. host' \in Hosts
    BY <1>1, <2>2, IdleHosts
  <2>4. HostTypes'
    BY <1>1, <2>1, <2>3 DEF HostTypes
  <2>5. seq' \in 0..sent'
    BY <1>1, <2>1
  <2>. QED BY <1>1, <1>4, <2>1, <2>4, <2>5 DEF ShapeInv
<1>15. CASE PowerCut
  <2>1. /\ keyRam' = NoKeys /\ UNCHANGED <<slots, blob, wrote>>
        /\ UNCHANGED <<via, unsafe, sent, gap>> /\ ans' = None /\ lost' = FALSE /\ seq' = 0
        /\ host' = Idle /\ have' = None
    BY <1>15 DEF PowerCut, ForgetRam
  <2>2. KeyTypes'
    BY <1>1, <2>1 DEF KeyTypes, NoKeys, RamKeys
  <2>3. HostTypes'
    BY <1>1, <2>1, IdleHosts DEF HostTypes
  <2>4. seq' \in 0..sent'
    BY <1>1, <2>1
  <2>. QED BY <1>1, <1>2, <2>1, <2>2, <2>3, <2>4 DEF ShapeInv
<1>. QED BY <1>7, <1>8, <1>9, <1>10, <1>11, <1>12, <1>13, <1>14, <1>15 DEF Next, Device

(* Every variable keeps its type: CardTypeOK constrains each one of the    *)
(* card, its transport and the driver.  The DO region keeps its size and    *)
(* holds under each tag only a default, the signature counter or the value  *)
(* of a PUT DATA; response_buffer is never used up, the receive buffer less *)
(* than a frame, the queue of usb-bao1x no more frames than the host sent.  *)
THEOREM CardTypeCorrect == Spec => []CardTypeOK
<1>1. Init => ShapeInv
  BY ShapeStart
<1>2. CardInv /\ ShapeInv /\ [Next]_vars => ShapeInv'
  <2>1. ASSUME CardInv, ShapeInv, UNCHANGED vars PROVE ShapeInv'
    BY <2>1 DEF ShapeInv, HeldInv, Holds, KeyTypes, HostTypes, vars, objects, card, wire, hist
  <2>. QED BY <2>1, ShapeStep
<1>3. CardInv /\ ShapeInv => CardTypeOK
  <2>1. SUFFICES ASSUME CardInv, ShapeInv PROVE CardTypeOK
    OBVIOUS
  <2>2. ObjectsTypeOK
    <3>1. Len(slots) = SlotCount /\ header \in BOOLEAN /\ sigCounter \in Nat /\ fit \subseteq KeySlot
      BY <2>1, RegionLen DEF CardInv, ObjInv, RegionInv, KeysInv
    <3>. QED BY <2>1, <3>1 DEF ShapeInv, HeldInv, KeyTypes, ObjectsTypeOK
  <2>3. DispatcherTypeOK
    BY <2>1 DEF CardInv, ObjInv, RegionInv, WireInv, TypesInv, RestOK, ShapeInv, DispatcherTypeOK
  <2>4. WireTypeOK
    BY <2>1 DEF CardInv, WireInv, TypesInv, ShapeInv, HostTypes, HistInv, WireTypeOK
  <2>. QED BY <2>2, <2>3, <2>4 DEF CardTypeOK
<1>. QED BY <1>1, <1>2, <1>3, CardInvariance, PTL DEF Spec

(* DoStore is a map: an object reads as the value last stored under its     *)
(* tag, whatever was replaced, refused for want of room, or cut short by a  *)
(* loss of power during seeding.                                            *)
THEOREM ObjectsReadBack == Spec => []ReadsLastWritten
<1>1. CardInv => ReadsLastWritten
  BY KeptReads DEF CardInv, ObjInv
<1>. QED BY <1>1, CardInvariance, PTL

(* load_private_keys: a key whose slot's attributes fitted it when it was   *)
(* made or loaded is in RAM as it is in its blob, in the form it was made   *)
(* for.                                                                     *)
THEOREM StoredKeysReload == Spec => []KeysReload
<1>1. CardInv => KeysReload
  BY DEF CardInv, ObjInv, KeysInv
<1>. QED BY <1>1, CardInvariance, PTL

(* on_usb_reset and ccid_dispatch_one: no command runs under the VERIFY of  *)
(* an earlier enumeration, unless the link changed twice between two polls  *)
(* or usb-bao1x handed on a frame of that enumeration.                      *)
THEOREM FlagsAreOfThisEnumeration == Spec => []FlagsOfThisEnumeration
<1>1. CardInv => FlagsOfThisEnumeration
  BY DEF CardInv, WireInv, HistInv, FlagsOfThisEnumeration
<1>. QED BY <1>1, CardInvariance, PTL

(* chunk_response and handle_get_response: what GET RESPONSE yields goes on *)
(* where the data the host has collected ends.                              *)
THEOREM ChainsAreUnbroken == Spec => []ChainUnbroken
<1>1. CardInv => ChainUnbroken
  BY DEF CardInv, WireInv, HistInv, ChainUnbroken
<1>. QED BY <1>1, CardInvariance, PTL

(* The answer a driver accepts was computed for the command it waits on.    *)
THEOREM AnswersAreOwn == Spec => []AnswersOwnCommand
<1>1. CardInv => AnswersOwnCommand
  BY DEF CardInv, WireInv, HistInv
<1>. QED BY <1>1, CardInvariance, PTL
=============================================================================
