---------------------------- MODULE SlotTableProofs ----------------------------
(***************************************************************************)
(* Proofs about SlotTable: its inductive invariant, and that it implements *)
(* NumberedStore.                                                          *)
(***************************************************************************)
EXTENDS SlotTable, ListingProofs

-----------------------------------------------------------------------------
(* Links.                                                                  *)

(* A nonempty set of slots has a highest one, which Max chooses. *)
LEMMA Highest ==
  ASSUME NEW n \in Nat, NEW S \in SUBSET (0..n), S # {}
  PROVE  Max(S) \in S /\ \A k \in S : k =< Max(S)
<1> DEFINE T == {n - k : k \in S}
<1>0. \A k \in S : k \in 0..n /\ k \in Int /\ n - k \in Nat
  OBVIOUS
<1>1. T \subseteq Nat /\ T # {}
  BY <1>0
<1>2. PICK m \in T : \A y \in T : ~ (<<y, m>> \in OpToRel(<, Nat))
  BY <1>1, NatLessThanWellFounded, WFMin
<1>3. \A y \in T : ~ (y < m)
  BY <1>1, <1>2 DEF OpToRel
<1>4. PICK h \in S : m = n - h
  OBVIOUS
<1>5. \A k \in S : h >= k
  <2> TAKE k \in S
  <2>1. n - k \in T
    OBVIOUS
  <2>2. ~ (n - k < n - h)
    BY <1>3, <1>4, <2>1
  <2>3. k \in Int /\ h \in Int
    BY <1>0
  <2> HIDE DEF T
  <2> QED
    BY <2>2, <2>3
<1> QED
  BY <1>0, <1>4, <1>5 DEF Max

(* LinkTo makes the link that PointsTo describes. *)
LEMMA LinkPoints ==
  ASSUME NEW n \in Nat, NEW S \in SUBSET (0..n)
  PROVE  LinkTo(S) \in Nat /\ PointsTo(LinkTo(S), S)
<1>1. CASE S = {}
  BY <1>1 DEF LinkTo, PointsTo
<1>2. CASE S # {}
  <2>1. Max(S) \in S /\ \A k \in S : k =< Max(S)
    BY <1>2, Highest
  <2>2. LinkTo(S) = FreeLink(Max(S))
    BY <1>2 DEF LinkTo
  <2>3. FreeLink(Max(S)) \in Nat
    <3>0. \A k \in S : k \in Nat
      OBVIOUS
    <3>1. Max(S) \in Nat
      BY <2>1, <3>0, Zenon
    <3>2. \A k \in Nat : FreeLink(k) \in Nat
      BY DEF FreeLink, HeaderLen
    <3> QED
      BY <3>1, <3>2
  <2>4. PointsTo(LinkTo(S), S)
    BY <1>2, <2>1, <2>2 DEF PointsTo
  <2> QED
    BY <2>2, <2>3, <2>4
<1> QED
  BY <1>1, <1>2

(* A free slot that is written out, field by field. *)
LEMMA FreeSlotFields ==
  ASSUME NEW x, NEW l, x = [kind |-> "free", link |-> l]
  PROVE  x.kind # "record" /\ x.link = l
OBVIOUS

(* rebuild_free_list moves no record and threads every free slot. *)
LEMMA RebuiltKeeps ==
  ASSUME NEW n \in Nat, NEW s \in [0..n -> Slot]
  PROVE  /\ Rebuilt(s) \in [0..n -> Slot]
         /\ Live(Rebuilt(s)) = Live(s)
         /\ Free(Rebuilt(s)) = Free(s)
         /\ \A i \in Live(s) : Rebuilt(s)[i] = s[i]
         /\ \A i \in Free(s) :
              PointsTo(Rebuilt(s)[i].link, {j \in Free(s) : j < i})
<1> DEFINE Below(i) == {j \in Free(s) : j < i}
<1>1. Free(s) \in SUBSET (0..n) /\ Live(s) \in SUBSET (0..n)
  BY DEF Free, Live
<1>2. \A i \in 0..n : LinkTo(Below(i)) \in Nat /\ PointsTo(LinkTo(Below(i)), Below(i))
  <2> TAKE i \in 0..n
  <2>1. Below(i) \in SUBSET (0..n)
    BY <1>1
  <2> QED
    BY <2>1, LinkPoints
<1> HIDE DEF Below
<1>3. DOMAIN Rebuilt(s) = 0..n
  BY DEF Rebuilt
<1>4. \A i \in Live(s) : Rebuilt(s)[i] = s[i]
  BY <1>1 DEF Rebuilt
<1>5. \A i \in (0..n) \ Live(s) :
        Rebuilt(s)[i] = [kind |-> "free", link |-> LinkTo(Below(i))]
  BY DEF Rebuilt, Below
<1>fields. \A i \in (0..n) \ Live(s) :
        Rebuilt(s)[i].kind # "record" /\ Rebuilt(s)[i].link = LinkTo(Below(i))
  BY <1>5, FreeSlotFields, Zenon
<1>6. \A i \in 0..n : s[i] \in Slot /\ (i \in Live(s) <=> s[i].kind = "record")
  BY DEF Live
<1>7. \A i \in 0..n : Rebuilt(s)[i] \in Slot
  <2> TAKE i \in 0..n
  <2>1. CASE i \in Live(s)
    BY <1>4, <1>6, <2>1
  <2>2. CASE i \notin Live(s)
    <3>1. Rebuilt(s)[i] = [kind |-> "free", link |-> LinkTo(Below(i))]
      BY <1>5, <2>2
    <3>2. LinkTo(Below(i)) \in Nat
      BY <1>2
    <3> QED
      BY <3>1, <3>2 DEF Slot
  <2> QED
    BY <2>1, <2>2
<1>8. Rebuilt(s) \in [0..n -> Slot]
  BY <1>3, <1>7 DEF Rebuilt
<1>9. \A i \in 0..n : i \in Live(s) <=> Rebuilt(s)[i].kind = "record"
  <2> TAKE i \in 0..n
  <2>1. CASE i \in Live(s)
    BY <1>4, <1>6, <2>1
  <2>2. CASE i \notin Live(s)
    BY <1>fields, <2>2
  <2> QED
    BY <2>1, <2>2
<1>10. Live(Rebuilt(s)) = Live(s)
  BY <1>1, <1>3, <1>9 DEF Live
<1>11. Free(s) = (0..n) \ Live(s)
  BY DEF Free
<1>12. Free(Rebuilt(s)) = Free(s)
  BY <1>3, <1>10, <1>11 DEF Free
<1>13. \A i \in Free(s) : Rebuilt(s)[i].link = LinkTo(Below(i))
  BY <1>fields, <1>11
<1> QED
  BY <1>2, <1>4, <1>8, <1>10, <1>11, <1>12, <1>13 DEF Below

-----------------------------------------------------------------------------
(* The invariant.                                                          *)

(* What the table looks like after its free list was rebuilt. *)
LEMMA AfterRebuild ==
  ASSUME NEW n \in 0..(MaxSlots - 1), NEW s \in [0..n -> Slot],
         slots' = Rebuilt(s), freeHead' = LinkTo(Free(s))
  PROVE  /\ TypeOK'
         /\ FreeListOrdered'
         /\ Live(slots') = Live(s)
         /\ \A i \in Live(s) : slots'[i] = s[i]
<1>1. n \in Nat
  BY SlotAssumption
<1>2. Free(s) \in SUBSET (0..n)
  BY DEF Free
<1>3. freeHead' \in Nat /\ PointsTo(freeHead', Free(s))
  BY <1>1, <1>2, LinkPoints
<1>4. /\ slots' \in [0..n -> Slot]
      /\ Live(slots') = Live(s)
      /\ Free(slots') = Free(s)
      /\ \A i \in Live(s) : slots'[i] = s[i]
      /\ \A i \in Free(s) : PointsTo(slots'[i].link, {j \in Free(s) : j < i})
  BY <1>1, RebuiltKeeps
<1>5. TypeOK'
  BY <1>3, <1>4 DEF TypeOK
<1>6. FreeListOrdered'
  BY <1>3, <1>4 DEF FreeListOrdered
<1> QED
  BY <1>4, <1>5, <1>6

(* The slots as the steps see them. *)
LEMMA SlotFacts ==
  ASSUME TypeOK
  PROVE  \E n \in 0..(MaxSlots - 1) :
           /\ slots \in [0..n -> Slot]
           /\ DOMAIN slots = 0..n
           /\ Live(slots) \subseteq 0..n
           /\ Free(slots) = (0..n) \ Live(slots)
           /\ \A i \in 0..n : i \in Live(slots) <=> slots[i].kind = "record"
           /\ \A i \in Live(slots) : slots[i].record \in Record
<1>1. PICK n \in 0..(MaxSlots - 1) : slots \in [0..n -> Slot]
  BY DEF TypeOK
<1>2. DOMAIN slots = 0..n
  BY <1>1
<1>3. \A i \in 0..n : slots[i].kind = "record" => slots[i].record \in Record
  BY <1>1 DEF Slot
<1> QED
  BY <1>1, <1>2, <1>3 DEF Live, Free

(* The empty table. *)
LEMMA InitTable == Init => TableInv
<1> SUFFICES ASSUME Init PROVE TableInv
  OBVIOUS
<1>1. /\ slots \in [0..0 -> Slot]
      /\ DOMAIN slots = {0}
      /\ slots[0].kind = "free" /\ slots[0].link = 0
      /\ freeHead = FreeLink(0)
  BY DEF Init, Slot
<1>2. Live(slots) = {} /\ Free(slots) = {0}
  BY <1>1 DEF Live, Free
<1>3. TypeOK
  BY <1>1, SlotAssumption DEF TypeOK, FreeLink, HeaderLen
<1>4. NumbersAreSlots /\ UniqueIds
  BY <1>2 DEF NumbersAreSlots, UniqueIds
<1>5. FreeListOrdered
  <2>1. PointsTo(freeHead, Free(slots))
    BY <1>1, <1>2 DEF PointsTo
  <2>2. {j \in Free(slots) : j < 0} = {}
    BY <1>2
  <2> QED
    BY <1>1, <1>2, <2>1, <2>2 DEF FreeListOrdered, PointsTo
<1> QED
  BY <1>3, <1>4, <1>5 DEF TableInv

(* A new record's slot was free or is one more, so no record moves. *)
LEMMA InsertStep ==
  ASSUME TypeOK, NEW i \in InsertSlots, NEW id \in Ids, NEW tag \in Tags \union {NoTag},
         Insert(i, id, tag)
  PROVE  /\ TypeOK' /\ FreeListOrdered'
         /\ i \in 0..(MaxSlots - 1) /\ i \notin Live(slots)
         /\ Live(slots') = Live(slots) \union {i}
         /\ slots'[i].record = [number |-> i, id |-> id, tag |-> tag]
         /\ \A j \in Live(slots) : slots'[j] = slots[j]
<1> DEFINE new == [kind |-> "record", record |-> [number |-> i, id |-> id, tag |-> tag]]
           filled == [j \in DOMAIN slots \union {i} |-> IF j = i THEN new ELSE slots[j]]
<1>1. PICK n \in 0..(MaxSlots - 1) :
           /\ slots \in [0..n -> Slot]
           /\ DOMAIN slots = 0..n
           /\ Live(slots) \subseteq 0..n
           /\ Free(slots) = (0..n) \ Live(slots)
           /\ \A j \in 0..n : j \in Live(slots) <=> slots[j].kind = "record"
  BY SlotFacts
<1>2. /\ i \in 0..(MaxSlots - 1) /\ i \notin Live(slots)
      /\ \E m \in 0..(MaxSlots - 1) : (0..n) \union {i} = 0..m
  <2>1. CASE Free(slots) = {}
    <3>1. i \in 0..(MaxSlots - 1) /\ 0..n = 0..(i - 1)
      BY <1>1, <2>1 DEF InsertSlots
    <3>2. i = n + 1
      BY <1>1, <3>1, SlotAssumption
    <3> QED
      BY <1>1, <3>1, <3>2, SlotAssumption
  <2>2. CASE Free(slots) # {}
    <3>1. i \in Free(slots)
      BY <2>2 DEF InsertSlots
    <3>2. i \in 0..n /\ i \notin Live(slots)
      BY <1>1, <3>1
    <3> QED
      BY <1>1, <3>2, SlotAssumption
  <2> QED
    BY <2>1, <2>2
<1>3. PICK m \in 0..(MaxSlots - 1) : (0..n) \union {i} = 0..m
  BY <1>2
<1>4. new \in Slot
  BY <1>2, SlotAssumption DEF Slot, Record
<1>5. filled \in [0..m -> Slot]
  BY <1>1, <1>3, <1>4
<1>6. /\ DOMAIN filled = 0..m
      /\ filled[i] = new
      /\ \A j \in 0..n : j # i => filled[j] = slots[j]
  BY <1>1, <1>3
<1>7. Live(filled) = Live(slots) \union {i}
  <2> HIDE DEF filled
  <2>1. \A j \in 0..m : filled[j].kind = "record" <=> j \in Live(slots) \union {i}
    BY <1>1, <1>3, <1>6
  <2> QED
    BY <1>1, <1>3, <1>6, <2>1 DEF Live
<1>8. slots' = Rebuilt(filled) /\ freeHead' = LinkTo(Free(filled))
  BY DEF Insert
<1>9. /\ TypeOK' /\ FreeListOrdered'
      /\ Live(slots') = Live(filled)
      /\ \A j \in Live(filled) : slots'[j] = filled[j]
  <2> HIDE DEF filled
  <2> QED
    BY <1>5, <1>8, AfterRebuild
<1>10. slots'[i].record = [number |-> i, id |-> id, tag |-> tag]
  <2>1. slots'[i] = new
    <3> HIDE DEF filled, new
    <3> QED
      BY <1>6, <1>7, <1>9
  <2> QED
    BY <2>1
<1>11. \A j \in Live(slots) : slots'[j] = slots[j]
  <2> HIDE DEF filled, new
  <2> QED
    BY <1>1, <1>2, <1>6, <1>7, <1>9
<1>12. Live(slots') = Live(slots) \union {i}
  BY <1>7, <1>9, Zenon
<1> QED
  BY <1>2, <1>9, <1>10, <1>11, <1>12

(* Add refuses a record whose identity is taken. *)
LEMMA AddStep ==
  ASSUME TableInv, NEW id \in Ids, NEW tag \in Tags \union {NoTag}, Add(id, tag)
  PROVE  TableInv' /\ Store!Next
<1>1. TypeOK /\ NumbersAreSlots /\ UniqueIds
  BY DEF TableInv
<1>2. ~HasRecordWithUniqueKey(id)
  BY DEF Add
<1>3. PICK i \in InsertSlots : Insert(i, id, tag)
  BY DEF Add
<1>4. /\ TypeOK' /\ FreeListOrdered'
      /\ i \in 0..(MaxSlots - 1) /\ i \notin Live(slots)
      /\ Live(slots') = Live(slots) \union {i}
      /\ slots'[i].record = [number |-> i, id |-> id, tag |-> tag]
      /\ \A j \in Live(slots) : slots'[j] = slots[j]
  BY <1>1, <1>3, InsertStep
<1>5. /\ slots'[i].record.number = i
      /\ slots'[i].record.id = id
      /\ slots'[i].record.tag = tag
  BY <1>4
<1>6. NumbersAreSlots'
  BY <1>1, <1>4, <1>5 DEF NumbersAreSlots
<1>7. \A j \in Live(slots) : slots[j].record.id # id
  BY <1>2 DEF HasRecordWithUniqueKey
<1>8. UniqueIds'
  BY <1>1, <1>4, <1>5, <1>7 DEF UniqueIds
<1>9. Store!Add
  <2> DEFINE c == [id |-> id, tag |-> tag]
             Shown(j) == [id |-> slots[j].record.id, tag |-> slots[j].record.tag]
  <2>1. c \in Store!Contents
    BY DEF Store!Contents
  <2>2. DOMAIN Records = Live(slots)
    BY DEF Records
  <2>3. \A m \in DOMAIN Records : Records[m].id # c.id
    BY <1>7 DEF Records
  <2>4. Records' = [m \in DOMAIN Records \union {i} |-> IF m = i THEN c ELSE Records[m]]
    <3>1. Records' = [m \in Live(slots) \union {i} |->
                        [id |-> slots'[m].record.id, tag |-> slots'[m].record.tag]]
      BY <1>4 DEF Records
    <3>2. \A m \in Live(slots) \union {i} :
            [id |-> slots'[m].record.id, tag |-> slots'[m].record.tag]
              = IF m = i THEN c ELSE Records[m]
      BY <1>4, <1>5 DEF Records
    <3> QED
      BY <2>2, <3>1, <3>2
  <2> QED
    BY <1>4, <2>1, <2>2, <2>3, <2>4 DEF Store!Add
<1> QED
  BY <1>4, <1>6, <1>8, <1>9 DEF TableInv, Store!Next

(* Delete frees the record's slot and moves no other record. *)
LEMMA DeleteStep ==
  ASSUME TableInv, NEW i \in Live(slots), Delete(i)
  PROVE  /\ TableInv' /\ Store!Next
         /\ Live(slots') = Live(slots) \ {i}
         /\ \A j \in Live(slots) \ {i} : slots'[j] = slots[j]
<1> DEFINE free == [kind |-> "free", link |-> 0]
           freed == [slots EXCEPT ![i] = free]
           kept == IF i # 0 /\ \A j \in DOMAIN slots : j =< i
                   THEN DOMAIN slots \ {i} ELSE DOMAIN slots
           shrunk == [j \in kept |-> freed[j]]
<1>1. TypeOK /\ NumbersAreSlots /\ UniqueIds
  BY DEF TableInv
<1>2. PICK n \in 0..(MaxSlots - 1) :
           /\ slots \in [0..n -> Slot]
           /\ DOMAIN slots = 0..n
           /\ Live(slots) \subseteq 0..n
           /\ \A j \in 0..n : j \in Live(slots) <=> slots[j].kind = "record"
  BY <1>1, SlotFacts
<1>3. /\ i \in 0..n
      /\ \E m \in 0..(MaxSlots - 1) :
           kept = 0..m /\ 0..m \subseteq 0..n /\ (0..n) \ {i} \subseteq 0..m
  <2>1. CASE i # 0 /\ \A j \in 0..n : j =< i
    <3>1. i \in 0..n /\ n \in 0..n
      BY <1>2, SlotAssumption
    <3>2. n =< i
      BY <2>1, <3>1
    <3>3. i = n /\ n - 1 \in 0..(MaxSlots - 1)
      BY <2>1, <3>1, <3>2, SlotAssumption
    <3>4. kept = (0..n) \ {n}
      BY <1>2, <2>1, <3>3
    <3>5. (0..n) \ {n} = 0..(n - 1)
      BY <3>1
    <3>6. kept = 0..(n - 1)
      BY <3>4, <3>5, Zenon
    <3> QED
      BY <1>2, <3>3, <3>6, SlotAssumption
  <2>2. CASE ~(i # 0 /\ \A j \in 0..n : j =< i)
    BY <1>2, <2>2
  <2> QED
    BY <2>1, <2>2
<1>4. PICK m \in 0..(MaxSlots - 1) :
        kept = 0..m /\ 0..m \subseteq 0..n /\ (0..n) \ {i} \subseteq 0..m
  BY <1>3
<1>5. free \in Slot /\ free.kind # "record"
  BY DEF Slot
<1>6. /\ DOMAIN shrunk = 0..m
      /\ \A j \in 0..m : shrunk[j] = IF j = i THEN free ELSE slots[j]
  <2> HIDE DEF kept, free
  <2> QED
    BY <1>2, <1>4
<1>7. shrunk \in [0..m -> Slot]
  <2>1. \A j \in 0..m : shrunk[j] \in Slot
    <3> HIDE DEF shrunk, free
    <3> QED
      BY <1>2, <1>4, <1>5, <1>6
  <2> HIDE DEF kept, freed
  <2> QED
    BY <1>4, <2>1
<1>8. Live(shrunk) = Live(slots) \ {i}
  <2> HIDE DEF shrunk, free, kept, freed
  <2>1. \A j \in 0..m : shrunk[j].kind = "record" <=> j \in Live(slots) \ {i}
    BY <1>2, <1>4, <1>5, <1>6
  <2> QED
    BY <1>2, <1>4, <1>6, <2>1 DEF Live
<1>9. slots' = Rebuilt(shrunk) /\ freeHead' = LinkTo(Free(shrunk))
  BY DEF Delete
<1>10. /\ TypeOK' /\ FreeListOrdered'
       /\ Live(slots') = Live(slots) \ {i}
       /\ \A j \in Live(slots) \ {i} : slots'[j] = shrunk[j]
  <2> HIDE DEF shrunk
  <2> QED
    BY <1>7, <1>8, <1>9, AfterRebuild
<1>11. \A j \in Live(slots) \ {i} : slots'[j] = slots[j]
  <2> HIDE DEF shrunk, free
  <2> QED
    BY <1>2, <1>4, <1>6, <1>10
<1>12. NumbersAreSlots'
  BY <1>1, <1>10, <1>11 DEF NumbersAreSlots
<1>13. UniqueIds'
  BY <1>1, <1>10, <1>11 DEF UniqueIds
<1>14. Store!Delete
  <2>1. DOMAIN Records = Live(slots)
    BY DEF Records
  <2>2. Records' = [j \in Live(slots) \ {i} |->
                      [id |-> slots'[j].record.id, tag |-> slots'[j].record.tag]]
    BY <1>10 DEF Records
  <2>3. \A j \in Live(slots) \ {i} :
          [id |-> slots'[j].record.id, tag |-> slots'[j].record.tag] = Records[j]
    BY <1>11 DEF Records
  <2>4. Records' = [j \in DOMAIN Records \ {i} |-> Records[j]]
    BY <2>1, <2>2, <2>3
  <2> QED
    BY <2>1, <2>4 DEF Store!Delete
<1> QED
  BY <1>10, <1>11, <1>12, <1>13, <1>14 DEF TableInv, Store!Next

(* Update changes one attribute of one record, in its place. *)
LEMMA UpdateStep ==
  ASSUME TableInv, NEW n, NEW tag \in Tags, Update(n, tag)
  PROVE  TableInv' /\ Store!Next /\ Live(slots') = Live(slots)
<1>1. TypeOK /\ NumbersAreSlots /\ UniqueIds /\ FreeListOrdered
  BY DEF TableInv
<1>2. PICK i \in Live(slots) : slots' = [slots EXCEPT ![i].record.tag = tag]
  BY DEF Update
<1>3. freeHead' = freeHead
  BY DEF Update
<1>4. PICK m \in 0..(MaxSlots - 1) :
           /\ slots \in [0..m -> Slot]
           /\ DOMAIN slots = 0..m
           /\ Live(slots) \subseteq 0..m
           /\ Free(slots) = (0..m) \ Live(slots)
           /\ \A j \in 0..m : j \in Live(slots) <=> slots[j].kind = "record"
           /\ \A j \in Live(slots) : slots[j].record \in Record
  BY <1>1, SlotFacts
<1>5. PICK r \in Record : slots[i] = [kind |-> "record", record |-> r]
  <2>1. slots[i] \in Slot /\ slots[i].kind = "record"
    BY <1>2, <1>4
  <2> QED
    BY <2>1 DEF Slot
<1> DEFINE new == [kind |-> "record", record |-> [r EXCEPT !.tag = tag]]
<1>6. slots' = [slots EXCEPT ![i] = new]
  <2>1. slots' = [slots EXCEPT ![i] =
                    [slots[i] EXCEPT !.record = [slots[i].record EXCEPT !.tag = tag]]]
    BY <1>2
  <2>2. [slots[i] EXCEPT !.record = [slots[i].record EXCEPT !.tag = tag]] = new
    BY <1>5
  <2> QED
    BY <2>1, <2>2, Zenon
<1>7. /\ new \in Slot /\ new.kind = "record"
      /\ new.record.number = r.number /\ new.record.id = r.id /\ new.record.tag = tag
  BY <1>5 DEF Slot, Record
<1>8. /\ i \in 0..m
      /\ DOMAIN slots' = 0..m
      /\ slots'[i] = new
      /\ \A j \in (0..m) \ {i} : slots'[j] = slots[j]
  <2> HIDE DEF new
  <2> QED
    BY <1>2, <1>4, <1>6
<1>9. slots' \in [0..m -> Slot]
  <2> HIDE DEF new
  <2> QED
    BY <1>4, <1>6, <1>7
<1>10. Live(slots') = Live(slots) /\ Free(slots') = Free(slots)
  <2> HIDE DEF new
  <2>1. \A j \in 0..m : j \in Live(slots) <=> slots'[j].kind = "record"
    BY <1>2, <1>4, <1>7, <1>8
  <2>2. Live(slots') = Live(slots)
    BY <1>4, <1>8, <2>1 DEF Live
  <2> QED
    BY <1>4, <1>8, <2>2 DEF Free
<1>11. TypeOK'
  BY <1>1, <1>3, <1>9 DEF TypeOK
<1>12. /\ slots[i].record.number = r.number /\ slots[i].record.id = r.id
       /\ slots'[i].record.number = r.number /\ slots'[i].record.id = r.id
       /\ slots'[i].record.tag = tag
  BY <1>5, <1>7, <1>8
<1>13. NumbersAreSlots' /\ UniqueIds'
  BY <1>1, <1>4, <1>8, <1>10, <1>12 DEF NumbersAreSlots, UniqueIds
<1>14. \A j \in Free(slots) : slots'[j] = slots[j]
  BY <1>2, <1>4, <1>8
<1>15. FreeListOrdered'
  BY <1>1, <1>3, <1>10, <1>14 DEF FreeListOrdered
<1>16. Store!Update
  <2>1. DOMAIN Records = Live(slots) /\ DOMAIN Records' = Live(slots)
    BY <1>10 DEF Records
  <2>2. \A j \in Live(slots) :
          Records'[j] = IF j = i THEN [Records[j] EXCEPT !.tag = tag] ELSE Records[j]
    BY <1>4, <1>8, <1>10, <1>12 DEF Records
  <2>3. Records' = [Records EXCEPT ![i].tag = tag]
    BY <1>2, <1>10, <2>1, <2>2 DEF Records
  <2> QED
    BY <1>2, <2>1, <2>3 DEF Store!Update
<1> QED
  BY <1>10, <1>11, <1>13, <1>15, <1>16 DEF TableInv, Store!Next

(* Every step of the table keeps the invariant and is a step of the store. *)
LEMMA Step ==
  ASSUME TableInv, [Next]_vars
  PROVE  TableInv' /\ [Store!Next]_Records
<1>1. CASE \E id \in Ids, tag \in Tags \union {NoTag} : Add(id, tag)
  BY <1>1, AddStep
<1>2. CASE \E n \in 0..(MaxSlots - 1) : DeleteNumber(n)
  BY <1>2, DeleteStep DEF DeleteNumber
<1>3. CASE \E n \in 0..(MaxSlots - 1), tag \in Tags : Update(n, tag)
  BY <1>3, UpdateStep
<1>4. CASE UNCHANGED vars
  <2>1. slots' = slots /\ freeHead' = freeHead
    BY <1>4 DEF vars
  <2>2. TableInv'
    BY <2>1 DEF TableInv, TypeOK, NumbersAreSlots, UniqueIds, FreeListOrdered
  <2>3. Records' = Records
    BY <2>1 DEF Records
  <2> QED
    BY <2>2, <2>3
<1> QED
  BY <1>1, <1>2, <1>3, <1>4 DEF Next

-----------------------------------------------------------------------------
(* The walk along the free list.                                           *)

(* Downwards is an order of any numbers. *)
Down(S) == {p \in S \X S : p[1] > p[2]}

(* It is a strict total order, as Arranged wants. *)
LEMMA DownOrders ==
  ASSUME NEW S \in SUBSET Nat
  PROVE  Orders(Down(S), S)
<1>1. \A a, b \in S : a \in Nat /\ (<<a, b>> \in Down(S) <=> a > b)
  BY DEF Down
<1>2. \A a, b \in S : a = b \/ <<a, b>> \in Down(S) \/ <<b, a>> \in Down(S)
  <2> TAKE a, b \in S
  <2>1. a \in Nat /\ b \in Nat /\ (a = b \/ a > b \/ b > a)
    OBVIOUS
  <2> QED
    BY <1>1, <2>1
<1>3. \A a \in S : <<a, a>> \notin Down(S)
  BY <1>1
<1>4. \A a, b, c \in S : <<a, b>> \in Down(S) /\ <<b, c>> \in Down(S) => <<a, c>> \in Down(S)
  BY <1>1
<1> QED
  BY <1>2, <1>3, <1>4 DEF Orders

(* One step of the walk of FreeListComplete, and all. *)
WalkStep(w, k) ==
  IF k = 0 THEN freeHead
  ELSE LET s == SlotOf(w[k - 1])
       IN  IF s \in Free(slots) THEN slots[s].link ELSE 0
Walks(w, n) == w = [k \in 0..n |-> WalkStep(w, k)]

(* parse finds the slot that a link was computed from. *)
LEMMA LinkBack ==
  ASSUME NEW i \in Nat
  PROVE  FreeLink(i) \in Nat /\ FreeLink(i) > 0 /\ SlotOf(FreeLink(i)) = i
<1>1. FreeLink(i) - 1 - HeaderLen = 4 * i
  BY DEF FreeLink, HeaderLen
<1>2. (4 * i) \div 4 = i
  OBVIOUS
<1> QED
  BY <1>1, <1>2 DEF SlotOf, FreeLink, HeaderLen

(* The greatest of a set that a sequence lists downwards is the first. *)
LEMMA PointsFirst ==
  ASSUME NEW S \in SUBSET Nat, NEW e, Lists(e, S, Down(S)), NEW i \in 1..Len(e),
         NEW link, PointsTo(link, {j \in S : \A k \in 1..(i - 1) : j # e[k]})
  PROVE  link = FreeLink(e[i])
<1> DEFINE U == {j \in S : \A k \in 1..(i - 1) : j # e[k]}
<1>1. /\ e \in Seq(S) /\ Len(e) \in Nat
      /\ \A j \in 1..Len(e) : e[j] \in S /\ e[j] \in Nat
  <2>1. e \in Seq(S)
    BY DEF Lists
  <2>2. Len(e) \in Nat /\ \A j \in 1..Len(e) : e[j] \in S
    BY <2>1
  <2> QED
    BY <2>1, <2>2
<1>2. \A j, k \in 1..Len(e) : j < k => e[j] > e[k]
  BY <1>1 DEF Lists, Down
<1>3. e[i] \in U
  <2>1. \A k \in 1..(i - 1) : e[i] # e[k]
    BY <1>1, <1>2
  <2> QED
    BY <1>1, <2>1
<1>4. \A j \in U : j =< e[i]
  <2> TAKE j \in U
  <2>1. PICK k \in 1..Len(e) : e[k] = j
    BY DEF Lists
  <2>2. k >= i
    BY <1>1, <2>1
  <2> QED
    BY <1>1, <1>2, <2>1, <2>2
<1>5. PICK j \in U : link = FreeLink(j) /\ \A k \in U : k =< j
  <2>1. U # {} /\ PointsTo(link, U)
    BY <1>3
  <2> HIDE DEF U
  <2> QED
    BY <2>1 DEF PointsTo
<1>6. j \in Nat /\ j = e[i]
  <2>1. j =< e[i] /\ e[i] =< j
    BY <1>3, <1>4, <1>5
  <2> QED
    BY <1>1, <2>1
<1> QED
  BY <1>5, <1>6

(* The links of the free slots lead through all of them, from the highest down. *)
LEMMA FreeListWalk ==
  ASSUME TypeOK, FreeListOrdered
  PROVE  FreeListComplete
<1> DEFINE F == Free(slots)
           n == Cardinality(F)
<1>1. IsFiniteSet(F) /\ F \in SUBSET Nat
  <2>1. PICK m \in 0..(MaxSlots - 1) : Free(slots) = (0..m) \ Live(slots)
    BY SlotFacts
  <2>2. IsFiniteSet(0..m) /\ F \in SUBSET (0..m)
    BY <2>1, FS_Interval, SlotAssumption
  <2> QED
    BY <2>2, FS_Subset
<1>2. Orders(Down(F), F)
  BY <1>1, DownOrders
<1>3. PICK e : Lists(e, F, Down(F)) /\ Len(e) = n
  BY <1>1, <1>2, Listed
<1>4. /\ n \in Nat
      /\ \A i \in 1..n : e[i] \in F /\ e[i] \in Nat
      /\ \A i, j \in 1..n : i < j => e[i] > e[j]
  <2>1. e \in Seq(F)
    BY <1>3 DEF Lists
  <2>2. n \in Nat /\ \A i \in 1..n : e[i] \in F /\ e[i] \in Nat
    BY <1>1, <1>3, <2>1
  <2>3. \A i, j \in 1..n : i < j => e[i] > e[j]
    BY <1>3, <2>2 DEF Lists, Down
  <2> QED
    BY <2>2, <2>3
<1> HIDE DEF n
<1> DEFINE w == [k \in 0..n |-> IF k = n THEN 0 ELSE FreeLink(e[k + 1])]
<1>5. \A k \in 0..(n - 1) : /\ w[k] = FreeLink(e[k + 1]) /\ SlotOf(w[k]) = e[k + 1]
                            /\ e[k + 1] \in F
  <2> TAKE k \in 0..(n - 1)
  <2>1. k \in 0..n /\ k # n /\ k + 1 \in 1..n
    BY <1>4
  <2>2. w[k] = FreeLink(e[k + 1])
    BY <2>1
  <2>3. e[k + 1] \in Nat /\ e[k + 1] \in F
    BY <1>4, <2>1
  <2> HIDE DEF w
  <2> QED
    BY <2>2, <2>3, LinkBack
<1>6. w[n] = 0 /\ w = [k \in 0..n |-> w[k]]
  BY <1>4
<1> HIDE DEF w
<1>7. WalkStep(w, 0) = w[0]
  <2>1. PointsTo(freeHead, F)
    BY DEF FreeListOrdered
  <2>2. CASE n = 0
    <3>1. F = {}
      BY <1>1, <2>2, FS_EmptySet DEF n
    <3> QED
      BY <1>6, <2>1, <2>2, <3>1 DEF WalkStep, PointsTo
  <2>3. CASE n # 0
    <3>1. 1 \in 1..Len(e) /\ 0 \in 0..(n - 1)
      BY <1>3, <1>4, <2>3
    <3>2. {j \in F : \A k \in 1..(1 - 1) : j # e[k]} = F
      OBVIOUS
    <3>3. freeHead = FreeLink(e[1])
      BY <1>1, <1>3, <2>1, <3>1, <3>2, PointsFirst
    <3> QED
      BY <1>5, <3>1, <3>3 DEF WalkStep
  <2> QED
    BY <2>2, <2>3
<1>8. ASSUME NEW k \in 1..n
      PROVE  WalkStep(w, k) = w[k]
  <2>1. /\ k - 1 \in 0..(n - 1) /\ k # 0 /\ (k - 1) + 1 = k
        /\ k \in Nat
    BY <1>4
  <2>2. SlotOf(w[k - 1]) = e[k] /\ e[k] \in F
    BY <1>5, <2>1
  <2>3. WalkStep(w, k) = slots[e[k]].link
    BY <2>1, <2>2 DEF WalkStep
  <2> DEFINE U == {j \in F : j < e[k]}
  <2>4. PointsTo(slots[e[k]].link, U)
    BY <2>2 DEF FreeListOrdered
  <2>5. U = {j \in F : \A i \in 1..((k + 1) - 1) : j # e[i]}
    <3>1. ASSUME NEW j \in F
          PROVE  j < e[k] <=> \A i \in 1..k : j # e[i]
      <4>1. PICK i \in 1..n : e[i] = j
        BY <1>3 DEF Lists
      <4>2. j < e[k] <=> k < i
        BY <1>4, <4>1
      <4>3. \A h \in 1..n : e[h] = j => h = i
        BY <1>4, <4>1
      <4> QED
        BY <1>4, <4>1, <4>2, <4>3
    <3>2. (k + 1) - 1 = k
      BY <2>1
    <3> QED
      BY <3>1, <3>2
  <2>6. CASE k = n
    <3>1. U = {}
      <4> SUFFICES ASSUME NEW j \in U PROVE FALSE
        OBVIOUS
      <4>1. PICK i \in 1..n : e[i] = j
        BY <1>3 DEF Lists
      <4> QED
        BY <1>4, <2>6, <4>1
    <3> QED
      BY <1>6, <2>3, <2>4, <2>6, <3>1 DEF PointsTo
  <2>7. CASE k # n
    <3>1. k + 1 \in 1..Len(e) /\ k \in 0..(n - 1)
      BY <1>3, <1>4, <2>7
    <3>2. PointsTo(slots[e[k]].link, {j \in F : \A i \in 1..((k + 1) - 1) : j # e[i]})
      BY <2>4, <2>5
    <3>3. slots[e[k]].link = FreeLink(e[k + 1])
      <4> HIDE DEF U
      <4> QED
        BY <1>1, <1>3, <3>1, <3>2, PointsFirst
    <3> QED
      BY <1>5, <2>3, <3>1, <3>3
  <2> QED
    BY <2>6, <2>7
<1>9. Walks(w, n)
  <2>1. \A k \in 0..n : k = 0 \/ k \in 1..n
    BY <1>4
  <2>2. \A k \in 0..n : w[k] = WalkStep(w, k)
    BY <1>7, <1>8, <2>1
  <2> QED
    BY <1>6, <2>2 DEF Walks
<1> DEFINE v == CHOOSE f : Walks(f, n)
<1>10. v = w
  <2>1. Walks(v, n)
    BY <1>9
  <2> HIDE DEF v
  <2>2. v = [k \in 0..n |-> v[k]] /\ \A k \in 0..n : v[k] = WalkStep(v, k)
    BY <2>1 DEF Walks
  <2> DEFINE T == {k \in 0..n : v[k] = w[k]}
  <2>3. 0 \in T
    <3>1. 0 \in 0..n
      BY <1>4
    <3>2. v[0] = freeHead /\ w[0] = freeHead
      BY <1>7, <2>2, <3>1 DEF WalkStep
    <3> QED
      BY <3>1, <3>2
  <2>4. \A k \in 1..n : k - 1 \in T => k \in T
    <3> TAKE k \in 1..n
    <3> HAVE k - 1 \in T
    <3>1. k \in 0..n /\ k # 0
      BY <1>4
    <3>2. v[k - 1] = w[k - 1]
      OBVIOUS
    <3>3. v[k] = WalkStep(v, k) /\ w[k] = WalkStep(w, k)
      BY <1>8, <2>2, <3>1
    <3>4. WalkStep(v, k) = WalkStep(w, k)
      BY <3>1, <3>2 DEF WalkStep
    <3> QED
      BY <3>1, <3>3, <3>4
  <2>5. 0..n \subseteq T
    <3> HIDE DEF T
    <3> QED
      BY <1>4, <2>3, <2>4, Climb
  <2> QED
    BY <1>6, <2>2, <2>5
<1>11. \A k \in 0..(n - 1) : SlotOf(v[k]) \in F
  <2> HIDE DEF v
  <2> QED
    BY <1>5, <1>10
<1>12. \A k \in 1..n : v[k] < v[k - 1]
  <2> HIDE DEF v, F
  <2> TAKE k \in 1..n
  <2>1. k - 1 \in 0..(n - 1) /\ (k - 1) + 1 = k
    BY <1>4
  <2>2. w[k - 1] = FreeLink(e[k]) /\ e[k] \in Nat
    BY <1>4, <1>5, <2>1
  <2>3. CASE k = n
    BY <1>6, <1>10, <2>2, <2>3, LinkBack
  <2>4. CASE k # n
    <3>1. k \in 0..(n - 1) /\ k + 1 \in 1..n /\ k < k + 1
      BY <1>4, <2>4
    <3>2. w[k] = FreeLink(e[k + 1]) /\ e[k + 1] \in Nat /\ e[k] > e[k + 1]
      BY <1>4, <1>5, <3>1
    <3>3. FreeLink(e[k + 1]) < FreeLink(e[k])
      BY <2>2, <3>2 DEF FreeLink, HeaderLen
    <3> QED
      BY <1>10, <2>2, <3>2, <3>3
  <2> QED
    BY <2>3, <2>4
<1>13. v[n] = 0
  <2> HIDE DEF v
  <2> QED
    BY <1>6, <1>10
<1> QED
  BY <1>11, <1>12, <1>13 DEF FreeListComplete, Walks, WalkStep, n

-----------------------------------------------------------------------------
(* Theorems.                                                               *)

(* A record's number is its slot, identities are unique, and the free list   *)
(* leads from the highest free slot down, for every number of slots and     *)
(* every set of identities (Table::insert, Table::delete and the update).   *)
THEOREM TableCorrect == Spec => []TableInv
<1>1. TableInv /\ [Next]_vars => TableInv'
  BY Step
<1> QED
  BY InitTable, <1>1, PTL DEF Spec

(* The links of the free slots lead from the header through every one of     *)
(* them, from the highest down, and end: what macOS follows to allocate a   *)
(* number (Table::rebuild_free_list).                                       *)
THEOREM FreeListReachesAll == Spec => []FreeListComplete
<1>1. TableInv => FreeListComplete
  BY FreeListWalk DEF TableInv
<1> QED
  BY <1>1, TableCorrect, PTL

(* The table with its free list, its dropped last slot and its reused slots  *)
(* is a store in which a number stays its record's until it is deleted, no  *)
(* other record changes, and no identity is taken twice.                    *)
THEOREM TableImplementsStore == Spec => ImplementsStore
<1>1. Init => Store!Init
  <2> SUFFICES ASSUME Init PROVE Store!Init
    OBVIOUS
  <2>1. DOMAIN slots = {0} /\ slots[0].kind = "free"
    BY DEF Init
  <2>2. Live(slots) = {}
    BY <2>1 DEF Live
  <2> QED
    BY <2>2 DEF Store!Init, Records
<1>2. TableInv /\ [Next]_vars => [Store!Next]_Records
  BY Step
<1> QED
  BY <1>1, <1>2, TableCorrect, PTL DEF Spec, ImplementsStore, Store!Spec

=============================================================================
