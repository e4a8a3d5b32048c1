---------------------------- MODULE SlotLayoutProofs ----------------------------
(***************************************************************************)
(* Proofs about what SlotTable keeps beside the slots: the layout of the   *)
(* records, the indexes, and the image of the table in its file.           *)
(***************************************************************************)
EXTENDS SlotTableProofs

-----------------------------------------------------------------------------
(* The layout.                                                             *)

LayoutInv == layout \in Seq(Nat) /\ LayoutIsLive

(* An empty table has no records and lays out none. *)
LEMMA LayoutInit == Init => LayoutInv
<1> SUFFICES ASSUME Init PROVE LayoutInv
  OBVIOUS
<1>1. layout = <<>> /\ DOMAIN slots = {0} /\ slots[0].kind = "free"
  BY DEF Init
<1>2. Live(slots) = {}
  BY <1>1 DEF Live
<1> QED
  BY <1>1, <1>2 DEF LayoutInv, LayoutIsLive, ToSet

(* A new record goes last, and was in no place before. *)
LEMMA LayoutAdd ==
  ASSUME TableInv, LayoutInv, NEW id \in Ids, NEW tag \in Tags \union {NoTag}, Add(id, tag)
  PROVE  LayoutInv'
<1>1. PICK i \in InsertSlots : Insert(i, id, tag)
  BY DEF Add
<1>2. /\ i \in Nat /\ i \notin Live(slots)
      /\ Live(slots') = Live(slots) \union {i}
  <2>1. TypeOK
    BY DEF TableInv
  <2>2. i \in 0..(MaxSlots - 1) /\ i \notin Live(slots) /\ Live(slots') = Live(slots) \union {i}
    BY <1>1, <2>1, InsertStep
  <2> QED
    BY <2>2, SlotAssumption
<1>3. layout' = Append(layout, i)
  BY <1>1 DEF Insert
<1> DEFINE l == layout
           m == layout'
           n == Len(layout)
<1>4. l \in Seq(Nat) /\ n \in Nat /\ DOMAIN l = 1..n
  BY DEF LayoutInv
<1>5. /\ m \in Seq(Nat) /\ DOMAIN m = 1..(n + 1)
      /\ \A k \in 1..n : m[k] = l[k]
      /\ m[n + 1] = i
  BY <1>2, <1>3, <1>4
<1>6. \A k : k \in 1..(n + 1) <=> k \in 1..n \/ k = n + 1
  BY <1>4
<1>7. ToSet(l) = Live(slots) /\ \A j, k \in 1..n : l[j] = l[k] => j = k
  BY <1>4 DEF LayoutInv, LayoutIsLive
<1>8. \A k \in 1..n : l[k] \in Live(slots)
  BY <1>4, <1>7 DEF ToSet
<1> HIDE DEF l, m, n
<1>9. ToSet(m) = Live(slots')
  <2>1. ToSet(m) = {m[k] : k \in 1..(n + 1)} /\ ToSet(l) = {l[k] : k \in 1..n}
    BY <1>4, <1>5 DEF ToSet
  <2>2. ToSet(m) = ToSet(l) \union {i}
    BY <1>5, <1>6, <2>1
  <2> QED
    BY <1>2, <1>7, <2>2
<1>10. \A j, k \in 1..(n + 1) : m[j] = m[k] => j = k
  BY <1>2, <1>5, <1>6, <1>7, <1>8
<1> QED
  BY <1>5, <1>9, <1>10 DEF LayoutInv, LayoutIsLive, m

(* A record that goes leaves its place, and only it. *)
LEMMA LayoutDelete ==
  ASSUME TableInv, LayoutInv, NEW i \in Live(slots), Delete(i)
  PROVE  LayoutInv'
<1>1. Live(slots') = Live(slots) \ {i} /\ Live(slots) \subseteq DOMAIN slots
  BY DeleteStep DEF Live
<1>2. layout' = Kept(layout, DOMAIN slots \ {i})
  BY DEF Delete
<1>3. /\ layout \in Seq(Nat)
      /\ ToSet(layout) = Live(slots)
      /\ \A j, k \in DOMAIN layout : layout[j] = layout[k] => j = k
  BY DEF LayoutInv, LayoutIsLive
<1>4. /\ layout' \in Seq(Nat)
      /\ ToSet(layout') = Live(slots) \cap (DOMAIN slots \ {i})
  BY <1>2, <1>3, KeptHas
<1>5. \A j, k \in DOMAIN layout' : layout'[j] = layout'[k] => j = k
  BY <1>2, <1>3, KeptOnce
<1>6. ToSet(layout') = Live(slots')
  BY <1>1, <1>4
<1> QED
  BY <1>4, <1>5, <1>6 DEF LayoutInv, LayoutIsLive

(* Every operation keeps the layout to the live records, each once. *)
LEMMA LayoutStep ==
  ASSUME TableInv, LayoutInv, [Next]_vars
  PROVE  LayoutInv'
<1>1. CASE \E id \in Ids, tag \in Tags \union {NoTag} : Add(id, tag)
  BY <1>1, LayoutAdd
<1>2. CASE \E n \in 0..(MaxSlots - 1) : DeleteNumber(n)
  BY <1>2, LayoutDelete DEF DeleteNumber
<1>3. CASE \E n \in 0..(MaxSlots - 1), tag \in Tags : Update(n, tag)
  <2>1. layout' = layout /\ Live(slots') = Live(slots)
    BY <1>3, UpdateStep DEF Update
  <2> QED
    BY <2>1 DEF LayoutInv, LayoutIsLive
<1>4. CASE UNCHANGED vars
  BY <1>4 DEF vars, LayoutInv, LayoutIsLive
<1> QED
  BY <1>1, <1>2, <1>3, <1>4 DEF Next

-----------------------------------------------------------------------------
(* The indexes.                                                            *)

Entry == [number : Nat, key : Nat]

(* Entries are in order by key, and by number where keys are the same. *)
By == {p \in Entry \X Entry :
         p[1].key < p[2].key \/ (p[1].key = p[2].key /\ p[1].number < p[2].number)}

(* The entries that index x should have for the slots below one, and for all. *)
EntriesBelow(s, x, k) ==
  {[number |-> i, key |-> KeyOf(s[i].record, x)] :
     i \in {j \in Live(s) : j < k /\ Indexable(s[j].record, x)}}
Entries(s, x) ==
  {[number |-> i, key |-> KeyOf(s[i].record, x)] :
     i \in {j \in Live(s) : Indexable(s[j].record, x)}}

IndexInv == \A x \in IndexNames : Lists(indexes[x], Entries(slots, x), By)

(* The order of two entries, in numbers. *)
LEMMA ByIs ==
  ASSUME NEW a \in Entry, NEW b \in Entry
  PROVE  /\ a.number \in Nat /\ a.key \in Nat
         /\ <<a, b>> \in By <=> a.key < b.key \/ (a.key = b.key /\ a.number < b.number)
         /\ (a.key = b.key /\ a.number = b.number) => a = b
<1>1. a.number \in Nat /\ a.key \in Nat
  BY DEF Entry
<1>2. <<a, b>> \in By <=> a.key < b.key \/ (a.key = b.key /\ a.number < b.number)
  BY DEF By
<1>3. (a.key = b.key /\ a.number = b.number) => a = b
  BY DEF Entry
<1> QED
  BY <1>1, <1>2, <1>3

(* The order of entries is a strict total one, as Arranged wants. *)
LEMMA ByOrders ==
  ASSUME NEW S \in SUBSET Entry
  PROVE  Orders(By, S)
<1>1. \A a, b \in S : a = b \/ <<a, b>> \in By \/ <<b, a>> \in By
  <2> TAKE a, b \in S
  <2>1. a \in Entry /\ b \in Entry
    OBVIOUS
  <2> HIDE DEF Entry
  <2>2. /\ a.number \in Nat /\ a.key \in Nat /\ b.number \in Nat /\ b.key \in Nat
    BY <2>1, ByIs
  <2>3. <<a, b>> \in By <=> a.key < b.key \/ (a.key = b.key /\ a.number < b.number)
    BY <2>1, ByIs
  <2>4. <<b, a>> \in By <=> b.key < a.key \/ (b.key = a.key /\ b.number < a.number)
    BY <2>1, ByIs
  <2>5. (a.key = b.key /\ a.number = b.number) => a = b
    BY <2>1, ByIs
  <2> QED
    BY <2>2, <2>3, <2>4, <2>5
<1>2. \A a \in S : <<a, a>> \notin By
  BY ByIs
<1>3. \A a, b, c \in S : <<a, b>> \in By /\ <<b, c>> \in By => <<a, c>> \in By
  <2> TAKE a, b, c \in S
  <2>1. a \in Entry /\ b \in Entry /\ c \in Entry
    OBVIOUS
  <2>2. /\ a.number \in Nat /\ a.key \in Nat /\ b.number \in Nat /\ b.key \in Nat
        /\ c.number \in Nat /\ c.key \in Nat
    BY <2>1, ByIs
  <2>3. <<a, b>> \in By <=> a.key < b.key \/ (a.key = b.key /\ a.number < b.number)
    BY <2>1, ByIs
  <2>4. <<b, c>> \in By <=> b.key < c.key \/ (b.key = c.key /\ b.number < c.number)
    BY <2>1, ByIs
  <2>5. <<a, c>> \in By <=> a.key < c.key \/ (a.key = c.key /\ a.number < c.number)
    BY <2>1, ByIs
  <2> QED
    BY <2>2, <2>3, <2>4, <2>5
<1> QED
  BY <1>1, <1>2, <1>3 DEF Orders

(* Where an entry goes: after those with no larger key, before the first with one. *)
LEMMA PlacedIs ==
  ASSUME NEW t \in Seq(Entry), NEW e \in Entry
  PROVE  /\ Placed(t, e) \in Seq(Entry)
         /\ Len(Placed(t, e)) = Len(t) + 1
         /\ \E p \in 1..(Len(t) + 1) :
              /\ Placed(t, e)[p] = e
              /\ \A i \in 1..(p - 1) : Placed(t, e)[i] = t[i] /\ ~(t[i].key > e.key)
              /\ \A i \in p..Len(t) : Placed(t, e)[i + 1] = t[i]
              /\ p \in 1..Len(t) => t[p].key > e.key
<1> DEFINE I == {i \in 1..Len(t) : t[i].key > e.key}
           at == IF I # {} THEN Min(I) ELSE 0
           p == IF at = 0 THEN Len(t) + 1 ELSE at
           u == SubSeq(t, 1, p - 1) \o <<e>> \o SubSeq(t, p, Len(t))
<1>1. Placed(t, e) = u
  BY DEF Placed, SelectInSeq, InsertAt
<1>2. Len(t) \in Nat
  OBVIOUS
<1>3. /\ p \in 1..(Len(t) + 1)
      /\ \A i \in 1..(p - 1) : i \in 1..Len(t) /\ ~(t[i].key > e.key)
      /\ p \in 1..Len(t) => t[p].key > e.key
  <2>1. CASE I = {}
    <3>1. p = Len(t) + 1
      BY <2>1
    <3> HIDE DEF p
    <3> QED
      BY <1>2, <2>1, <3>1
  <2>2. CASE I # {}
    <3>1. I \in SUBSET Nat
      OBVIOUS
    <3>2. Min(I) \in I /\ \A k \in I : Min(I) =< k
      <4> HIDE DEF I
      <4> QED
        BY <2>2, <3>1, MinIs
    <3>3. p = Min(I)
      BY <2>2, <3>2
    <3> HIDE DEF p
    <3>4. p \in 1..Len(t) /\ t[p].key > e.key
      BY <3>2, <3>3
    <3>5. \A i \in 1..(p - 1) : i \in 1..Len(t) /\ i \notin I
      BY <1>2, <3>2, <3>3, <3>4
    <3> QED
      BY <1>2, <3>4, <3>5
  <2> QED
    BY <2>1, <2>2
<1> HIDE DEF p
<1>4. /\ u \in Seq(Entry) /\ Len(u) = Len(t) + 1
      /\ u[p] = e
      /\ \A i \in 1..(p - 1) : u[i] = t[i]
      /\ \A i \in p..Len(t) : u[i + 1] = t[i]
  <2> DEFINE a == SubSeq(t, 1, p - 1)
             b == SubSeq(t, p, Len(t))
  <2>1. /\ a \in Seq(Entry) /\ Len(a) = p - 1
        /\ \A i \in 1..(p - 1) : a[i] = t[i]
    BY <1>2, <1>3
  <2>2. /\ b \in Seq(Entry) /\ Len(b) = Len(t) - p + 1
        /\ \A i \in 1..(Len(t) - p + 1) : b[i] = t[i + p - 1]
    BY <1>2, <1>3
  <2> HIDE DEF a, b
  <2>3. /\ a \o <<e>> \in Seq(Entry) /\ Len(a \o <<e>>) = p
        /\ (a \o <<e>>)[p] = e
        /\ \A i \in 1..(p - 1) : (a \o <<e>>)[i] = a[i]
    BY <1>2, <1>3, <2>1
  <2> DEFINE c == a \o <<e>>
  <2> HIDE DEF c
  <2>c. c \in Seq(Entry) /\ Len(c) = p /\ p \in Nat
    BY <1>2, <1>3, <2>3 DEF c
  <2>4. /\ c \o b \in Seq(Entry) /\ Len(c \o b) = Len(t) + 1
        /\ \A i \in 1..p : (c \o b)[i] = c[i]
        /\ \A i \in 1..(Len(t) - p + 1) : (c \o b)[i + p] = b[i]
    <3>1. Len(b) \in Nat /\ p + Len(b) = Len(t) + 1
      BY <1>2, <1>3, <2>2
    <3>a. c \in Seq(Entry) /\ b \in Seq(Entry)
      BY <2>2, <2>c
    <3>2. c \o b \in Seq(Entry) /\ Len(c \o b) = Len(c) + Len(b)
      BY <3>a
    <3>3. \A i \in 1..Len(c) : (c \o b)[i] = c[i]
      BY <2>2, <2>c
    <3>4. \A i \in 1..Len(b) : (c \o b)[i + Len(c)] = b[i]
      BY <2>2, <2>c
    <3>5. Len(c \o b) = Len(t) + 1
      BY <2>c, <3>1, <3>2
    <3>6. \A i \in 1..(Len(t) - p + 1) : (c \o b)[i + p] = b[i]
      BY <2>2, <2>c, <3>4
    <3> QED
      BY <2>c, <3>2, <3>3, <3>5, <3>6
  <2>5. u = c \o b
    BY DEF a, b, c
  <2> HIDE DEF u
  <2>6. \A i \in p..Len(t) : u[i + 1] = t[i]
    <3> TAKE i \in p..Len(t)
    <3>1. /\ (i - p + 1) \in 1..(Len(t) - p + 1)
          /\ (i - p + 1) + p = i + 1 /\ (i - p + 1) + p - 1 = i
      BY <1>2, <1>3
    <3>2. (c \o b)[(i - p + 1) + p] = b[i - p + 1]
      BY <2>4, <3>1
    <3>3. b[i - p + 1] = t[(i - p + 1) + p - 1]
      BY <2>2, <3>1
    <3> QED
      BY <2>5, <3>1, <3>2, <3>3
  <2>7. \A i \in 1..(p - 1) : u[i] = t[i]
    <3> TAKE i \in 1..(p - 1)
    <3>1. i \in 1..p
      BY <1>3
    <3> QED
      BY <2>1, <2>3, <2>4, <2>5, <3>1 DEF c
  <2>8. p \in 1..p
    BY <1>3
  <2> QED
    BY <2>3, <2>4, <2>5, <2>6, <2>7, <2>8 DEF c
<1> HIDE DEF u
<1> QED
  BY <1>1, <1>3, <1>4

(* Inserting a later record's entry keeps an index in order. *)
LEMMA PlacedLists ==
  ASSUME NEW S \in SUBSET Entry, NEW t, Lists(t, S, By), NEW e \in Entry,
         \A o \in S : o.number < e.number
  PROVE  Lists(Placed(t, e), S \union {e}, By)
<1>1. /\ t \in Seq(S) /\ t \in Seq(Entry) /\ Len(t) \in Nat
      /\ \A i \in 1..Len(t) : t[i] \in S /\ t[i] \in Entry
  <2>1. t \in Seq(S)
    BY DEF Lists
  <2>2. Len(t) \in Nat /\ \A i \in 1..Len(t) : t[i] \in S
    BY <2>1
  <2> QED
    BY <2>1, <2>2
<1> DEFINE u == Placed(t, e)
           n == Len(t)
<1>2. u \in Seq(Entry) /\ Len(u) = n + 1
  BY <1>1, PlacedIs
<1>3. PICK p \in 1..(n + 1) :
              /\ u[p] = e
              /\ \A i \in 1..(p - 1) : u[i] = t[i] /\ ~(t[i].key > e.key)
              /\ \A i \in p..n : u[i + 1] = t[i]
              /\ p \in 1..n => t[p].key > e.key
  BY <1>1, PlacedIs
<1> HIDE DEF u
<1>4. \A i \in 1..(n + 1) : \/ i \in 1..(p - 1) /\ i \in 1..n
                            \/ i = p
                            \/ i - 1 \in p..n /\ i - 1 \in 1..n /\ (i - 1) + 1 = i
  BY <1>1, <1>3
<1>5. \A i \in 1..(n + 1) : u[i] \in S \union {e}
  <2> TAKE i \in 1..(n + 1)
  <2>1. CASE i \in 1..(p - 1) /\ i \in 1..n
    BY <1>1, <1>3, <2>1
  <2>2. CASE i = p
    BY <1>3, <2>2
  <2>3. CASE i - 1 \in p..n /\ i - 1 \in 1..n /\ (i - 1) + 1 = i
    <3>1. u[i] = t[i - 1]
      BY <1>3, <2>3
    <3> QED
      BY <1>1, <2>3, <3>1
  <2> QED
    BY <1>4, <2>1, <2>2, <2>3
<1>6. u \in Seq(S \union {e})
  BY <1>2, <1>5
<1>7. \A o \in S \union {e} : \E i \in 1..(n + 1) : u[i] = o
  <2> TAKE o \in S \union {e}
  <2>1. CASE o = e
    BY <1>3, <2>1
  <2>2. CASE o \in S
    <3>1. PICK i \in 1..n : t[i] = o
      BY <2>2 DEF Lists
    <3>2. CASE i < p
      <4>1. i \in 1..(p - 1) /\ i \in 1..(n + 1)
        BY <1>1, <1>3, <3>2
      <4> QED
        BY <1>3, <3>1, <4>1
    <3>3. CASE ~(i < p)
      <4>1. i \in p..n /\ i + 1 \in 1..(n + 1)
        BY <1>1, <1>3, <3>3
      <4> QED
        BY <1>3, <3>1, <4>1
    <3> QED
      BY <3>2, <3>3
  <2> QED
    BY <2>1, <2>2
<1>8. \A i, j \in 1..n : i < j => <<t[i], t[j]>> \in By
  BY DEF Lists
<1>9. \A i \in 1..n : i < p => <<t[i], e>> \in By
  <2> TAKE i \in 1..n
  <2> HAVE i < p
  <2>1. i \in 1..(p - 1)
    BY <1>1, <1>3
  <2>2. ~(t[i].key > e.key) /\ t[i].number < e.number
    BY <1>1, <1>3, <2>1
  <2>3. t[i] \in Entry /\ t[i].key \in Nat /\ e.key \in Nat
    BY <1>1, ByIs
  <2>4. t[i].key < e.key \/ t[i].key = e.key
    BY <2>2, <2>3
  <2> QED
    BY <2>2, <2>3, <2>4, ByIs
<1>10. \A i \in 1..n : ~(i < p) => <<e, t[i]>> \in By
  <2> TAKE i \in 1..n
  <2> HAVE ~(i < p)
  <2>1. p \in 1..n /\ t[p].key > e.key /\ t[p] \in Entry /\ t[i] \in Entry
    BY <1>1, <1>3
  <2>2. t[p].key \in Nat /\ t[i].key \in Nat /\ e.key \in Nat
    BY <2>1, ByIs
  <2>3. t[p].key =< t[i].key
    <3>1. CASE i = p
      BY <2>2, <3>1
    <3>2. CASE p < i
      <4>1. <<t[p], t[i]>> \in By
        BY <1>8, <2>1, <3>2
      <4>2. t[p].key < t[i].key \/ t[p].key = t[i].key
        BY <2>1, <4>1, ByIs
      <4> QED
        BY <2>2, <4>2
    <3> QED
      BY <1>1, <1>3, <3>1, <3>2
  <2>4. e.key < t[i].key
    BY <2>1, <2>2, <2>3
  <2> QED
    BY <2>1, <2>4, ByIs
<1>11. \A i, j \in 1..(n + 1) : i < j => <<u[i], u[j]>> \in By
  <2> TAKE i, j \in 1..(n + 1)
  <2> HAVE i < j
  <2>0. i \in Nat /\ j \in Nat /\ p \in Nat /\ n \in Nat
    BY <1>1
  <2>1. CASE i < p
    <3>1. i \in 1..(p - 1) /\ i \in 1..n /\ u[i] = t[i]
      BY <1>3, <2>0, <2>1
    <3>2. CASE j < p
      <4>1. j \in 1..(p - 1) /\ j \in 1..n
        BY <2>0, <3>2
      <4>2. u[j] = t[j]
        BY <1>3, <4>1
      <4> QED
        BY <1>8, <3>1, <4>1, <4>2
    <3>3. CASE j = p
      BY <1>3, <1>9, <2>1, <3>1, <3>3
    <3>4. CASE p < j
      <4>1. j - 1 \in p..n /\ j - 1 \in 1..n /\ (j - 1) + 1 = j /\ i < j - 1
        BY <2>0, <2>1, <3>4
      <4>2. u[j] = t[j - 1]
        BY <1>3, <4>1
      <4> QED
        BY <1>8, <3>1, <4>1, <4>2
    <3> QED
      BY <2>0, <3>2, <3>3, <3>4
  <2>2. CASE i >= p
    <3>1. j - 1 \in p..n /\ j - 1 \in 1..n /\ (j - 1) + 1 = j /\ ~(j - 1 < p)
      BY <2>0, <2>2
    <3>2. u[j] = t[j - 1]
      BY <1>3, <3>1
    <3>3. CASE i = p
      BY <1>3, <1>10, <3>1, <3>2, <3>3
    <3>4. CASE p < i
      <4>1. i - 1 \in p..n /\ i - 1 \in 1..n /\ (i - 1) + 1 = i /\ i - 1 < j - 1
        BY <2>0, <3>4
      <4>2. u[i] = t[i - 1]
        BY <1>3, <4>1
      <4> QED
        BY <1>8, <3>1, <3>2, <4>1, <4>2
    <3> QED
      BY <2>0, <2>2, <3>3, <3>4
  <2> QED
    BY <2>0, <2>1, <2>2
<1> QED
  BY <1>2, <1>6, <1>7, <1>11 DEF Lists, u

(* The recursion of IndexesOf, one step of it and all. *)
IndexStep(w, s, x, k) ==
  IF k = 0 THEN <<>>
  ELSE IF k - 1 \in Live(s) /\ Indexable(s[k - 1].record, x)
       THEN Placed(w[k - 1], EntryOf(s[k - 1].record, x))
  ELSE w[k - 1]
IndexSteps(w, s, x, n) == w = [k \in 0..n |-> IndexStep(w, s, x, k)]

(* Slots whose records have their numbers. *)
Numbered(s, m) ==
  /\ m \in Nat
  /\ s \in [0..m -> Slot]
  /\ \A i \in Live(s) : s[i].record.number = i

(* An indexable record has an entry, and it has the record's number. *)
LEMMA EntryIs ==
  ASSUME NEW m, NEW s, Numbered(s, m), NEW x \in IndexNames,
         NEW i \in Live(s), Indexable(s[i].record, x)
  PROVE  /\ i \in 0..m
         /\ EntryOf(s[i].record, x) \in Entry
         /\ EntryOf(s[i].record, x) = [number |-> i, key |-> KeyOf(s[i].record, x)]
         /\ EntryOf(s[i].record, x).number = i
<1>1. i \in 0..m /\ s[i] \in Slot /\ s[i].kind = "record" /\ s[i].record.number = i /\ i \in Nat
  BY DEF Numbered, Live
<1>2. PICK r \in Record : s[i].record = r
  BY <1>1 DEF Slot
<1>3. /\ r.id \in Nat /\ r.tag \in Tags \union {NoTag}
      /\ \A t \in Tags : t \in Nat
  BY SlotAssumption DEF Record
<1>4. KeyOf(r, x) \in Nat
  BY <1>2, <1>3 DEF Indexable, KeyOf, IndexNames
<1>5. EntryOf(r, x) = [number |-> i, key |-> KeyOf(r, x)]
  BY <1>1, <1>2 DEF EntryOf
<1>6. [number |-> i, key |-> KeyOf(r, x)] \in Entry
  BY <1>1, <1>4 DEF Entry
<1>7. [number |-> i, key |-> KeyOf(r, x)].number = i
  OBVIOUS
<1> QED
  BY <1>1, <1>2, <1>5, <1>6, <1>7

(* Rebuilding the indexes from the slots gives each record's entry, in order. *)
LEMMA IndexesList ==
  ASSUME NEW m, NEW s, Numbered(s, m), NEW x \in IndexNames
  PROVE  Lists(IndexesOf(s)[x], Entries(s, x), By)
<1> DEFINE n == Cardinality(DOMAIN s)
           Counts(k) == k - 1 \in Live(s) /\ Indexable(s[k - 1].record, x)
           E(k) == EntryOf(s[k - 1].record, x)
<1>1. m \in Nat /\ s \in [0..m -> Slot] /\ DOMAIN s = 0..m /\ n = m + 1 /\ n \in Nat
  <2>1. m \in Nat /\ s \in [0..m -> Slot] /\ DOMAIN s = 0..m
    BY DEF Numbered
  <2>2. Cardinality(0..m) = m + 1
    BY <2>1, FS_Interval
  <2> QED
    BY <2>1, <2>2
<1>2. \A k \in 1..n : Counts(k) =>
        /\ E(k) \in Entry /\ E(k).number = k - 1
        /\ E(k) = [number |-> k - 1, key |-> KeyOf(s[k - 1].record, x)]
  BY EntryIs
<1> DEFINE A == Seq(Entry)
           next == [p \in (1..n) \X A |->
                      IF Counts(p[1]) THEN Placed(p[2], E(p[1])) ELSE p[2]]
<1> HIDE DEF n, E, Counts
<1>3. \A k \in 1..n, t \in A :
        /\ next[<<k, t>>] = IF Counts(k) THEN Placed(t, E(k)) ELSE t
        /\ next[<<k, t>>] \in A
  <2> TAKE k \in 1..n, t \in A
  <2>1. next[<<k, t>>] = IF Counts(k) THEN Placed(t, E(k)) ELSE t
    OBVIOUS
  <2>2. Counts(k) => Placed(t, E(k)) \in A
    BY <1>2, PlacedIs
  <2> QED
    BY <2>1, <2>2
<1>4. next \in [(1..n) \X A -> A] /\ <<>> \in A
  BY <1>2, PlacedIs
<1>5. PICK f : Recurs(f, A, <<>>, n, next)
  <2> HIDE DEF next, A
  <2> QED
    BY <1>1, <1>4, Recursion
<1>6. IndexSteps(f, s, x, n)
  <2> HIDE DEF A
  <2>1. /\ f \in [0..n -> A] /\ f[0] = <<>>
        /\ \A k \in 1..n : f[k] = next[<<k, f[k - 1]>>]
    BY <1>5 DEF Recurs
  <2>2. \A k \in 0..n : k = 0 \/ (k \in 1..n /\ k # 0 /\ k - 1 \in 0..n)
    BY <1>1
  <2>3. \A k \in 0..n : f[k] = IndexStep(f, s, x, k)
    <3> TAKE k \in 0..n
    <3>1. CASE k = 0
      BY <2>1, <3>1 DEF IndexStep
    <3>2. CASE k \in 1..n /\ k # 0 /\ k - 1 \in 0..n
      <4>1. f[k - 1] \in A
        BY <2>1, <3>2
      <4> HIDE DEF next
      <4>2. f[k] = IF Counts(k) THEN Placed(f[k - 1], E(k)) ELSE f[k - 1]
        BY <1>3, <2>1, <3>2, <4>1
      <4> QED
        BY <3>2, <4>2, Zenon DEF IndexStep, Counts, E
    <3> QED
      BY <2>2, <3>1, <3>2
  <2> QED
    BY <2>1, <2>3 DEF IndexSteps
<1> DEFINE v == CHOOSE w : IndexSteps(w, s, x, n)
<1>7. IndexesOf(s)[x] = v[n]
  BY DEF IndexesOf, IndexSteps, IndexStep, n
<1>8. \A k \in 0..n : v[k] = IndexStep(v, s, x, k)
  <2>1. IndexSteps(v, s, x, n)
    BY <1>6
  <2> HIDE DEF v
  <2> QED
    BY <2>1 DEF IndexSteps
<1> HIDE DEF v
<1> DEFINE T == {k \in 0..n : Lists(v[k], EntriesBelow(s, x, k), By)}
<1>9. 0 \in T
  <2>1. 0 \in 0..n /\ v[0] = <<>>
    BY <1>1, <1>8 DEF IndexStep
  <2>2. EntriesBelow(s, x, 0) = {}
    <3>1. \A j \in Live(s) : ~(j < 0)
      BY <1>1 DEF Live
    <3> QED
      BY <3>1 DEF EntriesBelow
  <2>3. Lists(<<>>, {}, By)
    BY DEF Lists
  <2>4. Lists(v[0], EntriesBelow(s, x, 0), By)
    BY <2>1, <2>2, <2>3
  <2> QED
    BY <2>1, <2>4
<1>10. ASSUME NEW k \in 1..n, k - 1 \in T
       PROVE  k \in T
  <2> DEFINE S == EntriesBelow(s, x, k - 1)
             t == v[k - 1]
  <2>1. Lists(t, S, By) /\ k \in 0..n /\ k # 0 /\ k \in Nat
    BY <1>1, <1>10
  <2>2. v[k] = IF Counts(k) THEN Placed(t, E(k)) ELSE t
    BY <1>8, <2>1, Zenon DEF IndexStep, Counts, E
  <2>3. \A j \in Live(s) : j \in Nat /\ (j < k <=> j < k - 1 \/ j = k - 1)
    BY <1>1, <2>1 DEF Live
  <2>4. CASE ~Counts(k)
    <3>1. EntriesBelow(s, x, k) = S
      <4>1. {j \in Live(s) : j < k /\ Indexable(s[j].record, x)}
              = {j \in Live(s) : j < k - 1 /\ Indexable(s[j].record, x)}
        BY <2>3, <2>4 DEF Counts
      <4> QED
        BY <4>1 DEF EntriesBelow
    <3> QED
      BY <2>1, <2>2, <2>4, <3>1
  <2>5. CASE Counts(k)
    <3>0. /\ E(k) \in Entry /\ E(k).number = k - 1
          /\ E(k) = [number |-> k - 1, key |-> KeyOf(s[k - 1].record, x)]
      BY <1>2, <2>5
    <3>1. EntriesBelow(s, x, k) = S \union {E(k)}
      <4>1. {j \in Live(s) : j < k /\ Indexable(s[j].record, x)}
              = {j \in Live(s) : j < k - 1 /\ Indexable(s[j].record, x)} \union {k - 1}
        BY <2>3, <2>5 DEF Counts
      <4> QED
        BY <3>0, <4>1 DEF EntriesBelow
    <3>2. \A o \in S : o \in Entry /\ o.number < k - 1
      <4> TAKE o \in S
      <4>1. PICK j \in Live(s) : /\ j < k - 1 /\ Indexable(s[j].record, x)
                                 /\ o = [number |-> j, key |-> KeyOf(s[j].record, x)]
        BY DEF EntriesBelow
      <4>2. o \in Entry /\ o.number = j
        BY <4>1, EntryIs
      <4> QED
        BY <4>1, <4>2
    <3>3. Lists(Placed(t, E(k)), S \union {E(k)}, By)
      <4> HIDE DEF S, t
      <4>1. S \in SUBSET Entry
        BY <3>2
      <4>2. \A o \in S : o.number < E(k).number
        BY <3>0, <3>2
      <4> QED
        BY <2>1, <3>0, <4>1, <4>2, PlacedLists
    <3> QED
      BY <2>1, <2>2, <2>5, <3>1, <3>3
  <2> QED
    BY <2>4, <2>5
<1>11. n \in T
  <2> HIDE DEF T
  <2>1. 0..n \subseteq T
    BY <1>1, <1>9, <1>10, Climb
  <2> QED
    BY <1>1, <2>1
<1>12. EntriesBelow(s, x, n) = Entries(s, x)
  <2>1. \A j \in Live(s) : j < n
    BY <1>1 DEF Live
  <2>2. {j \in Live(s) : j < n /\ Indexable(s[j].record, x)}
          = {j \in Live(s) : Indexable(s[j].record, x)}
    BY <2>1
  <2> QED
    BY <2>2 DEF EntriesBelow, Entries
<1> QED
  BY <1>7, <1>11, <1>12

(* The slots of a sound table are numbered without a gap. *)
LEMMA NumberedSlots ==
  ASSUME TableInv
  PROVE  \E m : Numbered(slots, m)
<1>1. PICK m \in 0..(MaxSlots - 1) : slots \in [0..m -> Slot]
  BY DEF TableInv, TypeOK
<1>2. m \in Nat
  BY SlotAssumption
<1> QED
  BY <1>1, <1>2 DEF Numbered, TableInv, NumbersAreSlots

(* No entries for no records. *)
LEMMA IndexInit == Init => IndexInv
<1> SUFFICES ASSUME Init PROVE IndexInv
  OBVIOUS
<1>1. /\ indexes = [x \in IndexNames |-> <<>>]
      /\ DOMAIN slots = {0} /\ slots[0].kind = "free"
  BY DEF Init
<1>2. Live(slots) = {}
  BY <1>1 DEF Live
<1>3. \A x \in IndexNames : indexes[x] = <<>> /\ Entries(slots, x) = {}
  BY <1>1, <1>2 DEF Entries
<1>4. Lists(<<>>, {}, By)
  BY DEF Lists
<1> QED
  BY <1>3, <1>4 DEF IndexInv

(* After a rebuild the indexes are those of the slots. *)
LEMMA IndexRebuilt ==
  ASSUME TableInv', indexes' = IndexesOf(slots')
  PROVE  IndexInv'
<1> DEFINE s == slots'
<1>1. \E m : Numbered(s, m)
  <2>1. PICK m \in 0..(MaxSlots - 1) : s \in [0..m -> Slot]
    BY DEF TableInv, TypeOK
  <2>2. m \in Nat
    BY SlotAssumption
  <2>3. \A i \in Live(s) : s[i].record.number = i
    BY DEF TableInv, NumbersAreSlots
  <2>4. Numbered(s, m)
    BY <2>1, <2>2, <2>3 DEF Numbered
  <2> QED
    BY <2>4
<1> HIDE DEF s
<1>2. \A x \in IndexNames : Lists(IndexesOf(s)[x], Entries(s, x), By)
  BY <1>1, IndexesList
<1> QED
  BY <1>2 DEF IndexInv, s

(* Removing a record's number leaves the other records' entries, in order. *)
LEMMA IndexDelete ==
  ASSUME TableInv, IndexInv, NEW i \in Live(slots), Delete(i)
  PROVE  IndexInv'
<1> SUFFICES ASSUME NEW x \in IndexNames
             PROVE  Lists(indexes'[x], Entries(slots', x), By)
  BY DEF IndexInv
<1>1. /\ Live(slots') = Live(slots) \ {i}
      /\ \A j \in Live(slots) \ {i} : slots'[j] = slots[j]
      /\ slots[i].record.number = i
  BY DeleteStep DEF TableInv, NumbersAreSlots
<1> DEFINE t == indexes[x]
           S == Entries(slots, x)
           P == {e \in ToSet(t) : e.number # i}
<1>2. indexes'[x] = Kept(t, P)
  BY <1>1 DEF Delete, WithoutEntry
<1>3. Lists(t, S, By)
  BY DEF IndexInv
<1>4. ToSet(t) = S
  BY <1>3, ListsSet
<1>5. S \intersect P = Entries(slots', x)
  <2>1. PICK m : Numbered(slots, m)
    BY NumberedSlots
  <2> DEFINE e(j) == [number |-> j, key |-> KeyOf(slots[j].record, x)]
             L == {j \in Live(slots) : Indexable(slots[j].record, x)}
             M == {j \in Live(slots') : Indexable(slots'[j].record, x)}
  <2>2. M = L \ {i}
    BY <1>1
  <2>3. S = {e(j) : j \in L}
    BY DEF Entries
  <2>4. Entries(slots', x) = {e(j) : j \in M}
    <3>1. \A j \in M : [number |-> j, key |-> KeyOf(slots'[j].record, x)] = e(j)
      BY <1>1
    <3>2. Entries(slots', x) = {[number |-> j, key |-> KeyOf(slots'[j].record, x)] : j \in M}
      BY DEF Entries
    <3> HIDE DEF M, e
    <3> QED
      BY <3>1, <3>2
  <2>5. \A j : e(j).number = j
    OBVIOUS
  <2> HIDE DEF e, L, M, S
  <2>6. S \intersect P = {o \in S : o.number # i}
    BY <1>4
  <2> HIDE DEF P, t
  <2> QED
    BY <2>2, <2>3, <2>4, <2>5, <2>6
<1>6. Lists(Kept(t, P), S \intersect P, By)
  <2> HIDE DEF t, P, S
  <2> QED
    BY <1>3, KeptLists
<1> QED
  BY <1>2, <1>5, <1>6

(* Every operation leaves each index in order and complete. *)
LEMMA IndexStays ==
  ASSUME TableInv, IndexInv, [Next]_vars
  PROVE  IndexInv'
<1>0. TableInv'
  BY Step
<1>1. CASE \E id \in Ids, tag \in Tags \union {NoTag} : Add(id, tag)
  <2>1. indexes' = IndexesOf(slots')
    BY <1>1 DEF Add
  <2> QED
    BY <1>0, <2>1, IndexRebuilt
<1>2. CASE \E n \in 0..(MaxSlots - 1) : DeleteNumber(n)
  BY <1>2, IndexDelete DEF DeleteNumber
<1>3. CASE \E n \in 0..(MaxSlots - 1), tag \in Tags : Update(n, tag)
  <2>1. indexes' = IndexesOf(slots')
    BY <1>3 DEF Update
  <2> QED
    BY <1>0, <2>1, IndexRebuilt
<1>4. CASE UNCHANGED vars
  BY <1>4 DEF vars, IndexInv
<1> QED
  BY <1>1, <1>2, <1>3, <1>4 DEF Next

(* Entries in order are the ones of the reference. *)
LEMMA IndexReference ==
  ASSUME TableInv, IndexInv
  PROVE  IndexesMatch
<1> SUFFICES ASSUME NEW x \in IndexNames
             PROVE  indexes[x] = ReferenceIndex(x)
  BY DEF IndexesMatch
<1> DEFINE S == Entries(slots, x)
           f == indexes[x]
           places == 1..Cardinality(S)
           Fits(g) == \A i, j \in places : i < j =>
                        \/ g[i].key < g[j].key
                        \/ g[i].key = g[j].key /\ g[i].number < g[j].number
           c == CHOOSE g \in [places -> S] : Fits(g)
<1>1. ReferenceIndex(x) = c
  BY DEF ReferenceIndex, Arranged, Entries
<1>2. S \in SUBSET Entry
  <2>1. PICK m : Numbered(slots, m)
    BY NumberedSlots
  <2> QED
    BY <2>1, EntryIs DEF Entries
<1>3. Orders(By, S) /\ Lists(f, S, By)
  <2> HIDE DEF S
  <2> QED
    BY <1>2, ByOrders DEF IndexInv, S
<1>4. IsFiniteSet(S) /\ Len(f) = Cardinality(S)
  <2> HIDE DEF S, f
  <2> QED
    BY <1>3, ListsLen
<1> HIDE DEF S, f
<1>5. \A g \in [places -> S] : Fits(g) <=>
        \A i, j \in places : i < j => <<g[i], g[j]>> \in By
  <2> TAKE g \in [places -> S]
  <2>1. \A i \in places : g[i] \in Entry
    BY <1>2
  <2>2. \A i, j \in places : <<g[i], g[j]>> \in By <=>
                        \/ g[i].key < g[j].key
                        \/ g[i].key = g[j].key /\ g[i].number < g[j].number
    BY <2>1, ByIs
  <2> QED
    BY <2>2
<1>6. f \in [places -> S] /\ Fits(f)
  <2>1. f \in Seq(S) /\ \A i, j \in 1..Len(f) : i < j => <<f[i], f[j]>> \in By
    BY <1>3 DEF Lists
  <2>2. f \in [places -> S]
    BY <1>4, <2>1
  <2> QED
    BY <1>4, <1>5, <2>1, <2>2
<1>7. c \in [places -> S] /\ Fits(c)
  <2> HIDE DEF Fits
  <2> QED
    BY <1>6
<1> HIDE DEF c
<1>8. Lists(c, S, By)
  <2>1. \A i, j \in places : i < j => <<c[i], c[j]>> \in By
    BY <1>5, <1>7
  <2> QED
    BY <1>3, <1>4, <1>7, <2>1, ListsAll
<1>9. f = c
  BY <1>3, <1>8, ListsOnce
<1> QED
  BY <1>1, <1>9 DEF f

-----------------------------------------------------------------------------
(* The image of the table in its file.                                     *)

(* Every record has a place in the layout, so the order it is written in is that. *)
LEMMA OrderIsLayout ==
  ASSUME LayoutInv
  PROVE  WriteOrder = layout
<1>1. layout \in Seq(Nat) /\ ToSet(layout) = Live(slots)
  BY DEF LayoutInv, LayoutIsLive
<1>2. Kept(layout, Live(slots)) = layout
  <2>1. \A i \in 1..Len(layout) : layout[i] \in Live(slots)
    BY <1>1 DEF ToSet
  <2> QED
    BY <1>1, <2>1, KeptAll
<1> DEFINE places == 1..Cardinality({})
           Fits(f) == \A i, j \in places : i < j => f[i] < f[j]
           rest == CHOOSE f \in [places -> {}] : Fits(f)
<1>3. Arranged(Live(slots) \ ToSet(layout), <) = rest
  <2>1. Live(slots) \ ToSet(layout) = {}
    BY <1>1
  <2> QED
    BY <2>1 DEF Arranged
<1>4. rest = <<>>
  <2>1. places = {}
    BY FS_EmptySet
  <2>2. <<>> \in [places -> {}] /\ Fits(<<>>)
    BY <2>1
  <2>3. rest \in [places -> {}]
    <3> HIDE DEF places, Fits
    <3> QED
      BY <2>2
  <2> QED
    BY <2>1, <2>3
<1> HIDE DEF rest
<1>5. WriteOrder = layout \o <<>>
  BY <1>2, <1>3, <1>4, Zenon DEF WriteOrder
<1>6. layout \o <<>> = layout
  BY <1>1
<1> QED
  BY <1>5, <1>6

(* The recursion of BodyOffset, one step of it and all. *)
OffsetStep(w, k) ==
  IF k = 0 THEN HeaderLen + 4 * Cardinality(DOMAIN slots)
  ELSE w[k - 1] + EncodedLen(slots[WriteOrder[k]].record)
OffsetSteps(w, n) == w = [k \in 0..n |-> OffsetStep(w, k)]

(* The offsets of the records start behind the slot array, are even, and grow. *)
LEMMA OffsetsGrow ==
  ASSUME TableInv, LayoutInv
  PROVE  /\ \A k \in 1..(Len(layout) + 1) :
              /\ BodyOffset(k) \in Nat
              /\ HeaderLen =< BodyOffset(k)
              /\ \E h \in Nat : BodyOffset(k) = 2 * h
         /\ \A j, k \in 1..(Len(layout) + 1) : j < k => BodyOffset(j) < BodyOffset(k)
<1> DEFINE n == Len(WriteOrder)
           base == HeaderLen + 4 * Cardinality(DOMAIN slots)
           E(k) == EncodedLen(slots[WriteOrder[k]].record)
           next == [p \in (1..n) \X Nat |-> p[2] + E(p[1])]
<1>1. n = Len(layout) /\ n \in Nat
  BY OrderIsLayout DEF LayoutInv
<1>2. \A k \in 1..n : E(k) \in {40, 48}
  BY DEF EncodedLen
<1>3. base \in Nat /\ HeaderLen =< base /\ \E h \in Nat : base = 2 * h
  <2>1. PICK m \in 0..(MaxSlots - 1) : DOMAIN slots = 0..m
    BY SlotFacts DEF TableInv
  <2>2. m \in Nat /\ Cardinality(DOMAIN slots) = m + 1
    BY <2>1, SlotAssumption, FS_Interval
  <2>3. base = 28 + 4 * (m + 1) /\ base = 2 * (14 + 2 * (m + 1))
    BY <2>2 DEF HeaderLen
  <2>4. 14 + 2 * (m + 1) \in Nat /\ 28 + 4 * (m + 1) \in Nat /\ 28 =< 28 + 4 * (m + 1)
    BY <2>2
  <2> HIDE DEF base
  <2> QED
    BY <2>3, <2>4 DEF HeaderLen
<1> HIDE DEF n, base, E
<1>4. next \in [(1..n) \X Nat -> Nat]
  BY <1>2
<1>5. PICK f : Recurs(f, Nat, base, n, next)
  <2> HIDE DEF next
  <2> QED
    BY <1>1, <1>3, <1>4, Recursion
<1>6. OffsetSteps(f, n)
  <2>1. /\ f \in [0..n -> Nat] /\ f[0] = base
        /\ \A k \in 1..n : f[k] = next[<<k, f[k - 1]>>]
    BY <1>5 DEF Recurs
  <2>2. \A k \in 0..n : k = 0 \/ (k \in 1..n /\ k # 0 /\ k - 1 \in 0..n)
    BY <1>1
  <2>3. \A k \in 0..n : f[k] = OffsetStep(f, k)
    <3> TAKE k \in 0..n
    <3>1. CASE k = 0
      BY <2>1, <3>1 DEF OffsetStep, base
    <3>2. CASE k \in 1..n /\ k # 0 /\ k - 1 \in 0..n
      <4>1. f[k - 1] \in Nat
        BY <2>1, <3>2
      <4>2. f[k] = f[k - 1] + E(k)
        BY <2>1, <3>2, <4>1
      <4> QED
        BY <3>2, <4>2 DEF OffsetStep, E
    <3> QED
      BY <2>2, <3>1, <3>2
  <2> QED
    BY <2>1, <2>3 DEF OffsetSteps
<1> DEFINE v == CHOOSE w : OffsetSteps(w, n)
<1>7. \A k \in 1..(n + 1) : BodyOffset(k) = v[k - 1]
  BY DEF BodyOffset, OffsetSteps, OffsetStep, n
<1>8. /\ v[0] = base
      /\ \A k \in 1..n : v[k] = v[k - 1] + E(k)
  <2>1. OffsetSteps(v, n)
    BY <1>6
  <2> HIDE DEF v
  <2>2. \A k \in 0..n : v[k] = OffsetStep(v, k)
    BY <2>1 DEF OffsetSteps
  <2>3. 0 \in 0..n /\ \A k \in 1..n : k \in 0..n /\ k # 0
    BY <1>1
  <2> QED
    BY <2>2, <2>3 DEF OffsetStep, base, E
<1> HIDE DEF v
<1> DEFINE Good(k) == /\ v[k] \in Nat /\ HeaderLen =< v[k]
                      /\ \E h \in Nat : v[k] = 2 * h
                      /\ \A j \in 0..(k - 1) : v[j] \in Nat /\ v[j] < v[k]
           T == {k \in 0..n : Good(k)}
<1>9. 0 \in T
  <2>1. 0 \in 0..n
    BY <1>1
  <2>2. \A j \in 0..(0 - 1) : v[j] \in Nat /\ v[j] < v[0]
    OBVIOUS
  <2> QED
    BY <1>3, <1>8, <2>1, <2>2
<1>10. ASSUME NEW k \in 1..n, k - 1 \in T
       PROVE  k \in T
  <2>1. k \in 0..n /\ k \in Nat /\ \A j \in 0..(k - 1) : j = k - 1 \/ j \in 0..((k - 1) - 1)
    BY <1>1
  <2>2. v[k] = v[k - 1] + E(k) /\ E(k) \in {40, 48}
    BY <1>2, <1>8
  <2>3. /\ v[k - 1] \in Nat /\ HeaderLen =< v[k - 1]
        /\ \E h \in Nat : v[k - 1] = 2 * h
        /\ \A j \in 0..((k - 1) - 1) : v[j] \in Nat /\ v[j] < v[k - 1]
    BY <1>10
  <2>4. v[k] \in Nat /\ HeaderLen =< v[k] /\ v[k - 1] < v[k]
    BY <2>2, <2>3 DEF HeaderLen
  <2>5. \E h \in Nat : v[k] = 2 * h
    <3>1. PICK h \in Nat : v[k - 1] = 2 * h
      BY <2>3
    <3>2. CASE E(k) = 40
      <4>1. v[k] = 2 * (h + 20) /\ h + 20 \in Nat
        BY <2>2, <3>1, <3>2
      <4> QED
        BY <4>1
    <3>3. CASE E(k) = 48
      <4>1. v[k] = 2 * (h + 24) /\ h + 24 \in Nat
        BY <2>2, <3>1, <3>3
      <4> QED
        BY <4>1
    <3> QED
      BY <2>2, <3>2, <3>3
  <2>6. \A j \in 0..(k - 1) : v[j] \in Nat /\ v[j] < v[k]
    <3> TAKE j \in 0..(k - 1)
    <3>1. CASE j = k - 1
      BY <2>3, <2>4, <3>1
    <3>2. CASE j \in 0..((k - 1) - 1)
      BY <2>3, <2>4, <3>2
    <3> QED
      BY <2>1, <3>1, <3>2
  <2>7. Good(k)
    BY <2>4, <2>5, <2>6
  <2> HIDE DEF Good
  <2> QED
    BY <2>1, <2>7
<1>11. \A k \in 0..n : Good(k)
  <2> HIDE DEF Good
  <2>1. 0..n \subseteq T
    <3> HIDE DEF T
    <3> QED
      BY <1>1, <1>9, <1>10, Climb
  <2> QED
    BY <2>1
<1>12. \A k \in 1..(n + 1) : k - 1 \in 0..n
  BY <1>1
<1>13. \A j, k \in 1..(n + 1) : j < k => v[j - 1] < v[k - 1]
  <2> TAKE j, k \in 1..(n + 1)
  <2> HAVE j < k
  <2>1. k - 1 \in 0..n /\ j - 1 \in 0..((k - 1) - 1)
    BY <1>1
  <2> QED
    BY <1>11, <2>1
<1> QED
  BY <1>1, <1>7, <1>11, <1>12, <1>13

(* A record's position is its place in the layout. *)
LEMMA PositionIs ==
  ASSUME LayoutInv
  PROVE  /\ \A k \in 1..Len(layout) : layout[k] \in Live(slots) /\ Position(layout[k]) = k
         /\ \A i \in Live(slots) :
              Position(i) \in 1..Len(layout) /\ layout[Position(i)] = i
<1>1. /\ layout \in Seq(Nat) /\ DOMAIN layout = 1..Len(layout)
      /\ ToSet(layout) = Live(slots)
      /\ \A i, j \in 1..Len(layout) : layout[i] = layout[j] => i = j
  BY DEF LayoutInv, LayoutIsLive
<1>2. \A i : Position(i) = CHOOSE k \in 1..Len(layout) : layout[k] = i
  BY <1>1, OrderIsLayout DEF Position
<1>3. \A i \in Live(slots) : \E k \in 1..Len(layout) : layout[k] = i
  BY <1>1 DEF ToSet
<1>4. \A i \in Live(slots) : Position(i) \in 1..Len(layout) /\ layout[Position(i)] = i
  BY <1>2, <1>3
<1>5. \A k \in 1..Len(layout) : layout[k] \in Live(slots)
  BY <1>1 DEF ToSet
<1>6. \A k \in 1..Len(layout) : Position(layout[k]) = k
  BY <1>1, <1>4, <1>5
<1> QED
  BY <1>4, <1>5, <1>6

(* The word of each slot in the image: an offset for a record, else a link. *)
Word(i) == IF i \in Live(slots) THEN BodyOffset(Position(i)) ELSE slots[i].link

(* Words of records are offsets within the bodies, links of free slots are not; so
   parse tells them apart, and the places give back the layout. *)
LEMMA WordIs ==
  ASSUME TableInv, LayoutInv
  PROVE  /\ \A i \in Live(slots) :
              /\ Word(i) \in Nat /\ IsOffset(Word(i))
              /\ HeaderLen =< Word(i)
              /\ Word(i) < BodyOffset(Len(layout) + 1)
         /\ \A i \in DOMAIN slots \ Live(slots) : ~IsOffset(Word(i))
         /\ \A i, j \in Live(slots) : Word(i) = Word(j) => i = j
         /\ \A i, j \in 1..Len(layout) : i < j => Word(layout[i]) < Word(layout[j])
<1> DEFINE n == Len(layout)
<1>1. n \in Nat
  BY DEF LayoutInv
<1>2. /\ \A k \in 1..(n + 1) : /\ BodyOffset(k) \in Nat
                               /\ HeaderLen =< BodyOffset(k)
                               /\ \E h \in Nat : BodyOffset(k) = 2 * h
      /\ \A j, k \in 1..(n + 1) : j < k => BodyOffset(j) < BodyOffset(k)
  BY OffsetsGrow
<1>3. /\ \A k \in 1..n : layout[k] \in Live(slots) /\ Position(layout[k]) = k
      /\ \A i \in Live(slots) : Position(i) \in 1..n /\ layout[Position(i)] = i
  BY PositionIs
<1> HIDE DEF n
<1>4. \A k \in 1..n : k \in 1..(n + 1) /\ n + 1 \in 1..(n + 1) /\ k < n + 1
  BY <1>1
<1>5. \A i \in Live(slots) : Word(i) = BodyOffset(Position(i))
  BY DEF Word
<1>6. \A i \in Live(slots) :
              /\ Word(i) \in Nat /\ IsOffset(Word(i))
              /\ HeaderLen =< Word(i)
              /\ Word(i) < BodyOffset(n + 1)
  <2> TAKE i \in Live(slots)
  <2>1. Position(i) \in 1..n /\ Word(i) = BodyOffset(Position(i))
    BY <1>3, <1>5
  <2>2. Word(i) \in Nat /\ HeaderLen =< Word(i) /\ Word(i) < BodyOffset(n + 1)
    BY <1>2, <1>4, <2>1
  <2>3. PICK h \in Nat : Word(i) = 2 * h
    BY <1>2, <1>4, <2>1
  <2>4. Word(i) # 0 /\ Word(i) % 2 = 0
    BY <2>2, <2>3 DEF HeaderLen
  <2> QED
    BY <2>2, <2>4 DEF IsOffset
<1>7. \A i \in DOMAIN slots \ Live(slots) : ~IsOffset(Word(i))
  <2> TAKE i \in DOMAIN slots \ Live(slots)
  <2>1. PointsTo(slots[i].link, {j \in Free(slots) : j < i})
    BY DEF TableInv, FreeListOrdered, Free
  <2>2. Word(i) = slots[i].link
    BY DEF Word
  <2>3. CASE Word(i) = 0
    BY <2>3 DEF IsOffset
  <2>4. CASE \E j \in Free(slots) : Word(i) = FreeLink(j)
    <3>1. PICK j \in Free(slots) : Word(i) = FreeLink(j)
      BY <2>4
    <3>2. j \in Nat
      BY SlotFacts, SlotAssumption DEF TableInv
    <3>3. Word(i) = 2 * (14 + 2 * j) + 1
      BY <3>1, <3>2 DEF FreeLink, HeaderLen
    <3>4. Word(i) % 2 = 1
      BY <3>2, <3>3
    <3> QED
      BY <3>4 DEF IsOffset
  <2> QED
    BY <2>1, <2>2, <2>3, <2>4 DEF PointsTo
<1>8. \A i, j \in 1..n : i < j => Word(layout[i]) < Word(layout[j])
  BY <1>2, <1>3, <1>4, <1>5
<1>9. \A i, j \in Live(slots) : Word(i) = Word(j) => i = j
  <2> TAKE i, j \in Live(slots)
  <2> HAVE Word(i) = Word(j)
  <2>1. /\ Position(i) \in 1..n /\ Position(j) \in 1..n
        /\ layout[Position(i)] = i /\ layout[Position(j)] = j
    BY <1>3
  <2>2. ~(Position(i) < Position(j)) /\ ~(Position(j) < Position(i))
    <3>1. Word(i) \in Nat /\ Word(j) \in Nat
      BY <1>6
    <3> QED
      BY <1>8, <2>1, <3>1
  <2>3. Position(i) = Position(j)
    BY <1>1, <2>1, <2>2
  <2> QED
    BY <2>1, <2>3
<1> QED
  BY <1>6, <1>7, <1>8, <1>9 DEF n

(* The slots of the records in order of where the words say they are. *)
InFile(words) == Arranged(Live(slots), LAMBDA i, j : words[i] < words[j])

(* The records, put in order of where they are in the file, are the layout. *)
LEMMA LayoutBack ==
  ASSUME TableInv, LayoutInv, NEW words,
         \A i \in Live(slots) : words[i] = Word(i)
  PROVE  InFile(words) = layout
<1> DEFINE S == Live(slots)
           R == {p \in S \X S : words[p[1]] < words[p[2]]}
           places == 1..Cardinality(S)
           Fits(g) == \A i, j \in places : i < j => words[g[i]] < words[g[j]]
           c == CHOOSE g \in [places -> S] : Fits(g)
<1>1. InFile(words) = c
  BY DEF InFile, Arranged
<1>2. \A i, j \in S : <<i, j>> \in R <=> words[i] < words[j]
  OBVIOUS
<1>3. /\ \A i \in S : words[i] \in Nat
      /\ \A i, j \in S : words[i] = words[j] => i = j
      /\ \A i, j \in 1..Len(layout) : i < j => words[layout[i]] < words[layout[j]]
  <2>1. \A k \in 1..Len(layout) : layout[k] \in S
    BY PositionIs
  <2> QED
    BY <2>1, WordIs
<1> HIDE DEF R
<1>4. Orders(R, S)
  <2>1. \A a, b \in S : a = b \/ <<a, b>> \in R \/ <<b, a>> \in R
    <3> TAKE a, b \in S
    <3>1. words[a] \in Nat /\ words[b] \in Nat
      BY <1>3
    <3>2. words[a] = words[b] \/ words[a] < words[b] \/ words[b] < words[a]
      BY <3>1
    <3> QED
      BY <1>2, <1>3, <3>2
  <2>2. \A a \in S : <<a, a>> \notin R
    BY <1>2, <1>3
  <2>3. \A a, b, d \in S : <<a, b>> \in R /\ <<b, d>> \in R => <<a, d>> \in R
    BY <1>2, <1>3
  <2> QED
    BY <2>1, <2>2, <2>3 DEF Orders
<1>5. Lists(layout, S, R)
  <2>1. layout \in Seq(Nat) /\ \A k \in 1..Len(layout) : layout[k] \in S
    BY PositionIs DEF LayoutInv
  <2>2. layout \in Seq(S)
    BY <2>1
  <2>3. \A x \in S : \E i \in 1..Len(layout) : layout[i] = x
    BY PositionIs
  <2>4. \A i, j \in 1..Len(layout) : i < j => <<layout[i], layout[j]>> \in R
    BY <1>2, <1>3, <2>1
  <2> QED
    BY <2>2, <2>3, <2>4 DEF Lists
<1>6. IsFiniteSet(S) /\ Len(layout) = Cardinality(S)
  <2> HIDE DEF S
  <2> QED
    BY <1>4, <1>5, ListsLen
<1> HIDE DEF S
<1>7. layout \in [places -> S] /\ Fits(layout)
  <2>1. layout \in Seq(S)
    BY <1>5 DEF Lists
  <2> QED
    BY <1>3, <1>6, <2>1
<1>8. c \in [places -> S] /\ Fits(c)
  <2> HIDE DEF Fits
  <2> QED
    BY <1>7
<1> HIDE DEF c
<1>9. Lists(c, S, R)
  <2>1. \A i, j \in places : i < j => <<c[i], c[j]>> \in R
    BY <1>2, <1>8
  <2> QED
    BY <1>4, <1>6, <1>8, <2>1, ListsAll
<1>10. c = layout
  BY <1>4, <1>5, <1>9, ListsOnce
<1> QED
  BY <1>1, <1>10 DEF S

(* What is read of the image is the table: each word leads back to its slot's *)
(* record or is its link.                                                    *)
LEMMA ImageBack ==
  ASSUME TableInv, LayoutInv
  PROVE  ReopenSame
<1> DEFINE n == Len(layout)
           end == BodyOffset(Len(WriteOrder) + 1)
           words == [i \in DOMAIN slots |->
                       IF i \in Live(slots) THEN BodyOffset(Position(i)) ELSE slots[i].link]
           offsets == {BodyOffset(k) : k \in DOMAIN WriteOrder}
           bodies == [at \in offsets |->
                        slots[CHOOSE i \in Live(slots) : BodyOffset(Position(i)) = at].record]
           region == [base |-> end, indexes |-> indexes]
           image == [words |-> words, bodies |-> bodies, freeHead |-> freeHead,
                     indexesOffset |-> end, region |-> region]
           records == {i \in DOMAIN image.words : IsOffset(image.words[i])}
           read == [i \in DOMAIN image.words |->
                      IF i \in records
                      THEN [kind |-> "record", record |-> image.bodies[image.words[i]]]
                      ELSE [kind |-> "free", link |-> image.words[i]]]
           order == Arranged(records, LAMBDA i, j : image.words[i] < image.words[j])
<1>1. Written = image
  BY DEF Written
<1>2. Parsed(Written) =
        [slots |-> read, freeHead |-> image.freeHead, layout |-> order,
         raw |-> image.region.base # image.indexesOffset, indexes |-> image.region.indexes]
  <2> HIDE DEF words, bodies
  <2> QED
    BY <1>1 DEF Parsed
<1>3. /\ image.words = words /\ image.bodies = bodies /\ image.freeHead = freeHead
      /\ image.indexesOffset = end /\ image.region.base = end
      /\ image.region.indexes = indexes
  <2> HIDE DEF words, bodies, end
  <2> QED
    OBVIOUS
<1> HIDE DEF image
<1>4. WriteOrder = layout /\ n \in Nat /\ DOMAIN layout = 1..n
  BY OrderIsLayout DEF LayoutInv
<1>5. DOMAIN words = DOMAIN slots /\ \A i \in DOMAIN slots : words[i] = Word(i)
  BY DEF Word
<1>6. end = BodyOffset(n + 1)
  BY <1>4
<1>7. Live(slots) \subseteq DOMAIN slots
  BY DEF Live
<1>8. /\ \A i \in Live(slots) : /\ IsOffset(Word(i)) /\ HeaderLen =< Word(i)
                                /\ Word(i) < end
      /\ \A i \in DOMAIN slots \ Live(slots) : ~IsOffset(Word(i))
      /\ \A i, j \in Live(slots) : Word(i) = Word(j) => i = j
  BY <1>6, WordIs
<1>9. records = Live(slots)
  <2> HIDE DEF words
  <2> QED
    BY <1>3, <1>5, <1>7, <1>8
<1>10. \A i \in Live(slots) : bodies[Word(i)] = slots[i].record
  <2> TAKE i \in Live(slots)
  <2>1. Position(i) \in 1..n /\ Word(i) = BodyOffset(Position(i))
    BY PositionIs DEF Word
  <2>2. Word(i) \in offsets
    BY <1>4, <2>1
  <2> DEFINE c == CHOOSE j \in Live(slots) : BodyOffset(Position(j)) = Word(i)
  <2>3. c \in Live(slots) /\ BodyOffset(Position(c)) = Word(i)
    BY <2>1
  <2>4. bodies[Word(i)] = slots[c].record
    <3> HIDE DEF offsets
    <3> QED
      BY <2>2
  <2> HIDE DEF c
  <2>5. Word(c) = Word(i)
    BY <2>3 DEF Word
  <2>6. c = i
    BY <1>8, <2>3, <2>5
  <2> QED
    BY <2>4, <2>6
<1> HIDE DEF bodies, words, end
<1>11. Readable(Written)
  <2>1. \A i \in DOMAIN slots : IsOffset(words[i]) => HeaderLen =< words[i] /\ words[i] < end
    BY <1>5, <1>8
  <2>2. Written.words = words /\ Written.indexesOffset = end
    BY <1>1, <1>3
  <2> QED
    BY <1>5, <2>1, <2>2 DEF Readable
<1>12. read = slots
  <2>1. PICK m \in 0..(MaxSlots - 1) : slots \in [0..m -> Slot]
    BY DEF TableInv, TypeOK
  <2>2. DOMAIN slots = 0..m /\ slots = [i \in 0..m |-> slots[i]]
    BY <2>1
  <2>3. \A i \in 0..m : i \in Live(slots) =>
          slots[i] = [kind |-> "record", record |-> slots[i].record]
    <3> TAKE i \in 0..m
    <3> HAVE i \in Live(slots)
    <3>1. slots[i] \in Slot /\ slots[i].kind = "record"
      BY <2>1 DEF Live
    <3> QED
      BY <3>1 DEF Slot
  <2>4. \A i \in 0..m : i \notin Live(slots) =>
          slots[i] = [kind |-> "free", link |-> slots[i].link]
    <3> TAKE i \in 0..m
    <3> HAVE i \notin Live(slots)
    <3>1. slots[i] \in Slot /\ slots[i].kind # "record"
      BY <2>1, <2>2 DEF Live
    <3> QED
      BY <3>1 DEF Slot
  <2>5. \A i \in 0..m : i \notin Live(slots) => Word(i) = slots[i].link
    BY DEF Word
  <2>6. read = [i \in 0..m |->
                  IF i \in Live(slots)
                  THEN [kind |-> "record", record |-> bodies[words[i]]]
                  ELSE [kind |-> "free", link |-> words[i]]]
    <3> HIDE DEF records
    <3> QED
      BY <1>3, <1>5, <1>9, <2>2
  <2> HIDE DEF read
  <2>7. \A i \in 0..m : read[i] = slots[i]
    <3> TAKE i \in 0..m
    <3>1. CASE i \in Live(slots)
      <4>1. read[i] = [kind |-> "record", record |-> bodies[words[i]]]
        BY <2>6, <3>1
      <4>2. words[i] = Word(i) /\ bodies[Word(i)] = slots[i].record
        BY <1>5, <1>10, <2>2, <3>1
      <4> QED
        BY <2>3, <3>1, <4>1, <4>2, Zenon
    <3>2. CASE i \notin Live(slots)
      <4>1. read[i] = [kind |-> "free", link |-> words[i]]
        BY <2>6, <3>2
      <4>2. words[i] = slots[i].link
        BY <1>5, <2>2, <2>5, <3>2
      <4> QED
        BY <2>4, <3>2, <4>1, <4>2, Zenon
    <3> QED
      BY <3>1, <3>2
  <2>8. read = [i \in 0..m |-> read[i]]
    BY <2>6
  <2> QED
    BY <2>2, <2>7, <2>8
<1>13. order = layout
  <2> DEFINE w == image.words
  <2>1. \A i \in Live(slots) : w[i] = Word(i)
    BY <1>3, <1>5, <1>7
  <2>2. order = InFile(w)
    <3> HIDE DEF records, w
    <3>1. order = Arranged(records, LAMBDA i, j : w[i] < w[j])
      BY Zenon DEF w
    <3> HIDE DEF order
    <3> QED
      BY <1>9, <3>1, Zenon DEF Arranged, InFile
  <2> HIDE DEF w
  <2>3. InFile(w) = layout
    BY <2>1, LayoutBack
  <2> QED
    BY <2>2, <2>3
<1> HIDE DEF read, order
<1>14. Parsed(Written) = [slots |-> slots, freeHead |-> freeHead, layout |-> layout,
                          raw |-> FALSE, indexes |-> indexes]
  BY <1>2, <1>3, <1>12, <1>13
<1> QED
  BY <1>11, <1>14 DEF ReopenSame

-----------------------------------------------------------------------------
(* Theorems.                                                               *)

(* The layout names each record once and nothing else, however slots were    *)
(* freed, dropped and taken again: no record is lost from the file or       *)
(* written twice (Table::insert pushes a slot, Table::delete retains the    *)
(* others).                                                                 *)
THEOREM LayoutNamesRecords == Spec => []LayoutIsLive
<1>1. Init => LayoutInv
  BY LayoutInit
<1>2. TableInv /\ LayoutInv /\ [Next]_vars => LayoutInv'
  BY LayoutStep
<1>3. LayoutInv => LayoutIsLive
  BY DEF LayoutInv
<1> QED
  BY <1>1, <1>2, <1>3, TableCorrect, PTL DEF Spec

(* Every index holds one entry for each record that has the attribute, under *)
(* its current key and in order, whether it was built at once or changed    *)
(* record by record (rebuild_indexes, Index::insert,                        *)
(* IndexBlob::remove_record).                                               *)
THEOREM IndexesAreCurrent == Spec => []IndexesMatch
<1>1. Init => IndexInv
  BY IndexInit
<1>2. TableInv /\ IndexInv /\ [Next]_vars => IndexInv'
  BY IndexStays
<1>3. TableInv /\ IndexInv => IndexesMatch
  BY IndexReference
<1> QED
  BY <1>1, <1>2, <1>3, TableCorrect, PTL DEF Spec

(* A table that is written and read back has the same slots, free list,      *)
(* layout and indexes, for every number of records of either length         *)
(* (Table::to_bytes and Table::parse).                                      *)
THEOREM TableReopens == Spec => []ReopenSame
<1>1. Init => LayoutInv
  BY LayoutInit
<1>2. TableInv /\ LayoutInv /\ [Next]_vars => LayoutInv'
  BY LayoutStep
<1>3. TableInv /\ LayoutInv => ReopenSame
  BY ImageBack
<1> QED
  BY <1>1, <1>2, <1>3, TableCorrect, PTL DEF Spec

=============================================================================
