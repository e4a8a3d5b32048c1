----------------------------- MODULE ListingProofs -----------------------------
(***************************************************************************)
(* Lemmas that the other proofs share: induction and recursion on numbers, *)
(* with sets and functions in the place of operators, and what Kept and    *)
(* Arranged of Listing give.                                                *)
(***************************************************************************)
EXTENDS Listing, Integers, SequencesExt, FiniteSetTheorems, WellFoundedInduction, TLAPS

------------------------------------------------------------------------------
(* Numbers. *)

(* A set of numbers that is not empty has a least one. *)
LEMMA Least ==
  ASSUME NEW T \in SUBSET Nat, T # {}
  PROVE  \E m \in T : \A k \in T : m =< k
<1>1. PICK m \in T : \A y \in T : ~ (<<y, m>> \in OpToRel(<, Nat))
  BY NatLessThanWellFounded, WFMin
<1>2. \A y \in T : ~ (y < m)
  BY <1>1 DEF OpToRel
<1>3. \A y \in T : y \in Nat /\ m \in Nat
  OBVIOUS
<1> QED
  BY <1>2, <1>3

(* Min is that one. *)
LEMMA MinIs ==
  ASSUME NEW T \in SUBSET Nat, T # {}
  PROVE  Min(T) \in T /\ \A k \in T : Min(T) =< k
<1>1. \E m \in T : \A k \in T : m =< k
  BY Least
<1> QED
  BY <1>1 DEF Min

(* What holds of zero and of the next number holds of all, up to a bound. *)
LEMMA Climb ==
  ASSUME NEW m \in Nat, NEW T, 0 \in T,
         \A n \in 1..m : n - 1 \in T => n \in T
  PROVE  0..m \subseteq T
<1> DEFINE Bad == {n \in 0..m : n \notin T}
<1> SUFFICES ASSUME Bad # {} PROVE FALSE
  OBVIOUS
<1>1. PICK b \in Bad : \A k \in Bad : b =< k
  <2> Bad \subseteq Nat
    OBVIOUS
  <2> HIDE DEF Bad
  <2> QED
    BY Least
<1>2. b \in 1..m /\ b \notin T
  BY <1>1
<1>3. b - 1 \in 0..m /\ ~(b =< b - 1)
  BY <1>2
<1>4. b - 1 \in T
  BY <1>1, <1>3
<1> QED
  BY <1>2, <1>4

(* A function of 0..m with values in A, where each value follows from the last. *)
Recurs(f, A, base, m, next) ==
    /\ f \in [0..m -> A]
    /\ f[0] = base
    /\ \A n \in 1..m : f[n] = next[<<n, f[n - 1]>>]

(* There is one for every base and every next. *)
LEMMA Recursion ==
  ASSUME NEW A, NEW base \in A, NEW m \in Nat, NEW next \in [(1..m) \X A -> A]
  PROVE  \E f : Recurs(f, A, base, m, next)
<1> DEFINE Good(n) == \E f \in [0..n -> A] :
                         f[0] = base /\ \A i \in 1..n : f[i] = next[<<i, f[i - 1]>>]
           T == {n \in 0..m : Good(n)}
<1>1. 0 \in T
  <2> DEFINE f == [i \in 0..0 |-> base]
  <2>1. f \in [0..0 -> A] /\ f[0] = base
    OBVIOUS
  <2>2. \A i \in 1..0 : f[i] = next[<<i, f[i - 1]>>]
    OBVIOUS
  <2> HIDE DEF f
  <2>3. Good(0)
    BY <2>1, <2>2
  <2> QED
    BY <2>3
<1>2. ASSUME NEW n \in 1..m, n - 1 \in T
      PROVE  n \in T
  <2>1. PICK g \in [0..(n - 1) -> A] :
          g[0] = base /\ \A i \in 1..(n - 1) : g[i] = next[<<i, g[i - 1]>>]
    BY <1>2
  <2> DEFINE f == [i \in 0..n |-> IF i = n THEN next[<<n, g[n - 1]>>] ELSE g[i]]
  <2>2. n - 1 \in 0..(n - 1) /\ g[n - 1] \in A
    <3>1. n - 1 \in 0..(n - 1)
      OBVIOUS
    <3> QED
      BY <2>1, <3>1, Zenon
  <2>3. next[<<n, g[n - 1]>>] \in A
    BY <2>2
  <2>4. f \in [0..n -> A]
    BY <2>1, <2>3
  <2>5. \A i \in 0..(n - 1) : f[i] = g[i]
    OBVIOUS
  <2>6. f[n] = next[<<n, f[n - 1]>>]
    <3>1. n \in 0..n /\ f[n] = next[<<n, g[n - 1]>>]
      OBVIOUS
    <3> QED
      BY <2>2, <2>5, <3>1, Zenon
  <2>7. f[0] = base
    BY <2>1, <2>5
  <2>8. \A i \in 1..n : f[i] = next[<<i, f[i - 1]>>]
    <3> TAKE i \in 1..n
    <3>1. CASE i = n
      BY <2>6, <3>1
    <3>2. CASE i # n
      <4>1. i \in 1..(n - 1) /\ i - 1 \in 0..(n - 1) /\ i \in 0..(n - 1)
        BY <3>2
      <4> HIDE DEF f
      <4> QED
        BY <2>1, <2>5, <4>1
    <3> QED
      BY <3>1, <3>2
  <2>9. Good(n)
    <3> HIDE DEF f
    <3> QED
      BY <2>4, <2>7, <2>8
  <2> QED
    BY <2>9
<1>3. 0..m \subseteq T
  <2> HIDE DEF T
  <2> QED
    BY <1>1, <1>2, Climb
<1>4. Good(m)
  BY <1>3
<1> QED
  BY <1>4 DEF Recurs

------------------------------------------------------------------------------
(* What is kept of a sequence. *)

(* The recursion of Kept, one step of it and all. *)
Sifted(f, s, P, n) ==
    IF n = 0 THEN <<>>
    ELSE IF s[n] \in P THEN Append(f[n - 1], s[n]) ELSE f[n - 1]
Sifts(f, s, P, m) == f = [n \in 0..m |-> Sifted(f, s, P, n)]

(* What is kept of each beginning of s. *)
Sifting(f, S, s, P) ==
    /\ f \in [0..Len(s) -> Seq(S)]
    /\ f[0] = <<>>
    /\ \A n \in 1..Len(s) :
         f[n] = IF s[n] \in P THEN Append(f[n - 1], s[n]) ELSE f[n - 1]
    /\ Kept(s, P) = f[Len(s)]

(* There is a function that Kept's recursion describes, and Kept is its last value. *)
LEMMA KeptIs ==
  ASSUME NEW S, NEW s \in Seq(S), NEW P
  PROVE  \E f : Sifting(f, S, s, P)
<1> DEFINE m == Len(s)
           A == Seq(S)
           next == [p \in (1..m) \X A |->
                      IF s[p[1]] \in P THEN Append(p[2], s[p[1]]) ELSE p[2]]
<1>1. m \in Nat /\ <<>> \in A
  OBVIOUS
<1>z. \A n \in 0..m : n = 0 \/ (n \in 1..m /\ n # 0)
  BY <1>1
<1>2. \A n \in 1..m : s[n] \in S
  OBVIOUS
<1>3. \A n \in 1..m, t \in A :
        /\ next[<<n, t>>] = IF s[n] \in P THEN Append(t, s[n]) ELSE t
        /\ next[<<n, t>>] \in A
  BY <1>2
<1>4. next \in [(1..m) \X A -> A]
  BY <1>2
<1>5. PICK f : Recurs(f, A, <<>>, m, next)
  <2> HIDE DEF m, next, A
  <2> QED
    BY <1>1, <1>4, Recursion
<1>5a. /\ f \in [0..m -> A] /\ f[0] = <<>>
       /\ \A n \in 1..m : f[n] = next[<<n, f[n - 1]>>]
  <2> HIDE DEF m, next, A
  <2> QED
    BY <1>5 DEF Recurs
<1>6. \A n \in 1..m : n - 1 \in 0..m /\ f[n - 1] \in A
  <2> TAKE n \in 1..m
  <2>1. n - 1 \in 0..m
    BY <1>1
  <2> HIDE DEF m, next, A
  <2> QED
    BY <1>5a, <2>1
<1>7. \A n \in 1..m : f[n] = IF s[n] \in P THEN Append(f[n - 1], s[n]) ELSE f[n - 1]
  <2> HIDE DEF m, next, A
  <2> QED
    BY <1>3, <1>5a, <1>6
<1>8. Sifts(f, s, P, m)
  <2>1. \A n \in 0..m : f[n] = Sifted(f, s, P, n)
    <3> HIDE DEF m, next, A
    <3> QED
      BY <1>z, <1>5a, <1>7, Zenon DEF Sifted
  <2> HIDE DEF m, next, A
  <2> QED
    BY <1>5a, <2>1 DEF Sifts
<1> DEFINE it == CHOOSE f1 : Sifts(f1, s, P, m)
<1>9. Kept(s, P) = it[m]
  BY DEF Kept, Sifts, Sifted
<1>10. it = f
  <2>1. Sifts(it, s, P, m)
    <3> HIDE DEF m
    <3> QED
      BY <1>8
  <2> HIDE DEF it
  <2>2. /\ it = [n \in 0..m |-> it[n]]
        /\ \A n \in 0..m : it[n] = Sifted(it, s, P, n)
    BY <2>1 DEF Sifts
  <2> DEFINE T == {n \in 0..m : it[n] = f[n]}
  <2> HIDE DEF m, next, A
  <2>3. 0 \in T
    <3>1. 0 \in 0..m
      BY <1>1
    <3>2. it[0] = <<>>
      BY <2>2, <3>1, Zenon DEF Sifted
    <3> QED
      BY <1>5a, <3>1, <3>2
  <2>4. \A n \in 1..m : n - 1 \in T => n \in T
    <3> TAKE n \in 1..m
    <3> HAVE n - 1 \in T
    <3>1. n \in 0..m /\ n # 0
      BY <1>1
    <3>2. it[n] = IF s[n] \in P THEN Append(it[n - 1], s[n]) ELSE it[n - 1]
      BY <2>2, <3>1, Zenon DEF Sifted
    <3>3. it[n - 1] = f[n - 1]
      OBVIOUS
    <3>4. f[n] = IF s[n] \in P THEN Append(f[n - 1], s[n]) ELSE f[n - 1]
      BY <1>7
    <3> DEFINE Step(t) == IF s[n] \in P THEN Append(t, s[n]) ELSE t
    <3>5. it[n] = Step(it[n - 1]) /\ f[n] = Step(f[n - 1])
      BY <3>2, <3>4
    <3> HIDE DEF Step
    <3>6. it[n] = f[n]
      BY <3>3, <3>5
    <3> QED
      BY <3>1, <3>6
  <2>5. 0..m \subseteq T
    <3> HIDE DEF T
    <3> QED
      BY <1>1, <2>3, <2>4, Climb
  <2> QED
    BY <1>5a, <2>2, <2>5
<1> QED
  <2>1. Kept(s, P) = f[m]
    BY <1>9, <1>10, Zenon
  <2>2. Sifting(f, S, s, P)
    BY <1>5a, <1>7, <2>1, Zenon DEF Sifting
  <2> QED
    BY <2>2

(* `retain' keeps the elements of s that are in P, each after those it was after. *)
LEMMA KeptHas ==
  ASSUME NEW S, NEW s \in Seq(S), NEW P
  PROVE  /\ Kept(s, P) \in Seq(S)
         /\ ToSet(Kept(s, P)) = ToSet(s) \cap P
         /\ \A R : (\A i, j \in 1..Len(s) : i < j => <<s[i], s[j]>> \in R) =>
              \A i, j \in 1..Len(Kept(s, P)) :
                i < j => <<Kept(s, P)[i], Kept(s, P)[j]>> \in R
<1>0. PICK f : Sifting(f, S, s, P)
  BY KeptIs
<1>1. /\ f \in [0..Len(s) -> Seq(S)]
      /\ f[0] = <<>>
      /\ \A n \in 1..Len(s) :
           f[n] = IF s[n] \in P THEN Append(f[n - 1], s[n]) ELSE f[n - 1]
      /\ Kept(s, P) = f[Len(s)]
  BY <1>0 DEF Sifting
<1> DEFINE Sound(t, n) == \A j \in 1..Len(t) : t[j] \in P /\ \E i \in 1..n : t[j] = s[i]
           Full(t, n) == \A i \in 1..n : s[i] \in P => \E j \in 1..Len(t) : t[j] = s[i]
           Follows(t, R) == \A i, j \in 1..Len(t) : i < j => <<t[i], t[j]>> \in R
           Good(n) == /\ Sound(f[n], n)
                      /\ Full(f[n], n)
                      /\ \A R : Follows(s, R) => Follows(f[n], R)
           T == {n \in 0..Len(s) : Good(n)}
<1>2. 0 \in T
  BY <1>1
<1>3. ASSUME NEW n \in 1..Len(s), n - 1 \in T
      PROVE  n \in T
  <2> DEFINE t == f[n - 1]
  <2>0. n - 1 \in 0..Len(s) /\ n \in 0..Len(s) /\ n \in Nat /\ s[n] \in S
    OBVIOUS
  <2>1. t \in Seq(S) /\ Len(t) \in Nat
    <3>1. t \in Seq(S)
      BY <1>1, <2>0, Zenon
    <3> HIDE DEF t
    <3> QED
      BY <3>1
  <2>2a. Sound(t, n - 1)
    BY <1>3
  <2>2b. Full(t, n - 1)
    BY <1>3
  <2>2c. \A R : Follows(s, R) => Follows(t, R)
    BY <1>3
  <2>3. f[n] = IF s[n] \in P THEN Append(t, s[n]) ELSE t
    BY <1>1
  <2>4. \A i : i \in 1..n <=> i \in 1..(n - 1) \/ i = n
    BY <2>0
  <2>5. CASE s[n] \notin P
    <3>1. f[n] = t
      BY <2>3, <2>5
    <3> HIDE DEF t
    <3>2. Sound(t, n)
      BY <2>2a, <2>4
    <3>3. Full(t, n)
      BY <2>2b, <2>4, <2>5
    <3> HIDE DEF Sound, Full, Follows
    <3> QED
      BY <2>0, <2>2c, <3>1, <3>2, <3>3
  <2>6. CASE s[n] \in P
    <3> DEFINE u == f[n]
    <3>1. u = Append(t, s[n])
      BY <2>3, <2>6
    <3> HIDE DEF t, u
    <3>2. /\ Len(u) = Len(t) + 1
          /\ \A i \in 1..Len(t) : u[i] = t[i]
          /\ u[Len(t) + 1] = s[n]
      BY <2>0, <2>1, <3>1
    <3>3. \A i : i \in 1..Len(u) <=> i \in 1..Len(t) \/ i = Len(t) + 1
      BY <2>1, <3>2
    <3>4. Sound(u, n)
      BY <2>2a, <2>4, <2>6, <3>2, <3>3
    <3>5. Full(u, n)
      BY <2>2b, <2>4, <3>2, <3>3
    <3>6. ASSUME NEW R, Follows(s, R)
          PROVE  Follows(u, R)
      <4>1. Follows(t, R)
        BY <2>2c, <3>6
      <4>2. \A i \in 1..Len(t) : <<t[i], s[n]>> \in R
        <5> TAKE i \in 1..Len(t)
        <5>1. PICK k \in 1..(n - 1) : t[i] = s[k]
          BY <2>2a
        <5>2. k \in 1..Len(s) /\ k < n
          BY <2>0
        <5> QED
          BY <3>6, <5>1, <5>2
      <4> SUFFICES ASSUME NEW i \in 1..Len(u), NEW j \in 1..Len(u), i < j
                   PROVE  <<u[i], u[j]>> \in R
        OBVIOUS
      <4>3. i \in 1..Len(t)
        BY <2>1, <3>2
      <4>4. CASE j = Len(t) + 1
        BY <3>2, <4>2, <4>3, <4>4
      <4>5. CASE j \in 1..Len(t)
        BY <3>2, <4>1, <4>3, <4>5
      <4> QED
        BY <3>3, <4>4, <4>5
    <3> HIDE DEF Sound, Full, Follows
    <3> QED
      BY <2>0, <3>4, <3>5, <3>6 DEF u
  <2> QED
    BY <2>5, <2>6
<1>4. Good(Len(s))
  <2>1. 0..Len(s) \subseteq T
    <3> HIDE DEF T
    <3>1. Len(s) \in Nat
      OBVIOUS
    <3> QED
      BY <1>2, <1>3, <3>1, Climb
  <2> HIDE DEF Good
  <2> QED
    BY <2>1
<1>5. Kept(s, P) \in Seq(S) /\ Kept(s, P) = f[Len(s)]
  BY <1>1
<1>6. ToSet(Kept(s, P)) = ToSet(s) \cap P
  <2> DEFINE t == Kept(s, P)
  <2>1. ToSet(t) = {t[i] : i \in 1..Len(t)} /\ ToSet(s) = {s[i] : i \in 1..Len(s)}
    BY <1>5 DEF ToSet
  <2>2. Sound(t, Len(s)) /\ Full(t, Len(s))
    BY <1>4, <1>5
  <2>3. ToSet(t) = ToSet(s) \cap P
    <3> HIDE DEF t
    <3>1. \A x \in ToSet(t) : x \in ToSet(s) /\ x \in P
      BY <2>1, <2>2
    <3>2. \A x \in ToSet(s) : x \in P => x \in ToSet(t)
      BY <2>1, <2>2
    <3> HIDE DEF Sound, Full
    <3> QED
      BY <3>1, <3>2
  <2> QED
    BY <2>3
<1> QED
  BY <1>4, <1>5, <1>6

(* What stood once stands once in what is kept. *)
LEMMA KeptOnce ==
  ASSUME NEW S, NEW s \in Seq(S), NEW P,
         \A i, j \in DOMAIN s : s[i] = s[j] => i = j
  PROVE  \A i, j \in DOMAIN Kept(s, P) : Kept(s, P)[i] = Kept(s, P)[j] => i = j
<1> DEFINE R == {p \in S \X S : p[1] # p[2]}
           t == Kept(s, P)
<1>1. \A i, j \in 1..Len(s) : i < j => <<s[i], s[j]>> \in R
  OBVIOUS
<1>2. t \in Seq(S) /\ \A i, j \in 1..Len(t) : i < j => <<t[i], t[j]>> \in R
  <2> HIDE DEF R
  <2> QED
    BY <1>1, KeptHas
<1> HIDE DEF t
<1>3. \A i, j \in 1..Len(t) : i < j => t[i] # t[j]
  BY <1>2
<1>4. \A i, j \in 1..Len(t) : t[i] = t[j] => i = j
  BY <1>3
<1> QED
  BY <1>2, <1>4 DEF t

(* A sequence of what is in P is kept as it is. *)
LEMMA KeptAll ==
  ASSUME NEW S, NEW s \in Seq(S), NEW P, \A i \in 1..Len(s) : s[i] \in P
  PROVE  Kept(s, P) = s
<1>0. PICK f : Sifting(f, S, s, P)
  BY KeptIs
<1>1. /\ f \in [0..Len(s) -> Seq(S)]
      /\ f[0] = <<>>
      /\ \A n \in 1..Len(s) :
           f[n] = IF s[n] \in P THEN Append(f[n - 1], s[n]) ELSE f[n - 1]
      /\ Kept(s, P) = f[Len(s)]
  BY <1>0 DEF Sifting
<1> DEFINE T == {n \in 0..Len(s) : Len(f[n]) = n /\ \A i \in 1..n : f[n][i] = s[i]}
<1>2. 0 \in T
  BY <1>1
<1>3. ASSUME NEW n \in 1..Len(s), n - 1 \in T
      PROVE  n \in T
  <2> DEFINE t == f[n - 1]
  <2>1. n - 1 \in 0..Len(s) /\ n \in 0..Len(s) /\ s[n] \in S
    OBVIOUS
  <2>2. t \in Seq(S) /\ Len(t) = n - 1 /\ \A i \in 1..(n - 1) : t[i] = s[i]
    BY <1>1, <1>3, <2>1
  <2>3. f[n] = Append(t, s[n])
    BY <1>1
  <2> HIDE DEF t
  <2>4. Len(f[n]) = n /\ f[n][n] = s[n] /\ \A i \in 1..(n - 1) : f[n][i] = t[i]
    BY <2>1, <2>2, <2>3
  <2>5. \A i \in 1..n : i \in 1..(n - 1) \/ i = n
    OBVIOUS
  <2>6. \A i \in 1..n : f[n][i] = s[i]
    BY <2>2, <2>4, <2>5
  <2> QED
    BY <2>1, <2>4, <2>6
<1>4. Len(s) \in T
  <2>1. 0..Len(s) \subseteq T
    <3> HIDE DEF T
    <3>1. Len(s) \in Nat
      OBVIOUS
    <3> QED
      BY <1>2, <1>3, <3>1, Climb
  <2> HIDE DEF T
  <2> QED
    BY <2>1
<1> QED
  BY <1>1, <1>4

------------------------------------------------------------------------------
(* Sets in order. *)

(* R is a strict total order on S. *)
Orders(R, S) ==
    /\ \A a, b \in S : a = b \/ <<a, b>> \in R \/ <<b, a>> \in R
    /\ \A a \in S : <<a, a>> \notin R
    /\ \A a, b, c \in S : <<a, b>> \in R /\ <<b, c>> \in R => <<a, c>> \in R

(* Every element of S is in f, and each place before the next. *)
Lists(f, S, R) ==
    /\ f \in Seq(S)
    /\ \A x \in S : \E i \in 1..Len(f) : f[i] = x
    /\ \A i, j \in 1..Len(f) : i < j => <<f[i], f[j]>> \in R

(* A finite set that is not empty has a last element. *)
LEMMA LastOf ==
  ASSUME NEW S, IsFiniteSet(S), S # {}, NEW R, Orders(R, S)
  PROVE  \E g \in S : \A a \in S : a = g \/ <<a, g>> \in R
<1> DEFINE m == Cardinality(S)
           Ends(U) == \E g \in U : \A a \in U : a = g \/ <<a, g>> \in R
           T == {n \in 0..m : \A U \in SUBSET S : U # {} /\ Cardinality(U) = n => Ends(U)}
<1>1. m \in Nat
  BY FS_CardinalityType
<1>2. \A U \in SUBSET S : IsFiniteSet(U) /\ Cardinality(U) \in Nat
  BY FS_Subset, FS_CardinalityType
<1>3. 0 \in T
  <2>1. \A U \in SUBSET S : ~(U # {} /\ Cardinality(U) = 0)
    BY <1>2, FS_EmptySet
  <2> HIDE DEF Ends
  <2> QED
    BY <1>1, <2>1
<1>4. ASSUME NEW n \in 1..m, n - 1 \in T
      PROVE  n \in T
  <2> SUFFICES ASSUME NEW U \in SUBSET S, U # {}, Cardinality(U) = n
               PROVE  Ends(U)
    BY <1>1
  <2>1. PICK x \in U : TRUE
    OBVIOUS
  <2> DEFINE V == U \ {x}
  <2>2. V \in SUBSET S /\ Cardinality(V) = n - 1
    BY <1>2, <2>1, FS_RemoveElement
  <2>3. CASE V = {}
    <3>1. \A a \in U : a = x
      BY <2>3
    <3> QED
      BY <2>1, <3>1
  <2>4. CASE V # {}
    <3>1. Ends(V)
      <4> HIDE DEF V, Ends
      <4> QED
        BY <1>4, <2>2, <2>4
    <3>2. PICK g \in V : \A a \in V : a = g \/ <<a, g>> \in R
      BY <3>1
    <3>3. \A a \in U : a \in S /\ (a = x \/ a \in V)
      OBVIOUS
    <3>4. g \in U /\ g # x /\ g \in S /\ x \in S
      BY <2>1
    <3>5. CASE <<x, g>> \in R
      <4>1. \A a \in U : a = g \/ <<a, g>> \in R
        BY <3>2, <3>3, <3>5
      <4> QED
        BY <3>4, <4>1
    <3>6. CASE <<g, x>> \in R
      <4>1. \A a \in U : a = x \/ <<a, x>> \in R
        <5> TAKE a \in U
        <5>1. CASE a = g
          BY <3>6, <5>1
        <5>2. CASE a \in V /\ <<a, g>> \in R
          BY <3>3, <3>4, <3>6, <5>2 DEF Orders
        <5> QED
          BY <3>2, <3>3, <5>1, <5>2
      <4> QED
        BY <2>1, <4>1
    <3> QED
      BY <3>4, <3>5, <3>6 DEF Orders
  <2> QED
    BY <2>3, <2>4
<1>5. m \in T
  <2> HIDE DEF T, m
  <2>1. 0..m \subseteq T
    BY <1>1, <1>3, <1>4, Climb
  <2> QED
    BY <1>1, <2>1
<1>6. Ends(S)
  <2> HIDE DEF Ends
  <2> QED
    BY <1>5
<1> QED
  BY <1>6

(* A finite set can be put in order. *)
LEMMA Listed ==
  ASSUME NEW S, IsFiniteSet(S), NEW R, Orders(R, S)
  PROVE  \E f : Lists(f, S, R) /\ Len(f) = Cardinality(S)
<1> DEFINE m == Cardinality(S)
           Good(U) == \E f : Lists(f, U, R) /\ Len(f) = Cardinality(U)
           T == {n \in 0..m : \A U \in SUBSET S : Cardinality(U) = n => Good(U)}
<1>1. m \in Nat
  BY FS_CardinalityType
<1>2. \A U \in SUBSET S : IsFiniteSet(U) /\ Cardinality(U) \in Nat
  BY FS_Subset, FS_CardinalityType
<1>3. 0 \in T
  <2>1. ASSUME NEW U \in SUBSET S, Cardinality(U) = 0
        PROVE  Good(U)
    <3>1. U = {}
      BY <1>2, <2>1, FS_EmptySet
    <3>2. Lists(<<>>, U, R) /\ Len(<<>>) = 0
      BY <3>1 DEF Lists
    <3> QED
      BY <2>1, <3>2
  <2> HIDE DEF Good
  <2> QED
    BY <1>1, <2>1
<1>4. ASSUME NEW n \in 1..m, n - 1 \in T
      PROVE  n \in T
  <2> SUFFICES ASSUME NEW U \in SUBSET S, Cardinality(U) = n
               PROVE  Good(U)
    BY <1>1
  <2>1. IsFiniteSet(U) /\ U # {} /\ n \in Nat
    BY <1>1, <1>2, FS_EmptySet
  <2>2. Orders(R, U)
    BY DEF Orders
  <2>3. PICK g \in U : \A a \in U : a = g \/ <<a, g>> \in R
    BY <2>1, <2>2, LastOf
  <2> DEFINE V == U \ {g}
  <2>4. V \in SUBSET S /\ Cardinality(V) = n - 1
    BY <2>1, <2>3, FS_RemoveElement
  <2>5. Good(V)
    <3> HIDE DEF V, Good
    <3> QED
      BY <1>4, <2>4
  <2>6. PICK f : Lists(f, V, R) /\ Len(f) = n - 1
    BY <2>4, <2>5
  <2> DEFINE h == Append(f, g)
  <2>7. f \in Seq(V) /\ f \in Seq(U) /\ \A i \in 1..Len(f) : f[i] \in V
    BY <2>6 DEF Lists
  <2>8. /\ h \in Seq(U) /\ Len(h) = n
        /\ \A i \in 1..(n - 1) : h[i] = f[i]
        /\ h[n] = g
    BY <2>1, <2>3, <2>6, <2>7
  <2> HIDE DEF h
  <2>9. \A i : i \in 1..n <=> i \in 1..(n - 1) \/ i = n
    BY <2>1
  <2>10. \A x \in U : \E i \in 1..Len(h) : h[i] = x
    <3> TAKE x \in U
    <3>1. CASE x = g
      BY <2>8, <2>9, <3>1
    <3>2. CASE x \in V
      <4>1. PICK i \in 1..Len(f) : f[i] = x
        BY <2>6, <3>2 DEF Lists
      <4> QED
        BY <2>6, <2>8, <2>9, <4>1
    <3> QED
      BY <3>1, <3>2
  <2>11. \A i, j \in 1..Len(h) : i < j => <<h[i], h[j]>> \in R
    <3> SUFFICES ASSUME NEW i \in 1..n, NEW j \in 1..n, i < j
                 PROVE  <<h[i], h[j]>> \in R
      BY <2>8
    <3>1. i \in 1..(n - 1) /\ h[i] = f[i] /\ i \in 1..Len(f)
      BY <2>1, <2>6, <2>8
    <3>2. CASE j = n
      <4>1. f[i] \in V
        BY <2>7, <3>1
      <4> QED
        BY <2>3, <2>8, <3>1, <3>2, <4>1
    <3>3. CASE j \in 1..(n - 1)
      BY <2>6, <2>8, <3>1, <3>3 DEF Lists
    <3> QED
      BY <2>9, <3>2, <3>3
  <2>12. Lists(h, U, R)
    BY <2>8, <2>10, <2>11 DEF Lists
  <2> QED
    BY <2>8, <2>12
<1>5. m \in T
  <2> HIDE DEF T, m
  <2>1. 0..m \subseteq T
    BY <1>1, <1>3, <1>4, Climb
  <2> QED
    BY <1>1, <2>1
<1>6. Good(S)
  <2> HIDE DEF Good
  <2> QED
    BY <1>5
<1> QED
  BY <1>6

(* A sequence that lists a set is as long as the set is large. *)
LEMMA ListsLen ==
  ASSUME NEW S, NEW R, Orders(R, S), NEW f, Lists(f, S, R)
  PROVE  IsFiniteSet(S) /\ Len(f) = Cardinality(S)
<1>1. /\ f \in [1..Len(f) -> S] /\ Len(f) \in Nat
      /\ \A i \in 1..Len(f) : f[i] \in S
  BY DEF Lists
<1>2. \A i, j \in 1..Len(f) : i < j => f[i] # f[j]
  BY <1>1 DEF Lists, Orders
<1>3. \A i, j \in 1..Len(f) : f[i] = f[j] => i = j
  BY <1>1, <1>2
<1>4. f \in Bijection(1..Len(f), S)
  BY <1>1, <1>3, Zenon DEF Lists, Bijection, Injection, Surjection, IsInjective
<1>5. ExistsBijection(1..Len(f), S)
  BY <1>4 DEF ExistsBijection
<1>6. IsFiniteSet(1..Len(f)) /\ Cardinality(1..Len(f)) = Len(f)
  BY <1>1, FS_Interval
<1> QED
  BY <1>5, <1>6, FS_Bijection

(* There is one way to put a set in order. *)
LEMMA ListsOnce ==
  ASSUME NEW S, NEW R, Orders(R, S), NEW f, Lists(f, S, R), NEW g, Lists(g, S, R)
  PROVE  f = g
<1> DEFINE n == Len(f)
           Bad == {i \in 1..n : f[i] # g[i]}
<1>1. /\ f \in Seq(S) /\ g \in Seq(S) /\ n \in Nat
      /\ Len(g) = n
  <2>1. Len(f) = Cardinality(S) /\ Len(g) = Cardinality(S)
    BY ListsLen
  <2> QED
    BY <2>1 DEF Lists
<1>2. \A i \in 1..n : f[i] \in S /\ g[i] \in S
  BY <1>1
<1>3. Bad = {}
  <2> SUFFICES ASSUME Bad # {} PROVE FALSE
    OBVIOUS
  <2>1. PICK b \in Bad : \A k \in Bad : b =< k
    <3>1. Bad \subseteq Nat
      BY <1>1
    <3> HIDE DEF Bad
    <3> QED
      BY <3>1, Least
  <2>2. b \in 1..n /\ f[b] # g[b] /\ \A k \in 1..n : k < b => f[k] = g[k]
    BY <1>1, <2>1
  <2>3. PICK j \in 1..n : g[j] = f[b]
    BY <1>1, <1>2, <2>2 DEF Lists
  <2>4. PICK k \in 1..n : f[k] = g[b]
    BY <1>1, <1>2, <2>2 DEF Lists
  <2>5. \A i \in 1..n : i < b => <<f[i], f[b]>> \in R /\ <<g[i], g[b]>> \in R
    BY <1>1, <2>2 DEF Lists
  <2>6. b < j
    <3>1. j # b
      BY <2>2, <2>3
    <3>2. ~(j < b)
      <4> SUFFICES ASSUME j < b PROVE FALSE
        OBVIOUS
      <4>1. f[j] = f[b] /\ <<f[j], f[b]>> \in R
        BY <2>2, <2>3, <2>5
      <4> QED
        BY <1>2, <2>2, <4>1 DEF Orders
    <3> QED
      BY <1>1, <2>2, <3>1, <3>2
  <2>7. b < k
    <3>1. k # b
      BY <2>2, <2>4
    <3>2. ~(k < b)
      <4> SUFFICES ASSUME k < b PROVE FALSE
        OBVIOUS
      <4>1. g[k] = g[b] /\ <<g[k], g[b]>> \in R
        BY <2>2, <2>4, <2>5
      <4> QED
        BY <1>2, <2>2, <4>1 DEF Orders
    <3> QED
      BY <1>1, <2>2, <3>1, <3>2
  <2>8. <<g[b], f[b]>> \in R
    BY <1>1, <2>2, <2>3, <2>6 DEF Lists
  <2>9. <<f[b], g[b]>> \in R
    BY <1>1, <2>2, <2>4, <2>7 DEF Lists
  <2> QED
    BY <1>2, <2>2, <2>8, <2>9 DEF Orders
<1>4. \A i \in 1..n : f[i] = g[i]
  BY <1>3
<1> QED
  BY <1>1, <1>4

(* What puts as many elements as there are in order misses none. *)
LEMMA ListsAll ==
  ASSUME NEW S, IsFiniteSet(S), NEW R, Orders(R, S), NEW f \in [1..Cardinality(S) -> S],
         \A i, j \in 1..Cardinality(S) : i < j => <<f[i], f[j]>> \in R
  PROVE  Lists(f, S, R)
<1> DEFINE m == Cardinality(S)
<1>1. m \in Nat
  BY FS_CardinalityType
<1>2. f \in Seq(S) /\ Len(f) = m
  <2> HIDE DEF m
  <2> QED
    BY <1>1 DEF m
<1>3. \A i \in 1..m : f[i] \in S
  OBVIOUS
<1>4. \A i, j \in 1..m : i < j => f[i] # f[j]
  BY <1>3 DEF Orders
<1>5. \A i, j \in 1..m : f[i] = f[j] => i = j
  BY <1>1, <1>4
<1>6. f \in Injection(1..m, S)
  BY <1>5, Zenon DEF Injection, IsInjective
<1>7. IsFiniteSet(1..m) /\ Cardinality(1..m) = m
  BY <1>1, FS_Interval
<1>8. f \in Surjection(1..m, S)
  BY <1>6, <1>7, FS_Injection
<1>9. \A x \in S : \E i \in 1..m : f[i] = x
  BY <1>8 DEF Surjection
<1> QED
  BY <1>2, <1>9 DEF Lists


(* What lists a set has its elements, and no others. *)
LEMMA ListsSet ==
  ASSUME NEW S, NEW R, NEW f, Lists(f, S, R)
  PROVE  ToSet(f) = S
<1>1. f \in Seq(S) /\ ToSet(f) = {f[i] : i \in 1..Len(f)}
  BY DEF Lists, ToSet
<1>2. \A i \in 1..Len(f) : f[i] \in S
  BY <1>1
<1> QED
  BY <1>1, <1>2 DEF Lists

(* What is kept of a set in order is in order. *)
LEMMA KeptLists ==
  ASSUME NEW S, NEW R, NEW s, Lists(s, S, R), NEW P
  PROVE  Lists(Kept(s, P), S \cap P, R)
<1> DEFINE t == Kept(s, P)
<1>1. s \in Seq(S) /\ \A i, j \in 1..Len(s) : i < j => <<s[i], s[j]>> \in R
  BY DEF Lists
<1>2. /\ t \in Seq(S)
      /\ ToSet(t) = ToSet(s) \cap P
      /\ \A i, j \in 1..Len(t) : i < j => <<t[i], t[j]>> \in R
  BY <1>1, KeptHas
<1>3. ToSet(s) = S
  BY ListsSet
<1> HIDE DEF t
<1>4. ToSet(t) = {t[i] : i \in 1..Len(t)}
  BY <1>2 DEF ToSet
<1>5. \A i \in 1..Len(t) : t[i] \in S \cap P
  BY <1>2, <1>3, <1>4
<1>6. t \in Seq(S \cap P)
  BY <1>2, <1>5
<1>7. \A x \in S \cap P : \E i \in 1..Len(t) : t[i] = x
  BY <1>2, <1>3, <1>4
<1> QED
  BY <1>2, <1>6, <1>7 DEF Lists, t
=============================================================================
