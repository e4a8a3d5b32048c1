----------------------------- MODULE KcConfigProofs -----------------------------
(***************************************************************************)
(* Proofs about KcConfig: what a selector means, which policy is found and *)
(* what the edits of a configuration do to that, and that a configuration  *)
(* which is written is read back as it was.                                *)
(***************************************************************************)
EXTENDS KcConfig, ListingProofs

------------------------------------------------------------------------------
(* What a selector means, and which policy governs a keychain. *)

(* A selector means a path. *)
LEMMA ResolveType ==
  ASSUME NEW c \in Configs, NEW s \in Selectors, NEW e
  PROVE  Resolve(c, s, e) \in Paths
<1>1. CASE s \in Paths
  BY <1>1 DEF Resolve
<1>2. CASE s \notin Paths
  <2> DEFINE dirs == SearchPaths(c)
             hits == {i \in DOMAIN dirs : [dir |-> dirs[i], name |-> s] \in e}
  <2>1. s \in Names
    BY <1>2 DEF Selectors
  <2>2. dirs \in Seq(Dirs) /\ 1 \in DOMAIN dirs
    <3>1. c.search \in Seq(Dirs) /\ <<Home>> \in Seq(Dirs)
      BY ConfigAssumption DEF Configs
    <3> QED
      BY <3>1 DEF SearchPaths
  <2> HIDE DEF dirs
  <2>3. CASE hits = {}
    <3>1. dirs[1] \in Dirs
      BY <2>2
    <3>2. Resolve(c, s, e) = [dir |-> dirs[1], name |-> s]
      BY <1>2, <2>3 DEF Resolve, Locate, dirs
    <3> QED
      BY <2>1, <3>1, <3>2 DEF Paths
  <2>4. CASE hits # {}
    <3>0. hits \in SUBSET Nat /\ hits \subseteq DOMAIN dirs
      BY <2>2
    <3>1. Min(hits) \in DOMAIN dirs
      <4> HIDE DEF hits
      <4> QED
        BY <2>4, <3>0, MinIs
    <3>2. dirs[Min(hits)] \in Dirs
      <4> HIDE DEF hits
      <4> QED
        BY <2>2, <3>1
    <3>3. Resolve(c, s, e) = [dir |-> dirs[Min(hits)], name |-> s]
      BY <1>2, <2>4 DEF Resolve, Locate, dirs
    <3> QED
      BY <2>1, <3>2, <3>3 DEF Paths
  <2> QED
    BY <2>3, <2>4
<1> QED
  BY <1>1, <1>2

(* Only the search path of a configuration counts for it, and a path means itself. *)
LEMMA ResolveSearch ==
  ASSUME NEW c, NEW d, c.search = d.search, NEW s, NEW e
  PROVE  Resolve(c, s, e) = Resolve(d, s, e)
BY DEF Resolve, SearchPaths

(* A path means itself. *)
LEMMA ResolvePath ==
  ASSUME NEW c, NEW s \in Paths, NEW e
  PROVE  Resolve(c, s, e) = s
BY DEF Resolve

(* `access_policy_for' finds a policy that is for the file, unless there is none. *)
LEMMA PolicyFound ==
  ASSUME NEW c \in Configs, NEW f, NEW e
  PROVE  \/ /\ PolicyFor(c, f, e) = None
            /\ \A i \in DOMAIN c.access : Resolve(c, c.access[i].keychain, e) # f
         \/ \E i \in DOMAIN c.access :
               /\ PolicyFor(c, f, e) = c.access[i]
               /\ Resolve(c, c.access[i].keychain, e) = f
<1> DEFINE hits == {i \in DOMAIN c.access : Resolve(c, c.access[i].keychain, e) = f}
<1>0. DOMAIN c.access \in SUBSET Nat
  BY DEF Configs
<1>1. CASE hits = {}
  BY <1>1 DEF PolicyFor
<1>2. CASE hits # {}
  <2>1. hits \in SUBSET Nat
    BY <1>0
  <2>2. Min(hits) \in hits
    <3> HIDE DEF hits
    <3> QED
      BY <1>2, <2>1, MinIs
  <2>3. PolicyFor(c, f, e) = c.access[Min(hits)]
    BY <1>2 DEF PolicyFor
  <2> QED
    BY <2>2, <2>3
<1> QED
  BY <1>1, <1>2

(* What PolicyFor finds is a policy. *)
LEMMA PolicyType ==
  ASSUME NEW c \in Configs, NEW f, NEW e
  PROVE  PolicyFor(c, f, e) \in Policies \cup {None}
<1>1. \A i \in DOMAIN c.access : c.access[i] \in Policies
  BY DEF Configs
<1> QED
  BY <1>1, PolicyFound

(* Where no file has two policies, it finds the one there is. *)
LEMMA PolicyUnique ==
  ASSUME NEW c \in Configs, NEW e, ~Doubled(c, e), NEW i \in DOMAIN c.access
  PROVE  PolicyFor(c, Resolve(c, c.access[i].keychain, e), e) = c.access[i]
<1>1. \A j \in DOMAIN c.access :
         Resolve(c, c.access[j].keychain, e) = Resolve(c, c.access[i].keychain, e) => i = j
  BY DEF Doubled
<1> QED
  BY <1>1, PolicyFound

(* Configurations with the same policies, whose selectors mean the same, agree. *)
LEMMA PoliciesAgree ==
  ASSUME NEW c \in Configs, NEW d \in Configs, NEW e, NEW g, c.access = d.access,
         \A s \in Selecting(c) : Resolve(d, s, g) = Resolve(c, s, e)
  PROVE  /\ Doubled(d, g) <=> Doubled(c, e)
         /\ \A f : PolicyFor(d, f, g) = PolicyFor(c, f, e)
<1>1. \A i \in DOMAIN c.access :
         Resolve(d, d.access[i].keychain, g) = Resolve(c, c.access[i].keychain, e)
  BY DEF Selecting
<1>2. ASSUME NEW f PROVE PolicyFor(d, f, g) = PolicyFor(c, f, e)
  <2>1. {i \in DOMAIN d.access : Resolve(d, d.access[i].keychain, g) = f}
           = {i \in DOMAIN c.access : Resolve(c, c.access[i].keychain, e) = f}
    BY <1>1
  <2> QED
    BY <2>1 DEF PolicyFor
<1> QED
  BY <1>1, <1>2 DEF Doubled

------------------------------------------------------------------------------
(* What the edits make of a configuration. *)

(* `set_access_policy' touches the policies alone. *)
LEMMA SetPolicyIs ==
  ASSUME NEW c \in Configs, NEW policy \in Policies
  PROVE  /\ SetPolicy(c, policy) \in Configs
         /\ SetPolicy(c, policy).search = c.search
         /\ SetPolicy(c, policy).access =
               IF Declared(c, policy.keychain)
                 THEN [i \in DOMAIN c.access |->
                          IF c.access[i].keychain = policy.keychain
                            THEN policy ELSE c.access[i]]
                 ELSE Append(c.access, policy)
<1> DEFINE t == IF Declared(c, policy.keychain)
                  THEN [i \in DOMAIN c.access |->
                           IF c.access[i].keychain = policy.keychain
                             THEN policy ELSE c.access[i]]
                  ELSE Append(c.access, policy)
<1>1. c.access \in Seq(Policies) /\ c.search \in Seq(Dirs) /\ c.default \in Selectors
  BY DEF Configs
<1>2. SetPolicy(c, policy) = [c EXCEPT !.access = t]
  BY Zenon DEF SetPolicy
<1>3. t \in Seq(Policies)
  BY <1>1
<1> HIDE DEF t
<1>4. c = [default |-> c.default, search |-> c.search, access |-> c.access]
  BY DEF Configs
<1>5. SetPolicy(c, policy) = [default |-> c.default, search |-> c.search, access |-> t]
  BY <1>2, <1>4
<1>6. /\ SetPolicy(c, policy) \in Configs
      /\ SetPolicy(c, policy).search = c.search
      /\ SetPolicy(c, policy).access = t
  BY <1>1, <1>3, <1>5 DEF Configs
<1> QED
  BY <1>6 DEF t

(* It puts the policy in one place, and leaves the others. *)
LEMMA SetPolicyHas ==
  ASSUME NEW c \in Configs, NEW policy \in Policies,
         NEW d, d = SetPolicy(c, policy)
  PROVE  /\ \E i \in DOMAIN d.access : d.access[i] = policy
         /\ \A i \in DOMAIN d.access :
               \/ d.access[i] = policy
               \/ i \in DOMAIN c.access /\ d.access[i] = c.access[i]
         /\ \A i \in DOMAIN c.access :
               /\ i \in DOMAIN d.access
               /\ c.access[i].keychain # policy.keychain => d.access[i] = c.access[i]
<1>1. c.access \in Seq(Policies)
  BY DEF Configs
<1>2. CASE Declared(c, policy.keychain)
  <2>1. d.access = [i \in DOMAIN c.access |->
               IF c.access[i].keychain = policy.keychain THEN policy ELSE c.access[i]]
    BY <1>2, SetPolicyIs
  <2>2. PICK i \in DOMAIN c.access : c.access[i].keychain = policy.keychain
    BY <1>2 DEF Declared
  <2>3. i \in DOMAIN d.access /\ d.access[i] = policy
    BY <2>1, <2>2
  <2> QED
    BY <2>1, <2>3
<1>3. CASE ~Declared(c, policy.keychain)
  <2>1. d.access = Append(c.access, policy)
    BY <1>3, SetPolicyIs
  <2>2. /\ d.access[Len(c.access) + 1] = policy
        /\ \A i \in DOMAIN c.access : i \in DOMAIN d.access /\ d.access[i] = c.access[i]
        /\ \A i \in DOMAIN d.access : i = Len(c.access) + 1 \/ i \in DOMAIN c.access
        /\ Len(c.access) + 1 \in DOMAIN d.access
    BY <1>1, <2>1
  <2> QED
    BY <2>2
<1> QED
  BY <1>2, <1>3

(* It gives the policy to the file that its selector means, and only to that one. *)
LEMMA SetPolicyGives ==
  ASSUME NEW c \in Configs, NEW policy \in Policies, NEW e, ~Doubled(c, e),
         NEW d, d = SetPolicy(c, policy), ~Doubled(d, e), NEW f
  PROVE  PolicyFor(d, f, e) =
            IF f = Resolve(c, policy.keychain, e) THEN policy ELSE PolicyFor(c, f, e)
<1> DEFINE m == Resolve(c, policy.keychain, e)
<1>1. /\ d \in Configs
      /\ d.search = c.search
      /\ \E i \in DOMAIN d.access : d.access[i] = policy
      /\ \A i \in DOMAIN d.access :
            \/ d.access[i] = policy
            \/ i \in DOMAIN c.access /\ d.access[i] = c.access[i]
      /\ \A i \in DOMAIN c.access :
            /\ i \in DOMAIN d.access
            /\ c.access[i].keychain # policy.keychain => d.access[i] = c.access[i]
  <2>1. d \in Configs /\ d.search = c.search
    BY SetPolicyIs
  <2> QED
    BY <2>1, SetPolicyHas
<1>2. \A s : Resolve(d, s, e) = Resolve(c, s, e)
  BY <1>1, ResolveSearch
<1>3. ~Doubled(d, e)
  OBVIOUS
<1>4. CASE f = m
  <2>1. PICK i \in DOMAIN d.access : d.access[i] = policy
    BY <1>1
  <2>2. Resolve(d, d.access[i].keychain, e) = f
    BY <1>2, <1>4, <2>1
  <2>3. PolicyFor(d, f, e) = policy
    BY <1>1, <1>3, <2>1, <2>2, PolicyUnique
  <2> QED
    BY <1>4, <2>3
<1>5. CASE f # m
  <2>1. CASE \E i \in DOMAIN c.access : Resolve(c, c.access[i].keychain, e) = f
    <3>1. PICK i \in DOMAIN c.access : Resolve(c, c.access[i].keychain, e) = f
      BY <2>1
    <3>2. i \in DOMAIN d.access /\ d.access[i] = c.access[i]
      BY <1>1, <1>5, <3>1
    <3>3. PolicyFor(c, f, e) = c.access[i]
      BY <3>1, PolicyUnique
    <3>4. Resolve(d, d.access[i].keychain, e) = f
      BY <1>2, <3>1, <3>2
    <3>5. PolicyFor(d, f, e) = d.access[i]
      BY <1>1, <1>3, <3>2, <3>4, PolicyUnique
    <3> QED
      BY <1>5, <3>2, <3>3, <3>5
  <2>2. CASE \A i \in DOMAIN c.access : Resolve(c, c.access[i].keychain, e) # f
    <3>1. \A i \in DOMAIN d.access : Resolve(d, d.access[i].keychain, e) # f
      BY <1>1, <1>2, <1>5, <2>2
    <3>2. PolicyFor(d, f, e) = None
      BY <1>1, <3>1, PolicyFound
    <3>3. PolicyFor(c, f, e) = None
      BY <2>2, PolicyFound
    <3> QED
      BY <1>5, <3>2, <3>3
  <2> QED
    BY <2>1, <2>2
<1> QED
  BY <1>4, <1>5

(* It makes no second policy for a file whose policies all have the selector. *)
LEMMA SetPolicyApart ==
  ASSUME NEW c \in Configs, NEW policy \in Policies, NEW e, ~Doubled(c, e),
         \A s \in Selecting(c) :
            Resolve(c, s, e) = Resolve(c, policy.keychain, e) => s = policy.keychain,
         NEW d, d = SetPolicy(c, policy)
  PROVE  ~Doubled(d, e)
<1> SUFFICES ASSUME NEW i \in DOMAIN d.access, NEW j \in DOMAIN d.access, i # j,
                    Resolve(d, d.access[i].keychain, e) = Resolve(d, d.access[j].keychain, e)
             PROVE  FALSE
  BY DEF Doubled
<1>1. \A s : Resolve(d, s, e) = Resolve(c, s, e)
  <2>1. d.search = c.search
    BY SetPolicyIs
  <2> QED
    BY <2>1, ResolveSearch
<1>2. ASSUME NEW k \in DOMAIN c.access, NEW l \in DOMAIN c.access, k # l
      PROVE  Resolve(c, c.access[k].keychain, e) # Resolve(c, c.access[l].keychain, e)
  BY <1>2 DEF Doubled
<1>3. CASE Declared(c, policy.keychain)
  <2>1. d.access = [k \in DOMAIN c.access |->
               IF c.access[k].keychain = policy.keychain THEN policy ELSE c.access[k]]
    BY <1>3, SetPolicyIs
  <2>2. i \in DOMAIN c.access /\ j \in DOMAIN c.access
    BY <2>1
  <2>3. /\ d.access[i].keychain = c.access[i].keychain
        /\ d.access[j].keychain = c.access[j].keychain
    BY <2>1, <2>2
  <2> QED
    BY <1>1, <1>2, <2>2, <2>3
<1>4. CASE ~Declared(c, policy.keychain)
  <2>1. d.access = Append(c.access, policy) /\ c.access \in Seq(Policies)
    BY <1>4, SetPolicyIs DEF Configs
  <2>2. /\ \A k \in DOMAIN c.access : d.access[k] = c.access[k]
        /\ \A k \in DOMAIN d.access \ DOMAIN c.access :
              k = Len(c.access) + 1 /\ d.access[k] = policy
    BY <2>1
  <2>3. \A k \in DOMAIN c.access :
           Resolve(c, c.access[k].keychain, e) # Resolve(c, policy.keychain, e)
    BY <1>4 DEF Declared, Selecting
  <2> QED
    BY <1>1, <1>2, <2>2, <2>3
<1> QED
  BY <1>3, <1>4

(* `clear_access_policy' takes the policy from the file that its selector means. *)
LEMMA ClearPolicyTakes ==
  ASSUME NEW c \in Configs, NEW keychain, NEW e, ~Doubled(c, e),
         NEW d, d = ClearPolicy(c, keychain)
  PROVE  /\ d \in Configs
         /\ d.search = c.search
         /\ ~Doubled(d, e)
         /\ keychain \in Selecting(c) =>
               \A f : PolicyFor(d, f, e) =
                         IF f = Resolve(c, keychain, e) THEN None ELSE PolicyFor(c, f, e)
<1> DEFINE P == {policy \in Policies : policy.keychain # keychain}
           t == Kept(c.access, P)
<1>1. c.access \in Seq(Policies) /\ c.search \in Seq(Dirs) /\ c.default \in Selectors
  BY DEF Configs
<1>2. c = [default |-> c.default, search |-> c.search, access |-> c.access]
  BY DEF Configs
<1>3. d = [c EXCEPT !.access = t]
  BY Zenon DEF ClearPolicy
<1>4. \A i, j \in DOMAIN c.access : c.access[i] = c.access[j] => i = j
  BY DEF Doubled
<1>5. /\ t \in Seq(Policies)
      /\ ToSet(t) = ToSet(c.access) \cap P
      /\ \A i, j \in DOMAIN t : t[i] = t[j] => i = j
  <2> HIDE DEF P
  <2> QED
    BY <1>1, <1>4, KeptHas, KeptOnce
<1> HIDE DEF t
<1>6. d = [default |-> c.default, search |-> c.search, access |-> t]
  BY <1>2, <1>3
<1>7. d.access = t /\ d.search = c.search /\ d \in Configs
  BY <1>1, <1>5, <1>6 DEF Configs
<1>8. \A s : Resolve(d, s, e) = Resolve(c, s, e)
  BY <1>7, ResolveSearch
<1>9. ASSUME NEW i \in DOMAIN t
      PROVE  \E k \in DOMAIN c.access : c.access[k] = t[i] /\ t[i].keychain # keychain
  BY <1>5 DEF ToSet
<1>10. ASSUME NEW k \in DOMAIN c.access, c.access[k].keychain # keychain
       PROVE  \E i \in DOMAIN t : t[i] = c.access[k]
  <2>1. c.access[k] \in P /\ c.access[k] \in ToSet(c.access)
    BY <1>1, <1>10 DEF ToSet
  <2>2. c.access[k] \in ToSet(t)
    BY <1>5, <2>1
  <2> QED
    BY <2>2 DEF ToSet
<1>11. ASSUME NEW k \in DOMAIN c.access, NEW l \in DOMAIN c.access, k # l
       PROVE  Resolve(c, c.access[k].keychain, e) # Resolve(c, c.access[l].keychain, e)
  BY <1>11 DEF Doubled
<1>12. ~Doubled(d, e)
  <2> SUFFICES ASSUME NEW i \in DOMAIN t, NEW j \in DOMAIN t, i # j,
                      Resolve(c, t[i].keychain, e) = Resolve(c, t[j].keychain, e)
               PROVE  FALSE
    BY <1>7, <1>8 DEF Doubled
  <2>1. PICK k \in DOMAIN c.access : c.access[k] = t[i]
    BY <1>9
  <2>2. PICK l \in DOMAIN c.access : c.access[l] = t[j]
    BY <1>9
  <2>3. k # l
    BY <1>5, <2>1, <2>2
  <2> QED
    BY <1>11, <2>1, <2>2, <2>3
<1>13. ASSUME keychain \in Selecting(c), NEW f
       PROVE  PolicyFor(d, f, e) =
                 IF f = Resolve(c, keychain, e) THEN None ELSE PolicyFor(c, f, e)
  <2>1. PICK m \in DOMAIN c.access : c.access[m].keychain = keychain
    BY <1>13 DEF Selecting
  <2>2. CASE f = Resolve(c, keychain, e)
    <3>1. ASSUME NEW i \in DOMAIN t PROVE Resolve(c, t[i].keychain, e) # f
      <4>1. PICK k \in DOMAIN c.access : c.access[k] = t[i] /\ t[i].keychain # keychain
        BY <1>9
      <4> QED
        BY <1>11, <2>1, <2>2, <4>1
    <3> QED
      BY <1>7, <1>8, <2>2, <3>1, PolicyFound
  <2>3. CASE f # Resolve(c, keychain, e)
    <3>1. CASE \E k \in DOMAIN c.access : Resolve(c, c.access[k].keychain, e) = f
      <4>1. PICK k \in DOMAIN c.access : Resolve(c, c.access[k].keychain, e) = f
        BY <3>1
      <4>2. PICK i \in DOMAIN t : t[i] = c.access[k]
        BY <1>10, <2>3, <4>1
      <4>3. PolicyFor(c, f, e) = c.access[k]
        BY <4>1, PolicyUnique
      <4>4. PolicyFor(d, f, e) = t[i]
        BY <1>7, <1>8, <1>12, <4>1, <4>2, PolicyUnique
      <4> QED
        BY <2>3, <4>2, <4>3, <4>4
    <3>2. CASE \A k \in DOMAIN c.access : Resolve(c, c.access[k].keychain, e) # f
      <4>1. \A i \in DOMAIN t : Resolve(c, t[i].keychain, e) # f
        BY <1>9, <3>2
      <4>2. PolicyFor(d, f, e) = None
        BY <1>7, <1>8, <4>1, PolicyFound
      <4>3. PolicyFor(c, f, e) = None
        BY <3>2, PolicyFound
      <4> QED
        BY <2>3, <4>2, <4>3
    <3> QED
      BY <3>1, <3>2
  <2> QED
    BY <2>2, <2>3
<1> QED
  BY <1>7, <1>12, <1>13

(* `kc config append' and `prepend' keep the policies. *)
LEMMA WithSearchIs ==
  ASSUME NEW c \in Configs, NEW additions \in Seq(Dirs), NEW prepend,
         NEW d, d = WithSearch(c, additions, prepend)
  PROVE  d \in Configs /\ d.access = c.access /\ d.default = c.default
<1> DEFINE kept == Kept(c.search, Dirs \ ToSet(additions))
           t == IF prepend THEN additions \o kept ELSE kept \o additions
<1>1. c.access \in Seq(Policies) /\ c.search \in Seq(Dirs) /\ c.default \in Selectors
  BY DEF Configs
<1>2. c = [default |-> c.default, search |-> c.search, access |-> c.access]
  BY DEF Configs
<1>3. d = [c EXCEPT !.search = t]
  BY Zenon DEF WithSearch
<1>4. kept \in Seq(Dirs)
  BY <1>1, KeptHas
<1> HIDE DEF kept
<1>5. t \in Seq(Dirs)
  BY <1>4
<1> HIDE DEF t
<1>6. d = [default |-> c.default, search |-> t, access |-> c.access]
  BY <1>2, <1>3
<1> QED
  BY <1>1, <1>5, <1>6 DEF Configs

(* Taking the policies of a keychain away keeps a configuration one. *)
LEMMA ClearPolicyType ==
  ASSUME NEW c \in Configs, NEW keychain
  PROVE  ClearPolicy(c, keychain) \in Configs
<1> DEFINE t == Kept(c.access, {policy \in Policies : policy.keychain # keychain})
<1>1. c.access \in Seq(Policies) /\ c.search \in Seq(Dirs) /\ c.default \in Selectors
  BY DEF Configs
<1>2. c = [default |-> c.default, search |-> c.search, access |-> c.access]
  BY DEF Configs
<1>3. t \in Seq(Policies)
  BY <1>1, KeptHas
<1>4. ClearPolicy(c, keychain) = [c EXCEPT !.access = t]
  BY Zenon DEF ClearPolicy
<1> HIDE DEF t
<1>5. ClearPolicy(c, keychain)
        = [default |-> c.default, search |-> c.search, access |-> t]
  BY <1>2, <1>4
<1> QED
  BY <1>1, <1>3, <1>5 DEF Configs

------------------------------------------------------------------------------
(* What is written is read back. *)

(* The lines that a configuration can have. *)
Line ==
  [node : {"default"}, value : Selectors]
    \cup [node : {"search-path"}, value : Dirs]
    \cup [node : {"access"}, keychain : Selectors, mode : Modes, default : Defaults]
    \cup [node : {"trust"}, keychain : Selectors, apps : SUBSET Apps]

(* A configuration is its three parts. *)
LEMMA ConfigIs ==
  ASSUME NEW c \in Configs
  PROVE  /\ c.default \in Selectors /\ c.search \in Seq(Dirs) /\ c.access \in Seq(Policies)
         /\ c = [default |-> c.default, search |-> c.search, access |-> c.access]
         /\ c # None
BY ConfigAssumption DEF Configs

(* The first line says the default. *)
LEMMA DefaultRead ==
  ASSUME NEW c \in Configs, NEW s \in Selectors
  PROVE  /\ ParsedLine(c, [node |-> "default", value |-> s])
              = IF s \in Blank THEN None
                ELSE [default |-> s, search |-> c.search, access |-> c.access]
         /\ [default |-> s, search |-> c.search, access |-> c.access] \in Configs
<1>1. ParsedLine(c, [node |-> "default", value |-> s])
        = IF s \in Blank THEN None ELSE [c EXCEPT !.default = s]
  BY ConfigIs DEF ParsedLine
<1>2. [c EXCEPT !.default = s] = [default |-> s, search |-> c.search, access |-> c.access]
  BY ConfigIs
<1>3. [default |-> s, search |-> c.search, access |-> c.access] \in Configs
  BY ConfigIs DEF Configs
<1> QED
  BY <1>1, <1>2, <1>3

(* The next ones, one directory each. *)
LEMMA SearchRead ==
  ASSUME NEW c \in Configs, NEW dir \in Dirs
  PROVE  /\ ParsedLine(c, [node |-> "search-path", value |-> dir])
              = IF dir \in Blank THEN None
                ELSE [default |-> c.default, search |-> Append(c.search, dir),
                      access |-> c.access]
         /\ [default |-> c.default, search |-> Append(c.search, dir), access |-> c.access]
              \in Configs
<1>1. ParsedLine(c, [node |-> "search-path", value |-> dir])
        = IF dir \in Blank THEN None ELSE [c EXCEPT !.search = Append(c.search, dir)]
  BY ConfigIs DEF ParsedLine
<1> DEFINE t == Append(c.search, dir)
<1>2. t \in Seq(Dirs)
  BY ConfigIs
<1> HIDE DEF t
<1>3. [c EXCEPT !.search = t] = [default |-> c.default, search |-> t, access |-> c.access]
  BY ConfigIs
<1>4. [default |-> c.default, search |-> t, access |-> c.access] \in Configs
  BY <1>2, ConfigIs DEF Configs
<1> QED
  BY <1>1, <1>3, <1>4 DEF t

(* A policy that has no applications yet. *)
Bare(keychain, mode, default) ==
  [keychain |-> keychain, mode |-> mode, default |-> default, trust |-> {}]

(* A line that declares a policy appends it, and no line declares one again. *)
LEMMA AccessRead ==
  ASSUME NEW c \in Configs, NEW k \in Selectors, NEW m \in Modes, NEW x \in Defaults
  PROVE  LET line == [node |-> "access", keychain |-> k, mode |-> m, default |-> x]
             d == [default |-> c.default, search |-> c.search,
                   access |-> Append(c.access, Bare(k, m, x))]
         IN  /\ ParsedLine(c, line) = IF ~Legible(k) \/ Declared(c, k) THEN None ELSE d
             /\ d \in Configs
<1> DEFINE t == Append(c.access, Bare(k, m, x))
           line == [node |-> "access", keychain |-> k, mode |-> m, default |-> x]
<1>1. t \in Seq(Policies)
  <2>1. Bare(k, m, x) \in Policies
    BY DEF Bare, Policies
  <2> QED
    BY <2>1, ConfigIs
<1>2. ParsedLine(c, line) =
        IF ~Legible(k) \/ Declared(c, k) THEN None ELSE [c EXCEPT !.access = t]
  BY ConfigIs DEF ParsedLine, Bare
<1> HIDE DEF t
<1>3. [c EXCEPT !.access = t] = [default |-> c.default, search |-> c.search, access |-> t]
  BY ConfigIs
<1>4. [default |-> c.default, search |-> c.search, access |-> t] \in Configs
  BY <1>1, ConfigIs DEF Configs
<1> QED
  BY <1>2, <1>3, <1>4 DEF t

(* A line of applications gives them to the policy that it names. *)
LEMMA TrustRead ==
  ASSUME NEW c \in Configs, NEW k \in Selectors, NEW apps \in SUBSET Apps
  PROVE  LET line == [node |-> "trust", keychain |-> k, apps |-> apps]
             t == [i \in DOMAIN c.access |->
                     IF c.access[i].keychain = k THEN Trusting(c.access[i], apps)
                     ELSE c.access[i]]
             d == [default |-> c.default, search |-> c.search, access |-> t]
         IN  /\ ParsedLine(c, line) =
                   IF ~Legible(k) \/ ~LegibleApps(apps) \/ ~Declared(c, k) THEN None ELSE d
             /\ d \in Configs
<1> DEFINE line == [node |-> "trust", keychain |-> k, apps |-> apps]
           t == [i \in DOMAIN c.access |->
                   IF c.access[i].keychain = k THEN Trusting(c.access[i], apps)
                   ELSE c.access[i]]
<1>1. \A i \in DOMAIN c.access : c.access[i] \in Policies
  BY ConfigIs
<1>2. \A policy \in Policies :
        Trusting(policy, apps) \in Policies
  BY DEF Policies, Trusting
<1>3. t \in Seq(Policies)
  <2>1. DOMAIN c.access = 1..Len(c.access) /\ Len(c.access) \in Nat
    BY ConfigIs
  <2> QED
    BY <1>1, <1>2, <2>1
<1>4. ParsedLine(c, line) =
        IF ~Legible(k) \/ ~LegibleApps(apps) \/ ~Declared(c, k) THEN None
        ELSE [c EXCEPT !.access = t]
  BY ConfigIs DEF ParsedLine
<1> HIDE DEF t
<1>5. [c EXCEPT !.access = t] = [default |-> c.default, search |-> c.search, access |-> t]
  BY ConfigIs
<1>6. [default |-> c.default, search |-> c.search, access |-> t] \in Configs
  BY <1>3, ConfigIs DEF Configs
<1> QED
  BY <1>4, <1>5, <1>6 DEF t

(* Whatever a line says, what is read is a configuration or an error. *)
LEMMA LineRead ==
  ASSUME NEW c \in Configs \cup {None}, NEW line \in Line
  PROVE  ParsedLine(c, line) \in Configs \cup {None}
<1>1. CASE c = None
  BY <1>1 DEF ParsedLine
<1>2. CASE c \in Configs
  <2>1. CASE line \in [node : {"default"}, value : Selectors]
    <3>1. line = [node |-> "default", value |-> line.value] /\ line.value \in Selectors
      BY <2>1
    <3>2. ParsedLine(c, [node |-> "default", value |-> line.value])
            \in Configs \cup {None}
      BY <1>2, <3>1, DefaultRead
    <3> QED
      BY <3>1, <3>2, Zenon
  <2>2. CASE line \in [node : {"search-path"}, value : Dirs]
    <3>1. line = [node |-> "search-path", value |-> line.value] /\ line.value \in Dirs
      BY <2>2
    <3>2. ParsedLine(c, [node |-> "search-path", value |-> line.value])
            \in Configs \cup {None}
      BY <1>2, <3>1, SearchRead
    <3> QED
      BY <3>1, <3>2, Zenon
  <2>3. CASE line \in [node : {"access"}, keychain : Selectors, mode : Modes, default : Defaults]
    <3>1. /\ line = [node |-> "access", keychain |-> line.keychain,
                     mode |-> line.mode, default |-> line.default]
          /\ line.keychain \in Selectors /\ line.mode \in Modes /\ line.default \in Defaults
      BY <2>3
    <3>2. ParsedLine(c, [node |-> "access", keychain |-> line.keychain,
                           mode |-> line.mode, default |-> line.default])
            \in Configs \cup {None}
      BY <1>2, <3>1, AccessRead
    <3> QED
      BY <3>1, <3>2, Zenon
  <2>4. CASE line \in [node : {"trust"}, keychain : Selectors, apps : SUBSET Apps]
    <3>1. /\ line = [node |-> "trust", keychain |-> line.keychain, apps |-> line.apps]
          /\ line.keychain \in Selectors /\ line.apps \in SUBSET Apps
      BY <2>4
    <3>2. ParsedLine(c, [node |-> "trust", keychain |-> line.keychain, apps |-> line.apps])
            \in Configs \cup {None}
      BY <1>2, <3>1, TrustRead
    <3> QED
      BY <3>1, <3>2, Zenon
  <2> QED
    BY <2>1, <2>2, <2>3, <2>4 DEF Line
<1> QED
  BY <1>1, <1>2

(* The recursion of Parsed, one step of it and all. *)
ReadStep(w, login, lines, n) ==
  IF n = 0 THEN DefaultConfig(login) ELSE ParsedLine(w[n - 1], lines[n])
ReadSteps(w, login, lines, m) == w = [n \in 0..m |-> ReadStep(w, login, lines, n)]

(* What is read up to each line. *)
Reads(f, login, lines) ==
  /\ f \in [0..Len(lines) -> Configs \cup {None}]
  /\ f[0] = DefaultConfig(login)
  /\ \A n \in 1..Len(lines) : f[n] = ParsedLine(f[n - 1], lines[n])
  /\ Parsed(login, lines) = f[Len(lines)]

(* Parsed is the last of it. *)
LEMMA ParsedIs ==
  ASSUME NEW login \in Selectors, NEW lines \in Seq(Line)
  PROVE  \E f : Reads(f, login, lines)
<1> DEFINE m == Len(lines)
           A == Configs \cup {None}
           base == DefaultConfig(login)
           next == [p \in (1..m) \X A |-> ParsedLine(p[2], lines[p[1]])]
<1>1. m \in Nat /\ \A n \in 1..m : lines[n] \in Line
  OBVIOUS
<1>2. base \in A
  BY DEF DefaultConfig, Configs
<1>3. \A n \in 1..m, c \in A :
        next[<<n, c>>] = ParsedLine(c, lines[n]) /\ next[<<n, c>>] \in A
  <2> HIDE DEF A
  <2>1. \A n \in 1..m, c \in A : ParsedLine(c, lines[n]) \in A
    BY <1>1, LineRead DEF A
  <2> QED
    BY <2>1
<1>4. next \in [(1..m) \X A -> A]
  <2> HIDE DEF A, m
  <2>1. \A p \in (1..m) \X A : ParsedLine(p[2], lines[p[1]]) \in A
    BY <1>1, LineRead DEF A
  <2> QED
    BY <2>1
<1> HIDE DEF base, next, A, m
<1>5. PICK f : Recurs(f, A, base, m, next)
  BY <1>1, <1>2, <1>4, Recursion
<1>6. /\ f \in [0..m -> A] /\ f[0] = base
      /\ \A n \in 1..m : f[n] = next[<<n, f[n - 1]>>]
  BY <1>5 DEF Recurs
<1>7. \A n \in 1..m : n - 1 \in 0..m /\ n \in 0..m /\ n # 0 /\ f[n - 1] \in A
  BY <1>1, <1>6
<1>8. \A n \in 1..m : f[n] = ParsedLine(f[n - 1], lines[n])
  BY <1>3, <1>6, <1>7
<1>9. ReadSteps(f, login, lines, m)
  <2>1. \A n \in 0..m : n = 0 \/ (n \in 1..m /\ n # 0)
    BY <1>1
  <2>2. \A n \in 0..m : f[n] = ReadStep(f, login, lines, n)
    BY <1>6, <1>8, <2>1, Zenon DEF ReadStep, base
  <2> QED
    BY <1>6, <2>2 DEF ReadSteps
<1> DEFINE it == CHOOSE w : ReadSteps(w, login, lines, m)
<1>10. Parsed(login, lines) = it[m]
  BY DEF Parsed, ReadSteps, ReadStep, m
<1>11. ReadSteps(it, login, lines, m)
  BY <1>9
<1> HIDE DEF it
<1>12. \A n \in 0..m : it[n] = ReadStep(it, login, lines, n)
  BY <1>11 DEF ReadSteps
<1> DEFINE T == {n \in 0..m : it[n] = f[n]}
<1>13. 0 \in T
  <2>1. 0 \in 0..m /\ it[0] = base
    BY <1>1, <1>12 DEF ReadStep, base
  <2> QED
    BY <1>6, <2>1
<1>14. \A n \in 1..m : n - 1 \in T => n \in T
  <2> TAKE n \in 1..m
  <2> HAVE n - 1 \in T
  <2>1. it[n] = ParsedLine(it[n - 1], lines[n])
    BY <1>7, <1>12, Zenon DEF ReadStep
  <2>2. it[n - 1] = f[n - 1]
    OBVIOUS
  <2>3. it[n] = f[n]
    BY <1>8, <2>1, <2>2, Zenon
  <2> QED
    BY <1>7, <2>3
<1>15. 0..m \subseteq T
  <2> HIDE DEF T
  <2> QED
    BY <1>1, <1>13, <1>14, Climb
<1>16. it[m] = f[m]
  BY <1>1, <1>15
<1> QED
  BY <1>6, <1>8, <1>10, <1>16 DEF Reads, A, m, base

(* Nothing but the default is read of no line. *)
LEMMA ParsedNone ==
  ASSUME NEW login \in Selectors
  PROVE  Parsed(login, <<>>) = DefaultConfig(login)
<1>1. <<>> \in Seq(Line) /\ Len(<<>>) = 0
  OBVIOUS
<1>2. PICK f : Reads(f, login, <<>>)
  BY <1>1, ParsedIs
<1> QED
  BY <1>1, <1>2 DEF Reads

(* One more line is read after the others. *)
LEMMA ParsedMore ==
  ASSUME NEW login \in Selectors, NEW lines \in Seq(Line), NEW line \in Line
  PROVE  /\ Append(lines, line) \in Seq(Line)
         /\ Parsed(login, Append(lines, line)) = ParsedLine(Parsed(login, lines), line)
         /\ Parsed(login, lines) \in Configs \cup {None}
<1> DEFINE m == Len(lines)
           more == Append(lines, line)
<1>1. /\ m \in Nat /\ more \in Seq(Line) /\ Len(more) = m + 1
      /\ \A n \in 1..m : more[n] = lines[n]
      /\ more[m + 1] = line
  OBVIOUS
<1>2. PICK f : Reads(f, login, lines)
  BY ParsedIs
<1> HIDE DEF more
<1>3. PICK g : Reads(g, login, more)
  BY <1>1, ParsedIs
<1>4. /\ f[0] = DefaultConfig(login) /\ g[0] = DefaultConfig(login)
      /\ \A n \in 1..m : f[n] = ParsedLine(f[n - 1], lines[n])
      /\ \A n \in 1..(m + 1) : g[n] = ParsedLine(g[n - 1], more[n])
      /\ Parsed(login, lines) = f[m] /\ Parsed(login, more) = g[m + 1]
      /\ f[m] \in Configs \cup {None}
  BY <1>1, <1>2, <1>3 DEF Reads
<1> HIDE DEF m
<1> DEFINE T == {n \in 0..m : g[n] = f[n]}
<1>5. 0 \in T
  BY <1>1, <1>4
<1>6. \A n \in 1..m : n - 1 \in T => n \in T
  <2> TAKE n \in 1..m
  <2> HAVE n - 1 \in T
  <2>1. n \in 0..m /\ n \in 1..(m + 1)
    BY <1>1
  <2>2. g[n] = ParsedLine(g[n - 1], lines[n]) /\ f[n] = ParsedLine(f[n - 1], lines[n])
    BY <1>1, <1>4, <2>1
  <2>3. g[n - 1] = f[n - 1]
    OBVIOUS
  <2>4. g[n] = f[n]
    BY <2>2, <2>3, Zenon
  <2> QED
    BY <2>1, <2>4
<1>7. 0..m \subseteq T
  <2> HIDE DEF T
  <2> QED
    BY <1>1, <1>5, <1>6, Climb
<1>8. g[m] = f[m]
  BY <1>1, <1>7
<1>9. g[m + 1] = ParsedLine(g[m], line)
  <2>1. m + 1 \in 1..(m + 1) /\ (m + 1) - 1 = m
    BY <1>1
  <2> QED
    BY <1>1, <1>4, <2>1
<1> QED
  BY <1>1, <1>4, <1>8, <1>9 DEF more

(* A beginning of a sequence is the one before it and an element. *)
LEMMA Longer ==
  ASSUME NEW S, NEW s \in Seq(S), NEW k \in 1..Len(s)
  PROVE  /\ SubSeq(s, 1, k - 1) \in Seq(S) /\ s[k] \in S
         /\ SubSeq(s, 1, k) = Append(SubSeq(s, 1, k - 1), s[k])
<1> DEFINE a == SubSeq(s, 1, k - 1)
           b == SubSeq(s, 1, k)
<1>1. Len(s) \in Nat /\ k \in Nat /\ s[k] \in S
  OBVIOUS
<1>2. a \in Seq(S) /\ Len(a) = k - 1 /\ \A i \in 1..(k - 1) : a[i] = s[i]
  BY <1>1
<1>3. b \in Seq(S) /\ Len(b) = k /\ \A i \in 1..k : b[i] = s[i]
  BY <1>1
<1> HIDE DEF a, b
<1> DEFINE d == Append(a, s[k])
<1>4. /\ d \in Seq(S) /\ Len(d) = k
      /\ \A i \in 1..(k - 1) : d[i] = a[i]
      /\ d[k] = s[k]
  BY <1>1, <1>2
<1> HIDE DEF d
<1>5. \A i \in 1..k : i = k \/ i \in 1..(k - 1)
  BY <1>1
<1>6. \A i \in 1..k : b[i] = d[i]
  BY <1>2, <1>3, <1>4, <1>5
<1>7. b = d
  BY <1>3, <1>4, <1>6
<1> QED
  BY <1>1, <1>2, <1>7 DEF a, b, d

(* The lines before those of the policies. *)
First(c) ==
  <<[node |-> "default", value |-> c.default]>>
    \o [i \in DOMAIN c.search |-> [node |-> "search-path", value |-> c.search[i]]]

(* They are lines, one for the default and one for each directory. *)
LEMMA FirstIs ==
  ASSUME NEW c \in Configs
  PROVE  /\ First(c) \in Seq(Line) /\ Len(First(c)) = Len(c.search) + 1
         /\ First(c)[1] = [node |-> "default", value |-> c.default]
         /\ \A k \in 1..Len(c.search) :
               First(c)[k + 1] = [node |-> "search-path", value |-> c.search[k]]
<1> DEFINE n == Len(c.search)
           u == First(c)
           h == <<[node |-> "default", value |-> c.default]>>
           t == [i \in DOMAIN c.search |-> [node |-> "search-path", value |-> c.search[i]]]
<1>1. /\ n \in Nat /\ DOMAIN c.search = 1..n /\ c.search \in Seq(Dirs)
      /\ \A k \in 1..n : c.search[k] \in Dirs
      /\ c.default \in Selectors
  <2>1. c.search \in Seq(Dirs) /\ c.default \in Selectors
    BY ConfigIs
  <2>2. n \in Nat /\ DOMAIN c.search = 1..n /\ \A k \in 1..n : c.search[k] \in Dirs
    BY <2>1
  <2> QED
    BY <2>1, <2>2
<1>2. /\ h \in Seq(Line) /\ Len(h) = 1
      /\ h[1] = [node |-> "default", value |-> c.default]
  <2>1. [node |-> "default", value |-> c.default] \in Line
    BY <1>1 DEF Line
  <2> QED
    BY <2>1
<1>3. /\ t \in Seq(Line) /\ Len(t) = n
      /\ \A k \in 1..n : t[k] = [node |-> "search-path", value |-> c.search[k]]
  <2>1. \A k \in 1..n : [node |-> "search-path", value |-> c.search[k]] \in Line
    BY <1>1 DEF Line
  <2>2. t = [k \in 1..n |-> [node |-> "search-path", value |-> c.search[k]]]
    BY <1>1
  <2> HIDE DEF t, n
  <2>3. DOMAIN t = 1..n /\ \A k \in 1..n : t[k] \in Line
    BY <2>1, <2>2
  <2>4. t \in [1..n -> Line]
    BY <2>1, <2>2
  <2>5. t \in Seq(Line)
    BY <1>1, <2>4
  <2>6. Len(t) = n
    BY <1>1, <2>3, <2>5
  <2> QED
    BY <2>2, <2>5, <2>6
<1>4. u = h \o t
  BY DEF First
<1> HIDE DEF h, t, u, n
<1>5. /\ u \in Seq(Line) /\ Len(u) = n + 1
      /\ u[1] = [node |-> "default", value |-> c.default]
      /\ \A k \in 1..n : u[k + 1] = [node |-> "search-path", value |-> c.search[k]]
  <2>1. h \in Seq(Line) /\ t \in Seq(Line)
    BY <1>2, <1>3
  <2>2. h \o t \in Seq(Line) /\ Len(h \o t) = Len(h) + Len(t)
    BY <2>1
  <2>3. \A i \in 1..Len(h) : (h \o t)[i] = h[i]
    BY <2>1
  <2>4. \A i \in 1..Len(t) : (h \o t)[i + Len(h)] = t[i]
    BY <2>1
  <2>5. u \in Seq(Line) /\ Len(u) = n + 1
    BY <1>1, <1>2, <1>3, <1>4, <2>2
  <2>6. u[1] = h[1]
    <3>1. 1 \in 1..Len(h)
      BY <1>2
    <3>2. (h \o t)[1] = h[1]
      BY <2>3, <3>1
    <3> QED
      BY <1>4, <3>2
  <2>7. \A k \in 1..n : u[k + 1] = t[k]
    BY <1>2, <1>3, <1>4, <2>4
  <2> QED
    BY <1>2, <1>3, <2>5, <2>6, <2>7
<1> QED
  BY <1>5 DEF u, n

(* They say the default and the search path. *)
LEMMA FirstRead ==
  ASSUME NEW c \in Configs, NEW login \in Selectors, Worded(c)
  PROVE  /\ Parsed(login, First(c)) = [default |-> c.default, search |-> c.search, access |-> <<>>]
         /\ [default |-> c.default, search |-> c.search, access |-> <<>>] \in Configs
<1> DEFINE n == Len(c.search)
           u == First(c)
           D(k) == [default |-> c.default, search |-> SubSeq(c.search, 1, k), access |-> <<>>]
<1>1. /\ n \in Nat /\ DOMAIN c.search = 1..n /\ c.search \in Seq(Dirs)
      /\ \A k \in 1..n : c.search[k] \in Dirs
      /\ c.default \in Selectors
  <2>1. c.search \in Seq(Dirs) /\ c.default \in Selectors
    BY ConfigIs
  <2>2. n \in Nat /\ DOMAIN c.search = 1..n /\ \A k \in 1..n : c.search[k] \in Dirs
    BY <2>1
  <2> QED
    BY <2>1, <2>2
<1>2. /\ u \in Seq(Line) /\ Len(u) = n + 1
      /\ u[1] = [node |-> "default", value |-> c.default]
      /\ \A k \in 1..n : u[k + 1] = [node |-> "search-path", value |-> c.search[k]]
  BY FirstIs
<1>3. c.default \notin Blank /\ \A k \in 1..n : c.search[k] \notin Blank
  <2>1. \A k \in 1..n : c.search[k] \notin Blank
    BY <1>1 DEF Worded
  <2>2. c.default \in Names => c.default \notin Blank
    BY DEF Worded, Legible
  <2>3. c.default \in Paths => c.default \notin Blank
    BY ConfigAssumption
  <2> QED
    BY <1>1, <2>1, <2>2, <2>3 DEF Selectors
<1> HIDE DEF u, n
<1> DEFINE T == {k \in 0..n : Parsed(login, SubSeq(u, 1, k + 1)) = D(k)}
<1>4. \A k \in 0..n : D(k) \in Configs
  <2> TAKE k \in 0..n
  <2>1. SubSeq(c.search, 1, k) \in Seq(Dirs)
    BY <1>1 DEF n
  <2> QED
    BY <1>1, <2>1 DEF Configs
<1>5. 0 \in T
  <2>1. SubSeq(u, 1, 0 + 1) = Append(SubSeq(u, 1, 0), u[1]) /\ SubSeq(u, 1, 0) \in Seq(Line)
    <3>1. 1 \in 1..Len(u) /\ 1 - 1 = 0 /\ 0 + 1 = 1
      BY <1>1, <1>2
    <3> QED
      BY <1>2, <3>1, Longer
  <2>2. SubSeq(u, 1, 0) = <<>> /\ SubSeq(c.search, 1, 0) = <<>>
    BY <1>1, <1>2
  <2>3. u[1] \in Line
    BY <1>1, <1>2 DEF Line
  <2>4. Parsed(login, SubSeq(u, 1, 0 + 1)) = ParsedLine(DefaultConfig(login), u[1])
    <3> DEFINE e == <<>>
    <3>1. e \in Seq(Line) /\ SubSeq(u, 1, 0 + 1) = Append(e, u[1])
      BY <2>1, <2>2
    <3>2. Parsed(login, e) = DefaultConfig(login)
      BY ParsedNone
    <3> HIDE DEF e
    <3>3. Parsed(login, Append(e, u[1])) = ParsedLine(Parsed(login, e), u[1])
      BY <2>3, <3>1, ParsedMore
    <3> QED
      BY <3>1, <3>2, <3>3
  <2>5. DefaultConfig(login) \in Configs
    BY DEF DefaultConfig, Configs
  <2>6. ParsedLine(DefaultConfig(login), u[1])
          = [default |-> c.default, search |-> <<>>, access |-> <<>>]
    <3>1. DefaultConfig(login).search = <<>> /\ DefaultConfig(login).access = <<>>
      BY DEF DefaultConfig
    <3> QED
      BY <1>1, <1>2, <1>3, <2>5, <3>1, DefaultRead
  <2>7. 0 \in 0..n
    BY <1>1
  <2> QED
    BY <2>2, <2>4, <2>6, <2>7
<1>6. \A k \in 1..n : k - 1 \in T => k \in T
  <2> TAKE k \in 1..n
  <2> HAVE k - 1 \in T
  <2> DEFINE d == D(k - 1)
             before == SubSeq(u, 1, k)
             dir == c.search[k]
  <2>1. k - 1 \in 0..n /\ k \in 0..n /\ (k - 1) + 1 = k /\ (k + 1) - 1 = k
        /\ k + 1 \in 1..Len(u) /\ k \in 1..Len(c.search) /\ dir \in Dirs
    BY <1>1, <1>2 DEF n
  <2>2. Parsed(login, before) = d
    BY <2>1
  <2>3. /\ before \in Seq(Line) /\ u[k + 1] \in Line
        /\ SubSeq(u, 1, k + 1) = Append(before, u[k + 1])
    BY <1>2, <2>1, Longer
  <2>4. SubSeq(c.search, 1, k) = Append(SubSeq(c.search, 1, k - 1), dir)
    BY <1>1, <2>1, Longer
  <2>5. d \in Configs
    BY <1>4, <2>1
  <2>6. /\ d.default = c.default /\ d.search = SubSeq(c.search, 1, k - 1)
        /\ d.access = <<>>
    OBVIOUS
  <2> HIDE DEF d, before, dir
  <2>7. Parsed(login, SubSeq(u, 1, k + 1)) = ParsedLine(d, u[k + 1])
    BY <2>2, <2>3, ParsedMore
  <2>8. u[k + 1] = [node |-> "search-path", value |-> dir]
    BY <1>2 DEF dir
  <2>9. ParsedLine(d, u[k + 1])
          = [default |-> d.default, search |-> Append(d.search, dir), access |-> d.access]
    BY <1>3, <2>1, <2>5, <2>8, SearchRead DEF dir
  <2>10. Parsed(login, SubSeq(u, 1, k + 1)) = D(k)
    BY <2>4, <2>6, <2>7, <2>9
  <2> QED
    BY <2>1, <2>10
<1>7. n \in T
  <2> HIDE DEF T
  <2>1. 0..n \subseteq T
    BY <1>1, <1>5, <1>6, Climb
  <2> QED
    BY <1>1, <2>1
<1>8. SubSeq(u, 1, n + 1) = u /\ SubSeq(c.search, 1, n) = c.search
  BY <1>1, <1>2 DEF n
<1>9. D(n) \in Configs /\ n \in 0..n
  BY <1>1, <1>4
<1> QED
  BY <1>7, <1>8, <1>9 DEF u

(* The recursion of Rendered, one step of it and all. *)
RenderStep(w, c, n) == IF n = 0 THEN First(c) ELSE w[n - 1] \o PolicyLines(c.access[n])
RenderSteps(w, c, m) == w = [n \in 0..m |-> RenderStep(w, c, n)]

(* The lines up to each policy. *)
Renders(f, c) ==
  /\ f \in [0..Len(c.access) -> Seq(Line)]
  /\ f[0] = First(c)
  /\ \A n \in 1..Len(c.access) : f[n] = f[n - 1] \o PolicyLines(c.access[n])
  /\ Rendered(c) = f[Len(c.access)]

(* One line declares a policy, and one may say whom it trusts. *)
LEMMA LinesAre ==
  ASSUME NEW policy \in Policies
  PROVE  LET line == [node |-> "access", keychain |-> policy.keychain,
                      mode |-> policy.mode, default |-> policy.default]
             trust == [node |-> "trust", keychain |-> policy.keychain, apps |-> policy.trust]
         IN  /\ line \in Line /\ trust \in Line
             /\ PolicyLines(policy) \in Seq(Line)
             /\ \A s \in Seq(Line) :
                  s \o PolicyLines(policy) =
                    IF policy.trust = {} THEN Append(s, line)
                    ELSE Append(Append(s, line), trust)
<1> DEFINE line == [node |-> "access", keychain |-> policy.keychain,
                    mode |-> policy.mode, default |-> policy.default]
           trust == [node |-> "trust", keychain |-> policy.keychain, apps |-> policy.trust]
<1>1. line \in Line /\ trust \in Line
  BY DEF Line, Policies
<1>2. PolicyLines(policy) = <<line>> \o (IF policy.trust = {} THEN <<>> ELSE <<trust>>)
  BY DEF PolicyLines
<1> HIDE DEF line, trust
<1>3. /\ <<line>> \in Seq(Line) /\ <<trust>> \in Seq(Line) /\ <<line, trust>> \in Seq(Line)
      /\ <<line>> \o <<>> = <<line>> /\ <<line>> \o <<trust>> = <<line, trust>>
  <2>1. <<line>> \in Seq(Line) /\ <<trust>> \in Seq(Line)
    BY <1>1
  <2>2. <<line, trust>> \in Seq(Line)
    BY <1>1
  <2>3. <<line>> \o <<>> = <<line>>
    BY <2>1
  <2>4. <<line>> \o <<trust>> = Append(<<line>>, trust)
    BY <2>1
  <2>5. Append(<<line>>, trust) = <<line, trust>>
    <3> DEFINE a == Append(<<line>>, trust)
               b == <<line, trust>>
    <3>1. a \in Seq(Line) /\ Len(a) = 2 /\ a[1] = line /\ a[2] = trust
      BY <1>1, <2>1
    <3>2. b \in Seq(Line) /\ Len(b) = 2 /\ b[1] = line /\ b[2] = trust
      BY <2>2
    <3> HIDE DEF a, b
    <3>3. a = b
      BY <3>1, <3>2
    <3> QED
      BY <3>3 DEF a, b
  <2> QED
    BY <2>1, <2>2, <2>3, <2>4, <2>5
<1>4. PolicyLines(policy) = IF policy.trust = {} THEN <<line>> ELSE <<line, trust>>
  BY <1>2, <1>3
<1>5. \A s \in Seq(Line) : s \o <<line>> = Append(s, line)
  BY <1>1
<1>6. \A s \in Seq(Line) : s \o <<line, trust>> = Append(Append(s, line), trust)
  BY <1>1
<1> QED
  BY <1>1, <1>3, <1>4, <1>5, <1>6 DEF line, trust

(* Rendered is the last of it. *)
LEMMA RenderedIs ==
  ASSUME NEW c \in Configs
  PROVE  \E f : Renders(f, c)
<1> DEFINE m == Len(c.access)
           A == Seq(Line)
           base == First(c)
           next == [p \in (1..m) \X A |-> p[2] \o PolicyLines(c.access[p[1]])]
<1>1. m \in Nat /\ \A n \in 1..m : c.access[n] \in Policies
  <2>1. c.access \in Seq(Policies)
    BY ConfigIs
  <2> QED
    BY <2>1
<1>2. base \in A
  BY FirstIs
<1>3. \A n \in 1..m, t \in A : t \o PolicyLines(c.access[n]) \in A
  <2> TAKE n \in 1..m, t \in A
  <2>1. PolicyLines(c.access[n]) \in Seq(Line)
    BY <1>1, LinesAre
  <2> QED
    BY <2>1
<1>4. /\ next \in [(1..m) \X A -> A]
      /\ \A n \in 1..m, t \in A : next[<<n, t>>] = t \o PolicyLines(c.access[n])
  <2> HIDE DEF A, m
  <2> QED
    BY <1>3
<1> HIDE DEF base, next, A, m
<1>5. PICK f : Recurs(f, A, base, m, next)
  BY <1>1, <1>2, <1>4, Recursion
<1>6. /\ f \in [0..m -> A] /\ f[0] = base
      /\ \A n \in 1..m : f[n] = next[<<n, f[n - 1]>>]
  BY <1>5 DEF Recurs
<1>7. \A n \in 1..m : n - 1 \in 0..m /\ n \in 0..m /\ n # 0 /\ f[n - 1] \in A
  BY <1>1, <1>6
<1>8. \A n \in 1..m : f[n] = f[n - 1] \o PolicyLines(c.access[n])
  BY <1>4, <1>6, <1>7
<1>9. RenderSteps(f, c, m)
  <2>1. \A n \in 0..m : n = 0 \/ (n \in 1..m /\ n # 0)
    BY <1>1
  <2>2. \A n \in 0..m : f[n] = RenderStep(f, c, n)
    BY <1>6, <1>8, <2>1, Zenon DEF RenderStep, base
  <2> QED
    BY <1>6, <2>2 DEF RenderSteps
<1> DEFINE it == CHOOSE w : RenderSteps(w, c, m)
<1>10. Rendered(c) = it[m]
  BY DEF Rendered, RenderSteps, RenderStep, First, m
<1>11. RenderSteps(it, c, m)
  BY <1>9
<1> HIDE DEF it
<1>12. \A n \in 0..m : it[n] = RenderStep(it, c, n)
  BY <1>11 DEF RenderSteps
<1> DEFINE T == {n \in 0..m : it[n] = f[n]}
<1>13. 0 \in T
  <2>1. 0 \in 0..m /\ it[0] = base
    BY <1>1, <1>12 DEF RenderStep, base
  <2> QED
    BY <1>6, <2>1
<1>14. \A n \in 1..m : n - 1 \in T => n \in T
  <2> TAKE n \in 1..m
  <2> HAVE n - 1 \in T
  <2>1. it[n] = it[n - 1] \o PolicyLines(c.access[n])
    BY <1>7, <1>12, Zenon DEF RenderStep
  <2>2. it[n - 1] = f[n - 1]
    OBVIOUS
  <2>3. it[n] = f[n]
    BY <1>8, <2>1, <2>2, Zenon
  <2> QED
    BY <1>7, <2>3
<1>15. 0..m \subseteq T
  <2> HIDE DEF T
  <2> QED
    BY <1>1, <1>13, <1>14, Climb
<1>16. it[m] = f[m]
  BY <1>1, <1>15
<1> QED
  BY <1>6, <1>8, <1>10, <1>16 DEF Renders, A, m, base

(* The lines of a policy that is not declared yet append it, with its applications. *)
LEMMA PolicyRead ==
  ASSUME NEW login \in Selectors, NEW s \in Seq(Line), NEW d \in Configs,
         Parsed(login, s) = d, NEW policy \in Policies,
         Legible(policy.keychain), LegibleApps(policy.trust), ~Declared(d, policy.keychain)
  PROVE  Parsed(login, s \o PolicyLines(policy))
           = [default |-> d.default, search |-> d.search, access |-> Append(d.access, policy)]
<1> DEFINE k == policy.keychain
           line == [node |-> "access", keychain |-> k, mode |-> policy.mode,
                    default |-> policy.default]
           apps == [node |-> "trust", keychain |-> k, apps |-> policy.trust]
           bare == Bare(k, policy.mode, policy.default)
           e == [default |-> d.default, search |-> d.search, access |-> Append(d.access, bare)]
<1>1. /\ k \in Selectors /\ policy.mode \in Modes /\ policy.default \in Defaults
      /\ policy.trust \in SUBSET Apps
      /\ policy = [keychain |-> k, mode |-> policy.mode, default |-> policy.default,
                   trust |-> policy.trust]
      /\ bare.keychain = k /\ bare \in Policies
  BY DEF Policies, Bare
<1>2. line \in Line /\ apps \in Line
      /\ s \o PolicyLines(policy) = IF policy.trust = {} THEN Append(s, line)
                                    ELSE Append(Append(s, line), apps)
  BY LinesAre
<1>3. ParsedLine(d, line) = e /\ e \in Configs
  BY <1>1, AccessRead
<1>4. Parsed(login, Append(s, line)) = e /\ Append(s, line) \in Seq(Line)
  <2> HIDE DEF line, e
  <2> QED
    BY <1>2, <1>3, ParsedMore
<1>5. CASE policy.trust = {}
  <2>1. bare = policy
    BY <1>1, <1>5 DEF Bare
  <2> QED
    BY <1>2, <1>4, <1>5, <2>1
<1>6. CASE policy.trust # {}
  <2> DEFINE t == [i \in DOMAIN e.access |->
                     IF e.access[i].keychain = k THEN Trusting(e.access[i], policy.trust)
                     ELSE e.access[i]]
  <2>1. /\ d.access \in Seq(Policies) /\ e.access = Append(d.access, bare)
    BY ConfigIs
  <2> DEFINE n == Len(d.access)
  <2>2. /\ n \in Nat /\ DOMAIN d.access = 1..n /\ DOMAIN e.access = 1..(n + 1)
        /\ \A i \in 1..n : e.access[i] = d.access[i] /\ i \in 1..(n + 1)
        /\ e.access[n + 1] = bare /\ n + 1 \in 1..(n + 1)
        /\ \A i \in 1..(n + 1) : i = n + 1 \/ i \in 1..n
    BY <1>1, <2>1
  <2>3. Declared(e, k)
    BY <1>1, <2>2 DEF Declared
  <2>4. ParsedLine(e, apps) = [default |-> e.default, search |-> e.search, access |-> t]
    <3> HIDE DEF e, k
    <3> QED
      BY <1>1, <1>3, <2>3, TrustRead DEF k
  <2>5. Trusting(bare, policy.trust) = policy
    BY <1>1 DEF Trusting, Bare
  <2>6. t = Append(d.access, policy)
    <3> DEFINE u == Append(d.access, policy)
    <3>1. /\ DOMAIN u = 1..(n + 1) /\ u = [i \in 1..(n + 1) |-> u[i]]
          /\ \A i \in 1..n : u[i] = d.access[i]
          /\ u[n + 1] = policy
      BY <2>1
    <3>2. \A i \in 1..n : d.access[i].keychain # k
      BY <2>2 DEF Declared
    <3> HIDE DEF u, n, bare, e
    <3>3. \A i \in 1..(n + 1) : t[i] = u[i]
      <4> TAKE i \in 1..(n + 1)
      <4>1. CASE i = n + 1
        BY <1>1, <2>2, <2>5, <3>1, <4>1
      <4>2. CASE i \in 1..n
        BY <2>2, <3>1, <3>2, <4>2
      <4> QED
        BY <2>2, <4>1, <4>2
    <3>4. t = [i \in 1..(n + 1) |-> t[i]]
      BY <2>2
    <3> HIDE DEF t
    <3>5. t = u
      BY <3>1, <3>3, <3>4
    <3> QED
      BY <3>5 DEF u
  <2> HIDE DEF t
  <2>7. Parsed(login, Append(Append(s, line), apps)) = ParsedLine(e, apps)
    <3> HIDE DEF line, apps, e
    <3> QED
      BY <1>2, <1>4, ParsedMore
  <2> QED
    BY <1>2, <1>6, <2>4, <2>6, <2>7
<1> QED
  BY <1>5, <1>6

(* A configuration that is worded well is read back as it was written: `parse' of  *)
(* `Config::render' (test configuration_round_trips does it for one).              *)
THEOREM ConfigRoundTrip ==
  ASSUME NEW c \in Configs, Worded(c), NEW login \in Selectors
  PROVE  Parsed(login, Rendered(c)) = c
<1> DEFINE m == Len(c.access)
           D(n) == [default |-> c.default, search |-> c.search,
                    access |-> SubSeq(c.access, 1, n)]
<1>1. PICK f : Renders(f, c)
  BY RenderedIs
<1>2. /\ f \in [0..m -> Seq(Line)] /\ f[0] = First(c) /\ Rendered(c) = f[m]
      /\ \A n \in 1..m : f[n] = f[n - 1] \o PolicyLines(c.access[n])
  BY <1>1 DEF Renders
<1>3. /\ c.access \in Seq(Policies) /\ c.search \in Seq(Dirs) /\ c.default \in Selectors
      /\ c = [default |-> c.default, search |-> c.search, access |-> c.access]
  BY ConfigIs
<1>4. m \in Nat /\ DOMAIN c.access = 1..m /\ \A n \in 1..m : c.access[n] \in Policies
  BY <1>3
<1> DEFINE T == {n \in 0..m : Parsed(login, f[n]) = D(n)}
<1>5. 0 \in T
  <2>1. SubSeq(c.access, 1, 0) = <<>> /\ 0 \in 0..m
    BY <1>3, <1>4
  <2> QED
    BY <1>2, <2>1, FirstRead
<1>6. \A n \in 1..m : n - 1 \in T => n \in T
  <2> TAKE n \in 1..m
  <2> HAVE n - 1 \in T
  <2> DEFINE d == D(n - 1)
             policy == c.access[n]
  <2>1. n - 1 \in 0..m /\ n \in 0..m /\ f[n - 1] \in Seq(Line) /\ Parsed(login, f[n - 1]) = d
    BY <1>2, <1>4
  <2>2. /\ SubSeq(c.access, 1, n - 1) \in Seq(Policies) /\ policy \in Policies
        /\ SubSeq(c.access, 1, n) = Append(SubSeq(c.access, 1, n - 1), policy)
    BY <1>3, Longer
  <2>3. /\ d \in Configs /\ d.default = c.default /\ d.search = c.search
        /\ d.access = SubSeq(c.access, 1, n - 1)
    BY <1>3, <2>2 DEF Configs
  <2>4. Legible(policy.keychain) /\ LegibleApps(policy.trust)
    BY <1>4 DEF Worded
  <2>5. ~Declared(d, policy.keychain)
    <3>1. /\ Len(d.access) = n - 1 /\ DOMAIN d.access = 1..(n - 1)
          /\ \A i \in 1..(n - 1) : d.access[i] = c.access[i] /\ i \in 1..m /\ i # n
      BY <1>3, <1>4, <2>3
    <3> QED
      BY <1>4, <3>1 DEF Declared, Worded
  <2> HIDE DEF d, policy
  <2>6. Parsed(login, f[n - 1] \o PolicyLines(policy))
          = [default |-> d.default, search |-> d.search, access |-> Append(d.access, policy)]
    BY <2>1, <2>2, <2>3, <2>4, <2>5, PolicyRead
  <2>7. f[n] = f[n - 1] \o PolicyLines(policy)
    BY <1>2 DEF policy
  <2>8. Parsed(login, f[n]) = D(n)
    BY <2>2, <2>3, <2>6, <2>7
  <2> QED
    BY <2>1, <2>8
<1>7. m \in T
  <2> HIDE DEF T, m
  <2>1. 0..m \subseteq T
    BY <1>4, <1>5, <1>6, Climb
  <2> QED
    BY <1>4, <2>1
<1>8. SubSeq(c.access, 1, m) = c.access
  BY <1>3
<1> QED
  BY <1>2, <1>3, <1>7, <1>8

(* A new policy keeps a configuration worded well, if its own text is. *)
LEMMA SetPolicyWorded ==
  ASSUME NEW c \in Configs, Worded(c), NEW policy \in Policies,
         Legible(policy.keychain), LegibleApps(policy.trust)
  PROVE  Worded(SetPolicy(c, policy))
<1> DEFINE d == SetPolicy(c, policy)
           k == policy.keychain
           n == Len(c.access)
<1>1. c.access \in Seq(Policies) /\ n \in Nat /\ DOMAIN c.access = 1..n
  BY ConfigIs
<1>2. d.default = c.default /\ d.search = c.search
  BY ConfigIs DEF SetPolicy
<1>3. d.access = IF Declared(c, k)
                 THEN [i \in DOMAIN c.access |->
                          IF c.access[i].keychain = k THEN policy ELSE c.access[i]]
                 ELSE Append(c.access, policy)
  BY SetPolicyIs
<1> HIDE DEF d
<1>4. /\ Legible(c.default)
      /\ \A i \in DOMAIN c.search : c.search[i] \notin Blank
      /\ \A i \in 1..n : Legible(c.access[i].keychain) /\ LegibleApps(c.access[i].trust)
      /\ \A i, j \in 1..n : c.access[i].keychain = c.access[j].keychain => i = j
  BY <1>1 DEF Worded
<1>5. CASE Declared(c, k)
  <2>1. /\ DOMAIN d.access = 1..n
        /\ \A i \in 1..n :
              /\ d.access[i].keychain = c.access[i].keychain
              /\ d.access[i] = c.access[i] \/ d.access[i] = policy
    BY <1>1, <1>3, <1>5
  <2> QED
    BY <1>2, <1>4, <2>1 DEF Worded, d
<1>6. CASE ~Declared(c, k)
  <2>1. /\ DOMAIN d.access = 1..(n + 1) /\ d.access[n + 1] = policy
        /\ \A i \in 1..n : d.access[i] = c.access[i]
        /\ \A i \in 1..(n + 1) : i = n + 1 \/ i \in 1..n
    BY <1>1, <1>3, <1>6
  <2>2. \A i \in 1..n : c.access[i].keychain # k
    BY <1>1, <1>6 DEF Declared
  <2> QED
    BY <1>2, <1>4, <2>1, <2>2 DEF Worded, d
<1> QED
  BY <1>5, <1>6

(* Taking policies away does too. *)
LEMMA ClearPolicyWorded ==
  ASSUME NEW c \in Configs, Worded(c), NEW keychain
  PROVE  Worded(ClearPolicy(c, keychain))
<1> DEFINE P == {policy \in Policies : policy.keychain # keychain}
           t == Kept(c.access, P)
           R == {p \in Policies \X Policies : p[1].keychain # p[2].keychain}
<1>1. c.access \in Seq(Policies) /\ DOMAIN c.access = 1..Len(c.access)
  BY ConfigIs
<1>2. ClearPolicy(c, keychain) = [c EXCEPT !.access = t]
  BY Zenon DEF ClearPolicy
<1>3. \A i, j \in 1..Len(c.access) : i < j => <<c.access[i], c.access[j]>> \in R
  BY <1>1 DEF Worded
<1>4. /\ t \in Seq(Policies)
      /\ ToSet(t) = ToSet(c.access) \cap P
      /\ \A i, j \in 1..Len(t) : i < j => <<t[i], t[j]>> \in R
  <2> HIDE DEF P, R
  <2> QED
    BY <1>1, <1>3, KeptHas
<1> HIDE DEF t
<1>5. /\ ClearPolicy(c, keychain).default = c.default
      /\ ClearPolicy(c, keychain).search = c.search
      /\ ClearPolicy(c, keychain).access = t
  BY <1>2, ConfigIs
<1>6. DOMAIN t = 1..Len(t) /\ Len(t) \in Nat
  BY <1>4
<1>7. \A i \in DOMAIN t : Legible(t[i].keychain) /\ LegibleApps(t[i].trust)
  <2> TAKE i \in DOMAIN t
  <2>1. t[i] \in ToSet(c.access)
    BY <1>4 DEF ToSet
  <2> QED
    BY <2>1 DEF ToSet, Worded
<1>8. \A i, j \in DOMAIN t : t[i].keychain = t[j].keychain => i = j
  <2> TAKE i, j \in DOMAIN t
  <2>1. i = j \/ i < j \/ j < i
    BY <1>6
  <2> QED
    BY <1>4, <1>6, <2>1
<1> QED
  BY <1>5, <1>7, <1>8 DEF Worded

(* A bare name and the file that it means are written alike. *)
LEMMA ResolveLegible ==
  ASSUME NEW c \in Configs, NEW s \in Selectors, Legible(s), Dirs \cap Odd = {}, NEW e
  PROVE  Legible(Resolve(c, s, e))
<1>1. CASE s \in Paths
  BY <1>1 DEF Resolve
<1>2. CASE s \notin Paths
  <2>1. s \in Names /\ s \notin Odd \cup Blank
    BY <1>2 DEF Selectors, Legible
  <2>2. Resolve(c, s, e).name = s
    BY <1>2 DEF Resolve, Locate
  <2>3. Resolve(c, s, e) \in Paths /\ Resolve(c, s, e).dir \in Dirs
    BY ResolveType DEF Paths
  <2>4. Resolve(c, s, e) \notin Names
    BY <2>3, ConfigAssumption
  <2> QED
    BY <2>1, <2>2, <2>3, <2>4 DEF Legible
<1> QED
  BY <1>1, <1>2
=================================================================================
