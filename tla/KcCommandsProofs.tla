---------------------------- MODULE KcCommandsProofs ----------------------------
(***************************************************************************)
(* Proofs about KcCommands, for any processes, keychains and commands: the *)
(* types, that the policy a user gave a keychain is the one in force, that *)
(* secrets leave by it, and that an audit finds what the writers did.      *)
(***************************************************************************)
EXTENDS KcCommands, KcConfigProofs

------------------------------------------------------------------------------
(* The steps that are left. *)

(* The steps after the first are the others. *)
LEMMA TailOf ==
  ASSUME NEW S, NEW s \in Seq(S), s # <<>>
  PROVE  /\ Tail(s) \in Seq(S)
         /\ \A e : (\E i \in DOMAIN s : s[i] = e) <=>
                      Head(s) = e \/ \E i \in DOMAIN Tail(s) : Tail(s)[i] = e
<1>1. DOMAIN s = 1..Len(s) /\ Len(s) \in Nat /\ Len(s) >= 1
  OBVIOUS
<1>2. /\ Tail(s) \in Seq(S)
      /\ DOMAIN Tail(s) = 1..(Len(s) - 1)
      /\ \A i \in 1..(Len(s) - 1) : Tail(s)[i] = s[i + 1]
      /\ Head(s) = s[1]
  BY <1>1
<1>3. ASSUME NEW e, NEW i \in DOMAIN s, s[i] = e
      PROVE  Head(s) = e \/ \E j \in DOMAIN Tail(s) : Tail(s)[j] = e
  <2>1. CASE i = 1
    BY <1>2, <1>3, <2>1
  <2>2. CASE i # 1
    <3>1. i - 1 \in 1..(Len(s) - 1) /\ s[(i - 1) + 1] = e
      BY <1>1, <1>3, <2>2
    <3> QED
      BY <1>2, <3>1
  <2> QED
    BY <2>1, <2>2
<1>4. ASSUME NEW e, NEW j \in DOMAIN Tail(s), Tail(s)[j] = e
      PROVE  \E i \in DOMAIN s : s[i] = e
  <2>1. j + 1 \in DOMAIN s /\ s[j + 1] = e
    BY <1>1, <1>2, <1>4
  <2> QED
    BY <2>1
<1>5. Head(s) = s[1] /\ 1 \in DOMAIN s
  BY <1>1, <1>2
<1> QED
  BY <1>2, <1>3, <1>4, <1>5

(* What follows from the next step of a command, and what remains after it. *)
LEMMA Onward ==
  ASSUME NEW o, NEW t, <<o, t>> \in Remaining
  PROVE  /\ t \in Seq(Steps) /\ t # <<>> /\ o \in Ops
         /\ Tail(t) = <<>> \/ <<o, Tail(t)>> \in Remaining
         /\ Head(t) \in {"config", "save", "print"} => Tail(t) = <<>>
         /\ Head(t) = "config" <=> t = <<"config">>
         /\ Head(t) = "create" => o = "create" /\ Tail(t) \in {<<>>, <<"config">>}
         /\ o \in Editing <=> Head(t) \in {"config", "create"}
         /\ Head(t) = "save" <=> t = <<"save">>
         /\ Head(t) = "save" => o \in {"apply", "add", "trust", "cp", "edit", "rm"}
         /\ Head(t) = "choose" => o \in {"add", "cp"}
         /\ Head(t) = "open-dest" => o = "cp" /\ t = <<"open-dest", "save">>
         /\ Head(t) = "find" =>
               /\ o = "cp"
               /\ t = <<"find", "choose", "open", "authorize", "open-dest", "save">>
         /\ Head(t) \in {"find", "choose", "open", "open-dest", "authorize"} => Tail(t) # <<>>
         /\ Tail(t) # <<>> => Head(Tail(t)) # "find"
<1>0. \/ o \in {"config", "set", "clear", "create"} /\ t = <<"config">>
      \/ o \in {"create"} /\ t = <<"create">>
      \/ o \in {"create"} /\ t = <<"create", "config">>
      \/ o \in {"apply", "add", "trust", "cp", "edit", "rm"} /\ t = <<"save">>
      \/ o \in {"apply", "add", "trust", "edit", "rm"} /\ t = <<"open", "save">>
      \/ o \in {"add"} /\ t = <<"choose", "open", "save">>
      \/ o \in {"edit"} /\ t = <<"open", "authorize", "save">>
      \/ o \in {"edit"} /\ t = <<"authorize", "save">>
      \/ o \in {"get"} /\ t = <<"open", "authorize", "print">>
      \/ o \in {"get"} /\ t = <<"authorize", "print">>
      \/ o \in {"get"} /\ t = <<"print">>
      \/ o \in {"get"} /\ t = <<"authorize", "open", "print">>
      \/ o \in {"get"} /\ t = <<"open", "print">>
      \/ o \in {"cp"} /\ t = <<"find", "choose", "open", "authorize", "open-dest", "save">>
      \/ o \in {"cp"} /\ t = <<"choose", "open", "authorize", "open-dest", "save">>
      \/ o \in {"cp"} /\ t = <<"open", "authorize", "open-dest", "save">>
      \/ o \in {"cp"} /\ t = <<"authorize", "open-dest", "save">>
      \/ o \in {"cp"} /\ t = <<"open-dest", "save">>
  BY DEF Remaining, AddOrder, SecretOrder, GetOrder, VerifyOrder, CopyOrder
<1>1. CASE o \in {"config", "set", "clear", "create"} /\ t = <<"config">>
  <2>1. Head(t) = "config" /\ Tail(t) = <<>>
    BY <1>1
  <2>2. t \in Seq(Steps) /\ t # <<>>
    BY <1>1 DEF Steps
  <2> QED
    BY <1>1, <2>1, <2>2 DEF Ops, Editing
<1>2. CASE o \in {"create"} /\ t = <<"create">>
  <2>1. Head(t) = "create" /\ Tail(t) = <<>>
    BY <1>2
  <2>2. t \in Seq(Steps) /\ t # <<>>
    BY <1>2 DEF Steps
  <2> QED
    BY <1>2, <2>1, <2>2 DEF Ops, Editing
<1>3. CASE o \in {"create"} /\ t = <<"create", "config">>
  <2>1. Head(t) = "create" /\ Tail(t) = <<"config">>
    BY <1>3
  <2>2. t \in Seq(Steps) /\ t # <<>>
    BY <1>3 DEF Steps
  <2>3. <<o, Tail(t)>> \in Remaining /\ Tail(t) # <<>>
    BY <1>3, <2>1 DEF Remaining
  <2> QED
    BY <1>3, <2>1, <2>2, <2>3 DEF Ops, Editing
<1>4. CASE o \in {"apply", "add", "trust", "cp", "edit", "rm"} /\ t = <<"save">>
  <2>1. Head(t) = "save" /\ Tail(t) = <<>>
    BY <1>4
  <2>2. t \in Seq(Steps) /\ t # <<>>
    BY <1>4 DEF Steps
  <2> QED
    BY <1>4, <2>1, <2>2 DEF Ops, Editing
<1>5. CASE o \in {"apply", "add", "trust", "edit", "rm"} /\ t = <<"open", "save">>
  <2>1. Head(t) = "open" /\ Tail(t) = <<"save">>
    BY <1>5
  <2>2. t \in Seq(Steps) /\ t # <<>>
    BY <1>5 DEF Steps
  <2>3. <<o, Tail(t)>> \in Remaining /\ Tail(t) # <<>>
    BY <1>5, <2>1 DEF Remaining
  <2> QED
    BY <1>5, <2>1, <2>2, <2>3 DEF Ops, Editing
<1>6. CASE o \in {"add"} /\ t = <<"choose", "open", "save">>
  <2>1. Head(t) = "choose" /\ Tail(t) = <<"open", "save">>
    BY <1>6
  <2>2. t \in Seq(Steps) /\ t # <<>>
    BY <1>6 DEF Steps
  <2>3. <<o, Tail(t)>> \in Remaining /\ Tail(t) # <<>>
    BY <1>6, <2>1 DEF Remaining
  <2> QED
    BY <1>6, <2>1, <2>2, <2>3 DEF Ops, Editing
<1>7. CASE o \in {"edit"} /\ t = <<"open", "authorize", "save">>
  <2>1. Head(t) = "open" /\ Tail(t) = <<"authorize", "save">>
    BY <1>7
  <2>2. t \in Seq(Steps) /\ t # <<>>
    BY <1>7 DEF Steps
  <2>3. <<o, Tail(t)>> \in Remaining /\ Tail(t) # <<>>
    BY <1>7, <2>1 DEF Remaining
  <2> QED
    BY <1>7, <2>1, <2>2, <2>3 DEF Ops, Editing
<1>8. CASE o \in {"edit"} /\ t = <<"authorize", "save">>
  <2>1. Head(t) = "authorize" /\ Tail(t) = <<"save">>
    BY <1>8
  <2>2. t \in Seq(Steps) /\ t # <<>>
    BY <1>8 DEF Steps
  <2>3. <<o, Tail(t)>> \in Remaining /\ Tail(t) # <<>>
    BY <1>8, <2>1 DEF Remaining
  <2> QED
    BY <1>8, <2>1, <2>2, <2>3 DEF Ops, Editing
<1>9. CASE o \in {"get"} /\ t = <<"open", "authorize", "print">>
  <2>1. Head(t) = "open" /\ Tail(t) = <<"authorize", "print">>
    BY <1>9
  <2>2. t \in Seq(Steps) /\ t # <<>>
    BY <1>9 DEF Steps
  <2>3. <<o, Tail(t)>> \in Remaining /\ Tail(t) # <<>>
    BY <1>9, <2>1 DEF Remaining
  <2> QED
    BY <1>9, <2>1, <2>2, <2>3 DEF Ops, Editing
<1>10. CASE o \in {"get"} /\ t = <<"authorize", "print">>
  <2>1. Head(t) = "authorize" /\ Tail(t) = <<"print">>
    BY <1>10
  <2>2. t \in Seq(Steps) /\ t # <<>>
    BY <1>10 DEF Steps
  <2>3. <<o, Tail(t)>> \in Remaining /\ Tail(t) # <<>>
    BY <1>10, <2>1 DEF Remaining
  <2> QED
    BY <1>10, <2>1, <2>2, <2>3 DEF Ops, Editing
<1>11. CASE o \in {"get"} /\ t = <<"print">>
  <2>1. Head(t) = "print" /\ Tail(t) = <<>>
    BY <1>11
  <2>2. t \in Seq(Steps) /\ t # <<>>
    BY <1>11 DEF Steps
  <2> QED
    BY <1>11, <2>1, <2>2 DEF Ops, Editing
<1>12. CASE o \in {"get"} /\ t = <<"authorize", "open", "print">>
  <2>1. Head(t) = "authorize" /\ Tail(t) = <<"open", "print">>
    BY <1>12
  <2>2. t \in Seq(Steps) /\ t # <<>>
    BY <1>12 DEF Steps
  <2>3. <<o, Tail(t)>> \in Remaining /\ Tail(t) # <<>>
    BY <1>12, <2>1 DEF Remaining
  <2> QED
    BY <1>12, <2>1, <2>2, <2>3 DEF Ops, Editing
<1>13. CASE o \in {"get"} /\ t = <<"open", "print">>
  <2>1. Head(t) = "open" /\ Tail(t) = <<"print">>
    BY <1>13
  <2>2. t \in Seq(Steps) /\ t # <<>>
    BY <1>13 DEF Steps
  <2>3. <<o, Tail(t)>> \in Remaining /\ Tail(t) # <<>>
    BY <1>13, <2>1 DEF Remaining
  <2> QED
    BY <1>13, <2>1, <2>2, <2>3 DEF Ops, Editing
<1>14. CASE o \in {"cp"} /\ t = <<"choose", "open", "authorize", "open-dest", "save">>
  <2>1. Head(t) = "choose" /\ Tail(t) = <<"open", "authorize", "open-dest", "save">>
    BY <1>14
  <2>2. t \in Seq(Steps) /\ t # <<>>
    BY <1>14 DEF Steps
  <2>3. <<o, Tail(t)>> \in Remaining /\ Tail(t) # <<>>
    BY <1>14, <2>1 DEF Remaining
  <2> QED
    BY <1>14, <2>1, <2>2, <2>3 DEF Ops, Editing
<1>15. CASE o \in {"cp"} /\ t = <<"open", "authorize", "open-dest", "save">>
  <2>1. Head(t) = "open" /\ Tail(t) = <<"authorize", "open-dest", "save">>
    BY <1>15
  <2>2. t \in Seq(Steps) /\ t # <<>>
    BY <1>15 DEF Steps
  <2>3. <<o, Tail(t)>> \in Remaining /\ Tail(t) # <<>>
    BY <1>15, <2>1 DEF Remaining
  <2> QED
    BY <1>15, <2>1, <2>2, <2>3 DEF Ops, Editing
<1>16. CASE o \in {"cp"} /\ t = <<"authorize", "open-dest", "save">>
  <2>1. Head(t) = "authorize" /\ Tail(t) = <<"open-dest", "save">>
    BY <1>16
  <2>2. t \in Seq(Steps) /\ t # <<>>
    BY <1>16 DEF Steps
  <2>3. <<o, Tail(t)>> \in Remaining /\ Tail(t) # <<>>
    BY <1>16, <2>1 DEF Remaining
  <2> QED
    BY <1>16, <2>1, <2>2, <2>3 DEF Ops, Editing
<1>17. CASE o \in {"cp"} /\ t = <<"open-dest", "save">>
  <2>1. Head(t) = "open-dest" /\ Tail(t) = <<"save">>
    BY <1>17
  <2>2. t \in Seq(Steps) /\ t # <<>>
    BY <1>17 DEF Steps
  <2>3. <<o, Tail(t)>> \in Remaining /\ Tail(t) # <<>>
    BY <1>17, <2>1 DEF Remaining
  <2> QED
    BY <1>17, <2>1, <2>2, <2>3 DEF Ops, Editing
<1>18. CASE o \in {"cp"} /\ t = <<"find", "choose", "open", "authorize", "open-dest", "save">>
  <2>1. Head(t) = "find" /\ Tail(t) = <<"choose", "open", "authorize", "open-dest", "save">>
    BY <1>18
  <2>2. t \in Seq(Steps) /\ t # <<>>
    BY <1>18 DEF Steps
  <2>3. <<o, Tail(t)>> \in Remaining /\ Tail(t) # <<>>
    BY <1>18, <2>1 DEF Remaining
  <2> QED
    BY <1>18, <2>1, <2>2, <2>3 DEF Ops, Editing
<1> QED
  BY <1>0, <1>1, <1>2, <1>3, <1>4, <1>5, <1>6, <1>7, <1>8, <1>9, <1>10, <1>11,
     <1>12, <1>13, <1>14, <1>15, <1>16, <1>17, <1>18

------------------------------------------------------------------------------
(* The shape of a state. *)

(* Shape's part about one process. *)
Sound(p) ==
  at[p] # <<>> =>
    /\ <<op[p], at[p]>> \in Remaining
    /\ op[p] # "config" => path[p] \in Paths
    /\ op[p] = "cp" /\ Head(at[p]) # "find" => dest[p] \in Paths
    /\ op[p] \in Editing => mine[p] # None /\ draft[p] # None
    /\ op[p] \notin Editing /\ ~Awaits(p, "open") => copy[p] # None /\ files[path[p]] # None
    /\ op[p] = "cp" /\ ~Awaits(p, "open-dest") => dest[p] \in Existing
    /\ op[p] \in {"add", "cp"} /\ ~Awaits(p, "choose") => access[p] # None
    /\ op[p] = "apply" => access[p] # None

(* Shape, process by process, now and after a step. *)
LEMMA ShapeIs == Shape <=> TypeOK /\ \A p \in Procs : Sound(p)
BY DEF Shape, Sound, InOrder, Placed, Ready, Running

(* The same of the state after a step. *)
LEMMA ShapeNext == Shape' <=> TypeOK' /\ \A p \in Procs : Sound(p)'
BY DEF Shape, Sound, InOrder, Placed, Ready, Running

(* What one process knows stays as it is. *)
Same(q) ==
  /\ op'[q] = op[q] /\ at'[q] = at[q] /\ path'[q] = path[q] /\ dest'[q] = dest[q]
  /\ asked'[q] = asked[q] /\ mine'[q] = mine[q] /\ draft'[q] = draft[q]
  /\ given'[q] = given[q] /\ copy'[q] = copy[q] /\ named'[q] = named[q]
  /\ access'[q] = access[q] /\ leave'[q] = leave[q]

(* No keychain goes away. *)
Lasting == \A f \in Paths : files[f] # None => files'[f] # None

(* It remains sound while the others only add keychains. *)
LEMMA SameSound ==
  ASSUME NEW q \in Procs, Sound(q), Same(q), Lasting
  PROVE  Sound(q)'
<1>1. at'[q] = at[q] /\ op'[q] = op[q] /\ path'[q] = path[q] /\ dest'[q] = dest[q]
  BY DEF Same
<1>2. /\ mine'[q] = mine[q] /\ draft'[q] = draft[q] /\ copy'[q] = copy[q]
      /\ access'[q] = access[q]
  BY DEF Same
<1>3. \A s : Awaits(q, s)' <=> Awaits(q, s)
  BY <1>1 DEF Awaits
<1> SUFFICES ASSUME at[q] # <<>> PROVE Sound(q)'
  BY <1>1 DEF Sound
<1>4. op[q] # "config" => path[q] \in Paths
  BY DEF Sound
<1>5. op[q] = "cp" /\ Head(at[q]) # "find" => dest[q] \in Paths
  BY DEF Sound
<1>6. op[q] \notin Editing /\ ~Awaits(q, "open") => copy[q] # None /\ files[path[q]] # None
  BY DEF Sound
<1>7. op[q] \notin Editing /\ ~Awaits(q, "open") => files'[path[q]] # None
  BY <1>4, <1>6 DEF Lasting, Editing
<1>8. op[q] = "cp" /\ ~Awaits(q, "open-dest") => dest[q] \in Existing'
  BY DEF Lasting, Sound, Existing
<1> QED
  BY <1>1, <1>2, <1>3, <1>4, <1>5, <1>6, <1>7, <1>8 DEF Sound

(* A process takes the first of the steps that it has left. *)
LEMMA Stepped ==
  ASSUME TypeOK, NEW p \in Procs, Sound(p), NEW step, Step(p, step)
  PROVE  /\ <<op[p], at[p]>> \in Remaining
         /\ at' \in [Procs -> Seq(Steps)]
         /\ \A q \in Procs \ {p} : at'[q] = at[q]
         /\ at'[p] = Tail(at[p])
         /\ Head(at[p]) = step
         /\ \A s : Awaits(p, s) <=> s = step \/ Awaits(p, s)'
<1>1. at[p] \in Seq(Steps) /\ at[p] # <<>> /\ Head(at[p]) = step
  BY DEF TypeOK, Step
<1>2. at \in [Procs -> Seq(Steps)] /\ at' = [at EXCEPT ![p] = Tail(@)]
  BY DEF TypeOK, Step
<1>3. Tail(at[p]) \in Seq(Steps)
  BY <1>1, TailOf
<1>4. at'[p] = Tail(at[p])
  BY <1>2
<1>5. \A s : (\E i \in DOMAIN at[p] : at[p][i] = s) <=>
               Head(at[p]) = s \/ \E i \in DOMAIN Tail(at[p]) : Tail(at[p])[i] = s
  BY <1>1, TailOf
<1>6. \A s : Awaits(p, s) <=> s = step \/ Awaits(p, s)'
  BY <1>1, <1>4, <1>5 DEF Awaits
<1> QED
  BY <1>1, <1>2, <1>3, <1>6 DEF Sound

(* A process that ends leaves nothing behind in its variables. *)
LEMMA Exited ==
  ASSUME TypeOK, NEW p \in Procs, Exit(p)
  PROVE  /\ op' \in [Procs -> Ops \cup {None, "done"}] /\ op'[p] = "done"
         /\ path' \in [Procs -> Paths \cup {None}]
         /\ dest' \in [Procs -> Paths \cup {None}]
         /\ asked' \in [Procs -> Selectors \cup {None}]
         /\ given' \in [Procs -> Policies \cup {None}]
         /\ mine' \in [Procs -> Configs \cup {None}]
         /\ draft' \in [Procs -> Configs \cup {None}]
         /\ copy' \in [Procs -> Contents \cup {None}]
         /\ named' \in [Procs -> SUBSET Apps]
         /\ access' \in [Procs -> Accesses \cup {None}]
         /\ leave' \in [Procs -> {"none", "free", "confirmed"}] /\ leave'[p] = "none"
         /\ \A q \in Procs \ {p} : at'[q] = at[q] => Same(q)
<1>1. ASSUME NEW q \in Procs \ {p}, at'[q] = at[q] PROVE Same(q)
  BY <1>1 DEF TypeOK, Exit, Same
<1> QED
  BY <1>1 DEF TypeOK, Exit

(* A command begins with what it will use. *)
LEMMA BeginShape ==
  ASSUME Shape, NEW p \in Procs, op[p] = None,
         NEW command \in Ops, NEW f \in Paths \cup {None}, NEW g \in Paths \cup {None},
         NEW todo, <<command, todo>> \in Remaining, Begin(p, command, f, g, todo),
         command # "config" => f \in Paths, command = "cp" => Head(todo) = "find",
         asked' \in [Procs -> Selectors \cup {None}], mine' \in [Procs -> Configs \cup {None}],
         draft' \in [Procs -> Configs \cup {None}], given' \in [Procs -> Policies \cup {None}],
         named' \in [Procs -> SUBSET Apps], access' \in [Procs -> Accesses \cup {None}],
         \A q \in Procs \ {p} :
            /\ asked'[q] = asked[q] /\ mine'[q] = mine[q] /\ draft'[q] = draft[q]
            /\ given'[q] = given[q] /\ named'[q] = named[q] /\ access'[q] = access[q],
         command \in Editing => mine'[p] # None /\ draft'[p] # None,
         command \notin Editing => \E i \in DOMAIN todo : todo[i] = "open",
         command = "cp" => \E i \in DOMAIN todo : todo[i] = "open-dest",
         command \in {"add", "cp"} => \E i \in DOMAIN todo : todo[i] = "choose",
         command = "apply" => access'[p] # None
  PROVE  Shape' /\ \A q \in Procs \ {p} : Same(q)
<1>1. TypeOK /\ \A q \in Procs : Sound(q)
  BY ShapeIs
<1>2. /\ op' = [op EXCEPT ![p] = command]
      /\ at' = [at EXCEPT ![p] = todo]
      /\ path' = [path EXCEPT ![p] = f]
      /\ dest' = [dest EXCEPT ![p] = g]
  BY DEF Begin
<1>3. UNCHANGED <<config, files, copy, leave, intent, drift, settled>>
  BY DEF Begin, disk
<1>4. todo \in Seq(Steps)
  BY Onward
<1>5. seen' \in [Procs -> SUBSET [file : Paths, policy : Policies \cup {None}]]
  <2> DEFINE now == {[file |-> h, policy |-> intent[h]] : h \in {f, g} \ {None}}
  <2>1. now \subseteq [file : Paths, policy : Policies \cup {None}]
    BY <1>1 DEF TypeOK
  <2>2. seen' = [seen EXCEPT ![p] = now]
    BY DEF Begin
  <2> HIDE DEF now
  <2> QED
    BY <1>1, <2>1, <2>2 DEF TypeOK
<1>6. TypeOK'
  <2>1. at' \in [Procs -> Seq(Steps)]
    BY <1>1, <1>2, <1>4 DEF TypeOK
  <2>2. /\ op' \in [Procs -> Ops \cup {None, "done"}]
        /\ path' \in [Procs -> Paths \cup {None}]
        /\ dest' \in [Procs -> Paths \cup {None}]
    BY <1>1, <1>2 DEF TypeOK
  <2> QED
    BY <1>1, <1>3, <1>5, <2>1, <2>2 DEF TypeOK
<1>7. \A q \in Procs \ {p} : Same(q)
  BY <1>1, <1>2, <1>3 DEF Same, TypeOK
<1>8. \A q \in Procs \ {p} : Sound(q)'
  BY <1>1, <1>3, <1>7, SameSound DEF Lasting
<1>9. Sound(p)'
  <2>1. op'[p] = command /\ at'[p] = todo /\ path'[p] = f /\ dest'[p] = g
    BY <1>1, <1>2 DEF TypeOK
  <2>2. \A s : Awaits(p, s)' <=> \E i \in DOMAIN todo : todo[i] = s
    BY <2>1 DEF Awaits
  <2> QED
    BY <2>1, <2>2 DEF Sound
<1> QED
  BY <1>6, <1>7, <1>8, <1>9, ShapeNext

(* What a command is asked for is a selector, and its target a path. *)
LEMMA TargetType ==
  ASSUME TypeOK, NEW argument \in Typed
  PROVE  /\ Asked(config, argument) \in Selectors
         /\ Target(argument) \in Paths
         /\ PolicyFor(config, Target(argument), Existing) \in Policies \cup {None}
<1>1. config \in Configs /\ config.default \in Selectors
  BY DEF TypeOK, Configs
<1>2. Asked(config, argument) \in Selectors
  BY <1>1, ConfigAssumption, CommandsAssumption DEF Asked
<1> QED
  BY <1>1, <1>2, ResolveType, PolicyType DEF Target

(* The same of the commands that keep the configuration. *)
LEMMA EditsShape ==
  ASSUME Shape, NEW p \in Procs, op[p] = None,
         NEW command \in Editing, NEW f \in Paths \cup {None}, NEW todo, NEW argument,
         f # None => argument \in Typed, <<command, todo>> \in Remaining,
         command # "config" => f \in Paths,
         NEW edited \in Configs, NEW policy \in Policies \cup {None},
         Edits(p, command, f, todo, argument, edited, policy)
  PROVE  /\ Shape' /\ \A q \in Procs \ {p} : Same(q)
         /\ op'[p] = command /\ at'[p] = todo /\ path'[p] = f /\ dest'[p] = None
         /\ mine'[p] = config /\ draft'[p] = edited /\ given'[p] = policy
         /\ asked'[p] = IF f = None THEN None ELSE Asked(config, argument)
         /\ leave'[p] = leave[p]
         /\ seen' = [seen EXCEPT ![p] =
                        {[file |-> h, policy |-> intent[h]] : h \in {f, None} \ {None}}]
         /\ UNCHANGED <<config, files, intent, drift, settled>>
<1>1. TypeOK
  BY ShapeIs
<1>2. Begin(p, command, f, None, todo)
  BY DEF Edits
<1>3. f # None => Asked(config, argument) \in Selectors
  BY <1>1, TargetType
<1>4. /\ asked' = [asked EXCEPT ![p] = IF f = None THEN None ELSE Asked(config, argument)]
      /\ mine' = [mine EXCEPT ![p] = config]
      /\ draft' = [draft EXCEPT ![p] = edited]
      /\ given' = [given EXCEPT ![p] = policy]
      /\ UNCHANGED <<named, access>>
  BY DEF Edits
<1>5. /\ asked' \in [Procs -> Selectors \cup {None}]
      /\ mine' \in [Procs -> Configs \cup {None}]
      /\ draft' \in [Procs -> Configs \cup {None}]
      /\ given' \in [Procs -> Policies \cup {None}]
      /\ named' \in [Procs -> SUBSET Apps]
      /\ access' \in [Procs -> Accesses \cup {None}]
  BY <1>1, <1>3, <1>4 DEF TypeOK
<1>6. \A q \in Procs \ {p} :
         /\ asked'[q] = asked[q] /\ mine'[q] = mine[q] /\ draft'[q] = draft[q]
         /\ given'[q] = given[q] /\ named'[q] = named[q] /\ access'[q] = access[q]
  BY <1>1, <1>4 DEF TypeOK
<1>7. /\ mine'[p] = config /\ draft'[p] = edited /\ given'[p] = policy
      /\ asked'[p] = IF f = None THEN None ELSE Asked(config, argument)
  BY <1>1, <1>4 DEF TypeOK
<1>8. mine'[p] # None /\ draft'[p] # None
  BY <1>1, <1>7, ConfigAssumption DEF TypeOK
<1>9. /\ command \in Ops /\ command # "cp" /\ command \notin {"add", "cp"} /\ command # "apply"
  BY DEF Editing, Ops
<1>10. Shape' /\ \A q \in Procs \ {p} : Same(q)
  BY <1>2, <1>5, <1>6, <1>8, <1>9, BeginShape
<1>11. /\ op' = [op EXCEPT ![p] = command]
       /\ at' = [at EXCEPT ![p] = todo]
       /\ path' = [path EXCEPT ![p] = f]
       /\ dest' = [dest EXCEPT ![p] = None]
       /\ UNCHANGED <<disk, copy, leave, intent, drift, settled>>
       /\ seen' = [seen EXCEPT ![p] =
                      {[file |-> h, policy |-> intent[h]] : h \in {f, None} \ {None}}]
  BY <1>2 DEF Begin
<1>12. op'[p] = command /\ at'[p] = todo /\ path'[p] = f /\ dest'[p] = None
  BY <1>1, <1>11 DEF TypeOK
<1> QED
  BY <1>7, <1>10, <1>11, <1>12 DEF disk

(* And of the commands on items. *)
LEMMA OnItemsShape ==
  ASSUME Shape, NEW p \in Procs, op[p] = None,
         NEW command \in Ops, NEW f \in Paths, NEW g \in Paths \cup {None},
         NEW apps \in SUBSET Apps, NEW todo, <<command, todo>> \in Remaining,
         command \notin Editing, command # "apply", command = "cp" => Head(todo) = "find",
         \E i \in DOMAIN todo : todo[i] = "open",
         command = "cp" => \E i \in DOMAIN todo : todo[i] = "open-dest",
         command \in {"add", "cp"} => \E i \in DOMAIN todo : todo[i] = "choose",
         OnItems(p, command, f, g, apps, todo)
  PROVE  /\ Shape' /\ \A q \in Procs \ {p} : Same(q)
         /\ op'[p] = command /\ at'[p] = todo /\ path'[p] = f /\ dest'[p] = g
         /\ leave'[p] = leave[p]
         /\ seen' = [seen EXCEPT ![p] =
                        {[file |-> h, policy |-> intent[h]] : h \in {f, g} \ {None}}]
         /\ UNCHANGED <<config, files, intent, drift, settled>>
<1>1. TypeOK
  BY ShapeIs
<1>2. Begin(p, command, f, g, todo)
  BY DEF OnItems
<1>3. /\ named' = [named EXCEPT ![p] = apps]
      /\ UNCHANGED <<asked, mine, draft, given, access>>
  BY DEF OnItems, edits
<1>4. /\ asked' \in [Procs -> Selectors \cup {None}]
      /\ mine' \in [Procs -> Configs \cup {None}]
      /\ draft' \in [Procs -> Configs \cup {None}]
      /\ given' \in [Procs -> Policies \cup {None}]
      /\ named' \in [Procs -> SUBSET Apps]
      /\ access' \in [Procs -> Accesses \cup {None}]
  BY <1>1, <1>3 DEF TypeOK
<1>5. \A q \in Procs \ {p} :
         /\ asked'[q] = asked[q] /\ mine'[q] = mine[q] /\ draft'[q] = draft[q]
         /\ given'[q] = given[q] /\ named'[q] = named[q] /\ access'[q] = access[q]
  BY <1>1, <1>3 DEF TypeOK
<1>6. Shape' /\ \A q \in Procs \ {p} : Same(q)
  BY <1>2, <1>4, <1>5, BeginShape
<1>7. /\ op' = [op EXCEPT ![p] = command]
      /\ at' = [at EXCEPT ![p] = todo]
      /\ path' = [path EXCEPT ![p] = f]
      /\ dest' = [dest EXCEPT ![p] = g]
      /\ UNCHANGED <<disk, copy, leave, intent, drift, settled>>
      /\ seen' = [seen EXCEPT ![p] =
                     {[file |-> h, policy |-> intent[h]] : h \in {f, g} \ {None}}]
  BY <1>2 DEF Begin
<1>8. op'[p] = command /\ at'[p] = todo /\ path'[p] = f /\ dest'[p] = g
  BY <1>1, <1>7 DEF TypeOK
<1> QED
  BY <1>6, <1>7, <1>8 DEF disk

(* Where an order of steps has one of them. *)
LEMMA InTheOrders ==
  /\ <<"add", AddOrder>> \in Remaining /\ <<"add", IdentityOrder>> \in Remaining
  /\ <<"trust", TrustOrder>> \in Remaining /\ <<"cp", CopyOrder>> \in Remaining
  /\ <<"get", GetOrder>> \in Remaining /\ <<"get", ExportOrder>> \in Remaining
  /\ <<"get", VerifyOrder>> \in Remaining
  /\ <<"edit", SecretOrder>> \in Remaining /\ <<"edit", AttributesOrder>> \in Remaining
  /\ <<"edit", PasswdOrder>> \in Remaining /\ <<"edit", SettingsOrder>> \in Remaining
  /\ <<"rm", RemoveOrder>> \in Remaining /\ <<"rm", RemoveIdentityOrder>> \in Remaining
  /\ \A order \in {AddOrder, IdentityOrder, CopyOrder} :
        \E i \in DOMAIN order : order[i] = "choose"
  /\ \A order \in {AddOrder, IdentityOrder, TrustOrder, CopyOrder, GetOrder, ExportOrder,
                   VerifyOrder, SecretOrder, AttributesOrder, PasswdOrder, SettingsOrder,
                   RemoveOrder, RemoveIdentityOrder} :
        \E i \in DOMAIN order : order[i] = "open"
  /\ \E i \in DOMAIN CopyOrder : CopyOrder[i] = "open-dest"
  /\ Head(CopyOrder) = "find"
<1>1. /\ AddOrder[1] = "choose" /\ IdentityOrder[1] = "choose" /\ CopyOrder[2] = "choose"
      /\ 1 \in DOMAIN AddOrder /\ 1 \in DOMAIN IdentityOrder /\ 2 \in DOMAIN CopyOrder
  BY DEF AddOrder, IdentityOrder, CopyOrder
<1>2. /\ \A order \in {AddOrder, IdentityOrder, VerifyOrder} :
            2 \in DOMAIN order /\ order[2] = "open"
      /\ 3 \in DOMAIN CopyOrder /\ CopyOrder[3] = "open"
  BY DEF AddOrder, IdentityOrder, CopyOrder, VerifyOrder
<1>3. \A order \in {TrustOrder, GetOrder, ExportOrder, SecretOrder, AttributesOrder,
                    PasswdOrder, SettingsOrder, RemoveOrder, RemoveIdentityOrder} :
         1 \in DOMAIN order /\ order[1] = "open"
  BY DEF TrustOrder, GetOrder, ExportOrder, SecretOrder, AttributesOrder, PasswdOrder,
         SettingsOrder, RemoveOrder, RemoveIdentityOrder
<1>4. 5 \in DOMAIN CopyOrder /\ CopyOrder[5] = "open-dest" /\ Head(CopyOrder) = "find"
  BY DEF CopyOrder
<1>5. /\ <<"add", AddOrder>> \in Remaining /\ <<"add", IdentityOrder>> \in Remaining
      /\ <<"cp", CopyOrder>> \in Remaining
  BY DEF Remaining, AddOrder, IdentityOrder
<1>6. /\ <<"get", GetOrder>> \in Remaining /\ <<"get", ExportOrder>> \in Remaining
      /\ <<"get", VerifyOrder>> \in Remaining
  BY DEF Remaining, GetOrder, ExportOrder
<1>7. /\ <<"edit", SecretOrder>> \in Remaining /\ <<"edit", AttributesOrder>> \in Remaining
      /\ <<"edit", PasswdOrder>> \in Remaining /\ <<"edit", SettingsOrder>> \in Remaining
  BY DEF Remaining, AttributesOrder, PasswdOrder, SettingsOrder
<1>8. /\ <<"trust", TrustOrder>> \in Remaining /\ <<"rm", RemoveOrder>> \in Remaining
      /\ <<"rm", RemoveIdentityOrder>> \in Remaining
  BY DEF Remaining, TrustOrder, RemoveOrder, RemoveIdentityOrder
<1> QED
  BY <1>1, <1>2, <1>3, <1>4, <1>5, <1>6, <1>7, <1>8

(* What is still to come when the destination is. *)
LEMMA FindOrder ==
  ASSUME NEW o, NEW t, <<o, t>> \in Remaining, Head(t) = "find"
  PROVE  /\ t = CopyOrder
         /\ \E i \in DOMAIN t : t[i] = "choose"
         /\ \E i \in DOMAIN t : t[i] = "open-dest"
<1>1. Head(t) = "find" => t = <<"find", "choose", "open", "authorize", "open-dest", "save">>
  BY Onward
<1> QED
  BY <1>1, InTheOrders DEF CopyOrder

------------------------------------------------------------------------------
(* What each command is. *)

(* `kc config set', `append' and `prepend' keep the policies. *)
LEMMA ConfigureIs ==
  ASSUME TypeOK, NEW p \in Procs, Configure(p)
  PROVE  \E edited \in Configs :
            /\ edited.access = config.access
            /\ edited.default = config.default \/ edited.default \in Typed \ {None}
            /\ Edits(p, "config", None, <<"config">>, None, edited, None)
<1>1. /\ config \in Configs
      /\ config.default \in Selectors
      /\ config.search \in Seq(Dirs)
      /\ config.access \in Seq(Policies)
  BY DEF TypeOK, Configs
<1>2. config = [default |-> config.default, search |-> config.search, access |-> config.access]
  BY <1>1 DEF Configs
<1> DEFINE Saves(edited) == Edits(p, "config", None, <<"config">>, None, edited, None)
<1>3. \/ \E s \in Typed \ {None} : Saves([config EXCEPT !.default = s])
      \/ \E dir \in Searchable : Saves([config EXCEPT !.search = <<dir>>])
      \/ \E dir \in Searchable, prepend \in BOOLEAN : Saves(WithSearch(config, <<dir>>, prepend))
  BY Zenon DEF Configure
<1> HIDE DEF Saves
<1>4. CASE \E s \in Typed \ {None} : Saves([config EXCEPT !.default = s])
  <2>1. PICK s \in Typed \ {None} : Saves([config EXCEPT !.default = s])
    BY <1>4
  <2>2. [config EXCEPT !.default = s]
          = [default |-> s, search |-> config.search, access |-> config.access]
    BY <1>2
  <2>3. s \in Selectors
    BY <2>1, CommandsAssumption
  <2> DEFINE edited == [config EXCEPT !.default = s]
  <2>4. edited \in Configs /\ edited.access = config.access /\ edited.default = s
    BY <1>1, <2>2, <2>3 DEF Configs
  <2> QED
    BY <2>1, <2>4 DEF Saves
<1>5. CASE \E dir \in Searchable : Saves([config EXCEPT !.search = <<dir>>])
  <2>1. PICK dir \in Searchable : Saves([config EXCEPT !.search = <<dir>>])
    BY <1>5
  <2> DEFINE t == <<dir>>
             edited == [config EXCEPT !.search = t]
  <2>2. t \in Seq(Dirs) /\ Saves(edited)
    BY <2>1, CommandsAssumption
  <2> HIDE DEF t
  <2>3. edited = [default |-> config.default, search |-> t, access |-> config.access]
    BY <1>2
  <2>4. edited \in Configs /\ edited.access = config.access /\ edited.default = config.default
    BY <1>1, <2>2, <2>3 DEF Configs
  <2> QED
    BY <2>2, <2>4 DEF Saves
<1>6. CASE \E dir \in Searchable, prepend \in BOOLEAN :
              Saves(WithSearch(config, <<dir>>, prepend))
  <2>1. PICK dir \in Searchable, prepend \in BOOLEAN :
           Saves(WithSearch(config, <<dir>>, prepend))
    BY <1>6
  <2> DEFINE t == <<dir>>
             edited == WithSearch(config, t, prepend)
  <2>2. t \in Seq(Dirs) /\ Saves(edited)
    BY <2>1, CommandsAssumption
  <2> HIDE DEF t
  <2>3. edited \in Configs /\ edited.access = config.access /\ edited.default = config.default
    BY <1>1, <2>2, WithSearchIs
  <2> QED
    BY <2>2, <2>3 DEF Saves
<1> QED
  BY <1>3, <1>4, <1>5, <1>6

(* `kc access set' gives its keychain a policy, under the text of the one that it had. *)
SetAs(p, argument, policy) ==
  LET f == Target(argument)
      old == PolicyFor(config, f, Existing)
  IN  /\ policy.keychain = IF old # None THEN old.keychain
                           ELSE IF argument # None THEN argument ELSE config.default
      /\ Edits(p, "set", f, <<"config">>, argument, SetPolicy(config, policy), policy)

(* Both ways to set a policy are that one. *)
LEMMA SetIs ==
  ASSUME TypeOK, NEW p \in Procs, SetAccess(p) \/ ClearTrust(p)
  PROVE  \E argument \in Typed, policy \in Policies : SetAs(p, argument, policy)
<1>1. CASE SetAccess(p)
  <2>1. PICK argument \in Typed, setting \in Offered, apps \in SUBSET Apps :
          LET f == Target(argument)
              old == PolicyFor(config, f, Existing)
              selector == IF old # None THEN old.keychain
                          ELSE IF argument # None THEN argument ELSE config.default
              trust == IF old # None /\ apps = {} THEN old.trust ELSE apps
              policy == [keychain |-> selector, mode |-> setting.mode,
                         default |-> setting.default, trust |-> trust]
          IN  Edits(p, "set", f, <<"config">>, argument, SetPolicy(config, policy), policy)
    BY <1>1, Zenon DEF SetAccess
  <2> DEFINE f == Target(argument)
             old == PolicyFor(config, f, Existing)
             selector == IF old # None THEN old.keychain
                         ELSE IF argument # None THEN argument ELSE config.default
             trust == IF old # None /\ apps = {} THEN old.trust ELSE apps
             policy == [keychain |-> selector, mode |-> setting.mode,
                        default |-> setting.default, trust |-> trust]
  <2>2. old \in Policies \cup {None}
    BY TargetType
  <2>3. Edits(p, "set", f, <<"config">>, argument, SetPolicy(config, policy), policy)
    BY <2>1
  <2>4. setting.mode \in Modes /\ setting.default \in Defaults
    BY <2>1, CommandsAssumption
  <2>5. config.default \in Selectors /\ (argument # None => argument \in Selectors)
    BY CommandsAssumption DEF TypeOK, Configs
  <2> HIDE DEF old, f
  <2>6. selector \in Selectors /\ trust \in SUBSET Apps
    BY <2>2, <2>5 DEF Policies
  <2>7. policy \in Policies
    BY <2>4, <2>6 DEF Policies
  <2>8. policy.keychain = selector
    OBVIOUS
  <2> HIDE DEF policy
  <2>9. SetAs(p, argument, policy)
    BY <2>3, <2>8 DEF SetAs, f, old
  <2> QED
    BY <2>7, <2>9
<1>2. CASE ClearTrust(p)
  <2>1. PICK argument \in Typed :
          LET f == Target(argument)
              old == PolicyFor(config, f, Existing)
              policy == [old EXCEPT !.trust = {}]
          IN  /\ old # None
              /\ Edits(p, "set", f, <<"config">>, argument, SetPolicy(config, policy), policy)
    BY <1>2, Zenon DEF ClearTrust
  <2> DEFINE f == Target(argument)
             old == PolicyFor(config, f, Existing)
             policy == [old EXCEPT !.trust = {}]
  <2>2. old \in Policies /\ old # None
    BY <2>1, TargetType
  <2>3. Edits(p, "set", f, <<"config">>, argument, SetPolicy(config, policy), policy)
    BY <2>1
  <2> HIDE DEF old, f
  <2>4. policy \in Policies /\ policy.keychain = old.keychain
    BY <2>2 DEF Policies
  <2> HIDE DEF policy
  <2>5. SetAs(p, argument, policy)
    BY <2>2, <2>3, <2>4 DEF SetAs, f, old
  <2> QED
    BY <2>4, <2>5
<1> QED
  BY <1>1, <1>2

(* `kc access clear' takes the policy of its keychain away. *)
ClearAs(p, argument) ==
  LET f == Target(argument)
      old == PolicyFor(config, f, Existing)
  IN  /\ old # None
      /\ Edits(p, "clear", f, <<"config">>, argument, ClearPolicy(config, old.keychain), None)

(* `kc access clear' is that. *)
LEMMA ClearIs ==
  ASSUME NEW p \in Procs, ClearAccess(p)
  PROVE  \E argument \in Typed : ClearAs(p, argument)
BY Zenon DEF ClearAccess, ClearAs

(* `kc create' makes a file, and may give it a policy under its path. *)
CreateAs(p, argument, policy) ==
  LET f == Target(argument)
  IN  \/ /\ policy # None
         /\ policy.keychain = f
         /\ Edits(p, "create", f, <<"create", "config">>, argument,
                  SetPolicy(config, policy), policy)
      \/ /\ policy = None
         /\ Edits(p, "create", f, <<"create">>, argument, config, None)

(* `kc create' is that. *)
LEMMA CreateIs ==
  ASSUME TypeOK, NEW p \in Procs, Create(p)
  PROVE  \E argument \in Typed, policy \in Policies \cup {None} : CreateAs(p, argument, policy)
<1>1. PICK argument \in Typed \ {None}, setting \in Offered, gated \in BOOLEAN :
        LET f == Target(argument)
            policy == [keychain |-> f, mode |-> setting.mode, default |-> setting.default,
                       trust |-> {}]
        IN  /\ files[f] = None
            /\ IF gated
                 THEN Edits(p, "create", f, <<"create", "config">>, argument,
                            SetPolicy(config, policy), policy)
                 ELSE Edits(p, "create", f, <<"create">>, argument, config, None)
  BY Zenon DEF Create
<1> DEFINE f == Target(argument)
           policy == [keychain |-> f, mode |-> setting.mode, default |-> setting.default,
                      trust |-> {}]
<1>2. f \in Paths
  BY TargetType
<1>3. setting.mode \in Modes /\ setting.default \in Defaults
  BY <1>1, CommandsAssumption
<1>4. CASE gated
  <2>1. Edits(p, "create", f, <<"create", "config">>, argument,
              SetPolicy(config, policy), policy)
    BY <1>1, <1>4
  <2> HIDE DEF f
  <2>2. policy \in Policies /\ policy.keychain = f
    BY <1>2, <1>3 DEF Policies, Selectors
  <2>3. policy # None
    BY <2>2, ConfigAssumption
  <2> HIDE DEF policy
  <2>4. CreateAs(p, argument, policy)
    BY <2>1, <2>2, <2>3 DEF CreateAs, f
  <2> QED
    BY <2>2, <2>4
<1>5. CASE ~gated
  <2>1. Edits(p, "create", f, <<"create">>, argument, config, None)
    BY <1>1, <1>5
  <2>2. CreateAs(p, argument, None)
    BY <2>1 DEF CreateAs
  <2> QED
    BY <2>2
<1> QED
  BY <1>4, <1>5

(* The commands on items. *)
ItemsAs(p, command, f, g, apps, todo) ==
  /\ command \in {"add", "trust", "cp", "get", "edit", "rm"}
  /\ f \in Paths
  /\ g \in Paths \cup {None}
  /\ apps \in SUBSET Apps
  /\ command = "cp" => Head(todo) = "find"
  /\ <<command, todo>> \in Remaining
  /\ \E i \in DOMAIN todo : todo[i] = "open"
  /\ command = "cp" => \E i \in DOMAIN todo : todo[i] = "open-dest"
  /\ command \in {"add", "cp"} => \E i \in DOMAIN todo : todo[i] = "choose"
  /\ OnItems(p, command, f, g, apps, todo)

(* Every command on items is that. *)
LEMMA ItemsIs ==
  ASSUME TypeOK, NEW p \in Procs,
         Add(p) \/ Trust(p) \/ Copy(p) \/ Get(p) \/ Edit(p) \/ RemoveItems(p)
  PROVE  \E command, f, g, apps, todo : ItemsAs(p, command, f, g, apps, todo)
<1>0. \A argument \in Typed : Target(argument) \in Paths
  BY TargetType
<1>1. CASE Add(p)
  <2>1. PICK argument \in Typed, apps \in SUBSET Apps, order \in {AddOrder, IdentityOrder} :
           OnItems(p, "add", Target(argument), None, apps, order)
    BY <1>1 DEF Add
  <2>2. ItemsAs(p, "add", Target(argument), None, apps, order)
    BY <1>0, <2>1, InTheOrders DEF ItemsAs
  <2> QED
    BY <2>2
<1>2. CASE Trust(p)
  <2>1. PICK argument \in Typed, apps \in SUBSET Apps :
           OnItems(p, "trust", Target(argument), None, apps, TrustOrder)
    BY <1>2 DEF Trust
  <2>2. ItemsAs(p, "trust", Target(argument), None, apps, TrustOrder)
    BY <1>0, <2>1, InTheOrders DEF ItemsAs
  <2> QED
    BY <2>2
<1>3. CASE Copy(p)
  <2>1. PICK from \in Typed \ {None}, apps \in SUBSET Apps :
           OnItems(p, "cp", Target(from), None, apps, CopyOrder)
    BY <1>3 DEF Copy
  <2>2. ItemsAs(p, "cp", Target(from), None, apps, CopyOrder)
    BY <1>0, <2>1, InTheOrders DEF ItemsAs
  <2> QED
    BY <2>2
<1>4. CASE Get(p)
  <2>1. PICK argument \in Typed, order \in {GetOrder, ExportOrder, VerifyOrder} :
           OnItems(p, "get", Target(argument), None, {}, order)
    BY <1>4 DEF Get
  <2>2. ItemsAs(p, "get", Target(argument), None, {}, order)
    BY <1>0, <2>1, InTheOrders DEF ItemsAs
  <2> QED
    BY <2>2
<1>5. CASE Edit(p)
  <2>1. PICK argument \in Typed,
             order \in {SecretOrder, AttributesOrder, PasswdOrder, SettingsOrder} :
           OnItems(p, "edit", Target(argument), None, {}, order)
    BY <1>5 DEF Edit
  <2>2. ItemsAs(p, "edit", Target(argument), None, {}, order)
    BY <1>0, <2>1, InTheOrders DEF ItemsAs
  <2> QED
    BY <2>2
<1>6. CASE RemoveItems(p)
  <2>1. PICK argument \in Typed, order \in {RemoveOrder, RemoveIdentityOrder} :
           OnItems(p, "rm", Target(argument), None, {}, order)
    BY <1>6 DEF RemoveItems
  <2>2. ItemsAs(p, "rm", Target(argument), None, {}, order)
    BY <1>0, <2>1, InTheOrders DEF ItemsAs
  <2> QED
    BY <2>2
<1> QED
  BY <1>1, <1>2, <1>3, <1>4, <1>5, <1>6

------------------------------------------------------------------------------
(* Every step keeps the shape of the state. *)

(* A policy projects one of the accesses that a command writes. *)
LEMMA AccessType ==
  ASSUME NEW policy \in Policies \cup {None}, NEW apps \in SUBSET Apps
  PROVE  /\ policy # None => NativeAccess(policy) \in Accesses
         /\ AccessForWrite(policy, apps) \in Accesses
         /\ AccessForWrite(policy, apps) # None
<1>1. ASSUME policy # None PROVE NativeAccess(policy) \in Accesses
  BY <1>1 DEF NativeAccess, Accesses, Policies, TrustOnly, AllowAny, Prompt
<1>2. TrustOnly(apps) \in Accesses /\ AllowAny \in Accesses
  BY DEF Accesses
<1>3. AccessForWrite(policy, apps) \in Accesses
  BY <1>1, <1>2 DEF AccessForWrite, ProjectsNative
<1> QED
  BY <1>1, <1>3, ConfigAssumption

(* A process that has not begun has no steps left. *)
LEMMA NotBegun ==
  ASSUME Shape, NEW p \in Procs, op[p] \notin Ops
  PROVE  at[p] = <<>>
BY ShapeIs, Onward DEF Sound

(* `kc access apply' *)
LEMMA ApplyShape ==
  ASSUME Shape, NEW p \in Procs, op[p] = None, Apply(p)
  PROVE  \E argument \in Typed :
         LET f == Target(argument)
             policy == PolicyFor(config, f, Existing)
         IN  /\ Shape' /\ \A q \in Procs \ {p} : Same(q)
             /\ f \in Paths /\ policy \in Policies
             /\ op'[p] = "apply" /\ at'[p] = <<"open", "save">>
             /\ path'[p] = f /\ dest'[p] = None /\ access'[p] = NativeAccess(policy)
             /\ leave'[p] = leave[p]
             /\ seen' = [seen EXCEPT ![p] =
                            {[file |-> h, policy |-> intent[h]] : h \in {f, None} \ {None}}]
             /\ UNCHANGED <<config, files, intent, drift, settled>>
<1>1. TypeOK
  BY ShapeIs
<1>2. PICK argument \in Typed :
        LET f == Target(argument)
            policy == PolicyFor(config, f, Existing)
        IN  /\ policy # None
            /\ policy.default # "deny"
            /\ Begin(p, "apply", f, None, <<"open", "save">>)
            /\ access' = [access EXCEPT ![p] = NativeAccess(policy)]
            /\ UNCHANGED <<edits, named>>
  BY Zenon DEF Apply
<1> DEFINE f == Target(argument)
           policy == PolicyFor(config, f, Existing)
           todo == <<"open", "save">>
<1>3. f \in Paths /\ policy \in Policies
  BY <1>1, <1>2, TargetType
<1>4. /\ Begin(p, "apply", f, None, todo)
      /\ access' = [access EXCEPT ![p] = NativeAccess(policy)]
      /\ UNCHANGED <<asked, mine, draft, given, named>>
  BY <1>2 DEF edits
<1>5. <<"apply", todo>> \in Remaining /\ \E i \in DOMAIN todo : todo[i] = "open"
  <2>1. todo[1] = "open" /\ 1 \in DOMAIN todo
    OBVIOUS
  <2> QED
    BY <2>1 DEF Remaining
<1> HIDE DEF f, policy, todo
<1>6. NativeAccess(policy) \in Accesses /\ NativeAccess(policy) # None
  BY <1>3, AccessType, ConfigAssumption
<1>7. /\ asked' \in [Procs -> Selectors \cup {None}]
      /\ mine' \in [Procs -> Configs \cup {None}]
      /\ draft' \in [Procs -> Configs \cup {None}]
      /\ given' \in [Procs -> Policies \cup {None}]
      /\ named' \in [Procs -> SUBSET Apps]
      /\ access' \in [Procs -> Accesses \cup {None}]
  BY <1>1, <1>4, <1>6 DEF TypeOK
<1>8. \A q \in Procs \ {p} :
         /\ asked'[q] = asked[q] /\ mine'[q] = mine[q] /\ draft'[q] = draft[q]
         /\ given'[q] = given[q] /\ named'[q] = named[q] /\ access'[q] = access[q]
  BY <1>1, <1>4 DEF TypeOK
<1>9. access'[p] = NativeAccess(policy)
  BY <1>1, <1>4 DEF TypeOK
<1>10. "apply" \in Ops /\ "apply" \notin Editing
  BY DEF Ops, Editing
<1>11. Shape' /\ \A q \in Procs \ {p} : Same(q)
  BY <1>3, <1>4, <1>5, <1>6, <1>7, <1>8, <1>9, <1>10, BeginShape
<1>12. /\ op' = [op EXCEPT ![p] = "apply"]
       /\ at' = [at EXCEPT ![p] = todo]
       /\ path' = [path EXCEPT ![p] = f]
       /\ dest' = [dest EXCEPT ![p] = None]
       /\ UNCHANGED <<disk, copy, leave, intent, drift, settled>>
       /\ seen' = [seen EXCEPT ![p] =
                      {[file |-> h, policy |-> intent[h]] : h \in {f, None} \ {None}}]
  BY <1>4 DEF Begin
<1>13. op'[p] = "apply" /\ at'[p] = todo /\ path'[p] = f /\ dest'[p] = None
  BY <1>1, <1>12 DEF TypeOK
<1> QED
  BY <1>3, <1>9, <1>11, <1>12, <1>13 DEF disk, f, policy, todo

(* `kc access audit' writes nothing. *)
LEMMA AuditShape ==
  ASSUME Shape, NEW p \in Procs, op[p] = None, Audit(p)
  PROVE  /\ Shape' /\ op'[p] = "done" /\ \A q \in Procs \ {p} : op'[q] = op[q]
         /\ at[p] = <<>>
         /\ UNCHANGED <<disk, at, path, dest, memory, history>>
<1>1. TypeOK /\ \A q \in Procs : Sound(q)
  BY ShapeIs
<1>2. op' = [op EXCEPT ![p] = "done"] /\ UNCHANGED <<disk, at, path, dest, memory, history>>
  BY DEF Audit
<1>3. at[p] = <<>>
  BY NotBegun, CommandsAssumption
<1>4. /\ UNCHANGED <<config, files, asked, mine, draft, given, copy, named, access, leave>>
      /\ UNCHANGED <<intent, seen, drift, settled>>
  BY <1>2 DEF disk, memory, edits, history
<1>5. TypeOK'
  BY <1>1, <1>2, <1>4 DEF TypeOK
<1>6. op'[p] = "done" /\ \A q \in Procs \ {p} : op'[q] = op[q]
  BY <1>1, <1>2 DEF TypeOK
<1>7. \A q \in Procs \ {p} : Same(q)
  BY <1>2, <1>4, <1>6 DEF Same
<1>8. \A q \in Procs \ {p} : Sound(q)'
  BY <1>1, <1>4, <1>7, SameSound DEF Lasting
<1>9. Sound(p)'
  BY <1>2, <1>3 DEF Sound
<1> QED
  BY <1>2, <1>3, <1>5, <1>6, <1>8, <1>9, ShapeNext

(* A process that goes on keeps what it knows, or learns a little. *)
LEMMA GoesShape ==
  ASSUME Shape, NEW p \in Procs, NEW step \in {"choose", "open", "open-dest", "authorize"},
         Goes(p, step), UNCHANGED <<config, files, asked, mine, draft, given, named>>,
         UNCHANGED <<intent, seen, drift, settled>>,
         copy' \in [Procs -> Contents \cup {None}], access' \in [Procs -> Accesses \cup {None}],
         leave' \in [Procs -> {"none", "free", "confirmed"}],
         \A q \in Procs \ {p} :
            copy'[q] = copy[q] /\ access'[q] = access[q] /\ leave'[q] = leave[q],
         copy'[p] # copy[p] => copy'[p] # None, access'[p] # access[p] => access'[p] # None,
         step = "open" => copy'[p] # None /\ files[path[p]] # None,
         step = "open-dest" => dest[p] \in Existing,
         step = "choose" => access'[p] # None
  PROVE  Shape' /\ \A q \in Procs \ {p} : Same(q)
<1>1. TypeOK /\ \A q \in Procs : Sound(q)
  BY ShapeIs
<1>2. Step(p, step) /\ UNCHANGED <<op, path, dest>>
  BY DEF Goes
<1>3. /\ <<op[p], at[p]>> \in Remaining
      /\ at' \in [Procs -> Seq(Steps)]
      /\ \A q \in Procs \ {p} : at'[q] = at[q]
      /\ at'[p] = Tail(at[p])
      /\ Head(at[p]) = step
      /\ \A s : Awaits(p, s) <=> s = step \/ Awaits(p, s)'
  BY <1>1, <1>2, Stepped
<1>4. <<op[p], at'[p]>> \in Remaining
  BY <1>3, Onward
<1>5. TypeOK'
  BY <1>1, <1>2, <1>3 DEF TypeOK
<1>6. \A q \in Procs \ {p} : Same(q)
  BY <1>2, <1>3 DEF Same
<1>7. \A q \in Procs \ {p} : Sound(q)'
  BY <1>1, <1>6, SameSound DEF Lasting
<1>8. at[p] # <<>>
  BY <1>2 DEF Step
<1>9. /\ op[p] # "config" => path[p] \in Paths
      /\ op[p] = "cp" => dest[p] \in Paths
      /\ op[p] \in Editing => mine[p] # None /\ draft[p] # None
      /\ op[p] = "apply" => access[p] # None
      /\ op[p] \notin Editing /\ ~Awaits(p, "open") => copy[p] # None /\ files[path[p]] # None
      /\ op[p] = "cp" /\ ~Awaits(p, "open-dest") => dest[p] \in Existing
      /\ op[p] \in {"add", "cp"} /\ ~Awaits(p, "choose") => access[p] # None
  BY <1>1, <1>3, <1>8 DEF Sound
<1>10. op[p] \notin Editing /\ ~Awaits(p, "open")' => copy'[p] # None /\ files[path[p]] # None
  BY <1>3, <1>9
<1>11. op[p] = "cp" /\ ~Awaits(p, "open-dest")' => dest[p] \in Existing'
  BY <1>3, <1>9 DEF Existing
<1>12. op[p] \in {"add", "cp"} /\ ~Awaits(p, "choose")' => access'[p] # None
  BY <1>3, <1>9
<1>13. Sound(p)'
  BY <1>2, <1>4, <1>9, <1>10, <1>11, <1>12 DEF Sound
<1> QED
  BY <1>5, <1>6, <1>7, <1>13, ShapeNext

(* `application_access_for_write' *)
LEMMA ChooseShape ==
  ASSUME Shape, NEW p \in Procs, ChooseAccess(p)
  PROVE  /\ Shape' /\ \A q \in Procs \ {p} : Same(q)
         /\ <<op[p], at[p]>> \in Remaining /\ at'[p] = Tail(at[p]) /\ Head(at[p]) = "choose"
         /\ \A s : Awaits(p, s) <=> s = "choose" \/ Awaits(p, s)'
         /\ access'[p] = AccessForWrite(InForce(Written(p)), named[p])
         /\ UNCHANGED <<config, files, op, path, dest, edits, copy, named, leave, history>>
<1>1. TypeOK /\ \A q \in Procs : Sound(q)
  BY ShapeIs
<1>2. /\ Goes(p, "choose")
      /\ access' = [access EXCEPT ![p] = AccessForWrite(InForce(Written(p)), named[p])]
      /\ UNCHANGED <<config, files, asked, mine, draft, given, copy, named, leave>>
      /\ UNCHANGED <<intent, seen, drift, settled>>
  BY DEF ChooseAccess, disk, edits, history
<1>3. InForce(Written(p)) \in Policies \cup {None}
  BY <1>1, PolicyType DEF InForce, TypeOK
<1>4. /\ AccessForWrite(InForce(Written(p)), named[p]) \in Accesses
      /\ AccessForWrite(InForce(Written(p)), named[p]) # None
  <2>1. named[p] \in SUBSET Apps
    BY <1>1 DEF TypeOK
  <2> QED
    BY <1>3, <2>1, AccessType
<1>5. /\ access' \in [Procs -> Accesses \cup {None}]
      /\ access'[p] = AccessForWrite(InForce(Written(p)), named[p])
      /\ \A q \in Procs \ {p} : access'[q] = access[q]
  BY <1>1, <1>2, <1>4 DEF TypeOK
<1>6. /\ copy' \in [Procs -> Contents \cup {None}]
      /\ leave' \in [Procs -> {"none", "free", "confirmed"}]
  BY <1>1, <1>2 DEF TypeOK
<1>7. Shape' /\ \A q \in Procs \ {p} : Same(q)
  BY <1>2, <1>4, <1>5, <1>6, GoesShape
<1>8. Step(p, "choose") /\ UNCHANGED <<op, path, dest>>
  BY <1>2 DEF Goes
<1> QED
  BY <1>1, <1>2, <1>5, <1>7, <1>8, Stepped DEF edits, history

(* `Keychain::open' of the keychain, and of `cp's second. *)
LEMMA OpenShape ==
  ASSUME Shape, NEW p \in Procs, Open(p) \/ OpenDestination(p)
  PROVE  /\ Shape' /\ \A q \in Procs \ {p} : Same(q)
         /\ <<op[p], at[p]>> \in Remaining /\ at'[p] = Tail(at[p])
         /\ \A s : s \notin {"open", "open-dest"} => (Awaits(p, s) <=> Awaits(p, s)')
         /\ UNCHANGED <<config, files, op, path, dest, edits, named, access, leave, history>>
<1>1. TypeOK /\ \A q \in Procs : Sound(q)
  BY ShapeIs
<1>2. PICK step \in {"open", "open-dest"} :
         \E f \in {path[p], dest[p]} :
            /\ Goes(p, step)
            /\ files[f] # None
            /\ step = "open" => f = path[p]
            /\ step = "open-dest" => f = dest[p]
            /\ copy' = [copy EXCEPT ![p] = files[f]]
            /\ UNCHANGED <<disk, edits, named, access, leave, history>>
  <2>1. CASE Open(p)
    BY <2>1, Zenon DEF Open
  <2>2. CASE OpenDestination(p)
    BY <2>2, Zenon DEF OpenDestination
  <2> QED
    BY <2>1, <2>2
<1>3. PICK f \in {path[p], dest[p]} :
         /\ Goes(p, step)
         /\ files[f] # None
         /\ step = "open" => f = path[p]
         /\ step = "open-dest" => f = dest[p]
         /\ copy' = [copy EXCEPT ![p] = files[f]]
         /\ UNCHANGED <<disk, edits, named, access, leave, history>>
  BY <1>2
<1>4. /\ UNCHANGED <<config, files, asked, mine, draft, given, named, access, leave>>
      /\ UNCHANGED <<intent, seen, drift, settled>>
  BY <1>3 DEF disk, edits, history
<1>5. Step(p, step) /\ UNCHANGED <<op, path, dest>>
  BY <1>3 DEF Goes
<1>6. /\ <<op[p], at[p]>> \in Remaining
      /\ at'[p] = Tail(at[p])
      /\ Head(at[p]) = step
      /\ \A s : Awaits(p, s) <=> s = step \/ Awaits(p, s)'
  BY <1>1, <1>5, Stepped
<1>7. f \in Paths
  <2>1. at[p] # <<>>
    BY <1>5 DEF Step
  <2>2. op[p] \notin Editing
    BY <1>6, Onward
  <2>3. step = "open-dest" => op[p] = "cp"
    BY <1>6, Onward
  <2> QED
    BY <1>1, <1>3, <1>6, <2>1, <2>2, <2>3 DEF Sound, Editing
<1>8. files[f] \in Contents
  BY <1>1, <1>3, <1>7 DEF TypeOK
<1>9. /\ copy' \in [Procs -> Contents \cup {None}]
      /\ copy'[p] = files[f]
      /\ \A q \in Procs \ {p} : copy'[q] = copy[q]
  BY <1>1, <1>3, <1>8 DEF TypeOK
<1>10. /\ access' \in [Procs -> Accesses \cup {None}]
       /\ leave' \in [Procs -> {"none", "free", "confirmed"}]
  BY <1>1, <1>4 DEF TypeOK
<1>11. Shape' /\ \A q \in Procs \ {p} : Same(q)
  BY <1>3, <1>4, <1>7, <1>9, <1>10, GoesShape DEF Existing
<1>12. \A s : s \notin {"open", "open-dest"} => (Awaits(p, s) <=> Awaits(p, s)')
  BY <1>6
<1> QED
  BY <1>4, <1>5, <1>6, <1>11, <1>12 DEF edits, history

(* `authorize_secret_access' *)
LEMMA AuthorizeShape ==
  ASSUME Shape, NEW p \in Procs, Authorize(p)
  PROVE  /\ Shape' /\ \A q \in Procs \ {p} : Same(q)
         /\ <<op[p], at[p]>> \in Remaining /\ at'[p] = Tail(at[p])
         /\ at[p] # <<>> /\ op[p] # "config"
         /\ \A s : s # "authorize" => (Awaits(p, s) <=> Awaits(p, s)')
         /\ leave'[p] = "free" => Decision(InForce(path[p])) = "allow"
         /\ UNCHANGED <<config, files, op, path, dest, edits, copy, named, access, history>>
<1>1. TypeOK /\ \A q \in Procs : Sound(q)
  BY ShapeIs
<1>2. PICK how \in {"free", "confirmed"} :
         /\ Goes(p, "authorize")
         /\ leave' = [leave EXCEPT ![p] = how]
         /\ how = "free" => Decision(InForce(path[p])) = "allow"
         /\ UNCHANGED <<disk, edits, copy, named, access, history>>
  BY Zenon DEF Authorize
<1>3. /\ UNCHANGED <<config, files, asked, mine, draft, given, copy, named, access>>
      /\ UNCHANGED <<intent, seen, drift, settled>>
  BY <1>2 DEF disk, edits, history
<1>4. /\ leave' \in [Procs -> {"none", "free", "confirmed"}]
      /\ leave'[p] = how
      /\ \A q \in Procs \ {p} : leave'[q] = leave[q]
  BY <1>1, <1>2 DEF TypeOK
<1>5. /\ copy' \in [Procs -> Contents \cup {None}]
      /\ access' \in [Procs -> Accesses \cup {None}]
  BY <1>1, <1>3 DEF TypeOK
<1>6. Shape' /\ \A q \in Procs \ {p} : Same(q)
  BY <1>2, <1>3, <1>4, <1>5, GoesShape
<1>7. Step(p, "authorize") /\ UNCHANGED <<op, path, dest>>
  BY <1>2 DEF Goes
<1>8. /\ <<op[p], at[p]>> \in Remaining
      /\ at'[p] = Tail(at[p])
      /\ Head(at[p]) = "authorize"
      /\ \A s : Awaits(p, s) <=> s = "authorize" \/ Awaits(p, s)'
  BY <1>1, <1>7, Stepped
<1>9. at[p] # <<>> /\ op[p] # "config"
  BY <1>8, Onward DEF Editing
<1>10. \A s : s # "authorize" => (Awaits(p, s) <=> Awaits(p, s)')
  BY <1>8
<1> QED
  BY <1>2, <1>3, <1>4, <1>6, <1>7, <1>8, <1>9, <1>10 DEF edits, history

(* The second `resolve_keychain' of `kc cp'. *)
LEMMA FindShape ==
  ASSUME Shape, NEW p \in Procs, FindDestination(p)
  PROVE  /\ Shape' /\ \A q \in Procs \ {p} : Same(q) /\ seen'[q] = seen[q]
         /\ op[p] = "cp" /\ at[p] # <<>> /\ at'[p] # <<>>
         /\ Awaits(p, "choose") <=> Awaits(p, "choose")'
         /\ \E g \in Paths :
               /\ dest'[p] = g
               /\ seen'[p] = seen[p] \cup {[file |-> g, policy |-> intent[g]]}
         /\ UNCHANGED <<config, files, op, path, memory, intent, drift, settled>>
<1>1. TypeOK /\ \A q \in Procs : Sound(q)
  BY ShapeIs
<1>2. /\ Step(p, "find")
      /\ UNCHANGED <<config, files, op, path, memory, intent, drift, settled>>
  BY DEF FindDestination, disk
<1>3. PICK g \in Paths :
         /\ dest' = [dest EXCEPT ![p] = g]
         /\ seen' = [seen EXCEPT ![p] = @ \cup {[file |-> g, policy |-> intent[g]]}]
  <2>1. PICK to \in Typed \ {None} :
           /\ dest' = [dest EXCEPT ![p] = Target(to)]
           /\ seen' = [seen EXCEPT ![p] =
                  @ \cup {[file |-> Target(to), policy |-> intent[Target(to)]]}]
    BY DEF FindDestination
  <2>2. Target(to) \in Paths
    BY <1>1, TargetType
  <2> QED
    BY <2>1, <2>2
<1>4. UNCHANGED <<asked, mine, draft, given, copy, named, access, leave>>
  BY <1>2 DEF memory, edits
<1>5. /\ <<op[p], at[p]>> \in Remaining
      /\ at' \in [Procs -> Seq(Steps)]
      /\ \A q \in Procs \ {p} : at'[q] = at[q]
      /\ at'[p] = Tail(at[p])
      /\ Head(at[p]) = "find"
      /\ \A s : Awaits(p, s) <=> s = "find" \/ Awaits(p, s)'
  BY <1>1, <1>2, Stepped
<1>6. /\ <<op[p], at'[p]>> \in Remaining /\ op[p] = "cp" /\ at[p] # <<>> /\ at'[p] # <<>>
      /\ Head(at'[p]) # "find"
  <2> DEFINE o == op[p]  t == at[p]
  <2>1. <<o, t>> \in Remaining /\ Head(t) = "find"
    BY <1>5
  <2> HIDE DEF o, t
  <2>2. /\ o = "cp" /\ t # <<>> /\ Tail(t) # <<>> /\ <<o, Tail(t)>> \in Remaining
        /\ Head(Tail(t)) # "find"
    <3> DEFINE tail == Tail(t)
    <3>1. /\ o = "cp" /\ t # <<>>
          /\ Head(t) \in {"find", "choose", "open", "open-dest", "authorize"} => tail # <<>>
          /\ tail = <<>> \/ <<o, tail>> \in Remaining
          /\ tail # <<>> => Head(tail) # "find"
      BY <2>1, Onward
    <3> HIDE DEF tail
    <3>2. Head(t) \in {"find", "choose", "open", "open-dest", "authorize"}
      BY <2>1
    <3>3. tail # <<>> /\ <<o, tail>> \in Remaining /\ Head(tail) # "find"
      BY <3>1, <3>2
    <3> QED
      BY <3>1, <3>3 DEF tail
  <2> QED
    BY <1>5, <2>2 DEF o, t
<1>7. /\ dest' \in [Procs -> Paths \cup {None}] /\ dest'[p] = g
      /\ \A q \in Procs \ {p} : dest'[q] = dest[q]
  BY <1>1, <1>3 DEF TypeOK
<1>8. /\ seen' \in [Procs -> SUBSET [file : Paths, policy : Policies \cup {None}]]
      /\ seen'[p] = seen[p] \cup {[file |-> g, policy |-> intent[g]]}
      /\ \A q \in Procs \ {p} : seen'[q] = seen[q]
  <2> DEFINE told == [file |-> g, policy |-> intent[g]]
  <2>1. told \in [file : Paths, policy : Policies \cup {None}]
    BY <1>1 DEF TypeOK
  <2>2. seen' = [seen EXCEPT ![p] = @ \cup {told}]
    BY <1>3
  <2> HIDE DEF told
  <2>3. /\ seen' \in [Procs -> SUBSET [file : Paths, policy : Policies \cup {None}]]
        /\ seen'[p] = seen[p] \cup {told}
        /\ \A q \in Procs \ {p} : seen'[q] = seen[q]
    BY <1>1, <2>1, <2>2 DEF TypeOK
  <2> QED
    BY <2>3 DEF told
<1>9. TypeOK'
  BY <1>1, <1>2, <1>4, <1>5, <1>7, <1>8 DEF TypeOK
<1>10. \A q \in Procs \ {p} : Same(q)
  BY <1>2, <1>4, <1>5, <1>7 DEF Same
<1>11. \A q \in Procs \ {p} : Sound(q)'
  BY <1>1, <1>2, <1>10, SameSound DEF Lasting
<1>12. Sound(p)'
  <2>1. /\ op[p] # "config" => path[p] \in Paths
        /\ op[p] \notin Editing /\ ~Awaits(p, "open") => copy[p] # None /\ files[path[p]] # None
        /\ ~Awaits(p, "open-dest") => dest[p] \in Existing
        /\ ~Awaits(p, "choose") => access[p] # None
    BY <1>1, <1>6 DEF Sound
  <2>2. /\ Awaits(p, "open")' <=> Awaits(p, "open")
        /\ Awaits(p, "choose")' <=> Awaits(p, "choose")
        /\ Awaits(p, "open-dest")'
    <3>1. Awaits(p, "open-dest")
      BY <1>5, FindOrder DEF Awaits
    <3> QED
      BY <1>5, <3>1
  <2> QED
    BY <1>2, <1>4, <1>6, <1>7, <2>1, <2>2 DEF Sound, Editing
<1>13. Awaits(p, "choose") <=> Awaits(p, "choose")'
  BY <1>5
<1> QED
  BY <1>2, <1>6, <1>7, <1>8, <1>9, <1>10, <1>11, <1>12, <1>13, ShapeNext

(* A process whose last step is done, or that fails, is gone. *)
LEMMA ExitShape ==
  ASSUME Shape, NEW p \in Procs, Exit(p), at' \in [Procs -> Seq(Steps)], at'[p] = <<>>,
         \A q \in Procs \ {p} : at'[q] = at[q],
         config' \in Configs, files' \in [Paths -> Contents \cup {None}], Lasting,
         intent' \in [Paths -> Policies \cup {None}],
         seen' \in [Procs -> SUBSET [file : Paths, policy : Policies \cup {None}]],
         drift' \in BOOLEAN, settled' \subseteq Paths
  PROVE  Shape' /\ \A q \in Procs \ {p} : Same(q)
<1>1. TypeOK /\ \A q \in Procs : Sound(q)
  BY ShapeIs
<1>2. /\ op' \in [Procs -> Ops \cup {None, "done"}]
      /\ path' \in [Procs -> Paths \cup {None}]
      /\ dest' \in [Procs -> Paths \cup {None}]
      /\ asked' \in [Procs -> Selectors \cup {None}]
      /\ given' \in [Procs -> Policies \cup {None}]
      /\ mine' \in [Procs -> Configs \cup {None}]
      /\ draft' \in [Procs -> Configs \cup {None}]
      /\ copy' \in [Procs -> Contents \cup {None}]
      /\ named' \in [Procs -> SUBSET Apps]
      /\ access' \in [Procs -> Accesses \cup {None}]
      /\ leave' \in [Procs -> {"none", "free", "confirmed"}]
      /\ \A q \in Procs \ {p} : at'[q] = at[q] => Same(q)
  BY <1>1, Exited
<1>3. TypeOK'
  BY <1>2 DEF TypeOK
<1>4. \A q \in Procs \ {p} : Same(q)
  BY <1>2
<1>5. \A q \in Procs \ {p} : Sound(q)'
  BY <1>1, <1>4, SameSound
<1>6. Sound(p)'
  BY DEF Sound
<1> QED
  BY <1>3, <1>4, <1>5, <1>6, ShapeNext

(* `Config::save' *)
LEMMA SaveConfigShape ==
  ASSUME Shape, NEW p \in Procs, SaveConfig(p)
  PROVE  /\ Shape' /\ \A q \in Procs \ {p} : Same(q)
         /\ op[p] \in Editing /\ at[p] = <<"config">> /\ at'[p] = <<>>
         /\ op'[p] = "done" /\ leave'[p] = "none"
         /\ op[p] # "config" => path[p] \in Paths
<1>1. TypeOK /\ \A q \in Procs : Sound(q)
  BY ShapeIs
<1>2. Step(p, "config") /\ config' = draft[p] /\ Exit(p) /\ files' = files
  BY DEF SaveConfig
<1>3. /\ <<op[p], at[p]>> \in Remaining
      /\ at' \in [Procs -> Seq(Steps)]
      /\ \A q \in Procs \ {p} : at'[q] = at[q]
      /\ at'[p] = Tail(at[p])
      /\ Head(at[p]) = "config"
  BY <1>1, <1>2, Stepped
<1>4. at[p] # <<>> /\ op[p] \in Editing /\ at[p] = <<"config">> /\ at'[p] = <<>>
  BY <1>3, Onward
<1>5. draft[p] \in Configs /\ (op[p] # "config" => path[p] \in Paths)
  BY <1>1, <1>4 DEF Sound, TypeOK
<1>6. /\ intent' \in [Paths -> Policies \cup {None}]
      /\ seen' \in [Procs -> SUBSET [file : Paths, policy : Policies \cup {None}]]
      /\ settled' \subseteq Paths
  <2>1. CASE op[p] = "config"
    BY <1>1, <2>1 DEF SaveConfig, TypeOK
  <2>2. CASE op[p] # "config"
    <3>1. Give(p, path[p], given[p])
      BY <2>2 DEF SaveConfig
    <3>2. path[p] \in Paths /\ given[p] \in Policies \cup {None}
      BY <1>1, <1>5, <2>2 DEF TypeOK
    <3>3. intent' = [intent EXCEPT ![path[p]] = given[p]]
      BY <3>1 DEF Give
    <3>4. seen' = [q \in Procs |->
              IF q = p THEN {}
              ELSE IF at[q] # <<>> /\ path[p] \in {path[q], dest[q]}
                THEN seen[q] \cup {[file |-> path[p], policy |-> given[p]]}
              ELSE seen[q]]
      BY <3>1 DEF Give
    <3>5. settled' \subseteq settled \cup {path[p]}
      BY <3>1 DEF Give
    <3>6. \A q \in Procs : seen'[q] \in SUBSET [file : Paths, policy : Policies \cup {None}]
      BY <1>1, <3>2, <3>4 DEF TypeOK
    <3> QED
      BY <1>1, <3>2, <3>3, <3>4, <3>5, <3>6 DEF TypeOK
  <2> QED
    BY <2>1, <2>2
<1>7. drift' \in BOOLEAN
  BY <1>1, Zenon DEF SaveConfig, TypeOK
<1>8. files' \in [Paths -> Contents \cup {None}] /\ Lasting /\ config' \in Configs
  BY <1>1, <1>2, <1>5 DEF Lasting, TypeOK
<1>9. Shape' /\ \A q \in Procs \ {p} : Same(q)
  BY <1>2, <1>3, <1>4, <1>6, <1>7, <1>8, ExitShape
<1>10. op'[p] = "done" /\ leave'[p] = "none"
  BY <1>1, <1>2, Exited
<1> QED
  BY <1>4, <1>5, <1>9, <1>10

(* Printing, failing and being killed change nothing that lasts. *)
LEMMA EndShape ==
  ASSUME Shape, NEW p \in Procs, PrintSecret(p) \/ Fail(p)
  PROVE  /\ Shape' /\ \A q \in Procs \ {p} : Same(q)
         /\ at'[p] = <<>> /\ op'[p] = "done" /\ leave'[p] = "none"
         /\ seen' = [seen EXCEPT ![p] = {}]
         /\ UNCHANGED <<config, files, intent, drift, settled>>
<1>1. TypeOK /\ \A q \in Procs : Sound(q)
  BY ShapeIs
<1>2. Exit(p) /\ seen' = [seen EXCEPT ![p] = {}] /\ UNCHANGED <<config, files>>
  BY DEF PrintSecret, Fail, disk
<1>3. UNCHANGED <<intent, drift, settled>>
  BY DEF PrintSecret, Fail
<1>4. /\ at' \in [Procs -> Seq(Steps)]
      /\ \A q \in Procs \ {p} : at'[q] = at[q]
      /\ at'[p] = <<>>
  <2>1. CASE PrintSecret(p)
    <3>1. Step(p, "print")
      BY <2>1 DEF PrintSecret
    <3>2. <<op[p], at[p]>> \in Remaining /\ Head(at[p]) = "print" /\ at'[p] = Tail(at[p])
      BY <1>1, <3>1, Stepped
    <3>3. at'[p] = <<>>
      BY <3>2, Onward
    <3> QED
      BY <1>1, <3>1, <3>3, Stepped
  <2>2. CASE Fail(p)
    BY <1>1, <2>2 DEF Fail, TypeOK
  <2> QED
    BY <2>1, <2>2
<1>5. /\ seen' \in [Procs -> SUBSET [file : Paths, policy : Policies \cup {None}]]
      /\ config' \in Configs /\ files' \in [Paths -> Contents \cup {None}] /\ Lasting
      /\ intent' \in [Paths -> Policies \cup {None}] /\ drift' \in BOOLEAN
      /\ settled' \subseteq Paths
  BY <1>1, <1>2, <1>3 DEF Lasting, TypeOK
<1>6. Shape' /\ \A q \in Procs \ {p} : Same(q)
  BY <1>2, <1>4, <1>5, ExitShape
<1> QED
  BY <1>1, <1>2, <1>3, <1>4, <1>6, Exited

(* `kc create' makes its file, even where there is one by now. *)
LEMMA CreateFileShape ==
  ASSUME Shape, NEW p \in Procs, CreateFile(p)
  PROVE  /\ Shape' /\ \A q \in Procs \ {p} : Same(q)
         /\ op[p] = "create" /\ at[p] # <<>> /\ path[p] \in Paths
         /\ at'[p] = Tail(at[p]) /\ Tail(at[p]) \in {<<>>, <<"config">>}
         /\ Existing' = Existing \cup {path[p]}
         /\ files'[path[p]] = Empty /\ \A f \in Paths \ {path[p]} : files'[f] = files[f]
         /\ \A s : s # "create" => (Awaits(p, s) <=> Awaits(p, s)')
         /\ \A q \in Procs \ {p} : seen'[q] = seen[q]
         /\ at'[p] = <<>> => op'[p] = "done" /\ leave'[p] = "none"
         /\ at'[p] # <<>> => UNCHANGED <<op, path, dest, memory, seen>>
<1>1. TypeOK /\ \A q \in Procs : Sound(q)
  BY ShapeIs
<1>2. /\ Step(p, "create")
      /\ files' = [files EXCEPT ![path[p]] = Empty]
      /\ drift' = (drift \/ Moved(config, Existing \cup {path[p]}))
      /\ settled' = settled \cup {path[p]}
      /\ UNCHANGED <<config, intent>>
  BY DEF CreateFile
<1>3. /\ <<op[p], at[p]>> \in Remaining
      /\ at' \in [Procs -> Seq(Steps)]
      /\ \A q \in Procs \ {p} : at'[q] = at[q]
      /\ at'[p] = Tail(at[p])
      /\ Head(at[p]) = "create"
      /\ \A s : Awaits(p, s) <=> s = "create" \/ Awaits(p, s)'
  BY <1>1, <1>2, Stepped
<1>4. op[p] = "create" /\ Tail(at[p]) \in {<<>>, <<"config">>}
  <2> DEFINE o == op[p]  t == at[p]
  <2>1. <<o, t>> \in Remaining /\ Head(t) = "create"
    BY <1>3
  <2> HIDE DEF o, t
  <2>2. o = "create" /\ Tail(t) \in {<<>>, <<"config">>}
    BY <2>1, Onward
  <2> QED
    BY <2>2 DEF o, t
<1>5. at[p] # <<>> /\ path[p] \in Paths /\ mine[p] # None /\ draft[p] # None
  <2>1. at[p] # <<>>
    BY <1>2 DEF Step
  <2> QED
    BY <1>1, <1>4, <2>1 DEF Sound, Editing
<1>6. Empty \in Contents /\ Empty # None
  BY CommandsAssumption DEF Empty, Contents
<1>7. /\ files' \in [Paths -> Contents \cup {None}]
      /\ files'[path[p]] = Empty
      /\ \A f \in Paths \ {path[p]} : files'[f] = files[f]
  BY <1>1, <1>2, <1>5, <1>6 DEF TypeOK
<1>8. Lasting /\ Existing' = Existing \cup {path[p]}
  BY <1>5, <1>6, <1>7 DEF Lasting, Existing
<1>9. /\ config' \in Configs /\ intent' \in [Paths -> Policies \cup {None}]
      /\ drift' \in BOOLEAN /\ settled' \subseteq Paths
  <2>1. drift' \in BOOLEAN
    BY <1>1, <1>2, Zenon DEF TypeOK
  <2> QED
    BY <1>1, <1>2, <1>5, <2>1 DEF TypeOK
<1>10. \A s : s # "create" => (Awaits(p, s) <=> Awaits(p, s)')
  BY <1>3
<1>11. CASE Tail(at[p]) = <<>>
  <2>1. Exit(p) /\ seen' = [seen EXCEPT ![p] = {}]
    BY <1>11 DEF CreateFile
  <2>2. at'[p] = <<>>
    BY <1>3, <1>11
  <2>3. seen' \in [Procs -> SUBSET [file : Paths, policy : Policies \cup {None}]]
    BY <1>1, <2>1 DEF TypeOK
  <2>4. Shape' /\ \A q \in Procs \ {p} : Same(q)
    BY <1>3, <1>7, <1>8, <1>9, <2>1, <2>2, <2>3, ExitShape
  <2>5. op'[p] = "done" /\ leave'[p] = "none"
    BY <1>1, <2>1, Exited
  <2>6. \A q \in Procs \ {p} : seen'[q] = seen[q]
    BY <1>1, <2>1 DEF TypeOK
  <2> QED
    BY <1>3, <1>4, <1>5, <1>7, <1>8, <1>10, <2>2, <2>4, <2>5, <2>6
<1>12. CASE Tail(at[p]) # <<>>
  <2>1. UNCHANGED <<op, path, dest, memory, seen>>
    BY <1>12 DEF CreateFile
  <2>2. UNCHANGED <<asked, mine, draft, given, copy, named, access, leave>>
    BY <2>1 DEF memory, edits
  <2>3. TypeOK'
    BY <1>1, <1>3, <1>7, <1>9, <2>1, <2>2 DEF TypeOK
  <2>4. \A q \in Procs \ {p} : Same(q)
    BY <1>3, <2>1, <2>2 DEF Same
  <2>5. \A q \in Procs \ {p} : Sound(q)'
    BY <1>1, <1>8, <2>4, SameSound
  <2>6. <<op[p], at'[p]>> \in Remaining
    BY <1>3, <1>12, Onward
  <2>7. Sound(p)'
    BY <1>4, <1>5, <2>1, <2>2, <2>6 DEF Sound, Editing
  <2>8. Shape'
    BY <2>3, <2>5, <2>7, ShapeNext
  <2>9. at'[p] # <<>>
    BY <1>3, <1>12
  <2> QED
    BY <1>3, <1>4, <1>5, <1>7, <1>8, <1>10, <2>1, <2>4, <2>8, <2>9
<1> QED
  BY <1>11, <1>12

(* What a command makes of the items it opened are items again. *)
LEMMA ResultsType ==
  ASSUME NEW p \in Procs, copy[p] \in Contents, named[p] \in SUBSET Apps,
         op[p] \in {"apply", "add", "cp"} => access[p] \in Accesses,
         NEW result \in Results(p)
  PROVE  result \in Contents
<1>1. CASE op[p] = "apply"
  <2>1. result = [i \in Items |-> IF copy[p][i] = None THEN None ELSE access[p]]
    BY <1>1 DEF Results
  <2> QED
    BY <1>1, <2>1 DEF Contents
<1>2. CASE op[p] \in {"add", "cp"}
  <2>1. \E i \in Items \ Present(copy[p]) : result = [copy[p] EXCEPT ![i] = access[p]]
    BY <1>2 DEF Results
  <2> QED
    BY <1>2, <2>1 DEF Contents
<1>3. CASE op[p] = "trust"
  <2> DEFINE offered == IF named[p] = {} THEN {AllowAny, Prompt} ELSE {TrustOnly(named[p])}
  <2>1. \E trusted \in offered, i \in Present(copy[p]) :
           result = [copy[p] EXCEPT ![i] = trusted]
    BY <1>3 DEF Results
  <2>2. offered \subseteq Accesses
    BY DEF Accesses, AllowAny, Prompt, TrustOnly
  <2> HIDE DEF offered
  <2> QED
    BY <2>1, <2>2 DEF Contents, Present
<1>4. CASE op[p] = "rm"
  <2>1. \E gone : result = [i \in Items |-> IF i \in gone THEN None ELSE copy[p][i]]
    BY <1>4 DEF Results
  <2> QED
    BY <2>1 DEF Contents
<1>5. CASE op[p] \notin {"apply", "add", "cp", "trust", "rm"}
  BY <1>5 DEF Results
<1> QED
  BY <1>1, <1>2, <1>3, <1>4, <1>5

(* `Keychain::save' *)
LEMMA SaveFileShape ==
  ASSUME Shape, NEW p \in Procs, SaveFile(p)
  PROVE  /\ Shape' /\ \A q \in Procs \ {p} : Same(q)
         /\ at[p] = <<"save">> /\ at'[p] = <<>> /\ op'[p] = "done" /\ leave'[p] = "none"
         /\ op[p] \notin Editing /\ op[p] # "get"
         /\ Written(p) \in Paths /\ copy[p] \in Contents
         /\ \E result \in Results(p) :
               result \in Contents /\ files' = [files EXCEPT ![Written(p)] = result]
         /\ settled' = IF Fits(p, Written(p)) /\ (copy[p] = files[Written(p)] \/ op[p] = "apply")
                       THEN settled \cup {Written(p)} ELSE settled \ {Written(p)}
         /\ seen' = [seen EXCEPT ![p] = {}]
         /\ Existing' = Existing
         /\ UNCHANGED <<config, intent, drift>>
<1>1. TypeOK /\ \A q \in Procs : Sound(q)
  BY ShapeIs
<1>2. /\ Step(p, "save")
      /\ \E result \in Results(p) : files' = [files EXCEPT ![Written(p)] = result]
      /\ settled' = IF Fits(p, Written(p)) /\ (copy[p] = files[Written(p)] \/ op[p] = "apply")
                    THEN settled \cup {Written(p)} ELSE settled \ {Written(p)}
      /\ Exit(p)
      /\ seen' = [seen EXCEPT ![p] = {}]
      /\ UNCHANGED <<config, intent, drift>>
  BY Zenon DEF SaveFile
<1>3. /\ <<op[p], at[p]>> \in Remaining
      /\ at' \in [Procs -> Seq(Steps)]
      /\ \A q \in Procs \ {p} : at'[q] = at[q]
      /\ at'[p] = Tail(at[p])
      /\ Head(at[p]) = "save"
  BY <1>1, <1>2, Stepped
<1>4. /\ op[p] \in {"apply", "add", "trust", "cp", "edit", "rm"}
      /\ at[p] = <<"save">> /\ at[p] # <<>> /\ at'[p] = <<>>
  BY <1>3, Onward
<1>5. \A s : s # "save" => ~Awaits(p, s)
  BY <1>4 DEF Awaits
<1>6. /\ op[p] \notin Editing /\ op[p] # "get" /\ op[p] # "config"
      /\ copy[p] # None /\ files[path[p]] # None /\ path[p] \in Paths
      /\ op[p] = "cp" => dest[p] \in Existing
      /\ op[p] \in {"apply", "add", "cp"} => access[p] # None
  BY <1>1, <1>4, <1>5 DEF Sound, Editing
<1>7. Written(p) \in Paths /\ files[Written(p)] # None
  BY <1>6 DEF Written, Existing
<1>8. /\ copy[p] \in Contents /\ named[p] \in SUBSET Apps
      /\ op[p] \in {"apply", "add", "cp"} => access[p] \in Accesses
  BY <1>1, <1>6 DEF TypeOK
<1>9. PICK result \in Results(p) : files' = [files EXCEPT ![Written(p)] = result]
  BY <1>2
<1>10. result \in Contents /\ result # None
  BY <1>8, <1>9, ResultsType, CommandsAssumption
<1>11. files' \in [Paths -> Contents \cup {None}] /\ Lasting /\ Existing' = Existing
  BY <1>1, <1>7, <1>9, <1>10 DEF TypeOK, Lasting, Existing
<1>12. /\ seen' \in [Procs -> SUBSET [file : Paths, policy : Policies \cup {None}]]
       /\ config' \in Configs /\ intent' \in [Paths -> Policies \cup {None}]
       /\ drift' \in BOOLEAN /\ settled' \subseteq Paths
  BY <1>1, <1>2, <1>7 DEF TypeOK
<1>13. Shape' /\ \A q \in Procs \ {p} : Same(q)
  BY <1>2, <1>3, <1>4, <1>11, <1>12, ExitShape
<1>14. op'[p] = "done" /\ leave'[p] = "none"
  BY <1>1, <1>2, Exited
<1> QED
  BY <1>2, <1>4, <1>6, <1>7, <1>8, <1>9, <1>10, <1>11, <1>13, <1>14

(* At first no process has anything to do. *)
LEMMA InitShape == Init => Shape
<1> SUFFICES ASSUME Init PROVE Shape
  OBVIOUS
<1>1. DefaultConfig(Login) \in Configs
  BY CommandsAssumption DEF DefaultConfig, Configs
<1>2. files \in [Paths -> Contents \cup {None}]
  <2>1. PICK there \in SUBSET Found :
           files = [f \in Paths |-> IF f \in there THEN [i \in Items |-> AllowAny] ELSE None]
    BY DEF Init
  <2>2. [i \in Items |-> AllowAny] \in Contents
    BY DEF Contents, Accesses
  <2> QED
    BY <2>1, <2>2
<1>3. TypeOK
  <2>1. /\ config \in Configs
        /\ op \in [Procs -> Ops \cup {None, "done"}]
        /\ at \in [Procs -> Seq(Steps)]
        /\ path \in [Procs -> Paths \cup {None}]
        /\ dest \in [Procs -> Paths \cup {None}]
    BY <1>1 DEF Init
  <2>2. /\ asked \in [Procs -> Selectors \cup {None}]
        /\ given \in [Procs -> Policies \cup {None}]
        /\ mine \in [Procs -> Configs \cup {None}]
        /\ draft \in [Procs -> Configs \cup {None}]
        /\ copy \in [Procs -> Contents \cup {None}]
    BY DEF Init
  <2>3. /\ named \in [Procs -> SUBSET Apps]
        /\ access \in [Procs -> Accesses \cup {None}]
        /\ leave \in [Procs -> {"none", "free", "confirmed"}]
        /\ intent \in [Paths -> Policies \cup {None}]
        /\ seen \in [Procs -> SUBSET [file : Paths, policy : Policies \cup {None}]]
        /\ drift \in BOOLEAN
        /\ settled \subseteq Paths
    BY DEF Init
  <2> QED
    BY <1>2, <2>1, <2>2, <2>3 DEF TypeOK
<1>4. \A p \in Procs : Sound(p)
  BY DEF Init, Sound
<1> QED
  BY <1>3, <1>4, ShapeIs

(* One step of a process. *)
LEMMA StepShape ==
  ASSUME Shape, NEW p \in Procs,
         \/ Command(p) \/ SaveConfig(p) \/ CreateFile(p) \/ FindDestination(p)
         \/ ChooseAccess(p) \/ Open(p) \/ OpenDestination(p) \/ Authorize(p)
         \/ PrintSecret(p) \/ SaveFile(p) \/ Fail(p)
  PROVE  Shape'
<1>0. TypeOK
  BY ShapeIs
<1>1. CASE Command(p)
  <2>1. op[p] = None
    BY <1>1 DEF Command
  <2>2. CASE Configure(p)
    <3>1. PICK edited \in Configs :
             Edits(p, "config", None, <<"config">>, None, edited, None)
      BY <1>0, <2>2, ConfigureIs
    <3>2. <<"config", <<"config">>>> \in Remaining /\ "config" \in Editing
      BY DEF Remaining, Editing
    <3> QED
      BY <2>1, <3>1, <3>2, EditsShape
  <2>3. CASE SetAccess(p) \/ ClearTrust(p)
    <3>1. PICK argument \in Typed, policy \in Policies : SetAs(p, argument, policy)
      BY <1>0, <2>3, SetIs
    <3>2. <<"set", <<"config">>>> \in Remaining /\ "set" \in Editing
      BY DEF Remaining, Editing
    <3>3. SetPolicy(config, policy) \in Configs
      BY <1>0, SetPolicyIs DEF TypeOK
    <3>4. Target(argument) \in Paths
      BY <1>0, TargetType
    <3> QED
      BY <2>1, <3>1, <3>2, <3>3, <3>4, EditsShape DEF SetAs
  <2>4. CASE ClearAccess(p)
    <3>1. PICK argument \in Typed : ClearAs(p, argument)
      BY <2>4, ClearIs
    <3>2. <<"clear", <<"config">>>> \in Remaining /\ "clear" \in Editing
      BY DEF Remaining, Editing
    <3> DEFINE keychain == PolicyFor(config, Target(argument), Existing).keychain
    <3>3. ClearPolicy(config, keychain) \in Configs
      BY <1>0, ClearPolicyType DEF TypeOK
    <3>4. Target(argument) \in Paths
      BY <1>0, TargetType
    <3> QED
      BY <2>1, <3>1, <3>2, <3>3, <3>4, EditsShape DEF ClearAs
  <2>5. CASE Create(p)
    <3>1. PICK argument \in Typed, policy \in Policies \cup {None} : CreateAs(p, argument, policy)
      BY <1>0, <2>5, CreateIs
    <3>2. /\ <<"create", <<"create", "config">>>> \in Remaining
          /\ <<"create", <<"create">>>> \in Remaining /\ "create" \in Editing
      BY DEF Remaining, Editing
    <3>3. policy # None => SetPolicy(config, policy) \in Configs
      BY <1>0, SetPolicyIs DEF TypeOK
    <3>4. Target(argument) \in Paths /\ config \in Configs
      BY <1>0, TargetType DEF TypeOK
    <3> QED
      BY <2>1, <3>1, <3>2, <3>3, <3>4, EditsShape DEF CreateAs
  <2>6. CASE Add(p) \/ Trust(p) \/ Copy(p) \/ Get(p) \/ Edit(p) \/ RemoveItems(p)
    <3>1. PICK command, f, g, apps, todo : ItemsAs(p, command, f, g, apps, todo)
      BY <1>0, <2>6, ItemsIs
    <3>2. command \in Ops /\ command \notin Editing /\ command # "apply"
      BY <3>1 DEF ItemsAs, Ops, Editing
    <3> QED
      BY <2>1, <3>1, <3>2, OnItemsShape DEF ItemsAs
  <2>7. CASE Apply(p)
    BY <2>1, <2>7, ApplyShape
  <2>8. CASE Audit(p)
    BY <2>1, <2>8, AuditShape
  <2> QED
    BY <1>1, <2>2, <2>3, <2>4, <2>5, <2>6, <2>7, <2>8 DEF Command
<1>2. CASE SaveConfig(p)
  BY <1>2, SaveConfigShape
<1>3. CASE CreateFile(p)
  BY <1>3, CreateFileShape
<1>4. CASE ChooseAccess(p)
  BY <1>4, ChooseShape
<1>5. CASE Open(p) \/ OpenDestination(p)
  BY <1>5, OpenShape
<1>6. CASE Authorize(p)
  BY <1>6, AuthorizeShape
<1>7. CASE PrintSecret(p) \/ Fail(p)
  BY <1>7, EndShape
<1>8. CASE SaveFile(p)
  BY <1>8, SaveFileShape
<1>9. CASE FindDestination(p)
  BY <1>9, FindShape
<1> QED
  BY <1>1, <1>2, <1>3, <1>4, <1>5, <1>6, <1>7, <1>8, <1>9

(* Every variable keeps its type, and no process is ever without what its next step    *)
(* uses: a copy to save, a policy to keep, a keychain that is still there.             *)
THEOREM ShapeHolds == Spec => []Shape
<1>1. ASSUME Shape, [Next]_vars PROVE Shape'
  <2>1. CASE Next
    <3>1. PICK p \in Procs :
            \/ Command(p) \/ SaveConfig(p) \/ CreateFile(p) \/ FindDestination(p)
            \/ ChooseAccess(p) \/ Open(p) \/ OpenDestination(p) \/ Authorize(p)
            \/ PrintSecret(p) \/ SaveFile(p) \/ Fail(p)
      BY <2>1 DEF Next
    <3> QED
      BY <1>1, <3>1, StepShape
  <2>2. CASE UNCHANGED vars
    <3>1. UNCHANGED <<config, files, op, at, path, dest, asked, mine, draft, given>>
      BY <2>2 DEF vars, disk, steps, memory, edits
    <3>2. UNCHANGED <<copy, named, access, leave, intent, seen, drift, settled>>
      BY <2>2 DEF vars, memory, history
    <3>3. TypeOK' /\ \A p \in Procs : Sound(p)
      BY <1>1, <3>1, <3>2, ShapeIs DEF TypeOK
    <3>4. \A p \in Procs : Sound(p)'
      BY <3>1, <3>2, <3>3, SameSound DEF Same, Lasting
    <3> QED
      BY <3>3, <3>4, ShapeNext
  <2> QED
    BY <1>1, <2>1, <2>2
<1> QED
  BY <1>1, InitShape, PTL DEF Spec

------------------------------------------------------------------------------
(* The course of a process: what it will write is what its users said. *)

DraftedBy(p) ==
  /\ op[p] = "config" => draft[p].access = mine[p].access
  /\ op[p] = "set" =>
        /\ given[p] # None
        /\ draft[p] = SetPolicy(mine[p], given[p])
        /\ given[p].keychain = asked[p] \/ Declared(mine[p], given[p].keychain)
        /\ Means(given[p].keychain) = path[p]
        /\ \A selector \in Selecting(mine[p]) :
              Means(selector) = path[p] => selector = given[p].keychain
  /\ op[p] = "clear" =>
        /\ given[p] = None
        /\ \E selector \in Selecting(mine[p]) :
              Means(selector) = path[p] /\ draft[p] = ClearPolicy(mine[p], selector)
  /\ op[p] = "create" /\ Awaits(p, "config") =>
        /\ given[p] # None
        /\ draft[p] = SetPolicy(mine[p], given[p])
        /\ given[p].keychain = path[p]

ToldTo(p) ==
  \A f \in {path[p], dest[p]} \ {None} : [file |-> f, policy |-> intent[f]] \in seen[p]

ChosenBy(p) ==
  /\ op[p] \in {"add", "cp"} /\ ~Awaits(p, "choose") =>
        \E policy \in Throughout(p, Written(p)) : access[p] = AccessForWrite(policy, named[p])
  /\ op[p] = "apply" =>
        \E policy \in Throughout(p, path[p]) : policy # None /\ access[p] = NativeAccess(policy)

Gated(p) ==
  leave[p] = "free" /\ ~drift => \E policy \in Throughout(p, path[p]) : Decision(policy) = "allow"

Right(p) ==
  /\ op[p] = None => leave[p] = "none"
  /\ Gated(p)
  /\ at[p] # <<>> => ToldTo(p) /\ (~drift => DraftedBy(p) /\ ChosenBy(p))

(* Course and SecretsGated, process by process, now and after a step. *)
LEMMA CourseIs ==
  Course /\ SecretsGated <=> Apart /\ \A p \in Procs : Right(p)
BY DEF Course, SecretsGated, Right, Gated, Idle, Drafted, DraftedBy, Told, ToldTo, Chosen,
       ChosenBy, Running

(* The same of the state after a step. *)
LEMMA CourseNext ==
  (Course /\ SecretsGated)' <=> Apart' /\ \A p \in Procs : Right(p)'
BY DEF Course, SecretsGated, Right, Gated, Idle, Drafted, DraftedBy, Told, ToldTo, Chosen,
       ChosenBy, Running

(* What a process has been told of a keychain it is not untold. *)
LEMMA ThroughoutGrows ==
  ASSUME NEW q, seen[q] \subseteq seen'[q], NEW f
  PROVE  Throughout(q, f) \subseteq Throughout(q, f)'
BY DEF Throughout

(* A policy that was seen of a file is among those it had. *)
LEMMA ThroughoutHas ==
  ASSUME NEW q, NEW f, NEW policy, [file |-> f, policy |-> policy] \in seen[q]
  PROVE  policy \in Throughout(q, f)
<1> DEFINE s == [file |-> f, policy |-> policy]
<1>1. s.file = f /\ s.policy = policy
  OBVIOUS
<1> QED
  BY <1>1 DEF Throughout

(* What the others do leaves a process right, as long as it is told of new policies    *)
(* and what it selects keeps its meaning.                                              *)
LEMMA SameDrafted ==
  ASSUME NEW q \in Procs, DraftedBy(q), Same(q), given[q] \in Policies \cup {None},
         mine[q] # None \/ op[q] \notin Editing,
         mine[q] # None => \A s \in Selecting(mine[q]) : Means(s)' = Means(s),
         asked[q] # None => Means(asked[q])' = Means(asked[q])
  PROVE  DraftedBy(q)'
<1>1. /\ op'[q] = op[q] /\ path'[q] = path[q] /\ asked'[q] = asked[q] /\ mine'[q] = mine[q]
      /\ draft'[q] = draft[q] /\ given'[q] = given[q]
  BY DEF Same
<1>2. Awaits(q, "config")' <=> Awaits(q, "config")
  BY DEF Same, Awaits
<1>3. CASE op[q] = "set"
  <2>1. /\ given[q] # None
        /\ draft[q] = SetPolicy(mine[q], given[q])
        /\ given[q].keychain = asked[q] \/ Declared(mine[q], given[q].keychain)
        /\ Means(given[q].keychain) = path[q]
        /\ \A s \in Selecting(mine[q]) : Means(s) = path[q] => s = given[q].keychain
    BY <1>3 DEF DraftedBy
  <2>2. given[q].keychain \in Selectors /\ mine[q] # None
    BY <1>3, <2>1 DEF Policies, Editing
  <2>3. Means(given[q].keychain)' = Means(given[q].keychain)
    <3>1. CASE given[q].keychain = asked[q]
      BY <1>1, <2>2, <3>1, ConfigAssumption
    <3>2. CASE Declared(mine[q], given[q].keychain)
      <4>1. given[q].keychain \in Selecting(mine[q])
        BY <3>2 DEF Declared, Selecting
      <4> QED
        BY <1>1, <2>2, <4>1
    <3> QED
      BY <2>1, <3>1, <3>2
  <2>4. \A s \in Selecting(mine[q]) : Means(s)' = path[q] => s = given[q].keychain
    BY <2>1, <2>2
  <2> QED
    BY <1>1, <1>3, <2>1, <2>3, <2>4 DEF DraftedBy, Selecting
<1>4. CASE op[q] = "clear"
  <2>1. mine[q] # None
    BY <1>4 DEF Editing
  <2>2. PICK s \in Selecting(mine[q]) : Means(s) = path[q] /\ draft[q] = ClearPolicy(mine[q], s)
    BY <1>4 DEF DraftedBy
  <2>3. Means(s)' = path[q]
    BY <2>1, <2>2
  <2>4. s \in Selecting(mine[q])' /\ given[q] = None
    BY <1>1, <1>4, <2>2 DEF Selecting, DraftedBy
  <2> QED
    BY <1>1, <1>4, <2>2, <2>3, <2>4 DEF DraftedBy
<1>5. CASE op[q] \notin {"set", "clear"}
  BY <1>1, <1>2, <1>5 DEF DraftedBy
<1> QED
  BY <1>3, <1>4, <1>5

(* A command whose own state stays, and that has seen no less, has chosen as before. *)
LEMMA SameChosen ==
  ASSUME NEW q \in Procs, ChosenBy(q), Same(q), seen[q] \subseteq seen'[q]
  PROVE  ChosenBy(q)'
<1>1. /\ op'[q] = op[q] /\ path'[q] = path[q] /\ access'[q] = access[q] /\ named'[q] = named[q]
      /\ Written(q)' = Written(q)
  BY DEF Same, Written
<1>2. Awaits(q, "choose")' <=> Awaits(q, "choose")
  BY DEF Same, Awaits
<1>3. /\ Throughout(q, Written(q)) \subseteq Throughout(q, Written(q))'
      /\ Throughout(q, path[q]) \subseteq Throughout(q, path[q])'
  BY <1>1, ThroughoutGrows DEF Throughout
<1> QED
  BY <1>1, <1>2, <1>3 DEF ChosenBy

(* So does all that is Right of it, if what it goes by means the same. *)
LEMMA SameRight ==
  ASSUME Shape, NEW q \in Procs, Right(q), Same(q), drift => drift', seen[q] \subseteq seen'[q],
         at[q] # <<>> => \A f \in {path[q], dest[q]} \ {None} :
            intent'[f] = intent[f] \/ [file |-> f, policy |-> intent'[f]] \in seen'[q],
         ~drift' /\ at[q] # <<>> =>
            /\ mine[q] # None => \A s \in Selecting(mine[q]) : Means(s)' = Means(s)
            /\ asked[q] # None => Means(asked[q])' = Means(asked[q])
  PROVE  Right(q)'
<1>1. /\ op'[q] = op[q] /\ at'[q] = at[q] /\ path'[q] = path[q] /\ dest'[q] = dest[q]
      /\ leave'[q] = leave[q]
  BY DEF Same
<1>2. Gated(q)'
  <2>1. Throughout(q, path[q]) \subseteq Throughout(q, path[q])'
    BY <1>1, ThroughoutGrows DEF Throughout
  <2> QED
    BY <1>1, <2>1 DEF Right, Gated
<1>3. ASSUME at[q] # <<>> PROVE ToldTo(q)'
  BY <1>1, <1>3 DEF Right, ToldTo
<1>4. ASSUME at[q] # <<>>, ~drift' PROVE DraftedBy(q)' /\ ChosenBy(q)'
  <2>1. DraftedBy(q) /\ ChosenBy(q)
    BY <1>4 DEF Right
  <2>2. Sound(q) /\ given[q] \in Policies \cup {None}
    BY ShapeIs DEF TypeOK
  <2>3. mine[q] # None \/ op[q] \notin Editing
    BY <1>4, <2>2 DEF Sound
  <2> QED
    BY <1>4, <2>1, <2>2, <2>3, SameDrafted, SameChosen
<1> QED
  BY <1>1, <1>2, <1>3, <1>4 DEF Right

(* All that holds of a state while nobody has lost a policy. *)
Sure ==
  /\ Shape
  /\ Apart
  /\ PolicyStays
  /\ AuditHolds
  /\ \A p \in Procs : Right(p)

(* Sure is the properties together with what they rest on. *)
LEMMA SureIs == Sure <=> Shape /\ Course /\ PolicyStays /\ SecretsGated /\ AuditHolds
BY CourseIs DEF Sure

(* A step that touches neither the files nor the histories is only its process's. *)
LEMMA Quiet ==
  ASSUME Sure, NEW p \in Procs, Shape', \A q \in Procs \ {p} : Same(q) /\ seen'[q] = seen[q],
         UNCHANGED <<config, files, intent, drift, settled>>, Right(p)'
  PROVE  Sure'
<1>1. Existing' = Existing
  BY DEF Existing
<1>2. \A s : Means(s)' = Means(s)
  BY <1>1 DEF Means
<1>3. Apart'
  BY <1>1 DEF Sure, Apart
<1>4. PolicyStays'
  BY <1>1 DEF Sure, PolicyStays, InForce
<1>5. AuditHolds'
  BY DEF Sure, AuditHolds, Audited
<1>6. ASSUME NEW q \in Procs \ {p} PROVE Right(q)'
  <2>1. Right(q) /\ Same(q) /\ Shape /\ seen[q] \subseteq seen'[q]
    BY DEF Sure
  <2>2. at[q] # <<>> => \A f \in {path[q], dest[q]} \ {None} :
           intent'[f] = intent[f] \/ [file |-> f, policy |-> intent'[f]] \in seen'[q]
    OBVIOUS
  <2>3. /\ mine[q] # None => \A s \in Selecting(mine[q]) : Means(s)' = Means(s)
        /\ asked[q] # None => Means(asked[q])' = Means(asked[q])
    BY <1>1, <2>1 DEF Same, Means
  <2> QED
    BY <2>1, <2>2, <2>3, SameRight
<1> QED
  BY <1>3, <1>4, <1>5, <1>6 DEF Sure

(* A command that begins has been told the policies of its keychains. *)
LEMMA BegunRight ==
  ASSUME Sure, NEW p \in Procs, op[p] = None, NEW f, NEW g,
         path'[p] = f, dest'[p] = g, leave'[p] = leave[p], op'[p] \in Ops,
         seen' = [seen EXCEPT ![p] =
                     {[file |-> h, policy |-> intent[h]] : h \in {f, g} \ {None}}],
         UNCHANGED <<config, files, intent, drift, settled>>,
         Shape' /\ \A q \in Procs \ {p} : Same(q),
         ~drift => DraftedBy(p)' /\ ChosenBy(p)'
  PROVE  Sure'
<1>1. Shape /\ TypeOK /\ Right(p)
  BY ShapeIs DEF Sure
<1>2. leave'[p] = "none"
  BY <1>1 DEF Right
<1>3. seen'[p] = {[file |-> h, policy |-> intent[h]] : h \in {f, g} \ {None}}
  BY <1>1 DEF TypeOK
<1>4. ToldTo(p)'
  BY <1>3 DEF ToldTo
<1>5. Right(p)'
  BY <1>2, <1>4 DEF Right, Gated
<1>6. \A q \in Procs \ {p} : seen'[q] = seen[q]
  BY <1>1 DEF TypeOK
<1> QED
  BY <1>5, <1>6, Quiet

(* A command that begins has read what is saved now. *)
LEMMA CommandSure ==
  ASSUME Env = None, Sure, NEW p \in Procs, Command(p)
  PROVE  Sure'
<1>0. Shape /\ TypeOK /\ op[p] = None
  BY ShapeIs DEF Sure, Command
<1>1. CASE Configure(p)
  <2>1. PICK edited \in Configs :
           /\ edited.access = config.access
           /\ Edits(p, "config", None, <<"config">>, None, edited, None)
    BY <1>0, <1>1, ConfigureIs
  <2>2. "config" \in Editing /\ "config" \in Ops
    BY DEF Editing, Ops
  <2> DEFINE f == None
             todo == <<"config">>
  <2>3. /\ Edits(p, "config", f, todo, f, edited, f)
        /\ f = None /\ f \in Paths \cup {None} /\ f \in Policies \cup {None}
        /\ f # None => f \in Typed
        /\ "config" # "config" => f \in Paths
    BY <2>1
  <2>4. <<"config", todo>> \in Remaining
    BY DEF Remaining
  <2> HIDE DEF f, todo
  <2>5. edited \in Configs /\ Shape /\ op[p] = None
    BY <1>0, <2>1
  <2>6. Shape' /\ \A q \in Procs \ {p} : Same(q)
    BY <2>2, <2>3, <2>4, <2>5, EditsShape
  <2>7. /\ Begin(p, "config", f, None, todo)
        /\ mine' = [mine EXCEPT ![p] = config] /\ draft' = [draft EXCEPT ![p] = edited]
    BY <2>3 DEF Edits
  <2>8. /\ op' = [op EXCEPT ![p] = "config"] /\ path' = [path EXCEPT ![p] = f]
        /\ dest' = [dest EXCEPT ![p] = None]
        /\ seen' = [seen EXCEPT ![p] =
                       {[file |-> h, policy |-> intent[h]] : h \in {f, None} \ {None}}]
        /\ UNCHANGED <<config, files, leave, intent, drift, settled>>
    BY <2>7 DEF Begin, disk
  <2>9. /\ op'[p] = "config" /\ path'[p] = f /\ dest'[p] = None
        /\ mine'[p] = config /\ draft'[p] = edited /\ leave'[p] = leave[p]
    BY <1>0, <2>7, <2>8 DEF TypeOK
  <2>10. DraftedBy(p)' /\ ChosenBy(p)'
    BY <2>1, <2>9 DEF DraftedBy, ChosenBy
  <2> QED
    BY <1>0, <2>2, <2>9, <2>10, <2>6, <2>8, BegunRight
<1>2. CASE SetAccess(p) \/ ClearTrust(p)
  <2>1. PICK argument \in Typed, policy \in Policies : SetAs(p, argument, policy)
    BY <1>0, <1>2, SetIs
  <2> DEFINE f == Target(argument)
             old == PolicyFor(config, f, Existing)
  <2>2. /\ policy.keychain = IF old # None THEN old.keychain
                             ELSE IF argument # None THEN argument ELSE config.default
        /\ Edits(p, "set", f, <<"config">>, argument, SetPolicy(config, policy), policy)
    BY <2>1 DEF SetAs
  <2>3. <<"set", <<"config">>>> \in Remaining /\ "set" \in Editing /\ "set" \in Ops
    BY DEF Remaining, Editing, Ops
  <2>4. SetPolicy(config, policy) \in Configs /\ config \in Configs
    BY <1>0, SetPolicyIs DEF TypeOK
  <2>5. f \in Paths /\ f # None
    BY <1>0, TargetType, ConfigAssumption DEF Selectors
  <2>6. f = Means(Asked(config, argument))
    BY DEF Target, Means
  <2> HIDE DEF f
  <2>7. /\ Shape' /\ \A q \in Procs \ {p} : Same(q)
        /\ op'[p] = "set" /\ path'[p] = f /\ dest'[p] = None
        /\ mine'[p] = config /\ draft'[p] = SetPolicy(config, policy) /\ given'[p] = policy
        /\ asked'[p] = IF f = None THEN None ELSE Asked(config, argument)
        /\ leave'[p] = leave[p]
        /\ seen' = [seen EXCEPT ![p] =
                       {[file |-> h, policy |-> intent[h]] : h \in {f, None} \ {None}}]
        /\ UNCHANGED <<config, files, intent, drift, settled>>
    BY <1>0, <2>2, <2>3, <2>4, <2>5, EditsShape
  <2>8. Existing' = Existing
    BY <2>7 DEF Existing
  <2>9. \A s : Means(s)' = Means(s)
    BY <2>7, <2>8 DEF Means
  <2>10. ASSUME ~drift PROVE DraftedBy(p)'
    <3>1. ~Doubled(config, Existing)
      BY <2>10 DEF Sure, Apart
    <3>2. CASE old # None
      <4>1. PICK i \in DOMAIN config.access :
               /\ old = config.access[i]
               /\ Means(config.access[i].keychain) = f
        BY <2>4, <3>2, PolicyFound DEF Means
      <4>2. policy.keychain = config.access[i].keychain
        BY <2>2, <3>2, <4>1
      <4>3. Declared(config, policy.keychain)
        BY <4>2 DEF Declared
      <4>4. ASSUME NEW s \in Selecting(config), Means(s) = f PROVE s = policy.keychain
        <5>1. PICK j \in DOMAIN config.access : config.access[j].keychain = s
          BY DEF Selecting
        <5>2. PolicyFor(config, Resolve(config, config.access[j].keychain, Existing), Existing)
                = config.access[j]
          BY <2>4, <3>1, PolicyUnique
        <5>3. old = config.access[j]
          BY <4>4, <5>1, <5>2 DEF Means
        <5> QED
          BY <2>2, <3>2, <5>1, <5>3
      <4>5. policy # None
        BY ConfigAssumption
      <4> QED
        BY <2>7, <2>9, <4>1, <4>2, <4>3, <4>4, <4>5 DEF DraftedBy
    <3>3. CASE old = None
      <4>1. policy.keychain = Asked(config, argument)
        BY <2>2, <3>3 DEF Asked
      <4>2. Means(policy.keychain) = f
        BY <2>6, <4>1
      <4>3. ASSUME NEW s \in Selecting(config), Means(s) = f PROVE FALSE
        <5>1. PICK j \in DOMAIN config.access : config.access[j].keychain = s
          BY DEF Selecting
        <5>2. PolicyFor(config, Resolve(config, config.access[j].keychain, Existing), Existing)
                = config.access[j]
          BY <2>4, <3>1, PolicyUnique
        <5>3. old = config.access[j] /\ config.access[j] \in Policies
          BY <2>4, <4>3, <5>1, <5>2 DEF Means, Configs
        <5> QED
          BY <3>3, <5>3, ConfigAssumption
      <4>4. policy # None
        BY ConfigAssumption
      <4> QED
        BY <2>5, <2>7, <2>9, <4>1, <4>2, <4>3, <4>4 DEF DraftedBy
    <3> QED
      BY <3>2, <3>3
  <2>11. ChosenBy(p)'
    BY <2>7 DEF ChosenBy
  <2> QED
    BY <1>0, <2>3, <2>7, <2>10, <2>11, BegunRight
<1>3. CASE ClearAccess(p)
  <2>1. PICK argument \in Typed : ClearAs(p, argument)
    BY <1>3, ClearIs
  <2> DEFINE f == Target(argument)
             old == PolicyFor(config, f, Existing)
  <2>2. /\ old # None
        /\ Edits(p, "clear", f, <<"config">>, argument, ClearPolicy(config, old.keychain), None)
    BY <2>1 DEF ClearAs
  <2>3. <<"clear", <<"config">>>> \in Remaining /\ "clear" \in Editing /\ "clear" \in Ops
    BY DEF Remaining, Editing, Ops
  <2>4. ClearPolicy(config, old.keychain) \in Configs /\ config \in Configs
    BY <1>0, ClearPolicyType DEF TypeOK
  <2>5. f \in Paths
    BY <1>0, TargetType
  <2> HIDE DEF f
  <2>6. /\ Shape' /\ \A q \in Procs \ {p} : Same(q)
        /\ op'[p] = "clear" /\ path'[p] = f /\ dest'[p] = None /\ given'[p] = None
        /\ mine'[p] = config /\ draft'[p] = ClearPolicy(config, old.keychain)
        /\ leave'[p] = leave[p]
        /\ seen' = [seen EXCEPT ![p] =
                       {[file |-> h, policy |-> intent[h]] : h \in {f, None} \ {None}}]
        /\ UNCHANGED <<config, files, intent, drift, settled>>
    BY <1>0, <2>2, <2>3, <2>4, <2>5, EditsShape
  <2>7. Existing' = Existing
    BY <2>6 DEF Existing
  <2>8. \A s : Means(s)' = Means(s)
    BY <2>6, <2>7 DEF Means
  <2>9. PICK i \in DOMAIN config.access :
           old = config.access[i] /\ Means(config.access[i].keychain) = f
    BY <2>2, <2>4, PolicyFound DEF Means
  <2>10. old.keychain \in Selecting(config) /\ Means(old.keychain) = f
    BY <2>9 DEF Selecting
  <2>11. DraftedBy(p)' /\ ChosenBy(p)'
    BY <2>6, <2>8, <2>10 DEF DraftedBy, ChosenBy
  <2> QED
    BY <1>0, <2>3, <2>6, <2>11, BegunRight
<1>4. CASE Create(p)
  <2>1. PICK argument \in Typed, policy \in Policies \cup {None} : CreateAs(p, argument, policy)
    BY <1>0, <1>4, CreateIs
  <2> DEFINE f == Target(argument)
  <2>2. PICK todo, edited :
          /\ Edits(p, "create", f, todo, argument, edited, policy)
          /\ \/ /\ policy # None /\ policy.keychain = f
                /\ todo = <<"create", "config">> /\ edited = SetPolicy(config, policy)
             \/ /\ policy = None /\ todo = <<"create">> /\ edited = config
    BY <2>1 DEF CreateAs
  <2>3. <<"create", todo>> \in Remaining /\ "create" \in Editing /\ "create" \in Ops
    BY <2>2 DEF Remaining, Editing, Ops
  <2>4. edited \in Configs /\ config \in Configs
    BY <1>0, <2>2, SetPolicyIs DEF TypeOK
  <2>5. f \in Paths
    BY <1>0, TargetType
  <2> HIDE DEF f
  <2>6. /\ Shape' /\ \A q \in Procs \ {p} : Same(q)
        /\ op'[p] = "create" /\ at'[p] = todo /\ path'[p] = f /\ dest'[p] = None
        /\ given'[p] = policy /\ mine'[p] = config /\ draft'[p] = edited
        /\ leave'[p] = leave[p]
        /\ seen' = [seen EXCEPT ![p] =
                       {[file |-> h, policy |-> intent[h]] : h \in {f, None} \ {None}}]
        /\ UNCHANGED <<config, files, intent, drift, settled>>
    BY <1>0, <2>2, <2>3, <2>4, <2>5, EditsShape
  <2>7. Awaits(p, "config")' => policy # None
    BY <2>2, <2>6 DEF Awaits
  <2>8. DraftedBy(p)' /\ ChosenBy(p)'
    BY <2>2, <2>6, <2>7 DEF DraftedBy, ChosenBy
  <2> QED
    BY <1>0, <2>3, <2>6, <2>8, BegunRight
<1>5. CASE Add(p) \/ Trust(p) \/ Copy(p) \/ Get(p) \/ Edit(p) \/ RemoveItems(p)
  <2>1. PICK command, f, g, apps, todo : ItemsAs(p, command, f, g, apps, todo)
    BY <1>0, <1>5, ItemsIs
  <2>2. command \in Ops /\ command \notin Editing /\ command # "apply"
    BY <2>1 DEF ItemsAs, Ops, Editing
  <2>3. /\ Shape' /\ \A q \in Procs \ {p} : Same(q)
        /\ op'[p] = command /\ at'[p] = todo /\ path'[p] = f /\ dest'[p] = g
        /\ leave'[p] = leave[p]
        /\ seen' = [seen EXCEPT ![p] =
                       {[file |-> h, policy |-> intent[h]] : h \in {f, g} \ {None}}]
        /\ UNCHANGED <<config, files, intent, drift, settled>>
    BY <1>0, <2>1, <2>2, OnItemsShape DEF ItemsAs
  <2>4. op'[p] \in {"add", "cp"} => Awaits(p, "choose")'
    BY <2>1, <2>3 DEF ItemsAs, Awaits
  <2>5. DraftedBy(p)' /\ ChosenBy(p)'
    BY <2>2, <2>3, <2>4 DEF DraftedBy, ChosenBy, Editing
  <2> QED
    BY <1>0, <2>2, <2>3, <2>5, BegunRight
<1>6. CASE Apply(p)
  <2>1. PICK argument \in Typed :
         LET f == Target(argument)
             policy == PolicyFor(config, f, Existing)
         IN  /\ Shape' /\ \A q \in Procs \ {p} : Same(q)
             /\ f \in Paths /\ policy \in Policies
             /\ op'[p] = "apply" /\ at'[p] = <<"open", "save">>
             /\ path'[p] = f /\ dest'[p] = None /\ access'[p] = NativeAccess(policy)
             /\ leave'[p] = leave[p]
             /\ seen' = [seen EXCEPT ![p] =
                            {[file |-> h, policy |-> intent[h]] : h \in {f, None} \ {None}}]
             /\ UNCHANGED <<config, files, intent, drift, settled>>
    BY <1>0, <1>6, ApplyShape
  <2> DEFINE f == Target(argument)
             policy == PolicyFor(config, f, Existing)
  <2>2. /\ Shape' /\ \A q \in Procs \ {p} : Same(q)
        /\ f \in Paths /\ policy \in Policies
        /\ op'[p] = "apply" /\ path'[p] = f /\ dest'[p] = None
        /\ access'[p] = NativeAccess(policy) /\ leave'[p] = leave[p]
        /\ seen' = [seen EXCEPT ![p] =
                       {[file |-> h, policy |-> intent[h]] : h \in {f, None} \ {None}}]
        /\ UNCHANGED <<config, files, intent, drift, settled>>
    BY <2>1
  <2> HIDE DEF f
  <2>3. ASSUME ~drift PROVE ChosenBy(p)'
    <3>1. policy = intent[f] /\ f # None /\ policy # None
      BY <2>2, <2>3, ConfigAssumption DEF Sure, PolicyStays, InForce, Selectors
    <3>2. seen'[p] = {[file |-> h, policy |-> intent[h]] : h \in {f, None} \ {None}}
      BY <1>0, <2>2 DEF TypeOK
    <3>3. [file |-> f, policy |-> policy] \in seen'[p]
      BY <3>1, <3>2
    <3> DEFINE s == [file |-> f, policy |-> policy]
    <3>4. s.file = f /\ s.policy = policy /\ s \in seen'[p]
      BY <3>3
    <3>5. policy \in Throughout(p, path[p])'
      BY <2>2, <3>4 DEF Throughout
    <3> QED
      BY <2>2, <3>1, <3>5 DEF ChosenBy
  <2>4. DraftedBy(p)'
    BY <2>2 DEF DraftedBy
  <2>5. "apply" \in Ops
    BY DEF Ops
  <2> QED
    BY <1>0, <2>2, <2>3, <2>4, <2>5, BegunRight
<1>7. CASE Audit(p)
  <2>1. /\ Shape' /\ op'[p] = "done" /\ \A q \in Procs \ {p} : op'[q] = op[q]
        /\ at[p] = <<>>
        /\ UNCHANGED <<disk, at, path, dest, memory, history>>
    BY <1>0, <1>7, AuditShape
  <2>2. /\ UNCHANGED <<config, files, at, path, dest, asked, mine, draft, given>>
        /\ UNCHANGED <<copy, named, access, leave, intent, seen, drift, settled>>
    BY <2>1 DEF disk, memory, edits, history
  <2>3. \A q \in Procs \ {p} : Same(q) /\ seen'[q] = seen[q]
    BY <2>1, <2>2 DEF Same
  <2>4. leave[p] = "none"
    BY <1>0 DEF Sure, Right
  <2>5. Right(p)'
    BY <2>1, <2>2, <2>4 DEF Right, Gated
  <2> QED
    BY <2>1, <2>2, <2>3, <2>5, Quiet
<1> QED
  BY <1>1, <1>2, <1>3, <1>4, <1>5, <1>6, <1>7 DEF Command

(* The steps between: what is learnt is learnt of the policy in force. *)
LEMMA ChooseSure ==
  ASSUME Sure, NEW p \in Procs, ChooseAccess(p)
  PROVE  Sure'
<1>0. Shape /\ TypeOK /\ Sound(p) /\ Right(p)
  BY ShapeIs DEF Sure
<1>1. /\ Shape' /\ \A q \in Procs \ {p} : Same(q)
      /\ <<op[p], at[p]>> \in Remaining /\ at'[p] = Tail(at[p]) /\ Head(at[p]) = "choose"
      /\ access'[p] = AccessForWrite(InForce(Written(p)), named[p])
      /\ UNCHANGED <<config, files, op, path, dest, edits, copy, named, leave, history>>
  BY <1>0, ChooseShape
<1>2. UNCHANGED <<asked, mine, draft, given, intent, seen, drift, settled>>
  BY <1>1 DEF edits, history
<1>3. op[p] \in {"add", "cp"} /\ at[p] # <<>>
  <2> DEFINE o == op[p]  t == at[p]
  <2>1. <<o, t>> \in Remaining /\ Head(t) = "choose"
    BY <1>1
  <2> HIDE DEF o, t
  <2>2. Head(t) = "choose" => o \in {"add", "cp"}
    BY <2>1, Onward, Zenon
  <2>3. t # <<>>
    BY <2>1, Onward
  <2> QED
    BY <2>1, <2>2, <2>3 DEF o, t
<1>4. ToldTo(p) /\ Gated(p)
  BY <1>0, <1>3 DEF Right
<1>5. Written(p) \in Paths /\ Written(p) \in {path[p], dest[p]} \ {None}
  BY <1>0, <1>1, <1>3, ConfigAssumption DEF Sound, Written, Selectors
<1>6. intent[Written(p)] \in Throughout(p, Written(p))
  BY <1>4, <1>5, ThroughoutHas DEF ToldTo
<1>7. ~drift => ChosenBy(p)'
  <2>1. SUFFICES ASSUME ~drift PROVE ChosenBy(p)'
    OBVIOUS
  <2>2. access'[p] = AccessForWrite(intent[Written(p)], named[p])
    BY <1>1, <1>5, <2>1 DEF Sure, PolicyStays
  <2> QED
    BY <1>1, <1>2, <1>3, <1>6, <2>2 DEF ChosenBy, Throughout, Written
<1>8. DraftedBy(p)'
  BY <1>1, <1>3 DEF DraftedBy
<1>9. ToldTo(p)' /\ Gated(p)'
  BY <1>1, <1>2, <1>4 DEF ToldTo, Gated, Throughout
<1>10. Right(p)'
  BY <1>0, <1>1, <1>2, <1>7, <1>8, <1>9 DEF Right
<1> QED
  BY <1>1, <1>2, <1>10, Quiet

(* A destination that is found is a keychain more to be told of. *)
LEMMA FindSure ==
  ASSUME Sure, NEW p \in Procs, FindDestination(p)
  PROVE  Sure'
<1>0. Shape /\ TypeOK /\ Right(p)
  BY ShapeIs DEF Sure
<1>1. /\ Shape' /\ \A q \in Procs \ {p} : Same(q) /\ seen'[q] = seen[q]
      /\ op[p] = "cp" /\ at[p] # <<>>
      /\ Awaits(p, "choose") <=> Awaits(p, "choose")'
      /\ UNCHANGED <<config, files, op, path, memory, intent, drift, settled>>
  BY <1>0, FindShape
<1>2. PICK g \in Paths :
         /\ dest'[p] = g
         /\ seen'[p] = seen[p] \cup {[file |-> g, policy |-> intent[g]]}
  BY <1>0, FindShape
<1>3. UNCHANGED <<access, named, leave>>
  BY <1>1 DEF memory
<1>4. ToldTo(p) /\ Gated(p)
  BY <1>0, <1>1 DEF Right
<1>5. ToldTo(p)'
  BY <1>1, <1>2, <1>4 DEF ToldTo
<1>6. Gated(p)'
  BY <1>1, <1>2, <1>3, <1>4 DEF Gated, Throughout
<1>7. Awaits(p, "choose")
  <2>1. Step(p, "find") /\ Sound(p)
    BY <1>0, ShapeIs DEF FindDestination
  <2>2. <<op[p], at[p]>> \in Remaining /\ Head(at[p]) = "find"
    BY <1>0, <2>1, Stepped
  <2> QED
    BY <2>2, FindOrder DEF Awaits
<1>8. DraftedBy(p)' /\ ChosenBy(p)'
  BY <1>1, <1>7 DEF DraftedBy, ChosenBy
<1>9. Right(p)'
  <2>1. op'[p] = "cp" /\ "cp" # None
    BY <1>1, CommandsAssumption DEF Ops
  <2> QED
    BY <1>5, <1>6, <1>8, <2>1 DEF Right
<1> QED
  BY <1>1, <1>9, Quiet

(* To open a keychain changes nothing but the copy. *)
LEMMA OpenSure ==
  ASSUME Sure, NEW p \in Procs, Open(p) \/ OpenDestination(p)
  PROVE  Sure'
<1>0. Shape /\ TypeOK /\ Sound(p) /\ Right(p)
  BY ShapeIs DEF Sure
<1>1. /\ Shape' /\ \A q \in Procs \ {p} : Same(q)
      /\ <<op[p], at[p]>> \in Remaining
      /\ \A s : s \notin {"open", "open-dest"} => (Awaits(p, s) <=> Awaits(p, s)')
      /\ UNCHANGED <<config, files, op, path, dest, edits, named, access, leave, history>>
  BY <1>0, OpenShape
<1>2. UNCHANGED <<asked, mine, draft, given, intent, seen, drift, settled>>
  BY <1>1 DEF edits, history
<1>3. at[p] # <<>> /\ (Awaits(p, "choose") <=> Awaits(p, "choose")')
  BY <1>1, Onward
<1>4. op[p] \notin Editing
  <2>1. Step(p, "open") \/ Step(p, "open-dest")
    BY DEF Open, OpenDestination, Goes
  <2>2. Head(at[p]) \in {"open", "open-dest"}
    BY <2>1 DEF Step
  <2> QED
    BY <1>1, <2>2, Onward
<1>5. ToldTo(p) /\ Gated(p) /\ (~drift => ChosenBy(p))
  BY <1>0, <1>3 DEF Right
<1>6. ~drift => ChosenBy(p)'
  BY <1>1, <1>2, <1>3, <1>5 DEF ChosenBy, Throughout, Written
<1>7. DraftedBy(p)'
  BY <1>1, <1>4 DEF DraftedBy, Editing
<1>8. ToldTo(p)' /\ Gated(p)'
  BY <1>1, <1>2, <1>5 DEF ToldTo, Gated, Throughout
<1>9. Right(p)'
  BY <1>0, <1>1, <1>2, <1>6, <1>7, <1>8 DEF Right
<1> QED
  BY <1>1, <1>2, <1>9, Quiet

(* Leave is given by the policy in force, which the command's keychain has now. *)
LEMMA AuthorizeSure ==
  ASSUME Sure, NEW p \in Procs, Authorize(p)
  PROVE  Sure'
<1>0. Shape /\ TypeOK /\ Sound(p) /\ Right(p)
  BY ShapeIs DEF Sure
<1>1. /\ Shape' /\ \A q \in Procs \ {p} : Same(q)
      /\ <<op[p], at[p]>> \in Remaining
      /\ at[p] # <<>> /\ op[p] # "config"
      /\ \A s : s # "authorize" => (Awaits(p, s) <=> Awaits(p, s)')
      /\ leave'[p] = "free" => Decision(InForce(path[p])) = "allow"
      /\ UNCHANGED <<config, files, op, path, dest, edits, copy, named, access, history>>
  BY <1>0, AuthorizeShape
<1>2. UNCHANGED <<asked, mine, draft, given, intent, seen, drift, settled>>
  BY <1>1 DEF edits, history
<1>3. Awaits(p, "choose") <=> Awaits(p, "choose")'
  BY <1>1
<1>4. op[p] \notin Editing /\ op[p] \in Ops
  <2>1. Step(p, "authorize")
    BY DEF Authorize, Goes
  <2>2. Head(at[p]) = "authorize"
    BY <2>1 DEF Step
  <2> QED
    BY <1>1, <2>2, Onward
<1>5. ToldTo(p) /\ Gated(p) /\ (~drift => ChosenBy(p))
  BY <1>0, <1>1 DEF Right
<1>6. ~drift => ChosenBy(p)'
  BY <1>1, <1>2, <1>3, <1>5 DEF ChosenBy, Throughout, Written
<1>7. DraftedBy(p)'
  BY <1>1, <1>4 DEF DraftedBy, Editing
<1>8. path[p] \in Paths /\ path[p] # None
  BY <1>0, <1>1, ConfigAssumption DEF Sound, Selectors
<1>9. intent[path[p]] \in Throughout(p, path[p])
  BY <1>5, <1>8, ThroughoutHas DEF ToldTo
<1>10. Gated(p)'
  <2>1. ~drift => InForce(path[p]) = intent[path[p]]
    BY <1>8 DEF Sure, PolicyStays
  <2> QED
    BY <1>1, <1>2, <1>9, <2>1 DEF Gated, Throughout
<1>11. ToldTo(p)'
  BY <1>1, <1>2, <1>5 DEF ToldTo
<1>12. op'[p] # None
  BY <1>1, <1>4, CommandsAssumption
<1>13. Right(p)'
  BY <1>2, <1>6, <1>7, <1>10, <1>11, <1>12 DEF Right
<1> QED
  BY <1>1, <1>2, <1>13, Quiet

(* A command that ends takes what it knew with it. *)
LEMMA EndSure ==
  ASSUME Sure, NEW p \in Procs, PrintSecret(p) \/ Fail(p)
  PROVE  Sure'
<1>0. Shape /\ TypeOK
  BY ShapeIs DEF Sure
<1>1. /\ Shape' /\ \A q \in Procs \ {p} : Same(q)
      /\ at'[p] = <<>> /\ op'[p] = "done" /\ leave'[p] = "none"
      /\ seen' = [seen EXCEPT ![p] = {}]
      /\ UNCHANGED <<config, files, intent, drift, settled>>
  BY <1>0, EndShape
<1>2. \A q \in Procs \ {p} : seen'[q] = seen[q]
  BY <1>0, <1>1 DEF TypeOK
<1>3. Right(p)'
  BY <1>1 DEF Right, Gated
<1> QED
  BY <1>1, <1>2, <1>3, Quiet

(* While nobody loses a policy, what a process selects keeps its meaning. *)
LEMMA StillMeans ==
  ASSUME TypeOK, NEW after, NEW exists, ~Moved(after, exists), NEW q \in Procs, at[q] # <<>>
  PROVE  /\ \A s \in Selecting(config) : Resolve(after, s, exists) = Means(s)
         /\ mine[q] # None => \A s \in Selecting(mine[q]) : Resolve(after, s, exists) = Means(s)
         /\ asked[q] # None => Resolve(after, asked[q], exists) = Means(asked[q])
<1> DEFINE all == Selecting(config)
                    \cup {asked[p] : p \in {r \in Running : asked[r] # None}}
                    \cup UNION {Selecting(mine[p]) : p \in {r \in Running : mine[r] # None}}
<1>1. \A s \in all : Resolve(after, s, exists) = Means(s)
  BY DEF Moved, Means
<1>2. q \in Running
  BY DEF Running
<1>3. mine[q] # None => Selecting(mine[q]) \subseteq all
  BY <1>2
<1>4. asked[q] # None => asked[q] \in all
  BY <1>2
<1> QED
  BY <1>1, <1>3, <1>4

(* `Config::save' when no other was lost: the keychain has the policy it was given. *)
LEMMA SaveConfigSure ==
  ASSUME Sure, NEW p \in Procs, SaveConfig(p)
  PROVE  Sure'
<1>0. Shape /\ TypeOK /\ Right(p) /\ Sound(p)
  BY ShapeIs DEF Sure
<1>1. /\ Shape' /\ \A q \in Procs \ {p} : Same(q)
      /\ op[p] \in Editing /\ at[p] = <<"config">> /\ at'[p] = <<>>
      /\ op'[p] = "done" /\ leave'[p] = "none"
      /\ op[p] # "config" => path[p] \in Paths
  BY <1>0, SaveConfigShape
<1>2. /\ config' = draft[p] /\ files' = files /\ Existing' = Existing
      /\ drift' = (drift \/ config # mine[p] \/ Moved(draft[p], Existing)
                      \/ (op[p] = "create" /\ Doubled(draft[p], Existing)))
      /\ op[p] = "config" => UNCHANGED <<intent, seen, settled>>
      /\ op[p] # "config" => Give(p, path[p], given[p])
  BY Zenon DEF SaveConfig, Existing
<1>3. at[p] # <<>>
  BY <1>1
<1>4. /\ op[p] # "config" =>
            /\ intent' = [intent EXCEPT ![path[p]] = given[p]]
            /\ settled' = IF files[path[p]] = Empty THEN settled \cup {path[p]}
                          ELSE settled \ {path[p]}
      /\ \A q \in Procs \ {p} : seen[q] \subseteq seen'[q]
      /\ op[p] # "config" => \A q \in Procs \ {p} :
            at[q] # <<>> /\ path[p] \in {path[q], dest[q]} =>
               [file |-> path[p], policy |-> given[p]] \in seen'[q]
  BY <1>2 DEF Give
<1>5. Right(p)'
  BY <1>1 DEF Right, Gated
<1>6. ASSUME NEW q \in Procs \ {p} PROVE Right(q)'
  <2>1. Right(q) /\ Same(q) /\ seen[q] \subseteq seen'[q] /\ (drift => drift')
    BY <1>1, <1>2, <1>4 DEF Sure
  <2>2. at[q] # <<>> => \A f \in {path[q], dest[q]} \ {None} :
           intent'[f] = intent[f] \/ [file |-> f, policy |-> intent'[f]] \in seen'[q]
    <3>1. CASE op[p] = "config"
      BY <1>2, <3>1
    <3>2. CASE op[p] # "config"
      <4>1. /\ intent'[path[p]] = given[p]
            /\ \A f \in Paths : f # path[p] => intent'[f] = intent[f]
        BY <1>0, <1>1, <1>4, <3>2 DEF TypeOK
      <4>2. path[q] \in Paths \cup {None} /\ dest[q] \in Paths \cup {None}
        BY <1>0 DEF TypeOK
      <4> QED
        BY <1>4, <3>2, <4>1, <4>2
    <3> QED
      BY <3>1, <3>2
  <2>3. ASSUME ~drift', at[q] # <<>>
        PROVE  /\ mine[q] # None => \A s \in Selecting(mine[q]) : Means(s)' = Means(s)
               /\ asked[q] # None => Means(asked[q])' = Means(asked[q])
    <3>1. ~Moved(draft[p], Existing)
      BY <1>2, <2>3
    <3>2. /\ mine[q] # None =>
                \A s \in Selecting(mine[q]) : Resolve(config', s, Existing') = Means(s)
          /\ asked[q] # None => Resolve(config', asked[q], Existing') = Means(asked[q])
      BY <1>0, <1>2, <2>3, <3>1, StillMeans
    <3> QED
      BY <2>1, <3>2 DEF Means, Same
  <2> QED
    BY <1>0, <2>1, <2>2, <2>3, SameRight
<1>7. ASSUME ~drift' PROVE Apart' /\ PolicyStays'
  <2>1. /\ ~drift /\ config = mine[p] /\ ~Moved(draft[p], Existing)
        /\ op[p] = "create" => ~Doubled(draft[p], Existing)
    BY <1>2, <1>7
  <2>2. /\ DraftedBy(p) /\ ~Doubled(config, Existing)
        /\ \A f \in Paths : PolicyFor(config, f, Existing) = intent[f]
    BY <1>0, <1>3, <2>1 DEF Right, Sure, Apart, PolicyStays, InForce
  <2>3. draft[p] \in Configs /\ config \in Configs /\ given[p] \in Policies \cup {None}
    BY <1>0, <1>1, <1>3 DEF Sound, TypeOK
  <2>4. SUFFICES /\ ~Doubled(draft[p], Existing)
                 /\ \A f \in Paths : PolicyFor(draft[p], f, Existing) = intent'[f]
    BY <1>2 DEF Apart, PolicyStays, InForce
  <2>5. CASE op[p] = "config"
    <3>1. draft[p].access = config.access
      BY <2>1, <2>2, <2>5 DEF DraftedBy
    <3>2. \A s \in Selecting(config) : Resolve(draft[p], s, Existing) = Resolve(config, s, Existing)
      BY <1>0, <1>3, <2>1, StillMeans DEF Means
    <3>3. /\ ~Doubled(draft[p], Existing)
          /\ \A f : PolicyFor(draft[p], f, Existing) = PolicyFor(config, f, Existing)
      BY <2>2, <2>3, <3>1, <3>2, PoliciesAgree
    <3> QED
      BY <1>2, <2>2, <2>5, <3>3
  <2>6. CASE op[p] # "config"
    <3>0. /\ path[p] \in Paths
          /\ \A f \in Paths : intent'[f] = IF f = path[p] THEN given[p] ELSE intent[f]
      BY <1>0, <1>1, <1>4, <2>6 DEF TypeOK
    <3>1. CASE op[p] = "set"
      <4>1. /\ given[p] # None /\ draft[p] = SetPolicy(config, given[p])
            /\ Resolve(config, given[p].keychain, Existing) = path[p]
            /\ \A s \in Selecting(config) :
                  Resolve(config, s, Existing) = path[p] => s = given[p].keychain
        BY <2>1, <2>2, <3>1 DEF DraftedBy, Means
      <4>2. ~Doubled(draft[p], Existing)
        BY <2>2, <2>3, <4>1, SetPolicyApart
      <4>3. \A f : PolicyFor(draft[p], f, Existing)
              = IF f = path[p] THEN given[p] ELSE PolicyFor(config, f, Existing)
        BY <2>2, <2>3, <4>1, <4>2, SetPolicyGives
      <4> QED
        BY <2>2, <3>0, <4>2, <4>3
    <3>2. CASE op[p] = "clear"
      <4>1. PICK s \in Selecting(config) :
               Resolve(config, s, Existing) = path[p] /\ draft[p] = ClearPolicy(config, s)
        BY <2>1, <2>2, <3>2 DEF DraftedBy, Means
      <4>2. /\ ~Doubled(draft[p], Existing)
            /\ \A f : PolicyFor(draft[p], f, Existing)
                 = IF f = path[p] THEN None ELSE PolicyFor(config, f, Existing)
        BY <2>2, <2>3, <4>1, ClearPolicyTakes
      <4>3. given[p] = None
        BY <2>2, <3>2 DEF DraftedBy
      <4> QED
        BY <2>2, <3>0, <4>2, <4>3
    <3>3. CASE op[p] = "create"
      <4>0. Awaits(p, "config")
        BY <1>1 DEF Awaits
      <4>1. /\ given[p] # None /\ draft[p] = SetPolicy(config, given[p])
            /\ given[p].keychain = path[p]
        BY <2>1, <2>2, <3>3, <4>0 DEF DraftedBy
      <4>2. Resolve(config, given[p].keychain, Existing) = path[p]
        BY <3>0, <4>1, ResolvePath
      <4>3. \A f : PolicyFor(draft[p], f, Existing)
              = IF f = path[p] THEN given[p] ELSE PolicyFor(config, f, Existing)
        BY <2>1, <2>2, <2>3, <3>3, <4>1, <4>2, SetPolicyGives
      <4> QED
        BY <2>1, <2>2, <3>0, <3>3, <4>3
    <3> QED
      BY <1>1, <2>6, <3>1, <3>2, <3>3 DEF Editing
  <2> QED
    BY <2>5, <2>6
<1>8. AuditHolds'
  <2> SUFFICES ASSUME NEW f \in settled', ~drift', intent'[f] # None
               PROVE  \A i \in Present(files[f])' : files'[f][i] = NativeAccess(intent'[f])
    BY DEF AuditHolds, Audited
  <2>1. CASE op[p] = "config" \/ f # path[p]
    <3>1. f \in settled /\ intent'[f] = intent[f] /\ ~drift
      BY <1>0, <1>1, <1>2, <1>4, <2>1 DEF TypeOK
    <3>2. Audited(f, intent[f])
      BY <3>1 DEF Sure, AuditHolds
    <3> QED
      BY <1>2, <3>1, <3>2 DEF Audited, Present
  <2>2. CASE op[p] # "config" /\ f = path[p]
    <3>1. files[f] = Empty
      BY <1>4, <2>2
    <3>2. Present(files[f])' = {}
      BY <1>2, <3>1 DEF Present, Empty
    <3> QED
      BY <3>2
  <2> QED
    BY <2>1, <2>2
<1>9. Apart' /\ PolicyStays'
  BY <1>7 DEF Apart, PolicyStays
<1> QED
  BY <1>1, <1>5, <1>6, <1>8, <1>9 DEF Sure

(* A keychain that is made is empty, and takes no other's policy without it being seen. *)
LEMMA CreateFileSure ==
  ASSUME Sure, NEW p \in Procs, CreateFile(p)
  PROVE  Sure'
<1>0. Shape /\ TypeOK /\ Right(p) /\ Sound(p)
  BY ShapeIs DEF Sure
<1>1. /\ Shape' /\ \A q \in Procs \ {p} : Same(q)
      /\ op[p] = "create" /\ at[p] # <<>> /\ path[p] \in Paths
      /\ Existing' = Existing \cup {path[p]}
      /\ files'[path[p]] = Empty /\ \A f \in Paths \ {path[p]} : files'[f] = files[f]
      /\ \A s : s # "create" => (Awaits(p, s) <=> Awaits(p, s)')
      /\ \A q \in Procs \ {p} : seen'[q] = seen[q]
      /\ at'[p] = <<>> => op'[p] = "done" /\ leave'[p] = "none"
      /\ at'[p] # <<>> => UNCHANGED <<op, path, dest, memory, seen>>
  BY <1>0, CreateFileShape
<1>2. /\ drift' = (drift \/ Moved(config, Existing \cup {path[p]}))
      /\ settled' = settled \cup {path[p]}
      /\ UNCHANGED <<config, intent>>
  BY DEF CreateFile
<1>3. ASSUME ~drift', NEW q \in Procs, at[q] # <<>>
      PROVE  /\ \A s \in Selecting(config) : Means(s)' = Means(s)
             /\ mine[q] # None => \A s \in Selecting(mine[q]) : Means(s)' = Means(s)
             /\ asked[q] # None => Resolve(config', asked[q], Existing') = Means(asked[q])
  <2>1. ~Moved(config', Existing')
    BY <1>1, <1>2, <1>3
  <2> QED
    BY <1>0, <1>3, <2>1, StillMeans DEF Means
<1>4. ASSUME NEW q \in Procs \ {p} PROVE Right(q)'
  <2>1. Right(q) /\ Same(q) /\ seen[q] \subseteq seen'[q] /\ (drift => drift')
    BY <1>1, <1>2 DEF Sure
  <2>2. at[q] # <<>> => \A f \in {path[q], dest[q]} \ {None} :
           intent'[f] = intent[f] \/ [file |-> f, policy |-> intent'[f]] \in seen'[q]
    BY <1>2
  <2>3. ~drift' /\ at[q] # <<>> =>
           /\ mine[q] # None => \A s \in Selecting(mine[q]) : Means(s)' = Means(s)
           /\ asked[q] # None => Means(asked[q])' = Means(asked[q])
    BY <1>3, <2>1 DEF Means, Same
  <2> QED
    BY <1>0, <2>1, <2>2, <2>3, SameRight
<1>5. Right(p)'
  <2>1. CASE at'[p] = <<>>
    BY <1>1, <2>1 DEF Right, Gated
  <2>2. CASE at'[p] # <<>>
    <3>1. UNCHANGED <<op, path, dest, memory, seen>>
      BY <1>1, <2>2
    <3>2. UNCHANGED <<mine, draft, given, asked, access, named, leave>>
      BY <3>1 DEF memory, edits
    <3>3. ToldTo(p) /\ Gated(p) /\ (~drift => DraftedBy(p)) /\ (op[p] = None => leave[p] = "none")
      BY <1>0, <1>1 DEF Right
    <3>4. ToldTo(p)' /\ Gated(p)'
      BY <1>2, <3>1, <3>2, <3>3 DEF ToldTo, Gated, Throughout
    <3>5. ~drift' => DraftedBy(p)' /\ ChosenBy(p)'
      BY <1>1, <1>2, <3>1, <3>2, <3>3 DEF DraftedBy, ChosenBy
    <3> QED
      BY <3>1, <3>2, <3>3, <3>4, <3>5 DEF Right
  <2> QED
    BY <2>1, <2>2
<1>6. ASSUME ~drift' PROVE Apart' /\ PolicyStays'
  <2>1. \A s \in Selecting(config) : Resolve(config', s, Existing') = Resolve(config, s, Existing)
    BY <1>1, <1>3, <1>6 DEF Means
  <2>2. config \in Configs /\ config' \in Configs /\ config'.access = config.access
    BY <1>0, <1>2 DEF TypeOK
  <2>3. /\ Doubled(config', Existing') <=> Doubled(config, Existing)
        /\ \A f : PolicyFor(config', f, Existing') = PolicyFor(config, f, Existing)
    BY <2>1, <2>2, PoliciesAgree
  <2> QED
    BY <1>2, <1>6, <2>3 DEF Sure, Apart, PolicyStays, InForce
<1>7. AuditHolds'
  <2> SUFFICES ASSUME NEW f \in settled', ~drift', intent'[f] # None
               PROVE  \A i \in Present(files[f])' : files'[f][i] = NativeAccess(intent'[f])
    BY DEF AuditHolds, Audited
  <2>1. CASE f = path[p]
    <3>1. Present(files[f])' = {}
      BY <1>1, <2>1 DEF Present, Empty
    <3> QED
      BY <3>1
  <2>2. CASE f # path[p]
    <3>1. f \in settled /\ ~drift /\ intent'[f] = intent[f] /\ files'[f] = files[f]
      BY <1>0, <1>1, <1>2, <2>2 DEF TypeOK
    <3>2. Audited(f, intent[f])
      BY <1>2, <3>1 DEF Sure, AuditHolds
    <3> QED
      BY <3>1, <3>2 DEF Audited, Present
  <2> QED
    BY <2>1, <2>2
<1>8. Apart' /\ PolicyStays'
  BY <1>6 DEF Apart, PolicyStays
<1> QED
  BY <1>1, <1>4, <1>5, <1>7, <1>8 DEF Sure

(* What is written over items that all fit the policy fits it too. *)
LEMMA ResultsFit ==
  ASSUME NEW p \in Procs, NEW policy \in Policies,
         copy[p] \in Contents, NEW result \in Results(p), op[p] # "trust",
         op[p] # "apply" => \A i \in Present(copy[p]) : copy[p][i] = NativeAccess(policy),
         op[p] \in {"apply", "add", "cp"} => access[p] = NativeAccess(policy)
  PROVE  \A i \in Present(result) : result[i] = NativeAccess(policy)
<1>1. CASE op[p] = "apply"
  <2>1. result = [i \in Items |-> IF copy[p][i] = None THEN None ELSE access[p]]
    BY <1>1 DEF Results
  <2> QED
    BY <1>1, <2>1 DEF Present
<1>2. CASE op[p] \in {"add", "cp"}
  <2>1. \E i \in Items \ Present(copy[p]) : result = [copy[p] EXCEPT ![i] = access[p]]
    BY <1>2 DEF Results
  <2> QED
    BY <1>2, <2>1 DEF Contents, Present
<1>3. CASE op[p] = "rm"
  <2>1. \E gone : result = [i \in Items |-> IF i \in gone THEN None ELSE copy[p][i]]
    BY <1>3 DEF Results
  <2> QED
    BY <1>3, <2>1 DEF Contents, Present
<1>4. CASE op[p] \notin {"apply", "add", "cp", "trust", "rm"}
  <2>1. result = copy[p]
    BY <1>4 DEF Results
  <2> QED
    BY <1>4, <2>1
<1> QED
  BY <1>1, <1>2, <1>3, <1>4

(* A keychain that is saved fits its policy if it is recorded to. *)
LEMMA SaveFileSure ==
  ASSUME Sure, NEW p \in Procs, SaveFile(p)
  PROVE  Sure'
<1> DEFINE f == Written(p)
<1>0. Shape /\ TypeOK /\ Right(p)
  BY ShapeIs DEF Sure
<1>1. /\ Shape' /\ \A q \in Procs \ {p} : Same(q)
      /\ at[p] = <<"save">> /\ at'[p] = <<>> /\ op'[p] = "done" /\ leave'[p] = "none"
      /\ op[p] \notin Editing /\ op[p] # "get"
      /\ f \in Paths /\ copy[p] \in Contents
      /\ \E result \in Results(p) :
            result \in Contents /\ files' = [files EXCEPT ![f] = result]
      /\ settled' = IF Fits(p, f) /\ (copy[p] = files[f] \/ op[p] = "apply")
                    THEN settled \cup {f} ELSE settled \ {f}
      /\ seen' = [seen EXCEPT ![p] = {}]
      /\ Existing' = Existing
      /\ UNCHANGED <<config, intent, drift>>
  BY <1>0, SaveFileShape
<1>2. \A q \in Procs \ {p} : seen'[q] = seen[q]
  BY <1>0, <1>1 DEF TypeOK
<1>3. \A s : Means(s)' = Means(s)
  BY <1>1 DEF Means
<1>4. Right(p)'
  BY <1>1 DEF Right, Gated
<1>5. ASSUME NEW q \in Procs \ {p} PROVE Right(q)'
  <2>1. Right(q) /\ Same(q) /\ seen[q] \subseteq seen'[q] /\ (drift => drift')
    BY <1>1, <1>2 DEF Sure
  <2>2. at[q] # <<>> => \A h \in {path[q], dest[q]} \ {None} :
           intent'[h] = intent[h] \/ [file |-> h, policy |-> intent'[h]] \in seen'[q]
    BY <1>1
  <2>3. /\ mine[q] # None => \A s \in Selecting(mine[q]) : Means(s)' = Means(s)
        /\ asked[q] # None => Means(asked[q])' = Means(asked[q])
    BY <1>1, <1>3, <2>1 DEF Same, Means
  <2> QED
    BY <1>0, <2>1, <2>2, <2>3, SameRight
<1>6. Apart' /\ PolicyStays'
  BY <1>1 DEF Sure, Apart, PolicyStays, InForce
<1>7. AuditHolds'
  <2> SUFFICES ASSUME NEW h \in settled', ~drift', intent'[h] # None
               PROVE  \A i \in Present(files[h])' : files'[h][i] = NativeAccess(intent'[h])
    BY DEF AuditHolds, Audited
  <2>0. ~drift /\ intent' = intent
    BY <1>1
  <2>1. CASE h # f
    <3>1. h \in settled /\ h \in Paths /\ files'[h] = files[h]
      BY <1>0, <1>1, <2>1 DEF TypeOK
    <3>2. Audited(h, intent[h])
      BY <2>0, <3>1 DEF Sure, AuditHolds
    <3> QED
      BY <2>0, <3>1, <3>2 DEF Audited, Present
  <2>2. CASE h = f
    <3> DEFINE policy == intent[f]
    <3>1. PICK result \in Results(p) : files' = [files EXCEPT ![f] = result]
      BY <1>1
    <3>2. files'[f] = result
      BY <1>0, <1>1, <3>1 DEF TypeOK
    <3>3. Fits(p, f) /\ (copy[p] = files[f] \/ op[p] = "apply")
      BY <1>1, <2>2
    <3>4. policy \in Policies
      BY <1>0, <1>1, <2>0, <2>2 DEF TypeOK
    <3>5. op[p] # "trust"
      BY <3>3 DEF Fits
    <3>6. op[p] # "apply" => f \in settled
      BY <3>3 DEF Fits
    <3>7. op[p] # "apply" => \A i \in Present(copy[p]) : copy[p][i] = NativeAccess(policy)
      BY <2>0, <2>2, <3>3, <3>6 DEF Sure, AuditHolds, Audited
    <3>8. ChosenBy(p) /\ ~Awaits(p, "choose")
      BY <1>0, <1>1, <2>0 DEF Right, Awaits
    <3>9. op[p] \in {"apply", "add", "cp"} => access[p] = NativeAccess(policy)
      <4>1. CASE op[p] = "apply"
        <5>1. Throughout(p, f) = {policy} /\ f = path[p]
          BY <3>3, <4>1 DEF Fits, Written
        <5> QED
          BY <3>8, <4>1, <5>1 DEF ChosenBy
      <4>2. CASE op[p] \in {"add", "cp"}
        <5>1. /\ Throughout(p, f) = {policy} /\ named[p] = {} /\ ProjectsNative(policy)
          BY <3>3, <4>2 DEF Fits
        <5>2. access[p] = AccessForWrite(policy, named[p])
          BY <3>8, <4>2, <5>1 DEF ChosenBy
        <5> QED
          BY <5>1, <5>2 DEF AccessForWrite
      <4> QED
        BY <4>1, <4>2
    <3> HIDE DEF policy, f
    <3>10. \A i \in Present(result) : result[i] = NativeAccess(policy)
      BY <1>1, <3>1, <3>4, <3>5, <3>7, <3>9, ResultsFit
    <3> QED
      BY <2>0, <2>2, <3>2, <3>10 DEF Present, policy
  <2> QED
    BY <2>1, <2>2
<1> QED
  BY <1>1, <1>4, <1>5, <1>6, <1>7 DEF Sure

------------------------------------------------------------------------------
(* The theorems. *)

(* At first nobody has given a policy, and none is saved. *)
LEMMA InitSure == Init => Sure
<1> SUFFICES ASSUME Init PROVE Sure
  OBVIOUS
<1>1. Shape
  BY InitShape
<1>2. config.access = <<>> /\ config \in Configs
  BY <1>1, ShapeIs DEF Init, DefaultConfig, TypeOK
<1>3. Apart
  BY <1>2 DEF Apart, Doubled
<1>4. PolicyStays
  <2>1. \A f : PolicyFor(config, f, Existing) = None
    BY <1>2, PolicyFound
  <2> QED
    BY <2>1 DEF PolicyStays, InForce, Init
<1>5. AuditHolds
  BY DEF AuditHolds, Init
<1>6. \A p \in Procs : Right(p)
  BY DEF Right, Gated, Init
<1> QED
  BY <1>1, <1>3, <1>4, <1>5, <1>6 DEF Sure

(* Every step keeps it. *)
LEMMA StepSure ==
  ASSUME Env = None, Sure, [Next]_vars
  PROVE  Sure'
<1>1. CASE Next
  <2>1. PICK p \in Procs :
          \/ Command(p) \/ SaveConfig(p) \/ CreateFile(p) \/ FindDestination(p)
          \/ ChooseAccess(p) \/ Open(p) \/ OpenDestination(p) \/ Authorize(p)
          \/ PrintSecret(p) \/ SaveFile(p) \/ Fail(p)
    BY <1>1 DEF Next
  <2>2. CASE Command(p)
    BY <2>2, CommandSure
  <2>3. CASE SaveConfig(p)
    BY <2>3, SaveConfigSure
  <2>4. CASE CreateFile(p)
    BY <2>4, CreateFileSure
  <2>5. CASE ChooseAccess(p)
    BY <2>5, ChooseSure
  <2>6. CASE Open(p) \/ OpenDestination(p)
    BY <2>6, OpenSure
  <2>7. CASE Authorize(p)
    BY <2>7, AuthorizeSure
  <2>8. CASE PrintSecret(p) \/ Fail(p)
    BY <2>8, EndSure
  <2>9. CASE SaveFile(p)
    BY <2>9, SaveFileSure
  <2>10. CASE FindDestination(p)
    BY <2>10, FindSure
  <2> QED
    BY <2>1, <2>2, <2>3, <2>4, <2>5, <2>6, <2>7, <2>8, <2>9, <2>10
<1>2. CASE UNCHANGED vars
  <2>1. UNCHANGED <<config, files, op, at, path, dest, asked, mine, draft, given>>
    BY <1>2 DEF vars, disk, steps, memory, edits
  <2>2. UNCHANGED <<copy, named, access, leave, intent, seen, drift, settled>>
    BY <1>2 DEF vars, memory, history
  <2>3. Shape /\ TypeOK /\ \A p \in Procs : Sound(p)
    BY ShapeIs DEF Sure
  <2>4. TypeOK'
    BY <2>1, <2>2, <2>3 DEF TypeOK
  <2>5. \A p \in Procs : Same(p)
    BY <2>1, <2>2 DEF Same
  <2>6. \A p \in Procs : Sound(p)'
    BY <2>1, <2>3, <2>5, SameSound DEF Lasting
  <2>7. Shape'
    BY <2>4, <2>6, ShapeNext
  <2>8. \A s : Means(s)' = Means(s)
    BY <2>1 DEF Means, Existing
  <2>9. ASSUME NEW p \in Procs PROVE Right(p)'
    <3>1. Right(p) /\ Same(p) /\ seen[p] \subseteq seen'[p] /\ (drift => drift')
      BY <2>2, <2>5 DEF Sure
    <3>2. at[p] # <<>> => \A f \in {path[p], dest[p]} \ {None} :
             intent'[f] = intent[f] \/ [file |-> f, policy |-> intent'[f]] \in seen'[p]
      BY <2>2
    <3>3. /\ mine[p] # None => \A s \in Selecting(mine[p]) : Means(s)' = Means(s)
          /\ asked[p] # None => Means(asked[p])' = Means(asked[p])
      BY <2>1, <2>8 DEF Means, Existing
    <3> QED
      BY <2>3, <3>1, <3>2, <3>3, SameRight
  <2>10. Apart' /\ PolicyStays' /\ AuditHolds'
    BY <2>1, <2>2 DEF Sure, Apart, PolicyStays, AuditHolds, Audited, InForce, Existing
  <2> QED
    BY <2>7, <2>9, <2>10 DEF Sure
<1> QED
  BY <1>1, <1>2

(* Without KC_DEFAULT_KEYCHAIN, commands know what they go by, no keychain has two
   policies, and the three properties below hold together. *)
THEOREM SureHolds == ASSUME Env = None PROVE Spec => []Sure
<1>1. Init => Sure
  BY InitSure
<1>2. Sure /\ [Next]_vars => Sure'
  BY StepSure
<1> QED
  BY <1>1, <1>2, PTL DEF Spec

(* Where KC_DEFAULT_KEYCHAIN is not set, the policy in force for a keychain is the one *)
(* that its users gave it last, through every interleaving of the commands, until a    *)
(* save overwrites what its process had not read or a selector changes its meaning.    *)
THEOREM PolicyHolds == ASSUME Env = None PROVE Spec => []PolicyStays
<1>1. Sure => PolicyStays
  BY DEF Sure
<1> QED
  BY <1>1, SureHolds, PTL

(* And secrets leave unconfirmed only by a policy that the keychain had meanwhile. *)
THEOREM SecretsHold == ASSUME Env = None PROVE Spec => []SecretsGated
<1>1. Sure => SecretsGated
  BY SureIs
<1> QED
  BY <1>1, SureHolds, PTL

(* And a keychain whose items all came by its policy passes an audit against it. *)
THEOREM AuditPasses == ASSUME Env = None PROVE Spec => []AuditHolds
<1>1. Sure => AuditHolds
  BY DEF Sure
<1> QED
  BY <1>1, SureHolds, PTL

------------------------------------------------------------------------------
(* The configuration can be read back. *)

(* Directories and applications are never in the way. *)
LEMMA PlainParts ==
  ASSUME Plain, NEW c \in Configs
  PROVE  /\ \A i \in DOMAIN c.search : c.search[i] \notin Blank
         /\ \A policy \in Policies : LegibleApps(policy.trust)
         /\ Dirs \cap Odd = {}
<1>1. \A i \in DOMAIN c.search : c.search[i] \in Dirs
  BY DEF Configs
<1>2. \A policy \in Policies : policy.trust \subseteq Apps
  BY DEF Policies
<1> QED
  BY <1>1, <1>2 DEF Plain, LegibleApps

(* A command that edits the configuration has a draft that can be, if what it read can. *)
LEMMA EditsWorded ==
  ASSUME Shape, Plain, Worded(config), NEW p \in Procs, Command(p)
  PROVE  /\ config' = config
         /\ \A q \in Procs \ {p} : draft'[q] = draft[q]
         /\ draft'[p] = draft[p] \/ Worded(draft'[p])
<1>0. TypeOK /\ config \in Configs
  BY ShapeIs DEF TypeOK
<1>1. ASSUME NEW command, NEW f, NEW todo, NEW argument, NEW edited, NEW policy,
             Edits(p, command, f, todo, argument, edited, policy), Worded(edited)
      PROVE  /\ config' = config
             /\ \A q \in Procs \ {p} : draft'[q] = draft[q]
             /\ Worded(draft'[p])
  BY <1>0, <1>1 DEF Edits, Begin, disk, TypeOK
<1>2. \A argument \in Typed : argument # None => argument \in Selectors /\ Legible(argument)
  BY CommandsAssumption DEF Plain
<1>3. Legible(config.default)
  BY DEF Worded
<1>4. \A f \in Paths : PolicyFor(config, f, Existing) # None =>
                          Legible(PolicyFor(config, f, Existing).keychain)
  BY <1>0, PolicyFound DEF Worded
<1>5. \A argument \in Typed : Target(argument) \in Paths /\ Legible(Target(argument))
  <2> TAKE argument \in Typed
  <2>1. Asked(config, argument) \in Selectors /\ Target(argument) \in Paths
    BY <1>0, TargetType
  <2>2. Legible(Asked(config, argument))
    BY <1>2, <1>3 DEF Asked, Plain
  <2> QED
    BY <1>0, <2>1, <2>2, PlainParts, ResolveLegible DEF Target
<1>6. CASE Configure(p)
  <2>1. PICK edited \in Configs :
           /\ edited.access = config.access
           /\ edited.default = config.default \/ edited.default \in Typed \ {None}
           /\ Edits(p, "config", None, <<"config">>, None, edited, None)
    BY <1>0, <1>6, ConfigureIs
  <2>2. Worded(edited)
    BY <1>2, <2>1, PlainParts DEF Worded
  <2> QED
    BY <1>1, <2>1, <2>2
<1>7. CASE SetAccess(p) \/ ClearTrust(p)
  <2>1. PICK argument \in Typed, policy \in Policies : SetAs(p, argument, policy)
    BY <1>0, <1>7, SetIs
  <2>2. Legible(policy.keychain)
    BY <1>2, <1>3, <1>4, <1>5, <2>1 DEF SetAs
  <2>3. Worded(SetPolicy(config, policy))
    BY <1>0, <2>2, PlainParts, SetPolicyWorded
  <2> QED
    BY <1>1, <2>1, <2>3 DEF SetAs
<1>8. CASE ClearAccess(p)
  <2>1. PICK argument \in Typed : ClearAs(p, argument)
    BY <1>8, ClearIs
  <2> DEFINE keychain == PolicyFor(config, Target(argument), Existing).keychain
  <2>2. Worded(ClearPolicy(config, keychain))
    BY <1>0, ClearPolicyWorded
  <2> QED
    BY <1>1, <2>1, <2>2 DEF ClearAs
<1>9. CASE Create(p)
  <2>1. PICK argument \in Typed, policy \in Policies \cup {None} : CreateAs(p, argument, policy)
    BY <1>0, <1>9, CreateIs
  <2>2. policy # None => Worded(SetPolicy(config, policy))
    BY <1>0, <1>5, <2>1, PlainParts, SetPolicyWorded DEF CreateAs
  <2> QED
    BY <1>1, <2>1, <2>2 DEF CreateAs
<1>10. CASE Add(p) \/ Trust(p) \/ Copy(p) \/ Get(p) \/ Edit(p) \/ RemoveItems(p)
  <2>1. PICK command, f, g, apps, todo : ItemsAs(p, command, f, g, apps, todo)
    BY <1>0, <1>10, ItemsIs
  <2> QED
    BY <2>1 DEF ItemsAs, OnItems, Begin, edits, disk
<1>11. CASE Apply(p)
  BY <1>11 DEF Apply, Begin, edits, disk
<1>12. CASE Audit(p)
  BY <1>12 DEF Audit, memory, edits, disk
<1> QED
  BY <1>6, <1>7, <1>8, <1>9, <1>10, <1>11, <1>12 DEF Command

(* At first there is the default, and no draft. *)
LEMMA InitWording == Init => Wording
<1> SUFFICES ASSUME Init, Plain
             PROVE  Worded(config) /\ \A p \in Procs : draft[p] = None
  BY DEF Wording
<1>1. config = DefaultConfig(Login) /\ \A p \in Procs : draft[p] = None
  BY DEF Init
<1>2. config.default = Login /\ config.access = <<>> /\ config.search = <<>>
  BY <1>1 DEF DefaultConfig
<1>3. Legible(Login)
  BY CommandsAssumption, ConfigAssumption DEF Plain
<1> QED
  BY <1>1, <1>2, <1>3 DEF Worded

(* Every step keeps what is saved, and what is about to be, worded well. *)
LEMMA WordingStep ==
  ASSUME Shape, Wording, [Next]_vars
  PROVE  Wording'
<1> SUFFICES ASSUME Plain
             PROVE  Worded(config)' /\ \A q \in Procs : draft'[q] # None => Worded(draft[q])'
  BY DEF Wording, Plain
<1>0. TypeOK /\ Worded(config) /\ \A q \in Procs : draft[q] # None => Worded(draft[q])
  BY ShapeIs DEF Wording
<1>1. ASSUME NEW p \in Procs, config' = config,
             \A q \in Procs \ {p} : draft'[q] = draft[q],
             draft'[p] = None \/ draft'[p] = draft[p] \/ Worded(draft'[p])
      PROVE  Worded(config)' /\ \A q \in Procs : draft'[q] # None => Worded(draft[q])'
  BY <1>0, <1>1 DEF Worded
<1>2. CASE Next
  <2>1. PICK p \in Procs :
          \/ Command(p) \/ SaveConfig(p) \/ CreateFile(p) \/ FindDestination(p)
          \/ ChooseAccess(p) \/ Open(p) \/ OpenDestination(p) \/ Authorize(p)
          \/ PrintSecret(p) \/ SaveFile(p) \/ Fail(p)
    BY <1>2 DEF Next
  <2>2. Exit(p) => draft'[p] = None /\ \A q \in Procs \ {p} : draft'[q] = draft[q]
    BY <1>0 DEF Exit, TypeOK
  <2>3. CASE Command(p)
    BY <1>0, <1>1, <2>3, EditsWorded
  <2>4. CASE SaveConfig(p)
    <3>1. config' = draft[p]
      BY <2>4 DEF SaveConfig
    <3>4. draft[p] # None
      <4>1. op[p] \in Editing /\ at[p] = <<"config">>
        BY <2>4, SaveConfigShape
      <4>2. at[p] # <<>>
        BY <4>1
      <4> QED
        BY <4>1, <4>2 DEF Shape, Ready, Running
    <3>2. draft'[p] = None /\ \A q \in Procs \ {p} : draft'[q] = draft[q]
      BY <2>2, <2>4 DEF SaveConfig
    <3>3. Worded(config)'
      BY <1>0, <3>1, <3>4 DEF Worded
    <3> QED
      BY <1>0, <3>2, <3>3 DEF Worded
  <2>5. CASE CreateFile(p)
    BY <1>1, <2>2, <2>5 DEF CreateFile, memory, edits
  <2>6. CASE ChooseAccess(p) \/ Open(p) \/ OpenDestination(p) \/ Authorize(p)
    BY <1>1, <2>6 DEF ChooseAccess, Open, OpenDestination, Authorize, edits, disk
  <2>7. CASE PrintSecret(p) \/ SaveFile(p) \/ Fail(p)
    BY <1>1, <2>2, <2>7 DEF PrintSecret, SaveFile, Fail, disk
  <2>8. CASE FindDestination(p)
    BY <1>1, <2>8 DEF FindDestination, memory, edits, disk
  <2> QED
    BY <2>1, <2>3, <2>4, <2>5, <2>6, <2>7, <2>8
<1>3. CASE UNCHANGED vars
  BY <1>0, <1>3 DEF vars, disk, memory, edits, Worded
<1> QED
  BY <1>2, <1>3

(* As long as nobody writes a name or a path that is empty or holds an equals sign, the *)
(* configuration that is saved is read back as it was, whatever commands overwrite each *)
(* other's: no command leaves one that stops every later one (Config::save, load).      *)
THEOREM ConfigAlwaysReads == ASSUME Plain PROVE Spec => []ConfigReads
<1>1. Init => Wording
  BY InitWording
<1>2. Shape /\ Wording /\ [Next]_vars => Wording'
  BY WordingStep
<1>3. Shape /\ Wording => ConfigReads
  <2> SUFFICES ASSUME Shape, Wording PROVE ConfigReads
    OBVIOUS
  <2>1. config \in Configs /\ Worded(config)
    BY ShapeIs DEF TypeOK, Wording
  <2> QED
    BY <2>1, CommandsAssumption, ConfigRoundTrip DEF ConfigReads
<1> QED
  BY <1>1, <1>2, <1>3, ShapeHolds, PTL DEF Spec

(* The invariant of the commands: what each step uses is there, what each command goes  *)
(* by is what its keychain had, and the configuration reads.                            *)
THEOREM CommandsCorrect == ASSUME Env = None, Plain PROVE Spec => []KcInv
<1>1. Init => Wording
  BY InitWording
<1>2. Shape /\ Wording /\ [Next]_vars => Wording'
  BY WordingStep
<1>3. Sure => Shape /\ Course
  BY SureIs
<1>4. Shape /\ Course /\ Wording /\ ConfigReads => KcInv
  BY DEF KcInv
<1> QED
  BY <1>1, <1>2, <1>3, <1>4, SureHolds, ShapeHolds, ConfigAlwaysReads, PTL DEF Spec
==============================================================================
