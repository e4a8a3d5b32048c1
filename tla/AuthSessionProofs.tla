--------------------------- MODULE AuthSessionProofs ---------------------------
(***************************************************************************)
(* Proofs about AuthSession, for every set of commands and of starts.      *)
(***************************************************************************)
EXTENDS AuthSession, TLAPS

-----------------------------------------------------------------------------
(* Type correctness.                                                       *)

\* In the initial state every variable has its type.
LEMMA InitType == Init => TypeOK
  BY AuthAssumption DEF Init, TypeOK, StartingUp, Up, Ops, Phases, Ends

\* A step of one start leaves the variables it sets well typed.
LEMMA ServiceType ==
  ASSUME TypeOK, NEW i \in Services, ServiceStep(i)
  PROVE  TypeOK'
<1> USE DEF TypeOK, StartingUp, Up, Move, client, files, wire, starts, history
<1>1. CASE Start(i)
  BY <1>1 DEF Start
<1>2. CASE CheckSocket(i)
  BY <1>2 DEF CheckSocket
<1>3. CASE ConnectSocket(i)
  BY <1>3 DEF ConnectSocket
<1>4. CASE UnlinkSocket(i)
  BY <1>4 DEF UnlinkSocket
<1>5. CASE LoadConfig(i)
  BY <1>5 DEF LoadConfig
<1>6. CASE ClearConfig(i)
  BY <1>6 DEF ClearConfig
<1>7. CASE ClearPending(i)
  BY <1>7 DEF ClearPending
<1>8. CASE Launch(i)
  BY <1>8 DEF Launch
<1>9. CASE Bind(i)
  BY <1>9 DEF Bind
<1>10. CASE Arm(i)
  BY <1>10 DEF Arm
<1>11. CASE CleanExit(i)
  BY <1>11 DEF CleanExit, DropWire
<1>12. CASE Crash(i)
  BY <1>12 DEF Crash, DropWire
<1> QED
  BY <1>1, <1>2, <1>3, <1>4, <1>5, <1>6, <1>7, <1>8, <1>9, <1>10, <1>11, <1>12
  DEF ServiceStep

\* A step of one command leaves the variables it sets well typed.
LEMMA ClientType ==
  ASSUME TypeOK, NEW c \in Clients, ClientStep(c)
  PROVE  TypeOK'
<1> USE DEF TypeOK, Goto, client, files, wire, starts, history
<1>1. CASE \E command \in {"auth", "begin"} : BeginAuth(c, command)
  BY <1>1 DEF BeginAuth, Listening, Ops, Phases, Ends, Requests
<1>2. CASE AdoptPending(c)
  BY <1>2 DEF AdoptPending, Ops, Phases, Ends
<1>3. CASE \E pin \in BOOLEAN : SendProof(c, pin)
  <2> PICK pin \in BOOLEAN : SendProof(c, pin)
    BY <1>3
  <2> DEFINE k == KeyOf(heard[c], pin)
             r == [kind |-> "verify", from |-> c, via |-> socket, key |-> k]
  <2>1. heard[c] \in Challenges /\ socket \in Services
    BY DEF SendProof, Listening
  <2>2. k \in Keys /\ k # None
    BY <2>1, NoneAssumption DEF KeyOf, Keys, Challenges
  <2> HIDE DEF k
  <2>3. r \in Requests
    BY <2>1, <2>2 DEF Requests
  <2>4. /\ at' = [at EXCEPT ![c] = "verify"]
        /\ peer' = [peer EXCEPT ![c] = socket]
        /\ key' = [key EXCEPT ![c] = k]
        /\ requests' = requests \cup {r}
        /\ UNCHANGED <<op, heard, files, starts, session, replies, history>>
    BY DEF SendProof, k
  <2> HIDE DEF r
  <2>5. requests' \subseteq Requests
    BY <2>3, <2>4
  <2> QED
    BY <2>1, <2>2, <2>4, <2>5 DEF Phases, Ends
<1>4. CASE OpenSession(c)
  BY <1>4 DEF OpenSession, Ops, Phases, Ends
<1>5. CASE SendSealed(c)
  BY <1>5 DEF SendSealed, Listening, Ops, Phases, Ends, Requests
<1>6. CASE TakeHello(c)
  <2> PICK r \in replies :
        /\ replies' = replies \ {r}
        /\ IF AcceptsHello(c, r)
             THEN /\ Goto(c, "greeted")
                  /\ heard' = [heard EXCEPT ![c] = [helper |-> r.via, tid |-> r.tid]]
             ELSE Goto(c, "failed") /\ heard' = heard
        /\ UNCHANGED <<op, peer, key, files, starts, session, requests, history>>
    BY <1>6, Zenon DEF TakeHello
  <2> DEFINE h == [helper |-> r.via, tid |-> r.tid]
  <2>1. h \in Challenges
    BY DEF Replies, Challenges
  <2>2. h # None
    BY <2>1, NoneAssumption
  <2> HIDE DEF h
  <2>3. heard' \in [Clients -> Challenges \cup {None}]
    BY <2>1 DEF h
  <2>4. /\ at' \in [Clients -> Phases]
        /\ \A d \in Clients : at'[d] = "greeted" => heard'[d] # None
    BY <2>2 DEF h, Phases, Ends
  <2> QED
    BY <2>3, <2>4
<1>7. CASE TakeProof(c)
  BY <1>7 DEF TakeProof, Phases, Ends
<1>8. CASE TakeData(c)
  BY <1>8 DEF TakeData, Phases, Ends
<1>9. CASE SavePending(c)
  BY <1>9 DEF SavePending, Phases, Ends
<1>10. CASE SaveSession(c)
  BY <1>10 DEF SaveSession, Phases, Ends
<1>11. CASE Logout(c)
  BY <1>11 DEF Logout, Ops, Phases, Ends
<1>12. CASE RemovePending(c)
  BY <1>12 DEF RemovePending, Bar, Phases, Ends
<1>13. CASE GiveUp(c)
  BY <1>13 DEF GiveUp, Phases, Ends
<1> QED
  BY <1>1, <1>2, <1>3, <1>4, <1>5, <1>6, <1>7, <1>8, <1>9, <1>10, <1>11, <1>12, <1>13
  DEF ClientStep

\* A step of a helper leaves the variables it sets well typed.
LEMMA HelperType ==
  ASSUME TypeOK, HelperStep
  PROVE  TypeOK'
<1> USE DEF TypeOK, client, files, wire, starts, history
<1> USE DEF Answer
<1>1. CASE HelperHello
  <2> PICK r \in requests :
        /\ r.kind = "hello"
        /\ session' = [session EXCEPT ![r.via] = r.from]
        /\ Answer(r, Bare("hello", r, r.from))
        /\ UNCHANGED <<files, starts, client, history>>
    BY <1>1, Zenon DEF HelperHello
  <2>1. r.from \in Clients /\ r.via \in Services
    BY DEF Requests
  <2>2. Bare("hello", r, r.from) \in Replies
    BY <2>1 DEF Bare, Replies
  <2> QED
    BY <2>1, <2>2
<1>2. CASE HelperVerify
  <2> PICK r \in requests :
        /\ r.kind = "verify"
        /\ IF r.key = HelperKey(r.via)
             THEN Answer(r, Keyed("verify", r)) /\ proved' = proved \cup {r.key}
             ELSE /\ Answer(r, Bare(IF session[r.via] = None THEN "error" ELSE "refusal",
                                    r, r.key.tid))
                  /\ proved' = proved
        /\ UNCHANGED <<files, starts, session, client, writer, crossed, barred>>
    BY <1>2, Zenon DEF HelperVerify
  <2>1. /\ r.from \in Clients /\ r.via \in Services
        /\ r.key \in Keys /\ r.key.tid \in Clients
    BY DEF Requests, Keys
  <2>2. Keyed("verify", r) \in Replies
    BY <2>1 DEF Keyed, Replies
  <2>3. \A kind \in {"error", "refusal"} : Bare(kind, r, r.key.tid) \in Replies
    BY <2>1 DEF Bare, Replies
  <2> QED
    BY <2>1, <2>2, <2>3
<1>3. CASE HelperData
  <2> PICK r \in requests :
        /\ r.kind = "data"
        /\ Answer(r, IF r.key = HelperKey(r.via) THEN Keyed("data", r)
                     ELSE Bare("error", r, r.key.tid))
        /\ UNCHANGED <<files, starts, session, client, history>>
    BY <1>3, Zenon DEF HelperData
  <2>1. /\ r.from \in Clients /\ r.via \in Services
        /\ r.key \in Keys /\ r.key.tid \in Clients
    BY DEF Requests, Keys
  <2>2. Keyed("data", r) \in Replies
    BY <2>1 DEF Keyed, Replies
  <2>3. Bare("error", r, r.key.tid) \in Replies
    BY <2>1 DEF Bare, Replies
  <2> QED
    BY <2>1, <2>2, <2>3
<1> QED
  BY <1>1, <1>2, <1>3 DEF HelperStep

\* No step of any process leaves a variable badly typed.
LEMMA TypeStep == TypeOK /\ [Next]_vars => TypeOK'
<1> SUFFICES ASSUME TypeOK, [Next]_vars
             PROVE  TypeOK'
  OBVIOUS
<1>1. CASE UNCHANGED vars
  BY <1>1 DEF vars, TypeOK
<1> QED
  BY <1>1, ServiceType, ClientType, HelperType DEF Next

\* Every variable of a reachable state has its type, whatever commands and starts
\* of the service interleave.
THEOREM TypeCorrect == Spec => []TypeOK
  BY InitType, TypeStep, PTL DEF Spec

-----------------------------------------------------------------------------
(* Stored sessions are proved.                                             *)

\* A start never makes a session: it leaves the one that is there or none.
LEMMA ServiceProved ==
  ASSUME ProvedOnTheWay, NEW i \in Services, ServiceStep(i)
  PROVE  ProvedOnTheWay'
<1>1. /\ config' \in {config, None}
      /\ replies' \subseteq replies
      /\ UNCHANGED <<at, key, proved>>
  BY DEF ServiceStep, Start, CheckSocket, ConnectSocket, UnlinkSocket, LoadConfig,
         ClearConfig, ClearPending, Launch, Bind, Arm, CleanExit, Crash, DropWire,
         client, files, wire, history
<1> QED
  BY <1>1 DEF ProvedOnTheWay, StoredSessionIsProved

\* A command saves the key that a helper's proof came back for.
LEMMA ClientProved ==
  ASSUME TypeOK, ProvedOnTheWay, NEW c \in Clients, ClientStep(c)
  PROVE  ProvedOnTheWay'
<1>1. proved' = proved /\ replies' \subseteq replies
  BY DEF ClientStep, BeginAuth, AdoptPending, SendProof, OpenSession, SendSealed, TakeHello,
         TakeProof, TakeData, SavePending, SaveSession, Logout, RemovePending, GiveUp,
         wire, history
<1>2. StoredSessionIsProved'
  <2>1. CASE SaveSession(c)
    BY <1>1, <2>1 DEF SaveSession, ProvedOnTheWay, StoredSessionIsProved
  <2>2. CASE Logout(c)
    BY <1>1, <2>2 DEF Logout, StoredSessionIsProved
  <2>3. CASE ~SaveSession(c) /\ ~Logout(c)
    <3>1. config' = config
      BY <2>3 DEF ClientStep, BeginAuth, AdoptPending, SendProof, OpenSession, SendSealed,
           TakeHello, TakeProof, TakeData, SavePending, RemovePending, GiveUp, files
    <3> QED
      BY <1>1, <3>1 DEF ProvedOnTheWay, StoredSessionIsProved
  <2> QED
    BY <2>1, <2>2, <2>3
<1>3. ASSUME NEW d \in Clients, at'[d] = "proved"
      PROVE  key'[d] \in proved'
  <2>1. CASE TakeProof(c)
    <3> PICK r \in replies :
          /\ Goto(c, IF AcceptsProof(c, r) THEN "proved" ELSE "failed")
          /\ key' = key
      BY <2>1, Zenon DEF TakeProof
    <3>1. CASE d = c
      <4>1. AcceptsProof(c, r)
        BY <1>3, <3>1 DEF Goto, TypeOK
      <4> QED
        BY <1>1, <3>1, <4>1 DEF AcceptsProof, ProvedOnTheWay
    <3>2. CASE d # c
      BY <1>1, <1>3, <3>2 DEF Goto, TypeOK, ProvedOnTheWay
    <3> QED
      BY <3>1, <3>2
  <2>2. CASE ~TakeProof(c)
    <3>1. at[d] = "proved" /\ key'[d] = key[d]
      BY <1>3, <2>2 DEF ClientStep, BeginAuth, AdoptPending, SendProof, OpenSession,
           SendSealed, TakeHello, TakeData, SavePending, SaveSession, Logout, RemovePending,
           GiveUp, Goto, TypeOK
    <3> QED
      BY <1>1, <3>1 DEF ProvedOnTheWay
  <2> QED
    BY <2>1, <2>2
<1> QED
  BY <1>1, <1>2, <1>3 DEF ProvedOnTheWay

\* A helper's proof goes out with the key that it proves.
LEMMA HelperProved ==
  ASSUME TypeOK, ProvedOnTheWay, HelperStep
  PROVE  ProvedOnTheWay'
<1>1. UNCHANGED <<config, at, key>> /\ proved \subseteq proved'
  BY DEF HelperStep, HelperHello, HelperVerify, HelperData, files, client, history
<1>2. ASSUME NEW r \in replies', r.kind = "verify"
      PROVE  r.key \in proved' /\ r.key.helper = r.via
  <2>1. CASE r \in replies
    BY <1>1, <1>2, <2>1 DEF ProvedOnTheWay
  <2>2. CASE r \notin replies
    <3>1. CASE HelperHello
      BY <1>2, <2>2, <3>1 DEF HelperHello, Answer, Bare
    <3>2. CASE HelperVerify
      <4> PICK q \in requests :
            IF q.key = HelperKey(q.via)
              THEN Answer(q, Keyed("verify", q)) /\ proved' = proved \cup {q.key}
              ELSE /\ Answer(q, Bare(IF session[q.via] = None THEN "error" ELSE "refusal",
                                     q, q.key.tid))
                   /\ proved' = proved
        BY <3>2, Zenon DEF HelperVerify
      <4>1. CASE q.key = HelperKey(q.via)
        <5>1. r = Keyed("verify", q) /\ q.key \in proved'
          BY <2>2, <4>1 DEF Answer
        <5> QED
          BY <4>1, <5>1 DEF Keyed, HelperKey
      <4>2. CASE q.key # HelperKey(q.via)
        BY <1>2, <2>2, <4>2 DEF Answer, Bare
      <4> QED
        BY <4>1, <4>2
    <3>3. CASE HelperData
      BY <1>2, <2>2, <3>3 DEF HelperData, Answer, Bare, Keyed
    <3> QED
      BY <3>1, <3>2, <3>3 DEF HelperStep
  <2> QED
    BY <2>1, <2>2
<1> QED
  BY <1>1, <1>2 DEF ProvedOnTheWay, StoredSessionIsProved

\* No step of any process leaves an unproved key on its way to the file.
LEMMA ProvedStep == TypeOK /\ ProvedOnTheWay /\ [Next]_vars => ProvedOnTheWay'
<1> SUFFICES ASSUME TypeOK, ProvedOnTheWay, [Next]_vars
             PROVE  ProvedOnTheWay'
  OBVIOUS
<1>1. CASE UNCHANGED vars
  BY <1>1 DEF vars, ProvedOnTheWay, StoredSessionIsProved
<1> QED
  BY <1>1, ServiceProved, ClientProved, HelperProved DEF Next

\* A session in the configuration file is one whose helper proved that it holds the
\* same key, however commands, late replies and restarts interleave.
THEOREM StoredProved == Spec => []StoredSessionIsProved
<1>1. Init => ProvedOnTheWay
  BY DEF Init, ProvedOnTheWay, StoredSessionIsProved
<1>2. ProvedOnTheWay => StoredSessionIsProved
  BY DEF ProvedOnTheWay
<1> QED
  BY <1>1, <1>2, InitType, TypeStep, ProvedStep, PTL DEF Spec

-----------------------------------------------------------------------------
(* What a logout ends.                                                     *)

\* A start at most removes a session and a handshake; a helper has neither.
LEMMA OthersKeepBarred ==
  ASSUME (\E i \in Services : ServiceStep(i)) \/ HelperStep \/ UNCHANGED vars
  PROVE  /\ config' \in {config, None} /\ pending' \in {pending, None}
         /\ UNCHANGED <<op, at, heard, key, writer, barred>>
  BY DEF ServiceStep, Start, CheckSocket, ConnectSocket, UnlinkSocket, LoadConfig,
         ClearConfig, ClearPending, Launch, Bind, Arm, CleanExit, Crash, HelperStep,
         HelperHello, HelperVerify, HelperData, client, files, history, vars

\* What a command learns of a handshake: it hears the one it began, or adopts the one
\* that is pending, and what it began is all that it leaves pending.
LEMMA ClientHandshakes ==
  ASSUME TypeOK, Fresh, NEW c \in Clients, ClientStep(c)
  PROVE  /\ \A d \in Clients : d # c =>
                at'[d] = at[d] /\ op'[d] = op[d] /\ heard'[d] = heard[d] /\ key'[d] = key[d]
         /\ at[c] \notin Ends /\ at'[c] # "new"
         /\ heard'[c] = heard[c] \/ AdoptPending(c)
              \/ (heard'[c] # None /\ heard'[c].tid = c /\ op' = op)
         /\ pending' \in {pending, None} \/ (pending' # None /\ pending'.tid = c)
         /\ \/ config' \in {config, None} /\ writer' = writer
            \/ at[c] = "proved" /\ config' = key[c] /\ writer' = c
         /\ at'[c] \in {"verify", "proved"} =>
              \/ at[c] \in {"verify", "proved"} /\ key'[c] = key[c]
              \/ heard[c] # None /\ key'[c].tid = heard[c].tid
         /\ RemovePending(c) \/ barred' = barred
<1> USE DEF TypeOK, Goto, Ends, client, files, history
<1>1. CASE \E command \in {"auth", "begin"} : BeginAuth(c, command)
  BY <1>1 DEF BeginAuth
<1>2. CASE AdoptPending(c)
  BY <1>2 DEF AdoptPending
<1>3. CASE \E pin \in BOOLEAN : SendProof(c, pin)
  BY <1>3 DEF SendProof, KeyOf
<1>4. CASE OpenSession(c) \/ SendSealed(c)
  BY <1>4 DEF OpenSession, SendSealed
<1>5. CASE TakeHello(c)
  <2> PICK r \in replies :
        /\ at[c] = "hello"
        /\ IF AcceptsHello(c, r)
             THEN /\ Goto(c, "greeted")
                  /\ heard' = [heard EXCEPT ![c] = [helper |-> r.via, tid |-> r.tid]]
             ELSE Goto(c, "failed") /\ heard' = heard
        /\ UNCHANGED <<op, key, files, history>>
    BY <1>5, Zenon DEF TakeHello
  <2>1. CASE AcceptsHello(c, r)
    <3> DEFINE h == [helper |-> r.via, tid |-> r.tid]
    <3>1. h \in Challenges /\ h.tid = c
      BY <2>1 DEF AcceptsHello, Replies, Challenges
    <3>2. h # None
      BY <3>1, NoneAssumption
    <3>3. at' = [at EXCEPT ![c] = "greeted"] /\ heard' = [heard EXCEPT ![c] = h]
      BY <2>1
    <3> HIDE DEF h
    <3> QED
      BY <3>1, <3>2, <3>3
  <2>2. CASE ~AcceptsHello(c, r)
    BY <2>2
  <2> QED
    BY <2>1, <2>2
<1>6. CASE TakeProof(c)
  BY <1>6 DEF TakeProof
<1>7. CASE TakeData(c)
  BY <1>7 DEF TakeData
<1>8. CASE SavePending(c)
  BY <1>8 DEF SavePending, Fresh
<1>9. CASE SaveSession(c)
  BY <1>9 DEF SaveSession
<1>10. CASE Logout(c)
  BY <1>10 DEF Logout
<1>11. CASE RemovePending(c)
  BY <1>11 DEF RemovePending
<1>12. CASE GiveUp(c)
  BY <1>12 DEF GiveUp, Running
<1> QED
  BY <1>1, <1>2, <1>3, <1>4, <1>5, <1>6, <1>7, <1>8, <1>9, <1>10, <1>11, <1>12
  DEF ClientStep

\* A command that has not begun keeps nothing, and one that begins hears its own.
LEMMA FreshStep == TypeOK /\ Fresh /\ [Next]_vars => Fresh'
<1> SUFFICES ASSUME TypeOK, Fresh, [Next]_vars
             PROVE  Fresh'
  OBVIOUS
<1>1. CASE \E c \in Clients : ClientStep(c)
  <2> PICK c \in Clients : ClientStep(c)
    BY <1>1
  <2>1. ASSUME NEW d \in Clients, at'[d] = "new"
        PROVE  heard'[d] = None /\ writer' # d
    BY <2>1, ClientHandshakes DEF Fresh
  <2>2. ASSUME NEW d \in Clients, op'[d] \in {"auth", "begin"}, heard'[d] # None
        PROVE  heard'[d].tid = d
    <3>1. CASE d # c
      BY <2>2, <3>1, ClientHandshakes DEF Fresh
    <3>2. CASE d = c /\ \E command \in {"auth", "begin"} : BeginAuth(c, command)
      BY <2>2, <3>2 DEF Fresh, BeginAuth
    <3>3. CASE d = c /\ AdoptPending(c)
      BY <2>2, <3>3 DEF AdoptPending, TypeOK
    <3>4. CASE d = c /\ (OpenSession(c) \/ Logout(c))
      BY <2>2, <3>4 DEF OpenSession, Logout, Fresh
    <3>5. CASE /\ d = c /\ ~AdoptPending(c) /\ ~OpenSession(c) /\ ~Logout(c)
               /\ ~\E command \in {"auth", "begin"} : BeginAuth(c, command)
      <4>1. op'[c] = op[c]
        BY <3>5 DEF ClientStep, SendProof, SendSealed, TakeHello, TakeProof, TakeData,
               SavePending, SaveSession, RemovePending, GiveUp
      <4> QED
        BY <2>2, <3>5, <4>1, ClientHandshakes DEF Fresh
    <3> QED
      BY <3>1, <3>2, <3>3, <3>4, <3>5
  <2> QED
    BY <2>1, <2>2 DEF Fresh
<1>2. CASE ~\E c \in Clients : ClientStep(c)
  BY <1>2, OthersKeepBarred DEF Next, Fresh
<1> QED
  BY <1>1, <1>2

\* No step brings a barred handshake on its way, and what a removal bars is nowhere.
LEMMA BarringStep == TypeOK /\ Fresh /\ Barring /\ [Next]_vars => Barring'
<1> SUFFICES ASSUME TypeOK, Fresh, Barring, [Next]_vars,
                    NEW t \in Clients, NEW d \in Clients, <<t, d>> \in barred'
             PROVE  /\ at'[t] \in Ends /\ t # d
                    /\ pending' # None => pending'.tid # t
                    /\ heard'[d] # None => heard'[d].tid # t
                    /\ at'[d] \in {"verify", "proved"} => key'[d].tid # t
                    /\ config' # None /\ writer' = d => config'.tid # t
  BY DEF Barring
<1>1. CASE <<t, d>> \in barred /\ \E c \in Clients : ClientStep(c)
  <2> PICK c \in Clients : ClientStep(c)
    BY <1>1
  <2>1. /\ at[t] \in Ends /\ t # d /\ t # c
        /\ pending # None => pending.tid # t
        /\ heard[d] # None => heard[d].tid # t
        /\ at[d] \in {"verify", "proved"} => key[d].tid # t
        /\ config # None /\ writer = d => config.tid # t
    BY <1>1, ClientHandshakes DEF Barring
  <2>2. at'[t] \in Ends
    BY <2>1, ClientHandshakes
  <2>3. pending' # None => pending'.tid # t
    BY <2>1, ClientHandshakes
  <2>4. heard'[d] # None => heard'[d].tid # t
    <3>1. CASE d = c /\ AdoptPending(c)
      BY <2>1, <3>1 DEF AdoptPending, TypeOK
    <3> QED
      BY <2>1, <3>1, ClientHandshakes
  <2>5. at'[d] \in {"verify", "proved"} => key'[d].tid # t
    BY <2>1, ClientHandshakes
  <2>6. config' # None /\ writer' = d => config'.tid # t
    BY <2>1, ClientHandshakes
  <2> QED
    BY <2>1, <2>2, <2>3, <2>4, <2>5, <2>6
<1>2. CASE <<t, d>> \notin barred /\ \E c \in Clients : ClientStep(c)
  <2> PICK c \in Clients : ClientStep(c)
    BY <1>2
  <2>1. RemovePending(c)
    BY <1>2, ClientHandshakes
  <2>2. at[t] \in Ends /\ at[d] = "new" /\ c # t /\ c # d
    BY <1>2, <2>1 DEF RemovePending, Bar, Ends
  <2>3. pending' = None /\ config' = config /\ writer' = writer
    BY <2>1 DEF RemovePending
  <2>4. t # d /\ heard[d] = None /\ writer # d
    BY <2>2 DEF Fresh, Ends
  <2>5. /\ at'[t] = at[t] /\ at'[d] = at[d] /\ heard'[d] = heard[d]
    BY <2>2, ClientHandshakes
  <2> QED
    BY <2>2, <2>3, <2>4, <2>5
<1>3. CASE ~\E c \in Clients : ClientStep(c)
  BY <1>3, OthersKeepBarred DEF Next, Barring
<1> QED
  BY <1>1, <1>2, <1>3

\* What was over when a logout, or an authentication that completed, removed the pending
\* handshake gives no session to a command that begins later.
THEOREM LogoutEnds == Spec => []LogoutEndsHandshakes
<1>1. Init => Fresh /\ Barring
  BY AuthAssumption DEF Init, Fresh, Barring
<1>2. TypeOK /\ Barring => LogoutEndsHandshakes
  <2> SUFFICES ASSUME TypeOK, Barring, config # None, <<config.tid, writer>> \in barred
               PROVE  FALSE
    BY DEF LogoutEndsHandshakes
  <2>1. config.tid \in Clients /\ writer \in Clients
    BY DEF TypeOK
  <2> QED
    BY <2>1 DEF Barring
<1> QED
  BY <1>1, <1>2, InitType, TypeStep, FreshStep, BarringStep, PTL DEF Spec

-----------------------------------------------------------------------------
(* One service at a time.                                                  *)

\* Starts that do not overlap: the one that goes past its claim finds none listening.
LEMMA ServiceOneStart ==
  ASSUME TypeOK, ~Overlap, OneStart, NEW i \in Services, ServiceStep(i)
  PROVE  OneStart'
<1> USE DEF OneStart, ListenerIsReachable, StartingUp, Up, Move, TypeOK
<1>1. CASE Start(i)
  BY <1>1 DEF Start
<1>2. CASE CheckSocket(i)
  BY <1>2, AuthAssumption DEF CheckSocket
<1>3. CASE ConnectSocket(i)
  BY <1>3, AuthAssumption DEF ConnectSocket, Listening
<1>4. CASE UnlinkSocket(i)
  BY <1>4 DEF UnlinkSocket
<1>5. CASE LoadConfig(i)
  BY <1>5 DEF LoadConfig
<1>6. CASE ClearConfig(i)
  BY <1>6 DEF ClearConfig
<1>7. CASE ClearPending(i)
  BY <1>7 DEF ClearPending
<1>8. CASE Launch(i)
  BY <1>8 DEF Launch
<1>9. CASE Bind(i)
  BY <1>9 DEF Bind
<1>10. CASE Arm(i)
  BY <1>10 DEF Arm
<1>11. CASE CleanExit(i)
  BY <1>11 DEF CleanExit
<1>12. CASE Crash(i)
  BY <1>12 DEF Crash
<1> QED
  BY <1>1, <1>2, <1>3, <1>4, <1>5, <1>6, <1>7, <1>8, <1>9, <1>10, <1>11, <1>12
  DEF ServiceStep

\* Neither a command nor a helper touches the socket's file or a start.
LEMMA OthersKeepStarts ==
  ASSUME (\E c \in Clients : ClientStep(c)) \/ HelperStep
  PROVE  UNCHANGED <<socket, service, stored>>
  BY DEF ClientStep, BeginAuth, AdoptPending, SendProof, OpenSession, SendSealed, TakeHello,
         TakeProof, TakeData, SavePending, SaveSession, Logout, RemovePending, GiveUp,
         HelperStep, HelperHello, HelperVerify, HelperData, starts

\* No step of any process lets a second service past its claim of the socket.
LEMMA OneStartStep == TypeOK /\ ~Overlap /\ OneStart /\ [Next]_vars => OneStart'
<1> SUFFICES ASSUME TypeOK, ~Overlap, OneStart, [Next]_vars
             PROVE  OneStart'
  OBVIOUS
<1>1. CASE \E i \in Services : ServiceStep(i)
  BY <1>1, ServiceOneStart
<1>2. CASE ~\E i \in Services : ServiceStep(i)
  <2>1. UNCHANGED <<socket, service>>
    BY <1>2, OthersKeepStarts DEF Next, vars
  <2> QED
    BY <2>1 DEF OneStart, ListenerIsReachable
<1> QED
  BY <1>1, <1>2

\* While starts do not overlap, two services never listen at once.
THEOREM OnlyOneService ==
  ASSUME ~Overlap
  PROVE  Spec => []OneService
<1>1. Init => OneStart
  BY DEF Init, OneStart, ListenerIsReachable, StartingUp, Up
<1>2. OneStart => OneService
  BY DEF OneStart, ListenerIsReachable, OneService
<1>3. TypeOK /\ OneStart /\ [Next]_vars => OneStart'
  BY OneStartStep
<1> QED
  BY <1>1, <1>2, <1>3, InitType, TypeStep, PTL DEF Spec

\* While starts do not overlap, nothing takes a listening service's socket file away.
THEOREM ListenerStays ==
  ASSUME ~Overlap
  PROVE  Spec => []ListenerIsReachable
<1>1. Init => OneStart
  BY DEF Init, OneStart, ListenerIsReachable, StartingUp, Up
<1>2. OneStart => ListenerIsReachable
  BY DEF OneStart
<1>3. TypeOK /\ OneStart /\ [Next]_vars => OneStart'
  BY OneStartStep
<1> QED
  BY <1>1, <1>2, <1>3, InitType, TypeStep, PTL DEF Spec

-----------------------------------------------------------------------------
(* What a start clears away.                                               *)

Past(i) == service[i] \in {"clear", "tidy"} \cup Cleared

\* Only one start is past its loading of the configuration.
LEMMA OnePast ==
  ASSUME OneStart
  PROVE  /\ \A i, j \in Services : Past(i) /\ Past(j) => i = j
         /\ \A i, j \in Services : Past(i) /\ service[j] = "load" => FALSE
         /\ \A i \in Services : Past(i) /\ Listening => (socket \in Services => socket = i)
  BY DEF OneStart, ListenerIsReachable, StartingUp, Up, Cleared, Past, Listening

\* Where a step of the start of i leaves the starts, and what it forgets.
LEMMA ServiceMoves ==
  ASSUME TypeOK, NEW i \in Services, ServiceStep(i)
  PROVE  /\ \A j \in Services : j # i => service'[j] = service[j]
         /\ Past(i)' => Past(i) \/ LoadConfig(i)
         /\ service'[i] = "clear" => LoadConfig(i)
         /\ LoadConfig(i) \/ (crossed \subseteq crossed' /\ stored' = stored)
<1> USE DEF Move, TypeOK, Past, Cleared, Up, history
<1>1. CASE Start(i)
  BY <1>1 DEF Start
<1>2. CASE CheckSocket(i)
  BY <1>2 DEF CheckSocket
<1>3. CASE ConnectSocket(i)
  BY <1>3 DEF ConnectSocket
<1>4. CASE UnlinkSocket(i)
  BY <1>4 DEF UnlinkSocket
<1>5. CASE LoadConfig(i)
  BY <1>5 DEF LoadConfig
<1>6. CASE ClearConfig(i)
  BY <1>6 DEF ClearConfig
<1>7. CASE ClearPending(i)
  BY <1>7 DEF ClearPending
<1>8. CASE Launch(i)
  BY <1>8 DEF Launch
<1>9. CASE Bind(i)
  BY <1>9 DEF Bind
<1>10. CASE Arm(i)
  BY <1>10 DEF Arm
<1>11. CASE CleanExit(i)
  BY <1>11 DEF CleanExit
<1>12. CASE Crash(i)
  BY <1>12 DEF Crash
<1> QED
  BY <1>1, <1>2, <1>3, <1>4, <1>5, <1>6, <1>7, <1>8, <1>9, <1>10, <1>11, <1>12
  DEF ServiceStep

\* A start marks the commands that it finds running, and clears the session it loaded.
LEMMA ServiceCrossing ==
  ASSUME TypeOK, ~Overlap, OneStart, Crossing, NEW i \in Services, ServiceStep(i)
  PROVE  Crossing'
<1> SUFFICES ASSUME NEW j \in Services, Past(j)'
             PROVE  InFlight(j)'
  BY DEF Crossing, Past
<1>1. UNCHANGED <<at, peer, key, writer>>
  BY DEF ServiceStep, Start, CheckSocket, ConnectSocket, UnlinkSocket, LoadConfig,
         ClearConfig, ClearPending, Launch, Bind, Arm, CleanExit, Crash, client, history
<1>2. CASE LoadConfig(i) /\ i = j
  <2>1. \A c \in Clients : at[c] \in {"verify", "proved"} => c \in crossed'
    BY <1>2 DEF LoadConfig, Running, Ends
  <2>2. /\ service'[j] = "clear" /\ config' = config
        /\ stored'[j] = (config # None)
    BY <1>2 DEF LoadConfig, Move, TypeOK, files
  <2> QED
    BY <1>1, <2>1, <2>2 DEF InFlight
<1>3. CASE ~(LoadConfig(i) /\ i = j)
  <2>1. Past(j)
    BY <1>3, ServiceMoves DEF Past
  <2>2. InFlight(j)
    BY <2>1 DEF Crossing, Past
  <2>3. ~LoadConfig(i)
    BY <2>1, OnePast DEF LoadConfig
  <2>4. crossed \subseteq crossed' /\ stored' = stored
    BY <2>3, ServiceMoves
  <2>5. \A c \in Clients \ crossed' :
           /\ at'[c] = "verify" => peer'[c] = j
           /\ at'[c] = "proved" => key'[c].helper = j
    BY <1>1, <2>2, <2>4 DEF InFlight
  <2>6. CASE ClearConfig(i)
    <3>1. i = j
      BY <2>1, <2>6, OnePast DEF ClearConfig, Past
    <3>2. config' # None => ~stored[j] /\ config' = config
      BY <2>6, <3>1 DEF ClearConfig
    <3> QED
      BY <1>1, <2>2, <2>4, <2>5, <3>2 DEF InFlight
  <2>7. CASE ~ClearConfig(i)
    <3>1. config' = config
      BY <2>7 DEF ServiceStep, Start, CheckSocket, ConnectSocket, UnlinkSocket, LoadConfig,
         ClearPending, Launch, Bind, Arm, CleanExit, Crash, files
    <3>2. service[j] = "clear" => service'[j] = "clear"
      <4>1. CASE i = j /\ service[j] = "clear"
        BY <4>1, <2>7 DEF ServiceStep, Start, CheckSocket, ConnectSocket, UnlinkSocket,
           LoadConfig, ClearPending, Launch, Bind, Arm, CleanExit, Crash, Move, Past, Cleared,
           Up, StartingUp, TypeOK
      <4> QED
        BY <4>1, ServiceMoves
    <3> QED
      BY <1>1, <2>2, <2>4, <2>5, <3>1, <3>2 DEF InFlight
  <2> QED
    BY <2>6, <2>7
<1> QED
  BY <1>2, <1>3

\* A command that began after the start's clearing verifies with that start's helper.
LEMMA ClientCrossing ==
  ASSUME TypeOK, ~Overlap, OneStart, ProvedOnTheWay, Crossing,
         NEW c \in Clients, ClientStep(c)
  PROVE  Crossing'
<1>1. UNCHANGED <<service, stored, socket, crossed>>
  BY DEF ClientStep, BeginAuth, AdoptPending, SendProof, OpenSession, SendSealed, TakeHello,
         TakeProof, TakeData, SavePending, SaveSession, Logout, RemovePending, GiveUp,
         starts, history
<1> SUFFICES ASSUME NEW j \in Services, Past(j)
             PROVE  InFlight(j)'
  BY <1>1 DEF Crossing, Past
<1>2. InFlight(j)
  BY DEF Crossing, Past
<1>3. ASSUME NEW d \in Clients \ crossed, at'[d] = "verify"
      PROVE  peer'[d] = j
  <2>1. CASE \E pin \in BOOLEAN : SendProof(c, pin)
    <3>1. /\ Listening
          /\ at' = [at EXCEPT ![c] = "verify"]
          /\ peer' = [peer EXCEPT ![c] = socket]
      BY <2>1 DEF SendProof, Goto
    <3>2. socket = j
      BY <3>1, OnePast DEF TypeOK, Listening
    <3>3. CASE d = c
      BY <3>1, <3>2, <3>3 DEF TypeOK
    <3>4. CASE d # c
      BY <1>2, <1>3, <3>1, <3>4 DEF TypeOK, InFlight
    <3> QED
      BY <3>3, <3>4
  <2>2. CASE ~\E pin \in BOOLEAN : SendProof(c, pin)
    <3>1. at[d] = "verify" /\ peer'[d] = peer[d]
      BY <1>3, <2>2 DEF ClientStep, BeginAuth, AdoptPending, OpenSession, SendSealed,
         TakeHello, TakeProof, TakeData, SavePending, SaveSession, Logout, RemovePending,
         GiveUp, Goto, TypeOK
    <3> QED
      BY <1>2, <3>1 DEF InFlight
  <2> QED
    BY <2>1, <2>2
<1>4. ASSUME NEW d \in Clients \ crossed, at'[d] = "proved"
      PROVE  key'[d].helper = j
  <2>1. CASE TakeProof(c)
    <3> PICK r \in replies :
          /\ at[c] = "verify"
          /\ Arrives(c, r)
          /\ Goto(c, IF AcceptsProof(c, r) THEN "proved" ELSE "failed")
          /\ key' = key
      BY <2>1, Zenon DEF TakeProof
    <3>1. CASE d = c
      <4>1. AcceptsProof(c, r)
        BY <1>4, <3>1 DEF Goto, TypeOK
      <4>2. r.key.helper = r.via
        BY <4>1 DEF AcceptsProof, ProvedOnTheWay
      <4>3. r.via = j
        BY <1>2, <3>1 DEF Arrives, InFlight
      <4> QED
        BY <3>1, <4>1, <4>2, <4>3 DEF AcceptsProof
    <3>2. CASE d # c
      BY <1>2, <1>4, <3>2 DEF Goto, TypeOK, InFlight
    <3> QED
      BY <3>1, <3>2
  <2>2. CASE ~TakeProof(c)
    <3>1. at[d] = "proved" /\ key'[d] = key[d]
      BY <1>4, <2>2 DEF ClientStep, BeginAuth, AdoptPending, SendProof, OpenSession,
         SendSealed, TakeHello, TakeData, SavePending, SaveSession, Logout, RemovePending,
         GiveUp, Goto, TypeOK
    <3> QED
      BY <1>2, <3>1 DEF InFlight
  <2> QED
    BY <2>1, <2>2
<1>5. ASSUME service'[j] = "clear" => ~stored'[j], config' # None
      PROVE  config'.helper = j \/ writer' \in crossed'
  <2>1. CASE SaveSession(c)
    <3>1. at[c] = "proved" /\ config' = key[c] /\ writer' = c
      BY <2>1 DEF SaveSession
    <3> QED
      BY <1>1, <1>2, <3>1 DEF InFlight
  <2>2. CASE ~SaveSession(c)
    <3>1. config' \in {config, None} /\ writer' = writer
      BY <2>2 DEF ClientStep, BeginAuth, AdoptPending, SendProof, OpenSession, SendSealed,
         TakeHello, TakeProof, TakeData, SavePending, Logout, RemovePending, GiveUp,
         files, history
    <3> QED
      BY <1>1, <1>2, <1>5, <3>1 DEF InFlight
  <2> QED
    BY <2>1, <2>2
<1> QED
  BY <1>1, <1>3, <1>4, <1>5 DEF InFlight

\* A helper answers; it touches neither a command, nor a file, nor a start.
LEMMA HelperCrossing ==
  ASSUME Crossing, HelperStep
  PROVE  Crossing'
<1>1. UNCHANGED <<config, service, stored, at, peer, key, writer, crossed>>
  BY DEF HelperStep, HelperHello, HelperVerify, HelperData, files, starts, client, history
<1> QED
  BY <1>1 DEF Crossing, InFlight

\* No step of any process brings a dead session past a start, except one in flight.
LEMMA CrossingStep ==
  TypeOK /\ ~Overlap /\ OneStart /\ ProvedOnTheWay /\ Crossing /\ [Next]_vars => Crossing'
<1> SUFFICES ASSUME TypeOK, ~Overlap, OneStart, ProvedOnTheWay, Crossing, [Next]_vars
             PROVE  Crossing'
  OBVIOUS
<1>1. CASE UNCHANGED vars
  BY <1>1 DEF vars, Crossing, InFlight
<1> QED
  BY <1>1, ServiceCrossing, ClientCrossing, HelperCrossing DEF Next

\* While starts do not overlap, what a start finds stored it clears, and only a command
\* that was already running may store a session of an earlier helper after that.
THEOREM DeadSessions ==
  ASSUME ~Overlap
  PROVE  Spec => []DeadSessionWasInFlight
<1>1. Init => OneStart /\ Crossing /\ ProvedOnTheWay
  BY DEF Init, OneStart, ListenerIsReachable, StartingUp, Up, Crossing, Cleared,
         ProvedOnTheWay, StoredSessionIsProved
<1>2. Crossing => DeadSessionWasInFlight
  BY DEF Crossing, InFlight, DeadSessionWasInFlight, Cleared, Up
<1>3. TypeOK /\ OneStart /\ ProvedOnTheWay /\ Crossing /\ [Next]_vars => Crossing'
  BY CrossingStep
<1>4. TypeOK /\ OneStart /\ [Next]_vars => OneStart'
  BY OneStartStep
<1> QED
  BY <1>1, <1>2, <1>3, <1>4, InitType, TypeStep, ProvedStep, PTL DEF Spec

\* All of it at once, as the run checks it: what it says of starts holds where they do
\* not overlap, the rest however commands, starts, crashes and late replies interleave.
THEOREM SessionsCorrect == Spec => []AuthInv
<1>1. Init => AuthInv
  <2>1. Init => ProvedOnTheWay /\ OneStart /\ Crossing /\ Fresh /\ Barring
    BY AuthAssumption
    DEF Init, Fresh, Barring, OneStart, ListenerIsReachable, StartingUp, Up, Crossing, Cleared,
           ProvedOnTheWay, StoredSessionIsProved
  <2> QED
    BY <2>1, InitType DEF AuthInv
<1>2. AuthInv /\ [Next]_vars => AuthInv'
  <2> SUFFICES ASSUME AuthInv, [Next]_vars PROVE AuthInv'
    OBVIOUS
  <2>1. TypeOK' /\ ProvedOnTheWay' /\ Fresh' /\ Barring'
    BY TypeStep, ProvedStep, FreshStep, BarringStep DEF AuthInv
  <2>2. ~Overlap => OneStart' /\ Crossing'
    BY OneStartStep, CrossingStep DEF AuthInv
  <2> QED
    BY <2>1, <2>2 DEF AuthInv
<1> QED
  BY <1>1, <1>2, PTL DEF Spec
=============================================================================
