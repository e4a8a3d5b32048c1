--------------------------- MODULE HelperRelayProofs ---------------------------
(***************************************************************************)
(* Proofs about HelperRelay, for every set of requests and every bound.    *)
(***************************************************************************)
EXTENDS HelperRelayInv, TLAPS

-----------------------------------------------------------------------------
(* Sequences: what appending and removing a frame does to the positions.   *)

(* Append, with the facts of it that the provers need by name. *)
LEMMA AppendFrame ==
  ASSUME NEW S, NEW s \in Seq(S), NEW e \in S
  PROVE  /\ Append(s, e) \in Seq(S)
         /\ Len(Append(s, e)) = Len(s) + 1
         /\ \A i \in 1..Len(s) : Append(s, e)[i] = s[i]
         /\ Append(s, e)[Len(s) + 1] = e
  OBVIOUS

(* Head and Tail, likewise. *)
LEMMA TailFrame ==
  ASSUME NEW S, NEW s \in Seq(S), s # <<>>
  PROVE  /\ Tail(s) \in Seq(S)
         /\ Len(s) \in Nat /\ Len(s) >= 1
         /\ Len(Tail(s)) = Len(s) - 1
         /\ \A i \in 1..(Len(s) - 1) : Tail(s)[i] = s[i + 1]
         /\ Head(s) = s[1] /\ Head(s) \in S
  OBVIOUS

(* The empty pipe is a pipe. *)
LEMMA EmptySequence ==
  ASSUME NEW S
  PROVE  <<>> \in Seq(S)
  OBVIOUS

(* The empty pipe meets every bound on what is in a pipe. *)
LEMMA EmptyFrames ==
  ASSUME NEW r
  PROVE  OnlyPushes(<<>>) /\ OnlyPushesOr(<<>>, r) /\ AtMostOne(<<>>)
  BY DEF OnlyPushes, OnlyPushesOr, AtMostOne

-----------------------------------------------------------------------------
(* Type correctness.                                                       *)

(* The service starts well typed. *)
LEMMA InitType == Init => TypeOK
  BY RelayAssumption, SMTT(30)
  DEF Init, TypeOK, ClientStates, ThreadStates, ServiceStates, Outcomes, Frames

(* The end of the process leaves the variables it sets well typed. *)
LEMMA ProcessEndsType ==
  ASSUME TypeOK, ProcessEnds
  PROVE  /\ client' \in [Requests -> ClientStates]
         /\ clientLeft' \in [Requests -> 0..ClientTimeout]
         /\ thread' \in [Requests -> ThreadStates]
         /\ holder' \in Requests \union {None}
         /\ waitLeft' \in 0..HelperTimeout
         /\ stdin' \in Seq(Requests)
         /\ stdout' \in Seq(Frames)
         /\ replies' \in Seq(Frames)
         /\ readerUp' \in BOOLEAN
<1>1. /\ client' \in [Requests -> ClientStates]
      /\ thread' \in [Requests -> ThreadStates]
  BY SMTT(30) DEF ProcessEnds, TypeOK, ClientStates, ThreadStates
<1>2. 0 \in 0..ClientTimeout /\ 0 \in 0..HelperTimeout
  BY RelayAssumption
<1>3. /\ clientLeft' \in [Requests -> 0..ClientTimeout]
      /\ holder' \in Requests \union {None}
      /\ waitLeft' \in 0..HelperTimeout
      /\ readerUp' \in BOOLEAN
  BY <1>2 DEF ProcessEnds
<1>4. /\ stdin' = <<>> /\ stdout' = <<>> /\ replies' = <<>>
      /\ <<>> \in Seq(Requests) /\ <<>> \in Seq(Frames)
  BY EmptySequence DEF ProcessEnds
<1> QED
  BY <1>1, <1>3, <1>4

(* Every step of clients, threads, helper and clock keeps the types. *)
LEMMA TypeStep == TypeOK /\ [Next]_vars => TypeOK'
<1> SUFFICES ASSUME TypeOK, [Next]_vars
             PROVE  TypeOK'
  OBVIOUS
<1> USE RelayAssumption
    DEF TypeOK, ClientStates, ThreadStates, ServiceStates, Outcomes, Frames
<1>1. ASSUME NEW r \in Requests, ClientStep(r)
      PROVE  TypeOK'
  <2>1. CASE ClientSend(r)
    BY <2>1, SMTT(30) DEF ClientSend, pipeVars, processVars, historyVars
  <2>2. CASE ClientRefused(r)
    BY <2>2, SMTT(30) DEF ClientRefused, threadVars, pipeVars, processVars, historyVars
  <2>3. CASE ClientGiveUp(r)
    BY <2>3, SMTT(30) DEF ClientGiveUp, threadVars, pipeVars, processVars, historyVars
  <2> QED
    BY <1>1, <2>1, <2>2, <2>3 DEF ClientStep
<1>2. ASSUME NEW r \in Requests, Lock(r)
      PROVE  TypeOK'
  BY <1>2, SMTT(30) DEF Lock, CleanWith, clientVars, processVars
<1>3. ASSUME NEW r \in Requests, Write(r)
      PROVE  TypeOK'
  BY <1>3, AppendFrame, SMTT(30) DEF Write, clientVars, processVars, historyVars
<1>4. ASSUME NEW r \in Requests, WriteBroken(r)
      PROVE  TypeOK'
  BY <1>4, ProcessEndsType, SMTT(30) DEF WriteBroken, historyVars
<1>5. ASSUME NEW r \in Requests, Receive(r)
      PROVE  TypeOK'
  BY <1>5, TailFrame, SMTT(30) DEF Receive, Return, clientVars, processVars, historyVars
<1>6. ASSUME NEW r \in Requests, SkipUnsolicited(r)
      PROVE  TypeOK'
  BY <1>6, TailFrame, SMTT(30) DEF SkipUnsolicited, clientVars, processVars
<1>7. ASSUME NEW r \in Requests, RecvTimeout(r) \/ RecvDisconnected(r)
      PROVE  TypeOK'
  <2>1. CASE RecvTimeout(r)
    BY <2>1, SMTT(30) DEF RecvTimeout, Return, clientVars, pipeVars, processVars
  <2>2. CASE RecvDisconnected(r)
    <3>1. /\ reply' \in [Requests -> Outcomes]
          /\ thread' \in [Requests -> ThreadStates]
          /\ holder' \in Requests \union {None}
          /\ waitLeft' \in 0..HelperTimeout
      <4>1. Return(r, "helper-exited")
        BY <2>2 DEF RecvDisconnected
      <4>2. "helper-exited" \in Outcomes /\ 0 \in 0..HelperTimeout
        OBVIOUS
      <4> QED
        BY <4>1, <4>2 DEF Return
    <3>2. UNCHANGED <<clientVars, pipeVars, processVars, historyVars>>
      BY <2>2 DEF RecvDisconnected
    <3> QED
      BY <3>1, <3>2 DEF clientVars, pipeVars, processVars, historyVars
  <2> QED
    BY <1>7, <2>1, <2>2
<1>8. ASSUME NEW r \in Requests, Reply(r)
      PROVE  TypeOK'
  <2>1. /\ client' \in [Requests -> ClientStates]
        /\ clientLeft' \in [Requests -> 0..ClientTimeout]
        /\ thread' \in [Requests -> ThreadStates]
    <3>1. CASE client[r] = "waiting"
      <4>1. /\ client' = [client EXCEPT ![r] = ClientOutcome(reply[r])]
            /\ clientLeft' = [clientLeft EXCEPT ![r] = 0]
            /\ thread' = [thread EXCEPT ![r] =
                             IF reply[r] = "helper-exited" THEN "exiting" ELSE "gone"]
        BY <1>8, <3>1, Zenon DEF Reply
      <4>2. /\ ClientOutcome(reply[r]) \in ClientStates
            /\ (IF reply[r] = "helper-exited" THEN "exiting" ELSE "gone") \in ThreadStates
            /\ 0 \in 0..ClientTimeout
        BY DEF ClientOutcome
      <4> QED
        BY <4>1, <4>2
    <3>2. CASE client[r] # "waiting"
      <4>1. UNCHANGED clientVars /\ thread' = [thread EXCEPT ![r] = "gone"]
        BY <1>8, <3>2, Zenon DEF Reply
      <4> QED
        BY <4>1 DEF clientVars
    <3> QED
      BY <3>1, <3>2
  <2>2. UNCHANGED <<reply, holder, waitLeft, pipeVars, processVars, historyVars>>
    BY <1>8, Zenon DEF Reply
  <2> QED
    BY <2>1, <2>2 DEF pipeVars, processVars, historyVars
<1>9. ASSUME CleanExit
      PROVE  TypeOK'
  <2>1. service' = "exited" /\ helperUp' = FALSE /\ socketFile' = FALSE /\ ProcessEnds
    BY <1>9 DEF CleanExit
  <2>2. UNCHANGED <<reply, starts, pushes, historyVars>>
    BY <1>9 DEF CleanExit
  <2> QED
    BY <2>1, <2>2, ProcessEndsType DEF historyVars
<1>10. CASE Start
  BY <1>10, SMTT(30) DEF Start, clientVars, threadVars, historyVars
<1>11. CASE ReaderForward
  BY <1>11, TailFrame, AppendFrame, SMTT(30)
  DEF ReaderForward, clientVars, threadVars, processVars, historyVars
<1>12. CASE ReaderEof
  BY <1>12 DEF ReaderEof, clientVars, threadVars, processVars, historyVars
<1>13. CASE HelperAnswer
  <2>1. stdin # <<>> /\ stdin \in Seq(Requests)
    BY <1>13 DEF HelperAnswer
  <2>2. Tail(stdin) \in Seq(Requests) /\ Head(stdin) \in Requests
    BY <2>1, TailFrame
  <2> QED
    BY <1>13, <2>2, AppendFrame, SMTT(30)
    DEF HelperAnswer, clientVars, threadVars, processVars, historyVars
<1>14. CASE HelperSwallow
  BY <1>14, TailFrame, SMTT(30)
  DEF HelperSwallow, clientVars, threadVars, processVars, historyVars
<1>15. CASE HelperPush
  BY <1>15, AppendFrame, SMTT(30) DEF HelperPush, clientVars, threadVars, historyVars
<1>16. CASE HelperDie
  <2>1. stdin' = <<>> /\ <<>> \in Seq(Requests)
    BY <1>16, EmptySequence DEF HelperDie
  <2>2. helperUp' = FALSE
    BY <1>16 DEF HelperDie
  <2>3. UNCHANGED <<clientVars, threadVars, stdout, replies, readerUp, service,
                    socketFile, starts, pushes, historyVars>>
    BY <1>16 DEF HelperDie
  <2> QED
    BY <2>1, <2>2, <2>3 DEF clientVars, threadVars, historyVars
<1>17. CASE Tick
  BY <1>17, SMTT(30) DEF Tick, Less, pipeVars, processVars
<1>18. CASE UNCHANGED vars
  BY <1>18 DEF vars, clientVars, threadVars, pipeVars, processVars, historyVars
<1> QED
  BY <1>1, <1>2, <1>3, <1>4, <1>5, <1>6, <1>7, <1>8, <1>9, <1>10, <1>11, <1>12,
     <1>13, <1>14, <1>15, <1>16, <1>17, <1>18
  DEF Next, ThreadStep, FatalExit, Signal, HelperStep

(* TypeOK holds in every reachable state. *)
THEOREM TypeCorrect == Spec => []TypeOK
  BY InitType, TypeStep, PTL DEF Spec

-----------------------------------------------------------------------------
(* The mutex: the threads in the critical section are its holder, and a     *)
(* thread has no outcome before it leaves the section.                      *)

(* Locking, replying and exiting leave one thread at most in the section. *)
LEMMA MutexStep ==
  ASSUME TypeOK, IdleInv, MutexInv, NoReplyYet, [Next]_vars
  PROVE  MutexInv' /\ NoReplyYet'
<1> USE RelayAssumption DEF MutexInv, NoReplyYet
<1>a. /\ thread \in [Requests -> ThreadStates]
      /\ reply \in [Requests -> Outcomes]
      /\ holder \in Requests \union {None}
  BY DEF TypeOK
<1>b. ASSUME ProcessEnds, UNCHANGED reply
      PROVE  MutexInv' /\ NoReplyYet'
  <2>1. /\ \A q \in Requests : thread'[q] = IF thread[q] = "none" THEN "none" ELSE "gone"
        /\ holder' = None
    BY <1>b DEF ProcessEnds
  <2> QED
    BY <1>a, <1>b, <2>1
<1>c. ASSUME NEW r \in Requests, NEW outcome, thread[r] = "awaiting", Return(r, outcome)
      PROVE  MutexInv' /\ NoReplyYet'
  <2>1. /\ \A q \in Requests :
             thread'[q] = IF q = r THEN "replying" ELSE thread[q]
        /\ \A q \in Requests : q # r => reply'[q] = reply[q]
        /\ holder' = None
    BY <1>a, <1>c DEF Return
  <2> QED
    BY <1>a, <1>c, <2>1
<1>1. ASSUME NEW r \in Requests, ClientStep(r)
      PROVE  MutexInv' /\ NoReplyYet'
  <2>1. CASE ClientSend(r)
    <3>1. thread' = [thread EXCEPT ![r] = "queued"] /\ UNCHANGED <<reply, holder>>
      BY <2>1 DEF ClientSend
    <3>2. thread[r] = "none"
      BY <2>1 DEF ClientSend, IdleInv
    <3> QED
      BY <1>a, <3>1, <3>2
  <2>2. CASE ClientRefused(r) \/ ClientGiveUp(r)
    BY <2>2, Zenon DEF ClientRefused, ClientGiveUp, threadVars
  <2> QED
    BY <1>1, <2>1, <2>2 DEF ClientStep
<1>2. ASSUME NEW r \in Requests, Lock(r)
      PROVE  MutexInv' /\ NoReplyYet'
  <2>1. /\ thread[r] = "queued" /\ holder = None /\ holder' = r
        /\ thread' = [thread EXCEPT ![r] = "locked"]
        /\ reply' = reply
    BY <1>2 DEF Lock
  <2> QED
    BY <1>a, <2>1
<1>3. ASSUME NEW r \in Requests, Write(r)
      PROVE  MutexInv' /\ NoReplyYet'
  <2>1. /\ thread[r] = "locked" /\ UNCHANGED <<holder, reply>>
        /\ thread' = [thread EXCEPT ![r] = "awaiting"]
    BY <1>3 DEF Write
  <2> QED
    BY <1>a, <2>1
<1>4. ASSUME NEW r \in Requests, WriteBroken(r)
      PROVE  MutexInv' /\ NoReplyYet'
  BY <1>4, <1>b DEF WriteBroken
<1>5. ASSUME NEW r \in Requests, Receive(r) \/ RecvTimeout(r) \/ RecvDisconnected(r)
      PROVE  MutexInv' /\ NoReplyYet'
  BY <1>5, <1>c DEF Receive, RecvTimeout, RecvDisconnected
<1>6. ASSUME NEW r \in Requests, Reply(r)
      PROVE  MutexInv' /\ NoReplyYet'
  <2>1. PICK s \in {"exiting", "gone"} : thread' = [thread EXCEPT ![r] = s]
    BY <1>6, Zenon DEF Reply
  <2>2. thread[r] = "replying" /\ UNCHANGED <<holder, reply>>
    BY <1>6, Zenon DEF Reply
  <2> QED
    BY <1>a, <2>1, <2>2
<1>7. ASSUME CleanExit
      PROVE  MutexInv' /\ NoReplyYet'
  BY <1>7, <1>b DEF CleanExit
<1>8. ASSUME UNCHANGED <<thread, reply, holder>>
      PROVE  MutexInv' /\ NoReplyYet'
  BY <1>8
<1> QED
  <2>1. ASSUME NEW r \in Requests, SkipUnsolicited(r)
        PROVE  UNCHANGED <<thread, reply, holder>>
    BY <2>1 DEF SkipUnsolicited
  <2>2. ASSUME Start \/ ReaderForward \/ ReaderEof \/ HelperStep \/ Tick \/ UNCHANGED vars
        PROVE  UNCHANGED <<thread, reply, holder>>
    BY <2>2, Zenon DEF Start, ReaderForward, ReaderEof, HelperStep, HelperAnswer,
       HelperSwallow, HelperPush, HelperDie, Tick, vars, threadVars
  <2> QED
    BY <1>1, <1>2, <1>3, <1>4, <1>5, <1>6, <1>7, <1>8, <2>1, <2>2, Zenon
    DEF Next, ThreadStep, FatalExit, Signal

-----------------------------------------------------------------------------
(* A request that was not sent has no thread.                              *)

(* Only a request that was sent is given a thread. *)
LEMMA IdleStep ==
  ASSUME TypeOK, IdleInv, [Next]_vars
  PROVE  IdleInv'
<1> USE DEF IdleInv
<1>a. client \in [Requests -> ClientStates] /\ thread \in [Requests -> ThreadStates]
  BY DEF TypeOK
<1>b. ASSUME ProcessEnds
      PROVE  IdleInv'
  BY <1>b DEF ProcessEnds
<1>c. ASSUME NEW r \in Requests, NEW s, thread[r] # "none",
             thread' = [thread EXCEPT ![r] = s], UNCHANGED client
      PROVE  IdleInv'
  BY <1>a, <1>c
<1>d. ASSUME NEW r \in Requests, NEW s, s # "idle",
             client' = [client EXCEPT ![r] = s], UNCHANGED thread
      PROVE  IdleInv'
  BY <1>a, <1>d
<1>1. ASSUME NEW r \in Requests, ClientStep(r)
      PROVE  IdleInv'
  <2>1. CASE ClientSend(r)
    <3>1. /\ thread' = [thread EXCEPT ![r] = "queued"]
          /\ client' = [client EXCEPT ![r] = "waiting"]
      BY <2>1 DEF ClientSend
    <3> QED
      BY <1>a, <3>1
  <2>2. CASE ClientRefused(r)
    <3>1. client' = [client EXCEPT ![r] = "unavailable"] /\ UNCHANGED thread
      BY <2>2 DEF ClientRefused, threadVars
    <3> QED
      BY <1>a, <3>1
  <2>3. CASE ClientGiveUp(r)
    <3>1. client' = [client EXCEPT ![r] = "gaveup"] /\ UNCHANGED thread
      BY <2>3 DEF ClientGiveUp, threadVars
    <3> QED
      BY <1>a, <3>1
  <2> QED
    BY <1>1, <2>1, <2>2, <2>3 DEF ClientStep
<1>2. ASSUME NEW r \in Requests, Lock(r) \/ Write(r)
      PROVE  IdleInv'
  BY <1>2, <1>c DEF Lock, Write, clientVars
<1>3. ASSUME NEW r \in Requests, Receive(r) \/ RecvTimeout(r) \/ RecvDisconnected(r)
      PROVE  IdleInv'
  <2>1. /\ thread[r] = "awaiting" /\ UNCHANGED client
        /\ thread' = [thread EXCEPT ![r] = "replying"]
    BY <1>3, Zenon DEF Receive, RecvTimeout, RecvDisconnected, Return, clientVars
  <2> QED
    BY <1>c, <2>1
<1>4. ASSUME NEW r \in Requests, Reply(r)
      PROVE  IdleInv'
  <2>1. PICK s : thread' = [thread EXCEPT ![r] = s]
    BY <1>4, Zenon DEF Reply
  <2>2. thread[r] = "replying"
    BY <1>4, Zenon DEF Reply
  <2>3. client' = client \/ client' = [client EXCEPT ![r] = ClientOutcome(reply[r])]
    BY <1>4, Zenon DEF Reply, clientVars
  <2>4. client[r] # "idle" /\ ClientOutcome(reply[r]) # "idle"
    BY <2>2 DEF ClientOutcome
  <2> QED
    BY <1>a, <2>1, <2>2, <2>3, <2>4
<1>5. ASSUME UNCHANGED <<client, thread>>
      PROVE  IdleInv'
  BY <1>5
<1> QED
  <2>1. ASSUME NEW r \in Requests, SkipUnsolicited(r)
        PROVE  UNCHANGED <<client, thread>>
    BY <2>1 DEF SkipUnsolicited, clientVars
  <2>2. ASSUME Start \/ ReaderForward \/ ReaderEof \/ HelperStep \/ Tick \/ UNCHANGED vars
        PROVE  UNCHANGED <<client, thread>>
    BY <2>2, Zenon DEF Start, ReaderForward, ReaderEof, HelperStep, HelperAnswer,
       HelperSwallow, HelperPush, HelperDie, Tick, vars, clientVars, threadVars
  <2>3. ASSUME NEW r \in Requests, WriteBroken(r)
        PROVE  ProcessEnds
    BY <2>3 DEF WriteBroken
  <2>4. ASSUME CleanExit
        PROVE  ProcessEnds
    BY <2>4 DEF CleanExit
  <2> QED
    BY <1>b, <1>1, <1>2, <1>3, <1>4, <1>5, <2>1, <2>2, <2>3, <2>4, Zenon
    DEF Next, ThreadStep, FatalExit, Signal

-----------------------------------------------------------------------------
(* What moving a frame does to the predicates on pipes.                    *)

(* An unsolicited frame changes none of the bounds. *)
LEMMA PushAppended ==
  ASSUME NEW s \in Seq(Frames), NEW r
  PROVE  /\ OnlyPushes(s) => OnlyPushes(Append(s, Push))
         /\ OnlyPushesOr(s, r) => OnlyPushesOr(Append(s, Push), r)
         /\ AtMostOne(s) => AtMostOne(Append(s, Push))
<1> Push \in Frames
  BY DEF Frames
<1> USE AppendFrame DEF OnlyPushes, OnlyPushesOr, AtMostOne
<1> DEFINE t == Append(s, Push)
<1>1. Len(s) \in Nat /\ Len(t) = Len(s) + 1 /\ t[Len(s) + 1] = Push
  OBVIOUS
<1>2. \A i \in 1..Len(t) : i \in 1..Len(s) \/ i = Len(s) + 1
  BY <1>1
<1>3. \A i \in 1..Len(s) : t[i] = s[i]
  OBVIOUS
<1> HIDE DEF t
<1>4. /\ OnlyPushes(s) => OnlyPushes(t)
      /\ OnlyPushesOr(s, r) => OnlyPushesOr(t, r)
      /\ AtMostOne(s) => AtMostOne(t)
  BY <1>1, <1>2, <1>3
<1> QED
  BY <1>4 DEF t

(* A reply may follow where only pushes, or pushes and itself, were. *)
LEMMA FrameAppended ==
  ASSUME NEW s \in Seq(Frames), NEW e \in Frames, NEW r
  PROVE  /\ OnlyPushesOr(s, r) /\ e = r => OnlyPushesOr(Append(s, e), r)
         /\ OnlyPushes(s) => AtMostOne(Append(s, e))
<1> USE AppendFrame DEF OnlyPushes, OnlyPushesOr, AtMostOne
<1> DEFINE t == Append(s, e)
<1>1. Len(s) \in Nat /\ Len(t) = Len(s) + 1 /\ t[Len(s) + 1] = e
  OBVIOUS
<1>2. \A i \in 1..Len(t) : i \in 1..Len(s) \/ i = Len(s) + 1
  BY <1>1
<1>3. \A i \in 1..Len(s) : t[i] = s[i]
  OBVIOUS
<1> HIDE DEF t
<1>4. /\ OnlyPushesOr(s, r) /\ e = r => OnlyPushesOr(t, r)
      /\ OnlyPushes(s) => AtMostOne(t)
  BY <1>1, <1>2, <1>3
<1> QED
  BY <1>4 DEF t

(* What is taken from a pipe is what the bound says, and the rest keeps it. *)
LEMMA FrameTaken ==
  ASSUME NEW s \in Seq(Frames), s # <<>>, NEW r
  PROVE  /\ Head(s) \in Frames
         /\ OnlyPushes(s) => Head(s) = Push /\ OnlyPushes(Tail(s))
         /\ OnlyPushesOr(s, r) =>
              Head(s) \in {Push, r} /\ OnlyPushesOr(Tail(s), r)
         /\ AtMostOne(s) => AtMostOne(Tail(s))
         /\ AtMostOne(s) /\ Head(s) # Push => OnlyPushes(Tail(s))
<1> USE DEF OnlyPushes, OnlyPushesOr, AtMostOne
<1> DEFINE t == Tail(s)
<1>1. Len(s) \in Nat /\ Len(s) >= 1 /\ Len(t) = Len(s) - 1
      /\ Head(s) = s[1] /\ Head(s) \in Frames
  BY TailFrame
<1>2. \A i \in 1..Len(t) : t[i] = s[i + 1] /\ i + 1 \in 1..Len(s) /\ i + 1 # 1
  BY <1>1, TailFrame
<1>3. 1 \in 1..Len(s)
  BY <1>1
<1> HIDE DEF t
<1>4. /\ OnlyPushes(s) => Head(s) = Push /\ OnlyPushes(t)
      /\ OnlyPushesOr(s, r) => Head(s) \in {Push, r} /\ OnlyPushesOr(t, r)
  BY <1>1, <1>2, <1>3
<1>5. ASSUME AtMostOne(s)
      PROVE  AtMostOne(t)
  <2> SUFFICES ASSUME NEW i \in 1..Len(t), NEW j \in 1..Len(t),
                      t[i] # Push, t[j] # Push
               PROVE  i = j
    OBVIOUS
  <2>1. i + 1 = j + 1
    BY <1>2, <1>5
  <2> QED
    BY <2>1, <1>1
<1>6. ASSUME AtMostOne(s), Head(s) # Push
      PROVE  OnlyPushes(t)
  BY <1>1, <1>2, <1>3, <1>6
<1> QED
  BY <1>1, <1>4, <1>5, <1>6 DEF t

(* A pipe of pushes meets the weaker bounds. *)
LEMMA PushesAreWeak ==
  ASSUME NEW s \in Seq(Frames), OnlyPushes(s), NEW r
  PROVE  OnlyPushesOr(s, r) /\ AtMostOne(s)
  BY DEF OnlyPushes, OnlyPushesOr, AtMostOne

(* A pipe of requests is a pipe of frames. *)
LEMMA RequestPipe ==
  ASSUME TypeOK
  PROVE  stdin \in Seq(Frames) /\ stdout \in Seq(Frames) /\ replies \in Seq(Frames)
<1>1. Requests \subseteq Frames
  BY DEF Frames
<1> QED
  BY <1>1 DEF TypeOK

-----------------------------------------------------------------------------
(* End of file comes only after everything the helper wrote.               *)

(* The reader thread ends with nothing left to read. *)
LEMMA EofStep ==
  ASSUME TypeOK, EofInv, [Next]_vars
  PROVE  EofInv'
<1> USE DEF EofInv, TypeOK
<1>1. ASSUME NEW r \in Requests, WriteBroken(r)
      PROVE  EofInv'
  <2>1. ~helperUp /\ helperUp' = helperUp
    BY <1>1 DEF WriteBroken
  <2>2. stdin' = <<>> /\ stdout' = <<>>
    BY <1>1 DEF WriteBroken, ProcessEnds
  <2> QED
    BY <2>1, <2>2
<1>2. ASSUME CleanExit
      PROVE  EofInv'
  BY <1>2 DEF CleanExit, ProcessEnds
<1>3. ASSUME NEW r \in Requests, Write(r)
      PROVE  EofInv'
  <2>1. helperUp /\ helperUp' = helperUp /\ readerUp' = readerUp
    BY <1>3 DEF Write, processVars
  <2> QED
    BY <2>1
<1>4. CASE Start \/ HelperDie \/ ReaderEof
  BY <1>4 DEF Start, HelperDie, ReaderEof, processVars
<1>5. CASE HelperAnswer \/ HelperSwallow \/ HelperPush
  <2>1. helperUp /\ helperUp' = helperUp /\ readerUp' = readerUp
    BY <1>5, Zenon DEF HelperAnswer, HelperSwallow, HelperPush, processVars
  <2> QED
    BY <2>1
<1>6. CASE ReaderForward
  <2>1. readerUp /\ readerUp' = readerUp /\ helperUp' = helperUp /\ stdin' = stdin
    BY <1>6 DEF ReaderForward, processVars
  <2> QED
    BY <2>1
<1>7. ASSUME UNCHANGED <<stdin, stdout, readerUp, helperUp>>
      PROVE  EofInv'
  BY <1>7
<1> QED
  <2>1. ASSUME NEW r \in Requests,
               \/ ClientStep(r) \/ Lock(r) \/ Receive(r) \/ SkipUnsolicited(r)
               \/ RecvTimeout(r) \/ RecvDisconnected(r) \/ Reply(r)
        PROVE  UNCHANGED <<stdin, stdout, readerUp, helperUp>>
    BY <2>1, Zenon DEF ClientStep, ClientSend, ClientRefused, ClientGiveUp, Lock,
       Receive, SkipUnsolicited, RecvTimeout, RecvDisconnected, Reply,
       pipeVars, processVars
  <2>2. ASSUME Tick \/ UNCHANGED vars
        PROVE  UNCHANGED <<stdin, stdout, readerUp, helperUp>>
    BY <2>2, Zenon DEF Tick, vars, pipeVars, processVars
  <2> QED
    BY <1>1, <1>2, <1>3, <1>4, <1>5, <1>6, <1>7, <2>1, <2>2, Zenon
    DEF Next, ThreadStep, HelperStep, FatalExit, Signal

-----------------------------------------------------------------------------
(* Whatever is under way while a clean request holds the mutex is its own. *)

(* A clean holder can find nothing but pushes and its own reply. *)
LEMMA CleanStep ==
  ASSUME TypeOK, IdleInv, MutexInv, NoReplyYet, EofInv, CleanInv, [Next]_vars
  PROVE  CleanInv'
<1> DEFINE InSection(t) == t \in {"locked", "awaiting", "replying", "exiting", "gone"}
           Answered(q) == IsFrame(reply[q]) => reply[q] = q
           Pushes == stdin = <<>> /\ OnlyPushes(stdout) /\ OnlyPushes(replies)
           Own(q) == OnlyPushesOr(stdin, q) /\ OnlyPushesOr(stdout, q) /\ OnlyPushesOr(replies, q)
           Ok(q) == /\ InSection(thread[q])
                    /\ Answered(q)
                    /\ thread[q] = "locked" => Pushes
                    /\ thread[q] = "awaiting" => Own(q)
<1>a. /\ thread \in [Requests -> ThreadStates]
      /\ reply \in [Requests -> Outcomes]
      /\ clean \subseteq Requests
  BY DEF TypeOK
<1>b. stdin \in Seq(Frames) /\ stdout \in Seq(Frames) /\ replies \in Seq(Frames)
  BY RequestPipe
<1>c. \A q \in clean : Ok(q)
  BY Zenon DEF CleanInv
<1>d. SUFFICES \A q \in clean' : Ok(q)'
  BY Zenon DEF CleanInv
<1>e. \A q \in Requests : thread[q] \in {"locked", "awaiting"} <=> holder = q
  BY DEF MutexInv
<1> HIDE DEF Ok
<1>f. ASSUME UNCHANGED <<thread, reply, stdin, stdout, replies, clean>>
      PROVE  \A q \in clean' : Ok(q)'
  <2>1. ASSUME NEW q
        PROVE  Ok(q)' <=> Ok(q)
    BY <1>f DEF Ok, OnlyPushes, OnlyPushesOr
  <2> QED
    BY <1>c, <1>f, <2>1
(* A step that only empties pipes, or that leaves the section. *)
<1>g. ASSUME ProcessEnds, UNCHANGED <<reply, clean>>
      PROVE  \A q \in clean' : Ok(q)'
  <2> SUFFICES ASSUME NEW q \in clean
               PROVE  Ok(q)'
    BY <1>g
  <2>1. Ok(q) /\ q \in Requests
    BY <1>a, <1>c
  <2>2. thread'[q] = "gone"
    BY <2>1, <1>g DEF ProcessEnds, Ok
  <2> QED
    BY <2>1, <2>2, <1>g DEF Ok
<1>h. ASSUME NEW r \in Requests, NEW outcome, thread[r] = "awaiting", Return(r, outcome),
             r \in clean /\ IsFrame(outcome) => outcome = r,
             UNCHANGED clean
      PROVE  \A q \in clean' : Ok(q)'
  <2> SUFFICES ASSUME NEW q \in clean
               PROVE  Ok(q)'
    BY <1>h
  <2>1. Ok(q) /\ q \in Requests
    BY <1>a, <1>c
  <2>2. CASE q = r
    <3>1. thread'[q] = "replying" /\ reply'[q] = outcome
      BY <2>1, <2>2, <1>a, <1>h DEF Return
    <3> QED
      BY <2>2, <3>1, <1>h DEF Ok
  <2>3. CASE q # r
    <3>1. thread'[q] = thread[q] /\ reply'[q] = reply[q]
      BY <2>1, <2>3, <1>a, <1>h DEF Return
    <3>2. thread[q] \notin {"locked", "awaiting"}
      BY <2>1, <2>3, <1>e, <1>h
    <3> QED
      BY <2>1, <3>1, <3>2 DEF Ok
  <2> QED
    BY <2>2, <2>3
(* A step that moves frames among the pipes and leaves the threads alone. *)
<1>i. ASSUME UNCHANGED <<thread, reply, clean>>,
             Pushes => Pushes',
             \A q \in Requests : Own(q) => Own(q)'
      PROVE  \A q \in clean' : Ok(q)'
  <2> SUFFICES ASSUME NEW q \in clean
               PROVE  Ok(q)'
    BY <1>i
  <2>1. Ok(q) /\ q \in Requests
    BY <1>a, <1>c
  <2>2. Pushes => Pushes'
    BY <1>i
  <2>3. Own(q) => Own(q)'
    BY <1>i, <2>1
  <2>4. UNCHANGED <<thread, reply>>
    BY <1>i
  <2> HIDE DEF Pushes, Own
  <2> QED
    BY <2>1, <2>2, <2>3, <2>4 DEF Ok
<1>1. ASSUME NEW r \in Requests, ClientStep(r)
      PROVE  \A q \in clean' : Ok(q)'
  <2>1. CASE ClientSend(r)
    <3>1. /\ thread' = [thread EXCEPT ![r] = "queued"] /\ thread[r] = "none"
          /\ UNCHANGED <<reply, stdin, stdout, replies, clean>>
      BY <2>1, Zenon DEF ClientSend, pipeVars, historyVars, IdleInv
    <3>2. ASSUME NEW q \in clean
          PROVE  Ok(q)'
      <4>1. Ok(q) /\ q \in Requests
        BY <1>a, <1>c
      <4>2. q # r
        BY <4>1, <3>1 DEF Ok
      <4>3. thread'[q] = thread[q]
        BY <4>1, <4>2, <3>1, <1>a
      <4> QED
        BY <4>1, <4>3, <3>1 DEF Ok, OnlyPushes, OnlyPushesOr
    <3> QED
      BY <3>1, <3>2
  <2>2. CASE ClientRefused(r) \/ ClientGiveUp(r)
    BY <2>2, <1>f, Zenon DEF ClientRefused, ClientGiveUp, threadVars, pipeVars, historyVars
  <2> QED
    BY <1>1, <2>1, <2>2 DEF ClientStep
<1>2. ASSUME NEW r \in Requests, Lock(r)
      PROVE  \A q \in clean' : Ok(q)'
  <2>1. /\ thread[r] = "queued" /\ holder = None
        /\ thread' = [thread EXCEPT ![r] = "locked"]
        /\ replies' = <<>>
        /\ clean' = CleanWith(r)
        /\ UNCHANGED <<reply, stdin, stdout>>
    BY <1>2 DEF Lock
  <2> SUFFICES ASSUME NEW q \in clean'
               PROVE  Ok(q)'
    OBVIOUS
  <2>2. q \in clean \/ (q = r /\ stdin = <<>> /\ OnlyPushes(stdout))
    BY <2>1 DEF CleanWith
  <2>3. CASE q \in clean
    <3>1. Ok(q) /\ q \in Requests
      BY <2>3, <1>a, <1>c
    <3>2. q # r
      BY <2>1, <3>1 DEF Ok
    <3>3. thread'[q] = thread[q] /\ thread[q] \notin {"locked", "awaiting"}
      BY <1>a, <1>e, <2>1, <3>1, <3>2, RelayAssumption
    <3> QED
      BY <2>1, <3>1, <3>3 DEF Ok
  <2>4. CASE q = r /\ stdin = <<>> /\ OnlyPushes(stdout)
    <3>1. thread'[q] = "locked"
      BY <1>a, <2>1, <2>4
    <3>2. reply'[q] = None /\ ~IsFrame(None)
      BY <2>1, <2>4, RelayAssumption DEF NoReplyYet, IsFrame, Frames
    <3>3. Pushes'
      BY <2>1, <2>4, EmptyFrames DEF OnlyPushes
    <3> QED
      BY <3>1, <3>2, <3>3 DEF Ok
  <2> QED
    BY <2>2, <2>3, <2>4
<1>3. ASSUME NEW r \in Requests, Write(r)
      PROVE  \A q \in clean' : Ok(q)'
  <2>1. /\ thread[r] = "locked"
        /\ thread' = [thread EXCEPT ![r] = "awaiting"]
        /\ stdin' = Append(stdin, r)
        /\ UNCHANGED <<reply, stdout, replies, clean>>
    BY <1>3, Zenon DEF Write, historyVars
  <2> SUFFICES ASSUME NEW q \in clean
               PROVE  Ok(q)'
    BY <2>1
  <2>2. Ok(q) /\ q \in Requests
    BY <1>a, <1>c
  <2>3. CASE q # r
    <3>1. thread'[q] = thread[q] /\ thread[q] \notin {"locked", "awaiting"}
      BY <1>a, <1>e, <2>1, <2>2, <2>3
    <3> QED
      BY <2>1, <2>2, <3>1 DEF Ok
  <2>4. CASE q = r
    <3>1. thread'[q] = "awaiting"
      BY <1>a, <2>1, <2>4
    <3>2. Pushes
      BY <2>1, <2>2, <2>4 DEF Ok
    <3>3. OnlyPushesOr(stdin, r) /\ r \in Frames
      BY <3>2, EmptyFrames DEF Frames
    <3>4. OnlyPushesOr(stdin', r)
      BY <3>3, <2>1, <1>b, FrameAppended
    <3>5. OnlyPushesOr(stdout, r) /\ OnlyPushesOr(replies, r)
      BY <3>2, <1>b, PushesAreWeak
    <3>6. Own(q)'
      BY <2>1, <2>4, <3>4, <3>5 DEF OnlyPushesOr
    <3> QED
      BY <2>1, <2>2, <3>1, <3>6 DEF Ok
  <2> QED
    BY <2>3, <2>4
<1>4. ASSUME NEW r \in Requests, WriteBroken(r)
      PROVE  \A q \in clean' : Ok(q)'
  BY <1>4, <1>g DEF WriteBroken, historyVars
<1>5. ASSUME NEW r \in Requests, Receive(r)
      PROVE  \A q \in clean' : Ok(q)'
  <2>1. /\ thread[r] = "awaiting" /\ replies # <<>> /\ Head(replies) # Push
        /\ Return(r, Head(replies)) /\ UNCHANGED clean
    BY <1>5, Zenon DEF Receive, historyVars
  <2>2. r \in clean => Head(replies) = r
    <3>1. r \in clean => OnlyPushesOr(replies, r)
      BY <1>c, <2>1 DEF Ok
    <3> QED
      BY <3>1, <2>1, <1>b, FrameTaken
  <2> QED
    BY <2>1, <2>2, <1>h
<1>6. ASSUME NEW r \in Requests, RecvTimeout(r) \/ RecvDisconnected(r)
      PROVE  \A q \in clean' : Ok(q)'
  <2>1. thread[r] = "awaiting" /\ UNCHANGED clean
    BY <1>6, Zenon DEF RecvTimeout, RecvDisconnected, historyVars
  <2>2. PICK outcome \in {"timeout", "helper-exited"} : Return(r, outcome)
    BY <1>6, Zenon DEF RecvTimeout, RecvDisconnected
  <2>3. ~IsFrame(outcome)
    BY RelayAssumption DEF IsFrame, Frames
  <2> QED
    BY <2>1, <2>2, <2>3, <1>h
<1>7. ASSUME NEW r \in Requests, Reply(r)
      PROVE  \A q \in clean' : Ok(q)'
  <2>1. PICK s \in {"exiting", "gone"} : thread' = [thread EXCEPT ![r] = s]
    BY <1>7, Zenon DEF Reply
  <2>2. UNCHANGED <<reply, stdin, stdout, replies, clean>>
    BY <1>7, Zenon DEF Reply, pipeVars, historyVars
  <2> SUFFICES ASSUME NEW q \in clean
               PROVE  Ok(q)'
    BY <2>2
  <2>3. Ok(q) /\ q \in Requests
    BY <1>a, <1>c
  <2>4. thread'[q] = IF q = r THEN s ELSE thread[q]
    BY <1>a, <2>1, <2>3
  <2> QED
    BY <2>2, <2>3, <2>4 DEF Ok, OnlyPushes, OnlyPushesOr
<1>8. ASSUME CleanExit
      PROVE  \A q \in clean' : Ok(q)'
  BY <1>8, <1>g DEF CleanExit, historyVars
<1>9. ASSUME NEW r \in Requests, SkipUnsolicited(r)
      PROVE  \A q \in clean' : Ok(q)'
  <2>1. /\ replies # <<>> /\ replies' = Tail(replies)
        /\ UNCHANGED <<thread, reply, stdin, stdout, clean>>
    BY <1>9 DEF SkipUnsolicited
  <2>2. Pushes => Pushes'
    BY <2>1, <1>b, FrameTaken DEF OnlyPushes
  <2>3. \A q \in Requests : Own(q) => Own(q)'
    BY <2>1, <1>b, FrameTaken DEF OnlyPushesOr
  <2> QED
    BY <2>1, <2>2, <2>3, <1>i
<1>10. CASE ReaderForward
  <2>1. /\ stdout # <<>> /\ stdout' = Tail(stdout)
        /\ replies' = Append(replies, Head(stdout))
        /\ UNCHANGED <<thread, reply, stdin, clean>>
    BY <1>10, Zenon DEF ReaderForward, threadVars, historyVars
  <2>2. Pushes => Pushes'
    <3> SUFFICES ASSUME Pushes
                 PROVE  Pushes'
      OBVIOUS
    <3>1. OnlyPushes(Tail(stdout)) /\ Head(stdout) = Push
      BY <2>1, <1>b, FrameTaken
    <3>2. OnlyPushes(Append(replies, Push))
      BY <1>b, PushAppended
    <3> QED
      BY <2>1, <3>1, <3>2 DEF OnlyPushes
  <2>3. ASSUME NEW q \in Requests, Own(q)
        PROVE  Own(q)'
    <3>1. OnlyPushesOr(Tail(stdout), q) /\ Head(stdout) \in {Push, q} /\ Head(stdout) \in Frames
      BY <2>1, <2>3, <1>b, FrameTaken
    <3>2. OnlyPushesOr(Append(replies, Head(stdout)), q)
      BY <3>1, <2>3, <1>b, PushAppended, FrameAppended
    <3> QED
      BY <2>1, <2>3, <3>1, <3>2 DEF OnlyPushesOr
  <2> QED
    BY <2>1, <2>2, <2>3, <1>i
<1>11. CASE HelperAnswer
  <2>1. /\ stdin # <<>> /\ stdin' = Tail(stdin)
        /\ stdout' = Append(stdout, Head(stdin))
        /\ UNCHANGED <<thread, reply, replies, clean>>
    BY <1>11, Zenon DEF HelperAnswer, threadVars, historyVars
  <2>2. Pushes => Pushes'
    BY <2>1
  <2>3. ASSUME NEW q \in Requests, Own(q)
        PROVE  Own(q)'
    <3>1. OnlyPushesOr(Tail(stdin), q) /\ Head(stdin) \in {Push, q} /\ Head(stdin) \in Frames
      BY <2>1, <2>3, <1>b, FrameTaken
    <3>2. OnlyPushesOr(Append(stdout, Head(stdin)), q)
      BY <3>1, <2>3, <1>b, PushAppended, FrameAppended
    <3> QED
      BY <2>1, <2>3, <3>1, <3>2 DEF OnlyPushesOr
  <2> QED
    BY <2>1, <2>2, <2>3, <1>i
<1>12. CASE HelperSwallow
  <2>1. /\ stdin # <<>> /\ stdin' = Tail(stdin)
        /\ UNCHANGED <<thread, reply, stdout, replies, clean>>
    BY <1>12, Zenon DEF HelperSwallow, threadVars, historyVars
  <2>2. Pushes => Pushes'
    BY <2>1
  <2>3. \A q \in Requests : Own(q) => Own(q)'
    BY <2>1, <1>b, FrameTaken DEF OnlyPushesOr
  <2> QED
    BY <2>1, <2>2, <2>3, <1>i
<1>13. CASE HelperPush
  <2>1. /\ stdout' = Append(stdout, Push)
        /\ UNCHANGED <<thread, reply, stdin, replies, clean>>
    BY <1>13, Zenon DEF HelperPush, threadVars, historyVars
  <2>2. Pushes => Pushes'
    BY <2>1, <1>b, PushAppended DEF OnlyPushes
  <2>3. \A q \in Requests : Own(q) => Own(q)'
    BY <2>1, <1>b, PushAppended DEF OnlyPushesOr
  <2> QED
    BY <2>1, <2>2, <2>3, <1>i
<1>14. CASE HelperDie
  <2>1. stdin' = <<>> /\ UNCHANGED <<thread, reply, stdout, replies, clean>>
    BY <1>14, Zenon DEF HelperDie, threadVars, historyVars
  <2>2. Pushes => Pushes'
    BY <2>1 DEF OnlyPushes
  <2>3. \A q \in Requests : Own(q) => Own(q)'
    BY <2>1, EmptyFrames DEF OnlyPushesOr
  <2> QED
    BY <2>1, <2>2, <2>3, <1>i
<1>15. CASE Start \/ ReaderEof \/ Tick \/ UNCHANGED vars
  BY <1>15, <1>f, Zenon DEF Start, ReaderEof, Tick, vars, threadVars, pipeVars, historyVars
<1> QED
  BY <1>1, <1>2, <1>3, <1>4, <1>5, <1>6, <1>7, <1>8, <1>9, <1>10, <1>11, <1>12,
     <1>13, <1>14, <1>15, Zenon
  DEF Next, ThreadStep, HelperStep, FatalExit, Signal

-----------------------------------------------------------------------------
(* Before the first timeout the relay stays in step.                       *)

(* Until a time-out, what the helper owes is in one place. *)
LEMMA InStepStep ==
  ASSUME TypeOK, IdleInv, MutexInv, NoReplyYet, EofInv, InStep, [Next]_vars
  PROVE  InStep'
<1> DEFINE Nobody == \A q \in Requests : thread[q] # "awaiting"
           Clean(q) == thread[q] \in {"locked", "awaiting"} \/ IsFrame(reply[q]) => q \in clean
           AllClean == \A q \in Requests : Clean(q)
           Goal == (Nobody' => Quiet') /\ Single' /\ AllClean'
<1>a. /\ thread \in [Requests -> ThreadStates]
      /\ reply \in [Requests -> Outcomes]
      /\ clean \subseteq Requests
  BY DEF TypeOK
<1>b. stdin \in Seq(Frames) /\ stdout \in Seq(Frames) /\ replies \in Seq(Frames)
  BY RequestPipe
<1>c. CASE lapsed # {}
  <2>1. lapsed \subseteq lapsed'
    <3>1. ASSUME NEW r \in Requests, RecvTimeout(r)
          PROVE  lapsed \subseteq lapsed'
      BY <3>1 DEF RecvTimeout
    <3>2. ASSUME NEW r \in Requests, ~RecvTimeout(r), ClientStep(r) \/ ThreadStep(r)
          PROVE  lapsed' = lapsed
      BY <3>2, Zenon DEF ClientStep, ClientSend, ClientRefused, ClientGiveUp, ThreadStep,
         Lock, Write, WriteBroken, Receive, SkipUnsolicited, RecvDisconnected, Reply,
         FatalExit, CleanExit, historyVars
    <3>3. ASSUME \/ ReaderForward \/ ReaderEof \/ HelperStep \/ Signal \/ Start \/ Tick
                 \/ UNCHANGED vars
          PROVE  lapsed' = lapsed
      BY <3>3, Zenon DEF ReaderForward, ReaderEof, HelperStep, HelperAnswer, HelperSwallow,
         HelperPush, HelperDie, Signal, CleanExit, Start, Tick, vars, historyVars
    <3> QED
      BY <3>1, <3>2, <3>3 DEF Next
  <2> QED
    BY <1>c, <2>1 DEF InStep
<1>d. SUFFICES ASSUME lapsed = {}, lapsed' = {}
               PROVE  Goal
  BY <1>c, Zenon DEF InStep
<1>e. (Nobody => Quiet) /\ Single /\ AllClean
  BY <1>d, Zenon DEF InStep
<1>f. ASSUME UNCHANGED <<thread, reply, stdin, stdout, replies, clean>>
      PROVE  Goal
  <2>1. (Quiet' <=> Quiet) /\ (Single' <=> Single)
    BY <1>f DEF Quiet, Single, OnlyPushes, AtMostOne
  <2>2. (Nobody' <=> Nobody) /\ (AllClean' <=> AllClean)
    BY <1>f
  <2> QED
    BY <1>e, <2>1, <2>2
(* Empty pipes are quiet, and so is a pipe of which the thread took the reply. *)
<1>g. Quiet' => Single'
  BY DEF Quiet, Single, OnlyPushes, AtMostOne
<1>h. ASSUME ProcessEnds, UNCHANGED <<reply, clean>>
      PROVE  Goal
  <2>1. Quiet'
    BY <1>h, EmptyFrames DEF ProcessEnds, Quiet, OnlyPushes
  <2>2. \A q \in Requests : thread'[q] \in {"none", "gone"}
    BY <1>h DEF ProcessEnds
  <2>3. AllClean'
    BY <1>e, <1>h, <2>2
  <2> QED
    BY <1>g, <2>1, <2>3
(* A step of a thread that leaves the pipes alone and waits for no reply,    *)
(* before or after it.                                                      *)
<1>i. ASSUME NEW r \in Requests, NEW s \in {"queued", "replying", "exiting", "gone"},
             thread[r] # "awaiting", thread' = [thread EXCEPT ![r] = s],
             UNCHANGED <<reply, stdin, stdout, replies, clean>>
      PROVE  Goal
  <2>1. (Quiet' <=> Quiet) /\ (Single' <=> Single)
    BY <1>i DEF Quiet, Single, OnlyPushes, AtMostOne
  <2>2. \A q \in Requests : thread'[q] = IF q = r THEN s ELSE thread[q]
    BY <1>a, <1>i
  <2>3. Nobody' => Nobody
    BY <1>i, <2>2
  <2>4. AllClean'
    BY <1>e, <1>i, <2>2
  <2> QED
    BY <1>e, <2>1, <2>3, <2>4
(* A thread takes its outcome and leaves quiet pipes behind. *)
<1>j. ASSUME NEW r \in Requests, NEW outcome, thread[r] = "awaiting", Return(r, outcome),
             UNCHANGED clean, Quiet'
      PROVE  Goal
  <2>1. r \in clean
    BY <1>e, <1>j
  <2>2. \A q \in Requests : q # r => thread'[q] = thread[q] /\ reply'[q] = reply[q]
    BY <1>a, <1>j DEF Return
  <2>3. AllClean'
    BY <1>e, <1>j, <2>1, <2>2
  <2> QED
    BY <1>g, <1>j, <2>3
(* A step that moves frames among the pipes and leaves the threads alone. *)
<1>k. ASSUME UNCHANGED <<thread, reply, clean>>, Quiet => Quiet', Single => Single'
      PROVE  Goal
  <2>1. (Nobody' <=> Nobody) /\ (AllClean' <=> AllClean)
    BY <1>k
  <2> QED
    BY <1>e, <1>k, <2>1
<1>1. ASSUME NEW r \in Requests, ClientStep(r)
      PROVE  Goal
  <2>1. CASE ClientSend(r)
    <3>1. /\ thread' = [thread EXCEPT ![r] = "queued"] /\ thread[r] = "none"
          /\ UNCHANGED <<reply, stdin, stdout, replies, clean>>
      BY <2>1, Zenon DEF ClientSend, pipeVars, historyVars, IdleInv
    <3>2. thread[r] # "awaiting"
      BY <3>1
    <3> QED
      BY <1>i, <3>1, <3>2
  <2>2. CASE ClientRefused(r) \/ ClientGiveUp(r)
    <3>1. UNCHANGED <<thread, reply, stdin, stdout, replies, clean>>
      BY <2>2, Zenon DEF ClientRefused, ClientGiveUp, threadVars, pipeVars, historyVars
    <3> QED
      BY <1>f, <3>1
  <2> QED
    BY <1>1, <2>1, <2>2 DEF ClientStep
<1>2. ASSUME NEW r \in Requests, Lock(r)
      PROVE  Goal
  <2>1. /\ thread[r] = "queued" /\ holder = None
        /\ thread' = [thread EXCEPT ![r] = "locked"]
        /\ replies' = <<>>
        /\ clean' = CleanWith(r)
        /\ UNCHANGED <<reply, stdin, stdout>>
    BY <1>2 DEF Lock
  <2>2. Nobody
    BY <2>1, RelayAssumption DEF MutexInv
  <2>3. Quiet
    BY <1>e, <2>2
  <2>4. Quiet'
    BY <2>1, <2>3, EmptyFrames DEF Quiet, OnlyPushes
  <2>5. clean' = clean \union {r}
    BY <2>1, <2>3 DEF CleanWith, Quiet
  <2>6. \A q \in Requests : q # r => thread'[q] = thread[q]
    BY <1>a, <2>1
  <2>7. AllClean'
    BY <1>e, <2>1, <2>5, <2>6
  <2> QED
    BY <1>g, <2>4, <2>7
<1>3. ASSUME NEW r \in Requests, Write(r)
      PROVE  Goal
  <2>1. /\ thread[r] = "locked"
        /\ thread' = [thread EXCEPT ![r] = "awaiting"]
        /\ stdin' = Append(stdin, r)
        /\ UNCHANGED <<reply, stdout, replies, clean>>
    BY <1>3, Zenon DEF Write, historyVars
  <2>2. holder = r /\ \A q \in Requests : thread[q] = "awaiting" => q = r
    BY <2>1 DEF MutexInv
  <2>3. Quiet
    BY <1>e, <2>1, <2>2
  <2>4. Single'
    <3>1. stdin = <<>> /\ stdin' = <<r>>
      BY <2>1, <2>3 DEF Quiet
    <3> QED
      BY <2>1, <2>3, <3>1 DEF Quiet, Single, OnlyPushes
  <2>5. thread'[r] = "awaiting" /\ \A q \in Requests : q # r => thread'[q] = thread[q]
    BY <1>a, <2>1
  <2>6. AllClean'
    BY <1>e, <2>1, <2>5
  <2> QED
    BY <2>4, <2>5, <2>6
<1>4. ASSUME NEW r \in Requests, WriteBroken(r)
      PROVE  Goal
  BY <1>4, <1>h DEF WriteBroken, historyVars
<1>5. ASSUME NEW r \in Requests, Receive(r)
      PROVE  Goal
  <2>1. /\ thread[r] = "awaiting" /\ replies # <<>> /\ Head(replies) # Push
        /\ replies' = Tail(replies) /\ Return(r, Head(replies))
        /\ UNCHANGED <<stdin, stdout, clean>>
    BY <1>5, Zenon DEF Receive, historyVars
  <2>2. ~OnlyPushes(replies)
    BY <2>1, <1>b, FrameTaken
  <2>3. stdin = <<>> /\ OnlyPushes(stdout) /\ AtMostOne(replies)
    BY <1>e, <2>2 DEF Single
  <2>4. OnlyPushes(Tail(replies))
    BY <2>1, <2>3, <1>b, FrameTaken
  <2>5. Quiet'
    BY <2>1, <2>3, <2>4 DEF Quiet, OnlyPushes
  <2> QED
    BY <1>j, <2>1, <2>5
<1>6. ASSUME NEW r \in Requests, SkipUnsolicited(r)
      PROVE  Goal
  <2>1. /\ replies # <<>> /\ replies' = Tail(replies)
        /\ UNCHANGED <<thread, reply, stdin, stdout, clean>>
    BY <1>6 DEF SkipUnsolicited
  <2>2. Quiet => Quiet'
    BY <2>1, <1>b, FrameTaken DEF Quiet, OnlyPushes
  <2>3. Single => Single'
    <3>1. /\ OnlyPushes(replies) => OnlyPushes(Tail(replies))
          /\ AtMostOne(replies) => AtMostOne(Tail(replies))
      BY <2>1, <1>b, FrameTaken
    <3> QED
      BY <2>1, <3>1 DEF Single, OnlyPushes, AtMostOne
  <2> QED
    BY <1>k, <2>1, <2>2, <2>3
<1>7. ASSUME NEW r \in Requests, RecvTimeout(r)
      PROVE  Goal
  BY <1>7, <1>d DEF RecvTimeout
<1>8. ASSUME NEW r \in Requests, RecvDisconnected(r)
      PROVE  Goal
  <2>1. /\ thread[r] = "awaiting" /\ replies = <<>> /\ ~readerUp
        /\ Return(r, "helper-exited")
        /\ UNCHANGED <<stdin, stdout, replies, clean>>
    BY <1>8, Zenon DEF RecvDisconnected, pipeVars, historyVars
  <2>2. Quiet'
    BY <2>1, EmptyFrames DEF EofInv, Quiet, OnlyPushes
  <2> QED
    BY <1>j, <2>1, <2>2
<1>9. ASSUME NEW r \in Requests, Reply(r)
      PROVE  Goal
  <2>1. PICK s \in {"exiting", "gone"} : thread' = [thread EXCEPT ![r] = s]
    BY <1>9, Zenon DEF Reply
  <2>2. thread[r] # "awaiting" /\ UNCHANGED <<reply, stdin, stdout, replies, clean>>
    <3>1. thread[r] = "replying" /\ UNCHANGED <<reply, stdin, stdout, replies, clean>>
      BY <1>9, Zenon DEF Reply, pipeVars, historyVars
    <3> QED
      BY <3>1
  <2> QED
    BY <1>i, <2>1, <2>2
<1>10. ASSUME CleanExit
       PROVE  Goal
  BY <1>10, <1>h DEF CleanExit, historyVars
<1>11. CASE ReaderForward
  <2>1. /\ stdout # <<>> /\ stdout' = Tail(stdout)
        /\ replies' = Append(replies, Head(stdout))
        /\ UNCHANGED <<thread, reply, stdin, clean>>
    BY <1>11, Zenon DEF ReaderForward, threadVars, historyVars
  <2>2. /\ Head(stdout) \in Frames
        /\ OnlyPushes(stdout) => Head(stdout) = Push /\ OnlyPushes(Tail(stdout))
        /\ AtMostOne(stdout) => AtMostOne(Tail(stdout))
        /\ AtMostOne(stdout) /\ Head(stdout) # Push => OnlyPushes(Tail(stdout))
    BY <2>1, <1>b, FrameTaken
  <2>3. /\ OnlyPushes(replies) => OnlyPushes(Append(replies, Push))
        /\ AtMostOne(replies) => AtMostOne(Append(replies, Push))
        /\ OnlyPushes(replies) => AtMostOne(Append(replies, Head(stdout)))
    BY <2>2, <1>b, PushAppended, FrameAppended
  <2>4. Quiet => Quiet'
    BY <2>1, <2>2, <2>3 DEF Quiet, OnlyPushes
  <2>5. CASE Len(stdin) = 1 /\ OnlyPushes(stdout) /\ OnlyPushes(replies)
    <3>1. Len(stdin') = 1 /\ OnlyPushes(stdout)' /\ OnlyPushes(replies)'
      BY <2>1, <2>2, <2>3, <2>5 DEF OnlyPushes
    <3> QED
      BY <1>k, <2>1, <2>4, <3>1 DEF Single
  <2>6. CASE stdin = <<>> /\ AtMostOne(stdout) /\ OnlyPushes(replies)
    <3>1. CASE Head(stdout) = Push
      <4>1. stdin' = <<>> /\ AtMostOne(stdout)' /\ OnlyPushes(replies)'
        BY <2>1, <2>2, <2>3, <2>6, <3>1 DEF OnlyPushes, AtMostOne
      <4> QED
        BY <1>k, <2>1, <2>4, <4>1 DEF Single
    <3>2. CASE Head(stdout) # Push
      <4>1. stdin' = <<>> /\ OnlyPushes(stdout)' /\ AtMostOne(replies)'
        BY <2>1, <2>2, <2>3, <2>6, <3>2 DEF OnlyPushes, AtMostOne
      <4> QED
        BY <1>k, <2>1, <2>4, <4>1 DEF Single
    <3> QED
      BY <3>1, <3>2
  <2>7. CASE stdin = <<>> /\ OnlyPushes(stdout) /\ AtMostOne(replies)
    <3>1. stdin' = <<>> /\ OnlyPushes(stdout)' /\ AtMostOne(replies)'
      BY <2>1, <2>2, <2>3, <2>7 DEF OnlyPushes, AtMostOne
    <3> QED
      BY <1>k, <2>1, <2>4, <3>1 DEF Single
  <2> QED
    BY <1>e, <2>5, <2>6, <2>7 DEF Single
<1>12. ASSUME stdin # <<>>, stdin' = Tail(stdin),
              \/ stdout' = stdout
              \/ stdout' = Append(stdout, Head(stdin)),
              UNCHANGED <<thread, reply, replies, clean>>
       PROVE  Goal
  <2>1. ~Quiet
    BY <1>12 DEF Quiet
  <2>2. Len(stdin) = 1 /\ OnlyPushes(stdout) /\ OnlyPushes(replies)
    BY <1>e, <1>12 DEF Single
  <2>3. stdin' = <<>>
    BY <2>2, <1>12, <1>b
  <2>4. AtMostOne(stdout)'
    <3>1. AtMostOne(stdout) /\ AtMostOne(Append(stdout, Head(stdin)))
      BY <2>2, <1>12, <1>b, FrameTaken, FrameAppended, PushesAreWeak
    <3> QED
      BY <1>12, <3>1 DEF AtMostOne
  <2>5. OnlyPushes(replies)'
    BY <1>12, <2>2 DEF OnlyPushes
  <2> QED
    BY <1>k, <1>12, <2>1, <2>3, <2>4, <2>5 DEF Single
<1>13. CASE HelperAnswer \/ HelperSwallow
  BY <1>13, <1>12, Zenon DEF HelperAnswer, HelperSwallow, threadVars, historyVars
<1>14. CASE HelperPush
  <2>1. /\ stdout' = Append(stdout, Push)
        /\ UNCHANGED <<thread, reply, stdin, replies, clean>>
    BY <1>14, Zenon DEF HelperPush, threadVars, historyVars
  <2>2. /\ OnlyPushes(stdout) => OnlyPushes(Append(stdout, Push))
        /\ AtMostOne(stdout) => AtMostOne(Append(stdout, Push))
    BY <1>b, PushAppended
  <2>3. (Quiet => Quiet') /\ (Single => Single')
    BY <2>1, <2>2 DEF Quiet, Single, OnlyPushes, AtMostOne
  <2> QED
    BY <1>k, <2>1, <2>3
<1>15. CASE HelperDie
  <2>1. stdin' = <<>> /\ UNCHANGED <<thread, reply, stdout, replies, clean>>
    BY <1>15, Zenon DEF HelperDie, threadVars, historyVars
  <2>2. Quiet => Quiet'
    BY <2>1 DEF Quiet, OnlyPushes
  <2>3. OnlyPushes(stdout) => AtMostOne(stdout)
    BY <1>b, PushesAreWeak
  <2>4. Single => Single'
    BY <2>1, <2>3 DEF Single, OnlyPushes, AtMostOne
  <2> QED
    BY <1>k, <2>1, <2>2, <2>4
<1>16. CASE Start \/ ReaderEof \/ Tick \/ UNCHANGED vars
  <2>1. UNCHANGED <<thread, reply, stdin, stdout, replies, clean>>
    BY <1>16, Zenon DEF Start, ReaderEof, Tick, vars, threadVars, pipeVars, historyVars
  <2> QED
    BY <1>f, <2>1
<1> HIDE DEF Goal
<1> QED
  BY <1>1, <1>2, <1>3, <1>4, <1>5, <1>6, <1>7, <1>8, <1>9, <1>10, <1>11,
     <1>13, <1>14, <1>15, <1>16, Zenon
  DEF Next, ThreadStep, HelperStep, FatalExit, Signal

-----------------------------------------------------------------------------
(* The invariant and its consequences.                                     *)

(* The invariant holds at the start. *)
LEMMA InitInv == Init => RelayInv
<1> SUFFICES ASSUME Init
             PROVE  RelayInv
  OBVIOUS
<1>1. TypeOK
  BY InitType
<1>2. stdin = <<>> /\ stdout = <<>> /\ replies = <<>> /\ helperUp /\ readerUp /\ clean = {}
  BY DEF Init
<1>3. \A r \in Requests : thread[r] = "none" /\ reply[r] = None /\ ~IsFrame(None)
  BY RelayAssumption DEF Init, IsFrame, Frames
<1>4. holder = None
  BY DEF Init
<1>5. IdleInv /\ MutexInv /\ NoReplyYet
  BY <1>3, <1>4, RelayAssumption DEF IdleInv, MutexInv, NoReplyYet
<1>6. EofInv /\ CleanInv
  BY <1>2 DEF EofInv, CleanInv
<1>7. Quiet /\ Single
  BY <1>2, EmptyFrames DEF Quiet, Single
<1>8. InStep
  BY <1>3, <1>7 DEF InStep
<1> QED
  BY <1>1, <1>5, <1>6, <1>8 DEF RelayInv

(* Every step keeps the invariant, part by part. *)
LEMMA InvStep == RelayInv /\ [Next]_vars => RelayInv'
  BY TypeStep, IdleStep, MutexStep, EofStep, CleanStep, InStepStep, Zenon DEF RelayInv

(* The relay's invariant holds in every reachable state: whatever the        *)
(* threads, the reader, the helper, the clients and the clock do.            *)
THEOREM RelayCorrect == Spec => []RelayInv
  BY InitInv, InvStep, PTL DEF Spec

(* Draining the channel resynchronizes the relay, for any number of clients, *)
(* any timeouts, pipe capacity, restarts and unsolicited messages.           *)
THEOREM CleanStartAnswered == Spec => []CleanStartOwnReply
<1>1. RelayInv => CleanStartOwnReply
  BY DEF RelayInv, CleanInv, CleanStartOwnReply
<1> QED
  BY <1>1, RelayCorrect, PTL

(* Until a request times out in the service, every reply that a thread is    *)
(* handed answers that thread's request.                                     *)
THEOREM RepliesMatch == Spec => []RepliesMatchUntilTimeout
<1>1. RelayInv => RepliesMatchUntilTimeout
  <2> SUFFICES ASSUME RelayInv, lapsed = {}, NEW r \in Requests, IsFrame(reply[r])
               PROVE  reply[r] = r
    BY DEF RepliesMatchUntilTimeout
  <2>1. r \in clean
    BY DEF RelayInv, InStep
  <2> QED
    BY <2>1 DEF RelayInv, CleanInv
<1> QED
  BY <1>1, RelayCorrect, PTL
-----------------------------------------------------------------------------
(* Time, where the programs are prompt.                                     *)

(* A step of one request's command or thread keeps the time of all.         *)
LEMMA ThreadPunctual ==
  ASSUME TypeOK, IdleInv, MutexInv, Punctual, HelperTimeout < ClientTimeout,
         NEW q \in Requests, ClientStep(q) \/ ThreadStep(q)
  PROVE  Punctual'
<1> USE RelayAssumption DEF TypeOK, ClientStates, ThreadStates, ServiceStates
<1>1. CASE ClientSend(q)
  BY <1>1, SMTT(30) DEF ClientSend, processVars, historyVars, Punctual, Waiting
<1>2. CASE ClientRefused(q)
  BY <1>2, SMTT(30) DEF ClientRefused, threadVars, processVars, historyVars, Punctual, Waiting
<1>3. CASE ClientGiveUp(q)
  BY <1>3, SMTT(30) DEF ClientGiveUp, threadVars, processVars, historyVars, Punctual, Waiting
<1>4. CASE Lock(q)
  BY <1>4, SMTT(30) DEF Lock, clientVars, processVars, Punctual, Waiting, MutexInv
<1>5. CASE Write(q)
  BY <1>5, SMTT(30) DEF Write, clientVars, processVars, historyVars, Punctual, Waiting, MutexInv
<1>6. CASE WriteBroken(q)
  BY <1>6, SMTT(30) DEF WriteBroken, ProcessEnds, historyVars, Punctual, Waiting
<1>7. CASE Receive(q)
  BY <1>7, SMTT(30) DEF Receive, Return, clientVars, processVars, historyVars, Punctual,
                        Waiting, MutexInv
<1>8. CASE SkipUnsolicited(q)
  BY <1>8, SMTT(30) DEF SkipUnsolicited, clientVars, processVars, Punctual, Waiting, MutexInv
<1>9. CASE RecvTimeout(q)
  BY <1>9, SMTT(30) DEF RecvTimeout, Return, clientVars, processVars, Punctual, Waiting, MutexInv
<1>10. CASE RecvDisconnected(q)
  BY <1>10, SMTT(30) DEF RecvDisconnected, Return, clientVars, processVars, historyVars,
                         Punctual, Waiting, MutexInv
<1>11. CASE Reply(q)
  <2>1. UNCHANGED <<service, waitLeft, delayed>> /\ service = "up"
    BY <1>11 DEF Reply, processVars, historyVars
  <2>2. client'[q] # "waiting"
    <3>1. ClientOutcome(reply[q]) # "waiting"
      BY DEF ClientOutcome
    <3>2. \/ client' = [client EXCEPT ![q] = ClientOutcome(reply[q])]
          \/ client' = client /\ client[q] # "waiting"
      BY <1>11 DEF Reply, clientVars
    <3> QED
      BY <3>1, <3>2
  <2>3. \A r \in Requests \ {q} :
          client'[r] = client[r] /\ clientLeft'[r] = clientLeft[r] /\ thread'[r] = thread[r]
    BY <1>11 DEF Reply, clientVars
  <2> QED
    BY <2>1, <2>2, <2>3, SMTT(60) DEF Punctual, Waiting
<1>12. CASE FatalExit(q)
  BY <1>12, SMTT(30) DEF FatalExit, CleanExit, ProcessEnds, historyVars, Punctual, Waiting
<1> QED
  BY <1>1, <1>2, <1>3, <1>4, <1>5, <1>6, <1>7, <1>8, <1>9, <1>10, <1>11, <1>12
  DEF ClientStep, ThreadStep

(* So does every other step, and time itself: a tick waits for what is due. *)
LEMMA PunctualStep ==
  Prompt /\ HelperTimeout < ClientTimeout
    /\ TypeOK /\ IdleInv /\ MutexInv /\ Punctual /\ [Next]_vars => Punctual'
<1> SUFFICES ASSUME Prompt, HelperTimeout < ClientTimeout,
                    TypeOK, IdleInv, MutexInv, Punctual, [Next]_vars
             PROVE  Punctual'
  OBVIOUS
<1> USE RelayAssumption DEF TypeOK, ClientStates, ThreadStates, ServiceStates
<1>1. CASE \E r \in Requests : ClientStep(r) \/ ThreadStep(r)
  BY <1>1, ThreadPunctual
<1>2. CASE ReaderForward \/ ReaderEof \/ HelperStep
  <2>1. UNCHANGED <<client, clientLeft, thread, waitLeft, service, delayed>>
    BY <1>2 DEF ReaderForward, ReaderEof, HelperStep, HelperAnswer, HelperSwallow, HelperPush,
                HelperDie, clientVars, threadVars, processVars, historyVars
  <2> QED
    BY <2>1 DEF Punctual, Waiting
<1>3. CASE Signal
  BY <1>3, SMTT(30) DEF Signal, CleanExit, ProcessEnds, historyVars, Punctual, Waiting
<1>4. CASE Start
  BY <1>4 DEF Start, clientVars, threadVars, historyVars, Punctual, Waiting
<1>5. CASE Tick
  <2>1. /\ ~StepDue
        /\ waitLeft' = Less(waitLeft)
        /\ delayed' = delayed \union {r \in Requests :
             thread[r] \in {"queued", "locked"} /\ clientLeft'[r] <= HelperTimeout}
        /\ UNCHANGED <<client, thread, service>>
        /\ \A r \in Requests : Waiting(r) => clientLeft'[r] = Less(clientLeft[r])
    BY <1>5 DEF Tick, processVars
  <2>2. ASSUME NEW r \in Requests, Waiting(r), r \notin delayed'
        PROVE  /\ thread[r] \in {"queued", "locked", "awaiting"}
               /\ thread[r] \in {"queued", "locked"} => clientLeft'[r] > HelperTimeout
               /\ thread[r] = "awaiting" => clientLeft'[r] > waitLeft'
    <3>1. service = "up" /\ clientLeft[r] # 0
      BY <2>1, <2>2 DEF StepDue, Punctual
    <3>2. thread[r] \in {"queued", "locked", "awaiting"} /\ r \notin delayed
      BY <2>1, <2>2, <3>1 DEF StepDue, Punctual
    <3>3. ASSUME thread[r] = "awaiting"
          PROVE  clientLeft'[r] > waitLeft'
      <4>1. waitLeft # 0 /\ clientLeft[r] > waitLeft
        BY <2>1, <2>2, <3>1, <3>2, <3>3 DEF StepDue, Punctual
      <4>2. clientLeft'[r] = clientLeft[r] - 1 /\ waitLeft' = waitLeft - 1
        BY <2>1, <2>2, <3>1, <4>1 DEF Less
      <4> QED
        BY <4>1, <4>2
    <3>4. ASSUME thread[r] \in {"queued", "locked"}
          PROVE  clientLeft'[r] > HelperTimeout
      <4>1. clientLeft'[r] \in Nat
        BY <2>1, <2>2 DEF Less
      <4> QED
        BY <2>1, <2>2, <3>4, <4>1
    <3> QED
      BY <3>2, <3>3, <3>4
  <2>3. \A r \in Requests : Waiting(r)' <=> Waiting(r)
    BY <2>1 DEF Waiting
  <2> QED
    BY <2>1, <2>2, <2>3 DEF Punctual
<1>6. CASE UNCHANGED vars
  BY <1>6 DEF vars, clientVars, threadVars, processVars, historyVars, Punctual, Waiting
<1> QED
  BY <1>1, <1>2, <1>3, <1>4, <1>5, <1>6 DEF Next

(* With prompt programs and the service's time-out below the client's, a     *)
(* command gives up on its own only if a wait of its request's, for another, *)
(* for the pipe or between unsolicited messages, left its client no more     *)
(* time than one wait of the service, whatever is killed and restarted.      *)
THEOREM ClientsPatient ==
  ASSUME Prompt, HelperTimeout < ClientTimeout
  PROVE  Spec => []PatientClient
<1>1. Init => Punctual /\ PatientClient
  BY DEF Init, Punctual, Waiting, PatientClient
<1>2. RelayInv /\ Punctual /\ [Next]_vars => Punctual'
  BY PunctualStep DEF RelayInv
<1>3. RelayInv /\ Punctual /\ PatientClient /\ [Next]_vars => PatientClient'
  <2> SUFFICES ASSUME RelayInv, Punctual, PatientClient, [Next]_vars,
                      NEW r \in Requests, client'[r] = "gaveup"
               PROVE  r \in delayed'
    BY DEF PatientClient
  <2>1. delayed \subseteq delayed'
    BY DEF Next, ClientStep, ClientSend, ClientRefused, ClientGiveUp, ThreadStep, Lock, Write,
           WriteBroken, Receive, SkipUnsolicited, RecvTimeout, RecvDisconnected, Reply,
           FatalExit, CleanExit, ReaderForward, ReaderEof, HelperStep, HelperAnswer,
           HelperSwallow, HelperPush, HelperDie, Signal, Start, Tick, historyVars, vars
  <2>2. client[r] = "gaveup" \/ ClientGiveUp(r)
    <3>0. client \in [Requests -> ClientStates]
      BY DEF RelayInv, TypeOK
    <3>1. ASSUME NEW q \in Requests, ClientStep(q)
          PROVE  client[r] = "gaveup" \/ ClientGiveUp(r)
      BY <3>0, <3>1 DEF ClientStep, ClientSend, ClientRefused, ClientGiveUp
    <3>2. ASSUME NEW q \in Requests, Reply(q)
          PROVE  client[r] = "gaveup"
      BY <3>0, <3>2 DEF Reply, ClientOutcome, clientVars
    <3>3. CASE ProcessEnds
      BY <3>3 DEF ProcessEnds
    <3>4. CASE client' = client
      BY <3>4
    <3> QED
      BY <3>1, <3>2, <3>3, <3>4
      DEF Next, ThreadStep, Lock, Write, WriteBroken, Receive, SkipUnsolicited, RecvTimeout,
          RecvDisconnected, FatalExit, CleanExit, ReaderForward, ReaderEof, HelperStep,
          HelperAnswer, HelperSwallow, HelperPush, HelperDie, Signal, Start, Tick, clientVars,
          vars
  <2>3. CASE ClientGiveUp(r)
    <3>1. Waiting(r) /\ clientLeft[r] = 0
      BY <2>3 DEF ClientGiveUp, Waiting
    <3>2. waitLeft \in Nat
      BY RelayAssumption DEF RelayInv, TypeOK
    <3>3. r \in delayed
      BY <3>1, <3>2, RelayAssumption DEF Punctual
    <3> QED
      BY <2>1, <3>3
  <2> QED
    BY <2>1, <2>2, <2>3 DEF PatientClient
<1> QED
  BY <1>1, <1>2, <1>3, RelayCorrect, PTL DEF Spec
=============================================================================
