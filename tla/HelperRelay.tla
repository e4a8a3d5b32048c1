------------------------------ MODULE HelperRelay ------------------------------
(***************************************************************************)
(* The request path of the apwh service (apwh/src/service.rs) and of the   *)
(* client transport (apwh/src/client.rs).                                  *)
(*                                                                         *)
(* One helper process answers requests on a single stdin/stdout pair that  *)
(* carries no request ids.  Every client connection has a service thread;  *)
(* a mutex (Helper.io) serializes the threads, a reader thread moves the   *)
(* helper's frames into a channel, and a thread that holds the mutex takes *)
(* the first frame of the channel as the answer to its request.            *)
(*                                                                         *)
(* A frame is abstracted to the request it answers, or to Push for a       *)
(* message that the helper sends on its own.  Time passes in ticks (ten    *)
(* seconds each with the program's defaults).                              *)
(***************************************************************************)
EXTENDS Naturals, Sequences

CONSTANTS
  Requests,       (* requests, each sent over a connection of its own       *)
  Push,           (* an unsolicited helper message                          *)
  None,           (* no holder, no reply                                    *)
  HelperTimeout,  (* ticks one recv_timeout waits: 30 s in the program      *)
  ClientTimeout,  (* ticks a client waits for its reply: 40 s               *)
  StdinCap,       (* frames that fit in the pipe to the helper, unread      *)
  MaxPushes,      (* bound: unsolicited messages in a behaviour             *)
  MaxStarts,      (* bound: starts of the service in a behaviour            *)
  Prompt          (* TRUE: the programs' own steps take no time             *)

ASSUME RelayAssumption ==
  /\ Push \notin Requests
  /\ (Requests \union {Push}) \intersect {None, "timeout", "helper-exited"} = {}
  /\ HelperTimeout \in Nat \ {0}
  /\ ClientTimeout \in Nat \ {0}
  /\ StdinCap \in Nat \ {0}
  /\ MaxPushes \in Nat
  /\ MaxStarts \in Nat \ {0}
  /\ Prompt \in BOOLEAN

VARIABLES
  client,      (* what each client's Transport::send is doing or returned    *)
  clientLeft,  (* ticks before the client's socket read times out            *)
  thread,      (* where each serve_connection thread is                      *)
  reply,       (* what Helper::request returned to that thread               *)
  holder,      (* the thread that holds the io mutex                         *)
  waitLeft,    (* ticks before the holder's recv_timeout returns             *)
  stdin,       (* requests in the pipe to the helper                         *)
  stdout,      (* frames in the pipe from the helper                         *)
  replies,     (* frames in the channel the reader thread fills              *)
  readerUp,    (* the reader thread has not seen end of file                 *)
  helperUp,    (* the helper process is running                              *)
  service,     (* the service process                                        *)
  socketFile,  (* the socket's file exists                                   *)
  starts, pushes,  (* bounded counters                                       *)
  lapsed,      (* history: requests whose thread was told Timeout            *)
  clean,       (* history: requests that began with nothing outstanding      *)
  delayed      (* history: requests whose wait for the helper began, or had  *)
               (* yet to, when the client's time was no longer than the wait *)

clientVars  == <<client, clientLeft>>
threadVars  == <<thread, reply, holder, waitLeft>>
pipeVars    == <<stdin, stdout, replies, readerUp>>
processVars == <<helperUp, service, socketFile, starts, pushes>>
historyVars == <<lapsed, clean, delayed>>
vars == <<clientVars, threadVars, pipeVars, processVars, historyVars>>

Frames == Requests \union {Push}
Outcomes == Frames \union {None, "timeout", "helper-exited"}
ClientStates ==
  {"idle", "waiting", "answered", "timeout", "helper-exited", "gaveup",
   "unavailable", "closed"}
ThreadStates ==
  {"none", "queued", "locked", "awaiting", "replying", "exiting", "gone"}
ServiceStates == {"up", "exited", "killed"}

TypeOK ==
  /\ client \in [Requests -> ClientStates]
  /\ clientLeft \in [Requests -> 0..ClientTimeout]
  /\ thread \in [Requests -> ThreadStates]
  /\ reply \in [Requests -> Outcomes]
  /\ holder \in Requests \union {None}
  /\ waitLeft \in 0..HelperTimeout
  /\ stdin \in Seq(Requests)
  /\ stdout \in Seq(Frames)
  /\ replies \in Seq(Frames)
  /\ readerUp \in BOOLEAN
  /\ helperUp \in BOOLEAN
  /\ service \in ServiceStates
  /\ socketFile \in BOOLEAN
  /\ starts \in Nat
  /\ pushes \in Nat
  /\ lapsed \subseteq Requests
  /\ clean \subseteq Requests
  /\ delayed \subseteq Requests

(* A service that has just started: helper spawned, socket bound. *)
Init ==
  /\ client = [r \in Requests |-> "idle"]
  /\ clientLeft = [r \in Requests |-> 0]
  /\ thread = [r \in Requests |-> "none"]
  /\ reply = [r \in Requests |-> None]
  /\ holder = None
  /\ waitLeft = 0
  /\ stdin = <<>>
  /\ stdout = <<>>
  /\ replies = <<>>
  /\ readerUp = TRUE
  /\ helperUp = TRUE
  /\ service = "up"
  /\ socketFile = TRUE
  /\ starts = 1
  /\ pushes = 0
  /\ lapsed = {}
  /\ clean = {}
  /\ delayed = {}

-----------------------------------------------------------------------------
(* The client: Transport::send.                                            *)

(* Connect and write the request; the listener spawns a thread for it. *)
ClientSend(r) ==
  /\ client[r] = "idle"
  /\ service = "up"
  /\ client' = [client EXCEPT ![r] = "waiting"]
  /\ clientLeft' = [clientLeft EXCEPT ![r] = ClientTimeout]
  /\ thread' = [thread EXCEPT ![r] = "queued"]
  /\ UNCHANGED <<reply, holder, waitLeft, pipeVars, processVars, historyVars>>

(* Nothing listens: the command fails at once. *)
ClientRefused(r) ==
  /\ client[r] = "idle"
  /\ service # "up"
  /\ client' = [client EXCEPT ![r] = "unavailable"]
  /\ UNCHANGED <<clientLeft, threadVars, pipeVars, processVars, historyVars>>

(* Mutant: a socket without a read timeout. *)
ClientWaitForever(r) ==
  /\ client[r] = "waiting"
  /\ clientLeft[r] = 0
  /\ UNCHANGED vars

(* The read times out and the client hangs up.  Its thread is not told. *)
ClientGiveUp(r) ==
  /\ client[r] = "waiting"
  /\ clientLeft[r] = 0
  /\ client' = [client EXCEPT ![r] = "gaveup"]
  /\ UNCHANGED <<clientLeft, threadVars, pipeVars, processVars, historyVars>>

-----------------------------------------------------------------------------
(* A connection's thread: serve_connection and Helper::request.            *)

OnlyPushes(frames) == \A i \in 1..Len(frames) : frames[i] = Push

(* The request starts clean when the helper owes no reply that could reach  *)
(* the channel after the drain.                                             *)
CleanWith(r) ==
  IF stdin = <<>> /\ OnlyPushes(stdout) THEN clean \union {r} ELSE clean

(* Mutants: a lock that does not drain, and a lock that does not exclude. *)
LockNoDrain(r) ==
  /\ service = "up"
  /\ thread[r] = "queued"
  /\ holder = None
  /\ holder' = r
  /\ thread' = [thread EXCEPT ![r] = "locked"]
  /\ clean' = CleanWith(r)
  /\ UNCHANGED <<clientVars, reply, waitLeft, pipeVars, processVars, lapsed,
                 delayed>>

LockShared(r) ==
  /\ service = "up"
  /\ thread[r] = "queued"
  /\ holder' = r
  /\ thread' = [thread EXCEPT ![r] = "locked"]
  /\ replies' = <<>>
  /\ clean' = CleanWith(r)
  /\ UNCHANGED <<clientVars, reply, waitLeft, stdin, stdout, readerUp,
                 processVars, lapsed, delayed>>

(* Take the mutex and drain the channel. *)
Lock(r) ==
  /\ service = "up"
  /\ thread[r] = "queued"
  /\ holder = None
  /\ holder' = r
  /\ thread' = [thread EXCEPT ![r] = "locked"]
  /\ replies' = <<>>
  /\ clean' = CleanWith(r)
  /\ UNCHANGED <<clientVars, reply, waitLeft, stdin, stdout, readerUp,
                 processVars, lapsed, delayed>>

(* Mutant: the thread waits for the helper longer than the client for it. *)
WritePatient(r) ==
  /\ service = "up"
  /\ thread[r] = "locked"
  /\ helperUp
  /\ Len(stdin) < StdinCap
  /\ stdin' = Append(stdin, r)
  /\ thread' = [thread EXCEPT ![r] = "awaiting"]
  /\ waitLeft' = HelperTimeout + ClientTimeout
  /\ UNCHANGED <<clientVars, reply, holder, stdout, replies, readerUp,
                 processVars, historyVars>>

(* write_frame to the helper's stdin; it blocks while the pipe is full. *)
Write(r) ==
  /\ service = "up"
  /\ thread[r] = "locked"
  /\ helperUp
  /\ Len(stdin) < StdinCap
  /\ stdin' = Append(stdin, r)
  /\ thread' = [thread EXCEPT ![r] = "awaiting"]
  /\ waitLeft' = HelperTimeout
  /\ UNCHANGED <<clientVars, reply, holder, stdout, replies, readerUp,
                 processVars, historyVars>>

(* Helper::request returns outcome to thread r and drops the mutex. *)
Return(r, outcome) ==
  /\ reply' = [reply EXCEPT ![r] = outcome]
  /\ thread' = [thread EXCEPT ![r] = "replying"]
  /\ holder' = None
  /\ waitLeft' = 0

(* The service's process is gone: its threads stop where they are, its ends *)
(* of the pipes close, and clients that wait see their connection closed.   *)
ProcessEnds ==
  /\ thread' = [r \in Requests |->
                  IF thread[r] = "none" THEN "none" ELSE "gone"]
  /\ client' = [r \in Requests |->
                  IF client[r] = "waiting" THEN "closed" ELSE client[r]]
  /\ clientLeft' = [r \in Requests |-> 0]
  /\ holder' = None
  /\ waitLeft' = 0
  /\ stdin' = <<>>
  /\ stdout' = <<>>
  /\ replies' = <<>>
  /\ readerUp' = FALSE

(* Mutant: a failed write is reported like any other error, and not fatal. *)
WriteFailureIgnored(r) ==
  /\ service = "up"
  /\ thread[r] = "locked"
  /\ ~helperUp
  /\ Return(r, "timeout")
  /\ UNCHANGED <<clientVars, pipeVars, processVars, historyVars>>

(* write_frame to a helper that is gone.  main() has put SIGPIPE back to     *)
(* its default action, so the write ends the process and no cleanup runs.   *)
WriteBroken(r) ==
  /\ service = "up"
  /\ thread[r] = "locked"
  /\ ~helperUp
  /\ service' = "killed"
  /\ ProcessEnds
  /\ UNCHANGED <<reply, helperUp, socketFile, starts, pushes, historyVars>>

(* The first frame of the channel is taken for the reply. *)
Receive(r) ==
  /\ service = "up"
  /\ thread[r] = "awaiting"
  /\ replies # <<>>
  /\ Head(replies) # Push
  /\ replies' = Tail(replies)
  /\ Return(r, Head(replies))
  /\ UNCHANGED <<clientVars, stdin, stdout, readerUp, processVars, historyVars>>

(* An unsolicited frame is skipped, and the wait starts afresh. *)
SkipUnsolicited(r) ==
  /\ service = "up"
  /\ thread[r] = "awaiting"
  /\ replies # <<>>
  /\ Head(replies) = Push
  /\ replies' = Tail(replies)
  /\ waitLeft' = HelperTimeout
  /\ delayed' = IF clientLeft[r] > HelperTimeout THEN delayed ELSE delayed \union {r}
  /\ UNCHANGED <<clientVars, thread, reply, holder, stdin, stdout, readerUp,
                 processVars, lapsed, clean>>

(* recv_timeout gives up; the request stays with the helper. *)
RecvTimeout(r) ==
  /\ service = "up"
  /\ thread[r] = "awaiting"
  /\ waitLeft = 0
  /\ replies = <<>>
  /\ readerUp
  /\ Return(r, "timeout")
  /\ lapsed' = lapsed \union {r}
  /\ UNCHANGED <<clientVars, pipeVars, processVars, clean, delayed>>

(* The channel is empty and the reader thread has ended. *)
RecvDisconnected(r) ==
  /\ service = "up"
  /\ thread[r] = "awaiting"
  /\ replies = <<>>
  /\ ~readerUp
  /\ Return(r, "helper-exited")
  /\ UNCHANGED <<clientVars, pipeVars, processVars, historyVars>>

(* What a client makes of the frame it reads. *)
ClientOutcome(outcome) ==
  IF outcome \in {"timeout", "helper-exited"} THEN outcome ELSE "answered"

(* Write the reply to the client.  A thread whose client hung up returns on *)
(* the failed write, before it looks at `fatal`.                            *)
Reply(r) ==
  /\ service = "up"
  /\ thread[r] = "replying"
  /\ \/ /\ client[r] = "waiting"
        /\ client' = [client EXCEPT ![r] = ClientOutcome(reply[r])]
        /\ clientLeft' = [clientLeft EXCEPT ![r] = 0]
        /\ thread' = [thread EXCEPT ![r] =
                        IF reply[r] = "helper-exited" THEN "exiting" ELSE "gone"]
     \/ /\ client[r] # "waiting"
        /\ thread' = [thread EXCEPT ![r] = "gone"]
        /\ UNCHANGED clientVars
  /\ UNCHANGED <<reply, holder, waitLeft, pipeVars, processVars,
                 historyVars>>

-----------------------------------------------------------------------------
(* The service process.                                                    *)

(* shutdown::cleanup: SIGTERM the helper and unlink the socket, then leave. *)
CleanExit ==
  /\ service' = "exited"
  /\ helperUp' = FALSE
  /\ socketFile' = FALSE
  /\ ProcessEnds
  /\ UNCHANGED <<reply, starts, pushes, historyVars>>

(* A thread that reported a lost helper ends the service with status 70. *)
FatalExit(r) ==
  /\ service = "up"
  /\ thread[r] = "exiting"
  /\ CleanExit

(* SIGINT, SIGTERM or SIGHUP. *)
Signal ==
  /\ service = "up"
  /\ CleanExit

(* launchd restarts the job: a stale socket is removed, a fresh helper and  *)
(* a fresh channel are made, and the socket is bound.                       *)
Start ==
  /\ service # "up"
  /\ starts < MaxStarts
  /\ service' = "up"
  /\ helperUp' = TRUE
  /\ readerUp' = TRUE
  /\ socketFile' = TRUE
  /\ starts' = starts + 1
  /\ UNCHANGED <<clientVars, threadVars, stdin, stdout, replies, pushes,
                 historyVars>>

(* The reader thread moves one frame to the channel. *)
ReaderForward ==
  /\ service = "up"
  /\ readerUp
  /\ stdout # <<>>
  /\ replies' = Append(replies, Head(stdout))
  /\ stdout' = Tail(stdout)
  /\ UNCHANGED <<clientVars, threadVars, stdin, readerUp, processVars,
                 historyVars>>

(* Mutant: the reader ends with the process, not with the process's output. *)
ReaderEofEarly ==
  /\ service = "up"
  /\ readerUp
  /\ ~helperUp
  /\ readerUp' = FALSE
  /\ UNCHANGED <<clientVars, threadVars, stdin, stdout, replies, processVars,
                 historyVars>>

(* The reader thread reads end of file and drops its end of the channel. *)
ReaderEof ==
  /\ service = "up"
  /\ readerUp
  /\ stdout = <<>>
  /\ ~helperUp
  /\ readerUp' = FALSE
  /\ UNCHANGED <<clientVars, threadVars, stdin, stdout, replies, processVars,
                 historyVars>>

-----------------------------------------------------------------------------
(* The helper process (external): reads its stdin in order, answers each    *)
(* request at most once and whenever it likes, pushes messages, may die.    *)

HelperAnswer ==
  /\ helperUp
  /\ stdin # <<>>
  /\ stdin' = Tail(stdin)
  /\ stdout' = Append(stdout, Head(stdin))
  /\ UNCHANGED <<clientVars, threadVars, replies, readerUp, processVars,
                 historyVars>>

HelperSwallow ==
  /\ helperUp
  /\ stdin # <<>>
  /\ stdin' = Tail(stdin)
  /\ UNCHANGED <<clientVars, threadVars, stdout, replies, readerUp,
                 processVars, historyVars>>

HelperPush ==
  /\ helperUp
  /\ pushes < MaxPushes
  /\ pushes' = pushes + 1
  /\ stdout' = Append(stdout, Push)
  /\ UNCHANGED <<clientVars, threadVars, stdin, replies, readerUp, helperUp,
                 service, socketFile, starts, historyVars>>

HelperDie ==
  /\ helperUp
  /\ helperUp' = FALSE
  /\ stdin' = <<>>
  /\ UNCHANGED <<clientVars, threadVars, stdout, replies, readerUp, service,
                 socketFile, starts, pushes, historyVars>>

-----------------------------------------------------------------------------
(* Time.                                                                   *)

Waiting(r) == client[r] = "waiting"

(* Some step of the service's threads or a client's timeout is due now. *)
StepDue ==
  \/ /\ service = "up"
     /\ \/ readerUp /\ (stdout # <<>> \/ ~helperUp)
        \/ \E r \in Requests :
             \/ thread[r] = "queued" /\ holder = None
             \/ thread[r] = "locked" /\ (Len(stdin) < StdinCap \/ ~helperUp)
             \/ /\ thread[r] = "awaiting"
                /\ replies # <<>> \/ waitLeft = 0 \/ ~readerUp
             \/ thread[r] \in {"replying", "exiting"}
  \/ \E r \in Requests : Waiting(r) /\ clientLeft[r] = 0

Less(n) == IF n = 0 THEN 0 ELSE n - 1

Tick ==
  /\ \E r \in Requests : Waiting(r) \/ thread[r] = "awaiting"
  /\ Prompt => ~StepDue
  /\ clientLeft' = [r \in Requests |->
                      IF Waiting(r) THEN Less(clientLeft[r]) ELSE clientLeft[r]]
  /\ waitLeft' = Less(waitLeft)
  /\ delayed' = delayed \union {r \in Requests :
       thread[r] \in {"queued", "locked"} /\ clientLeft'[r] <= HelperTimeout}
  /\ UNCHANGED <<client, thread, reply, holder, pipeVars, processVars, lapsed,
                 clean>>

ThreadStep(r) ==
  \/ Lock(r) \/ Write(r) \/ WriteBroken(r)
  \/ Receive(r) \/ SkipUnsolicited(r) \/ RecvTimeout(r) \/ RecvDisconnected(r)
  \/ Reply(r) \/ FatalExit(r)

ClientStep(r) == ClientSend(r) \/ ClientRefused(r) \/ ClientGiveUp(r)

HelperStep == HelperAnswer \/ HelperSwallow \/ HelperPush \/ HelperDie

Next ==
  \/ \E r \in Requests : ClientStep(r) \/ ThreadStep(r)
  \/ ReaderForward \/ ReaderEof
  \/ HelperStep
  \/ Signal \/ Start
  \/ Tick

Spec == Init /\ [][Next]_vars

(* The operating system runs every thread that can take a step, and time    *)
(* passes.  Nothing is assumed of the helper, of the clients' users, of     *)
(* signals or of launchd.                                                   *)
Fairness ==
  /\ \A r \in Requests : WF_vars(ThreadStep(r)) /\ WF_vars(ClientGiveUp(r))
  /\ WF_vars(ReaderForward) /\ WF_vars(ReaderEof)
  /\ WF_vars(Tick)

FairSpec == Spec /\ Fairness

-----------------------------------------------------------------------------
(* Properties.                                                             *)

IsFrame(outcome) == outcome \in Frames

(* Draining the channel resynchronizes the relay: a request that took the   *)
(* mutex when the helper owed nothing else is only ever answered with its   *)
(* own reply, whatever timed out before (service.rs, Helper::request).      *)
CleanStartOwnReply ==
  \A r \in clean : IsFrame(reply[r]) => reply[r] = r

(* While no request has timed out in the service, every reply handed to a   *)
(* thread answers that thread's own request: the mutex and the skipping of  *)
(* unsolicited frames keep requests and replies in step.                    *)
RepliesMatchUntilTimeout ==
  lapsed = {} => \A r \in Requests : IsFrame(reply[r]) => reply[r] = r

(* What the comments of Helper::request say of every reply: no client reads *)
(* another's reply, and no reply is off by one.                             *)
OwnReply ==
  \A r \in Requests : IsFrame(reply[r]) => reply[r] = r

(* A service that is gone has not left its socket behind: what the end to   *)
(* end tests and shutdown's comment say of every way out.                   *)
SocketGoneWithService == service # "up" => ~socketFile

(* With prompt programs, the service answers before the client gives up (the *)
(* 40 s over the 30 s), whatever the request queued for and whatever         *)
(* unsolicited messages restarted its wait: unless so much time went by that *)
(* a full wait, when it last began or could begin, outlasts the client's.    *)
PatientClient ==
  \A r \in Requests : client[r] = "gaveup" => r \in delayed

(* Every command returns to its user, even when the helper hangs with the   *)
(* mutex held by a thread that cannot write.                                *)
EveryCallReturns ==
  \A r \in Requests : Waiting(r) ~> ~Waiting(r)

(* A request that arrives when the helper is dead ends the service, so that *)
(* launchd can start it again; so does a thread that was told of the loss,  *)
(* unless its client has given up and the failed write hides it (then the   *)
(* next request is the one that ends the service).                          *)
DeadHelperIsNoticed ==
  \A r \in Requests :
    /\ (thread[r] \in {"queued", "locked"} /\ ~helperUp) ~> service # "up"
    /\ (thread[r] = "replying" /\ reply[r] = "helper-exited") ~>
         (service # "up" \/ client[r] = "gaveup")
=============================================================================
