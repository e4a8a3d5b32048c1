---------------------------- MODULE HelperRelayInv ----------------------------
(***************************************************************************)
(* The inductive invariant of HelperRelay: what the mutex, the channel and *)
(* the pipes have to do with each other so that replies match requests.    *)
(***************************************************************************)
EXTENDS HelperRelay

(* The threads inside Helper::request's critical section are the holder. *)
MutexInv ==
  \A r \in Requests : (thread[r] \in {"locked", "awaiting"}) <=> (holder = r)

(* A request that was not sent has no thread. *)
IdleInv == \A r \in Requests : client[r] = "idle" => thread[r] = "none"

(* A thread has no outcome before Helper::request returns. *)
NoReplyYet ==
  \A r \in Requests :
    thread[r] \in {"none", "queued", "locked", "awaiting"} => reply[r] = None

(* End of file comes only after everything the helper wrote. *)
EofInv ==
  /\ ~helperUp => stdin = <<>>
  /\ ~readerUp => ~helperUp /\ stdin = <<>> /\ stdout = <<>>

OnlyPushesOr(frames, r) ==
  \A i \in 1..Len(frames) : frames[i] = Push \/ frames[i] = r

(* Whatever is under way while a clean request holds the mutex is its own. *)
CleanInv ==
  \A r \in clean :
    /\ thread[r] \in {"locked", "awaiting", "replying", "exiting", "gone"}
    /\ IsFrame(reply[r]) => reply[r] = r
    /\ thread[r] = "locked" => stdin = <<>> /\ OnlyPushes(stdout) /\ OnlyPushes(replies)
    /\ thread[r] = "awaiting" =>
         /\ OnlyPushesOr(stdin, r)
         /\ OnlyPushesOr(stdout, r)
         /\ OnlyPushesOr(replies, r)

AtMostOne(frames) ==
  \A i, j \in 1..Len(frames) :
    frames[i] # Push /\ frames[j] # Push => i = j

Quiet == stdin = <<>> /\ OnlyPushes(stdout) /\ OnlyPushes(replies)

(* A single request is under way, in one of the three places. *)
Single ==
  \/ /\ Len(stdin) = 1
     /\ OnlyPushes(stdout) /\ OnlyPushes(replies)
  \/ /\ stdin = <<>>
     /\ AtMostOne(stdout) /\ OnlyPushes(replies)
  \/ /\ stdin = <<>>
     /\ OnlyPushes(stdout) /\ AtMostOne(replies)

(* Before the first timeout, the helper owes one reply while a thread waits  *)
(* for it and none otherwise, so every request starts clean.                *)
InStep ==
  lapsed = {} =>
    /\ (\A r \in Requests : thread[r] # "awaiting") => Quiet
    /\ Single
    /\ \A r \in Requests :
         thread[r] \in {"locked", "awaiting"} \/ IsFrame(reply[r]) => r \in clean

RelayInv ==
  /\ TypeOK
  /\ IdleInv
  /\ MutexInv
  /\ NoReplyYet
  /\ EofInv
  /\ CleanInv
  /\ InStep

(* Where the programs are prompt: what a request still has of its client's  *)
(* time.  A client waits only while its thread is under way; before its     *)
(* wait for the helper more than one such wait is left to it, and then the  *)
(* two time-outs run down together, so the service's comes first.           *)
Punctual ==
  /\ service # "up" => \A r \in Requests : thread[r] \in {"none", "gone"}
  /\ \A r \in Requests : Waiting(r) =>
       /\ thread[r] \in {"queued", "locked", "awaiting", "replying"}
       /\ r \notin delayed =>
            /\ thread[r] \in {"queued", "locked"} => clientLeft[r] > HelperTimeout
            /\ thread[r] = "awaiting" => clientLeft[r] > waitLeft
            /\ thread[r] = "replying" => clientLeft[r] > 0
=============================================================================
