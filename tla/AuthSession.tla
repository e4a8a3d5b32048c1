----------------------------- MODULE AuthSession -----------------------------
(***************************************************************************)
(* How a client of apwh gets a session with Apple's helper, where it keeps *)
(* it, and what starts and ends of the service do to it.                   *)
(*                                                                         *)
(* A command is a process of its own: it opens the state directory, makes  *)
(* at most two requests of the service, each over a connection of its own, *)
(* and writes one of two files. The files are replaced whole, by a rename, *)
(* and nothing locks them. Every start of the service is a process of its  *)
(* own too, with its own helper, and the helper's session is lost with it. *)
(*                                                                         *)
(* Keys are symbolic. A handshake is named by the client that began it     *)
(* (its identity `I' is 16 random bytes), a challenge by the handshake and *)
(* the helper that answered it, and a key by the challenge it was derived  *)
(* from and whether the PIN was the one that challenge displays.           *)
(***************************************************************************)
EXTENDS Naturals, FiniteSets

CONSTANTS
    Clients,        \* the commands that are run, one process each
    Services,       \* the starts of the service, one process each
    Overlap,        \* whether a start may begin while another is starting up
    None            \* no session, no handshake, no socket file, no peer

ASSUME AuthAssumption ==
    /\ None \notin Clients
    /\ None \notin Services
    /\ Overlap \in BOOLEAN

VARIABLES
    config,         \* the session in config.json
    pending,        \* the handshake in pending-auth.json
    socket,         \* the socket's file: the service that bound it
    service,        \* how far each service has come
    stored,         \* whether its start found a stored session
    session,        \* the handshake that each service's helper holds
    op,             \* which command each client is
    at,             \* how far it has come
    peer,           \* the service its request went to
    heard,          \* the challenge of its handshake
    key,            \* the session key it derived or loaded
    requests,       \* requests that no helper has read
    replies,        \* replies that no client has read
    proved,         \* history: the keys that some helper has proved it holds
    writer,         \* history: the command that last saved a session
    crossed,        \* history: the commands a start's clearing overlapped
    barred          \* history: <<t, c>> if t had ended and c had not begun when some
                    \* command removed the pending handshake

vars == <<config, pending, socket, service, stored, session, op, at, peer, heard, key,
          requests, replies, proved, writer, crossed, barred>>
files == <<config, pending>>
starts == <<socket, service, stored>>
client == <<op, at, peer, heard, key>>
wire == <<requests, replies>>
history == <<proved, writer, crossed, barred>>

------------------------------------------------------------------------------
(* Keys, messages and processes. *)

Challenges == [helper : Services, tid : Clients]
Keys == [helper : Services, tid : Clients, pin : BOOLEAN]

ASSUME NoneAssumption == None \notin Challenges \cup Keys

\* `derive_shared_key': both ends reach the same K only over the same identity,
\* ephemeral keys, salt and PIN.
KeyOf(challenge, pin) ==
    [helper |-> challenge.helper, tid |-> challenge.tid, pin |-> pin]

\* The key that the helper of service i derived when it answered the key exchange.
HelperKey(i) == [helper |-> i, tid |-> session[i], pin |-> TRUE]

Requests ==
    [kind : {"hello"}, from : Clients, via : Services]
        \cup [kind : {"verify", "data"}, from : Clients, via : Services, key : Keys]

\* `ErrCode' is 1 for a proof that did not match; `hamk' stands for the key that
\* the helper's own proof was made with, and `data' for a body sealed under `key'.
Replies ==
    [kind : {"hello", "error", "refusal"}, to : Clients, via : Services, tid : Clients]
        \cup [kind : {"verify", "data"}, to : Clients, via : Services, tid : Clients,
              key : Keys]

Ops == {"auth", "begin", "complete", "logout", "get"}

Ends == {"ok", "failed"}
Phases == {"new", "adopted", "hello", "greeted", "verify", "proved", "unlink", "ready", "data"}
              \cup Ends

StartingUp == {"check", "connect", "unlink", "load", "clear", "tidy", "launch", "bind"}
Up == {"bound", "armed"}
Cleared == {"launch", "bind"} \cup Up

Waits(c) == at[c] \in {"hello", "verify", "data"}
Running(c) == at[c] \notin Ends \cup {"new"}

Goto(c, phase) == at' = [at EXCEPT ![c] = phase]

TypeOK ==
    /\ config \in Keys \cup {None}
    /\ pending \in Challenges \cup {None}
    /\ socket \in Services \cup {None}
    /\ service \in [Services -> {"off", "gone"} \cup StartingUp \cup Up]
    /\ stored \in [Services -> BOOLEAN]
    /\ session \in [Services -> Clients \cup {None}]
    /\ op \in [Clients -> Ops \cup {None}]
    /\ at \in [Clients -> Phases]
    /\ peer \in [Clients -> Services \cup {None}]
    /\ heard \in [Clients -> Challenges \cup {None}]
    /\ key \in [Clients -> Keys \cup {None}]
    /\ \A c \in Clients : at[c] = "greeted" => heard[c] # None
    /\ \A c \in Clients : at[c] \in {"verify", "proved", "ready", "data"} => key[c] # None
    /\ requests \subseteq Requests
    /\ replies \subseteq Replies
    /\ proved \subseteq Keys
    /\ writer \in Clients \cup {None}
    /\ crossed \subseteq Clients
    /\ barred \subseteq Clients \X Clients

Init ==
    /\ config = None
    /\ pending = None
    /\ socket = None
    /\ service = [i \in Services |-> "off"]
    /\ stored = [i \in Services |-> FALSE]
    /\ session = [i \in Services |-> None]
    /\ op = [c \in Clients |-> None]
    /\ at = [c \in Clients |-> "new"]
    /\ peer = [c \in Clients |-> None]
    /\ heard = [c \in Clients |-> None]
    /\ key = [c \in Clients |-> None]
    /\ requests = {}
    /\ replies = {}
    /\ proved = {}
    /\ writer = None
    /\ crossed = {}
    /\ barred = {}

------------------------------------------------------------------------------
(* Starting and ending the service. *)

\* The file is there and its owner still accepts: `UnixStream::connect' succeeds.
Listening == socket # None /\ service[socket] \in Up

Move(i, to) == service' = [service EXCEPT ![i] = to]

Start(i) ==
    /\ service[i] = "off"
    /\ Overlap \/ \A j \in Services : service[j] \notin StartingUp
    /\ Move(i, "check")
    /\ UNCHANGED <<files, socket, stored, session, client, wire, history>>

\* `claim_socket_path' looks at the file, connects to it and removes it in three
\* steps that other processes can come between.
CheckSocket(i) ==
    /\ service[i] = "check"
    /\ Move(i, IF socket = None THEN "load" ELSE "connect")
    /\ UNCHANGED <<files, socket, stored, session, client, wire, history>>

\* A variant for the runs: a file that is there is taken to be stale.
ConnectSocketNever(i) ==
    /\ service[i] = "connect"
    /\ Move(i, "unlink")
    /\ UNCHANGED <<files, socket, stored, session, client, wire, history>>

ConnectSocket(i) ==
    /\ service[i] = "connect"
    /\ Move(i, IF Listening THEN "gone" ELSE "unlink")
    /\ UNCHANGED <<files, socket, stored, session, client, wire, history>>

UnlinkSocket(i) ==
    /\ service[i] = "unlink"
    /\ socket' = None
    /\ Move(i, "load")
    /\ UNCHANGED <<files, stored, session, client, wire, history>>

LoadConfig(i) ==
    /\ service[i] = "load"
    /\ stored' = [stored EXCEPT ![i] = config # None]
    /\ Move(i, "clear")
    /\ crossed' = crossed \cup {c \in Clients : Running(c)}
    /\ UNCHANGED <<files, socket, session, client, wire, proved, writer, barred>>

\* A variant for the runs: the session is cleared in memory only.
ClearConfigUnsaved(i) ==
    /\ service[i] = "clear"
    /\ Move(i, "tidy")
    /\ UNCHANGED <<files, socket, stored, session, client, wire, history>>

\* Saved only if the configuration that was loaded held a session.
ClearConfig(i) ==
    /\ service[i] = "clear"
    /\ config' = IF stored[i] THEN None ELSE config
    /\ Move(i, "tidy")
    /\ UNCHANGED <<pending, socket, stored, session, client, wire, history>>

ClearPending(i) ==
    /\ service[i] = "tidy"
    /\ pending' = None
    /\ Move(i, "launch")
    /\ crossed' = crossed \cup {c \in Clients : Running(c)}
    /\ UNCHANGED <<config, socket, stored, session, client, wire, proved, writer, barred>>

\* Finding, probing and spawning the helper; any of the three may fail.
Launch(i) ==
    /\ service[i] = "launch"
    /\ \E to \in {"bind", "gone"} : Move(i, to)
    /\ UNCHANGED <<files, socket, stored, session, client, wire, history>>

\* bind(2) refuses a path that exists; the start fails and its helper is dropped.
Bind(i) ==
    /\ service[i] = "bind"
    /\ IF socket = None
         THEN socket' = i /\ Move(i, "bound")
         ELSE socket' = socket /\ Move(i, "gone")
    /\ UNCHANGED <<files, stored, session, client, wire, history>>

Arm(i) ==
    /\ service[i] = "bound"
    /\ Move(i, "armed")
    /\ UNCHANGED <<files, socket, stored, session, client, wire, history>>

\* What a service leaves of its connections when it is gone.
DropWire(i) ==
    /\ requests' = {r \in requests : r.via # i}
    /\ replies' = {r \in replies : r.via # i}

\* A signal, or a lost helper: the helper is killed and the path unlinked.
CleanExit(i) ==
    /\ service[i] = "armed"
    /\ Move(i, "gone")
    /\ socket' = None
    /\ DropWire(i)
    /\ UNCHANGED <<files, stored, session, client, history>>

\* A signal that no handler catches (SIGKILL, SIGPIPE, or any before `arm').
Crash(i) ==
    /\ service[i] \in StartingUp \cup Up
    /\ Move(i, "gone")
    /\ DropWire(i)
    /\ UNCHANGED <<files, socket, stored, session, client, history>>

------------------------------------------------------------------------------
(* The commands. *)

\* `auth' and `auth begin' open the state and start a handshake.
BeginAuth(c, command) ==
    /\ at[c] = "new"
    /\ command \in {"auth", "begin"}
    /\ Listening
    /\ op' = [op EXCEPT ![c] = command]
    /\ Goto(c, "hello")
    /\ peer' = [peer EXCEPT ![c] = socket]
    /\ requests' = requests \cup {[kind |-> "hello", from |-> c, via |-> socket]}
    /\ UNCHANGED <<heard, key, files, starts, session, replies, history>>

\* `auth complete' reads the pending handshake before anything else.
AdoptPending(c) ==
    /\ at[c] = "new"
    /\ pending # None
    /\ op' = [op EXCEPT ![c] = "complete"]
    /\ Goto(c, "greeted")
    /\ heard' = [heard EXCEPT ![c] = pending]
    /\ UNCHANGED <<peer, key, files, starts, session, wire, history>>

\* The PIN is typed (the one displayed for this challenge, or another), M is
\* computed and sent, whichever service is listening by now.
SendProof(c, pin) ==
    /\ at[c] = "greeted"
    /\ op[c] \in {"auth", "complete"}
    /\ Listening
    /\ Goto(c, "verify")
    /\ peer' = [peer EXCEPT ![c] = socket]
    /\ key' = [key EXCEPT ![c] = KeyOf(heard[c], pin)]
    /\ requests' = requests \cup
           {[kind |-> "verify", from |-> c, via |-> socket, key |-> KeyOf(heard[c], pin)]}
    /\ UNCHANGED <<op, heard, files, starts, session, replies, history>>

\* A data command uses the stored session, or fails before it connects.
OpenSession(c) ==
    /\ at[c] = "new"
    /\ config # None
    /\ op' = [op EXCEPT ![c] = "get"]
    /\ Goto(c, "ready")
    /\ key' = [key EXCEPT ![c] = config]
    /\ UNCHANGED <<peer, heard, files, starts, session, wire, history>>

SendSealed(c) ==
    /\ at[c] = "ready"
    /\ Listening
    /\ Goto(c, "data")
    /\ peer' = [peer EXCEPT ![c] = socket]
    /\ requests' = requests \cup
           {[kind |-> "data", from |-> c, via |-> socket, key |-> key[c]]}
    /\ UNCHANGED <<op, heard, key, files, starts, session, replies, history>>

\* The replies that `Transport::send' may return to c: its own, or one that comes
\* late to a request whose client has gone (HelperRelay shows when).
Arrives(c, r) ==
    /\ r \in replies
    /\ r.via = peer[c]
    /\ r.to = c \/ ~Waits(r.to)

\* `begin_auth' after its reply: addressed to this handshake, without an error
\* code, at the stage of a key exchange.
AcceptsHello(c, r) ==
    /\ r.kind = "hello"
    /\ r.tid = c

\* A variant for the runs: the helper's proof is not compared with ours.
AcceptsProofUnchecked(c, r) ==
    /\ r.kind = "verify"
    /\ r.tid = key[c].tid

\* `complete_auth' after its reply: addressed to this handshake, no error code, at
\* the stage of a verification, and the helper's proof is the one our key makes.
AcceptsProof(c, r) ==
    /\ r.kind = "verify"
    /\ r.tid = key[c].tid
    /\ r.key = key[c]

\* `secure_request' after its reply: addressed to this session, and it opens.
AcceptsData(c, r) ==
    /\ r.kind = "data"
    /\ r.tid = key[c].tid
    /\ r.key = key[c]

TakeHello(c) == \E r \in replies :
    /\ at[c] = "hello"
    /\ Arrives(c, r)
    /\ replies' = replies \ {r}
    /\ IF AcceptsHello(c, r)
         THEN /\ Goto(c, "greeted")
              /\ heard' = [heard EXCEPT ![c] = [helper |-> r.via, tid |-> r.tid]]
         ELSE Goto(c, "failed") /\ heard' = heard
    /\ UNCHANGED <<op, peer, key, files, starts, session, requests, history>>

TakeProof(c) == \E r \in replies :
    /\ at[c] = "verify"
    /\ Arrives(c, r)
    /\ replies' = replies \ {r}
    /\ Goto(c, IF AcceptsProof(c, r) THEN "proved" ELSE "failed")
    /\ UNCHANGED <<op, peer, heard, key, files, starts, session, requests, history>>

TakeData(c) == \E r \in replies :
    /\ at[c] = "data"
    /\ Arrives(c, r)
    /\ replies' = replies \ {r}
    /\ Goto(c, IF AcceptsData(c, r) THEN "ok" ELSE "failed")
    /\ UNCHANGED <<op, peer, heard, key, files, starts, session, requests, history>>

\* `auth begin' leaves the handshake for another process to finish.
SavePending(c) ==
    /\ at[c] = "greeted"
    /\ op[c] = "begin"
    /\ pending' = heard[c]
    /\ Goto(c, "ok")
    /\ UNCHANGED <<op, peer, heard, key, config, starts, session, wire, history>>

\* `set_session' and `save': the whole file, whatever is in it by now.
SaveSession(c) ==
    /\ at[c] = "proved"
    /\ config' = key[c]
    /\ Goto(c, IF op[c] = "complete" THEN "unlink" ELSE "ok")
    /\ writer' = c
    /\ UNCHANGED <<op, peer, heard, key, pending, starts, session, wire, proved, crossed,
                   barred>>

Logout(c) ==
    /\ at[c] = "new"
    /\ config' = None
    /\ op' = [op EXCEPT ![c] = "logout"]
    /\ Goto(c, "unlink")
    /\ UNCHANGED <<peer, heard, key, pending, starts, session, wire, history>>

\* No command that begins from now on can finish what ended before: see below.
Bar == barred' = barred \cup {t \in Clients : at[t] \in Ends} \X {c \in Clients : at[c] = "new"}

\* A variant for the runs: only the handshake that this process used is removed.
RemovePendingOwn(c) ==
    /\ at[c] = "unlink"
    /\ pending' = IF pending = heard[c] THEN None ELSE pending
    /\ Goto(c, "ok")
    /\ Bar
    /\ UNCHANGED <<op, peer, heard, key, config, starts, session, wire, proved, writer,
                   crossed>>

\* The pending handshake is removed, be it the one this process used or not.
RemovePending(c) ==
    /\ at[c] = "unlink"
    /\ pending' = None
    /\ Goto(c, "ok")
    /\ Bar
    /\ UNCHANGED <<op, peer, heard, key, config, starts, session, wire, proved, writer,
                   crossed>>

\* A command ends without its result: nothing listens, the service went away, a
\* time-out, no PIN, or its process is killed. What it sent stays on its way.
GiveUp(c) ==
    /\ Running(c)
    /\ Goto(c, "failed")
    /\ UNCHANGED <<op, peer, heard, key, files, starts, session, wire, history>>

------------------------------------------------------------------------------
(* The helper, as the server half of srp.rs and the stand-in that the tests     *)
(* drive have it: one session, replaced by every key exchange.                  *)

Answer(r, reply) ==
    /\ requests' = requests \ {r}
    /\ replies' = replies \cup {reply}

Bare(kind, r, tid) == [kind |-> kind, to |-> r.from, via |-> r.via, tid |-> tid]
Keyed(kind, r) ==
    [kind |-> kind, to |-> r.from, via |-> r.via, tid |-> r.key.tid, key |-> r.key]

HelperHello == \E r \in requests :
    /\ r.kind = "hello"
    /\ session' = [session EXCEPT ![r.via] = r.from]
    /\ Answer(r, Bare("hello", r, r.from))
    /\ UNCHANGED <<files, starts, client, history>>

\* M is compared with the one the helper's own key makes.
HelperVerify == \E r \in requests :
    /\ r.kind = "verify"
    /\ IF r.key = HelperKey(r.via)
         THEN Answer(r, Keyed("verify", r)) /\ proved' = proved \cup {r.key}
         ELSE /\ Answer(r, Bare(IF session[r.via] = None THEN "error" ELSE "refusal",
                                r, r.key.tid))
              /\ proved' = proved
    /\ UNCHANGED <<files, starts, session, client, writer, crossed, barred>>

HelperData == \E r \in requests :
    /\ r.kind = "data"
    /\ Answer(r, IF r.key = HelperKey(r.via) THEN Keyed("data", r)
                 ELSE Bare("error", r, r.key.tid))
    /\ UNCHANGED <<files, starts, session, client, history>>

------------------------------------------------------------------------------
ServiceStep(i) ==
    \/ Start(i) \/ CheckSocket(i) \/ ConnectSocket(i) \/ UnlinkSocket(i)
    \/ LoadConfig(i) \/ ClearConfig(i) \/ ClearPending(i)
    \/ Launch(i) \/ Bind(i) \/ Arm(i) \/ CleanExit(i) \/ Crash(i)

ClientStep(c) ==
    \/ \E command \in {"auth", "begin"} : BeginAuth(c, command)
    \/ AdoptPending(c)
    \/ \E pin \in BOOLEAN : SendProof(c, pin)
    \/ OpenSession(c) \/ SendSealed(c)
    \/ TakeHello(c) \/ TakeProof(c) \/ TakeData(c)
    \/ SavePending(c) \/ SaveSession(c) \/ Logout(c) \/ RemovePending(c)
    \/ GiveUp(c)

HelperStep == HelperHello \/ HelperVerify \/ HelperData

Next ==
    \/ \E i \in Services : ServiceStep(i)
    \/ \E c \in Clients : ClientStep(c)
    \/ HelperStep

Spec == Init /\ [][Next]_vars

------------------------------------------------------------------------------
(* Properties. *)

\* A stored session is one whose helper proved that it holds the same key: neither
\* a mistyped PIN, nor the late reply to another attempt at the same handshake, nor
\* a handshake that another command began in between leaves a key that no helper
\* ever held.
StoredSessionIsProved == config # None => config \in proved

\* Two services never listen at once, as long as starts do not overlap: a start
\* that finds a listening socket leaves, and only a stale file is removed.
OneService == \A i, j \in Services : service[i] \in Up /\ service[j] \in Up => i = j

\* A service that listens can be reached: no other start, exit or failed bind takes
\* its socket's file away.
ListenerIsReachable == \A i \in Services : service[i] \in Up => socket = i

\* A start that has cleared the state directory leaves in it no session of an
\* earlier helper, except one that a command saved which was already running then.
DeadSessionWasInFlight ==
    \A i \in Services :
        service[i] \in Cleared /\ config # None =>
            config.helper = i \/ writer \in crossed

\* A logout, or an authentication that completes, ends the handshakes that were over
\* by then: a command that begins afterwards stores no session of a handshake whose
\* command had ended before. Only a command under way may still undo a logout, which is
\* then as if it had come first.
LogoutEndsHandshakes == config # None => <<config.tid, writer>> \notin barred

------------------------------------------------------------------------------
(* The inductive invariant. *)

\* What is proved stays so on its way from the helper to the file.
ProvedOnTheWay ==
    /\ StoredSessionIsProved
    /\ \A c \in Clients : at[c] = "proved" => key[c] \in proved
    /\ \A r \in replies : r.kind = "verify" => r.key \in proved /\ r.key.helper = r.via

\* One start at a time, and none listens while it goes on past its claim.
OneStart ==
    /\ \A i, j \in Services :
           service[i] \in StartingUp /\ service[j] \in StartingUp => i = j
    /\ ListenerIsReachable
    /\ \A i \in Services : service[i] \in StartingUp \ {"check", "connect"} =>
           \A j \in Services : service[j] \notin Up

\* A command that the start of i did not overlap has only i to verify with.
InFlight(i) ==
    /\ \A c \in Clients \ crossed :
           /\ at[c] = "verify" => peer[c] = i
           /\ at[c] = "proved" => key[c].helper = i
    /\ (service[i] = "clear" => ~stored[i]) /\ config # None =>
           config.helper = i \/ writer \in crossed

Crossing == \A i \in Services : service[i] \in {"clear", "tidy"} \cup Cleared => InFlight(i)

\* What a command that has not begun brings with it, and whose handshake a command has
\* that begins one of its own.
Fresh ==
    /\ \A c \in Clients : at[c] = "new" => heard[c] = None /\ writer # c
    /\ \A c \in Clients : op[c] \in {"auth", "begin"} /\ heard[c] # None => heard[c].tid = c

\* A barred handshake is nowhere on its way to the file by that command.
Barring ==
    \A t, c \in Clients : <<t, c>> \in barred =>
        /\ at[t] \in Ends /\ t # c
        /\ pending # None => pending.tid # t
        /\ heard[c] # None => heard[c].tid # t
        /\ at[c] \in {"verify", "proved"} => key[c].tid # t
        /\ config # None /\ writer = c => config.tid # t

\* The whole: what it says of starts holds of starts that do not overlap.
AuthInv ==
    /\ TypeOK
    /\ ProvedOnTheWay
    /\ Fresh /\ Barring
    /\ ~Overlap => OneStart /\ Crossing
=============================================================================
