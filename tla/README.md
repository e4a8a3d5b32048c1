# A formal model of keychain-tools

`keychain-tools` has three crates. `keychain` reads and writes macOS keychain
files without macOS, `kc-cli` is the command line over it (`kc`), and `apwh` is
a service and a client that reach Apple Passwords through Apple's browser
extension helper. This directory holds TLA+ modules translated from their code,
TLC configurations that check them on small instances, and proofs for every
value of the constants.

This document gives the inventory of the system, how the modules divide it, and
for each module how it corresponds to the code and what the checks and proofs
show.

## 1. Inventory

### apwh

| part | state | operations | hard behaviours | what makes it correct |
|---|---|---|---|---|
| Service, request path (`service.rs`: `serve_connection`, `Helper`) | one mutex over the helper's stdin and a channel of frames; a thread per connection; a reader thread | lock and drain, write, receive, skip a push, time out, reply, exit | interleaved threads without request ids, late replies, a helper that hangs or dies, time-outs on both sides | a reply goes to the request it answers; no call hangs; a lost helper ends the service |
| Service, start and shutdown (`run`, `claim_socket_path`, `shutdown`) | socket file, helper process, stored session | claim, clear the session, probe, spawn, bind, signal, exit | two starters, crashes between steps, a restart under a client's feet | at most one service listens; the socket and helper go with it; no dead session survives a start |
| Client transport (`client.rs`: `Transport`) | one connection per request | send, time out | the service stops while a request waits | each call returns with the outcome of its own request |
| Authentication and session (`client.rs`, `srp.rs`, `crypto.rs`, `config.rs`) | pending handshake file, session key in the config file, the helper's own session | begin, complete, logout, sealed requests | the file is rewritten whole by every command; the helper forgets at a restart | a stored key is the one the helper holds, or it fails loudly |
| Command line, output, launchd agent | none that lasts | formatting, plist | - | - |

### keychain

| part | state | operations | hard behaviours | what makes it correct |
|---|---|---|---|---|
| Table (`format.rs`) | slots, free list threaded through them, layout order | insert, delete, parse, write | long sequences of legal calls; slots freed, dropped and taken again; offsets | numbers are stable, nothing is lost or written twice, the file reads back the same |
| Indexes (`index.rs`) | sorted entries per index | insert, remove, rebuild | entries kept by different routes | every record is found by its current key, once |
| Container (`format.rs`: `Keychain`) | tables by type, commit version | parse, write, bump | - | the version moves with every change |
| Items (`write.rs`, `edit.rs`) | item records and the key records that protect them | add, update, delete, identities, access | an operation of several steps fails half way | items and keys stay paired, identity is unique |
| Lock state (`db.rs`, `crypto.rs`) | unwrapped database keys, item keys | unlock, change password, settings | old keys after a password change | a changed password opens the same items |
| References and saving (`db.rs`) | the file; a reference pins a revision | open, resolve, save (temporary file and rename) | several processes without a lock | a stale reference fails, no change is lost |
| Access objects (`acl.rs`, `requirement.rs`) | the three entries of an item's access list | build, write, read, summarise | entries that differ only in place and tags; lengths padded and counted by hand | the decision made for an item is the one read back |
| Queries (`query.rs`) | none | tokens, predicates, LIKE, comparisons | quotes, escapes, operators inside values | a described item is found, and no other |
| Blobs (`crypto.rs`) | database, key and item blobs | seal, open, sign, verify, wrap | padding at a block's edge; what the signature covers | no signed byte changes unseen; every secret comes back |
| Schema, DER, PKCS#12 (`schema.rs`, `der.rs`, `pkcs12.rs`) | none | convert | attribute order, lengths at 128 and 256 | what is imported is stored as it was |

### kc-cli

| part | state | operations | hard behaviours | what makes it correct |
|---|---|---|---|---|
| Configuration (`config.rs`) | `keychain.kdl`: default, search paths, one policy per selector | load, resolve, set and clear a policy, save | rewritten whole by every command; a selector can come to mean another file | it always parses again; the policy in force is the one given last |
| Commands (`kc.rs`) | the keychain opened, the policy read | resolve, authorise, open, change, save | two commands at once on one file; the policy is read separately from the keychain | no secret leaves against the policy; items get the access it gives |

`PROJECT.json` lists every part with its status, and every hazard at its line.

## 2. Modules

| module | what it is | depends on |
|---|---|---|
| `HelperRelay`, `HelperRelayInv` | the request path of the service: clients, threads, pipes, helper, exits, restarts | |
| `AuthSession` | handshake, stored session, files of the client, and the start of the service step by step | a reply may come late to a request whose client has gone, which `HelperRelay` shows |
| `NumberedStore` | what a table promises | |
| `Listing` | what is left of a sequence, and a set put in order | |
| `SlotTable` | a table with slots, free list, layout and indexes; it implements `NumberedStore` | `Listing` |
| `KeychainFile` | items, keys and the database blob in one file that several processes rename over | tables are numbered stores, which `SlotTable` justifies |
| `KcConfig` | the configuration's operators: resolve, policies, decisions, parse and render | `Listing` |
| `KcCommands` | the commands as processes over the configuration and the keychains | extends `KcConfig` |
| `Reading` | big-endian numbers, padding and the cursor that the binary formats share | |
| `AclBlob`, `IndexRegion`, `KeychainImage`, `KeyBlobs` | the binary formats of a keychain, written and read | `Reading`, each other |
| `Query`, `Der`, `HelperWire` | queries; certificates and keys; frames, numbers and SRP arithmetic | `Reading` |
| `MC...` | instances for TLC | |
| `SlotTableProofs`, `SlotLayoutProofs` | the table: slots and free list; layout, indexes and the file image | `ListingProofs` |
| `KcConfigProofs`, `KcCommandsProofs` | the configuration's operators; the commands | `ListingProofs` |
| `HelperRelayProofs`, `AuthSessionProofs`, `KeychainFileProofs` | the components that they are named for | |
| `ListingProofs` | lemmas on numbers, recursion and lists that the others share | `Listing` |

The three state machines of the keychain look at one file at three grains: the
table (one process, one operation a step), the file (processes, one operation on a
private copy a step, saves interleave), the commands (every load, open and save of
either file interleaves, items are reduced to their access). Modules that are
proved about use no RECURSIVE operator and state invariants as conjunctions of
named parts, in a module that the run and the proofs share. What runs over a
sequence is a recursive function there (`Kept`, `IndexesOf`, `BodyOffset`,
`Rendered`, `Parsed`).

### Induction in the proofs

The library's induction theorems take an operator, which the installed provers
cannot instantiate. `ListingProofs` states what these proofs need of them with
sets and functions in its place, from the well-foundedness of `<`: `Climb` (a set
that has 0, and the next number after each it has, contains `0..m`) and
`Recursion` (a function on `0..m` with given first value and step exists, and is
the one that its definition chooses). Each recursive function is first shown to be
such a function; what it computes is then a climb. `Lists(s, S, R)` says that a
sequence has the elements of `S`, each once, in the order `R`; a set has one such
sequence (`Listed`), which `Arranged` is, and dropping elements from it keeps the
order of the rest (`KeptLists`).

## 3. HelperRelay

One action per step of a thread that another thread can see.

| TLA+ | code |
|---|---|
| `client`, `clientLeft` | where `Transport::send` is, and what is left of its read time-out |
| `thread`, `reply` | where a `serve_connection` thread is, and what `Helper::request` returned |
| `holder`, `waitLeft` | the owner of `Helper.io`, and what is left of its `recv_timeout` |
| `stdin`, `stdout` | the two pipes; `StdinCap` frames fill the first |
| `replies`, `readerUp` | the channel and its sender, the reader thread |
| `service`, `socketFile`, `helperUp` | the processes and the socket's file |
| `lapsed`, `clean`, `delayed` | history only: no guard of a modelled step reads them |
| `Lock` | take the mutex and drain the channel, which no other thread reads |
| `Write`, `WriteBroken` | `write_frame` to the helper; to a dead one it raises SIGPIPE, whose default action `main` restored |
| `Receive`, `SkipUnsolicited`, `RecvTimeout`, `RecvDisconnected` | the arms of the receive loop |
| `Reply`, `FatalExit` | the end of the loop of `serve_connection`, in the order of its returns |
| `CleanExit`, `Signal`, `Start` | `shutdown`, and a start by launchd |
| `ReaderForward`, `ReaderEof` | the reader thread |
| `Helper...`, `Tick` | external: Apple's helper (it reads its stdin in order, answers a request at most once, pushes, dies at any time) and the clock |

A frame is the request that it answers, or `Push`. Each request has a connection
of its own, as the client makes it. Writing a reply to a client that has hung up
fails and does not raise SIGPIPE: the standard library sets `SO_NOSIGPIPE` on
sockets on macOS, and only the helper's stdin is a pipe. A queued request is
locked in any order, which includes every order the mutex can choose.

Time is in ticks. With `Prompt = FALSE` ticks may fall anywhere, so the time-outs
of both sides fire whenever they like and their lengths do not matter; that is
the instance for safety. With `Prompt = TRUE` a tick waits until no step of the
programs is due, a tick is ten seconds, and the lengths are the program's: 30 s
in the service and 40 s in the client.

### Runs

| run | instance | shows |
|---|---|---|
| `relay_safety` | 3 interchangeable requests, 1 push, 2 starts, `Prompt = FALSE` | the inductive invariant `RelayInv`; `CleanStartOwnReply`: a request that took the mutex with nothing outstanding gets its own reply, whatever timed out earlier; `RepliesMatchUntilTimeout` |
| `relay_live` | 2 requests, pipe of 1 frame, 2 pushes, 2 starts, real time-outs | `PatientClient`: the service answers before the client gives up, unless its wait began, or had yet to, when the client had no more time than it takes; `EveryCallReturns`; `DeadHelperIsNoticed`: a dead helper ends the service at the next request, or by the thread that is told of the loss unless its client has gone |
| `relay_late_reply` | 2 requests | *violated*: `OwnReply` |
| `relay_sigpipe` | 2 requests | *violated*: `SocketGoneWithService` |

Three requests are enough for one that timed out, one that holds the mutex and
one that queues. Two pushes restart a wait twice, the first time while the client
still has more than 30 s. Two starts put a restart between any two steps. A pipe of one
frame fills when the helper stops reading after one request timed out.

Requests and starts are bounded, so a behaviour ends when they are spent: the
relay's runs do not check deadlock.

### Fairness

Every thread of the service that can step does, the reader thread does, a client
whose time-out is due gives up, and time passes: weak fairness of each, which is
the operating system's scheduling. Nothing is assumed of the helper (it may hang
for ever with a request unread), of signals, or of launchd.

### Findings

- A reply that is late by more than the drain answers the wrong request
  (`relay_late_reply`). After a time-out the helper still owes a reply. If the
  next request drains before it arrives, that reply is the first frame of its
  channel. The sealed payload does not tell: replies are checked against the
  session only, and every request of a session shares it.
- Writing to a helper that has exited kills the service by SIGPIPE
  (`relay_sigpipe`): no cleanup, the socket's file stays, no `helper-exited`
  reply. The next start removes a stale socket, so the damage is the lost reply
  and a missing log line.

### Proofs (`HelperRelayProofs`)

For every set of requests, every time-out, pipe capacity and bound:

- `TypeCorrect`: `Spec => []TypeOK`;
- `RelayCorrect`: `Spec => []RelayInv`;
- `CleanStartAnswered`, `RepliesMatch`: the two safety properties;
- `ClientsPatient`: `PatientClient`, under `Prompt` and
  `HelperTimeout < ClientTimeout`, which are 30 s and 40 s in the code.

`CleanStartOwnReply` is not inductive: it needs to know what is under way while
the request waits. `HelperRelayInv` strengthens it. `MutexInv` makes the holder
the only thread between drain and return; `CleanInv` says that whatever is in
the pipes and the channel while a clean request holds the mutex is its own or a
push; `EofInv` orders the end of file after the last frame. `InStep` adds that
before the first time-out the helper owes exactly the reply that the holder
waits for, in one of three places (`Single`), so that every request starts
clean; from it `RepliesMatchUntilTimeout` follows. `PatientClient` needs `Punctual`: a
client waits only while its thread is under way; one that was not delayed has more
left than the service's time-out until its thread has written the request; and from
there the two time-outs run down together, so that the client's keeps its lead. A
message that restarts the wait takes this lead only if the client has no more than
30 s left, which is what `delayed` records. Nothing in the code keeps a helper that
sends messages from reaching that point: then the client's own time-out ends its call.
Without prompt programs it is false, since a thread may stay away for any number of
ticks; the theorem claims nothing of that. Each action has a lemma per
group of conjuncts, over lemmas on appending to and taking from a sequence of
frames. The only assumption is `RelayAssumption` (the kinds of value are
distinct, the time-outs positive).

## 4. SlotTable and NumberedStore

`SlotTable` is `Table` of `format.rs` with the parsed index region of `index.rs`,
at the granularity of the operations its callers make: `Add` (refuse a duplicate,
`insert`, `rebuild_indexes`), `DeleteNumber` (`delete` with its `remove_record`)
and `Update` (set an attribute outside the unique key, `rebuild_indexes`). The
table is private to one process and an operation is one step.

| TLA+ | code |
|---|---|
| `slots` | `Table.slots`; `Slot::Empty` is a free slot with link 0, which is how it is written |
| `freeHead` | `free_list_head`, as the offset it is in the file |
| `layout` | `Table.layout`, the order in which records are laid out |
| `indexes` | the entries of a unique index (`id`) and of a secondary one (`tag`) |
| `Written`, `Parsed` | `Table::to_bytes` and `Table::parse`, with real offsets: header, slot array, records of their encoded length, index region |

A record is its number, an identity and a tag that may be absent. Keys are
ordered numbers: an index compares keys and never looks inside. `Written` keeps
what `parse` can confuse (words of the slot array, the place of each record, the
base that the index offsets were computed from) and leaves out the bytes.

`slot_table` explores every sequence of operations on at most four slots, four
identities and two tags. Four slots make a hole with live slots on both sides, a
free slot below a dropped last one, and a layout order unlike the slot order; a
longer table only repeats them. A table can always
add or delete, so deadlock is checked.

- `TableInv`: at least one slot, a number is its slot, identities are unique, and
  each link leads to the highest free slot below.
- `FreeListComplete`: following the list visits every free slot once and ends.
- `LayoutIsLive`: no record is lost or written twice.
- `IndexesMatch`: inserting in place, removing and rebuilding agree with a
  reference index sorted from scratch.
- `ReopenSame`: reading the written table gives the same table.
- `ImplementsStore`: the table implements `NumberedStore`, in which a number is
  its record's until it is deleted and nothing else changes. The refinement
  mapping is `Records`.

`SlotTableProofs` proves `TableCorrect` (`Spec => []TableInv`) and
`TableImplementsStore` (`Spec => Store!Spec`) for every number of slots and every
set of identities. The argument: an insert takes a free slot or the next one, so
no live record moves; a rebuilt free list touches free slots only
(`RebuiltKeeps`); a link to the highest of a set of slots exists because a
nonempty bounded set of naturals has a maximum (`Highest`, by well-foundedness
of `<`).

`FreeListReachesAll` (`FreeListComplete`): the free slots listed downwards are the
walk. Its first is what `freeHead` points at, each link leads to the next, and the
last link is 0 (`FreeListWalk`).

`SlotLayoutProofs` adds three invariants. `LayoutNamesRecords` (`LayoutIsLive`): an
insert appends a slot that was not live, and a delete drops just its own.
`IndexesAreCurrent` (`IndexesMatch`) goes through `IndexInv`: each index lists its
entries in the order of keys, then of numbers. Inserting before the first larger
key keeps that order because a rebuild goes through the slots upwards
(`PlacedLists`), and removing keeps it because it leaves the rest alone.
`TableReopens` (`ReopenSame`): record lengths are positive multiples of four, so the
places grow in layout order (`OffsetsGrow`), each record's word is an offset within
the bodies and each free slot's is a link or 0 (`WordIs`). `Readable` follows, and so
do the slots that `parse` finds (`ImageBack`) and the layout that it sorts by place
(`LayoutBack`). All of this is for any `MaxSlots` and any sets of identities and
tags; offsets are natural numbers, so a table of more than 4 GiB is not covered.

## 5. KeychainFile

A process is `idle`, or it has a `KeychainFile` open and unchanged (`open`), or
`changed`. It reads the whole file, calls operations on its copy in any order,
and saves once, as each `kc` command does; or it exits without saving, which is
what a command that fails, only reads, or is killed before the rename does. One
operation is one step: the copy is private. Between two processes everything
interleaves, because nothing locks the file.

| TLA+ | code |
|---|---|
| `disk` | the file; `Save` is `write_file`, whose rename replaces it at once |
| `handle[p].contents` | `KeychainFile.keychain`: tables from record numbers to records, the commit version, and what the database blob seals |
| `handle[p].keys`, `.itemKeys` | `KeychainFile.keys` (the master key) and `item_keys` (by label) |
| `reference` | a line of `kc get -o @ref`, kept across commands; `label` records which item it was made from and no code reads it |
| `handle[p].current`, `lost`, `misdirected` | history only |
| `AddPassword`, `UpdateItem`, `DeleteItem`, `SetItemAccess` | the item operations, with the commit versions they take |
| `AddIdentity`, `DeleteIdentity`, `SetPrivateKeyAccess` | the identity operations; `ensure_relation` is part of the first |
| `Unlock`, `ChangePassword`, `SetSettings` | the database blob |
| `MakeReference`, `SetByReference` | `item_ref`; `resolve_ref` with the update that `kc set --for -` makes |

A label stands for the key that it names, and a key opens what was wrapped under
it. Random labels are fresh. A new record takes any unused number; the table that
gives one of them is `SlotTable`. Access lists and settings are left out: what
remains of changing them is that they take a commit version and stamp no record.

### Runs

| run | instance | shows |
|---|---|---|
| `file_alone` | 1 process, 2 items, 1 identity hash, 2 numbers per table, 2 passwords, 5 commits | all operations in every order |
| `file_shared` | 2 processes, 2 items, 1 number per table, 2 passwords, 4 commits | every interleaving of two commands; the inductive invariant `FileInv` |
| `file_refs` | 2 processes | *violated*: `RefFailsLoudly` |

- `KeychainInv`: on disk and in every copy each item has the one key record of its
  label and each key record an item, identities are unique, no record is newer
  than its file, and certificates stand in a declared table.
- `EverySecretOpens`: key records are wrapped under the master key of their file,
  and an unlocked handle holds the keys of just its items - after any mix of
  adds, deletes and password changes.
- `DiskAdvances`: a save over a file that was read moves the commit version on.
- `RefsWhileAlone`: a reference leads to another item only after a save has
  overwritten a file that its process had not read.

Two numbers per table are enough for a record to be deleted beside another one
and its number taken again. In `file_shared` one number is the hardest case: the
other process's new item must take the same number. Four commits fit a reference,
the deletion of its item (two) and another item in its place. The
processes, identities, hashes, labels, numbers and passwords are interchangeable,
which the runs use as symmetry. A process can always open or exit, so deadlock is
checked.

### Findings

- Two commands that open the same revision both save the next one
  (`file_refs`). The second rename drops the first one's change, and both files
  carry the same commit version: a reference taken from the first resolves on the
  second, where the same record number may hold another item. The revision
  protects a pipeline from commands that run between its parts, and not from ones
  that overlap each other.

### Proofs (`KeychainFileProofs`)

For any processes, identities, labels, hashes and passwords, and any finite set
of record numbers: `FileCorrect` (`Spec => []FileInv`), and from it
`KeychainSound`, `SecretsOpen`, `ReferencesSafe` and `SavesAdvance`, the four
properties above.

`RefsWhileAlone` is not inductive: that a reference means one item rests on two
files of one commit version being the same file. `History`, the part of `FileInv`
that holds until an update is lost, says so for every copy: one that was only
read is at or behind the disk and equal to it at the same version, one that was
changed is ahead. The proof has a lemma for what each operation makes of a copy
(`AddKeeps` ... `RelockKeeps`: sound, and of a later version), one lemma that
turns such a copy into a step (`ChangeStep`), and a lemma for each action. The
pairing of items and key records is restated record by record (`Matched`), which
the provers handle better than a set of key numbers. The assumption is
`FileAssumption`; the finiteness of `Numbers`, which are 32 bits wide in the
code, makes the count of removed records a number.

## 6. AuthSession

Every `apwh` command and every start of the service is a process. A command makes
at most two requests, each over its own connection, and replaces one of two files;
nothing locks them. The steps of `run()` before the accept loop are actions of
their own, so starts, crashes and commands come between any two.

| TLA+ | code |
|---|---|
| `config`, `pending` | the session in `config.json`, the handshake in `pending-auth.json` |
| `socket`, `service` | the socket's file and how far each start has come |
| `stored` | `config.session` as the start loaded it |
| `session` | the handshake the helper of a service holds; every key exchange replaces it |
| `op`, `at`, `peer`, `heard`, `key` | a command: which, how far, with whom, the challenge it heard, the key it derived or loaded |
| `CheckSocket` ... `UnlinkSocket`, `Bind` | `claim_socket_path` and `bind`, which other starts can come between |
| `LoadConfig`, `ClearConfig`, `ClearPending` | clearing the dead session |
| `BeginAuth`, `AdoptPending`, `SendProof`, `SaveSession` | `begin_auth`, `complete_auth`, in one process or in two |
| `Arrives` | what `Transport::send` may return: the own reply, or one late to a client that has gone |
| `AcceptsHello`, `AcceptsProof`, `AcceptsData` | the checks of a reply: addressee, stage, error code, proof or seal |
| `Helper...` | external: the server half of `srp.rs` as the repository's stand-in helper drives it |
| `proved`, `writer`, `crossed`, `barred` | history only |

Keys are symbolic: a key is the challenge it came from and whether the PIN was
right. `HelperWire` covers the arithmetic.

`auth_session` runs three commands (one that began, one that disturbs, one that
logs out or asks) and two starts.

- `StoredSessionIsProved`: only a key whose helper proved that it holds it is ever
  stored, in spite of wrong PINs, late replies, and handshakes begun by others.
- `OneService`, `ListenerIsReachable`: while starts do not overlap, at most one
  service listens and its file is never taken away. launchd starts one job at a
  time; `Overlap = TRUE` breaks both, since the claim is three steps and `Bind`
  comes seconds later.
- `DeadSessionWasInFlight`: after a start the only session of an earlier helper is
  one that a command saved which was running while the start cleared the files.
- `LogoutEndsHandshakes`: a command that begins after a logout stores no session of a
  handshake that was over before it, such as the one that `auth begin` leaves to
  another process. A command under way when the logout runs may still store a session:
  nothing prevents it, and the outcome is that of a logout which came first.

Commands and starts are finite, so deadlock is not checked. No fairness.

`AuthSessionProofs` proves the inductive invariant (`SessionsCorrect`:
`Spec => []AuthInv`), `TypeCorrect` and the five properties for any sets of commands
and starts. `StoredProved` and `LogoutEnds` need no assumption on overlap. The first
follows from `ProvedOnTheWay` (a proved key stays so in the reply, in the command, and
in the file), the second from `Barring` (an ended handshake that is no longer pending
is nowhere that a later command looks) and `Fresh`. The other three are under `~Overlap`: `OneStart` says that nobody listens
once a start is past its claim, and `Crossing` that a command which a start did not
overlap can have verified only with that start's helper.

## 7. KcConfig and KcCommands

A command is the list of steps it has left: load and save the configuration, choose
the access of a new item, open, authorise, print, save. Each step reads or replaces
one file, and steps of different commands interleave.

| TLA+ | code |
|---|---|
| `config` | `keychain.kdl`: default, search directories, policies in order |
| `files` | the keychains; an item is the native access it has |
| `at` | the rest of the function: `AddOrder`, `CopyOrder`, `GetOrder` ... give each command's order |
| `Resolve`, `PolicyFor`, `SetPolicy` | `Config::resolve`, `access_policy_for`, `set_access_policy` |
| `Rendered`, `Parsed` | `render` and `parse`, one record a line |
| `Authorize`, `ChooseAccess` | `authorize_secret_access`, `application_access_for_write`; both load the configuration anew |
| `FindDestination` | the second `resolve_keychain` of `kc cp`, from a load of its own |
| `SaveConfig`, `CreateFile`, `SaveFile` | the renames |
| `intent`, `seen`, `drift`, `settled` | history only |

`kc_commands` runs three commands of any kind, two at a time, on one name in two
directories (so that a bare name can mean two files), three policies, one item and
one application. `kc_environment` runs one command with `KC_DEFAULT_KEYCHAIN` set.

- `KcInv`: types; what each command holds and has left to do (`Shape`, `Course`); no
  file has two policies; what is saved or about to be can be written and read
  (`Wording`); and the saved configuration always parses again to itself
  (`ConfigReads`).
- `PolicyStays`: the policy in force for a file is the one its users gave it last -
  unless a save overwrote a configuration its process had not read, a selector came
  to mean another file, or a create put a second policy on a file (`drift`).
- `SecretsGated`: secrets leave without a confirmation only if a policy that the
  keychain had while the command ran allows it.
- `AuditHolds`: what was written by the policy passes an audit against it.

The three exceptions are real: nothing locks the configuration, and a policy is
found by what its selector means now. The change of meaning counts for every selector
that is saved, that a running command has read, or that its user wrote: a command may
save later what it read while a name still meant another file.

### Finding

`access set` without an argument, with `KC_DEFAULT_KEYCHAIN` set, looks for a policy
of that keychain and reports its path, but saves a new policy under
`config.default` (`kc_environment`).

### Proofs (`KcCommandsProofs`)

For any commands, names, directories, items, applications and settings:

- `ShapeHolds`: `Spec => []Shape`, whatever the environment. `Shape` is inductive: the
  types, the pairs of command and steps left (`Remaining`), and that a command has
  the copy, the draft or the access that its next steps use (`Ready`). The last holds
  because no command removes a keychain.
- `SureHolds`, and from it `PolicyHolds`, `SecretsHold` and `AuditPasses`: the three
  properties above, when `KC_DEFAULT_KEYCHAIN` is not set (`Env = None`). With it the
  finding refutes the first.

`PolicyStays` is not inductive: a policy is saved long after it was decided on. `Sure`
adds what holds meanwhile. `Drafted` says that a draft is what was read with its own
keychain's policy replaced or removed, under a selector that means this keychain and
is the only one that does; `Apart`, that no keychain has two policies, keeps the
selector unique. A save then changes the policy of one file (`SetPolicyGives`,
`ClearPolicyTakes`), unless the file on disk is no longer the one that was read, which sets
`drift`. `Told` says that the history of a running command holds the policy of now, and
`Chosen` that an access decided on came from a policy in that history; `SecretsGated`
and `AuditHolds` follow from these. The proof states all of this for each process
(`Right`), with one lemma on a process that a step leaves alone and one lemma an
action. The assumptions are `ConfigAssumption` and `CommandsAssumption`.

Reading back (`KcConfigProofs`, `KcCommandsProofs`):

- `ConfigRoundTrip`: `Parsed(login, Rendered(c)) = c` for every configuration `c`
  whose selectors are legible and distinct, and whose directories and applications are
  legible too (`Worded`), with any number of each.
- `ConfigAlwaysReads`: `Spec => []ConfigReads`, whatever the environment, if no name
  and no path that a command may be given is empty or holds an equals sign (`Plain`).
- `CommandsCorrect`: `Spec => []KcInv`, the inductive invariant, under `Env = None`
  and `Plain`.

The lines of a configuration are read one after another: `LineRead` says what each
kind makes of a configuration, `FirstRead` that the default and the directories are
read as written, and `PolicyRead` that the lines of one more policy add just this
one to what the lines before it gave. `Wording` carries `Worded` through the
commands: a policy replaces the one of its text or comes last (`SetPolicyWorded`).
`Plain` is needed: `positional` skips a value with an equals sign and `tokens` drops
one that is empty, so a policy under such a name, trust in such an application or an
empty directory is saved and then no command can load the file. `Odd` and `Blank` are
these texts; both are empty in the settings of `kc_commands`, from which `Plain`
follows.

## 8. The formats

Operators over bytes, checked on bounded samples: `MCFormats` picks one sample at a
time, and its properties say of every step what the format promises of the sample
that it picks. The run `formats` tries some 140,000 samples of nineteen kinds.

| module | code | promise |
|---|---|---|
| `Query` | `query.rs` | `QueryReadsBack`: quoted words stay whole, a predicate spelled out means what was meant; `LikeMatchesSplits`: the table of `like` agrees with its definition by splits; `AnswersAreSound`: predicates are independent of order, opposites exclude each other |
| `AclBlob` | `acl.rs`, `requirement.rs` | `AclReadsBack`: a written list reads back, lengths agree, and the decision is the one made |
| `IndexRegion` | `index.rs` | `RegionReadsBack`: a region reads back where it was written, and nowhere else |
| `KeychainImage` | `format.rs`, `schema.rs` | `ImageReadsBack`: a file reads back by the schema of its own tables; one cut short is refused |
| `Der` | `der.rs`, `pkcs12.rs` | `DerReadsBack`: elements of any length, certificates with every optional field, both forms of a key, PEM halves in any order |
| `KeyBlobs` | `crypto.rs` | `SecretsComeBack`: wrapped keys and padded secrets of every length come back; `SignedBlobsReadBack`: blobs come back, and a change of any byte that is signed does not verify |
| `HelperWire` | `frame.rs`, `srp.rs`, `apwh/crypto.rs` | `WireReadsBack`: a stream cut anywhere gives its whole frames; `HandshakeAgrees`: both ends derive one key |

The cipher, the hash and the password derivation are constants of `KeyBlobs`; the
run gives them toy forms (a permutation of bytes chained over blocks, a checksum).
The group of SRP is the integers modulo 23. Samples put lengths on both sides of
every boundary: padding 0 to 3, DER lengths 127 to 129 and 255 to 257, one to three
cipher blocks, frames at their limit and one past it.

TLC's integers are 32 bits wide and signed: a number of 2^30 and more is read as 2^30,
which as an offset or a length runs past the data just as well. Where the code would
run past the data, the model's reader fails, as the cursor does.

## 9. Not modelled

- The malformed frame: a reader error while the helper is alive ends the reader
  thread as the end of file does, and the relay model lets that happen only
  after the helper has died.
- A connection that carries several requests. The service's loop allows it; the
  client in this repository never sends a second one.
- A change to a table whose index region does not parse (`TableIndexes::Raw`). Such a
  table refuses to rebuild its indexes, after the record went in; the command then
  exits without saving.
- A caller of the library that saves after an operation failed.
- In the configuration: symbolic links and relative paths, the suffixes tried after
  a name, the name `system`, and the paths of requirements, which are saved and read
  as those of applications are. Nor control characters within a name: they are
  written as an escape of which `tokens` takes the next character for itself, so such
  a name comes back changed.
- In queries: case and diacritic folding and the spellings of dates. A stored date
  that cannot be read fails the comparison, as in the code.
- Names of attributes and relations, names that are not UTF-8, and the constant
  tables of a new keychain (`apple_schema.rs`, `records.rs`): data without control.
- A comment of a trusted application that ends inside the padding of its path: the
  code panics there (`acl.rs:599`), `ReadApplication` fails as for any other broken
  list, and no sample has one.
- Triple DES, SHA-1, PBKDF2, AES-GCM and the PKCS#12 container: libraries, or
  arithmetic out of TLC's reach. The zeroing of secrets has no counterpart in TLA+.
- Output, error texts, argument parsing, logging and the launchd plist: no state.

## 10. Proved, and only checked

Every invariant and every safety property that a passing run of a state machine checks is
also a theorem: those of `HelperRelay`, `AuthSession`, `SlotTable` with its
refinement of `NumberedStore`, `KeychainFile` and `KcCommands`, each under the
assumptions named in its section. Left to TLC:

- Liveness (`EveryCallReturns`, `DeadHelperIsNoticed`): the provers have no rule
  for fairness and ENABLED.
- The formats of section 8, on samples. Their operators fold over bytes with
  `FoldLeft`, whose definition takes an operator and is closed to the provers.

