------------------------------ MODULE KcCommands ------------------------------
(***************************************************************************)
(* The commands of kc, each a process of its own: it reads the             *)
(* configuration (some commands do so twice or three times), finds its     *)
(* keychain, may have to ask the access policy, and replaces at most one   *)
(* file by a rename. Nothing locks either file, so commands interleave     *)
(* between any two of these steps.                                         *)
(*                                                                         *)
(* `at' holds the steps that a command still has to make, in the order in  *)
(* which its function makes them. A command that fails or is killed makes  *)
(* no further step; everything it has not written is lost with it.         *)
(***************************************************************************)
EXTENDS KcConfig, FiniteSets

CONSTANTS
    Procs,          \* the commands that are run
    Items,          \* identities that an item can have
    Login,          \* the name that is the default until one is saved
    Offered,        \* the settings [mode, default] that users give a policy
    Searchable,     \* the directories that users add to the search path
    Found,          \* keychains that may be there before kc is first used
    Typed,          \* what users write for a keychain; None is no argument
    AtOnce          \* how many commands run at the same time

VARIABLES
    config,         \* keychain.kdl
    files,          \* the keychains: the native access of each item, or None
    op,             \* which command each process is
    at,             \* the steps it has left
    path,           \* the keychain it found
    dest,           \* the one that `cp' copies to
    asked,          \* what its user wrote for the first
    mine,           \* the configuration that it read
    draft,          \* what it is about to save in its place
    given,          \* the policy that it says it has set
    copy,           \* the keychain that it opened
    named,          \* the applications named on its command line
    access,         \* the native access it decided on
    leave,          \* how it got permission for a secret
    intent,         \* history: the policy that users last gave each keychain
    seen,           \* history: the policies given to its keychains since it began
    drift,          \* history: whether some keychain has lost its policy
    settled         \* history: the keychains whose items should all fit theirs

disk == <<config, files>>
steps == <<op, at, path, dest>>
edits == <<asked, mine, draft, given>>
memory == <<edits, copy, named, access, leave>>
history == <<intent, seen, drift, settled>>
vars == <<disk, steps, memory, history>>

------------------------------------------------------------------------------
Contents == [Items -> Accesses \cup {None}]
Empty == [i \in Items |-> None]
Present(items) == {i \in Items : items[i] # None}

Existing == {f \in Paths : files[f] # None}

Ops == {"config", "set", "clear", "create", "apply",
        "add", "trust", "cp", "get", "edit", "rm"}
Steps == {"config", "create", "find", "choose", "authorize", "open", "open-dest",
          "print", "save"}

ASSUME CommandsAssumption ==
    /\ Login \in Selectors
    /\ None \notin Items
    /\ None \notin Contents
    /\ None \notin Ops
    /\ Offered \subseteq [mode : Modes, default : Defaults]
    /\ Searchable \subseteq Dirs
    /\ Found \subseteq Paths
    /\ Typed \subseteq Selectors \cup {None}
    /\ AtOnce \in Nat

TypeOK ==
    /\ config \in Configs
    /\ files \in [Paths -> Contents \cup {None}]
    /\ op \in [Procs -> Ops \cup {None, "done"}]
    /\ at \in [Procs -> Seq(Steps)]
    /\ path \in [Procs -> Paths \cup {None}]
    /\ dest \in [Procs -> Paths \cup {None}]
    /\ asked \in [Procs -> Selectors \cup {None}]
    /\ given \in [Procs -> Policies \cup {None}]
    /\ mine \in [Procs -> Configs \cup {None}]
    /\ draft \in [Procs -> Configs \cup {None}]
    /\ copy \in [Procs -> Contents \cup {None}]
    /\ named \in [Procs -> SUBSET Apps]
    /\ access \in [Procs -> Accesses \cup {None}]
    /\ leave \in [Procs -> {"none", "free", "confirmed"}]
    /\ intent \in [Paths -> Policies \cup {None}]
    /\ seen \in [Procs -> SUBSET [file : Paths, policy : Policies \cup {None}]]
    /\ drift \in BOOLEAN
    /\ settled \subseteq Paths

\* Keychains that were there before hold items that let anyone in.
Init ==
    /\ config = DefaultConfig(Login)
    /\ \E there \in SUBSET Found :
           files = [f \in Paths |-> IF f \in there THEN [i \in Items |-> AllowAny] ELSE None]
    /\ op = [p \in Procs |-> None]
    /\ at = [p \in Procs |-> <<>>]
    /\ path = [p \in Procs |-> None]
    /\ dest = [p \in Procs |-> None]
    /\ asked = [p \in Procs |-> None]
    /\ mine = [p \in Procs |-> None]
    /\ given = [p \in Procs |-> None]
    /\ draft = [p \in Procs |-> None]
    /\ copy = [p \in Procs |-> None]
    /\ named = [p \in Procs |-> {}]
    /\ access = [p \in Procs |-> None]
    /\ leave = [p \in Procs |-> "none"]
    /\ intent = [f \in Paths |-> None]
    /\ seen = [p \in Procs |-> {}]
    /\ drift = FALSE
    /\ settled = {}

------------------------------------------------------------------------------
(* The policy in force, and what the histories record. *)

InForce(f) == PolicyFor(config, f, Existing)

Running == {p \in Procs : at[p] # <<>>}

\* What a user wrote for a keychain, in a policy that is saved or that a command under
\* way has read, or on that command's line, means another file than it did.
Moved(after, exists) ==
    \E selector \in Selecting(config)
            \cup {asked[p] : p \in {q \in Running : asked[q] # None}}
            \cup UNION {Selecting(mine[p]) : p \in {q \in Running : mine[q] # None}} :
        Resolve(after, selector, exists) # Resolve(config, selector, Existing)

Give(p, f, policy) ==
    /\ intent' = [intent EXCEPT ![f] = policy]
    /\ seen' = [q \in Procs |->
           IF q = p THEN {}
           ELSE IF at[q] # <<>> /\ f \in {path[q], dest[q]}
             THEN seen[q] \cup {[file |-> f, policy |-> policy]}
           ELSE seen[q]]
    /\ settled' = IF files[f] = Empty THEN settled \cup {f} ELSE settled \ {f}

Throughout(p, f) == {s.policy : s \in {t \in seen[p] : t.file = f}}

------------------------------------------------------------------------------
(* Every command begins by loading the configuration, which must parse. *)

Loads == Parsed(Login, Rendered(config)) # None

Begin(p, command, f, g, todo) ==
    /\ op' = [op EXCEPT ![p] = command]
    /\ at' = [at EXCEPT ![p] = todo]
    /\ path' = [path EXCEPT ![p] = f]
    /\ dest' = [dest EXCEPT ![p] = g]
    /\ seen' = [seen EXCEPT ![p] =
           {[file |-> h, policy |-> intent[h]] : h \in {f, g} \ {None}}]
    /\ UNCHANGED <<disk, copy, leave, intent, drift, settled>>

Target(argument) == Resolve(config, Asked(config, argument), Existing)

\* A command that keeps the configuration, to save `edited' in its place.
Edits(p, command, f, todo, argument, edited, policy) ==
    /\ Begin(p, command, f, None, todo)
    /\ asked' = [asked EXCEPT ![p] = IF f = None THEN None ELSE Asked(config, argument)]
    /\ mine' = [mine EXCEPT ![p] = config]
    /\ draft' = [draft EXCEPT ![p] = edited]
    /\ given' = [given EXCEPT ![p] = policy]
    /\ UNCHANGED <<named, access>>

\* `kc config set, append, prepend'
Configure(p) ==
    LET Saves(edited) == Edits(p, "config", None, <<"config">>, None, edited, None)
    IN  \/ \E s \in Typed \ {None} : Saves([config EXCEPT !.default = s])
        \/ \E dir \in Searchable : Saves([config EXCEPT !.search = <<dir>>])
        \/ \E dir \in Searchable, prepend \in BOOLEAN :
               Saves(WithSearch(config, <<dir>>, prepend))

\* `kc access set': every option that is not given keeps what the policy has; a new
\* policy is kept under the keychain's argument, or under the saved default.
SetAccess(p) == \E argument \in Typed, setting \in Offered, apps \in SUBSET Apps :
    LET f == Target(argument)
        old == PolicyFor(config, f, Existing)
        selector == IF old # None THEN old.keychain
                    ELSE IF argument # None THEN argument ELSE config.default
        trust == IF old # None /\ apps = {} THEN old.trust ELSE apps
        policy == [keychain |-> selector, mode |-> setting.mode,
                   default |-> setting.default, trust |-> trust]
    IN  Edits(p, "set", f, <<"config">>, argument, SetPolicy(config, policy), policy)

\* `--clear-trust': mode and default stay.
ClearTrust(p) == \E argument \in Typed :
    LET f == Target(argument)
        old == PolicyFor(config, f, Existing)
        policy == [old EXCEPT !.trust = {}]
    IN  /\ old # None
        /\ Edits(p, "set", f, <<"config">>, argument, SetPolicy(config, policy), policy)

\* `kc access clear'
ClearAccess(p) == \E argument \in Typed :
    LET f == Target(argument)
        old == PolicyFor(config, f, Existing)
    IN  /\ old # None
        /\ Edits(p, "clear", f, <<"config">>, argument, ClearPolicy(config, old.keychain), None)

\* `kc create': the policy is kept under the path, and is saved after the keychain.
Create(p) == \E argument \in Typed \ {None}, setting \in Offered, gated \in BOOLEAN :
    LET f == Target(argument)
        policy == [keychain |-> f, mode |-> setting.mode, default |-> setting.default,
                   trust |-> {}]
    IN  /\ files[f] = None
        /\ IF gated
             THEN Edits(p, "create", f, <<"create", "config">>, argument,
                        SetPolicy(config, policy), policy)
             ELSE Edits(p, "create", f, <<"create">>, argument, config, None)

\* `kc access apply': the policy is the one loaded now; a deny has no native form.
Apply(p) == \E argument \in Typed :
    LET f == Target(argument)
        policy == PolicyFor(config, f, Existing)
    IN  /\ policy # None
        /\ policy.default # "deny"
        /\ Begin(p, "apply", f, None, <<"open", "save">>)
        /\ access' = [access EXCEPT ![p] = NativeAccess(policy)]
        /\ UNCHANGED <<edits, named>>

\* The commands on items. They resolve their keychain and let the configuration go.
OnItems(p, command, f, g, apps, todo) ==
    /\ Begin(p, command, f, g, todo)
    /\ named' = [named EXCEPT ![p] = apps]
    /\ UNCHANGED <<edits, access>>

\* The order in which each function takes its steps. What asks for the policy does so
\* after its keychain has been opened, except `verify'; what writes an item decides on
\* its access before.
AddOrder == <<"choose", "open", "save">>
IdentityOrder == <<"choose", "open", "save">>
TrustOrder == <<"open", "save">>
CopyOrder == <<"find", "choose", "open", "authorize", "open-dest", "save">>
GetOrder == <<"open", "authorize", "print">>
ExportOrder == <<"open", "authorize", "print">>
VerifyOrder == <<"authorize", "open", "print">>
SecretOrder == <<"open", "authorize", "save">>
AttributesOrder == <<"open", "save">>
PasswdOrder == <<"open", "save">>
SettingsOrder == <<"open", "save">>
RemoveOrder == <<"open", "save">>
RemoveIdentityOrder == <<"open", "save">>

\* `kc add', `kc import'
Add(p) == \E argument \in Typed, apps \in SUBSET Apps, order \in {AddOrder, IdentityOrder} :
    OnItems(p, "add", Target(argument), None, apps, order)

\* `kc trust': the access is what the command line says.
Trust(p) == \E argument \in Typed, apps \in SUBSET Apps :
    OnItems(p, "trust", Target(argument), None, apps, TrustOrder)

\* `kc cp': both keychains are named, and the second is found by a load of its own.
Copy(p) == \E from \in Typed \ {None}, apps \in SUBSET Apps :
    OnItems(p, "cp", Target(from), None, apps, CopyOrder)

\* `kc get' of secrets; `kc export' of a key or an identity.
Get(p) == \E argument \in Typed, order \in {GetOrder, ExportOrder, VerifyOrder} :
    OnItems(p, "get", Target(argument), None, {}, order)

\* `kc set -w' seals secrets anew and is asked for it. Attributes, passwords and
\* settings change nothing that is secret.
Edit(p) == \E argument \in Typed,
              order \in {SecretOrder, AttributesOrder, PasswdOrder, SettingsOrder} :
    OnItems(p, "edit", Target(argument), None, {}, order)

\* `kc rm': deleting touches no ciphertext.
RemoveItems(p) == \E argument \in Typed, order \in {RemoveOrder, RemoveIdentityOrder} :
    OnItems(p, "rm", Target(argument), None, {}, order)

------------------------------------------------------------------------------
(* The steps. *)

Step(p, step) ==
    /\ at[p] # <<>>
    /\ Head(at[p]) = step
    /\ at' = [at EXCEPT ![p] = Tail(@)]

\* The next step is still to come: the process keeps what it knows.
Goes(p, step) ==
    /\ Step(p, step)
    /\ UNCHANGED <<op, path, dest>>

\* The process ends, and what it knew is gone.
Exit(p) ==
    /\ op' = [op EXCEPT ![p] = "done"]
    /\ path' = [path EXCEPT ![p] = None]
    /\ dest' = [dest EXCEPT ![p] = None]
    /\ asked' = [asked EXCEPT ![p] = None]
    /\ mine' = [mine EXCEPT ![p] = None]
    /\ draft' = [draft EXCEPT ![p] = None]
    /\ given' = [given EXCEPT ![p] = None]
    /\ copy' = [copy EXCEPT ![p] = None]
    /\ named' = [named EXCEPT ![p] = {}]
    /\ access' = [access EXCEPT ![p] = None]
    /\ leave' = [leave EXCEPT ![p] = "none"]

\* `Config::save': a rename, whatever has been saved since the file was read. What a
\* command reports to have given is given from here on.
SaveConfig(p) ==
    /\ Step(p, "config")
    /\ config' = draft[p]
    /\ IF op[p] = "config"
         THEN UNCHANGED <<intent, seen, settled>>
         ELSE Give(p, path[p], given[p])
    /\ drift' = (drift \/ config # mine[p] \/ Moved(draft[p], Existing)
                      \/ (op[p] = "create" /\ Doubled(draft[p], Existing)))
    /\ Exit(p)
    /\ UNCHANGED files

\* `file.save(&keychain)' in create: no look at whether the path is still free.
CreateFile(p) ==
    /\ Step(p, "create")
    /\ files' = [files EXCEPT ![path[p]] = Empty]
    /\ drift' = (drift \/ Moved(config, Existing \cup {path[p]}))
    /\ settled' = settled \cup {path[p]}
    /\ IF Tail(at[p]) = <<>>
         THEN Exit(p) /\ seen' = [seen EXCEPT ![p] = {}]
         ELSE UNCHANGED <<op, path, dest, memory, seen>>
    /\ UNCHANGED <<config, intent>>

\* The second `resolve_keychain' of `kc cp'.
FindDestination(p) ==
    /\ Step(p, "find")
    /\ Loads
    /\ \E to \in Typed \ {None} :
           /\ dest' = [dest EXCEPT ![p] = Target(to)]
           /\ seen' = [seen EXCEPT ![p] =
                  @ \cup {[file |-> Target(to), policy |-> intent[Target(to)]]}]
    /\ UNCHANGED <<disk, op, path, memory, intent, drift, settled>>

Written(p) == IF op[p] = "cp" THEN dest[p] ELSE path[p]

\* `application_access_for_write' loads the configuration, unless applications are named.
ChooseAccess(p) ==
    /\ Goes(p, "choose")
    /\ named[p] # {} \/ Loads
    /\ access' = [access EXCEPT ![p] = AccessForWrite(InForce(Written(p)), named[p])]
    /\ UNCHANGED <<disk, edits, copy, named, leave, history>>

Open(p) ==
    /\ Goes(p, "open")
    /\ files[path[p]] # None
    /\ copy' = [copy EXCEPT ![p] = files[path[p]]]
    /\ UNCHANGED <<disk, edits, named, access, leave, history>>

OpenDestination(p) ==
    /\ Goes(p, "open-dest")
    /\ Present(copy[p]) # {}
    /\ files[dest[p]] # None
    /\ copy' = [copy EXCEPT ![p] = files[dest[p]]]
    /\ UNCHANGED <<disk, edits, named, access, leave, history>>

\* A variant for the runs: a policy to prompt lets whoever did not ask to be asked.
AuthorizePromptless(p) ==
    /\ Goes(p, "authorize")
    /\ Loads
    /\ Decision(InForce(path[p])) # "deny"
    /\ leave' = [leave EXCEPT ![p] = "free"]
    /\ UNCHANGED <<disk, edits, copy, named, access, history>>

\* `authorize_secret_access' loads the configuration anew: allowed, denied, or asked
\* on the terminal.
Authorize(p) ==
    /\ Goes(p, "authorize")
    /\ Loads
    /\ \/ Decision(InForce(path[p])) = "allow" /\ leave' = [leave EXCEPT ![p] = "free"]
       \/ Decision(InForce(path[p])) = "prompt" /\ leave' = [leave EXCEPT ![p] = "confirmed"]
    /\ UNCHANGED <<disk, edits, copy, named, access, history>>

\* Secrets leave the process, or what was learnt of them does.
PrintSecret(p) ==
    /\ Step(p, "print")
    /\ Exit(p)
    /\ seen' = [seen EXCEPT ![p] = {}]
    /\ UNCHANGED <<disk, intent, drift, settled>>

\* Every item of the keychain has the policy's native access.
Audited(f, policy) ==
    \A i \in Present(files[f]) : files[f][i] = NativeAccess(policy)

\* `kc access audit': one load, one open, and `Audited' is what it says.
Audit(p) == \E argument \in Typed :
    LET f == Target(argument)
        policy == InForce(f)
    IN  /\ policy # None
        /\ files[f] # None
        /\ op' = [op EXCEPT ![p] = "done"]
        /\ UNCHANGED <<disk, at, path, dest, memory, history>>

\* What each command makes of the items that it opened.
Results(p) ==
    LET items == copy[p]
    IN  CASE op[p] = "apply" ->
                 {[i \in Items |-> IF items[i] = None THEN None ELSE access[p]]}
          [] op[p] \in {"add", "cp"} ->
                 {[items EXCEPT ![i] = access[p]] : i \in Items \ Present(items)}
          [] op[p] = "trust" ->
                 UNION {{[items EXCEPT ![i] = trusted] : i \in Present(items)} :
                     trusted \in IF named[p] = {} THEN {AllowAny, Prompt}
                                 ELSE {TrustOnly(named[p])}}
          [] op[p] = "rm" ->
                 {[i \in Items |-> IF i \in gone THEN None ELSE items[i]] :
                     gone \in SUBSET Present(items) \ {{}}}
          [] OTHER -> {items}

\* Whether the items of f, all of which fit before, do so after p's save.
Fits(p, f) ==
    CASE op[p] = "trust" -> FALSE
      [] op[p] = "apply" -> Throughout(p, f) = {intent[f]}
      [] op[p] \in {"add", "cp"} ->
             /\ f \in settled
             /\ named[p] = {}
             /\ ProjectsNative(intent[f])
             /\ Throughout(p, f) = {intent[f]}
      [] OTHER -> f \in settled

\* One save for all items that a command changed: a rename over the file as it is now.
SaveFile(p) ==
    LET f == Written(p)
    IN  /\ Step(p, "save")
        /\ \E result \in Results(p) : files' = [files EXCEPT ![f] = result]
        /\ settled' = IF Fits(p, f) /\ (copy[p] = files[f] \/ op[p] = "apply")
                      THEN settled \cup {f} ELSE settled \ {f}
        /\ Exit(p)
        /\ seen' = [seen EXCEPT ![p] = {}]
        /\ UNCHANGED <<config, intent, drift>>

\* A wrong password, no such item, a duplicate, a prompt that is declined, a signal.
Fail(p) ==
    /\ at[p] # <<>>
    /\ at' = [at EXCEPT ![p] = <<>>]
    /\ Exit(p)
    /\ seen' = [seen EXCEPT ![p] = {}]
    /\ UNCHANGED <<disk, intent, drift, settled>>

------------------------------------------------------------------------------
Command(p) ==
    /\ op[p] = None
    /\ Cardinality(Running) < AtOnce
    /\ Loads
    /\ \/ Configure(p) \/ SetAccess(p) \/ ClearTrust(p) \/ ClearAccess(p) \/ Create(p)
       \/ Apply(p) \/ Audit(p)
       \/ Add(p) \/ Trust(p) \/ Copy(p) \/ Get(p) \/ Edit(p)
       \/ RemoveItems(p)

Next == \E p \in Procs :
    \/ Command(p)
    \/ SaveConfig(p) \/ CreateFile(p) \/ FindDestination(p) \/ ChooseAccess(p)
    \/ Open(p) \/ OpenDestination(p) \/ Authorize(p) \/ PrintSecret(p) \/ SaveFile(p)
    \/ Fail(p)

Spec == Init /\ [][Next]_vars

------------------------------------------------------------------------------
(* Properties. *)

\* The configuration that is saved always parses again, and to the same: no command
\* leaves one that stops every later command.
ConfigReads == Parsed(Login, Rendered(config)) = config

\* The policy that governs a keychain is the one its users gave it last, whatever its
\* selector, however commands interleave; unless a save overwrote a configuration that
\* its process had not read, a selector came to mean another file, or a create put a
\* second policy on a file.
PolicyStays == ~drift => \A f \in Paths : InForce(f) = intent[f]

\* What the documentation says of KC_DEFAULT_KEYCHAIN: a command that is given no
\* keychain means that one. A policy set for a keychain is then in force for it.
SetPolicyGoverns ==
    ~drift => \A f \in Paths : intent[f] # None => InForce(f) = intent[f]

\* Secrets leave without a confirmation only when a policy that the keychain had while
\* the command ran lets them.
SecretsGated ==
    \A p \in Procs : leave[p] = "free" /\ ~drift =>
        \E policy \in Throughout(p, path[p]) : Decision(policy) = "allow"

\* A keychain whose items all came by its policy passes an audit against it: since it
\* was created or since the last `apply', nobody trusted an application by hand, and
\* no save brought back what it had read before.
AuditHolds ==
    \A f \in settled : ~drift /\ intent[f] # None => Audited(f, intent[f])

------------------------------------------------------------------------------
(* What the proofs of these properties rest on. *)

\* What a command can have left to do.
Remaining ==
    ({"config", "set", "clear", "create"} \X {<<"config">>})
    \cup ({"create"} \X {<<"create">>, <<"create", "config">>})
    \cup ({"apply", "add", "trust", "cp", "edit", "rm"} \X {<<"save">>})
    \cup ({"apply", "add", "trust", "edit", "rm"} \X {<<"open", "save">>})
    \cup ({"add"} \X {AddOrder})
    \cup ({"edit"} \X {SecretOrder, <<"authorize", "save">>})
    \cup ({"get"} \X {GetOrder, <<"authorize", "print">>, <<"print">>,
                      VerifyOrder, <<"open", "print">>})
    \cup ({"cp"} \X {CopyOrder, <<"choose", "open", "authorize", "open-dest", "save">>,
                     <<"open", "authorize", "open-dest", "save">>,
                     <<"authorize", "open-dest", "save">>, <<"open-dest", "save">>})

InOrder == \A p \in Running : <<op[p], at[p]>> \in Remaining

Awaits(p, step) == \E i \in DOMAIN at[p] : at[p][i] = step

Placed == \A p \in Running :
    /\ op[p] # "config" => path[p] \in Paths
    /\ op[p] = "cp" /\ Head(at[p]) # "find" => dest[p] \in Paths

Editing == {"config", "set", "clear", "create"}

\* A command has what its next steps use. A keychain that was there is still there.
Ready == \A p \in Running :
    /\ op[p] \in Editing => mine[p] # None /\ draft[p] # None
    /\ op[p] \notin Editing /\ ~Awaits(p, "open") => copy[p] # None /\ files[path[p]] # None
    /\ op[p] = "cp" /\ ~Awaits(p, "open-dest") => dest[p] \in Existing
    /\ op[p] \in {"add", "cp"} /\ ~Awaits(p, "choose") => access[p] # None
    /\ op[p] = "apply" => access[p] # None

Idle == \A p \in Procs : op[p] = None => leave[p] = "none"

\* No keychain has two policies.
Apart == ~drift => ~Doubled(config, Existing)

Means(selector) == Resolve(config, selector, Existing)

\* What a command saves is what it read, but for its own keychain's policy.
Drafted == \A p \in Running : ~drift =>
    /\ op[p] = "config" => draft[p].access = mine[p].access
    /\ op[p] = "set" =>
           /\ given[p] # None
           /\ draft[p] = SetPolicy(mine[p], given[p])
           /\ given[p].keychain = asked[p] \/ Declared(mine[p], given[p].keychain)
           /\ Means(given[p].keychain) = path[p]
           /\ \A selector \in Selecting(mine[p]) :
                  Means(selector) = path[p] => selector = given[p].keychain
    /\ op[p] = "clear" =>
           /\ given[p] = None
           /\ \E selector \in Selecting(mine[p]) :
                  Means(selector) = path[p] /\ draft[p] = ClearPolicy(mine[p], selector)
    /\ op[p] = "create" /\ Awaits(p, "config") =>
           /\ given[p] # None
           /\ draft[p] = SetPolicy(mine[p], given[p])
           /\ given[p].keychain = path[p]

\* The histories of the commands under way hold the policies of now.
Told == \A p \in Running : \A f \in {path[p], dest[p]} \ {None} :
    [file |-> f, policy |-> intent[f]] \in seen[p]

\* The access that a command writes is by a policy that its keychain had meanwhile.
Chosen == \A p \in Running : ~drift =>
    /\ op[p] \in {"add", "cp"} /\ ~Awaits(p, "choose") =>
           \E policy \in Throughout(p, Written(p)) : access[p] = AccessForWrite(policy, named[p])
    /\ op[p] = "apply" =>
           \E policy \in Throughout(p, path[p]) :
               policy # None /\ access[p] = NativeAccess(policy)

\* Nobody writes a name or a path that is empty or holds an equals sign.
Plain ==
    /\ \A s \in (Typed \cup {Login, Env}) \ {None} : Legible(s)
    /\ (Dirs \cup Apps) \cap (Odd \cup Blank) = {}

\* What is saved, or is about to be, can be read back.
Wording == Plain =>
    /\ Worded(config)
    /\ \A p \in Procs : draft[p] # None => Worded(draft[p])

Shape == TypeOK /\ InOrder /\ Placed /\ Ready
Course == Idle /\ Apart /\ Drafted /\ Told /\ Chosen
KcInv == Shape /\ Course /\ Wording /\ ConfigReads
=============================================================================
