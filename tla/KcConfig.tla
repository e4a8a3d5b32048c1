------------------------------- MODULE KcConfig -------------------------------
(***************************************************************************)
(* The configuration of kc: which keychain a command means, which access   *)
(* policy governs it, and what that policy decides. Operators only; the    *)
(* commands that use them are in KcCommands.                               *)
(*                                                                         *)
(* A selector is what a user may write for a keychain: a bare name, or a   *)
(* path. Paths are absolute and canonical here. A name has one spelling in *)
(* a directory; `.keychain-db', `.keychain' and the exact name only make   *)
(* the search below longer.                                                *)
(***************************************************************************)
EXTENDS Listing, SequencesExt

CONSTANTS
    Names,          \* bare names of keychains
    Dirs,           \* directories that keychains are kept in
    Home,           \* the first of them that is searched, ~/Library/Keychains
    Apps,           \* applications that can be trusted
    Odd,            \* the texts of these that hold an equals sign
    Blank,          \* and those that are empty
    Env,            \* KC_DEFAULT_KEYCHAIN: a selector, or None
    None

Paths == [dir : Dirs, name : Names]
Selectors == Names \cup Paths

------------------------------------------------------------------------------
(* Access: AccessMode, AccessDefault, ApplicationAccess. *)

Modes == {"extended", "native", "hybrid"}
Defaults == {"allow", "prompt", "deny"}

\* The three shapes of a native ACL's subject: anyone, nobody, these applications.
AllowAny == [any |-> TRUE, trusted |-> {}]
Prompt == [any |-> FALSE, trusted |-> {}]
TrustOnly(apps) == [any |-> FALSE, trusted |-> apps]
Accesses == {AllowAny} \cup {TrustOnly(apps) : apps \in SUBSET Apps}

Policies == [keychain : Selectors, mode : Modes, default : Defaults, trust : SUBSET Apps]

\* `direct_decision', and what `authorize_secret_access' makes of no policy.
Decision(policy) ==
    IF policy = None \/ policy.mode \notin {"extended", "hybrid"} THEN "allow"
    ELSE policy.default

ProjectsNative(policy) == policy # None /\ policy.mode \in {"native", "hybrid"}

\* `native_application_access'
NativeAccess(policy) ==
    IF policy.trust # {} THEN TrustOnly(policy.trust)
    ELSE IF policy.default = "allow" THEN AllowAny
    ELSE Prompt

\* A variant for the runs: a policy that projects is not looked up.
AccessForWriteOpen(policy, named) == IF named # {} THEN TrustOnly(named) ELSE AllowAny

\* `application_access_for_write': applications named on the command line win.
AccessForWrite(policy, named) ==
    IF named # {} THEN TrustOnly(named)
    ELSE IF ProjectsNative(policy) THEN NativeAccess(policy)
    ELSE AllowAny

------------------------------------------------------------------------------
(* keychain.kdl *)

\* No node stands twice, so a policy is found by its place in `access'.
Configs == [default : Selectors, search : Seq(Dirs), access : Seq(Policies)]

ASSUME ConfigAssumption ==
    /\ Odd \subseteq Names \cup Dirs \cup Apps
    /\ Blank \subseteq Names \cup Dirs \cup Apps
    /\ Blank \cap Paths = {}
    /\ Home \in Dirs
    /\ Env \in Selectors \cup {None}
    /\ None \notin Selectors
    /\ None \notin Policies
    /\ None \notin Configs
    /\ None \notin Accesses
    /\ Names \cap Paths = {}

DefaultConfig(login) == [default |-> login, search |-> <<>>, access |-> <<>>]

\* One record for each line: a policy, and the applications that it trusts.
PolicyLines(policy) ==
    <<[node |-> "access", keychain |-> policy.keychain,
       mode |-> policy.mode, default |-> policy.default]>>
        \o (IF policy.trust = {} THEN <<>>
            ELSE <<[node |-> "trust", keychain |-> policy.keychain, apps |-> policy.trust]>>)

\* `Config::render'
Rendered(c) ==
    LET Text[n \in 0..Len(c.access)] ==
            IF n = 0
              THEN <<[node |-> "default", value |-> c.default]>>
                  \o [i \in DOMAIN c.search |-> [node |-> "search-path", value |-> c.search[i]]]
              ELSE Text[n - 1] \o PolicyLines(c.access[n])
    IN  Text[Len(c.access)]

\* `tokens' drops a value that is empty, and `positional' skips one that holds an equals
\* sign: the line is then short of a value.
Legible(keychain) ==
    IF keychain \in Names THEN keychain \notin Odd \cup Blank
    ELSE keychain.dir \notin Odd /\ keychain.name \notin Odd

LegibleApps(apps) == apps \cap (Odd \cup Blank) = {}

Declared(c, keychain) == \E i \in DOMAIN c.access : c.access[i].keychain = keychain

Trusting(policy, apps) == [policy EXCEPT !.trust = @ \cup apps]

\* `parse', line by line; None is an error, which every command stops at.
ParsedLine(c, line) ==
    IF c = None THEN None
    ELSE CASE line.node = "default" ->
                  IF line.value \in Blank THEN None ELSE [c EXCEPT !.default = line.value]
           [] line.node = "search-path" ->
                  IF line.value \in Blank THEN None
                  ELSE [c EXCEPT !.search = Append(@, line.value)]
           [] line.node = "access" ->
                  IF ~Legible(line.keychain) \/ Declared(c, line.keychain) THEN None
                  ELSE [c EXCEPT !.access = Append(@,
                            [keychain |-> line.keychain, mode |-> line.mode,
                             default |-> line.default, trust |-> {}])]
           [] line.node = "trust" ->
                  IF \/ ~Legible(line.keychain)
                     \/ ~LegibleApps(line.apps)
                     \/ ~Declared(c, line.keychain)
                    THEN None
                  ELSE [c EXCEPT !.access = [i \in DOMAIN @ |->
                            IF @[i].keychain = line.keychain
                              THEN Trusting(@[i], line.apps) ELSE @[i]]]

Parsed(login, lines) ==
    LET After[n \in 0..Len(lines)] ==
            IF n = 0 THEN DefaultConfig(login) ELSE ParsedLine(After[n - 1], lines[n])
    IN  After[Len(lines)]

\* A configuration that can be written and read back: no policy's text is illegible, nor
\* is the default, which a policy may be kept under; no directory is empty; and no two
\* policies have the same text.
Worded(c) ==
    /\ Legible(c.default)
    /\ \A i \in DOMAIN c.search : c.search[i] \notin Blank
    /\ \A i \in DOMAIN c.access :
           Legible(c.access[i].keychain) /\ LegibleApps(c.access[i].trust)
    /\ \A i, j \in DOMAIN c.access : c.access[i].keychain = c.access[j].keychain => i = j

------------------------------------------------------------------------------
(* Which keychain, and which policy. *)

\* `all_search_paths': that it drops what is there already changes no first hit below.
SearchPaths(c) == <<Home>> \o c.search

\* `KeychainLocator::resolve': the first directory that has the file, or the first.
Locate(dirs, name, exists) ==
    LET hits == {i \in DOMAIN dirs : [dir |-> dirs[i], name |-> name] \in exists}
    IN  [dir |-> IF hits = {} THEN dirs[1] ELSE dirs[Min(hits)], name |-> name]

\* `Config::resolve' of a selector that was given.
Resolve(c, selector, exists) ==
    IF selector \in Paths THEN selector ELSE Locate(SearchPaths(c), selector, exists)

\* The texts that policies are saved under.
Selecting(c) == {c.access[i].keychain : i \in DOMAIN c.access}

\* Two saved policies are for one file.
Doubled(c, exists) ==
    \E i, j \in DOMAIN c.access :
        i # j /\ Resolve(c, c.access[i].keychain, exists) = Resolve(c, c.access[j].keychain, exists)

\* What the command line named, else the environment, else the saved default.
Asked(c, argument) ==
    IF argument # None THEN argument ELSE IF Env # None THEN Env ELSE c.default

\* `access_policy_for': the first policy whose selector resolves to the file.
PolicyFor(c, path, exists) ==
    LET hits == {i \in DOMAIN c.access : Resolve(c, c.access[i].keychain, exists) = path}
    IN  IF hits = {} THEN None ELSE c.access[Min(hits)]

\* A variant for the runs: a policy is added beside one that is already there.
SetPolicyBeside(c, policy) == [c EXCEPT !.access = Append(@, policy)]

\* `set_access_policy': in place of one under the same text, else at the end.
SetPolicy(c, policy) ==
    [c EXCEPT !.access =
        IF Declared(c, policy.keychain)
          THEN [i \in DOMAIN @ |-> IF @[i].keychain = policy.keychain THEN policy ELSE @[i]]
          ELSE Append(@, policy)]

\* `clear_access_policy'
ClearPolicy(c, keychain) ==
    [c EXCEPT !.access = Kept(@, {policy \in Policies : policy.keychain # keychain})]

\* `kc config append' and `prepend': what is already there moves.
WithSearch(c, additions, prepend) ==
    LET kept == Kept(c.search, Dirs \ ToSet(additions))
    IN  [c EXCEPT !.search = IF prepend THEN additions \o kept ELSE kept \o additions]
=============================================================================
