----------------------------- MODULE MCKcCommands -----------------------------
(***************************************************************************)
(* Instances of KcCommands: one name in two directories, one item, one     *)
(* application.                                                            *)
(***************************************************************************)
EXTENDS KcCommands, TLC

CONSTANTS login, home, extra, app, item, p1, p2, p3

MCNames == {login}
MCDirs == {home, extra}
MCOffered == {[mode |-> "hybrid", default |-> "prompt"],
              [mode |-> "extended", default |-> "deny"],
              [mode |-> "native", default |-> "allow"]}
MCFound == {[dir |-> home, name |-> login]}
MCTyped == {None, [dir |-> home, name |-> login], [dir |-> extra, name |-> login]}
MCEnv == [dir |-> extra, name |-> login]
Symmetry == Permutations(Procs)
=============================================================================
