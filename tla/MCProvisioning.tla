---------------------------- MODULE MCProvisioning ----------------------------
(***************************************************************************)
(* Two calls of any kind: two clones of which both, one or none ask for a  *)
(* branch that exists, a host tree with a file, a directory, a symlink and *)
(* a socket, and a clock of nine ticks with a token that lives for three.  *)
(***************************************************************************)
EXTENDS Provisioning

RefsOf == [podbot |-> {"main"}, fork |-> {"main"}]
TagNames == [podbot |-> {"v1"}, fork |-> {}]

A == <<".claude", "a">>
D == <<".claude", "d">>
X == <<".claude", "d", "x">>
S == <<".codex", "s">>
EntryPaths == {A, D, X, S}

ChildrenOf ==
    [n \in EntryPaths \cup {Claude, Codex} |->
        CASE n = Claude -> <<A, D>>
          [] n = Codex -> <<S>>
          [] n = D -> <<X>>
          [] OTHER -> <<>>]

KindOf == A :> "file" @@ D :> "dir" @@ S :> "symlink" @@ X :> "other"

=============================================================================
