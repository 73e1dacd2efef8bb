-------------------------- MODULE SnapshotReplica --------------------------
(***************************************************************************)
(* What the PGD transport promises, without its packets, assemblies and    *)
(* retries: what a node holds of another one's PGD is a snapshot that this *)
(* owner captured, whole, and within an authority generation it is only    *)
(* ever exchanged for a newer one.                                         *)
(***************************************************************************)
EXTENDS Integers

CONSTANTS
    Node,       \* the game processes of an expedition
    Rev,        \* snapshot revisions
    Val,        \* contents of a PGD
    Gen         \* authority generations

VARIABLES
    captured,   \* captured[o]: what o has captured so far
    copy        \* copy[n][o]: what n # o holds of o, a set of at most one copy

vars == <<captured, copy>>

Captures == [rev : Rev, val : Val]
\* A copy is filed under the generation of its capture or, when the host has
\* rebound it, a later one.
Copies   == [rev : Rev, val : Val, seq : Gen]

CaptureOf(c) == [rev |-> c.rev, val |-> c.val]

Init == /\ captured = [o \in Node |-> {}]
        /\ copy = [n \in Node |-> [o \in Node |-> {}]]

\* An owner captures its PGD.
Capture ==
    /\ \E o \in Node, c \in Captures :
          captured' = [captured EXCEPT ![o] = @ \cup {c}]
    /\ UNCHANGED copy

Replaces(d, c) ==
    c.seq = d.seq => d.rev > c.rev \/ CaptureOf(d) = CaptureOf(c)

\* Nodes take, refile or forget copies.
Exchange ==
    /\ copy' \in [Node -> [Node -> SUBSET Copies]]
    /\ \A n, o \in Node : \A d \in copy'[n][o] :
          /\ CaptureOf(d) \in captured[o]
          /\ \A c \in copy[n][o] : Replaces(d, c)
          /\ \A c \in copy'[n][o] : c = d
    /\ UNCHANGED captured

Next == Capture \/ Exchange

Spec == Init /\ [][Next]_vars

=============================================================================
