------------------------------ MODULE MCLimiter ------------------------------
(* Small instances of Limiter for TLC. *)
EXTENDS Limiter, TLC

L(ip, speed) == [ip |-> ip, speed |-> speed]

\* A user who is always limited to one IP, with a rate of its own or none.
ListsLimited == {[u \in Users |-> L(1, 2)], [u \in Users |-> L(1, 0)]}

\* One list, for the claims about a limit that does not change.
ListsOne == {[u \in Users |-> L(1, 2)]}

Symmetry == Permutations(IPs) \cup Permutations(Conns)
=============================================================================
