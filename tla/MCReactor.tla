---- MODULE MCReactor ----
(* Instances of Reactor for TLC: streams on descriptor a, sockets on b. *)
EXTENDS Reactor, TLC

CONSTANTS r1, r2, q1, q2, w1, a, b, x1, x2

FdMap  == [o \in Ops |-> IF o \in {r1, r2} THEN a ELSE b]
DirMap == [o \in Ops |-> IF o = w1 THEN "write" ELSE "read"]

\* The lists that some operation is for.
UsedLists == {ListOf(o) : o \in Ops}

Symmetry == Permutations({q1, q2}) \cup Permutations({x1, x2})
====
