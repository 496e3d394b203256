---- MODULE MCLtask ----
(* Instances of Ltask for TLC: who may do what with which channel. *)
EXTENDS Ltask, TLC

CONSTANTS t1, t2, t3, c1, c2, c3

\* test/test.lua and test/echo.lua: t1 sends on c1 and receives on c2, t2 sends
\* back what it receives; t2 receives on c3 as well, from t1 too.
EchoOpens == t1 :> {c1, c2, c3} @@ t2 :> {}
EchoSends == t1 :> {c1, c3} @@ t2 :> {c2}
EchoRecvs == t1 :> {<<c2>>} @@ t2 :> {<<c1, c3>>}

\* t2 and t3 share c1, and t2 alone receives on c2 and c3 at once; t1 may close c2
\* and t3 the channel they share.
ShareSpawns == t1 :> {t2, t3} @@ t2 :> {} @@ t3 :> {}
ShareOpens  == t1 :> {c1, c2, c3} @@ t2 :> {} @@ t3 :> {}
ShareCloses == t1 :> {c2} @@ t2 :> {} @@ t3 :> {c1}
ShareSends  == ShareOpens
ShareRecvs  == t1 :> {} @@ t2 :> {<<c1>>, <<c2, c3>>} @@ t3 :> {<<c1>>}

Nothing == [t \in Tasks |-> {}]

EchoSpawns == t1 :> {t2} @@ t2 :> {}

Symmetry == Permutations(Msgs) \cup Permutations(Workers)
====
