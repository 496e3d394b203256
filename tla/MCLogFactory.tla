---- MODULE MCLogFactory ----
(* An instance of LogFactory for TLC. *)
EXTENDS LogFactory, TLC

CONSTANTS m1, m2, s1, s2, s3

\* A console that takes everything, a sink for the source of one message, and
\* one that may be added later.
Sources == s1 :> {m1, m2} @@ s2 :> {m1} @@ s3 :> {m1, m2}
====
