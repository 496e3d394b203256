---- MODULE MCSerializer ----
(* The instance of Serializer for TLC: arguments of every type, with every size
   of number, string and table, behind a string that moves them over the end of a
   block. *)
EXTENDS Serializer

Num(v) == <<"integer", v>>
Str(n) == <<"string", [i \in 1..n |-> (7 * i) % 256]>>
Table(n, pairs) == <<"table", n, pairs>>
Word(k) == [i \in 1..8 |-> k + i]

\* Base 4: 3 is the last byte, 15 the last word, 127 the last signed dword.
Integers == {Num(v) : v \in {0, 1, 3, 4, 15, 16, 127, 128, -1, -128, -129, -32768, 32767}}

Scalars == Integers \cup
  {Nil, <<"boolean", TRUE>>, <<"boolean", FALSE>>, <<"real", Word(20)>>, <<"userdata", Word(40)>>}

\* A nil may stand in the array of a table, and its keys may be of any type.
Tables ==
  LET array(n) == {<<Num(i), Num(i)>> : i \in 1..n}
      hash == {<<Str(1), Str(4)>>, <<<<"boolean", FALSE>>, Num(0)>>, <<Num(-1), Str(0)>>, <<Num(9), Num(9)>>}
  IN {Table(n, array(n)) : n \in {0, 2, 3, 4, 5}}
     \cup {Table(0, hash), Table(2, hash \cup array(2)), Table(3, array(3) \ {<<Num(2), Num(2)>>}),
           Table(1, {<<Num(1), Table(1, {<<Num(1), Num(7)>>})>>}),
           Table(0, {<<Table(0, {}), Table(1, {<<Num(1), Table(0, {})>>})>>})}

\* One table too deep, with and without something in it, and functions.
Unpackable ==
  LET nest[d \in Nat] == IF d = 0 THEN Table(0, {}) ELSE Table(1, {<<Num(1), nest[d - 1]>>})
  IN {nest[MaxDepth], nest[MaxDepth + 1], <<"function">>, Table(1, {<<Num(1), <<"function">>>>})}

Values == Scalars \cup Tables \cup Unpackable \cup {Str(n) : n \in {0, 1, 3, 4, 15, 16, 26}}

Arguments == {<<>>} \cup {<<Str(n), v>> : n \in 0..BlockSize + 3, v \in Values}
               \cup {<<v, w>> : v, w \in Values}

AllBytes == 0..255
====
