----------------------------- MODULE Serializer -----------------------------
(***************************************************************************)
(* seri_pack and seri_unpack of iolua (iolua/ltask/serializer.c): the Lua  *)
(* values of a message as bytes in a BlockChain, written by one task and   *)
(* read back by another.                                                   *)
(*                                                                         *)
(* A value is a tuple that begins with its type.  A table is               *)
(* <<"table", n, pairs>>: its lua_rawlen and its pairs of key and value.   *)
(* A tag byte is COMBINE_TYPE of a type and its hibits, as in the code.    *)
(* The bytes of numbers are digits to Base instead of 256, so that 64 bits *)
(* fit TLC's integers: 2 bytes hold Base^2 values.                         *)
(***************************************************************************)
EXTENDS BlockChain, FiniteSets, SequencesExt

CONSTANTS
  Base,        \* how many values a byte of a number has
  MaxCookie,   \* MAX_COOKIE
  MaxDepth,    \* MAX_DEPTH
  Inputs       \* the argument lists of seri_pack

ASSUME SerializerAssumption ==
  /\ Base \in Nat /\ Base % 2 = 0 /\ Base > 0
  /\ MaxCookie \in 2..32 /\ MaxDepth \in Nat

VARIABLES
  args,     \* the arguments of seri_pack
  pieces,   \* the calls of wb_push it has still to make
  reading,  \* the read that seri_unpack makes: what for, how many bytes
  asked,    \* whether rb_read was called for it
  open,     \* the tables being unpacked, the innermost first
  out       \* the values unpacked so far, the Lua stack

vars == <<chainVars, args, pieces, reading, asked, open, out>>

-----------------------------------------------------------------------------
(* Packing.                                                                *)

Tag(type, hibits) == type + 8 * hibits
Types == [nil |-> 0, boolean |-> 1, number |-> 2, userdata |-> 3, short |-> 4, long |-> 5, table |-> 6]

\* The sizes of numbers, and the hibits that stand for them.
Hibits == [w \in {0, 1, 2, 4, 8} |-> IF w = 8 THEN 6 ELSE w]
Real == 8

Nil == <<"nil">>

\* The w bytes of a number, the lowest first.
Digits(v, w) == [i \in 1..w |-> (v \div Base^(i - 1)) % Base]

Unsigned(bs) ==
  LET up[i \in 0..Len(bs)] == IF i = 0 THEN 0 ELSE up[i - 1] + bs[i] * Base^(i - 1) IN up[Len(bs)]

Signed(bs) ==
  LET n == Unsigned(bs) IN IF 2 * n >= Base^Len(bs) THEN n - Base^Len(bs) ELSE n

\* Mutant: a number that the word cannot hold is taken for one.
WidthLow(v) ==
  IF v = 0 THEN 0 ELSE IF v # Signed(Digits(v, 4)) THEN 8 ELSE IF v < 0 THEN 4
  ELSE IF v < Base THEN 1 ELSE IF v <= Base^2 THEN 2 ELSE 4

\* The size that wb_integer writes v in: a negative number takes 4 bytes at least.
Width(v) ==
  IF v = 0 THEN 0 ELSE IF v # Signed(Digits(v, 4)) THEN 8 ELSE IF v < 0 THEN 4
  ELSE IF v < Base THEN 1 ELSE IF v < Base^2 THEN 2 ELSE 4

\* A push of a tag alone, and one followed by a push of bytes.
Alone(tag) == << <<tag>> >>
With(tag, bs) == << <<tag>>, bs >>

WbInteger(v) ==
  LET tag == Tag(Types.number, Hibits[Width(v)]) IN
  IF v = 0 THEN Alone(tag) ELSE With(tag, Digits(v, Width(v)))

WbString(bs) ==
  LET width == IF Len(bs) < Base^2 THEN 2 ELSE 4 IN
  CASE bs = <<>> -> Alone(Tag(Types.short, 0))
    [] Len(bs) \in 1..MaxCookie - 1 -> With(Tag(Types.short, Len(bs)), bs)
    [] OTHER -> With(Tag(Types.long, width), Digits(Len(bs), width)) \o <<bs>>

\* _pack_one has found nothing it can pack, and calls wb_free.
Fail == <<>>

Lookup(pairs, key) ==
  IF \E p \in pairs : p[1] = key THEN (CHOOSE p \in pairs : p[1] = key)[2] ELSE Nil

\* wb_table_array and wb_table_hash: the values of 1..n, then the other keys and
\* their values, in some order, and a nil.
TableItems(n, pairs) ==
  LET keys == SetToSeq({p[1] : p \in pairs} \ {<<"integer", i>> : i \in 1..n}) IN
  [i \in 1..n |-> Lookup(pairs, <<"integer", i>>)]
    \o FlattenSeq([i \in DOMAIN keys |-> <<keys[i], Lookup(pairs, keys[i])>>])

TableHead(n) ==
  IF n >= MaxCookie - 1 THEN Alone(Tag(Types.table, MaxCookie - 1)) \o WbInteger(n)
  ELSE Alone(Tag(Types.table, n))

\* The pushes of _pack_one, up to a failure and, to be ignored, beyond it.
RECURSIVE PackOne(_, _)
PackAll(vs, depth) == FlattenSeq([i \in DOMAIN vs |-> PackOne(vs[i], depth)])
PackOne(v, depth) ==
  IF depth > MaxDepth THEN <<Fail>> ELSE
  CASE v[1] = "nil"      -> Alone(Tag(Types.nil, 0))
    [] v[1] = "boolean"  -> Alone(Tag(Types.boolean, IF v[2] THEN 1 ELSE 0))
    [] v[1] = "integer"  -> WbInteger(v[2])
    [] v[1] = "real"     -> With(Tag(Types.number, Real), v[2])
    [] v[1] = "userdata" -> With(Tag(Types.userdata, 0), v[2])
    [] v[1] = "string"   -> WbString(v[2])
    [] v[1] = "table"    -> TableHead(v[2]) \o PackAll(TableItems(v[2], v[3]), depth + 1)
                              \o Alone(Tag(Types.nil, 0))
    [] OTHER             -> <<Fail>>

-----------------------------------------------------------------------------
(* seri_pack.                                                              *)

Lua == <<args, reading, asked, open, out>>

PackPush ==
  /\ pieces # <<>> /\ Head(pieces) # Fail
  /\ WbPush(Head(pieces))
  /\ pieces' = Tail(pieces)
  /\ UNCHANGED Lua

PackAgain == WbAgain /\ UNCHANGED <<Lua, pieces>>

PackFails ==
  /\ pieces # <<>> /\ Head(pieces) = Fail
  /\ WbFree
  /\ UNCHANGED <<Lua, pieces>>

PackEnds == pieces = <<>> /\ WbClose /\ UNCHANGED <<Lua, pieces>>

-----------------------------------------------------------------------------
(* seri_unpack.                                                            *)

Ask(what, n) == [what |-> what, size |-> n]
ATag == Ask("tag", 1)

UnpackBegins == RbInit /\ UNCHANGED <<Lua, pieces>>

\* The end of the message where a value of its own would begin, and nowhere else.
UnpackEnds ==
  /\ ~asked /\ reading = ATag /\ open = <<>> /\ len < 1
  /\ RbClose
  /\ UNCHANGED <<Lua, pieces>>

UnpackReads ==
  /\ ~asked
  /\ RbRead(reading.size)
  /\ asked' = TRUE
  /\ UNCHANGED <<args, reading, open, out, pieces>>

UnpackAgain == RbAgain /\ UNCHANGED <<Lua, pieces>>

SetField(pairs, k, v) == {p \in pairs : p[1] # k} \cup (IF v = Nil THEN {} ELSE {<<k, v>>})

\* lua_createtable, with n array elements to come.
OpenTable(n) ==
  /\ open' = <<[n |-> n, at |-> 0, key |-> Nil, pairs |-> {}]>> \o open
  /\ reading' = ATag
  /\ UNCHANGED out

\* A value is pushed to the Lua stack, or stored in the innermost table: its
\* array elements come first, then keys and values in turn.
Put(v, tables) ==
  LET t == Head(tables) IN
  /\ reading' = ATag
  /\ IF tables = <<>> THEN open' = <<>> /\ out' = Append(out, v)
     ELSE /\ open' = << IF t.at < t.n
                        THEN [t EXCEPT !.at = @ + 1, !.pairs = SetField(@, <<"integer", t.at + 1>>, v)]
                        ELSE IF t.key = Nil THEN [t EXCEPT !.key = v]
                        ELSE [t EXCEPT !.key = Nil, !.pairs = SetField(@, t.key, v)] >>
                     \o Tail(tables)
          /\ UNCHANGED out

\* A nil in the place of a key ends the innermost table.
Ends(v) == open # <<>> /\ v = Nil /\ Head(open).at = Head(open).n /\ Head(open).key = Nil

Deliver(v) ==
  IF Ends(v) THEN Put(<<"table", Head(open).n, Head(open).pairs>>, Tail(open)) ELSE Put(v, open)

GoOn(what, n) == reading' = Ask(what, n) /\ UNCHANGED <<open, out>>

\* The number of bytes that get_integer reads.
Reads(hibits) == CHOOSE w \in DOMAIN Hibits : Hibits[w] = hibits

\* get_integer: one or two bytes are unsigned.
GetInteger(bs) == IF Len(bs) <= 2 THEN Unsigned(bs) ELSE Signed(bs)

\* _push_value, after the tag.
PushValue(type, hibits) ==
  CASE type = Types.nil -> Deliver(Nil)
    [] type = Types.boolean -> Deliver(<<"boolean", hibits # 0>>)
    [] type = Types.number /\ hibits = Real -> GoOn("real", 8)
    [] type = Types.number /\ hibits = 0 -> Deliver(<<"integer", 0>>)
    [] type = Types.number /\ hibits \notin {0, Real} -> GoOn("integer", Reads(hibits))
    [] type = Types.userdata -> GoOn("userdata", 8)
    [] type = Types.short -> GoOn("string", hibits)
    [] type = Types.long -> GoOn("length", hibits)
    [] type = Types.table /\ hibits = MaxCookie - 1 -> GoOn("size tag", 1)
    [] type = Types.table /\ hibits # MaxCookie - 1 -> OpenTable(hibits)

\* What is done with the bytes of a read.
Use(bs) ==
  CASE reading.what = "tag" -> PushValue(bs[1] % 8, bs[1] \div 8)
    [] reading.what = "integer" -> Deliver(<<"integer", GetInteger(bs)>>)
    [] reading.what = "length" -> GoOn("string", Unsigned(bs))
    [] reading.what = "size tag" -> GoOn("size", Reads(bs[1] \div 8))
    [] reading.what = "size" -> OpenTable(GetInteger(bs))
    [] OTHER -> Deliver(<<reading.what, bs>>)

UnpackUses ==
  /\ phase = "read" /\ asked
  /\ asked' = FALSE
  /\ Use(SubSeq(got, Len(got) - reading.size + 1, Len(got)))
  /\ UNCHANGED <<chainVars, args, pieces>>

-----------------------------------------------------------------------------
Init ==
  /\ ChainInit
  /\ args \in Inputs
  /\ pieces = PackAll(args, 0)
  /\ reading = ATag /\ asked = FALSE
  /\ open = <<>> /\ out = <<>>

Next ==
  \/ PackPush \/ PackAgain \/ PackFails \/ PackEnds
  \/ UnpackBegins \/ UnpackReads \/ UnpackAgain \/ UnpackUses \/ UnpackEnds

\* Both tasks go on, and the message is delivered.
Spec == Init /\ [][Next]_vars /\ WF_vars(Next)

-----------------------------------------------------------------------------
(* Properties.                                                             *)

\* What can be packed: no value deeper than MaxDepth tables, and no function.
RECURSIVE Packable(_, _)
Packable(v, depth) ==
  /\ depth <= MaxDepth /\ v[1] # "function"
  /\ v[1] = "table" =>
       /\ \A i \in 1..v[2] : Packable(Lookup(v[3], <<"integer", i>>), depth + 1)
       /\ \A p \in v[3] : Packable(p[1], depth + 1) /\ Packable(p[2], depth + 1)

\* A message whose values can be packed is read back with the same values, in
\* the same order, and read to its end; any other is given up.
RoundTrip ==
  <>(IF \A i \in DOMAIN args : Packable(args[i], 0)
     THEN phase = "done" /\ out = args
     ELSE phase = "failed")
=============================================================================
