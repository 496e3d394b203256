--------------------------- MODULE FileSinkProofs ---------------------------
(***************************************************************************)
(* Proofs that the types of FileSink, the filling of its blocks and the    *)
(* bound on the size of its files hold for every maximum size and any      *)
(* number of days, messages, restarts and failures.                        *)
(***************************************************************************)
EXTENDS FileSink, TLAPS

\* The stream is that of the name and the block in use.
StreamInUse == stream # NoFile => stream = <<filename, blocks>>

\* f has not been opened in this life of the program: it is a file of a day that
\* the sink has not begun, or a later block of the day in use.
Unopened(f) == f[1] = today /\ (filename # today \/ f[2] > blocks)

\* No day but those up to today has files, and a block that has not been opened
\* in this life has room for one message more.
RoomAhead ==
  /\ filename <= today
  /\ \A f \in DOMAIN files :
       /\ f[1] <= today
       /\ f[2] > 0 /\ Unopened(f) => Len(files[f]) <= MaxSize + life

SizeInv == TypeOK /\ StreamInUse /\ BlocksFilled /\ RoomAhead /\ SizeBound

-----------------------------------------------------------------------------
\* What a step of openfile leaves in o: the files as they were, besides some new
\* and empty ones of today up to the block in use, and the stream of that block.
Result(o) ==
  /\ o.blocks \in Nat
  /\ o.files \in [DOMAIN o.files -> Seq(1..MaxMsg)]
  /\ DOMAIN files \subseteq DOMAIN o.files /\ DOMAIN o.files \subseteq Names
  /\ \A f \in DOMAIN files : o.files[f] = files[f]
  /\ \A f \in DOMAIN o.files \ DOMAIN files :
       o.files[f] = <<>> /\ f[1] = today /\ f[2] <= o.blocks
  /\ o.stream # NoFile => o.stream = <<today, o.blocks>> /\ o.stream \in DOMAIN o.files
  /\ filename = today => blocks <= o.blocks

\* The blocks in o are filled in order.
Filled(o) == \A f \in DOMAIN o.files : f[2] > 0 => Full(o.files, <<f[1], f[2] - 1>>)

\* Opening a file adds at most that file, empty.
LEMMA OpenKeeps ==
  ASSUME NEW fs, fs \in [DOMAIN fs -> Seq(1..MaxMsg)], NEW f
  PROVE  /\ DOMAIN Opened(fs, f) = DOMAIN fs \cup {f}
         /\ Opened(fs, f) \in [DOMAIN fs \cup {f} -> Seq(1..MaxMsg)]
         /\ \A g \in DOMAIN fs : Opened(fs, f)[g] = fs[g]
         /\ f \notin DOMAIN fs => Opened(fs, f)[f] = <<>>
<1>1. <<>> \in Seq(1..MaxMsg)
  OBVIOUS
<1> QED
  BY <1>1 DEF Opened

\* The first half of openfile.
LEMMA ByNameResult ==
  ASSUME TypeOK, StreamInUse, BlocksFilled, NEW ok \in BOOLEAN
  PROVE  Result(ByName(ok)) /\ Filled(ByName(ok))
<1> DEFINE o == ByName(ok)
           f == <<today, 0>>
<1>1. CASE filename = today
  <2>1. o.blocks = blocks /\ o.files = files /\ o.stream = stream
    BY <1>1 DEF ByName
  <2> QED
    BY <1>1, <2>1 DEF Result, Filled, BlocksFilled, TypeOK, StreamInUse
<1>2. CASE filename # today /\ ~ok
  <2>1. o.blocks = 0 /\ o.files = files /\ o.stream = NoFile
    BY <1>2 DEF ByName
  <2> QED
    BY <1>2, <2>1 DEF Result, Filled, BlocksFilled, TypeOK
<1>3. CASE filename # today /\ ok
  <2>1. o.blocks = 0 /\ o.files = Opened(files, f) /\ o.stream = f
    BY <1>3 DEF ByName
  <2>2. f \in Names /\ f[1] = today /\ f[2] = 0
    BY DEF TypeOK, Names
  <2>a. /\ DOMAIN o.files = DOMAIN files \cup {f}
        /\ o.files \in [DOMAIN files \cup {f} -> Seq(1..MaxMsg)]
        /\ \A g \in DOMAIN files : o.files[g] = files[g]
        /\ f \notin DOMAIN files => o.files[f] = <<>>
    <3>1. files \in [DOMAIN files -> Seq(1..MaxMsg)]
      BY DEF TypeOK
    <3> HIDE DEF o, f
    <3>2. /\ DOMAIN Opened(files, f) = DOMAIN files \cup {f}
          /\ Opened(files, f) \in [DOMAIN files \cup {f} -> Seq(1..MaxMsg)]
          /\ \A g \in DOMAIN files : Opened(files, f)[g] = files[g]
          /\ f \notin DOMAIN files => Opened(files, f)[f] = <<>>
      BY <3>1, OpenKeeps, Zenon
    <3> QED
      BY <2>1, <3>2
  <2>b. o.stream = <<today, o.blocks>>
    BY <2>1
  <2> HIDE DEF o
  <2>3. Result(o)
    <3>1. o.blocks \in Nat /\ (filename = today => blocks <= o.blocks)
      BY <1>3, <2>1 DEF TypeOK
    <3>2. /\ o.files \in [DOMAIN o.files -> Seq(1..MaxMsg)]
          /\ DOMAIN files \subseteq DOMAIN o.files /\ DOMAIN o.files \subseteq Names
          /\ \A g \in DOMAIN files : o.files[g] = files[g]
      BY <2>2, <2>a DEF TypeOK
    <3>3. ASSUME NEW g \in DOMAIN o.files \ DOMAIN files
          PROVE  o.files[g] = <<>> /\ g[1] = today /\ g[2] <= o.blocks
      <4>1. g = f
        BY <2>a
      <4>2. o.blocks = 0
        BY <2>1
      <4> HIDE DEF f
      <4> QED
        BY <2>2, <2>a, <4>1, <4>2
    <3>4. o.stream # NoFile => o.stream = <<today, o.blocks>> /\ o.stream \in DOMAIN o.files
      BY <2>1, <2>2, <2>a, <2>b
    <3> QED
      BY <3>1, <3>2, <3>3, <3>4 DEF Result
  <2>4. ASSUME NEW g \in DOMAIN o.files, g[2] > 0
        PROVE  Full(o.files, <<g[1], g[2] - 1>>)
    <3>1. g \in DOMAIN files
      BY <2>2, <2>4, <2>a
    <3>2. Full(files, <<g[1], g[2] - 1>>)
      BY <2>4, <3>1 DEF BlocksFilled
    <3> QED
      <4> DEFINE h == <<g[1], g[2] - 1>>
      <4> HIDE DEF h
      <4>1. h \in DOMAIN files /\ Len(files[h]) > MaxSize
        BY <3>2 DEF Full, h
      <4>2. h \in DOMAIN o.files /\ o.files[h] = files[h]
        BY <2>a, <4>1
      <4> QED
        BY <4>1, <4>2 DEF Full, h
  <2> QED
    BY <2>3, <2>4 DEF Filled, o
<1> QED
  BY <1>1, <1>2, <1>3

\* The second half, from any outcome of the first.
LEMMA BySizeResult ==
  ASSUME TypeOK, NEW p, Result(p), Filled(p), NEW ok \in BOOLEAN
  PROVE  Result(BySize(p, ok)) /\ Filled(BySize(p, ok))
<1> DEFINE o == BySize(p, ok)
           next == <<today, p.blocks + 1>>
<1>1. CASE ~Full(p.files, <<today, p.blocks>>)
  BY <1>1 DEF BySize
<1>2. CASE Full(p.files, <<today, p.blocks>>) /\ ~ok
  <2>1. o.blocks = p.blocks + 1 /\ o.files = p.files /\ o.stream = NoFile
    BY <1>2 DEF BySize
  <2>2. \A f \in DOMAIN p.files : f[2] \in Nat
    BY DEF Result, Names
  <2> QED
    BY <1>2, <2>1, <2>2 DEF Result, Filled, TypeOK
<1>3. CASE Full(p.files, <<today, p.blocks>>) /\ ok
  <2>1. o.blocks = p.blocks + 1 /\ o.files = Opened(p.files, next) /\ o.stream = next
    BY <1>3 DEF BySize
  <2>2. next \in Names /\ next[1] = today /\ next[2] = p.blocks + 1
    BY DEF Result, TypeOK, Names
  <2>3. \A f \in DOMAIN p.files : f[2] \in Nat
    BY DEF Result, Names
  <2>4. /\ DOMAIN o.files = DOMAIN p.files \cup {next}
        /\ o.files \in [DOMAIN p.files \cup {next} -> Seq(1..MaxMsg)]
        /\ \A g \in DOMAIN p.files : o.files[g] = p.files[g]
        /\ next \notin DOMAIN p.files => o.files[next] = <<>>
    <3>1. p.files \in [DOMAIN p.files -> Seq(1..MaxMsg)]
      BY DEF Result
    <3> HIDE DEF o, next
    <3>2. /\ DOMAIN Opened(p.files, next) = DOMAIN p.files \cup {next}
          /\ Opened(p.files, next) \in [DOMAIN p.files \cup {next} -> Seq(1..MaxMsg)]
          /\ \A g \in DOMAIN p.files : Opened(p.files, next)[g] = p.files[g]
          /\ next \notin DOMAIN p.files => Opened(p.files, next)[next] = <<>>
      BY <3>1, OpenKeeps, Zenon
    <3> QED
      BY <2>1, <3>2
  <2>b. o.stream = <<today, o.blocks>>
    BY <2>1
  <2> HIDE DEF o
  <2>5. Result(o)
    <3>1. o.blocks \in Nat /\ (filename = today => blocks <= o.blocks)
      BY <2>1, <2>3 DEF TypeOK, Result
    <3>2. /\ o.files \in [DOMAIN o.files -> Seq(1..MaxMsg)]
          /\ DOMAIN files \subseteq DOMAIN o.files /\ DOMAIN o.files \subseteq Names
          /\ \A g \in DOMAIN files : o.files[g] = files[g]
      BY <2>2, <2>4 DEF TypeOK, Result
    <3>3. ASSUME NEW g \in DOMAIN o.files \ DOMAIN files
          PROVE  o.files[g] = <<>> /\ g[1] = today /\ g[2] <= o.blocks
      <4>1. o.blocks = p.blocks + 1 /\ p.blocks \in Nat
        BY <2>1 DEF Result
      <4> HIDE DEF next
      <4>2. CASE g \in DOMAIN p.files
        <5>1. p.files[g] = <<>> /\ g[1] = today /\ g[2] <= p.blocks
          BY <4>2 DEF Result
        <5> QED
          BY <2>3, <2>4, <4>1, <4>2, <5>1
      <4>3. CASE g = next /\ next \notin DOMAIN p.files
        BY <2>2, <2>4, <4>1, <4>3
      <4> QED
        BY <2>4, <4>2, <4>3
    <3>4. o.stream # NoFile => o.stream = <<today, o.blocks>> /\ o.stream \in DOMAIN o.files
      BY <2>1, <2>2, <2>4, <2>b
    <3> QED
      BY <3>1, <3>2, <3>3, <3>4 DEF Result
  <2>6. ASSUME NEW g \in DOMAIN o.files, g[2] > 0
        PROVE  Full(o.files, <<g[1], g[2] - 1>>)
    <3>1. Full(p.files, <<g[1], g[2] - 1>>)
      <4>1. CASE g \in DOMAIN p.files
        BY <2>6, <4>1 DEF Filled
      <4>2. CASE g = next
        BY <1>3, <2>2, <4>2 DEF Result
      <4> QED
        BY <2>4, <4>1, <4>2
    <3> QED
      <4> DEFINE h == <<g[1], g[2] - 1>>
      <4> HIDE DEF h
      <4>1. h \in DOMAIN p.files /\ Len(p.files[h]) > MaxSize
        BY <3>1 DEF Full, h
      <4>2. h \in DOMAIN o.files /\ o.files[h] = p.files[h]
        BY <2>4, <4>1
      <4> QED
        BY <4>1, <4>2 DEF Full, h
  <2> QED
    BY <2>5, <2>6 DEF Filled, o
<1> QED
  BY <1>1, <1>2, <1>3

\* openfile as a whole.
Openfile(ok) == BySize(ByName(ok.name), ok.block)

\* What openfile leaves, and that the file it has open has room for a message:
\* a file that it has looked at is not too large, and one that it opens as the
\* next block has not been written to in this life.
LEMMA OpenfileResult ==
  ASSUME SizeInv, NEW ok \in Outcomes
  PROVE  LET o == Openfile(ok) IN
         /\ Result(o) /\ Filled(o)
         /\ o.stream # NoFile =>
              Len(o.files[o.stream]) <= MaxSize + (IF o.blocks = 0 THEN 0 ELSE life)
<1> DEFINE p == ByName(ok.name)
           o == BySize(p, ok.block)
           next == <<today, p.blocks + 1>>
<1>1. ok.name \in BOOLEAN /\ ok.block \in BOOLEAN
  BY DEF Outcomes
<1>2. Result(p) /\ Filled(p)
  BY <1>1, ByNameResult DEF SizeInv
<1>3. Result(o) /\ Filled(o)
  <2> HIDE DEF p
  <2> QED
    BY <1>1, <1>2, BySizeResult DEF SizeInv
<1>4. MaxSize \in Nat /\ life \in Nat /\ p.blocks \in Nat /\ blocks \in Nat
  BY <1>2, FileSinkAssumption DEF Result, SizeInv, TypeOK
<1>5. ASSUME o.stream # NoFile
      PROVE  Len(o.files[o.stream]) <= MaxSize + (IF o.blocks = 0 THEN 0 ELSE life)
  <2> HIDE DEF p
  <2>1. o.stream = <<today, o.blocks>> /\ o.stream \in DOMAIN o.files
    BY <1>3, <1>5 DEF Result
  <2>2. Len(o.files[o.stream]) \in Nat
    BY <1>3, <2>1 DEF Result
  <2>3. CASE ~Full(p.files, <<today, p.blocks>>)
    <3>1. o = p
      BY <2>3 DEF BySize
    <3>2. ~(Len(o.files[o.stream]) > MaxSize)
      BY <2>1, <2>3, <3>1 DEF Full
    <3> QED
      BY <1>4, <2>2, <3>2
  <2>4. CASE Full(p.files, <<today, p.blocks>>)
    <3>1. o.blocks = p.blocks + 1
      BY <2>4 DEF BySize
    <3>2. o.stream = next
      BY <2>1, <3>1
    <3>3. next[1] = today /\ next[2] = p.blocks + 1
      OBVIOUS
    <3> HIDE DEF o, next
    <3>4. CASE next \in DOMAIN files
      <4>1. Unopened(next) /\ next[2] > 0
        BY <1>2, <1>4, <3>3 DEF Unopened, Result
      <4>2. Len(files[next]) <= MaxSize + life
        BY <3>4, <4>1 DEF SizeInv, RoomAhead
      <4>3. o.files[next] = files[next]
        BY <1>3, <3>4 DEF Result
      <4> QED
        BY <1>4, <3>1, <3>2, <4>2, <4>3
    <3>5. CASE next \notin DOMAIN files
      <4>1. o.files[o.stream] = <<>>
        BY <1>3, <2>1, <3>2, <3>5 DEF Result
      <4>2. Len(o.files[o.stream]) = 0
        BY <4>1
      <4> QED
        BY <1>4, <4>2
    <3> QED
      BY <3>4, <3>5
  <2> QED
    BY <2>3, <2>4
<1> QED
  BY <1>3, <1>5 DEF Openfile

-----------------------------------------------------------------------------
\* write keeps the invariant: what openfile leaves, with a message more in the
\* stream if it is good.
LEMMA WriteKeeps ==
  ASSUME SizeInv, NEW ok \in Outcomes, Write(ok),
         failures' \in 0..MaxFailures
  PROVE  SizeInv'
<1> DEFINE o == Openfile(ok)
           m == Len(log) + 1
           good == o.stream # NoFile /\ ok.output
<1>1. /\ Len(log) < MaxMsg /\ filename' = today /\ blocks' = o.blocks
      /\ files' = IF good THEN [o.files EXCEPT ![o.stream] = Append(@, m)] ELSE o.files
      /\ stream' = IF good THEN o.stream ELSE NoFile
      /\ log' = Append(log, [life |-> life, file |-> IF good THEN o.stream ELSE NoFile])
      /\ today' = today /\ life' = life
  BY DEF Write, Openfile
<1>2. /\ Result(o) /\ Filled(o)
      /\ o.stream # NoFile =>
           Len(o.files[o.stream]) <= MaxSize + (IF o.blocks = 0 THEN 0 ELSE life)
  BY OpenfileResult
<1> HIDE DEF o
<1>3. MaxSize \in Nat /\ MaxMsg \in Nat /\ life \in Nat /\ blocks \in Nat /\ Len(log) \in Nat
  BY FileSinkAssumption DEF SizeInv, TypeOK
<1>4. m \in 1..MaxMsg
  BY <1>1, <1>3
<1>5. /\ o.blocks \in Nat
      /\ o.files \in [DOMAIN o.files -> Seq(1..MaxMsg)] /\ DOMAIN o.files \subseteq Names
      /\ o.stream # NoFile => o.stream = <<today, o.blocks>> /\ o.stream \in DOMAIN o.files
  BY <1>2 DEF Result
<1> HIDE DEF m
\* Every file has grown by a message if it is the stream, and is as before if not.
<1>6. /\ DOMAIN files' = DOMAIN o.files
      /\ files' \in [DOMAIN files' -> Seq(1..MaxMsg)]
      /\ \A f \in DOMAIN files' :
           /\ ~(good /\ f = o.stream) => files'[f] = o.files[f]
           /\ good /\ f = o.stream => Len(files'[f]) = Len(o.files[f]) + 1
           /\ Len(o.files[f]) \in Nat
  <2>1. CASE good
    <3>1. Append(o.files[o.stream], m) \in Seq(1..MaxMsg)
      BY <1>4, <1>5, <2>1
    <3>2. Len(Append(o.files[o.stream], m)) = Len(o.files[o.stream]) + 1
      BY <1>4, <1>5, <2>1
    <3>3. files' = [o.files EXCEPT ![o.stream] = Append(o.files[o.stream], m)]
      BY <1>1, <2>1
    <3> QED
      BY <1>5, <2>1, <3>1, <3>2, <3>3
  <2>2. CASE ~good
    BY <1>1, <1>5, <2>2
  <2> QED
    BY <2>1, <2>2
<1>7. TypeOK'
  <2>1. log' \in Seq([life : 0..life', file : Names \cup {NoFile}]) /\ Len(log') <= MaxMsg
    <3> DEFINE entry == [life |-> life, file |-> IF good THEN o.stream ELSE NoFile]
               Entries == [life : 0..life, file : Names \cup {NoFile}]
    <3>1. entry \in Entries
      BY <1>3, <1>5
    <3>2. log \in Seq(Entries)
      BY DEF SizeInv, TypeOK
    <3> HIDE DEF entry, Entries
    <3>3. log' = Append(log, entry)
      BY <1>1 DEF entry
    <3>4. log' \in Seq(Entries) /\ Len(log') = Len(log) + 1
      BY <3>1, <3>2, <3>3
    <3> QED
      BY <1>1, <1>3, <3>4 DEF Entries
  <2>2. stream' \in Names \cup {NoFile} /\ (stream' # NoFile => stream' \in DOMAIN files')
    BY <1>1, <1>5, <1>6
  <2>3. today \in 0..MaxDay /\ life \in 0..MaxRestarts /\ filename' \in -1..MaxDay
    BY <1>1 DEF SizeInv, TypeOK
  <2> QED
    BY <1>1, <1>5, <1>6, <2>1, <2>2, <2>3 DEF TypeOK
<1>8. StreamInUse'
  BY <1>1, <1>5 DEF StreamInUse
<1>9. BlocksFilled'
  <2> SUFFICES ASSUME NEW f \in DOMAIN files', f[2] > 0
               PROVE  Full(files', <<f[1], f[2] - 1>>)
    BY DEF BlocksFilled, Full
  <2>1. Full(o.files, <<f[1], f[2] - 1>>)
    BY <1>2, <1>6 DEF Filled
  <2> DEFINE g == <<f[1], f[2] - 1>>
  <2> HIDE DEF g
  <2>2. g \in DOMAIN o.files /\ Len(o.files[g]) > MaxSize
    BY <2>1 DEF Full, g
  <2>3. g \in DOMAIN files' /\ Len(files'[g]) > MaxSize
    <3>1. g \in DOMAIN files' /\ Len(o.files[g]) \in Nat
      BY <1>6, <2>2
    <3>2. CASE good /\ g = o.stream
      <4>1. Len(files'[g]) = Len(o.files[g]) + 1
        BY <1>6, <3>1, <3>2
      <4> QED
        BY <1>3, <2>2, <3>1, <4>1
    <3>3. CASE ~(good /\ g = o.stream)
      <4>1. files'[g] = o.files[g]
        BY <1>6, <3>1, <3>3
      <4> QED
        BY <2>2, <3>1, <4>1
    <3> QED
      BY <3>2, <3>3
  <2> QED
    BY <2>3 DEF Full, g
<1>10. RoomAhead'
  <2> SUFFICES ASSUME NEW f \in DOMAIN files'
               PROVE  /\ f[1] <= today
                      /\ f[2] > 0 /\ Unopened(f)' => Len(files'[f]) <= MaxSize + life
    BY <1>1, <1>3 DEF RoomAhead, SizeInv, TypeOK
  <2>1. today \in Int /\ f[2] \in Nat
    BY <1>5, <1>6 DEF SizeInv, TypeOK, Names
  <2>2. f[1] <= today
    BY <1>2, <1>6, <2>1 DEF SizeInv, RoomAhead, Result
  <2>3. ASSUME f[2] > 0, Unopened(f)'
        PROVE  Len(files'[f]) <= MaxSize + life
    <3>1. f[1] = today /\ f[2] > o.blocks
      BY <1>1, <2>3 DEF Unopened
    <3>2. f \in DOMAIN files /\ o.files[f] = files[f]
      BY <1>2, <1>5, <1>6, <2>1, <3>1 DEF Result
    <3>3. f # o.stream \/ ~good
      BY <1>5, <2>1, <3>1
    <3>4. Unopened(f)
      BY <1>2, <1>3, <1>5, <2>1, <3>1 DEF Unopened, Result
    <3> QED
      BY <1>6, <2>3, <3>2, <3>3, <3>4 DEF SizeInv, RoomAhead
  <2> QED
    BY <2>2, <2>3
<1>11. SizeBound'
  <2> SUFFICES ASSUME NEW f \in DOMAIN files'
               PROVE  Len(files'[f]) <= MaxSize + 1 + (IF f[2] = 0 THEN 0 ELSE life)
    BY <1>1 DEF SizeBound
  <2>1. CASE good /\ f = o.stream
    <3>1. f = <<today, o.blocks>> /\ f[2] = o.blocks
      BY <1>5, <2>1
    <3>2. Len(o.files[f]) <= MaxSize + (IF f[2] = 0 THEN 0 ELSE life)
      BY <1>2, <2>1, <3>1
    <3>3. Len(files'[f]) = Len(o.files[f]) + 1 /\ Len(o.files[f]) \in Nat
      BY <1>6, <2>1
    <3> QED
      BY <1>3, <3>2, <3>3
  <2>2. CASE ~(good /\ f = o.stream) /\ f \in DOMAIN files
    <3>1. files'[f] = o.files[f]
      BY <1>6, <2>2
    <3>2. o.files[f] = files[f]
      BY <1>2, <2>2 DEF Result
    <3> QED
      BY <2>2, <3>1, <3>2 DEF SizeInv, SizeBound
  <2>3. CASE ~(good /\ f = o.stream) /\ f \notin DOMAIN files
    <3>1. files'[f] = <<>>
      BY <1>2, <1>6, <2>3 DEF Result
    <3>2. Len(files'[f]) = 0
      BY <3>1
    <3> QED
      BY <1>3, <3>2
  <2> QED
    BY <2>1, <2>2, <2>3
<1> QED
  BY <1>7, <1>8, <1>9, <1>10, <1>11 DEF SizeInv

\* A new day: no file is of that day.
LEMMA MidnightKeeps == SizeInv /\ Midnight => SizeInv'
<1> SUFFICES ASSUME SizeInv, Midnight PROVE SizeInv'
  OBVIOUS
<1> USE DEF SizeInv, Midnight
<1>1. TypeOK' /\ StreamInUse'
  BY FileSinkAssumption DEF TypeOK, StreamInUse
<1>2. BlocksFilled' /\ SizeBound'
  BY DEF BlocksFilled, SizeBound, Full
<1>3. today \in Int /\ \A f \in DOMAIN files : f[1] \in Int
  BY DEF TypeOK, Names
<1>4. RoomAhead'
  BY <1>3 DEF RoomAhead, Unopened, TypeOK
<1> QED
  BY <1>1, <1>2, <1>4

\* The next life of the program may write one message more to every block.
LEMMA RestartKeeps == SizeInv /\ Restart => SizeInv'
<1> SUFFICES ASSUME SizeInv, Restart PROVE SizeInv'
  OBVIOUS
<1> USE DEF SizeInv, Restart
<1>1. /\ life \in Nat /\ MaxRestarts \in Nat /\ MaxSize \in Nat /\ today \in Nat
      /\ \A f \in DOMAIN files : Len(files[f]) \in Nat
  BY FileSinkAssumption DEF TypeOK
<1>2. log \in Seq([life : 0..life', file : Names \cup {NoFile}])
  <2> DEFINE Now  == [life : 0..life, file : Names \cup {NoFile}]
             Then == [life : 0..life', file : Names \cup {NoFile}]
  <2>1. Now \subseteq Then
    BY <1>1
  <2>2. log \in Seq(Now)
    BY DEF TypeOK
  <2> HIDE DEF Now, Then
  <2>3. log \in Seq(Then)
    BY <2>1, <2>2
  <2> QED
    BY <2>3 DEF Then
<1>3. TypeOK'
  BY <1>1, <1>2, FileSinkAssumption DEF TypeOK, NoDay
<1>4. StreamInUse' /\ BlocksFilled'
  BY DEF StreamInUse, BlocksFilled, Full
<1>5. RoomAhead'
  BY <1>1 DEF RoomAhead, SizeBound, Unopened, NoDay
<1>6. SizeBound'
  BY <1>1 DEF SizeBound
<1> QED
  BY <1>3, <1>4, <1>5, <1>6

LEMMA SizeInvInit == Init => SizeInv
<1> SUFFICES ASSUME Init PROVE SizeInv
  OBVIOUS
<1>1. DOMAIN files = {} /\ files \in [DOMAIN files -> Seq(1..MaxMsg)]
  BY DEF Init
<1>2. log \in Seq([life : 0..life, file : Names \cup {NoFile}]) /\ Len(log) = 0
  BY DEF Init
<1>3. TypeOK
  BY <1>1, <1>2, FileSinkAssumption DEF Init, TypeOK, NoDay
<1> QED
  BY <1>1, <1>3 DEF SizeInv, StreamInUse, BlocksFilled, RoomAhead, SizeBound, Init, NoDay

LEMMA SizeInvStep == SizeInv /\ [Next]_vars => SizeInv'
<1> SUFFICES ASSUME SizeInv, [Next]_vars PROVE SizeInv'
  OBVIOUS
<1>1. CASE Write(Fine) /\ UNCHANGED failures
  <2>1. Fine \in Outcomes
    BY DEF Fine, Outcomes
  <2> QED
    BY <1>1, <2>1, WriteKeeps DEF SizeInv, TypeOK
<1>2. CASE WriteFails
  <2>1. PICK ok \in Outcomes \ {Fine} : Write(ok)
    BY <1>2 DEF WriteFails
  <2>2. failures' \in 0..MaxFailures
    BY <1>2, FileSinkAssumption DEF WriteFails, SizeInv, TypeOK
  <2> QED
    BY <2>1, <2>2, WriteKeeps
<1>3. CASE Midnight
  BY <1>3, MidnightKeeps
<1>4. CASE Restart
  BY <1>4, RestartKeeps
<1>5. CASE UNCHANGED vars
  BY <1>5 DEF vars, SizeInv, TypeOK, StreamInUse, BlocksFilled, Full, RoomAhead, Unopened, SizeBound
<1> QED
  BY <1>1, <1>2, <1>3, <1>4, <1>5 DEF Next

LEMMA Sized == Spec => []SizeInv
BY SizeInvInit, SizeInvStep, PTL DEF Spec

\* The fields of the sink and the files keep their types.
THEOREM FileTypes == Spec => []TypeOK
<1>1. SizeInv => TypeOK
  BY DEF SizeInv
<1> QED
  BY <1>1, Sized, PTL

\* No file exceeds the maximum by more than one message, and one more for every
\* restart if it is a block with a suffix, whatever fails and whenever.
THEOREM FilesAreBounded == Spec => []SizeBound
<1>1. SizeInv => SizeBound
  BY DEF SizeInv
<1> QED
  BY <1>1, Sized, PTL

\* No block is begun before the one before it is too large, whatever fails and
\* whenever.
THEOREM BlocksAreFilled == Spec => []BlocksFilled
<1>1. SizeInv => BlocksFilled
  BY DEF SizeInv
<1> QED
  BY <1>1, Sized, PTL

-----------------------------------------------------------------------------
(* Where the messages go.                                                  *)

\* What one write leaves: the message is in the stream of the block in use, or
\* in no file; what the files held they hold.
LEMMA WriteLeaves ==
  ASSUME SizeInv, NEW ok \in Outcomes, Write(ok)
  PROVE  /\ filename' = today /\ today' = today /\ life' = life /\ blocks' \in Nat
         /\ filename = today => blocks <= blocks'
         /\ stream' \in {NoFile, <<today, blocks'>>}
         /\ log' = Append(log, [life |-> life, file |-> stream'])
         /\ stream' # NoFile =>
              /\ stream' \in DOMAIN files'
              /\ \E k \in DOMAIN files'[stream'] : files'[stream'][k] = Len(log) + 1
         /\ \A f \in DOMAIN files :
              /\ f \in DOMAIN files'
              /\ \A k \in DOMAIN files[f] :
                   k \in DOMAIN files'[f] /\ files'[f][k] = files[f][k]
<1> DEFINE o == Openfile(ok)
           m == Len(log) + 1
           good == o.stream # NoFile /\ ok.output
<1>1. /\ Len(log) < MaxMsg /\ filename' = today /\ blocks' = o.blocks
      /\ files' = IF good THEN [o.files EXCEPT ![o.stream] = Append(@, m)] ELSE o.files
      /\ stream' = IF good THEN o.stream ELSE NoFile
      /\ log' = Append(log, [life |-> life, file |-> IF good THEN o.stream ELSE NoFile])
      /\ today' = today /\ life' = life
  BY DEF Write, Openfile
<1>2. Result(o)
  BY OpenfileResult
<1>3. m \in 1..MaxMsg
  BY <1>1, FileSinkAssumption DEF SizeInv, TypeOK
<1> HIDE DEF o, m
<1>4. /\ o.files \in [DOMAIN o.files -> Seq(1..MaxMsg)]
      /\ \A f \in DOMAIN files : f \in DOMAIN o.files /\ o.files[f] = files[f]
      /\ o.stream # NoFile => o.stream = <<today, o.blocks>> /\ o.stream \in DOMAIN o.files
      /\ o.blocks \in Nat /\ (filename = today => blocks <= o.blocks)
  BY <1>2 DEF Result
<1>5. CASE ~good
  <2>1. files' = o.files /\ stream' = NoFile
    BY <1>1, <1>5
  <2> QED
    BY <1>1, <1>4, <1>5, <2>1
<1>6. CASE good
  <2> DEFINE old == o.files[o.stream]
  <2>1. /\ stream' = o.stream /\ o.stream \in DOMAIN o.files
        /\ files' = [o.files EXCEPT ![o.stream] = Append(old, m)]
    BY <1>1, <1>4, <1>6
  <2>2. old \in Seq(1..MaxMsg)
    BY <1>4, <2>1
  <2> HIDE DEF old
  <2>3. /\ DOMAIN Append(old, m) = 1..Len(old) + 1 /\ Len(old) \in Nat
        /\ Append(old, m)[Len(old) + 1] = m
        /\ \A k \in DOMAIN old : k \in DOMAIN Append(old, m) /\ Append(old, m)[k] = old[k]
    BY <1>3, <2>2
  <2>4. files'[stream'] = Append(old, m) /\ stream' \in DOMAIN files'
    BY <2>1
  <2>5. \E k \in DOMAIN files'[stream'] : files'[stream'][k] = Len(log) + 1
    <3>1. Len(old) + 1 \in DOMAIN files'[stream']
      BY <2>3, <2>4
    <3> QED
      BY <2>3, <2>4, <3>1 DEF m
  <2>6. ASSUME NEW f \in DOMAIN files
        PROVE  /\ f \in DOMAIN files'
               /\ \A k \in DOMAIN files[f] :
                    k \in DOMAIN files'[f] /\ files'[f][k] = files[f][k]
    <3>1. f \in DOMAIN o.files /\ o.files[f] = files[f] /\ f \in DOMAIN files'
      BY <1>4, <2>1
    <3>2. CASE f = o.stream
      BY <2>1, <2>3, <2>4, <3>1, <3>2 DEF old
    <3>3. CASE f # o.stream
      BY <2>1, <3>1, <3>3
    <3> QED
      BY <3>2, <3>3
  <2> QED
    BY <1>1, <1>4, <1>6, <2>1, <2>4, <2>5, <2>6
<1> QED
  BY <1>5, <1>6

\* While nothing fails, the stream that a write finds or opens is good.
LEMMA FineWriteIsGood ==
  ASSUME SizeInv, Write(Fine), filename = today => stream # NoFile
  PROVE  stream' # NoFile
<1> DEFINE p == ByName(TRUE)
           o == BySize(p, TRUE)
<1>1. today \in Nat /\ \A b : <<today, b>> # NoFile
  BY DEF SizeInv, TypeOK, NoFile, NoDay
<1>2. p.stream # NoFile
  BY <1>1 DEF ByName
<1> HIDE DEF p
<1>3. o.stream # NoFile
  BY <1>1, <1>2 DEF BySize
<1>4. stream' = o.stream
  BY <1>3 DEF Write, Fine, p
<1> QED
  BY <1>3, <1>4

\* The messages of this life went to days and blocks that the sink has not gone
\* back from.
Past ==
  \A i \in DOMAIN log : log[i].life = life /\ log[i].file # NoFile =>
    /\ log[i].file[1] <= filename
    /\ log[i].file[1] = filename => log[i].file[2] <= blocks

Kept ==
  \A i \in DOMAIN log :
    IF log[i].file = NoFile THEN failures > 0
    ELSE /\ log[i].file \in DOMAIN files
         /\ \E k \in DOMAIN files[log[i].file] : files[log[i].file][k] = i

StreamGood == failures = 0 /\ filename # NoDay => stream # NoFile

LogInv == Past /\ BlocksInOrder /\ Kept /\ StreamGood

LEMMA LogTyped ==
  ASSUME SizeInv
  PROVE  /\ Len(log) \in Nat /\ DOMAIN log = 1..Len(log)
         /\ log \in Seq([life : 0..life, file : Names \cup {NoFile}])
         /\ \A i \in DOMAIN log :
              /\ log[i].life \in 0..life
              /\ log[i].file # NoFile => log[i].file \in Names
         /\ filename \in -1..MaxDay /\ today \in Nat /\ blocks \in Nat /\ life \in Nat
<1> DEFINE Entries == [life : 0..life, file : Names \cup {NoFile}]
<1>1. /\ log \in Seq(Entries)
      /\ filename \in -1..MaxDay /\ today \in Nat /\ blocks \in Nat /\ life \in Nat
  BY DEF SizeInv, TypeOK
<1>2. \A x \in Entries : x.life \in 0..life /\ (x.file # NoFile => x.file \in Names)
  OBVIOUS
<1> HIDE DEF Entries
<1>3. Len(log) \in Nat /\ DOMAIN log = 1..Len(log) /\ \A i \in DOMAIN log : log[i] \in Entries
  BY <1>1
<1> QED
  BY <1>1, <1>2, <1>3 DEF Entries

LEMMA WriteKeepsLog ==
  ASSUME SizeInv, LogInv, NEW ok \in Outcomes, Write(ok),
         \/ ok = Fine /\ failures' = failures
         \/ failures \in Nat /\ failures' = failures + 1
  PROVE  LogInv'
<1> DEFINE e == [life |-> life, file |-> stream']
           n == Len(log) + 1
<1>1. /\ filename' = today /\ today' = today /\ life' = life /\ blocks' \in Nat
      /\ filename = today => blocks <= blocks'
      /\ stream' \in {NoFile, <<today, blocks'>>}
      /\ log' = Append(log, e)
      /\ stream' # NoFile =>
           /\ stream' \in DOMAIN files'
           /\ \E k \in DOMAIN files'[stream'] : files'[stream'][k] = n
      /\ \A f \in DOMAIN files :
           /\ f \in DOMAIN files'
           /\ \A k \in DOMAIN files[f] : k \in DOMAIN files'[f] /\ files'[f][k] = files[f][k]
  BY WriteLeaves
<1>2. /\ Len(log) \in Nat /\ DOMAIN log = 1..Len(log)
      /\ \A i \in DOMAIN log : log[i].file # NoFile => log[i].file \in Names
      /\ filename \in -1..MaxDay /\ today \in Nat /\ blocks \in Nat /\ filename <= today
  BY LogTyped DEF SizeInv, RoomAhead
<1>3. /\ DOMAIN log' = DOMAIN log \cup {n} /\ log'[n] = e
      /\ \A i \in DOMAIN log : log'[i] = log[i] /\ i < n
  <2> HIDE DEF e
  <2> QED
    BY <1>1, <1>2, LogTyped
<1>4. e.life = life /\ e.file = stream' /\ (stream' # NoFile => stream'[1] = today /\ stream'[2] = blocks')
  BY <1>1
<1> HIDE DEF e, n
<1>5. Past'
  <2>1. ASSUME NEW i \in DOMAIN log, log[i].life = life, log[i].file # NoFile
        PROVE  /\ log[i].file[1] <= today
               /\ log[i].file[1] = today => log[i].file[2] <= blocks'
    <3>1. /\ log[i].file[1] <= filename
          /\ log[i].file[1] = filename => log[i].file[2] <= blocks
      BY <2>1 DEF LogInv, Past
    <3>2. log[i].file[1] \in Int /\ log[i].file[2] \in Nat
      BY <1>2, <2>1 DEF Names
    <3> QED
      BY <1>1, <1>2, <3>1, <3>2
  <2>2. e.file # NoFile => e.file[1] <= today /\ e.file[2] <= blocks'
    BY <1>1, <1>2, <1>4
  <2> QED
    BY <1>1, <1>3, <2>1, <2>2 DEF Past
<1>6. BlocksInOrder'
  <2> SUFFICES ASSUME NEW i \in DOMAIN log', NEW j \in DOMAIN log',
                      i < j, log'[i].life = log'[j].life,
                      log'[i].file # NoFile, log'[j].file # NoFile,
                      log'[i].file[1] = log'[j].file[1]
               PROVE  log'[i].file[2] <= log'[j].file[2]
    BY DEF BlocksInOrder
  <2>1. i \in DOMAIN log
    BY <1>2, <1>3 DEF n
  <2>2. CASE j \in DOMAIN log
    BY <1>3, <2>1, <2>2 DEF LogInv, BlocksInOrder
  <2>3. CASE j = n
    <3>1. log[i].life = life /\ log[i].file # NoFile /\ log[i].file[1] = today
      BY <1>3, <1>4, <2>1, <2>3
    <3>2. log[i].file[2] <= blocks'
      BY <1>1, <1>3, <1>5, <2>1, <3>1 DEF Past
    <3> QED
      BY <1>3, <1>4, <2>1, <2>3, <3>2
  <2> QED
    BY <1>3, <2>2, <2>3
<1>7. StreamGood'
  <2> SUFFICES ASSUME failures' = 0 PROVE stream' # NoFile
    BY DEF StreamGood
  <2>1. ok = Fine /\ failures = 0
    OBVIOUS
  <2>2. filename = today => stream # NoFile
    BY <1>2, <2>1 DEF LogInv, StreamGood, NoDay
  <2> QED
    BY <2>1, <2>2, FineWriteIsGood
<1>8. Kept'
  <2>1. failures > 0 => failures' > 0
    OBVIOUS
  <2>2. ASSUME NEW i \in DOMAIN log
        PROVE  IF log[i].file = NoFile THEN failures' > 0
               ELSE /\ log[i].file \in DOMAIN files'
                    /\ \E k \in DOMAIN files'[log[i].file] : files'[log[i].file][k] = i
    <3>1. CASE log[i].file = NoFile
      BY <2>1, <3>1 DEF LogInv, Kept
    <3>2. CASE log[i].file # NoFile
      <4>1. log[i].file \in DOMAIN files
        BY <3>2 DEF LogInv, Kept
      <4>2. PICK k \in DOMAIN files[log[i].file] : files[log[i].file][k] = i
        BY <3>2 DEF LogInv, Kept
      <4>3. /\ log[i].file \in DOMAIN files' /\ k \in DOMAIN files'[log[i].file]
            /\ files'[log[i].file][k] = i
        BY <1>1, <4>1, <4>2
      <4> QED
        BY <3>2, <4>3
    <3> QED
      BY <3>1, <3>2
  <2>3. IF e.file = NoFile THEN failures' > 0
        ELSE /\ e.file \in DOMAIN files'
             /\ \E k \in DOMAIN files'[e.file] : files'[e.file][k] = n
    <3>1. CASE stream' = NoFile
      <4>1. ok # Fine \/ failures > 0 \/ failures' > 0
        <5> SUFFICES ASSUME ok = Fine, ~(failures > 0), failures' = failures PROVE FALSE
          OBVIOUS
        <5>1. filename = today => (failures = 0 => stream # NoFile)
          BY <1>2 DEF LogInv, StreamGood, NoDay
        <5>2. failures = 0
          BY DEF SizeInv, TypeOK
        <5> QED
          BY <3>1, <5>1, <5>2, FineWriteIsGood
      <4> QED
        BY <1>4, <2>1, <3>1, <4>1
    <3>2. CASE stream' # NoFile
      BY <1>1, <1>4, <3>2
    <3> QED
      BY <3>1, <3>2
  <2> QED
    BY <1>3, <2>2, <2>3 DEF Kept
<1> QED
  BY <1>5, <1>6, <1>7, <1>8 DEF LogInv

LEMMA LogInvStep == SizeInv /\ LogInv /\ [Next]_vars => LogInv'
<1> SUFFICES ASSUME SizeInv, LogInv, [Next]_vars PROVE LogInv'
  OBVIOUS
<1>0. failures \in Nat
  BY FileSinkAssumption DEF SizeInv, TypeOK
<1>1. CASE Write(Fine) /\ UNCHANGED failures
  <2>1. Fine \in Outcomes
    BY DEF Fine, Outcomes
  <2> QED
    BY <1>1, <2>1, WriteKeepsLog
<1>2. CASE WriteFails
  BY <1>0, <1>2, WriteKeepsLog DEF WriteFails
<1>3. CASE Midnight
  BY <1>3 DEF Midnight, LogInv, Past, BlocksInOrder, Kept, StreamGood
<1>4. CASE Restart
  <2>1. \A i \in DOMAIN log : log[i].life # life'
    BY <1>4, LogTyped DEF Restart
  <2> QED
    BY <1>4, <2>1 DEF Restart, LogInv, Past, BlocksInOrder, Kept, StreamGood
<1>5. CASE UNCHANGED vars
  BY <1>5 DEF vars, LogInv, Past, BlocksInOrder, Kept, StreamGood
<1> QED
  BY <1>1, <1>2, <1>3, <1>4, <1>5 DEF Next

LEMMA Logged == Spec => []LogInv
<1>1. Init => LogInv
  <2>1. Init => DOMAIN log = {}
    BY DEF Init
  <2> QED
    BY <2>1 DEF Init, LogInv, Past, BlocksInOrder, Kept, StreamGood
<1> QED
  BY <1>1, LogInvStep, Sized, PTL DEF Spec

\* In one life of the program the blocks of a day hold its messages in the order
\* of the writes, whatever fails.
THEOREM MessagesAreInOrder == Spec => []BlocksInOrder
<1>1. LogInv => BlocksInOrder
  BY DEF LogInv
<1> QED
  BY <1>1, Logged, PTL

\* A message is in a file for ever, through days and restarts, unless the file
\* system has failed.
THEOREM MessagesAreKept == Spec => []KeptUnlessFailed
<1>1. LogInv => KeptUnlessFailed
  BY DEF LogInv, Kept, KeptUnlessFailed
<1> QED
  BY <1>1, Logged, PTL
=============================================================================
