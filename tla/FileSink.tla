------------------------------ MODULE FileSink ------------------------------
(***************************************************************************)
(* The file sink of lemon (lemon/log/file_sink.cpp): messages go to a file *)
(* named after the day; when it is larger than _maxsize, to a next block   *)
(* of it, which has the block number as a suffix.  Files stay when the     *)
(* program ends, and a new sink appends to the files it finds.             *)
(*                                                                         *)
(* The writer thread of the log factory is the only caller of write.  The  *)
(* name of a file is the pair of its day and its block, block 0 being the  *)
(* file without a suffix, and its size the number of its messages.  A      *)
(* stream that could not be opened, or that failed to write, drops what it *)
(* is given until it is opened again.                                      *)
(***************************************************************************)
EXTENDS Integers, Sequences

CONSTANTS
  MaxSize,      \* _maxsize, in messages
  MaxDay,       \* bound: the last day
  MaxMsg,       \* bound: how many messages are written
  MaxRestarts,  \* bound: how often the program is started again
  MaxFailures   \* bound: how often the file system fails

ASSUME FileSinkAssumption ==
  {MaxSize, MaxDay, MaxMsg, MaxRestarts, MaxFailures} \subseteq Nat

VARIABLES
  today,     \* the day calc_file_name sees
  filename,  \* _filename: the day in it, or NoDay
  blocks,    \* _blocks
  stream,    \* the file _stream writes to, or NoFile
  files,     \* the file system: from the names that exist to their messages
  life,      \* how many times the program was started again
  failures,  \* how many times the file system failed
  log        \* history: of each message, the life, the day and where it went

vars == <<today, filename, blocks, stream, files, life, failures, log>>

NoDay  == -1
NoFile == <<NoDay, 0>>

-----------------------------------------------------------------------------
\* open in append mode: the file exists afterwards, or the stream is bad.
Opened(fs, f) == [g \in DOMAIN fs \cup {f} |-> IF g \in DOMAIN fs THEN fs[g] ELSE <<>>]

Full(fs, f) == f \in DOMAIN fs /\ Len(fs[f]) > MaxSize

\* Mutant: a new day goes on with the block number of the day before.
ByNameKeepsBlock(ok) ==
  LET f == <<today, blocks>> IN
  IF filename = today THEN [blocks |-> blocks, files |-> files, stream |-> stream]
  ELSE [blocks |-> blocks,
        files  |-> IF ok THEN Opened(files, f) ELSE files,
        stream |-> IF ok THEN f ELSE NoFile]

\* First half of openfile: a new name closes the stream and opens that file.
ByName(ok) ==
  LET f == <<today, 0>> IN
  IF filename = today THEN [blocks |-> blocks, files |-> files, stream |-> stream]
  ELSE [blocks |-> 0,
        files  |-> IF ok THEN Opened(files, f) ELSE files,
        stream |-> IF ok THEN f ELSE NoFile]

\* Mutant: the size is not looked at.
BySizeNever(o, ok) == o

\* Mutant: the stream is closed and no file opened.
BySizeCloses(o, ok) ==
  IF ~Full(o.files, <<today, o.blocks>>) THEN o
  ELSE [blocks |-> o.blocks + 1, files |-> o.files, stream |-> NoFile]

\* Mutant: the block number comes round after two.
BySizeRing(o, ok) ==
  LET next == <<today, (o.blocks + 1) % 2>> IN
  IF ~Full(o.files, <<today, o.blocks>>) \/ ~ok THEN o
  ELSE [blocks |-> next[2], files |-> Opened(o.files, next), stream |-> next]

\* Mutant: the next block is opened as if it existed.
BySizeUnopened(o, ok) ==
  IF ~Full(o.files, <<today, o.blocks>>) THEN o
  ELSE [blocks |-> o.blocks + 1, files |-> o.files, stream |-> <<today, o.blocks + 1>>]

\* Second half of openfile: when the file of the block in use is too large, the
\* next block is opened, whatever it holds already.
BySize(o, ok) ==
  LET next == <<today, o.blocks + 1>> IN
  IF ~Full(o.files, <<today, o.blocks>>) THEN o
  ELSE [blocks |-> o.blocks + 1,
        files  |-> IF ok THEN Opened(o.files, next) ELSE o.files,
        stream |-> IF ok THEN next ELSE NoFile]

\* write: openfile, and the message into the stream if that is good.  The calls
\* of open and the output may fail, each of them.
Write(ok) ==
  LET m == Len(log) + 1
      o == BySize(ByName(ok.name), ok.block)
      good == o.stream # NoFile /\ ok.output IN
  /\ Len(log) < MaxMsg
  /\ filename' = today
  /\ blocks' = o.blocks
  /\ files' = IF good THEN [o.files EXCEPT ![o.stream] = Append(@, m)] ELSE o.files
  /\ stream' = IF good THEN o.stream ELSE NoFile
  /\ log' = Append(log, [life |-> life, file |-> IF good THEN o.stream ELSE NoFile])
  /\ UNCHANGED <<today, life>>

Outcomes == [name : BOOLEAN, block : BOOLEAN, output : BOOLEAN]
Fine     == [name |-> TRUE, block |-> TRUE, output |-> TRUE]

\* At midnight the name changes.
Midnight ==
  /\ today < MaxDay
  /\ today' = today + 1
  /\ UNCHANGED <<filename, blocks, stream, files, life, failures, log>>

\* The program ends and is started again: a new file_sink, the same files.
Restart ==
  /\ life < MaxRestarts
  /\ life' = life + 1
  /\ filename' = NoDay
  /\ blocks' = 0
  /\ stream' = NoFile
  /\ UNCHANGED <<today, files, failures, log>>

Init ==
  /\ today = 0
  /\ filename = NoDay
  /\ blocks = 0
  /\ stream = NoFile
  /\ files = [f \in {} |-> <<>>]
  /\ life = 0
  /\ failures = 0
  /\ log = <<>>

WriteFails ==
  /\ failures < MaxFailures
  /\ failures' = failures + 1
  /\ \E ok \in Outcomes \ {Fine} : Write(ok)

Next ==
  \/ Write(Fine) /\ UNCHANGED failures
  \/ WriteFails
  \/ Midnight
  \/ Restart

Spec == Init /\ [][Next]_vars

-----------------------------------------------------------------------------
(* Properties.                                                             *)

Names == (0..MaxDay) \X Nat

\* The type invariant of the sink and the files.
TypeOK ==
  /\ today \in 0..MaxDay /\ filename \in -1..MaxDay /\ blocks \in Nat
  /\ stream \in Names \cup {NoFile}
  /\ DOMAIN files \subseteq Names
  /\ files \in [DOMAIN files -> Seq(1..MaxMsg)]
  /\ stream # NoFile => stream \in DOMAIN files
  /\ life \in 0..MaxRestarts /\ failures \in 0..MaxFailures
  /\ log \in Seq([life : 0..life, file : Names \cup {NoFile}]) /\ Len(log) <= MaxMsg

\* A file exceeds the maximum by one message, and a block with a suffix by one
\* more for every time the program was started again: a new sink does not look
\* at a block before it writes to it.
SizeBound ==
  \A f \in DOMAIN files : Len(files[f]) <= MaxSize + 1 + (IF f[2] = 0 THEN 0 ELSE life)

\* A block is begun only when the one before it is too large.
BlocksFilled ==
  \A f \in DOMAIN files : f[2] > 0 => Full(files, <<f[1], f[2] - 1>>)

\* In one life of the program, the blocks of a day hold its messages in order.
\* A sink started again goes back to the first blocks.
BlocksInOrder ==
  \A i, j \in DOMAIN log :
    /\ i < j /\ log[i].life = log[j].life
    /\ log[i].file # NoFile /\ log[j].file # NoFile
    /\ log[i].file[1] = log[j].file[1]
    => log[i].file[2] <= log[j].file[2]

\* Every message is in a file, unless the file system has failed: then messages
\* are lost until a file is opened again, which may be the next day.
KeptUnlessFailed ==
  \A i \in DOMAIN log :
    IF log[i].file = NoFile THEN failures > 0
    ELSE \E k \in DOMAIN files[log[i].file] : files[log[i].file][k] = i
=============================================================================
