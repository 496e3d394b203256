----------------------------- MODULE BlockChain -----------------------------
(***************************************************************************)
(* The chain of blocks that holds a packed message of iolua                *)
(* (iolua/ltask/serializer.c): write_block, through which seri_pack adds   *)
(* bytes, and read_block, through which seri_unpack takes them out again   *)
(* and gives every block back to the allocator as it leaves it.            *)
(*                                                                         *)
(* A block is named by the number of bytes that the blocks before it hold: *)
(* the head is 0, the next of block b is b + BlockSize, and that is NULL   *)
(* where no such block was allocated.  Each turn of the loops of wb_push   *)
(* and rb_read is a step.  cur, ptr and len are the fields current, ptr    *)
(* and len of the write_block first and of the read_block afterwards.      *)
(*                                                                         *)
(* The first Header bytes of the head hold the length of the whole message *)
(* as an int, the variable header.  Messages are shorter than an int can   *)
(* count.                                                                  *)
(***************************************************************************)
EXTENDS Integers, Sequences

CONSTANTS
  BlockSize,   \* BLOCK_SIZE
  Header,      \* sizeof(int)
  Byte,        \* what a byte may be
  Junk         \* what memory holds that was never written, or has been freed

ASSUME ChainAssumption ==
  /\ BlockSize \in Nat /\ Header \in 1..BlockSize - 1
  /\ Junk \notin Byte

VARIABLES
  phase,    \* "write", "closed", "read", "loop" (in rb_read), "done" or "failed"
  mem,      \* the blocks that were allocated, and their bytes
  freed,    \* those that were freed
  header,   \* the int at the start of the head
  cur,      \* current
  ptr,      \* ptr
  len,      \* len
  sent,     \* what wb_push was called with so far, the source of its memcpy
  got,      \* what rb_read has copied or pointed to so far
  want      \* sz in the loop of rb_read: what this call has still to copy

chainVars == <<phase, mem, freed, header, cur, ptr, len, sent, got, want>>

Offsets == 0..BlockSize - 1

Fresh == [j \in Offsets |-> Junk]

-----------------------------------------------------------------------------
(* The writer.                                                             *)

\* The call of wb_push has copied all its bytes.
Pushed == len = Header + Len(sent)

\* memcpy of n bytes of s, from the one the writer has come to, to offset p.
Fill(block, p, n, s) ==
  [j \in Offsets |-> IF p <= j /\ j < p + n THEN s[len - Header + j - p + 1] ELSE block[j]]

\* Mutant: the test is off by one, and memcpy runs over the end of the buffer.
RoomOver(p, sz) == p <= BlockSize - sz + 1

\* The bytes that are left fit behind offset p.
Room(p, sz) == p <= BlockSize - sz

\* wb_push up to its end or to the goto, which finds the block full: a new block
\* where the last one is full, then what fits of the sz bytes that are left.
WbTurn(s) ==
  LET new == ptr = BlockSize
      b == IF new THEN cur + BlockSize ELSE cur
      p == IF new THEN 0 ELSE ptr
      sz == Header + Len(s) - len
      n == IF Room(p, sz) THEN sz ELSE BlockSize - p
  IN /\ cur' = b /\ ptr' = p + n /\ len' = len + n
     /\ sent' = s
     /\ mem' = [x \in DOMAIN mem \cup {b} |->
                  IF x = b THEN Fill(IF new THEN Fresh ELSE mem[b], p, n, s) ELSE mem[x]]
     /\ UNCHANGED <<phase, freed, header, got, want>>

WbPush(bs) == phase = "write" /\ Pushed /\ WbTurn(sent \o bs)

WbAgain == phase = "write" /\ ~Pushed /\ WbTurn(sent)

\* wb_close pushes the length once more, to where wb_init had put it.
WbClose ==
  /\ phase = "write" /\ Pushed
  /\ phase' = "closed"
  /\ header' = len
  /\ UNCHANGED <<mem, freed, cur, ptr, len, sent, got, want>>

\* Mutant: the blocks before the one that is written to are not freed.
FromCurrent == {b \in DOMAIN mem : cur <= b}

\* What wb_free walks over, from head on.
FromHead == DOMAIN mem

\* wb_free, before seri_pack raises an error.
WbFree ==
  /\ phase = "write" /\ Pushed
  /\ phase' = "failed"
  /\ freed' = FromHead
  /\ UNCHANGED <<mem, header, cur, ptr, len, sent, got, want>>

-----------------------------------------------------------------------------
(* The reader.                                                             *)

\* The first block, behind the length.
RbInit ==
  /\ phase = "closed"
  /\ phase' = "read"
  /\ cur' = 0 /\ ptr' = Header /\ len' = header - Header
  /\ UNCHANGED <<mem, freed, header, sent, got, want>>

\* n bytes from offset p of block b.
Bytes(b, p, n) ==
  [i \in 1..n |-> IF b \in DOMAIN mem \ freed THEN mem[b][p + i - 1] ELSE Junk]

\* rb_read up to its return or its loop.  A block that was read to its end is
\* left, for one that may be NULL when nothing is to be read.
RbRead(sz) ==
  LET skip == ptr = BlockSize
      b == IF skip THEN cur + BlockSize ELSE cur
      p == IF skip THEN 0 ELSE ptr
      n == IF sz <= BlockSize - p THEN sz ELSE BlockSize - p
  IN /\ phase = "read" /\ sz <= len
     /\ freed' = IF skip THEN freed \cup {cur} ELSE freed
     /\ got' = got \o Bytes(b, p, n)
     /\ cur' = b /\ ptr' = p + n /\ len' = len - n /\ want' = sz - n
     /\ phase' = IF n = sz THEN "read" ELSE "loop"
     /\ UNCHANGED <<mem, header, sent>>

\* The bytes that are wanted do not fill the next block.
LastPart == want < BlockSize

\* A turn of the loop of rb_read: the block is left, and what is still wanted is
\* copied from the next one, or all that this holds.
RbAgain ==
  LET b == cur + BlockSize
      n == IF LastPart THEN want ELSE BlockSize
  IN /\ phase = "loop"
     /\ freed' = freed \cup {cur}
     /\ got' = got \o Bytes(b, 0, n)
     /\ cur' = b /\ len' = len - n /\ want' = want - n
     /\ phase' = IF LastPart THEN "read" ELSE "loop"
     /\ ptr' = IF LastPart THEN want ELSE ptr
     /\ UNCHANGED <<mem, header, sent>>

\* rb_close frees what is left from current on.
RbClose ==
  /\ phase = "read"
  /\ phase' = "done"
  /\ freed' = freed \cup {b \in DOMAIN mem : cur <= b}
  /\ UNCHANGED <<mem, header, cur, ptr, len, sent, got, want>>

-----------------------------------------------------------------------------
\* wb_init: a block that begins with the length, which is 0 so far.
ChainInit ==
  /\ phase = "write"
  /\ mem = [b \in {0} |-> Fresh] /\ freed = {}
  /\ header = 0
  /\ cur = 0 /\ ptr = Header /\ len = Header
  /\ sent = <<>> /\ got = <<>> /\ want = 0

\* Any sequences of pushes and of reads.
ChainNext ==
  \/ \E bs \in Seq(Byte) \ {<<>>} : WbPush(bs)
  \/ WbAgain \/ WbClose \/ WbFree
  \/ RbInit \/ RbAgain \/ RbClose
  \/ \E sz \in Nat : RbRead(sz)

ChainSpec == ChainInit /\ [][ChainNext]_chainVars

-----------------------------------------------------------------------------
(* Properties.                                                             *)

\* The type invariant: both sides stay inside their blocks.
ChainTypeOK ==
  /\ phase \in {"write", "closed", "read", "loop", "done", "failed"}
  /\ DOMAIN mem \subseteq Nat /\ \A b \in DOMAIN mem : mem[b] \in [Offsets -> Byte \cup {Junk}]
  /\ freed \subseteq DOMAIN mem
  /\ header \in Nat /\ cur \in Nat /\ ptr \in 0..BlockSize /\ len \in Nat
  /\ sent \in Seq(Byte) /\ got \in Seq(Byte \cup {Junk}) /\ want \in Nat

\* The reads return the bytes of the pushes, each once and in order, whatever the
\* sizes of both and wherever the blocks end: none is read from a block that is
\* missing or was freed, or from where nothing was written.
Exact ==
  /\ Len(got) <= Len(sent) /\ \A i \in 1..Len(got) : got[i] = sent[i]
  /\ phase \in {"read", "loop"} => Len(got) + len = Len(sent)

\* A reader has freed the blocks behind it and no other, and does not leave a
\* block that is not there; after wb_free or rb_close none is left.
BlocksFreed ==
  /\ phase \in {"write", "closed"} => freed = {}
  /\ phase \in {"read", "loop"} => freed = {b \in DOMAIN mem : b < cur}
  /\ phase = "loop" \/ (phase = "read" /\ ptr = BlockSize) => cur \in DOMAIN mem
  /\ phase \in {"done", "failed"} => freed = DOMAIN mem
=============================================================================
