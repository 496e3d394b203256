-------------------------- MODULE BlockChainProofs --------------------------
(***************************************************************************)
(* Proofs about BlockChain, for every size of a block and of an int and    *)
(* every sequence of pushes and reads: a reader gets the bytes that were   *)
(* written, and every block is freed once.                                 *)
(***************************************************************************)
EXTENDS BlockChain, SequenceTheorems, TLAPS

\* How many bytes of the message the blocks hold, the length included.
Written == IF phase \in {"write", "failed"} THEN len ELSE header

\* Blocks do not overlap, and each has a next one if the message goes on.
Linked ==
  /\ 0 \in DOMAIN mem
  /\ \A b, c \in DOMAIN mem : b < c => b + BlockSize <= c
  /\ \A b \in DOMAIN mem :
       b < Written /\ (b + BlockSize < Written => b + BlockSize \in DOMAIN mem)

\* Behind the length every block holds its part of what was sent.
Holds ==
  \A b \in DOMAIN mem : \A j \in Offsets :
    Header <= b + j /\ b + j < Written => mem[b][j] = sent[b + j - Header + 1]

\* The writer stands at the end of what is written, in the last block.
Writing ==
  phase = "write" =>
    /\ cur \in DOMAIN mem /\ (\A b \in DOMAIN mem : b <= cur)
    /\ cur + ptr = len /\ 1 <= ptr
    /\ Header <= len /\ len <= Header + Len(sent)
    /\ got = <<>>

\* The reader stands behind what it got; where it left the last block there is
\* nothing more to read.
Reading ==
  /\ phase \in {"closed", "read", "loop"} => header = Header + Len(sent)
  /\ phase = "closed" => got = <<>>
  /\ phase = "read" =>
       /\ cur + ptr = Header + Len(got)
       /\ cur \notin DOMAIN mem => ptr = 0 /\ len = 0
  /\ phase = "loop" => cur + BlockSize = Header + Len(got) /\ want <= len

IInv ==
  ChainTypeOK /\ Exact /\ BlocksFreed /\ Linked /\ Holds /\ Writing /\ Reading

-----------------------------------------------------------------------------
(* The writer.                                                             *)

\* A turn of wb_push that has something to write keeps the invariant.
LEMMA TurnKeeps ==
  ASSUME IInv, phase = "write",
         NEW s \in Seq(Byte), len < Header + Len(s),
         Len(sent) <= Len(s), \A i \in 1..Len(sent) : s[i] = sent[i],
         WbTurn(s)
  PROVE  IInv'
<1>0. /\ BlockSize \in Nat /\ Header \in Nat /\ 1 <= Header /\ Header < BlockSize
      /\ Len(s) \in Nat /\ sent \in Seq(Byte) /\ Len(sent) \in Nat
  BY ChainAssumption DEF ChainAssumption, IInv, ChainTypeOK
<1> DEFINE new == ptr = BlockSize
           b == IF new THEN cur + BlockSize ELSE cur
           p == IF new THEN 0 ELSE ptr
           sz == Header + Len(s) - len
           n == IF Room(p, sz) THEN sz ELSE BlockSize - p
           old == IF new THEN Fresh ELSE mem[b]
<1>1. /\ cur' = b /\ ptr' = p + n /\ len' = len + n /\ sent' = s
      /\ mem' = [x \in DOMAIN mem \cup {b} |-> IF x = b THEN Fill(old, p, n, s) ELSE mem[x]]
      /\ UNCHANGED <<phase, freed, header, got, want>>
  BY DEF WbTurn
<1>2. /\ cur \in DOMAIN mem /\ \A x \in DOMAIN mem : x <= cur
      /\ cur + ptr = len /\ 1 <= ptr /\ Header <= len /\ got = <<>>
  BY DEF IInv, Writing
<1>3. /\ cur \in Nat /\ ptr \in 0..BlockSize /\ len \in Nat /\ header \in Nat /\ want \in Nat
      /\ DOMAIN mem \subseteq Nat /\ \A x \in DOMAIN mem : mem[x] \in [Offsets -> Byte \cup {Junk}]
      /\ freed = {}
  BY DEF IInv, ChainTypeOK, BlocksFreed
<1>4. /\ sz \in Nat /\ n \in Nat /\ 1 <= n /\ n <= sz
      /\ p \in 0..BlockSize - 1 /\ p + n <= BlockSize
      /\ n <= Header + Len(s) - len
      /\ b \in Nat /\ b + p = len /\ (new => b = len /\ b = cur + BlockSize) /\ (~new => b = cur)
  <2>1. p \in 0..BlockSize - 1 /\ b \in Nat /\ b + p = len /\ (new => b = len /\ b = cur + BlockSize)
       /\ (~new => b = cur)
    BY <1>0, <1>2, <1>3
  <2>2. sz \in Nat /\ 1 <= sz /\ sz = Header + Len(s) - len
    BY <1>0, <1>2, <1>3
  <2>3. CASE Room(p, sz)
    <3>1. p + sz <= BlockSize
      BY <1>0, <2>1, <2>2, <2>3 DEF Room
    <3>2. n = sz
      BY <2>3
    <3> HIDE DEF p, sz, b, n
    <3> QED
      BY <3>1, <3>2, <1>0, <1>3, <2>1, <2>2
  <2>4. CASE ~Room(p, sz)
    <3>1. ~(p <= BlockSize - sz)
      BY <2>4 DEF Room
    <3>2. n = BlockSize - p
      BY <2>4
    <3> HIDE DEF p, sz, b, n
    <3> QED
      BY <3>1, <3>2, <1>0, <1>3, <2>1, <2>2
  <2> HIDE DEF p, sz, b, n
  <2> QED
    BY <2>1, <2>2, <2>3, <2>4
<1> HIDE DEF new, b, p, sz, n, old
<1> DEFINE D == DOMAIN mem
<1>4a. D \subseteq Nat /\ \A x \in D : x \in Nat
  BY <1>3
<1>5. DOMAIN mem' = DOMAIN mem \cup {b}
  BY <1>1
<1>6. \A x \in DOMAIN mem : x < b => mem'[x] = mem[x]
  BY <1>1, <1>0, <1>3, <1>4
<1>7. mem'[b] = Fill(old, p, n, s)
  BY <1>1, <1>5
<1>8. \A x \in DOMAIN mem : x = b \/ x + BlockSize <= b
  <2>1. \A x \in D : x = cur \/ x + BlockSize <= cur
    BY <1>2, <1>3 DEF IInv, Linked
  <2> HIDE DEF D
  <2>2. \A x \in D : x = b \/ x + BlockSize <= b
    BY <2>1, <1>4a, <1>0, <1>3, <1>4
  <2> QED
    BY <2>2 DEF D
<1>9. old \in [Offsets -> Byte \cup {Junk}]
  BY <1>2, <1>0, <1>3, <1>4 DEF Fresh, old
<1>10. \A j \in Offsets : p <= j /\ j < p + n => mem'[b][j] = s[len - Header + j - p + 1]
  BY <1>7 DEF Fill
<1>11. \A j \in Offsets : ~(p <= j /\ j < p + n) => mem'[b][j] = old[j]
  BY <1>7 DEF Fill
<1>12. \A j \in Offsets : p <= j /\ j < p + n => s[len - Header + j - p + 1] \in Byte
  <2> SUFFICES ASSUME NEW j \in Offsets, p <= j, j < p + n
               PROVE  s[len - Header + j - p + 1] \in Byte
    OBVIOUS
  <2>1. len - Header + j - p + 1 \in 1..Len(s)
    BY <1>2, <1>0, <1>3, <1>4 DEF Offsets
  <2> QED
    BY <2>1
<1>13. mem'[b] \in [Offsets -> Byte \cup {Junk}]
  <2>1. mem'[b] = [j \in Offsets |-> mem'[b][j]]
    BY <1>7 DEF Fill
  <2>2. \A j \in Offsets : mem'[b][j] \in Byte \cup {Junk}
    BY <1>9, <1>10, <1>11, <1>12
  <2> QED
    BY <2>1, <2>2
<1>14. ChainTypeOK'
  <2>1. \A x \in DOMAIN mem' : mem'[x] \in [Offsets -> Byte \cup {Junk}]
    BY <1>1, <1>0, <1>3, <1>5, <1>13
  <2>2. ptr' \in 0..BlockSize /\ len' \in Nat /\ cur' \in Nat
    BY <1>1, <1>0, <1>3, <1>4
  <2> QED
    BY <2>1, <2>2, <1>1, <1>0, <1>3, <1>4, <1>5 DEF IInv, ChainTypeOK
<1>15. Exact'
  BY <1>1, <1>2 DEF Exact
<1>16. BlocksFreed'
  BY <1>1, <1>0, <1>3 DEF BlocksFreed
<1>17. Written = len /\ Written' = len + n
  BY <1>1 DEF Written
<1>18. Linked'
  <2>1. \A x, y \in DOMAIN mem' : x < y => x + BlockSize <= y
    BY <1>0, <1>3, <1>4, <1>5, <1>8 DEF IInv, Linked
  <2>2. \A x \in DOMAIN mem' : x < Written'
    <3>1. \A x \in D : x < len
      BY <1>17 DEF IInv, Linked
    <3>2. DOMAIN mem' = D \cup {b}
      BY <1>5
    <3>3. b < len + n /\ len < len + n /\ len + n \in Nat /\ len \in Nat
      BY <1>0, <1>3, <1>4
    <3> HIDE DEF D
    <3>4. \A x \in D \cup {b} : x < len + n
      BY <3>1, <3>3, <1>4a
    <3> QED
      BY <3>2, <3>4, <1>17
  <2>3. ASSUME NEW x \in DOMAIN mem', x + BlockSize < Written'
        PROVE  x + BlockSize \in DOMAIN mem'
    <3>1. len + n <= b + BlockSize
      BY <1>0, <1>4
    <3>2. x + BlockSize < len + n
      BY <2>3, <1>17
    <3>3. x # b
      <4>1. len \in Nat /\ b \in Nat /\ n \in Nat
        BY <1>3, <1>4
      <4> QED
        BY <3>1, <3>2, <4>1, <1>0
    <3>4. x \in DOMAIN mem /\ x + BlockSize <= b
      BY <3>3, <1>5, <1>8
    <3>5. CASE x + BlockSize = b
      BY <3>5, <1>5
    <3>6. CASE x + BlockSize < b
      <4>1. b <= len
        BY <1>3, <1>4
      <4>2. x \in Nat /\ b \in Nat /\ len \in Nat
        BY <3>4, <1>3, <1>4, <1>4a
      <4>3. x + BlockSize < len
        BY <3>6, <4>1, <4>2, <1>0
      <4>4. x + BlockSize \in DOMAIN mem
        BY <3>4, <4>3, <1>17 DEF IInv, Linked
      <4> QED
        BY <4>4, <1>5
    <3>7. x + BlockSize = b \/ x + BlockSize < b
      <4>1. x \in Nat
        BY <3>4, <1>4a
      <4>2. b \in Nat /\ BlockSize \in Nat /\ x + BlockSize <= b
        BY <3>4, <1>0, <1>4
      <4> QED
        BY <4>1, <4>2
    <3> QED
      BY <3>5, <3>6, <3>7
  <2> QED
    BY <2>1, <2>2, <2>3, <1>5 DEF IInv, Linked
<1>19. Holds'
  <2> SUFFICES ASSUME NEW x \in DOMAIN mem', NEW j \in Offsets,
                      Header <= x + j, x + j < len + n
               PROVE  mem'[x][j] = s[x + j - Header + 1]
    BY <1>1, <1>17 DEF Holds, Offsets
  <2>1. ASSUME x \in DOMAIN mem, x + j < len
        PROVE  mem[x][j] = s[x + j - Header + 1]
    <3>1. mem[x][j] = sent[x + j - Header + 1]
      BY <2>1, <1>17 DEF IInv, Holds
    <3>2. x + j - Header + 1 \in 1..Len(sent)
      BY <2>1, <1>0, <1>3 DEF IInv, Writing, ChainTypeOK, Offsets
    <3> QED
      BY <3>1, <3>2
  <2>2. CASE x # b
    <3>1. x \in DOMAIN mem /\ x \in Nat /\ x + BlockSize <= b
      BY <2>2, <1>4a, <1>5, <1>8
    <3>2. x < b /\ x + j < len
      BY <3>1, <1>0, <1>3, <1>4 DEF Offsets
    <3> QED
      BY <3>1, <3>2, <2>1, <1>6
  <2>3. CASE x = b /\ p <= j /\ j < p + n
    BY <2>3, <1>0, <1>3, <1>4, <1>10 DEF Offsets
  <2>4. CASE x = b /\ j < p
    <3>1. ~new /\ b \in DOMAIN mem /\ old = mem[b]
      BY <2>4, <1>2, <1>4 DEF Offsets, p, old
    <3> QED
      BY <3>1, <2>1, <2>4, <1>0, <1>3, <1>4, <1>11 DEF Offsets
  <2> QED
    BY <2>2, <2>3, <2>4, <1>0, <1>3, <1>4 DEF Offsets
<1>20. Writing'
  <2>1. \A x \in DOMAIN mem' : x <= b
    <3> SUFFICES ASSUME NEW x \in DOMAIN mem, x # b
                 PROVE  x <= b
      BY <1>4, <1>5
    <3>1. x \in Nat /\ x + BlockSize <= b
      BY <1>4a, <1>8
    <3> QED
      BY <3>1, <1>0, <1>4
  <2> QED
    BY <2>1, <1>1, <1>2, <1>0, <1>3, <1>4, <1>5 DEF Writing
<1>21. Reading'
  BY <1>1 DEF Reading
<1> QED
  BY <1>14, <1>15, <1>16, <1>18, <1>19, <1>20, <1>21 DEF IInv

\* The other steps of the writer keep it.
LEMMA WriterKeeps ==
  ASSUME IInv,
         (\E bs \in Seq(Byte) \ {<<>>} : WbPush(bs)) \/ WbAgain \/ WbClose \/ WbFree
  PROVE  IInv'
<1>1. ASSUME NEW bs \in Seq(Byte) \ {<<>>}, WbPush(bs)
      PROVE  IInv'
  <2>1. sent \in Seq(Byte) /\ len = Header + Len(sent) /\ phase = "write" /\ WbTurn(sent \o bs)
    BY <1>1 DEF WbPush, Pushed, IInv, ChainTypeOK
  <2>2. bs \in Seq(Byte) /\ Len(bs) \in Nat /\ Len(bs) # 0
    BY EmptySeq
  <2>3. /\ sent \o bs \in Seq(Byte) /\ Len(sent \o bs) = Len(sent) + Len(bs)
        /\ \A i \in 1..Len(sent) : (sent \o bs)[i] = sent[i]
    BY <2>1, <2>2, ConcatProperties
  <2>4. Len(sent) <= Len(sent \o bs) /\ len < Header + Len(sent \o bs)
    BY <2>1, <2>2, <2>3, ChainAssumption DEF ChainAssumption
  <2> QED
    BY <2>1, <2>3, <2>4, TurnKeeps
<1>2. CASE WbAgain
  <2>1. sent \in Seq(Byte) /\ phase = "write" /\ len # Header + Len(sent) /\ WbTurn(sent)
    BY <1>2 DEF WbAgain, Pushed, IInv, ChainTypeOK
  <2>2. len <= Header + Len(sent) /\ len \in Nat /\ Header \in Nat /\ Len(sent) \in Nat
    BY <2>1, ChainAssumption DEF ChainAssumption, IInv, Writing, ChainTypeOK
  <2>3. len < Header + Len(sent) /\ Len(sent) <= Len(sent)
    BY <2>1, <2>2
  <2> QED
    BY <2>1, <2>3, TurnKeeps
<1>3. CASE WbClose
  <2>1. /\ phase = "write" /\ phase' = "closed" /\ header' = len /\ len = Header + Len(sent)
        /\ UNCHANGED <<mem, freed, cur, ptr, len, sent, got, want>>
    BY <1>3 DEF WbClose, Pushed
  <2>2. Written' = Written
    BY <2>1 DEF Written
  <2>3. ChainTypeOK' /\ Exact' /\ BlocksFreed' /\ Writing' /\ Reading'
    BY <2>1 DEF IInv, ChainTypeOK, Exact, BlocksFreed, Writing, Reading
  <2>4. Linked' /\ Holds'
    BY <2>1, <2>2 DEF IInv, Linked, Holds
  <2> QED
    BY <2>3, <2>4 DEF IInv
<1>4. CASE WbFree
  <2>1. /\ phase = "write" /\ phase' = "failed" /\ freed' = DOMAIN mem
        /\ UNCHANGED <<mem, header, cur, ptr, len, sent, got, want>>
    BY <1>4 DEF WbFree, FromHead
  <2>2. Written' = Written
    BY <2>1 DEF Written
  <2>3. ChainTypeOK' /\ Exact' /\ BlocksFreed' /\ Writing' /\ Reading'
    BY <2>1 DEF IInv, ChainTypeOK, Exact, BlocksFreed, Writing, Reading
  <2>4. Linked' /\ Holds'
    BY <2>1, <2>2 DEF IInv, Linked, Holds
  <2> QED
    BY <2>3, <2>4 DEF IInv
<1> QED
  BY <1>1, <1>2, <1>3, <1>4

-----------------------------------------------------------------------------
(* The reader.                                                             *)

\* What rb_read copies from a block that holds the next bytes is what was sent.
LEMMA Copied ==
  ASSUME IInv, phase \in {"read", "loop"},
         NEW b \in Nat, NEW p \in Nat, NEW n \in Nat,
         p + n <= BlockSize, b + p = Header + Len(got), n <= len,
         n > 0 => b \in DOMAIN mem /\ cur <= b
  PROVE  /\ got \o Bytes(b, p, n) \in Seq(Byte \cup {Junk})
         /\ Len(got \o Bytes(b, p, n)) = Len(got) + n
         /\ \A i \in 1..Len(got) + n : (got \o Bytes(b, p, n))[i] = sent[i]
         /\ Len(got) + n <= Len(sent)
<1> DEFINE new == Bytes(b, p, n)
<1>0. /\ BlockSize \in Nat /\ Header \in Nat /\ 1 <= Header /\ Header < BlockSize
      /\ sent \in Seq(Byte) /\ got \in Seq(Byte \cup {Junk})
      /\ Len(sent) \in Nat /\ Len(got) \in Nat /\ len \in Nat
  BY ChainAssumption DEF ChainAssumption, IInv, ChainTypeOK
<1>1. /\ Len(got) + len = Len(sent) /\ \A i \in 1..Len(got) : got[i] = sent[i]
      /\ Written = Header + Len(sent)
  BY DEF IInv, Exact, Reading, Written
<1>2. Len(got) + n <= Len(sent)
  BY <1>0, <1>1
<1>3. ASSUME NEW k \in 1..n
      PROVE  new[k] = sent[Len(got) + k] /\ new[k] \in Byte
  <2>1. b \in DOMAIN mem /\ b \notin freed
    BY DEF IInv, BlocksFreed, ChainTypeOK
  <2>2. new[k] = mem[b][p + k - 1]
    BY <2>1 DEF Bytes
  <2>3. p + k - 1 \in Offsets
    BY <1>0 DEF Offsets
  <2>4. Header <= b + (p + k - 1) /\ b + (p + k - 1) < Written
    BY <1>0, <1>1, <1>2
  <2>5. mem[b][p + k - 1] = sent[b + (p + k - 1) - Header + 1]
    BY <2>1, <2>3, <2>4 DEF IInv, Holds
  <2>6. b + (p + k - 1) - Header + 1 = Len(got) + k
    BY <1>0
  <2>7. Len(got) + k \in 1..Len(sent)
    BY <1>0, <1>2
  <2> QED
    BY <1>0, <2>2, <2>5, <2>6, <2>7
<1>4. new \in Seq(Byte \cup {Junk}) /\ Len(new) = n
  <2>1. new = [i \in 1..n |-> new[i]]
    BY DEF Bytes
  <2>2. new \in [1..n -> Byte \cup {Junk}]
    BY <2>1, <1>3
  <2> QED
    BY <2>2, <2>1
<1> HIDE DEF new
<1>5. /\ got \o new \in Seq(Byte \cup {Junk}) /\ Len(got \o new) = Len(got) + n
      /\ \A i \in 1..Len(got) + n :
           (got \o new)[i] = IF i <= Len(got) THEN got[i] ELSE new[i - Len(got)]
  BY <1>0, <1>4, ConcatProperties
<1>6. ASSUME NEW i \in 1..Len(got) + n
      PROVE  (got \o new)[i] = sent[i]
  <2>1. CASE i <= Len(got)
    BY <2>1, <1>0, <1>1, <1>5
  <2>2. CASE ~(i <= Len(got))
    <3>1. i - Len(got) \in 1..n /\ Len(got) + (i - Len(got)) = i
      BY <2>2, <1>0
    <3> QED
      BY <2>2, <3>1, <1>3, <1>5
  <2> QED
    BY <2>1, <2>2
<1> QED
  BY <1>2, <1>5, <1>6 DEF new

\* A reader that leaves a block for the next one has freed the ones behind it, and
\* finds a block there as long as something is left to read.
LEMMA Left ==
  ASSUME IInv, phase \in {"read", "loop"}, cur \in DOMAIN mem
  PROVE  /\ freed \cup {cur} = {x \in DOMAIN mem : x < cur + BlockSize}
         /\ cur + BlockSize < Header + Len(sent) => cur + BlockSize \in DOMAIN mem
<1>1. /\ BlockSize \in Nat /\ 1 <= BlockSize /\ cur \in Nat
      /\ freed = {x \in DOMAIN mem : x < cur} /\ \A x \in DOMAIN mem : x \in Nat
      /\ header = Header + Len(sent)
  BY ChainAssumption DEF ChainAssumption, IInv, ChainTypeOK, BlocksFreed, Reading
<1>2. \A x \in DOMAIN mem : cur < x => cur + BlockSize <= x
  BY DEF IInv, Linked
<1>3. ASSUME NEW x \in DOMAIN mem
      PROVE  x < cur + BlockSize <=> x < cur \/ x = cur
  <2>1. x \in Nat /\ (cur < x => cur + BlockSize <= x)
    BY <1>1, <1>2
  <2> QED
    BY <2>1, <1>1
<1>4. freed \cup {cur} = {x \in DOMAIN mem : x < cur + BlockSize}
  BY <1>1, <1>3
<1> QED
  BY <1>1, <1>4 DEF IInv, Linked, Written

\* A step that reads n bytes from offset p of block b, and stands behind them
\* then, keeps the invariant.
LEMMA AdvanceKeeps ==
  ASSUME IInv, phase \in {"read", "loop"},
         NEW b \in Nat, NEW p \in Nat, NEW n \in Nat,
         p + n <= BlockSize, b + p = Header + Len(got), n <= len,
         n > 0 => b \in DOMAIN mem /\ cur <= b,
         cur' = b, len' = len - n, got' = got \o Bytes(b, p, n),
         freed' = {x \in DOMAIN mem : x < b},
         ptr' \in 0..BlockSize, want' \in Nat,
         \/ phase' = "read" /\ ptr' = p + n /\ (b \notin DOMAIN mem => ptr' = 0 /\ len' = 0)
         \/ phase' = "loop" /\ p + n = BlockSize /\ b \in DOMAIN mem /\ want' <= len',
         UNCHANGED <<mem, header, sent>>
  PROVE  IInv'
<1>0. /\ BlockSize \in Nat /\ Header \in Nat /\ 1 <= Header /\ Header < BlockSize
      /\ Len(sent) \in Nat /\ Len(got) \in Nat /\ len \in Nat
  BY ChainAssumption DEF ChainAssumption, IInv, ChainTypeOK
<1>1. Len(got) + len = Len(sent) /\ header = Header + Len(sent)
  BY DEF IInv, Exact, Reading
<1>2. /\ got' \in Seq(Byte \cup {Junk}) /\ Len(got') = Len(got) + n
      /\ \A i \in 1..Len(got) + n : got'[i] = sent[i]
      /\ Len(got) + n <= Len(sent)
  BY Copied
<1> DEFINE L == Len(got)
           M == Len(got')
<1>3. len' \in Nat /\ M + len' = Len(sent) /\ b + p + n = Header + M
  <2>1. L + len = Len(sent) /\ M = L + n /\ L \in Nat /\ b + p = Header + L
    BY <1>0, <1>1, <1>2
  <2> HIDE DEF L, M
  <2>2. len - n \in Nat /\ L + n + (len - n) = L + len
    BY <2>1, <1>0
  <2>3. b + p + n = Header + (L + n)
    BY <2>1, <1>0
  <2> QED
    BY <2>1, <2>2, <2>3
<1>4. ChainTypeOK'
  BY <1>2, <1>3 DEF IInv, ChainTypeOK
<1>5. Exact'
  BY <1>2, <1>3 DEF Exact
<1>6. BlocksFreed'
  <2>1. phase' = "read" /\ ptr' = BlockSize => cur' \in DOMAIN mem'
    BY <1>0
  <2> QED
    BY <2>1 DEF BlocksFreed
<1>7. Written' = Written
  BY DEF Written
<1>8. Linked' /\ Holds'
  BY <1>7 DEF IInv, Linked, Holds
<1>9. Writing'
  BY DEF Writing
<1>10. Reading'
  <2>1. phase' = "read" => cur' + ptr' = Header + Len(got')
    BY <1>0, <1>3
  <2>2. ASSUME phase' = "loop"
        PROVE  cur' + BlockSize = Header + Len(got')
    <3>1. p + n = BlockSize
      BY <2>2
    <3>2. b + BlockSize = b + p + n
      BY <3>1
    <3> QED
      BY <3>2, <1>3
  <2> QED
    BY <2>1, <2>2, <1>1 DEF Reading
<1> QED
  BY <1>4, <1>5, <1>6, <1>8, <1>9, <1>10 DEF IInv

\* The steps of the reader keep the invariant.
LEMMA ReaderKeeps ==
  ASSUME IInv,
         RbInit \/ (\E sz \in Nat : RbRead(sz)) \/ RbAgain \/ RbClose
  PROVE  IInv'
<1>0. /\ BlockSize \in Nat /\ Header \in Nat /\ 1 <= Header /\ Header < BlockSize
      /\ sent \in Seq(Byte) /\ Len(sent) \in Nat /\ Len(got) \in Nat
      /\ cur \in Nat /\ ptr \in 0..BlockSize /\ len \in Nat /\ want \in Nat
  BY ChainAssumption DEF ChainAssumption, IInv, ChainTypeOK
<1>1. CASE RbInit
  <2>1. /\ phase = "closed" /\ phase' = "read" /\ cur' = 0 /\ ptr' = Header
        /\ len' = header - Header
        /\ UNCHANGED <<mem, freed, header, sent, got, want>>
    BY <1>1 DEF RbInit
  <2>2. header = Header + Len(sent) /\ got = <<>> /\ freed = {} /\ 0 \in DOMAIN mem
    BY <2>1 DEF IInv, Reading, BlocksFreed, Linked
  <2>3. len' = Len(sent) /\ ptr' \in 0..BlockSize /\ ptr' # BlockSize /\ Len(got) = 0
    BY <1>0, <2>1, <2>2
  <2>4. ChainTypeOK'
    BY <1>0, <2>1, <2>3 DEF IInv, ChainTypeOK
  <2>5. Exact'
    BY <1>0, <2>1, <2>2, <2>3 DEF Exact
  <2>6. BlocksFreed'
    <3>1. {x \in DOMAIN mem : x < 0} = {}
      BY DEF IInv, ChainTypeOK
    <3> QED
      BY <3>1, <2>1, <2>2, <2>3 DEF BlocksFreed
  <2>7. Written' = Written
    BY <2>1 DEF Written
  <2>8. Linked' /\ Holds'
    BY <2>1, <2>7 DEF IInv, Linked, Holds
  <2>9. Writing' /\ Reading'
    BY <1>0, <2>1, <2>2, <2>3 DEF Writing, Reading
  <2> QED
    BY <2>4, <2>5, <2>6, <2>8, <2>9 DEF IInv
<1>2. ASSUME NEW sz \in Nat, RbRead(sz)
      PROVE  IInv'
  <2> DEFINE skip == ptr = BlockSize
             b == IF skip THEN cur + BlockSize ELSE cur
             p == IF skip THEN 0 ELSE ptr
             n == IF sz <= BlockSize - p THEN sz ELSE BlockSize - p
  <2>1. /\ phase = "read" /\ sz <= len
        /\ freed' = IF skip THEN freed \cup {cur} ELSE freed
        /\ got' = got \o Bytes(b, p, n)
        /\ cur' = b /\ ptr' = p + n /\ len' = len - n /\ want' = sz - n
        /\ phase' = IF n = sz THEN "read" ELSE "loop"
        /\ UNCHANGED <<mem, header, sent>>
    BY <1>2 DEF RbRead
  <2>2. /\ cur + ptr = Header + Len(got) /\ (cur \notin DOMAIN mem => ptr = 0 /\ len = 0)
        /\ Len(got) + len = Len(sent)
        /\ freed = {x \in DOMAIN mem : x < cur}
    BY <2>1 DEF IInv, Reading, Exact, BlocksFreed
  <2>3. /\ b \in Nat /\ p \in 0..BlockSize - 1 /\ b + p = Header + Len(got) /\ cur <= b
    BY <1>0, <2>2
  <2>4. /\ n \in Nat /\ p + n <= BlockSize /\ n <= sz
        /\ n # sz => p + n = BlockSize /\ n < sz
        /\ n = 0 => sz = 0
    <3> HIDE DEF b, p
    <3> QED
      BY <1>0, <2>3
  <2>5. freed' = {x \in DOMAIN mem : x < b}
    <3>1. CASE skip
      BY <3>1, <1>0, <2>1, <2>2, Left
    <3>2. CASE ~skip
      BY <3>2, <2>1, <2>2
    <3> QED
      BY <3>1, <3>2
  <2>6. b \in DOMAIN mem \/ (p = 0 /\ len = 0)
    <3>1. CASE skip
      <4>1. cur \in DOMAIN mem /\ p = 0 /\ b = cur + BlockSize
        BY <3>1, <1>0, <2>2
      <4>2. b < Header + Len(sent) => b \in DOMAIN mem
        BY <4>1, <2>1, Left
      <4>3. b = Header + Len(got)
        BY <4>1, <2>3
      <4> HIDE DEF b, p
      <4> QED
        BY <4>1, <4>2, <4>3, <1>0, <2>2
    <3>2. CASE ~skip
      BY <3>2, <2>2
    <3> QED
      BY <3>1, <3>2
  <2> HIDE DEF skip, b, p, n
  <2>7. n <= len /\ (n > 0 => b \in DOMAIN mem)
    BY <1>0, <2>1, <2>4, <2>6
  <2>8. \/ phase' = "read" /\ ptr' = p + n /\ (b \notin DOMAIN mem => ptr' = 0 /\ len' = 0)
        \/ phase' = "loop" /\ p + n = BlockSize /\ b \in DOMAIN mem /\ want' <= len'
    <3>1. CASE n = sz
      BY <3>1, <1>0, <2>1, <2>3, <2>4, <2>6
    <3>2. CASE n # sz
      BY <3>2, <1>0, <2>1, <2>3, <2>4, <2>6
    <3> QED
      BY <3>1, <3>2
  <2>9. ptr' \in 0..BlockSize /\ want' \in Nat
    BY <1>0, <2>1, <2>3, <2>4
  <2>10. p \in Nat
    BY <1>0, <2>3
  <2> QED
    BY <2>1, <2>3, <2>4, <2>5, <2>7, <2>8, <2>9, <2>10, AdvanceKeeps
<1>3. CASE RbAgain
  <2> DEFINE b == cur + BlockSize
             n == IF LastPart THEN want ELSE BlockSize
  <2>1. /\ phase = "loop" /\ freed' = freed \cup {cur}
        /\ got' = got \o Bytes(b, 0, n)
        /\ cur' = b /\ len' = len - n /\ want' = want - n
        /\ phase' = IF LastPart THEN "read" ELSE "loop"
        /\ ptr' = IF LastPart THEN want ELSE ptr
        /\ UNCHANGED <<mem, header, sent>>
    BY <1>3 DEF RbAgain
  <2>2. /\ b = Header + Len(got) /\ want <= len /\ cur \in DOMAIN mem
        /\ Len(got) + len = Len(sent)
    BY <2>1 DEF IInv, Reading, Exact, BlocksFreed
  <2>3. /\ freed' = {x \in DOMAIN mem : x < b}
        /\ b < Header + Len(sent) => b \in DOMAIN mem
    BY <2>1, <2>2, Left
  <2>4. /\ n \in Nat /\ n <= want /\ n <= BlockSize
        /\ LastPart => n = want /\ want < BlockSize
        /\ ~LastPart => n = BlockSize
    BY <1>0 DEF LastPart
  <2>5. b \in Nat /\ b + 0 = Header + Len(got) /\ cur <= b
    BY <1>0, <2>2
  <2> HIDE DEF b, n
  <2>6. b \in DOMAIN mem \/ (len = 0 /\ n = 0)
    BY <1>0, <2>2, <2>3, <2>4
  <2>7. n <= len /\ (n > 0 => b \in DOMAIN mem)
    BY <1>0, <2>2, <2>4, <2>6
  <2>8. \/ phase' = "read" /\ ptr' = 0 + n /\ (b \notin DOMAIN mem => ptr' = 0 /\ len' = 0)
        \/ phase' = "loop" /\ 0 + n = BlockSize /\ b \in DOMAIN mem /\ want' <= len'
    <3>1. CASE LastPart
      BY <3>1, <1>0, <2>1, <2>4, <2>6
    <3>2. CASE ~LastPart
      BY <3>2, <1>0, <2>1, <2>2, <2>4, <2>6
    <3> QED
      BY <3>1, <3>2
  <2>9. ptr' \in 0..BlockSize /\ want' \in Nat
    BY <1>0, <2>1, <2>4
  <2>10. 0 \in Nat /\ 0 + n <= BlockSize
    BY <1>0, <2>4
  <2> QED
    BY <2>1, <2>3, <2>4, <2>5, <2>7, <2>8, <2>9, <2>10, AdvanceKeeps
<1>4. CASE RbClose
  <2>1. /\ phase = "read" /\ phase' = "done"
        /\ freed' = freed \cup {x \in DOMAIN mem : cur <= x}
        /\ UNCHANGED <<mem, header, cur, ptr, len, sent, got, want>>
    BY <1>4 DEF RbClose
  <2>2. freed' = DOMAIN mem
    <3>1. freed = {x \in DOMAIN mem : x < cur} /\ \A x \in DOMAIN mem : x \in Nat
      BY <2>1 DEF IInv, BlocksFreed, ChainTypeOK
    <3>2. \A x \in DOMAIN mem : x < cur \/ cur <= x
      BY <3>1, <1>0
    <3> QED
      BY <3>1, <3>2, <2>1
  <2>3. Written' = Written
    BY <2>1 DEF Written
  <2>4. ChainTypeOK' /\ Exact' /\ BlocksFreed' /\ Writing' /\ Reading'
    BY <2>1, <2>2 DEF IInv, ChainTypeOK, Exact, BlocksFreed, Writing, Reading
  <2>5. Linked' /\ Holds'
    BY <2>1, <2>3 DEF IInv, Linked, Holds
  <2> QED
    BY <2>4, <2>5 DEF IInv
<1> QED
  BY <1>1, <1>2, <1>3, <1>4

-----------------------------------------------------------------------------
(* The theorems.                                                           *)

\* The invariant holds throughout, for any pushes and reads.
LEMMA Invariance == ChainSpec => []IInv
<1>1. ChainInit => IInv
  <2> SUFFICES ASSUME ChainInit
               PROVE  IInv
    OBVIOUS
  <2>0. BlockSize \in Nat /\ Header \in Nat /\ 1 <= Header /\ Header < BlockSize
    BY ChainAssumption DEF ChainAssumption
  <2>1. /\ DOMAIN mem = {0} /\ mem[0] = Fresh /\ phase = "write" /\ freed = {}
        /\ cur = 0 /\ ptr = Header /\ len = Header /\ header = 0 /\ want = 0
        /\ sent = <<>> /\ got = <<>>
    BY DEF ChainInit
  <2>2. Len(sent) = 0 /\ Len(got) = 0 /\ sent \in Seq(Byte) /\ got \in Seq(Byte \cup {Junk})
    BY <2>1
  <2>3. mem[0] \in [Offsets -> Byte \cup {Junk}]
    BY <2>1 DEF Fresh
  <2>4. ChainTypeOK
    BY <2>0, <2>1, <2>2, <2>3 DEF ChainTypeOK
  <2>5. Exact /\ BlocksFreed
    BY <2>1, <2>2 DEF Exact, BlocksFreed
  <2>6. Written = Header
    BY <2>1 DEF Written
  <2>7. Linked
    BY <2>0, <2>1, <2>6 DEF Linked
  <2>8. Holds
    BY <2>0, <2>1, <2>6 DEF Holds, Offsets
  <2>9. Writing /\ Reading
    BY <2>0, <2>1, <2>2 DEF Writing, Reading
  <2> QED
    BY <2>4, <2>5, <2>7, <2>8, <2>9 DEF IInv
<1>2. IInv /\ [ChainNext]_chainVars => IInv'
  <2> SUFFICES ASSUME IInv, [ChainNext]_chainVars
               PROVE  IInv'
    OBVIOUS
  <2>1. CASE ChainNext
    BY <2>1, WriterKeeps, ReaderKeeps DEF ChainNext
  <2>2. CASE UNCHANGED chainVars
    <3>1. Written' = Written
      BY <2>2 DEF Written, chainVars
    <3>2. ChainTypeOK' /\ Exact' /\ BlocksFreed' /\ Writing' /\ Reading'
      BY <2>2 DEF IInv, ChainTypeOK, Exact, BlocksFreed, Writing, Reading, chainVars
    <3>3. Linked' /\ Holds'
      BY <2>2, <3>1 DEF IInv, Linked, Holds, chainVars
    <3> QED
      BY <3>2, <3>3 DEF IInv
  <2> QED
    BY <2>1, <2>2
<1> QED
  BY <1>1, <1>2, PTL DEF ChainSpec

\* wb_push and rb_read stay inside their blocks.
THEOREM ChainTypes == ChainSpec => []ChainTypeOK
<1>1. IInv => ChainTypeOK
  BY DEF IInv
<1> QED
  BY <1>1, Invariance, PTL

\* rb_read returns what wb_push was given, across any number of blocks.
THEOREM ReadsAreExact == ChainSpec => []Exact
<1>1. IInv => Exact
  BY DEF IInv
<1> QED
  BY <1>1, Invariance, PTL

\* Reading, or giving up, frees every block once.
THEOREM BlocksAreFreed == ChainSpec => []BlocksFreed
<1>1. IInv => BlocksFreed
  BY DEF IInv
<1> QED
  BY <1>1, Invariance, PTL
=============================================================================
