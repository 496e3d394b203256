--------------------------- MODULE ChannelProofs ---------------------------
(***************************************************************************)
(* Proofs about Channel, for any finite set of tasks, any channels and     *)
(* messages, and any width of the counter that leaves room for a reference *)
(* of every frame; then about ChannelTable, which implements it, for any   *)
(* width of the generator as well.                                         *)
(***************************************************************************)
EXTENDS ChannelTable, FiniteSetTheorems, TLAPS

-----------------------------------------------------------------------------
(* The accounting of references.  While the references that were lost      *)
(* leave it room, the counter of an object is the number of references     *)
(* that somebody will drop and of those that nobody will.                  *)

Counted(c) ==
  /\ counter[c] = Owned(c) + lost[c]
  /\ object[c] = "live" <=> counter[c] > 0

RefInv == \A c \in Channels : Few(c) => Counted(c)

RefTypeOK ==
  /\ channels \in SUBSET Channels
  /\ object \in [Channels -> {"none", "live", "deleted"}]
  /\ counter \in [Channels -> 0..IntSize - 1]
  /\ ref \in [Tasks -> Channels \cup {NoChannel}]
  /\ lost \in [Channels -> Nat]

LEMMA HoldersFinite ==
  ASSUME NEW c
  PROVE  /\ IsFiniteSet(Holders(c)) /\ Cardinality(Holders(c)) \in Nat
         /\ IsFiniteSet(Holders(c)') /\ Cardinality(Holders(c)') \in Nat
<1>1. Holders(c) \subseteq Tasks /\ Holders(c)' \subseteq Tasks
  BY DEF Holders
<1>2. IsFiniteSet(Holders(c)) /\ IsFiniteSet(Holders(c)')
  BY <1>1, FS_Subset, ChannelAssumption
<1> QED
  BY <1>2, FS_CardinalityType

LEMMA OwnedNat ==
  ASSUME NEW c
  PROVE  /\ Owned(c) \in Nat /\ Owned(c)' \in Nat
         /\ Cardinality(Tasks) \in Nat
         /\ Owned(c) <= Cardinality(Tasks) + 1 /\ Owned(c)' <= Cardinality(Tasks) + 1
<1>1. Holders(c) \subseteq Tasks /\ Holders(c)' \subseteq Tasks
  BY DEF Holders
<1>2. /\ Cardinality(Tasks) \in Nat
      /\ Cardinality(Holders(c)) <= Cardinality(Tasks)
      /\ Cardinality(Holders(c)') <= Cardinality(Tasks)
  BY <1>1, FS_Subset, FS_CardinalityType, ChannelAssumption
<1> QED
  BY <1>2, HoldersFinite DEF Owned

\* A frame that takes a pointer owns one reference more ...
LEMMA OwnedTake ==
  ASSUME RefTypeOK, NEW t \in Tasks, NEW c \in Channels, ref[t] = NoChannel,
         ref' = [ref EXCEPT ![t] = c], channels' = channels
  PROVE  /\ Owned(c)' = Owned(c) + 1
         /\ \A d \in Channels \ {c} : Owned(d)' = Owned(d)
<1>1. c # NoChannel
  BY ChannelAssumption
<1>2. t \notin Holders(c) /\ Holders(c)' = Holders(c) \cup {t}
  BY <1>1 DEF Holders, RefTypeOK
<1>3. Cardinality(Holders(c)') = Cardinality(Holders(c)) + 1
  BY <1>2, HoldersFinite, FS_AddElement
<1>4. \A d \in Channels \ {c} : Holders(d)' = Holders(d)
  BY ChannelAssumption DEF Holders, RefTypeOK
<1> QED
  BY <1>3, <1>4, HoldersFinite DEF Owned

\* ... and one that lets a pointer go owns one reference less.
LEMMA OwnedDrop ==
  ASSUME RefTypeOK, NEW t \in Tasks, NEW c \in Channels, ref[t] = c,
         ref' = [ref EXCEPT ![t] = NoChannel], channels' = channels
  PROVE  /\ Owned(c) > 0
         /\ Owned(c)' = Owned(c) - 1
         /\ \A d \in Channels \ {c} : Owned(d)' = Owned(d)
<1>1. c # NoChannel
  BY ChannelAssumption
<1>2. t \in Holders(c) /\ Holders(c)' = Holders(c) \ {t}
  BY <1>1 DEF Holders, RefTypeOK
<1>3. Cardinality(Holders(c)') = Cardinality(Holders(c)) - 1
  BY <1>2, HoldersFinite, FS_RemoveElement
<1>4. \A d \in Channels \ {c} : Holders(d)' = Holders(d)
  BY ChannelAssumption DEF Holders, RefTypeOK
<1>5. Cardinality(Holders(c)) > 0
  BY <1>3, HoldersFinite
<1> QED
  BY <1>3, <1>4, <1>5, HoldersFinite DEF Owned

\* The table's reference, when a channel enters it or leaves it.
LEMMA OwnedByTable ==
  ASSUME RefTypeOK, NEW c \in Channels, UNCHANGED ref
  PROVE  /\ c \notin channels /\ channels' = channels \cup {c} => Owned(c)' = Owned(c) + 1
         /\ c \in channels /\ channels' = channels \ {c} => Owned(c)' = Owned(c) - 1 /\ Owned(c) > 0
         /\ \A d \in Channels \ {c} : (d \in channels' <=> d \in channels) => Owned(d)' = Owned(d)
<1>1. \A d \in Channels : Holders(d)' = Holders(d)
  BY DEF Holders
<1> QED
  BY <1>1, HoldersFinite DEF Owned

LEMMA CreatePreserves ==
  ASSUME RefTypeOK, RefInv, NEW c \in Channels, CreateChannel(c)
  PROVE  RefTypeOK' /\ RefInv'
<1>1. RefTypeOK'
  BY ChannelAssumption, OwnedNat DEF CreateChannel, RefTypeOK
<1>2. \A d \in Channels : Few(d)' <=> Few(d)
  BY DEF CreateChannel, Few
<1>3. ASSUME Few(c) PROVE Counted(c)'
  <2>1. counter[c] = 0 /\ Owned(c) + lost[c] = 0
    BY <1>3 DEF CreateChannel, RefInv, Counted, RefTypeOK
  <2>2. Owned(c) = 0 /\ lost[c] = 0
    BY <2>1, OwnedNat DEF RefTypeOK
  <2>3. c \notin channels
    BY <2>2, HoldersFinite DEF Owned
  <2>4. Owned(c)' = 1
    BY <2>2, <2>3, OwnedByTable DEF CreateChannel
  <2> QED
    BY <2>2, <2>4 DEF CreateChannel, Counted, RefTypeOK
<1>4. ASSUME NEW d \in Channels \ {c}, Few(d) PROVE Counted(d)'
  <2>1. Owned(d)' = Owned(d)
    BY OwnedByTable DEF CreateChannel
  <2> QED
    BY <1>4, <2>1 DEF CreateChannel, RefInv, Counted, RefTypeOK
<1> QED
  BY <1>1, <1>2, <1>3, <1>4 DEF RefInv

\* Dropping a reference that somebody owns keeps the account.
LEMMA DropPreserves ==
  ASSUME RefTypeOK, RefInv, NEW c \in Channels, Drop(c), UNCHANGED lost,
         Owned(c) > 0, Owned(c)' = Owned(c) - 1,
         \A d \in Channels \ {c} : Owned(d)' = Owned(d)
  PROVE  /\ counter' \in [Channels -> 0..IntSize - 1]
         /\ object' \in [Channels -> {"none", "live", "deleted"}]
         /\ RefInv'
<1>1. /\ counter' = [counter EXCEPT ![c] = Down(@)]
      /\ object' = [object EXCEPT ![c] = IF Down(counter[c]) = 0 THEN "deleted" ELSE @]
      /\ object[c] = "live"
  BY DEF Drop
<1>2. counter[c] \in 0..IntSize - 1 /\ IntSize \in Nat
  BY ChannelAssumption DEF RefTypeOK
<1>3. Down(counter[c]) \in 0..IntSize - 1
  BY <1>2 DEF Down
<1>4. counter' \in [Channels -> 0..IntSize - 1]
  BY <1>1, <1>3 DEF RefTypeOK
<1>5. object' \in [Channels -> {"none", "live", "deleted"}]
  BY <1>1 DEF RefTypeOK
<1>6. \A d \in Channels : Few(d)' <=> Few(d)
  BY DEF Few
<1>7. ASSUME Few(c) PROVE Counted(c)'
  <2>1. counter[c] = Owned(c) + lost[c] /\ counter[c] > 0
    BY <1>1, <1>7 DEF RefInv, Counted
  <2>2. counter'[c] = counter[c] - 1
    BY <1>1, <1>2, <2>1 DEF RefTypeOK, Down
  <2>3. object'[c] = IF counter[c] = 1 THEN "deleted" ELSE "live"
    BY <1>1, <1>2, <2>1 DEF RefTypeOK, Down
  <2> QED
    BY <1>2, <2>1, <2>2, <2>3, OwnedNat DEF Counted, RefTypeOK
<1>8. \A d \in Channels \ {c} : Few(d) => Counted(d)'
  BY <1>1 DEF RefInv, Counted, RefTypeOK
<1> QED
  BY <1>4, <1>5, <1>6, <1>7, <1>8 DEF RefInv

LEMMA ClosePreserves ==
  ASSUME RefTypeOK, RefInv, NEW c \in Channels, CloseChannel(c)
  PROVE  RefTypeOK' /\ RefInv'
<1>1. /\ Owned(c)' = Owned(c) - 1 /\ Owned(c) > 0
      /\ \A d \in Channels \ {c} : Owned(d)' = Owned(d)
  BY OwnedByTable DEF CloseChannel
<1> QED
  BY <1>1, DropPreserves DEF CloseChannel, RefTypeOK

\* A frame takes a pointer: the account of the channel grows by one.  Only a
\* counter that came round makes addref take the object for revived.
LEMMA GetPreserves ==
  ASSUME RefTypeOK, RefInv, NEW t \in Tasks, NEW c \in Channels, GetChannel(t, c)
  PROVE  RefTypeOK' /\ RefInv'
<1>1. counter[c] \in 0..IntSize - 1 /\ IntSize \in Nat
  BY ChannelAssumption DEF RefTypeOK
<1>2. \A d \in Channels : Few(d)' <=> Few(d)
  BY DEF GetChannel, Few
<1>3. Few(c) => counter[c] > 0 /\ counter[c] = Owned(c) + lost[c]
  BY DEF GetChannel, RefInv, Counted
<1>4. CASE Up(counter[c]) = 1
  <2>1. object' = [object EXCEPT ![c] = "deleted"] /\ UNCHANGED <<counter, ref, channels, lost>>
    BY <1>4 DEF GetChannel
  <2>2. ~Few(c)
    BY <1>1, <1>3, <1>4 DEF Up
  <2>3. \A d \in Channels \ {c} : Counted(d) => Counted(d)'
    BY <2>1 DEF Counted, Owned, Holders, RefTypeOK
  <2> QED
    BY <1>2, <2>1, <2>2, <2>3 DEF RefInv, RefTypeOK
<1>5. CASE Up(counter[c]) # 1
  <2>1. /\ ref[t] = NoChannel
        /\ counter' = [counter EXCEPT ![c] = Up(@)]
        /\ ref' = [ref EXCEPT ![t] = c]
        /\ UNCHANGED <<object, channels, lost>>
        /\ object[c] = "live"
    BY <1>5 DEF GetChannel
  <2>2. Up(counter[c]) \in 0..IntSize - 1
    BY <1>1 DEF Up
  <2>3. RefTypeOK'
    BY <2>1, <2>2 DEF RefTypeOK
  <2>4. Owned(c)' = Owned(c) + 1 /\ \A d \in Channels \ {c} : Owned(d)' = Owned(d)
    BY <2>1, OwnedTake
  <2>5. ASSUME Few(c) PROVE Counted(c)'
    <3>1. Owned(c) + 1 + lost[c] < IntSize
      BY <2>4, <2>5, <1>1, OwnedNat DEF Few, RefTypeOK
    <3>2. counter'[c] = counter[c] + 1
      BY <1>1, <1>3, <2>1, <2>5, <3>1, OwnedNat DEF Up, RefTypeOK
    <3> QED
      BY <1>1, <1>3, <2>1, <2>4, <2>5, <3>2, OwnedNat DEF Counted, RefTypeOK
  <2>6. \A d \in Channels \ {c} : Few(d) => Counted(d)'
    BY <2>1, <2>4 DEF RefInv, Counted, RefTypeOK
  <2> QED
    BY <1>2, <2>3, <2>5, <2>6 DEF RefInv
<1> QED
  BY <1>4, <1>5

LEMMA ReleasePreserves ==
  ASSUME RefTypeOK, RefInv, NEW t \in Tasks, Release(t)
  PROVE  RefTypeOK' /\ RefInv'
<1>1. PICK c \in Channels : ref[t] = c
  BY DEF Release, RefTypeOK
<1>2. Drop(c) /\ ref' = [ref EXCEPT ![t] = NoChannel] /\ UNCHANGED <<channels, lost>>
  BY <1>1 DEF Release
<1>3. /\ Owned(c) > 0 /\ Owned(c)' = Owned(c) - 1
      /\ \A d \in Channels \ {c} : Owned(d)' = Owned(d)
  BY <1>1, <1>2, OwnedDrop
<1> QED
  BY <1>2, <1>3, DropPreserves DEF RefTypeOK

\* A frame that loses its reference moves it from one side of the account to
\* the other.
LEMMA ForgetPreserves ==
  ASSUME RefTypeOK, RefInv, NEW t \in Tasks, Forget(t)
  PROVE  RefTypeOK' /\ RefInv'
<1>1. PICK c \in Channels : ref[t] = c
  BY DEF Forget, RefTypeOK
<1>2. /\ ref' = [ref EXCEPT ![t] = NoChannel] /\ lost' = [lost EXCEPT ![c] = @ + 1]
      /\ UNCHANGED <<channels, object, counter>>
  BY <1>1 DEF Forget
<1>3. /\ Owned(c) > 0 /\ Owned(c)' = Owned(c) - 1
      /\ \A d \in Channels \ {c} : Owned(d)' = Owned(d)
  BY <1>1, <1>2, OwnedDrop
<1>4. lost[c] \in Nat /\ lost'[c] = lost[c] + 1 /\ IntSize \in Nat
  BY <1>2, ChannelAssumption DEF RefTypeOK
<1>5. ASSUME Few(c)' PROVE Counted(c)'
  <2>1. Few(c)
    BY <1>4, <1>5, OwnedNat DEF Few
  <2>2. counter[c] = Owned(c) + lost[c] /\ (object[c] = "live" <=> counter[c] > 0)
    BY <2>1 DEF RefInv, Counted
  <2> QED
    BY <1>2, <1>3, <1>4, <2>2, OwnedNat DEF Counted
<1>6. ASSUME NEW d \in Channels \ {c}, Few(d)' PROVE Counted(d)'
  <2>1. lost'[d] = lost[d]
    BY <1>2 DEF RefTypeOK
  <2> QED
    BY <1>2, <1>3, <1>6, <2>1 DEF RefInv, Counted, Few
<1>7. RefTypeOK'
  <2>1. lost' \in [Channels -> Nat]
    BY <1>2, <1>4 DEF RefTypeOK
  <2> QED
    BY <1>2, <2>1 DEF RefTypeOK
<1> QED
  BY <1>5, <1>6, <1>7 DEF RefInv

LEMMA RefInvStep == RefTypeOK /\ RefInv /\ [Next]_chanVars => RefTypeOK' /\ RefInv'
<1> SUFFICES ASSUME RefTypeOK, RefInv, [Next]_chanVars PROVE RefTypeOK' /\ RefInv'
  OBVIOUS
<1>1. ASSUME NEW c \in Channels, CreateChannel(c) \/ CloseChannel(c) PROVE RefTypeOK' /\ RefInv'
  BY <1>1, CreatePreserves, ClosePreserves
<1>2. ASSUME NEW t \in Tasks, UseRefs(t) \/ Forget(t) PROVE RefTypeOK' /\ RefInv'
  BY <1>2, GetPreserves, ReleasePreserves, ForgetPreserves DEF UseRefs
<1>3. CASE UNCHANGED refVars
  BY <1>3 DEF refVars, RefTypeOK, RefInv, Counted, Few, Owned, Holders
<1>4. CASE UNCHANGED chanVars
  BY <1>3, <1>4 DEF chanVars
<1> QED
  BY <1>1, <1>2, <1>3, <1>4 DEF Next

LEMMA RefInvInit == Init => RefTypeOK /\ RefInv
<1> SUFFICES ASSUME Init PROVE RefTypeOK /\ RefInv
  OBVIOUS
<1>1. RefTypeOK
  <2>1. 0 \in 0..IntSize - 1
    BY OwnedNat, ChannelAssumption
  <2> QED
    BY <2>1 DEF Init, RefTypeOK
<1>2. ASSUME NEW c \in Channels PROVE Owned(c) = 0
  <2>1. Holders(c) = {} /\ c \notin channels
    BY ChannelAssumption DEF Init, Holders
  <2> QED
    BY <2>1, FS_EmptySet DEF Owned
<1> QED
  BY <1>1, <1>2 DEF Init, RefInv, Counted

LEMMA RefsCounted == Spec => [](RefTypeOK /\ RefInv)
BY RefInvInit, RefInvStep, PTL DEF Spec

-----------------------------------------------------------------------------
(* What the accounting gives.                                              *)

\* An object lives exactly as long as there is a reference that nobody dropped,
\* lost ones included, as long as the counter has room for all of them.
THEOREM LastReferenceDeletes == Spec => []Reclaimed
<1>1. RefTypeOK /\ RefInv => Reclaimed
  BY DEF Reclaimed, RefInv, Counted
<1> QED
  BY <1>1, RefsCounted, PTL

LEMMA NothingDangles == RefTypeOK /\ RefInv => NoUseAfterFree
<1> SUFFICES ASSUME RefTypeOK, RefInv, NEW c \in Channels, Few(c)
             PROVE  /\ c \in channels => object[c] = "live"
                    /\ \A t \in Tasks : ref[t] = c => object[c] = "live"
  BY DEF NoUseAfterFree
<1>1. Owned(c) > 0 => object[c] = "live"
  BY OwnedNat DEF RefInv, Counted, RefTypeOK
<1>2. c \in channels => Owned(c) > 0
  BY HoldersFinite DEF Owned
<1>3. ASSUME NEW t \in Tasks, ref[t] = c PROVE Owned(c) > 0
  <2>1. t \in Holders(c)
    BY <1>3 DEF Holders
  <2>2. Cardinality(Holders(c)) # 0
    BY <2>1, HoldersFinite, FS_EmptySet
  <2> QED
    BY <2>2, HoldersFinite DEF Owned
<1> QED
  BY <1>1, <1>2, <1>3

\* get_channel and close may race in any way: no table entry and no pointer in
\* a C++ frame leads to a deleted channel before the counter comes round.
THEOREM NoPointerDangles == Spec => []NoUseAfterFree
BY NothingDangles, RefsCounted, PTL

\* Until then addref does not take a channel that the table has for revived.
LEMMA NeverRevived ==
  ASSUME RefTypeOK, RefInv, NEW c \in channels, Few(c)
  PROVE  Up(counter[c]) # 1
<1>1. c \in Channels /\ counter[c] \in 0..IntSize - 1 /\ IntSize \in Nat
  BY ChannelAssumption DEF RefTypeOK
<1>2. counter[c] > 0
  BY <1>1, NothingDangles DEF NoUseAfterFree, RefInv, Counted
<1> QED
  BY <1>1, <1>2 DEF Up

-----------------------------------------------------------------------------
(* Type correctness, with the two queues.                                  *)

QueueTypeOK == data \in [Channels -> Seq(Msgs)] /\ blockings \in [Channels -> Seq(Tasks)]

LEMMA QueueTypeStep == RefTypeOK /\ QueueTypeOK /\ [Next]_chanVars => QueueTypeOK'
<1> SUFFICES ASSUME RefTypeOK, QueueTypeOK, [Next]_chanVars PROVE QueueTypeOK'
  OBVIOUS
<1>1. ASSUME NEW t \in Tasks, NEW m \in Msgs, Push(t, m) PROVE QueueTypeOK'
  <2>1. PICK c \in Channels : ref[t] = c
    BY <1>1 DEF Push, Holds, RefTypeOK
  <2>2. /\ data' = [data EXCEPT ![c] = Append(@, m)]
        /\ blockings' = [blockings EXCEPT ![c] = IF @ = <<>> THEN @ ELSE Tail(@)]
    BY <1>1, <2>1 DEF Push
  <2>3. data[c] \in Seq(Msgs) /\ blockings[c] \in Seq(Tasks)
    BY DEF QueueTypeOK
  <2>4. Append(data[c], m) \in Seq(Msgs)
    BY <2>3
  <2>5. blockings[c] # <<>> => Tail(blockings[c]) \in Seq(Tasks)
    BY <2>3
  <2> QED
    BY <2>2, <2>3, <2>4, <2>5 DEF QueueTypeOK
<1>2. ASSUME NEW t \in Tasks, Pop(t) PROVE QueueTypeOK'
  <2>1. PICK c \in Channels : ref[t] = c
    BY <1>2 DEF Pop, Holds, RefTypeOK
  <2>2. data[c] \in Seq(Msgs)
    BY DEF QueueTypeOK
  <2>3. data[c] # <<>> => Tail(data[c]) \in Seq(Msgs)
    BY <2>2
  <2> QED
    BY <1>2, <2>1, <2>2, <2>3 DEF Pop, QueueTypeOK
<1>3. ASSUME NEW t \in Tasks, DoSelect(t) PROVE QueueTypeOK'
  <2>1. PICK c \in Channels : ref[t] = c
    BY <1>3 DEF DoSelect, Holds, RefTypeOK
  <2>2. blockings[c] \in Seq(Tasks)
    BY DEF QueueTypeOK
  <2>3. Append(blockings[c], t) \in Seq(Tasks)
    BY <2>2
  <2> QED
    BY <1>3, <2>1, <2>2, <2>3 DEF DoSelect, QueueTypeOK
<1>4. CASE UNCHANGED <<data, blockings>>
  BY <1>4 DEF QueueTypeOK
<1> QED
  BY <1>1, <1>2, <1>3, <1>4 DEF Next, UseQueues, CreateChannel, CloseChannel, chanVars

\* The table, the objects, the frames and the queues keep their types.
THEOREM ChannelTypes == Spec => []TypeOK
<1>1. Init => RefTypeOK /\ RefInv /\ QueueTypeOK
  <2>1. Init => QueueTypeOK
    BY DEF Init, QueueTypeOK
  <2> QED
    BY <2>1, RefInvInit
<1>2. (RefTypeOK /\ RefInv /\ QueueTypeOK) /\ [Next]_chanVars
        => (RefTypeOK /\ RefInv /\ QueueTypeOK)'
  BY RefInvStep, QueueTypeStep
<1>3. RefTypeOK /\ QueueTypeOK => TypeOK
  BY DEF RefTypeOK, QueueTypeOK, TypeOK
<1> QED
  BY <1>1, <1>2, <1>3, PTL DEF Spec

-----------------------------------------------------------------------------
(* The tables: types.                                                      *)

LEMMA DrawTypes ==
  ASSUME TableTypeOK, NEW t \in Tasks, Draw(t)
  PROVE  TableTypeOK'
<1>1. IdSize \in Nat \ {0} /\ 0 \in Ids /\ idgen \in Ids
  BY TableAssumption DEF TableTypeOK, Ids
<1>2. idgen' \in Ids
  BY <1>1 DEF Draw, Ids
<1>3. drawn' \in [Tasks -> Ids]
  BY <1>1 DEF Draw, TableTypeOK
<1>4. draws' \in [Tasks -> 0..IdSize]
  <2> DEFINE next(u) == IF u \in Waiting /\ draws[u] < IdSize THEN draws[u] + 1
                        ELSE IF u = t THEN 0 ELSE draws[u]
  <2>1. ASSUME NEW u \in Tasks PROVE next(u) \in 0..IdSize
    <3>1. draws[u] \in 0..IdSize
      BY DEF TableTypeOK
    <3> QED
      BY <1>1, <3>1
  <2>2. draws' = [u \in Tasks |-> next(u)]
    BY DEF Draw
  <2> HIDE DEF next
  <2> QED
    BY <2>1, <2>2
<1>5. overtaken' \in BOOLEAN
  BY DEF Draw, TableTypeOK
<1> QED
  BY <1>2, <1>3, <1>4, <1>5 DEF Draw, tableVars, TableTypeOK

LEMMA TableTypeStep == TableTypeOK /\ [TableNext]_vars => TableTypeOK'
<1> SUFFICES ASSUME TableTypeOK, [TableNext]_vars PROVE TableTypeOK'
  OBVIOUS
<1> USE DEF creationVars, tableVars
<1>0. 0 \in Ids /\ Asked \subseteq Ids
  BY TableAssumption DEF Ids
<1>1. ASSUME NEW t \in Tasks, NEW kind \in Kinds, Begin(t, kind) PROVE TableTypeOK'
  BY <1>1 DEF Begin, TableTypeOK
<1>2. ASSUME NEW t \in Tasks, NEW c \in Channels, InsertChannel(t, c) PROVE TableTypeOK'
  BY <1>0, <1>2 DEF InsertChannel, TableTypeOK
<1>3. ASSUME NEW t \in Tasks, InsertTask(t) \/ AbandonTask(t) PROVE TableTypeOK'
  BY <1>0, <1>3 DEF InsertTask, AbandonTask, TableTypeOK
<1>4. ASSUME NEW i \in Ids, EndTask(i) PROVE TableTypeOK'
  BY <1>4 DEF EndTask, TableTypeOK
<1>5. ASSUME NEW i \in Ids, ResumeEnded(i) PROVE TableTypeOK'
  BY <1>5 DEF ResumeEnded, TableTypeOK
<1>6. ASSUME NEW i \in Ids, Close(i) PROVE TableTypeOK'
  BY <1>6 DEF Close, TableTypeOK
<1>7. ASSUME NEW t \in Tasks, NEW i \in Ids, Lookup(t, i) PROVE TableTypeOK'
  BY <1>7 DEF Lookup, TableTypeOK
<1>8. ASSUME NEW t \in Tasks, EndCall(t) PROVE TableTypeOK'
  BY <1>8 DEF EndCall, TableTypeOK
<1>9. CASE UNCHANGED vars
  BY <1>9 DEF vars, TableTypeOK
<1> QED
  BY <1>1, <1>2, <1>3, <1>4, <1>5, <1>6, <1>7, <1>8, <1>9, DrawTypes DEF TableNext

LEMMA TableTypeInit == TableInit => TableTypeOK
<1>1. 0 \in Ids /\ 0 \in 0..IdSize
  BY TableAssumption DEF Ids
<1> QED
  BY <1>1 DEF TableInit, TableTypeOK

-----------------------------------------------------------------------------
(* Every step of the tables is one that Channel allows: its theorems hold  *)
(* of the objects, whatever ids lead to them.                              *)

LEMMA StepIsChannelStep == TableTypeOK /\ [TableNext]_vars => [Next]_chanVars
<1> SUFFICES ASSUME TableTypeOK, TableNext PROVE [Next]_chanVars
  BY DEF vars
<1>1. ASSUME NEW t \in Tasks, NEW c \in Channels, InsertChannel(t, c) PROVE Next
  BY <1>1 DEF InsertChannel, Next
<1>2. ASSUME NEW i \in Ids, Close(i) PROVE [Next]_chanVars
  <2>1. entry[i] # NoChannel => entry[i] \in Channels
    BY DEF TableTypeOK
  <2> QED
    BY <1>2, <2>1 DEF Close, Next
<1>3. ASSUME NEW t \in Tasks, NEW i \in Ids, Lookup(t, i) PROVE [Next]_chanVars
  <2>1. entry[i] # NoChannel => entry[i] \in Channels
    BY DEF TableTypeOK
  <2> QED
    BY <1>3, <2>1 DEF Lookup, Next, UseRefs
<1>4. ASSUME NEW t \in Tasks, EndCall(t) PROVE Next
  BY <1>4 DEF EndCall, Next, UseRefs, UseQueues, refVars
<1> QED
  BY <1>1, <1>2, <1>3, <1>4
     DEF TableNext, Begin, Draw, InsertTask, AbandonTask, EndTask, ResumeEnded

\* The channels behind the tables are those of Channel: an object is deleted
\* with its last reference and no pointer dangles, as proved there.
THEOREM TableImplementsChannel == TableSpec => Spec
<1>1. TableInit => TableTypeOK /\ Init
  BY TableTypeInit DEF TableInit
<1>2. TableTypeOK /\ [TableNext]_vars => TableTypeOK' /\ [Next]_chanVars
  BY TableTypeStep, StepIsChannelStep
<1> QED
  BY <1>1, <1>2, PTL DEF TableSpec, Spec

-----------------------------------------------------------------------------
(* The ids.  While the generator has not come round during a creation, it  *)
(* stands as many ids behind a drawn one as were drawn since, so that no   *)
(* other creation can have drawn it.                                       *)

Keyed ==
  /\ \A i \in Ids : entry[i] # NoChannel => i \in keys["channel"]
  /\ taskIds \subseteq keys["task"]

Idle == \A t \in Tasks : creating[t] = "no" => drawn[t] = 0

Made == \A c \in channels : c \in Channels /\ object[c] # "none"

Behind ==
  \A t \in Waiting :
    /\ draws[t] < IdSize
    /\ \/ idgen = drawn[t] + 1 + draws[t]
       \/ idgen = drawn[t] + 1 + draws[t] - IdSize

Apart ==
  \A t, u \in Waiting : t # u /\ creating[t] = creating[u] => drawn[t] # drawn[u]

Free ==
  \A t \in Waiting :
    /\ creating[t] = "channel" => entry[drawn[t]] = NoChannel
    /\ creating[t] = "task" => drawn[t] \notin taskIds

Leads == \A c \in channels : entry[named[c]] = c

NameInv == Keyed /\ Idle /\ Made /\ (overtaken \/ (Behind /\ Apart /\ Free /\ Leads))

LEMMA DrawNames ==
  ASSUME TableTypeOK, RefTypeOK, NameInv, NEW t \in Tasks, Draw(t)
  PROVE  NameInv'
<1>1. Keyed' /\ Made' /\ Idle'
  BY DEF Draw, Drawing, NameInv, Keyed, Made, Idle, TableTypeOK, tableVars, chanVars, refVars
<1> SUFFICES ASSUME ~overtaken' PROVE Behind' /\ Apart' /\ Free' /\ Leads'
  BY <1>1 DEF NameInv
<1> DEFINE usable == Usable(creating[t], idgen)
<1>2. /\ Behind /\ Apart /\ Free /\ Leads
      /\ \A u \in Waiting : draws[u] + 1 # IdSize
  BY DEF Draw, NameInv
<1>3. /\ t \notin Waiting /\ creating[t] \in Kinds
      /\ drawn' = [drawn EXCEPT ![t] = IF usable THEN idgen ELSE 0]
      /\ UNCHANGED <<keys, entry, taskIds, named, creating, channels>>
  BY DEF Draw, Drawing, Waiting, TableTypeOK, tableVars, chanVars, refVars
<1>4. \A u \in Tasks \ {t} : drawn'[u] = drawn[u] /\ (u \in Waiting' <=> u \in Waiting)
  BY <1>3 DEF Waiting, TableTypeOK
<1>5. t \in Waiting' => usable /\ drawn'[t] = idgen /\ idgen # 0
  BY <1>3 DEF Waiting, TableTypeOK, Usable
<1>6. \A u \in Waiting : drawn[u] # idgen
  BY <1>2, TableAssumption DEF Behind, TableTypeOK, Ids, Waiting
<1>7. Behind'
  <2> SUFFICES ASSUME NEW u \in Waiting'
               PROVE  /\ draws'[u] < IdSize
                      /\ \/ idgen' = drawn'[u] + 1 + draws'[u]
                         \/ idgen' = drawn'[u] + 1 + draws'[u] - IdSize
    BY TableAssumption DEF Behind
  <2>1. /\ u \in Tasks /\ idgen \in 0..IdSize - 1 /\ IdSize \in Nat \ {0}
        /\ idgen' = IF idgen = IdSize - 1 THEN 0 ELSE idgen + 1
        /\ draws' = [v \in Tasks |-> IF v \in Waiting /\ draws[v] < IdSize THEN draws[v] + 1
                                     ELSE IF v = t THEN 0 ELSE draws[v]]
        /\ drawn[u] \in 0..IdSize - 1 /\ draws[u] \in 0..IdSize
    BY TableAssumption DEF Draw, TableTypeOK, Ids, Waiting
  <2>2. CASE u = t
    BY <1>3, <1>5, <2>1, <2>2
  <2>3. CASE u # t
    <3>1. u \in Waiting /\ drawn'[u] = drawn[u]
      BY <1>4, <2>1, <2>3
    <3>2. /\ draws[u] < IdSize /\ draws[u] + 1 # IdSize
          /\ \/ idgen = drawn[u] + 1 + draws[u]
             \/ idgen = drawn[u] + 1 + draws[u] - IdSize
      BY <1>2, <3>1 DEF Behind
    <3>3. draws'[u] = draws[u] + 1
      BY <2>1, <3>1, <3>2
    <3> QED
      BY <2>1, <3>1, <3>2, <3>3
  <2> QED
    BY <2>2, <2>3
<1>8. Apart'
  <2> SUFFICES ASSUME NEW u \in Waiting', NEW v \in Waiting', u # v, creating[u] = creating[v]
               PROVE  drawn'[u] # drawn'[v]
    BY <1>3 DEF Apart
  <2>1. u \in Tasks /\ v \in Tasks
    BY DEF Waiting
  <2>2. CASE u = t
    BY <1>4, <1>5, <1>6, <2>1, <2>2
  <2>3. CASE v = t
    BY <1>4, <1>5, <1>6, <2>1, <2>3
  <2>4. CASE u # t /\ v # t
    BY <1>2, <1>4, <2>1, <2>4 DEF Apart
  <2> QED
    BY <2>2, <2>3, <2>4
<1>9. Free'
  <2> SUFFICES ASSUME NEW u \in Waiting'
               PROVE  /\ creating[u] = "channel" => entry[drawn'[u]] = NoChannel
                      /\ creating[u] = "task" => drawn'[u] \notin taskIds
    BY <1>3 DEF Free
  <2>1. CASE u = t
    BY <1>5, <2>1 DEF Usable, NameInv, Keyed, TableTypeOK
  <2>2. CASE u # t
    BY <1>2, <1>4, <2>2 DEF Free, Waiting
  <2> QED
    BY <2>1, <2>2
<1>10. Leads'
  BY <1>2, <1>3 DEF Leads
<1> QED
  BY <1>7, <1>8, <1>9, <1>10

LEMMA InsertChannelNames ==
  ASSUME TableTypeOK, RefTypeOK, NameInv, NEW t \in Tasks, NEW c \in Channels, InsertChannel(t, c)
  PROVE  NameInv'
<1>1. /\ t \in Waiting /\ creating[t] = "channel"
      /\ object[c] = "none" /\ channels' = channels \cup {c}
      /\ object' = [object EXCEPT ![c] = "live"]
      /\ keys' = [keys EXCEPT !["channel"] = @ \cup {drawn[t]}]
      /\ entry' = [entry EXCEPT ![drawn[t]] = c]
      /\ named' = [named EXCEPT ![c] = drawn[t]]
      /\ creating' = [creating EXCEPT ![t] = "no"]
      /\ drawn' = [drawn EXCEPT ![t] = 0]
      /\ UNCHANGED <<idgen, taskIds, draws, overtaken>>
  BY DEF InsertChannel, CreateChannel, Waiting
<1>2. c \notin channels /\ drawn[t] \in Ids
  BY <1>1 DEF NameInv, Made, TableTypeOK
<1>3. Keyed'
  BY <1>1, <1>2 DEF NameInv, Keyed, TableTypeOK, Kinds
<1>4. Idle'
  BY <1>1 DEF NameInv, Idle, TableTypeOK
<1>5. Made'
  <2>1. ASSUME NEW d \in channels PROVE d \in Channels /\ object'[d] # "none"
    <3>1. d \in Channels /\ object[d] # "none" /\ d # c
      BY <1>2 DEF NameInv, Made
    <3> QED
      BY <1>1, <3>1 DEF RefTypeOK
  <2>2. object'[c] # "none"
    BY <1>1 DEF RefTypeOK
  <2> QED
    BY <1>1, <2>1, <2>2 DEF Made
<1> SUFFICES ASSUME ~overtaken PROVE Behind' /\ Apart' /\ Free' /\ Leads'
  BY <1>1, <1>3, <1>4, <1>5 DEF NameInv
<1>6. Behind /\ Apart /\ Free /\ Leads
  BY DEF NameInv
<1>7. \A u \in Waiting' : u \in Waiting /\ u # t /\ drawn'[u] = drawn[u] /\ creating'[u] = creating[u]
  BY <1>1 DEF Waiting, TableTypeOK
<1>8. Behind' /\ Apart'
  BY <1>1, <1>6, <1>7 DEF Behind, Apart
<1>9. Free'
  BY <1>1, <1>2, <1>6, <1>7 DEF Free, Apart, TableTypeOK
<1>10. Leads'
  <2>1. entry'[named'[c]] = c
    BY <1>1, <1>2 DEF TableTypeOK
  <2>2. ASSUME NEW d \in channels PROVE entry'[named'[d]] = d
    <3>1. d \in Channels /\ d # c /\ entry[named[d]] = d /\ d # NoChannel
      BY <1>2, <1>6, ChannelAssumption DEF NameInv, Made, Leads
    <3>2. entry[drawn[t]] = NoChannel
      BY <1>1, <1>6 DEF Free
    <3>3. named'[d] = named[d] /\ named[d] # drawn[t] /\ named[d] \in Ids
      BY <1>1, <3>1, <3>2 DEF TableTypeOK
    <3> QED
      BY <1>1, <3>1, <3>3 DEF TableTypeOK
  <2> QED
    BY <1>1, <2>1, <2>2 DEF Leads
<1> QED
  BY <1>8, <1>9, <1>10

LEMMA InsertTaskNames ==
  ASSUME TableTypeOK, RefTypeOK, NameInv, NEW t \in Tasks, InsertTask(t)
  PROVE  NameInv'
<1>1. /\ t \in Waiting /\ creating[t] = "task"
      /\ keys' = [keys EXCEPT !["task"] = @ \cup {drawn[t]}]
      /\ taskIds' = taskIds \cup {drawn[t]}
      /\ creating' = [creating EXCEPT ![t] = "no"]
      /\ drawn' = [drawn EXCEPT ![t] = 0]
      /\ UNCHANGED <<channels, object, idgen, entry, named, draws, overtaken>>
  BY DEF InsertTask, Waiting, chanVars, refVars
<1>2. Keyed'
  BY <1>1 DEF NameInv, Keyed, TableTypeOK, Kinds
<1>3. Idle' /\ Made'
  BY <1>1 DEF NameInv, Idle, Made, TableTypeOK
<1>4. \A u \in Waiting' : u \in Waiting /\ u # t /\ drawn'[u] = drawn[u] /\ creating'[u] = creating[u]
  BY <1>1 DEF Waiting, TableTypeOK
<1>5. ASSUME Behind, Apart, Free, Leads PROVE Behind' /\ Apart' /\ Free' /\ Leads'
  <2>1. Behind' /\ Apart'
    BY <1>1, <1>4, <1>5 DEF Behind, Apart
  <2>2. Free'
    BY <1>1, <1>4, <1>5 DEF Free, Apart
  <2>3. Leads'
    BY <1>1, <1>5 DEF Leads
  <2> QED
    BY <2>1, <2>2, <2>3
<1> QED
  BY <1>1, <1>2, <1>3, <1>5 DEF NameInv

LEMMA AbandonTaskNames ==
  ASSUME TableTypeOK, NameInv, NEW t \in Tasks, AbandonTask(t)
  PROVE  NameInv'
<1>1. /\ creating' = [creating EXCEPT ![t] = "no"]
      /\ drawn' = [drawn EXCEPT ![t] = 0]
      /\ UNCHANGED <<channels, object, idgen, keys, entry, taskIds, named, draws, overtaken>>
  BY DEF AbandonTask, chanVars, refVars, tableVars
<1>2. Keyed' /\ Idle' /\ Made'
  BY <1>1 DEF NameInv, Keyed, Idle, Made, TableTypeOK
<1>3. \A u \in Waiting' : u \in Waiting /\ drawn'[u] = drawn[u] /\ creating'[u] = creating[u]
  BY <1>1 DEF Waiting, TableTypeOK
<1>4. Behind /\ Apart /\ Free /\ Leads => Behind' /\ Apart' /\ Free' /\ Leads'
  BY <1>1, <1>3 DEF Behind, Apart, Free, Leads
<1> QED
  BY <1>1, <1>2, <1>4 DEF NameInv

LEMMA CloseNames ==
  ASSUME TableTypeOK, RefTypeOK, NameInv, NEW i \in Ids, Close(i)
  PROVE  NameInv'
<1>1. UNCHANGED <<idgen, taskIds, named, creating, drawn, draws, overtaken>>
  BY DEF Close, creationVars
<1>2. CASE entry[i] = NoChannel
  <2>1. /\ keys' = [keys EXCEPT !["channel"] = @ \cup {i}]
        /\ UNCHANGED <<channels, object, entry>>
    BY <1>2 DEF Close, chanVars, refVars
  <2>2. Keyed'
    BY <1>1, <2>1 DEF NameInv, Keyed, TableTypeOK, Kinds
  <2> QED
    BY <1>1, <2>1, <2>2 DEF NameInv, Idle, Made, Behind, Apart, Free, Leads, Waiting
<1>3. CASE entry[i] # NoChannel
  <2>1. /\ channels' = channels \ {entry[i]} /\ object[entry[i]] = "live"
        /\ object' = [object EXCEPT ![entry[i]] = IF Down(counter[entry[i]]) = 0 THEN "deleted" ELSE @]
        /\ keys' = [keys EXCEPT !["channel"] = @ \ {i}]
        /\ entry' = [entry EXCEPT ![i] = NoChannel]
    BY <1>3 DEF Close, CloseChannel, Drop
  <2>2. Keyed'
    BY <1>1, <2>1 DEF NameInv, Keyed, TableTypeOK, Kinds
  <2>3. Idle' /\ Made'
    BY <1>1, <2>1 DEF NameInv, Idle, Made, RefTypeOK
  <2>4. ASSUME Behind, Apart, Free, Leads PROVE Behind' /\ Apart' /\ Free' /\ Leads'
    <3>1. Waiting' = Waiting
      BY <1>1 DEF Waiting
    <3>2. Behind' /\ Apart'
      BY <1>1, <2>4, <3>1 DEF Behind, Apart
    <3>3. Free'
      BY <1>1, <2>1, <2>4, <3>1 DEF Free, TableTypeOK
    <3>4. Leads'
      <4> SUFFICES ASSUME NEW c \in channels, c # entry[i] PROVE entry'[named[c]] = c
        BY <1>1, <2>1 DEF Leads
      <4>1. entry[named[c]] = c
        BY <2>4 DEF Leads
      <4> QED
        BY <2>1, <4>1 DEF TableTypeOK
    <3> QED
      BY <3>2, <3>3, <3>4
  <2> QED
    BY <1>1, <2>2, <2>3, <2>4 DEF NameInv
<1> QED
  BY <1>2, <1>3

\* The steps that touch neither the values of the tables nor the creations.
LEMMA OtherNames ==
  ASSUME TableTypeOK, RefTypeOK, NameInv, UNCHANGED <<idgen, entry, named, drawn, draws, overtaken, channels>>,
         taskIds' \subseteq taskIds, taskIds' \subseteq keys'["task"],
         keys["channel"] \subseteq keys'["channel"],
         \A t \in Tasks : creating'[t] = creating[t] \/ (creating'[t] # "no" /\ drawn[t] = 0),
         \A c \in Channels : object[c] # "none" => object'[c] # "none"
  PROVE  NameInv'
<1>1. Waiting' = Waiting /\ \A t \in Waiting : creating'[t] = creating[t]
  BY DEF Waiting
<1>2. Keyed' /\ Idle' /\ Made'
  BY DEF NameInv, Keyed, Idle, Made
<1>3. Behind /\ Apart /\ Free /\ Leads => Behind' /\ Apart' /\ Free' /\ Leads'
  BY <1>1 DEF Behind, Apart, Free, Leads
<1> QED
  BY <1>2, <1>3 DEF NameInv

LEMMA NameInvStep == TableTypeOK /\ RefTypeOK /\ NameInv /\ [TableNext]_vars => NameInv'
<1> SUFFICES ASSUME TableTypeOK, RefTypeOK, NameInv, [TableNext]_vars PROVE NameInv'
  OBVIOUS
<1> USE DEF vars, creationVars, tableVars, chanVars, refVars
<1>1. ASSUME NEW t \in Tasks, NEW kind \in Kinds, Begin(t, kind) PROVE NameInv'
  <2>1. kind # "no" /\ drawn[t] = 0
    BY <1>1 DEF Begin, Kinds, NameInv, Idle
  <2> QED
    BY <1>1, <2>1, OtherNames DEF Begin, NameInv, Keyed, TableTypeOK
<1>2. ASSUME NEW i \in Ids, EndTask(i) PROVE NameInv'
  BY <1>2, OtherNames DEF EndTask, NameInv, Keyed, TableTypeOK, Kinds
<1>3. ASSUME NEW i \in Ids, ResumeEnded(i) PROVE NameInv'
  BY <1>3, OtherNames DEF ResumeEnded, NameInv, Keyed, TableTypeOK, Kinds
<1>4. ASSUME NEW t \in Tasks, NEW i \in Ids, Lookup(t, i) PROVE NameInv'
  <2>1. /\ UNCHANGED <<idgen, entry, named, drawn, draws, overtaken, channels, taskIds, creating>>
        /\ \A c \in Channels : object[c] # "none" => object'[c] # "none"
    BY <1>4 DEF Lookup, GetChannel, RefTypeOK
  <2>2. keys["channel"] \subseteq keys'["channel"] /\ keys'["task"] = keys["task"]
    BY <1>4 DEF Lookup, TableTypeOK, Kinds
  <2> QED
    BY <2>1, <2>2, OtherNames DEF NameInv, Keyed
<1>5. ASSUME NEW t \in Tasks, EndCall(t) PROVE NameInv'
  <2>1. /\ UNCHANGED <<idgen, keys, entry, named, drawn, draws, overtaken, channels, taskIds, creating>>
        /\ \A c \in Channels : object[c] # "none" => object'[c] # "none"
    BY <1>5 DEF EndCall, Release, Forget, Drop, RefTypeOK
  <2> QED
    BY <2>1, OtherNames DEF NameInv, Keyed
<1>6. CASE UNCHANGED vars
  BY <1>6, OtherNames DEF NameInv, Keyed
<1> QED
  BY <1>1, <1>2, <1>3, <1>4, <1>5, <1>6, DrawNames, InsertChannelNames, InsertTaskNames, AbandonTaskNames, CloseNames
     DEF TableNext

\* An id leads to the channel it was returned for until that is closed, and no
\* task is created under the id of one that lives, for any number of creations
\* that draw and insert in any order, unless one of them waits while all the
\* ids are drawn.
THEOREM IdsLeadToTheirOwn == TableSpec => []IdsLead
<1>1. TableInit => NameInv
  BY DEF TableInit, Init, NameInv, Keyed, Idle, Made, Behind, Apart, Free, Leads, Waiting, Kinds
<1>2. NameInv => IdsLead
  <2> SUFFICES ASSUME NameInv, ~overtaken PROVE IdsLead
    BY DEF IdsLead
  <2>1. Leads /\ Free
    BY DEF NameInv
  <2> QED
    BY <2>1 DEF IdsLead, Leads, Free
<1> QED
  BY <1>1, <1>2, TableTypeInit, TableTypeStep, NameInvStep, RefsCounted, TableImplementsChannel, PTL
     DEF TableSpec
=============================================================================
