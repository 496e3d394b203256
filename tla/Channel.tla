------------------------------ MODULE Channel ------------------------------
(***************************************************************************)
(* The message channels of iolua (iolua/ltask/channel.cpp, and the channel *)
(* table of scheduler.cpp): a FIFO queue of messages, a FIFO queue of the  *)
(* ids of tasks that found it empty, and a reference counter that decides  *)
(* when the C++ object is deleted.                                         *)
(*                                                                         *)
(* The table _channels is read and written inside scheduler::_mutex, the   *)
(* two queues inside channel::_mutex, and the counter is atomic, so each   *)
(* operation below is one step.  A caller keeps the pointer it got from    *)
(* get_channel in a local variable of its C++ frame, ref[t] here, until    *)
(* the frame drops the reference with close or ends without dropping it.   *)
(*                                                                         *)
(* Channels are the objects; how they get ids is in ChannelTable.  What a  *)
(* call does to an object that was deleted is undefined: every operation   *)
(* here asks for a live one, and NoUseAfterFree says when there is one.    *)
(***************************************************************************)
EXTENDS Integers, Sequences, FiniteSets

CONSTANTS
  Tasks,       \* the tasks, whose C++ frames call these operations
  Channels,    \* the channel objects
  NoChannel,   \* a frame without a channel pointer, or a null one
  Msgs,        \* what can be pushed
  IntSize      \* how many values the int _counter has: 2^32

ASSUME ChannelAssumption ==
  /\ IsFiniteSet(Tasks)
  /\ NoChannel \notin Channels
  /\ IntSize \in Nat /\ IntSize > Cardinality(Tasks) + 1

VARIABLES
  channels,    \* the channels whose entry in scheduler::_channels was not erased
  object,      \* the C++ object: "none", "live" or "deleted"
  counter,     \* _counter
  data,        \* _data
  blockings,   \* _blockings
  ref,         \* the channel pointer in each task's C++ frame
  lost         \* history: how many references of it nobody will drop

refVars == <<channels, object, counter, ref, lost>>
chanVars == <<refVars, data, blockings>>

-----------------------------------------------------------------------------
(* References.                                                             *)

\* Mutant: the counter has no width.
UpUnbounded(n) == n + 1

\* ++ and -- on the atomic int, which comes round.
Up(n) == IF n = IntSize - 1 THEN 0 ELSE n + 1
Down(n) == IF n = 0 THEN IntSize - 1 ELSE n - 1

\* Mutant: the last reference does not delete the object.
DropOnly(c) ==
  /\ object[c] = "live"
  /\ counter' = [counter EXCEPT ![c] = Down(@)]
  /\ UNCHANGED object

\* channel::close: the counter that gets to zero deletes the object.
Drop(c) ==
  /\ object[c] = "live"
  /\ counter' = [counter EXCEPT ![c] = Down(@)]
  /\ object' = [object EXCEPT ![c] = IF Down(counter[c]) = 0 THEN "deleted" ELSE @]

\* create_channel: a fresh object with one reference, that of the table.
CreateChannel(c) ==
  /\ object[c] = "none"
  /\ object' = [object EXCEPT ![c] = "live"]
  /\ counter' = [counter EXCEPT ![c] = 1]
  /\ channels' = channels \cup {c}
  /\ UNCHANGED <<data, blockings, ref, lost>>

\* close_channel: the table gives up its entry and its reference.  Neither the
\* messages nor the blocked tasks are looked at.
CloseChannel(c) ==
  /\ c \in channels
  /\ Drop(c)
  /\ channels' = channels \ {c}
  /\ UNCHANGED <<data, blockings, ref, lost>>

\* Mutant: the pointer is taken without a reference.
GetUncounted(t, c) ==
  /\ ref[t] = NoChannel /\ c \in channels /\ object[c] = "live"
  /\ ref' = [ref EXCEPT ![t] = c]
  /\ UNCHANGED <<channels, object, counter, lost>>

\* get_channel, when the table has the channel: addref succeeds, or it finds
\* the counter at one, takes the object for revived, closes it and gives null.
GetChannel(t, c) ==
  /\ ref[t] = NoChannel
  /\ c \in channels /\ object[c] = "live"
  /\ IF Up(counter[c]) = 1
     THEN /\ object' = [object EXCEPT ![c] = "deleted"]
          /\ UNCHANGED <<counter, ref>>
     ELSE /\ counter' = [counter EXCEPT ![c] = Up(@)]
          /\ ref' = [ref EXCEPT ![t] = c]
          /\ UNCHANGED object
  /\ UNCHANGED <<channels, lost>>

\* raw_recv drops its reference before it returns ...
Release(t) ==
  /\ ref[t] # NoChannel
  /\ Drop(ref[t])
  /\ ref' = [ref EXCEPT ![t] = NoChannel]
  /\ UNCHANGED <<channels, lost>>

\* ... send and select let the pointer go and keep the reference counted.
Forget(t) ==
  /\ ref[t] # NoChannel
  /\ lost' = [lost EXCEPT ![ref[t]] = @ + 1]
  /\ ref' = [ref EXCEPT ![t] = NoChannel]
  /\ UNCHANGED <<channels, object, counter>>

-----------------------------------------------------------------------------
(* The two queues of the object the frame of t points to.                  *)

Holds(t) == ref[t] # NoChannel /\ object[ref[t]] = "live"

\* push: the message is queued and the first blocked task, if any, is taken
\* out; its caller resumes that task afterwards.
Push(t, m) ==
  /\ Holds(t)
  /\ data' = [data EXCEPT ![ref[t]] = Append(@, m)]
  /\ blockings' = [blockings EXCEPT ![ref[t]] = IF @ = <<>> THEN @ ELSE Tail(@)]

\* pop: the first message, or none.
Pop(t) ==
  /\ Holds(t)
  /\ data' = [data EXCEPT ![ref[t]] = IF @ = <<>> THEN @ ELSE Tail(@)]
  /\ UNCHANGED blockings

\* Mutant: a task that finds the queue empty is not remembered.
SelectForgets(t) == Holds(t) /\ UNCHANGED <<data, blockings>>

\* do_select: an empty queue remembers the task, once for every call.
DoSelect(t) ==
  /\ Holds(t)
  /\ blockings' = [blockings EXCEPT ![ref[t]] =
                     IF data[ref[t]] = <<>> THEN Append(@, t) ELSE @]
  /\ UNCHANGED data

-----------------------------------------------------------------------------
(* The channels with any callers: frames of any number of tasks that get a *)
(* channel, use it and let it go, with close or without.                   *)

Init ==
  /\ channels = {}
  /\ object = [c \in Channels |-> "none"]
  /\ counter = [c \in Channels |-> 0]
  /\ data = [c \in Channels |-> <<>>]
  /\ blockings = [c \in Channels |-> <<>>]
  /\ ref = [t \in Tasks |-> NoChannel]
  /\ lost = [c \in Channels |-> 0]

UseRefs(t) ==
  \/ \E c \in Channels : GetChannel(t, c)
  \/ Release(t)
  \/ Forget(t)

UseQueues(t) ==
  \/ \E m \in Msgs : Push(t, m)
  \/ Pop(t)
  \/ DoSelect(t)

Next ==
  \/ \E c \in Channels : CreateChannel(c) \/ CloseChannel(c)
  \/ \E t \in Tasks : \/ UseRefs(t) /\ UNCHANGED <<data, blockings>>
                      \/ UseQueues(t) /\ (Forget(t) \/ UNCHANGED refVars)

Spec == Init /\ [][Next]_chanVars

-----------------------------------------------------------------------------
(* Properties.                                                             *)

\* The type invariant of the channel table, the objects and the frames.
TypeOK ==
  /\ channels \in SUBSET Channels
  /\ object \in [Channels -> {"none", "live", "deleted"}]
  /\ counter \in [Channels -> 0..IntSize - 1]
  /\ data \in [Channels -> Seq(Msgs)]
  /\ blockings \in [Channels -> Seq(Tasks)]
  /\ ref \in [Tasks -> Channels \cup {NoChannel}]
  /\ lost \in [Channels -> Nat]

Holders(c) == {t \in Tasks : ref[t] = c}

\* The references that some close will drop: the table's and the frames'.
Owned(c) == Cardinality(Holders(c)) + (IF c \in channels THEN 1 ELSE 0)

\* So few references of c were lost that its int holds all there can be.
Few(c) == lost[c] + Cardinality(Tasks) + 1 < IntSize

\* The object behind a table entry or a pointer in a frame is never deleted,
\* whatever closes the channel between get_channel and the end of the frame,
\* until the sends and selects that lose a reference have used up the counter.
NoUseAfterFree ==
  \A c \in Channels : Few(c) =>
    /\ c \in channels => object[c] = "live"
    /\ \A t \in Tasks : ref[t] = c => object[c] = "live"

\* An object lives exactly as long as there is a reference that nobody dropped:
\* one that send or select lost keeps it for ever.
Reclaimed ==
  \A c \in Channels : Few(c) => (object[c] = "live" <=> Owned(c) + lost[c] > 0)
=============================================================================
