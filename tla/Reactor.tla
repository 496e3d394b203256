------------------------------ MODULE Reactor ------------------------------
(***************************************************************************)
(* The reactor of lemon (lemon/io/reactor_io_service.hpp and the headers   *)
(* around it).  An operation first tries its system call.  If the call     *)
(* would block, the operation is linked into the list its object keeps for *)
(* its direction, and the dispatcher thread tries it again when epoll or   *)
(* kqueue report the descriptor.  An operation that is done is linked into *)
(* the completion queue, from where run_one takes it, calls its callback   *)
(* and deletes it.                                                         *)
(*                                                                         *)
(* The lists are linked through the operations' own field next, as in the  *)
(* code.  reactor_io_service::_mutex is the variable mutex where the       *)
(* dispatcher holds it over several steps; any other section of it is one  *)
(* step that needs it free.  Stream operations are linked in inside the    *)
(* mutex, socket operations without it: each of their reads and stores is  *)
(* a step, and so is each store of the dispatcher that they can see.       *)
(*                                                                         *)
(* A null pointer or a deleted operation that is dereferenced ends the     *)
(* model: what the program does then is undefined.                         *)
(***************************************************************************)
EXTENDS Integers, Sequences, FiniteSets

CONSTANTS
  Ops,         \* the operations
  Null,        \* the null pointer
  Fds,         \* the descriptors of the objects
  FdOf,        \* FdOf[o]: the descriptor of operation o
  DirOf,       \* DirOf[o]: "read" (read, recv, accept) or "write" (send, connect)
  Streams,     \* the operations of reactor_io_stream, the others are of sockets
  Backend,     \* "epoll" or "kqueue"
  Runners,     \* the threads that call run_one in a loop
  Timed,       \* whether they call it with a timeout
  Active,      \* the lists that events come for
  MaxPending,  \* how many operations wait in one list at most
  MaxAvail     \* bound: what one direction of a descriptor has ready

Dirs == {"read", "write"}
Lists == Fds \X Dirs
ListOf(o) == <<FdOf[o], DirOf[o]>>

ASSUME ReactorAssumption ==
  /\ Null \notin Ops /\ IsFiniteSet(Ops) /\ IsFiniteSet(Fds)
  /\ FdOf \in [Ops -> Fds] /\ DirOf \in [Ops -> Dirs]
  /\ \A o, p \in Ops : FdOf[o] = FdOf[p] => (o \in Streams <=> p \in Streams)
  /\ Backend \in {"epoll", "kqueue"}
  /\ Timed \in BOOLEAN /\ Active \subseteq Lists
  /\ MaxPending \in Nat \ {0} /\ MaxAvail \in Nat \ {0}

VARIABLES
  stage,      \* where each operation stands
  next,       \* reactor_op::next
  header,     \* _read_header and _write_header of each object
  tail,       \* _read_tail and _write_tail
  left,       \* what a push without the mutex has still to do
  seen,       \* the tail it has read
  cHead,      \* _complete_header
  cTail,      \* _complete_tail
  mutex,      \* whether the dispatcher holds _mutex
  batch,      \* what the dispatcher has still to invoke: descriptor, direction
  held,       \* the operation that it pops, its local variable op
  clears,     \* whether that was the last one of its list
  raised,     \* whether it has completed an operation of this batch
  events,     \* the ops fields of its array of events, never cleared
  handlers,   \* _handlers: the descriptors of the objects that are registered
  edges,      \* the lists the kernel has an event for that it has not reported
  avail,      \* how many operations on each list the kernel has ready
  rpc,        \* where each runner stands in run_one
  got,        \* the operation it took
  broken,     \* a pointer was dereferenced that points to no operation
  crowded     \* history: two operations have waited in one list

opVars     == <<stage, next, header, tail, left, seen>>
queueVars  == <<cHead, cTail>>
dispVars   == <<mutex, batch, held, clears, raised, events>>
kernelVars == <<edges, avail>>
runVars    == <<rpc, got>>
flags      == <<broken, crowded>>
vars == <<opVars, queueVars, dispVars, handlers, kernelVars, runVars, flags>>

\* What may be dereferenced.
Valid(p) == p \in Ops /\ stage[p] # "deleted"

-----------------------------------------------------------------------------
(* Starting an operation, in any thread.                                   *)

Waiting(l) ==
  {o \in Ops : ListOf(o) = l /\ stage[o] \in {"again", "pending", "popped"}}

\* The system call is tried: it is done, or would block.
Try(o) ==
  LET l == ListOf(o) IN
  /\ stage[o] = "idle" /\ FdOf[o] \in handlers
  /\ Cardinality(Waiting(l)) < MaxPending
  /\ \/ /\ avail[l] > 0
        /\ avail' = [avail EXCEPT ![l] = @ - 1]
        /\ stage' = [stage EXCEPT ![o] = "done"]
        /\ UNCHANGED crowded
     \/ /\ avail[l] = 0
        /\ stage' = [stage EXCEPT ![o] = "again"]
        /\ IF Waiting(l) = {} THEN UNCHANGED crowded ELSE crowded' = TRUE
        /\ UNCHANGED avail
  /\ UNCHANGED <<next, header, tail, left, seen, queueVars, dispVars, handlers, edges, runVars, broken>>

\* Mutant: the queue's last operation is not linked to the new one.
EnqueueUnlinked(o) ==
  /\ IF cHead = Null THEN cHead' = o ELSE UNCHANGED cHead
  /\ cTail' = o
  /\ UNCHANGED next

\* complete(op), and the end of invoke_io_op: append to the completion queue.
Enqueue(o) ==
  /\ IF cHead = Null THEN cHead' = o /\ UNCHANGED next
     ELSE Valid(cTail) /\ next' = [next EXCEPT ![cTail] = o] /\ UNCHANGED cHead
  /\ cTail' = o

\* An operation that is done at once goes to the queue, and nobody is told.
Complete(o) ==
  /\ stage[o] = "done" /\ ~mutex
  /\ Enqueue(o)
  /\ stage' = [stage EXCEPT ![o] = "ready"]
  /\ UNCHANGED <<header, tail, left, seen, dispVars, handlers, kernelVars, runVars, flags>>

\* reactor_io_object::push by a stream: all of it inside the mutex.
Push(o) ==
  LET l == ListOf(o) IN
  /\ stage[o] = "again" /\ o \in Streams /\ ~mutex
  /\ IF header[l] = Null THEN header' = [header EXCEPT ![l] = o] /\ UNCHANGED next
     ELSE Valid(tail[l]) /\ next' = [next EXCEPT ![tail[l]] = o] /\ UNCHANGED header
  /\ tail' = [tail EXCEPT ![l] = o]
  /\ stage' = [stage EXCEPT ![o] = "pending"]
  /\ UNCHANGED <<left, seen, queueVars, dispVars, handlers, kernelVars, runVars, flags>>

\* By a socket, without the mutex: it looks at the header ...
PushTest(o) ==
  /\ stage[o] = "again" /\ o \notin Streams /\ left[o] = "none"
  /\ left' = [left EXCEPT ![o] = IF header[ListOf(o)] = Null THEN "both" ELSE "read"]
  /\ UNCHANGED <<stage, next, header, tail, seen, queueVars, dispVars, handlers, kernelVars, runVars, flags>>

\* ... and stores itself as the header and the tail of an empty list, in either
\* order ...
PushHeader(o) ==
  /\ left[o] \in {"both", "header"}
  /\ header' = [header EXCEPT ![ListOf(o)] = o]
  /\ stage' = [stage EXCEPT ![o] = "pending"]
  /\ left' = [left EXCEPT ![o] = IF @ = "both" THEN "tail" ELSE "none"]
  /\ UNCHANGED <<next, tail, seen, queueVars, dispVars, handlers, kernelVars, runVars, flags>>

PushTail(o) ==
  /\ left[o] \in {"both", "tail"}
  /\ tail' = [tail EXCEPT ![ListOf(o)] = o]
  /\ left' = [left EXCEPT ![o] = IF @ = "both" THEN "header" ELSE "none"]
  /\ UNCHANGED <<stage, next, header, seen, queueVars, dispVars, handlers, kernelVars, runVars, flags>>

\* ... or reads the tail, and stores itself behind that operation, wherever that
\* is by now, before it becomes the tail.
PushRead(o) ==
  /\ left[o] = "read"
  /\ seen' = [seen EXCEPT ![o] = tail[ListOf(o)]]
  /\ left' = [left EXCEPT ![o] = "link"]
  /\ UNCHANGED <<stage, next, header, tail, queueVars, dispVars, handlers, kernelVars, runVars, flags>>

PushLink(o) ==
  /\ left[o] = "link" /\ Valid(seen[o])
  /\ next' = [next EXCEPT ![seen[o]] = o]
  /\ stage' = [stage EXCEPT ![o] = "pending"]
  /\ seen' = [seen EXCEPT ![o] = Null]
  /\ left' = [left EXCEPT ![o] = "tail"]
  /\ UNCHANGED <<header, tail, queueVars, dispVars, handlers, kernelVars, runVars, flags>>

-----------------------------------------------------------------------------
(* The dispatcher thread.                                                  *)

\* What the kernel reports at once: for epoll the descriptors that had an event
\* since it last reported them and are ready for something, for kqueue, which has
\* a filter for each direction, the filters for which both hold.
Reports ==
  IF Backend = "epoll"
  THEN {{fd} \X {d \in Dirs : avail[<<fd, d>>] > 0} : fd \in {l[1] : l \in edges}} \ {{}}
  ELSE {{l} : l \in {k \in edges : avail[k] > 0}}

\* The bits that io_events_wait sets: epoll maps EPOLLIN and EPOLLOUT to that of
\* read; kqueue tests filters, which are small negative numbers, as if they were
\* bits.
Bits(report) == IF Backend = "epoll" THEN {"read"} ELSE Dirs

Orders(reports) ==
  {q \in [1..Cardinality(reports) -> reports] : {q[i] : i \in DOMAIN q} = reports}

\* Mutant: the bit of write is looked at only when that of read is not set.
UnfoldEither(fds, ops) ==
  {[i \in DOMAIN fds |-> <<fds[i], IF "read" \in ops[i] THEN "read" ELSE "write">>]}

\* Mutant: only the first event is looked at.
UnfoldFirst(fds, ops) ==
  {SelectSeq(<< <<fds[1], "read">>, <<fds[1], "write">> >>, LAMBDA l : l[2] \in ops[1])}

Increasing(S) ==
  {q \in [1..Cardinality(S) -> S] : \A i, j \in DOMAIN q : i < j => q[i] < q[j]}

\* For each event in turn the lists whose bits are set, read before write: the
\* one sequence of them.
Unfold(fds, ops) ==
  LET pair(i) == IF i % 2 = 1 THEN <<fds[(i + 1) \div 2], "read">> ELSE <<fds[i \div 2], "write">>
      set     == {i \in 1..2 * Len(fds) : pair(i)[2] \in ops[(i + 1) \div 2]}
  IN {[j \in DOMAIN q |-> pair(q[j])] : q \in Increasing(set)}

\* epoll_wait or kevent returns the events, in some order.
IoEventsWait ==
  /\ ~mutex /\ batch = <<>> /\ Reports # {}
  /\ edges' = {}
  /\ \E q \in Orders(Reports) :
       LET fds == [i \in DOMAIN q |-> (CHOOSE l \in q[i] : TRUE)[1]] IN
       /\ events' = [i \in DOMAIN events |->
                       IF i \in DOMAIN q THEN events[i] \cup Bits(q[i]) ELSE events[i]]
       /\ batch' \in Unfold(fds, events')
  /\ UNCHANGED <<opVars, queueVars, mutex, held, clears, raised, handlers, avail, runVars, flags>>

\* process gets the mutex for the whole batch ...
Lock ==
  /\ ~mutex /\ batch # <<>>
  /\ mutex' = TRUE
  /\ UNCHANGED <<opVars, queueVars, batch, held, clears, raised, events, handlers, kernelVars, runVars, flags>>

Front == header[Head(batch)]

\* Mutant: the front operation is queued whether its call was done or not.
InvokableAnyway == Head(batch)[1] \in handlers /\ Front # Null

\* The object is registered and its front operation does not block any more.
Invokable == Head(batch)[1] \in handlers /\ Front # Null /\ avail[Head(batch)] > 0

\* Mutant: a done operation stays at the front of its list.
PopNothing(l) == clears' = (next[header[l]] = Null) /\ UNCHANGED header

\* The first half of reactor_io_object::pop: the header goes on to the next
\* operation, and the field next is left as it is.
Pop(l) ==
  /\ header' = [header EXCEPT ![l] = next[header[l]]]
  /\ clears' = (next[header[l]] = Null)

\* ... and invokes for each bit of each event the front operation of the list, which
\* it pops when that does not block ...
Invoke ==
  LET l == Head(batch) IN
  /\ mutex /\ batch # <<>> /\ held = Null
  /\ \/ /\ Invokable /\ Valid(Front)
        /\ avail' = [avail EXCEPT ![l] = @ - 1]
        /\ Pop(l)
        /\ held' = Front
        /\ stage' = [stage EXCEPT ![Front] = "popped"]
        /\ UNCHANGED batch
     \/ /\ ~Invokable /\ (l[1] \in handlers /\ Front # Null => Valid(Front))
        /\ batch' = Tail(batch)
        /\ UNCHANGED <<stage, header, clears, held, avail>>
  /\ UNCHANGED <<next, tail, left, seen, queueVars, mutex, raised, events, handlers, edges, runVars, flags>>

\* ... while the second half clears the tail of a list that is empty now: by the
\* header it has stored or, read again, by the one that is there.  The operation
\* goes to the completion queue.
Invoked ==
  LET l == Head(batch) IN
  /\ held # Null
  /\ \/ clears /\ tail' = [tail EXCEPT ![l] = Null]
     \/ (clears => header[l] # Null) /\ UNCHANGED tail
  /\ Enqueue(held)
  /\ stage' = [stage EXCEPT ![held] = IF @ = "deleted" THEN @ ELSE "ready"]
  /\ batch' = Tail(batch)
  /\ held' = Null /\ clears' = FALSE
  /\ raised' = TRUE
  /\ UNCHANGED <<header, left, seen, mutex, events, handlers, kernelVars, runVars, flags>>

\* At the end of the batch it tells every runner if there is something to run.
Unlock ==
  /\ mutex /\ batch = <<>>
  /\ mutex' = FALSE
  /\ raised' = FALSE
  /\ rpc' = [r \in Runners |-> IF raised /\ rpc[r] = "waiting" THEN "notified" ELSE rpc[r]]
  /\ UNCHANGED <<opVars, queueVars, batch, held, clears, events, handlers, kernelVars, got, flags>>

-----------------------------------------------------------------------------
(* run_one.                                                                *)

Take(r) ==
  /\ Valid(cHead)
  /\ got' = [got EXCEPT ![r] = cHead]
  /\ rpc' = [rpc EXCEPT ![r] = "callback"]
  /\ stage' = [stage EXCEPT ![cHead] = "running"]
  /\ cHead' = next[cHead]
  /\ cTail' = IF cTail = cHead THEN Null ELSE cTail

\* With an empty queue the call waits ...
RunOne(r) ==
  /\ rpc[r] = "idle" /\ ~mutex
  /\ \/ Take(r)
     \/ cHead = Null /\ rpc' = [rpc EXCEPT ![r] = "waiting"]
        /\ UNCHANGED <<stage, got, queueVars>>
  /\ UNCHANGED <<next, header, tail, left, seen, dispVars, handlers, kernelVars, flags>>

\* ... and after the wait, for whatever reason it ended, it looks once more;
Woken(r) ==
  /\ rpc[r] = "notified" /\ ~mutex
  /\ \/ Take(r)
     \/ cHead = Null /\ rpc' = [rpc EXCEPT ![r] = "idle"]
        /\ UNCHANGED <<stage, got, queueVars>>
  /\ UNCHANGED <<next, header, tail, left, seen, dispVars, handlers, kernelVars, flags>>

SpuriousWakeup(r) ==
  /\ rpc[r] = "waiting"
  /\ rpc' = [rpc EXCEPT ![r] = "notified"]
  /\ UNCHANGED <<opVars, queueVars, dispVars, handlers, kernelVars, got, flags>>

\* a timeout returns without a look.
Timeout(r) ==
  /\ Timed /\ rpc[r] = "waiting"
  /\ rpc' = [rpc EXCEPT ![r] = "idle"]
  /\ UNCHANGED <<opVars, queueVars, dispVars, handlers, kernelVars, got, flags>>

\* The callback has been called, without the mutex, and the operation deleted with
\* its field next.
Callback(r) ==
  /\ rpc[r] = "callback" /\ Valid(got[r])
  /\ rpc' = [rpc EXCEPT ![r] = "idle"]
  /\ stage' = [stage EXCEPT ![got[r]] = "deleted"]
  /\ next' = [next EXCEPT ![got[r]] = Null]
  /\ got' = [got EXCEPT ![r] = Null]
  /\ UNCHANGED <<header, tail, left, seen, queueVars, dispVars, handlers, kernelVars, flags>>

-----------------------------------------------------------------------------
(* The kernel and the owners of the objects.                               *)

\* Data, a connection or room in a buffer: an event for the descriptor.
Arrive(l) ==
  /\ l \in Active /\ l[1] \in handlers
  /\ avail' = [avail EXCEPT ![l] = IF @ < MaxAvail THEN @ + 1 ELSE @]
  /\ edges' = edges \cup {l}
  /\ UNCHANGED <<opVars, queueVars, dispVars, handlers, runVars, flags>>

\* An object is destroyed, by an owner that is not starting an operation on it.
\* The operations in its lists are left behind.
Unregister(fd) ==
  /\ fd \in handlers /\ ~mutex
  /\ \A o \in Ops : FdOf[o] = fd => stage[o] # "again" /\ left[o] = "none"
  /\ handlers' = handlers \ {fd}
  /\ edges' = {l \in edges : l[1] # fd}
  /\ header' = [l \in Lists |-> IF l[1] = fd THEN Null ELSE header[l]]
  /\ tail' = [l \in Lists |-> IF l[1] = fd THEN Null ELSE tail[l]]
  /\ stage' = [o \in Ops |-> IF FdOf[o] = fd /\ stage[o] = "pending" THEN "leaked" ELSE stage[o]]
  /\ UNCHANGED <<next, left, seen, queueVars, dispVars, avail, runVars, flags>>

-----------------------------------------------------------------------------
(* Undefined behaviour.                                                    *)

At(s) == {o \in Ops : stage[o] = s}

\* What a thread dereferences next is null or deleted: the tail that a push links
\* to or that of the queue, a front operation, the one at the head of the queue, or
\* the one that a runner calls.
Stray ==
  \/ \E o \in Ops : left[o] = "link" /\ ~Valid(seen[o])
  \/ ~mutex /\ \E o \in At("again") \cap Streams :
       header[ListOf(o)] # Null /\ ~Valid(tail[ListOf(o)])
  \/ (held # Null \/ (~mutex /\ At("done") # {})) /\ cHead # Null /\ ~Valid(cTail)
  \/ mutex /\ held = Null /\ batch # <<>> /\ Head(batch)[1] \in handlers
       /\ Front # Null /\ ~Valid(Front)
  \/ ~mutex /\ cHead # Null /\ ~Valid(cHead)
       /\ \E r \in Runners : rpc[r] \in {"idle", "notified"}
  \/ \E r \in Runners : rpc[r] = "callback" /\ ~Valid(got[r])

Break ==
  /\ Stray
  /\ broken' = TRUE
  /\ UNCHANGED <<opVars, queueVars, dispVars, handlers, kernelVars, runVars, crowded>>

-----------------------------------------------------------------------------
\* The entries of the array of events that are used.
Slots == 1..Cardinality(IF Backend = "epoll" THEN Fds ELSE Lists)

\* The array of events is not initialised.  With kqueue that makes no difference,
\* as every event sets both bits.
Init ==
  /\ stage = [o \in Ops |-> "idle"]
  /\ next = [o \in Ops |-> Null]
  /\ header = [l \in Lists |-> Null]
  /\ tail = [l \in Lists |-> Null]
  /\ left = [o \in Ops |-> "none"] /\ seen = [o \in Ops |-> Null]
  /\ cHead = Null /\ cTail = Null
  /\ mutex = FALSE /\ batch = <<>> /\ raised = FALSE
  /\ held = Null /\ clears = FALSE
  /\ IF Backend = "epoll" THEN events \in [Slots -> SUBSET Dirs]
     ELSE events = [i \in Slots |-> Dirs]
  /\ handlers = Fds
  /\ edges = {}
  /\ avail = [l \in Lists |-> 0]
  /\ rpc = [r \in Runners |-> "idle"]
  /\ got = [r \in Runners |-> Null]
  /\ broken = FALSE /\ crowded = FALSE

Start(o) ==
  \/ Complete(o)
  \/ Push(o)
  \/ PushTest(o) \/ PushHeader(o) \/ PushTail(o) \/ PushRead(o) \/ PushLink(o)

Dispatch == IoEventsWait \/ Lock \/ Invoke \/ Invoked \/ Unlock

Step ==
  \/ \E o \in Ops : Try(o) \/ Start(o)
  \/ Dispatch
  \/ \E r \in Runners : RunOne(r) \/ Woken(r) \/ SpuriousWakeup(r) \/ Timeout(r) \/ Callback(r)
  \/ \E l \in Lists : Arrive(l)
  \/ \E fd \in Fds : Unregister(fd)

Next == ~broken /\ (Step \/ Break)

(***************************************************************************)
(* Fairness.  Threads run, and a thread that asks for the mutex again and  *)
(* again gets it between two batches of the dispatcher.  The peers keep    *)
(* sending and reading, so that every descriptor has events again.         *)
(***************************************************************************)
Fairness ==
  /\ WF_vars(~broken /\ Dispatch)
  /\ \A o \in Ops : SF_vars(~broken /\ Start(o))
  /\ \A r \in Runners :
       /\ SF_vars(~broken /\ RunOne(r)) /\ SF_vars(~broken /\ Woken(r))
       /\ WF_vars(~broken /\ (Timeout(r) \/ Callback(r)))
  /\ \A l \in Lists : WF_vars(~broken /\ Arrive(l))

Spec == Init /\ [][Next]_vars /\ Fairness

-----------------------------------------------------------------------------
(* Properties.                                                             *)

Stages ==
  {"idle", "done", "again", "pending", "popped", "ready", "running", "deleted", "leaked"}

\* The type invariant of the lists, the queue and the threads' locals.
TypeOK ==
  /\ stage \in [Ops -> Stages]
  /\ next \in [Ops -> Ops \cup {Null}]
  /\ header \in [Lists -> Ops \cup {Null}] /\ tail \in [Lists -> Ops \cup {Null}]
  /\ left \in [Ops -> {"none", "both", "header", "tail", "read", "link"}]
  /\ seen \in [Ops -> Ops \cup {Null}]
  /\ {cHead, cTail} \subseteq Ops \cup {Null}
  /\ mutex \in BOOLEAN /\ raised \in BOOLEAN /\ clears \in BOOLEAN
  /\ held \in Ops \cup {Null} /\ (held # Null => mutex /\ batch # <<>>)
  /\ broken \in BOOLEAN /\ crowded \in BOOLEAN
  /\ batch \in Seq(Lists)
  /\ events \in [Slots -> SUBSET Dirs]
  /\ handlers \in SUBSET Fds /\ edges \in SUBSET Lists
  /\ avail \in [Lists -> 0..MaxAvail]
  /\ rpc \in [Runners -> {"idle", "waiting", "notified", "callback"}]
  /\ got \in [Runners -> Ops \cup {Null}]

\* The operations that the field next leads to from p: the least set with p that
\* next does not lead out of.
Closed(S) == \A o \in S : next[o] \in S \cup {Null}

Chain(p) == {o \in Ops : \A S \in SUBSET Ops : p \in S \cup {Null} /\ Closed(S) => o \in S}

\* As long as no two operations have waited in one list, the completion queue is
\* the operations that are done and wait for run_one, and ends with its tail.
QueueSound ==
  ~crowded =>
    /\ Chain(cHead) = At("ready")
    /\ cHead # Null => cTail \in Chain(cHead) /\ next[cTail] = Null

\* run_one takes completed operations only: what it pops is "the header complete
\* handler" of "the complete operation queue".
RunsCompleted ==
  [][\A o \in Ops : stage[o] # "running" /\ stage'[o] = "running" => stage[o] = "ready"]_vars

\* So long, a list of an object holds the operations that wait in it, and none that
\* has been completed or deleted, though sockets link without the mutex; and no
\* thread has dereferenced a null pointer or an operation that was deleted.
ListsSound ==
  ~crowded =>
    /\ ~broken
    /\ \A l \in Lists : l[1] \in handlers =>
         Chain(header[l]) = {o \in At("pending") : ListOf(o) = l}

\* The callback of an operation that is done is called, if run_one is called
\* with a timeout.
ReadyRuns == \A o \in Ops : stage[o] = "ready" ~> stage[o] = "deleted"

Served(o) == stage[o] = "pending" ~> stage[o] # "pending"

\* A waiting operation is completed when events keep coming, though an event
\* that falls between its first try and its push is lost.
ReadsServed  == \A o \in Ops : DirOf[o] = "read" => Served(o)
WritesServed == \A o \in Ops : DirOf[o] = "write" => Served(o)
=============================================================================
