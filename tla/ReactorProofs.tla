--------------------------- MODULE ReactorProofs ---------------------------
(***************************************************************************)
(* Proofs about Reactor, for any operations, descriptors and runners and   *)
(* either backend.  What is proved of the lists and of the completion      *)
(* queue holds as long as no two operations have waited in one list of an  *)
(* object (~crowded): the run reactor_two_reads shows that it does not     *)
(* hold otherwise.                                                         *)
(***************************************************************************)
EXTENDS Reactor, FiniteSetTheorems, TLAPS

-----------------------------------------------------------------------------
(* Types.                                                                  *)

LEMMA ListOfType == ASSUME NEW o \in Ops PROVE ListOf(o) \in Lists
BY ReactorAssumption DEF ListOf, Lists

LEMMA ListsFinite == IsFiniteSet(Lists)
<1>1. IsFiniteSet(Dirs)
  <2>1. Dirs = {"read"} \cup {"write"}
    BY DEF Dirs
  <2> QED
    BY <2>1, FS_Singleton, FS_Union
<1> QED
  BY <1>1, ReactorAssumption, FS_Product DEF Lists

LEMMA ReportTypes ==
  ASSUME edges \in SUBSET Lists
  PROVE  /\ IsFiniteSet(Reports)
         /\ \A report \in Reports : report # {} /\ report \in SUBSET Lists
<1>1. Reports \subseteq SUBSET Lists
  <2>1. CASE Backend = "epoll"
    <3>1. {l[1] : l \in edges} \subseteq Fds
      BY DEF Lists
    <3>2. ASSUME NEW fd \in Fds PROVE {fd} \X {d \in Dirs : avail[<<fd, d>>] > 0} \subseteq Lists
      BY DEF Lists
    <3> QED
      BY <2>1, <3>1, <3>2 DEF Reports
  <2>2. CASE Backend # "epoll"
    BY <2>2 DEF Reports
  <2> QED
    BY <2>1, <2>2
<1>2. {} \notin Reports
  BY DEF Reports
<1> QED
  BY <1>1, <1>2, ListsFinite, FS_SUBSET, FS_Subset

\* A batch is a sequence of lists.
LEMMA UnfoldType ==
  ASSUME NEW n \in Nat, NEW fds \in [1..n -> Fds], NEW ops, NEW q \in Unfold(fds, ops)
  PROVE  q \in Seq(Lists)
<1> DEFINE pair(i) == IF i % 2 = 1 THEN <<fds[(i + 1) \div 2], "read">> ELSE <<fds[i \div 2], "write">>
           set     == {i \in 1..2 * Len(fds) : pair(i)[2] \in ops[(i + 1) \div 2]}
<1>1. Len(fds) = n
  OBVIOUS
<1>2. ASSUME NEW i \in set PROVE pair(i) \in Lists
  <2>1. i \in 1..2 * n
    BY <1>1
  <2>2. CASE i % 2 = 1
    <3>1. (i + 1) \div 2 \in 1..n
      BY <2>1, <2>2
    <3> QED
      BY <2>2, <3>1 DEF Lists, Dirs
  <2>3. CASE i % 2 # 1
    <3>1. i \div 2 \in 1..n
      BY <2>1, <2>3
    <3> QED
      BY <2>3, <3>1 DEF Lists, Dirs
  <2> QED
    BY <2>2, <2>3
<1>3. Cardinality(set) \in Nat
  <2>1. IsFiniteSet(1..2 * Len(fds))
    BY <1>1, FS_Interval
  <2> QED
    BY <2>1, FS_Subset, FS_CardinalityType
<1>4. PICK p \in Increasing(set) : q = [j \in DOMAIN p |-> pair(p[j])]
  BY DEF Unfold
<1>5. p \in [1..Cardinality(set) -> set]
  BY DEF Increasing
<1> HIDE DEF pair, set
<1>6. q \in [1..Cardinality(set) -> Lists]
  BY <1>2, <1>4, <1>5
<1> QED
  BY <1>3, <1>6

LEMMA IoEventsWaitTypes == TypeOK /\ IoEventsWait => TypeOK'
<1> SUFFICES ASSUME TypeOK, IoEventsWait PROVE TypeOK'
  OBVIOUS
<1> DEFINE n == Cardinality(Reports)
           fdsOf(q) == [i \in DOMAIN q |-> (CHOOSE l \in q[i] : TRUE)[1]]
<1>1. PICK q \in Orders(Reports) :
        /\ events' = [i \in DOMAIN events |->
                        IF i \in DOMAIN q THEN events[i] \cup Bits(q[i]) ELSE events[i]]
        /\ batch' \in Unfold(fdsOf(q), events')
  BY DEF IoEventsWait
<1>2. n \in Nat /\ (\A report \in Reports : report # {} /\ report \in SUBSET Lists)
  BY ReportTypes, FS_CardinalityType DEF TypeOK
<1>3. q \in [1..n -> Reports]
  BY DEF Orders
<1>4. fdsOf(q) \in [1..n -> Fds]
  <2>1. ASSUME NEW i \in 1..n PROVE (CHOOSE l \in q[i] : TRUE)[1] \in Fds
    <3>1. q[i] # {} /\ q[i] \subseteq Lists
      BY <1>2, <1>3
    <3>2. (CHOOSE l \in q[i] : TRUE) \in Lists
      BY <3>1
    <3> QED
      BY <3>2 DEF Lists
  <2> QED
    BY <1>3, <2>1
<1> HIDE DEF fdsOf, n
<1>5. batch' \in Seq(Lists)
  BY <1>1, <1>2, <1>4, UnfoldType
<1>6. events' \in [Slots -> SUBSET Dirs]
  <2>1. \A report : Bits(report) \subseteq Dirs
    BY DEF Bits, Dirs
  <2> QED
    BY <1>1, <2>1 DEF TypeOK
<1> QED
  BY <1>5, <1>6 DEF IoEventsWait, opVars, queueVars, runVars, flags, TypeOK

LEMMA EnqueueTypes ==
  ASSUME TypeOK, NEW o \in Ops, Enqueue(o)
  PROVE  next' \in [Ops -> Ops \cup {Null}] /\ {cHead', cTail'} \subseteq Ops \cup {Null}
BY DEF Enqueue, TypeOK

LEMMA InvokeTypes == TypeOK /\ Invoke => TypeOK'
<1> SUFFICES ASSUME TypeOK, Invoke PROVE TypeOK'
  OBVIOUS
<1> DEFINE l == Head(batch)
<1> USE DEF opVars, queueVars, dispVars, kernelVars, runVars, flags, Stages
<1>1. l \in Lists /\ Tail(batch) \in Seq(Lists)
  BY DEF Invoke, TypeOK
<1>2. CASE Invokable
  <2>0. /\ avail' = [avail EXCEPT ![l] = @ - 1]
        /\ Pop(l) /\ held' = Front
        /\ stage' = [stage EXCEPT ![Front] = "popped"]
        /\ UNCHANGED batch
    BY <1>2 DEF Invoke
  <2>1. Front \in Ops /\ Front = header[l] /\ avail[l] \in 1..MaxAvail
    BY <1>1, <1>2, ReactorAssumption DEF Invokable, Front, TypeOK
  <2>2. header' \in [Lists -> Ops \cup {Null}] /\ clears' \in BOOLEAN
    BY <1>1, <2>0, <2>1 DEF Pop, TypeOK
  <2>3. stage' \in [Ops -> Stages]
    BY <2>0, <2>1 DEF TypeOK
  <2>4. avail' \in [Lists -> 0..MaxAvail]
    BY <1>1, <2>0, <2>1, ReactorAssumption DEF TypeOK
  <2>5. held' \in Ops \cup {Null} /\ (held' # Null => mutex' /\ batch' # <<>>)
    BY <2>0, <2>1 DEF Invoke
  <2> QED
    BY <2>0, <2>2, <2>3, <2>4, <2>5 DEF Invoke, TypeOK
<1>3. CASE ~Invokable
  BY <1>1, <1>3 DEF Invoke, TypeOK
<1> QED
  BY <1>2, <1>3

LEMMA InvokedTypes == TypeOK /\ Invoked => TypeOK'
<1> SUFFICES ASSUME TypeOK, Invoked PROVE TypeOK'
  OBVIOUS
<1> USE DEF opVars, queueVars, dispVars, kernelVars, runVars, flags, Stages
<1>1. /\ held \in Ops /\ mutex /\ batch # <<>>
      /\ Head(batch) \in Lists /\ Tail(batch) \in Seq(Lists)
  BY DEF Invoked, TypeOK
<1>2. next' \in [Ops -> Ops \cup {Null}] /\ {cHead', cTail'} \subseteq Ops \cup {Null}
  BY <1>1, EnqueueTypes DEF Invoked
<1>3. tail' \in [Lists -> Ops \cup {Null}]
  BY <1>1 DEF Invoked, TypeOK
<1>4. stage' \in [Ops -> Stages]
  BY <1>1 DEF Invoked, TypeOK
<1> QED
  BY <1>1, <1>2, <1>3, <1>4 DEF Invoked, TypeOK

LEMMA StartTypes ==
  ASSUME TypeOK, NEW o \in Ops, Try(o) \/ Start(o)
  PROVE  TypeOK'
<1>0. ListOf(o) \in Lists
  BY ListOfType
<1> USE DEF opVars, queueVars, dispVars, kernelVars, runVars, flags, Stages
<1>1. ASSUME Try(o) PROVE TypeOK'
  <2>1. stage' \in [Ops -> Stages]
    <3>1. stage' = [stage EXCEPT ![o] = "done"] \/ stage' = [stage EXCEPT ![o] = "again"]
      BY <1>1 DEF Try
    <3> QED
      BY <3>1 DEF TypeOK
  <2>2. avail' \in [Lists -> 0..MaxAvail]
    BY <1>0, <1>1, ReactorAssumption DEF Try, TypeOK
  <2>3. crowded' \in BOOLEAN
    BY <1>1 DEF Try, TypeOK
  <2> QED
    BY <1>1, <2>1, <2>2, <2>3 DEF Try, TypeOK
<1>2. ASSUME Complete(o) PROVE TypeOK'
  <2>1. next' \in [Ops -> Ops \cup {Null}] /\ {cHead', cTail'} \subseteq Ops \cup {Null}
    BY <1>2, EnqueueTypes DEF Complete
  <2>2. stage' \in [Ops -> Stages]
    BY <1>2 DEF Complete, TypeOK
  <2> QED
    BY <1>2, <2>1, <2>2 DEF Complete, TypeOK
<1>3. ASSUME Push(o) PROVE TypeOK'
  <2>1. /\ next' \in [Ops -> Ops \cup {Null}]
        /\ header' \in [Lists -> Ops \cup {Null}] /\ tail' \in [Lists -> Ops \cup {Null}]
    BY <1>0, <1>3 DEF Push, TypeOK
  <2>2. stage' \in [Ops -> Stages]
    BY <1>3 DEF Push, TypeOK
  <2> QED
    BY <1>3, <2>1, <2>2 DEF Push, TypeOK
<1>4. ASSUME PushTest(o) \/ PushHeader(o) \/ PushTail(o) \/ PushRead(o) \/ PushLink(o)
      PROVE  TypeOK'
  <2>1. next' \in [Ops -> Ops \cup {Null}]
    BY <1>4 DEF PushTest, PushHeader, PushTail, PushRead, PushLink, TypeOK
  <2>2. header' \in [Lists -> Ops \cup {Null}] /\ tail' \in [Lists -> Ops \cup {Null}]
    BY <1>0, <1>4 DEF PushTest, PushHeader, PushTail, PushRead, PushLink, TypeOK
  <2>3. stage' \in [Ops -> Stages]
    <3>1. stage' = stage \/ stage' = [stage EXCEPT ![o] = "pending"]
      BY <1>4 DEF PushTest, PushHeader, PushTail, PushRead, PushLink
    <3> QED
      BY <3>1 DEF TypeOK
  <2>4. left' \in [Ops -> {"none", "both", "header", "tail", "read", "link"}]
    <3>1. \E s \in {"none", "both", "header", "tail", "read", "link"} : left' = [left EXCEPT ![o] = s]
      BY <1>4 DEF PushTest, PushHeader, PushTail, PushRead, PushLink, TypeOK
    <3> QED
      BY <3>1 DEF TypeOK
  <2>5. seen' \in [Ops -> Ops \cup {Null}]
    BY <1>0, <1>4 DEF PushTest, PushHeader, PushTail, PushRead, PushLink, TypeOK
  <2>6. UNCHANGED <<queueVars, dispVars, handlers, kernelVars, runVars, flags>>
    BY <1>4 DEF PushTest, PushHeader, PushTail, PushRead, PushLink
  <2> QED
    BY <2>1, <2>2, <2>3, <2>4, <2>5, <2>6 DEF TypeOK
<1> QED
  BY <1>1, <1>2, <1>3, <1>4 DEF Start

LEMMA RunTypes ==
  ASSUME TypeOK, NEW r \in Runners,
         RunOne(r) \/ Woken(r) \/ SpuriousWakeup(r) \/ Timeout(r) \/ Callback(r)
  PROVE  TypeOK'
<1> USE DEF opVars, queueVars, dispVars, kernelVars, runVars, flags, Stages
<1>1. ASSUME RunOne(r) \/ Woken(r) PROVE TypeOK'
  <2>1. CASE Take(r)
    BY <1>1, <2>1 DEF RunOne, Woken, Take, Valid, TypeOK
  <2>2. CASE ~Take(r)
    BY <1>1, <2>2 DEF RunOne, Woken, TypeOK
  <2> QED
    BY <2>1, <2>2
<1>2. ASSUME SpuriousWakeup(r) PROVE TypeOK'
  BY <1>2 DEF SpuriousWakeup, TypeOK
<1>3. ASSUME Timeout(r) PROVE TypeOK'
  BY <1>3 DEF Timeout, TypeOK
<1>4. ASSUME Callback(r) PROVE TypeOK'
  BY <1>4 DEF Callback, TypeOK
<1> QED
  BY <1>1, <1>2, <1>3, <1>4

LEMMA TypeInit == Init => TypeOK
<1> SUFFICES ASSUME Init PROVE TypeOK
  OBVIOUS
<1>1. events \in [Slots -> SUBSET Dirs]
  <2>1. Dirs \in SUBSET Dirs
    OBVIOUS
  <2> QED
    BY <2>1 DEF Init
<1>2. avail \in [Lists -> 0..MaxAvail]
  BY ReactorAssumption DEF Init
<1>3. /\ stage \in [Ops -> Stages] /\ seen \in [Ops -> Ops \cup {Null}]
      /\ left \in [Ops -> {"none", "both", "header", "tail", "read", "link"}]
  BY DEF Init, Stages
<1>4. rpc \in [Runners -> {"idle", "waiting", "notified", "callback"}]
  BY DEF Init
<1>5. batch \in Seq(Lists) /\ handlers \in SUBSET Fds /\ edges \in SUBSET Lists
  BY DEF Init
<1>6. /\ {cHead, cTail} \subseteq Ops \cup {Null} /\ held = Null
      /\ {mutex, raised, clears, broken, crowded} \subseteq BOOLEAN
  BY DEF Init
<1>7. /\ next \in [Ops -> Ops \cup {Null}] /\ got \in [Runners -> Ops \cup {Null}]
      /\ header \in [Lists -> Ops \cup {Null}] /\ tail \in [Lists -> Ops \cup {Null}]
  BY DEF Init
<1> QED
  BY <1>1, <1>2, <1>3, <1>4, <1>5, <1>6, <1>7 DEF TypeOK

LEMMA TypeStep == TypeOK /\ [Next]_vars => TypeOK'
<1> SUFFICES ASSUME TypeOK, [Next]_vars PROVE TypeOK'
  OBVIOUS
<1> USE DEF opVars, queueVars, dispVars, kernelVars, runVars, flags, Stages
<1>1. ASSUME Lock PROVE TypeOK'
  BY <1>1 DEF Lock, TypeOK
<1>2. ASSUME Unlock PROVE TypeOK'
  BY <1>2 DEF Unlock, TypeOK
<1>3. ASSUME NEW l \in Lists, Arrive(l) PROVE TypeOK'
  BY <1>3, ReactorAssumption DEF Arrive, TypeOK
<1>4. ASSUME NEW fd \in Fds, Unregister(fd) PROVE TypeOK'
  BY <1>4 DEF Unregister, TypeOK
<1>5. ASSUME Break PROVE TypeOK'
  BY <1>5 DEF Break, TypeOK
<1>6. CASE UNCHANGED vars
  BY <1>6 DEF vars, TypeOK
<1> QED
  BY <1>1, <1>2, <1>3, <1>4, <1>5, <1>6, IoEventsWaitTypes, InvokeTypes, InvokedTypes,
     StartTypes, RunTypes DEF Next, Step, Dispatch

\* The operations, the lists, the queue and what each thread holds keep their
\* types, though any number of operations wait in one list and sockets and the
\* dispatcher read and store its header and tail in any order, until a pointer
\* is dereferenced that points to no operation (broken).
THEOREM ReactorTypes == Spec => []TypeOK
<1> QED
  BY TypeInit, TypeStep, PTL DEF Spec

-----------------------------------------------------------------------------
(* The inductive invariant.                                                *)

\* No two operations wait in one list.  The code leaves that to its callers.
Waits == {"again", "pending", "popped"}

Alone ==
  \A x, y \in Ops :
    stage[x] \in Waits /\ stage[y] \in Waits /\ ListOf(x) = ListOf(y) => x = y

\* No push or pop has touched the field next of an operation that is not done.
FreshInv == \A o \in Ops : stage[o] \in Waits \cup {"idle", "done"} => next[o] = Null

\* A list is empty or its header is the one operation that waits in it.
HeaderInv ==
  /\ \A l \in Lists : header[l] # Null => stage[header[l]] = "pending" /\ ListOf(header[l]) = l
  /\ \A o \in Ops : stage[o] = "pending" => header[ListOf(o)] = o

\* Operations wait on registered objects.  A push finds its list empty, and only a
\* socket's that has not stored the header yet is between its stores with the
\* operation unlinked.
PushInv ==
  /\ \A o \in Ops : stage[o] \in {"again", "pending"} => FdOf[o] \in handlers
  /\ \A o \in Ops : left[o] \in {"both", "header"} => stage[o] = "again"
  /\ \A o \in Ops : left[o] \notin {"read", "link"} /\ (left[o] # "none" => o \notin Streams)

\* The operation that the dispatcher has popped is the only one that is neither in
\* its list nor in the queue.
HeldInv == \A o \in Ops : stage[o] = "popped" <=> o = held

\* The field next leads through the operations that are ready and no others; no
\* two of them have the same successor, and none has the header.
QueueInv ==
  /\ Chain(cHead) = At("ready")
  /\ cHead # Null => /\ cTail \in At("ready") /\ next[cTail] = Null
                     /\ \A o \in At("ready") : next[o] # cHead
  /\ \A x, y \in At("ready") : next[x] = next[y] /\ next[x] # Null => x = y

\* Each runner that is in a callback has an operation of its own.
RunInv ==
  /\ \A r \in Runners : rpc[r] = "callback" => got[r] \in At("running")
  /\ \A r, s \in Runners : rpc[r] = "callback" /\ rpc[s] = "callback" /\ got[r] = got[s] => r = s

Sound ==
  /\ TypeOK /\ Alone /\ FreshInv /\ HeaderInv
  /\ PushInv /\ HeldInv /\ QueueInv /\ RunInv

\* With two operations in a list nothing but the types is left.
IInv == TypeOK /\ (~crowded => Sound /\ ~broken)

-----------------------------------------------------------------------------
(* The completion queue.                                                   *)

LEMMA ChainClosed ==
  ASSUME TypeOK, NEW p \in Ops \cup {Null}
  PROVE  /\ p # Null => p \in Chain(p)
         /\ \A x \in Chain(p) : x \in Ops /\ next[x] \in Chain(p) \cup {Null}
<1>1. p # Null => p \in Chain(p)
  BY DEF Chain
<1>2. ASSUME NEW x \in Chain(p), next[x] # Null
      PROVE  next[x] \in Chain(p)
  <2>1. x \in Ops /\ next[x] \in Ops
    BY <1>2 DEF Chain, TypeOK
  <2>2. ASSUME NEW S \in SUBSET Ops, p \in S \cup {Null}, Closed(S)
        PROVE  next[x] \in S
    BY <1>2, <2>2 DEF Chain, Closed
  <2> QED
    BY <2>1, <2>2 DEF Chain
<1> QED
  BY <1>1, <1>2 DEF Chain

\* In a sound queue the operations that are ready follow each other.
LEMMA ReadyClosed ==
  ASSUME TypeOK, QueueInv
  PROVE  /\ \A x \in At("ready") : x \in Ops /\ next[x] \in At("ready") \cup {Null}
         /\ cHead \in At("ready") \cup {Null}
         /\ cHead = Null => At("ready") = {}
<1>1. cHead \in Ops \cup {Null}
  BY DEF TypeOK
<1>2. Chain(Null) = {}
  <2>1. {} \in SUBSET Ops /\ Closed({})
    BY DEF Closed
  <2> QED
    BY <2>1 DEF Chain
<1> QED
  BY <1>1, <1>2, ChainClosed DEF QueueInv

LEMMA QueueUntouched ==
  ASSUME QueueInv, UNCHANGED <<next, queueVars>>, At("ready")' = At("ready")
  PROVE  QueueInv'
BY DEF QueueInv, Chain, Closed, queueVars

\* Nor does a change of the field next of an operation outside the queue matter.
LEMMA QueueKept ==
  ASSUME TypeOK, QueueInv, UNCHANGED queueVars, At("ready")' = At("ready"),
         \A x \in At("ready") : next'[x] = next[x]
  PROVE  QueueInv'
<1> USE DEF queueVars
<1>1. /\ \A x \in At("ready") : x \in Ops /\ next[x] \in At("ready") \cup {Null}
      /\ cHead \in At("ready") \cup {Null}
  BY ReadyClosed
<1>2. Chain(cHead)' \subseteq At("ready")
  <2>1. At("ready") \in SUBSET Ops /\ \A x \in At("ready") : next'[x] \in At("ready") \cup {Null}
    BY <1>1
  <2> QED
    BY <1>1, <2>1 DEF Chain, Closed
<1>3. ASSUME NEW S \in SUBSET Ops, cHead \in S \cup {Null},
             \A x \in S : next'[x] \in S \cup {Null}
      PROVE  At("ready") \subseteq S
  <2> DEFINE T == S \cap At("ready")
  <2>1. cHead \in T \cup {Null} /\ \A x \in T : next[x] \in T \cup {Null}
    BY <1>1, <1>3
  <2>2. T \in SUBSET Ops
    OBVIOUS
  <2>3. At("ready") \subseteq T
    BY <2>1, <2>2 DEF QueueInv, Chain, Closed
  <2> QED
    BY <2>3
<1>4. Chain(cHead)' = At("ready")'
  <2>1. At("ready") \subseteq Chain(cHead)'
    BY <1>1, <1>3 DEF Chain, Closed
  <2> QED
    BY <1>2, <2>1
<1> QED
  BY <1>4 DEF QueueInv

LEMMA EnqueueKeepsQueue ==
  ASSUME TypeOK, QueueInv, NEW o \in Ops, stage[o] # "ready", next[o] = Null,
         Enqueue(o), stage' = [stage EXCEPT ![o] = "ready"]
  PROVE  QueueInv'
<1>0. At("ready")' = At("ready") \cup {o} /\ o \notin At("ready")
  BY DEF At, TypeOK
<1>1. /\ \A x \in At("ready") : x \in Ops /\ next[x] \in At("ready") \cup {Null}
      /\ cHead \in At("ready") \cup {Null}
      /\ cHead = Null => At("ready") = {}
  BY ReadyClosed
<1>2. CASE cHead = Null
  <2>1. cHead' = o /\ cTail' = o /\ next' = next /\ At("ready")' = {o}
    BY <1>0, <1>1, <1>2 DEF Enqueue
  <2>2. Chain(cHead)' = {o}
    <3>1. {o} \in SUBSET Ops /\ \A x \in {o} : next'[x] \in {o} \cup {Null}
      BY <2>1
    <3>2. o # Null
      BY ReactorAssumption
    <3>3. Chain(cHead)' \subseteq {o}
      BY <2>1, <3>1 DEF Chain, Closed
    <3>4. o \in Chain(cHead)'
      BY <2>1, <3>2 DEF Chain
    <3> QED
      BY <3>3, <3>4
  <2> QED
    BY <2>1, <2>2, ReactorAssumption DEF QueueInv
<1>3. CASE cHead # Null
  <2>1. /\ cHead' = cHead /\ cTail' = o /\ next' = [next EXCEPT ![cTail] = o]
        /\ cTail \in At("ready") /\ cTail \in Ops /\ next[cTail] = Null
    BY <1>1, <1>3 DEF Enqueue, QueueInv
  <2>2. /\ next'[cTail] = o /\ next'[o] = Null
        /\ \A x \in Ops : x # cTail => next'[x] = next[x]
    BY <1>0, <2>1 DEF TypeOK
  <2>3. Chain(cHead)' \subseteq At("ready") \cup {o}
    <3>1. \A x \in At("ready") \cup {o} : next'[x] \in At("ready") \cup {o} \cup {Null}
      BY <1>1, <2>2
    <3> QED
      BY <1>1, <2>1, <3>1 DEF Chain, Closed
  <2>4. ASSUME NEW S \in SUBSET Ops, cHead \in S,
               \A x \in S : next'[x] \in S \cup {Null}
        PROVE  At("ready") \cup {o} \subseteq S
    <3>1. \A x \in S : next[x] \in S \cup {Null}
      BY <2>1, <2>2, <2>4
    <3>2. At("ready") \subseteq S
      BY <2>4, <3>1 DEF QueueInv, Chain, Closed
    <3>3. o \in S
      BY <2>1, <2>2, <2>4, <3>2, ReactorAssumption
    <3> QED
      BY <3>2, <3>3
  <2>5. Chain(cHead)' = At("ready")'
    <3>1. At("ready") \cup {o} \subseteq Ops
      BY <1>1
    <3>2. At("ready") \cup {o} \subseteq Chain(cHead)'
      BY <1>3, <2>1, <2>4, <3>1 DEF Chain, Closed
    <3> QED
      BY <1>0, <2>3, <3>2
  <2>6. \A x \in At("ready") \cup {o} : next'[x] # cHead
    BY <1>0, <1>1, <1>3, <2>2 DEF QueueInv
  <2>7. ASSUME NEW x \in At("ready") \cup {o}, NEW y \in At("ready") \cup {o},
               next'[x] = next'[y], next'[x] # Null
        PROVE  x = y
    BY <1>0, <1>1, <2>2, <2>7 DEF QueueInv
  <2> QED
    BY <1>0, <1>3, <2>1, <2>2, <2>5, <2>6, <2>7 DEF QueueInv
<1> QED
  BY <1>2, <1>3

\* What run_one takes is an operation that is ready.
LEMMA TakeKeepsQueue ==
  ASSUME TypeOK, QueueInv, NEW r, Take(r), UNCHANGED next
  PROVE  QueueInv' /\ stage[cHead] = "ready" /\ cHead \in Ops
<1> DEFINE n == next[cHead]
<1>1. /\ \A x \in At("ready") : x \in Ops /\ next[x] \in At("ready") \cup {Null}
      /\ cHead \in At("ready") /\ cHead \in Ops /\ cHead # Null
  BY ReadyClosed, ReactorAssumption DEF Take, Valid
<1>2. /\ At("ready")' = At("ready") \ {cHead}
      /\ cHead' = n /\ cTail' = IF cTail = cHead THEN Null ELSE cTail
  BY <1>1 DEF Take, At, TypeOK
<1>3. /\ cTail \in At("ready") /\ next[cTail] = Null
      /\ \A x \in At("ready") : next[x] # cHead
      /\ \A x, y \in At("ready") : next[x] = next[y] /\ next[x] # Null => x = y
  BY <1>1 DEF QueueInv
<1>4. Chain(n) \subseteq At("ready") \ {cHead}
  <2>1. \A x \in At("ready") \ {cHead} : next[x] \in (At("ready") \ {cHead}) \cup {Null}
    BY <1>1, <1>3
  <2>2. n \in (At("ready") \ {cHead}) \cup {Null}
    BY <1>1, <1>3
  <2>3. At("ready") \ {cHead} \in SUBSET Ops
    BY <1>1
  <2> QED
    BY <2>1, <2>2, <2>3 DEF Chain, Closed
<1>5. At("ready") \ {cHead} \subseteq Chain(n)
  <2>1. ASSUME NEW S \in SUBSET Ops, n \in S \cup {Null}, Closed(S)
        PROVE  At("ready") \subseteq S \cup {cHead}
    <3>1. \A x \in S \cup {cHead} : next[x] \in (S \cup {cHead}) \cup {Null}
      BY <2>1 DEF Closed
    <3>2. S \cup {cHead} \in SUBSET Ops
      BY <1>1
    <3> QED
      BY <3>1, <3>2 DEF QueueInv, Chain, Closed
  <2> QED
    BY <1>1, <2>1 DEF Chain
<1>6. Chain(cHead)' = At("ready")'
  <2>1. Chain(cHead)' = Chain(n)
    BY <1>2 DEF Chain, Closed
  <2> QED
    BY <1>2, <1>4, <1>5, <2>1
<1>7. cHead' # Null => cTail' \in At("ready")' /\ next'[cTail'] = Null
  BY <1>2, <1>3
<1>8. cHead' # Null => \A x \in At("ready")' : next'[x] # cHead'
  BY <1>1, <1>2, <1>3
<1>9. \A x, y \in At("ready")' : next'[x] = next'[y] /\ next'[x] # Null => x = y
  BY <1>2, <1>3
<1>10. QueueInv'
  BY <1>6, <1>7, <1>8, <1>9 DEF QueueInv
<1> QED
  BY <1>1, <1>10 DEF At

-----------------------------------------------------------------------------
(* The steps.                                                              *)

\* What a step that neither takes an operation nor calls a callback leaves alone.
LEMMA RunsUntouched ==
  ASSUME RunInv, UNCHANGED runVars, At("running")' = At("running")
  PROVE  RunInv'
BY DEF RunInv, runVars

\* No step but a try makes an operation wait.
LEMMA AloneKept ==
  ASSUME Alone, \A x \in Ops : stage'[x] \in Waits => stage[x] \in Waits
  PROVE  Alone'
BY DEF Alone, ListOf

LEMMA TryKeeps == ASSUME Sound, NEW o \in Ops, Try(o), ~crowded' PROVE Sound'
<1> USE DEF opVars, queueVars, dispVars, kernelVars, runVars, flags, Waits
<1>1. TypeOK'
  BY StartTypes DEF Sound
<1>2. \E s \in {"done", "again"} : stage' = [stage EXCEPT ![o] = s]
  BY DEF Try
<1>3. FreshInv' /\ HeaderInv' /\ PushInv'
  BY <1>2 DEF Try, Sound, TypeOK, FreshInv, HeaderInv, PushInv
<1>4. At("ready")' = At("ready") /\ At("running")' = At("running")
  BY <1>2 DEF Try, Sound, TypeOK, At
<1>5. QueueInv' /\ RunInv'
  BY <1>4, QueueUntouched, RunsUntouched DEF Try, Sound
<1>6. Alone' /\ HeldInv'
  <2>1. HeldInv'
    BY <1>2 DEF Try, Sound, TypeOK, HeldInv
  <2>2. CASE stage' = [stage EXCEPT ![o] = "again"]
    <3>1. Waiting(ListOf(o)) = {}
      BY <2>2 DEF Try, Sound, TypeOK
    <3>2. \A x \in Ops : stage'[x] \in Waits => x = o \/ (stage[x] \in Waits /\ ListOf(x) # ListOf(o))
      BY <2>2, <3>1 DEF Waiting, Sound, TypeOK
    <3> QED
      BY <2>1, <3>2 DEF Sound, Alone, ListOf
  <2>3. CASE stage' = [stage EXCEPT ![o] = "done"]
    BY <2>1, <2>3, AloneKept DEF Sound, TypeOK
  <2> QED
    BY <1>2, <2>2, <2>3
<1> QED
  BY <1>1, <1>3, <1>5, <1>6 DEF Sound

\* Appending to the queue changes the field next of an operation that is ready.
LEMMA EnqueueKeepsFresh ==
  ASSUME TypeOK, QueueInv, FreshInv, NEW o \in Ops, Enqueue(o), stage' = [stage EXCEPT ![o] = "ready"]
  PROVE  FreshInv'
<1>1. cHead # Null => cTail \in At("ready")
  BY DEF QueueInv
<1> QED
  BY <1>1 DEF Enqueue, FreshInv, At, TypeOK, Waits

LEMMA CompleteKeeps == ASSUME Sound, NEW o \in Ops, Complete(o) PROVE Sound'
<1> USE DEF opVars, queueVars, dispVars, kernelVars, runVars, flags
<1>1. TypeOK'
  BY StartTypes DEF Sound, Start
<1>2. stage[o] = "done" /\ next[o] = Null /\ Enqueue(o) /\ stage' = [stage EXCEPT ![o] = "ready"]
  BY DEF Complete, Sound, FreshInv
<1>3. QueueInv' /\ FreshInv'
  BY <1>2, EnqueueKeepsQueue, EnqueueKeepsFresh DEF Sound
<1>4. HeaderInv' /\ PushInv' /\ HeldInv'
  BY <1>2 DEF Complete, Sound, TypeOK, HeaderInv, PushInv, HeldInv
<1>5. Alone' /\ At("running")' = At("running")
  BY <1>2, AloneKept DEF Sound, TypeOK, At, Waits
<1>6. RunInv'
  BY <1>5, RunsUntouched DEF Complete, Sound
<1> QED
  BY <1>1, <1>3, <1>4, <1>5, <1>6 DEF Sound

\* An operation becomes the header of its list, which no other waits in.
LEMMA HeaderStored ==
  ASSUME Sound, TypeOK', NEW o \in Ops, stage[o] = "again",
         header' = [header EXCEPT ![ListOf(o)] = o], stage' = [stage EXCEPT ![o] = "pending"],
         UNCHANGED <<next, queueVars, dispVars, handlers, runVars>>,
         \A x \in Ops : left'[x] \in {"both", "header"} => x # o /\ left'[x] = left[x],
         \A x \in Ops : left'[x] = left[x] \/ (left'[x] \in {"none", "tail"} /\ left[x] # "none")
  PROVE  Sound'
<1>1. ListOf(o) \in Lists /\ \A x \in Ops : ListOf(x) \in Lists
  BY ListOfType
<1>2. \A x \in Ops : stage[x] = "pending" => ListOf(x) # ListOf(o)
  BY DEF Sound, Alone, Waits
<1>3. FreshInv' /\ PushInv' /\ HeldInv'
  BY DEF Sound, TypeOK, FreshInv, PushInv, HeldInv, Waits, dispVars
<1>4. HeaderInv'
  <2>1. ASSUME NEW l \in Lists, header'[l] # Null
        PROVE  stage'[header'[l]] = "pending" /\ ListOf(header'[l]) = l
    BY <1>1, <2>1 DEF Sound, TypeOK, HeaderInv
  <2>2. ASSUME NEW x \in Ops, stage'[x] = "pending"
        PROVE  header'[ListOf(x)] = x
    BY <1>1, <1>2, <2>2 DEF Sound, TypeOK, HeaderInv
  <2> QED
    BY <2>1, <2>2 DEF HeaderInv, ListOf
<1>5. At("ready")' = At("ready") /\ At("running")' = At("running")
  BY DEF Sound, TypeOK, At
<1>6. Alone'
  BY AloneKept DEF Sound, TypeOK, Waits
<1> QED
  BY <1>3, <1>4, <1>5, <1>6, QueueUntouched, RunsUntouched DEF Sound

\* What waits for its push finds its list empty.
LEMMA EmptyList ==
  ASSUME Sound, NEW o \in Ops, stage[o] = "again"
  PROVE  header[ListOf(o)] = Null
<1>1. ListOf(o) \in Lists
  BY ListOfType
<1> QED
  BY <1>1 DEF Sound, TypeOK, HeaderInv, Alone, Waits

\* A push that leaves the lists alone.
LEMMA ListsUntouched ==
  ASSUME Sound, TypeOK', PushInv', UNCHANGED <<stage, next, header, queueVars, dispVars, handlers, runVars>>
  PROVE  Sound'
<1>1. FreshInv' /\ HeaderInv' /\ HeldInv' /\ Alone'
  BY DEF Sound, FreshInv, HeaderInv, HeldInv, Alone, ListOf, dispVars
<1>2. At("ready")' = At("ready") /\ At("running")' = At("running")
  BY DEF At
<1> QED
  BY <1>1, <1>2, QueueUntouched, RunsUntouched DEF Sound

LEMMA PushKeeps ==
  ASSUME Sound, NEW o \in Ops,
         Push(o) \/ PushTest(o) \/ PushHeader(o) \/ PushTail(o) \/ PushRead(o) \/ PushLink(o)
  PROVE  Sound'
<1>0. TypeOK'
  BY StartTypes DEF Sound, Start
<1> USE DEF opVars, queueVars, dispVars, kernelVars, runVars, flags
<1>1. CASE Push(o)
  <2>1. stage[o] = "again" /\ header[ListOf(o)] = Null /\ left[o] = "none"
    BY <1>1, EmptyList DEF Push, Sound, PushInv
  <2> QED
    BY <1>0, <1>1, <2>1, HeaderStored DEF Push, Sound, TypeOK, PushInv
<1>2. CASE PushTest(o)
  <2>1. stage[o] = "again" /\ header[ListOf(o)] = Null /\ left' = [left EXCEPT ![o] = "both"]
    BY <1>2, EmptyList DEF PushTest
  <2>2. PushInv'
    BY <1>2, <2>1 DEF PushTest, Sound, TypeOK, PushInv
  <2> QED
    BY <1>0, <1>2, <2>2, ListsUntouched DEF PushTest
<1>3. CASE PushHeader(o)
  <2>1. stage[o] = "again"
    BY <1>3 DEF PushHeader, Sound, PushInv
  <2>2. /\ \A x \in Ops : left'[x] \in {"both", "header"} => x # o /\ left'[x] = left[x]
        /\ \A x \in Ops : left'[x] = left[x] \/ (left'[x] \in {"none", "tail"} /\ left[x] # "none")
    BY <1>3 DEF PushHeader, Sound, TypeOK
  <2> QED
    BY <1>0, <1>3, <2>1, <2>2, HeaderStored DEF PushHeader
<1>4. CASE PushTail(o)
  <2>1. PushInv'
    BY <1>4 DEF PushTail, Sound, TypeOK, PushInv
  <2> QED
    BY <1>0, <1>4, <2>1, ListsUntouched DEF PushTail
<1>5. CASE PushRead(o) \/ PushLink(o)
  BY <1>5 DEF PushRead, PushLink, Sound, PushInv
<1> QED
  BY <1>1, <1>2, <1>3, <1>4, <1>5

\* The steps of the dispatcher and the kernel that leave the lists alone.
LEMMA RestUntouched ==
  ASSUME Sound, TypeOK', UNCHANGED <<opVars, queueVars, held, handlers>>,
         \A r \in Runners : rpc'[r] = "callback" => rpc[r] = "callback" /\ got'[r] = got[r]
  PROVE  Sound'
<1> USE DEF opVars, queueVars
<1>1. FreshInv' /\ HeaderInv' /\ PushInv' /\ HeldInv' /\ Alone'
  BY DEF Sound, FreshInv, HeaderInv, PushInv, HeldInv, Alone, ListOf
<1>2. At("ready")' = At("ready") /\ At("running")' = At("running")
  BY DEF At
<1>3. QueueInv'
  BY <1>2, QueueUntouched DEF Sound
<1>4. RunInv'
  BY <1>2 DEF Sound, RunInv
<1> QED
  BY <1>1, <1>3, <1>4 DEF Sound

LEMMA InvokeKeeps == ASSUME Sound, Invoke PROVE Sound'
<1> DEFINE l == Head(batch)
           o == header[l]
<1>1. TypeOK' /\ l \in Lists
  BY InvokeTypes DEF Sound, Invoke, TypeOK
<1>2. CASE Invokable
  <2>1. o \in Ops /\ o # Null /\ stage[o] = "pending" /\ ListOf(o) = l
    BY <1>1, <1>2 DEF Invokable, Front, Sound, TypeOK, HeaderInv
  <2>2. /\ stage' = [stage EXCEPT ![o] = "popped"] /\ held = Null /\ held' = o
        /\ header' = [header EXCEPT ![l] = next[o]]
        /\ UNCHANGED <<next, left, queueVars, handlers, runVars>>
    BY <1>2 DEF Invoke, Pop, Front
  <2>3. next[o] = Null
    BY <2>1 DEF Sound, FreshInv, Waits
  <2>4. FreshInv' /\ PushInv'
    BY <2>1, <2>2 DEF Sound, TypeOK, FreshInv, PushInv, Waits
  <2>5. HeaderInv'
    <3>1. \A x \in Ops : ListOf(x) \in Lists
      BY ListOfType
    <3>2. ASSUME NEW k \in Lists, header'[k] # Null
          PROVE  stage'[header'[k]] = "pending" /\ ListOf(header'[k]) = k
      BY <1>1, <2>1, <2>2, <2>3, <3>2 DEF Sound, TypeOK, HeaderInv
    <3>3. ASSUME NEW x \in Ops, stage'[x] = "pending"
          PROVE  header'[ListOf(x)] = x
      BY <2>1, <2>2, <3>1, <3>3 DEF Sound, TypeOK, HeaderInv
    <3> QED
      BY <3>2, <3>3 DEF HeaderInv, ListOf
  <2>6. HeldInv'
    <3>1. \A x \in Ops : stage[x] # "popped"
      BY <2>2, ReactorAssumption DEF Sound, HeldInv
    <3> QED
      BY <2>1, <2>2, <3>1 DEF Sound, TypeOK, HeldInv
  <2>7. At("ready")' = At("ready") /\ At("running")' = At("running")
    BY <2>1, <2>2 DEF Sound, TypeOK, At
  <2>8. QueueInv' /\ RunInv'
    BY <2>2, <2>7, QueueUntouched, RunsUntouched DEF Sound
  <2>9. Alone'
    BY <2>1, <2>2, AloneKept DEF Sound, TypeOK, Waits
  <2> QED
    BY <1>1, <2>4, <2>5, <2>6, <2>8, <2>9 DEF Sound
<1>3. CASE ~Invokable
  BY <1>1, <1>3, RestUntouched DEF Invoke, runVars, opVars
<1> QED
  BY <1>2, <1>3

LEMMA InvokedKeeps == ASSUME Sound, Invoked PROVE Sound'
<1>1. TypeOK'
  BY InvokedTypes DEF Sound
<1>2. /\ held \in Ops /\ stage[held] = "popped" /\ next[held] = Null
      /\ Enqueue(held) /\ stage' = [stage EXCEPT ![held] = "ready"] /\ held' = Null
      /\ UNCHANGED <<header, left, handlers, runVars>>
  BY DEF Invoked, Sound, TypeOK, HeldInv, FreshInv, Waits
<1>3. QueueInv' /\ FreshInv'
  BY <1>2, EnqueueKeepsQueue, EnqueueKeepsFresh DEF Sound
<1>4. HeaderInv' /\ PushInv'
  BY <1>2 DEF Sound, TypeOK, HeaderInv, PushInv
<1>5. HeldInv'
  BY <1>2, ReactorAssumption DEF Sound, TypeOK, HeldInv
<1>6. Alone' /\ At("running")' = At("running")
  BY <1>2, AloneKept DEF Sound, TypeOK, At, Waits
<1>7. RunInv'
  BY <1>2, <1>6, RunsUntouched DEF Sound
<1> QED
  BY <1>1, <1>3, <1>4, <1>5, <1>6, <1>7 DEF Sound

LEMMA DispatchKeeps == ASSUME Sound, ~broken, Dispatch PROVE Sound'
<1>1. ASSUME IoEventsWait PROVE Sound'
  BY <1>1, IoEventsWaitTypes, RestUntouched DEF Sound, IoEventsWait, runVars
<1>2. ASSUME Lock PROVE Sound'
  <2>1. TypeOK'
    BY <1>2, TypeStep DEF Sound, Next, Step, Dispatch
  <2> QED
    BY <1>2, <2>1, RestUntouched DEF Lock, runVars
<1>3. ASSUME Unlock PROVE Sound'
  <2>1. TypeOK'
    BY <1>3, TypeStep DEF Sound, Next, Step, Dispatch
  <2>2. \A r \in Runners : rpc'[r] = "callback" => rpc[r] = "callback" /\ got'[r] = got[r]
    BY <1>3 DEF Unlock
  <2> QED
    BY <1>3, <2>1, <2>2, RestUntouched DEF Unlock
<1> QED
  BY <1>1, <1>2, <1>3, InvokeKeeps, InvokedKeeps DEF Dispatch

LEMMA TakeKeeps ==
  ASSUME Sound, NEW r \in Runners, rpc[r] # "callback", Take(r),
         UNCHANGED <<next, header, tail, left, held, handlers>>
  PROVE  FreshInv' /\ HeaderInv' /\ PushInv' /\ HeldInv' /\ Alone' /\ QueueInv' /\ RunInv'
<1>1. QueueInv' /\ stage[cHead] = "ready" /\ cHead \in Ops
  BY TakeKeepsQueue DEF Sound
<1>2. stage' = [stage EXCEPT ![cHead] = "running"]
  BY DEF Take
<1>3. FreshInv' /\ HeaderInv' /\ PushInv' /\ HeldInv'
  BY <1>1, <1>2 DEF Sound, TypeOK, FreshInv, HeaderInv, PushInv, HeldInv, Waits
<1>4. At("running")' = At("running") \cup {cHead} /\ cHead \notin At("running")
  BY <1>1, <1>2 DEF Sound, TypeOK, At
<1>5. RunInv'
  BY <1>4 DEF Take, Sound, TypeOK, RunInv
<1>6. Alone'
  BY <1>1, <1>2, AloneKept DEF Sound, TypeOK, Waits
<1> QED
  BY <1>1, <1>3, <1>5, <1>6

LEMMA RunKeeps ==
  ASSUME Sound, NEW r \in Runners,
         RunOne(r) \/ Woken(r) \/ SpuriousWakeup(r) \/ Timeout(r) \/ Callback(r)
  PROVE  Sound'
<1>0. TypeOK'
  BY RunTypes DEF Sound
<1> USE DEF opVars, queueVars, dispVars, kernelVars, runVars, flags
<1>1. CASE RunOne(r) \/ Woken(r)
  <2>1. CASE Take(r)
    BY <1>0, <1>1, <2>1, TakeKeeps DEF RunOne, Woken, Sound
  <2>2. CASE ~Take(r)
    <3>1. \A q \in Runners : rpc'[q] = "callback" => rpc[q] = "callback" /\ got'[q] = got[q]
      BY <1>1, <2>2 DEF RunOne, Woken, Sound, TypeOK
    <3> QED
      BY <1>0, <1>1, <2>2, <3>1, RestUntouched DEF RunOne, Woken
  <2> QED
    BY <2>1, <2>2
<1>2. CASE SpuriousWakeup(r) \/ Timeout(r)
  <2>1. \A q \in Runners : rpc'[q] = "callback" => rpc[q] = "callback" /\ got'[q] = got[q]
    BY <1>2 DEF SpuriousWakeup, Timeout, Sound, TypeOK
  <2> QED
    BY <1>0, <1>2, <2>1, RestUntouched DEF SpuriousWakeup, Timeout
<1>3. CASE Callback(r)
  <2>1. got[r] \in Ops /\ stage[got[r]] = "running" /\ stage' = [stage EXCEPT ![got[r]] = "deleted"]
    BY <1>3 DEF Callback, Sound, RunInv, At
  <2>2. FreshInv' /\ HeaderInv' /\ PushInv' /\ HeldInv' /\ Alone'
    <3>1. FreshInv' /\ HeaderInv' /\ PushInv' /\ HeldInv'
      BY <1>3, <2>1 DEF Callback, Sound, TypeOK, FreshInv, HeaderInv, PushInv, HeldInv, Waits
    <3> QED
      BY <2>1, <3>1, AloneKept DEF Sound, TypeOK, Waits
  <2>3. At("ready")' = At("ready") /\ At("running")' = At("running") \ {got[r]}
    BY <2>1 DEF Sound, TypeOK, At
  <2>4. QueueInv'
    <3>1. \A x \in At("ready") : next'[x] = next[x]
      BY <1>3, <2>1 DEF Callback, Sound, TypeOK, At
    <3> QED
      BY <1>3, <2>3, <3>1, QueueKept DEF Callback, Sound
  <2>5. RunInv'
    BY <1>3, <2>3 DEF Callback, Sound, TypeOK, RunInv
  <2> QED
    BY <1>0, <2>2, <2>4, <2>5 DEF Sound
<1> QED
  BY <1>1, <1>2, <1>3

LEMMA UnregisterKeeps == ASSUME Sound, ~broken, NEW fd \in Fds, Unregister(fd) PROVE Sound'
<1> USE DEF opVars, queueVars, dispVars, kernelVars, runVars, flags
<1>1. TypeOK'
  BY TypeStep DEF Sound, Next, Step
<1>2. \A o \in Ops : /\ stage'[o] = (IF FdOf[o] = fd /\ stage[o] = "pending" THEN "leaked" ELSE stage[o])
                     /\ ListOf(o) \in Lists /\ ListOf(o)[1] = FdOf[o]
  BY ListOfType DEF Unregister, ListOf
<1>3. FreshInv' /\ PushInv' /\ HeldInv' /\ Alone'
  <2>1. FreshInv' /\ PushInv' /\ HeldInv'
    BY <1>2 DEF Unregister, Sound, TypeOK, FreshInv, PushInv, HeldInv, Waits
  <2> QED
    BY <1>2, <2>1, AloneKept DEF Sound, Waits
<1>4. HeaderInv'
  <2>1. ASSUME NEW l \in Lists, header'[l] # Null
        PROVE  stage'[header'[l]] = "pending" /\ ListOf(header'[l]) = l
    <3>1. header'[l] = header[l] /\ header[l] \in Ops /\ l[1] # fd
      BY <2>1 DEF Unregister, Sound, TypeOK
    <3> QED
      BY <1>2, <2>1, <3>1 DEF Sound, HeaderInv
  <2>2. ASSUME NEW o \in Ops, stage'[o] = "pending"
        PROVE  header'[ListOf(o)] = o
    BY <1>2, <2>2 DEF Unregister, Sound, HeaderInv
  <2> QED
    BY <2>1, <2>2 DEF HeaderInv, ListOf
<1>5. At("ready")' = At("ready") /\ At("running")' = At("running")
  BY <1>2 DEF At
<1>6. QueueInv' /\ RunInv'
  BY <1>5, QueueUntouched, RunsUntouched DEF Unregister, Sound
<1> QED
  BY <1>1, <1>3, <1>4, <1>6 DEF Sound

LEMMA IInvInit == Init => IInv
<1> SUFFICES ASSUME Init PROVE IInv
  OBVIOUS
<1>1. FreshInv /\ HeaderInv /\ PushInv /\ HeldInv /\ Alone
  BY ListOfType, ReactorAssumption DEF Init, FreshInv, HeaderInv, PushInv, HeldInv, Alone, Waits
<1>2. At("ready") = {}
  BY DEF Init, At
<1>3. Chain(Null) = {}
  <2>1. {} \in SUBSET Ops /\ Closed({})
    BY DEF Closed
  <2> QED
    BY <2>1 DEF Chain
<1>4. QueueInv /\ RunInv
  BY <1>2, <1>3 DEF Init, QueueInv, RunInv
<1> QED
  BY <1>1, <1>4, TypeInit DEF IInv, Sound, Init

\* What any thread dereferences is an operation that is not deleted.
LEMMA NotStray == ASSUME Sound PROVE ~Stray
<1>1. \A o \in Ops : left[o] # "link"
  BY DEF Sound, PushInv
<1>2. \A o \in At("again") : header[ListOf(o)] = Null
  BY EmptyList DEF At
<1>3. cHead # Null => Valid(cTail) /\ Valid(cHead)
  BY ReadyClosed DEF Sound, QueueInv, Valid, At
<1>4. batch # <<>> /\ Front # Null => Valid(Front)
  <2>1. batch # <<>> => Head(batch) \in Lists
    BY DEF Sound, TypeOK
  <2> QED
    BY <2>1 DEF Sound, TypeOK, HeaderInv, Front, Valid
<1>5. \A r \in Runners : rpc[r] = "callback" => Valid(got[r])
  BY DEF Sound, RunInv, Valid, At
<1> QED
  BY <1>1, <1>2, <1>3, <1>4, <1>5 DEF Stray

LEMMA SoundStep == Sound /\ ~broken /\ ~crowded' /\ [Next]_vars => Sound' /\ ~broken'
<1> SUFFICES ASSUME Sound, ~broken, ~crowded', [Next]_vars PROVE Sound' /\ ~broken'
  OBVIOUS
<1>1. ASSUME NEW o \in Ops, Try(o) \/ Start(o) PROVE Sound'
  BY <1>1, TryKeeps, CompleteKeeps, PushKeeps DEF Start
<1>2. ASSUME NEW l \in Lists, Arrive(l) PROVE Sound'
  <2>1. TypeOK'
    BY <1>2, TypeStep DEF Sound, Next, Step
  <2> QED
    BY <1>2, <2>1, RestUntouched DEF Arrive, runVars, dispVars
<1>3. CASE UNCHANGED vars
  <2>1. TypeOK'
    BY <1>3, TypeStep DEF Sound
  <2> QED
    BY <1>3, <2>1, RestUntouched DEF vars, opVars, queueVars, dispVars, runVars, flags
<1>4. ~Break
  BY NotStray DEF Break
<1>5. Step => ~broken'
  <2> USE DEF flags
  <2>1. \A o \in Ops : Try(o) \/ Start(o) => ~broken'
    BY DEF Try, Start, Complete, Push, PushTest, PushHeader, PushTail, PushRead, PushLink
  <2>2. Dispatch => ~broken'
    BY DEF Dispatch, IoEventsWait, Lock, Invoke, Invoked, Unlock
  <2>3. \A r \in Runners : RunOne(r) \/ Woken(r) \/ SpuriousWakeup(r) \/ Timeout(r) \/ Callback(r)
          => ~broken'
    BY DEF RunOne, Woken, SpuriousWakeup, Timeout, Callback
  <2> QED
    BY <2>1, <2>2, <2>3 DEF Step, Arrive, Unregister
<1> QED
  BY <1>1, <1>2, <1>3, <1>4, <1>5, DispatchKeeps, RunKeeps, UnregisterKeeps DEF Next, Step, vars, flags

\* Only a try lets a second operation wait in a list, and that is never undone.
LEMMA CrowdedStep ==
  ASSUME [Next]_vars
  PROVE  /\ crowded => crowded'
         /\ ~crowded => ~crowded' \/ \E o \in Ops : Try(o) /\ Waiting(ListOf(o)) # {}
<1> USE DEF flags
<1>1. \A o \in Ops : Start(o) => UNCHANGED crowded
  BY DEF Start, Complete, Push, PushTest, PushHeader, PushTail, PushRead, PushLink
<1>2. Dispatch => UNCHANGED crowded
  BY DEF Dispatch, IoEventsWait, Lock, Invoke, Invoked, Unlock
<1>3. ASSUME NEW r \in Runners,
             RunOne(r) \/ Woken(r) \/ SpuriousWakeup(r) \/ Timeout(r) \/ Callback(r)
      PROVE  UNCHANGED crowded
  BY <1>3 DEF RunOne, Woken, SpuriousWakeup, Timeout, Callback
<1>4. \A o \in Ops : Try(o) => UNCHANGED crowded \/ (crowded' = TRUE /\ Waiting(ListOf(o)) # {})
  BY DEF Try
<1>5. UNCHANGED vars => UNCHANGED crowded
  BY DEF vars
<1> QED
  BY <1>1, <1>2, <1>3, <1>4, <1>5 DEF Next, Step, Break, Arrive, Unregister

LEMMA IInvStep == IInv /\ [Next]_vars => IInv'
BY TypeStep, SoundStep, CrowdedStep DEF IInv

-----------------------------------------------------------------------------
(* What follows.                                                           *)

LEMMA Invariant == Spec => []IInv
<1> QED
  BY IInvInit, IInvStep, PTL DEF Spec

\* With callers that keep to one operation for each direction of an object, no two
\* wait in one list, and no thread dereferences a null pointer or an operation
\* that was deleted.
THEOREM OneAtATime == ASSUME MaxPending = 1 PROVE Spec => [](~crowded /\ ~broken)
<1>1. Init => ~crowded
  BY DEF Init
<1>2. ~crowded /\ [Next]_vars => ~crowded'
  <2> SUFFICES ASSUME ~crowded, NEW o \in Ops, Try(o) PROVE Waiting(ListOf(o)) = {}
    BY CrowdedStep
  <2>1. IsFiniteSet(Waiting(ListOf(o)))
    BY ReactorAssumption, FS_Subset DEF Waiting
  <2>2. Cardinality(Waiting(ListOf(o))) < 1
    BY DEF Try
  <2> QED
    BY <2>1, <2>2, FS_CardinalityType, FS_EmptySet
<1>3. IInv /\ ~crowded => ~broken
  BY DEF IInv
<1> QED
  BY <1>1, <1>2, <1>3, Invariant, PTL DEF Spec

\* The completion queue of the reactor is the operations that are done and wait
\* for run_one, and ends with its tail, as long as no two operations wait in one
\* list: complete, the dispatcher and run_one keep it so in any interleaving.
THEOREM QueueIsSound == Spec => []QueueSound
<1>1. IInv => QueueSound
  BY DEF IInv, Sound, QueueInv, QueueSound
<1> QED
  BY <1>1, Invariant, PTL

\* The lists of a registered object lead to the operations that wait in them and
\* to none that was completed or deleted, though sockets push without the mutex,
\* as long as no two operations wait in one list.
THEOREM ListsAreSound == Spec => []ListsSound
<1>1. IInv => ListsSound
  <2> SUFFICES ASSUME Sound, NEW l \in Lists
               PROVE  Chain(header[l]) = {o \in At("pending") : ListOf(o) = l}
    BY DEF IInv, ListsSound
  <2>1. CASE header[l] = Null
    <3>1. {} \in SUBSET Ops /\ Closed({})
      BY DEF Closed
    <3>2. Chain(header[l]) = {}
      BY <2>1, <3>1 DEF Chain
    <3>3. \A o \in Ops : stage[o] = "pending" => ListOf(o) # l
      BY <2>1, ReactorAssumption DEF Sound, HeaderInv
    <3> QED
      BY <3>2, <3>3 DEF At
  <2>2. CASE header[l] # Null
    <3>1. header[l] \in At("pending") /\ ListOf(header[l]) = l /\ next[header[l]] = Null
      BY <2>2 DEF Sound, TypeOK, HeaderInv, FreshInv, At, Waits
    <3>2. {header[l]} \in SUBSET Ops /\ Closed({header[l]})
      BY <3>1 DEF At, Closed
    <3>3. Chain(header[l]) = {header[l]}
      BY <2>2, <3>2 DEF Chain
    <3>4. {o \in At("pending") : ListOf(o) = l} = {header[l]}
      BY <3>1 DEF Sound, HeaderInv, At
    <3> QED
      BY <3>3, <3>4
  <2> QED
    BY <2>1, <2>2
<1> QED
  BY <1>1, Invariant, PTL

LEMMA StepRunsReady ==
  ASSUME Sound, [Next]_vars, NEW o \in Ops, stage[o] # "running", stage'[o] = "running"
  PROVE  stage[o] = "ready"
<1> USE DEF opVars, queueVars, dispVars, kernelVars, runVars, flags
<1>1. ASSUME NEW x \in Ops, Try(x) PROVE FALSE
  BY <1>1 DEF Try, Sound, TypeOK
<1>2. ASSUME NEW x \in Ops, Start(x) PROVE FALSE
  BY <1>2 DEF Start, Complete, Push, PushTest, PushHeader, PushTail, PushRead, PushLink, Sound, TypeOK
<1>3. ASSUME Dispatch PROVE FALSE
  BY <1>3 DEF Dispatch, IoEventsWait, Lock, Invoke, Invoked, Unlock, Sound, TypeOK
<1>4. ASSUME NEW r \in Runners, RunOne(r) \/ Woken(r) PROVE stage[o] = "ready"
  <2>1. Take(r) /\ next' = next
    BY <1>4 DEF RunOne, Woken
  <2>2. stage[cHead] = "ready" /\ cHead \in Ops
    BY <2>1, TakeKeepsQueue DEF Sound
  <2> QED
    BY <2>1, <2>2 DEF Take, Sound, TypeOK
<1>5. ASSUME NEW r \in Runners, SpuriousWakeup(r) \/ Timeout(r) \/ Callback(r) PROVE FALSE
  BY <1>5 DEF SpuriousWakeup, Timeout, Callback, Sound, TypeOK
<1>6. ASSUME NEW l \in Lists, Arrive(l) PROVE FALSE
  BY <1>6 DEF Arrive
<1>7. ASSUME NEW fd \in Fds, Unregister(fd) PROVE FALSE
  BY <1>7 DEF Unregister
<1>8. CASE Break \/ UNCHANGED vars
  BY <1>8 DEF Break, vars
<1> QED
  BY <1>1, <1>2, <1>3, <1>4, <1>5, <1>6, <1>7, <1>8 DEF Next, Step

\* run_one takes operations out of the completion queue that were put into it, as
\* its comment says, as long as no two operations wait in one list.  Without that
\* an operation can be run that is still waiting.
THEOREM RunsWhatIsDone == Spec /\ []~crowded => RunsCompleted
<1>1. IInv /\ ~crowded /\ [Next]_vars =>
        [\A o \in Ops : stage[o] # "running" /\ stage'[o] = "running" => stage[o] = "ready"]_vars
  BY StepRunsReady DEF IInv
<1> QED
  BY <1>1, Invariant, PTL DEF Spec, RunsCompleted

=============================================================================
