-------------------------- MODULE SchedulerProofs --------------------------
(***************************************************************************)
(* Proofs about Scheduler, for any finite set of workers and any set of    *)
(* tasks.                                                                  *)
(***************************************************************************)
EXTENDS Scheduler, FiniteSetTheorems, TLAPS

-----------------------------------------------------------------------------
(* The run queue as a sequence.                                            *)

LEMMA AppendElems ==
  ASSUME NEW T, NEW q \in Seq(T), NEW e \in T
  PROVE  /\ Append(q, e) \in Seq(T)
         /\ Len(Append(q, e)) = Len(q) + 1
         /\ Elems(Append(q, e)) = Elems(q) \cup {e}
         /\ Distinct(q) /\ e \notin Elems(q) => Distinct(Append(q, e))
<1> DEFINE a == Append(q, e)
<1>1. a \in Seq(T) /\ Len(a) = Len(q) + 1 /\ DOMAIN a = 1..Len(q) + 1 /\ DOMAIN q = 1..Len(q)
  OBVIOUS
<1>2. a[Len(q) + 1] = e /\ \A i \in 1..Len(q) : a[i] = q[i]
  OBVIOUS
<1>3. Len(q) \in Nat
  OBVIOUS
<1> HIDE DEF a
<1>4. Elems(a) = Elems(q) \cup {e}
  <2>1. ASSUME NEW x \in Elems(a) PROVE x \in Elems(q) \cup {e}
    <3>1. PICK i \in 1..Len(q) + 1 : x = a[i]
      BY <1>1, <2>1 DEF Elems
    <3>2. i \in 1..Len(q) \/ i = Len(q) + 1
      BY <1>3
    <3> QED
      BY <3>1, <3>2, <1>1, <1>2 DEF Elems
  <2>2. ASSUME NEW x \in Elems(q) PROVE x \in Elems(a)
    <3>1. PICK i \in 1..Len(q) : x = q[i]
      BY <1>1 DEF Elems
    <3>2. i \in 1..Len(q) + 1 /\ x = a[i]
      BY <3>1, <1>2, <1>3
    <3> QED
      BY <3>2, <1>1 DEF Elems
  <2>3. Len(q) + 1 \in DOMAIN a
    BY <1>1, <1>3
  <2>4. e \in Elems(a)
    BY <2>3, <1>2 DEF Elems
  <2> QED
    BY <2>1, <2>2, <2>4
<1>5. ASSUME Distinct(q), e \notin Elems(q) PROVE Distinct(a)
  <2>1. \A i \in 1..Len(q) : a[i] # e
    BY <1>5, <1>1, <1>2 DEF Elems
  <2> QED
    BY <2>1, <1>1, <1>2, <1>3, <1>5 DEF Distinct
<1> QED
  BY <1>1, <1>4, <1>5 DEF a

LEMMA TailElems ==
  ASSUME NEW T, NEW q \in Seq(T), q # <<>>
  PROVE  /\ Head(q) \in T
         /\ Tail(q) \in Seq(T)
         /\ Len(Tail(q)) = Len(q) - 1
         /\ Elems(q) = {Head(q)} \cup Elems(Tail(q))
         /\ Distinct(q) => Distinct(Tail(q)) /\ Head(q) \notin Elems(Tail(q))
<1> DEFINE b == Tail(q)
<1>1. b \in Seq(T) /\ Len(b) = Len(q) - 1 /\ DOMAIN b = 1..Len(q) - 1 /\ DOMAIN q = 1..Len(q)
  OBVIOUS
<1>2. Len(q) \in Nat \ {0} /\ Head(q) = q[1] /\ Head(q) \in T
  OBVIOUS
<1>3. \A i \in 1..Len(q) - 1 : b[i] = q[i + 1]
  OBVIOUS
<1> HIDE DEF b
<1>4. Elems(q) = {Head(q)} \cup Elems(b)
  <2>1. ASSUME NEW x \in Elems(q) PROVE x \in {Head(q)} \cup Elems(b)
    <3>1. PICK i \in 1..Len(q) : x = q[i]
      BY <1>1 DEF Elems
    <3>2. CASE i = 1
      BY <3>1, <3>2, <1>2
    <3>3. CASE i # 1
      <4>1. i - 1 \in 1..Len(q) - 1 /\ (i - 1) + 1 = i
        BY <3>3, <1>2
      <4>2. b[i - 1] = x
        BY <4>1, <1>3, <3>1
      <4> QED
        BY <4>1, <4>2, <1>1 DEF Elems
    <3> QED
      BY <3>2, <3>3
  <2>2. ASSUME NEW x \in Elems(b) PROVE x \in Elems(q)
    <3>1. PICK i \in 1..Len(q) - 1 : x = b[i]
      BY <1>1 DEF Elems
    <3>2. i + 1 \in 1..Len(q) /\ x = q[i + 1]
      BY <3>1, <1>2, <1>3
    <3> QED
      BY <3>2, <1>1 DEF Elems
  <2>3. Head(q) \in Elems(q)
    <3>1. 1 \in DOMAIN q
      BY <1>1, <1>2
    <3> QED
      BY <3>1, <1>2 DEF Elems
  <2> QED
    BY <2>1, <2>2, <2>3
<1>5. ASSUME Distinct(q) PROVE Distinct(b) /\ Head(q) \notin Elems(b)
  <2>1. \A i \in 1..Len(q) - 1 : i + 1 \in 1..Len(q) /\ i + 1 # 1
    BY <1>2
  <2>2. Distinct(b)
    BY <2>1, <1>1, <1>2, <1>3, <1>5 DEF Distinct
  <2>3. ASSUME NEW i \in 1..Len(q) - 1 PROVE b[i] # Head(q)
    BY <2>1, <1>1, <1>2, <1>3, <1>5 DEF Distinct
  <2> QED
    BY <2>2, <2>3, <1>1 DEF Elems
<1> QED
  BY <1>1, <1>2, <1>4, <1>5 DEF b

-----------------------------------------------------------------------------
(* The loop of do_schedule, from its test to the release of the mutex.     *)

\* What Loop(w, q) leaves behind: w waits, has gone, or holds the task it took
\* out of q; the rest of q is the run queue; nothing else has moved.
LEMMA LoopOutcome ==
  ASSUME TypeOK, NEW w \in Workers, NEW q \in Seq(Tasks), Loop(w, q)
  PROVE  /\ wpc' \in [Workers -> WorkerPc]
         /\ cur' \in [Workers -> Tasks \cup {NoTask}]
         /\ runningTasks' \in Seq(Tasks)
         /\ \A v \in Workers \ {w} : wpc'[v] = wpc[v] /\ cur'[v] = cur[v]
         /\ \/ /\ wpc'[w] \in {"waiting", "exited"}
               /\ runningTasks' = q
               /\ wpc'[w] = "waiting" => q = <<>>
            \/ /\ wpc'[w] = "popped"
               /\ Len(runningTasks') = Len(q) - 1
               /\ cur'[w] \in Tasks
               /\ Elems(q) = {cur'[w]} \cup Elems(runningTasks')
               /\ Distinct(q) => Distinct(runningTasks') /\ cur'[w] \notin Elems(runningTasks')
<1>1. CASE exit
  BY <1>1 DEF Loop, TypeOK, WorkerPc
<1>2. CASE ~exit /\ q = <<>>
  BY <1>2 DEF Loop, TypeOK, WorkerPc
<1>3. CASE ~exit /\ q # <<>>
  <2>1. /\ wpc' = [wpc EXCEPT ![w] = "popped"]
        /\ cur' = [cur EXCEPT ![w] = Head(q)]
        /\ runningTasks' = Tail(q)
    BY <1>3 DEF Loop
  <2>2. /\ Head(q) \in Tasks
        /\ Tail(q) \in Seq(Tasks)
        /\ Len(Tail(q)) = Len(q) - 1
        /\ Elems(q) = {Head(q)} \cup Elems(Tail(q))
        /\ Distinct(q) => Distinct(Tail(q)) /\ Head(q) \notin Elems(Tail(q))
    BY <1>3, TailElems
  <2>3. wpc'[w] = "popped" /\ cur'[w] = Head(q)
    BY <2>1 DEF TypeOK
  <2> QED
    BY <2>1, <2>2, <2>3 DEF TypeOK, WorkerPc
<1> QED
  BY <1>1, <1>2, <1>3

-----------------------------------------------------------------------------
(* Type correctness.  A worker that is busy holds a task.                  *)

HoldsTask == \A w \in Busy : cur[w] \in Tasks

TypeInv == TypeOK /\ HoldsTask

LEMMA NotifyOneType ==
  ASSUME TypeOK, NotifyOne
  PROVE  /\ wpc' \in [Workers -> WorkerPc]
         /\ \A v \in Workers : wpc'[v] # wpc[v] => wpc[v] = "waiting" /\ wpc'[v] = "notified"
BY DEF TypeOK, NotifyOne, Idle, WorkerPc

LEMMA CreateTaskType ==
  ASSUME TypeInv, NEW t \in Tasks, CreateTask(t), UNCHANGED main \/ main' = "joining"
  PROVE  TypeInv'
<1>1. runningTasks' \in Seq(Tasks)
  BY DEF CreateTask, TypeInv, TypeOK
<1>2. /\ wpc' \in [Workers -> WorkerPc]
      /\ \A v \in Workers : wpc'[v] # wpc[v] => wpc'[v] = "notified"
  BY NotifyOneType DEF CreateTask, TypeInv
<1>3. TypeOK'
  BY <1>1, <1>2 DEF CreateTask, TypeInv, TypeOK, TaskState
<1>4. HoldsTask'
  BY <1>2 DEF CreateTask, TypeInv, HoldsTask, Busy
<1> QED
  BY <1>3, <1>4 DEF TypeInv

LEMMA ResumeType ==
  ASSUME TypeInv, NEW id \in Tasks, Resume(id), UNCHANGED main
  PROVE  TypeInv'
<1>1. CASE id \in sleepingTasks
  <2>0. runningTasks' = Append(runningTasks, id) /\ runningTasks \in Seq(Tasks)
    BY <1>1 DEF Resume, TypeInv, TypeOK
  <2>1. runningTasks' \in Seq(Tasks)
    BY <2>0
  <2>2. /\ wpc' \in [Workers -> WorkerPc]
        /\ \A v \in Workers : wpc'[v] # wpc[v] => wpc'[v] = "notified"
    BY <1>1, NotifyOneType DEF Resume, TypeInv
  <2> QED
    BY <1>1, <2>1, <2>2 DEF Resume, TypeInv, TypeOK, HoldsTask, Busy
<1>2. CASE id \notin sleepingTasks
  BY <1>2 DEF Resume, TypeInv, TypeOK, HoldsTask, Busy
<1> QED
  BY <1>1, <1>2

LEMMA LoopType ==
  ASSUME TypeInv, NEW w \in Workers, NEW q \in Seq(Tasks), Loop(w, q)
  PROVE  /\ wpc' \in [Workers -> WorkerPc]
         /\ cur' \in [Workers -> Tasks \cup {NoTask}]
         /\ runningTasks' \in Seq(Tasks)
         /\ HoldsTask'
<1>1. TypeOK
  BY DEF TypeInv
<1> QED
  BY <1>1, LoopOutcome DEF TypeInv, HoldsTask, Busy

LEMMA TypeInvStep == TypeInv /\ [Next]_vars => TypeInv'
<1> SUFFICES ASSUME TypeInv, [Next]_vars PROVE TypeInv'
  OBVIOUS
<1>1. ASSUME NEW w \in Workers, Enter(w) PROVE TypeInv'
  <2>1. Loop(w, runningTasks) /\ runningTasks \in Seq(Tasks)
    BY <1>1 DEF Enter, TypeInv, TypeOK
  <2> QED
    BY <1>1, <2>1, LoopType DEF Enter, TypeInv, TypeOK, taskVars
<1>2. ASSUME NEW w \in Workers, SpuriousWakeup(w) PROVE TypeInv'
  BY <1>2 DEF SpuriousWakeup, TypeInv, TypeOK, HoldsTask, Busy, WorkerPc, taskVars
<1>3. ASSUME NEW w \in Workers, BeginRun(w) PROVE TypeInv'
  BY <1>3 DEF BeginRun, TypeInv, TypeOK, HoldsTask, Busy, WorkerPc
<1>4. ASSUME NEW w \in Workers, Yield(w) \/ Finish(w) PROVE TypeInv'
  BY <1>4 DEF Yield, Finish, TypeInv, TypeOK, HoldsTask, Busy, WorkerPc, TaskState
<1>5. ASSUME NEW w \in Workers, Settle(w) PROVE TypeInv'
  <2> DEFINE t == cur[w]
  <2>1. t \in Tasks
    BY <1>5 DEF Settle, TypeInv, HoldsTask, Busy
  <2>2. Append(runningTasks, t) \in Seq(Tasks) /\ runningTasks \in Seq(Tasks)
    BY <2>1 DEF TypeInv, TypeOK
  <2>3. Loop(w, runningTasks) \/ Loop(w, Append(runningTasks, t))
    BY <1>5 DEF Settle
  <2>4. /\ wpc' \in [Workers -> WorkerPc]
        /\ cur' \in [Workers -> Tasks \cup {NoTask}]
        /\ runningTasks' \in Seq(Tasks)
        /\ HoldsTask'
    BY <2>2, <2>3, LoopType
  <2>5. /\ sleepingTasks' \in SUBSET Tasks
        /\ tasks' \in SUBSET Tasks
        /\ state' \in [Tasks -> TaskState]
        /\ owed' \in SUBSET Tasks
        /\ UNCHANGED <<stayAwake, exit, main>>
    BY <1>5, <2>1 DEF Settle, TypeInv, TypeOK, TaskState
  <2> QED
    BY <2>4, <2>5 DEF TypeInv, TypeOK
<1>6. ASSUME NEW w \in Workers, NEW t \in Tasks, Spawn(w, t) PROVE TypeInv'
  BY <1>6, CreateTaskType DEF Spawn
<1>7. ASSUME NEW w \in Workers, NEW t \in Tasks, Wake(w, t) PROVE TypeInv'
  BY <1>7, ResumeType DEF Wake
<1>8. ASSUME NEW t \in Tasks, Start(t) PROVE TypeInv'
  BY <1>8, CreateTaskType DEF Start
<1>9. CASE StartFails
  BY <1>9 DEF StartFails, TypeInv, TypeOK, HoldsTask, Busy, taskVars
<1>10. CASE CallExit
  BY <1>10 DEF CallExit, Exit, TypeInv, TypeOK, HoldsTask, Busy, Idle, WorkerPc, taskVars
<1>11. CASE Join
  BY <1>11 DEF Join, TypeInv, TypeOK, HoldsTask, Busy, taskVars
<1>12. CASE UNCHANGED vars
  BY <1>12 DEF vars, taskVars, TypeInv, TypeOK, HoldsTask, Busy
<1> QED
  BY <1>1, <1>2, <1>3, <1>4, <1>5, <1>6, <1>7, <1>8, <1>9, <1>10, <1>11, <1>12
     DEF Next, WorkerStep

LEMMA TypeInvInit == Init => TypeInv
<1> SUFFICES ASSUME Init PROVE TypeInv
  OBVIOUS
<1>1. runningTasks \in Seq(Tasks)
  BY DEF Init
<1>2. wpc \in [Workers -> WorkerPc] /\ HoldsTask
  BY DEF Init, WorkerPc, HoldsTask, Busy
<1>3. cur \in [Workers -> Tasks \cup {NoTask}]
  BY DEF Init
<1>4. state \in [Tasks -> TaskState] /\ stayAwake \in [Tasks -> BOOLEAN]
  BY DEF Init, TaskState
<1> QED
  BY <1>1, <1>2, <1>3, <1>4 DEF Init, TypeInv, TypeOK

\* The scheduler's fields and the threads' locals keep their types.
THEOREM TypeCorrect == Spec => []TypeOK
<1>1. Spec => []TypeInv
  BY TypeInvInit, TypeInvStep, PTL DEF Spec
<1>2. TypeInv => TypeOK
  BY DEF TypeInv
<1> QED
  BY <1>1, <1>2, PTL

-----------------------------------------------------------------------------
(* Work conservation.  The bound is kept because whoever queues a task also *)
(* notifies a waiter, and a worker that requeues its task, which notifies   *)
(* nobody, takes one out of the queue in the same section.                  *)

LEMMA ArrivingFinite ==
  /\ IsFiniteSet(Arriving) /\ Cardinality(Arriving) \in Nat
  /\ IsFiniteSet(Arriving') /\ Cardinality(Arriving') \in Nat
<1>1. Arriving \subseteq Workers /\ Arriving' \subseteq Workers
  BY DEF Arriving
<1>2. IsFiniteSet(Arriving) /\ IsFiniteSet(Arriving')
  BY <1>1, FS_Subset, SchedulerAssumption
<1> QED
  BY <1>2, FS_CardinalityType

\* A step that pushes one task and notifies keeps the bound.
LEMMA PushNotifies ==
  ASSUME TypeOK, WorkConserving, NotifyOne, exit' = exit,
         Len(runningTasks') = Len(runningTasks) + 1
  PROVE  WorkConserving'
<1> SUFFICES ASSUME ~exit, Idle' # {}
             PROVE  Len(runningTasks') <= Cardinality(Arriving')
  BY DEF WorkConserving
<1>1. Idle # {}
  BY DEF NotifyOne, Idle, TypeOK
<1>2. PICK w \in Idle : wpc' = [wpc EXCEPT ![w] = "notified"]
  BY <1>1 DEF NotifyOne
<1>3. w \notin Arriving /\ Arriving' = Arriving \cup {w}
  BY <1>2 DEF Arriving, Idle, TypeOK
<1>4. Cardinality(Arriving') = Cardinality(Arriving) + 1
  BY <1>3, ArrivingFinite, FS_AddElement
<1>5. Len(runningTasks) <= Cardinality(Arriving) /\ Len(runningTasks) \in Nat
  BY <1>1 DEF WorkConserving, TypeOK
<1> QED
  BY <1>4, <1>5, ArrivingFinite

\* A step that leaves the queue alone and makes no worker idle keeps it as well.
LEMMA QueueUntouched ==
  ASSUME TypeOK, WorkConserving, UNCHANGED runningTasks,
         exit => exit', Idle' \subseteq Idle, Arriving \subseteq Arriving'
  PROVE  WorkConserving'
<1> SUFFICES ASSUME ~exit', Idle' # {}
             PROVE  Len(runningTasks') <= Cardinality(Arriving')
  BY DEF WorkConserving
<1>1. Len(runningTasks) <= Cardinality(Arriving) /\ Len(runningTasks) \in Nat
  BY DEF WorkConserving, TypeOK
<1>2. Cardinality(Arriving) <= Cardinality(Arriving')
  BY ArrivingFinite, FS_Subset
<1> QED
  BY <1>1, <1>2, ArrivingFinite

LEMMA WorkConservingStep == TypeInv /\ WorkConserving /\ [Next]_vars => WorkConserving'
<1> SUFFICES ASSUME TypeInv, WorkConserving, [Next]_vars PROVE WorkConserving'
  OBVIOUS
<1>0. TypeOK /\ runningTasks \in Seq(Tasks) /\ Len(runningTasks) \in Nat
  BY DEF TypeInv, TypeOK
<1>1. ASSUME NEW w \in Workers, Enter(w) PROVE WorkConserving'
  <2> SUFFICES ASSUME ~exit, Idle' # {}
               PROVE  Len(runningTasks') <= Cardinality(Arriving')
    BY <1>1 DEF WorkConserving, Enter
  <2>1. Loop(w, runningTasks) /\ w \in Arriving
    BY <1>1 DEF Enter
  <2>2. CASE runningTasks = <<>>
    <3>1. Len(runningTasks') = 0
      BY <2>1, <2>2 DEF Loop
    <3> QED
      BY <3>1, ArrivingFinite
  <2>3. CASE runningTasks # <<>>
    <3>1. wpc' = [wpc EXCEPT ![w] = "popped"] /\ Len(runningTasks') = Len(runningTasks) - 1
      BY <2>1, <2>3, <1>0 DEF Loop
    <3>2. Arriving' = Arriving \ {w} /\ Idle' = Idle
      BY <2>1, <3>1, <1>0 DEF Arriving, Idle, TypeOK
    <3>3. Cardinality(Arriving') = Cardinality(Arriving) - 1
      BY <2>1, <3>2, ArrivingFinite, FS_RemoveElement
    <3>4. Len(runningTasks) <= Cardinality(Arriving)
      BY <3>2 DEF WorkConserving
    <3> QED
      BY <3>1, <3>3, <3>4, <1>0, ArrivingFinite
  <2> QED
    BY <2>2, <2>3
<1>2. ASSUME NEW w \in Workers, SpuriousWakeup(w) PROVE WorkConserving'
  <2>1. Idle' \subseteq Idle /\ Arriving \subseteq Arriving'
    BY <1>2, <1>0 DEF SpuriousWakeup, Idle, Arriving, TypeOK
  <2> QED
    BY <2>1, <1>0, <1>2, QueueUntouched DEF SpuriousWakeup
<1>3. ASSUME NEW w \in Workers, BeginRun(w) \/ Yield(w) \/ Finish(w) PROVE WorkConserving'
  <2>1. Idle' = Idle /\ Arriving' = Arriving
    BY <1>3, <1>0 DEF BeginRun, Yield, Finish, Idle, Arriving, TypeOK
  <2> QED
    BY <2>1, <1>0, <1>3, QueueUntouched DEF BeginRun, Yield, Finish
<1>4. ASSUME NEW w \in Workers, Settle(w) PROVE WorkConserving'
  <2> SUFFICES ASSUME ~exit, Idle' # {}
               PROVE  Len(runningTasks') <= Cardinality(Arriving')
    BY <1>4 DEF WorkConserving, Settle
  <2> DEFINE a == Append(runningTasks, cur[w])
  <2>1. PICK q \in {runningTasks, a} : Loop(w, q)
    BY <1>4 DEF Settle
  <2>2. Len(q) <= Len(runningTasks) + 1 /\ Len(q) \in Nat /\ q \in Seq(Tasks)
    <3>1. cur[w] \in Tasks
      BY <1>4 DEF Settle, TypeInv, HoldsTask, Busy
    <3> QED
      BY <2>1, <3>1, <1>0
  <2>3. CASE q = <<>>
    <3>1. Len(runningTasks') = 0
      BY <2>1, <2>3 DEF Loop
    <3> QED
      BY <3>1, ArrivingFinite
  <2>4. CASE q # <<>>
    <3>1. wpc' = [wpc EXCEPT ![w] = "popped"] /\ Len(runningTasks') = Len(q) - 1
      BY <2>1, <2>2, <2>4 DEF Loop
    <3>2. Arriving' = Arriving /\ Idle' = Idle
      BY <1>4, <3>1, <1>0 DEF Settle, Arriving, Idle, TypeOK
    <3>3. Len(runningTasks) <= Cardinality(Arriving)
      BY <3>2 DEF WorkConserving
    <3> QED
      BY <2>2, <3>1, <3>2, <3>3, <1>0, ArrivingFinite
  <2> QED
    BY <2>3, <2>4
<1>5. ASSUME NEW t \in Tasks, CreateTask(t) PROVE WorkConserving'
  <2>1. Len(runningTasks') = Len(runningTasks) + 1
    BY <1>5, <1>0 DEF CreateTask
  <2> QED
    BY <2>1, <1>0, <1>5, PushNotifies DEF CreateTask
<1>6. ASSUME NEW t \in Tasks, Resume(t) PROVE WorkConserving'
  <2>1. CASE t \in sleepingTasks
    <3>1. runningTasks' = Append(runningTasks, t) /\ NotifyOne /\ exit' = exit
      BY <1>6, <2>1 DEF Resume
    <3>2. Len(runningTasks') = Len(runningTasks) + 1
      BY <3>1, <1>0
    <3> QED
      BY <3>1, <3>2, <1>0, PushNotifies
  <2>2. CASE t \notin sleepingTasks
    <3>1. UNCHANGED <<wpc, runningTasks, exit>>
      BY <1>6, <2>2 DEF Resume
    <3> QED
      BY <3>1 DEF WorkConserving, Idle, Arriving
  <2> QED
    BY <2>1, <2>2
<1>7. CASE CallExit
  BY <1>7 DEF CallExit, Exit, WorkConserving
<1>8. CASE StartFails \/ Join \/ UNCHANGED vars
  BY <1>8 DEF StartFails, Join, vars, WorkConserving, Idle, Arriving
<1> QED
  BY <1>1, <1>2, <1>3, <1>4, <1>5, <1>6, <1>7, <1>8
     DEF Next, WorkerStep, Spawn, Wake, Start

\* Notifications are enough for any number of workers: while a worker waits
\* unnotified, at least as many workers are on their way as tasks are queued.
THEOREM WorkIsConserved == Spec => []WorkConserving
<1>1. Init => TypeInv /\ WorkConserving
  <2>1. Init => WorkConserving
    BY ArrivingFinite DEF Init, WorkConserving
  <2> QED
    BY <2>1, TypeInvInit
<1>2. (TypeInv /\ WorkConserving) /\ [Next]_vars => (TypeInv /\ WorkConserving)'
  BY TypeInvStep, WorkConservingStep
<1>3. Spec => [](TypeInv /\ WorkConserving)
  BY <1>1, <1>2, PTL DEF Spec
<1> QED
  BY <1>3, PTL

-----------------------------------------------------------------------------
(* Every task is in one place, and no resume is forgotten.  The invariants *)
(* that the runs check are inductive with one more: a task that was resumed *)
(* while a worker runs it has its flag set, so that Settle requeues it.     *)

OwedAwake ==
  \A w \in Workers :
    wpc[w] \in {"running", "returned"} /\ cur[w] \in owed => stayAwake[cur[w]]

PlaceInv == OnePlace /\ NoTaskLost /\ WakeupKept /\ OwedAwake

Held(B) == {cur[w] : w \in B}

\* What the loop does to places, given that the task w held has been put away:
\* into q, into the sleeping map, or nowhere because it has ended.
LEMMA LoopPlaces ==
  ASSUME TypeOK, NEW w \in Workers, NEW q \in Seq(Tasks), Loop(w, q), Distinct(q),
         Elems(q) \cap sleepingTasks' = {},
         \A v \in Busy \ {w} : cur[v] \notin Elems(q) /\ cur[v] \notin sleepingTasks',
         \A u, v \in Busy \ {w} : cur[u] = cur[v] => u = v
  PROVE  /\ OnePlace'
         /\ Queued' \cup {cur'[v] : v \in Busy'} = Elems(q) \cup Held(Busy \ {w})
         /\ \A v \in Workers : wpc'[v] \in {"running", "returned"}
              => v # w /\ wpc'[v] = wpc[v] /\ cur'[v] = cur[v]
<1>1. \A v \in Workers \ {w} : wpc'[v] = wpc[v] /\ cur'[v] = cur[v]
  BY LoopOutcome
<1>2. Busy' \ {w} = Busy \ {w}
  BY <1>1 DEF Busy
<1>3. CASE /\ wpc'[w] \in {"waiting", "exited"}
           /\ runningTasks' = q
  <2>1. Busy' = Busy \ {w}
    BY <1>2, <1>3 DEF Busy
  <2>2. Queued' = Elems(q)
    BY <1>3 DEF Queued, Elems
  <2>3. \A v \in Busy' : cur'[v] = cur[v]
    BY <1>1, <2>1 DEF Busy
  <2>4. OnePlace'
    BY <1>3, <2>1, <2>2, <2>3 DEF OnePlace, Distinct
  <2> QED
    BY <1>1, <1>3, <2>1, <2>2, <2>3, <2>4 DEF Held
<1>4. CASE /\ wpc'[w] = "popped"
           /\ Elems(q) = {cur'[w]} \cup Elems(runningTasks')
           /\ Distinct(runningTasks') /\ cur'[w] \notin Elems(runningTasks')
  <2>1. Busy' = (Busy \ {w}) \cup {w}
    BY <1>2, <1>4 DEF Busy
  <2>2. Queued' = Elems(runningTasks')
    BY DEF Queued, Elems
  <2>3. \A v \in Busy' \ {w} : v \in Busy \ {w} /\ cur'[v] = cur[v]
    BY <1>1, <2>1 DEF Busy
  <2>4. \A v \in Busy' \ {w} : cur'[v] # cur'[w]
    BY <1>4, <2>3
  <2>5. OnePlace'
    <3>1. Distinct(runningTasks)'
      BY <1>4 DEF Distinct
    <3>2. \A u, v \in Busy' : cur'[u] = cur'[v] => u = v
      BY <2>3, <2>4
    <3>3. Queued' \cap sleepingTasks' = {}
      BY <1>4, <2>2
    <3>4. \A v \in Busy' : cur'[v] \notin Queued' /\ cur'[v] \notin sleepingTasks'
      BY <1>4, <2>2, <2>3
    <3> QED
      BY <3>1, <3>2, <3>3, <3>4 DEF OnePlace
  <2>6. {cur'[v] : v \in Busy'} = {cur'[w]} \cup Held(Busy \ {w})
    BY <2>1, <2>3 DEF Held
  <2> QED
    BY <1>1, <1>4, <2>2, <2>5, <2>6
<1> QED
  BY <1>3, <1>4, LoopOutcome

\* A new or woken task goes to the end of the queue, from where it was not.
LEMMA PushPlaces ==
  ASSUME TypeInv, OnePlace, NEW t \in Tasks, NotifyOne, UNCHANGED cur,
         runningTasks' = Append(runningTasks, t),
         t \notin Queued, t \notin Held(Busy),
         sleepingTasks' = sleepingTasks \ {t}
  PROVE  /\ OnePlace'
         /\ Queued' = Queued \cup {t}
         /\ Busy' = Busy
         /\ \A v \in Workers : wpc'[v] \in {"running", "returned"} => wpc'[v] = wpc[v]
<1>1. runningTasks \in Seq(Tasks) /\ Distinct(runningTasks) /\ t \notin Elems(runningTasks)
  BY DEF TypeInv, TypeOK, OnePlace, Queued
<1>2. Queued' = Queued \cup {t} /\ Distinct(runningTasks')
  BY <1>1, AppendElems DEF Queued, Elems
<1>3. \A v \in Workers : wpc'[v] # wpc[v] => wpc[v] = "waiting" /\ wpc'[v] = "notified"
  BY NotifyOneType DEF TypeInv
<1>4. Busy' = Busy
  BY <1>3 DEF Busy
<1>5. OnePlace'
  BY <1>2, <1>4 DEF OnePlace, Held, Distinct
<1> QED
  BY <1>2, <1>3, <1>4, <1>5

LEMMA CreateTaskPlaces ==
  ASSUME TypeInv, PlaceInv, NEW t \in Tasks, CreateTask(t)
  PROVE  PlaceInv'
<1>1. t \notin tasks
  BY DEF CreateTask, PlaceInv, NoTaskLost
<1>2. t \notin Queued /\ t \notin Held(Busy) /\ t \notin sleepingTasks
  BY <1>1 DEF PlaceInv, NoTaskLost, Held
<1>3. /\ OnePlace'
      /\ Queued' = Queued \cup {t}
      /\ Busy' = Busy
      /\ \A v \in Workers : wpc'[v] \in {"running", "returned"} => wpc'[v] = wpc[v]
  BY <1>2, PushPlaces DEF CreateTask, PlaceInv
<1>4. NoTaskLost'
  BY <1>1, <1>3 DEF CreateTask, PlaceInv, NoTaskLost, TypeInv, TypeOK
<1>5. WakeupKept'
  BY DEF CreateTask, PlaceInv, WakeupKept
<1>6. OwedAwake'
  <2> SUFFICES ASSUME NEW w \in Workers, wpc'[w] \in {"running", "returned"}, cur[w] \in owed
               PROVE  stayAwake'[cur[w]]
    BY DEF OwedAwake, CreateTask
  <2>1. w \in Busy /\ cur[w] # t
    BY <1>2, <1>3 DEF Busy, Held
  <2>2. stayAwake[cur[w]]
    BY <1>3 DEF PlaceInv, OwedAwake
  <2> QED
    BY <2>1, <2>2 DEF CreateTask, TypeInv, TypeOK
<1> QED
  BY <1>3, <1>4, <1>5, <1>6 DEF PlaceInv

LEMMA ResumePlaces ==
  ASSUME TypeInv, PlaceInv, NEW t \in Tasks, Resume(t)
  PROVE  PlaceInv'
<1>1. CASE t \in sleepingTasks
  <2>1. /\ sleepingTasks' = sleepingTasks \ {t}
        /\ runningTasks' = Append(runningTasks, t)
        /\ owed' = owed \cup ({t} \cap tasks)
        /\ NotifyOne
        /\ UNCHANGED <<cur, tasks, state, stayAwake>>
    BY <1>1 DEF Resume
  <2>2. t \notin Queued /\ t \notin Held(Busy) /\ t \in tasks
    BY <1>1 DEF PlaceInv, OnePlace, NoTaskLost, Held
  <2>3. /\ OnePlace'
        /\ Queued' = Queued \cup {t}
        /\ Busy' = Busy
        /\ \A v \in Workers : wpc'[v] \in {"running", "returned"} => wpc'[v] = wpc[v]
    BY <2>1, <2>2, PushPlaces DEF PlaceInv
  <2>4. NoTaskLost'
    BY <1>1, <2>1, <2>3 DEF PlaceInv, NoTaskLost
  <2>5. WakeupKept'
    BY <2>1 DEF PlaceInv, WakeupKept
  <2>6. OwedAwake'
    BY <2>1, <2>2, <2>3 DEF PlaceInv, OwedAwake, Held, Busy
  <2> QED
    BY <2>3, <2>4, <2>5, <2>6 DEF PlaceInv
<1>2. CASE t \notin sleepingTasks
  <2>1. /\ stayAwake' = [stayAwake EXCEPT ![t] = IF t \in tasks THEN TRUE ELSE @]
        /\ owed' = owed \cup ({t} \cap tasks)
        /\ UNCHANGED <<wpc, cur, runningTasks, sleepingTasks, tasks, state>>
    BY <1>2 DEF Resume
  <2>2. OnePlace' /\ NoTaskLost'
    BY <2>1 DEF PlaceInv, OnePlace, Distinct, NoTaskLost, Queued, Elems, Busy
  <2>3. WakeupKept'
    BY <1>2, <2>1 DEF PlaceInv, WakeupKept
  <2>4. OwedAwake'
    <3> SUFFICES ASSUME NEW w \in Workers, wpc[w] \in {"running", "returned"}, cur[w] \in owed'
                 PROVE  stayAwake'[cur[w]]
      BY <2>1 DEF OwedAwake
    <3>1. CASE cur[w] = t
      BY <2>1, <3>1 DEF TypeInv, TypeOK, PlaceInv, NoTaskLost, HoldsTask, Busy
    <3>2. CASE cur[w] # t
      BY <2>1, <3>2 DEF TypeInv, TypeOK, PlaceInv, OwedAwake
    <3> QED
      BY <3>1, <3>2
  <2> QED
    BY <2>2, <2>3, <2>4 DEF PlaceInv
<1> QED
  BY <1>1, <1>2

LEMMA EnterPlaces ==
  ASSUME TypeInv, PlaceInv, NEW w \in Workers, Enter(w)
  PROVE  PlaceInv'
<1>1. w \notin Busy /\ Loop(w, runningTasks) /\ UNCHANGED taskVars
  BY DEF Enter, Arriving, Busy
<1>2. Busy \ {w} = Busy
  BY <1>1
<1>3. TypeOK /\ runningTasks \in Seq(Tasks) /\ Distinct(runningTasks) /\ Elems(runningTasks) = Queued
  BY DEF TypeInv, TypeOK, PlaceInv, OnePlace, Queued
<1>4. /\ Queued \cap sleepingTasks' = {}
      /\ \A v \in Busy : cur[v] \notin Queued /\ cur[v] \notin sleepingTasks'
      /\ \A u, v \in Busy : cur[u] = cur[v] => u = v
  BY <1>1 DEF PlaceInv, OnePlace, taskVars
<1>5. /\ OnePlace'
      /\ Queued' \cup {cur'[v] : v \in Busy'} = Queued \cup Held(Busy)
      /\ \A v \in Workers : wpc'[v] \in {"running", "returned"}
           => v # w /\ wpc'[v] = wpc[v] /\ cur'[v] = cur[v]
  BY <1>1, <1>2, <1>3, <1>4, LoopPlaces
<1>6. NoTaskLost'
  BY <1>1, <1>5 DEF PlaceInv, NoTaskLost, Held, taskVars
<1>7. WakeupKept' /\ OwedAwake'
  BY <1>1, <1>5 DEF PlaceInv, WakeupKept, OwedAwake, taskVars
<1> QED
  BY <1>5, <1>6, <1>7 DEF PlaceInv

LEMMA RunPlaces ==
  ASSUME TypeInv, PlaceInv, NEW w \in Workers, BeginRun(w) \/ Yield(w) \/ Finish(w)
  PROVE  PlaceInv'
<1>1. w \in Busy /\ Busy' = Busy /\ cur[w] \in Tasks
  BY DEF BeginRun, Yield, Finish, Busy, TypeInv, TypeOK, HoldsTask
<1>2. UNCHANGED <<cur, runningTasks, sleepingTasks, tasks>>
  BY DEF BeginRun, Yield, Finish
<1>3. OnePlace'
  BY <1>1, <1>2 DEF PlaceInv, OnePlace, Distinct, Queued, Elems
<1>4. Queued' = Queued
  BY <1>2 DEF Queued, Elems
<1>5. \A t \in tasks : state'[t] \in {"init", "sleeping", "closed"}
  BY <1>1, <1>2 DEF BeginRun, Yield, Finish, PlaceInv, NoTaskLost, TypeInv, TypeOK
<1>6. NoTaskLost'
  BY <1>1, <1>2, <1>4, <1>5 DEF PlaceInv, NoTaskLost
<1>7. WakeupKept'
  BY <1>2 DEF BeginRun, Yield, Finish, PlaceInv, WakeupKept
<1>8. CASE BeginRun(w)
  <2> SUFFICES ASSUME NEW v \in Workers, wpc'[v] \in {"running", "returned"}, cur[v] \in owed'
               PROVE  stayAwake'[cur[v]]
    BY <1>2, <1>3, <1>6, <1>7 DEF PlaceInv, OwedAwake
  <2>1. cur[v] # cur[w] /\ cur[v] \in owed
    BY <1>8 DEF BeginRun
  <2>2. wpc[v] \in {"running", "returned"}
    BY <1>8, <2>1 DEF BeginRun, TypeInv, TypeOK
  <2> QED
    BY <1>8, <2>1, <2>2 DEF BeginRun, PlaceInv, OwedAwake, TypeInv, TypeOK
<1>9. CASE Yield(w) \/ Finish(w)
  <2>1. OwedAwake'
    BY <1>2, <1>9 DEF Yield, Finish, PlaceInv, OwedAwake, TypeInv, TypeOK
  <2> QED
    BY <1>3, <1>6, <1>7, <2>1 DEF PlaceInv
<1> QED
  BY <1>8, <1>9

LEMMA SettlePlaces ==
  ASSUME TypeInv, PlaceInv, NEW w \in Workers, Settle(w)
  PROVE  PlaceInv'
<1> DEFINE t == cur[w]
           others == Busy \ {w}
<1>1. w \in Busy /\ t \in Tasks /\ t \notin Queued /\ t \notin sleepingTasks /\ t \in tasks
  BY DEF Settle, Busy, TypeInv, HoldsTask, PlaceInv, OnePlace, NoTaskLost
<1>2. /\ t \notin Held(others)
      /\ \A u, v \in others : cur[u] = cur[v] => u = v
      /\ \A v \in others : cur[v] \notin Queued /\ cur[v] \notin sleepingTasks
  BY <1>1 DEF PlaceInv, OnePlace, Held
<1>3. tasks = Queued \cup sleepingTasks \cup Held(others) \cup {t}
  BY <1>1 DEF PlaceInv, NoTaskLost, Held
<1>4. TypeOK /\ runningTasks \in Seq(Tasks) /\ Distinct(runningTasks)
      /\ Elems(runningTasks) = Queued /\ Queued \cap sleepingTasks = {}
  BY DEF TypeInv, TypeOK, PlaceInv, OnePlace, Queued
<1>5. ASSUME NEW q \in Seq(Tasks), Loop(w, q), Distinct(q),
             Elems(q) \cap sleepingTasks' = {},
             \A v \in others : cur[v] \notin Elems(q) /\ cur[v] \notin sleepingTasks',
             tasks' = Elems(q) \cup sleepingTasks' \cup Held(others),
             \A u \in tasks' : state'[u] \in {"init", "sleeping", "closed"},
             WakeupKept', owed' \subseteq owed, UNCHANGED stayAwake
      PROVE  PlaceInv'
  <2>1. /\ OnePlace'
        /\ Queued' \cup {cur'[v] : v \in Busy'} = Elems(q) \cup Held(others)
        /\ \A v \in Workers : wpc'[v] \in {"running", "returned"}
             => v # w /\ wpc'[v] = wpc[v] /\ cur'[v] = cur[v]
    BY <1>2, <1>4, <1>5, LoopPlaces
  <2>2. NoTaskLost'
    BY <1>5, <2>1 DEF NoTaskLost
  <2>3. OwedAwake'
    BY <1>5, <2>1 DEF PlaceInv, OwedAwake
  <2> QED
    BY <1>5, <2>1, <2>2, <2>3 DEF PlaceInv
<1>6. CASE /\ state[t] = "closed"
           /\ tasks' = tasks \ {t}
           /\ state' = [state EXCEPT ![t] = "deleted"]
           /\ owed' = owed \ {t}
           /\ Loop(w, runningTasks)
           /\ UNCHANGED <<sleepingTasks, stayAwake>>
  <2>1. tasks' = Queued \cup sleepingTasks \cup Held(others)
    BY <1>1, <1>2, <1>3, <1>6
  <2>2. \A u \in tasks' : state'[u] \in {"init", "sleeping", "closed"}
    BY <1>6 DEF PlaceInv, NoTaskLost, TypeInv, TypeOK
  <2>3. WakeupKept'
    BY <1>6 DEF PlaceInv, WakeupKept
  <2> QED
    BY <1>2, <1>4, <1>5, <1>6, <2>1, <2>2, <2>3
<1>7. CASE /\ Loop(w, Append(runningTasks, t))
           /\ UNCHANGED <<sleepingTasks, tasks, state, owed, stayAwake>>
  <2> DEFINE q == Append(runningTasks, t)
  <2>1. q \in Seq(Tasks) /\ Elems(q) = Queued \cup {t} /\ Distinct(q)
    BY <1>1, <1>4, AppendElems
  <2>2. \A u \in tasks' : state'[u] \in {"init", "sleeping", "closed"}
    BY <1>7 DEF PlaceInv, NoTaskLost
  <2>3. WakeupKept'
    BY <1>7 DEF PlaceInv, WakeupKept
  <2>4. tasks' = Elems(q) \cup sleepingTasks' \cup Held(others)
    BY <1>3, <1>7, <2>1
  <2>5. \A v \in others : cur[v] \notin Elems(q) /\ cur[v] \notin sleepingTasks'
    BY <1>2, <1>7, <2>1 DEF Held
  <2>6. Elems(q) \cap sleepingTasks' = {}
    BY <1>1, <1>4, <1>7, <2>1
  <2> HIDE DEF q
  <2> QED
    BY <1>5, <1>7, <2>1, <2>2, <2>3, <2>4, <2>5, <2>6 DEF q
<1>8. CASE /\ ~stayAwake[t]
           /\ sleepingTasks' = sleepingTasks \cup {t}
           /\ Loop(w, runningTasks)
           /\ UNCHANGED <<tasks, state, owed, stayAwake>>
  <2>1. t \notin owed
    BY <1>1, <1>8 DEF Settle, PlaceInv, OwedAwake
  <2>2. WakeupKept'
    BY <1>8, <2>1 DEF PlaceInv, WakeupKept
  <2>3. \A u \in tasks' : state'[u] \in {"init", "sleeping", "closed"}
    BY <1>8 DEF PlaceInv, NoTaskLost
  <2>4. tasks' = Elems(runningTasks) \cup sleepingTasks' \cup Held(others)
    BY <1>3, <1>4, <1>8
  <2>5. \A v \in others : cur[v] \notin Elems(runningTasks) /\ cur[v] \notin sleepingTasks'
    BY <1>2, <1>4, <1>8 DEF Held
  <2>6. Elems(runningTasks) \cap sleepingTasks' = {}
    BY <1>1, <1>4, <1>8
  <2> QED
    BY <1>4, <1>5, <1>8, <2>2, <2>3, <2>4, <2>5, <2>6
<1> QED
  BY <1>6, <1>7, <1>8 DEF Settle

LEMMA PlaceInvStep == TypeInv /\ PlaceInv /\ [Next]_vars => PlaceInv'
<1> SUFFICES ASSUME TypeInv, PlaceInv, [Next]_vars PROVE PlaceInv'
  OBVIOUS
<1>1. ASSUME NEW w \in Workers, WorkerStep(w) PROVE PlaceInv'
  BY <1>1, EnterPlaces, RunPlaces, SettlePlaces DEF WorkerStep
<1>2. ASSUME NEW w \in Workers, NEW t \in Tasks, Spawn(w, t) \/ Wake(w, t) PROVE PlaceInv'
  BY <1>2, CreateTaskPlaces, ResumePlaces DEF Spawn, Wake
<1>3. ASSUME NEW t \in Tasks, Start(t) PROVE PlaceInv'
  BY <1>3, CreateTaskPlaces DEF Start
<1>4. CASE (\E w \in Workers : SpuriousWakeup(w)) \/ CallExit
  <2>1. /\ UNCHANGED <<cur, runningTasks, taskVars>>
        /\ \A v \in Workers : wpc'[v] # wpc[v] => wpc[v] = "waiting" /\ wpc'[v] = "notified"
    BY <1>4 DEF SpuriousWakeup, CallExit, Exit, Idle, TypeInv, TypeOK
  <2>2. Busy' = Busy /\ Queued' = Queued
    BY <2>1 DEF Busy, Queued, Elems, taskVars
  <2>3. OnePlace' /\ NoTaskLost' /\ WakeupKept'
    BY <2>1, <2>2 DEF PlaceInv, OnePlace, Distinct, NoTaskLost, WakeupKept, taskVars
  <2>4. OwedAwake'
    BY <2>1 DEF PlaceInv, OwedAwake, taskVars
  <2> QED
    BY <2>3, <2>4 DEF PlaceInv
<1>5. CASE StartFails \/ Join \/ UNCHANGED vars
  <2>1. UNCHANGED <<wpc, cur, runningTasks, taskVars>>
    BY <1>5 DEF StartFails, Join, vars
  <2> QED
    BY <2>1 DEF PlaceInv, OnePlace, Distinct, NoTaskLost, WakeupKept, OwedAwake,
                Busy, Queued, Elems, taskVars
<1> QED
  BY <1>1, <1>2, <1>3, <1>4, <1>5 DEF Next

LEMMA PlaceInvInit == Init => PlaceInv
<1> SUFFICES ASSUME Init PROVE PlaceInv
  OBVIOUS
<1>1. Busy = {} /\ Queued = {} /\ Distinct(runningTasks)
  BY DEF Init, Busy, Queued, Elems, Distinct
<1> QED
  BY <1>1 DEF Init, PlaceInv, OnePlace, NoTaskLost, WakeupKept, OwedAwake

LEMMA Placed == Spec => []PlaceInv
<1>1. Init => TypeInv /\ PlaceInv
  BY TypeInvInit, PlaceInvInit
<1>2. (TypeInv /\ PlaceInv) /\ [Next]_vars => (TypeInv /\ PlaceInv)'
  BY TypeInvStep, PlaceInvStep
<1>3. Spec => [](TypeInv /\ PlaceInv)
  BY <1>1, <1>2, PTL DEF Spec
<1> QED
  BY <1>3, PTL

\* No lua_State is ever run by two workers, nor queued twice, nor queued while
\* it sleeps or runs.
THEOREM TasksHaveOnePlace == Spec => []OnePlace
<1>1. PlaceInv => OnePlace
  BY DEF PlaceInv
<1> QED
  BY <1>1, Placed, PTL

\* Every live task is in the queue, asleep or on a worker, and nothing that is
\* there has been deleted.
THEOREM NoTaskIsLost == Spec => []NoTaskLost
<1>1. PlaceInv => NoTaskLost
  BY DEF PlaceInv
<1> QED
  BY <1>1, Placed, PTL

\* A resume is never forgotten, whenever it comes.
THEOREM WakeupsAreKept == Spec => []WakeupKept
<1>1. PlaceInv => WakeupKept
  BY DEF PlaceInv
<1> QED
  BY <1>1, Placed, PTL
=============================================================================
