----------------------------- MODULE Scheduler -----------------------------
(***************************************************************************)
(* The cooperative scheduler of iolua (iolua/ltask/scheduler.cpp, task.hpp *)
(* and task.cpp): a pool of worker threads that share one run queue, run   *)
(* Lua tasks until they yield or end, and put a yielded task to sleep      *)
(* unless somebody asked for it meanwhile.                                 *)
(*                                                                         *)
(* Every access to the queue and to the two task maps happens inside one   *)
(* exclusive section of scheduler::_mutex, so each such section is one     *)
(* atomic action here.  What runs without the mutex -- the start of        *)
(* task::run, the Lua code, the end of task::run -- is made of actions of  *)
(* its own, between which the other threads may do anything.               *)
(*                                                                         *)
(* Task ids are the members of Tasks, each given to one task only: the     *)
(* 32-bit generator _idgen does not come round within a behaviour.         *)
(***************************************************************************)
EXTENDS Integers, Sequences, FiniteSets

CONSTANTS
  Workers,    \* the threads of scheduler::_threads
  Tasks,      \* the task ids the generator can hand out
  NoTask,     \* the worker's local variable t, when it holds no task
  Hogs        \* the tasks whose Lua code is not assumed ever to yield or end

ASSUME SchedulerAssumption ==
  /\ IsFiniteSet(Workers)
  /\ NoTask \notin Tasks
  /\ Hogs \subseteq Tasks

VARIABLES
  wpc,            \* where each worker stands in do_schedule
  cur,            \* the task each worker holds (local variable t)
  runningTasks,   \* _runningTasks, the run queue
  sleepingTasks,  \* ids with a non-null entry in _sleepingTasks
  tasks,          \* ids with a non-null entry in _tasks
  state,          \* task::_state, "absent" before new and "deleted" after delete
  stayAwake,      \* task::_resume
  exit,           \* _exit
  main,           \* where the thread that owns the scheduler stands
  owed            \* history: tasks resumed since their last run began

taskVars == <<sleepingTasks, tasks, state, stayAwake, owed>>
vars == <<wpc, cur, runningTasks, taskVars, exit, main>>

Idle    == {w \in Workers : wpc[w] = "waiting"}
Arriving == {w \in Workers : wpc[w] \in {"start", "notified"}}
Elems(q) == {q[i] : i \in DOMAIN q}
Queued  == Elems(runningTasks)

-----------------------------------------------------------------------------
(* Operations of the scheduler, each one section of _mutex.                *)

\* Mutant: the notification is forgotten.
NotifyNobody == UNCHANGED wpc

\* _cv.notify_one(): one waiter, any, is released; without waiters it is lost.
NotifyOne ==
  IF Idle = {} THEN UNCHANGED wpc
  ELSE \E w \in Idle : wpc' = [wpc EXCEPT ![w] = "notified"]

\* create_task, once the id is drawn and the task built (neither is visible to
\* other threads).  The constructor leaves _resume uninitialised.
CreateTask(t) ==
  /\ state[t] = "absent"
  /\ state' = [state EXCEPT ![t] = "init"]
  /\ \E b \in BOOLEAN : stayAwake' = [stayAwake EXCEPT ![t] = b]
  /\ tasks' = tasks \cup {t}
  /\ runningTasks' = Append(runningTasks, t)
  /\ NotifyOne
  /\ UNCHANGED <<cur, sleepingTasks, owed, exit>>

\* Mutant: a task that is awake is not told to stay so.
ResumeIgnoresAwake(id) ==
  /\ id \in sleepingTasks => NotifyOne
  /\ sleepingTasks' = sleepingTasks \ {id}
  /\ runningTasks' = runningTasks \o (IF id \in sleepingTasks THEN <<id>> ELSE <<>>)
  /\ id \notin sleepingTasks => UNCHANGED wpc
  /\ owed' = owed \cup ({id} \cap tasks)
  /\ UNCHANGED <<cur, tasks, state, stayAwake, exit>>

\* Mutant: the sleeping map keeps the task it gives to the run queue.
ResumeKeepsEntry(id) ==
  /\ id \in sleepingTasks /\ NotifyOne
  /\ runningTasks' = Append(runningTasks, id)
  /\ owed' = owed \cup {id}
  /\ UNCHANGED <<cur, sleepingTasks, tasks, state, stayAwake, exit>>

\* Mutant: the entry that _sleepingTasks[id] makes is queued without a null test.
ResumeUnchecked(id) ==
  /\ NotifyOne
  /\ sleepingTasks' = sleepingTasks \ {id}
  /\ runningTasks' = Append(runningTasks, IF id \in sleepingTasks THEN id ELSE NoTask)
  /\ owed' = owed \cup ({id} \cap tasks)
  /\ UNCHANGED <<cur, tasks, state, stayAwake, exit>>

\* resume(id): a sleeping task goes to the run queue, a task that is awake is
\* told to stay so, an unknown id is only logged.
Resume(id) ==
  /\ owed' = owed \cup ({id} \cap tasks)
  /\ \/ /\ id \in sleepingTasks
        /\ sleepingTasks' = sleepingTasks \ {id}
        /\ runningTasks' = Append(runningTasks, id)
        /\ NotifyOne
        /\ UNCHANGED stayAwake
     \/ /\ id \notin sleepingTasks
        /\ stayAwake' = [stayAwake EXCEPT ![id] = IF id \in tasks THEN TRUE ELSE @]
        /\ UNCHANGED <<wpc, runningTasks, sleepingTasks>>
  /\ UNCHANGED <<cur, tasks, state, exit>>

\* Mutant: the flag is raised and nobody is told.
ExitSilently == exit' = TRUE /\ UNCHANGED <<wpc, cur, runningTasks, taskVars>>

\* exit(code): raise the flag and release every waiter.
Exit ==
  /\ exit' = TRUE
  /\ wpc' = [w \in Workers |-> IF w \in Idle THEN "notified" ELSE wpc[w]]
  /\ UNCHANGED <<cur, runningTasks, taskVars>>

-----------------------------------------------------------------------------
(* The worker thread.                                                      *)

\* The while loop of do_schedule, from its test to the release of the mutex
\* (in the wait, at unlock, or on return), with q in the run queue.
Loop(w, q) ==
  \/ /\ exit
     /\ wpc' = [wpc EXCEPT ![w] = "exited"]
     /\ cur' = [cur EXCEPT ![w] = NoTask]
     /\ runningTasks' = q
  \/ /\ ~exit /\ q = <<>>
     /\ wpc' = [wpc EXCEPT ![w] = "waiting"]
     /\ cur' = [cur EXCEPT ![w] = NoTask]
     /\ runningTasks' = q
  \/ /\ ~exit /\ q # <<>>
     /\ wpc' = [wpc EXCEPT ![w] = "popped"]
     /\ cur' = [cur EXCEPT ![w] = Head(q)]
     /\ runningTasks' = Tail(q)

\* The thread starts, or comes back from the wait, and gets the mutex.
Enter(w) ==
  /\ w \in Arriving
  /\ Loop(w, runningTasks)
  /\ UNCHANGED <<taskVars, exit, main>>

\* The wait may end without a notification.
SpuriousWakeup(w) ==
  /\ wpc[w] = "waiting"
  /\ wpc' = [wpc EXCEPT ![w] = "notified"]
  /\ UNCHANGED <<cur, runningTasks, taskVars, exit, main>>

\* task::run begins, without the mutex: _resume is cleared, Lua is resumed.
BeginRun(w) ==
  /\ wpc[w] = "popped"
  /\ wpc' = [wpc EXCEPT ![w] = "running"]
  /\ stayAwake' = [stayAwake EXCEPT ![cur[w]] = FALSE]
  /\ owed' = owed \ {cur[w]}
  /\ UNCHANGED <<cur, runningTasks, sleepingTasks, tasks, state, exit, main>>

\* task::run ends, still without the mutex, with LUA_YIELD ...
Yield(w) ==
  /\ wpc[w] = "running"
  /\ wpc' = [wpc EXCEPT ![w] = "returned"]
  /\ state' = [state EXCEPT ![cur[w]] = "sleeping"]
  /\ UNCHANGED <<cur, runningTasks, sleepingTasks, tasks, stayAwake, owed, exit, main>>

\* ... or with LUA_OK or an error.
Finish(w) ==
  /\ wpc[w] = "running"
  /\ wpc' = [wpc EXCEPT ![w] = "returned"]
  /\ state' = [state EXCEPT ![cur[w]] = "closed"]
  /\ UNCHANGED <<cur, runningTasks, sleepingTasks, tasks, stayAwake, owed, exit, main>>

\* Mutant: a task that ended leaves its entry in _tasks.
SettleKeepsEntry(w) ==
  /\ wpc[w] = "returned" /\ state[cur[w]] = "closed"
  /\ state' = [state EXCEPT ![cur[w]] = "deleted"]
  /\ Loop(w, runningTasks)
  /\ UNCHANGED <<sleepingTasks, tasks, stayAwake, owed, exit, main>>

\* Mutant: a task that yielded is put to sleep whatever its flag says.
SettleSleeps(w) ==
  /\ wpc[w] = "returned" /\ state[cur[w]] # "closed"
  /\ sleepingTasks' = sleepingTasks \cup {cur[w]}
  /\ Loop(w, runningTasks)
  /\ UNCHANGED <<tasks, state, stayAwake, owed, exit, main>>

\* The rest of the loop body under the mutex, and the next turn of the loop.
Settle(w) ==
  LET t == cur[w] IN
  /\ wpc[w] = "returned"
  /\ \/ /\ state[t] = "closed"
        /\ tasks' = tasks \ {t}
        /\ state' = [state EXCEPT ![t] = "deleted"]
        /\ owed' = owed \ {t}
        /\ Loop(w, runningTasks)
        /\ UNCHANGED sleepingTasks
     \/ /\ state[t] # "closed" /\ stayAwake[t]
        /\ Loop(w, Append(runningTasks, t))
        /\ UNCHANGED <<sleepingTasks, tasks, state, owed>>
     \/ /\ state[t] # "closed" /\ ~stayAwake[t]
        /\ sleepingTasks' = sleepingTasks \cup {t}
        /\ Loop(w, runningTasks)
        /\ UNCHANGED <<tasks, state, owed>>
  /\ UNCHANGED <<stayAwake, exit, main>>

-----------------------------------------------------------------------------
(* What running Lua code asks of the scheduler: iolua.task, and resume at  *)
(* the end of iolua.send, for an id that some channel remembers.           *)

Spawn(w, t) ==
  /\ wpc[w] = "running"
  /\ CreateTask(t)
  /\ UNCHANGED main

Wake(w, id) ==
  /\ wpc[w] = "running"
  /\ state[id] # "absent"
  /\ Resume(id)
  /\ UNCHANGED main

-----------------------------------------------------------------------------
(* The owner: scheduler::start creates the first task or throws; a throw   *)
(* leads to the destructor; exit may be called by any thread meanwhile;    *)
(* join returns when every worker has returned.                            *)

Start(t) ==
  /\ main = "start"
  /\ CreateTask(t)
  /\ main' = "joining"

StartFails ==
  /\ main = "start"
  /\ main' = "destroying"
  /\ UNCHANGED <<wpc, cur, runningTasks, taskVars, exit>>

CallExit ==
  /\ main \in {"joining", "destroying"}
  /\ ~exit
  /\ Exit
  /\ main' = "joining"

Join ==
  /\ main = "joining"
  /\ \A w \in Workers : wpc[w] = "exited"
  /\ main' = "joined"
  /\ UNCHANGED <<wpc, cur, runningTasks, taskVars, exit>>

-----------------------------------------------------------------------------
Init ==
  /\ wpc = [w \in Workers |-> "start"]
  /\ cur = [w \in Workers |-> NoTask]
  /\ runningTasks = <<>>
  /\ sleepingTasks = {}
  /\ tasks = {}
  /\ state = [t \in Tasks |-> "absent"]
  /\ stayAwake = [t \in Tasks |-> FALSE]
  /\ exit = FALSE
  /\ main = "start"
  /\ owed = {}

WorkerStep(w) ==
  \/ Enter(w)
  \/ BeginRun(w)
  \/ Yield(w)
  \/ Finish(w)
  \/ Settle(w)

Next ==
  \/ \E w \in Workers : WorkerStep(w) \/ SpuriousWakeup(w)
  \/ \E w \in Workers, t \in Tasks : Spawn(w, t) \/ Wake(w, t)
  \/ \E t \in Tasks : Start(t)
  \/ StartFails
  \/ CallExit
  \/ Join

(***************************************************************************)
(* Fairness.  The operating system runs every thread and grants the mutex  *)
(* to every thread that asks for it; main goes on after start.  The Lua    *)
(* code of a task outside Hogs does not run for ever.                      *)
(***************************************************************************)
Fairness ==
  /\ \A w \in Workers : WF_vars(Enter(w) \/ BeginRun(w) \/ Settle(w))
  /\ \A w \in Workers : WF_vars(cur[w] \notin Hogs /\ (Yield(w) \/ Finish(w)))
  /\ WF_vars((\E t \in Tasks : Start(t)) \/ StartFails)
  /\ WF_vars(main = "destroying" /\ CallExit)
  /\ WF_vars(Join)

Spec == Init /\ [][Next]_vars /\ Fairness

-----------------------------------------------------------------------------
(* Properties.                                                             *)

TaskState == {"absent", "init", "sleeping", "closed", "deleted"}
WorkerPc  == {"start", "waiting", "notified", "popped", "running", "returned", "exited"}

\* The type invariant of the scheduler's fields and of the threads' locals.
TypeOK ==
  /\ wpc \in [Workers -> WorkerPc]
  /\ cur \in [Workers -> Tasks \cup {NoTask}]
  /\ runningTasks \in Seq(Tasks)
  /\ sleepingTasks \in SUBSET Tasks
  /\ tasks \in SUBSET Tasks
  /\ state \in [Tasks -> TaskState]
  /\ stayAwake \in [Tasks -> BOOLEAN]
  /\ exit \in BOOLEAN
  /\ main \in {"start", "destroying", "joining", "joined"}
  /\ owed \in SUBSET Tasks

Distinct(q) == \A i, j \in DOMAIN q : q[i] = q[j] => i = j

Busy == {w \in Workers : wpc[w] \in {"popped", "running", "returned"}}

\* A task is queued at most once, is never both queued, asleep and on a worker,
\* and is never on two workers: its lua_State is not safe for two threads.
OnePlace ==
  /\ Distinct(runningTasks)
  /\ \A v, w \in Busy : cur[v] = cur[w] => v = w
  /\ Queued \cap sleepingTasks = {}
  /\ \A w \in Busy : cur[w] \notin Queued /\ cur[w] \notin sleepingTasks

\* The queue, the sleeping map and the workers hold every task of _tasks and
\* nothing else: no task is forgotten, and no deleted task can be reached.
NoTaskLost ==
  /\ tasks = Queued \cup sleepingTasks \cup {cur[w] : w \in Busy}
  /\ \A t \in tasks : state[t] \in {"init", "sleeping", "closed"}

\* A resume is never forgotten: a task resumed since its last run began is not
\* asleep, whichever of the sleeping map and the flag the resume went through.
WakeupKept == owed \cap sleepingTasks = {}

\* Notifications are enough: while a worker waits unnotified, every queued task
\* has a worker of its own on the way to it, although do_schedule requeues a
\* task without notifying anybody.
WorkConserving ==
  ~exit /\ Idle # {} => Len(runningTasks) <= Cardinality(Arriving)

\* A queued task gets a worker, even if fewer tasks than there are workers
\* never give theirs back.
QueuedRuns ==
  \A t \in Tasks : t \in Queued ~> (exit \/ \E w \in Workers : cur[w] = t)

\* A resumed task runs again, or has ended.
WakeupRuns == \A t \in Tasks \ Hogs : t \in owed ~> (exit \/ t \notin owed)

HoggedForever == \E w \in Workers, t \in Hogs : <>[](cur[w] = t /\ wpc[w] = "running")

\* After exit every worker leaves its loop and join returns, unless some task
\* never gives its worker back: the flag and the notification cannot both miss a
\* worker that is about to wait.
ExitJoins == (exit ~> main = "joined") \/ HoggedForever
=============================================================================
