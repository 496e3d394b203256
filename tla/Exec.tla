------------------------------- MODULE Exec -------------------------------
(***************************************************************************)
(* Running commands (lemon/os/exec.hpp, exec_posix.hpp): an exec object    *)
(* forks a child, has a thread of its own wait for it, and gives the exit  *)
(* code to whoever calls wait.  Several objects share one process, hence   *)
(* one table of children; several threads may share one object.            *)
(*                                                                         *)
(* What runs inside exec::_mutex is one action.  The mutex is released     *)
(* where the code waits on _condition -- for ever, or for ten milliseconds *)
(* between two turns of io_service_run -- and is kept by a caller that     *)
(* hangs in _waiter.join().  What moves through the pipes is left out.     *)
(***************************************************************************)
EXTENDS Integers, FiniteSets

CONSTANTS
  Execs,      \* the exec objects
  Piped,      \* those with options other than none
  Callers,    \* the program's threads, each of which may use every object
  NoExec,     \* no object
  Codes,      \* the exit codes of the commands
  MaxPids,    \* bound: the process ids, which the kernel gives out again
  MaxFailures \* bound: forks and creations of a thread that fail

ASSUME ExecAssumption ==
  /\ Piped \subseteq Execs
  /\ NoExec \notin Execs
  /\ 0 \in Codes /\ Codes \subseteq 0..255
  /\ MaxPids \in Nat /\ MaxFailures \in Nat

VARIABLES
  joined,    \* _joined
  waiter,    \* the thread _waiter: "none" when not joinable, else where it stands
  pid,       \* process::_pid
  code,      \* _exit_code
  status,    \* the kernel: how each child stands
  reaped,    \* the kernel: the children somebody has waited for
  cpc, on,   \* where each caller stands, and in which object's wait it is
  alive,     \* the objects not destroyed
  program,   \* "runs", "terminated" by std::terminate or "replaced" by execv
  failures,  \* how many forks and creations of a thread have failed
  owed       \* history: objects started with no wait that returned since

objectVars == <<joined, waiter, pid, code>>
vars == <<objectVars, status, reaped, cpc, on, alive, program, failures, owed>>

\* The status of a child is its exit code or one of these.
Unborn == -3
Running == -2
Killed == -1

Children == 1..MaxPids
NoChild == -1
Born == {p \in Children : status[p] # Unborn}

\* Nobody keeps _mutex of e: only a join that hangs does so across steps.
Free(e) == \A k \in Callers : cpc[k] = "joining" => on[k] # e

Init ==
  /\ joined = [e \in Execs |-> TRUE]
  /\ waiter = [e \in Execs |-> "none"]
  /\ pid = [e \in Execs |-> NoChild]
  /\ code = [e \in Execs |-> 0]
  /\ status = [p \in Children |-> Unborn]
  /\ reaped = {}
  /\ cpc = [k \in Callers |-> "idle"]
  /\ on = [k \in Callers |-> NoExec]
  /\ alive = Execs
  /\ program = "runs"
  /\ failures = 0
  /\ owed = {}

-----------------------------------------------------------------------------
(* start.                                                                  *)

\* The object's new child is p.  The kernel may give out the id of the old one again;
\* until now its status is kept, though it was reaped, for what is said of it.
Replace(e, p) ==
  LET gone == {pid[e]} \cap reaped IN
  /\ pid' = [pid EXCEPT ![e] = p]
  /\ reaped' = reaped \ gone
  /\ status' = [q \in Children |->
                  IF q = p THEN Running ELSE IF q \in gone THEN Unborn ELSE status[q]]

\* _joined = false and the new waiter thread, with n failures up to then.  To assign
\* to a std::thread that is joinable ends the program.  The system may refuse the
\* thread: then start throws, with a child that nobody waits for and _joined false.
Launch(e, n) ==
  /\ joined' = [joined EXCEPT ![e] = FALSE]
  /\ owed' = owed \cup {e}
  /\ \/ /\ waiter[e] = "none" /\ waiter' = [waiter EXCEPT ![e] = "waitpid"]
        /\ failures' = n /\ UNCHANGED program
     \/ /\ waiter[e] # "none" /\ program' = "terminated"
        /\ failures' = n /\ UNCHANGED waiter
     \/ /\ n < MaxFailures /\ failures' = n + 1
        /\ UNCHANGED <<waiter, program>>

\* What start asks for: while _joined is false it throws and changes nothing.
MayStart(k, e) ==
  /\ cpc[k] = "idle" /\ e \in alive
  /\ Free(e) /\ joined[e]

Start(k, e) ==
  /\ MayStart(k, e)
  /\ \E p \in Children \ Born : (\A q \in Children \ Born : p <= q) /\ Replace(e, p)
  /\ Launch(e, failures)
  /\ UNCHANGED <<code, cpc, on, alive>>

\* fork fails: the switch falls through into the child's branch, and the program
\* itself executes the command.  When execv returns, start goes on with pid -1.
StartFails(k, e) ==
  /\ MayStart(k, e) /\ failures < MaxFailures
  /\ Replace(e, NoChild)
  /\ \/ /\ program' = "replaced" /\ failures' = failures + 1
        /\ UNCHANGED <<joined, waiter, owed>>
     \/ Launch(e, failures + 1)
  /\ UNCHANGED <<code, cpc, on, alive>>

-----------------------------------------------------------------------------
(* The child and the waiter thread.                                        *)

\* The command exits or is killed.  A child whose execv failed goes on with the
\* caller's program; to its parent it is a child that ends as this one does.
ChildEnds(p) ==
  /\ status[p] = Running
  /\ \E s \in Codes \cup {Killed} : status' = [status EXCEPT ![p] = s]
  /\ UNCHANGED <<objectVars, reaped, cpc, on, alive, program, failures, owed>>

\* Mutant: the waiter thread takes any child.
Anybodys(e) == Born \ reaped

\* The children that waitpid(_pid) looks at: all of them when _pid is -1.
Mine(e) == {p \in Born \ reaped : pid[e] \in {NoChild, p}}

\* One turn of the loop of process::wait.  A child that did not exit by itself is
\* reaped and waited for once more; without a child (ECHILD) the status word, zero or
\* that of a killed child, gives the exit code zero.
WaitPid(e) ==
  /\ waiter[e] = "waitpid"
  /\ \/ /\ Mine(e) = {}
        /\ waiter' = [waiter EXCEPT ![e] = "ended"]
        /\ code' = [code EXCEPT ![e] = 0]
        /\ UNCHANGED reaped
     \/ \E p \in Mine(e) :
          /\ status[p] # Running
          /\ reaped' = reaped \cup {p}
          /\ IF status[p] = Killed THEN UNCHANGED <<waiter, code>>
             ELSE /\ waiter' = [waiter EXCEPT ![e] = "ended"]
                  /\ code' = [code EXCEPT ![e] = status[p]]
  /\ UNCHANGED <<joined, pid, status, cpc, on, alive, program, failures, owed>>

\* Mutant: nobody is notified.
NotifyNobody(e) == UNCHANGED cpc

\* _condition.notify_all().
NotifyAll(e) ==
  cpc' = [k \in Callers |-> IF cpc[k] = "blocked" /\ on[k] = e THEN "looping" ELSE cpc[k]]

\* The rest of wait_proc, inside _mutex.
WaitProc(e) ==
  /\ waiter[e] = "ended" /\ Free(e)
  /\ waiter' = [waiter EXCEPT ![e] = "done"]
  /\ joined' = [joined EXCEPT ![e] = TRUE]
  /\ NotifyAll(e)
  /\ UNCHANGED <<pid, code, status, reaped, on, alive, program, failures, owed>>

-----------------------------------------------------------------------------
(* wait.                                                                   *)

CallWait(k, e) ==
  /\ cpc[k] = "idle" /\ e \in alive
  /\ cpc' = [cpc EXCEPT ![k] = "looping"]
  /\ on' = [on EXCEPT ![k] = e]
  /\ UNCHANGED <<objectVars, status, reaped, alive, program, failures, owed>>

\* The head of the loop while the command runs.  With pipes the caller polls: it
\* is back at the head of the loop after each turn, which changes nothing.
Block(k) ==
  /\ cpc[k] = "looping" /\ Free(on[k])
  /\ ~joined[on[k]] /\ on[k] \notin Piped
  /\ cpc' = [cpc EXCEPT ![k] = "blocked"]
  /\ UNCHANGED <<objectVars, status, reaped, on, alive, program, failures, owed>>

\* A condition variable may wake its waiters for nothing.
WakeForNothing(k) ==
  /\ cpc[k] = "blocked"
  /\ cpc' = [cpc EXCEPT ![k] = "looping"]
  /\ UNCHANGED <<objectVars, status, reaped, on, alive, program, failures, owed>>

\* io_service_run once the command has ended: it releases the mutex for at most ten
\* milliseconds, and wait does not look at _joined again.
Drain(k) ==
  /\ cpc[k] = "looping" /\ Free(on[k])
  /\ joined[on[k]] /\ on[k] \in Piped
  /\ cpc' = [cpc EXCEPT ![k] = "draining"]
  /\ UNCHANGED <<objectVars, status, reaped, on, alive, program, failures, owed>>

\* Mutant: the thread that ended is left joinable.
JoinsNot(e) == UNCHANGED waiter

Joins(e) == waiter' = [waiter EXCEPT ![e] = "none"]

\* The caller is out of wait, by a return or an exception.
Leaves(k) ==
  /\ cpc' = [cpc EXCEPT ![k] = "idle"]
  /\ on' = [on EXCEPT ![k] = NoExec]

\* _waiter.join() and the return of _exit_code, inside _mutex.  Without a thread to
\* join it throws; a thread that has not been through _mutex yet is waited for in
\* vain, for ever.
Collect(k) ==
  LET e == on[k] IN
  /\ Free(e)
  /\ \/ cpc[k] = "looping" /\ joined[e] /\ e \notin Piped
     \/ cpc[k] = "draining"
  /\ \/ waiter[e] = "none" /\ Leaves(k) /\ UNCHANGED <<waiter, owed>>
     \/ waiter[e] = "done" /\ Leaves(k) /\ Joins(e) /\ owed' = owed \ {e}
     \/ /\ waiter[e] \in {"waitpid", "ended"}
        /\ cpc' = [cpc EXCEPT ![k] = "joining"]
        /\ UNCHANGED <<waiter, on, owed>>
  /\ UNCHANGED <<joined, pid, code, status, reaped, alive, program, failures>>

\* ~exec, when no caller is inside the object any more: it joins the thread.
Destroy(k, e) ==
  /\ cpc[k] = "idle" /\ e \in alive
  /\ \A j \in Callers : cpc[j] # "idle" => on[j] # e
  /\ waiter[e] \in {"none", "done"}
  /\ waiter' = [waiter EXCEPT ![e] = "none"]
  /\ alive' = alive \ {e}
  /\ UNCHANGED <<joined, pid, code, status, reaped, cpc, on, program, failures, owed>>

-----------------------------------------------------------------------------
InWait(k) == Block(k) \/ Drain(k) \/ Collect(k)

Next ==
  /\ program = "runs"
  /\ \/ \E k \in Callers, e \in Execs :
          Start(k, e) \/ StartFails(k, e) \/ CallWait(k, e) \/ Destroy(k, e)
     \/ \E k \in Callers : Block(k) \/ WakeForNothing(k) \/ Drain(k) \/ Collect(k)
     \/ \E e \in Execs : WaitPid(e) \/ WaitProc(e)
     \/ \E p \in Children : ChildEnds(p)

\* The threads run, and every command ends.
Fairness ==
  /\ \A k \in Callers : WF_vars(program = "runs" /\ InWait(k))
  /\ \A e \in Execs : WF_vars(program = "runs" /\ (WaitPid(e) \/ WaitProc(e)))
  /\ \A p \in Children : WF_vars(program = "runs" /\ ChildEnds(p))

Spec == Init /\ [][Next]_vars /\ Fairness

-----------------------------------------------------------------------------
(* Properties.                                                             *)

\* What wait reports of a child: zero, when a signal ended it.
ExitStatus(s) == IF s = Killed THEN 0 ELSE s

\* A wait that returns gives the exit code of the command started last on its
\* object, whatever other objects and callers did meanwhile -- zero for one that
\* was killed -- as long as no fork and no creation of a thread has failed.
ReportsChild ==
  [][\A e \in owed \ owed' : failures = 0 => code[e] = ExitStatus(status[pid[e]])]_vars

\* The program is ended by std::terminate only by the start of an object whose
\* previous command no wait has returned for.
OnlyUnwaited ==
  [][program' = "terminated" => \E e \in owed : joined[e] /\ ~joined'[e]]_vars

\* Nobody will set _joined: the thread that should could not be created.
Abandoned(e) == ~joined[e] /\ waiter[e] \in {"none", "done"}

\* Threads that share an object with pipes hang in it: one returns from wait and
\* starts it again while the other drains the pipes, which then joins the new thread
\* and keeps the mutex that thread needs.
HungInJoin(e) == e \in Piped /\ ~Free(e)

\* After a fork that failed the object waits for any child of the program.
WaitsForAny(e) == failures > 0 /\ pid[e] = NoChild

Restart(e) == joined[e] /\ ~joined'[e]

\* A caller in wait comes back if other threads stop starting its object in the end,
\* whatever they do with the other objects -- one that is started again before the
\* caller has the mutex finds _joined false at every wakeup -- but for three cases:
\* the waiter thread could not be created, threads hang in an object with pipes, or
\* the fork failed.
WaitReturns ==
  \A k \in Callers, e \in Execs :
    <>[][~Restart(e)]_vars =>
      (on[k] = e ~> (\/ on[k] = NoExec \/ program # "runs"
                    \/ Abandoned(e) \/ HungInJoin(e) \/ WaitsForAny(e)))
=============================================================================
