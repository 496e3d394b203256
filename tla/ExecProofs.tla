---------------------------- MODULE ExecProofs ----------------------------
(***************************************************************************)
(* What a wait reports, for any number of objects, threads and commands:   *)
(* the code of the object's own last command, because no two objects wait  *)
(* for one child, and what ends the program, because a waiter thread       *)
(* belongs to a start that no wait has returned for.                       *)
(***************************************************************************)
EXTENDS Exec, TLAPS

Places == {"idle", "looping", "blocked", "draining", "joining"}

TypeInv ==
  /\ joined \in [Execs -> BOOLEAN]
  /\ waiter \in [Execs -> {"none", "waitpid", "ended", "done"}]
  /\ pid \in [Execs -> Children \cup {NoChild}]
  /\ code \in [Execs -> Codes]
  /\ status \in [Children -> Codes \cup {Unborn, Running, Killed}]
  /\ reaped \subseteq Children
  /\ cpc \in [Callers -> Places]
  /\ on \in [Callers -> Execs \cup {NoExec}]
  /\ \A k \in Callers : cpc[k] # "idle" => on[k] \in Execs
  /\ program \in {"runs", "terminated", "replaced"}
  /\ failures \in Nat
  /\ owed \subseteq Execs

\* A waiter thread that nobody has joined belongs to a start without a wait.
WaiterOwed == \A e \in Execs : waiter[e] # "none" => e \in owed

Ended(p) == status[p] \notin {Unborn, Running}

\* The children and the objects that started them are one to one.
OneEach ==
  /\ \A e \in Execs : pid[e] # NoChild => status[pid[e]] # Unborn
  /\ \A e, f \in Execs : pid[e] = pid[f] /\ pid[e] # NoChild => e = f
  /\ \A e \in Execs : waiter[e] # "none" => pid[e] # NoChild
  /\ \A p \in reaped : Ended(p)

\* A waiter thread still waits for a child that was reaped only when that was
\* killed, and afterwards it holds the code of its own child.
CodeKnown ==
  program = "runs" =>
    \A e \in Execs :
      /\ waiter[e] = "waitpid" /\ pid[e] \in reaped => status[pid[e]] = Killed
      /\ waiter[e] \in {"ended", "done"} =>
           Ended(pid[e]) /\ code[e] = ExitStatus(status[pid[e]])

ExecInv == TypeInv /\ WaiterOwed /\ (failures = 0 => OneEach /\ CodeKnown)

-----------------------------------------------------------------------------
LEMMA Numbers ==
  /\ Unborn \notin Codes /\ Running \notin Codes /\ Killed \notin Codes
  /\ Unborn # Running /\ Unborn # Killed /\ Running # Killed
  /\ NoChild \notin Children /\ 0 \in Codes
BY ExecAssumption DEF ExecAssumption, Unborn, Running, Killed, NoChild, Children

LEMMA InitHolds == Init => ExecInv
BY Numbers, ExecAssumption
DEF ExecAssumption, Init, ExecInv, TypeInv, Places, WaiterOwed, OneEach, CodeKnown, Ended

LEMMA ReplaceTypes ==
  ASSUME TypeInv, NEW e \in Execs, NEW p \in Children \cup {NoChild}, Replace(e, p)
  PROVE  /\ pid' \in [Execs -> Children \cup {NoChild}]
         /\ status' \in [Children -> Codes \cup {Unborn, Running, Killed}]
         /\ reaped' \subseteq Children
BY DEF TypeInv, Replace

LEMMA LaunchTypes ==
  ASSUME TypeInv, NEW e \in Execs, NEW n \in Nat, Launch(e, n)
  PROVE  /\ joined' \in [Execs -> BOOLEAN] /\ owed' \subseteq Execs
         /\ waiter' \in [Execs -> {"none", "waitpid", "ended", "done"}]
         /\ program' \in {"runs", "terminated", "replaced"} /\ failures' \in Nat
BY DEF TypeInv, Launch

\* The types survive every step.
LEMMA TypesKept == TypeInv /\ [Next]_vars => TypeInv'
<1> SUFFICES ASSUME TypeInv, [Next]_vars PROVE TypeInv'
  OBVIOUS
<1> USE Numbers, ExecAssumption DEF ExecAssumption, TypeInv, Places
<1>1. ASSUME NEW k \in Callers, NEW e \in Execs, Start(k, e) PROVE TypeInv'
  <2>1. PICK p \in Children : Replace(e, p)
    BY <1>1 DEF Start
  <2> QED
    BY <1>1, <2>1, ReplaceTypes, LaunchTypes DEF Start
<1>2. ASSUME NEW k \in Callers, NEW e \in Execs, StartFails(k, e) PROVE TypeInv'
  <2>1. /\ joined' \in [Execs -> BOOLEAN] /\ owed' \subseteq Execs
        /\ waiter' \in [Execs -> {"none", "waitpid", "ended", "done"}]
        /\ program' \in {"runs", "terminated", "replaced"} /\ failures' \in Nat
    <3>1. CASE Launch(e, failures + 1)
      <4>1. failures + 1 \in Nat
        OBVIOUS
      <4> QED
        BY <3>1, <4>1, LaunchTypes
    <3>2. CASE program' = "replaced" /\ failures' = failures + 1 /\ UNCHANGED <<joined, waiter, owed>>
      BY <3>2
    <3> QED
      BY <1>2, <3>1, <3>2 DEF StartFails
  <2> QED
    BY <1>2, <2>1, ReplaceTypes DEF StartFails
<1>3. ASSUME NEW k \in Callers, NEW e \in Execs, CallWait(k, e) PROVE TypeInv'
  BY <1>3 DEF CallWait, objectVars
<1>4. ASSUME NEW k \in Callers, NEW e \in Execs, Destroy(k, e) PROVE TypeInv'
  BY <1>4 DEF Destroy
<1>5. ASSUME NEW k \in Callers, Block(k) \/ WakeForNothing(k) \/ Drain(k) PROVE TypeInv'
  BY <1>5 DEF Block, WakeForNothing, Drain, objectVars
<1>6. ASSUME NEW k \in Callers, Collect(k) PROVE TypeInv'
  BY <1>6 DEF Collect, Leaves, Joins
<1>7. ASSUME NEW e \in Execs, WaitPid(e) PROVE TypeInv'
  <2>1. Mine(e) \subseteq Children
    BY DEF Mine, Born
  <2>2. /\ code' \in [Execs -> Codes] /\ reaped' \subseteq Children
        /\ waiter' \in [Execs -> {"none", "waitpid", "ended", "done"}]
    <3>1. CASE Mine(e) = {} /\ code' = [code EXCEPT ![e] = 0] /\ UNCHANGED reaped
                 /\ waiter' = [waiter EXCEPT ![e] = "ended"]
      BY <3>1
    <3>2. ASSUME NEW p \in Mine(e), status[p] # Running, reaped' = reaped \cup {p},
                 IF status[p] = Killed THEN UNCHANGED <<waiter, code>>
                 ELSE /\ waiter' = [waiter EXCEPT ![e] = "ended"]
                      /\ code' = [code EXCEPT ![e] = status[p]]
          PROVE  /\ code' \in [Execs -> Codes] /\ reaped' \subseteq Children
                 /\ waiter' \in [Execs -> {"none", "waitpid", "ended", "done"}]
      <4>1. p \in Children /\ status[p] \in Codes \cup {Running, Killed}
        BY <2>1 DEF Mine, Born
      <4> QED
        BY <3>2, <4>1
    <3> QED
      BY <1>7, <3>1, <3>2 DEF WaitPid
  <2> QED
    BY <1>7, <2>2 DEF WaitPid
<1>8. ASSUME NEW e \in Execs, WaitProc(e) PROVE TypeInv'
  BY <1>8 DEF WaitProc, NotifyAll
<1>9. ASSUME NEW p \in Children, ChildEnds(p) PROVE TypeInv'
  BY <1>9 DEF ChildEnds, objectVars
<1>10. CASE UNCHANGED vars
  BY <1>10 DEF vars, objectVars
<1> QED
  BY <1>1, <1>2, <1>3, <1>4, <1>5, <1>6, <1>7, <1>8, <1>9, <1>10 DEF Next

LEMMA WaiterOwedKept == TypeInv /\ WaiterOwed /\ [Next]_vars => WaiterOwed'
<1> SUFFICES ASSUME TypeInv, WaiterOwed, [Next]_vars PROVE WaiterOwed'
  OBVIOUS
<1> USE DEF TypeInv, WaiterOwed
<1>1. ASSUME NEW k \in Callers, NEW e \in Execs, Start(k, e) \/ StartFails(k, e) PROVE WaiterOwed'
  BY <1>1 DEF Start, StartFails, Launch
<1>2. ASSUME NEW k \in Callers, NEW e \in Execs, CallWait(k, e) \/ Destroy(k, e) PROVE WaiterOwed'
  BY <1>2 DEF CallWait, Destroy, objectVars
<1>3. ASSUME NEW k \in Callers, Block(k) \/ WakeForNothing(k) \/ Drain(k) PROVE WaiterOwed'
  BY <1>3 DEF Block, WakeForNothing, Drain, objectVars
<1>4. ASSUME NEW k \in Callers, Collect(k) PROVE WaiterOwed'
  BY <1>4 DEF Collect, Joins
<1>5. ASSUME NEW e \in Execs, WaitPid(e) \/ WaitProc(e) PROVE WaiterOwed'
  BY <1>5 DEF WaitPid, WaitProc
<1>6. ASSUME NEW p \in Children, ChildEnds(p) PROVE WaiterOwed'
  BY <1>6 DEF ChildEnds, objectVars
<1>7. CASE UNCHANGED vars
  BY <1>7 DEF vars, objectVars
<1> QED
  BY <1>1, <1>2, <1>3, <1>4, <1>5, <1>6, <1>7 DEF Next

\* The steps that leave children, pids and codes alone, and join at most.
LEMMA QuietKeeps ==
  ASSUME TypeInv, OneEach, CodeKnown,
         UNCHANGED <<pid, code, status, reaped, program>>,
         \A e \in Execs : waiter'[e] \in {waiter[e], "none"} \/ (waiter[e] = "ended" /\ waiter'[e] = "done")
  PROVE  OneEach' /\ CodeKnown'
BY DEF TypeInv, OneEach, CodeKnown, Ended, ExitStatus

\* A new child belongs to nobody, and its object waits for it or the program ends.
LEMMA StartKeeps ==
  ASSUME TypeInv, OneEach, CodeKnown, NEW k \in Callers, NEW e \in Execs, Start(k, e),
         failures = 0, failures' = 0
  PROVE  OneEach' /\ CodeKnown'
<1>1. PICK p \in Children : status[p] = Unborn /\ Replace(e, p)
  BY DEF Start, Born
<1>2. /\ UNCHANGED code
      /\ pid' = [pid EXCEPT ![e] = p]
      /\ reaped' = reaped \ ({pid[e]} \cap reaped)
      /\ status'[p] = Running
      /\ \A q \in Children : q # p /\ q # pid[e] => status'[q] = status[q]
  BY <1>1 DEF Start, Replace
<1>3. p \notin reaped /\ \A f \in Execs : pid[f] # p
  BY <1>1, Numbers DEF TypeInv, OneEach, Ended
<1>4. \A f \in Execs : f # e => pid'[f] = pid[f] /\ (pid[f] # NoChild => status'[pid[f]] = status[pid[f]])
  BY <1>2, <1>3 DEF TypeInv, OneEach
<1>5. pid'[e] = p
  BY <1>2 DEF TypeInv
<1>6. waiter' \in {waiter, [waiter EXCEPT ![e] = "waitpid"]}
  BY DEF Start, Launch
<1>7. OneEach'
  <2>1. \A f \in Execs : pid'[f] # NoChild => status'[pid'[f]] # Unborn
    BY <1>2, <1>4, <1>5, Numbers DEF OneEach
  <2>2. \A f, g \in Execs : pid'[f] = pid'[g] /\ pid'[f] # NoChild => f = g
    BY <1>3, <1>4, <1>5 DEF OneEach
  <2>3. \A f \in Execs : waiter'[f] # "none" => pid'[f] # NoChild
    BY <1>4, <1>5, <1>6, Numbers DEF TypeInv, OneEach
  <2>4. \A q \in reaped' : Ended(q)'
    BY <1>2, <1>3 DEF TypeInv, OneEach, Ended
  <2> QED
    BY <2>1, <2>2, <2>3, <2>4 DEF OneEach
<1>8. CodeKnown'
  <2> SUFFICES ASSUME program' = "runs", NEW f \in Execs
               PROVE  /\ waiter'[f] = "waitpid" /\ pid'[f] \in reaped' => status'[pid'[f]] = Killed
                      /\ waiter'[f] \in {"ended", "done"} =>
                           Ended(pid[f])' /\ code[f] = ExitStatus(status'[pid'[f]])
    BY <1>2 DEF CodeKnown
  <2>1. waiter' = [waiter EXCEPT ![e] = "waitpid"] /\ program = "runs"
    BY DEF Start, Launch
  <2>2. CASE f = e
    BY <2>1, <2>2, <1>2, <1>3, <1>5 DEF TypeInv
  <2>3. CASE f # e
    <3>1. pid'[f] = pid[f] /\ waiter'[f] = waiter[f]
      BY <2>1, <2>3, <1>4 DEF TypeInv
    <3>2. waiter[f] # "none" => status'[pid[f]] = status[pid[f]]
      BY <1>4, <2>3 DEF OneEach
    <3>3. reaped' \subseteq reaped
      BY <1>2
    <3> QED
      BY <3>1, <3>2, <3>3, <2>1 DEF CodeKnown, Ended, TypeInv
  <2> QED
    BY <2>2, <2>3
<1> QED
  BY <1>7, <1>8

\* A waiter thread takes its own child, and with it the code of the right one.
LEMMA WaitPidKeeps ==
  ASSUME TypeInv, OneEach, CodeKnown, program = "runs", NEW e \in Execs, WaitPid(e)
  PROVE  OneEach' /\ CodeKnown'
<1> USE Numbers DEF TypeInv
<1>1. UNCHANGED <<pid, status, program>> /\ waiter[e] = "waitpid"
  BY DEF WaitPid
<1>2. pid[e] \in Children /\ status[pid[e]] # Unborn
  BY <1>1 DEF OneEach
<1>3. CASE Mine(e) = {} /\ waiter' = [waiter EXCEPT ![e] = "ended"]
             /\ code' = [code EXCEPT ![e] = 0] /\ UNCHANGED reaped
  <2>1. pid[e] \in reaped
    BY <1>2, <1>3 DEF Mine, Born
  <2>2. status[pid[e]] = Killed
    BY <2>1, <1>1 DEF CodeKnown
  <2>3. OneEach'
    BY <1>1, <1>2, <1>3 DEF OneEach, Ended
  <2>4. CodeKnown'
    BY <1>1, <1>3, <2>2 DEF CodeKnown, Ended, ExitStatus
  <2> QED
    BY <2>3, <2>4
<1>4. ASSUME NEW p \in Mine(e), status[p] # Running, reaped' = reaped \cup {p},
             IF status[p] = Killed THEN UNCHANGED <<waiter, code>>
             ELSE /\ waiter' = [waiter EXCEPT ![e] = "ended"]
                  /\ code' = [code EXCEPT ![e] = status[p]]
      PROVE  OneEach' /\ CodeKnown'
  <2>1. pid[e] = p /\ Ended(p)
    BY <1>2, <1>4 DEF Mine, Born, Ended
  <2>2. \A f \in Execs : f # e => pid[f] # p /\ waiter'[f] = waiter[f] /\ code'[f] = code[f]
    BY <1>2, <1>4, <2>1 DEF OneEach
  <2>3. OneEach'
    BY <1>1, <1>2, <1>4, <2>1 DEF OneEach, Ended
  <2>4. CodeKnown'
    <3> SUFFICES ASSUME NEW f \in Execs
                 PROVE  /\ waiter'[f] = "waitpid" /\ pid[f] \in reaped' => status[pid[f]] = Killed
                        /\ waiter'[f] \in {"ended", "done"} =>
                             Ended(pid[f]) /\ code'[f] = ExitStatus(status[pid[f]])
      BY <1>1 DEF CodeKnown, Ended, ExitStatus
    <3>1. CASE f = e
      BY <1>1, <1>4, <2>1, <3>1 DEF ExitStatus
    <3>2. CASE f # e
      BY <1>1, <1>4, <2>2, <3>2 DEF CodeKnown
    <3> QED
      BY <3>1, <3>2
  <2> QED
    BY <2>3, <2>4
<1> QED
  BY <1>3, <1>4 DEF WaitPid

\* Nobody has been told yet of a child that runs.
LEMMA ChildEndsKeeps ==
  ASSUME TypeInv, OneEach, CodeKnown, NEW p \in Children, ChildEnds(p)
  PROVE  OneEach' /\ CodeKnown'
<1>1. PICK s \in Codes \cup {Killed} : status' = [status EXCEPT ![p] = s]
  BY DEF ChildEnds
<1>2. UNCHANGED <<waiter, pid, code, reaped, program>> /\ status[p] = Running
  BY DEF ChildEnds, objectVars
<1>3. p \notin reaped /\ s \notin {Unborn, Running}
  BY <1>2, Numbers DEF OneEach, Ended
<1>4. \A q \in Children : q # p => status'[q] = status[q]
  BY <1>1 DEF TypeInv
<1>5. status'[p] = s
  BY <1>1 DEF TypeInv
<1>6. OneEach'
  BY <1>2, <1>3, <1>4, <1>5, Numbers DEF OneEach, TypeInv, Ended
<1>7. CodeKnown'
  <2> SUFFICES ASSUME program = "runs", NEW f \in Execs
               PROVE  /\ waiter[f] = "waitpid" /\ pid[f] \in reaped => status'[pid[f]] = Killed
                      /\ waiter[f] \in {"ended", "done"} =>
                           Ended(pid[f])' /\ code[f] = ExitStatus(status'[pid[f]])
    BY <1>2 DEF CodeKnown
  <2>1. waiter[f] # "none" => pid[f] \in Children
    BY DEF OneEach, TypeInv
  <2>2. (waiter[f] \in {"ended", "done"} \/ pid[f] \in reaped) => pid[f] # p
    BY <1>2, <1>3 DEF CodeKnown, Ended
  <2> QED
    BY <2>1, <2>2, <1>2, <1>4 DEF CodeKnown, Ended
<1> QED
  BY <1>6, <1>7

LEMMA ChildrenKept ==
  TypeInv /\ failures = 0 /\ OneEach /\ CodeKnown /\ [Next]_vars
    => (failures' = 0 => OneEach' /\ CodeKnown')
<1> SUFFICES ASSUME TypeInv, failures = 0, OneEach, CodeKnown, [Next]_vars, failures' = 0
             PROVE  OneEach' /\ CodeKnown'
  OBVIOUS
<1>1. ASSUME NEW k \in Callers, NEW e \in Execs, Start(k, e) PROVE OneEach' /\ CodeKnown'
  BY <1>1, StartKeeps
<1>2. ASSUME NEW k \in Callers, NEW e \in Execs, StartFails(k, e) PROVE FALSE
  BY <1>2 DEF StartFails, Launch
<1>3. ASSUME NEW k \in Callers, NEW e \in Execs, CallWait(k, e) \/ Destroy(k, e)
      PROVE  OneEach' /\ CodeKnown'
  <2>1. UNCHANGED <<pid, code, status, reaped, program>>
    BY <1>3 DEF CallWait, Destroy, objectVars
  <2>2. \A f \in Execs : waiter'[f] \in {waiter[f], "none"}
    BY <1>3 DEF CallWait, Destroy, objectVars, TypeInv
  <2> QED
    BY <2>1, <2>2, QuietKeeps
<1>4. ASSUME NEW k \in Callers, Block(k) \/ WakeForNothing(k) \/ Drain(k) \/ Collect(k)
      PROVE  OneEach' /\ CodeKnown'
  <2>1. UNCHANGED <<pid, code, status, reaped, program>>
    BY <1>4 DEF Block, WakeForNothing, Drain, Collect, objectVars
  <2>2. \A f \in Execs : waiter'[f] \in {waiter[f], "none"}
    BY <1>4 DEF Block, WakeForNothing, Drain, Collect, Joins, objectVars, TypeInv
  <2> QED
    BY <2>1, <2>2, QuietKeeps
<1>5. ASSUME NEW e \in Execs, WaitPid(e), program = "runs" PROVE OneEach' /\ CodeKnown'
  BY <1>5, WaitPidKeeps
<1>6. ASSUME NEW e \in Execs, WaitProc(e) PROVE OneEach' /\ CodeKnown'
  <2>1. UNCHANGED <<pid, code, status, reaped, program>>
    BY <1>6 DEF WaitProc
  <2>2. \A f \in Execs : waiter'[f] = waiter[f] \/ (waiter[f] = "ended" /\ waiter'[f] = "done")
    BY <1>6 DEF WaitProc, TypeInv
  <2> QED
    BY <2>1, <2>2, QuietKeeps
<1>7. ASSUME NEW p \in Children, ChildEnds(p) PROVE OneEach' /\ CodeKnown'
  BY <1>7, ChildEndsKeeps
<1>8. CASE UNCHANGED vars
  BY <1>8, QuietKeeps DEF vars, objectVars
<1> QED
  BY <1>1, <1>2, <1>3, <1>4, <1>5, <1>6, <1>7, <1>8 DEF Next

LEMMA Invariance == ExecInv /\ [Next]_vars => ExecInv'
<1> SUFFICES ASSUME ExecInv, [Next]_vars PROVE ExecInv'
  OBVIOUS
<1>1. TypeInv' /\ WaiterOwed'
  BY TypesKept, WaiterOwedKept DEF ExecInv
<1>2. failures' = 0 => failures = 0
  BY DEF ExecInv, TypeInv, Next, vars, objectVars, Start, StartFails, Launch, CallWait, Destroy, Block,
         WakeForNothing, Drain, Collect, WaitPid, WaitProc, ChildEnds
<1>3. failures' = 0 => OneEach' /\ CodeKnown'
  BY <1>2, ChildrenKept DEF ExecInv
<1> QED
  BY <1>1, <1>3 DEF ExecInv

LEMMA Always == Spec => []ExecInv
BY InitHolds, Invariance, PTL DEF Spec

-----------------------------------------------------------------------------
\* A wait that returns reports the exit code of its object's own last command,
\* for any objects, callers and commands, as long as no fork and no creation of a
\* thread has failed: a waiter thread calls waitpid for a child that nobody else
\* waits for.
THEOREM WaitReportsItsChild == Spec => ReportsChild
<1>1. ASSUME ExecInv, [Next]_vars, NEW e \in owed \ owed', failures = 0
      PROVE  code[e] = ExitStatus(status[pid[e]])
  <2>1. program = "runs" /\ \E k \in Callers : Collect(k) /\ on[k] = e /\ waiter[e] = "done"
    BY <1>1 DEF Next, vars, objectVars, Start, StartFails, Launch, CallWait, Destroy, Block,
           WakeForNothing, Drain, Collect, WaitPid, WaitProc, ChildEnds
  <2>2. e \in Execs
    BY <1>1 DEF ExecInv, TypeInv
  <2> QED
    BY <1>1, <2>1, <2>2 DEF ExecInv, CodeKnown
<1>2. ExecInv /\ [Next]_vars =>
        [\A e \in owed \ owed' : failures = 0 => code[e] = ExitStatus(status[pid[e]])]_vars
  BY <1>1
<1> QED
  BY <1>2, Always, PTL DEF Spec, ReportsChild

\* The program is ended by std::terminate only when an object is started whose
\* previous command no wait has returned for.
THEOREM TerminatedOnlyUnwaited == Spec => OnlyUnwaited
<1>1. ASSUME ExecInv, Next, program' = "terminated"
      PROVE  \E e \in owed : joined[e] /\ ~joined'[e]
  <2>1. PICK k \in Callers, e \in Execs : MayStart(k, e) /\ waiter[e] # "none" /\ e \in owed'
                                            /\ joined' = [joined EXCEPT ![e] = FALSE]
    BY <1>1 DEF Next, Start, StartFails, Launch, CallWait, Destroy, Block,
           WakeForNothing, Drain, Collect, WaitPid, WaitProc, ChildEnds
  <2> QED
    BY <1>1, <2>1 DEF ExecInv, TypeInv, WaiterOwed, MayStart
<1>2. ExecInv /\ [Next]_vars =>
        [program' = "terminated" => \E e \in owed : joined[e] /\ ~joined'[e]]_vars
  BY <1>1
<1> QED
  BY <1>2, Always, PTL DEF Spec, OnlyUnwaited
=============================================================================
