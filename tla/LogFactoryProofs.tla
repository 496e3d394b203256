-------------------------- MODULE LogFactoryProofs --------------------------
(***************************************************************************)
(* Proofs for any threads, messages and sinks: when close has returned,    *)
(* what was accepted before the flag was raised has been written, and no   *)
(* sink is given messages in another order than that of write.             *)
(***************************************************************************)
EXTENDS LogFactory, SequenceTheorems, TLAPS

Given(s, m) == m \in Elems(written[s])

\* m is on its way to sink s: in the queue, or in the writer's hands and not past
\* this sink.
OnItsWay(s, m) ==
  \/ m \in Elems(messages)
  \/ \E i \in DOMAIN batch : batch[i] = m /\ (i = 1 /\ wpc = "visit" => s \in todo)

\* The writer has no batch outside its inner loops.
BatchEmpty == wpc \in {"lock", "waiting", "notified", "exited"} => batch = <<>>

\* Every message that was accepted is with its sinks or on its way to them.
NothingMissed ==
  Untouched => \A s \in sinks : \A m \in Elems(accepted) \cap Applies[s] :
    Given(s, m) \/ OnItsWay(s, m)

\* The writer leaves only when the flag is raised and the early messages are
\* written, and nobody has joined it before.
LeftLast ==
  /\ early \subseteq Elems(accepted)
  /\ Joined => wpc = "exited"
  /\ wpc = "exited" => exitflag
  /\ wpc = "exited" /\ Untouched =>
       \A s \in sinks : \A m \in early \cap Applies[s] : Given(s, m)

FlushInv == TypeOK /\ BatchEmpty /\ NothingMissed /\ LeftLast

-----------------------------------------------------------------------------
\* What the elements of a sequence are after an append.
LEMMA ElemsAppend ==
  ASSUME NEW S, NEW q \in Seq(S), NEW e \in S
  PROVE  Elems(Append(q, e)) = Elems(q) \cup {e}
<1>1. DOMAIN Append(q, e) = 1..Len(q) + 1 /\ DOMAIN q = 1..Len(q) /\ Len(q) \in Nat
  OBVIOUS
<1>2. \A i \in 1..Len(q) : Append(q, e)[i] = q[i]
  OBVIOUS
<1>3. Append(q, e)[Len(q) + 1] = e
  OBVIOUS
<1>4. ASSUME NEW x \in Elems(Append(q, e))
      PROVE  x \in Elems(q) \cup {e}
  <2>1. PICK i \in 1..Len(q) + 1 : x = Append(q, e)[i]
    BY <1>1 DEF Elems
  <2>2. CASE i \in 1..Len(q)
    BY <1>1, <1>2, <2>1, <2>2 DEF Elems
  <2>3. CASE i = Len(q) + 1
    BY <1>3, <2>1, <2>3
  <2> QED
    BY <1>1, <2>1, <2>2, <2>3
<1>5. ASSUME NEW x \in Elems(q)
      PROVE  x \in Elems(Append(q, e))
  <2>1. PICK i \in 1..Len(q) : x = q[i]
    BY <1>1, <1>5 DEF Elems
  <2>2. i \in DOMAIN Append(q, e) /\ x = Append(q, e)[i]
    BY <1>1, <1>2, <2>1
  <2> QED
    BY <2>2 DEF Elems
<1>6. e \in Elems(Append(q, e))
  BY <1>1, <1>3 DEF Elems
<1> QED
  BY <1>4, <1>5, <1>6

LEMMA FlushInvInit == Init => FlushInv
<1> SUFFICES ASSUME Init PROVE FlushInv
  OBVIOUS
<1>1. Elems(accepted) = {}
  BY DEF Init, Elems
<1>2. TypeOK
  <2>1. <<>> \in Seq(Msgs)
    OBVIOUS
  <2>2. written \in [Sinks -> Seq(Msgs)]
    BY <2>1 DEF Init
  <2>3. changes \in 0..MaxChanges
    BY LogFactoryAssumption DEF Init
  <2>4. sinks \in SUBSET Sinks
    BY LogFactoryAssumption DEF Init
  <2>5. closing \in [Closers -> {"no", "check", "join", "done", "threw"}]
    BY DEF Init
  <2> QED
    BY <2>1, <2>2, <2>3, <2>4, <2>5 DEF Init, TypeOK
<1> QED
  BY <1>1, <1>2 DEF Init, FlushInv, BatchEmpty, NothingMissed, LeftLast, Joined

\* The types are kept by every step.
LEMMA TypeStep == FlushInv /\ [Next]_vars => TypeOK' /\ BatchEmpty'
<1> SUFFICES ASSUME FlushInv, [Next]_vars PROVE TypeOK' /\ BatchEmpty'
  OBVIOUS
<1> USE LogFactoryAssumption DEF FlushInv, TypeOK, BatchEmpty
<1>1. ASSUME NEW m \in Msgs, Write(m) PROVE TypeOK' /\ BatchEmpty'
  BY <1>1 DEF Write, Notify, sinkVars, writerVars
<1>2. ASSUME NEW s \in Sinks, AddSink(s) PROVE TypeOK' /\ BatchEmpty'
  BY <1>2 DEF AddSink, ChangeSinks, Disturb, history
<1>3. ASSUME NEW gone, gone \subseteq sinks, RemoveSinks(gone) PROVE TypeOK' /\ BatchEmpty'
  BY <1>3 DEF RemoveSinks, ChangeSinks, Disturb, history
<1>4. ASSUME NEW t \in Closers, Close(t) PROVE TypeOK' /\ BatchEmpty'
  <2>1. Elems(accepted) \subseteq Msgs
    BY DEF Elems
  <2> QED
    BY <1>4, <2>1 DEF Close, Notify, sinkVars, writerVars
<1>5. ASSUME NEW t \in Closers, CloseStep(t) PROVE TypeOK' /\ BatchEmpty'
  BY <1>5 DEF CloseStep, CheckJoinable, JoinReturns, JoinThrows, sinkVars, writerVars, history
<1>6. CASE Top \/ WaitReturns
  BY <1>6 DEF Top, WaitReturns, TakeAll, sinkVars, history
<1>7. CASE BeginMessage \/ SpuriousWakeup
  BY <1>7 DEF BeginMessage, SpuriousWakeup, sinkVars, writerVars, history
<1>8. ASSUME NEW s \in todo, Visit(s) PROVE TypeOK' /\ BatchEmpty'
  <2>1. Head(batch) \in Msgs
    BY <1>8 DEF Visit
  <2>2. written' \in [Sinks -> Seq(Msgs)]
    BY <1>8, <2>1 DEF Visit
  <2> QED
    BY <1>8, <2>2 DEF Visit, sinkVars, history
<1>9. CASE EndMessage
  <2>1. batch # <<>> /\ Tail(batch) \in Seq(Msgs) /\ Len(Tail(batch)) = Len(batch) - 1
    BY <1>9 DEF EndMessage
  <2>2. batch' = Tail(batch) /\ Len(batch) \in Nat /\ Len(batch) # 0
    BY <1>9, <2>1 DEF EndMessage
  <2>3. Len(batch) = 1 => batch' = <<>>
    BY <2>1, <2>2
  <2>4. Len(batch) # 1 => batch' # <<>>
    <3>1. Len(batch) # 1 => Len(batch') # 0
      BY <2>1, <2>2
    <3> QED
      BY <3>1
  <2> QED
    BY <1>9, <2>1, <2>2, <2>3, <2>4 DEF EndMessage, sinkVars, history
<1>10. CASE UNCHANGED vars
  BY <1>10 DEF vars, sinkVars, history
<1>11. CASE WriteOther
  BY <1>11 DEF WriteOther, Notify, sinkVars, writerVars, history
<1> QED
  BY <1>1, <1>2, <1>3, <1>4, <1>5, <1>6, <1>7, <1>8, <1>9, <1>10, <1>11 DEF Next, Logging, WriterStep

-----------------------------------------------------------------------------
\* A batch and its first message: what is left of it is its tail.
LEMMA TailElems ==
  ASSUME NEW S, NEW q \in Seq(S), q # <<>>
  PROVE  /\ Tail(q) \in Seq(S) /\ Head(q) \in S /\ 1 \in DOMAIN q /\ q[1] = Head(q)
         /\ \A i \in DOMAIN q : i # 1 => i - 1 \in DOMAIN Tail(q) /\ Tail(q)[i - 1] = q[i]
<1>1. /\ Len(q) \in Nat /\ Len(q) # 0 /\ DOMAIN q = 1..Len(q)
      /\ Tail(q) \in Seq(S) /\ Len(Tail(q)) = Len(q) - 1 /\ DOMAIN Tail(q) = 1..(Len(q) - 1)
  OBVIOUS
<1>2. \A i \in 1..(Len(q) - 1) : Tail(q)[i] = q[i + 1]
  BY <1>1
<1>3. ASSUME NEW i \in DOMAIN q, i # 1
      PROVE  i - 1 \in DOMAIN Tail(q) /\ Tail(q)[i - 1] = q[i]
  <2>1. i - 1 \in 1..(Len(q) - 1) /\ (i - 1) + 1 = i
    BY <1>1, <1>3
  <2> QED
    BY <1>1, <1>2, <2>1
<1>4. Head(q) \in S /\ 1 \in DOMAIN q /\ q[1] = Head(q)
  BY <1>1
<1> QED
  BY <1>1, <1>3, <1>4

\* A step of the writer or of a logger moves messages towards their sinks.
LEMMA NothingMissedStep == FlushInv /\ [Next]_vars => NothingMissed'
<1> SUFFICES ASSUME FlushInv, [Next]_vars,
                    Untouched', NEW s \in sinks', NEW m \in Elems(accepted)' \cap Applies[s]
             PROVE  Given(s, m)' \/ OnItsWay(s, m)'
  BY DEF NothingMissed
<1>0. changes \in Nat /\ s \in Sinks
  BY TypeStep DEF FlushInv, TypeOK, Untouched
\* The steps that leave the sinks and the accepted messages alone.
<1>a. ASSUME changes' = changes, sinks' = sinks, accepted' = accepted
      PROVE  s \in sinks /\ m \in Elems(accepted) \cap Applies[s] /\ (Given(s, m) \/ OnItsWay(s, m))
  BY <1>a DEF FlushInv, NothingMissed, Untouched
<1>1. ASSUME NEW n \in Msgs, Write(n) PROVE Given(s, m)' \/ OnItsWay(s, m)'
  <2>1. Elems(accepted)' = Elems(accepted) \cup {n} /\ Elems(messages)' = Elems(messages) \cup {n}
    BY <1>1, ElemsAppend DEF Write, FlushInv, TypeOK
  <2>2. /\ sinks' = sinks /\ changes' = changes /\ written' = written
        /\ batch' = batch /\ todo' = todo /\ (wpc' = "visit" <=> wpc = "visit")
    BY <1>1 DEF Write, Notify, sinkVars, writerVars
  <2>3. CASE m = n
    BY <2>1, <2>3 DEF OnItsWay, Elems
  <2>4. CASE m # n
    <3>1. Given(s, m) \/ OnItsWay(s, m)
      BY <2>1, <2>2, <2>4 DEF FlushInv, NothingMissed, Untouched
    <3> QED
      BY <2>1, <2>2, <3>1 DEF Given, OnItsWay
  <2> QED
    BY <2>3, <2>4
<1>2. ASSUME NEW x \in Sinks, AddSink(x) PROVE FALSE
  BY <1>0, <1>2 DEF AddSink, ChangeSinks, Untouched
<1>3. ASSUME NEW gone, RemoveSinks(gone) PROVE FALSE
  BY <1>0, <1>3 DEF RemoveSinks, ChangeSinks, Untouched
<1>4. ASSUME NEW t \in Closers, Close(t) \/ CloseStep(t) PROVE Given(s, m)' \/ OnItsWay(s, m)'
  <2>1. /\ sinks' = sinks /\ changes' = changes /\ written' = written /\ accepted' = accepted
        /\ messages' = messages
        /\ batch' = batch /\ todo' = todo /\ (wpc' = "visit" <=> wpc = "visit")
    BY <1>4 DEF Close, CloseStep, CheckJoinable, JoinReturns, JoinThrows, Notify, sinkVars,
                writerVars, history
  <2> QED
    BY <1>a, <2>1 DEF Given, OnItsWay
<1>5. CASE Top \/ WaitReturns
  <2>1. sinks' = sinks /\ changes' = changes /\ written' = written /\ accepted' = accepted
    BY <1>5 DEF Top, WaitReturns, sinkVars, history
  <2>2. batch = <<>> /\ wpc # "visit" /\ wpc' # "visit"
    BY <1>5 DEF Top, WaitReturns, TakeAll, FlushInv, BatchEmpty
  <2>3. messages' = messages \/ (batch' = messages)
    BY <1>5 DEF Top, WaitReturns, TakeAll
  <2>4. Given(s, m) \/ m \in Elems(messages)
    BY <1>a, <2>1, <2>2 DEF OnItsWay
  <2> QED
    BY <2>1, <2>2, <2>3, <2>4 DEF Given, OnItsWay, Elems
<1>6. CASE BeginMessage \/ SpuriousWakeup
  <2>1. /\ sinks' = sinks /\ changes' = changes /\ written' = written /\ accepted' = accepted
        /\ messages' = messages /\ batch' = batch
        /\ wpc' = "visit" => todo' = sinks
    BY <1>6 DEF BeginMessage, SpuriousWakeup, sinkVars, writerVars, history
  <2> QED
    BY <1>a, <2>1 DEF Given, OnItsWay
<1>7. ASSUME NEW x \in todo, Visit(x) PROVE Given(s, m)' \/ OnItsWay(s, m)'
  <2>1. /\ sinks' = sinks /\ changes' = changes /\ accepted' = accepted
        /\ messages' = messages /\ batch' = batch /\ wpc' = wpc /\ wpc = "visit"
        /\ todo' = todo \ {x}
    BY <1>7 DEF Visit, sinkVars, history
  <2>2. batch # <<>> /\ batch \in Seq(Msgs) /\ written \in [Sinks -> Seq(Msgs)] /\ x \in Sinks
    BY <2>1 DEF FlushInv, TypeOK
  <2>3. written' = [written EXCEPT ![x] = IF Head(batch) \in Applies[x]
                                          THEN Append(written[x], Head(batch)) ELSE written[x]]
    BY <1>7 DEF Visit
  <2>4. Head(batch) \in Msgs /\ batch[1] = Head(batch)
    BY <2>2, TailElems
  <2>5. /\ Given(s, m) => Given(s, m)'
        /\ s = x /\ m = Head(batch) => Given(s, m)'
    <3>1. written[x] \in Seq(Msgs)
      BY <2>2
    <3>2. Elems(Append(written[x], Head(batch))) = Elems(written[x]) \cup {Head(batch)}
      BY <2>4, <3>1, ElemsAppend
    <3>3. m \in Applies[s]
      OBVIOUS
    <3>4. CASE s = x /\ Head(batch) \in Applies[x]
      BY <1>0, <2>2, <2>3, <3>2, <3>4 DEF Given
    <3>5. CASE s = x /\ Head(batch) \notin Applies[x]
      BY <1>0, <2>2, <2>3, <3>3, <3>5 DEF Given
    <3>6. CASE s # x
      BY <1>0, <2>2, <2>3, <3>6 DEF Given
    <3> QED
      BY <3>4, <3>5, <3>6
  <2>6. OnItsWay(s, m) => OnItsWay(s, m)' \/ (s = x /\ m = Head(batch))
    BY <2>1, <2>4 DEF OnItsWay
  <2> QED
    BY <1>a, <2>1, <2>5, <2>6
<1>8. CASE EndMessage
  <2>1. /\ sinks' = sinks /\ changes' = changes /\ written' = written /\ accepted' = accepted
        /\ messages' = messages /\ batch' = Tail(batch) /\ wpc' # "visit" /\ wpc = "visit"
        /\ todo = {}
    BY <1>8 DEF EndMessage, sinkVars, history
  <2>2. batch # <<>> /\ batch \in Seq(Msgs)
    BY <2>1 DEF FlushInv, TypeOK
  <2>3. \A i \in DOMAIN batch : i # 1 => i - 1 \in DOMAIN Tail(batch) /\ Tail(batch)[i - 1] = batch[i]
    BY <2>2, TailElems
  <2>4. OnItsWay(s, m) => OnItsWay(s, m)'
    BY <2>1, <2>3 DEF OnItsWay
  <2> QED
    BY <1>a, <2>1, <2>4 DEF Given
<1>9. CASE WriteOther \/ UNCHANGED vars
  <2>1. /\ sinks' = sinks /\ changes' = changes /\ written' = written /\ accepted' = accepted
        /\ messages' = messages /\ batch' = batch /\ todo' = todo /\ (wpc' = "visit" <=> wpc = "visit")
    BY <1>9 DEF WriteOther, Notify, vars, sinkVars, writerVars, history
  <2> QED
    BY <1>a, <2>1 DEF Given, OnItsWay
<1> QED
  BY <1>1, <1>2, <1>3, <1>4, <1>5, <1>6, <1>7, <1>8, <1>9 DEF Next, Logging, WriterStep

-----------------------------------------------------------------------------
\* Leaving with an empty queue and no batch, the writer has missed nothing; and
\* what comes later is not early.
LEMMA LeftLastStep == FlushInv /\ [Next]_vars => LeftLast'
<1> SUFFICES ASSUME FlushInv, [Next]_vars PROVE LeftLast'
  OBVIOUS
<1> USE DEF FlushInv
<1>0. changes \in Nat /\ changes' \in Nat
  BY TypeStep DEF TypeOK
\* The steps that change nothing of what LeftLast is about.
<1>a. ASSUME /\ sinks' = sinks /\ changes' = changes /\ early' = early
             /\ accepted' = accepted /\ exitflag' = exitflag
             /\ Joined' => Joined \/ wpc = "exited"
             /\ wpc' = "exited" <=> wpc = "exited"
             /\ written' = written
      PROVE  LeftLast'
  BY <1>a DEF LeftLast, Given, Untouched
<1>1. ASSUME NEW n \in Msgs, Write(n) PROVE LeftLast'
  <2>1. Elems(accepted)' = Elems(accepted) \cup {n}
    BY <1>1, ElemsAppend DEF Write, TypeOK
  <2>2. /\ sinks' = sinks /\ changes' = changes /\ early' = early /\ exitflag' = exitflag
        /\ closing' = closing /\ written' = written /\ (wpc' = "exited" <=> wpc = "exited")
    BY <1>1 DEF Write, Notify, sinkVars, writerVars
  <2> QED
    BY <2>1, <2>2 DEF LeftLast, Given, Untouched, Joined
<1>2. ASSUME ChangeSinks, UNCHANGED <<closing, written, history, exitflag>>,
             wpc' = "exited" <=> wpc = "exited"
      PROVE  LeftLast'
  BY <1>0, <1>2 DEF LeftLast, Untouched, ChangeSinks, history, Joined
<1>3. ASSUME NEW x \in Sinks, AddSink(x) PROVE LeftLast'
  BY <1>2, <1>3 DEF AddSink
<1>4. ASSUME NEW gone, RemoveSinks(gone) PROVE LeftLast'
  BY <1>2, <1>4 DEF RemoveSinks
<1>5. ASSUME NEW t \in Closers, Close(t) PROVE LeftLast'
  <2>1. /\ sinks' = sinks /\ changes' = changes /\ accepted' = accepted /\ written' = written
        /\ (wpc' = "exited" <=> wpc = "exited") /\ exitflag'
    BY <1>5 DEF Close, Notify, sinkVars, writerVars
  <2>2. Joined' => Joined
    BY <1>5 DEF Close, Joined, TypeOK
  <2>3. early' = early \/ (early' = Elems(accepted) /\ ~exitflag)
    BY <1>5 DEF Close
  <2> QED
    BY <2>1, <2>2, <2>3 DEF LeftLast, Given, Untouched
<1>6. ASSUME NEW t \in Closers, CloseStep(t) PROVE LeftLast'
  <2>1. Joined' => Joined \/ wpc = "exited"
    BY <1>6 DEF CloseStep, CheckJoinable, JoinReturns, JoinThrows, Joined, TypeOK
  <2> QED
    BY <1>6, <1>a, <2>1 DEF CloseStep, CheckJoinable, JoinReturns, JoinThrows, sinkVars,
                            writerVars, history
<1>7. CASE Top
  <2>1. /\ sinks' = sinks /\ changes' = changes /\ early' = early /\ accepted' = accepted
        /\ exitflag' = exitflag /\ closing' = closing /\ written' = written /\ wpc = "lock"
    BY <1>7 DEF Top, sinkVars, history
  <2>2. CASE wpc' = "exited"
    <3>1. messages = <<>> /\ exitflag
      BY <1>7, <2>2 DEF Top, TakeAll, Empty
    <3>2. batch = <<>>
      BY <2>1 DEF BatchEmpty
    <3>3. \A s, m : ~OnItsWay(s, m)
      BY <3>1, <3>2 DEF OnItsWay, Elems
    <3> QED
      BY <2>1, <2>2, <3>1, <3>3 DEF LeftLast, NothingMissed, Given, Untouched, Joined
  <2>3. CASE wpc' # "exited"
    BY <1>a, <2>1, <2>3 DEF Joined
  <2> QED
    BY <2>2, <2>3
<1>8. CASE WaitReturns \/ BeginMessage \/ SpuriousWakeup \/ EndMessage
  <2>1. /\ sinks' = sinks /\ changes' = changes /\ early' = early /\ accepted' = accepted
        /\ exitflag' = exitflag /\ closing' = closing /\ written' = written
        /\ wpc # "exited" /\ wpc' # "exited"
    BY <1>8 DEF WaitReturns, TakeAll, BeginMessage, SpuriousWakeup, EndMessage, sinkVars,
                writerVars, history
  <2> QED
    BY <1>a, <2>1 DEF Joined
<1>9. ASSUME NEW x \in todo, Visit(x) PROVE LeftLast'
  BY <1>9 DEF Visit, sinkVars, history, LeftLast, Joined
<1>10. CASE UNCHANGED vars
  BY <1>a, <1>10 DEF vars, sinkVars, history, Joined
<1>11. CASE WriteOther
  BY <1>a, <1>11 DEF WriteOther, Notify, sinkVars, writerVars, history, Joined
<1> QED
  BY <1>1, <1>3, <1>4, <1>5, <1>6, <1>7, <1>8, <1>9, <1>10, <1>11 DEF Next, Logging, WriterStep

LEMMA Flushed == Spec => []FlushInv
<1>1. FlushInv /\ [Next]_vars => FlushInv'
  BY TypeStep, NothingMissedStep, LeftLastStep DEF FlushInv
<1> QED
  BY <1>1, FlushInvInit, PTL DEF Spec

\* The fields of the factory and the locals of its threads keep their types.
THEOREM LogTypes == Spec => []TypeOK
<1>1. FlushInv => TypeOK
  BY DEF FlushInv
<1> QED
  BY <1>1, Flushed, PTL

\* When close has returned, every message that was accepted before the flag was
\* raised has been given to every sink it is for, if no sink has come or gone.
THEOREM CloseFlushes == Spec => []ClosedIsFlushed
<1>1. FlushInv => ClosedIsFlushed
  <2> SUFFICES ASSUME FlushInv, Joined, Untouched, NEW s \in sinks, NEW m \in early \cap Applies[s]
               PROVE  m \in Elems(written[s])
    BY DEF ClosedIsFlushed
  <2> QED
    BY DEF FlushInv, LeftLast, Given
<1> QED
  BY <1>1, Flushed, PTL

-----------------------------------------------------------------------------
(* The order of the messages.  What is in the queue and in the writer's    *)
(* hands is the end of what was accepted, and the sinks have been given    *)
(* nothing that is not before it, or at most its first message.            *)

Distinct == \A i, j \in DOMAIN accepted : accepted[i] = accepted[j] => i = j

\* How many of the accepted messages the writer is through with.
Through == Len(accepted) - Len(messages) - Len(batch)

Suffix ==
  /\ Through >= 0
  /\ \A i \in 1..Len(batch) : batch[i] = accepted[Through + i]
  /\ \A i \in 1..Len(messages) : messages[i] = accepted[Through + Len(batch) + i]

\* How far the writer has come, the message it is at included.
Reached == IF wpc \in {"visit", "crashed"} THEN Through + 1 ELSE Through

GivenBefore ==
  \A s \in Sinks : \A i \in DOMAIN written[s] :
    \E k \in DOMAIN accepted : k <= Reached /\ written[s][i] = accepted[k]

Ordered ==
  \A s \in Sinks : \A i, j \in DOMAIN written[s], k, l \in DOMAIN accepted :
    i < j /\ written[s][i] = accepted[k] /\ written[s][j] = accepted[l] => k <= l

OrderInv == Distinct /\ Suffix /\ GivenBefore /\ Ordered

LEMMA OrderInit == Init => OrderInv
<1> SUFFICES ASSUME Init PROVE OrderInv
  OBVIOUS
<1>1. /\ accepted = <<>> /\ messages = <<>> /\ batch = <<>>
      /\ \A s \in Sinks : written[s] = <<>>
  BY DEF Init
<1>2. Len(accepted) = 0 /\ Len(messages) = 0 /\ Len(batch) = 0 /\ DOMAIN accepted = {}
  BY <1>1
<1> QED
  BY <1>1, <1>2 DEF OrderInv, Distinct, Suffix, Through, GivenBefore, Ordered

\* A step that gives nothing to the sinks keeps the order, if the writer does not
\* go back.
LEMMA QuietKeepsOrder ==
  ASSUME TypeOK, OrderInv, Suffix', written' = written, accepted' = accepted, Reached <= Reached',
         Reached \in Int, Reached' \in Int
  PROVE  OrderInv'
<1>1. GivenBefore'
  <2> SUFFICES ASSUME NEW s \in Sinks, NEW i \in DOMAIN written[s]
               PROVE  \E k \in DOMAIN accepted : k <= Reached' /\ written[s][i] = accepted[k]
    BY DEF GivenBefore
  <2>1. PICK k \in DOMAIN accepted : k <= Reached /\ written[s][i] = accepted[k]
    BY DEF OrderInv, GivenBefore
  <2>2. k \in Int
    BY DEF TypeOK
  <2> QED
    BY <2>1, <2>2
<1> QED
  BY <1>1 DEF OrderInv, Distinct, Ordered

\* write puts a new message behind the others.
LEMMA WriteKeepsOrder ==
  ASSUME TypeOK, OrderInv, NEW m \in Msgs, Write(m)
  PROVE  OrderInv'
<1> DEFINE n == Len(accepted)
<1>1. /\ accepted \in Seq(Msgs) /\ messages \in Seq(Msgs) /\ batch \in Seq(Msgs)
      /\ n \in Nat /\ Len(messages) \in Nat /\ Len(batch) \in Nat /\ DOMAIN accepted = 1..n
  BY DEF TypeOK
<1>2. /\ accepted' = Append(accepted, m) /\ messages' = Append(messages, m) /\ batch' = batch
      /\ written' = written /\ (wpc' \in {"visit", "crashed"} <=> wpc \in {"visit", "crashed"})
      /\ m \notin Elems(accepted)
  BY DEF Write, Notify, writerVars
<1>3. /\ Len(accepted') = n + 1 /\ DOMAIN accepted' = 1..n + 1
      /\ accepted'[n + 1] = m /\ \A i \in 1..n : accepted'[i] = accepted[i]
  BY <1>1, <1>2
<1>4. /\ Len(messages') = Len(messages) + 1
      /\ messages'[Len(messages) + 1] = m /\ \A i \in 1..Len(messages) : messages'[i] = messages[i]
  BY <1>1, <1>2
<1>5. Through' = Through /\ Reached' = Reached /\ Through \in Int /\ Through >= 0
      /\ Through + Len(batch) + Len(messages) = n
  BY <1>1, <1>2, <1>3, <1>4 DEF Through, Reached, OrderInv, Suffix
<1>6. Distinct'
  <2>1. \A i \in 1..n : accepted[i] # m
    BY <1>1, <1>2 DEF Elems
  <2> QED
    BY <1>1, <1>3, <2>1 DEF OrderInv, Distinct
<1>7. Suffix'
  <2>1. \A i \in 1..Len(batch) : batch[i] = accepted'[Through + i]
    <3> TAKE i \in 1..Len(batch)
    <3>1. Through + i \in 1..n
      BY <1>1, <1>5
    <3> QED
      BY <1>3, <3>1 DEF OrderInv, Suffix
  <2>2. \A i \in 1..Len(messages) + 1 : messages'[i] = accepted'[Through + Len(batch) + i]
    <3> TAKE i \in 1..Len(messages) + 1
    <3>1. CASE i = Len(messages) + 1
      BY <1>1, <1>3, <1>4, <1>5, <3>1
    <3>2. CASE i \in 1..Len(messages)
      <4>1. Through + Len(batch) + i \in 1..n
        BY <1>1, <1>5, <3>2
      <4> QED
        BY <1>3, <1>4, <3>2, <4>1 DEF OrderInv, Suffix
    <3> QED
      BY <1>1, <3>1, <3>2
  <2> QED
    BY <1>2, <1>4, <1>5, <2>1, <2>2 DEF Suffix
<1>8. \A s \in Sinks : \A i \in DOMAIN written[s] : written[s][i] # m
  BY <1>2 DEF OrderInv, GivenBefore, Elems
<1>9. GivenBefore'
  <2> SUFFICES ASSUME NEW s \in Sinks, NEW i \in DOMAIN written[s]
               PROVE  \E k \in DOMAIN accepted' : k <= Reached' /\ written[s][i] = accepted'[k]
    BY <1>2 DEF GivenBefore
  <2>1. PICK k \in 1..n : k <= Reached /\ written[s][i] = accepted[k]
    BY <1>1 DEF OrderInv, GivenBefore
  <2> QED
    BY <1>1, <1>3, <1>5, <2>1
<1>10. Ordered'
  <2> SUFFICES ASSUME NEW s \in Sinks, NEW i \in DOMAIN written[s], NEW j \in DOMAIN written[s],
                      NEW k \in 1..n + 1, NEW l \in 1..n + 1,
                      i < j, written[s][i] = accepted'[k], written[s][j] = accepted'[l]
               PROVE  k <= l
    BY <1>2, <1>3 DEF Ordered
  <2>1. k # n + 1 /\ l # n + 1
    BY <1>3, <1>8
  <2>2. k \in 1..n /\ l \in 1..n
    BY <1>1, <2>1
  <2> QED
    BY <1>1, <1>3, <2>2 DEF OrderInv, Ordered
<1> QED
  BY <1>6, <1>7, <1>9, <1>10 DEF OrderInv

\* A sink is given the message that the writer is at, which is behind all it has.
LEMMA VisitKeepsOrder ==
  ASSUME TypeOK, OrderInv, NEW x \in todo, Visit(x)
  PROVE  OrderInv'
<1> DEFINE n == Len(accepted)
           at == Through + 1
<1>1. /\ accepted \in Seq(Msgs) /\ messages \in Seq(Msgs) /\ batch \in Seq(Msgs)
      /\ n \in Nat /\ Len(messages) \in Nat /\ Len(batch) \in Nat /\ DOMAIN accepted = 1..n
      /\ x \in Sinks /\ written \in [Sinks -> Seq(Msgs)]
  BY DEF TypeOK
<1>2. /\ accepted' = accepted /\ messages' = messages /\ batch' = batch /\ wpc' = wpc
      /\ wpc = "visit" /\ batch # <<>>
  BY DEF Visit, history, TypeOK
<1>3. /\ at \in 1..n /\ Head(batch) = accepted[at] /\ Head(batch) \in Msgs
      /\ Reached = at /\ Reached' = at
  <2>1. 1 \in 1..Len(batch) /\ Head(batch) = batch[1] /\ Head(batch) \in Msgs
    BY <1>1, <1>2
  <2> QED
    BY <1>1, <1>2, <2>1 DEF OrderInv, Suffix, Through, Reached
<1>4. \A s \in Sinks : written'[s] = written[s] \/ written'[s] = Append(written[s], accepted[at])
  BY <1>1, <1>3 DEF Visit
<1>5. ASSUME NEW s \in Sinks, NEW i \in DOMAIN written'[s]
      PROVE  \/ i \in DOMAIN written[s] /\ written'[s][i] = written[s][i]
             \/ /\ i = Len(written[s]) + 1 /\ DOMAIN written'[s] = 1..i
                /\ written'[s][i] = accepted[at]
  <2>1. written[s] \in Seq(Msgs) /\ Len(written[s]) \in Nat /\ DOMAIN written[s] = 1..Len(written[s])
    BY <1>1
  <2>2. CASE written'[s] = written[s]
    BY <1>5, <2>2
  <2>3. CASE written'[s] = Append(written[s], accepted[at])
    <3>1. accepted[at] \in Msgs
      BY <1>3
    <3>2. DOMAIN written'[s] = 1..Len(written[s]) + 1
      BY <2>1, <2>3, <3>1
    <3>3. \A k \in 1..Len(written[s]) : written'[s][k] = written[s][k]
      BY <2>1, <2>3, <3>1
    <3>4. written'[s][Len(written[s]) + 1] = accepted[at]
      BY <2>1, <2>3, <3>1
    <3> QED
      BY <1>5, <2>1, <3>2, <3>3, <3>4
  <2> QED
    BY <1>4, <2>2, <2>3
<1>6. Distinct' /\ Suffix'
  BY <1>2 DEF OrderInv, Distinct, Suffix, Through
<1>7. GivenBefore'
  <2> SUFFICES ASSUME NEW s \in Sinks, NEW i \in DOMAIN written'[s]
               PROVE  \E k \in DOMAIN accepted : k <= at /\ written'[s][i] = accepted[k]
    BY <1>2, <1>3 DEF GivenBefore
  <2>1. CASE i \in DOMAIN written[s] /\ written'[s][i] = written[s][i]
    BY <1>3, <2>1 DEF OrderInv, GivenBefore
  <2>2. CASE written'[s][i] = accepted[at]
    BY <1>1, <1>3, <2>2
  <2> QED
    BY <1>5, <2>1, <2>2
<1>8. Ordered'
  <2> SUFFICES ASSUME NEW s \in Sinks, NEW i \in DOMAIN written'[s], NEW j \in DOMAIN written'[s],
                      NEW k \in 1..n, NEW l \in 1..n,
                      i < j, written'[s][i] = accepted[k], written'[s][j] = accepted[l]
               PROVE  k <= l
    BY <1>1, <1>2 DEF Ordered
  <2>1. Len(written[s]) \in Nat /\ DOMAIN written[s] = 1..Len(written[s])
    BY <1>1
  <2>2. i \in DOMAIN written[s] /\ written'[s][i] = written[s][i]
    <3>1. CASE i = Len(written[s]) + 1 /\ DOMAIN written'[s] = 1..i
      BY <2>1, <3>1
    <3> QED
      BY <1>5, <3>1
  <2>3. CASE j \in DOMAIN written[s] /\ written'[s][j] = written[s][j]
    BY <1>1, <2>2, <2>3 DEF OrderInv, Ordered
  <2>4. CASE written'[s][j] = accepted[at]
    <3>1. l = at
      BY <1>1, <1>3, <2>4 DEF OrderInv, Distinct
    <3>2. PICK h \in 1..n : h <= at /\ written[s][i] = accepted[h]
      BY <1>1, <1>3, <2>2 DEF OrderInv, GivenBefore
    <3>3. k = h
      BY <1>1, <2>2, <3>2 DEF OrderInv, Distinct
    <3> QED
      BY <3>1, <3>2, <3>3
  <2> QED
    BY <1>5, <2>3, <2>4
<1> QED
  BY <1>6, <1>7, <1>8 DEF OrderInv

LEMMA OrderStep == TypeOK /\ BatchEmpty /\ OrderInv /\ [Next]_vars => OrderInv'
<1> SUFFICES ASSUME TypeOK, BatchEmpty, OrderInv, [Next]_vars PROVE OrderInv'
  OBVIOUS
<1>0. /\ accepted \in Seq(Msgs) /\ messages \in Seq(Msgs) /\ batch \in Seq(Msgs)
      /\ Len(accepted) \in Nat /\ Len(messages) \in Nat /\ Len(batch) \in Nat
      /\ Through \in Int /\ Reached \in Int /\ Suffix
  BY DEF TypeOK, Through, Reached, OrderInv
\* The steps that move no message.
<1>a. ASSUME UNCHANGED <<accepted, messages, batch, written>>,
             wpc \in {"visit", "crashed"} => wpc' \in {"visit", "crashed"}
      PROVE  OrderInv'
  <2>1. Through' = Through /\ Suffix'
    BY <1>0, <1>a DEF Through, Suffix
  <2>2. Reached <= Reached' /\ Reached' \in Int
    BY <1>0, <1>a, <2>1 DEF Reached
  <2> QED
    BY <1>0, <1>a, <2>1, <2>2, QuietKeepsOrder
<1>1. ASSUME NEW m \in Msgs, Write(m) PROVE OrderInv'
  BY <1>1, WriteKeepsOrder
<1>2. ASSUME NEW s \in Sinks, AddSink(s) PROVE OrderInv'
  BY <1>2, <1>a DEF AddSink, history
<1>3. ASSUME NEW gone, RemoveSinks(gone) PROVE OrderInv'
  BY <1>3, <1>a DEF RemoveSinks, history
<1>4. ASSUME NEW t \in Closers, Close(t) PROVE OrderInv'
  BY <1>4, <1>a DEF Close, Notify, writerVars
<1>5. ASSUME NEW t \in Closers, CloseStep(t) PROVE OrderInv'
  BY <1>5, <1>a DEF CloseStep, CheckJoinable, JoinReturns, JoinThrows, writerVars, history
<1>6. CASE Top \/ WaitReturns
  <2>1. /\ accepted' = accepted /\ written' = written /\ batch = <<>>
        /\ wpc \notin {"visit", "crashed"} /\ wpc' \notin {"visit", "crashed"}
    BY <1>6 DEF Top, WaitReturns, TakeAll, history, BatchEmpty
  <2>2. CASE UNCHANGED <<messages, batch>>
    BY <1>a, <2>1, <2>2
  <2>3. CASE TakeAll
    <3>1. batch' = messages /\ messages' = <<>> /\ Len(messages') = 0 /\ Len(batch) = 0
      BY <2>1, <2>3 DEF TakeAll
    <3>2. Through' = Through
      BY <1>0, <2>1, <3>1 DEF Through
    <3>3. Suffix'
      BY <1>0, <2>1, <3>1, <3>2 DEF Suffix
    <3>4. Reached' = Reached
      BY <2>1, <3>2 DEF Reached
    <3> QED
      BY <1>0, <2>1, <3>3, <3>4, QuietKeepsOrder
  <2> QED
    BY <1>6, <2>2, <2>3 DEF Top, WaitReturns
<1>7. CASE BeginMessage \/ SpuriousWakeup
  BY <1>7, <1>a DEF BeginMessage, SpuriousWakeup, writerVars, history
<1>8. ASSUME NEW s \in todo, Visit(s) PROVE OrderInv'
  BY <1>8, VisitKeepsOrder
<1>9. CASE EndMessage
  <2>1. /\ accepted' = accepted /\ written' = written /\ messages' = messages /\ batch' = Tail(batch)
        /\ wpc = "visit" /\ wpc' \notin {"visit", "crashed"} /\ batch # <<>>
    BY <1>9 DEF EndMessage, history, TypeOK
  <2>2. /\ Len(batch') = Len(batch) - 1 /\ Len(batch) >= 1
        /\ \A i \in 1..Len(batch) - 1 : batch'[i] = batch[i + 1]
    BY <1>0, <2>1
  <2>3. Through' = Through + 1 /\ Reached' = Reached
    BY <1>0, <2>1, <2>2 DEF Through, Reached
  <2>4. \A i \in 1..Len(batch) - 1 : batch'[i] = accepted[Through + 1 + i]
    <3> TAKE i \in 1..Len(batch) - 1
    <3>1. i + 1 \in 1..Len(batch) /\ Through + (i + 1) = Through + 1 + i
      BY <1>0, <2>2
    <3> QED
      BY <1>0, <2>2, <3>1 DEF Suffix
  <2>5. \A i \in 1..Len(messages) : messages[i] = accepted[Through + 1 + (Len(batch) - 1) + i]
    <3> TAKE i \in 1..Len(messages)
    <3>1. Through + 1 + (Len(batch) - 1) + i = Through + Len(batch) + i
      BY <1>0
    <3> QED
      BY <1>0, <3>1 DEF Suffix
  <2>6. Suffix'
    BY <1>0, <2>1, <2>2, <2>3, <2>4, <2>5 DEF Suffix
  <2> QED
    BY <1>0, <2>1, <2>3, <2>6, QuietKeepsOrder
<1>10. CASE UNCHANGED vars
  BY <1>a, <1>10 DEF vars, writerVars, history
<1>11. CASE WriteOther
  BY <1>a, <1>11 DEF WriteOther, Notify, writerVars, history
<1> QED
  BY <1>1, <1>2, <1>3, <1>4, <1>5, <1>6, <1>7, <1>8, <1>9, <1>10, <1>11 DEF Next, Logging, WriterStep

\* No sink is given a message before one that was accepted earlier, however the
\* sinks come and go while the writer walks over them.
THEOREM SinksKeepOrder == Spec => []InOrder
<1>1. FlushInv => TypeOK /\ BatchEmpty
  BY DEF FlushInv
<1>2. ASSUME OrderInv PROVE InOrder
  <2> SUFFICES ASSUME NEW s \in Sinks, NEW i \in DOMAIN written[s], NEW j \in DOMAIN written[s], i < j
               PROVE  Position(written[s][i]) <= Position(written[s][j])
    BY DEF InOrder
  <2>1. PICK k \in DOMAIN accepted : written[s][i] = accepted[k]
    BY <1>2 DEF OrderInv, GivenBefore
  <2>2. PICK l \in DOMAIN accepted : written[s][j] = accepted[l]
    BY <1>2 DEF OrderInv, GivenBefore
  <2>3. Position(written[s][i]) = k /\ Position(written[s][j]) = l
    BY <1>2, <2>1, <2>2 DEF Position, OrderInv, Distinct
  <2> QED
    BY <1>2, <2>1, <2>2, <2>3 DEF OrderInv, Ordered
<1>3. TypeOK /\ BatchEmpty /\ OrderInv /\ [Next]_vars => OrderInv'
  BY OrderStep
<1> QED
  BY <1>1, <1>2, <1>3, OrderInit, Flushed, PTL DEF Spec

-----------------------------------------------------------------------------
(* What each sink has been given, while no sink comes or goes: exactly what *)
(* the writer has passed on its way, and nothing twice.                    *)

\* How many of the accepted messages the writer has passed with sink s visited.
Passed(s) == Through + (IF wpc = "visit" /\ s \notin todo THEN 1 ELSE 0)

GivenExactly ==
  Untouched => \A s \in sinks : \A k \in 1..Len(accepted) :
    accepted[k] \in Elems(written[s]) <=> accepted[k] \in Applies[s] /\ k <= Passed(s)

GivenOnce ==
  Untouched => \A s \in sinks : \A i, j \in DOMAIN written[s] :
    written[s][i] = written[s][j] => i = j

ExactInv == GivenExactly /\ GivenOnce

LEMMA ExactInit == Init => ExactInv
<1> SUFFICES ASSUME Init PROVE ExactInv
  OBVIOUS
<1>1. accepted = <<>> /\ \A s \in Sinks : written[s] = <<>>
  BY DEF Init
<1>2. sinks \subseteq Sinks /\ Len(accepted) = 0
  BY <1>1, LogFactoryAssumption DEF Init
<1> QED
  BY <1>1, <1>2 DEF ExactInv, GivenExactly, GivenOnce

\* What the order invariant says of lengths.
LEMMA Lengths ==
  ASSUME TypeOK, OrderInv
  PROVE  /\ accepted \in Seq(Msgs) /\ messages \in Seq(Msgs) /\ batch \in Seq(Msgs)
         /\ Len(accepted) \in Nat /\ Len(messages) \in Nat /\ Len(batch) \in Nat
         /\ DOMAIN accepted = 1..Len(accepted) /\ Through \in Nat
         /\ Through + Len(batch) + Len(messages) = Len(accepted)
         /\ wpc = "visit" => Len(batch) >= 1
<1>1. /\ accepted \in Seq(Msgs) /\ messages \in Seq(Msgs) /\ batch \in Seq(Msgs)
      /\ Len(accepted) \in Nat /\ Len(messages) \in Nat /\ Len(batch) \in Nat
      /\ DOMAIN accepted = 1..Len(accepted)
  BY DEF TypeOK
<1>2. wpc = "visit" => Len(batch) # 0
  BY <1>1 DEF TypeOK
<1> QED
  BY <1>1, <1>2 DEF Through, OrderInv, Suffix

LEMMA WriteKeepsExact ==
  ASSUME TypeOK, OrderInv, ExactInv, NEW m \in Msgs, Write(m)
  PROVE  ExactInv'
<1> DEFINE n == Len(accepted)
<1>1. /\ accepted' = Append(accepted, m) /\ messages' = Append(messages, m)
      /\ UNCHANGED <<batch, written, todo, sinks, changes>>
      /\ (wpc' = "visit" <=> wpc = "visit") /\ m \notin Elems(accepted)
  BY DEF Write, Notify, writerVars, sinkVars
<1>2. /\ n \in Nat /\ Through \in Nat /\ Through + Len(batch) + Len(messages) = n
      /\ Len(messages) \in Nat /\ Len(batch) \in Nat /\ DOMAIN accepted = 1..n
      /\ wpc = "visit" => Len(batch) >= 1
  BY Lengths
<1>3. /\ Len(accepted') = n + 1 /\ accepted'[n + 1] = m
      /\ \A k \in 1..n : accepted'[k] = accepted[k]
      /\ Len(messages') = Len(messages) + 1
  BY <1>1, Lengths
<1>4. \A s : Passed(s)' = Passed(s) /\ Passed(s) <= n
  BY <1>1, <1>2, <1>3 DEF Passed, Through
<1>5. \A s \in Sinks : m \notin Elems(written[s])
  BY <1>1 DEF OrderInv, GivenBefore, Elems
<1>6. ASSUME Untouched, NEW s \in sinks, NEW k \in 1..n + 1
      PROVE  accepted'[k] \in Elems(written[s]) <=> accepted'[k] \in Applies[s] /\ k <= Passed(s)
  <2>1. CASE k \in 1..n
    BY <1>3, <1>6, <2>1 DEF ExactInv, GivenExactly
  <2>2. CASE k = n + 1
    <3>1. s \in Sinks
      BY DEF TypeOK
    <3>2. ~(n + 1 <= Passed(s))
      BY <1>2, <1>4 DEF Passed
    <3> QED
      BY <1>3, <1>5, <2>2, <3>1, <3>2
  <2> QED
    BY <1>2, <2>1, <2>2
<1>7. GivenExactly'
  BY <1>1, <1>3, <1>4, <1>6 DEF GivenExactly, Untouched, Elems
<1>8. GivenOnce'
  BY <1>1 DEF ExactInv, GivenOnce, Untouched
<1> QED
  BY <1>7, <1>8 DEF ExactInv

LEMMA VisitKeepsExact ==
  ASSUME TypeOK, OrderInv, ExactInv, NEW x \in todo, Visit(x)
  PROVE  ExactInv'
<1> DEFINE n == Len(accepted)
           at == Through + 1
<1>1. /\ UNCHANGED <<accepted, messages, batch, wpc, sinks, changes>> /\ wpc = "visit"
      /\ todo' = todo \ {x} /\ x \in Sinks
      /\ written' = [written EXCEPT ![x] =
                       IF Head(batch) \in Applies[x] THEN Append(@, Head(batch)) ELSE @]
  BY DEF Visit, history, sinkVars, TypeOK
<1>2. /\ n \in Nat /\ Through \in Nat /\ Through + Len(batch) + Len(messages) = n
      /\ Len(messages) \in Nat /\ Len(batch) \in Nat /\ Len(batch) >= 1
      /\ DOMAIN accepted = 1..n
  BY <1>1, Lengths
<1>3. at \in 1..n /\ Head(batch) = accepted[at] /\ Head(batch) \in Msgs
  <2>1. 1 \in 1..Len(batch) /\ Head(batch) = batch[1] /\ Head(batch) \in Msgs
    BY <1>2 DEF TypeOK
  <2> QED
    BY <1>2, <2>1 DEF OrderInv, Suffix
<1>4. /\ Passed(x) = Through /\ Passed(x)' = at
      /\ \A s : s # x => Passed(s)' = Passed(s)
  BY <1>1, <1>2 DEF Passed, Through
<1>5. \A s \in Sinks : s # x => written'[s] = written[s]
  BY <1>1 DEF TypeOK
<1>6. /\ written[x] \in Seq(Msgs)
      /\ written'[x] = IF accepted[at] \in Applies[x] THEN Append(written[x], accepted[at]) ELSE written[x]
  BY <1>1, <1>3 DEF TypeOK
<1>7. accepted[at] \in Msgs
  BY <1>3
<1>8. Elems(written'[x]) = Elems(written[x]) \cup ({accepted[at]} \cap Applies[x])
  <2>1. CASE accepted[at] \in Applies[x]
    BY <1>6, <1>7, <2>1, ElemsAppend
  <2>2. CASE accepted[at] \notin Applies[x]
    BY <1>6, <2>2
  <2> QED
    BY <2>1, <2>2
<1>9. ASSUME Untouched, NEW s \in sinks, NEW k \in 1..n
      PROVE  accepted[k] \in Elems(written'[s]) <=> accepted[k] \in Applies[s] /\ k <= Passed(s)'
  <2>0. s \in Sinks
    BY DEF TypeOK
  <2>1. CASE s # x
    BY <1>4, <1>5, <1>9, <2>0, <2>1 DEF ExactInv, GivenExactly
  <2>2. CASE s = x
    <3>1. accepted[k] = accepted[at] <=> k = at
      BY <1>2, <1>3 DEF OrderInv, Distinct
    <3>2. accepted[k] \in Elems(written[x]) <=> accepted[k] \in Applies[x] /\ k <= Through
      BY <1>4, <1>9, <2>2 DEF ExactInv, GivenExactly
    <3>3. k <= at <=> k <= Through \/ k = at
      BY <1>2
    <3> QED
      BY <1>4, <1>8, <2>2, <3>1, <3>2, <3>3
  <2> QED
    BY <2>1, <2>2
<1>10. GivenExactly'
  BY <1>1, <1>9 DEF GivenExactly, Untouched, Elems
<1>11. ASSUME Untouched, NEW s \in sinks, NEW i \in DOMAIN written'[s], NEW j \in DOMAIN written'[s],
              written'[s][i] = written'[s][j]
       PROVE  i = j
  <2>0. s \in Sinks
    BY DEF TypeOK
  <2>1. CASE s # x \/ accepted[at] \notin Applies[x]
    BY <1>5, <1>6, <1>11, <2>0, <2>1 DEF ExactInv, GivenOnce
  <2>2. CASE s = x /\ accepted[at] \in Applies[x]
    <3>1. accepted[at] \notin Elems(written[x])
      <4>1. ~(at <= Passed(x))
        BY <1>2, <1>4
      <4> QED
        BY <1>3, <1>11, <2>2, <4>1 DEF ExactInv, GivenExactly
    <3>2. written'[x] = Append(written[x], accepted[at]) /\ Len(written[x]) \in Nat
      BY <1>6, <2>2
    <3>3. /\ DOMAIN written'[x] = 1..Len(written[x]) + 1 /\ DOMAIN written[x] = 1..Len(written[x])
          /\ written'[x][Len(written[x]) + 1] = accepted[at]
          /\ \A k \in 1..Len(written[x]) : written'[x][k] = written[x][k]
      BY <1>6, <1>7, <3>2
    <3>4. \A k \in 1..Len(written[x]) : written'[x][k] # accepted[at]
      BY <3>1, <3>3 DEF Elems
    <3>5. \A k, l \in 1..Len(written[x]) : written'[x][k] = written'[x][l] => k = l
      <4>1. \A k, l \in 1..Len(written[x]) : written[x][k] = written[x][l] => k = l
        BY <1>11, <2>2, <3>3 DEF ExactInv, GivenOnce
      <4> QED
        BY <3>3, <4>1
    <3> QED
      BY <1>11, <2>2, <3>2, <3>3, <3>4, <3>5
  <2> QED
    BY <2>1, <2>2
<1>12. GivenOnce'
  BY <1>1, <1>11 DEF GivenOnce, Untouched
<1> QED
  BY <1>10, <1>12 DEF ExactInv

LEMMA ExactStep ==
  ASSUME TypeOK, BatchEmpty, OrderInv, ExactInv, [Next]_vars
  PROVE  ExactInv'
<1>0. /\ Len(accepted) \in Nat /\ Len(messages) \in Nat /\ Len(batch) \in Nat /\ Through \in Nat
      /\ wpc = "visit" => Len(batch) >= 1
  BY Lengths
\* The steps that leave each sink with what it has and has been passed with.
<1>a. ASSUME UNCHANGED <<accepted, written>>, Untouched' => Untouched /\ sinks' = sinks,
             Untouched' => \A s \in sinks : Passed(s)' = Passed(s)
      PROVE  ExactInv'
  BY <1>a DEF ExactInv, GivenExactly, GivenOnce, Elems
<1>1. ASSUME NEW m \in Msgs, Write(m) PROVE ExactInv'
  BY <1>1, WriteKeepsExact
<1>2. ASSUME NEW s \in Sinks, AddSink(s) PROVE ExactInv'
  <2>1. ~Untouched'
    BY <1>2 DEF AddSink, ChangeSinks, Untouched, TypeOK
  <2> QED
    BY <2>1 DEF ExactInv, GivenExactly, GivenOnce
<1>3. ASSUME NEW gone, RemoveSinks(gone) PROVE ExactInv'
  <2>1. ~Untouched'
    BY <1>3 DEF RemoveSinks, ChangeSinks, Untouched, TypeOK
  <2> QED
    BY <2>1 DEF ExactInv, GivenExactly, GivenOnce
<1>4. ASSUME NEW t \in Closers, Close(t) PROVE ExactInv'
  <2>1. /\ UNCHANGED <<accepted, written, messages, batch, todo, sinks, changes>>
        /\ wpc' = "visit" <=> wpc = "visit"
    BY <1>4 DEF Close, Notify, sinkVars, writerVars
  <2> QED
    BY <1>a, <2>1 DEF Passed, Through, Untouched
<1>5. ASSUME NEW t \in Closers, CloseStep(t) PROVE ExactInv'
  <2>1. UNCHANGED <<accepted, written, messages, batch, todo, sinks, changes, wpc>>
    BY <1>5 DEF CloseStep, CheckJoinable, JoinReturns, JoinThrows, sinkVars, writerVars, history
  <2> QED
    BY <1>a, <2>1 DEF Passed, Through, Untouched
<1>6. CASE Top \/ WaitReturns
  <2>1. /\ UNCHANGED <<accepted, written, sinks, changes>>
        /\ wpc # "visit" /\ wpc' # "visit" /\ batch = <<>>
        /\ UNCHANGED <<messages, batch>> \/ (batch' = messages /\ messages' = <<>>)
    BY <1>6 DEF Top, WaitReturns, TakeAll, sinkVars, history, BatchEmpty
  <2>2. Through' = Through
    BY <1>0, <2>1 DEF Through
  <2> QED
    BY <1>a, <2>1, <2>2 DEF Passed, Untouched
<1>7. CASE BeginMessage
  <2>1. /\ UNCHANGED <<accepted, written, messages, batch, sinks, changes>>
        /\ wpc = "message" /\ wpc' = "visit" /\ todo' = sinks
    BY <1>7 DEF BeginMessage, sinkVars, history
  <2> QED
    BY <1>a, <2>1 DEF Passed, Through, Untouched
<1>8. CASE SpuriousWakeup
  <2>1. /\ UNCHANGED <<accepted, written, messages, batch, todo, sinks, changes>>
        /\ wpc = "waiting" /\ wpc' = "notified"
    BY <1>8 DEF SpuriousWakeup, sinkVars, writerVars, history
  <2> QED
    BY <1>a, <2>1 DEF Passed, Through, Untouched
<1>9. ASSUME NEW s \in todo, Visit(s) PROVE ExactInv'
  BY <1>9, VisitKeepsExact
<1>10. CASE EndMessage
  <2>1. /\ UNCHANGED <<accepted, written, messages, sinks, changes>> /\ batch' = Tail(batch)
        /\ wpc = "visit" /\ wpc' # "visit" /\ todo = {} /\ batch # <<>> /\ batch \in Seq(Msgs)
    BY <1>10 DEF EndMessage, history, sinkVars, TypeOK
  <2>2. Len(batch') = Len(batch) - 1
    BY <1>0, <2>1
  <2>3. \A s : Passed(s)' = Passed(s)
    BY <1>0, <2>1, <2>2 DEF Passed, Through
  <2> QED
    BY <1>a, <2>1, <2>3 DEF Untouched
<1>11. CASE WriteOther \/ UNCHANGED vars
  <2>1. /\ UNCHANGED <<accepted, written, messages, batch, todo, sinks, changes>>
        /\ wpc' = "visit" <=> wpc = "visit"
    BY <1>11 DEF WriteOther, Notify, vars, sinkVars, writerVars, history
  <2> QED
    BY <1>a, <2>1 DEF Passed, Through, Untouched
<1> QED
  BY <1>1, <1>2, <1>3, <1>4, <1>5, <1>6, <1>7, <1>8, <1>9, <1>10, <1>11 DEF Next, Logging, WriterStep

\* What is owed to a sink is the end of what was accepted.
LEMMA OwedIsTheRest ==
  ASSUME TypeOK, OrderInv, NEW s
  PROVE  /\ Passed(s) \in 0..Len(accepted)
         /\ Owed(s) = SubSeq(accepted, Passed(s) + 1, Len(accepted))
<1> DEFINE n == Len(accepted)
           p == Passed(s)
           held == IF wpc = "visit" /\ s \notin todo THEN Tail(batch) ELSE batch
<1>1. /\ accepted \in Seq(Msgs) /\ messages \in Seq(Msgs) /\ batch \in Seq(Msgs)
      /\ n \in Nat /\ Len(messages) \in Nat /\ Len(batch) \in Nat
      /\ DOMAIN accepted = 1..n /\ Through \in Nat
      /\ Through + Len(batch) + Len(messages) = n
      /\ wpc = "visit" => Len(batch) >= 1
  BY Lengths
<1>2. p \in 0..n
  BY <1>1 DEF Passed
<1>3. held \in Seq(Msgs) /\ Len(held) \in Nat /\ p + Len(held) + Len(messages) = n
      /\ \A i \in 1..Len(held) : held[i] = accepted[p + i]
  <2>1. CASE wpc = "visit" /\ s \notin todo
    <3>1. Tail(batch) \in Seq(Msgs) /\ Len(Tail(batch)) = Len(batch) - 1 /\ p = Through + 1
      BY <1>1, <2>1 DEF Passed
    <3>2. \A i \in 1..Len(batch) - 1 : Tail(batch)[i] = batch[i + 1]
      BY <1>1, <2>1
    <3>3. \A i \in 1..Len(batch) - 1 : Tail(batch)[i] = accepted[p + i]
      <4> TAKE i \in 1..Len(batch) - 1
      <4>1. i + 1 \in 1..Len(batch) /\ Through + (i + 1) = p + i
        BY <1>1, <3>1
      <4> QED
        BY <3>2, <4>1 DEF OrderInv, Suffix
    <3>4. held = Tail(batch)
      BY <2>1
    <3> HIDE DEF held, p, n
    <3>5. Len(held) = Len(batch) - 1
      BY <3>1, <3>4
    <3>6. Len(held) \in Nat /\ p + Len(held) + Len(messages) = n
      BY <1>1, <2>1, <3>1, <3>5
    <3>7. \A i \in 1..Len(held) : held[i] = accepted[p + i]
      BY <3>3, <3>4, <3>5
    <3> QED
      BY <3>1, <3>4, <3>6, <3>7
  <2>2. CASE ~(wpc = "visit" /\ s \notin todo)
    <3>1. held = batch /\ p = Through
      BY <1>1, <2>2 DEF Passed
    <3> QED
      BY <1>1, <3>1 DEF OrderInv, Suffix
  <2> QED
    BY <2>1, <2>2
<1>4. Owed(s) = held \o messages
  BY DEF Owed
<1> HIDE DEF held, p, n
\* Lengths, as numbers.
<1>n. /\ n \in Nat /\ p \in Nat /\ p <= n /\ Len(held) \in Nat /\ Len(messages) \in Nat
      /\ p + Len(held) + Len(messages) = n
      /\ Through \in Nat /\ Len(batch) \in Nat /\ Through + Len(batch) + Len(messages) = n
  BY <1>1, <1>2, <1>3
<1>5. /\ held \o messages \in Seq(Msgs) /\ Len(held \o messages) = Len(held) + Len(messages)
      /\ \A i \in 1..Len(held) + Len(messages) :
           (held \o messages)[i] = IF i <= Len(held) THEN held[i] ELSE messages[i - Len(held)]
  BY <1>1, <1>3, ConcatProperties
<1>6. /\ SubSeq(accepted, p + 1, n) \in Seq(Msgs) /\ Len(SubSeq(accepted, p + 1, n)) = n - p
      /\ \A i \in 1..n - p : SubSeq(accepted, p + 1, n)[i] = accepted[p + i]
  <2>1. \A i \in p + 1..n : accepted[i] \in Msgs
    BY <1>1, <1>2
  <2>2. /\ SubSeq(accepted, p + 1, n) \in Seq(Msgs)
        /\ Len(SubSeq(accepted, p + 1, n)) = IF p + 1 <= n THEN n - (p + 1) + 1 ELSE 0
        /\ \A i \in 1..n - (p + 1) + 1 : SubSeq(accepted, p + 1, n)[i] = accepted[p + 1 + i - 1]
    BY <1>1, <1>2, <2>1, SubSeqProperties
  <2>3. (IF p + 1 <= n THEN n - (p + 1) + 1 ELSE 0) = n - p /\ n - (p + 1) + 1 = n - p
    BY <1>n
  <2>4. \A i \in 1..n - p : p + 1 + i - 1 = p + i
    BY <1>n
  <2> QED
    BY <2>2, <2>3, <2>4
<1>7. ASSUME NEW i \in 1..n - p PROVE (held \o messages)[i] = accepted[p + i]
  <2>0. i \in 1..Len(held) + Len(messages) /\ i \in Int
    BY <1>n
  <2>1. CASE i <= Len(held)
    <3>1. i \in 1..Len(held)
      BY <1>n, <2>0, <2>1
    <3> QED
      BY <1>3, <1>5, <2>0, <2>1, <3>1
  <2>2. CASE ~(i <= Len(held))
    <3>1. i - Len(held) \in 1..Len(messages) /\ Through + Len(batch) + (i - Len(held)) = p + i
      BY <1>n, <2>0, <2>2
    <3> QED
      BY <1>5, <2>0, <2>2, <3>1 DEF OrderInv, Suffix
  <2> QED
    BY <2>1, <2>2
<1>8. held \o messages = SubSeq(accepted, p + 1, n)
  <2>1. Len(held) + Len(messages) = n - p
    BY <1>n
  <2> QED
    BY <1>5, <1>6, <1>7, <2>1, SeqEqual
<1> QED
  BY <1>2, <1>4, <1>8 DEF p, n

LEMMA ExactlyAccounted ==
  ASSUME TypeOK, OrderInv, ExactInv
  PROVE  Accounted
<1> SUFFICES ASSUME Untouched, NEW s \in sinks
             PROVE  /\ \E n \in 0..Len(accepted) :
                         /\ Owed(s) = SubSeq(accepted, n + 1, Len(accepted))
                         /\ Elems(written[s]) = {accepted[i] : i \in 1..n} \cap Applies[s]
                    /\ \A i, j \in DOMAIN written[s] :
                         i < j => Position(written[s][i]) < Position(written[s][j])
  BY DEF Accounted
<1>1. DOMAIN accepted = 1..Len(accepted) /\ Len(accepted) \in Nat /\ s \in Sinks
  BY Lengths DEF TypeOK
<1>2. /\ Passed(s) \in 0..Len(accepted)
      /\ Owed(s) = SubSeq(accepted, Passed(s) + 1, Len(accepted))
  BY OwedIsTheRest
<1>3. Elems(written[s]) = {accepted[i] : i \in 1..Passed(s)} \cap Applies[s]
  <2>1. ASSUME NEW m \in Elems(written[s])
        PROVE  m \in {accepted[i] : i \in 1..Passed(s)} \cap Applies[s]
    <3>1. PICK k \in 1..Len(accepted) : m = accepted[k]
      BY <1>1, <2>1 DEF OrderInv, GivenBefore, Elems
    <3>2. m \in Applies[s] /\ k <= Passed(s)
      BY <2>1, <3>1 DEF ExactInv, GivenExactly
    <3> QED
      BY <1>1, <1>2, <3>1, <3>2
  <2>2. ASSUME NEW m \in {accepted[i] : i \in 1..Passed(s)} \cap Applies[s]
        PROVE  m \in Elems(written[s])
    <3>1. PICK k \in 1..Passed(s) : m = accepted[k]
      BY <2>2
    <3>2. k \in 1..Len(accepted) /\ k <= Passed(s) /\ m \in Applies[s]
      BY <1>1, <1>2, <2>2
    <3> QED
      BY <3>1, <3>2 DEF ExactInv, GivenExactly
  <2> QED
    BY <2>1, <2>2
<1>4. ASSUME NEW i \in DOMAIN written[s], NEW j \in DOMAIN written[s], i < j
      PROVE  Position(written[s][i]) < Position(written[s][j])
  <2>1. PICK k \in DOMAIN accepted : written[s][i] = accepted[k]
    BY <1>1 DEF OrderInv, GivenBefore
  <2>2. PICK l \in DOMAIN accepted : written[s][j] = accepted[l]
    BY <1>1 DEF OrderInv, GivenBefore
  <2>3. Position(written[s][i]) = k /\ Position(written[s][j]) = l
    BY <2>1, <2>2 DEF Position, OrderInv, Distinct
  <2>4. k <= l
    BY <1>1, <1>4, <2>1, <2>2 DEF OrderInv, Ordered
  <2>5. i # j
    <3>1. DOMAIN written[s] = 1..Len(written[s]) /\ Len(written[s]) \in Nat
      BY <1>1 DEF TypeOK
    <3> QED
      BY <1>4, <3>1
  <2>6. k # l
    BY <2>1, <2>2, <2>5 DEF ExactInv, GivenOnce
  <2> QED
    BY <1>1, <2>3, <2>4, <2>6
<1> QED
  BY <1>2, <1>3, <1>4

\* Nothing is lost, repeated or reordered between write and the sinks while no
\* sink comes or goes, wherever the writer stands and whoever closes.
THEOREM EveryMessageAccounted == Spec => []Accounted
<1>1. FlushInv => TypeOK /\ BatchEmpty
  BY DEF FlushInv
<1>2. TypeOK /\ BatchEmpty /\ OrderInv /\ [Next]_vars => OrderInv'
  BY OrderStep
<1>3. TypeOK /\ BatchEmpty /\ OrderInv /\ ExactInv /\ [Next]_vars => ExactInv'
  BY ExactStep
<1>4. TypeOK /\ OrderInv /\ ExactInv => Accounted
  BY ExactlyAccounted
<1> QED
  BY <1>1, <1>2, <1>3, <1>4, OrderInit, ExactInit, Flushed, PTL DEF Spec

=============================================================================
