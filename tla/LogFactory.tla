----------------------------- MODULE LogFactory -----------------------------
(***************************************************************************)
(* The log factory of lemon (lemon/log/factory.cpp): threads append        *)
(* messages to a shared queue, one writer thread takes the whole queue at  *)
(* a time and gives each message to every sink that applies to its source, *)
(* and close makes the writer finish.                                      *)
(*                                                                         *)
(* The queue and the exit flag are used inside factory::_mutex only.  The  *)
(* writer walks over the map of sinks without the mutex, while add_sink    *)
(* and remove_sink change it under the mutex: what such a change does to a *)
(* walk under way is left open.                                            *)
(*                                                                         *)
(* Messages that the level of their logger rejects do not get here.        *)
(***************************************************************************)
EXTENDS Integers, Sequences

CONSTANTS
  Closers,    \* the threads that call close
  Msgs,       \* bound: the messages that a sink may apply to, each logged once
  Sinks,      \* the sinks
  Applies,    \* Applies[s]: the messages whose source sink s applies to
  Initial,    \* the sinks that are added before anything is logged
  MaxChanges  \* bound: how often sinks come and go later on

ASSUME LogFactoryAssumption ==
  /\ Applies \in [Sinks -> SUBSET Msgs]
  /\ Initial \subseteq Sinks
  /\ MaxChanges \in Nat

VARIABLES
  messages,   \* _messages: those of Msgs in it, in order,
  others,     \* and whether it holds any that no sink applies to
  sinks,      \* _sinks
  changes,    \* how often the map was changed, for the bound
  exitflag,   \* _exitflag
  wpc,        \* where the writer stands in write_loop
  batch,      \* its local variable messages
  todo,       \* the sinks its inner loop has still to visit
  closing,    \* where each closer stands in close
  written,    \* what each sink was given, in order
  accepted,   \* history: what write has put in the queue, in order
  early       \* history: what it had put there when the flag was raised

sinkVars == <<sinks, changes>>
history == <<accepted, early>>
vars == <<messages, others, sinkVars, exitflag, wpc, batch, todo, closing, written, history>>
writerVars == <<batch, todo, written>>

Elems(q) == {q[i] : i \in DOMAIN q}

-----------------------------------------------------------------------------
(* Calls from any thread, each one section of _mutex.                      *)

\* _notify.notify_one(): only the writer ever waits.
Notify == wpc' = IF wpc = "waiting" THEN "notified" ELSE wpc

\* Mutant: the writer is not told.
WriteSilently(m) ==
  /\ m \notin Elems(accepted)
  /\ messages' = Append(messages, m) /\ accepted' = Append(accepted, m)
  /\ UNCHANGED <<others, wpc, sinkVars, exitflag, closing, writerVars, early>>

\* factory::write
Write(m) ==
  /\ m \notin Elems(accepted)
  /\ messages' = Append(messages, m)
  /\ accepted' = Append(accepted, m)
  /\ Notify
  /\ UNCHANGED <<others, sinkVars, exitflag, closing, writerVars, early>>

\* The same for a message that no sink applies to.  They may come without end.
WriteOther ==
  /\ others' = TRUE
  /\ Notify
  /\ UNCHANGED <<messages, sinkVars, exitflag, closing, writerVars, history>>

\* What a change of the map does to a walk that is under way: the walk goes on
\* with any of the sinks that are there, also with some it has visited.
Disturb == IF wpc = "visit" THEN todo' \in SUBSET sinks' ELSE UNCHANGED todo

ChangeSinks == changes < MaxChanges /\ changes' = changes + 1

\* add_sink
AddSink(s) ==
  /\ s \notin sinks
  /\ ChangeSinks
  /\ sinks' = sinks \cup {s}
  /\ Disturb
  /\ UNCHANGED <<messages, others, exitflag, wpc, batch, closing, written, history>>

\* remove_sink of one sink, and remove_all_sinks.  A walk that stands on an
\* erased entry may also crash the writer.
RemoveSinks(gone) ==
  /\ gone # {}
  /\ ChangeSinks
  /\ sinks' = sinks \ gone
  /\ \/ Disturb /\ UNCHANGED wpc
     \/ wpc = "visit" /\ wpc' = "crashed" /\ UNCHANGED todo
  /\ UNCHANGED <<messages, others, exitflag, batch, closing, written, history>>

\* Mutant: close does not wake the writer.
CloseSilently(t) ==
  /\ closing[t] = "no"
  /\ exitflag' = TRUE
  /\ closing' = [closing EXCEPT ![t] = "check"]
  /\ early' = IF exitflag THEN early ELSE Elems(accepted)
  /\ UNCHANGED <<wpc, messages, others, sinkVars, writerVars, accepted>>

\* close under the mutex: the flag is raised once.
Close(t) ==
  /\ closing[t] = "no"
  /\ exitflag' = TRUE
  /\ IF exitflag THEN UNCHANGED <<wpc, early>> ELSE Notify /\ early' = Elems(accepted)
  /\ closing' = [closing EXCEPT ![t] = "check"]
  /\ UNCHANGED <<messages, others, sinkVars, writerVars, accepted>>

Joined == \E t \in Closers : closing[t] = "done"

\* close without the mutex: a writer that was joined before is left alone ...
CheckJoinable(t) ==
  /\ closing[t] = "check"
  /\ closing' = [closing EXCEPT ![t] = IF Joined THEN "done" ELSE "join"]
  /\ UNCHANGED <<messages, others, sinkVars, exitflag, wpc, writerVars, history>>

\* ... join returns when the writer has ...
JoinReturns(t) ==
  /\ closing[t] = "join" /\ wpc = "exited" /\ ~Joined
  /\ closing' = [closing EXCEPT ![t] = "done"]
  /\ UNCHANGED <<messages, others, sinkVars, exitflag, wpc, writerVars, history>>

\* ... and throws when another thread joins or has joined it meanwhile.
JoinThrows(t) ==
  /\ closing[t] = "join"
  /\ Joined \/ \E u \in Closers \ {t} : closing[u] = "join"
  /\ closing' = [closing EXCEPT ![t] = "threw"]
  /\ UNCHANGED <<messages, others, sinkVars, exitflag, wpc, writerVars, history>>

-----------------------------------------------------------------------------
(* The writer thread.                                                      *)

\* Mutant: the queue is copied and not emptied.
TakeCopies ==
  /\ batch' = messages /\ others' = FALSE /\ UNCHANGED messages
  /\ wpc' = IF messages = <<>> THEN "lock" ELSE "message"

\* Mutant: an empty batch is walked like any other.
TakeAlways ==
  /\ batch' = messages
  /\ messages' = <<>> /\ others' = FALSE
  /\ wpc' = "message"

\* The queue is moved into the local variable and the mutex released.  The
\* messages that no sink applies to only cost the writer the time.
TakeAll ==
  /\ batch' = messages
  /\ messages' = <<>> /\ others' = FALSE
  /\ wpc' = IF messages = <<>> THEN "lock" ELSE "message"

Empty == messages = <<>> /\ ~others

\* Mutant: the flag is tested before the queue.
TopChecksExitFirst ==
  /\ wpc = "lock"
  /\ IF exitflag THEN wpc' = "exited" /\ UNCHANGED <<batch, messages, others>>
     ELSE IF Empty THEN wpc' = "waiting" /\ UNCHANGED <<batch, messages, others>>
     ELSE TakeAll
  /\ UNCHANGED <<sinkVars, exitflag, closing, todo, written, history>>

\* The top of the loop, with the mutex: leave, wait, or take the messages.
Top ==
  /\ wpc = "lock"
  /\ \/ Empty /\ exitflag /\ wpc' = "exited" /\ UNCHANGED <<batch, messages, others>>
     \/ Empty /\ ~exitflag /\ wpc' = "waiting" /\ UNCHANGED <<batch, messages, others>>
     \/ ~Empty /\ TakeAll
  /\ UNCHANGED <<sinkVars, exitflag, closing, todo, written, history>>

\* The wait returns: what is there is taken, also if it is nothing.
WaitReturns ==
  /\ wpc = "notified"
  /\ TakeAll
  /\ UNCHANGED <<sinkVars, exitflag, closing, todo, written, history>>

SpuriousWakeup ==
  /\ wpc = "waiting"
  /\ wpc' = "notified"
  /\ UNCHANGED <<messages, others, sinkVars, exitflag, closing, writerVars, history>>

\* The inner loop begins for the first message of the batch ...
BeginMessage ==
  /\ wpc = "message"
  /\ todo' = sinks
  /\ wpc' = "visit"
  /\ UNCHANGED <<messages, others, sinkVars, exitflag, batch, closing, written, history>>

\* ... visits a sink, which writes the message if it applies to its source ...
Visit(s) ==
  /\ wpc = "visit" /\ s \in todo
  /\ todo' = todo \ {s}
  /\ written' = [written EXCEPT ![s] =
                   IF Head(batch) \in Applies[s] THEN Append(@, Head(batch)) ELSE @]
  /\ UNCHANGED <<messages, others, sinkVars, exitflag, wpc, batch, closing, history>>

\* ... and ends.
EndMessage ==
  /\ wpc = "visit" /\ todo = {}
  /\ batch' = Tail(batch)
  /\ wpc' = IF Len(batch) = 1 THEN "lock" ELSE "message"
  /\ UNCHANGED <<messages, others, sinkVars, exitflag, todo, closing, written, history>>

-----------------------------------------------------------------------------
Init ==
  /\ messages = <<>> /\ others = FALSE
  /\ sinks = Initial
  /\ changes = 0
  /\ exitflag = FALSE
  /\ wpc = "lock"
  /\ batch = <<>>
  /\ todo = {}
  /\ closing = [t \in Closers |-> "no"]
  /\ written = [s \in Sinks |-> <<>>]
  /\ accepted = <<>>
  /\ early = {}

WriterStep ==
  \/ Top
  \/ WaitReturns
  \/ BeginMessage
  \/ \E s \in todo : Visit(s)
  \/ EndMessage

CloseStep(t) == CheckJoinable(t) \/ JoinReturns(t) \/ JoinThrows(t)

Logging == WriteOther \/ \E m \in Msgs : Write(m)

Next ==
  \/ WriterStep
  \/ SpuriousWakeup
  \/ Logging
  \/ \E s \in Sinks : AddSink(s) \/ RemoveSinks({s} \cap sinks)
  \/ RemoveSinks(sinks)
  \/ \E t \in Closers : Close(t) \/ CloseStep(t)

\* The writer thread runs and is granted the mutex, and so is a closer.
Fairness ==
  /\ WF_vars(WriterStep)
  /\ \A t \in Closers : WF_vars(CloseStep(t))

Spec == Init /\ [][Next]_vars /\ Fairness

-----------------------------------------------------------------------------
(* Properties.                                                             *)

\* The type invariant of the fields of the factory and the writer's locals.
TypeOK ==
  /\ messages \in Seq(Msgs) /\ batch \in Seq(Msgs)
  /\ accepted \in Seq(Msgs) /\ early \in SUBSET Msgs
  /\ sinks \in SUBSET Sinks /\ changes \in 0..MaxChanges
  /\ todo \in SUBSET Sinks
  /\ exitflag \in BOOLEAN /\ others \in BOOLEAN
  /\ wpc \in {"lock", "waiting", "notified", "message", "visit", "exited", "crashed"}
  /\ wpc \in {"message", "visit"} => batch # <<>>
  /\ closing \in [Closers -> {"no", "check", "join", "done", "threw"}]
  /\ written \in [Sinks -> Seq(Msgs)]

\* What sink s has still to be given of the messages that were accepted.
Owed(s) == (IF wpc = "visit" /\ s \notin todo THEN Tail(batch) ELSE batch) \o messages

Untouched == changes = 0

Position(m) == CHOOSE i \in DOMAIN accepted : accepted[i] = m

\* Nothing is lost, repeated or reordered on the way from write to the sinks,
\* wherever the writer stands, while no sink comes or goes: a sink has been given
\* what it applies to, once and in order, up to some message, and is owed the rest.
Accounted ==
  Untouched => \A s \in sinks :
    /\ \E n \in 0..Len(accepted) :
         /\ Owed(s) = SubSeq(accepted, n + 1, Len(accepted))
         /\ Elems(written[s]) = {accepted[i] : i \in 1..n} \cap Applies[s]
    /\ \A i, j \in DOMAIN written[s] :
         i < j => Position(written[s][i]) < Position(written[s][j])

\* No sink is given a message before one that was accepted earlier, even when
\* the map of sinks changes under the writer's feet.
InOrder ==
  \A s \in Sinks : \A i, j \in DOMAIN written[s] :
    i < j => Position(written[s][i]) <= Position(written[s][j])

\* When close has returned, every message that was accepted before the flag was
\* raised has been given to every sink, if no sink has come or gone.
ClosedIsFlushed ==
  Joined /\ Untouched => \A s \in sinks : early \cap Applies[s] \subseteq Elems(written[s])

\* A message accepted before the flag is raised reaches its sinks in the end, or
\* the sinks have changed meanwhile.
EndsWritten ==
  \A m \in Msgs, s \in Sinks :
    (~exitflag /\ s \in sinks /\ m \in Elems(accepted) \cap Applies[s])
      ~> (m \in Elems(written[s]) \/ ~Untouched)

\* close returns, or throws because two threads have called it, once the loggers
\* stop.  Until then it may not: the writer looks at the flag only when it finds the
\* queue empty.  After that close hangs only on a writer that a change of the sinks
\* has crashed.
CloseReturns ==
  <>[][~Logging]_vars =>
    \A t \in Closers : closing[t] = "check" ~> (closing[t] \in {"done", "threw"} \/ wpc = "crashed")
=============================================================================
