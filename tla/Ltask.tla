------------------------------- MODULE Ltask -------------------------------
(***************************************************************************)
(* The Lua API of iolua (iolua/ltask/builtin.cpp) over the scheduler and   *)
(* the channels: iolua.task, chan, close, send and recv, called by tasks   *)
(* whose Lua code is any sequence of such calls, of plain coroutine.yield  *)
(* and of an end.                                                          *)
(*                                                                         *)
(* A task runs its calls on the worker that holds it.  A call is cut into  *)
(* steps where it leaves one critical section and enters the next one: the *)
(* lookup of a channel (scheduler::_mutex), its queues (channel::_mutex),  *)
(* the release of the reference (atomic), resume (scheduler::_mutex).      *)
(***************************************************************************)
EXTENDS Integers, Sequences, FiniteSets

CONSTANTS
  Workers, Tasks, NoTask, Channels, NoChannel, IntSize,
  Msgs,        \* the messages, each sent by one call of iolua.send
  NoMsg,       \* no message in hand: the null pointer pop returns
  Spawns,      \* Spawns[t]: the tasks that t may start
  Opens,       \* Opens[t]: the channels that t may open ...
  Closes,      \* ... close ...
  Sends,       \* ... and send to
  Recvs,       \* Recvs[t]: the argument lists with which t may call iolua.recv
  Servers      \* the tasks whose code is a loop without an end

ASSUME LtaskAssumption ==
  /\ IsFiniteSet(Workers) /\ IsFiniteSet(Tasks) /\ NoTask \notin Tasks
  /\ NoChannel \notin Channels
  /\ IntSize \in Nat /\ IntSize > Cardinality(Tasks) + 1
  /\ NoMsg \notin Msgs
  /\ Spawns \in [Tasks -> SUBSET Tasks]
  /\ {Opens, Closes, Sends} \subseteq [Tasks -> SUBSET Channels]
  /\ \A t \in Tasks : Recvs[t] \subseteq Seq(Channels)
  /\ Servers \subseteq Tasks

VARIABLES
  wpc, cur, runningTasks, sleepingTasks, tasks, state, stayAwake, exit, main, owed,
  channels, object, counter, data, blockings, ref, lost,
  pc,          \* where each task stands in builtin.cpp, "lua" outside it
  args,        \* the arguments of its call of iolua.recv
  index,       \* the loop variable of channel_select
  msg,         \* the message in its hand: to push, or popped
  peer,        \* the blocked task that its push took out, to be resumed
  sent         \* history: the messages that some send was called with

S == INSTANCE Scheduler WITH Hogs <- {}
C == INSTANCE Channel

schedVars == <<wpc, cur, runningTasks, sleepingTasks, tasks, state, stayAwake, owed, exit, main>>
refVars == <<channels, object, counter, ref, lost>>
chanVars == <<channels, object, counter, ref, lost, data, blockings>>
callVars == <<pc, args, index, msg, peer, sent>>
vars == <<schedVars, chanVars, callVars>>

-----------------------------------------------------------------------------
(* Steps of the Lua code that worker w runs, that of task cur[w].          *)

At(w, label) == wpc[w] = "running" /\ pc[cur[w]] = label

Goto(w, label) == pc' = [pc EXCEPT ![cur[w]] = label]

\* Lua code has the ids that iolua.chan returned, closed since or not.
Known(c) == object[c] # "none"

Quiet == UNCHANGED <<args, index, msg, peer, sent>>

\* get_channel gives the frame of t a pointer to c ...
Found(t, c) == C!GetChannel(t, c) /\ ref'[t] = c

\* ... or null, without an entry and when addref took the object for revived.
Missed(t, c) ==
  IF c \in channels THEN C!GetChannel(t, c) /\ ref'[t] = NoChannel ELSE UNCHANGED refVars

\* iolua.task(file, ...)
NewTask(w, t) ==
  /\ At(w, "lua") /\ t \in Spawns[cur[w]]
  /\ S!Spawn(w, t)
  /\ UNCHANGED <<chanVars, callVars>>

\* iolua.chan()
Open(w, c) ==
  /\ At(w, "lua") /\ c \in Opens[cur[w]]
  /\ C!CreateChannel(c)
  /\ UNCHANGED <<schedVars, callVars>>

\* iolua.close(c)
Close(w, c) ==
  /\ At(w, "lua") /\ c \in Closes[cur[w]]
  /\ C!CloseChannel(c)
  /\ UNCHANGED <<schedVars, callVars>>

\* iolua.send(c, m): without a channel it returns nothing.
Send(w, c, m) ==
  /\ At(w, "lua") /\ c \in Sends[cur[w]] /\ Known(c) /\ m \notin sent
  /\ sent' = sent \cup {m}
  /\ \/ /\ Found(cur[w], c)
        /\ Goto(w, "push")
        /\ msg' = [msg EXCEPT ![cur[w]] = m]
     \/ /\ Missed(cur[w], c)
        /\ UNCHANGED <<pc, msg>>
  /\ UNCHANGED <<schedVars, data, blockings, args, index, peer>>

\* seri_pack raises an error, which leaves ltask_chan_send at once.
PackFails(w) ==
  /\ At(w, "push")
  /\ C!Forget(cur[w])
  /\ Goto(w, "lua")
  /\ msg' = [msg EXCEPT ![cur[w]] = NoMsg]
  /\ UNCHANGED <<schedVars, data, blockings, args, index, peer, sent>>

\* Mutant: the blocked task is taken out and not resumed.
PushSilently(w) ==
  /\ At(w, "push")
  /\ C!Push(cur[w], msg[cur[w]]) /\ C!Forget(cur[w])
  /\ msg' = [msg EXCEPT ![cur[w]] = NoMsg]
  /\ Goto(w, "lua")
  /\ UNCHANGED <<schedVars, args, index, peer, sent>>

\* channel::push queues the message; with a blocked task it goes on to resume,
\* without one send returns.
PushMsg(w) ==
  LET t == cur[w]
      blocked == blockings[ref[t]] IN
  /\ At(w, "push")
  /\ C!Push(t, msg[t])
  /\ msg' = [msg EXCEPT ![t] = NoMsg]
  /\ IF blocked = <<>>
     THEN C!Forget(t) /\ Goto(w, "lua") /\ UNCHANGED peer
     ELSE /\ peer' = [peer EXCEPT ![t] = Head(blocked)]
          /\ Goto(w, "resume")
          /\ UNCHANGED refVars
  /\ UNCHANGED <<schedVars, args, index, sent>>

\* Mutant: the flag is set where the task may be asleep.
ResumeByFlag(w) ==
  /\ At(w, "resume")
  /\ stayAwake' = [stayAwake EXCEPT ![peer[cur[w]]] = TRUE]
  /\ C!Forget(cur[w])
  /\ peer' = [peer EXCEPT ![cur[w]] = NoTask]
  /\ Goto(w, "lua")
  /\ UNCHANGED <<wpc, cur, runningTasks, sleepingTasks, tasks, state, owed, exit, main>>
  /\ UNCHANGED <<data, blockings, args, index, msg, sent>>

\* The end of push: the task taken out is resumed, and send returns.
ResumePeer(w) ==
  LET t == cur[w] IN
  /\ At(w, "resume")
  /\ S!Wake(w, peer[t])
  /\ C!Forget(t)
  /\ peer' = [peer EXCEPT ![t] = NoTask]
  /\ Goto(w, "lua")
  /\ UNCHANGED <<data, blockings, args, index, msg, sent>>

\* iolua.recv(...): the loop of recv_method begins with iolua.select.
Recv(w, list) ==
  /\ At(w, "lua") /\ list \in Recvs[cur[w]] /\ \A i \in DOMAIN list : Known(list[i])
  /\ args' = [args EXCEPT ![cur[w]] = list]
  /\ index' = [index EXCEPT ![cur[w]] = 1]
  /\ Goto(w, "select")
  /\ UNCHANGED <<schedVars, chanVars, msg, peer, sent>>

\* channel_select looks the next channel up, and passes over an unknown one.
SelectGet(w) ==
  LET t == cur[w] IN
  /\ At(w, "select") /\ index[t] <= Len(args[t])
  /\ \/ /\ Found(t, args[t][index[t]])
        /\ Goto(w, "try")
        /\ UNCHANGED index
     \/ /\ Missed(t, args[t][index[t]])
        /\ index' = [index EXCEPT ![t] = @ + 1]
        /\ UNCHANGED pc
  /\ UNCHANGED <<schedVars, data, blockings, args, msg, peer, sent>>

\* do_select on that channel: select returns its id, or goes on to the next.
SelectTry(w) ==
  LET t == cur[w] IN
  /\ At(w, "try")
  /\ C!DoSelect(t)
  /\ C!Forget(t)
  /\ IF data[ref[t]] = <<>>
     THEN index' = [index EXCEPT ![t] = @ + 1] /\ Goto(w, "select")
     ELSE UNCHANGED index /\ Goto(w, "rawrecv")
  /\ UNCHANGED <<schedVars, args, msg, peer, sent>>

\* iolua.raw_recv on the channel that select returned: it may be closed by now.
RawRecv(w) ==
  LET t == cur[w] IN
  /\ At(w, "rawrecv")
  /\ \/ Found(t, args[t][index[t]]) /\ Goto(w, "pop")
     \/ Missed(t, args[t][index[t]]) /\ Goto(w, "yield")
  /\ UNCHANGED <<schedVars, data, blockings>> /\ Quiet

PopMsg(w) ==
  LET t == cur[w] IN
  /\ At(w, "pop")
  /\ C!Pop(t)
  /\ msg' = [msg EXCEPT ![t] = IF data[ref[t]] = <<>> THEN NoMsg ELSE Head(data[ref[t]])]
  /\ Goto(w, "release")
  /\ UNCHANGED <<schedVars, refVars, args, index, peer, sent>>

\* Mutant: the reference is dropped and the pointer kept.
ReleaseKeepsPointer(w) ==
  /\ At(w, "release")
  /\ C!Drop(ref[cur[w]])
  /\ Goto(w, IF msg[cur[w]] = NoMsg THEN "yield" ELSE "lua")
  /\ msg' = [msg EXCEPT ![cur[w]] = NoMsg]
  /\ UNCHANGED <<schedVars, channels, ref, lost, data, blockings, args, index, peer, sent>>

\* raw_recv drops its reference; recv returns the message, or goes on to yield.
ReleaseChan(w) ==
  LET t == cur[w] IN
  /\ At(w, "release")
  /\ C!Release(t)
  /\ Goto(w, IF msg[t] = NoMsg THEN "yield" ELSE "lua")
  /\ msg' = [msg EXCEPT ![t] = NoMsg]
  /\ UNCHANGED <<schedVars, data, blockings, args, index, peer, sent>>

\* Mutant: the loop does not select again after the yield.
YieldOnly(w) ==
  /\ At(w, "yield") \/ (At(w, "select") /\ index[cur[w]] > Len(args[cur[w]]))
  /\ S!Yield(w)
  /\ UNCHANGED <<chanVars, callVars>>

\* The coroutine.yield() of recv_method, after which the loop starts again.
RecvYield(w) ==
  LET t == cur[w] IN
  /\ At(w, "yield") \/ (At(w, "select") /\ index[t] > Len(args[t]))
  /\ S!Yield(w)
  /\ Goto(w, "select")
  /\ index' = [index EXCEPT ![t] = 1]
  /\ UNCHANGED <<chanVars, args, msg, peer, sent>>

\* A coroutine.yield() of the task's own, and the end of its code.
PlainYield(w) ==
  /\ At(w, "lua")
  /\ S!Yield(w)
  /\ UNCHANGED <<chanVars, callVars>>

End(w) ==
  /\ At(w, "lua") /\ cur[w] \notin Servers
  /\ S!Finish(w)
  /\ UNCHANGED <<chanVars, callVars>>

LuaStep(w) ==
  \/ \E t \in Tasks : NewTask(w, t)
  \/ \E c \in Channels : Open(w, c) \/ Close(w, c)
  \/ \E c \in Channels, m \in Msgs : Send(w, c, m)
  \/ PackFails(w)
  \/ PushMsg(w)
  \/ ResumePeer(w)
  \/ \E list \in Recvs[cur[w]] : Recv(w, list)
  \/ SelectGet(w)
  \/ SelectTry(w)
  \/ RawRecv(w)
  \/ PopMsg(w)
  \/ ReleaseChan(w)
  \/ RecvYield(w)
  \/ PlainYield(w)
  \/ End(w)

-----------------------------------------------------------------------------
(* The rest of the scheduler, which the Lua code does not see.             *)

WorkerLoop(w) == S!Enter(w) \/ S!BeginRun(w) \/ S!Settle(w)

Owner == \/ \E t \in Tasks : S!Start(t)
         \/ S!StartFails
         \/ S!CallExit
         \/ S!Join

SchedulerStep ==
  /\ Owner \/ \E w \in Workers : WorkerLoop(w) \/ S!SpuriousWakeup(w)
  /\ UNCHANGED <<chanVars, callVars>>

Init ==
  /\ S!Init
  /\ C!Init
  /\ pc = [t \in Tasks |-> "lua"]
  /\ args = [t \in Tasks |-> <<>>]
  /\ index = [t \in Tasks |-> 1]
  /\ msg = [t \in Tasks |-> NoMsg]
  /\ peer = [t \in Tasks |-> NoTask]
  /\ sent = {}

Next == SchedulerStep \/ \E w \in Workers : wpc[w] = "running" /\ LuaStep(w)

\* Threads run and mutexes are granted, as in Scheduler; main goes on after
\* start; Lua code that runs takes its next step.
Fairness ==
  /\ \A w \in Workers : WF_vars(WorkerLoop(w) /\ UNCHANGED <<chanVars, callVars>>)
  /\ \A w \in Workers : WF_vars(wpc[w] = "running" /\ LuaStep(w))
  /\ WF_vars(((\E t \in Tasks : S!Start(t)) \/ S!StartFails) /\ UNCHANGED <<chanVars, callVars>>)
  /\ WF_vars(main = "destroying" /\ S!CallExit /\ UNCHANGED <<chanVars, callVars>>)
  /\ WF_vars(S!Join /\ UNCHANGED <<chanVars, callVars>>)

Spec == Init /\ [][Next]_vars /\ Fairness

-----------------------------------------------------------------------------
(* Properties.                                                             *)

InRecv(t) == pc[t] \in {"select", "try", "rawrecv", "pop", "release", "yield"}

Args(t) == {args[t][i] : i \in DOMAIN args[t]}

\* t is in recv on c, and nobody has closed a channel it is in recv on.
WaitsOn(t, c) == InRecv(t) /\ c \in Args(t) /\ Args(t) \subseteq channels

BeingResumed(t) == \E s \in Tasks : pc[s] = "resume" /\ peer[s] = t

\* One task at most receives on c, and its counter holds its references.
Sole(c) ==
  /\ C!Few(c)
  /\ Cardinality({t \in Tasks : \E list \in Recvs[t] : c \in {list[i] : i \in DOMAIN list}}) <= 1

\* No wakeup is lost: a task does not sleep in recv on open channels of its own
\* of which one holds a message, unless the sender that took it out of the
\* blocked queue is still on its way to resume it.
NoLostWakeup ==
  \A t \in sleepingTasks : \A c \in Args(t) :
    WaitsOn(t, c) /\ (\A d \in Args(t) : Sole(d)) /\ data[c] # <<>> => BeingResumed(t)

\* A task in recv on open channels of which one holds a message gets out of
\* recv, for channels with one receiver each.
RecvReturns ==
  \A t \in Tasks, c \in Channels :
    (WaitsOn(t, c) /\ data[c] # <<>>) ~> (exit \/ ~WaitsOn(t, c))

\* The tasks that receive on c receive on it alone, and go on for ever.
Pool(c) ==
  \A t \in Tasks : \A list \in Recvs[t] :
    c \in {list[i] : i \in DOMAIN list} => list = <<c>> /\ t \in Servers

Users(c) == {t \in tasks : <<c>> \in Recvs[t]}

\* The tasks of a pool are never all asleep in recv while their channel is open
\* and holds a message, unless one of them is being resumed: whichever of them
\* the messages and the resumes went to.
SomeoneAwake ==
  \A c \in channels :
    /\ Pool(c) /\ C!Few(c)
    /\ data[c] # <<>> /\ Users(c) # {}
    /\ \A t \in Users(c) : t \in sleepingTasks /\ WaitsOn(t, c)
    => \E t \in Users(c) : BeingResumed(t)

\* What the Lua calls do to tasks and workers is allowed, step by step and in
\* the long run, by Scheduler: the composed system inherits its properties.
SchedulerSpec == S!Spec

\* What the Lua calls do with channels and references, in whatever order close
\* comes between them, is allowed by Channel.
ChannelSpec == C!Spec
=============================================================================
