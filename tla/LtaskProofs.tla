---------------------------- MODULE LtaskProofs ----------------------------
(***************************************************************************)
(* Proofs about Ltask: the Lua API implements the scheduler and the        *)
(* channels, so that what is proved of those holds of it; no wakeup is     *)
(* lost; tasks that share a channel do not all sleep on a message.  For    *)
(* any workers, tasks, channels and messages, and whatever each task may   *)
(* spawn, open, close, send and receive.                                   *)
(*                                                                         *)
(* SP and CP are the scheduler and the channels with their proofs.         *)
(***************************************************************************)
EXTENDS Ltask, FiniteSetTheorems, TLAPS

SP == INSTANCE SchedulerProofs WITH Hogs <- {}
\* What is used of CP does not speak of the tables of ChannelTable.
CP == INSTANCE ChannelProofs WITH
        IdSize <- 1, Asked <- {}, MaxLost <- 0,
        idgen <- 0, keys <- {}, entry <- {}, taskIds <- {}, creating <- {},
        drawn <- {}, named <- {}, draws <- {}, overtaken <- FALSE

-----------------------------------------------------------------------------
(* The definitions of SP and CP are those of S and C.                      *)

LEMMA SameFew ==
  ASSUME NEW c PROVE C!Few(c) <=> CP!Few(c)
BY DEF C!Few, CP!Few, C!Cardinality, CP!Cardinality

LEMMA Assumed == SP!SchedulerAssumption /\ CP!ChannelAssumption /\ CP!TableAssumption
<1>1. SP!SchedulerAssumption
  BY LtaskAssumption DEF SP!SchedulerAssumption, SP!IsFiniteSet, IsFiniteSet
<1>2. CP!Cardinality(Tasks) = Cardinality(Tasks)
  BY DEF CP!Cardinality, Cardinality
<1>3. CP!ChannelAssumption
  BY <1>2, LtaskAssumption DEF CP!ChannelAssumption, CP!IsFiniteSet, IsFiniteSet
<1>4. CP!TableAssumption
  BY DEF CP!TableAssumption
<1> QED
  BY <1>1, <1>3, <1>4

LEMMA SameChannel == [C!Next]_(C!chanVars) => [CP!Next]_(CP!chanVars)
<1>1. ASSUME NEW c PROVE C!CreateChannel(c) \/ C!CloseChannel(c) => CP!CreateChannel(c) \/ CP!CloseChannel(c)
  BY DEF C!CreateChannel, CP!CreateChannel, C!CloseChannel, CP!CloseChannel, C!Drop, CP!Drop, C!Down, CP!Down
<1>2. ASSUME NEW t PROVE C!UseRefs(t) => CP!UseRefs(t)
  BY DEF C!UseRefs, CP!UseRefs, C!GetChannel, CP!GetChannel, C!Release, CP!Release, C!Forget, CP!Forget,
         C!Drop, CP!Drop, C!Down, CP!Down, C!Up, CP!Up
<1>3. ASSUME NEW t PROVE C!UseQueues(t) => CP!UseQueues(t)
  BY DEF C!UseQueues, CP!UseQueues, C!Push, CP!Push, C!Pop, CP!Pop, C!DoSelect, CP!DoSelect, C!Holds, CP!Holds
<1>4. ASSUME NEW t PROVE C!Forget(t) => CP!Forget(t)
  BY DEF C!Forget, CP!Forget
<1> QED
  BY <1>1, <1>2, <1>3, <1>4 DEF C!Next, CP!Next, C!chanVars, CP!chanVars, C!refVars, CP!refVars

LEMMA SameScheduler == [S!Next]_(S!vars) => [SP!Next]_(SP!vars)
<1>1. ASSUME NEW w PROVE S!Enter(w) => SP!Enter(w)
  BY DEF S!Enter, SP!Enter, S!Loop, SP!Loop, S!taskVars, SP!taskVars, S!Arriving, SP!Arriving
<1>2. ASSUME NEW w PROVE S!Settle(w) => SP!Settle(w)
  BY DEF S!Settle, SP!Settle, S!Loop, SP!Loop
<1>3. ASSUME NEW w PROVE S!BeginRun(w) \/ S!Yield(w) \/ S!Finish(w) \/ S!SpuriousWakeup(w)
                      => SP!BeginRun(w) \/ SP!Yield(w) \/ SP!Finish(w) \/ SP!SpuriousWakeup(w)
  BY DEF S!BeginRun, SP!BeginRun, S!Yield, SP!Yield, S!Finish, SP!Finish, S!SpuriousWakeup, SP!SpuriousWakeup,
         S!taskVars, SP!taskVars
<1>4. S!NotifyOne => SP!NotifyOne
  BY DEF S!NotifyOne, SP!NotifyOne, S!Idle, SP!Idle
<1>5. ASSUME NEW t PROVE S!CreateTask(t) => SP!CreateTask(t)
  BY <1>4 DEF S!CreateTask, SP!CreateTask
<1>6. ASSUME NEW t PROVE S!Resume(t) => SP!Resume(t)
  BY <1>4 DEF S!Resume, SP!Resume
<1>7. S!StartFails \/ S!CallExit \/ S!Join => SP!StartFails \/ SP!CallExit \/ SP!Join
  BY DEF S!StartFails, SP!StartFails, S!CallExit, SP!CallExit, S!Join, SP!Join, S!Exit, SP!Exit,
         S!taskVars, SP!taskVars, S!Idle, SP!Idle
<1>8. ASSUME NEW t PROVE S!Start(t) => SP!Start(t)
  BY <1>5 DEF S!Start, SP!Start
<1>9. ASSUME NEW w, NEW t PROVE S!Spawn(w, t) \/ S!Wake(w, t) => SP!Spawn(w, t) \/ SP!Wake(w, t)
  BY <1>5, <1>6 DEF S!Spawn, SP!Spawn, S!Wake, SP!Wake
<1>10. (UNCHANGED S!vars) => UNCHANGED SP!vars
  BY DEF S!vars, SP!vars, S!taskVars, SP!taskVars
<1>11. ASSUME NEW w PROVE S!WorkerStep(w) \/ S!SpuriousWakeup(w) => SP!WorkerStep(w) \/ SP!SpuriousWakeup(w)
  BY <1>1, <1>2, <1>3 DEF S!WorkerStep, SP!WorkerStep
<1>12. S!Next => SP!Next
  BY <1>7, <1>8, <1>9, <1>11 DEF S!Next, SP!Next
<1> QED
  BY <1>10, <1>12

-----------------------------------------------------------------------------
(* The frames.                                                             *)

\* Some worker runs the Lua code of t.
Running(t) == \E w \in Workers : wpc[w] = "running" /\ cur[w] = t

\* A task that no worker runs is outside recv, or at the start of its loop.
Parked(t) == pc[t] \in {"lua", "select"} /\ (pc[t] = "select" => index[t] = 1)

\* The local variables of t's call fit the place where it stands.
Framed(t) ==
  /\ msg[t] \in Msgs \cup {NoMsg} /\ peer[t] \in Tasks \cup {NoTask}
  /\ pc[t] = "push" => msg[t] \in Msgs
  /\ pc[t] = "resume" => peer[t] \in Tasks
  /\ InRecv(t) =>
       /\ args[t] \in Recvs[t]
       /\ index[t] \in 1..Len(args[t]) + 1
       /\ \A c \in Args(t) : object[c] # "none"
  /\ pc[t] \in {"try", "rawrecv", "pop", "release"} => index[t] <= Len(args[t])
  /\ pc[t] \in {"try", "pop", "release"} => ref[t] = args[t][index[t]]
  /\ Running(t) \/ Parked(t)

CallTyped ==
  /\ DOMAIN pc = Tasks /\ DOMAIN args = Tasks /\ DOMAIN index = Tasks
  /\ DOMAIN msg = Tasks /\ DOMAIN peer = Tasks
  /\ \A t \in Tasks : Framed(t)

Typed == SP!TypeInv /\ CP!RefTypeOK /\ CP!RefInv /\ CP!QueueTypeOK

LEMMA RunningIsTask ==
  ASSUME SP!TypeInv, NEW w \in Workers, wpc[w] = "running"
  PROVE  cur[w] \in Tasks
BY DEF SP!TypeInv, SP!HoldsTask, SP!Busy

LEMMA ArgsAreChannels ==
  ASSUME NEW t \in Tasks, args[t] \in Recvs[t]
  PROVE  /\ args[t] \in Seq(Channels) /\ Len(args[t]) \in Nat /\ DOMAIN args[t] = 1..Len(args[t])
         /\ \A i \in 1..Len(args[t]) : args[t][i] \in Channels /\ args[t][i] \in Args(t)
         /\ Args(t) \subseteq Channels
<1>1. args[t] \in Seq(Channels)
  BY LtaskAssumption
<1> QED
  BY <1>1 DEF Args

LEMMA LookupIsStep ==
  ASSUME NEW t \in Tasks, NEW c \in Channels, Found(t, c) \/ Missed(t, c)
  PROVE  C!UseRefs(t) \/ UNCHANGED refVars
BY DEF Found, Missed, C!UseRefs

\* Every step of the composition is one of the channels', or leaves them alone.
LEMMA StepOfChannel ==
  ASSUME Typed, CallTyped, [Next]_vars
  PROVE  [C!Next]_(C!chanVars)
<1> USE DEF C!chanVars, C!refVars, chanVars, refVars
<1>1. CASE SchedulerStep \/ UNCHANGED vars
  BY <1>1 DEF SchedulerStep, vars
<1>2. ASSUME NEW w \in Workers, wpc[w] = "running", LuaStep(w) PROVE [C!Next]_(C!chanVars)
  <2> DEFINE t == cur[w]
  <2>0. t \in Tasks /\ Framed(t)
    BY <1>2, RunningIsTask DEF Typed, CallTyped
  <2>r. (C!UseRefs(t) \/ UNCHANGED refVars) /\ UNCHANGED <<data, blockings>> => [C!Next]_(C!chanVars)
    BY <2>0 DEF C!Next
  <2>q. C!UseQueues(t) /\ (C!Forget(t) \/ UNCHANGED refVars) => [C!Next]_(C!chanVars)
    BY <2>0 DEF C!Next
  <2>1. CASE \E u \in Tasks : NewTask(w, u)
    BY <2>1 DEF NewTask
  <2>2. CASE \E c \in Channels : Open(w, c) \/ Close(w, c)
    BY <2>2 DEF Open, Close, C!Next
  <2>3. CASE \E c \in Channels, m \in Msgs : Send(w, c, m)
    BY <2>0, <2>3, <2>r, LookupIsStep DEF Send
  <2>4. CASE PackFails(w) \/ ResumePeer(w) \/ ReleaseChan(w)
    BY <2>4, <2>r DEF PackFails, ResumePeer, ReleaseChan, C!UseRefs
  <2>5. CASE PushMsg(w)
    BY <2>0, <2>5, <2>q DEF PushMsg, C!UseQueues, Framed, At
  <2>6. CASE SelectGet(w)
    <3>1. args[t][index[t]] \in Channels
      BY <2>0, <2>6, ArgsAreChannels DEF SelectGet, At, Framed, InRecv
    <3> QED
      BY <2>0, <2>6, <2>r, <3>1, LookupIsStep DEF SelectGet
  <2>7. CASE SelectTry(w)
    BY <2>7, <2>q DEF SelectTry, C!UseQueues
  <2>8. CASE RawRecv(w)
    <3>1. args[t][index[t]] \in Channels
      BY <2>0, <2>8, ArgsAreChannels DEF RawRecv, At, Framed, InRecv
    <3> QED
      BY <2>0, <2>8, <2>r, <3>1, LookupIsStep DEF RawRecv
  <2>9. CASE PopMsg(w)
    BY <2>9, <2>q DEF PopMsg, C!UseQueues
  <2>10. CASE (\E list \in Recvs[t] : Recv(w, list)) \/ RecvYield(w) \/ PlainYield(w) \/ End(w)
    BY <2>10 DEF Recv, RecvYield, PlainYield, End
  <2> QED
    BY <1>2, <2>1, <2>2, <2>3, <2>4, <2>5, <2>6, <2>7, <2>8, <2>9, <2>10 DEF LuaStep
<1> QED
  BY <1>1, <1>2 DEF Next

\* ... and one of the scheduler's, or leaves it alone.
LEMMA StepOfScheduler ==
  ASSUME Typed, CallTyped, [Next]_vars
  PROVE  [S!Next]_(S!vars)
<1> USE DEF S!vars, S!taskVars, schedVars
<1>1. CASE SchedulerStep \/ UNCHANGED vars
  BY <1>1 DEF SchedulerStep, vars, Owner, WorkerLoop, S!Next, S!WorkerStep
<1>2. ASSUME NEW w \in Workers, wpc[w] = "running", LuaStep(w) PROVE [S!Next]_(S!vars)
  <2> DEFINE t == cur[w]
  <2>0. t \in Tasks /\ Framed(t)
    BY <1>2, RunningIsTask DEF Typed, CallTyped
  <2>1. CASE \E u \in Tasks : NewTask(w, u)
    BY <2>1 DEF NewTask, S!Next
  <2>2. CASE ResumePeer(w)
    BY <2>0, <2>2 DEF ResumePeer, At, Framed, S!Next
  <2>3. CASE RecvYield(w) \/ PlainYield(w) \/ End(w)
    BY <2>3 DEF RecvYield, PlainYield, End, S!Next, S!WorkerStep
  <2>4. CASE \E c \in Channels : Open(w, c) \/ Close(w, c)
    BY <2>4 DEF Open, Close
  <2>5. CASE \E c \in Channels, m \in Msgs : Send(w, c, m)
    BY <2>5 DEF Send
  <2>6. CASE PackFails(w) \/ PushMsg(w) \/ (\E list \in Recvs[t] : Recv(w, list)) \/ SelectGet(w)
    BY <2>6 DEF PackFails, PushMsg, Recv, SelectGet
  <2>7. CASE SelectTry(w) \/ RawRecv(w) \/ PopMsg(w) \/ ReleaseChan(w)
    BY <2>7 DEF SelectTry, RawRecv, PopMsg, ReleaseChan
  <2> QED
    BY <1>2, <2>1, <2>2, <2>3, <2>4, <2>5, <2>6, <2>7 DEF LuaStep
<1> QED
  BY <1>1, <1>2 DEF Next

\* A frame that a step does not touch stays sound.
LEMMA FrameKept ==
  ASSUME NEW t \in Tasks, Framed(t),
         pc'[t] = pc[t], args'[t] = args[t], index'[t] = index[t],
         msg'[t] = msg[t], peer'[t] = peer[t], ref'[t] = ref[t],
         \A c \in Channels : object[c] # "none" => object'[c] # "none",
         Running(t) => Running(t)'
  PROVE  Framed(t)'
<1>1. Args(t)' = Args(t) /\ (InRecv(t)' <=> InRecv(t)) /\ (Parked(t)' <=> Parked(t))
  BY DEF Args, InRecv, Parked
<1>2. InRecv(t) => Args(t) \subseteq Channels
  BY ArgsAreChannels DEF Framed
<1> QED
  BY <1>1, <1>2 DEF Framed

\* No object is undone, and a step of a frame leaves the pointers of others.
LEMMA ObjectsStay ==
  ASSUME CP!RefTypeOK, [C!Next]_(C!chanVars)
  PROVE  \A c \in Channels : object[c] # "none" => object'[c] # "none"
<1>1. ASSUME NEW c \in Channels, C!Drop(c)
      PROVE \A d \in Channels : object[d] # "none" => object'[d] # "none"
  BY <1>1 DEF C!Drop, CP!RefTypeOK
<1>2. ASSUME NEW c \in Channels, C!CreateChannel(c) \/ C!CloseChannel(c)
      PROVE \A d \in Channels : object[d] # "none" => object'[d] # "none"
  BY <1>1, <1>2 DEF C!CreateChannel, C!CloseChannel, CP!RefTypeOK
<1>3. ASSUME NEW t \in Tasks, C!UseRefs(t) \/ C!Forget(t) \/ UNCHANGED C!refVars
      PROVE \A d \in Channels : object[d] # "none" => object'[d] # "none"
  BY <1>1, <1>3 DEF C!UseRefs, C!GetChannel, C!Release, C!Forget, C!refVars, CP!RefTypeOK
<1> QED
  BY <1>2, <1>3 DEF C!Next, C!chanVars, C!refVars

\* No step of the scheduler takes a task off its worker while it runs.
LEMMA SchedulerLeavesRunning ==
  ASSUME SP!TypeInv, SchedulerStep
  PROVE  \A t \in Tasks : Running(t) => Running(t)'
<1> SUFFICES \A v \in Workers : wpc[v] = "running" => wpc'[v] = "running" /\ cur'[v] = cur[v]
  BY DEF Running
<1> USE DEF SP!TypeInv, SP!TypeOK, S!taskVars
<1>1. ASSUME NEW w \in Workers, NEW q, w \in S!Arriving \/ wpc[w] = "returned", S!Loop(w, q)
      PROVE  \A v \in Workers : wpc[v] = "running" => wpc'[v] = "running" /\ cur'[v] = cur[v]
  BY <1>1 DEF S!Loop, S!Arriving
<1>2. ASSUME NEW w \in Workers, WorkerLoop(w) \/ S!SpuriousWakeup(w)
      PROVE  \A v \in Workers : wpc[v] = "running" => wpc'[v] = "running" /\ cur'[v] = cur[v]
  <2>1. CASE S!Enter(w)
    BY <1>1, <2>1 DEF S!Enter
  <2>2. CASE S!Settle(w)
    BY <1>1, <2>2 DEF S!Settle
  <2> QED
    BY <1>2, <2>1, <2>2 DEF WorkerLoop, S!BeginRun, S!SpuriousWakeup
<1>3. ASSUME S!NotifyOne, UNCHANGED cur
      PROVE  \A v \in Workers : wpc[v] = "running" => wpc'[v] = "running" /\ cur'[v] = cur[v]
  BY <1>3 DEF S!NotifyOne, S!Idle
<1>4. CASE Owner
  BY <1>3, <1>4 DEF Owner, S!Start, S!CreateTask, S!StartFails, S!CallExit, S!Exit, S!Idle, S!Join
<1> QED
  BY <1>2, <1>4 DEF SchedulerStep

\* What a step of the Lua code that w runs leaves alone: the other frames and
\* the tasks that run on other workers.
LEMMA LuaStepIsLocal ==
  ASSUME Typed, CallTyped, NEW w \in Workers, wpc[w] = "running", LuaStep(w)
  PROVE  \A s \in Tasks \ {cur[w]} :
           /\ pc'[s] = pc[s] /\ args'[s] = args[s] /\ index'[s] = index[s]
           /\ msg'[s] = msg[s] /\ peer'[s] = peer[s] /\ ref'[s] = ref[s]
           /\ Running(s) => Running(s)'
<1> DEFINE t == cur[w]
<1> SUFFICES ASSUME NEW s \in Tasks \ {t}
             PROVE  /\ pc'[s] = pc[s] /\ args'[s] = args[s] /\ index'[s] = index[s]
                    /\ msg'[s] = msg[s] /\ peer'[s] = peer[s] /\ ref'[s] = ref[s]
                    /\ Running(s) => Running(s)'
  OBVIOUS
<1>0. t \in Tasks
  BY RunningIsTask DEF Typed
<1> USE DEF callVars, schedVars, chanVars, refVars, Goto, Quiet
<1> HIDE DEF t
<1>1. /\ pc'[s] = pc[s] /\ args'[s] = args[s] /\ index'[s] = index[s]
      /\ msg'[s] = msg[s] /\ peer'[s] = peer[s]
  BY <1>0 DEF CallTyped, LuaStep, NewTask, Open, Close, Send, PackFails, PushMsg, ResumePeer, Recv, SelectGet, SelectTry,
     RawRecv, PopMsg, ReleaseChan, RecvYield, PlainYield, End, t
<1>2. ref'[s] = ref[s]
  <2>1. ASSUME NEW c, C!GetChannel(t, c) \/ C!Release(t) \/ C!Forget(t) PROVE ref'[s] = ref[s]
    BY <2>1 DEF C!GetChannel, C!Release, C!Forget, Typed, CP!RefTypeOK
  <2>2. ASSUME NEW c, Found(t, c) \/ Missed(t, c) PROVE ref'[s] = ref[s]
    BY <2>1, <2>2 DEF Found, Missed
  <2> QED
    BY <2>1, <2>2 DEF LuaStep, NewTask, Open, Close, C!CreateChannel, C!CloseChannel, Send, PackFails, PushMsg, ResumePeer,
       Recv, SelectGet, SelectTry, RawRecv, PopMsg, ReleaseChan, RecvYield, PlainYield, End, t
<1>3. \A v \in Workers \ {w} : wpc[v] = "running" => wpc'[v] = "running" /\ cur'[v] = cur[v]
  <2>1. ASSUME S!NotifyOne PROVE \A v \in Workers : wpc[v] = "running" => wpc'[v] = "running"
    BY <2>1 DEF S!NotifyOne, S!Idle, Typed, SP!TypeInv, SP!TypeOK
  <2>2. ASSUME NEW u, S!Spawn(w, u) \/ S!Wake(w, u)
        PROVE \A v \in Workers : wpc[v] = "running" => wpc'[v] = "running" /\ cur'[v] = cur[v]
    BY <2>1, <2>2 DEF S!Spawn, S!Wake, S!CreateTask, S!Resume
  <2>3. ASSUME S!Yield(w) \/ S!Finish(w)
        PROVE \A v \in Workers \ {w} : wpc[v] = "running" => wpc'[v] = "running" /\ cur'[v] = cur[v]
    BY <2>3 DEF S!Yield, S!Finish, Typed, SP!TypeInv, SP!TypeOK
  <2>4. CASE \/ \E c \in Channels : Open(w, c) \/ Close(w, c)
             \/ \E c \in Channels, m \in Msgs : Send(w, c, m)
    BY <2>4 DEF Open, Close, Send
  <2>5. CASE \/ PackFails(w) \/ PushMsg(w) \/ (\E list \in Recvs[t] : Recv(w, list)) \/ SelectGet(w)
             \/ SelectTry(w) \/ RawRecv(w) \/ PopMsg(w) \/ ReleaseChan(w)
    BY <2>5 DEF PackFails, PushMsg, Recv, SelectGet, SelectTry, RawRecv, PopMsg, ReleaseChan
  <2>6. CASE (\E u \in Tasks : NewTask(w, u)) \/ ResumePeer(w)
    BY <2>2, <2>6 DEF NewTask, ResumePeer
  <2>7. CASE RecvYield(w) \/ PlainYield(w) \/ End(w)
    BY <2>3, <2>7 DEF RecvYield, PlainYield, End
  <2> QED
    BY <2>4, <2>5, <2>6, <2>7 DEF LuaStep, t
<1> QED
  BY <1>1, <1>2, <1>3 DEF Running, t

\* The frame that takes the step.
LEMMA LuaStepFrame ==
  ASSUME Typed, CallTyped, NEW w \in Workers, wpc[w] = "running", LuaStep(w),
         NEW t \in Tasks, cur[w] = t,
         \A c \in Channels : object[c] # "none" => object'[c] # "none"
  PROVE  Framed(t)'
<1>0. t \in Tasks /\ Framed(t)
  BY RunningIsTask DEF Typed, CallTyped
<1>1. InRecv(t) => /\ Args(t) \subseteq Channels /\ Len(args[t]) \in Nat
                   /\ index[t] <= Len(args[t]) => args[t][index[t]] \in Channels
  BY <1>0, ArgsAreChannels DEF Framed
<1>s. UNCHANGED <<wpc, cur>> => Running(t)'
  BY DEF Running
<1>n. ASSUME S!NotifyOne \/ UNCHANGED wpc, UNCHANGED cur PROVE Running(t)'
  <2>1. wpc'[w] = "running"
    BY <1>n DEF S!NotifyOne, S!Idle, Typed, SP!TypeInv, SP!TypeOK
  <2> QED
    BY <1>n, <2>1 DEF Running
<1> USE DEF CallTyped, schedVars, callVars, Goto, Quiet
<1>i. ASSUME pc'[t] = "lua" PROVE ~InRecv(t)'
  BY <1>i DEF InRecv
<1>2. CASE \E u \in Tasks : NewTask(w, u)
  <2>1. Running(t)'
    BY <1>2, <1>n DEF NewTask, S!Spawn, S!CreateTask
  <2> QED
    BY <1>0, <1>2, <1>i, <2>1 DEF NewTask, At, Framed
<1>3. CASE \E c \in Channels : Open(w, c) \/ Close(w, c)
  BY <1>0, <1>3, <1>i, <1>s DEF Open, Close, At, Framed
<1>4. CASE \E c \in Channels, m \in Msgs : Send(w, c, m)
  BY <1>0, <1>4, <1>i, <1>s DEF Send, At, Framed, InRecv
<1>5. CASE PackFails(w)
  BY <1>0, <1>5, <1>i, <1>s DEF PackFails, At, Framed
<1>6. CASE PushMsg(w)
  <2>1. ref[t] \in Channels /\ blockings[ref[t]] \in Seq(Tasks)
    BY <1>0, <1>6 DEF PushMsg, C!Push, C!Holds, Typed, CP!RefTypeOK, CP!QueueTypeOK
  <2>2. CASE blockings[ref[t]] = <<>>
    BY <1>0, <1>6, <1>i, <1>s, <2>2 DEF PushMsg, Framed
  <2>3. CASE blockings[ref[t]] # <<>>
    <3>1. Head(blockings[ref[t]]) \in Tasks
      BY <2>1, <2>3
    <3>2. pc'[t] = "resume" /\ peer'[t] = Head(blockings[ref[t]]) /\ msg'[t] = NoMsg /\ Running(t)'
      BY <1>0, <1>6, <1>s, <2>3 DEF PushMsg
    <3> QED
      BY <3>1, <3>2 DEF Framed, InRecv
  <2> QED
    BY <2>2, <2>3
<1>7. CASE ResumePeer(w)
  <2>1. Running(t)'
    BY <1>7, <1>n DEF ResumePeer, S!Wake, S!Resume
  <2> QED
    BY <1>0, <1>7, <1>i, <2>1 DEF ResumePeer, At, Framed
<1>8. CASE \E list \in Recvs[t] : Recv(w, list)
  <2> PICK list \in Recvs[t] : Recv(w, list)
    BY <1>8
  <2>1. /\ pc'[t] = "select" /\ args'[t] = list /\ index'[t] = 1 /\ UNCHANGED <<msg, peer, object>> /\ Running(t)'
    BY <1>0, <1>s DEF Recv, chanVars
  <2>2. list \in Seq(Channels)
    BY <1>0, LtaskAssumption
  <2>3. \A c \in Args(t)' : object[c] # "none"
    BY <2>1 DEF Recv, Known, Args
  <2>4. 1 \in 1..Len(list) + 1
    BY <2>2
  <2> QED
    BY <1>0, <2>1, <2>3, <2>4 DEF Framed
<1>9. CASE SelectGet(w)
  <2>1. /\ pc[t] = "select" /\ index[t] <= Len(args[t]) /\ UNCHANGED <<args, msg, peer>> /\ InRecv(t)
        /\ Running(t)'
    BY <1>9, <1>s DEF SelectGet, At, InRecv
  <2>2. \/ pc'[t] = "try" /\ index'[t] = index[t] /\ ref'[t] = args[t][index[t]]
        \/ pc'[t] = "select" /\ index'[t] = index[t] + 1
    BY <1>0, <1>9, <2>1 DEF SelectGet, Found
  <2>3. Args(t)' = Args(t)
    BY <2>1 DEF Args
  <2> QED
    BY <1>0, <1>1, <2>1, <2>2, <2>3 DEF Framed, InRecv
<1>10. CASE SelectTry(w)
  <2>1. pc[t] = "try" /\ UNCHANGED <<args, msg, peer>> /\ InRecv(t) /\ Running(t)'
    BY <1>10, <1>s DEF SelectTry, At, InRecv
  <2>2. \/ pc'[t] = "select" /\ index'[t] = index[t] + 1
        \/ pc'[t] = "rawrecv" /\ index'[t] = index[t]
    BY <1>0, <1>10 DEF SelectTry
  <2>3. Args(t)' = Args(t)
    BY <2>1 DEF Args
  <2> QED
    BY <1>0, <1>1, <2>1, <2>2, <2>3 DEF Framed, InRecv
<1>11. CASE RawRecv(w)
  <2>1. pc[t] = "rawrecv" /\ UNCHANGED <<args, index, msg, peer>> /\ InRecv(t) /\ Running(t)'
    BY <1>11, <1>s DEF RawRecv, At, InRecv
  <2>2. (pc'[t] = "pop" /\ ref'[t] = args[t][index[t]]) \/ pc'[t] = "yield"
    BY <1>0, <1>11 DEF RawRecv, Found
  <2>3. Args(t)' = Args(t)
    BY <2>1 DEF Args
  <2> QED
    BY <1>0, <1>1, <2>1, <2>2, <2>3 DEF Framed, InRecv
<1>12. CASE PopMsg(w)
  <2>1. /\ pc[t] = "pop" /\ pc'[t] = "release" /\ UNCHANGED <<args, index, peer, ref>> /\ InRecv(t) /\ Running(t)'
    BY <1>0, <1>12, <1>s DEF PopMsg, At, InRecv, refVars
  <2>2. ref[t] \in Channels /\ data[ref[t]] \in Seq(Msgs)
    BY <1>0, <1>12 DEF PopMsg, C!Pop, C!Holds, Typed, CP!RefTypeOK, CP!QueueTypeOK
  <2>3. data[ref[t]] # <<>> => Head(data[ref[t]]) \in Msgs
    BY <2>2
  <2>4. msg'[t] \in Msgs \cup {NoMsg}
    BY <1>0, <1>12, <2>3 DEF PopMsg
  <2>5. Args(t)' = Args(t)
    BY <2>1 DEF Args
  <2> QED
    BY <1>0, <1>1, <2>1, <2>4, <2>5 DEF Framed, InRecv
<1>13. CASE ReleaseChan(w)
  <2>1. /\ pc[t] = "release" /\ pc'[t] \in {"yield", "lua"} /\ UNCHANGED <<args, index, peer>> /\ InRecv(t) /\ Running(t)'
        /\ msg'[t] = NoMsg
    BY <1>0, <1>13, <1>s DEF ReleaseChan, At, InRecv
  <2>2. Args(t)' = Args(t)
    BY <2>1 DEF Args
  <2> QED
    BY <1>0, <1>1, <2>1, <2>2 DEF Framed, InRecv
<1>14. CASE RecvYield(w)
  <2>1. /\ pc'[t] = "select" /\ index'[t] = 1 /\ UNCHANGED <<args, msg, peer, object>> /\ InRecv(t)
    BY <1>0, <1>14 DEF RecvYield, At, InRecv, chanVars
  <2>2. Args(t)' = Args(t)
    BY <2>1 DEF Args
  <2> QED
    BY <1>0, <1>1, <2>1, <2>2 DEF Framed, Parked, InRecv
<1>15. CASE PlainYield(w) \/ End(w)
  BY <1>0, <1>15, <1>i DEF PlainYield, End, At, Framed, Parked
<1> QED
  BY <1>2, <1>3, <1>4, <1>5, <1>6, <1>7, <1>8, <1>9, <1>10, <1>11, <1>12, <1>13, <1>14, <1>15 DEF LuaStep

LEMMA CallTypedStep ==
  ASSUME Typed, CallTyped, [Next]_vars
  PROVE  CallTyped'
<1>1. \A c \in Channels : object[c] # "none" => object'[c] # "none"
  BY StepOfChannel, ObjectsStay DEF Typed
<1>2. CASE SchedulerStep \/ UNCHANGED vars
  <2>1. /\ UNCHANGED callVars /\ UNCHANGED ref
        /\ \A t \in Tasks : Running(t) => Running(t)'
    BY <1>2, SchedulerLeavesRunning DEF SchedulerStep, vars, chanVars, schedVars, Typed, Running
  <2> QED
    BY <1>1, <2>1, FrameKept DEF CallTyped, callVars
<1>3. ASSUME NEW w \in Workers, wpc[w] = "running", LuaStep(w) PROVE CallTyped'
  <2>0. PICK t \in Tasks : cur[w] = t
    BY <1>3, RunningIsTask DEF Typed
  <2>1. \A s \in Tasks \ {t} : Framed(s)'
    BY <1>1, <1>3, <2>0, LuaStepIsLocal, FrameKept DEF CallTyped
  <2>2. Framed(t)'
    BY <1>1, <1>3, <2>0, LuaStepFrame
  <2>3. /\ DOMAIN pc' = DOMAIN pc /\ DOMAIN args' = DOMAIN args /\ DOMAIN index' = DOMAIN index
        /\ DOMAIN msg' = DOMAIN msg /\ DOMAIN peer' = DOMAIN peer
    BY <1>3 DEF callVars, Goto, Quiet, LuaStep, NewTask, Open, Close, Send, PackFails, PushMsg, ResumePeer, Recv,
       SelectGet, SelectTry, RawRecv, PopMsg, ReleaseChan, RecvYield, PlainYield, End
  <2>4. \A s \in Tasks : Framed(s)'
    BY <2>1, <2>2
  <2> QED
    BY <2>3, <2>4 DEF CallTyped
<1> QED
  BY <1>2, <1>3 DEF Next

LEMMA TypedStep == Typed /\ CallTyped /\ [Next]_vars => Typed' /\ CallTyped'
<1> SUFFICES ASSUME Typed, CallTyped, [Next]_vars PROVE Typed' /\ CallTyped'
  OBVIOUS
<1>1. [SP!Next]_(SP!vars) /\ [CP!Next]_(CP!chanVars)
  BY StepOfScheduler, StepOfChannel, SameScheduler, SameChannel
<1>2. SP!TypeInv'
  BY <1>1, Assumed, SP!TypeInvStep DEF SP!TypeInvStep, Typed
<1>3. CP!RefTypeOK' /\ CP!RefInv'
  BY <1>1, Assumed, CP!RefInvStep DEF CP!RefInvStep, Typed
<1>4. CP!QueueTypeOK'
  BY <1>1, Assumed, CP!QueueTypeStep DEF CP!QueueTypeStep, Typed
<1> QED
  BY <1>2, <1>3, <1>4, CallTypedStep DEF Typed

LEMMA TypedInit == Init => Typed /\ CallTyped /\ SP!PlaceInv
<1> SUFFICES ASSUME Init PROVE Typed /\ CallTyped /\ SP!PlaceInv
  OBVIOUS
<1>1. SP!Init /\ CP!Init
  BY DEF Init, S!Init, SP!Init, C!Init, CP!Init
<1>2. SP!TypeInv /\ SP!PlaceInv
  BY <1>1, Assumed, SP!TypeInvInit, SP!PlaceInvInit DEF SP!TypeInvInit, SP!PlaceInvInit
<1>3. CP!RefTypeOK /\ CP!RefInv
  BY <1>1, Assumed, CP!RefInvInit DEF CP!RefInvInit
<1>4. CP!QueueTypeOK
  BY <1>1 DEF CP!Init, CP!QueueTypeOK
<1>5. CallTyped
  BY DEF Init, CallTyped, Framed, InRecv, Parked
<1> QED
  BY <1>2, <1>3, <1>4, <1>5 DEF Typed

LEMMA PlacesStep ==
  Typed /\ CallTyped /\ SP!PlaceInv /\ [Next]_vars => SP!PlaceInv'
BY StepOfScheduler, SameScheduler, Assumed, SP!PlaceInvStep DEF SP!PlaceInvStep, Typed

LEMMA Sound == Spec => [](Typed /\ CallTyped /\ SP!PlaceInv)
BY TypedInit, TypedStep, PlacesStep, PTL DEF Spec

\* Whatever tasks do with channels, in whatever order close comes between, is
\* allowed by Channel.
THEOREM ChannelsImplemented == Spec => ChannelSpec
<1>1. Init => C!Init
  BY DEF Init
<1>2. Typed /\ CallTyped /\ [Next]_vars => [C!Next]_(C!chanVars)
  BY StepOfChannel
<1> QED
  BY <1>1, <1>2, Sound, PTL DEF Spec, ChannelSpec, C!Spec

\* Whatever tasks do to tasks and workers is allowed by Scheduler, step by step.
THEOREM SchedulerImplemented == Spec => S!Init /\ [][S!Next]_(S!vars)
<1>1. Init => S!Init
  BY DEF Init
<1>2. Typed /\ CallTyped /\ [Next]_vars => [S!Next]_(S!vars)
  BY StepOfScheduler
<1> QED
  BY <1>1, <1>2, Sound, PTL DEF Spec

\* So what is proved of the scheduler and of the channels holds of the API.
THEOREM Inherited == Spec => [](S!OnePlace /\ S!NoTaskLost /\ S!WakeupKept /\ C!NoUseAfterFree)
<1>1. SP!PlaceInv => S!OnePlace /\ S!NoTaskLost /\ S!WakeupKept
  BY DEF SP!PlaceInv, SP!OnePlace, S!OnePlace, SP!NoTaskLost, S!NoTaskLost, SP!WakeupKept, S!WakeupKept,
     SP!Distinct, S!Distinct, SP!Busy, S!Busy, SP!Queued, S!Queued, SP!Elems, S!Elems
<1>2. Typed => CP!NoUseAfterFree
  BY Assumed, CP!NothingDangles DEF CP!NothingDangles, Typed
<1>3. CP!NoUseAfterFree => C!NoUseAfterFree
  BY SameFew DEF CP!NoUseAfterFree, C!NoUseAfterFree
<1> QED
  BY <1>1, <1>2, <1>3, Sound, PTL

-----------------------------------------------------------------------------
(* No wakeup is lost.                                                      *)

Receives(t, c) == \E list \in Recvs[t] : c \in {list[i] : i \in DOMAIN list}

OnWorker(t, label) == \E w \in Workers : wpc[w] = label /\ cur[w] = t

\* The channels that t has been through in this turn of its loop: those before
\* the loop variable, and all once it has yielded, until it is resumed.
Passed(t) ==
  IF Running(t) THEN {args[t][i] : i \in 1..index[t] - 1}
  ELSE IF OnWorker(t, "returned") \/ t \in sleepingTasks THEN Args(t) ELSE {}

\* t is in recv on open channels that no other task receives on.
Alone(t) == InRecv(t) /\ Args(t) \subseteq channels /\ \A c \in Args(t) : Sole(c)

\* Somebody is about to resume t, or has while it was awake.
Told(t) == BeingResumed(t) \/ (t \notin sleepingTasks /\ stayAwake[t])

\* A channel that select returned has a message until t takes it.
HasMessage(t) ==
  /\ pc[t] \in {"rawrecv", "pop"} => data[args[t][index[t]]] # <<>>
  /\ pc[t] = "release" => msg[t] # NoMsg
  /\ pc[t] # "yield"

\* A channel that t passed is empty and remembers a task, or t has been told.
Watched(t) ==
  pc[t] \in {"select", "try"} =>
    \A c \in Passed(t) : (data[c] = <<>> /\ blockings[c] # <<>>) \/ Told(t)

OwnBlocked == \A c \in Channels : \A i \in DOMAIN blockings[c] : Receives(blockings[c][i], c)

WaitInv == OwnBlocked /\ \A t \in Tasks : Alone(t) => HasMessage(t) /\ Watched(t)

Base == Typed /\ CallTyped /\ SP!PlaceInv

LEMMA OneReceiver ==
  ASSUME NEW c, Sole(c), NEW s \in Tasks, NEW t \in Tasks, Receives(s, c), Receives(t, c)
  PROVE  s = t
<1> DEFINE R == {u \in Tasks : Receives(u, c)}
<1>1. Cardinality(R) <= 1
  BY DEF Sole, Receives
<1>2. IsFiniteSet(R) /\ Cardinality(R) \in Nat
  BY LtaskAssumption, FS_Subset, FS_CardinalityType
<1>3. R # {}
  OBVIOUS
<1>4. Cardinality(R) = 1
  BY <1>1, <1>2, <1>3, FS_EmptySet
<1>5. PICK x : R = {x}
  BY <1>2, <1>4, FS_Singleton
<1> QED
  BY <1>5

LEMMA ArgsAreReceived ==
  ASSUME NEW t \in Tasks, InRecv(t), Framed(t)
  PROVE  /\ \A c \in Args(t) : Receives(t, c) /\ c \in Channels /\ object[c] # "none"
         /\ \A i \in 1..index[t] - 1 : args[t][i] \in Args(t)
         /\ index[t] <= Len(args[t]) => args[t][index[t]] \in Args(t)
         /\ Passed(t) \subseteq Args(t)
<1>1. args[t] \in Recvs[t] /\ index[t] \in 1..Len(args[t]) + 1
  BY DEF Framed
<1>2. Len(args[t]) \in Nat /\ \A i \in 1..Len(args[t]) : args[t][i] \in Args(t)
  BY <1>1, ArgsAreChannels
<1>3. \A i \in 1..index[t] - 1 : args[t][i] \in Args(t)
  BY <1>1, <1>2
<1>4. \A c \in Args(t) : Receives(t, c) /\ c \in Channels /\ object[c] # "none"
  BY <1>1, ArgsAreChannels DEF Receives, Args, Framed
<1> QED
  BY <1>1, <1>2, <1>3, <1>4 DEF Passed

\* Where a task may be, by SchedulerProofs.
LEMMA Places ==
  ASSUME Base
  PROVE  /\ \A v, w \in Workers :
               /\ wpc[v] \in {"popped", "running", "returned"}
               /\ wpc[w] \in {"popped", "running", "returned"}
               /\ cur[v] = cur[w]
               => v = w
         /\ \A w \in Workers : wpc[w] \in {"popped", "running", "returned"}
               => cur[w] \in tasks /\ cur[w] \notin sleepingTasks
         /\ sleepingTasks \subseteq tasks
         /\ \A t \in tasks : t \in Tasks /\ state[t] # "absent"
BY DEF Base, Typed, SP!TypeInv, SP!TypeOK, SP!PlaceInv, SP!OnePlace, SP!NoTaskLost, SP!Busy

\* An open channel was open since it was created, and never lost more references.
LEMMA ChannelsBefore ==
  ASSUME Base, [Next]_vars, NEW c \in Channels
  PROVE  /\ object[c] # "none" /\ c \in channels' => c \in channels
         /\ C!Few(c)' => C!Few(c)
<1>1. [CP!Next]_(CP!chanVars)
  BY StepOfChannel, SameChannel DEF Base
<1> USE DEF Base, Typed, CP!RefTypeOK
<1>2. lost[c] \in Nat /\ lost'[c] \in Nat /\ lost[c] <= lost'[c]
  BY <1>1 DEF CP!Next, CP!UseRefs, CP!CreateChannel, CP!CloseChannel, CP!GetChannel, CP!Release, CP!Forget,
     CP!refVars, CP!chanVars
<1>3. object[c] # "none" /\ c \in channels' => c \in channels
  BY <1>1 DEF CP!Next, CP!UseRefs, CP!CreateChannel, CP!CloseChannel, CP!GetChannel, CP!Release, CP!Forget,
     CP!refVars, CP!chanVars
<1>4. Cardinality(Tasks) \in Nat /\ C!Cardinality(Tasks) = Cardinality(Tasks)
  BY LtaskAssumption, FS_CardinalityType DEF C!Cardinality, Cardinality
<1> QED
  BY <1>2, <1>3, <1>4, LtaskAssumption DEF C!Few

\* A task that ends up alone in a call of recv it was in before was alone.
LEMMA AloneBefore ==
  ASSUME Base, [Next]_vars, NEW t \in Tasks, Alone(t)', InRecv(t), args'[t] = args[t]
  PROVE  Alone(t)
<1>1. Args(t)' = Args(t)
  BY DEF Args
<1>2. \A c \in Args(t) : c \in Channels /\ object[c] # "none"
  BY ArgsAreReceived DEF Base, CallTyped
<1>3. ASSUME NEW c \in Channels, Sole(c)' PROVE Sole(c)
  BY <1>3, ChannelsBefore DEF Sole
<1> QED
  BY <1>1, <1>2, <1>3, ChannelsBefore DEF Alone

\* x is the entry of a blocked queue of c.
Blocked(x, c) == \E i \in DOMAIN blockings[c] : x = blockings[c][i]

\* What gets into a blocked queue is a task that runs and receives on the channel.
LEMMA EntriesStep ==
  ASSUME Base, [Next]_vars, NEW c \in Channels, NEW x, Blocked(x, c)', ~Blocked(x, c)
  PROVE  x \in Tasks /\ x \in tasks /\ Running(x) /\ Receives(x, c)
<1> USE DEF Base, Typed, CP!RefTypeOK, CP!QueueTypeOK
<1>0. blockings[c] \in Seq(Tasks)
  OBVIOUS
<1>1. ASSUME NEW w \in Workers, PushMsg(w) PROVE FALSE
  <2>1. blockings'[c] = blockings[c] \/ (blockings[c] # <<>> /\ blockings'[c] = Tail(blockings[c]))
    BY <1>1 DEF PushMsg, C!Push, C!Holds
  <2>2. ASSUME blockings[c] # <<>>, NEW i \in DOMAIN Tail(blockings[c])
        PROVE  i + 1 \in DOMAIN blockings[c] /\ Tail(blockings[c])[i] = blockings[c][i + 1]
    <3> DEFINE q == blockings[c]
    <3>1. q \in Seq(Tasks) /\ q # <<>>
      BY <1>0, <2>2
    <3> HIDE DEF q
    <3>2. \A k \in DOMAIN Tail(q) : k + 1 \in DOMAIN q /\ Tail(q)[k] = q[k + 1]
      BY <3>1
    <3> QED
      BY <2>2, <3>2 DEF q
  <2>3. CASE blockings'[c] = blockings[c]
    BY <2>3 DEF Blocked
  <2>4. CASE blockings[c] # <<>> /\ blockings'[c] = Tail(blockings[c])
    BY <2>2, <2>4 DEF Blocked
  <2> QED
    BY <2>1, <2>3, <2>4
<1>2. ASSUME NEW w \in Workers, wpc[w] = "running", SelectTry(w)
      PROVE  x \in Tasks /\ x \in tasks /\ Running(x) /\ Receives(x, c)
  <2> PICK t \in Tasks : cur[w] = t
    BY <1>2, RunningIsTask
  <2>0. Framed(t) /\ pc[t] = "try" /\ InRecv(t) /\ t \in tasks /\ Running(t)
    BY <1>2, Places DEF SelectTry, At, CallTyped, InRecv, Running
  <2>1. PICK d \in Channels : ref[t] = d
    BY <1>2 DEF SelectTry, C!DoSelect, C!Holds
  <2>2. Receives(t, d)
    BY <2>0, <2>1, ArgsAreReceived DEF Framed
  <2>3. blockings'[c] = blockings[c] \/ (c = d /\ blockings'[c] = Append(blockings[c], t))
    BY <1>2, <2>1 DEF SelectTry, C!DoSelect
  <2>4. ASSUME NEW i \in DOMAIN Append(blockings[c], t)
        PROVE  Append(blockings[c], t)[i] = t \/ (i \in DOMAIN blockings[c] /\ Append(blockings[c], t)[i] = blockings[c][i])
    BY <1>0, <2>4
  <2>5. CASE blockings'[c] = blockings[c]
    BY <2>5 DEF Blocked
  <2>6. CASE c = d /\ blockings'[c] = Append(blockings[c], t)
    BY <2>0, <2>2, <2>4, <2>6 DEF Blocked
  <2> QED
    BY <2>3, <2>5, <2>6
<1>3. CASE SchedulerStep \/ UNCHANGED vars
  BY <1>3 DEF SchedulerStep, vars, chanVars, Blocked
<1>4. ASSUME NEW w \in Workers, wpc[w] = "running", LuaStep(w), ~PushMsg(w), ~SelectTry(w) PROVE UNCHANGED blockings
  BY <1>4 DEF LuaStep, NewTask, Open, Close, C!CreateChannel, C!CloseChannel, Send, PackFails, ResumePeer, Recv, SelectGet,
     RawRecv, PopMsg, C!Pop, ReleaseChan, RecvYield, PlainYield, End, chanVars
<1> QED
  BY <1>1, <1>2, <1>3, <1>4 DEF Next, Blocked

LEMMA OwnBlockedStep ==
  ASSUME Base, OwnBlocked, [Next]_vars
  PROVE  OwnBlocked'
BY EntriesStep DEF OwnBlocked, Blocked

\* What another task's step does to the queues of a channel t is alone on.
LEMMA OthersPush ==
  ASSUME Base, OwnBlocked, NEW w \in Workers, wpc[w] = "running", LuaStep(w),
         NEW s \in Tasks, cur[w] = s, NEW t \in Tasks, s # t, Alone(t), NEW c \in Args(t)
  PROVE  /\ data[c] # <<>> => data'[c] # <<>>
         /\ data[c] = <<>> /\ blockings[c] # <<>>
            => (data'[c] = <<>> /\ blockings'[c] # <<>>) \/ (pc'[s] = "resume" /\ peer'[s] = t)
<1> USE DEF Base, Typed, CP!RefTypeOK, CP!QueueTypeOK
<1>0. c \in Channels /\ Receives(t, c) /\ Sole(c)
  BY ArgsAreReceived DEF CallTyped, Alone
<1>1. CASE PushMsg(w)
  <2>1. PICK d \in Channels : ref[s] = d
    BY <1>1 DEF PushMsg, C!Push, C!Holds
  <2>2. /\ data' = [data EXCEPT ![d] = Append(@, msg[s])]
        /\ blockings' = [blockings EXCEPT ![d] = IF @ = <<>> THEN @ ELSE Tail(@)]
    BY <1>1, <2>1 DEF PushMsg, C!Push
  <2>3. CASE c # d
    BY <1>0, <2>2, <2>3
  <2>4. CASE c = d
    <3>1. data'[c] = Append(data[c], msg[s]) /\ data[c] \in Seq(Msgs) /\ blockings[c] \in Seq(Tasks)
      BY <1>0, <2>2, <2>4
    <3>2. data'[c] # <<>>
      <4>1. msg[s] \in Msgs
        BY <1>1 DEF PushMsg, At, CallTyped, Framed
      <4>2. Len(data'[c]) = Len(data[c]) + 1 /\ Len(data[c]) \in Nat
        BY <3>1, <4>1
      <4> QED
        BY <4>2
    <3>3. ASSUME blockings[c] # <<>> PROVE pc'[s] = "resume" /\ peer'[s] = t
      <4>1. pc'[s] = "resume" /\ peer'[s] = Head(blockings[c])
        BY <1>1, <2>1, <2>4, <3>3 DEF PushMsg, Goto, CallTyped
      <4>2. 1 \in DOMAIN blockings[c] /\ Head(blockings[c]) = blockings[c][1] /\ blockings[c][1] \in Tasks
        BY <3>1, <3>3
      <4>3. Receives(blockings[c][1], c)
        BY <1>0, <4>2 DEF OwnBlocked
      <4> QED
        BY <1>0, <4>1, <4>2, <4>3, OneReceiver
    <3> QED
      BY <3>2, <3>3
  <2> QED
    BY <2>3, <2>4
<1>2. CASE SelectTry(w) \/ PopMsg(w)
  <2>1. PICK d \in Channels : ref[s] = d
    BY <1>2 DEF SelectTry, C!DoSelect, PopMsg, C!Pop, C!Holds
  <2>2. Framed(s) /\ pc[s] \in {"try", "pop"} /\ InRecv(s)
    BY <1>2 DEF SelectTry, PopMsg, At, CallTyped, InRecv
  <2>3. Receives(s, d)
    BY <2>1, <2>2, ArgsAreReceived DEF Framed
  <2>4. c # d
    BY <1>0, <2>3, OneReceiver
  <2> QED
    BY <1>0, <1>2, <2>1, <2>4 DEF SelectTry, C!DoSelect, PopMsg, C!Pop
<1>3. ASSUME ~PushMsg(w), ~SelectTry(w), ~PopMsg(w) PROVE UNCHANGED <<data, blockings>>
  BY <1>3 DEF LuaStep, NewTask, Open, Close, C!CreateChannel, C!CloseChannel, Send, PackFails, ResumePeer, Recv, SelectGet,
     RawRecv, ReleaseChan, RecvYield, PlainYield, End, chanVars
<1> QED
  BY <1>1, <1>2, <1>3

Awake(t) == t \notin sleepingTasks /\ stayAwake[t]

\* t did not run and has passed nothing yet in its next turn.
Restarts(t) == Passed(t)' = {} /\ ~Running(t)

\* t has passed no more channels than before, and has not been put to sleep nor
\* its flag cleared; or it starts its turn again.
Onward(t) == Restarts(t) \/ (Passed(t)' \subseteq Passed(t) /\ (Awake(t) => Awake(t)'))

LEMMA SameTurn ==
  ASSUME NEW t \in Tasks, args'[t] = args[t], index'[t] = index[t],
         Running(t)' <=> Running(t),
         OnWorker(t, "returned")' \/ t \in sleepingTasks'
           => OnWorker(t, "returned") \/ t \in sleepingTasks
  PROVE  Passed(t)' \subseteq Passed(t)
<1>1. Args(t)' = Args(t)
  BY DEF Args
<1>2. CASE Running(t)
  BY <1>2 DEF Passed
<1>3. CASE ~Running(t)
  BY <1>1, <1>3 DEF Passed
<1> QED
  BY <1>2, <1>3

\* A task that is nowhere, or queued, has passed nothing.
LEMMA NoTurn ==
  ASSUME NEW t \in Tasks, ~Running(t), ~OnWorker(t, "returned"), t \notin sleepingTasks
  PROVE  Passed(t) = {}
BY DEF Passed

\* Notifications move workers that hold no task.
LEMMA NotifyMoves ==
  ASSUME SP!TypeInv, NEW t \in Tasks, UNCHANGED cur,
         \A v \in Workers : wpc'[v] = wpc[v] \/ (wpc[v] = "waiting" /\ wpc'[v] = "notified")
  PROVE  (Running(t)' <=> Running(t)) /\ (OnWorker(t, "returned")' <=> OnWorker(t, "returned"))
BY DEF Running, OnWorker

LEMMA NotifyOneMoves ==
  ASSUME SP!TypeInv, S!NotifyOne
  PROVE  \A v \in Workers : wpc'[v] = wpc[v] \/ (wpc[v] = "waiting" /\ wpc'[v] = "notified")
BY DEF S!NotifyOne, S!Idle, SP!TypeInv, SP!TypeOK

LEMMA CreateTaskOnward ==
  ASSUME Base, NEW t \in Tasks, NEW u \in Tasks, S!CreateTask(u),
         args'[t] = args[t], index'[t] = index[t]
  PROVE  Onward(t)
<1>1. Running(t)' <=> Running(t)
  BY NotifyMoves, NotifyOneMoves DEF S!CreateTask, Base, Typed
<1>2. OnWorker(t, "returned")' <=> OnWorker(t, "returned")
  BY NotifyMoves, NotifyOneMoves DEF S!CreateTask, Base, Typed
<1>3. CASE t = u
  <2>1. t \notin tasks /\ sleepingTasks' = sleepingTasks
    BY <1>3, Places DEF S!CreateTask
  <2>2. ~Running(t) /\ ~OnWorker(t, "returned") /\ t \notin sleepingTasks
    BY <2>1, Places DEF Running, OnWorker
  <2> QED
    BY <1>1, <1>2, <2>1, <2>2 DEF Onward, Restarts, Passed
<1>4. CASE t # u
  <2>1. sleepingTasks' = sleepingTasks /\ stayAwake'[t] = stayAwake[t]
    BY <1>4 DEF S!CreateTask, Base, Typed, SP!TypeInv, SP!TypeOK
  <2> QED
    BY <1>1, <1>2, <2>1, SameTurn DEF Onward, Awake
<1> QED
  BY <1>3, <1>4

LEMMA SchedulerOnward ==
  ASSUME Base, NEW t \in Tasks, InRecv(t), SchedulerStep
  PROVE  Onward(t)
<1> USE DEF Base, Typed, SP!TypeInv, SP!TypeOK, S!taskVars
<1>0. args' = args /\ index' = index
  BY DEF SchedulerStep, callVars
<1>1. ASSUME NEW w \in Workers, NEW q, S!Loop(w, q), wpc[w] # "running", UNCHANGED stayAwake,
             t \in sleepingTasks' => t \in sleepingTasks \/ (wpc[w] = "returned" /\ cur[w] = t /\ ~stayAwake[t])
      PROVE  Onward(t)
  <2>1. /\ \A v \in Workers \ {w} : wpc'[v] = wpc[v] /\ cur'[v] = cur[v]
        /\ wpc'[w] \notin {"running", "returned"}
    BY <1>1 DEF S!Loop
  <2>2. Running(t)' <=> Running(t)
    BY <1>1, <2>1 DEF Running
  <2>3. OnWorker(t, "returned")' => OnWorker(t, "returned")
    BY <2>1 DEF OnWorker
  <2>4. t \in sleepingTasks' => t \in sleepingTasks \/ OnWorker(t, "returned")
    BY <1>1 DEF OnWorker
  <2>5. Passed(t)' \subseteq Passed(t)
    BY <1>0, <2>2, <2>3, <2>4, SameTurn
  <2> QED
    BY <1>1, <2>5 DEF Onward, Awake
<1>2. ASSUME NEW w \in Workers, S!Enter(w) PROVE Onward(t)
  BY <1>1, <1>2 DEF S!Enter, S!Arriving
<1>3. ASSUME NEW w \in Workers, S!Settle(w) PROVE Onward(t)
  BY <1>1, <1>3 DEF S!Settle
<1>4. ASSUME NEW w \in Workers, S!BeginRun(w) PROVE Onward(t)
  <2>1. /\ wpc' = [wpc EXCEPT ![w] = "running"] /\ wpc[w] = "popped" /\ UNCHANGED <<cur, sleepingTasks>>
        /\ stayAwake' = [stayAwake EXCEPT ![cur[w]] = FALSE]
    BY <1>4 DEF S!BeginRun
  <2>2. CASE cur[w] = t
    <3>1. ~Running(t)
      BY <2>1, <2>2, Places DEF Running
    <3>2. index[t] = 1
      BY <3>1 DEF CallTyped, Framed, Parked, InRecv
    <3>3. Running(t)'
      BY <2>1, <2>2 DEF Running
    <3>4. index'[t] = 1 /\ 1..1 - 1 = {}
      BY <1>0, <3>2
    <3> QED
      BY <3>1, <3>3, <3>4 DEF Onward, Restarts, Passed
  <2>3. CASE cur[w] # t
    <3>1. (Running(t)' <=> Running(t)) /\ (OnWorker(t, "returned")' <=> OnWorker(t, "returned"))
      BY <2>1, <2>3 DEF Running, OnWorker
    <3>2. stayAwake'[t] = stayAwake[t] /\ sleepingTasks' = sleepingTasks
      BY <2>1, <2>3
    <3> QED
      BY <1>0, <3>1, <3>2, SameTurn DEF Onward, Awake
  <2> QED
    BY <2>2, <2>3
<1>5. ASSUME \A v \in Workers : wpc'[v] = wpc[v] \/ (wpc[v] = "waiting" /\ wpc'[v] = "notified"),
             UNCHANGED <<cur, sleepingTasks, stayAwake>>
      PROVE  Onward(t)
  BY <1>0, <1>5, NotifyMoves, SameTurn DEF Onward, Awake
<1>6. ASSUME NEW w \in Workers, S!SpuriousWakeup(w) PROVE Onward(t)
  BY <1>5, <1>6 DEF S!SpuriousWakeup
<1>7. ASSUME S!StartFails \/ S!CallExit \/ S!Join PROVE Onward(t)
  BY <1>5, <1>7 DEF S!StartFails, S!CallExit, S!Exit, S!Join, S!Idle
<1>8. ASSUME NEW u \in Tasks, S!Start(u) PROVE Onward(t)
  BY <1>0, <1>8, CreateTaskOnward DEF S!Start
<1> QED
  BY <1>2, <1>3, <1>4, <1>6, <1>7, <1>8 DEF SchedulerStep, Owner, WorkerLoop

LEMMA SchedulerWatches ==
  ASSUME Base, WaitInv, SchedulerStep \/ UNCHANGED vars, NEW t \in Tasks, Alone(t)'
  PROVE  HasMessage(t)' /\ Watched(t)'
<1>1. UNCHANGED <<chanVars, callVars>>
  BY DEF SchedulerStep, vars
<1>2. InRecv(t)
  BY <1>1 DEF Alone, InRecv, callVars
<1>3. Alone(t)
  BY <1>1, <1>2, AloneBefore DEF callVars, Next
<1>4. HasMessage(t) /\ Watched(t)
  BY <1>3 DEF WaitInv
<1>5. Onward(t)
  <2>1. CASE SchedulerStep
    BY <1>2, <2>1, SchedulerOnward
  <2>2. CASE UNCHANGED vars
    BY <2>2 DEF Onward, Awake, Passed, Running, OnWorker, Args, vars, schedVars, callVars
  <2> QED
    BY <2>1, <2>2
<1>6. BeingResumed(t)' <=> BeingResumed(t)
  BY <1>1 DEF BeingResumed, callVars
<1>7. HasMessage(t)'
  BY <1>1, <1>4 DEF HasMessage, chanVars, callVars
<1>8. Watched(t)'
  BY <1>1, <1>4, <1>5, <1>6 DEF Watched, Onward, Restarts, Told, Awake, chanVars, callVars
<1> QED
  BY <1>7, <1>8

LEMMA WakeOnward ==
  ASSUME Base, NEW t \in Tasks, NEW u \in Tasks, NEW w \in Workers, S!Wake(w, u),
         args'[t] = args[t], index'[t] = index[t]
  PROVE  Onward(t) /\ (u = t => Restarts(t) \/ Awake(t)')
<1> USE DEF Base, Typed, SP!TypeInv, SP!TypeOK
<1>1. S!Resume(u)
  BY DEF S!Wake
<1>2. (Running(t)' <=> Running(t)) /\ (OnWorker(t, "returned")' <=> OnWorker(t, "returned"))
  BY <1>1, NotifyMoves, NotifyOneMoves DEF S!Resume
<1>3. sleepingTasks' = sleepingTasks \ {u}
  BY <1>1 DEF S!Resume
<1>4. Passed(t)' \subseteq Passed(t)
  BY <1>2, <1>3, SameTurn
<1>5. Awake(t) => Awake(t)'
  BY <1>1 DEF S!Resume, Awake
<1>6. ASSUME u = t, ~Restarts(t) PROVE Awake(t)'
  <2>1. t \notin sleepingTasks'
    BY <1>3, <1>6
  <2>2. Running(t)' \/ OnWorker(t, "returned")'
    BY <1>2, <1>6, <2>1 DEF Passed, Restarts
  <2>3. t \in tasks /\ t \notin sleepingTasks
    BY <1>2, <2>2, Places DEF Running, OnWorker
  <2>4. stayAwake'[t] = TRUE
    BY <1>1, <1>6, <2>3 DEF S!Resume
  <2> QED
    BY <2>1, <2>4 DEF Awake
<1> QED
  BY <1>4, <1>5, <1>6 DEF Onward

\* What the Lua code of another task does to t's turn ...
LEMMA OthersOnward ==
  ASSUME Base, NEW w \in Workers, wpc[w] = "running", LuaStep(w),
         NEW s \in Tasks, cur[w] = s, NEW t \in Tasks, s # t
  PROVE  Onward(t)
<1> USE DEF Base, Typed, SP!TypeInv, SP!TypeOK
<1>0. args'[t] = args[t] /\ index'[t] = index[t]
  BY LuaStepIsLocal
<1>1. CASE \E u \in Tasks : NewTask(w, u)
  BY <1>0, <1>1, CreateTaskOnward DEF NewTask, S!Spawn
<1>2. CASE ResumePeer(w)
  <2>1. peer[s] \in Tasks
    BY <1>2 DEF ResumePeer, At, CallTyped, Framed
  <2> QED
    BY <1>0, <1>2, <2>1, WakeOnward DEF ResumePeer
<1>3. ASSUME S!Yield(w) \/ S!Finish(w) PROVE Onward(t)
  <2>1. wpc' = [wpc EXCEPT ![w] = "returned"] /\ UNCHANGED <<cur, sleepingTasks, stayAwake>>
    BY <1>3 DEF S!Yield, S!Finish
  <2>2. (Running(t)' <=> Running(t)) /\ (OnWorker(t, "returned")' <=> OnWorker(t, "returned"))
    BY <2>1 DEF Running, OnWorker
  <2> QED
    BY <1>0, <2>1, <2>2, SameTurn DEF Onward, Awake
<1>4. CASE RecvYield(w) \/ PlainYield(w) \/ End(w)
  BY <1>3, <1>4 DEF RecvYield, PlainYield, End
<1>5. ASSUME UNCHANGED schedVars PROVE Onward(t)
  BY <1>0, <1>5, SameTurn DEF Onward, Awake, schedVars, Running, OnWorker
<1>6. CASE \/ \E c \in Channels : Open(w, c) \/ Close(w, c)
           \/ \E c \in Channels, m \in Msgs : Send(w, c, m)
           \/ PackFails(w) \/ PushMsg(w) \/ (\E list \in Recvs[s] : Recv(w, list)) \/ SelectGet(w)
           \/ SelectTry(w) \/ RawRecv(w) \/ PopMsg(w) \/ ReleaseChan(w)
  BY <1>5, <1>6 DEF Open, Close, Send, PackFails, PushMsg, Recv, SelectGet, SelectTry, RawRecv, PopMsg, ReleaseChan
<1> QED
  BY <1>1, <1>2, <1>4, <1>6 DEF LuaStep

\* ... and to what t has been told.
LEMMA OthersTell ==
  ASSUME Base, NEW w \in Workers, wpc[w] = "running", LuaStep(w),
         NEW s \in Tasks, cur[w] = s, NEW t \in Tasks, s # t, Told(t)
  PROVE  Restarts(t) \/ Told(t)'
<1>1. CASE Awake(t)
  BY <1>1, OthersOnward DEF Onward, Told, Awake
<1>2. ASSUME NEW u \in Tasks, u # s, pc[u] = "resume", peer[u] = t PROVE BeingResumed(t)'
  BY <1>2, LuaStepIsLocal DEF Base, BeingResumed
<1>3. CASE pc[s] = "resume" /\ peer[s] = t
  <2>1. ResumePeer(w)
    BY <1>3 DEF LuaStep, NewTask, Open, Close, Send, PackFails, PushMsg, Recv, SelectGet, SelectTry, RawRecv, PopMsg,
       ReleaseChan, RecvYield, PlainYield, End, At
  <2>2. args'[t] = args[t] /\ index'[t] = index[t]
    BY LuaStepIsLocal DEF Base
  <2> QED
    BY <1>3, <2>1, <2>2, WakeOnward DEF ResumePeer, Told, Awake
<1> QED
  BY <1>1, <1>2, <1>3 DEF Told, BeingResumed, Awake

LEMMA OthersWatched ==
  ASSUME Base, WaitInv, NEW w \in Workers, wpc[w] = "running", LuaStep(w),
         NEW s \in Tasks, cur[w] = s, NEW t \in Tasks, s # t, Alone(t)'
  PROVE  HasMessage(t)' /\ Watched(t)'
<1>1. /\ pc'[t] = pc[t] /\ args'[t] = args[t] /\ index'[t] = index[t] /\ msg'[t] = msg[t]
  BY LuaStepIsLocal DEF Base
<1>2. InRecv(t)
  BY <1>1 DEF Alone, InRecv
<1>3. Alone(t)
  BY <1>1, <1>2, AloneBefore DEF Next
<1>4. HasMessage(t) /\ Watched(t) /\ OwnBlocked
  BY <1>3 DEF WaitInv
<1>5. Framed(t) /\ Passed(t) \subseteq Args(t)
  BY <1>2, ArgsAreReceived DEF Base, CallTyped
<1>6. HasMessage(t)'
  <2>1. pc[t] \in {"rawrecv", "pop"} => args[t][index[t]] \in Args(t)
    BY <1>2, <1>5, ArgsAreReceived DEF Framed
  <2>2. \A c \in Args(t) : data[c] # <<>> => data'[c] # <<>>
    BY <1>3, <1>4, OthersPush
  <2> QED
    BY <1>1, <1>4, <2>1, <2>2 DEF HasMessage
<1>7. Watched(t)'
  <2> SUFFICES ASSUME pc[t] \in {"select", "try"}, NEW c \in Passed(t)'
               PROVE  (data'[c] = <<>> /\ blockings'[c] # <<>>) \/ Told(t)'
    BY <1>1 DEF Watched
  <2>1. c \in Passed(t) /\ c \in Args(t)
    BY <1>5, OthersOnward DEF Onward, Restarts
  <2>2. CASE Told(t)
    BY <2>2, OthersTell DEF Restarts
  <2>3. CASE data[c] = <<>> /\ blockings[c] # <<>>
    BY <1>3, <1>4, <2>1, <2>3, OthersPush DEF Told, BeingResumed
  <2> QED
    BY <1>4, <2>1, <2>2, <2>3 DEF Watched
<1> QED
  BY <1>6, <1>7

\* The lookup of an open channel succeeds.
LEMMA OpenIsFound ==
  ASSUME Base, NEW t \in Tasks, NEW c \in channels', C!Few(c), Missed(t, c)
  PROVE  FALSE
<1>1. c \in channels
  BY DEF Missed, C!GetChannel, refVars
<1>2. CP!Few(c)
  BY SameFew
<1>3. CP!Up(counter[c]) # 1
  BY <1>1, <1>2, Assumed, CP!NeverRevived DEF CP!NeverRevived, Base, Typed
<1>4. C!GetChannel(t, c) /\ ref'[t] = NoChannel
  BY <1>1 DEF Missed
<1>5. ref' = [ref EXCEPT ![t] = c]
  BY <1>3, <1>4 DEF C!GetChannel, C!Up, CP!Up
<1>6. c \in Channels /\ t \in DOMAIN ref
  BY <1>1 DEF Base, Typed, CP!RefTypeOK
<1> QED
  BY <1>4, <1>5, <1>6, LtaskAssumption

LEMMA OwnWatched ==
  ASSUME Base, WaitInv, NEW w \in Workers, wpc[w] = "running", LuaStep(w),
         NEW t \in Tasks, cur[w] = t, Alone(t)'
  PROVE  HasMessage(t)' /\ Watched(t)'
<1> USE DEF Base, Typed, CP!RefTypeOK, CP!QueueTypeOK
<1>0. Framed(t) /\ Running(t) /\ [Next]_vars /\ DOMAIN pc = Tasks
  BY DEF CallTyped, Running, Next
<1>r. UNCHANGED schedVars => Running(t)' /\ (Awake(t)' <=> Awake(t))
  BY <1>0 DEF Running, Awake, schedVars
<1>a. InRecv(t) /\ args'[t] = args[t] => /\ Alone(t) /\ HasMessage(t) /\ Watched(t) /\ Args(t)' = Args(t)
                                       /\ \A c \in Args(t) : c \in channels' /\ c \in Channels /\ Sole(c)
  <2> SUFFICES ASSUME InRecv(t), args'[t] = args[t]
               PROVE  /\ Alone(t) /\ HasMessage(t) /\ Watched(t) /\ Args(t)' = Args(t)
                      /\ \A c \in Args(t) : c \in channels' /\ c \in Channels /\ Sole(c)
    OBVIOUS
  <2>1. Alone(t)
    BY <1>0, AloneBefore
  <2>2. Args(t)' = Args(t)
    BY DEF Args
  <2> QED
    BY <1>0, <2>1, <2>2, ArgsAreReceived DEF Alone, WaitInv
<1>p. InRecv(t) => Passed(t) = {args[t][i] : i \in 1..index[t] - 1} /\ index[t] \in Nat
  BY <1>0 DEF Passed, Framed
<1>q. Running(t)' => Passed(t)' = {args'[t][i] : i \in 1..index'[t] - 1}
  BY DEF Passed
<1>t. ASSUME UNCHANGED <<pc, peer>> \/ (pc[t] # "resume" /\ (\E l : Goto(w, l) /\ l # "resume") /\ UNCHANGED peer)
      PROVE  BeingResumed(t)' <=> BeingResumed(t)
  BY <1>0, <1>t DEF BeingResumed, Goto
<1>1. CASE \/ \E u \in Tasks : NewTask(w, u)
           \/ \E c \in Channels : Open(w, c) \/ Close(w, c)
           \/ \E c \in Channels, m \in Msgs : Send(w, c, m)
           \/ PackFails(w) \/ PushMsg(w) \/ ResumePeer(w) \/ PlainYield(w) \/ End(w)
  <2>1. ~InRecv(t)'
    BY <1>0, <1>1 DEF NewTask, Open, Close, Send, PackFails, PushMsg, ResumePeer, PlainYield, End, At, Goto, InRecv, callVars
  <2> QED
    BY <2>1 DEF Alone
<1>2. CASE \E list \in Recvs[t] : Recv(w, list)
  <2>1. pc'[t] = "select" /\ index'[t] = 1 /\ UNCHANGED schedVars
    BY <1>0, <1>2 DEF Recv, Goto, CallTyped
  <2>2. Passed(t)' = {}
    <3>1. 1..1 - 1 = {}
      OBVIOUS
    <3> QED
      BY <1>r, <2>1, <3>1 DEF Passed
  <2> QED
    BY <2>1, <2>2 DEF HasMessage, Watched
<1>3. CASE SelectGet(w)
  <2>1. pc[t] = "select" /\ InRecv(t) /\ index[t] <= Len(args[t]) /\ UNCHANGED <<schedVars, args, peer, data, blockings>>
    BY <1>3 DEF SelectGet, At, InRecv
  <2>2. Found(t, args[t][index[t]]) /\ Goto(w, "try") /\ UNCHANGED index
    BY <1>0, <1>3, <1>a, <2>1, ArgsAreReceived, OpenIsFound DEF Sole, SelectGet
  <2>3. BeingResumed(t)' <=> BeingResumed(t)
    BY <1>t, <2>1, <2>2
  <2>5. pc'[t] = "try"
    BY <1>0, <2>2 DEF Goto
  <2>4. Passed(t)' = Passed(t)
    <3>1. args' = args /\ index' = index /\ Running(t)'
      BY <1>r, <2>1, <2>2
    <3>2. Passed(t)' = {args[t][i] : i \in 1..index[t] - 1}
      BY <1>q, <3>1
    <3> QED
      BY <1>p, <2>1, <3>2
  <2> QED
    BY <1>a, <1>r, <2>1, <2>3, <2>4, <2>5 DEF HasMessage, Watched, Told, Awake
<1>4. CASE SelectTry(w)
  <2> DEFINE c == args[t][index[t]]
  <2>1. /\ pc[t] = "try" /\ InRecv(t) /\ UNCHANGED <<schedVars, args, peer, data>> /\ ref[t] = c
        /\ index[t] <= Len(args[t])
    BY <1>0, <1>4 DEF SelectTry, At, InRecv, C!DoSelect, Framed
  <2>2. c \in Args(t) /\ c \in Channels
    BY <1>0, <1>a, <2>1, ArgsAreReceived
  <2>3. BeingResumed(t)' <=> BeingResumed(t)
    BY <1>4, <1>t, <2>1 DEF SelectTry
  <2>4. CASE data[c] = <<>>
    <3>1. pc'[t] = "select" /\ index'[t] = index[t] + 1
      BY <1>0, <1>4, <2>1, <2>4 DEF SelectTry, Goto, CallTyped
    <3>2. blockings' = [blockings EXCEPT ![c] = Append(@, t)]
      BY <1>4, <2>1, <2>4 DEF SelectTry, C!DoSelect
    <3>3. blockings'[c] # <<>>
      <4>1. Len(blockings'[c]) = Len(blockings[c]) + 1 /\ Len(blockings[c]) \in Nat
        BY <2>2, <3>2
      <4> QED
        BY <4>1
    <3>4. \A d \in Channels : d # c => blockings'[d] = blockings[d]
      BY <3>2
    <3>5. Passed(t)' \subseteq Passed(t) \cup {c}
      <4>1. index[t] \in Nat \ {0} /\ Running(t)'
        BY <1>0, <1>r, <2>1 DEF Framed
      <4>2. \A i \in 1..(index[t] + 1) - 1 : i \in 1..index[t] - 1 \/ i = index[t]
        BY <4>1
      <4> QED
        BY <1>p, <1>q, <2>1, <3>1, <4>1, <4>2
    <3>6. ASSUME NEW d \in Passed(t)' PROVE (data'[d] = <<>> /\ blockings'[d] # <<>>) \/ Told(t)'
      <4>1. CASE d = c
        BY <2>1, <2>4, <3>3, <4>1
      <4>2. CASE d # c
        <5>1. d \in Passed(t) /\ d \in Channels
          BY <1>0, <1>a, <2>1, <3>5, <4>2, ArgsAreReceived
        <5> QED
          BY <1>a, <1>r, <2>1, <2>3, <3>4, <4>2, <5>1 DEF Watched, Told, Awake
      <4> QED
        BY <4>1, <4>2
    <3> QED
      BY <3>1, <3>6 DEF HasMessage, Watched
  <2>5. CASE data[c] # <<>>
    <3>1. pc'[t] = "rawrecv" /\ index'[t] = index[t]
      BY <1>0, <1>4, <2>1, <2>5 DEF SelectTry, Goto
    <3> QED
      BY <2>1, <2>5, <3>1 DEF HasMessage, Watched
  <2> QED
    BY <2>4, <2>5
<1>5. CASE RawRecv(w)
  <2>1. pc[t] = "rawrecv" /\ InRecv(t) /\ UNCHANGED <<args, index, data>>
    BY <1>5 DEF RawRecv, At, InRecv, Quiet
  <2>2. args[t][index[t]] \in Args(t)
    BY <1>0, <2>1, ArgsAreReceived DEF Framed
  <2>3. pc'[t] = "pop"
    BY <1>0, <1>5, <1>a, <2>1, <2>2, OpenIsFound DEF Sole, RawRecv, Goto
  <2> QED
    BY <1>a, <2>1, <2>3 DEF HasMessage, Watched
<1>6. CASE PopMsg(w)
  <2> DEFINE c == args[t][index[t]]
  <2>1. pc[t] = "pop" /\ InRecv(t) /\ UNCHANGED args /\ ref[t] = c
    BY <1>0, <1>6 DEF PopMsg, At, InRecv, Framed
  <2>2. data[c] # <<>> /\ data[c] \in Seq(Msgs)
    BY <1>0, <1>a, <2>1, ArgsAreReceived DEF HasMessage, Framed
  <2>3. Head(data[c]) \in Msgs
    BY <2>2
  <2>4. pc'[t] = "release" /\ msg'[t] = Head(data[c])
    BY <1>0, <1>6, <2>1, <2>2 DEF PopMsg, Goto, CallTyped
  <2> QED
    BY <2>3, <2>4, LtaskAssumption DEF HasMessage, Watched
<1>7. CASE ReleaseChan(w)
  <2>1. pc[t] = "release" /\ InRecv(t) /\ UNCHANGED args
    BY <1>7 DEF ReleaseChan, At, InRecv
  <2>2. msg[t] # NoMsg
    BY <1>a, <2>1 DEF HasMessage
  <2>3. ~InRecv(t)'
    BY <1>0, <1>7, <2>2 DEF ReleaseChan, Goto, InRecv
  <2> QED
    BY <2>3 DEF Alone
<1>8. CASE RecvYield(w)
  <2>1. InRecv(t) /\ UNCHANGED <<args, peer, data, blockings>> /\ pc[t] # "resume"
    BY <1>8 DEF RecvYield, At, InRecv, chanVars
  <2>2. pc[t] = "select" /\ index[t] > Len(args[t])
    BY <1>8, <1>a, <2>1 DEF RecvYield, At, HasMessage
  <2>3. pc'[t] = "select" /\ index'[t] = 1 /\ UNCHANGED <<sleepingTasks, stayAwake>>
    BY <1>0, <1>8 DEF RecvYield, Goto, CallTyped, S!Yield
  <2>4. BeingResumed(t)' <=> BeingResumed(t)
    BY <1>8, <1>t, <2>1 DEF RecvYield
  <2>5. Passed(t) = Args(t)
    <3>1. args[t] \in Seq(Channels) /\ index[t] = Len(args[t]) + 1 /\ Len(args[t]) \in Nat
      BY <1>0, <2>1, <2>2, ArgsAreChannels DEF Framed
    <3>2. 1..index[t] - 1 = DOMAIN args[t]
      BY <3>1
    <3> QED
      BY <1>p, <2>1, <3>2 DEF Args
  <2>6. Passed(t)' \subseteq Args(t)
    <3>1. 1..1 - 1 = {}
      OBVIOUS
    <3> QED
      BY <1>a, <2>1, <2>3, <3>1 DEF Passed
  <2> QED
    BY <1>a, <2>1, <2>2, <2>3, <2>4, <2>5, <2>6 DEF HasMessage, Watched, Told
<1> QED
  BY <1>1, <1>2, <1>3, <1>4, <1>5, <1>6, <1>7, <1>8 DEF LuaStep

LEMMA WaitInvStep ==
  ASSUME Base, WaitInv, [Next]_vars
  PROVE  WaitInv'
<1>1. ASSUME NEW t \in Tasks, Alone(t)' PROVE HasMessage(t)' /\ Watched(t)'
  <2>1. CASE SchedulerStep \/ UNCHANGED vars
    BY <1>1, <2>1, SchedulerWatches
  <2>2. ASSUME NEW w \in Workers, wpc[w] = "running", LuaStep(w) PROVE HasMessage(t)' /\ Watched(t)'
    <3>1. PICK s \in Tasks : cur[w] = s
      BY <2>2, RunningIsTask DEF Base, Typed
    <3> QED
      BY <1>1, <2>2, <3>1, OwnWatched, OthersWatched
  <2> QED
    BY <2>1, <2>2 DEF Next
<1> QED
  BY <1>1, OwnBlockedStep DEF WaitInv

\* No wakeup is lost: a task does not sleep in recv while a channel of its own
\* holds a message, unless a sender is about to resume it.
THEOREM NoWakeupIsLost == Spec => []NoLostWakeup
<1>1. Init => Base /\ WaitInv
  <2>1. Init => WaitInv
    BY DEF Init, WaitInv, OwnBlocked, C!Init, Alone, InRecv
  <2> QED
    BY <2>1, TypedInit DEF Base
<1>2. Base /\ WaitInv /\ [Next]_vars => Base' /\ WaitInv'
  BY TypedStep, PlacesStep, WaitInvStep DEF Base
<1>3. Base /\ WaitInv => NoLostWakeup
  <2> SUFFICES ASSUME Base, WaitInv, NEW t \in sleepingTasks, NEW c \in Args(t),
                      WaitsOn(t, c), \A d \in Args(t) : Sole(d), data[c] # <<>>
               PROVE  BeingResumed(t)
    BY DEF NoLostWakeup
  <2>1. t \in Tasks /\ ~Running(t)
    BY Places DEF Running
  <2>2. Alone(t) /\ InRecv(t)
    BY DEF WaitsOn, Alone
  <2>3. Framed(t)
    BY <2>1 DEF Base, CallTyped
  <2>4. pc[t] = "select" /\ Passed(t) = Args(t)
    BY <2>1, <2>2, <2>3 DEF Framed, Parked, InRecv, Passed
  <2> QED
    BY <2>1, <2>2, <2>4 DEF WaitInv, Watched, Told
<1> QED
  BY <1>1, <1>2, <1>3, PTL DEF Spec
-----------------------------------------------------------------------------
(* Tasks that share a channel.                                             *)

Serves(t, c) == InRecv(t) /\ args[t] = <<c>>

\* t has found c empty in this turn of its loop, or is about to: it goes to
\* sleep without another look at c.
Resting(t, c) ==
  /\ Serves(t, c)
  /\ \/ c \in Passed(t)
     \/ pc[t] \in {"rawrecv", "pop"} /\ data[c] = <<>>
     \/ pc[t] = "release" /\ msg[t] = NoMsg
     \/ pc[t] = "yield"

\* t will look at c before it sleeps, or will not sleep.
Active(t, c) == ~Resting(t, c) \/ Told(t)

\* A task without an end stays, and so does one that a channel remembers.
LiveServers ==
  /\ \A t \in Servers : state[t] # "closed"
  /\ \A c \in Channels, t \in Servers : Blocked(t, c) => t \in tasks

\* The channel is empty and the next push resumes somebody, or somebody is active.
Shared(c) == (data[c] = <<>> /\ blockings[c] # <<>>) \/ \E t \in Users(c) : Active(t, c)

SharedInv ==
  LiveServers /\ \A c \in channels : Pool(c) /\ C!Few(c) /\ Users(c) # {} => Shared(c)

\* The members of a pool.
LEMMA PoolUsers ==
  ASSUME NEW c, Pool(c), NEW t \in Tasks
  PROVE  /\ Receives(t, c) => <<c>> \in Recvs[t] /\ t \in Servers
         /\ <<c>> \in Recvs[t] => t \in Servers
         /\ InRecv(t) /\ Framed(t) /\ c \in Args(t) => Serves(t, c) /\ <<c>> \in Recvs[t]
<1>1. <<c>> \in Recvs[t] => Receives(t, c)
  <2>1. 1 \in DOMAIN <<c>> /\ <<c>>[1] = c
    OBVIOUS
  <2> QED
    BY <2>1 DEF Receives
<1>2. Receives(t, c) => <<c>> \in Recvs[t] /\ t \in Servers
  BY DEF Pool, Receives
<1>3. ASSUME InRecv(t), Framed(t), c \in Args(t) PROVE args[t] = <<c>> /\ <<c>> \in Recvs[t]
  BY <1>3 DEF Pool, Framed, Args
<1> QED
  BY <1>1, <1>2, <1>3 DEF Serves

LEMMA LiveServersStep ==
  ASSUME Base, LiveServers, [Next]_vars
  PROVE  LiveServers' /\ Servers \cap tasks \subseteq tasks'
<1> USE DEF Base, Typed, SP!TypeInv, SP!TypeOK, S!taskVars
<1>1. ASSUME NEW t \in Servers PROVE state'[t] # "closed" /\ (t \in tasks => t \in tasks')
  <2>0. t \in Tasks /\ state[t] # "closed"
    BY LtaskAssumption DEF LiveServers
  <2>1. ASSUME UNCHANGED <<state, tasks>> PROVE state'[t] # "closed" /\ (t \in tasks => t \in tasks')
    BY <2>0, <2>1
  <2>2. ASSUME NEW u \in Tasks, S!CreateTask(u) PROVE state'[t] # "closed" /\ (t \in tasks => t \in tasks')
    BY <2>0, <2>2 DEF S!CreateTask
  <2>3. ASSUME NEW w \in Workers, S!Settle(w) PROVE state'[t] # "closed" /\ (t \in tasks => t \in tasks')
    BY <2>0, <2>3 DEF S!Settle
  <2>4. CASE SchedulerStep \/ UNCHANGED vars
    BY <2>1, <2>2, <2>3, <2>4 DEF SchedulerStep, vars, schedVars, Owner, WorkerLoop, S!Start, S!StartFails, S!CallExit, S!Exit,
       S!Join, S!Enter, S!BeginRun, S!SpuriousWakeup
  <2>5. ASSUME NEW w \in Workers, wpc[w] = "running", LuaStep(w)
        PROVE  state'[t] # "closed" /\ (t \in tasks => t \in tasks')
    <3>1. CASE \E u \in Tasks : NewTask(w, u)
      BY <2>2, <3>1 DEF NewTask, S!Spawn
    <3>2. CASE ResumePeer(w)
      BY <2>1, <3>2 DEF ResumePeer, S!Wake, S!Resume
    <3>3. CASE RecvYield(w) \/ PlainYield(w)
      BY <2>0, <3>3 DEF RecvYield, PlainYield, S!Yield
    <3>4. CASE End(w)
      BY <2>0, <3>4 DEF End, S!Finish
    <3>5. CASE \/ \E c \in Channels : Open(w, c) \/ Close(w, c)
               \/ \E c \in Channels, m \in Msgs : Send(w, c, m)
               \/ PackFails(w) \/ PushMsg(w) \/ (\E list \in Recvs[cur[w]] : Recv(w, list)) \/ SelectGet(w)
               \/ SelectTry(w) \/ RawRecv(w) \/ PopMsg(w) \/ ReleaseChan(w)
      BY <2>1, <3>5 DEF Open, Close, Send, PackFails, PushMsg, Recv, SelectGet, SelectTry, RawRecv, PopMsg, ReleaseChan, schedVars
    <3> QED
      BY <2>5, <3>1, <3>2, <3>3, <3>4, <3>5 DEF LuaStep
  <2> QED
    BY <2>4, <2>5 DEF Next
<1>2. ASSUME NEW c \in Channels, NEW t \in Servers, Blocked(t, c)' PROVE t \in tasks'
  <2>1. t \in tasks
    BY <1>2, EntriesStep DEF LiveServers
  <2> QED
    BY <1>1, <2>1
<1> QED
  BY <1>1, <1>2 DEF LiveServers

\* No task is in recv on a channel that did not exist before.
LEMMA ServesBefore ==
  ASSUME Base, [Next]_vars, NEW t \in Tasks, NEW c \in Channels, Serves(t, c)'
  PROVE  object[c] # "none"
<1>0. Framed(t) /\ 1 \in DOMAIN <<c>> /\ <<c>>[1] = c
  BY DEF Base, CallTyped
<1>1. Serves(t, c) => object[c] # "none"
  BY <1>0 DEF Serves, Framed, Args
<1>2. CASE UNCHANGED <<pc, args>>
  BY <1>1, <1>2 DEF Serves, InRecv
<1>3. CASE SchedulerStep \/ UNCHANGED vars
  BY <1>2, <1>3 DEF SchedulerStep, vars, callVars
<1>4. ASSUME NEW w \in Workers, wpc[w] = "running", LuaStep(w) PROVE object[c] # "none"
  <2>1. CASE cur[w] # t
    BY <1>1, <1>4, <2>1, LuaStepIsLocal DEF Base, Serves, InRecv
  <2>2. CASE cur[w] = t
    <3>1. CASE \E list \in Recvs[t] : Recv(w, list)
      <4> PICK list \in Recvs[t] : Recv(w, list)
        BY <3>1
      <4>1. list = <<c>>
        BY <2>2 DEF Recv, Base, CallTyped, Serves
      <4> QED
        BY <1>0, <4>1 DEF Recv, Known
    <3>2. CASE SelectGet(w) \/ SelectTry(w) \/ RawRecv(w) \/ PopMsg(w) \/ ReleaseChan(w) \/ RecvYield(w)
      <4>1. InRecv(t) /\ UNCHANGED args
        BY <2>2, <3>2 DEF SelectGet, SelectTry, RawRecv, PopMsg, ReleaseChan, RecvYield, At, InRecv, Quiet
      <4> QED
        BY <1>1, <4>1 DEF Serves
    <3>3. CASE \/ \E u \in Tasks : NewTask(w, u)
               \/ \E d \in Channels : Open(w, d) \/ Close(w, d)
               \/ \E d \in Channels, m \in Msgs : Send(w, d, m)
               \/ PackFails(w) \/ PushMsg(w) \/ ResumePeer(w) \/ PlainYield(w) \/ End(w)
      <4>1. ~InRecv(t)'
        BY <2>2, <3>3 DEF NewTask, Open, Close, Send, PackFails, PushMsg, ResumePeer, PlainYield, End, At, Goto, InRecv,
           callVars, Base, CallTyped
      <4> QED
        BY <4>1 DEF Serves
    <3> QED
      BY <1>4, <2>2, <3>1, <3>2, <3>3 DEF LuaStep
  <2> QED
    BY <2>1, <2>2
<1> QED
  BY <1>3, <1>4 DEF Next

\* A task that has just been created is active.
LEMMA NewcomerActive ==
  ASSUME Base, [Next]_vars, NEW t \in Tasks, t \notin tasks, t \in tasks', NEW c
  PROVE  Active(t, c)'
<1> USE DEF Base, Typed, SP!TypeInv, SP!TypeOK, S!taskVars
<1>1. PICK u \in Tasks : S!CreateTask(u) /\ UNCHANGED callVars
  <2>1. CASE SchedulerStep \/ UNCHANGED vars
    BY <2>1 DEF SchedulerStep, vars, schedVars, Owner, WorkerLoop, S!Start, S!StartFails, S!CallExit, S!Exit,
       S!Join, S!Enter, S!BeginRun, S!SpuriousWakeup, S!Settle
  <2>2. ASSUME NEW w \in Workers, wpc[w] = "running", LuaStep(w) PROVE \E u \in Tasks : NewTask(w, u)
    BY <2>2 DEF LuaStep, Open, Close, Send, PackFails, PushMsg, ResumePeer, Recv, SelectGet, SelectTry, RawRecv, PopMsg,
       ReleaseChan, RecvYield, PlainYield, End, schedVars, S!Wake, S!Resume, S!Yield, S!Finish
  <2> QED
    BY <2>1, <2>2 DEF Next, NewTask, S!Spawn
<1>2. ~Running(t) /\ ~OnWorker(t, "returned") /\ t \notin sleepingTasks
  BY Places DEF Running, OnWorker
<1>3. Passed(t)' = {}
  BY <1>1, <1>2, CreateTaskOnward, NoTurn DEF Onward, Restarts, callVars
<1>4. pc[t] \in {"lua", "select"}
  BY <1>2 DEF CallTyped, Framed, Parked
<1> QED
  BY <1>1, <1>3, <1>4 DEF Active, Resting, callVars

\* A task that no worker runs is not in the middle of recv.
LEMMA RestartsActive ==
  ASSUME Base, NEW t \in Tasks, NEW c, Restarts(t), pc'[t] = pc[t]
  PROVE  Active(t, c)'
<1>1. pc[t] \in {"lua", "select"}
  BY DEF Base, CallTyped, Framed, Parked, Restarts
<1> QED
  BY <1>1 DEF Active, Resting, Restarts

LEMMA SchedulerActive ==
  ASSUME Base, SchedulerStep \/ UNCHANGED vars, NEW t \in Tasks, NEW c, Active(t, c)
  PROVE  Active(t, c)'
<1>1. UNCHANGED <<chanVars, callVars>>
  BY DEF SchedulerStep, vars
<1>2. CASE ~InRecv(t)
  BY <1>1, <1>2 DEF Active, Resting, Serves, InRecv, callVars
<1>3. CASE InRecv(t)
  <2>1. Onward(t)
    <3>1. CASE UNCHANGED vars
      BY <3>1 DEF Onward, Awake, Passed, Running, OnWorker, Args, vars, schedVars, callVars
    <3> QED
      BY <1>3, <3>1, SchedulerOnward
  <2>2. CASE Restarts(t)
    BY <1>1, <2>2, RestartsActive DEF callVars
  <2>3. CASE Passed(t)' \subseteq Passed(t) /\ (Awake(t) => Awake(t)')
    <3>1. CASE Told(t)
      BY <1>1, <2>3, <3>1 DEF Active, Told, Awake, BeingResumed, callVars
    <3>2. CASE ~Resting(t, c)
      BY <1>1, <2>3, <3>2 DEF Active, Resting, Serves, InRecv, chanVars, callVars
    <3> QED
      BY <3>1, <3>2 DEF Active
  <2> QED
    BY <2>1, <2>2, <2>3 DEF Onward
<1> QED
  BY <1>2, <1>3

\* A task stays active while others run, unless one of them takes the last message.
LEMMA OthersActive ==
  ASSUME Base, NEW w \in Workers, wpc[w] = "running", LuaStep(w),
         NEW s \in Tasks, cur[w] = s, NEW t \in Tasks, s # t, NEW c, Active(t, c),
         data[c] # <<>> => data'[c] # <<>>
  PROVE  Active(t, c)'
<1>1. pc'[t] = pc[t] /\ args'[t] = args[t] /\ msg'[t] = msg[t]
  BY LuaStepIsLocal DEF Base
<1>2. CASE Restarts(t)
  BY <1>1, <1>2, RestartsActive
<1>3. CASE Told(t)
  BY <1>2, <1>3, OthersTell DEF Active
<1>4. CASE ~Resting(t, c) /\ ~Restarts(t)
  <2>1. Passed(t)' \subseteq Passed(t)
    BY <1>4, OthersOnward DEF Onward
  <2> QED
    BY <1>1, <1>4, <2>1 DEF Active, Resting, Serves, InRecv
<1> QED
  BY <1>2, <1>3, <1>4 DEF Active

LEMMA AppendNotEmpty ==
  ASSUME NEW X, NEW q \in Seq(X), NEW x \in X
  PROVE  Append(q, x) # <<>>
<1> DEFINE r == Append(q, x)
<1>1. Len(r) = Len(q) + 1 /\ Len(q) \in Nat
  OBVIOUS
<1> HIDE DEF r
<1>2. r # <<>>
  BY <1>1
<1> QED
  BY <1>2 DEF r

\* What a step does to a channel: only push ends the emptiness that do_select
\* saw, and only pop makes a channel empty.
LEMMA QueuesStep ==
  ASSUME Base, NEW w \in Workers, wpc[w] = "running", LuaStep(w),
         NEW s \in Tasks, cur[w] = s, NEW c \in Channels
  PROVE  /\ data[c] = <<>> /\ blockings[c] # <<>>
            => \/ data'[c] = <<>> /\ blockings'[c] # <<>>
               \/ PushMsg(w) /\ ref[s] = c
         /\ data[c] # <<>> => data'[c] # <<>> \/ (PopMsg(w) /\ ref[s] = c)
<1> USE DEF Base, Typed, CP!RefTypeOK, CP!QueueTypeOK
<1>1. CASE PushMsg(w)
  <2>1. PICK d \in Channels : ref[s] = d
    BY <1>1 DEF PushMsg, C!Push, C!Holds
  <2>2. /\ data' = [data EXCEPT ![d] = Append(@, msg[s])]
        /\ blockings' = [blockings EXCEPT ![d] = IF @ = <<>> THEN @ ELSE Tail(@)]
    BY <1>1, <2>1 DEF PushMsg, C!Push
  <2>3. Append(data[c], msg[s]) # <<>>
    <3>1. data[c] \in Seq(Msgs) /\ msg[s] \in Msgs
      BY <1>1 DEF PushMsg, At, CallTyped, Framed
    <3> QED
      BY <3>1, AppendNotEmpty
  <2> QED
    BY <1>1, <2>1, <2>2, <2>3
<1>2. CASE SelectTry(w)
  <2>1. PICK d \in Channels : ref[s] = d
    BY <1>2 DEF SelectTry, C!DoSelect, C!Holds
  <2>2. data' = data /\ (blockings'[c] = blockings[c] \/ blockings'[c] = Append(blockings[c], s))
    BY <1>2, <2>1 DEF SelectTry, C!DoSelect
  <2>3. Append(blockings[c], s) # <<>>
    <3>1. blockings[c] \in Seq(Tasks)
      OBVIOUS
    <3> QED
      BY <3>1, AppendNotEmpty
  <2> QED
    BY <2>2, <2>3
<1>3. CASE PopMsg(w)
  <2>1. PICK d \in Channels : ref[s] = d
    BY <1>3 DEF PopMsg, C!Pop, C!Holds
  <2>2. data' = [data EXCEPT ![d] = IF @ = <<>> THEN @ ELSE Tail(@)] /\ blockings' = blockings
    BY <1>3, <2>1 DEF PopMsg, C!Pop
  <2> QED
    BY <1>3, <2>1, <2>2
<1>4. ASSUME ~PushMsg(w), ~SelectTry(w), ~PopMsg(w) PROVE UNCHANGED <<data, blockings>>
  BY <1>4 DEF LuaStep, NewTask, Open, Close, C!CreateChannel, C!CloseChannel, Send, PackFails, ResumePeer, Recv, SelectGet,
     RawRecv, ReleaseChan, RecvYield, PlainYield, End, chanVars
<1> QED
  BY <1>1, <1>2, <1>3, <1>4

\* What a task does to its own turn on an open channel: it rests when do_select
\* has found it empty, and whoever gets a message does not.
LEMMA OwnActive ==
  ASSUME Base, NEW w \in Workers, wpc[w] = "running", LuaStep(w),
         NEW s \in Tasks, cur[w] = s, NEW c \in Channels, c \in channels', C!Few(c),
         Active(s, c) \/ (PopMsg(w) /\ data[c] # <<>>)
  PROVE  Active(s, c)' \/ (data'[c] = <<>> /\ blockings'[c] # <<>>)
<1> USE DEF Base, Typed, CP!RefTypeOK, CP!QueueTypeOK
<1>0. Framed(s) /\ Running(s) /\ DOMAIN pc = Tasks
  BY DEF CallTyped, Running
<1>r. UNCHANGED schedVars => Running(s)' /\ (Awake(s)' <=> Awake(s))
  BY <1>0 DEF Running, Awake, schedVars
<1>a. Serves(s, c) => InRecv(s) /\ Len(args[s]) = 1 /\ args[s][1] = c /\ index[s] \in 1..2
  BY <1>0 DEF Serves, Framed
<1>t. ASSUME Told(s), Awake(s)' <=> Awake(s), InRecv(s), UNCHANGED peer,
             \E l : Goto(w, l) /\ l # "resume"
      PROVE  Active(s, c)'
  BY <1>0, <1>t DEF Active, Told, BeingResumed, Goto, Awake, InRecv
<1>f. ASSUME index'[s] = 1, Running(s)' PROVE Passed(s)' = {}
  <2>1. 1..1 - 1 = {}
    OBVIOUS
  <2> QED
    BY <1>f, <2>1 DEF Passed
<1>1. CASE \/ \E u \in Tasks : NewTask(w, u)
           \/ \E d \in Channels : Open(w, d) \/ Close(w, d)
           \/ \E d \in Channels, m \in Msgs : Send(w, d, m)
           \/ PackFails(w) \/ PushMsg(w) \/ ResumePeer(w) \/ PlainYield(w) \/ End(w)
  <2>1. ~InRecv(s)'
    BY <1>0, <1>1 DEF NewTask, Open, Close, Send, PackFails, PushMsg, ResumePeer, PlainYield, End, At, Goto, InRecv, callVars
  <2> QED
    BY <2>1 DEF Active, Resting, Serves
<1>2. CASE \E list \in Recvs[s] : Recv(w, list)
  <2>1. pc'[s] = "select" /\ index'[s] = 1 /\ UNCHANGED schedVars
    BY <1>0, <1>2 DEF Recv, Goto, CallTyped
  <2> QED
    BY <1>f, <1>r, <2>1 DEF Active, Resting
<1>3. CASE ~Serves(s, c) /\ ~\E list \in Recvs[s] : Recv(w, list)
  <2>1. ~Serves(s, c)'
    <3>1. (InRecv(s) /\ UNCHANGED args) \/ ~InRecv(s)'
      BY <1>0, <1>3 DEF LuaStep, NewTask, Open, Close, Send, PackFails, PushMsg, ResumePeer, PlainYield, End, At, Goto, InRecv,
         callVars, SelectGet, SelectTry, RawRecv, PopMsg, ReleaseChan, RecvYield, Quiet
    <3> QED
      BY <1>3, <3>1 DEF Serves
  <2> QED
    BY <2>1 DEF Active, Resting
<1>4. CASE Serves(s, c) /\ SelectGet(w)
  <2>1. index[s] = 1 /\ args[s][index[s]] = c /\ UNCHANGED <<schedVars, args>>
    BY <1>a, <1>4 DEF SelectGet
  <2>2. Goto(w, "try") /\ index' = index
    BY <1>4, <2>1, OpenIsFound DEF SelectGet
  <2>3. Passed(s)' = {} /\ pc'[s] = "try"
    BY <1>0, <1>f, <1>r, <2>1, <2>2 DEF Goto
  <2> QED
    BY <2>3 DEF Active, Resting
<1>5. CASE Serves(s, c) /\ SelectTry(w)
  <2>1. index[s] = 1 /\ ref[s] = c /\ pc[s] = "try" /\ UNCHANGED <<schedVars, data>>
    BY <1>0, <1>a, <1>5 DEF SelectTry, At, Framed, C!DoSelect
  <2>2. CASE data[c] = <<>>
    <3>1. blockings'[c] = Append(blockings[c], s) /\ blockings[c] \in Seq(Tasks)
      BY <1>5, <2>1, <2>2 DEF SelectTry, C!DoSelect
    <3> QED
      BY <2>1, <2>2, <3>1, AppendNotEmpty
  <2>3. CASE data[c] # <<>>
    <3>1. pc'[s] = "rawrecv" /\ index'[s] = 1
      BY <1>0, <1>5, <2>1, <2>3 DEF SelectTry, Goto
    <3> QED
      BY <1>f, <1>r, <2>1, <2>3, <3>1 DEF Active, Resting
  <2> QED
    BY <2>2, <2>3
<1>6. CASE Serves(s, c) /\ RawRecv(w)
  <2>1. index[s] = 1 /\ args[s][index[s]] = c /\ pc[s] = "rawrecv" /\ UNCHANGED <<schedVars, data, peer, index>>
    BY <1>0, <1>a, <1>6 DEF RawRecv, At, Framed, Quiet
  <2>2. Goto(w, "pop")
    BY <1>6, <2>1, OpenIsFound DEF RawRecv
  <2>3. Passed(s)' = {} /\ pc'[s] = "pop"
    BY <1>0, <1>f, <1>r, <2>1, <2>2 DEF Goto
  <2>4. CASE data[c] # <<>>
    BY <2>1, <2>3, <2>4 DEF Active, Resting
  <2>5. CASE data[c] = <<>>
    <3>1. Told(s)
      BY <1>6, <2>1, <2>5 DEF Active, Resting, PopMsg, At
    <3> QED
      BY <1>a, <1>r, <1>t, <1>6, <2>1, <2>2, <3>1
  <2> QED
    BY <2>4, <2>5
<1>7. CASE Serves(s, c) /\ PopMsg(w)
  <2>1. index[s] = 1 /\ ref[s] = c /\ pc[s] = "pop" /\ UNCHANGED <<schedVars, peer, index>> /\ Goto(w, "release")
    BY <1>0, <1>a, <1>7 DEF PopMsg, At, Framed
  <2>2. CASE data[c] # <<>>
    <3>1. Head(data[c]) \in Msgs
      <4>1. data[c] \in Seq(Msgs)
        OBVIOUS
      <4> QED
        BY <2>2, <4>1
    <3>2. pc'[s] = "release" /\ msg'[s] = Head(data[c]) /\ Passed(s)' = {}
      BY <1>0, <1>f, <1>r, <1>7, <2>1, <2>2 DEF PopMsg, Goto, CallTyped
    <3> QED
      BY <3>1, <3>2, LtaskAssumption DEF Active, Resting
  <2>3. CASE data[c] = <<>>
    <3>1. Told(s)
      BY <1>7, <2>1, <2>3 DEF Active, Resting
    <3> QED
      BY <1>a, <1>r, <1>t, <1>7, <2>1, <3>1
  <2> QED
    BY <2>2, <2>3
<1>8. CASE Serves(s, c) /\ ReleaseChan(w)
  <2>1. pc[s] = "release" /\ UNCHANGED <<schedVars, peer>> /\ Goto(w, IF msg[s] = NoMsg THEN "yield" ELSE "lua")
    BY <1>8 DEF ReleaseChan, At
  <2>2. CASE msg[s] # NoMsg
    BY <1>0, <2>1, <2>2 DEF Goto, Active, Resting, Serves, InRecv
  <2>3. CASE msg[s] = NoMsg
    <3>1. Told(s)
      BY <1>8, <2>1, <2>3 DEF Active, Resting, PopMsg, At
    <3> QED
      BY <1>a, <1>r, <1>t, <1>8, <2>1, <2>3, <3>1
  <2> QED
    BY <2>2, <2>3
<1>9. CASE Serves(s, c) /\ RecvYield(w)
  <2>1. /\ pc[s] = "yield" \/ (pc[s] = "select" /\ index[s] = 2)
        /\ UNCHANGED <<sleepingTasks, stayAwake, peer>> /\ Goto(w, "select")
    BY <1>a, <1>9 DEF RecvYield, At, S!Yield
  <2>2. Told(s)
    <3>1. pc[s] = "select" /\ index[s] = 2 => c \in Passed(s)
      <4>1. 1 \in 1..2 - 1
        OBVIOUS
      <4> QED
        BY <1>0, <1>a, <1>9, <4>1 DEF Passed
    <3> QED
      BY <1>9, <2>1, <3>1 DEF Active, Resting, PopMsg, At
  <2> QED
    BY <1>a, <1>t, <1>9, <2>1, <2>2 DEF Awake
<1> QED
  BY <1>1, <1>2, <1>3, <1>4, <1>5, <1>6, <1>7, <1>8, <1>9 DEF LuaStep

LEMMA LuaShared ==
  ASSUME Base, OwnBlocked, LiveServers, NEW w \in Workers, wpc[w] = "running", LuaStep(w),
         NEW c \in channels', c \in channels, Pool(c), C!Few(c), Users(c) # {}, Shared(c),
         Users(c) \subseteq Users(c)'
  PROVE  Shared(c)'
<1> USE DEF Base, Typed, CP!RefTypeOK, CP!QueueTypeOK
<1>0. PICK s \in Tasks : cur[w] = s
  BY RunningIsTask
<1>1. /\ c \in Channels /\ Framed(s) /\ s \in tasks
      /\ \A t \in Users(c) : t \in Tasks
  BY <1>0, Places DEF CallTyped, Users
<1>2. CASE PushMsg(w) /\ ref[s] = c /\ blockings[c] # <<>>
  <2> PICK h : h = Head(blockings[c])
    OBVIOUS
  <2>1. pc'[s] = "resume" /\ peer'[s] = h
    BY <1>0, <1>2 DEF PushMsg, Goto, CallTyped
  <2>2. blockings[c] \in Seq(Tasks)
    BY <1>1
  <2>3. h \in Tasks /\ Blocked(h, c)
    <3>1. 1 \in DOMAIN blockings[c] /\ h = blockings[c][1] /\ h \in Tasks
      BY <1>2, <2>2
    <3> QED
      BY <3>1 DEF Blocked
  <2>4. h \in Users(c)
    BY <1>1, <2>3, PoolUsers DEF OwnBlocked, Blocked, LiveServers, Users
  <2>5. Active(h, c)'
    BY <1>0, <2>1 DEF Active, Told, BeingResumed
  <2> QED
    BY <2>4, <2>5 DEF Shared
<1>3. CASE PopMsg(w) /\ ref[s] = c /\ data[c] # <<>>
  <2>1. InRecv(s) /\ c \in Args(s)
    BY <1>0, <1>1, <1>3, ArgsAreReceived DEF PopMsg, At, InRecv, Framed
  <2>2. s \in Users(c)
    BY <1>1, <2>1, PoolUsers DEF Users
  <2> QED
    BY <1>0, <1>1, <1>3, <2>2, OwnActive DEF Shared
<1>4. CASE ~(PushMsg(w) /\ ref[s] = c /\ blockings[c] # <<>>) /\ ~(PopMsg(w) /\ ref[s] = c /\ data[c] # <<>>)
  <2>1. CASE data[c] = <<>> /\ blockings[c] # <<>>
    BY <1>0, <1>1, <1>4, <2>1, QueuesStep DEF Shared
  <2>2. ASSUME NEW t \in Users(c), Active(t, c) PROVE Shared(c)'
    <3>1. CASE t = s
      BY <1>0, <1>1, <2>2, <3>1, OwnActive DEF Shared
    <3>2. CASE t # s
      <4>1. data[c] # <<>> => data'[c] # <<>>
        BY <1>0, <1>1, <1>4, QueuesStep
      <4> QED
        BY <1>0, <1>1, <2>2, <3>2, <4>1, OthersActive DEF Shared
    <3> QED
      BY <3>1, <3>2
  <2> QED
    BY <2>1, <2>2 DEF Shared
<1> QED
  BY <1>2, <1>3, <1>4

LEMMA SharedInvStep ==
  ASSUME Base, Base', OwnBlocked, SharedInv, [Next]_vars
  PROVE  SharedInv'
<1>1. LiveServers /\ LiveServers' /\ Servers \cap tasks \subseteq tasks'
  BY LiveServersStep DEF SharedInv
<1>2. ASSUME NEW c \in channels', Pool(c), C!Few(c)', Users(c)' # {} PROVE Shared(c)'
  <2>1. c \in Channels /\ \A t \in Users(c)' : t \in Tasks /\ t \in tasks'
    BY <1>2 DEF Users, Base, Typed, CP!RefTypeOK, SP!TypeInv, SP!TypeOK
  <2>2. C!Few(c) /\ (object[c] # "none" => c \in channels)
    BY <1>2, <2>1, ChannelsBefore
  <2>3. CASE c \notin channels
    <3>1. PICK t \in Users(c)' : TRUE
      BY <1>2
    <3>2. ~Serves(t, c)'
      BY <2>1, <2>2, <2>3, ServesBefore
    <3> QED
      BY <3>1, <3>2 DEF Shared, Active, Resting
  <2>4. CASE Users(c) = {}
    <3>1. PICK t \in Users(c)' : TRUE
      BY <1>2
    <3>2. t \in Tasks /\ t \in tasks' /\ t \notin tasks
      BY <2>1, <2>4 DEF Users
    <3> QED
      BY <3>1, <3>2, NewcomerActive DEF Shared
  <2>5. CASE c \in channels /\ Users(c) # {}
    <3>1. Shared(c)
      BY <1>2, <2>2, <2>5 DEF SharedInv
    <3>2. Users(c) \subseteq Users(c)'
      <4> SUFFICES ASSUME NEW t \in Users(c) PROVE t \in Users(c)'
        OBVIOUS
      <4>1. t \in Tasks /\ t \in tasks /\ <<c>> \in Recvs[t]
        BY Places DEF Users
      <4>2. t \in Servers
        BY <1>2, <4>1, PoolUsers
      <4> QED
        BY <1>1, <4>1, <4>2 DEF Users
    <3>3. CASE SchedulerStep \/ UNCHANGED vars
      <4>1. UNCHANGED <<data, blockings>>
        BY <3>3 DEF SchedulerStep, vars, chanVars
      <4>2. \A t \in Users(c) : Active(t, c) => Active(t, c)'
        BY <2>1, <3>2, <3>3, SchedulerActive
      <4> QED
        BY <3>1, <3>2, <4>1, <4>2 DEF Shared
    <3>4. ASSUME NEW w \in Workers, wpc[w] = "running", LuaStep(w) PROVE Shared(c)'
      BY <1>1, <1>2, <2>2, <2>5, <3>1, <3>2, <3>4, LuaShared
    <3> QED
      BY <3>3, <3>4 DEF Next
  <2> QED
    BY <2>3, <2>4, <2>5
<1>3. \A c : Pool(c)' <=> Pool(c)
  BY DEF Pool
<1> QED
  BY <1>1, <1>2, <1>3 DEF SharedInv

\* The tasks of a pool are never all asleep while their channel holds a message
\* and nobody resumes one of them, although a resume may go to a task that is
\* awake, and a message to one that another was woken for.
THEOREM PoolStaysAwake == Spec => []SomeoneAwake
<1>1. Init => Base /\ WaitInv /\ SharedInv
  <2>1. Init => WaitInv
    BY DEF Init, WaitInv, OwnBlocked, C!Init, Alone, InRecv
  <2>2. Init => SharedInv
    BY LtaskAssumption DEF Init, SharedInv, LiveServers, Blocked, C!Init, S!Init
  <2> QED
    BY <2>1, <2>2, TypedInit DEF Base
<1>2. Base /\ WaitInv /\ SharedInv /\ [Next]_vars => Base' /\ WaitInv' /\ SharedInv'
  <2> SUFFICES ASSUME Base, WaitInv, SharedInv, [Next]_vars PROVE Base' /\ WaitInv' /\ SharedInv'
    OBVIOUS
  <2>1. Base'
    BY TypedStep, PlacesStep DEF Base
  <2> QED
    BY <2>1, WaitInvStep, SharedInvStep DEF WaitInv
<1>3. Base /\ SharedInv => SomeoneAwake
  <2> SUFFICES ASSUME Base, SharedInv, NEW c \in channels, Pool(c), C!Few(c), data[c] # <<>>, Users(c) # {},
                      \A t \in Users(c) : t \in sleepingTasks /\ WaitsOn(t, c)
               PROVE  \E t \in Users(c) : BeingResumed(t)
    BY DEF SomeoneAwake
  <2>1. PICK t \in Users(c) : Active(t, c)
    BY DEF SharedInv, Shared
  <2>2. t \in Tasks /\ ~Running(t) /\ t \in sleepingTasks /\ InRecv(t) /\ c \in Args(t)
    BY Places DEF Running, Users, WaitsOn
  <2>3. Framed(t)
    BY <2>2 DEF Base, CallTyped
  <2>4. c \in Passed(t) /\ Serves(t, c)
    BY <2>2, <2>3, PoolUsers DEF Passed
  <2> QED
    BY <2>1, <2>2, <2>4 DEF Active, Resting, Told
<1> QED
  BY <1>1, <1>2, <1>3, PTL DEF Spec
=============================================================================
