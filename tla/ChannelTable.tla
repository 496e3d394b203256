---------------------------- MODULE ChannelTable ----------------------------
(***************************************************************************)
(* The ids of channels and tasks (iolua/ltask/scheduler.cpp): one atomic   *)
(* generator that comes round, the tables _channels and _tasks, and the    *)
(* creations that draw an id under the shared lock of scheduler::_mutex    *)
(* and use it under the exclusive lock later on.                           *)
(*                                                                         *)
(* It refines Channel: the objects and their references are its variables. *)
(* The lookup of an unknown id leaves a null entry in the table it looked  *)
(* in, which is a key for ever: no creation is given that id again.        *)
(***************************************************************************)
EXTENDS Channel

CONSTANTS
  IdSize,      \* how many values the generator has: 2^32
  Asked,       \* the ids that Lua code uses, also when it was not given them
  MaxLost      \* bound: how many references of a channel are lost

ASSUME TableAssumption ==
  /\ IdSize \in Nat \ {0}
  /\ Asked \subseteq 0..IdSize - 1
  /\ MaxLost \in Nat

VARIABLES
  idgen,       \* _idgen
  keys,        \* the keys of _channels and of _tasks, with null values or not
  entry,       \* the channel under each id of _channels, NoChannel without one
  taskIds,     \* the ids under which _tasks holds a task
  creating,    \* what each caller creates: "no", "channel" or "task"
  drawn,       \* the id it has drawn and not used yet, 0 while it draws
  named,       \* history: the id that create_channel returned for a channel
  draws,       \* history: how many ids were drawn since a caller drew its own
  overtaken    \* history: the generator came round during a creation

creationVars == <<creating, drawn, draws, overtaken>>
tableVars == <<keys, entry, taskIds, named>>
vars == <<chanVars, idgen, tableVars, creationVars>>

Ids == 0..IdSize - 1

Kinds == {"channel", "task"}

Drawing(t) == creating[t] # "no" /\ drawn[t] = 0

\* The exclusive lock is granted when no creation is in its loop.
Exclusive == \A t \in Tasks : ~Drawing(t)

-----------------------------------------------------------------------------
(* create_channel and create_task up to the id: the loop under the shared  *)
(* lock, in which callers draw next to each other.                         *)

Begin(t, kind) ==
  /\ creating[t] = "no" /\ ref[t] = NoChannel
  /\ kind = "channel" =>
       Cardinality({u \in Tasks : creating[u] = kind}) <
       Cardinality({c \in Channels : object[c] = "none"})   \* bound
  /\ creating' = [creating EXCEPT ![t] = kind]
  /\ UNCHANGED <<chanVars, idgen, tableVars, drawn, draws, overtaken>>

Waiting == {t \in Tasks : drawn[t] # 0}

\* Mutant: the tables are not asked.
UsableUnlessZero(kind, i) == i # 0 /\ kind \in Kinds

Usable(kind, i) == i # 0 /\ i \notin keys[kind]

\* One turn of the loop: an id that is zero or a key is drawn in vain.
Draw(t) ==
  /\ Drawing(t)
  /\ idgen' = IF idgen = IdSize - 1 THEN 0 ELSE idgen + 1
  /\ drawn' = [drawn EXCEPT ![t] = IF Usable(creating[t], idgen) THEN idgen ELSE 0]
  /\ draws' = [u \in Tasks |-> IF u \in Waiting /\ draws[u] < IdSize THEN draws[u] + 1
                               ELSE IF u = t THEN 0 ELSE draws[u]]
  /\ overtaken' = (overtaken \/ \E u \in Waiting : draws[u] + 1 = IdSize)
  /\ UNCHANGED <<chanVars, tableVars, creating>>

-----------------------------------------------------------------------------
(* Sections of the exclusive lock.                                         *)

\* create_channel stores the object under its id, whatever is there by now.
InsertChannel(t, c) ==
  /\ creating[t] = "channel" /\ drawn[t] # 0 /\ Exclusive
  /\ CreateChannel(c)
  /\ keys' = [keys EXCEPT !["channel"] = @ \cup {drawn[t]}]
  /\ entry' = [entry EXCEPT ![drawn[t]] = c]
  /\ named' = [named EXCEPT ![c] = drawn[t]]
  /\ creating' = [creating EXCEPT ![t] = "no"]
  /\ drawn' = [drawn EXCEPT ![t] = 0]
  /\ UNCHANGED <<idgen, taskIds, draws, overtaken>>

\* create_task likewise.
InsertTask(t) ==
  /\ creating[t] = "task" /\ drawn[t] # 0 /\ Exclusive
  /\ keys' = [keys EXCEPT !["task"] = @ \cup {drawn[t]}]
  /\ taskIds' = taskIds \cup {drawn[t]}
  /\ creating' = [creating EXCEPT ![t] = "no"]
  /\ drawn' = [drawn EXCEPT ![t] = 0]
  /\ UNCHANGED <<chanVars, idgen, entry, named, draws, overtaken>>

\* The constructor of the task fails between the two locks: its script does not
\* load, or its arguments cannot be passed. The id was drawn for nothing.
AbandonTask(t) ==
  /\ creating[t] = "task" /\ drawn[t] # 0
  /\ creating' = [creating EXCEPT ![t] = "no"]
  /\ drawn' = [drawn EXCEPT ![t] = 0]
  /\ UNCHANGED <<chanVars, idgen, tableVars, draws, overtaken>>

\* do_schedule erases a task that has ended.
EndTask(i) ==
  /\ i \in taskIds /\ Exclusive
  /\ taskIds' = taskIds \ {i}
  /\ keys' = [keys EXCEPT !["task"] = @ \ {i}]
  /\ UNCHANGED <<chanVars, idgen, entry, named, creationVars>>

\* resume of a task that has ended, whose id was still in a blocked queue.
ResumeEnded(i) ==
  /\ i \in Asked \ taskIds /\ Exclusive
  /\ keys' = [keys EXCEPT !["task"] = @ \cup {i}]
  /\ UNCHANGED <<chanVars, idgen, entry, taskIds, named, creationVars>>

\* close_channel of an id that leads to a channel, and of one that does not.
Close(i) ==
  /\ i \in Asked /\ Exclusive
  /\ IF entry[i] # NoChannel
     THEN /\ CloseChannel(entry[i])
          /\ keys' = [keys EXCEPT !["channel"] = @ \ {i}]
          /\ entry' = [entry EXCEPT ![i] = NoChannel]
     ELSE /\ keys' = [keys EXCEPT !["channel"] = @ \cup {i}]
          /\ UNCHANGED <<chanVars, entry>>
  /\ UNCHANGED <<idgen, taskIds, named, creationVars>>

-----------------------------------------------------------------------------
(* get_channel, under the shared lock, and the frames that have a pointer. *)

Lookup(t, i) ==
  /\ creating[t] = "no" /\ ref[t] = NoChannel /\ i \in Asked
  /\ IF entry[i] # NoChannel
     THEN GetChannel(t, entry[i]) /\ UNCHANGED <<data, blockings, keys>>
     ELSE keys' = [keys EXCEPT !["channel"] = @ \cup {i}] /\ UNCHANGED chanVars
  /\ UNCHANGED <<idgen, entry, taskIds, named, creationVars>>

EndCall(t) ==
  /\ Release(t) \/ (Forget(t) /\ lost[ref[t]] < MaxLost)
  /\ UNCHANGED <<data, blockings, idgen, tableVars, creationVars>>

-----------------------------------------------------------------------------
TableInit ==
  /\ Init
  /\ idgen = 0
  /\ keys = [kind \in Kinds |-> {}]
  /\ entry = [i \in Ids |-> NoChannel]
  /\ taskIds = {}
  /\ creating = [t \in Tasks |-> "no"]
  /\ drawn = [t \in Tasks |-> 0]
  /\ named = [c \in Channels |-> 0]
  /\ draws = [t \in Tasks |-> 0]
  /\ overtaken = FALSE

TableNext ==
  \/ \E t \in Tasks, kind \in Kinds : Begin(t, kind)
  \/ \E t \in Tasks : Draw(t)
  \/ \E t \in Tasks, c \in Channels : InsertChannel(t, c)
  \/ \E t \in Tasks : InsertTask(t) \/ AbandonTask(t)
  \/ \E i \in Ids : EndTask(i) \/ ResumeEnded(i) \/ Close(i)
  \/ \E t \in Tasks, i \in Ids : Lookup(t, i)
  \/ \E t \in Tasks : EndCall(t)

TableSpec == TableInit /\ [][TableNext]_vars

-----------------------------------------------------------------------------
(* Properties.                                                             *)

\* The type invariant of the tables and the locals of the creations.
TableTypeOK ==
  /\ idgen \in Ids
  /\ keys \in [Kinds -> SUBSET Ids]
  /\ entry \in [Ids -> Channels \cup {NoChannel}]
  /\ taskIds \in SUBSET Ids
  /\ creating \in [Tasks -> Kinds \cup {"no"}]
  /\ drawn \in [Tasks -> Ids]
  /\ named \in [Channels -> Ids]
  /\ draws \in [Tasks -> 0..IdSize]
  /\ overtaken \in BOOLEAN

\* An id leads to the channel it was returned for until that channel is closed,
\* and no task is created under the id of one that lives, though an id is drawn
\* long before it is used: unless all the ids are drawn while one creation
\* waits for the exclusive lock.
IdsLead ==
  overtaken \/
    /\ \A c \in channels : entry[named[c]] = c
    /\ \A t \in Waiting : creating[t] = "task" => drawn[t] \notin taskIds
=============================================================================
