----------------------------- MODULE AgentProofs -----------------------------
(***************************************************************************)
(* Proofs about AgentEvents, for any tasks, streams, executions, channel   *)
(* capacity and number of faults: types; with the PostgreSQL store, that   *)
(* an answer is in the log and that AgentEvents implements EventFeed; with *)
(* a store that does not fail, that Service.mu has one owner and that a    *)
(* client misses no event.                                                 *)
(***************************************************************************)
EXTENDS AgentEvents, TLAPS

\* The log l has the event x at its sequence.
LoggedIn(l, x) == x.seq \in DOMAIN l /\ x.state = l[x.seq]
AllLogged(l, events) == \A i \in DOMAIN events : LoggedIn(l, events[i])

\* A call under way is about a task.
HasTask ==
  /\ \A e \in Execs : exec[e].pc # "off" => exec[e].task \in Tasks
  /\ \A s \in Streams : stream[s].pc # "off" => reads[s] \in Tasks

\* An execution fans out, and answers for, what it has appended.
FannedIsLogged ==
  \A e \in Execs :
    /\ exec[e].pc \in {"lock", "fanout", "ok"} => LoggedIn(log[exec[e].task], exec[e].event)
    /\ exec[e].pc = "ok" => exec[e].event.state \in Terminal

\* A stream is sent what the log of its task has.
RegisteredForTask ==
  \A t \in Tasks : \A s \in registered[t] : stream[s].pc # "off" /\ reads[s] = t
BufferIsLogged ==
  \A s \in Streams :
    /\ stream[s].pc = "off" => buffer[s] = <<>> /\ stream[s].replay = <<>> /\ reads[s] = NoTask
    /\ stream[s].pc # "off" => /\ AllLogged(log[reads[s]], buffer[s])
                              /\ AllLogged(log[reads[s]], stream[s].replay)

\* What a handler has sent tells where it is.
SentTells ==
  \A s \in Streams :
    /\ stream[s].pc \in {"off", "lock", "list", "replay", "undo", "unlock"} => shown[s] = <<>>
    /\ stream[s].pc = "read" /\ shown[s] # <<>> => Newest(shown[s]).state \notin Terminal
    /\ stream[s].pc = "finish" => shown[s] # <<>> /\ Newest(shown[s]).state \in Terminal
    /\ s \in ended => stream[s].pc = "closed"

CallsInv == TypeOK /\ HasTask
FeedInv == FannedIsLogged /\ RegisteredForTask /\ BufferIsLogged /\ SentTells
-----------------------------------------------------------------------------
USE AgentAssumption

LEMMA ExecExcept ==
  ASSUME TypeOK, NEW e \in Execs
  PROVE  /\ [exec EXCEPT ![e].gone = TRUE] \in [Execs -> ExecState]
         /\ \A step \in ExecSteps :
              /\ [exec EXCEPT ![e].pc = step] \in [Execs -> ExecState]
              /\ [exec EXCEPT ![e].pc = step, ![e].erred = TRUE] \in [Execs -> ExecState]
              /\ \A t \in Tasks : [exec EXCEPT ![e].pc = step, ![e].task = t] \in [Execs -> ExecState]
              /\ \A n \in Nat \ {0} :
                   [exec EXCEPT ![e].pc = step, ![e].event.seq = n] \in [Execs -> ExecState]
              /\ \A state \in States :
                   /\ [exec EXCEPT ![e].pc = step, ![e].event.state = state] \in [Execs -> ExecState]
                   /\ \A k \in 0..MaxProgress :
                        [exec EXCEPT ![e].pc = step, ![e].event.state = state, ![e].left = k]
                          \in [Execs -> ExecState]
<1>0. exec \in [Execs -> ExecState]
  BY DEF TypeOK
<1>1. exec[e] \in ExecState /\ exec[e].event \in Event
  BY <1>0 DEF ExecState
<1>2. [exec EXCEPT ![e].gone = TRUE] \in [Execs -> ExecState]
  BY <1>0, <1>1 DEF ExecState
<1>3. ASSUME NEW step \in ExecSteps
      PROVE  /\ [exec EXCEPT ![e].pc = step] \in [Execs -> ExecState]
             /\ [exec EXCEPT ![e].pc = step, ![e].erred = TRUE] \in [Execs -> ExecState]
  BY <1>0, <1>1 DEF ExecState
<1>4. ASSUME NEW step \in ExecSteps, NEW t \in Tasks
      PROVE  [exec EXCEPT ![e].pc = step, ![e].task = t] \in [Execs -> ExecState]
  BY <1>0, <1>1 DEF ExecState
<1>5. ASSUME NEW step \in ExecSteps, NEW n \in Nat \ {0}
      PROVE  [exec EXCEPT ![e].pc = step, ![e].event.seq = n] \in [Execs -> ExecState]
  BY <1>0, <1>1 DEF ExecState, Event
<1>6. ASSUME NEW step \in ExecSteps, NEW state \in States
      PROVE  [exec EXCEPT ![e].pc = step, ![e].event.state = state] \in [Execs -> ExecState]
  BY <1>0, <1>1 DEF ExecState, Event
<1>7. ASSUME NEW step \in ExecSteps, NEW state \in States, NEW k \in 0..MaxProgress
      PROVE  [exec EXCEPT ![e].pc = step, ![e].event.state = state, ![e].left = k] \in [Execs -> ExecState]
  BY <1>0, <1>1 DEF ExecState, Event
<1> QED BY <1>2, <1>3, <1>4, <1>5, <1>6, <1>7

LEMMA StreamExcept ==
  ASSUME TypeOK, NEW s \in Streams
  PROVE  /\ [stream EXCEPT ![s].gone = TRUE] \in [Streams -> StreamState]
         /\ \A events \in Seq(Event) : [stream EXCEPT ![s].replay = events] \in [Streams -> StreamState]
         /\ \A step \in StreamSteps :
              /\ [stream EXCEPT ![s].pc = step] \in [Streams -> StreamState]
              /\ \A n \in Nat : [stream EXCEPT ![s].pc = step, ![s].after = n] \in [Streams -> StreamState]
              /\ \A events \in Seq(Event) :
                   [stream EXCEPT ![s].pc = step, ![s].replay = events] \in [Streams -> StreamState]
<1>0. stream \in [Streams -> StreamState]
  BY DEF TypeOK
<1>1. stream[s] \in StreamState
  BY <1>0
<1>2. [stream EXCEPT ![s].gone = TRUE] \in [Streams -> StreamState]
  BY <1>0, <1>1 DEF StreamState
<1>3. ASSUME NEW events \in Seq(Event) PROVE [stream EXCEPT ![s].replay = events] \in [Streams -> StreamState]
  BY <1>0, <1>1 DEF StreamState
<1>4. ASSUME NEW step \in StreamSteps PROVE [stream EXCEPT ![s].pc = step] \in [Streams -> StreamState]
  BY <1>0, <1>1 DEF StreamState
<1>5. ASSUME NEW step \in StreamSteps, NEW n \in Nat
      PROVE  [stream EXCEPT ![s].pc = step, ![s].after = n] \in [Streams -> StreamState]
  BY <1>0, <1>1 DEF StreamState
<1>6. ASSUME NEW step \in StreamSteps, NEW events \in Seq(Event)
      PROVE  [stream EXCEPT ![s].pc = step, ![s].replay = events] \in [Streams -> StreamState]
  BY <1>0, <1>1 DEF StreamState
<1> QED BY <1>2, <1>3, <1>4, <1>5, <1>6

LEMMA BrokenIsState ==
  /\ \A x \in ExecState : Broken(x) \in ExecState
  /\ \A x \in StreamState : Broken(x) \in StreamState
<1>1. ASSUME NEW x \in ExecState PROVE Broken(x) \in ExecState
  BY DEF Broken, ExecState, ExecSteps
<1>2. ASSUME NEW x \in StreamState PROVE Broken(x) \in StreamState
  BY DEF Broken, StreamState, StreamSteps
<1> QED BY <1>1, <1>2

\* TypeOK without the budget, which some actions spend beside their effects.
StateOK ==
  /\ log \in [Tasks -> Seq(States)]
  /\ reads \in [Streams -> Tasks \cup {NoTask}]
  /\ shown \in [Streams -> Seq(Event)]
  /\ ended \subseteq Streams
  /\ locked \in BOOLEAN
  /\ registered \in [Tasks -> SUBSET Streams]
  /\ buffer \in [Streams -> Seq(Event)]
  /\ \A s \in Streams : Len(buffer[s]) <= Capacity
  /\ stream \in [Streams -> StreamState]
  /\ exec \in [Execs -> ExecState]
  /\ seen \in [Tasks -> Nat]

LEMMA TypeDie == ASSUME TypeOK, Die PROVE StateOK'
<1>1. <<>> \in Seq(Event) /\ <<>> \in Seq(States) /\ Len(<<>>) <= Capacity
  OBVIOUS
<1>2. stream' \in [Streams -> StreamState] /\ exec' \in [Execs -> ExecState]
  BY BrokenIsState DEF Die, TypeOK
<1>3. buffer' \in [Streams -> Seq(Event)] /\ \A s \in Streams : Len(buffer'[s]) <= Capacity
  BY <1>1 DEF Die
<1>4. log' \in [Tasks -> Seq(States)] /\ registered' \in [Tasks -> SUBSET Streams] /\ locked' \in BOOLEAN
  BY <1>1 DEF Die, TypeOK
<1>5. StreamState' = StreamState /\ ExecState' = ExecState /\ Event' = Event
  BY DEF StreamState, ExecState, Event
<1> QED BY <1>2, <1>3, <1>4 DEF Die, StateOK, TypeOK

LEMMA EventType ==
  ASSUME TypeOK, NEW e \in Execs
  PROVE  exec[e].event \in Event /\ exec[e].event.seq \in Nat \ {0} /\ exec[e].event.state \in States
         /\ exec[e].left \in 0..MaxProgress
<1>1. exec[e] \in ExecState
  BY DEF TypeOK
<1> QED BY <1>1 DEF ExecState, Event

LEMMA AppendEventType == ASSUME NEW q \in Seq(Event), NEW x \in Event
                         PROVE  Append(q, x) \in Seq(Event) /\ Len(Append(q, x)) = Len(q) + 1 /\ Len(q) \in Nat
  OBVIOUS

LEMMA ExecOnly ==
  ASSUME TypeOK, exec' \in [Execs -> ExecState], log' \in [Tasks -> Seq(States)], locked' \in BOOLEAN,
         UNCHANGED <<reads, shown, ended, registered, buffer, stream, seen>>
  PROVE  StateOK'
  BY DEF TypeOK, StateOK

LEMMA LogType ==
  ASSUME TypeOK, NEW e \in Execs, exec[e].task \in Tasks
  PROVE  /\ Logged(e) \in Seq(States) /\ Len(Logged(e)) \in Nat \ {0}
         /\ [log EXCEPT ![exec[e].task] = Logged(e)] \in [Tasks -> Seq(States)]
<1>1. log[exec[e].task] \in Seq(States) /\ exec[e].event.state \in States
  BY EventType DEF TypeOK
<1>2. Logged(e) \in Seq(States) /\ Len(Logged(e)) \in Nat \ {0}
  BY <1>1 DEF Logged
<1> QED BY <1>2 DEF TypeOK

LEMMA TypeExec ==
  ASSUME TypeOK, NEW e \in Execs, exec[e].pc # "off" => exec[e].task \in Tasks,
         ExecStep(e) \/ CancelCall(e) \/ \E t \in Tasks : ExecuteTask(e, t)
  PROVE  StateOK'
<1>s. \A step \in {"off", "append", "lock", "fanout", "work", "ok", "error", "broken"} : step \in ExecSteps
  BY DEF ExecSteps
<1>t. \A state \in {"running", "progress", "final", "failed"} : state \in States
  BY DEF States
<1>k. log \in [Tasks -> Seq(States)] /\ locked \in BOOLEAN
  BY DEF TypeOK
<1>1. CASE AppendEvent(e)
  <2>1. exec' \in [Execs -> ExecState]
    BY <1>1, <1>s, ExecExcept, LogType DEF AppendEvent
  <2>2. log' \in [Tasks -> Seq(States)]
    BY <1>1, LogType DEF AppendEvent
  <2> QED BY <1>1, <1>k, <2>1, <2>2, ExecOnly DEF AppendEvent
<1>2. CASE AppendFails(e)
  <2>1. exec' \in [Execs -> ExecState]
    BY <1>2, <1>s, ExecExcept DEF AppendFails, AfterAppendError
  <2> QED BY <1>2, <1>k, <2>1, ExecOnly DEF AppendFails
<1>3. CASE AppendReplyLost(e)
  <2>1. exec' \in [Execs -> ExecState]
    BY <1>3, <1>s, ExecExcept DEF AppendReplyLost, AfterAppendError
  <2>2. log' \in [Tasks -> Seq(States)]
    BY <1>3, LogType DEF AppendReplyLost
  <2> QED BY <1>3, <1>k, <2>1, <2>2, ExecOnly DEF AppendReplyLost
<1>4. CASE PublishLock(e)
  <2>1. exec' \in [Execs -> ExecState]
    BY <1>4, <1>s, ExecExcept DEF PublishLock, Goto
  <2> QED BY <1>4, <1>k, <2>1, ExecOnly DEF PublishLock
<1>5. CASE FanOut(e)
  <2>1. CASE locked
    <3> DEFINE hit == {s \in registered[exec[e].task] : Len(buffer[s]) < Capacity}
    <3>1. buffer' = [s \in Streams |-> IF s \in hit THEN Append(buffer[s], exec[e].event) ELSE buffer[s]]
      BY <1>5, <2>1 DEF FanOut, Unlock
    <3>2. ASSUME NEW s \in Streams PROVE buffer'[s] \in Seq(Event) /\ Len(buffer'[s]) <= Capacity
      <4>1. buffer[s] \in Seq(Event) /\ Len(buffer[s]) <= Capacity /\ Len(buffer[s]) \in Nat
        BY DEF TypeOK
      <4>2. CASE s \in hit
        <5>1. buffer'[s] = Append(buffer[s], exec[e].event) /\ Len(buffer[s]) < Capacity
          BY <3>1, <4>2
        <5>2. Len(buffer[s]) + 1 <= Capacity
          BY <4>1, <5>1
        <5> QED BY <4>1, <5>1, <5>2, EventType, AppendEventType
      <4>3. CASE s \notin hit
        BY <3>1, <4>1, <4>3
      <4> QED BY <4>2, <4>3
    <3> HIDE DEF hit
    <3>3. buffer' \in [Streams -> Seq(Event)] /\ \A s \in Streams : Len(buffer'[s]) <= Capacity
      BY <3>1, <3>2
    <3>4. locked' = FALSE /\ UNCHANGED <<log, reads, shown, ended, registered, stream, seen>>
      BY <1>5, <2>1 DEF FanOut, Unlock
    <3>5. PICK step \in ExecSteps : exec' = [exec EXCEPT ![e].pc = step]
      BY <1>5, <1>s, <2>1 DEF FanOut, Unlock, Goto
    <3>6. exec' \in [Execs -> ExecState]
      BY <3>5, ExecExcept
    <3> QED BY <3>3, <3>4, <3>6 DEF TypeOK, StateOK
  <2>2. CASE ~locked
    BY <1>5, <2>2, TypeDie DEF FanOut, Unlock
  <2> QED BY <2>1, <2>2
<1>6. CASE Progress(e)
  <2>1. exec[e].left - 1 \in 0..MaxProgress
    BY <1>6, EventType DEF Progress
  <2>2. exec' = [exec EXCEPT ![e].pc = "append", ![e].event.state = "progress", ![e].left = exec[e].left - 1]
    BY <1>6 DEF Progress, TypeOK
  <2>3. exec' \in [Execs -> ExecState]
    BY <1>s, <1>t, <2>1, <2>2, ExecExcept
  <2> QED BY <1>6, <1>k, <2>3, ExecOnly DEF Progress
<1>7. CASE Respond(e)
  <2>1. CASE exec[e].erred
    <3>1. exec' = [exec EXCEPT ![e].pc = "error"]
      BY <1>7, <2>1 DEF Respond, Goto
    <3>2. exec' \in [Execs -> ExecState]
      BY <1>s, <3>1, ExecExcept
    <3> QED BY <1>7, <1>k, <3>2, ExecOnly DEF Respond
  <2>2. CASE ~exec[e].erred
    <3>1. PICK state \in Terminal : exec' = [exec EXCEPT ![e].pc = "append", ![e].event.state = state]
      BY <1>7, <2>2 DEF Respond, Publish
    <3>2. state \in States
      BY DEF Terminal, States
    <3>3. exec' \in [Execs -> ExecState]
      BY <1>s, <3>1, <3>2, ExecExcept
    <3> QED BY <1>7, <1>k, <3>3, ExecOnly DEF Respond
  <2> QED BY <2>1, <2>2
<1>8. CASE CancelCall(e)
  <2>1. exec[e].pc # "off"
    BY <1>8 DEF CancelCall, Rested
  <2>2. exec' \in [Execs -> ExecState]
    BY <1>8, <2>1, ExecExcept DEF CancelCall
  <2> QED BY <1>8, <1>k, <2>2, ExecOnly DEF CancelCall
<1>9. CASE \E t \in Tasks : ExecuteTask(e, t)
  <2>1. PICK t \in Tasks : ExecuteTask(e, t)
    BY <1>9
  <2>2. exec' = [exec EXCEPT ![e].pc = "append", ![e].task = t]
    BY <2>1 DEF ExecuteTask
  <2>3. exec' \in [Execs -> ExecState]
    BY <1>s, <2>2, ExecExcept
  <2> QED BY <1>k, <2>1, <2>3, ExecOnly DEF ExecuteTask
<1> QED BY <1>1, <1>2, <1>3, <1>4, <1>5, <1>6, <1>7, <1>8, <1>9 DEF ExecStep

LEMMA StreamTypes ==
  ASSUME TypeOK, NEW s \in Streams
  PROVE  /\ buffer[s] \in Seq(Event) /\ shown[s] \in Seq(Event) /\ stream[s].replay \in Seq(Event)
         /\ stream[s].after \in Nat /\ Len(buffer[s]) <= Capacity /\ Len(buffer[s]) \in Nat
<1>1. stream[s] \in StreamState
  BY DEF TypeOK
<1> QED BY <1>1 DEF TypeOK, StreamState

LEMMA HeadTail == ASSUME NEW q \in Seq(Event), q # <<>>
                  PROVE  Head(q) \in Event /\ Tail(q) \in Seq(Event) /\ Len(Tail(q)) = Len(q) - 1
  OBVIOUS

\* What the store lists: the events past the cursor, each at its sequence.
LEMMA Listed ==
  ASSUME TypeOK, NEW t \in Tasks, NEW after \in Nat
  PROVE  /\ EventsAfter(t, after) \in Seq(Event)
         /\ AllLogged(log[t], EventsAfter(t, after))
<1>1. log[t] \in Seq(States) /\ Len(log[t]) \in Nat /\ DOMAIN log[t] = 1..Len(log[t])
  BY DEF TypeOK
<1> DEFINE n == IF Len(log[t]) > after THEN Len(log[t]) - after ELSE 0
<1>2. n \in Nat /\ \A i \in 1..n : after + i \in 1..Len(log[t]) /\ after + i \in Nat \ {0}
  BY <1>1
<1>3. \A i \in 1..n : [seq |-> after + i, state |-> log[t][after + i]] \in Event
  BY <1>1, <1>2 DEF Event
<1>4. EventsAfter(t, after) = [i \in 1..n |-> [seq |-> after + i, state |-> log[t][after + i]]]
  BY DEF EventsAfter
<1> HIDE DEF n
<1>5. EventsAfter(t, after) \in Seq(Event)
  BY <1>2, <1>3, <1>4
<1>6. DOMAIN EventsAfter(t, after) = 1..n
  BY <1>4
<1>7. ASSUME NEW i \in 1..n
      PROVE  LoggedIn(log[t], EventsAfter(t, after)[i])
  <2>1. EventsAfter(t, after)[i] = [seq |-> after + i, state |-> log[t][after + i]]
    BY <1>4
  <2>2. after + i \in DOMAIN log[t]
    BY <1>1, <1>2
  <2> QED BY <2>1, <2>2 DEF LoggedIn
<1> QED BY <1>5, <1>6, <1>7 DEF AllLogged

LEMMA TypeStream ==
  ASSUME TypeOK, NEW s \in Streams, stream[s].pc # "off" => reads[s] \in Tasks,
         StreamStep(s) \/ Disconnect(s) \/ \E t \in Tasks : \E after \in {0, seen[t]} : Subscribe(s, t, after)
  PROVE  StateOK'
<1>s. \A step \in {"off", "lock", "list", "replay", "read", "finish", "leave", "undo", "unlock",
                   "closed", "failed", "broken"} : step \in StreamSteps
  BY DEF StreamSteps
<1>r. ASSUME reads[s] \in Tasks
      PROVE  /\ [registered EXCEPT ![reads[s]] = @ \cup {s}] \in [Tasks -> SUBSET Streams]
             /\ [registered EXCEPT ![reads[s]] = @ \ {s}] \in [Tasks -> SUBSET Streams]
  BY <1>r DEF TypeOK
<1>1. CASE Register(s)
  <2>1. stream' \in [Streams -> StreamState]
    BY <1>1, <1>s, StreamExcept DEF Register, StreamTo
  <2>2. registered' \in [Tasks -> SUBSET Streams]
    BY <1>1, <1>r DEF Register
  <2> QED BY <1>1, <2>1, <2>2 DEF Register, TypeOK, StateOK
<1>2. CASE List(s)
  <2>1. EventsAfter(reads[s], stream[s].after) \in Seq(Event)
    BY <1>2, Listed, StreamTypes DEF List
  <2>2. stream' \in [Streams -> StreamState]
    BY <1>2, <1>s, <2>1, StreamExcept DEF List
  <2> QED BY <1>2, <2>2 DEF List, TypeOK, StateOK
<1>3. CASE Replay(s)
  <2>1. Head(stream[s].replay) \in Event /\ Tail(stream[s].replay) \in Seq(Event)
    BY <1>3, HeadTail, StreamTypes DEF Replay
  <2>2. stream' = [stream EXCEPT ![s].replay = Tail(stream[s].replay)]
    BY <1>3 DEF Replay, TypeOK
  <2>3. stream' \in [Streams -> StreamState]
    BY <2>1, <2>2, StreamExcept
  <2>4. Append(buffer[s], Head(stream[s].replay)) \in Seq(Event)
        /\ Len(Append(buffer[s], Head(stream[s].replay))) <= Capacity
    <3>1. Len(buffer[s]) + 1 <= Capacity
      BY <1>3, StreamTypes DEF Replay
    <3> QED BY <2>1, <3>1, AppendEventType, StreamTypes
  <2>5. buffer' \in [Streams -> Seq(Event)] /\ \A r \in Streams : Len(buffer'[r]) <= Capacity
    BY <1>3, <2>4 DEF Replay, TypeOK
  <2> QED BY <1>3, <2>3, <2>5 DEF Replay, TypeOK, StateOK
<1>4. CASE Replayed(s)
  <2>1. CASE locked
    <3>1. stream' = [stream EXCEPT ![s].pc = "read"]
      BY <1>4, <2>1 DEF Replayed, StreamTo, Unlock
    <3>2. stream' \in [Streams -> StreamState]
      BY <1>s, <3>1, StreamExcept
    <3> QED BY <1>4, <2>1, <3>2 DEF Replayed, Unlock, TypeOK, StateOK
  <2>2. CASE ~locked
    BY <1>4, <2>2, TypeDie DEF Replayed, Unlock
  <2> QED BY <2>1, <2>2
<1>5. CASE ListFails(s)
  <2>1. CASE locked
    <3>1. stream' = [stream EXCEPT ![s].pc = "undo"]
      BY <1>5, <2>1 DEF ListFails, StreamTo, Unlock
    <3>2. stream' \in [Streams -> StreamState]
      BY <1>s, <3>1, StreamExcept
    <3> QED BY <1>5, <2>1, <3>2 DEF ListFails, Unlock, TypeOK, StateOK
  <2>2. CASE ~locked
    BY <1>5, <2>2, TypeDie DEF ListFails, Unlock
  <2> QED BY <2>1, <2>2
<1>6. CASE Undo(s)
  <2>1. CASE Die
    BY <2>1, TypeDie
  <2>2. CASE ~Die
    <3>1. /\ stream' = [stream EXCEPT ![s].pc = "unlock"]
          /\ registered' = [registered EXCEPT ![reads[s]] = @ \ {s}]
          /\ reads[s] \in Tasks
          /\ UNCHANGED <<log, reads, shown, ended, locked, buffer, exec, seen>>
      BY <1>6, <2>2 DEF Undo, StreamTo
    <3>2. stream' \in [Streams -> StreamState] /\ registered' \in [Tasks -> SUBSET Streams]
      BY <1>r, <1>s, <3>1, StreamExcept
    <3> QED BY <3>1, <3>2 DEF TypeOK, StateOK
  <2> QED BY <2>1, <2>2
<1>7. CASE UnlockAgain(s)
  <2>1. CASE locked
    <3>1. stream' = [stream EXCEPT ![s].pc = "failed"]
      BY <1>7, <2>1 DEF UnlockAgain, StreamTo, Unlock
    <3>2. stream' \in [Streams -> StreamState]
      BY <1>s, <3>1, StreamExcept
    <3> QED BY <1>7, <2>1, <3>2 DEF UnlockAgain, Unlock, TypeOK, StateOK
  <2>2. CASE ~locked
    BY <1>7, <2>2, TypeDie DEF UnlockAgain, Unlock
  <2> QED BY <2>1, <2>2
<1>b. buffer[s] # <<>> => /\ [buffer EXCEPT ![s] = Tail(@)] \in [Streams -> Seq(Event)]
                         /\ \A r \in Streams : Len([buffer EXCEPT ![s] = Tail(@)][r]) <= Capacity
  <2> SUFFICES ASSUME buffer[s] # <<>>
               PROVE  /\ [buffer EXCEPT ![s] = Tail(@)] \in [Streams -> Seq(Event)]
                      /\ \A r \in Streams : Len([buffer EXCEPT ![s] = Tail(@)][r]) <= Capacity
    OBVIOUS
  <2>1. Tail(buffer[s]) \in Seq(Event) /\ Len(Tail(buffer[s])) <= Capacity
    BY HeadTail, StreamTypes
  <2> QED BY <2>1 DEF TypeOK
<1>8. CASE Skip(s)
  BY <1>8, <1>b DEF Skip, TypeOK, StateOK
<1>9. CASE Send(s)
  <2>1. Head(buffer[s]) \in Event /\ Head(buffer[s]).seq \in Nat
    BY <1>9, HeadTail, StreamTypes DEF Send, Event
  <2>2. shown' \in [Streams -> Seq(Event)]
    <3>1. Append(shown[s], Head(buffer[s])) \in Seq(Event)
      BY <2>1, StreamTypes
    <3> QED BY <1>9, <3>1 DEF Send, Deliver, TypeOK
  <2>3. stream' \in [Streams -> StreamState]
    <3>1. PICK step \in StreamSteps : stream' = [stream EXCEPT ![s].pc = step]
      BY <1>9, <1>s DEF Send, Deliver, StreamTo
    <3> QED BY <3>1, StreamExcept
  <2>4. seen' \in [Tasks -> Nat]
    BY <1>9, <2>1 DEF Send, Deliver, TypeOK
  <2>5. buffer' \in [Streams -> Seq(Event)] /\ \A r \in Streams : Len(buffer'[r]) <= Capacity
    BY <1>9, <1>b DEF Send, Deliver
  <2> QED BY <1>9, <2>2, <2>3, <2>4, <2>5 DEF Send, Deliver, TypeOK, StateOK
<1>10. CASE Leave(s)
  <2>1. stream' \in [Streams -> StreamState]
    BY <1>10, <1>s, StreamExcept DEF Leave, StreamTo
  <2> QED BY <1>10, <2>1 DEF Leave, TypeOK, StateOK
<1>11. CASE Unregister(s)
  <2>1. stream' \in [Streams -> StreamState]
    BY <1>11, <1>s, StreamExcept DEF Unregister, StreamTo
  <2>2. registered' \in [Tasks -> SUBSET Streams]
    BY <1>11, <1>r DEF Unregister
  <2> QED BY <1>11, <2>1, <2>2 DEF Unregister, TypeOK, StateOK
<1>12. CASE Disconnect(s)
  <2>1. stream' \in [Streams -> StreamState]
    BY <1>12, StreamExcept DEF Disconnect
  <2> QED BY <1>12, <2>1 DEF Disconnect, TypeOK, StateOK
<1>13. ASSUME NEW t \in Tasks, NEW after \in {0, seen[t]}, Subscribe(s, t, after) PROVE StateOK'
  <2>1. stream' \in [Streams -> StreamState]
    <3>1. after \in Nat
      BY <1>13 DEF TypeOK
    <3> QED BY <1>13, <1>s, <3>1, StreamExcept DEF Subscribe
  <2> QED BY <1>13, <2>1 DEF Subscribe, TypeOK, StateOK
<1> QED BY <1>1, <1>2, <1>3, <1>4, <1>5, <1>6, <1>7, <1>8, <1>9, <1>10, <1>11, <1>12, <1>13 DEF StreamStep
-----------------------------------------------------------------------------
ExecAct(e) == ExecStep(e) \/ CancelCall(e) \/ \E t \in Tasks : ExecuteTask(e, t)
StreamAct(s) ==
  \/ StreamStep(s) \/ Disconnect(s)
  \/ \E t \in Tasks : \E after \in {0, seen[t]} : Subscribe(s, t, after)

\* One call moves, and the others keep their place; or the process dies.
LEMMA OtherExecs ==
  ASSUME TypeOK, NEW e \in Execs, ExecAct(e)
  PROVE  \/ Die
         \/ /\ stream' = stream /\ reads' = reads /\ shown' = shown /\ ended' = ended
            /\ registered' = registered
            /\ FanOut(e) \/ buffer' = buffer
            /\ \A f \in Execs : f # e => exec'[f] = exec[f]
<1> USE DEF TypeOK, Goto, Publish
<1>1. CASE FanOut(e)
  BY <1>1 DEF FanOut, Unlock
<1>2. CASE AppendEvent(e) \/ AppendFails(e) \/ AppendReplyLost(e)
  BY <1>2 DEF AppendEvent, AppendFails, AppendReplyLost, AfterAppendError
<1>3. CASE PublishLock(e) \/ Progress(e) \/ Respond(e) \/ CancelCall(e)
  BY <1>3 DEF PublishLock, Progress, Respond, CancelCall
<1>4. CASE \E t \in Tasks : ExecuteTask(e, t)
  BY <1>4 DEF ExecuteTask
<1> QED BY <1>1, <1>2, <1>3, <1>4 DEF ExecAct, ExecStep

LEMMA OtherStreams ==
  ASSUME TypeOK, NEW s \in Streams, StreamAct(s)
  PROVE  \/ Die
         \/ /\ exec' = exec /\ log' = log
            /\ \A r \in Streams : r # s => /\ stream'[r] = stream[r] /\ reads'[r] = reads[r]
                                          /\ buffer'[r] = buffer[r] /\ shown'[r] = shown[r]
<1> USE DEF TypeOK, StreamTo
<1>1. CASE Register(s) \/ List(s) \/ Replay(s)
  BY <1>1 DEF Register, List, Replay
<1>2. CASE Replayed(s) \/ ListFails(s) \/ Undo(s) \/ UnlockAgain(s)
  BY <1>2 DEF Replayed, ListFails, Undo, UnlockAgain, Unlock
<1>3. CASE Skip(s) \/ Send(s)
  BY <1>3 DEF Skip, Send, Deliver
<1>4. CASE Leave(s) \/ Unregister(s) \/ Disconnect(s)
  BY <1>4 DEF Leave, Unregister, Disconnect
<1>5. CASE \E t \in Tasks : \E after \in {0, seen[t]} : Subscribe(s, t, after)
  BY <1>5 DEF Subscribe
<1> QED BY <1>1, <1>2, <1>3, <1>4, <1>5 DEF StreamAct, StreamStep

\* Where a step leaves the execution that takes it.
LEMMA ExecMoves ==
  ASSUME TypeOK, NEW e \in Execs
  PROVE  /\ AppendEvent(e) =>
              /\ exec'[e].pc = "lock" /\ exec'[e].task = exec[e].task
              /\ exec'[e].event.seq = Len(Logged(e)) /\ exec'[e].event.state = exec[e].event.state
         /\ AppendFails(e) \/ AppendReplyLost(e) =>
              exec'[e].pc \in {"work", "error"} /\ exec'[e].task = exec[e].task
         /\ PublishLock(e) => exec[e].pc = "lock" /\ exec'[e].pc = "fanout" /\ exec'[e].task = exec[e].task
                               /\ exec'[e].event = exec[e].event
         /\ FanOut(e) => Die \/ /\ exec[e].pc = "fanout" /\ exec'[e].task = exec[e].task
                                /\ exec'[e].event = exec[e].event
                                /\ \/ exec'[e].pc = "ok" /\ exec[e].event.state \in Terminal
                                   \/ exec'[e].pc = "work"
         /\ Progress(e) \/ Respond(e) =>
              exec'[e].pc \in {"append", "error"} /\ exec'[e].task = exec[e].task
         /\ CancelCall(e) => /\ exec'[e].pc = exec[e].pc /\ exec'[e].task = exec[e].task
                             /\ exec'[e].event = exec[e].event
         /\ \A t \in Tasks : ExecuteTask(e, t) => exec'[e].pc = "append" /\ exec'[e].task = t
<1>0. exec \in [Execs -> ExecState] /\ exec[e] \in ExecState /\ exec[e].event \in Event
  BY DEF TypeOK, ExecState
<1>1. AppendEvent(e) =>
        /\ exec'[e].pc = "lock" /\ exec'[e].task = exec[e].task
        /\ exec'[e].event.seq = Len(Logged(e)) /\ exec'[e].event.state = exec[e].event.state
  BY <1>0 DEF AppendEvent, ExecState, Event
<1>2. AppendFails(e) \/ AppendReplyLost(e) =>
        exec'[e].pc \in {"work", "error"} /\ exec'[e].task = exec[e].task
  BY <1>0 DEF AppendFails, AppendReplyLost, AfterAppendError, ExecState
<1>3. PublishLock(e) => exec[e].pc = "lock" /\ exec'[e].pc = "fanout" /\ exec'[e].task = exec[e].task
                        /\ exec'[e].event = exec[e].event
  BY <1>0 DEF PublishLock, Goto, ExecState
<1>4. ASSUME FanOut(e), ~Die
      PROVE  /\ exec[e].pc = "fanout" /\ exec'[e].task = exec[e].task
             /\ exec'[e].event = exec[e].event
             /\ \/ exec'[e].pc = "ok" /\ exec[e].event.state \in Terminal
                \/ exec'[e].pc = "work"
  <2>1. /\ exec[e].pc = "fanout"
        /\ exec' = [exec EXCEPT ![e].pc = IF exec[e].event.state \in Terminal THEN "ok" ELSE "work"]
    BY <1>4 DEF FanOut, Unlock, Goto
  <2> QED BY <1>0, <2>1 DEF ExecState
<1>5. Progress(e) \/ Respond(e) =>
        exec'[e].pc \in {"append", "error"} /\ exec'[e].task = exec[e].task
  <2>1. Progress(e) => exec'[e].pc = "append" /\ exec'[e].task = exec[e].task
    BY <1>0 DEF Progress, ExecState, Event
  <2>2. ASSUME Respond(e), exec[e].erred PROVE exec'[e].pc = "error" /\ exec'[e].task = exec[e].task
    BY <1>0, <2>2 DEF Respond, Goto, ExecState
  <2>3. ASSUME Respond(e), ~exec[e].erred PROVE exec'[e].pc = "append" /\ exec'[e].task = exec[e].task
    BY <1>0, <2>3 DEF Respond, Publish, ExecState, Event
  <2> QED BY <2>1, <2>2, <2>3
<1>6. CancelCall(e) => /\ exec'[e].pc = exec[e].pc /\ exec'[e].task = exec[e].task
                       /\ exec'[e].event = exec[e].event
  BY <1>0 DEF CancelCall, ExecState
<1>7. ASSUME NEW t \in Tasks, ExecuteTask(e, t) PROVE exec'[e].pc = "append" /\ exec'[e].task = t
  BY <1>0, <1>7 DEF ExecuteTask, ExecState
<1> QED BY <1>1, <1>2, <1>3, <1>4, <1>5, <1>6, <1>7

LEMMA BudgetType == ASSUME TypeOK, [Next]_vars
                    PROVE  budget' \in [faults : Nat, cancels : Nat, crashes : Nat]
<1>0. budget \in [faults : Nat, cancels : Nat, crashes : Nat]
  BY DEF TypeOK
<1>1. \A kind \in {"faults", "cancels", "crashes"} :
        Spend(kind) => budget' \in [faults : Nat, cancels : Nat, crashes : Nat]
  BY <1>0 DEF Spend
<1>2. \/ budget' = budget
      \/ \E kind \in {"faults", "cancels", "crashes"} : Spend(kind)
  <2>1. CASE \E e \in Execs : ExecAct(e)
    BY <2>1 DEF ExecAct, ExecStep, AppendEvent, AppendFails, AppendReplyLost, PublishLock, FanOut,
       Progress, Respond, CancelCall, ExecuteTask
  <2>2. CASE \E s \in Streams : StreamAct(s)
    BY <2>2 DEF StreamAct, StreamStep, Register, List, Replay, Replayed, ListFails, Undo, UnlockAgain,
       Skip, Send, Deliver, Leave, Unregister, Disconnect, Subscribe
  <2>3. CASE Crash
    BY <2>3 DEF Crash
  <2>4. CASE UNCHANGED vars
    BY <2>4 DEF vars
  <2> QED BY <2>1, <2>2, <2>3, <2>4 DEF Next, ExecAct, StreamAct
<1> QED BY <1>0, <1>1, <1>2

LEMMA TaskDie == ASSUME CallsInv, Die PROVE HasTask'
<1>1. \A e \in Execs : exec'[e].pc # "off" => exec[e].pc # "off" /\ exec'[e].task = exec[e].task
  <2> SUFFICES ASSUME NEW e \in Execs
               PROVE  exec'[e].pc # "off" => exec[e].pc # "off" /\ exec'[e].task = exec[e].task
    OBVIOUS
  <2>1. exec'[e] = Broken(exec[e]) /\ exec[e] \in ExecState
    BY DEF Die, CallsInv, TypeOK
  <2> QED BY <2>1 DEF Broken, Rested, ExecState
<1>2. \A s \in Streams : stream'[s].pc # "off" => stream[s].pc # "off"
  <2> SUFFICES ASSUME NEW s \in Streams PROVE stream'[s].pc # "off" => stream[s].pc # "off"
    OBVIOUS
  <2>1. stream'[s] = Broken(stream[s])
    BY DEF Die
  <2> QED BY <2>1 DEF Broken, Rested
<1> QED BY <1>1, <1>2 DEF Die, HasTask, CallsInv

LEMMA CallsStep == CallsInv /\ [Next]_vars => CallsInv'
<1> SUFFICES ASSUME CallsInv, [Next]_vars PROVE CallsInv'
  OBVIOUS
<1> USE DEF CallsInv
<1>1. CASE Die
  BY <1>1, TypeDie, BudgetType, TaskDie DEF StateOK, TypeOK
<1>2. ASSUME NEW e \in Execs, ExecAct(e), ~Die PROVE CallsInv'
  <2>1. StateOK'
    BY <1>2, TypeExec DEF HasTask, ExecAct
  <2>2. exec'[e].pc # "off" => exec'[e].task \in Tasks
    <3>1. CASE \E t \in Tasks : ExecuteTask(e, t)
      BY <3>1, ExecMoves
    <3>2. CASE ExecStep(e) \/ CancelCall(e)
      <4>1. exec[e].pc # "off"
        BY <3>2 DEF ExecStep, AppendEvent, AppendFails, AppendReplyLost, PublishLock, FanOut,
           Progress, Respond, CancelCall, Rested
      <4>2. exec'[e].task = exec[e].task
        BY <1>2, <3>2, ExecMoves DEF ExecStep
      <4> QED BY <4>1, <4>2 DEF HasTask
    <3> QED BY <1>2, <3>1, <3>2 DEF ExecAct
  <2>3. HasTask'
    BY <1>2, <2>2, OtherExecs DEF HasTask
  <2> QED BY <2>1, <2>3, BudgetType DEF StateOK, TypeOK
<1>3. ASSUME NEW s \in Streams, StreamAct(s), ~Die PROVE CallsInv'
  <2>1. StateOK'
    BY <1>3, TypeStream DEF HasTask, StreamAct
  <2>2. stream'[s].pc # "off" => reads'[s] \in Tasks
    <3>1. CASE \E t \in Tasks : \E after \in {0, seen[t]} : Subscribe(s, t, after)
      BY <3>1 DEF Subscribe, TypeOK
    <3>2. CASE StreamStep(s) \/ Disconnect(s)
      <4>1. stream[s].pc # "off"
        BY <3>2 DEF StreamStep, Register, List, Replay, Replayed, ListFails, Undo, UnlockAgain,
           Skip, Send, Leave, Unregister, Disconnect, Rested
      <4>2. reads' = reads
        BY <1>3, <3>2 DEF StreamStep, Register, List, Replay, Replayed, ListFails, Undo, UnlockAgain,
           Skip, Send, Deliver, Leave, Unregister, Disconnect, Unlock
      <4> QED BY <4>1, <4>2 DEF HasTask
    <3> QED BY <1>3, <3>1, <3>2 DEF StreamAct
  <2>3. HasTask'
    BY <1>3, <2>2, OtherStreams DEF HasTask
  <2> QED BY <2>1, <2>3, BudgetType DEF StateOK, TypeOK
<1>4. CASE UNCHANGED vars
  BY <1>4 DEF vars, TypeOK, HasTask
<1> QED BY <1>1, <1>2, <1>3, <1>4 DEF Next, ExecAct, StreamAct, Crash
-----------------------------------------------------------------------------
(* Every step is a step of EventFeed, or none.                             *)

LEMMA LoggedHeadTail ==
  ASSUME NEW l, NEW q \in Seq(Event), q # <<>>, AllLogged(l, q)
  PROVE  Head(q) \in Event /\ LoggedIn(l, Head(q)) /\ AllLogged(l, Tail(q))
<1>1. 1 \in DOMAIN q /\ Head(q) = q[1] /\ Head(q) \in Event
  OBVIOUS
<1>2. \A i \in DOMAIN Tail(q) : i + 1 \in DOMAIN q /\ Tail(q)[i] = q[i + 1]
  OBVIOUS
<1> QED BY <1>1, <1>2 DEF AllLogged

LEMMA LoggedAppend ==
  ASSUME NEW l, NEW q \in Seq(Event), NEW x \in Event, AllLogged(l, q), LoggedIn(l, x)
  PROVE  AllLogged(l, Append(q, x))
<1>1. \A i \in DOMAIN Append(q, x) : (i \in DOMAIN q /\ Append(q, x)[i] = q[i]) \/ Append(q, x)[i] = x
  OBVIOUS
<1> QED BY <1>1 DEF AllLogged

LEMMA LogExtended ==
  ASSUME NEW l \in Seq(States), NEW state \in States
  PROVE  /\ \A x : LoggedIn(l, x) => LoggedIn(Append(l, state), x)
         /\ \A q : AllLogged(l, q) => AllLogged(Append(l, state), q)
         /\ \A x : x.seq = Len(Append(l, state)) /\ x.state = state => LoggedIn(Append(l, state), x)
<1>1. /\ \A i \in DOMAIN l : i \in DOMAIN Append(l, state) /\ Append(l, state)[i] = l[i]
      /\ Len(Append(l, state)) \in DOMAIN Append(l, state)
      /\ Append(l, state)[Len(Append(l, state))] = state
  OBVIOUS
<1> QED BY <1>1, Zenon DEF LoggedIn, AllLogged

LEMMA NewestType == ASSUME NEW q \in Seq(Event), q # <<>> PROVE Newest(q) \in Event
<1>1. Len(q) \in DOMAIN q
  OBVIOUS
<1> QED BY <1>1 DEF Newest

LEMMA NewestAppended == ASSUME NEW q \in Seq(Event), NEW x \in Event
                        PROVE  Newest(Append(q, x)) = x /\ Append(q, x) # <<>>
<1>1. Len(Append(q, x)) = Len(q) + 1 /\ Len(q) \in Nat /\ Append(q, x)[Len(q) + 1] = x
  OBVIOUS
<1> QED BY <1>1 DEF Newest

LEMMA SendShows ==
  ASSUME CallsInv, FeedInv, NEW s \in Streams, Send(s)
  PROVE  reads[s] # NoTask /\ \E i \in DOMAIN log[reads[s]] : Show(s, i)
<1>1. stream[s].pc = "read" /\ buffer[s] # <<>> /\ buffer[s] \in Seq(Event)
  BY StreamTypes DEF Send, CallsInv
<1>2. reads[s] \in Tasks /\ AllLogged(log[reads[s]], buffer[s])
  BY <1>1 DEF CallsInv, HasTask, FeedInv, BufferIsLogged
<1> DEFINE x == Head(buffer[s])
<1>3. x \in Event /\ LoggedIn(log[reads[s]], x)
  BY <1>1, <1>2, LoggedHeadTail
<1>4. x = [seq |-> x.seq, state |-> log[reads[s]][x.seq]] /\ x.seq \in DOMAIN log[reads[s]]
  BY <1>3 DEF Event, LoggedIn
<1>5. shown' = [shown EXCEPT ![s] = Append(@, x)] /\ UNCHANGED <<log, reads, ended>>
  BY DEF Send, Deliver
<1>6. shown[s] # <<>> => Newest(shown[s]).seq < x.seq
  <2> SUFFICES ASSUME shown[s] # <<>> PROVE Newest(shown[s]).seq < x.seq
    OBVIOUS
  <2>1. shown[s] \in Seq(Event)
    BY DEF CallsInv, TypeOK
  <2>2. Newest(shown[s]).seq \in Nat
    BY <2>1, NewestType DEF Event
  <2>3. x.seq > Newest(shown[s]).seq
    BY DEF Send, LastSequence
  <2> QED BY <1>3, <2>2, <2>3 DEF Event
<1>7. s \notin ended /\ (shown[s] # <<>> => Newest(shown[s]).state \notin Terminal)
  BY <1>1 DEF FeedInv, SentTells
<1> HIDE DEF x
<1>8. Show(s, x.seq)
  BY <1>4, <1>5, <1>6, <1>7 DEF Show
<1> QED BY <1>2, <1>4, <1>8

LEMMA FeedStep == ASSUME Durable, CallsInv, FeedInv, [Next]_vars PROVE [FeedNext]_feedVars
<1> USE DEF feedVars
<1>1. CASE Die
  BY <1>1 DEF Die
<1>2. ASSUME NEW e \in Execs, ExecAct(e), ~Die PROVE [FeedNext]_feedVars
  <2>1. CASE AppendEvent(e) \/ AppendReplyLost(e)
    <3>1. exec[e].task \in Tasks /\ exec[e].event.state \in States
      BY <2>1, EventType DEF AppendEvent, AppendReplyLost, CallsInv, HasTask
    <3>2. log' = [log EXCEPT ![exec[e].task] = Append(@, exec[e].event.state)] /\ UNCHANGED <<reads, shown, ended>>
      BY <2>1, <3>1 DEF AppendEvent, AppendReplyLost, Logged
    <3>3. Record(exec[e].task, exec[e].event.state)
      BY <3>2 DEF Record
    <3> QED BY <3>1, <3>3 DEF FeedNext
  <2>2. CASE FanOut(e)
    BY <1>2, <2>2 DEF FanOut, Unlock
  <2>3. CASE ~(AppendEvent(e) \/ AppendReplyLost(e) \/ FanOut(e))
    BY <1>2, <2>3 DEF ExecAct, ExecStep, AppendFails, PublishLock, Progress, Respond, CancelCall, ExecuteTask
  <2> QED BY <2>1, <2>2, <2>3
<1>3. ASSUME NEW s \in Streams, StreamAct(s), ~Die PROVE [FeedNext]_feedVars
  <2>1. CASE Send(s)
    BY <2>1, SendShows DEF FeedNext
  <2>2. ASSUME NEW t \in Tasks, NEW after \in {0, seen[t]}, Subscribe(s, t, after) PROVE [FeedNext]_feedVars
    <3>1. Open(s, t)
      BY <2>2 DEF Open, Subscribe, FeedInv, BufferIsLogged
    <3> QED BY <3>1 DEF FeedNext
  <2>3. CASE Unregister(s)
    <3>1. CASE stream[s].pc = "finish"
      <4>1. End(s)
        BY <2>3, <3>1 DEF Unregister, End, FeedInv, SentTells
      <4> QED BY <4>1 DEF FeedNext
    <3>2. CASE stream[s].pc # "finish"
      BY <2>3, <3>2 DEF Unregister
    <3> QED BY <3>1, <3>2
  <2>4. CASE Replayed(s) \/ ListFails(s) \/ Undo(s) \/ UnlockAgain(s)
    BY <1>3, <2>4 DEF Replayed, ListFails, Undo, UnlockAgain, Unlock
  <2>5. CASE Register(s) \/ List(s) \/ Replay(s) \/ Skip(s) \/ Leave(s) \/ Disconnect(s)
    BY <2>5 DEF Register, List, Replay, Skip, Leave, Disconnect
  <2> QED BY <1>3, <2>1, <2>2, <2>3, <2>4, <2>5 DEF StreamAct, StreamStep
<1>4. CASE UNCHANGED vars
  BY <1>4 DEF vars
<1> QED BY <1>1, <1>2, <1>3, <1>4 DEF Next, ExecAct, StreamAct, Crash

\* A log only grows: what was logged stays where it was.
LEMMA LogGrows ==
  ASSUME Durable, CallsInv, FeedInv, [Next]_vars, NEW t \in Tasks
  PROVE  /\ \A x : LoggedIn(log[t], x) => LoggedIn(log'[t], x)
         /\ \A q : AllLogged(log[t], q) => AllLogged(log'[t], q)
<1>1. log' = log \/ \E u \in Tasks, state \in States : Record(u, state)
  BY FeedStep DEF FeedNext, feedVars, Open, Show, End
<1>2. ASSUME NEW u \in Tasks, NEW state \in States, Record(u, state)
      PROVE  log'[t] = log[t] \/ log'[t] = Append(log[t], state)
  BY <1>2 DEF Record, CallsInv, TypeOK
<1>3. log[t] \in Seq(States)
  BY DEF CallsInv, TypeOK
<1> QED BY <1>1, <1>2, <1>3, LogExtended
-----------------------------------------------------------------------------
LEMMA FannedStep ==
  ASSUME Durable, CallsInv, FeedInv, [Next]_vars
  PROVE  FannedIsLogged'
<1> SUFFICES ASSUME NEW e \in Execs
             PROVE  /\ exec'[e].pc \in {"lock", "fanout", "ok"} => LoggedIn(log'[exec'[e].task], exec'[e].event)
                    /\ exec'[e].pc = "ok" => exec'[e].event.state \in Terminal
  BY DEF FannedIsLogged, LoggedIn
<1> DEFINE Fanned(x, l) == /\ x.pc \in {"lock", "fanout", "ok"} => LoggedIn(l[x.task], x.event)
                           /\ x.pc = "ok" => x.event.state \in Terminal
<1>1. Fanned(exec[e], log)
  BY DEF FeedInv, FannedIsLogged
<1>2. exec[e].pc \in {"lock", "fanout", "ok"} => exec[e].task \in Tasks
  BY DEF CallsInv, HasTask
<1>3. Fanned(exec[e], log')
  BY <1>1, <1>2, LogGrows
<1>4. ASSUME exec'[e] = exec[e] PROVE Fanned(exec'[e], log')
  BY <1>3, <1>4
<1>5. CASE Die
  <2>1. exec'[e] = Broken(exec[e]) /\ exec[e] \in ExecState
    BY <1>5 DEF Die, CallsInv, TypeOK
  <2>2. exec'[e] = exec[e] \/ exec'[e].pc = "broken"
    BY <2>1 DEF Broken, ExecState
  <2> QED BY <1>4, <2>2
<1>6. ASSUME ExecAct(e), ~Die PROVE Fanned(exec'[e], log')
  <2>1. CASE AppendEvent(e)
    <3>1. exec[e].task \in Tasks /\ log[exec[e].task] \in Seq(States) /\ exec[e].event.state \in States
      BY <2>1, EventType DEF AppendEvent, CallsInv, HasTask, TypeOK
    <3>2. log'[exec[e].task] = Append(log[exec[e].task], exec[e].event.state)
      BY <2>1, <3>1 DEF AppendEvent, Logged, CallsInv, TypeOK
    <3>3. /\ exec'[e].pc = "lock" /\ exec'[e].task = exec[e].task
          /\ exec'[e].event.seq = Len(Append(log[exec[e].task], exec[e].event.state))
          /\ exec'[e].event.state = exec[e].event.state
      BY <2>1, ExecMoves DEF CallsInv, Logged
    <3> QED BY <3>1, <3>2, <3>3, LogExtended
  <2>2. CASE PublishLock(e)
    BY <1>3, <2>2, ExecMoves DEF CallsInv
  <2>3. CASE FanOut(e)
    BY <1>3, <1>6, <2>3, ExecMoves DEF CallsInv
  <2>4. CASE CancelCall(e)
    BY <1>3, <2>4, ExecMoves DEF CallsInv
  <2>5. CASE AppendFails(e) \/ AppendReplyLost(e) \/ Progress(e) \/ Respond(e) \/ \E t \in Tasks : ExecuteTask(e, t)
    BY <2>5, ExecMoves DEF CallsInv
  <2> QED BY <1>6, <2>1, <2>2, <2>3, <2>4, <2>5 DEF ExecAct, ExecStep
<1>7. ASSUME NEW f \in Execs, f # e, ExecAct(f), ~Die PROVE Fanned(exec'[e], log')
  BY <1>4, <1>7, OtherExecs DEF CallsInv
<1>8. ASSUME NEW s \in Streams, StreamAct(s), ~Die PROVE Fanned(exec'[e], log')
  BY <1>4, <1>8, OtherStreams DEF CallsInv
<1>9. CASE UNCHANGED vars
  BY <1>4, <1>9 DEF vars
<1>10. Fanned(exec'[e], log')
  BY <1>4, <1>5, <1>6, <1>7, <1>8, <1>9 DEF Next, ExecAct, StreamAct, Crash
<1> QED BY <1>10

\* Where a step leaves the stream that takes it.
LEMMA StreamMoves ==
  ASSUME TypeOK, NEW s \in Streams, StreamAct(s), ~Die
  PROVE  \/ Subscribe(s, reads'[s], stream'[s].after) /\ stream[s].pc = "off" /\ stream'[s].pc = "lock"
            /\ reads'[s] \in Tasks /\ stream'[s].replay = stream[s].replay
         \/ /\ reads' = reads /\ stream[s].pc # "off" /\ stream'[s].pc # "off"
            /\ stream'[s].after = stream[s].after
            /\ \/ List(s) /\ stream'[s].pc = "replay"
               \/ stream'[s].replay = stream[s].replay
               \/ Replay(s) /\ stream'[s].replay = Tail(stream[s].replay) /\ stream'[s].pc = "replay"
            /\ \/ buffer' = buffer
               \/ Skip(s) \/ Send(s) \/ Replay(s)
<1>0. stream \in [Streams -> StreamState] /\ stream[s] \in StreamState
  BY DEF TypeOK
<1>r. reads \in [Streams -> Tasks \cup {NoTask}]
  BY DEF TypeOK
<1> USE <1>0 DEF StreamState, StreamTo
<1>1. CASE Register(s)
  BY <1>1 DEF Register
<1>2. CASE List(s)
  BY <1>2 DEF List
<1>3. CASE Replay(s)
  BY <1>3 DEF Replay
<1>4. CASE Replayed(s)
  BY <1>4 DEF Replayed, Unlock
<1>5. CASE ListFails(s)
  BY <1>5 DEF ListFails, Unlock
<1>6. CASE Undo(s)
  BY <1>6 DEF Undo
<1>7. CASE UnlockAgain(s)
  BY <1>7 DEF UnlockAgain, Unlock
<1>8. CASE Skip(s)
  BY <1>8 DEF Skip
<1>9. CASE Send(s)
  BY <1>9 DEF Send, Deliver
<1>10. CASE Leave(s)
  BY <1>10 DEF Leave
<1>11. CASE Unregister(s)
  BY <1>11 DEF Unregister
<1>12. CASE Disconnect(s)
  BY <1>12 DEF Disconnect, Rested
<1>13. ASSUME NEW t \in Tasks, NEW after \in {0, seen[t]}, Subscribe(s, t, after)
       PROVE  Subscribe(s, reads'[s], stream'[s].after) /\ stream[s].pc = "off" /\ stream'[s].pc = "lock"
              /\ reads'[s] \in Tasks /\ stream'[s].replay = stream[s].replay
  <2>1. reads'[s] = t /\ stream'[s].after = after /\ stream'[s].pc = "lock" /\ stream[s].pc = "off"
        /\ stream'[s].replay = stream[s].replay
    BY <1>r, <1>13 DEF Subscribe
  <2> QED BY <1>13, <2>1
<1> QED BY <1>1, <1>2, <1>3, <1>4, <1>5, <1>6, <1>7, <1>8, <1>9, <1>10, <1>11, <1>12, <1>13
     DEF StreamAct, StreamStep

LEMMA BrokenStays ==
  ASSUME TypeOK, Die, NEW s \in Streams
  PROVE  /\ (stream'[s].pc = "off") <=> (stream[s].pc = "off")
         /\ stream'[s].replay = stream[s].replay
         /\ stream'[s].pc = stream[s].pc \/ stream'[s].pc = "broken"
         /\ stream[s].pc = "closed" => stream'[s].pc = "closed"
<1>1. stream'[s] = Broken(stream[s]) /\ stream[s] \in StreamState
  BY DEF Die, TypeOK
<1> QED BY <1>1 DEF Broken, StreamState, Rested

LEMMA RegisteredStep ==
  ASSUME CallsInv, FeedInv, [Next]_vars
  PROVE  RegisteredForTask'
<1> SUFFICES ASSUME NEW t \in Tasks, NEW r \in Streams, r \in registered'[t]
             PROVE  stream'[r].pc # "off" /\ reads'[r] = t
  <2>1. CallsInv'
    BY CallsStep
  <2> QED BY <2>1 DEF RegisteredForTask, CallsInv, TypeOK
<1>0. r \in registered[t] => stream[r].pc # "off" /\ reads[r] = t
  BY DEF FeedInv, RegisteredForTask
<1>1. CASE Die
  BY <1>1 DEF Die
<1>2. ASSUME NEW e \in Execs, ExecAct(e), ~Die PROVE stream'[r].pc # "off" /\ reads'[r] = t
  BY <1>0, <1>2, OtherExecs DEF CallsInv
<1>3. ASSUME NEW s \in Streams, StreamAct(s), ~Die PROVE stream'[r].pc # "off" /\ reads'[r] = t
  <2>1. r \in registered[t] \/ (r = s /\ Register(s) /\ t = reads[s])
    BY <1>3 DEF StreamAct, StreamStep, Register, List, Replay, Replayed, ListFails, Undo, UnlockAgain,
       Skip, Send, Deliver, Leave, Unregister, Disconnect, Subscribe, Unlock, CallsInv, TypeOK
  <2>2. CASE r # s
    BY <1>0, <1>3, <2>1, <2>2, OtherStreams DEF CallsInv
  <2>3. CASE r = s /\ r \in registered[t]
    BY <1>0, <1>3, <2>3, StreamMoves DEF CallsInv
  <2>4. CASE r = s /\ Register(s) /\ t = reads[s]
    <3>1. stream[s].pc # "off"
      BY <2>4 DEF Register
    <3> QED BY <1>3, <2>4, <3>1, StreamMoves DEF CallsInv
  <2> QED BY <2>1, <2>2, <2>3, <2>4
<1>4. CASE UNCHANGED vars
  BY <1>0, <1>4 DEF vars
<1> QED BY <1>1, <1>2, <1>3, <1>4 DEF Next, ExecAct, StreamAct, Crash

LEMMA BufferStep ==
  ASSUME Durable, CallsInv, FeedInv, [Next]_vars
  PROVE  BufferIsLogged'
<1> DEFINE Buffered(st, q, rd, l) ==
      /\ st.pc = "off" => q = <<>> /\ st.replay = <<>> /\ rd = NoTask
      /\ st.pc # "off" => AllLogged(l[rd], q) /\ AllLogged(l[rd], st.replay)
<1> SUFFICES ASSUME NEW r \in Streams PROVE Buffered(stream'[r], buffer'[r], reads'[r], log')
  BY DEF BufferIsLogged, AllLogged, LoggedIn
<1>0. Buffered(stream[r], buffer[r], reads[r], log)
  BY DEF FeedInv, BufferIsLogged
<1>a. stream[r].pc # "off" => reads[r] \in Tasks
  BY DEF CallsInv, HasTask
<1>b. Buffered(stream[r], buffer[r], reads[r], log')
  BY <1>0, <1>a, LogGrows
<1>c. \A l : AllLogged(l, <<>>)
  BY DEF AllLogged
<1>1. CASE Die
  <2>1. buffer'[r] = <<>> /\ reads' = reads
    BY <1>1 DEF Die
  <2> QED BY <1>1, <1>b, <1>c, <2>1, BrokenStays DEF CallsInv
<1>2. ASSUME NEW e \in Execs, ExecAct(e), ~Die PROVE Buffered(stream'[r], buffer'[r], reads'[r], log')
  <2>1. stream' = stream /\ reads' = reads
    BY <1>2, OtherExecs DEF CallsInv
  <2>2. CASE buffer' = buffer
    BY <1>b, <2>1, <2>2
  <2>3. CASE FanOut(e)
    <3>1. buffer'[r] = buffer[r] \/ (r \in registered[exec[e].task] /\ buffer'[r] = Append(buffer[r], exec[e].event))
      BY <1>2, <2>3 DEF FanOut, Unlock
    <3>2. log' = log /\ exec[e].pc = "fanout" /\ exec[e].task \in Tasks
      BY <1>2, <2>3 DEF FanOut, Unlock, CallsInv, HasTask
    <3>3. ASSUME r \in registered[exec[e].task], buffer'[r] = Append(buffer[r], exec[e].event)
          PROVE  Buffered(stream'[r], buffer'[r], reads'[r], log')
      <4>1. stream[r].pc # "off" /\ reads[r] = exec[e].task
        BY <3>2, <3>3 DEF FeedInv, RegisteredForTask
      <4>2. LoggedIn(log[reads[r]], exec[e].event)
        BY <3>2, <4>1 DEF FeedInv, FannedIsLogged
      <4>3. buffer[r] \in Seq(Event) /\ exec[e].event \in Event
        BY StreamTypes, EventType DEF CallsInv
      <4>4. AllLogged(log[reads[r]], buffer'[r])
        BY <1>0, <3>3, <4>1, <4>2, <4>3, LoggedAppend
      <4> QED BY <1>0, <2>1, <3>2, <4>1, <4>4
    <3> QED BY <1>b, <2>1, <3>1, <3>3
  <2> QED BY <1>2, <2>2, <2>3, OtherExecs DEF CallsInv
<1>3. ASSUME NEW s \in Streams, StreamAct(s), ~Die PROVE Buffered(stream'[r], buffer'[r], reads'[r], log')
  <2>1. log' = log
    BY <1>3, OtherStreams DEF CallsInv
  <2>2. CASE r # s
    BY <1>0, <1>3, <2>1, <2>2, OtherStreams DEF CallsInv
  <2>3. CASE r = s /\ stream[s].pc = "off"
    <3>1. buffer' = buffer /\ stream'[s].replay = stream[s].replay /\ stream'[s].pc = "lock"
      BY <1>3, <2>3, StreamMoves DEF CallsInv, Subscribe
    <3> QED BY <1>0, <1>c, <2>3, <3>1
  <2>4. CASE r = s /\ stream[s].pc # "off"
    <3>0. reads' = reads /\ stream'[s].pc # "off"
      BY <1>3, <2>4, StreamMoves DEF CallsInv
    <3>1. /\ AllLogged(log[reads[s]], buffer[s]) /\ AllLogged(log[reads[s]], stream[s].replay)
          /\ buffer[s] \in Seq(Event) /\ stream[s].replay \in Seq(Event) /\ reads[s] \in Tasks
      BY <1>0, <1>a, <2>4, StreamTypes DEF CallsInv
    <3>2. AllLogged(log[reads[s]], stream'[s].replay)
      <4>1. CASE List(s)
        <5>1. stream'[s].replay = EventsAfter(reads[s], stream[s].after)
          BY <4>1 DEF List, CallsInv, TypeOK, StreamState
        <5> QED BY <3>1, <5>1, Listed, StreamTypes DEF CallsInv
      <4>2. CASE Replay(s) /\ stream'[s].replay = Tail(stream[s].replay)
        BY <3>1, <4>2, LoggedHeadTail DEF Replay
      <4> QED BY <1>3, <2>4, <3>1, <4>1, <4>2, StreamMoves DEF CallsInv
    <3>3. AllLogged(log[reads[s]], buffer'[s])
      <4>1. CASE Replay(s)
        <5>1. buffer'[s] = Append(buffer[s], Head(stream[s].replay)) /\ stream[s].replay # <<>>
          BY <4>1 DEF Replay, CallsInv, TypeOK
        <5>2. Head(stream[s].replay) \in Event /\ LoggedIn(log[reads[s]], Head(stream[s].replay))
          BY <3>1, <5>1, LoggedHeadTail
        <5> QED BY <3>1, <5>1, <5>2, LoggedAppend
      <4>2. CASE Skip(s) \/ Send(s)
        <5>1. buffer'[s] = Tail(buffer[s]) /\ buffer[s] # <<>>
          BY <4>2 DEF Skip, Send, Deliver, CallsInv, TypeOK
        <5> QED BY <3>1, <5>1, LoggedHeadTail
      <4> QED BY <1>3, <2>4, <3>1, <4>1, <4>2, StreamMoves DEF CallsInv
    <3> QED BY <2>1, <2>4, <3>0, <3>2, <3>3
  <2> QED BY <2>2, <2>3, <2>4
<1>4. CASE UNCHANGED vars
  BY <1>0, <1>4 DEF vars
<1>5. Buffered(stream'[r], buffer'[r], reads'[r], log')
  BY <1>1, <1>2, <1>3, <1>4 DEF Next, ExecAct, StreamAct, Crash
<1> QED BY <1>5

LEMMA SentStep ==
  ASSUME CallsInv, FeedInv, [Next]_vars
  PROVE  SentTells'
<1> DEFINE Sent(r, st, sh, en) ==
      /\ st.pc \in {"off", "lock", "list", "replay", "undo", "unlock"} => sh = <<>>
      /\ st.pc = "read" /\ sh # <<>> => Newest(sh).state \notin Terminal
      /\ st.pc = "finish" => sh # <<>> /\ Newest(sh).state \in Terminal
      /\ r \in en => st.pc = "closed"
<1> SUFFICES ASSUME NEW r \in Streams PROVE Sent(r, stream'[r], shown'[r], ended')
  BY DEF SentTells, Newest
<1>0. Sent(r, stream[r], shown[r], ended)
  BY DEF FeedInv, SentTells
<1>1. CASE Die
  BY <1>0, <1>1, BrokenStays DEF Die, CallsInv
<1>2. ASSUME NEW e \in Execs, ExecAct(e), ~Die PROVE Sent(r, stream'[r], shown'[r], ended')
  BY <1>0, <1>2, OtherExecs DEF CallsInv
<1>3. ASSUME NEW s \in Streams, StreamAct(s), ~Die PROVE Sent(r, stream'[r], shown'[r], ended')
  <2>1. ended' = ended \/ (Unregister(s) /\ ended' = ended \cup {s})
    BY <1>3 DEF StreamAct, StreamStep, Register, List, Replay, Replayed, ListFails, Undo, UnlockAgain,
       Skip, Send, Deliver, Leave, Unregister, Disconnect, Subscribe, Unlock
  <2>2. CASE r # s
    BY <1>0, <1>3, <2>1, <2>2, OtherStreams DEF CallsInv
  <2>3. CASE r = s
    <3>0. stream \in [Streams -> StreamState] /\ stream[s] \in StreamState
      BY DEF CallsInv, TypeOK
    <3> USE <3>0, <1>0, <2>3 DEF StreamState, StreamTo
    <3>1. CASE Register(s) \/ List(s) \/ Replay(s)
      BY <3>1 DEF Register, List, Replay
    <3>2. CASE Replayed(s)
      BY <1>3, <3>2 DEF Replayed, Unlock
    <3>3. CASE ListFails(s)
      BY <1>3, <3>3 DEF ListFails, Unlock
    <3>4. CASE Undo(s) \/ UnlockAgain(s)
      BY <1>3, <3>4 DEF Undo, UnlockAgain, Unlock
    <3>5. CASE Skip(s) \/ Leave(s) \/ Disconnect(s)
      BY <3>5 DEF Skip, Leave, Disconnect
    <3>6. CASE Unregister(s)
      BY <3>6 DEF Unregister
    <3>7. CASE \E t \in Tasks : \E after \in {0, seen[t]} : Subscribe(s, t, after)
      BY <3>7 DEF Subscribe
    <3>8. CASE Send(s)
      <4>1. shown[s] \in Seq(Event) /\ Head(buffer[s]) \in Event
        BY <3>8, StreamTypes, HeadTail DEF Send, CallsInv
      <4>2. shown'[s] = Append(shown[s], Head(buffer[s]))
        BY <3>8 DEF Send, Deliver, CallsInv, TypeOK
      <4>3. Newest(shown'[s]) = Head(buffer[s]) /\ shown'[s] # <<>>
        BY <4>1, <4>2, NewestAppended
      <4>4. stream' = [stream EXCEPT ![s].pc = IF Head(buffer[s]).state \in Terminal THEN "finish" ELSE "read"]
            /\ ended' = ended /\ stream[s].pc = "read"
        BY <3>8 DEF Send, Deliver
      <4> QED BY <4>3, <4>4
    <3> QED BY <1>3, <3>1, <3>2, <3>3, <3>4, <3>5, <3>6, <3>7, <3>8 DEF StreamAct, StreamStep
  <2> QED BY <2>2, <2>3
<1>4. CASE UNCHANGED vars
  BY <1>0, <1>4 DEF vars
<1>5. Sent(r, stream'[r], shown'[r], ended')
  BY <1>1, <1>2, <1>3, <1>4 DEF Next, ExecAct, StreamAct, Crash
<1> QED BY <1>5
-----------------------------------------------------------------------------
LEMMA AgentInit == Init => CallsInv /\ FeedInv
<1> SUFFICES ASSUME Init PROVE CallsInv /\ FeedInv
  OBVIOUS
<1>0. <<>> \in Seq(Event) /\ <<>> \in Seq(States) /\ Len(<<>>) = 0
  OBVIOUS
<1>1. \A s \in Streams : stream[s] = [pc |-> "off", after |-> 0, replay |-> <<>>, gone |-> FALSE]
                         /\ buffer[s] = <<>> /\ shown[s] = <<>> /\ reads[s] = NoTask
  BY DEF Init, FeedInit
<1>2. \A e \in Execs : exec[e].pc = "off"
  BY DEF Init
<1>3. stream \in [Streams -> StreamState]
  BY <1>0 DEF Init, StreamState, StreamSteps
<1>4. exec \in [Execs -> ExecState]
  BY DEF Init, ExecState, ExecSteps, Event, States
<1>5. /\ log \in [Tasks -> Seq(States)] /\ reads \in [Streams -> Tasks \cup {NoTask}]
      /\ shown \in [Streams -> Seq(Event)] /\ ended = {}
  BY <1>0 DEF Init, FeedInit
<1>6. buffer \in [Streams -> Seq(Event)] /\ \A s \in Streams : Len(buffer[s]) <= Capacity
  BY <1>0 DEF Init
<1>7. locked \in BOOLEAN /\ registered = [t \in Tasks |-> {}] /\ seen \in [Tasks -> Nat]
      /\ budget \in [faults : Nat, cancels : Nat, crashes : Nat]
  BY DEF Init
<1>8. TypeOK
  BY <1>3, <1>4, <1>5, <1>6, <1>7 DEF TypeOK
<1>9. HasTask
  BY <1>1, <1>2 DEF HasTask
<1>10. FeedInv
  BY <1>1, <1>2, <1>5, <1>7 DEF FeedInv, FannedIsLogged, RegisteredForTask, BufferIsLogged, SentTells
<1> QED BY <1>8, <1>9, <1>10 DEF CallsInv

LEMMA FeedInvStep == ASSUME Durable, CallsInv, FeedInv, [Next]_vars PROVE FeedInv'
  BY FannedStep, RegisteredStep, BufferStep, SentStep DEF FeedInv
-----------------------------------------------------------------------------
(* Every variable keeps its type in both builds, through crashes and       *)
(* through the second unlock of subscribe's error path; no channel holds   *)
(* more than its capacity.                                                 *)
THEOREM AgentTypes == Spec => []TypeOK
<1>1. Init => CallsInv
  BY AgentInit
<1>2. CallsInv => TypeOK
  BY DEF CallsInv
<1> QED BY <1>1, <1>2, CallsStep, PTL DEF Spec

LEMMA FeedInductive == ASSUME Durable PROVE Spec => [](CallsInv /\ FeedInv)
<1>1. CallsInv /\ FeedInv /\ [Next]_vars => (CallsInv /\ FeedInv)'
  BY CallsStep, FeedInvStep
<1> QED BY <1>1, AgentInit, PTL DEF Spec

(* With the PostgreSQL store a caller that was told the outcome of an      *)
(* execution finds it in the log, at the sequence it was published with,   *)
(* for any number of executions of the task, faults and crashes.           *)
THEOREM AnswerStaysLogged == ASSUME Durable PROVE Spec => []AnswerIsLogged
<1>1. CallsInv /\ FeedInv => AnswerIsLogged
  BY DEF FeedInv, FannedIsLogged, LoggedIn, AnswerIsLogged
<1> QED BY <1>1, FeedInductive, PTL

(* With the PostgreSQL store AgentEvents implements EventFeed: every       *)
(* stream shows events of its task's log, each at most once, in order,     *)
(* none after a terminal one, and it ends without an error only there.     *)
THEOREM ImplementsFeed == ASSUME Durable PROVE Spec => Feed
<1>1. Init => FeedInit
  BY DEF Init
<1>2. CallsInv /\ FeedInv /\ [Next]_vars => [FeedNext]_feedVars
  BY FeedStep
<1> QED BY <1>1, <1>2, FeedInductive, PTL DEF Spec, Feed, FeedSpec
-----------------------------------------------------------------------------
\* What a reader may conclude from EventFeed alone.
ReadInOrder ==
  \A s \in Streams :
    /\ AllLogged(log[reads[s]], shown[s])
    /\ \A i, j \in DOMAIN shown[s] :
         i < j => shown[s][i].seq < shown[s][j].seq /\ shown[s][i].state \notin Terminal
    /\ s \in ended => shown[s] # <<>> /\ Newest(shown[s]).state \in Terminal

FeedOrder == ReadInOrder /\ \A s \in Streams : reads[s] = NoTask => shown[s] = <<>>

LEMMA ShownAppended ==
  ASSUME NEW q \in Seq(Event), NEW x \in Event
  PROVE  /\ DOMAIN q = 1..Len(q) /\ Len(q) \in Nat
         /\ Len(Append(q, x)) = Len(q) + 1 /\ DOMAIN Append(q, x) = 1..(Len(q) + 1)
         /\ Append(q, x)[Len(q) + 1] = x
         /\ \A i \in 1..Len(q) : Append(q, x)[i] = q[i]
<1>1. DOMAIN q = 1..Len(q) /\ Len(q) \in Nat
  OBVIOUS
<1>2. Len(Append(q, x)) = Len(q) + 1 /\ DOMAIN Append(q, x) = 1..(Len(q) + 1)
  OBVIOUS
<1>3. Append(q, x)[Len(q) + 1] = x /\ \A i \in 1..Len(q) : Append(q, x)[i] = q[i]
  OBVIOUS
<1> QED BY <1>1, <1>2, <1>3

LEMMA FeedOrderStep ==
  ASSUME TypeOK, FeedOrder, [FeedNext]_feedVars
  PROVE  FeedOrder'
<1>0. /\ log \in [Tasks -> Seq(States)] /\ reads \in [Streams -> Tasks \cup {NoTask}]
      /\ shown \in [Streams -> Seq(Event)]
  BY DEF TypeOK
<1>1. ASSUME NEW t \in Tasks, NEW state \in States, Record(t, state) PROVE FeedOrder'
  <2>1. /\ UNCHANGED <<reads, shown, ended>>
        /\ log'[t] = Append(log[t], state) /\ \A u \in Tasks \ {t} : log'[u] = log[u]
    BY <1>0, <1>1 DEF Record
  <2>2. ASSUME NEW s \in Streams PROVE AllLogged(log'[reads[s]], shown[s])
    <3>1. AllLogged(log[reads[s]], shown[s]) /\ (reads[s] = NoTask => shown[s] = <<>>)
      BY DEF FeedOrder, ReadInOrder
    <3>2. CASE reads[s] = NoTask
      BY <3>1, <3>2 DEF AllLogged
    <3>3. CASE reads[s] = t
      <4>1. log[t] \in Seq(States)
        BY <1>0
      <4> QED BY <2>1, <3>1, <3>3, <4>1, LogExtended
    <3>4. CASE reads[s] \in Tasks \ {t}
      BY <2>1, <3>1, <3>4
    <3> QED BY <1>0, <3>2, <3>3, <3>4
  <2> QED BY <2>1, <2>2 DEF FeedOrder, ReadInOrder
<1>2. ASSUME NEW s \in Streams, NEW t \in Tasks, Open(s, t) PROVE FeedOrder'
  <2>1. /\ reads[s] = NoTask /\ reads'[s] = t /\ UNCHANGED <<log, shown, ended>>
        /\ \A r \in Streams \ {s} : reads'[r] = reads[r]
    BY <1>0, <1>2 DEF Open
  <2>2. shown[s] = <<>> /\ AllLogged(log[t], shown[s])
    BY <2>1 DEF FeedOrder, AllLogged
  <2>3. \A r \in Streams : AllLogged(log[reads'[r]], shown[r])
    BY <2>1, <2>2 DEF FeedOrder, ReadInOrder
  <2>4. \A r \in Streams : reads'[r] = NoTask => shown[r] = <<>>
    BY <2>1, <2>2 DEF FeedOrder
  <2> QED BY <2>1, <2>3, <2>4 DEF FeedOrder, ReadInOrder
<1>3. ASSUME NEW s \in Streams, reads[s] # NoTask, NEW i \in DOMAIN log[reads[s]], Show(s, i)
      PROVE  FeedOrder'
  <2> DEFINE q == shown[s]
             x == [seq |-> i, state |-> log[reads[s]][i]]
  <2>1. /\ s \notin ended /\ UNCHANGED <<log, reads, ended>> /\ shown'[s] = Append(q, x)
        /\ q # <<>> => Newest(q).seq < i /\ Newest(q).state \notin Terminal
        /\ \A r \in Streams \ {s} : shown'[r] = shown[r]
    BY <1>0, <1>3 DEF Show
  <2>2. x \in Event /\ q \in Seq(Event)
    <3>1. log[reads[s]] \in Seq(States) /\ q \in Seq(Event)
      BY <1>0, <1>3
    <3>2. i \in Nat \ {0} /\ log[reads[s]][i] \in States
      BY <3>1, <1>3
    <3> QED BY <3>1, <3>2 DEF Event
  <2>3. AllLogged(log[reads[s]], Append(q, x))
    <3>1. AllLogged(log[reads[s]], q) /\ LoggedIn(log[reads[s]], x)
      BY <1>3 DEF FeedOrder, ReadInOrder, LoggedIn
    <3> HIDE DEF q, x
    <3> QED BY <2>2, <3>1, LoggedAppend
  <2>4. ASSUME NEW a \in DOMAIN Append(q, x), NEW b \in DOMAIN Append(q, x), a < b
        PROVE  Append(q, x)[a].seq < Append(q, x)[b].seq /\ Append(q, x)[a].state \notin Terminal
    <3>1. x.seq = i
      OBVIOUS
    <3>2. \A c, d \in DOMAIN q : c < d => q[c].seq < q[d].seq /\ q[c].state \notin Terminal
      BY DEF FeedOrder, ReadInOrder
    <3> HIDE DEF q, x
    <3>3. /\ DOMAIN q = 1..Len(q) /\ Len(q) \in Nat
          /\ DOMAIN Append(q, x) = 1..(Len(q) + 1) /\ Append(q, x)[Len(q) + 1] = x
          /\ \A c \in 1..Len(q) : Append(q, x)[c] = q[c]
      BY <2>2, ShownAppended
    <3>4. a \in 1..Len(q) /\ Append(q, x)[a] = q[a] /\ b \in 1..(Len(q) + 1)
      BY <2>4, <3>3
    <3>5. CASE b \in 1..Len(q)
      BY <2>4, <3>2, <3>3, <3>4, <3>5
    <3>6. CASE b = Len(q) + 1
      <4>1. q # <<>> /\ Len(q) \in DOMAIN q /\ a \in DOMAIN q
        BY <3>3, <3>4
      <4>2. q[Len(q)].seq < i /\ q[Len(q)].state \notin Terminal
        BY <2>1, <4>1 DEF Newest
      <4>3. a = Len(q) \/ a < Len(q)
        BY <3>3, <3>4
      <4>4. q[a].seq \in Nat /\ q[Len(q)].seq \in Nat /\ i \in Nat
        <5>1. q[a] \in Event /\ q[Len(q)] \in Event
          BY <2>2, <3>3, <4>1
        <5> QED BY <2>2, <3>1, <5>1 DEF Event
      <4>5. q[a].seq < i /\ q[a].state \notin Terminal
        BY <3>2, <4>1, <4>2, <4>3, <4>4
      <4> QED BY <3>1, <3>3, <3>4, <3>6, <4>5
    <3> QED BY <3>3, <3>4, <3>5, <3>6
  <2>5. ASSUME NEW r \in Streams
        PROVE  /\ AllLogged(log'[reads'[r]], shown'[r])
               /\ \A a, b \in DOMAIN shown'[r] :
                    a < b => shown'[r][a].seq < shown'[r][b].seq /\ shown'[r][a].state \notin Terminal
               /\ r \in ended' => shown'[r] # <<>> /\ Newest(shown'[r]).state \in Terminal
               /\ reads'[r] = NoTask => shown'[r] = <<>>
    <3>1. CASE r = s
      BY <1>3, <2>1, <2>3, <2>4, <3>1
    <3>2. CASE r # s
      BY <2>1, <3>2 DEF FeedOrder, ReadInOrder
    <3> QED BY <3>1, <3>2
  <2> QED BY <2>5 DEF FeedOrder, ReadInOrder
<1>4. ASSUME NEW s \in Streams, End(s) PROVE FeedOrder'
  BY <1>4 DEF End, FeedOrder, ReadInOrder
<1>5. CASE UNCHANGED feedVars
  BY <1>5 DEF feedVars, FeedOrder, ReadInOrder
<1> QED BY <1>1, <1>2, <1>3, <1>4, <1>5 DEF FeedNext

(* With the PostgreSQL store a reader can rely on what it is shown: every  *)
(* event is the one the log has at that sequence, the sequences rise, only *)
(* the last event can be terminal, and a stream that the server ended      *)
(* without an error (SubscribeTaskEvents, service.go:96-131) has shown a   *)
(* terminal one.  It follows from the refinement, not from the code.       *)
THEOREM ReadersSeeOrder == ASSUME Durable PROVE Spec => []ReadInOrder
<1>1. FeedInit => FeedOrder
  BY DEF FeedInit, FeedOrder, ReadInOrder, AllLogged
<1>2. TypeOK /\ FeedOrder /\ [FeedNext]_feedVars => FeedOrder'
  BY FeedOrderStep
<1>3. FeedOrder => ReadInOrder
  BY DEF FeedOrder
<1> QED BY <1>1, <1>2, <1>3, AgentTypes, ImplementsFeed, PTL DEF Feed, FeedSpec
-----------------------------------------------------------------------------
(***************************************************************************)
(* The mutex, and a client that misses nothing, for any executions and     *)
(* streams.  Both need that Append and List do not fail: the store is the  *)
(* one in memory, or PostgreSQL has no errors and no client goes away.     *)
(***************************************************************************)
Calm == Durable => MaxFaults = 0 /\ MaxCancels = 0

CalmInv ==
  Durable =>
    /\ budget.faults = 0 /\ budget.cancels = 0
    /\ \A e \in Execs : ~exec[e].gone
    /\ \A s \in Streams : ~stream[s].gone

\* The handlers between Lock and Unlock of Service.mu.
Fanning(e) == exec[e].pc = "fanout"
Holding(s) == stream[s].pc \in {"list", "replay"}
MutexInv ==
  /\ \A e \in Execs : Fanning(e) => /\ locked /\ \A f \in Execs : Fanning(f) => f = e
                                    /\ \A s \in Streams : ~Holding(s)
  /\ \A s \in Streams : Holding(s) => locked /\ \A r \in Streams : Holding(r) => r = s
  /\ locked => (\E e \in Execs : Fanning(e)) \/ \E s \in Streams : Holding(s)
  /\ \A s \in Streams : stream[s].pc \notin {"undo", "unlock"}

\* No task is executed a second time.
Separate ==
  \A e, f \in Execs : e # f /\ exec[e].task = exec[f].task => exec[e].task = NoTask

\* The events of an execution are the whole log of its task, and their number
\* is bounded; a task that has no execution has no log.
CallInv(e) ==
  LET n == Len(log[exec[e].task]) + exec[e].left
      last == exec[e].event.state \in Terminal
  IN /\ exec[e].pc = "off" =>
          exec[e].task = NoTask /\ exec[e].left = MaxProgress /\ exec[e].event.state = "running"
     /\ ~exec[e].erred /\ exec[e].pc # "error"
     /\ exec[e].pc \in {"lock", "fanout"} => exec[e].event.seq = Len(log[exec[e].task])
     /\ exec[e].pc = "append" => n <= MaxProgress + (IF last THEN 1 ELSE 0)
     /\ exec[e].pc \in {"lock", "fanout"} => n <= MaxProgress + (IF last THEN 2 ELSE 1)
     /\ exec[e].pc = "work" => n <= MaxProgress + 1
LogInv == \A t \in Tasks : (\A e \in Execs : exec[e].task # t) => log[t] = <<>>

\* One event of t is in the log and not fanned out yet.
OnItsWay(e, t) == exec[e].pc \in {"lock", "fanout"} /\ exec[e].task = t
Pending(t) == IF \E e \in Execs : OnItsWay(e, t) THEN 1 ELSE 0

\* The events on their way to a client that has got those up to last, of a log of n
\* events of which p are not fanned out: no sequence is skipped, though one may come
\* twice, and they reach the end of the log.
Smooth(q, last, n, p) ==
  /\ q # <<>> => q[1].seq <= last + 1
  /\ \A i \in 1..(Len(q) - 1) : q[i + 1].seq <= q[i].seq + 1
  /\ \A i \in 1..Len(q) : q[i].seq <= n
  /\ n <= (IF q = <<>> THEN last ELSE q[Len(q)].seq) + p
  /\ Len(q) + p <= n + 1

Queue(s) == buffer[s] \o stream[s].replay
Last(s)  == stream[s].after + Len(shown[s])

StreamInv(s) ==
  /\ stream[s].pc \in {"off", "lock", "list"} =>
       shown[s] = <<>> /\ buffer[s] = <<>> /\ stream[s].replay = <<>>
  /\ stream[s].pc = "read" => stream[s].replay = <<>>
  /\ stream[s].pc \in {"list", "replay", "read"} => s \in registered[reads[s]]
  /\ \A t \in Tasks : s \in registered[t] => reads[s] = t /\ stream[s].pc \notin {"off", "lock"}
  /\ stream[s].pc \in {"replay", "read"} =>
       Smooth(Queue(s), Last(s), Len(log[reads[s]]), Pending(reads[s]))
  /\ \A i \in DOMAIN shown[s] : shown[s][i].seq = stream[s].after + i

GapInv == (\A e \in Execs : CallInv(e)) /\ LogInv /\ \A s \in Streams : StreamInv(s)

-----------------------------------------------------------------------------
\* What the moves of an event do to a queue.
LEMMA SmoothTail ==
  ASSUME NEW q \in Seq(Event), q # <<>>, NEW last \in Nat, NEW n \in Nat, NEW p \in {0, 1},
         Smooth(q, last, n, p)
  PROVE  /\ q[1].seq <= last => Smooth(Tail(q), last, n, p)
         /\ q[1].seq > last => q[1].seq = last + 1 /\ Smooth(Tail(q), last + 1, n, p)
<1> DEFINE r == Tail(q)
<1>a. Len(q) \in Nat \ {0} /\ \A i \in 1..Len(q) : q[i] \in Event
  OBVIOUS
<1>b. Len(r) = Len(q) - 1 /\ r \in Seq(Event) /\ \A i \in 1..Len(r) : r[i] = q[i + 1]
  <2>1. r \in Seq(Event)
    OBVIOUS
  <2>2. Len(r) = Len(q) - 1
    BY <1>a
  <2>3. \A i \in 1..Len(r) : r[i] = q[i + 1]
    BY <1>a, <2>2
  <2> QED BY <2>1, <2>2, <2>3
<1> HIDE DEF r
<1>c. (r = <<>>) <=> (Len(r) = 0)
  BY <1>b
<1>1. /\ Len(q) \in Nat \ {0} /\ Len(r) = Len(q) - 1 /\ r \in Seq(Event)
      /\ \A i \in 1..Len(r) : r[i] = q[i + 1]
      /\ \A i \in 1..Len(q) : q[i].seq \in Nat
      /\ (r = <<>>) <=> (Len(r) = 0)
  <2>1. \A i \in 1..Len(q) : q[i].seq \in Nat
    BY <1>a DEF Event
  <2> QED BY <1>a, <1>b, <1>c, <2>1
<1>2. \A i \in 1..(Len(r) - 1) : r[i + 1].seq <= r[i].seq + 1
  <2> TAKE i \in 1..(Len(r) - 1)
  <2>1. i \in 1..Len(r) /\ i + 1 \in 1..Len(r) /\ i + 1 \in 1..(Len(q) - 1)
    BY <1>1
  <2>2. r[i] = q[i + 1] /\ r[i + 1] = q[(i + 1) + 1]
    BY <1>1, <2>1
  <2> QED BY <2>1, <2>2 DEF Smooth
<1>3. \A i \in 1..Len(r) : r[i].seq <= n
  <2> TAKE i \in 1..Len(r)
  <2>1. i + 1 \in 1..Len(q)
    BY <1>1
  <2> QED BY <1>1, <2>1 DEF Smooth
<1>4. Len(r) + p <= n + 1
  BY <1>1 DEF Smooth
<1>5. ASSUME r # <<>>
      PROVE  r[1].seq <= q[1].seq + 1 /\ n <= r[Len(r)].seq + p
  <2>1. 1 \in 1..(Len(q) - 1) /\ Len(r) \in 1..Len(r) /\ 1 \in 1..Len(r)
    BY <1>1, <1>5
  <2>2. r[1] = q[1 + 1] /\ r[Len(r)] = q[Len(q)]
    BY <1>1, <2>1
  <2>3. q[1 + 1].seq <= q[1].seq + 1 /\ n <= q[Len(q)].seq + p
    BY <2>1 DEF Smooth
  <2> QED BY <2>2, <2>3
<1>6. ASSUME r = <<>> PROVE n <= q[1].seq + p
  <2>1. Len(q) = 1
    BY <1>1, <1>6
  <2>2. n <= q[Len(q)].seq + p
    BY DEF Smooth
  <2> QED BY <2>1, <2>2
<1>7. q[1].seq \in Nat /\ q[1].seq <= last + 1
  BY <1>1 DEF Smooth
<1>8. ASSUME NEW k \in Nat, q[1].seq <= k PROVE Smooth(r, k, n, p)
  <2>1. r # <<>> => r[1].seq <= k + 1 /\ r[1].seq \in Nat
    <3>1. SUFFICES ASSUME r # <<>> PROVE r[1].seq <= k + 1 /\ r[1].seq \in Nat
      OBVIOUS
    <3>2. r[1].seq \in Nat
      <4>1. 1 \in 1..Len(r)
        BY <1>1, <3>1
      <4>2. r[1] \in Event
        BY <1>1, <4>1
      <4> QED BY <4>2 DEF Event
    <3> QED BY <1>5, <1>7, <1>8, <3>1, <3>2
  <2>2. n <= (IF r = <<>> THEN k ELSE r[Len(r)].seq) + p
    BY <1>5, <1>6, <1>7, <1>8
  <2> QED BY <1>2, <1>3, <1>4, <2>1, <2>2 DEF Smooth
<1> QED BY <1>7, <1>8 DEF r

LEMMA SmoothAppend ==
  ASSUME NEW q \in Seq(Event), NEW last \in Nat, NEW n \in Nat, NEW x \in Event, x.seq = n,
         Smooth(q, last, n, 1)
  PROVE  Smooth(Append(q, x), last, n, 0)
<1> DEFINE r == Append(q, x)
<1>a. Len(q) \in Nat /\ (\A i \in 1..Len(q) : q[i] \in Event) /\ ((q = <<>>) <=> (Len(q) = 0))
  OBVIOUS
<1>b. /\ Len(r) = Len(q) + 1 /\ r \in Seq(Event) /\ r # <<>> /\ r[Len(r)] = x
      /\ \A i \in 1..Len(q) : r[i] = q[i]
  OBVIOUS
<1>1. /\ Len(q) \in Nat /\ Len(r) = Len(q) + 1 /\ r \in Seq(Event) /\ r # <<>>
      /\ \A i \in 1..Len(q) : r[i] = q[i]
      /\ r[Len(r)] = x
      /\ \A i \in 1..Len(q) : q[i].seq \in Nat
      /\ (q = <<>>) <=> (Len(q) = 0)
  BY <1>a, <1>b DEF Event
<1> HIDE DEF r
<1>2. r[1].seq <= last + 1
  BY <1>1 DEF Smooth
<1>3. \A i \in 1..(Len(r) - 1) : r[i + 1].seq <= r[i].seq + 1
  <2> TAKE i \in 1..(Len(r) - 1)
  <2>1. CASE i = Len(q)
    BY <1>1, <2>1 DEF Smooth
  <2>2. CASE i # Len(q)
    <3>1. i \in 1..(Len(q) - 1) /\ i \in 1..Len(q) /\ i + 1 \in 1..Len(q)
      BY <1>1, <2>2
    <3> QED BY <1>1, <3>1 DEF Smooth
  <2> QED BY <2>1, <2>2
<1>4. \A i \in 1..Len(r) : r[i].seq <= n
  <2> TAKE i \in 1..Len(r)
  <2>1. CASE i = Len(r)
    BY <1>1, <2>1
  <2>2. CASE i # Len(r)
    BY <1>1, <2>2 DEF Smooth
  <2> QED BY <2>1, <2>2
<1>5. n <= r[Len(r)].seq + 0 /\ Len(r) + 0 <= n + 1
  BY <1>1 DEF Smooth
<1> QED BY <1>1, <1>2, <1>3, <1>4, <1>5 DEF Smooth, r

LEMMA SmoothLog ==
  ASSUME NEW q \in Seq(Event), NEW last \in Nat, NEW n \in Nat, Smooth(q, last, n, 0)
  PROVE  Smooth(q, last, n + 1, 1)
<1>0. Len(q) \in Nat /\ \A i \in 1..Len(q) : q[i] \in Event
  OBVIOUS
<1>1. Len(q) \in Nat /\ \A i \in 1..Len(q) : q[i].seq \in Nat
  BY <1>0 DEF Event
<1>2. q # <<>> => Len(q) \in 1..Len(q)
  OBVIOUS
<1> QED BY <1>1, <1>2 DEF Smooth

LEMMA SmoothListed ==
  ASSUME TypeOK, NEW t \in Tasks, NEW after \in Nat, NEW p \in {0, 1}
  PROVE  Smooth(EventsAfter(t, after), after, Len(log[t]), p)
<1> DEFINE q == EventsAfter(t, after)
           n == Len(log[t])
           k == IF n > after THEN n - after ELSE 0
<1>1. n \in Nat /\ k \in Nat
  BY DEF TypeOK
<1>2. q = [i \in 1..k |-> [seq |-> after + i, state |-> log[t][after + i]]]
  BY DEF EventsAfter
<1>3. q \in Seq(Event)
  BY Listed
<1> HIDE DEF q
<1>a. Len(q) = k
  BY <1>1, <1>2
<1>b. \A i \in 1..k : q[i].seq = after + i
  BY <1>2
<1>4. /\ Len(q) = k /\ \A i \in 1..k : q[i].seq = after + i
      /\ (q = <<>>) <=> (k = 0)
  BY <1>3, <1>a, <1>b
<1>5. \A i \in 1..(Len(q) - 1) : q[i + 1].seq <= q[i].seq + 1
  <2> TAKE i \in 1..(Len(q) - 1)
  <2>1. i \in 1..k /\ i + 1 \in 1..k
    BY <1>1, <1>4
  <2> QED BY <1>4, <2>1
<1>6. \A i \in 1..Len(q) : q[i].seq <= n
  BY <1>1, <1>4
<1>7. q # <<>> => q[1].seq <= after + 1
  BY <1>1, <1>4
<1>8. n <= (IF q = <<>> THEN after ELSE q[Len(q)].seq) + p
  BY <1>1, <1>4
<1>9. Len(q) + p <= n + 1
  BY <1>1, <1>4
<1> QED BY <1>5, <1>6, <1>7, <1>8, <1>9 DEF Smooth, q

LEMMA OneMoved ==
  ASSUME NEW b \in Seq(Event), NEW r \in Seq(Event), r # <<>>
  PROVE  Append(b, Head(r)) \o Tail(r) = b \o r
OBVIOUS

LEMMA NothingMoved ==
  ASSUME NEW b \in Seq(Event)
  PROVE  b \o <<>> = b /\ <<>> \o b = b
OBVIOUS

-----------------------------------------------------------------------------
LEMMA StreamTyped ==
  ASSUME CallsInv, NEW s \in Streams
  PROVE  /\ stream \in [Streams -> StreamState] /\ stream[s] \in StreamState
         /\ buffer \in [Streams -> Seq(Event)] /\ shown \in [Streams -> Seq(Event)]
         /\ reads \in [Streams -> Tasks \cup {NoTask}]
         /\ registered \in [Tasks -> SUBSET Streams] /\ seen \in [Tasks -> Nat]
         /\ stream[s].after \in Nat /\ stream[s].replay \in Seq(Event)
         /\ buffer[s] \in Seq(Event) /\ shown[s] \in Seq(Event) /\ Last(s) \in Nat
         /\ stream[s].pc # "off" => reads[s] \in Tasks
<1>1. /\ stream \in [Streams -> StreamState]
      /\ buffer \in [Streams -> Seq(Event)] /\ shown \in [Streams -> Seq(Event)]
      /\ reads \in [Streams -> Tasks \cup {NoTask}]
      /\ registered \in [Tasks -> SUBSET Streams] /\ seen \in [Tasks -> Nat]
  BY DEF CallsInv, TypeOK
<1>2. stream[s] \in StreamState /\ buffer[s] \in Seq(Event) /\ shown[s] \in Seq(Event)
  BY <1>1
<1>3. stream[s].after \in Nat /\ stream[s].replay \in Seq(Event)
  BY <1>2 DEF StreamState
<1>4. Last(s) \in Nat
  BY <1>2, <1>3 DEF Last
<1>5. stream[s].pc # "off" => reads[s] \in Tasks
  BY DEF CallsInv, HasTask
<1> QED BY <1>1, <1>2, <1>3, <1>4, <1>5

\* A handler moves from one step to another.
LEMMA MovesTo ==
  ASSUME CallsInv, NEW s \in Streams, NEW step, StreamTo(s, step)
  PROVE  /\ stream'[s].pc = step /\ stream'[s].after = stream[s].after
         /\ stream'[s].replay = stream[s].replay /\ stream'[s].gone = stream[s].gone
         /\ \A r \in Streams \ {s} : stream'[r] = stream[r]
BY StreamTyped DEF StreamTo, StreamState

\* An execution moves alone.
LEMMA RecordsOrReports ==
  ASSUME CallsInv, NEW e \in Execs
  PROVE  /\ AppendEvent(e) => exec'[e].pc = "lock" /\ exec'[e].gone = exec[e].gone
         /\ Progress(e) => exec'[e].pc = "append" /\ exec'[e].gone = exec[e].gone
         /\ AppendEvent(e) \/ Progress(e) => \A f \in Execs \ {e} : exec'[f] = exec[f]
<1>1. exec \in [Execs -> ExecState]
  BY DEF CallsInv, TypeOK
<1>2. exec[e] \in ExecState
  BY <1>1
<1>3. CASE AppendEvent(e)
  <2>1. exec' = [exec EXCEPT ![e].pc = "lock", ![e].event.seq = Len(Logged(e))]
    BY <1>3 DEF AppendEvent
  <2>2. exec[e].pc = "append"
    BY <1>3 DEF AppendEvent
  <2> QED BY <1>1, <1>2, <2>1, <2>2 DEF ExecState, Progress
<1>4. CASE Progress(e)
  <2>1. exec' = [exec EXCEPT ![e].pc = "append", ![e].event.state = "progress", ![e].left = @ - 1]
    BY <1>4 DEF Progress
  <2>2. exec[e].pc = "work"
    BY <1>4 DEF Progress
  <2> QED BY <1>1, <1>2, <2>1, <2>2 DEF ExecState, AppendEvent
<1> QED BY <1>3, <1>4

LEMMA CalmExcludes ==
  ASSUME CalmInv
  PROVE  /\ \A e \in Execs : ~AppendFails(e) /\ ~AppendReplyLost(e)
         /\ \A s \in Streams : ~ListFails(s)
<1>1. Durable => ~Spend("faults")
  BY DEF CalmInv, Spend
<1>2. ASSUME NEW e \in Execs PROVE ~AppendFails(e) /\ ~AppendReplyLost(e)
  BY <1>1 DEF CalmInv, AppendFails, AppendReplyLost
<1>3. ASSUME NEW s \in Streams PROVE ~ListFails(s)
  BY <1>1 DEF CalmInv, ListFails
<1> QED BY <1>2, <1>3

LEMMA CalmStep == ASSUME CallsInv, CalmInv, [Next]_vars PROVE CalmInv'
<1> SUFFICES ASSUME Durable PROVE CalmInv'
  BY DEF CalmInv
<1>0. /\ exec \in [Execs -> ExecState] /\ stream \in [Streams -> StreamState]
      /\ budget \in [faults : Nat, cancels : Nat, crashes : Nat]
      /\ ~Spend("faults") /\ ~Spend("cancels")
  BY DEF CallsInv, TypeOK, CalmInv, Spend
<1>1. budget'.faults = budget.faults /\ budget'.cancels = budget.cancels
  <2>1. CASE budget' = budget
    BY <2>1
  <2>2. CASE Spend("crashes")
    BY <1>0, <2>2 DEF Spend
  <2>3. \/ budget' = budget
        \/ \E kind \in {"faults", "cancels", "crashes"} : Spend(kind)
    <3>1. CASE \E e \in Execs : ExecAct(e)
      BY <3>1 DEF ExecAct, ExecStep, AppendEvent, AppendFails, AppendReplyLost, PublishLock, FanOut,
         Progress, Respond, CancelCall, ExecuteTask
    <3>2. CASE \E s \in Streams : StreamAct(s)
      BY <3>2 DEF StreamAct, StreamStep, Register, List, Replay, Replayed, ListFails, Undo, UnlockAgain,
         Skip, Send, Deliver, Leave, Unregister, Disconnect, Subscribe
    <3>3. CASE Crash \/ UNCHANGED vars
      BY <3>3 DEF Crash, vars
    <3> QED BY <3>1, <3>2, <3>3 DEF Next, ExecAct, StreamAct
  <2> QED BY <1>0, <2>1, <2>2, <2>3
<1>2. \A e \in Execs : exec'[e].gone = exec[e].gone
  <2>1. CASE Die
    BY <1>0, <2>1 DEF Die, Broken, ExecState
  <2>2. ASSUME NEW e \in Execs, ExecAct(e), ~Die PROVE \A f \in Execs : exec'[f].gone = exec[f].gone
    <3>1. ~CancelCall(e) /\ ~AppendFails(e) /\ ~AppendReplyLost(e)
      BY <1>0, CalmExcludes DEF CancelCall
    <3>2. CASE AppendEvent(e) \/ Progress(e)
      BY <3>2, RecordsOrReports
    <3>3. CASE PublishLock(e)
      BY <1>0, <3>3 DEF PublishLock, Goto, ExecState
    <3>4. CASE FanOut(e)
      <4>1. Goto(e, IF exec[e].event.state \in Terminal THEN "ok" ELSE "work")
        BY <2>2, <3>4 DEF FanOut, Unlock
      <4> QED BY <1>0, <4>1 DEF Goto, ExecState
    <3>5. CASE Respond(e)
      BY <1>0, <3>5 DEF Respond, Goto, Publish, ExecState, Event
    <3>6. CASE \E t \in Tasks : ExecuteTask(e, t)
      BY <1>0, <3>6 DEF ExecuteTask, ExecState
    <3> QED BY <2>2, <3>1, <3>2, <3>3, <3>4, <3>5, <3>6 DEF ExecAct, ExecStep
  <2>3. ASSUME NEW s \in Streams, StreamAct(s), ~Die PROVE \A f \in Execs : exec'[f].gone = exec[f].gone
    BY <2>3, OtherStreams DEF CallsInv
  <2>4. CASE Crash \/ UNCHANGED vars
    BY <2>1, <2>4 DEF Crash, vars
  <2> QED BY <2>1, <2>2, <2>3, <2>4 DEF Next, ExecAct, StreamAct
<1>3. \A s \in Streams : stream'[s].gone = stream[s].gone
  <2>1. CASE Die
    BY <1>0, <2>1 DEF Die, Broken, StreamState
  <2>2. ASSUME NEW e \in Execs, ExecAct(e), ~Die PROVE \A s \in Streams : stream'[s].gone = stream[s].gone
    BY <2>2, OtherExecs DEF CallsInv
  <2>3. ASSUME NEW s \in Streams, StreamAct(s), ~Die PROVE \A r \in Streams : stream'[r].gone = stream[r].gone
    <3>1. ~Disconnect(s) /\ ~ListFails(s)
      BY <1>0, CalmExcludes DEF Disconnect
    <3>2. CASE Register(s) \/ Leave(s) \/ Unregister(s)
      <4>1. PICK step \in StreamSteps : StreamTo(s, step)
        BY <3>2 DEF Register, Leave, Unregister, StreamSteps
      <4> QED BY <4>1, MovesTo
    <3>3. CASE List(s) \/ Replay(s)
      <4>1. CASE List(s)
        BY <1>0, <4>1 DEF List, StreamState
      <4>2. CASE Replay(s)
        BY <1>0, <4>2 DEF Replay, StreamState
      <4> QED BY <3>3, <4>1, <4>2
    <3>4. CASE Replayed(s) \/ Undo(s) \/ UnlockAgain(s)
      <4>1. PICK step \in StreamSteps : StreamTo(s, step)
        BY <2>3, <3>4 DEF Replayed, Undo, UnlockAgain, Unlock, StreamSteps
      <4> QED BY <4>1, MovesTo
    <3>5. CASE Skip(s) \/ Send(s)
      <4>1. stream' = stream \/ \E step \in StreamSteps : StreamTo(s, step)
        BY <3>5 DEF Skip, Send, Deliver, StreamSteps
      <4> QED BY <4>1, MovesTo
    <3>6. CASE \E t \in Tasks : \E after \in {0, seen[t]} : Subscribe(s, t, after)
      BY <1>0, <3>6 DEF Subscribe, StreamState
    <3> QED BY <2>3, <3>1, <3>2, <3>3, <3>4, <3>5, <3>6 DEF StreamAct, StreamStep
  <2>4. CASE Crash \/ UNCHANGED vars
    BY <2>1, <2>4 DEF Crash, vars
  <2> QED BY <2>1, <2>2, <2>3, <2>4 DEF Next, ExecAct, StreamAct
<1> QED BY <1>1, <1>2, <1>3 DEF CalmInv

\* A step that neither takes nor leaves the mutex.
LEMMA MutexKept ==
  ASSUME MutexInv, locked' = locked,
         \A e \in Execs : Fanning(e)' <=> Fanning(e),
         \A s \in Streams : (Holding(s)' <=> Holding(s)) /\ stream'[s].pc \notin {"undo", "unlock"}
  PROVE  MutexInv'
  BY DEF MutexInv

LEMMA MutexExec ==
  ASSUME CallsInv, CalmInv, MutexInv, NEW e \in Execs, ExecAct(e)
  PROVE  MutexInv'
<1>0. /\ exec \in [Execs -> ExecState] /\ exec[e] \in ExecState
      /\ ~AppendFails(e) /\ ~AppendReplyLost(e)
  BY CalmExcludes DEF CallsInv, TypeOK
<1>1. CASE PublishLock(e)
  <2>1. /\ ~locked /\ locked' /\ exec'[e].pc = "fanout" /\ stream' = stream
        /\ \A f \in Execs : f # e => exec'[f] = exec[f]
    BY <1>0, <1>1 DEF PublishLock, Goto, ExecState
  <2>2. (\A f \in Execs : ~Fanning(f)) /\ \A s \in Streams : ~Holding(s)
    BY <2>1 DEF MutexInv
  <2> QED BY <2>1, <2>2 DEF MutexInv, Fanning, Holding
<1>2. CASE FanOut(e)
  <2>1. locked /\ (\A f \in Execs : Fanning(f) => f = e) /\ \A s \in Streams : ~Holding(s)
    BY <1>2 DEF FanOut, MutexInv, Fanning
  <2>2. /\ ~locked' /\ stream' = stream /\ exec'[e].pc \in {"ok", "work"}
        /\ \A f \in Execs : f # e => exec'[f] = exec[f]
    BY <1>0, <1>2, <2>1 DEF FanOut, Unlock, Goto, ExecState
  <2> QED BY <2>1, <2>2 DEF MutexInv, Fanning, Holding
<1>3. CASE AppendEvent(e) \/ Progress(e) \/ Respond(e) \/ CancelCall(e)
             \/ \E t \in Tasks : ExecuteTask(e, t)
  <2>1. CASE AppendEvent(e) \/ Progress(e)
    <3>1. exec[e].pc # "fanout" /\ locked' = locked /\ stream' = stream
      BY <2>1 DEF AppendEvent, Progress
    <3>2. exec'[e].pc # "fanout" /\ \A f \in Execs \ {e} : exec'[f] = exec[f]
      BY <2>1, RecordsOrReports
    <3>3. \A f \in Execs : Fanning(f)' <=> Fanning(f)
      BY <3>1, <3>2 DEF Fanning
    <3> QED BY <3>1, <3>3, MutexKept DEF Holding, MutexInv
  <2>2. CASE Respond(e)
    BY <1>0, <2>2, MutexKept DEF Respond, Goto, Publish, ExecState, Event, Fanning, Holding, MutexInv
  <2>3. CASE CancelCall(e)
    BY <1>0, <2>3, MutexKept DEF CancelCall, ExecState, Fanning, Holding, MutexInv
  <2>4. CASE \E t \in Tasks : ExecuteTask(e, t)
    BY <1>0, <2>4, MutexKept DEF ExecuteTask, ExecState, Fanning, Holding, MutexInv
  <2> QED BY <1>3, <2>1, <2>2, <2>3, <2>4
<1> QED BY <1>0, <1>1, <1>2, <1>3 DEF ExecAct, ExecStep

LEMMA MutexStream ==
  ASSUME CallsInv, CalmInv, MutexInv, NEW s \in Streams, StreamAct(s)
  PROVE  MutexInv'
<1>0. /\ stream \in [Streams -> StreamState] /\ stream[s] \in StreamState
      /\ ~ListFails(s) /\ ~Undo(s) /\ ~UnlockAgain(s)
  BY CalmExcludes DEF CallsInv, TypeOK, MutexInv, Undo, UnlockAgain
<1>1. CASE Register(s)
  <2>1. /\ ~locked /\ locked' /\ stream'[s].pc = "list" /\ exec' = exec
        /\ \A r \in Streams : r # s => stream'[r] = stream[r]
    BY <1>0, <1>1 DEF Register, StreamTo, StreamState
  <2>2. (\A f \in Execs : ~Fanning(f)) /\ \A r \in Streams : ~Holding(r)
    BY <2>1 DEF MutexInv
  <2> QED BY <2>1, <2>2 DEF MutexInv, Fanning, Holding
<1>2. CASE Replayed(s)
  <2>1. locked /\ (\A f \in Execs : ~Fanning(f)) /\ \A r \in Streams : Holding(r) => r = s
    <3>1. Holding(s)
      BY <1>2 DEF Replayed, Holding
    <3> QED BY <3>1 DEF MutexInv
  <2>2. /\ ~locked' /\ exec' = exec /\ stream'[s].pc = "read"
        /\ \A r \in Streams : r # s => stream'[r] = stream[r]
    BY <1>0, <1>2, <2>1 DEF Replayed, Unlock, StreamTo, StreamState
  <2> QED BY <2>1, <2>2 DEF MutexInv, Fanning, Holding
<1>3. CASE \/ List(s) \/ Replay(s) \/ Skip(s) \/ Send(s) \/ Leave(s) \/ Unregister(s) \/ Disconnect(s)
           \/ \E t \in Tasks : \E after \in {0, seen[t]} : Subscribe(s, t, after)
  <2>1. CASE List(s) \/ Replay(s)
    <3>1. stream[s].pc \in {"list", "replay"} /\ locked' = locked /\ exec' = exec
      BY <2>1 DEF List, Replay
    <3>2. stream'[s].pc = "replay" /\ \A r \in Streams \ {s} : stream'[r] = stream[r]
      <4>1. CASE List(s)
        BY <1>0, <4>1 DEF List, StreamState
      <4>2. CASE Replay(s)
        BY <1>0, <4>2 DEF Replay, StreamState
      <4> QED BY <2>1, <4>1, <4>2
    <3>3. \A r \in Streams : (Holding(r)' <=> Holding(r)) /\ stream'[r].pc \notin {"undo", "unlock"}
      BY <3>1, <3>2 DEF Holding, MutexInv
    <3> QED BY <3>1, <3>3, MutexKept DEF Fanning
  <2>2. CASE Skip(s)
    BY <1>0, <2>2, MutexKept DEF Skip, Fanning, Holding, MutexInv
  <2>3. CASE Send(s)
    BY <1>0, <2>3, MutexKept DEF Send, Deliver, StreamTo, StreamState, Fanning, Holding, MutexInv
  <2>4. CASE Leave(s) \/ Unregister(s)
    <3>1. stream[s].pc \notin {"list", "replay"} /\ locked' = locked /\ exec' = exec
      BY <2>4 DEF Leave, Unregister
    <3>2. /\ stream'[s].pc \in {"leave", "closed"}
          /\ \A r \in Streams \ {s} : stream'[r] = stream[r]
      <4>1. CASE Leave(s)
        BY <4>1, MovesTo DEF Leave
      <4>2. CASE Unregister(s)
        BY <4>2, MovesTo DEF Unregister
      <4> QED BY <2>4, <4>1, <4>2
    <3>3. \A r \in Streams : (Holding(r)' <=> Holding(r)) /\ stream'[r].pc \notin {"undo", "unlock"}
      BY <3>1, <3>2 DEF Holding, MutexInv
    <3> QED BY <3>1, <3>3, MutexKept DEF Fanning
  <2>5. CASE Disconnect(s)
    BY <1>0, <2>5, MutexKept DEF Disconnect, StreamState, Fanning, Holding, MutexInv
  <2>6. CASE \E t \in Tasks : \E after \in {0, seen[t]} : Subscribe(s, t, after)
    BY <1>0, <2>6, MutexKept DEF Subscribe, StreamState, Fanning, Holding, MutexInv
  <2> QED BY <1>3, <2>1, <2>2, <2>3, <2>4, <2>5, <2>6
<1> QED BY <1>0, <1>1, <1>2, <1>3 DEF StreamAct, StreamStep

LEMMA DeadRest ==
  ASSUME CallsInv, Die
  PROVE  /\ \A e \in Execs : exec'[e].pc = (IF exec[e].pc \in Rested THEN exec[e].pc ELSE "broken")
         /\ \A s \in Streams : stream'[s].pc = (IF stream[s].pc \in Rested THEN stream[s].pc ELSE "broken")
<1>1. exec \in [Execs -> ExecState] /\ stream \in [Streams -> StreamState]
  BY DEF CallsInv, TypeOK
<1> QED BY <1>1 DEF Die, Broken, ExecState, StreamState

LEMMA MutexStep == ASSUME CallsInv, CalmInv, MutexInv, [Next]_vars PROVE MutexInv'
<1>1. CASE \E e \in Execs : ExecAct(e)
  BY <1>1, MutexExec
<1>2. CASE \E s \in Streams : StreamAct(s)
  BY <1>2, MutexStream
<1>3. CASE Crash
  <2>1. Die
    BY <1>3 DEF Crash
  <2>2. ~locked' /\ (\A e \in Execs : ~Fanning(e)')
        /\ \A s \in Streams : ~Holding(s)' /\ stream'[s].pc \notin {"undo", "unlock"}
    BY <2>1, DeadRest DEF Die, Fanning, Holding, Rested
  <2> QED BY <2>2 DEF MutexInv
<1>4. CASE UNCHANGED vars
  BY <1>4, MutexKept DEF vars, Fanning, Holding, MutexInv
<1> QED BY <1>1, <1>2, <1>3, <1>4 DEF Next, ExecAct, StreamAct

LEMMA MutexInductive == ASSUME Calm PROVE Spec => [](CallsInv /\ CalmInv /\ MutexInv)
<1>1. Init => CallsInv /\ CalmInv /\ MutexInv
  <2> SUFFICES ASSUME Init PROVE CalmInv /\ MutexInv
    BY AgentInit
  <2>1. CalmInv
    BY DEF Init, Calm, CalmInv
  <2>2. MutexInv
    BY DEF Init, MutexInv, Fanning, Holding
  <2> QED BY <2>1, <2>2
<1>2. CallsInv /\ CalmInv /\ MutexInv /\ [Next]_vars => (CallsInv /\ CalmInv /\ MutexInv)'
  BY CallsStep, CalmStep, MutexStep
<1> QED BY <1>1, <1>2, PTL DEF Spec

\* Who is between Lock and Unlock: executions that fan out, streams that replay.
Inside ==
  {e \in Execs : exec[e].pc = "fanout"} \cup {s \in Streams : stream[s].pc \in {"list", "replay"}}

(* Service.mu is locked exactly when one handler is between Lock and       *)
(* Unlock, and never two: no publish and no subscribe leaves the mutex     *)
(* locked behind it, and a crash frees it.  This is the safe half of       *)
(* MutexFreed (service.go:133-192).                                        *)
THEOREM MutexHasOneOwner ==
  ASSUME Calm
  PROVE  Spec => []((locked <=> Inside # {}) /\ \A x, y \in Inside : x = y)
<1>1. MutexInv => (locked <=> Inside # {}) /\ \A x, y \in Inside : x = y
  BY DEF MutexInv, Fanning, Holding, Inside
<1> QED BY <1>1, MutexInductive, PTL
-----------------------------------------------------------------------------
LEMMA PendingKept ==
  ASSUME NEW t, \A e \in Execs : OnItsWay(e, t)' <=> OnItsWay(e, t)
  PROVE  Pending(t)' = Pending(t)
  BY DEF Pending

\* What concerns a stream, and what of it a step leaves alone.
LEMMA StreamKept ==
  ASSUME CallsInv, NEW s \in Streams, StreamInv(s),
         stream'[s].pc = stream[s].pc, stream'[s].after = stream[s].after,
         stream'[s].replay = stream[s].replay, reads'[s] = reads[s],
         buffer'[s] = buffer[s], shown'[s] = shown[s],
         \A t \in Tasks : (s \in registered'[t]) <=> (s \in registered[t]),
         log' = log, \A t \in Tasks : Pending(t)' = Pending(t)
  PROVE  StreamInv(s)'
<1>1. stream[s].pc # "off" => reads[s] \in Tasks
  BY DEF CallsInv, HasTask
<1>2. Queue(s)' = Queue(s) /\ Last(s)' = Last(s)
  BY DEF Queue, Last
<1>3. ASSUME stream[s].pc # "off"
      PROVE  /\ Len(log[reads[s]])' = Len(log[reads[s]])
             /\ Pending(reads[s])' = Pending(reads[s])
  BY <1>1, <1>3
<1>4. stream'[s].pc \in {"replay", "read"} =>
        Smooth(Queue(s)', Last(s)', Len(log[reads[s]])', Pending(reads[s])')
  BY <1>2, <1>3 DEF StreamInv
<1> QED BY <1>1, <1>4 DEF StreamInv, Smooth

LEMMA CallTypes ==
  ASSUME CallsInv, NEW e \in Execs
  PROVE  /\ exec \in [Execs -> ExecState] /\ exec[e] \in ExecState /\ exec[e].event \in Event
         /\ log \in [Tasks -> Seq(States)] /\ MaxProgress \in Nat
         /\ exec[e].pc # "off" => exec[e].task \in Tasks
         /\ exec[e].left \in 0..MaxProgress
<1>1. exec \in [Execs -> ExecState] /\ log \in [Tasks -> Seq(States)]
  BY DEF CallsInv, TypeOK
<1>2. exec[e] \in ExecState
  BY <1>1
<1>3. exec[e].left \in 0..MaxProgress /\ exec[e].event \in Event
  BY <1>2 DEF ExecState
<1>4. exec[e].pc # "off" => exec[e].task \in Tasks
  BY DEF CallsInv, HasTask
<1> QED BY <1>1, <1>2, <1>3, <1>4

LEMMA CallKept ==
  ASSUME NEW f \in Execs, CallInv(f), exec'[f] = exec[f],
         exec[f].pc # "off" => log'[exec[f].task] = log[exec[f].task]
  PROVE  CallInv(f)'
<1>1. CASE exec[f].pc = "off"
  BY <1>1 DEF CallInv
<1>2. CASE exec[f].pc # "off"
  BY <1>2 DEF CallInv
<1> QED BY <1>1, <1>2

\* An execution moves without touching the log or a channel.
LEMMA GapExecMoves ==
  ASSUME CallsInv, GapInv, Separate', NEW e \in Execs,
         PublishLock(e) \/ Progress(e) \/ Respond(e) \/ CancelCall(e)
           \/ \E t \in Tasks : ExecuteTask(e, t)
  PROVE  GapInv'
<1>0. /\ CallInv(e) /\ exec \in [Execs -> ExecState] /\ exec[e] \in ExecState
      /\ log \in [Tasks -> Seq(States)] /\ MaxProgress \in Nat
      /\ exec[e].pc # "off" => exec[e].task \in Tasks
      /\ exec[e].left \in 0..MaxProgress
  BY CallTypes DEF GapInv
<1>1. UNCHANGED <<log, reads, shown, registered, buffer, stream, seen>>
  <2>1. CASE PublishLock(e) \/ Progress(e) \/ Respond(e)
    BY <2>1 DEF PublishLock, Progress, Respond
  <2>2. CASE CancelCall(e) \/ \E t \in Tasks : ExecuteTask(e, t)
    BY <2>2 DEF CancelCall, ExecuteTask
  <2> QED BY <2>1, <2>2
<1>2. \/ /\ PublishLock(e) /\ exec[e].pc = "lock" /\ ~locked /\ locked' = TRUE
         /\ exec'[e].pc = "fanout"
         /\ exec'[e].task = exec[e].task /\ exec'[e].event = exec[e].event
         /\ exec'[e].left = exec[e].left /\ exec'[e].erred = exec[e].erred
      \/ /\ exec[e].pc = "work" /\ locked' = locked
         /\ exec'[e].pc = "append" /\ exec'[e].task = exec[e].task
         /\ exec'[e].erred = exec[e].erred
         /\ \/ exec'[e].event.state = "progress" /\ exec'[e].left = exec[e].left - 1
            \/ exec'[e].event.state \in Terminal /\ exec'[e].left = exec[e].left
      \/ /\ locked' = locked /\ exec'[e].pc = exec[e].pc /\ exec'[e].event = exec[e].event
         /\ exec'[e].task = exec[e].task
         /\ exec'[e].left = exec[e].left /\ exec'[e].erred = exec[e].erred
      \/ /\ exec[e].pc = "off" /\ locked' = locked /\ exec'[e].pc = "append"
         /\ exec'[e].task \in Tasks /\ exec'[e].event = exec[e].event
         /\ exec'[e].left = exec[e].left /\ exec'[e].erred = exec[e].erred
  <2>1. CASE PublishLock(e)
    BY <1>0, <2>1 DEF PublishLock, Goto, ExecState
  <2>2. CASE Progress(e)
    BY <1>0, <2>2 DEF Progress, ExecState, Event
  <2>3. CASE Respond(e)
    <3>1. ~exec[e].erred
      BY <1>0 DEF CallInv
    <3>2. PICK state \in Terminal : Publish(e, state)
      BY <2>3, <3>1 DEF Respond
    <3> QED BY <1>0, <2>3, <3>1, <3>2 DEF Respond, Publish, ExecState, Event
  <2>4. CASE CancelCall(e)
    BY <1>0, <2>4 DEF CancelCall, ExecState
  <2>5. ASSUME NEW t \in Tasks, ExecuteTask(e, t)
        PROVE  /\ exec[e].pc = "off" /\ locked' = locked /\ exec'[e].pc = "append"
               /\ exec'[e].task \in Tasks /\ exec'[e].event = exec[e].event
               /\ exec'[e].left = exec[e].left /\ exec'[e].erred = exec[e].erred
    BY <1>0, <2>5 DEF ExecuteTask, ExecState
  <2> QED BY <2>1, <2>2, <2>3, <2>4, <2>5
<1>3. \A f \in Execs : f # e => exec'[f] = exec[f]
  <2>1. CASE Respond(e)
    BY <1>0, <2>1 DEF Respond, Goto, Publish
  <2> QED BY <1>0, <2>1 DEF PublishLock, Progress, CancelCall, ExecuteTask, Goto
<1>4. CallInv(e)'
  <2>1. "progress" \notin Terminal /\ "running" \notin Terminal
    BY DEF Terminal
  <2>2. Len(log[exec[e].task]) \in Nat \/ exec[e].pc = "off"
    BY <1>0
  <2>3. ASSUME exec[e].pc = "off", exec'[e].task \in Tasks PROVE Len(log[exec'[e].task]) = 0
    <3>1. exec[e].task = NoTask
      BY <1>0, <2>3 DEF CallInv
    <3>2. ASSUME NEW f \in Execs PROVE exec[f].task # exec'[e].task
      BY <1>3, <2>3, <3>1 DEF Separate
    <3>3. log[exec'[e].task] = <<>>
      BY <2>3, <3>2 DEF GapInv, LogInv
    <3> QED BY <3>3
  <2>4. CASE exec[e].pc = "off" /\ exec'[e].pc = "append"
    <3>1. Len(log'[exec'[e].task]) = 0
      BY <1>1, <1>2, <2>3, <2>4
    <3>2. /\ exec'[e].left = MaxProgress /\ exec'[e].event.state = "running"
          /\ ~exec'[e].erred /\ exec'[e].left \in Nat
      BY <1>0, <1>2, <2>4 DEF CallInv
    <3> QED BY <1>0, <2>1, <2>4, <3>1, <3>2 DEF CallInv
  <2>5. CASE exec[e].pc = "off" /\ exec'[e].pc # "append"
    <3>1. /\ exec'[e].pc = "off" /\ exec'[e].event = exec[e].event
          /\ exec'[e].left = exec[e].left /\ exec'[e].erred = exec[e].erred
      BY <1>2, <2>5
    <3> QED BY <1>0, <1>1, <1>2, <2>5, <3>1 DEF CallInv
  <2>6. CASE exec[e].pc # "off"
    <3> DEFINE n == Len(log[exec[e].task])
    <3>1. /\ n \in Nat /\ exec[e].left \in Nat /\ exec'[e].task = exec[e].task
          /\ Len(log'[exec'[e].task]) = n
      BY <1>0, <1>1, <1>2, <2>6
    <3> HIDE DEF n
    <3>2. CASE exec[e].pc = "work" /\ exec'[e].pc = "append"
      <4>1. n + exec[e].left <= MaxProgress + 1 /\ ~exec[e].erred
        BY <1>0, <3>2 DEF CallInv, n
      <4> QED BY <1>0, <1>2, <2>1, <3>1, <3>2, <4>1 DEF CallInv
    <3>3. CASE ~(exec[e].pc = "work" /\ exec'[e].pc = "append")
      <4>1. /\ exec'[e].event = exec[e].event /\ exec'[e].left = exec[e].left
            /\ exec'[e].erred = exec[e].erred
            /\ \/ exec'[e].pc = exec[e].pc
               \/ exec[e].pc = "lock" /\ exec'[e].pc = "fanout"
        BY <1>2, <2>6, <3>3
      <4> QED BY <1>0, <1>1, <2>6, <3>1, <4>1 DEF CallInv, n
    <3> QED BY <3>2, <3>3
  <2> QED BY <2>4, <2>5, <2>6
<1>5. \A f \in Execs : CallInv(f)'
  BY <1>1, <1>3, <1>4, CallKept DEF GapInv
<1>6. LogInv'
  <2> SUFFICES ASSUME NEW t \in Tasks, \A f \in Execs : exec'[f].task # t PROVE log'[t] = <<>>
    BY DEF LogInv
  <2>1. exec[e].task # t
    BY <1>0, <1>2 DEF CallInv
  <2> QED BY <1>1, <1>3, <2>1 DEF GapInv, LogInv
<1>7. \A t \in Tasks : Pending(t)' = Pending(t)
  <2>1. ASSUME NEW t \in Tasks, NEW f \in Execs PROVE OnItsWay(f, t)' <=> OnItsWay(f, t)
    BY <1>2, <1>3 DEF OnItsWay
  <2> QED BY <2>1, PendingKept
<1>8. ASSUME NEW s \in Streams PROVE StreamInv(s)'
  BY <1>1, <1>7, StreamKept DEF GapInv
<1> QED BY <1>5, <1>6, <1>8 DEF GapInv

\* What belongs to another task a step of e leaves alone.
LEMMA OthersApart ==
  ASSUME CallsInv, Separate, NEW e \in Execs, exec[e].pc # "off", NEW f \in Execs, f # e
  PROVE  exec[e].task \in Tasks /\ exec[f].task # exec[e].task
  BY DEF CallsInv, HasTask, Separate

\* An event is recorded: it is pending then.
LEMMA GapAppend ==
  ASSUME CallsInv, GapInv, Separate, NEW e \in Execs, AppendEvent(e)
  PROVE  GapInv'
<1> DEFINE t == exec[e].task
           n == Len(log[t])
<1>0. /\ CallInv(e) /\ exec \in [Execs -> ExecState] /\ exec[e] \in ExecState
      /\ log \in [Tasks -> Seq(States)] /\ MaxProgress \in Nat /\ exec[e].left \in 0..MaxProgress
      /\ exec[e].pc = "append" /\ t \in Tasks /\ exec[e].event \in Event
  BY CallTypes DEF AppendEvent, GapInv
<1>1. /\ UNCHANGED <<reads, shown, locked, registered, buffer, stream, seen>>
      /\ log' = [log EXCEPT ![t] = Append(log[t], exec[e].event.state)]
  BY DEF AppendEvent, Logged
<1>2. /\ exec'[e].pc = "lock" /\ exec'[e].task = t
      /\ exec'[e].event.seq = Len(Append(log[t], exec[e].event.state))
      /\ exec'[e].event.state = exec[e].event.state
      /\ exec'[e].left = exec[e].left /\ exec'[e].erred = exec[e].erred
  BY <1>0 DEF AppendEvent, Logged, ExecState, Event
<1>3. /\ n \in Nat /\ Len(log'[t]) = n + 1 /\ Len(Append(log[t], exec[e].event.state)) = n + 1
      /\ \A u \in Tasks \ {t} : log'[u] = log[u]
      /\ \A u \in Tasks : Len(log[u]) \in Nat
  <2>1. exec[e].event.state \in States /\ log[t] \in Seq(States)
    BY <1>0 DEF Event
  <2> QED BY <1>0, <1>1, <2>1
<1>4. \A f \in Execs : f # e => exec'[f] = exec[f] /\ exec[f].task # t
  BY <1>0, OthersApart DEF AppendEvent
<1>5. CallInv(e)'
  <2>1. /\ n + exec[e].left <= MaxProgress + (IF exec[e].event.state \in Terminal THEN 1 ELSE 0)
        /\ ~exec[e].erred
    BY <1>0 DEF CallInv
  <2> HIDE DEF n
  <2>2. Len(log'[exec'[e].task]) = n + 1 /\ exec'[e].event.seq = n + 1
    BY <1>2, <1>3
  <2> QED BY <1>0, <1>2, <1>3, <2>1, <2>2 DEF CallInv
<1>a. ASSUME NEW f \in Execs PROVE CallInv(f)'
  <2>1. CASE f = e
    BY <1>5, <2>1
  <2>2. CASE f # e
    <3>1. exec[f].pc # "off" => exec[f].task \in Tasks
      BY DEF CallsInv, HasTask
    <3> QED BY <1>3, <1>4, <2>2, <3>1, CallKept DEF GapInv
  <2> QED BY <2>1, <2>2
<1>6. LogInv'
  <2> SUFFICES ASSUME NEW u \in Tasks, \A f \in Execs : exec'[f].task # u PROVE log'[u] = <<>>
    BY DEF LogInv
  <2>1. u # t /\ \A f \in Execs : exec[f].task # u
    BY <1>2, <1>4
  <2> QED BY <1>3, <2>1 DEF GapInv, LogInv
<1>b. Pending(t) = 0 /\ Pending(t)' = 1
  <2>1. \A f \in Execs : ~OnItsWay(f, t)
    BY <1>0, <1>4 DEF OnItsWay
  <2>2. OnItsWay(e, exec[e].task)'
    BY <1>2 DEF OnItsWay
  <2>3. (\E f \in Execs : OnItsWay(f, t))'
    BY <1>2 DEF OnItsWay
  <2> QED BY <2>1, <2>3 DEF Pending
<1>c. ASSUME NEW u \in Tasks, u # t PROVE Pending(u)' = Pending(u)
  <2>1. \A f \in Execs : OnItsWay(f, u)' <=> OnItsWay(f, u)
    BY <1>0, <1>2, <1>4, <1>c DEF OnItsWay
  <2> QED BY <2>1, PendingKept
<1>7. ASSUME NEW s \in Streams PROVE StreamInv(s)'
  <2>1. StreamInv(s)
    BY DEF GapInv
  <2>2. ASSUME stream[s].pc \in {"replay", "read"}
        PROVE  Smooth(Queue(s)', Last(s)', Len(log[reads[s]])', Pending(reads[s])')
    <3>1. /\ Smooth(Queue(s), Last(s), Len(log[reads[s]]), Pending(reads[s]))
          /\ Queue(s)' = Queue(s) /\ Last(s)' = Last(s) /\ reads'[s] = reads[s]
      BY <1>1, <2>1, <2>2 DEF StreamInv, Queue, Last
    <3>2. reads[s] \in Tasks
      BY <2>2 DEF CallsInv, HasTask
    <3>3. CASE reads[s] = t
      <4>1. Pending(reads[s]) = 0 /\ Pending(reads[s])' = 1
        BY <1>1, <1>2, <1>b, <3>1, <3>3
      <4>2. Queue(s) \in Seq(Event) /\ Last(s) \in Nat
        BY DEF CallsInv, TypeOK, StreamState, Queue, Last
      <4>3. Smooth(Queue(s), Last(s), n + 1, 1)
        BY <1>3, <3>1, <3>3, <4>1, <4>2, SmoothLog
      <4> QED BY <1>3, <3>1, <3>3, <4>1, <4>3
    <3>4. CASE reads[s] # t
      <4>1. Pending(reads[s])' = Pending(reads[s])
        BY <1>1, <1>c, <3>1, <3>2, <3>4
      <4> QED BY <1>3, <3>1, <3>2, <3>4, <4>1
    <3> QED BY <3>3, <3>4
  <2> QED BY <1>1, <2>1, <2>2 DEF StreamInv
<1> QED BY <1>a, <1>6, <1>7 DEF GapInv

\* The event of an execution is fanned out: every subscriber's channel has room.
LEMMA GapFanOut ==
  ASSUME MaxProgress + 3 <= Capacity, CallsInv, MutexInv, GapInv, Separate, NEW e \in Execs, FanOut(e)
  PROVE  GapInv'
<1> DEFINE t == exec[e].task
           n == Len(log[t])
           x == exec[e].event
           hit == {s \in registered[t] : Len(buffer[s]) < Capacity}
<1>0. /\ CallInv(e) /\ exec \in [Execs -> ExecState] /\ exec[e] \in ExecState
      /\ log \in [Tasks -> Seq(States)] /\ MaxProgress \in Nat /\ exec[e].left \in 0..MaxProgress
      /\ exec[e].pc = "fanout" /\ t \in Tasks /\ x \in Event
  BY CallTypes DEF FanOut, GapInv
<1>1. locked /\ \A s \in Streams : ~Holding(s)
  BY <1>0 DEF MutexInv, Fanning
<1>2. /\ locked' = FALSE /\ UNCHANGED <<log, reads, shown, registered, stream, seen>>
      /\ buffer' = [s \in Streams |-> IF s \in hit THEN Append(buffer[s], x) ELSE buffer[s]]
      /\ Goto(e, IF x.state \in Terminal THEN "ok" ELSE "work")
  BY <1>1 DEF FanOut, Unlock
<1>3. /\ exec'[e].pc = (IF x.state \in Terminal THEN "ok" ELSE "work") /\ exec'[e].task = t
      /\ exec'[e].event = x /\ exec'[e].left = exec[e].left /\ exec'[e].erred = exec[e].erred
      /\ \A f \in Execs : f # e => exec'[f] = exec[f]
  BY <1>0, <1>2 DEF Goto, ExecState
<1>4. /\ n \in Nat /\ x.seq = n /\ ~exec[e].erred
      /\ n + exec[e].left <= MaxProgress + (IF x.state \in Terminal THEN 2 ELSE 1)
  BY <1>0 DEF CallInv
<1>5. \A f \in Execs : f # e => exec[f].task # t
  BY <1>0, OthersApart
<1>6. ASSUME NEW f \in Execs PROVE CallInv(f)'
  <2>1. CASE f = e
    <3> HIDE DEF n, x
    <3>1. Len(log'[exec'[e].task]) = n
      BY <1>2, <1>3 DEF n
    <3>2. exec'[e].pc = "work" => x.state \notin Terminal
      BY <1>3
    <3> QED BY <1>0, <1>3, <1>4, <2>1, <3>1, <3>2 DEF CallInv
  <2>2. CASE f # e
    BY <1>2, <1>3, <2>2, CallKept DEF GapInv
  <2> QED BY <2>1, <2>2
<1>7. LogInv'
  <2> SUFFICES ASSUME NEW u \in Tasks, \A f \in Execs : exec'[f].task # u PROVE log'[u] = <<>>
    BY DEF LogInv
  <2>1. \A f \in Execs : exec[f].task # u
    BY <1>3
  <2> QED BY <1>2, <2>1 DEF GapInv, LogInv
<1>a. Pending(t) = 1 /\ Pending(t)' = 0
  <2>1. OnItsWay(e, t)
    BY <1>0 DEF OnItsWay
  <2>2. \A f \in Execs : ~(exec'[f].pc \in {"lock", "fanout"} /\ exec'[f].task = t)
    BY <1>3, <1>5
  <2>3. Pending(exec[e].task) = 1
    BY <2>1 DEF Pending
  <2>4. Pending(t)' = 0
    BY <1>3, <2>2 DEF Pending, OnItsWay
  <2> QED BY <2>3, <2>4
<1>b. ASSUME NEW u \in Tasks, u # t PROVE Pending(u)' = Pending(u)
  <2>1. \A f \in Execs : OnItsWay(f, u)' <=> OnItsWay(f, u)
    BY <1>0, <1>3, <1>b DEF OnItsWay
  <2> QED BY <2>1, PendingKept
<1>8. ASSUME NEW s \in Streams PROVE StreamInv(s)'
  <2>1. /\ StreamInv(s) /\ stream[s].pc \notin {"list", "replay"}
        /\ buffer[s] \in Seq(Event) /\ Last(s) \in Nat
        /\ Last(s)' = Last(s)
    BY <1>1, <1>2 DEF GapInv, Holding, CallsInv, TypeOK, StreamState, Last
  <2>2. stream[s].pc \in {"off", "lock"} => buffer'[s] = buffer[s]
    BY <1>0, <1>2, <2>1 DEF StreamInv
  <2>3. ASSUME stream[s].pc = "read"
        PROVE  Smooth(Queue(s)', Last(s)', Len(log[reads[s]])', Pending(reads[s])')
    <3>1. /\ stream[s].replay = <<>> /\ reads[s] \in Tasks /\ s \in registered[reads[s]]
          /\ Smooth(Queue(s), Last(s), Len(log[reads[s]]), Pending(reads[s]))
          /\ reads'[s] = reads[s]
      BY <1>2, <2>1, <2>3 DEF StreamInv, CallsInv, HasTask
    <3>2. buffer'[s] \in Seq(Event)
      BY <1>0, <1>2, <2>1
    <3>3. Queue(s) = buffer[s] /\ Queue(s)' = buffer'[s]
      <4>1. stream'[s].replay = <<>>
        BY <1>2, <3>1
      <4> QED BY <2>1, <3>1, <3>2, <4>1, NothingMoved DEF Queue
    <3>4. CASE reads[s] = t
      <4>1. Pending(reads[s]) = 1 /\ Pending(reads[s])' = 0
        BY <1>2, <1>3, <1>a, <3>4
      <4>2. Smooth(buffer[s], Last(s), n, 1)
        BY <3>1, <3>3, <3>4, <4>1
      <4>3. Len(buffer[s]) <= n /\ n < Capacity
        <5>1. Len(buffer[s]) + 1 <= n + 1 /\ Len(buffer[s]) \in Nat
          <6>1. Len(buffer[s]) + 1 <= n + 1
            BY <4>2 DEF Smooth
          <6> QED BY <2>1, <6>1
        <5>2. n <= MaxProgress + 2
          BY <1>0, <1>4
        <5> HIDE DEF n
        <5> QED BY <1>0, <1>4, <5>1, <5>2
      <4>4. s \in hit
        <5>1. Len(buffer[s]) \in Nat
          BY <2>1
        <5>2. Len(buffer[s]) < Capacity
          <6> HIDE DEF n
          <6> QED BY <1>4, <4>3, <5>1
        <5> QED BY <3>1, <3>4, <5>2
      <4>5. buffer'[s] = Append(buffer[s], x)
        BY <1>2, <4>4
      <4>6. Smooth(Append(buffer[s], x), Last(s), n, 0)
        BY <1>0, <1>4, <2>1, <4>2, SmoothAppend
      <4> QED BY <1>2, <2>1, <3>1, <3>3, <3>4, <4>1, <4>5, <4>6
    <3>5. CASE reads[s] # t
      <4>1. s \notin hit
        BY <1>0, <2>1, <3>5 DEF StreamInv
      <4>2. Pending(reads[s])' = Pending(reads[s])
        BY <1>b, <3>1, <3>5
      <4>3. buffer'[s] = buffer[s]
        BY <1>2, <4>1
      <4> QED BY <1>2, <2>1, <3>1, <3>3, <4>2, <4>3
    <3> QED BY <3>4, <3>5
  <2> QED BY <1>2, <2>1, <2>2, <2>3 DEF StreamInv
<1> QED BY <1>6, <1>7, <1>8 DEF GapInv

-----------------------------------------------------------------------------
\* A handler moves alone.
Only(s) ==
  /\ UNCHANGED <<exec, log>>
  /\ \A r \in Streams \ {s} :
       /\ stream'[r] = stream[r] /\ reads'[r] = reads[r]
       /\ buffer'[r] = buffer[r] /\ shown'[r] = shown[r]
       /\ \A t \in Tasks : (r \in registered'[t]) <=> (r \in registered[t])

LEMMA GapOwn ==
  ASSUME CallsInv, GapInv, NEW s \in Streams, Only(s), StreamInv(s)'
  PROVE  GapInv'
<1>1. /\ \A f \in Execs : CallInv(f)'
      /\ LogInv'
      /\ \A t \in Tasks : Pending(t)' = Pending(t)
  <2>1. \A f \in Execs : CallInv(f)'
    BY CallKept DEF Only, GapInv
  <2>2. LogInv'
    BY DEF Only, GapInv, LogInv
  <2>3. \A t \in Tasks : Pending(t)' = Pending(t)
    BY DEF Only, Pending, OnItsWay
  <2> QED BY <2>1, <2>2, <2>3
<1>2. ASSUME NEW r \in Streams \ {s} PROVE StreamInv(r)'
  <2>1. /\ stream'[r] = stream[r] /\ reads'[r] = reads[r]
        /\ buffer'[r] = buffer[r] /\ shown'[r] = shown[r] /\ log' = log
        /\ \A t \in Tasks : (r \in registered'[t]) <=> (r \in registered[t])
    BY DEF Only
  <2> QED BY <1>1, <2>1, StreamKept DEF GapInv
<1> QED BY <1>1, <1>2 DEF GapInv

LEMMA GapSubscribe ==
  ASSUME CallsInv, GapInv, NEW s \in Streams, NEW t \in Tasks,
         NEW after \in {0, seen[t]}, Subscribe(s, t, after)
  PROVE  GapInv'
<1>0. /\ stream \in [Streams -> StreamState] /\ stream[s] \in StreamState
      /\ reads \in [Streams -> Tasks \cup {NoTask}] /\ log \in [Tasks -> Seq(States)]
      /\ StreamInv(s)
  BY StreamTyped DEF GapInv, CallsInv, TypeOK
<1>1. /\ stream[s].pc = "off" /\ stream'[s].pc = "lock" /\ stream'[s].after = after
      /\ stream'[s].replay = stream[s].replay /\ reads'[s] = t
      /\ UNCHANGED <<log, shown, locked, registered, buffer, exec, seen>>
      /\ \A r \in Streams \ {s} : stream'[r] = stream[r] /\ reads'[r] = reads[r]
  BY <1>0 DEF Subscribe, StreamState
<1>2. Only(s)
  BY <1>1 DEF Only
<1>4. StreamInv(s)'
  BY <1>0, <1>1 DEF StreamInv
<1> QED BY <1>2, <1>4, GapOwn

LEMMA GapRegister ==
  ASSUME CallsInv, GapInv, NEW s \in Streams, Register(s)
  PROVE  GapInv'
<1>0. /\ registered \in [Tasks -> SUBSET Streams] /\ reads[s] \in Tasks
      /\ StreamInv(s) /\ stream[s].pc = "lock"
  BY StreamTyped DEF GapInv, Register
<1>1. /\ ~locked /\ locked' /\ UNCHANGED <<log, reads, shown, buffer, exec, seen>>
      /\ registered' = [registered EXCEPT ![reads[s]] = @ \cup {s}]
  BY DEF Register
<1>2. /\ stream'[s].pc = "list" /\ stream'[s].after = stream[s].after
      /\ stream'[s].replay = stream[s].replay
      /\ \A r \in Streams \ {s} : stream'[r] = stream[r]
  BY MovesTo DEF Register
<1>3. \A u \in Tasks : registered'[u] = IF u = reads[s] THEN registered[u] \cup {s} ELSE registered[u]
  BY <1>0, <1>1
<1>4. Only(s)
  BY <1>1, <1>2, <1>3 DEF Only
<1>6. StreamInv(s)'
  BY <1>0, <1>1, <1>2, <1>3 DEF StreamInv
<1> QED BY <1>4, <1>6, GapOwn

\* The log is listed and replayed under the mutex.
LEMMA GapReplay ==
  ASSUME CallsInv, GapInv, NEW s \in Streams, List(s) \/ Replay(s)
  PROVE  GapInv'
<1> DEFINE q == Queue(s)
           t == reads[s]
<1>0. /\ stream \in [Streams -> StreamState] /\ stream[s] \in StreamState
      /\ buffer \in [Streams -> Seq(Event)] /\ buffer[s] \in Seq(Event)
      /\ stream[s].replay \in Seq(Event) /\ stream[s].after \in Nat
      /\ StreamInv(s) /\ stream[s].pc \in {"list", "replay"} /\ reads[s] \in Tasks
  BY StreamTyped DEF GapInv, List, Replay
<1>1. UNCHANGED <<log, reads, shown, locked, registered, exec, seen>>
  BY DEF List, Replay
<1>2. /\ stream'[s].pc = "replay" /\ stream'[s].after = stream[s].after
      /\ \A r \in Streams \ {s} : stream'[r] = stream[r] /\ buffer'[r] = buffer[r]
      /\ \/ /\ List(s) /\ stream[s].pc = "list" /\ buffer'[s] = buffer[s]
            /\ stream'[s].replay = EventsAfter(reads[s], stream[s].after)
         \/ /\ stream[s].pc = "replay" /\ stream[s].replay # <<>>
            /\ buffer'[s] = Append(buffer[s], Head(stream[s].replay))
            /\ stream'[s].replay = Tail(stream[s].replay)
  BY <1>0 DEF List, Replay, StreamState
<1>3. Only(s)
  BY <1>1, <1>2 DEF Only
<1>5. Last(s)' = Last(s) /\ Pending(reads[s])' = Pending(reads[s])
  BY <1>1, <1>2 DEF Last, Pending, OnItsWay
<1>6. Smooth(Queue(s)', Last(s), Len(log[t]), Pending(t))
  <2>1. CASE stream[s].pc = "list"
    <3>1. /\ shown[s] = <<>> /\ buffer'[s] = <<>>
          /\ stream'[s].replay = EventsAfter(reads[s], stream[s].after)
      BY <1>0, <1>2, <2>1 DEF StreamInv
    <3>2. EventsAfter(t, stream[s].after) \in Seq(Event)
      BY <1>0, Listed DEF CallsInv
    <3>3. Queue(s)' = EventsAfter(t, stream[s].after)
      BY <3>1, <3>2, NothingMoved DEF Queue
    <3>4. Last(s) = stream[s].after /\ Pending(t) \in {0, 1}
      BY <1>0, <3>1 DEF Last, Pending, OnItsWay
    <3> QED BY <1>0, <3>3, <3>4, SmoothListed DEF CallsInv
  <2>2. CASE stream[s].pc = "replay"
    <3>1. /\ stream[s].replay # <<>> /\ buffer'[s] = Append(buffer[s], Head(stream[s].replay))
          /\ stream'[s].replay = Tail(stream[s].replay)
      BY <1>2, <2>2
    <3>2. Queue(s)' = Queue(s)
      BY <1>0, <3>1, OneMoved DEF Queue
    <3> QED BY <1>0, <2>2, <3>2 DEF StreamInv
  <2> QED BY <1>0, <2>1, <2>2
<1>7. StreamInv(s)'
  <2>1. s \in registered[reads[s]]
    BY <1>0 DEF StreamInv
  <2>2. \A u \in Tasks : s \in registered[u] => reads[s] = u
    BY <1>0 DEF StreamInv
  <2>3. \A i \in DOMAIN shown[s] : shown[s][i].seq = stream[s].after + i
    BY <1>0 DEF StreamInv
  <2>4. /\ reads'[s] = reads[s] /\ log' = log /\ Last(s)' = Last(s)
        /\ Pending(reads[s])' = Pending(reads[s])
    BY <1>1, <1>5
  <2> QED BY <1>1, <1>2, <1>6, <2>1, <2>2, <2>3, <2>4 DEF StreamInv
<1> QED BY <1>3, <1>7, GapOwn

\* The replay ends, and with it the handler's hold of the mutex.
LEMMA GapReplayed ==
  ASSUME CallsInv, GapInv, locked, NEW s \in Streams, Replayed(s)
  PROVE  GapInv'
<1>0. stream[s].pc = "replay" /\ stream[s].replay = <<>> /\ StreamInv(s)
  BY DEF GapInv, Replayed
<1>2. /\ locked' = FALSE /\ StreamTo(s, "read")
      /\ UNCHANGED <<log, reads, shown, registered, buffer, exec, seen>>
  BY DEF Replayed, Unlock
<1>3. /\ stream'[s].pc = "read" /\ stream'[s].after = stream[s].after
      /\ stream'[s].replay = stream[s].replay
      /\ \A r \in Streams \ {s} : stream'[r] = stream[r]
  BY <1>2, MovesTo
<1>4. Only(s)
  BY <1>2, <1>3 DEF Only
<1>6. StreamInv(s)'
  <2>1. Queue(s)' = Queue(s) /\ Last(s)' = Last(s) /\ Pending(reads[s])' = Pending(reads[s])
    BY <1>2, <1>3 DEF Queue, Last, Pending, OnItsWay
  <2>2. Smooth(Queue(s), Last(s), Len(log[reads[s]]), Pending(reads[s]))
    BY <1>0 DEF StreamInv
  <2> QED BY <1>0, <1>2, <1>3, <2>1, <2>2 DEF StreamInv
<1> QED BY <1>4, <1>6, GapOwn

\* What the handler compares a sequence with.
LEMMA LastIs ==
  ASSUME CallsInv, NEW s \in Streams, StreamInv(s)
  PROVE  LastSequence(s) = Last(s)
<1>1. shown[s] \in Seq(Event) /\ stream[s].after \in Nat
  BY StreamTyped
<1>2. shown[s] # <<>> => Len(shown[s]) \in DOMAIN shown[s]
  BY <1>1
<1>3. shown[s] = <<>> => Len(shown[s]) = 0
  OBVIOUS
<1> QED BY <1>1, <1>2, <1>3 DEF LastSequence, Newest, Last, StreamInv

\* The handler takes the next event out of its channel.
LEMMA GapRead ==
  ASSUME CallsInv, GapInv, NEW s \in Streams, Skip(s) \/ Send(s)
  PROVE  GapInv'
<1> DEFINE q == buffer[s]
           t == reads[s]
           n == Len(log[t])
           p == Pending(t)
<1>0. /\ StreamInv(s) /\ stream[s].pc = "read" /\ q # <<>>
      /\ buffer \in [Streams -> Seq(Event)] /\ shown \in [Streams -> Seq(Event)]
      /\ q \in Seq(Event) /\ t \in Tasks /\ Last(s) \in Nat
      /\ stream[s].after \in Nat /\ shown[s] \in Seq(Event) /\ seen \in [Tasks -> Nat]
      /\ log \in [Tasks -> Seq(States)]
  BY StreamTyped DEF GapInv, Skip, Send, CallsInv, TypeOK
<1>1. /\ n \in Nat /\ p \in {0, 1} /\ Head(q) = q[1] /\ LastSequence(s) = Last(s)
      /\ q[1] \in Event /\ q[1].seq \in Nat
  <2>1. n \in Nat /\ p \in {0, 1} /\ LastSequence(s) = Last(s)
    BY <1>0, LastIs DEF Pending
  <2>2. Head(q) = q[1] /\ q[1] \in Event
    BY <1>0
  <2>3. q[1].seq \in Nat
    BY <2>2 DEF Event
  <2> QED BY <2>1, <2>2, <2>3
<1>2. stream[s].replay = <<>> /\ Smooth(q, Last(s), n, p)
  <2>1. stream[s].replay = <<>> /\ Smooth(Queue(s), Last(s), n, p)
    BY <1>0 DEF StreamInv
  <2>2. Queue(s) = q
    BY <1>0, <2>1, NothingMoved DEF Queue
  <2> QED BY <2>1, <2>2
<1>3. UNCHANGED <<log, reads, locked, registered, exec>>
  BY DEF Skip, Send, Deliver
<1>4. /\ buffer'[s] = Tail(q) /\ \A r \in Streams \ {s} : buffer'[r] = buffer[r]
  BY <1>0 DEF Skip, Send, Deliver
<1>5. /\ stream'[s].pc \in {"read", "finish"} /\ stream'[s].after = stream[s].after
      /\ stream'[s].replay = stream[s].replay
      /\ \A r \in Streams \ {s} : stream'[r] = stream[r]
  <2>1. CASE Skip(s)
    BY <1>0, <2>1 DEF Skip
  <2>2. CASE Send(s)
    <3>1. StreamTo(s, IF Head(q).state \in Terminal THEN "finish" ELSE "read")
      BY <2>2 DEF Send, Deliver
    <3> QED BY <3>1, MovesTo
  <2> QED BY <2>1, <2>2
<1>6. \A r \in Streams \ {s} : shown'[r] = shown[r]
  BY <1>0 DEF Skip, Send, Deliver
<1>7. Only(s)
  BY <1>3, <1>4, <1>5, <1>6 DEF Only
<1>9. p' = p /\ n' = n
  BY <1>3 DEF Pending, OnItsWay
<1>10. Queue(s)' = Tail(q)
  <2>1. Tail(q) \in Seq(Event) /\ stream'[s].replay = <<>>
    BY <1>0, <1>2, <1>5
  <2> QED BY <1>4, <2>1, NothingMoved DEF Queue
<1>12. CASE Skip(s)
  <2>1. q[1].seq <= Last(s) /\ shown' = shown /\ seen' = seen
    BY <1>1, <1>12 DEF Skip
  <2>2. Smooth(Tail(q), Last(s), n, p)
    <3> HIDE DEF q, n, p
    <3> QED BY <1>0, <1>1, <1>2, <2>1, SmoothTail
  <2>3. Last(s)' = Last(s)
    BY <1>5, <2>1 DEF Last
  <2>4. Smooth(Queue(s)', Last(s)', n', p')
    BY <1>9, <1>10, <2>2, <2>3
  <2>5. StreamInv(s)'
    BY <1>0, <1>3, <1>5, <2>1, <2>4 DEF StreamInv
  <2> QED BY <1>7, <2>5, GapOwn
<1>13. CASE Send(s)
  <2>1. /\ q[1].seq > Last(s) /\ shown'[s] = Append(shown[s], q[1])
        /\ seen' = [seen EXCEPT ![t] = IF q[1].seq > @ THEN q[1].seq ELSE @]
    BY <1>0, <1>1, <1>13 DEF Send, Deliver
  <2>2. q[1].seq = Last(s) + 1 /\ Smooth(Tail(q), Last(s) + 1, n, p)
    <3> HIDE DEF q, n, p
    <3> QED BY <1>0, <1>1, <1>2, <2>1, SmoothTail
  <2>3. Last(s)' = Last(s) + 1
    <3>1. Len(shown'[s]) = Len(shown[s]) + 1 /\ Len(shown[s]) \in Nat
      <4>1. shown[s] \in Seq(Event) /\ q[1] \in Event /\ shown'[s] = Append(shown[s], q[1])
        BY <1>0, <1>1, <2>1
      <4> HIDE DEF q, t, n, p
      <4> QED BY <4>1, ShownAppended
    <3>2. stream'[s].after = stream[s].after
      BY <1>5
    <3>3. Last(s)' = stream[s].after + Len(shown'[s])
      BY <3>2 DEF Last
    <3>4. stream[s].after \in Nat
      BY <1>0
    <3> HIDE DEF q, t, n, p
    <3> QED BY <3>1, <3>3, <3>4 DEF Last
  <2>4. Smooth(Queue(s)', Last(s)', n', p')
    BY <1>9, <1>10, <2>2, <2>3
  <2>5. \A i \in DOMAIN shown'[s] : shown'[s][i].seq = stream'[s].after + i
    <3>1. /\ DOMAIN shown'[s] = 1..(Len(shown[s]) + 1) /\ Len(shown[s]) \in Nat
          /\ DOMAIN shown[s] = 1..Len(shown[s])
          /\ shown'[s][Len(shown[s]) + 1] = q[1]
          /\ \A i \in 1..Len(shown[s]) : shown'[s][i] = shown[s][i]
      <4>1. shown[s] \in Seq(Event) /\ q[1] \in Event /\ shown'[s] = Append(shown[s], q[1])
        BY <1>0, <1>1, <2>1
      <4> HIDE DEF q, t, n, p
      <4> QED BY <4>1, ShownAppended
    <3> SUFFICES ASSUME NEW i \in 1..(Len(shown[s]) + 1)
                 PROVE  shown'[s][i].seq = stream'[s].after + i
      BY <3>1
    <3>2. CASE i = Len(shown[s]) + 1
      <4>1. shown'[s][i] = q[1] /\ stream'[s].after = stream[s].after
        BY <1>5, <3>1, <3>2
      <4>2. q[1].seq = stream[s].after + Len(shown[s]) + 1
        BY <1>0, <2>2 DEF Last
      <4> HIDE DEF q, t, n, p
      <4>3. stream[s].after \in Nat /\ Len(shown[s]) \in Nat
        BY <1>0, <3>1
      <4> QED BY <3>2, <4>1, <4>2, <4>3
    <3>3. CASE i # Len(shown[s]) + 1
      <4>1. i \in 1..Len(shown[s])
        BY <3>1, <3>3
      <4> QED BY <1>0, <1>5, <3>1, <4>1 DEF StreamInv
    <3> QED BY <3>2, <3>3
  <2>6. StreamInv(s)'
    BY <1>0, <1>2, <1>3, <1>5, <2>4, <2>5 DEF StreamInv
  <2> QED BY <1>7, <2>6, GapOwn
<1> QED BY <1>12, <1>13

\* The handler returns, or its client goes away.
LEMMA GapLeave ==
  ASSUME CallsInv, GapInv, NEW s \in Streams,
         Leave(s) \/ Unregister(s) \/ Disconnect(s)
  PROVE  GapInv'
<1>0. /\ StreamInv(s) /\ registered \in [Tasks -> SUBSET Streams]
      /\ stream \in [Streams -> StreamState] /\ stream[s] \in StreamState
      /\ stream[s].pc # "off" => reads[s] \in Tasks
  BY StreamTyped DEF GapInv
<1>1. UNCHANGED <<log, reads, shown, locked, buffer, exec, seen>>
  BY DEF Leave, Unregister, Disconnect
<1>2. /\ stream'[s].after = stream[s].after /\ stream'[s].replay = stream[s].replay
      /\ \A r \in Streams \ {s} : stream'[r] = stream[r]
      /\ \/ stream'[s].pc = stream[s].pc /\ registered' = registered
         \/ stream[s].pc = "read" /\ stream'[s].pc = "leave" /\ registered' = registered
         \/ /\ stream[s].pc \in {"finish", "leave"} /\ stream'[s].pc = "closed"
            /\ registered' = [registered EXCEPT ![reads[s]] = @ \ {s}]
  <2>1. CASE Leave(s)
    BY <2>1, MovesTo DEF Leave
  <2>2. CASE Unregister(s)
    BY <2>2, MovesTo DEF Unregister
  <2>3. CASE Disconnect(s)
    BY <1>0, <2>3 DEF Disconnect, StreamState
  <2> QED BY <2>1, <2>2, <2>3
<1>3. /\ \A u \in Tasks : registered'[u] \subseteq registered[u]
      /\ stream'[s].pc # "closed" => registered' = registered
      /\ \A r \in Streams \ {s} : \A u \in Tasks : (r \in registered'[u]) <=> (r \in registered[u])
  BY <1>0, <1>2
<1>4. Only(s)
  BY <1>1, <1>2, <1>3 DEF Only
<1>6. StreamInv(s)'
  <2>1. Queue(s)' = Queue(s) /\ Last(s)' = Last(s) /\ Pending(reads[s])' = Pending(reads[s])
    BY <1>1, <1>2 DEF Queue, Last, Pending, OnItsWay
  <2>2. CASE stream'[s].pc = stream[s].pc /\ registered' = registered
    BY <1>0, <1>1, <1>2, <2>1, <2>2 DEF StreamInv
  <2>3. CASE stream'[s].pc \in {"leave", "closed"}
    BY <1>0, <1>1, <1>2, <1>3, <2>3 DEF StreamInv
  <2> QED BY <1>2, <2>2, <2>3
<1> QED BY <1>4, <1>6, GapOwn

\* The process dies, and with it the channels, the replays and, in memory, the log.
LEMMA GapDie ==
  ASSUME CallsInv, GapInv, Die
  PROVE  GapInv'
<1>0. exec \in [Execs -> ExecState] /\ stream \in [Streams -> StreamState]
  BY DEF CallsInv, TypeOK
<1>1. /\ log' = log \/ \A t \in Tasks : log'[t] = <<>>
      /\ registered' = [t \in Tasks |-> {}] /\ buffer' = [s \in Streams |-> <<>>]
      /\ UNCHANGED <<reads, shown>>
  BY DEF Die
<1>2. ASSUME NEW e \in Execs
      PROVE  /\ exec'[e].pc = (IF exec[e].pc \in Rested THEN exec[e].pc ELSE "broken")
             /\ exec'[e].task = exec[e].task /\ exec'[e].left = exec[e].left
             /\ exec'[e].event = exec[e].event /\ exec'[e].erred = exec[e].erred
             /\ exec[e].pc \in ExecSteps
  BY <1>0 DEF Die, Broken, ExecState
<1>3. ASSUME NEW s \in Streams
      PROVE  /\ stream'[s].pc = (IF stream[s].pc \in Rested THEN stream[s].pc ELSE "broken")
             /\ stream'[s].after = stream[s].after /\ stream'[s].replay = stream[s].replay
  BY <1>0 DEF Die, Broken, StreamState
<1>4. ASSUME NEW e \in Execs PROVE CallInv(e)'
  <2>1. CallInv(e)
    BY DEF GapInv
  <2>2. exec'[e].pc \in {"off", "ok", "broken"}
    BY <1>2, <2>1 DEF CallInv, Rested, ExecSteps
  <2>3. exec'[e].pc = "off" => exec[e].pc = "off"
    BY <1>2
  <2> QED BY <1>2, <2>1, <2>2, <2>3 DEF CallInv
<1>5. LogInv'
  <2> SUFFICES ASSUME NEW t \in Tasks, \A f \in Execs : exec'[f].task # t PROVE log'[t] = <<>>
    BY DEF LogInv
  <2>1. \A f \in Execs : exec[f].task # t
    BY <1>2
  <2> QED BY <1>1, <2>1 DEF GapInv, LogInv
<1>6. ASSUME NEW s \in Streams PROVE StreamInv(s)'
  <2>1. stream'[s].pc \notin {"lock", "list", "replay", "read"}
    BY <1>3 DEF Rested
  <2>2. stream'[s].pc = "off" => stream[s].pc = "off"
    BY <1>3
  <2>3. StreamInv(s)
    BY DEF GapInv
  <2> QED BY <1>1, <1>3, <2>1, <2>2, <2>3 DEF StreamInv
<1> QED BY <1>4, <1>5, <1>6 DEF GapInv

LEMMA GapStutters == ASSUME CallsInv, GapInv, UNCHANGED vars PROVE GapInv'
<1>1. UNCHANGED <<log, reads, shown, registered, buffer, stream, exec>>
  BY DEF vars
<1>2. (\A f \in Execs : CallInv(f)') /\ LogInv' /\ \A t \in Tasks : Pending(t)' = Pending(t)
  BY <1>1, CallKept DEF GapInv, LogInv, Pending, OnItsWay
<1>3. ASSUME NEW s \in Streams PROVE StreamInv(s)'
  BY <1>1, <1>2, StreamKept DEF GapInv
<1> QED BY <1>2, <1>3 DEF GapInv

LEMMA GapStep ==
  ASSUME MaxProgress + 3 <= Capacity, CallsInv, CalmInv, MutexInv, GapInv, Separate, Separate',
         [Next]_vars
  PROVE  GapInv'
<1>1. ASSUME NEW e \in Execs, ExecStep(e) \/ CancelCall(e) \/ \E t \in Tasks : ExecuteTask(e, t)
      PROVE  GapInv'
  BY <1>1, CalmExcludes, GapExecMoves, GapAppend, GapFanOut DEF ExecStep
<1>2. ASSUME NEW s \in Streams, StreamStep(s) \/ Disconnect(s) PROVE GapInv'
  <2>1. ~ListFails(s) /\ ~Undo(s) /\ ~UnlockAgain(s)
    BY CalmExcludes DEF Undo, UnlockAgain, MutexInv
  <2>2. Replayed(s) => locked
    BY DEF Replayed, MutexInv, Holding
  <2> QED BY <1>2, <2>1, <2>2, GapRegister, GapReplay, GapReplayed, GapRead, GapLeave DEF StreamStep
<1>3. ASSUME NEW s \in Streams, NEW t \in Tasks, NEW after \in {0, seen[t]}, Subscribe(s, t, after)
      PROVE  GapInv'
  BY <1>3, GapSubscribe
<1>4. CASE Crash
  BY <1>4, GapDie DEF Crash
<1>5. CASE UNCHANGED vars
  BY <1>5, GapStutters
<1> QED BY <1>1, <1>2, <1>3, <1>4, <1>5 DEF Next

LEMMA GapInitially == Init => GapInv
<1> SUFFICES ASSUME Init PROVE GapInv
  OBVIOUS
<1>1. ASSUME NEW e \in Execs PROVE CallInv(e)
  BY <1>1 DEF Init, FeedInit, CallInv
<1>2. LogInv
  BY DEF Init, FeedInit, LogInv
<1>3. ASSUME NEW s \in Streams PROVE StreamInv(s)
  BY <1>3 DEF Init, FeedInit, StreamInv
<1> QED BY <1>1, <1>2, <1>3 DEF GapInv

-----------------------------------------------------------------------------
(* While a task has one execution, and its events fit in the channel with  *)
(* the one that can come twice, a client gets every event after its        *)
(* cursor, in order, none skipped and none twice, whatever the executions  *)
(* of other tasks, the other clients and crashes do: subscribe             *)
(* (service.go:133-168) registers before it lists, so an event can be in   *)
(* the replay and come again live, but none falls in between.              *)
THEOREM ClientsMissNothing ==
  ASSUME Calm, MaxProgress + 3 <= Capacity
  PROVE  Spec /\ []Separate => []Gapless
<1> DEFINE Inv == CallsInv /\ CalmInv /\ MutexInv
<1>1. Init => GapInv
  BY GapInitially
<1>2. Inv /\ GapInv /\ Separate /\ Separate' /\ [Next]_vars => GapInv'
  BY GapStep
<1>3. GapInv => Gapless
  BY DEF GapInv, StreamInv, Gapless
<1>4. Spec => []Inv
  BY MutexInductive
<1> HIDE DEF Inv
<1> QED BY <1>1, <1>2, <1>3, <1>4, PTL DEF Spec
=============================================================================
