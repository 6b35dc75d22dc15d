----------------------------- MODULE AgentEvents -----------------------------
(***************************************************************************)
(* AgentRuntime's events (internal/application/agent): ExecuteTask appends *)
(* every event to the task's log and then fans it out to the task's        *)
(* subscribers; SubscribeTaskEvents registers a channel, replays the log   *)
(* into it and sends what arrives there to its client.                     *)
(*                                                                         *)
(* The log (events.go) has a lock of its own; "locked" is Service.mu, that *)
(* of the subscribers' map.  Service.lastEvents is left out: New always    *)
(* sets an event store, so nothing reads it.                               *)
(***************************************************************************)
EXTENDS EventFeed, FiniteSets

CONSTANTS
  Execs,         \* ExecuteTask calls
  Capacity,      \* slots of a subscriber's channel (16 in the code)
  Durable,       \* PostgreSQL store (log outlives the process), or memory
  MaxProgress,   \* bound: progress events of one execution
  MaxFaults,     \* bound: store errors and lost commit replies
  MaxCancels,    \* bound: calls and streams whose client goes away
  MaxCrashes     \* bound: crashes of the process

ASSUME AgentAssumption ==
  /\ NoTask \notin Tasks
  /\ Streams \cap Execs = {}
  /\ Capacity \in Nat \ {0}
  /\ Durable \in BOOLEAN
  /\ MaxProgress \in Nat /\ MaxFaults \in Nat
  /\ MaxCancels \in Nat /\ MaxCrashes \in Nat

VARIABLES
  locked,        \* Service.mu is locked
  registered,    \* Service.subscribers
  buffer,        \* buffer[s]: the channel of stream s
  stream,        \* stream[s]: the SubscribeTaskEvents handler
  exec,          \* exec[e]: the ExecuteTask handler
  seen,          \* seen[t]: highest sequence a client of t has received
  budget         \* what is left of the bounds

vars == <<log, reads, shown, ended, locked, registered, buffer, stream, exec,
          seen, budget>>

StreamSteps == {"off", "lock", "list", "replay", "read", "finish", "leave",
                "undo", "unlock", "closed", "failed", "broken"}
ExecSteps   == {"off", "append", "lock", "fanout", "work", "ok", "error", "broken"}
Rested      == {"off", "closed", "failed", "broken", "ok", "error"}

StreamState == [pc : StreamSteps, after : Nat, replay : Seq(Event), gone : BOOLEAN]
ExecState   == [pc : ExecSteps, task : Tasks \cup {NoTask}, event : Event,
                left : 0..MaxProgress, erred : BOOLEAN, gone : BOOLEAN]

TypeOK ==
  /\ log \in [Tasks -> Seq(States)]
  /\ reads \in [Streams -> Tasks \cup {NoTask}]
  /\ shown \in [Streams -> Seq(Event)]
  /\ ended \subseteq Streams
  /\ locked \in BOOLEAN
  /\ registered \in [Tasks -> SUBSET Streams]
  /\ buffer \in [Streams -> Seq(Event)]
  /\ \A s \in Streams : Len(buffer[s]) <= Capacity
  /\ stream \in [Streams -> StreamState]
  /\ exec \in [Execs -> ExecState]
  /\ seen \in [Tasks -> Nat]
  /\ budget \in [faults : Nat, cancels : Nat, crashes : Nat]

Init ==
  /\ FeedInit
  /\ locked = FALSE
  /\ registered = [t \in Tasks |-> {}]
  /\ buffer = [s \in Streams |-> <<>>]
  /\ stream = [s \in Streams |->
                 [pc |-> "off", after |-> 0, replay |-> <<>>, gone |-> FALSE]]
  /\ exec = [e \in Execs |->
               [pc |-> "off", task |-> NoTask, left |-> MaxProgress,
                event |-> [seq |-> 1, state |-> "running"],
                erred |-> FALSE, gone |-> FALSE]]
  /\ seen = [t \in Tasks |-> 0]
  /\ budget = [faults |-> MaxFaults, cancels |-> MaxCancels, crashes |-> MaxCrashes]

-----------------------------------------------------------------------------
\* The process dies and is started again: every call and stream breaks.
Broken(state) == IF state.pc \in Rested THEN state ELSE [state EXCEPT !.pc = "broken"]

Die ==
  /\ log' = IF Durable THEN log ELSE [t \in Tasks |-> <<>>]
  /\ locked' = FALSE
  /\ registered' = [t \in Tasks |-> {}]
  /\ buffer' = [s \in Streams |-> <<>>]
  /\ stream' = [s \in Streams |-> Broken(stream[s])]
  /\ exec' = [e \in Execs |-> Broken(exec[e])]
  /\ UNCHANGED <<reads, shown, ended, seen>>

\* sync.Mutex: unlocking a mutex that is not locked kills the process.
Unlock(effects) == IF locked THEN locked' = FALSE /\ effects ELSE Die

Spend(kind) ==
  /\ budget[kind] > 0
  /\ budget' = [budget EXCEPT ![kind] = @ - 1]

-----------------------------------------------------------------------------
\* ExecuteTask: publish "running", run the backend, publish its events and
\* then its response.

Goto(e, step) == exec' = [exec EXCEPT ![e].pc = step]
Publish(e, state) ==
  exec' = [exec EXCEPT ![e].pc = "append", ![e].event.state = state]

\* The handler takes Service.mu for a moment to read the backend.
ExecuteTask(e, t) ==
  /\ exec[e].pc = "off"
  /\ ~locked
  /\ exec' = [exec EXCEPT ![e].pc = "append", ![e].task = t]
  /\ UNCHANGED <<log, reads, shown, ended, locked, registered, buffer, stream,
                 seen, budget>>

Logged(e) == Append(log[exec[e].task], exec[e].event.state)

AppendEvent(e) ==
  /\ exec[e].pc = "append"
  /\ ~(Durable /\ exec[e].gone)
  /\ log' = [log EXCEPT ![exec[e].task] = Logged(e)]
  /\ exec' = [exec EXCEPT ![e].pc = "lock", ![e].event.seq = Len(Logged(e))]
  /\ UNCHANGED <<reads, shown, ended, locked, registered, buffer, stream, seen,
                 budget>>

\* Mutant: the error of the terminal event's Append is dropped.
AfterAppendErrorIgnored(e) ==
  exec' = IF exec[e].event.state = "progress"
          THEN [exec EXCEPT ![e].pc = "work", ![e].erred = TRUE]
          ELSE [exec EXCEPT ![e].pc = "ok"]

\* publish returns Append's error.  An execution that cannot record a progress
\* event goes on and reports the error when the backend has returned.
AfterAppendError(e) ==
  exec' = IF exec[e].event.state = "progress"
          THEN [exec EXCEPT ![e].pc = "work", ![e].erred = TRUE]
          ELSE [exec EXCEPT ![e].pc = "error"]

\* The call's context is done, or the store fails; only PostgreSQL looks.
AppendFails(e) ==
  /\ exec[e].pc = "append"
  /\ Durable
  /\ \/ exec[e].gone /\ UNCHANGED budget
     \/ Spend("faults")
  /\ AfterAppendError(e)
  /\ UNCHANGED <<log, reads, shown, ended, locked, registered, buffer, stream, seen>>

\* The row is committed and the reply to COMMIT is lost.
AppendReplyLost(e) ==
  /\ exec[e].pc = "append"
  /\ Durable
  /\ Spend("faults")
  /\ log' = [log EXCEPT ![exec[e].task] = Logged(e)]
  /\ AfterAppendError(e)
  /\ UNCHANGED <<reads, shown, ended, locked, registered, buffer, stream, seen>>

PublishLock(e) ==
  /\ exec[e].pc = "lock"
  /\ ~locked
  /\ locked' = TRUE
  /\ Goto(e, "fanout")
  /\ UNCHANGED <<log, reads, shown, ended, registered, buffer, stream, seen, budget>>

\* Mutant: a full channel is not noticed.
FanOutUnbounded(e) ==
  /\ exec[e].pc = "fanout"
  /\ Unlock(/\ buffer' = [s \in Streams |->
                            IF s \in registered[exec[e].task]
                            THEN Append(buffer[s], exec[e].event) ELSE buffer[s]]
            /\ Goto(e, IF exec[e].event.state \in Terminal THEN "ok" ELSE "work")
            /\ UNCHANGED <<log, reads, shown, ended, registered, stream, seen>>)
  /\ UNCHANGED budget

\* A full channel misses the event (the select's default).
FanOut(e) ==
  LET hit == {s \in registered[exec[e].task] : Len(buffer[s]) < Capacity} IN
  /\ exec[e].pc = "fanout"
  /\ Unlock(/\ buffer' = [s \in Streams |->
                            IF s \in hit THEN Append(buffer[s], exec[e].event)
                                         ELSE buffer[s]]
            /\ Goto(e, IF exec[e].event.state \in Terminal THEN "ok" ELSE "work")
            /\ UNCHANGED <<log, reads, shown, ended, registered, stream, seen>>)
  /\ UNCHANGED budget

\* The backend reports progress.
Progress(e) ==
  /\ exec[e].pc = "work"
  /\ exec[e].left > 0
  /\ exec' = [exec EXCEPT ![e].pc = "append", ![e].event.state = "progress",
                          ![e].left = @ - 1]
  /\ UNCHANGED <<log, reads, shown, ended, locked, registered, buffer, stream,
                 seen, budget>>

\* The backend returns a result or an error.
Respond(e) ==
  /\ exec[e].pc = "work"
  /\ IF exec[e].erred THEN Goto(e, "error")
                      ELSE \E state \in Terminal : Publish(e, state)
  /\ UNCHANGED <<log, reads, shown, ended, locked, registered, buffer, stream,
                 seen, budget>>

CancelCall(e) ==
  /\ exec[e].pc \notin Rested
  /\ ~exec[e].gone
  /\ Spend("cancels")
  /\ exec' = [exec EXCEPT ![e].gone = TRUE]
  /\ UNCHANGED <<log, reads, shown, ended, locked, registered, buffer, stream, seen>>

-----------------------------------------------------------------------------
\* SubscribeTaskEvents.

StreamTo(s, step) == stream' = [stream EXCEPT ![s].pc = step]

\* Clients pass 0 (LoopCore's bridge) or the last sequence they have seen.
Subscribe(s, t, after) ==
  /\ stream[s].pc = "off"
  /\ reads' = [reads EXCEPT ![s] = t]
  /\ stream' = [stream EXCEPT ![s].pc = "lock", ![s].after = after]
  /\ UNCHANGED <<log, shown, ended, locked, registered, buffer, exec, seen, budget>>

Register(s) ==
  /\ stream[s].pc = "lock"
  /\ ~locked
  /\ locked' = TRUE
  /\ registered' = [registered EXCEPT ![reads[s]] = @ \cup {s}]
  /\ StreamTo(s, "list")
  /\ UNCHANGED <<log, reads, shown, ended, buffer, exec, seen, budget>>

\* Mutant: the replay starts one event late.
EventsAfterNext(t, after) ==
  [i \in 1..(IF Len(log[t]) > after THEN Len(log[t]) - after - 1 ELSE 0) |->
     [seq |-> after + i + 1, state |-> log[t][after + i + 1]]]

EventsAfter(t, after) ==
  [i \in 1..(IF Len(log[t]) > after THEN Len(log[t]) - after ELSE 0) |->
     [seq |-> after + i, state |-> log[t][after + i]]]

List(s) ==
  /\ stream[s].pc = "list"
  /\ ~(Durable /\ stream[s].gone)
  /\ stream' = [stream EXCEPT ![s].pc = "replay",
                              ![s].replay = EventsAfter(reads[s], stream[s].after)]
  /\ UNCHANGED <<log, reads, shown, ended, locked, registered, buffer, exec, seen,
                 budget>>

\* The replay sends into the channel before anybody receives from it, and
\* holds Service.mu meanwhile.
Replay(s) ==
  /\ stream[s].pc = "replay"
  /\ stream[s].replay # <<>>
  /\ Len(buffer[s]) < Capacity
  /\ buffer' = [buffer EXCEPT ![s] = Append(@, Head(stream[s].replay))]
  /\ stream' = [stream EXCEPT ![s].replay = Tail(@)]
  /\ UNCHANGED <<log, reads, shown, ended, locked, registered, exec, seen, budget>>

\* Mutant: the replay returns without unlocking.
ReplayedLocked(s) ==
  /\ stream[s].pc = "replay"
  /\ stream[s].replay = <<>>
  /\ StreamTo(s, "read")
  /\ UNCHANGED <<log, reads, shown, ended, locked, registered, buffer, exec, seen,
                 budget>>

Replayed(s) ==
  /\ stream[s].pc = "replay"
  /\ stream[s].replay = <<>>
  /\ Unlock(/\ StreamTo(s, "read")
            /\ UNCHANGED <<log, reads, shown, ended, registered, buffer, exec, seen>>)
  /\ UNCHANGED budget

\* List fails: subscribe unlocks, removes the channel without the lock and
\* unlocks a second time.
ListFails(s) ==
  /\ stream[s].pc = "list"
  /\ Durable
  /\ \/ stream[s].gone /\ UNCHANGED budget
     \/ Spend("faults")
  /\ Unlock(/\ StreamTo(s, "undo")
            /\ UNCHANGED <<log, reads, shown, ended, registered, buffer, exec, seen>>)

\* The map is written without the lock: when another goroutine is using it,
\* the runtime may notice and kill the process.
Undo(s) ==
  /\ stream[s].pc = "undo"
  /\ \/ /\ registered' = [registered EXCEPT ![reads[s]] = @ \ {s}]
        /\ StreamTo(s, "unlock")
        /\ UNCHANGED <<log, reads, shown, ended, locked, buffer, exec, seen>>
     \/ locked /\ Die
  /\ UNCHANGED budget

UnlockAgain(s) ==
  /\ stream[s].pc = "unlock"
  /\ Unlock(/\ StreamTo(s, "failed")
            /\ UNCHANGED <<log, reads, shown, ended, registered, buffer, exec, seen>>)
  /\ UNCHANGED budget

\* The last sequence the handler has sent, or the client's cursor.
LastSequence(s) == IF shown[s] = <<>> THEN stream[s].after ELSE Newest(shown[s]).seq

Skip(s) ==
  /\ stream[s].pc = "read"
  /\ buffer[s] # <<>>
  /\ Head(buffer[s]).seq <= LastSequence(s)
  /\ buffer' = [buffer EXCEPT ![s] = Tail(@)]
  /\ UNCHANGED <<log, reads, shown, ended, locked, registered, stream, exec, seen,
                 budget>>

Deliver(s, event, stop) ==
  /\ buffer' = [buffer EXCEPT ![s] = Tail(@)]
  /\ shown' = [shown EXCEPT ![s] = Append(@, event)]
  /\ seen' = [seen EXCEPT ![reads[s]] = IF event.seq > @ THEN event.seq ELSE @]
  /\ StreamTo(s, IF event.state \in stop THEN "finish" ELSE "read")
  /\ UNCHANGED <<log, reads, ended, locked, registered, exec, budget>>

\* Mutants: every event is sent; only "final" ends the stream.
SendAll(s) ==
  /\ stream[s].pc = "read"
  /\ buffer[s] # <<>>
  /\ Deliver(s, Head(buffer[s]), Terminal)

SendUntilFinal(s) ==
  /\ stream[s].pc = "read"
  /\ buffer[s] # <<>>
  /\ Head(buffer[s]).seq > LastSequence(s)
  /\ Deliver(s, Head(buffer[s]), {"final"})

Send(s) ==
  /\ stream[s].pc = "read"
  /\ buffer[s] # <<>>
  /\ Head(buffer[s]).seq > LastSequence(s)
  /\ Deliver(s, Head(buffer[s]), Terminal)

\* The stream's context is done: the select or stream.Send returns its error.
Leave(s) ==
  /\ stream[s].pc = "read"
  /\ stream[s].gone
  /\ StreamTo(s, "leave")
  /\ UNCHANGED <<log, reads, shown, ended, locked, registered, buffer, exec, seen,
                 budget>>

\* The deferred cancel, and the handler's return.
Unregister(s) ==
  /\ stream[s].pc \in {"finish", "leave"}
  /\ ~locked
  /\ registered' = [registered EXCEPT ![reads[s]] = @ \ {s}]
  /\ ended' = IF stream[s].pc = "finish" THEN ended \cup {s} ELSE ended
  /\ StreamTo(s, "closed")
  /\ UNCHANGED <<log, reads, shown, locked, buffer, exec, seen, budget>>

Disconnect(s) ==
  /\ stream[s].pc \notin Rested
  /\ ~stream[s].gone
  /\ Spend("cancels")
  /\ stream' = [stream EXCEPT ![s].gone = TRUE]
  /\ UNCHANGED <<log, reads, shown, ended, locked, registered, buffer, exec, seen>>

Crash == Spend("crashes") /\ Die

-----------------------------------------------------------------------------
ExecStep(e) ==
  \/ AppendEvent(e) \/ AppendFails(e) \/ AppendReplyLost(e)
  \/ PublishLock(e) \/ FanOut(e) \/ Progress(e) \/ Respond(e)

StreamStep(s) ==
  \/ Register(s) \/ List(s) \/ Replay(s) \/ Replayed(s)
  \/ ListFails(s) \/ Undo(s) \/ UnlockAgain(s)
  \/ Skip(s) \/ Send(s) \/ Leave(s) \/ Unregister(s)

Next ==
  \/ \E e \in Execs :
       ExecStep(e) \/ CancelCall(e) \/ \E t \in Tasks : ExecuteTask(e, t)
  \/ \E s \in Streams :
       StreamStep(s) \/ Disconnect(s)
         \/ \E t \in Tasks : \E after \in {0, seen[t]} : Subscribe(s, t, after)
  \/ Crash

Spec == Init /\ [][Next]_vars

\* Goroutines that can run, do; nobody is obliged to call.  A mutex is handed
\* to a waiter that has waited long enough (Go's starvation mode), hence the
\* strong fairness of the two steps that take it.
Fairness ==
  /\ \A e \in Execs : WF_vars(ExecStep(e)) /\ SF_vars(PublishLock(e))
  /\ \A s \in Streams :
       WF_vars(StreamStep(s)) /\ SF_vars(Register(s)) /\ SF_vars(Unregister(s))

FairSpec == Spec /\ Fairness

-----------------------------------------------------------------------------
(***************************************************************************)
(* Properties.                                                             *)
(***************************************************************************)

\* AgentEvents implements EventFeed: with registration before the replay, the
\* log before the fan-out and the handler's comparison of sequences, every
\* event reaches a client at most once, in order, and only if it is logged.
\* (A crash of the memory build loses the log; it is not part of this claim.)
Feed == FeedSpec

\* While a task has one execution and its events fit in the channel, a client
\* misses nothing: subscribe (service.go:133-168) loses no event between the
\* replay and the live events, and shows none twice.
Gapless ==
  \A s \in Streams : \A i \in DOMAIN shown[s] :
    shown[s][i].seq = stream[s].after + i

\* A caller that was told the outcome of an execution finds that outcome in the
\* log, whatever failed or crashed since (ExecuteTask, service.go:71-81).
AnswerIsLogged ==
  \A e \in Execs :
    exec[e].pc = "ok" =>
      /\ exec[e].event.state \in Terminal
      /\ exec[e].event.seq \in DOMAIN log[exec[e].task]
      /\ log[exec[e].task][exec[e].event.seq] = exec[e].event.state

\* A stream does not outlive the execution it follows: when the log has a
\* terminal event past the client's cursor, the handler returns
\* (SubscribeTaskEvents, service.go:96-131).
Outlived(s) ==
  /\ stream[s].pc = "read"
  /\ \E i \in DOMAIN log[reads[s]] :
       i > stream[s].after /\ log[reads[s]][i] \in Terminal

StreamsEnd == \A s \in Streams : Outlived(s) ~> (stream[s].pc # "read")

\* Nobody keeps Service.mu for ever: a replay that fits in the channel ends, and
\* a fan-out never waits for a slow client (service.go:184-189).
MutexFreed == []<>(~locked)

\* Nobody is left waiting for AgentRuntime: neither for the end of a stream nor
\* for the mutex.
NobodyHangs == StreamsEnd /\ MutexFreed
=============================================================================
