---------------------------- MODULE ChannelStart -----------------------------
(***************************************************************************)
(* Repository.Start and Stop over the enabled channels.  Start takes them  *)
(* one after the other, each adapter and then its worker; when one fails   *)
(* the context is cancelled and the adapters started before it are         *)
(* stopped, last first.  An adapter that holds a session with its platform *)
(* serves it in a goroutine, which takes the running flag back when the    *)
(* session ends by itself.                                                 *)
(*                                                                         *)
(* The sessions are external.  Start and Stop are called by the            *)
(* application's lifecycle, one after the other.                           *)
(***************************************************************************)
EXTENDS Integers

CONSTANTS
  Last,     \* the enabled channels are 1..Last, in the registry's order
  Sessions, \* those whose adapter serves a session: Feishu, QQ
  Late      \* the one that sets the flag after it started the goroutine, and
            \* whose session does not look at the context: QQ

ASSUME StartAssumption ==
  Last \in Nat \ {0} /\ Sessions \subseteq 1 .. Last /\ Late \subseteq Sessions

VARIABLES
  starting,   \* where Start is, and with which channel
  ending,     \* where Stop is
  contextDone,\* the context of the runtime is cancelled
  running,    \* the adapters' running flags
  session,    \* the adapters' goroutines
  diedEarly,  \* history: the session ended before the flag was set
  workerMap,  \* Repository.workers
  workerUp    \* the worker goroutines

adapterVars == <<running, session, diedEarly>>
startVars == <<starting, ending, contextDone, adapterVars, workerMap, workerUp>>
-----------------------------------------------------------------------------
Channels == 1 .. Last
StartSteps == {"idle", "adapter", "flag", "worker", "rollback", "started", "failed"}

StartInit ==
  /\ starting = [pc |-> "idle", at |-> 1] /\ ending = [pc |-> "no", at |-> 1]
  /\ contextDone = FALSE
  /\ running = [c \in Channels |-> FALSE] /\ session = [c \in Channels |-> FALSE]
  /\ diedEarly = {} /\ workerMap = {} /\ workerUp = {}

At(c, pc) == starting = [pc |-> pc, at |-> c]
GoTo(pc, c) == starting' = [pc |-> pc, at |-> c]

BeginStart ==
  /\ starting.pc = "idle"
  /\ GoTo("adapter", 1)
  /\ UNCHANGED <<ending, contextDone, adapterVars, workerMap, workerUp>>

StartAdapter(c) ==
  /\ At(c, "adapter")
  /\ session' = [session EXCEPT ![c] = c \in Sessions]
  /\ running' = [running EXCEPT ![c] = c \notin Late]
  /\ GoTo(IF c \in Late THEN "flag" ELSE "worker", c)
  /\ UNCHANGED <<ending, contextDone, diedEarly, workerMap, workerUp>>

\* The flag that a session which already ended took back is set again.
SetFlag(c) ==
  /\ At(c, "flag")
  /\ running' = [running EXCEPT ![c] = TRUE]
  /\ GoTo("worker", c)
  /\ UNCHANGED <<ending, contextDone, session, diedEarly, workerMap, workerUp>>

StartWorker(c) ==
  /\ At(c, "worker")
  /\ workerMap' = workerMap \cup {c} /\ workerUp' = workerUp \cup {c}
  /\ IF c = Last THEN GoTo("started", c) ELSE GoTo("adapter", c + 1)
  /\ UNCHANGED <<ending, contextDone, adapterVars>>

\* Mutant: the adapter before the failed one is forgotten.
AdapterFailsOneOff(c) ==
  /\ At(c, "adapter")
  /\ contextDone' = TRUE
  /\ IF c <= 2 THEN GoTo("failed", c) ELSE GoTo("rollback", c - 2)
  /\ UNCHANGED <<ending, adapterVars, workerMap, workerUp>>

AdapterFails(c) ==
  /\ At(c, "adapter")
  /\ contextDone' = TRUE
  /\ IF c = 1 THEN GoTo("failed", c) ELSE GoTo("rollback", c - 1)
  /\ UNCHANGED <<ending, adapterVars, workerMap, workerUp>>

\* The adapter's Stop: its session is told to end by the context.
Rollback(c) ==
  /\ At(c, "rollback")
  /\ running' = [running EXCEPT ![c] = FALSE]
  /\ IF c = 1 THEN GoTo("failed", c) ELSE GoTo("rollback", c - 1)
  /\ UNCHANGED <<ending, contextDone, session, diedEarly, workerMap, workerUp>>
-----------------------------------------------------------------------------
\* The connection breaks for good, or the session's client gives up.
SessionDies(c) ==
  /\ session[c]
  /\ session' = [session EXCEPT ![c] = FALSE]
  /\ running' = [running EXCEPT ![c] = FALSE]
  /\ diedEarly' = IF At(c, "flag") THEN diedEarly \cup {c} ELSE diedEarly
  /\ UNCHANGED <<starting, ending, contextDone, workerMap, workerUp>>

\* The context that Start was given ends before Stop is called.
RunContextDone ==
  /\ starting.pc = "started" /\ ~contextDone
  /\ contextDone' = TRUE
  /\ UNCHANGED <<starting, ending, adapterVars, workerMap, workerUp>>

\* QQ's session does not take the context: it goes on.
SessionEnds(c) ==
  /\ c \notin Late
  /\ contextDone /\ session[c]
  /\ session' = [session EXCEPT ![c] = FALSE]
  /\ UNCHANGED <<starting, ending, contextDone, running, diedEarly, workerMap, workerUp>>

\* The worker drains its queues and exits.
WorkerExits(c) ==
  /\ contextDone /\ c \in workerUp
  /\ workerUp' = workerUp \ {c}
  /\ UNCHANGED <<starting, ending, contextDone, adapterVars, workerMap>>

BeginStop ==
  /\ starting.pc \in {"started", "failed"} /\ ending.pc = "no"
  /\ ending' = [pc |-> "workers", at |-> 1]
  /\ contextDone' = TRUE /\ workerMap' = {}
  /\ UNCHANGED <<starting, adapterVars, workerUp>>

\* Stop waits for the workers, or until its own context ends.
WorkersGone ==
  /\ ending.pc = "workers"
  /\ ending' = [pc |-> "adapters", at |-> 1]
  /\ UNCHANGED <<starting, contextDone, adapterVars, workerMap, workerUp>>

StopAdapter(c) ==
  /\ ending = [pc |-> "adapters", at |-> c]
  /\ running' = [running EXCEPT ![c] = FALSE]
  /\ ending' = IF c = Last THEN [pc |-> "returned", at |-> c] ELSE [ending EXCEPT !.at = c + 1]
  /\ UNCHANGED <<starting, contextDone, session, diedEarly, workerMap, workerUp>>

StartStep(c) ==
  \/ StartAdapter(c) \/ SetFlag(c) \/ StartWorker(c) \/ AdapterFails(c) \/ Rollback(c)

EndStep(c) == SessionEnds(c) \/ WorkerExits(c) \/ StopAdapter(c)

StartNext ==
  \/ BeginStart \/ RunContextDone \/ BeginStop \/ WorkersGone
  \/ \E c \in Channels : StartStep(c) \/ SessionDies(c) \/ EndStep(c)

StartSpec == StartInit /\ [][StartNext]_startVars
-----------------------------------------------------------------------------
(* What must hold.                                                         *)

(* Every variable keeps its type; only sessions have goroutines.           *)
StartTypeOK ==
  /\ starting \in [pc : StartSteps, at : Channels]
  /\ ending \in [pc : {"no", "workers", "adapters", "returned"}, at : Channels]
  /\ contextDone \in BOOLEAN
  /\ running \in [Channels -> BOOLEAN] /\ session \in [Channels -> BOOLEAN]
  /\ \A c \in Channels \ Sessions : ~session[c]
  /\ diedEarly \subseteq Late
  /\ workerMap \subseteq Channels /\ workerUp \subseteq Channels

(* When Start has failed, or Stop has returned, no adapter says that it is *)
(* running, whichever of them failed and whatever their sessions did.      *)
NoneRunsAfter ==
  starting.pc = "failed" \/ ending.pc = "returned" => \A c \in Channels : ~running[c]

(* A flag that says "running" has a session behind it, as long as the      *)
(* runtime is not stopped, except for a session that ended while the       *)
(* adapter was still starting.                                             *)
FlagTells ==
  \A c \in Sessions : running[c] => session[c] \/ contextDone \/ c \in diedEarly
=============================================================================
