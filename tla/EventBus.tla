------------------------------ MODULE EventBus ------------------------------
(***************************************************************************)
(* The event bus of the frontend (src/event-bus/event-bus.ts) with its UI  *)
(* batcher, in the desktop build: the event log is the Tauri command       *)
(* event_log_write, which may fail.                                        *)
(*                                                                         *)
(* JavaScript runs one piece of code at a time, so what the bus does       *)
(* between two awaits is one action.  publish() awaits the log write of a  *)
(* replay-grade event, then each core handler in turn; drain() awaits the  *)
(* writes of flushLog().  At each await every other call may go on.        *)
(***************************************************************************)
EXTENDS UiBatcher, FiniteSets

CONSTANTS
  Subs,                  \* subscription ids: each is used once
  Kind,                  \* Subs -> {"core", "plugin", "ui"}
  Wants,                 \* Subs -> SUBSET Events: what the filter matches
  ReplayGrade,           \* events with replayGrade set
  TooLarge,              \* events over config.maxPayloadBytes
  Intercepted,           \* events some middleware drops or throws on while it is
                         \* installed
  Source,                \* Events -> the service that publishes the event
  MaxConsecutivePanics,  \* config.maxConsecutivePanics
  LogFailureLimit,       \* failed writes in a row that fail the bus: 3
  ConsumerThrows,        \* TRUE: onBatchFlush may throw (its default does not)
  MaxStarts,             \* bound: calls of start()
  MaxDrains              \* bound: calls of drain()

ASSUME BusAssumption ==
  /\ IsFiniteSet(Subs) /\ IsFiniteSet(Events)
  /\ Kind \in [Subs -> {"core", "plugin", "ui"}]
  /\ Wants \in [Subs -> SUBSET Events]
  /\ ReplayGrade \subseteq Events /\ TooLarge \subseteq Events
  /\ Intercepted \subseteq Events /\ ConsumerThrows \in BOOLEAN
  /\ DOMAIN Source = Events
  /\ MaxConsecutivePanics \in Nat \ {0} /\ LogFailureLimit \in Nat \ {0}
  /\ MaxStarts \in Nat /\ MaxDrains \in Nat

VARIABLES
  state,        \* EventBusState
  sequence,     \* the sequence counter
  failures,     \* consecutiveLogFailures
  subscribers,  \* the subscription ids in the map
  older,        \* the map's order: for each id, those given out before it
  fresh,        \* subscription ids not given out yet
  panics,       \* consecutivePanics of each subscription
  quarantined,  \* subscriptions whose state is "quarantined"
  pc,           \* where each publish() call is
  seq,          \* the sequence number stamped on each event
  todo,         \* core subscriptions a call has still to serve, in the map's order
  matched,      \* the subscriptions a call matched
  result,       \* what each publish() call returned
  eventLog,     \* the log kept in memory
  flushing,     \* what drain() took out of eventLog and has not written yet
  draining,     \* a drain() call is in progress
  stored,       \* events written by the backend
  starts,       \* bound counters
  drains,
  handled,      \* history: the events each handler was called with, in order
  earlier       \* history: the calls that had returned when an event was published

controlVars  == <<state, sequence, failures>>
subVars      == <<subscribers, older, fresh>>
healthVars   == <<panics, quarantined>>
callVars     == <<pc, seq, todo, matched, result>>
logVars      == <<eventLog, stored>>
drainVars    == <<flushing, draining>>
boundVars    == <<starts, drains>>
historyVars  == <<handled, earlier>>
vars == <<controlVars, subVars, healthVars, callVars, logVars, drainVars,
          boundVars, historyVars, batcherVars>>

\* The states that outlast a call: start() passes "starting" and "ready".
EventBusState ==
  {"uninitialized", "running", "degraded", "draining", "stopped", "failed"}

Accepting == state \in {"running", "degraded"}

Init ==
  /\ BatcherInit
  /\ state = "uninitialized"
  /\ sequence = 0
  /\ failures = 0
  /\ subscribers = {}
  /\ older = [s \in Subs |-> {}]
  /\ fresh = Subs
  /\ panics = [s \in Subs |-> 0]
  /\ quarantined = {}
  /\ pc = [e \in Events |-> "idle"]
  /\ seq = [e \in Events |-> 0]
  /\ todo = [e \in Events |-> {}]
  /\ matched = [e \in Events |-> {}]
  /\ result = [e \in Events |-> "none"]
  /\ eventLog = <<>>
  /\ flushing = <<>>
  /\ draining = FALSE
  /\ stored = {}
  /\ starts = 0
  /\ drains = 0
  /\ handled = [s \in Subs |-> <<>>]
  /\ earlier = [e \in Events |-> {}]

-----------------------------------------------------------------------------
(* Lifecycle *)

StartOnlyBegins ==          \* mutant: the call ends in "starting"
  /\ state \in {"uninitialized", "stopped", "failed"} /\ starts < MaxStarts
  /\ starts' = starts + 1 /\ state' = "starting" /\ sequence' = 0
  /\ UNCHANGED <<failures, subVars, healthVars, callVars, logVars, drainVars,
                 drains, historyVars, batcherVars>>
Start ==
  /\ state \in {"uninitialized", "stopped", "failed"}
  /\ starts < MaxStarts
  /\ starts' = starts + 1
  /\ state' = "running"
  /\ sequence' = 0
  /\ UNCHANGED <<failures, subVars, healthVars, callVars, logVars, drainVars,
                 drains, historyVars, batcherVars>>

\* drain() looks at no state.  flushLog() takes the whole log out at once.
DrainBegin ==
  /\ ~draining /\ drains < MaxDrains
  /\ drains' = drains + 1
  /\ draining' = TRUE
  /\ state' = "draining"
  /\ flushing' = eventLog
  /\ eventLog' = <<>>
  /\ UNCHANGED <<sequence, failures, subVars, healthVars, callVars, stored,
                 starts, historyVars, batcherVars>>

\* Every event is written again; a write that fails is only logged.
DrainWrite ==
  /\ flushing # <<>>
  /\ \/ stored' = stored \cup {Head(flushing)}
     \/ UNCHANGED stored
  /\ flushing' = Tail(flushing)
  /\ UNCHANGED <<controlVars, subVars, healthVars, callVars, eventLog, draining,
                 boundVars, historyVars, batcherVars>>

\* If the consumer throws on the last batch, drain() rejects and leaves the state.
DrainEnd ==
  /\ draining /\ flushing = <<>>
  /\ draining' = FALSE
  /\ Flush
  /\ \/ state' = "stopped"
     \/ ConsumerThrows /\ openBatch # <<>> /\ UNCHANGED state
  /\ UNCHANGED <<sequence, failures, subVars, healthVars, callVars, logVars,
                 flushing, boundVars, historyVars>>

\* The state is assigned before the batcher is flushed, throwing or not.
ForceStop ==
  /\ state' = "stopped"
  /\ Flush
  /\ UNCHANGED <<sequence, failures, subVars, healthVars, callVars, logVars,
                 drainVars, boundVars, historyVars>>

-----------------------------------------------------------------------------
(* Subscriptions *)

Subscribe(s) ==
  /\ s \in fresh
  /\ fresh' = fresh \ {s}
  /\ subscribers' = subscribers \cup {s}
  /\ older' = [older EXCEPT ![s] = Subs \ fresh]
  /\ UNCHANGED <<controlVars, healthVars, callVars, logVars, drainVars,
                 boundVars, historyVars, batcherVars>>

Unsubscribe(s) ==
  /\ s \in subscribers
  /\ subscribers' = subscribers \ {s}
  /\ UNCHANGED <<older, fresh, controlVars, healthVars, callVars, logVars, drainVars,
                 boundVars, historyVars, batcherVars>>

-----------------------------------------------------------------------------
(* Delivery *)

Return(e, r) ==
  /\ pc' = [pc EXCEPT ![e] = "returned"]
  /\ result' = [result EXCEPT ![e] = r]

OfKind(k, S) == {s \in S : Kind[s] = k}

\* findMatchingSubscribers
Matching(e) == {s \in subscribers \ quarantined : e \in Wants[s]}

\* consecutivePanics after these subscriptions were served and those threw.
Panics(served, threw) ==
  [s \in Subs |-> IF s \in threw THEN panics[s] + 1
                  ELSE IF s \in served THEN 0 ELSE panics[s]]
Quarantined(threw) ==
  quarantined \cup {s \in threw : panics[s] + 1 >= MaxConsecutivePanics}

CallHandlers(e, S) ==
  handled' = [s \in Subs |-> IF s \in S THEN Append(handled[s], e) ELSE handled[s]]

\* The batcher gets the event; when its consumer throws, publish() rejects.
HandToUi(e) ==
  \/ Push(e) /\ Return(e, "ok")
  \/ ConsumerThrows /\ PushThrows(e) /\ Return(e, "rejected")

FinishDeliveryToAll(e, subs) ==    \* mutant: the core handlers are called again
  /\ CallHandlers(e, subs \ OfKind("ui", subs))
  /\ UNCHANGED <<healthVars, batcherVars>>
  /\ Return(e, "ok")
\* The plugin handlers are called and not awaited; one that throws at once
\* counts as a panic.  Then the batcher, and the call returns.
FinishDelivery(e, subs) ==
  LET plugins == OfKind("plugin", subs) IN
  /\ CallHandlers(e, plugins)
  /\ \E threw \in SUBSET plugins :
       panics' = Panics(plugins, threw) /\ quarantined' = Quarantined(threw)
  /\ IF OfKind("ui", subs) # {}
       THEN HandToUi(e)
       ELSE Return(e, "ok") /\ UNCHANGED batcherVars

\* The subscription of S that comes first in the map.
IsFirst(s, S) == s \in S /\ S \cap older[s] = {}

\* The call waits for this handler.
ServeNext(e, S) ==
  /\ \E s \in S : IsFirst(s, S) /\ CallHandlers(e, {s})
  /\ pc' = [pc EXCEPT ![e] = "handling"]
  /\ UNCHANGED <<result, healthVars, batcherVars>>

\* The rest of publish() once the event may be delivered.  Middlewares are added
\* and removed at any time; a dropped event counts as published, and publish()
\* rejects with what a middleware throws, be the event in the log or not.
StopInMiddleware(e) ==
  /\ e \in Intercepted
  /\ \E r \in {"ok", "rejected"} : Return(e, r)
  /\ UNCHANGED <<todo, matched, handled, healthVars, batcherVars>>

DeliverToMatching(e) ==
  LET core == OfKind("core", Matching(e)) IN
  /\ matched' = [matched EXCEPT ![e] = Matching(e)]
  /\ todo' = [todo EXCEPT ![e] = core]
  /\ IF core = {} THEN FinishDelivery(e, Matching(e)) ELSE ServeNext(e, core)

Distribute(e) == StopInMiddleware(e) \/ DeliverToMatching(e)

-----------------------------------------------------------------------------
(* publish() *)

Refuse(e) ==
  /\ pc[e] = "idle"
  /\ ~Accepting \/ e \in TooLarge
  /\ Return(e, "refused")
  /\ UNCHANGED <<controlVars, subVars, healthVars, seq, todo, matched, logVars,
                 drainVars, boundVars, historyVars, batcherVars>>

PublishUnlogged(e) ==       \* mutant: replay-grade events are not logged first
  /\ pc[e] = "idle" /\ Accepting /\ e \notin TooLarge
  /\ sequence' = sequence + 1 /\ seq' = [seq EXCEPT ![e] = sequence + 1]
  /\ earlier' = [earlier EXCEPT ![e] = {f \in Events : pc[f] = "returned"}]
  /\ Distribute(e)
  /\ UNCHANGED <<state, failures, subVars, logVars, drainVars, boundVars>>
Publish(e) ==
  /\ pc[e] = "idle"
  /\ Accepting /\ e \notin TooLarge
  /\ sequence' = sequence + 1
  /\ seq' = [seq EXCEPT ![e] = sequence + 1]
  /\ earlier' = [earlier EXCEPT ![e] = {f \in Events : pc[f] = "returned"}]
  /\ IF e \in ReplayGrade
       THEN /\ eventLog' = Append(eventLog, e)
            /\ pc' = [pc EXCEPT ![e] = "logging"]
            /\ UNCHANGED <<todo, matched, result, handled, healthVars, batcherVars>>
       ELSE Distribute(e) /\ UNCHANGED eventLog
  /\ UNCHANGED <<state, failures, subVars, stored, drainVars, boundVars>>

\* The bus may have been drained, stopped or restarted since the write began:
\* neither branch looks at the state.
LogWritten(e) ==
  /\ pc[e] = "logging"
  /\ stored' = stored \cup {e}
  /\ failures' = 0
  /\ Distribute(e)
  /\ UNCHANGED <<state, sequence, subVars, seq, eventLog, drainVars, boundVars,
                 earlier>>

LogFailed(e) ==
  /\ pc[e] = "logging"
  /\ failures' = failures + 1
  /\ state' = IF failures + 1 >= LogFailureLimit THEN "failed" ELSE "degraded"
  /\ Return(e, "failed")
  /\ UNCHANGED <<sequence, subVars, healthVars, seq, todo, matched, logVars,
                 drainVars, boundVars, historyVars, batcherVars>>

SettleLast(e, ok) ==         \* mutant: a rejection ends the delivery
  /\ pc[e] = "handling"
  /\ \E s \in todo[e] :
       /\ IsFirst(s, todo[e])
       /\ panics' = Panics({s}, IF ok THEN {} ELSE {s})
       /\ quarantined' = Quarantined(IF ok THEN {} ELSE {s})
       /\ todo' = [todo EXCEPT ![e] = IF ok THEN @ \ {s} ELSE {}]
  /\ pc' = [pc EXCEPT ![e] = "settled"]
  /\ UNCHANGED <<controlVars, subVars, seq, matched, result, logVars, drainVars,
                 boundVars, historyVars, batcherVars>>
\* A core handler settles: it resolves, or it rejects or has thrown.
Settle(e, ok) ==
  /\ pc[e] = "handling"
  /\ \E s \in todo[e] :
       /\ IsFirst(s, todo[e])
       /\ panics' = Panics({s}, IF ok THEN {} ELSE {s})
       /\ quarantined' = Quarantined(IF ok THEN {} ELSE {s})
       /\ todo' = [todo EXCEPT ![e] = @ \ {s}]
  /\ pc' = [pc EXCEPT ![e] = "settled"]
  /\ UNCHANGED <<controlVars, subVars, seq, matched, result, logVars, drainVars,
                 boundVars, historyVars, batcherVars>>

ResumeIfAccepting(e) ==     \* mutant: a bus that was stopped goes no further
  /\ pc[e] = "settled" /\ Accepting
  /\ IF todo[e] = {} THEN FinishDelivery(e, matched[e]) ELSE ServeNext(e, todo[e])
  /\ UNCHANGED <<controlVars, subVars, seq, todo, matched, logVars, drainVars,
                 boundVars, earlier>>
\* publish() goes on to the next core subscriber, or to the others.
Resume(e) ==
  /\ pc[e] = "settled"
  /\ IF todo[e] = {} THEN FinishDelivery(e, matched[e]) ELSE ServeNext(e, todo[e])
  /\ UNCHANGED <<controlVars, subVars, seq, todo, matched, logVars, drainVars,
                 boundVars, earlier>>

-----------------------------------------------------------------------------

\* The batch interval is over.
TimerFires ==
  /\ timerSet
  /\ Flush
  /\ UNCHANGED <<controlVars, subVars, healthVars, callVars, logVars, drainVars,
                 boundVars, historyVars>>

Lifecycle == Start \/ DrainBegin \/ DrainWrite \/ DrainEnd \/ ForceStop

PublishStep(e) ==
  \/ LogWritten(e) \/ LogFailed(e)
  \/ \E ok \in BOOLEAN : Settle(e, ok)
  \/ Resume(e)

Next ==
  \/ Lifecycle
  \/ \E s \in Subs : Subscribe(s) \/ Unsubscribe(s)
  \/ \E e \in Events : Refuse(e) \/ Publish(e) \/ PublishStep(e)
  \/ TimerFires

Spec == Init /\ [][Next]_vars

\* Tauri answers every command, handlers settle, and the event loop runs the
\* continuations and timers that are due.
Fairness ==
  /\ \A e \in Events : WF_vars(PublishStep(e))
  /\ WF_vars(DrainWrite) /\ WF_vars(DrainEnd)
  /\ WF_vars(TimerFires)

FairSpec == Spec /\ Fairness

-----------------------------------------------------------------------------
(* Properties *)

\* A handler was called with the event, or the UI was given it.
Reached(e) ==
  \/ \E s \in Subs : e \in Range(handled[s])
  \/ \E i \in DOMAIN UiStream : e \in Range(UiStream[i])

\* The values every variable ranges over; a call leaves the bus in a state that
\* the next call knows.
TypeOK ==
  /\ BatcherTypeOK
  /\ state \in EventBusState
  /\ sequence \in Nat /\ failures \in Nat
  /\ subscribers \subseteq Subs /\ fresh \subseteq Subs
  /\ older \in [Subs -> SUBSET Subs]
  /\ panics \in [Subs -> Nat] /\ quarantined \subseteq Subs
  /\ pc \in [Events -> {"idle", "logging", "handling", "settled", "returned"}]
  /\ seq \in [Events -> Nat]
  /\ todo \in [Events -> SUBSET Subs]
  /\ matched \in [Events -> SUBSET Subs]
  /\ result \in [Events -> {"none", "ok", "rejected", "failed", "refused"}]
  /\ eventLog \in Seq(Events) /\ flushing \in Seq(Events)
  /\ draining \in BOOLEAN
  /\ stored \subseteq Events
  /\ starts \in 0..MaxStarts /\ drains \in 0..MaxDrains
  /\ handled \in [Subs -> Seq(Events)]
  /\ earlier \in [Events -> SUBSET Events]

\* A replay-grade event is on disk before anybody sees it and before its publish()
\* succeeds or rejects with what was thrown on the way, and an event whose
\* publish() failed is seen by nobody, neither by a handler nor by the UI, then
\* or later.
WriteAhead ==
  \A e \in Events :
    /\ e \in ReplayGrade /\ (Reached(e) \/ result[e] \in {"ok", "rejected"}) => e \in stored
    /\ result[e] \in {"failed", "refused"} => ~Reached(e)

\* Handlers are called once at most for an event, and only for one they match;
\* when publish() returns ok each of them has been, but for those that were
\* quarantined or unsubscribed on the way: a core handler that rejects, a plugin
\* that throws, a quarantine or an unsubscribe takes the event from nobody else.
Calls(s, e) == Cardinality({i \in DOMAIN handled[s] : handled[s][i] = e})
Served(e) == (matched[e] \cap subscribers) \ quarantined
DeliveredOnce ==
  \A e \in Events, s \in Subs :
    /\ Calls(s, e) <= 1
    /\ Calls(s, e) = 1 => s \in matched[e]
    /\ result[e] = "ok" /\ Kind[s] # "ui" /\ s \in Served(e) => Calls(s, e) = 1

\* A publisher that waits for publish() to return has its events seen in order:
\* no handler gets, and the UI does not show, an event after one that was
\* published when the first had already returned.  (Coalesced events stand in
\* the place of their first one.)
ServedInOrder ==
  /\ \A s \in Subs : \A i, j \in DOMAIN handled[s] :
       i < j => handled[s][j] \notin earlier[handled[s][i]]
  /\ \A i, j \in DOMAIN UiStream :
       LET e == Head(UiStream[i])
           f == Head(UiStream[j]) IN
       i < j /\ KeyOf[e] = NoKey /\ KeyOf[f] = NoKey => f \notin earlier[e]

\* What a publisher knows of its event.
StageOf(e) == CASE pc[e] = "idle"     -> "idle"
                [] pc[e] = "returned" -> result[e]
                [] OTHER              -> "underway"
Stages == [e \in Events |-> StageOf(e)]

Broker == INSTANCE Broker WITH
  Listeners    <- Subs,
  MustBeStored <- ReplayGrade,
  Replaced     <- [e \in Events |-> TakesPlaceOf(e)],
  stage        <- Stages,
  disk         <- stored,
  inbox        <- handled,
  pending      <- EventsIn(openBatch),
  onScreen     <- EventsIn(shown)

\* The bus keeps the broker's promise (see Broker): whatever overlaps, throws, is
\* drained, stopped, started again, quarantined or unsubscribed, a listener gets
\* an event once at most, after it is on disk if it must be, and never one whose
\* publish() refused or failed; what the UI is given is shown or gives way to
\* newer progress of its own key.
ImplementsBroker == Broker!Spec

\* publish() comes to its end: a log write or a handler that ends, however it
\* ends, is followed by the rest of the call, whatever happened to the bus.
Suspending ==
  ReplayGrade \cup UNION {Wants[s] : s \in OfKind("core", Subs)}
PublishReturns ==
  \A e \in Suspending : (pc[e] \in {"logging", "handling", "settled"}) ~> (pc[e] = "returned")

\* No event stays in the open batch: it is emitted or replaced by newer progress.
ForUi == UNION {Wants[s] : s \in OfKind("ui", Subs)}
UiEventuallyShown == \A e \in ForUi \ Immediate : Waiting(e) ~> ~Waiting(e)

-----------------------------------------------------------------------------
(* What the documents say, and the code does not do. *)

\* EventBus-Part05, shutdown: publish() is rejected from Draining on.  So a bus
\* that refuses events takes them again only after start().
OnlyStartReopens == [][~Accepting /\ Accepting' => starts' > starts]_vars

\* EventBus-Part01: events from the same source are delivered in publication
\* order.  (Stated for a bus that is started once: start() resets the numbers.)
PerSourceOrder ==
  \A s \in Subs : \A i, j \in DOMAIN handled[s] :
    i < j /\ Source[handled[s][i]] = Source[handled[s][j]]
      => seq[handled[s][i]] < seq[handled[s][j]]

\* EventBus-Part03: a quarantined plugin receives no further events.
QuarantinedGetsNothing ==
  [][\A s \in OfKind("plugin", quarantined) : handled'[s] = handled[s]]_vars
=============================================================================
