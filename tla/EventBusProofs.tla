--------------------------- MODULE EventBusProofs ---------------------------
(***************************************************************************)
(* What holds of the event bus for every set of events and subscriptions   *)
(* and every limit: it is logged before it is seen, each handler that      *)
(* matches is called once, nobody sees an event before one that its        *)
(* publisher had waited for, sequence numbers follow the order of          *)
(* publication, the whole implements the abstract Broker, and a publish()  *)
(* gets nearer its end with every step.  That it takes them, and that the  *)
(* UI is shown what waits, needs fairness and is left to TLC.              *)
(***************************************************************************)
EXTENDS EventBus, UiBatcherProofs, FiniteSetTheorems, WellFoundedInduction

Has(s, e) == e \in Range(handled[s])
InUi(e)   == \E i \in DOMAIN UiStream : e \in Range(UiStream[i])

\* What publish() answers once its event may be delivered.
Delivered == {"ok", "rejected"}

Starting(e) == pc[e] \in {"idle", "logging"}
Serving(e)  == pc[e] \in {"handling", "settled"}

\* The map's order is total: of two ids one was given out before the other.
MapInv ==
  /\ subscribers \subseteq Subs \ fresh
  /\ \A s, t \in Subs \ fresh : s # t => s \in older[t] \/ t \in older[s]

\* A core handler has been called when its turn is over, or has come.
CalledInTurn(e) ==
  \A s \in OfKind("core", matched[e]) :
    Has(s, e) <=> s \notin todo[e] \/ (pc[e] = "handling" /\ IsFirst(s, todo[e]))

\* Who has seen the event at each point of its publish() call.
CallInv(e) ==
  /\ todo[e] \subseteq Subs \ fresh
  /\ \A s \in Subs : Has(s, e) => s \in matched[e]
  /\ Starting(e) => matched[e] = {} /\ ~InUi(e) /\ result[e] = "none"
  /\ pc[e] = "idle" => earlier[e] = {}
  /\ Serving(e) =>
       /\ result[e] = "none" /\ ~InUi(e)
       /\ e \in ReplayGrade => e \in stored
       /\ todo[e] \subseteq OfKind("core", matched[e])
       /\ \A s \in OfKind("plugin", matched[e]) : ~Has(s, e)
       /\ CalledInTurn(e)
  /\ pc[e] = "returned" =>
       IF result[e] \in Delivered
         THEN /\ e \in ReplayGrade => e \in stored
              /\ \A s \in matched[e] : Kind[s] # "ui" => Has(s, e)
         ELSE matched[e] = {} /\ ~InUi(e)
  /\ pc[e] = "logging" => e \in ReplayGrade

\* A call that has returned is over, and no handler is called twice.
OrderInv ==
  /\ \A e, f \in Events : f \in earlier[e] => pc[f] = "returned"
  /\ \A s \in Subs : \A i, j \in DOMAIN handled[s] :
       handled[s][i] = handled[s][j] => i = j
  /\ ServedInOrder

BusInv ==
  /\ TypeOK /\ BatcherInv /\ CoalesceIndexSound
  /\ MapInv
  /\ \A e \in Events : CallInv(e)
  /\ OrderInv

-----------------------------------------------------------------------------
(* Facts about the operators *)

LEMMA UnchangedBatcher ==
  ASSUME BatcherInv, CoalesceIndexSound, UNCHANGED batcherVars
  PROVE  BatcherInv' /\ CoalesceIndexSound' /\ UiStream' = UiStream
<1>1. UNCHANGED <<openBatch, slotOf, timerSet, shown>>
  BY DEF batcherVars
<1>2. BatcherInv'
  BY <1>1 DEF BatcherInv, Whole
<1>3. CoalesceIndexSound'
  BY <1>1 DEF CoalesceIndexSound
<1>4. UiStream' = UiStream
  BY <1>1 DEF UiStream
<1> QED
  BY <1>2, <1>3, <1>4

LEMMA BatcherTypes ==
  ASSUME BatcherInv
  PROVE  BatcherTypeOK
BY DEF BatcherInv, BatcherTypeOK, Whole

\* A call of some handlers is one more event for each of them.
LEMMA HandlersCalled ==
  ASSUME handled \in [Subs -> Seq(Events)], NEW e \in Events,
         NEW S \in SUBSET Subs, CallHandlers(e, S)
  PROVE  /\ handled' \in [Subs -> Seq(Events)]
         /\ \A s \in Subs :
              IF s \in S THEN handled'[s] = Append(handled[s], e)
                         ELSE handled'[s] = handled[s]
         /\ \A s \in Subs, f \in Events :
              Has(s, f)' <=> Has(s, f) \/ (f = e /\ s \in S)
<1>1. handled' = [s \in Subs |-> IF s \in S THEN Append(handled[s], e) ELSE handled[s]]
  BY DEF CallHandlers
<1>2. \A s \in Subs : handled[s] \in Seq(Events) /\ Append(handled[s], e) \in Seq(Events)
  OBVIOUS
<1>3. handled' \in [Subs -> Seq(Events)]
  BY <1>1, <1>2
<1>4. \A s \in Subs :
        IF s \in S THEN handled'[s] = Append(handled[s], e)
                   ELSE handled'[s] = handled[s]
  BY <1>1
<1>5. ASSUME NEW s \in Subs
      PROVE  Range(Append(handled[s], e)) = Range(handled[s]) \cup {e}
  <2>1. PICK entry \in Entries : entry = handled[s]
    BY DEF Entries
  <2> QED
    BY <2>1, EntryAppended
<1>6. ASSUME NEW s \in Subs, NEW f \in Events
      PROVE  Has(s, f)' <=> Has(s, f) \/ (f = e /\ s \in S)
  <2>1. CASE s \in S
    <3>1. Range(handled'[s]) = Range(handled[s]) \cup {e}
      BY <1>4, <1>5, <2>1
    <3> QED
      BY <2>1, <3>1 DEF Has
  <2>2. CASE s \notin S
    BY <1>4, <2>2 DEF Has
  <2> QED
    BY <2>1, <2>2
<1> QED
  BY <1>3, <1>4, <1>6

\* Health after a delivery.
LEMMA PanicsType ==
  ASSUME panics \in [Subs -> Nat], quarantined \subseteq Subs,
         NEW served \in SUBSET Subs, NEW threw \in SUBSET Subs
  PROVE  Panics(served, threw) \in [Subs -> Nat] /\ Quarantined(threw) \subseteq Subs
BY DEF Panics, Quarantined

\* Of a set of ids one at most is the first in the map.
LEMMA FirstIsOne ==
  ASSUME MapInv, NEW S \in SUBSET (Subs \ fresh),
         NEW s, NEW t, IsFirst(s, S), IsFirst(t, S)
  PROVE  s = t
BY DEF MapInv, IsFirst

-----------------------------------------------------------------------------
(* The parts of a step *)

\* A delivery ends, or waits for a handler.
LEMMA CallMoves ==
  ASSUME NEW e
  PROVE  /\ \A S : FinishDelivery(e, S) => pc' = [pc EXCEPT ![e] = "returned"]
         /\ \A S : ServeNext(e, S) => pc' = [pc EXCEPT ![e] = "handling"]
         /\ Distribute(e) => \E p \in {"handling", "returned"} : pc' = [pc EXCEPT ![e] = p]
<1>1. ASSUME NEW S, FinishDelivery(e, S)
      PROVE  pc' = [pc EXCEPT ![e] = "returned"]
  BY <1>1 DEF FinishDelivery, HandToUi, Return
<1>2. ASSUME NEW S, ServeNext(e, S)
      PROVE  pc' = [pc EXCEPT ![e] = "handling"]
  BY <1>2 DEF ServeNext
<1>3. ASSUME Distribute(e)
      PROVE  \E p \in {"handling", "returned"} : pc' = [pc EXCEPT ![e] = p]
  BY <1>1, <1>2, <1>3 DEF Distribute, StopInMiddleware, DeliverToMatching, Return
<1> QED
  BY <1>1, <1>2, <1>3

\* What the end of a delivery changes.
LEMMA DeliveryEnds ==
  ASSUME BusInv, NEW e \in Events, NEW S \in SUBSET Subs, FinishDelivery(e, S)
  PROVE  /\ CallHandlers(e, OfKind("plugin", S))
         /\ panics' \in [Subs -> Nat] /\ quarantined' \subseteq Subs
         /\ Push(e) \/ Flush \/ UNCHANGED batcherVars
         /\ pc' = [pc EXCEPT ![e] = "returned"]
         /\ \E r \in Delivered : result' = [result EXCEPT ![e] = r]
<1> DEFINE plugins == OfKind("plugin", S)
<1>1. PICK threw \in SUBSET plugins :
        panics' = Panics(plugins, threw) /\ quarantined' = Quarantined(threw)
  BY DEF FinishDelivery
<1>2. plugins \in SUBSET Subs /\ threw \in SUBSET Subs
  BY DEF OfKind
<1>3. panics' \in [Subs -> Nat] /\ quarantined' \subseteq Subs
  BY <1>1, <1>2, PanicsType DEF BusInv, TypeOK
<1>4. CallHandlers(e, OfKind("plugin", S))
  BY DEF FinishDelivery
<1>5. /\ Push(e) \/ Flush \/ UNCHANGED batcherVars
      /\ \E r \in Delivered : Return(e, r)
  BY ThrowingPush DEF FinishDelivery, HandToUi, Delivered
<1> QED
  BY <1>3, <1>4, <1>5 DEF Return

\* The batcher's variables change in three ways only.
LEMMA BatcherStep ==
  ASSUME BusInv, Next
  PROVE  UNCHANGED batcherVars \/ Flush \/ \E e \in Events : Push(e)
<1>1. CASE Lifecycle
  BY <1>1 DEF Lifecycle, Start, DrainBegin, DrainWrite, DrainEnd, ForceStop
<1>2. CASE \E s \in Subs : Subscribe(s) \/ Unsubscribe(s)
  BY <1>2 DEF Subscribe, Unsubscribe
<1>3. ASSUME NEW e \in Events, Refuse(e) \/ Publish(e) \/ PublishStep(e)
      PROVE  UNCHANGED batcherVars \/ Flush \/ Push(e)
  <2>1. ASSUME NEW S, FinishDelivery(e, S)
        PROVE  UNCHANGED batcherVars \/ Flush \/ Push(e)
    BY <2>1, ThrowingPush DEF FinishDelivery, HandToUi
  <2>2. ASSUME NEW S, ServeNext(e, S)
        PROVE  UNCHANGED batcherVars
    BY <2>2 DEF ServeNext
  <2>3. CASE Distribute(e)
    BY <2>1, <2>2, <2>3 DEF Distribute, StopInMiddleware, DeliverToMatching
  <2>4. CASE Refuse(e) \/ LogFailed(e)
    BY <2>4 DEF Refuse, LogFailed
  <2>5. CASE Publish(e)
    BY <2>3, <2>5 DEF Publish
  <2>6. CASE LogWritten(e)
    BY <2>3, <2>6 DEF LogWritten
  <2>7. CASE \E ok \in BOOLEAN : Settle(e, ok)
    BY <2>7 DEF Settle
  <2>8. CASE Resume(e)
    BY <2>1, <2>2, <2>8 DEF Resume
  <2> QED
    BY <1>3, <2>4, <2>5, <2>6, <2>7, <2>8 DEF PublishStep
<1>4. CASE TimerFires
  BY <1>4 DEF TimerFires
<1> QED
  BY <1>1, <1>2, <1>3, <1>4 DEF Next

LEMMA BatcherKept ==
  ASSUME BusInv, [Next]_vars
  PROVE  BatcherInv' /\ CoalesceIndexSound'
<1>1. CASE UNCHANGED batcherVars
  BY <1>1, UnchangedBatcher DEF BusInv
<1>2. CASE Flush
  BY <1>2, FlushKeeps DEF BusInv
<1>3. ASSUME NEW e \in Events, Push(e)
      PROVE  BatcherInv' /\ CoalesceIndexSound'
  BY <1>3, PushKeeps, BatcherAssumption DEF BusInv
<1>4. CASE UNCHANGED vars
  BY <1>1, <1>4 DEF vars
<1> QED
  BY <1>1, <1>2, <1>3, <1>4, BatcherStep

\* The next core handler is called.
LEMMA HandlerCalled ==
  ASSUME NEW e \in Events, NEW S \in SUBSET Subs, ServeNext(e, S)
  PROVE  /\ \E s \in S : IsFirst(s, S) /\ CallHandlers(e, {s})
         /\ pc' = [pc EXCEPT ![e] = "handling"]
         /\ UNCHANGED <<result, panics, quarantined>> /\ UNCHANGED batcherVars
BY DEF ServeNext, healthVars

LEMMA MatchingType ==
  ASSUME BusInv
  PROVE  \A e \in Events :
           /\ Matching(e) \subseteq subscribers
           /\ Matching(e) \subseteq Subs \ fresh
           /\ OfKind("core", Matching(e)) \subseteq Matching(e)
           /\ matched[e] \subseteq Subs /\ todo[e] \subseteq Subs
BY DEF Matching, OfKind, BusInv, MapInv, TypeOK

\* The variables of TypeOK that publish() changes while it delivers.
DeliveryTypes ==
  /\ panics \in [Subs -> Nat] /\ quarantined \subseteq Subs
  /\ pc \in [Events -> {"idle", "logging", "handling", "settled", "returned"}]
  /\ result \in [Events -> {"none", "ok", "rejected", "failed", "refused"}]
  /\ handled \in [Subs -> Seq(Events)]

LEMMA FinishTypes ==
  ASSUME BusInv, NEW e \in Events, NEW S \in SUBSET Subs,
         FinishDelivery(e, S) \/ ServeNext(e, S)
  PROVE  DeliveryTypes'
<1>1. DeliveryTypes
  BY DEF BusInv, TypeOK, DeliveryTypes
<1>2. CASE FinishDelivery(e, S)
  <2>1. OfKind("plugin", S) \in SUBSET Subs
    BY DEF OfKind
  <2>2. handled' \in [Subs -> Seq(Events)]
    BY <1>1, <1>2, <2>1, DeliveryEnds, HandlersCalled DEF DeliveryTypes
  <2>3. /\ panics' \in [Subs -> Nat] /\ quarantined' \subseteq Subs
        /\ pc' = [pc EXCEPT ![e] = "returned"]
        /\ \E r \in Delivered : result' = [result EXCEPT ![e] = r]
    BY <1>2, DeliveryEnds
  <2> QED
    BY <1>1, <2>2, <2>3 DEF DeliveryTypes, Delivered
<1>3. CASE ServeNext(e, S)
  <2>1. PICK s \in S : CallHandlers(e, {s})
    BY <1>3, HandlerCalled
  <2>2. {s} \in SUBSET Subs
    OBVIOUS
  <2>3. handled' \in [Subs -> Seq(Events)]
    BY <1>1, <2>1, <2>2, HandlersCalled DEF DeliveryTypes
  <2>4. pc' = [pc EXCEPT ![e] = "handling"] /\ UNCHANGED <<result, panics, quarantined>>
    BY <1>3, HandlerCalled
  <2> QED
    BY <1>1, <2>3, <2>4 DEF DeliveryTypes
<1> QED
  BY <1>2, <1>3

LEMMA DistributeTypes ==
  ASSUME BusInv, NEW e \in Events, Distribute(e)
  PROVE  /\ DeliveryTypes'
         /\ todo' \in [Events -> SUBSET Subs] /\ matched' \in [Events -> SUBSET Subs]
<1>1. /\ DeliveryTypes
      /\ todo \in [Events -> SUBSET Subs] /\ matched \in [Events -> SUBSET Subs]
  BY DEF BusInv, TypeOK, DeliveryTypes
<1>2. CASE StopInMiddleware(e)
  <2>1. /\ pc' = [pc EXCEPT ![e] = "returned"]
        /\ \E r \in Delivered : result' = [result EXCEPT ![e] = r]
        /\ UNCHANGED <<todo, matched, handled, panics, quarantined>>
    BY <1>2 DEF StopInMiddleware, Return, healthVars, Delivered
  <2> QED
    BY <1>1, <2>1 DEF DeliveryTypes, Delivered
<1>3. CASE DeliverToMatching(e)
  <2> DEFINE core == OfKind("core", Matching(e))
  <2>1. Matching(e) \in SUBSET Subs /\ core \in SUBSET Subs
    BY MatchingType
  <2>2. DeliveryTypes'
    BY <1>3, <2>1, FinishTypes DEF DeliverToMatching
  <2>3. todo' = [todo EXCEPT ![e] = core] /\ matched' = [matched EXCEPT ![e] = Matching(e)]
    BY <1>3 DEF DeliverToMatching
  <2> QED
    BY <1>1, <2>1, <2>2, <2>3
<1> QED
  BY <1>2, <1>3 DEF Distribute

LEMMA TypesKept ==
  ASSUME BusInv, [Next]_vars
  PROVE  TypeOK'
<1>0. TypeOK /\ BatcherTypeOK' /\ DeliveryTypes
  BY BatcherKept, BatcherTypes, PTL DEF BusInv, TypeOK, DeliveryTypes
<1> USE <1>0 DEF TypeOK, controlVars, subVars, healthVars, callVars, logVars,
                 drainVars, boundVars, historyVars
<1>1. CASE Start
  BY <1>1, BusAssumption DEF Start, EventBusState
<1>2. CASE DrainBegin
  BY <1>2, BusAssumption DEF DrainBegin, EventBusState
<1>3. CASE DrainWrite
  <2>1. Head(flushing) \in Events /\ Tail(flushing) \in Seq(Events)
    BY <1>3, flushing \in Seq(Events) DEF DrainWrite
  <2>2. stored' \subseteq Events /\ flushing' \in Seq(Events)
    BY <1>3, <2>1 DEF DrainWrite
  <2> QED
    BY <1>3, <2>2 DEF DrainWrite
<1>4. CASE DrainEnd
  <2>1. /\ draining' = FALSE /\ state' \in {"stopped", state}
        /\ UNCHANGED <<sequence, failures, subVars, healthVars, callVars, logVars,
                       flushing, boundVars, historyVars>>
    BY <1>4 DEF DrainEnd
  <2> QED
    BY <2>1 DEF EventBusState
<1>5. CASE ForceStop
  <2>1. /\ state' = "stopped"
        /\ UNCHANGED <<sequence, failures, subVars, healthVars, callVars, logVars,
                       drainVars, boundVars, historyVars>>
    BY <1>5 DEF ForceStop
  <2> QED
    BY <2>1 DEF EventBusState
<1>6. ASSUME NEW s \in Subs, Subscribe(s)
      PROVE  TypeOK'
  BY <1>6 DEF Subscribe
<1>7. ASSUME NEW s \in Subs, Unsubscribe(s)
      PROVE  TypeOK'
  BY <1>7 DEF Unsubscribe
<1>8. ASSUME NEW e \in Events, Refuse(e)
      PROVE  TypeOK'
  BY <1>8 DEF Refuse, Return
<1>9. ASSUME NEW e \in Events, Publish(e)
      PROVE  TypeOK'
  <2>1. /\ sequence' = sequence + 1 /\ seq' = [seq EXCEPT ![e] = sequence + 1]
        /\ earlier' = [earlier EXCEPT ![e] = {f \in Events : pc[f] = "returned"}]
        /\ UNCHANGED <<state, failures, subscribers, older, fresh, stored, flushing,
                       draining, starts, drains>>
    BY <1>9 DEF Publish
  <2>2. CASE e \in ReplayGrade
    <3>1. /\ eventLog' = Append(eventLog, e) /\ pc' = [pc EXCEPT ![e] = "logging"]
          /\ UNCHANGED <<todo, matched, result, handled, panics, quarantined>>
      BY <1>9, <2>2 DEF Publish
    <3> QED
      BY <2>1, <3>1
  <2>3. CASE e \notin ReplayGrade
    <3>1. Distribute(e) /\ UNCHANGED eventLog
      BY <1>9, <2>3 DEF Publish
    <3>2. /\ DeliveryTypes'
          /\ todo' \in [Events -> SUBSET Subs] /\ matched' \in [Events -> SUBSET Subs]
      BY <3>1, DistributeTypes
    <3>3. earlier' \in [Events -> SUBSET Events] /\ seq' \in [Events -> Nat] /\ sequence' \in Nat
      BY <2>1
    <3> QED
      BY <2>1, <3>1, <3>2, <3>3 DEF DeliveryTypes
  <2> QED
    BY <2>2, <2>3
<1>10. ASSUME NEW e \in Events, LogWritten(e)
       PROVE  TypeOK'
  <2>1. Distribute(e) /\ stored' = stored \cup {e} /\ failures' = 0
    BY <1>10 DEF LogWritten
  <2>2. /\ DeliveryTypes'
        /\ todo' \in [Events -> SUBSET Subs] /\ matched' \in [Events -> SUBSET Subs]
    BY <2>1, DistributeTypes
  <2> QED
    BY <1>10, <2>1, <2>2 DEF LogWritten, DeliveryTypes
<1>11. ASSUME NEW e \in Events, LogFailed(e)
       PROVE  TypeOK'
  BY <1>11 DEF LogFailed, Return, EventBusState
<1>12. ASSUME NEW e \in Events, NEW ok \in BOOLEAN, Settle(e, ok)
       PROVE  TypeOK'
  <2>1. PICK s \in todo[e] :
          /\ panics' = Panics({s}, IF ok THEN {} ELSE {s})
          /\ quarantined' = Quarantined(IF ok THEN {} ELSE {s})
          /\ todo' = [todo EXCEPT ![e] = @ \ {s}]
    BY <1>12 DEF Settle
  <2>2. PICK threw \in SUBSET Subs : threw = IF ok THEN {} ELSE {s}
    OBVIOUS
  <2>3. {s} \in SUBSET Subs /\ panics \in [Subs -> Nat] /\ quarantined \subseteq Subs
    OBVIOUS
  <2>5. panics' = Panics({s}, threw) /\ quarantined' = Quarantined(threw)
    BY <2>1, <2>2
  <2>6. panics' \in [Subs -> Nat] /\ quarantined' \subseteq Subs
    BY ONLY <2>2, <2>3, <2>5, PanicsType
  <2>4. todo' \in [Events -> SUBSET Subs]
    BY <2>1
  <2> QED
    BY <1>12, <2>6, <2>4 DEF Settle
<1>13. ASSUME NEW e \in Events, Resume(e)
       PROVE  TypeOK'
  <2>1. FinishDelivery(e, matched[e]) \/ ServeNext(e, todo[e])
    BY <1>13 DEF Resume
  <2>2. matched[e] \in SUBSET Subs /\ todo[e] \in SUBSET Subs
    OBVIOUS
  <2>3. DeliveryTypes'
    BY <2>1, <2>2, FinishTypes
  <2> QED
    BY <1>13, <2>3 DEF Resume, DeliveryTypes
<1>14. CASE TimerFires
  BY <1>14 DEF TimerFires
<1>15. CASE UNCHANGED vars
  BY <1>15 DEF vars
<1> QED
  BY <1>1, <1>2, <1>3, <1>4, <1>5, <1>6, <1>7, <1>8, <1>9, <1>10, <1>11, <1>12,
     <1>13, <1>14, <1>15 DEF Next, Lifecycle, PublishStep

-----------------------------------------------------------------------------
(* A step of one publish() call *)

\* The call publishes e, and these handlers get it in this step.
ActsOn(e, S) ==
  /\ pc[e] # "returned"
  /\ \A f \in Events \ {e} :
       UNCHANGED <<pc[f], result[f], todo[f], matched[f], earlier[f]>>
  /\ \/ earlier'[e] = earlier[e]
     \/ pc[e] = "idle" /\ earlier'[e] = {f \in Events : pc[f] = "returned"}
  /\ stored \subseteq stored'
  /\ UNCHANGED <<subscribers, older, fresh>>
  /\ \A s \in Subs : IF s \in S THEN handled'[s] = Append(handled[s], e)
                                ELSE handled'[s] = handled[s]
  /\ \A s \in S : ~Has(s, e)
  /\ \A s \in Subs, f \in Events :
       Has(s, f)' <=> Has(s, f) \/ (f = e /\ s \in S)
  /\ UiStream' = UiStream \/ StreamTakes(e)

\* A call another step does not concern keeps what holds of it.
LEMMA UntouchedKeeps ==
  ASSUME NEW e \in Events, CallInv(e), matched[e] \subseteq Subs,
         UNCHANGED <<pc[e], result[e], todo[e], matched[e], earlier[e]>>,
         stored \subseteq stored', fresh' \subseteq fresh,
         \A s \in Subs \ fresh : older'[s] = older[s],
         \A s \in Subs : Has(s, e)' <=> Has(s, e),
         InUi(e)' => InUi(e)
  PROVE  CallInv(e)'
<1>1. \A s : IsFirst(s, todo[e])' <=> IsFirst(s, todo[e])
  BY DEF IsFirst, CallInv
<1>2. OfKind("core", matched'[e]) = OfKind("core", matched[e])
      /\ OfKind("plugin", matched'[e]) = OfKind("plugin", matched[e])
      /\ OfKind("core", matched[e]) \subseteq Subs
      /\ OfKind("plugin", matched[e]) \subseteq Subs
  BY DEF OfKind
<1>3. CASE Serving(e)
  <2>1. Serving(e)' /\ ~Starting(e)' /\ pc'[e] \notin {"idle", "logging", "returned"}
    BY <1>3 DEF Serving, Starting
  <2>2. CalledInTurn(e) => CalledInTurn(e)'
    BY <1>1, <1>2 DEF CalledInTurn
  <2> QED
    BY <1>2, <1>3, <2>1, <2>2 DEF CallInv
<1>4. CASE ~Serving(e)
  <2>1. ~Serving(e)' /\ (Starting(e)' <=> Starting(e))
    BY <1>4 DEF Serving, Starting
  <2> QED
    BY <1>4, <2>1 DEF CallInv
<1> QED
  BY <1>3, <1>4

LEMMA ActOthers ==
  ASSUME BusInv, NEW e \in Events, NEW S \in SUBSET Subs, ActsOn(e, S),
         NEW f \in Events, f # e
  PROVE  CallInv(f)'
<1>1. /\ UNCHANGED <<pc[f], result[f], todo[f], matched[f], earlier[f]>>
      /\ stored \subseteq stored' /\ fresh' \subseteq fresh
      /\ \A s \in Subs \ fresh : older'[s] = older[s]
      /\ \A s \in Subs : Has(s, f)' <=> Has(s, f)
  BY DEF ActsOn
<1>2. InUi(f)' => InUi(f)
  BY DEF ActsOn, StreamTakes, InUi
<1>3. CallInv(f) /\ matched[f] \subseteq Subs
  BY DEF BusInv, TypeOK
<1> QED
  BY <1>1, <1>2, <1>3, UntouchedKeeps

LEMMA ActMap ==
  ASSUME BusInv, NEW e, NEW S, ActsOn(e, S)
  PROVE  MapInv'
BY DEF BusInv, ActsOn, MapInv

\* What is added at the end was published by a call that has not returned.
LEMMA ActOrder ==
  ASSUME BusInv, NEW e \in Events, NEW S \in SUBSET Subs, ActsOn(e, S)
  PROVE  OrderInv'
<1>1. /\ \A f, g \in Events : g \in earlier[f] => pc[g] = "returned"
      /\ \A s \in Subs : handled[s] \in Seq(Events)
      /\ pc[e] # "returned"
      /\ \A f \in Events : CallInv(f)
  BY DEF BusInv, OrderInv, TypeOK, ActsOn
<1>2. \A f \in Events : f # e => earlier'[f] = earlier[f] /\ pc'[f] = pc[f]
  BY DEF ActsOn
<1>3. \A f \in Events : e \notin earlier'[f]
  BY <1>1, <1>2 DEF ActsOn
<1>4. ASSUME NEW f \in Events, NEW g \in Events, g \in earlier'[f]
      PROVE  pc'[g] = "returned"
  BY <1>1, <1>2, <1>3, <1>4 DEF ActsOn
<1>5. ASSUME NEW f \in Events, Reached(f)
      PROVE  earlier'[f] = earlier[f]
  <2>1. CASE f = e
    <3>1. pc[e] # "idle"
      BY <1>1, <1>5, <2>1 DEF Reached, CallInv, Starting, InUi, Has
    <3> QED
      BY <2>1, <3>1 DEF ActsOn
  <2>2. CASE f # e
    BY <1>2, <2>2
  <2> QED
    BY <2>1, <2>2
<1>6. ASSUME NEW s \in Subs
      PROVE  /\ handled[s] \in Seq(Events) /\ Len(handled[s]) \in Nat
             /\ DOMAIN handled[s] = 1..Len(handled[s])
             /\ IF s \in S
                  THEN /\ DOMAIN handled'[s] = 1..(Len(handled[s]) + 1)
                       /\ handled'[s][Len(handled[s]) + 1] = e
                       /\ \A i \in 1..Len(handled[s]) : handled'[s][i] = handled[s][i]
                  ELSE handled'[s] = handled[s]
  <2>1. handled[s] \in Seq(Events)
    BY <1>1
  <2>2. CASE s \in S
    <3>1. handled'[s] = Append(handled[s], e)
      BY <2>2 DEF ActsOn
    <3> QED
      BY <2>1, <2>2, <3>1
  <2>3. CASE s \notin S
    BY <2>1, <2>3 DEF ActsOn
  <2> QED
    BY <2>2, <2>3
<1>7. ASSUME NEW s \in Subs, NEW i \in DOMAIN handled'[s], NEW j \in DOMAIN handled'[s]
      PROVE  /\ handled'[s][i] = handled'[s][j] => i = j
             /\ i < j => handled'[s][j] \notin earlier'[handled'[s][i]]
  <2>1. ASSUME NEW k \in DOMAIN handled[s]
        PROVE  /\ handled[s][k] \in Events /\ Reached(handled[s][k])
               /\ earlier'[handled[s][k]] = earlier[handled[s][k]]
               /\ s \in S => handled[s][k] # e
    <3>1. handled[s][k] \in Events /\ handled[s][k] \in Range(handled[s])
      BY <1>6 DEF Range
    <3>2. Reached(handled[s][k])
      BY <3>1 DEF Reached
    <3>3. s \in S => handled[s][k] # e
      BY <3>1 DEF ActsOn, Has
    <3> QED
      BY <1>5, <3>1, <3>2, <3>3
  <2>2. \A k, l \in DOMAIN handled[s] :
          /\ handled[s][k] = handled[s][l] => k = l
          /\ k < l => handled[s][l] \notin earlier[handled[s][k]]
    BY DEF BusInv, OrderInv, ServedInOrder
  <2>3. CASE s \notin S
    BY <1>6, <2>1, <2>2, <2>3
  <2>4. CASE s \in S
    <3> DEFINE n == Len(handled[s])
    <3>1. /\ i \in DOMAIN handled[s] \/ i = n + 1
          /\ j \in DOMAIN handled[s] \/ j = n + 1
          /\ n \in Nat /\ DOMAIN handled[s] = 1..n
          /\ handled'[s][n + 1] = e
          /\ \A k \in DOMAIN handled[s] : handled'[s][k] = handled[s][k]
      BY <1>6, <2>4
    <3>2. CASE i \in DOMAIN handled[s] /\ j \in DOMAIN handled[s]
      BY <2>1, <2>2, <3>1, <3>2
    <3>3. CASE i \in DOMAIN handled[s] /\ j = n + 1
      BY <1>3, <2>1, <2>4, <3>1, <3>3
    <3>4. CASE i = n + 1 /\ j \in DOMAIN handled[s]
      BY <2>1, <2>4, <3>1, <3>4
    <3>5. CASE i = n + 1 /\ j = n + 1
      BY <3>1, <3>5
    <3> QED
      BY <3>1, <3>2, <3>3, <3>4, <3>5
  <2> QED
    BY <2>3, <2>4
<1>8. /\ UiStream \in Seq(Entries) /\ DOMAIN UiStream = 1..Len(UiStream)
      /\ Len(UiStream) \in Nat
      /\ \A k \in DOMAIN UiStream : UiStream[k] \in Entries /\ UiStream[k] # <<>>
  BY StreamIsWhole DEF BusInv, Whole
<1>9. ASSUME NEW k \in DOMAIN UiStream
      PROVE  /\ Head(UiStream[k]) \in Events
             /\ earlier'[Head(UiStream[k])] = earlier[Head(UiStream[k])]
  <2>1. UiStream[k] \in Seq(Events) /\ UiStream[k] # <<>>
    BY <1>8 DEF Entries
  <2>2. /\ Head(UiStream[k]) \in Events
        /\ 1 \in DOMAIN UiStream[k] /\ Head(UiStream[k]) = UiStream[k][1]
    BY <2>1
  <2>3. Head(UiStream[k]) \in Range(UiStream[k])
    BY <2>2 DEF Range
  <2>4. Reached(Head(UiStream[k]))
    BY <2>3 DEF Reached
  <2> QED
    BY <1>5, <2>2, <2>4
<1>10. ASSUME NEW i \in DOMAIN UiStream', NEW j \in DOMAIN UiStream', i < j,
              KeyOf[Head(UiStream'[i])] = NoKey, KeyOf[Head(UiStream'[j])] = NoKey
       PROVE  Head(UiStream'[j]) \notin earlier'[Head(UiStream'[i])]
  <2>1. \A k, l \in DOMAIN UiStream :
          k < l /\ KeyOf[Head(UiStream[k])] = NoKey /\ KeyOf[Head(UiStream[l])] = NoKey
            => Head(UiStream[l]) \notin earlier[Head(UiStream[k])]
    BY DEF BusInv, OrderInv, ServedInOrder
  <2>2. CASE UiStream' = UiStream
    BY <1>9, <1>10, <2>1, <2>2
  <2>3. CASE StreamTakes(e)
    <3>1. /\ UiStream' \in Seq(Entries) /\ DOMAIN UiStream' = 1..Len(UiStream')
          /\ Len(UiStream') \in Nat
      BY <2>3 DEF StreamTakes
    <3>2. /\ IF i \in DOMAIN UiStream THEN Head(UiStream'[i]) = Head(UiStream[i])
                                     ELSE Head(UiStream'[i]) = e
          /\ IF j \in DOMAIN UiStream THEN Head(UiStream'[j]) = Head(UiStream[j])
                                     ELSE Head(UiStream'[j]) = e
      BY <1>10, <2>3 DEF StreamTakes
    <3>3. CASE j \notin DOMAIN UiStream
      BY <1>3, <1>9, <3>2, <3>3
    <3>4. CASE j \in DOMAIN UiStream
      <4>1. i \in DOMAIN UiStream
        BY <1>8, <1>10, <3>1, <3>4
      <4> QED
        BY <1>9, <1>10, <2>1, <3>2, <3>4, <4>1
    <3> QED
      BY <3>3, <3>4
  <2> QED
    BY <2>2, <2>3 DEF ActsOn
<1>11. ServedInOrder'
  BY <1>7, <1>10 DEF ServedInOrder
<1> QED
  BY <1>4, <1>7, <1>11 DEF OrderInv

\* The invariant of the calls.
CallsInv == MapInv /\ (\A e \in Events : CallInv(e)) /\ OrderInv

LEMMA ActKeeps ==
  ASSUME BusInv, NEW e \in Events, NEW S \in SUBSET Subs, ActsOn(e, S), CallInv(e)'
  PROVE  CallsInv'
BY ActOthers, ActMap, ActOrder DEF CallsInv

\* What the steps that deliver e leave alone.
DeliveryFrame(e) ==
  /\ pc[e] # "returned"
  /\ \A f \in Events \ {e} : UNCHANGED <<todo[f], matched[f], earlier[f]>>
  /\ \/ earlier'[e] = earlier[e]
     \/ pc[e] = "idle" /\ earlier'[e] = {f \in Events : pc[f] = "returned"}
  /\ stored \subseteq stored'
  /\ UNCHANGED <<subscribers, older, fresh>>
  /\ e \in ReplayGrade => e \in stored'

\* The delivery ends: every core handler had its turn, the plugins get theirs.
LEMMA FinishKeeps ==
  ASSUME BusInv, NEW e \in Events, NEW S \in SUBSET Subs,
         FinishDelivery(e, S), DeliveryFrame(e),
         todo'[e] = {}, matched'[e] = S,
         \A s \in OfKind("plugin", S) : ~Has(s, e),
         \A s \in OfKind("core", S) : Has(s, e),
         \A s \in Subs : Has(s, e) => s \in S
  PROVE  CallsInv'
<1> DEFINE plugins == OfKind("plugin", S)
<1>1. plugins \in SUBSET Subs /\ plugins \subseteq S
  BY DEF OfKind
<1>2. /\ handled \in [Subs -> Seq(Events)]
      /\ pc \in [Events -> {"idle", "logging", "handling", "settled", "returned"}]
      /\ result \in [Events -> {"none", "ok", "rejected", "failed", "refused"}]
  BY DEF BusInv, TypeOK
<1>3. /\ CallHandlers(e, plugins)
      /\ Push(e) \/ Flush \/ UNCHANGED batcherVars
      /\ pc' = [pc EXCEPT ![e] = "returned"]
      /\ \E r \in Delivered : result' = [result EXCEPT ![e] = r]
  BY DeliveryEnds
<1>4. /\ \A s \in Subs :
           IF s \in plugins THEN handled'[s] = Append(handled[s], e)
                            ELSE handled'[s] = handled[s]
      /\ \A s \in Subs, f \in Events :
           Has(s, f)' <=> Has(s, f) \/ (f = e /\ s \in plugins)
  BY <1>1, <1>2, <1>3, HandlersCalled
<1>5. UiStream' = UiStream \/ StreamTakes(e)
  <2>1. CASE Push(e)
    BY <2>1, PushKeeps, BatcherAssumption DEF BusInv
  <2>2. CASE UNCHANGED batcherVars
    BY <2>2, UnchangedBatcher DEF BusInv
  <2>3. CASE Flush
    BY <2>3, FlushKeeps DEF BusInv
  <2> QED
    BY <1>3, <2>1, <2>2, <2>3
<1>6. \A f \in Events \ {e} : UNCHANGED <<pc[f], result[f]>>
  BY <1>2, <1>3
<1>7. ActsOn(e, plugins)
  BY <1>4, <1>5, <1>6 DEF ActsOn, DeliveryFrame
<1>8. pc'[e] = "returned" /\ result'[e] \in Delivered
  BY <1>2, <1>3
<1>9. CallInv(e)'
  <2>1. ~Starting(e)' /\ ~Serving(e)'
    BY <1>8 DEF Starting, Serving
  <2>2. \A s \in Subs : Has(s, e)' => s \in S
    BY <1>1, <1>4
  <2>3. \A s \in S : Kind[s] # "ui" => Has(s, e)'
    <3> SUFFICES ASSUME NEW s \in S, Kind[s] # "ui"
                 PROVE  Has(s, e)'
      OBVIOUS
    <3>1. s \in OfKind("core", S) \/ s \in plugins
      BY BusAssumption DEF BusAssumption, OfKind
    <3> QED
      BY <1>1, <1>4, <3>1
  <2> QED
    BY <1>8, <2>1, <2>2, <2>3 DEF CallInv, DeliveryFrame
<1> QED
  BY <1>1, <1>7, <1>9, ActKeeps

\* The next core handler is called, and no other has its turn.
LEMMA ServeKeeps ==
  ASSUME BusInv, NEW e \in Events, NEW S \in SUBSET Subs,
         ServeNext(e, S), DeliveryFrame(e), result[e] = "none", ~InUi(e),
         todo'[e] = S, matched'[e] \subseteq Subs,
         S \subseteq Subs \ fresh, S \subseteq OfKind("core", matched'[e]),
         \A s \in OfKind("plugin", matched'[e]) : ~Has(s, e),
         \A s \in OfKind("core", matched'[e]) : Has(s, e) <=> s \notin S,
         \A s \in Subs : Has(s, e) => s \in matched'[e]
  PROVE  CallsInv'
<1>2. /\ handled \in [Subs -> Seq(Events)]
      /\ pc \in [Events -> {"idle", "logging", "handling", "settled", "returned"}]
  BY DEF BusInv, TypeOK
<1>3. PICK s \in S : IsFirst(s, S) /\ CallHandlers(e, {s})
  BY HandlerCalled
<1>4. /\ pc' = [pc EXCEPT ![e] = "handling"]
      /\ result' = result /\ UNCHANGED batcherVars
  BY HandlerCalled
<1>5. {s} \in SUBSET Subs /\ Kind[s] = "core" /\ s \in matched'[e] /\ ~Has(s, e)
  BY <1>3 DEF OfKind
<1>6. /\ \A t \in Subs :
           IF t \in {s} THEN handled'[t] = Append(handled[t], e)
                        ELSE handled'[t] = handled[t]
      /\ \A t \in Subs, f \in Events :
           Has(t, f)' <=> Has(t, f) \/ (f = e /\ t \in {s})
  BY <1>2, <1>3, <1>5, HandlersCalled
<1>7. UiStream' = UiStream
  BY <1>4, UnchangedBatcher DEF BusInv
<1>8. \A f \in Events \ {e} : UNCHANGED <<pc[f], result[f]>>
  BY <1>2, <1>4
<1>9. ActsOn(e, {s})
  BY <1>5, <1>6, <1>7, <1>8 DEF ActsOn, DeliveryFrame
<1>10. pc'[e] = "handling" /\ result'[e] = "none"
  BY <1>2, <1>4
<1>11. \A t : IsFirst(t, todo[e])' <=> IsFirst(t, S)
  BY DEF IsFirst, DeliveryFrame
<1>12. \A t : IsFirst(t, S) <=> t = s
  BY <1>3, FirstIsOne DEF BusInv
<1>13. CallInv(e)'
  <2>1. ~Starting(e)' /\ Serving(e)'
    BY <1>10 DEF Starting, Serving
  <2>2. CalledInTurn(e)'
    <3> SUFFICES ASSUME NEW t \in OfKind("core", matched'[e])
                 PROVE  Has(t, e)' <=> t \notin S \/ t = s
      BY <1>10, <1>11, <1>12 DEF CalledInTurn, OfKind
    <3>1. t \in Subs
      BY DEF OfKind
    <3> QED
      BY <1>6, <3>1
  <2>3. \A t \in OfKind("plugin", matched'[e]) : ~Has(t, e)'
    <3> SUFFICES ASSUME NEW t \in OfKind("plugin", matched'[e])
                 PROVE  ~Has(t, e)'
      OBVIOUS
    <3>1. t \in Subs /\ t # s
      BY <1>5 DEF OfKind
    <3> QED
      BY <1>6, <3>1
  <2>4. \A t \in Subs : Has(t, e)' => t \in matched'[e]
    BY <1>5, <1>6
  <2>5. /\ OfKind("plugin", matched[e])' = OfKind("plugin", matched'[e])
        /\ OfKind("core", matched[e])' = OfKind("core", matched'[e])
    BY DEF OfKind
  <2>6. ~InUi(e)'
    BY <1>7 DEF InUi
  <2> QED
    BY <1>10, <2>1, <2>2, <2>3, <2>4, <2>5, <2>6 DEF CallInv, DeliveryFrame
<1> QED
  BY <1>5, <1>9, <1>13, ActKeeps

\* publish() gets to the delivery with nobody served yet.
LEMMA DistributeKeeps ==
  ASSUME BusInv, NEW e \in Events, Starting(e), Distribute(e),
         \A f \in Events \ {e} : UNCHANGED earlier[f],
         \/ earlier'[e] = earlier[e]
         \/ pc[e] = "idle" /\ earlier'[e] = {f \in Events : pc[f] = "returned"},
         stored \subseteq stored', UNCHANGED <<subscribers, older, fresh>>,
         e \in ReplayGrade => e \in stored'
  PROVE  CallsInv'
<1>1. /\ CallInv(e) /\ pc[e] # "returned" /\ result[e] = "none"
      /\ matched[e] = {} /\ ~InUi(e)
      /\ \A s \in Subs : ~Has(s, e)
  BY DEF BusInv, CallInv, Starting
<1>2. /\ todo \in [Events -> SUBSET Subs] /\ matched \in [Events -> SUBSET Subs]
      /\ pc \in [Events -> {"idle", "logging", "handling", "settled", "returned"}]
      /\ result \in [Events -> {"none", "ok", "rejected", "failed", "refused"}]
      /\ handled \in [Subs -> Seq(Events)]
  BY DEF BusInv, TypeOK
<1>3. CASE StopInMiddleware(e)
  <2>1. /\ pc' = [pc EXCEPT ![e] = "returned"]
        /\ \E r \in Delivered : result' = [result EXCEPT ![e] = r]
        /\ UNCHANGED <<todo, matched, handled>> /\ UNCHANGED batcherVars
    BY <1>3 DEF StopInMiddleware, Return, Delivered
  <2>2. UiStream' = UiStream
    BY <2>1, UnchangedBatcher DEF BusInv
  <2>3. \A s \in Subs, f \in Events : Has(s, f)' <=> Has(s, f)
    BY <2>1 DEF Has
  <2>4. \A f \in Events \ {e} : UNCHANGED <<pc[f], result[f], todo[f], matched[f]>>
    BY <1>2, <2>1
  <2>5. ActsOn(e, {})
    BY <1>1, <2>1, <2>2, <2>3, <2>4 DEF ActsOn
  <2>6. CallInv(e)'
    <3>1. pc'[e] = "returned" /\ result'[e] \in Delivered /\ matched'[e] = {}
      BY <1>1, <1>2, <2>1
    <3>2. ~Starting(e)' /\ ~Serving(e)'
      BY <3>1 DEF Starting, Serving
    <3>3. todo'[e] \subseteq Subs \ fresh'
      BY <1>1, <2>1 DEF CallInv
    <3>4. \A s \in Subs : ~Has(s, e)'
      BY <1>1, <2>3
    <3> QED
      BY <3>1, <3>2, <3>3, <3>4 DEF CallInv
  <2> QED
    BY <2>5, <2>6, ActKeeps
<1>4. CASE DeliverToMatching(e)
  <2> DEFINE subs == Matching(e)
             core == OfKind("core", Matching(e))
  <2>1. /\ subs \subseteq Subs \ fresh /\ subs \in SUBSET Subs
        /\ core \subseteq subs /\ core \in SUBSET Subs
    BY MatchingType
  <2>2. /\ matched' = [matched EXCEPT ![e] = subs] /\ todo' = [todo EXCEPT ![e] = core]
        /\ IF core = {} THEN FinishDelivery(e, subs) ELSE ServeNext(e, core)
    BY <1>4 DEF DeliverToMatching
  <2>3. matched'[e] = subs /\ todo'[e] = core
    BY <1>2, <2>2
  <2>4. \A f \in Events \ {e} : UNCHANGED <<todo[f], matched[f]>>
    BY <1>2, <2>2
  <2>5. DeliveryFrame(e)
    BY <1>1, <2>4 DEF DeliveryFrame
  <2>6. \A k : \A s \in OfKind(k, subs) : s \in Subs /\ ~Has(s, e)
    BY <1>1, <2>1 DEF OfKind
  <2>7. CASE core = {}
    <3>1. FinishDelivery(e, subs) /\ todo'[e] = {}
      BY <2>2, <2>3, <2>7
    <3>2. \A s \in OfKind("core", subs) : Has(s, e)
      BY <2>7
    <3> HIDE DEF subs, core
    <3> QED
      BY <1>1, <2>1, <2>3, <2>5, <2>6, <3>1, <3>2, FinishKeeps
  <2>8. CASE core # {}
    <3>1. ServeNext(e, core)
      BY <2>2, <2>8
    <3>2. core = OfKind("core", subs) /\ core \subseteq Subs \ fresh
      BY <2>1
    <3> HIDE DEF subs, core
    <3>3. /\ matched'[e] \subseteq Subs /\ core \subseteq OfKind("core", matched'[e])
          /\ \A s \in OfKind("plugin", matched'[e]) : ~Has(s, e)
          /\ \A s \in OfKind("core", matched'[e]) : Has(s, e) <=> s \notin core
          /\ \A s \in Subs : Has(s, e) => s \in matched'[e]
      BY <1>1, <2>1, <2>3, <2>6, <3>2
    <3> QED
      BY <1>1, <2>1, <2>3, <2>5, <3>1, <3>2, <3>3, ServeKeeps
  <2> QED
    BY <2>7, <2>8
<1> QED
  BY <1>3, <1>4 DEF Distribute

-----------------------------------------------------------------------------
(* The steps *)

\* Steps that concern no publish() call.
LEMMA QuietKeeps ==
  ASSUME BusInv, UNCHANGED <<pc, result, todo, matched, handled, earlier>>,
         UiStream' = UiStream,
         stored \subseteq stored', fresh' \subseteq fresh,
         \A s \in Subs \ fresh : older'[s] = older[s],
         MapInv'
  PROVE  CallsInv'
<1>1. ASSUME NEW e \in Events
      PROVE  CallInv(e)'
  <2>1. /\ UNCHANGED <<pc[e], result[e], todo[e], matched[e], earlier[e]>>
        /\ CallInv(e) /\ matched[e] \subseteq Subs
    BY DEF BusInv, TypeOK
  <2>2. /\ \A s \in Subs : Has(s, e)' <=> Has(s, e)
        /\ InUi(e)' => InUi(e)
    BY DEF Has, InUi
  <2> QED
    BY <2>1, <2>2, UntouchedKeeps
<1>2. OrderInv'
  BY DEF BusInv, OrderInv, ServedInOrder
<1> QED
  BY <1>1, <1>2 DEF CallsInv

\* Steps of a publish() call that call nobody.
LEMMA SilentKeeps ==
  ASSUME BusInv, NEW e \in Events, pc[e] # "returned",
         \A f \in Events \ {e} :
           UNCHANGED <<pc[f], result[f], todo[f], matched[f], earlier[f]>>,
         \/ earlier'[e] = earlier[e]
         \/ pc[e] = "idle" /\ earlier'[e] = {f \in Events : pc[f] = "returned"},
         UNCHANGED <<stored, handled, subscribers, older, fresh>>,
         UNCHANGED batcherVars, CallInv(e)'
  PROVE  CallsInv'
<1>1. UiStream' = UiStream
  BY UnchangedBatcher DEF BusInv
<1>2. \A s \in Subs, f \in Events : Has(s, f)' <=> Has(s, f)
  BY DEF Has
<1>3. ActsOn(e, {})
  BY <1>1, <1>2 DEF ActsOn
<1> QED
  BY <1>3, ActKeeps

LEMMA SettleKeeps ==
  ASSUME BusInv, NEW e \in Events, NEW ok \in BOOLEAN, Settle(e, ok)
  PROVE  CallsInv'
<1>1. PICK s \in todo[e] : IsFirst(s, todo[e]) /\ todo' = [todo EXCEPT ![e] = @ \ {s}]
  BY DEF Settle
<1>2. /\ pc[e] = "handling" /\ pc' = [pc EXCEPT ![e] = "settled"]
      /\ UNCHANGED <<matched, result, stored, handled, earlier, subscribers, older, fresh>>
      /\ UNCHANGED batcherVars
  BY DEF Settle, subVars, logVars, historyVars
<1>3. /\ CallInv(e) /\ Serving(e)
      /\ todo \in [Events -> SUBSET Subs]
      /\ pc \in [Events -> {"idle", "logging", "handling", "settled", "returned"}]
  BY <1>2 DEF BusInv, TypeOK, Serving
<1>4. /\ pc'[e] = "settled" /\ todo'[e] = todo[e] \ {s}
      /\ \A f \in Events \ {e} :
           UNCHANGED <<pc[f], result[f], todo[f], matched[f], earlier[f]>>
  BY <1>1, <1>2, <1>3
<1>5. CallInv(e)'
  <2>1. ~Starting(e)' /\ Serving(e)'
    BY <1>4 DEF Starting, Serving
  <2>2. todo[e] \in SUBSET (Subs \ fresh) /\ CalledInTurn(e)
    BY <1>3 DEF CallInv
  <2>3. CalledInTurn(e)'
    <3> SUFFICES ASSUME NEW t \in OfKind("core", matched[e])
                 PROVE  Has(t, e) <=> t \notin todo[e] \ {s}
      BY <1>2, <1>4 DEF CalledInTurn, OfKind, Has
    <3>1. Has(t, e) <=> t \notin todo[e] \/ IsFirst(t, todo[e])
      BY <1>2, <2>2 DEF CalledInTurn
    <3>2. IsFirst(t, todo[e]) <=> t = s
      BY <1>1, <2>2, FirstIsOne DEF BusInv
    <3> QED
      BY <1>1, <3>1, <3>2
  <2>4. \A t, f : Has(t, f)' <=> Has(t, f)
    BY <1>2 DEF Has
  <2>5. \A k : OfKind(k, matched[e])' = OfKind(k, matched[e])
    BY <1>2 DEF OfKind
  <2>6. ~InUi(e)'
    BY <1>2, <1>3, UnchangedBatcher DEF CallInv, InUi, BusInv
  <2> QED
    BY <1>2, <1>3, <1>4, <2>1, <2>2, <2>3, <2>4, <2>5, <2>6 DEF CallInv
<1> QED
  BY <1>2, <1>4, <1>5, SilentKeeps

LEMMA ResumeKeeps ==
  ASSUME BusInv, NEW e \in Events, Resume(e)
  PROVE  CallsInv'
<1>1. /\ pc[e] = "settled"
      /\ IF todo[e] = {} THEN FinishDelivery(e, matched[e]) ELSE ServeNext(e, todo[e])
      /\ UNCHANGED <<todo, matched, stored, earlier, subscribers, older, fresh>>
  BY DEF Resume, subVars, logVars
<1>2. /\ CallInv(e) /\ Serving(e)
      /\ matched[e] \in SUBSET Subs /\ todo[e] \in SUBSET Subs
  BY <1>1 DEF BusInv, TypeOK, Serving
<1>3. /\ result[e] = "none" /\ ~InUi(e)
      /\ e \in ReplayGrade => e \in stored
      /\ todo[e] \subseteq OfKind("core", matched[e]) /\ todo[e] \subseteq Subs \ fresh
      /\ \A s \in OfKind("plugin", matched[e]) : ~Has(s, e)
      /\ \A s \in Subs : Has(s, e) => s \in matched[e]
      /\ \A s \in OfKind("core", matched[e]) : Has(s, e) <=> s \notin todo[e]
  BY <1>1, <1>2 DEF CallInv, CalledInTurn
<1>4. DeliveryFrame(e)
  BY <1>1, <1>3 DEF DeliveryFrame
<1>5. CASE todo[e] = {}
  <2>1. /\ FinishDelivery(e, matched[e]) /\ todo'[e] = {} /\ matched'[e] = matched[e]
        /\ \A s \in OfKind("core", matched[e]) : Has(s, e)
    BY <1>1, <1>3, <1>5
  <2> QED
    BY <1>2, <1>3, <1>4, <2>1, FinishKeeps
<1>6. CASE todo[e] # {}
  <2>1. ServeNext(e, todo[e]) /\ todo'[e] = todo[e] /\ matched'[e] = matched[e]
    BY <1>1, <1>6
  <2> QED
    BY <1>2, <1>3, <1>4, <2>1, ServeKeeps
<1> QED
  BY <1>5, <1>6

\* The call returns, and nobody was served.
LEMMA RefusedKeeps ==
  ASSUME BusInv, NEW e \in Events, Refuse(e) \/ LogFailed(e)
  PROVE  CallsInv'
<1>1. /\ Starting(e) /\ pc' = [pc EXCEPT ![e] = "returned"]
      /\ \/ result' = [result EXCEPT ![e] = "refused"]
         \/ result' = [result EXCEPT ![e] = "failed"]
      /\ UNCHANGED <<todo, matched, stored, handled, earlier, subscribers, older, fresh>>
      /\ UNCHANGED batcherVars
  BY DEF Refuse, LogFailed, Return, Starting, subVars, logVars, historyVars
<1>2. /\ CallInv(e) /\ pc[e] # "returned"
      /\ result \in [Events -> {"none", "ok", "rejected", "failed", "refused"}]
      /\ pc \in [Events -> {"idle", "logging", "handling", "settled", "returned"}]
  BY <1>1 DEF BusInv, TypeOK, Starting
<1>3. /\ pc'[e] = "returned" /\ result'[e] \notin Delivered
      /\ \A f \in Events \ {e} :
           UNCHANGED <<pc[f], result[f], todo[f], matched[f], earlier[f]>>
  BY <1>1, <1>2 DEF Delivered
<1>4. CallInv(e)'
  <2>1. ~Starting(e)' /\ ~Serving(e)'
    BY <1>3 DEF Starting, Serving
  <2>2. (InUi(e)' => InUi(e)) /\ (\A s : Has(s, e)' <=> Has(s, e))
    <3>1. UiStream' = UiStream
      BY <1>1, UnchangedBatcher DEF BusInv
    <3> QED
      BY <1>1, <3>1 DEF InUi, Has
  <2> QED
    BY <1>1, <1>2, <1>3, <2>1, <2>2 DEF CallInv
<1> QED
  BY <1>1, <1>2, <1>3, <1>4, SilentKeeps

LEMMA PublishKeeps ==
  ASSUME BusInv, NEW e \in Events, Publish(e)
  PROVE  CallsInv'
<1>1. /\ pc[e] = "idle"
      /\ earlier' = [earlier EXCEPT ![e] = {f \in Events : pc[f] = "returned"}]
      /\ UNCHANGED <<stored, subscribers, older, fresh>>
  BY DEF Publish, subVars
<1>2. /\ CallInv(e) /\ Starting(e) /\ earlier \in [Events -> SUBSET Events]
      /\ pc \in [Events -> {"idle", "logging", "handling", "settled", "returned"}]
  BY <1>1 DEF BusInv, TypeOK, Starting
<1>3. /\ \A f \in Events \ {e} : UNCHANGED earlier[f]
      /\ earlier'[e] = {f \in Events : pc[f] = "returned"}
  BY <1>1, <1>2
<1>4. CASE e \in ReplayGrade
  <2>1. /\ pc' = [pc EXCEPT ![e] = "logging"]
        /\ UNCHANGED <<todo, matched, result, handled>> /\ UNCHANGED batcherVars
    BY <1>4 DEF Publish
  <2>2. /\ pc'[e] = "logging"
        /\ \A f \in Events \ {e} : UNCHANGED <<pc[f], result[f], todo[f], matched[f]>>
    BY <1>2, <2>1
  <2>3. CallInv(e)'
    <3>1. Starting(e)' /\ ~Serving(e)'
      BY <2>2 DEF Starting, Serving
    <3>2. (InUi(e)' => InUi(e)) /\ (\A s : Has(s, e)' <=> Has(s, e))
      <4>1. UiStream' = UiStream
        BY <2>1, UnchangedBatcher DEF BusInv
      <4> QED
        BY <2>1, <4>1 DEF InUi, Has
    <3> QED
      BY <1>1, <1>2, <1>4, <2>1, <2>2, <3>1, <3>2 DEF CallInv
  <2> QED
    BY <1>1, <1>3, <2>1, <2>2, <2>3, SilentKeeps
<1>5. CASE e \notin ReplayGrade
  <2>1. Distribute(e)
    BY <1>5 DEF Publish
  <2> QED
    BY <1>1, <1>2, <1>3, <1>5, <2>1, DistributeKeeps
<1> QED
  BY <1>4, <1>5

LEMMA LogWrittenKeeps ==
  ASSUME BusInv, NEW e \in Events, LogWritten(e)
  PROVE  CallsInv'
<1>1. /\ Starting(e) /\ Distribute(e) /\ stored' = stored \cup {e}
      /\ UNCHANGED <<earlier, subscribers, older, fresh>>
  BY DEF LogWritten, Starting, subVars
<1> QED
  BY <1>1, DistributeKeeps

LEMMA QuietStepsKeep ==
  ASSUME BusInv
  PROVE  /\ Lifecycle => CallsInv'
         /\ \A s \in Subs : Subscribe(s) \/ Unsubscribe(s) => CallsInv'
         /\ TimerFires => CallsInv'
         /\ UNCHANGED vars => CallsInv'
<1> USE DEF controlVars, subVars, healthVars, callVars, logVars, drainVars, boundVars,
            historyVars
<1>1. /\ UNCHANGED batcherVars => UiStream' = UiStream
      /\ Flush => UiStream' = UiStream
  BY UnchangedBatcher, FlushKeeps DEF BusInv
<1>2. ASSUME UNCHANGED <<subscribers, older, fresh>>
      PROVE  MapInv'
  BY <1>2 DEF BusInv, MapInv
<1>3. ASSUME Lifecycle
      PROVE  CallsInv'
  <2>1. /\ UNCHANGED <<pc, result, todo, matched, handled, earlier>>
        /\ UNCHANGED <<subscribers, older, fresh>> /\ stored \subseteq stored'
        /\ UNCHANGED batcherVars \/ Flush
    BY <1>3 DEF Lifecycle, Start, DrainBegin, DrainWrite, DrainEnd, ForceStop
  <2> QED
    BY <1>1, <1>2, <2>1, QuietKeeps
<1>4. ASSUME NEW s \in Subs, Subscribe(s)
      PROVE  CallsInv'
  <2>1. /\ UNCHANGED <<pc, result, todo, matched, handled, earlier, stored>>
        /\ UNCHANGED batcherVars
        /\ s \in fresh /\ fresh' = fresh \ {s} /\ subscribers' = subscribers \cup {s}
        /\ older' = [older EXCEPT ![s] = Subs \ fresh]
    BY <1>4 DEF Subscribe
  <2>2. /\ older \in [Subs -> SUBSET Subs] /\ fresh \subseteq Subs
        /\ older'[s] = Subs \ fresh
        /\ \A t \in Subs \ fresh : older'[t] = older[t]
    BY <2>1 DEF BusInv, TypeOK
  <2>3. MapInv'
    <3>1. subscribers' \subseteq Subs \ fresh'
      BY <2>1 DEF BusInv, MapInv
    <3>2. ASSUME NEW t \in Subs \ fresh', NEW u \in Subs \ fresh', t # u
          PROVE  t \in older'[u] \/ u \in older'[t]
      <4>1. CASE t \in Subs \ fresh /\ u \in Subs \ fresh
        BY <2>2, <3>2, <4>1 DEF BusInv, MapInv
      <4>2. CASE t = s \/ u = s
        BY <2>1, <2>2, <3>2, <4>2
      <4> QED
        BY <2>1, <4>1, <4>2
    <3> QED
      BY <3>1, <3>2 DEF MapInv
  <2> QED
    BY <1>1, <2>1, <2>2, <2>3, QuietKeeps
<1>5. ASSUME NEW s \in Subs, Unsubscribe(s)
      PROVE  CallsInv'
  <2>1. /\ UNCHANGED <<pc, result, todo, matched, handled, earlier, stored, older, fresh>>
        /\ UNCHANGED batcherVars
        /\ subscribers' = subscribers \ {s}
    BY <1>5 DEF Unsubscribe
  <2>2. MapInv'
    BY <2>1 DEF BusInv, MapInv
  <2> QED
    BY <1>1, <2>1, <2>2, QuietKeeps
<1>6. ASSUME TimerFires
      PROVE  CallsInv'
  <2>1. /\ UNCHANGED <<pc, result, todo, matched, handled, earlier, stored>>
        /\ UNCHANGED <<subscribers, older, fresh>> /\ Flush
    BY <1>6 DEF TimerFires
  <2> QED
    BY <1>1, <1>2, <2>1, QuietKeeps
<1>7. ASSUME UNCHANGED vars
      PROVE  CallsInv'
  <2>1. /\ UNCHANGED <<pc, result, todo, matched, handled, earlier, stored>>
        /\ UNCHANGED <<subscribers, older, fresh>> /\ UNCHANGED batcherVars
    BY <1>7 DEF vars
  <2> QED
    BY <1>1, <1>2, <2>1, QuietKeeps
<1> QED
  BY <1>3, <1>4, <1>5, <1>6, <1>7

LEMMA BusStep ==
  ASSUME BusInv, [Next]_vars
  PROVE  BusInv'
<1>1. CallsInv'
  <2>1. ASSUME NEW e \in Events, Refuse(e) \/ Publish(e) \/ PublishStep(e)
        PROVE  CallsInv'
    BY <2>1, RefusedKeeps, PublishKeeps, LogWrittenKeeps, SettleKeeps, ResumeKeeps
       DEF PublishStep
  <2> QED
    BY <2>1, QuietStepsKeep DEF Next
<1> QED
  BY <1>1, BatcherKept, TypesKept DEF BusInv, CallsInv

LEMMA BusInit ==
  ASSUME Init
  PROVE  BusInv
<1> USE DEF Init, BatcherInit
<1>1. BatcherInv /\ CoalesceIndexSound
  <2>1. Whole(<<>>)
    BY DEF Whole
  <2>2. slotOf \in [Keys -> Nat]
    OBVIOUS
  <2>3. BatcherInv
    BY <2>1, <2>2 DEF BatcherInv
  <2>4. CoalesceIndexSound
    BY DEF CoalesceIndexSound
  <2> QED
    BY <2>3, <2>4
<1>2. TypeOK
  <2>1. BatcherTypeOK
    BY <1>1, BatcherTypes
  <2>2. /\ panics \in [Subs -> Nat] /\ seq \in [Events -> Nat]
        /\ older \in [Subs -> SUBSET Subs]
        /\ todo \in [Events -> SUBSET Subs] /\ matched \in [Events -> SUBSET Subs]
        /\ earlier \in [Events -> SUBSET Events]
    OBVIOUS
  <2>3. /\ pc \in [Events -> {"idle", "logging", "handling", "settled", "returned"}]
        /\ result \in [Events -> {"none", "ok", "rejected", "failed", "refused"}]
    OBVIOUS
  <2>4. handled \in [Subs -> Seq(Events)] /\ eventLog \in Seq(Events) /\ flushing \in Seq(Events)
    OBVIOUS
  <2>5. starts \in 0..MaxStarts /\ drains \in 0..MaxDrains
    BY BusAssumption DEF BusAssumption
  <2> QED
    BY <2>1, <2>2, <2>3, <2>4, <2>5 DEF TypeOK, EventBusState
<1>3. MapInv
  BY DEF MapInv
<1>4. UiStream = <<>> /\ (\A s \in Subs : handled[s] = <<>>)
  BY DEF UiStream
<1>5. \A s \in Subs, e \in Events : ~Has(s, e)
  BY <1>4 DEF Has, Range
<1>6. ASSUME NEW e \in Events
      PROVE  CallInv(e)
  <2>1. Starting(e) /\ ~Serving(e) /\ ~InUi(e)
    BY <1>4 DEF Starting, Serving, InUi
  <2> QED
    BY <1>5, <2>1 DEF CallInv
<1>7. OrderInv
  BY <1>4 DEF OrderInv, ServedInOrder
<1> QED
  BY <1>1, <1>2, <1>3, <1>6, <1>7 DEF BusInv

\* BusInv holds of every state the bus can be in.
THEOREM BusInvariant == Spec => []BusInv
<1>1. Init => BusInv
  BY BusInit
<1>2. BusInv /\ [Next]_vars => BusInv'
  BY BusStep
<1> QED
  BY <1>1, <1>2, PTL DEF Spec

-----------------------------------------------------------------------------
(* What follows from the invariant *)

\* A handler's log has an event once or not at all.
LEMMA CallsCounted ==
  ASSUME BusInv, NEW s \in Subs, NEW e \in Events
  PROVE  Calls(s, e) = IF Has(s, e) THEN 1 ELSE 0
<1> DEFINE at == {i \in DOMAIN handled[s] : handled[s][i] = e}
<1>1. CASE Has(s, e)
  <2>1. PICK i \in DOMAIN handled[s] : handled[s][i] = e
    BY <1>1 DEF Has, Range
  <2>2. at = {i}
    BY <2>1 DEF BusInv, OrderInv
  <2> QED
    BY <1>1, <2>2, FS_Singleton DEF Calls
<1>2. CASE ~Has(s, e)
  <2>1. at = {}
    BY <1>2 DEF Has, Range
  <2> QED
    BY <1>2, <2>1, FS_EmptySet DEF Calls
<1> QED
  BY <1>1, <1>2

\* A call has a result when it has returned, and no sooner.
LEMMA ResultWhenReturned ==
  ASSUME BusInv, NEW e \in Events, result[e] # "none"
  PROVE  pc[e] = "returned"
BY DEF BusInv, TypeOK, CallInv, Starting, Serving

LEMMA ReachedBy ==
  ASSUME BusInv, NEW e \in Events, Reached(e)
  PROVE  matched[e] # {} \/ InUi(e)
BY DEF BusInv, CallInv, Reached, Has, InUi

\* Every variable keeps to its type: after each call the bus is in a state the
\* next call knows, whatever it interrupted (start(), drain(), publish()).
THEOREM BusTypes == Spec => []TypeOK
<1>1. BusInv => TypeOK
  BY DEF BusInv
<1> QED
  BY <1>1, BusInvariant, PTL

\* A replay-grade event is on disk before a handler or the UI gets it and before
\* publish() says ok or rejects, and an event whose publish() failed is given to
\* nobody, however the calls of publish() overlap.
THEOREM LoggedFirst == Spec => []WriteAhead
<1>1. ASSUME BusInv
      PROVE  WriteAhead
  <2> SUFFICES ASSUME NEW e \in Events
               PROVE  /\ e \in ReplayGrade /\ (Reached(e) \/ result[e] \in {"ok", "rejected"})
                           => e \in stored
                      /\ result[e] \in {"failed", "refused"} => ~Reached(e)
    BY DEF WriteAhead
  <2>1. /\ CallInv(e)
        /\ pc[e] \in {"idle", "logging", "handling", "settled", "returned"}
    BY <1>1 DEF BusInv, TypeOK
  <2>2. result[e] \in {"failed", "refused"} => ~Reached(e)
    BY <1>1, <2>1, ResultWhenReturned, ReachedBy DEF CallInv, Delivered
  <2>3. ASSUME e \in ReplayGrade, Reached(e) \/ result[e] \in {"ok", "rejected"}
        PROVE  e \in stored
    <3>1. CASE Starting(e)
      BY <1>1, <2>1, <2>3, <3>1, ReachedBy DEF CallInv
    <3>2. CASE Serving(e)
      BY <2>1, <2>3, <3>2 DEF CallInv
    <3>3. CASE pc[e] = "returned"
      BY <1>1, <2>1, <2>3, <3>3, ReachedBy DEF CallInv, Delivered
    <3> QED
      BY <2>1, <3>1, <3>2, <3>3 DEF Starting, Serving
  <2> QED
    BY <2>2, <2>3
<1> QED
  BY <1>1, BusInvariant, PTL

\* A handler is called once at most for an event, and only if it matches; when
\* publish() says ok all core and plugin handlers have been that were neither
\* quarantined nor unsubscribed on the way, whoever threw.
THEOREM ServedOnce == Spec => []DeliveredOnce
<1>1. ASSUME BusInv
      PROVE  DeliveredOnce
  <2> SUFFICES ASSUME NEW e \in Events, NEW s \in Subs
               PROVE  /\ Calls(s, e) <= 1
                      /\ Calls(s, e) = 1 => s \in matched[e]
                      /\ result[e] = "ok" /\ Kind[s] # "ui" /\ s \in Served(e) => Calls(s, e) = 1
    BY DEF DeliveredOnce
  <2>1. Calls(s, e) = IF Has(s, e) THEN 1 ELSE 0
    BY <1>1, CallsCounted
  <2>2. Has(s, e) => s \in matched[e]
    BY <1>1 DEF BusInv, CallInv
  <2>3. result[e] = "ok" /\ s \in matched[e] /\ Kind[s] # "ui" => Has(s, e)
    BY <1>1, ResultWhenReturned DEF BusInv, CallInv, Delivered
  <2>4. Served(e) \subseteq matched[e]
    BY DEF Served
  <2> QED
    BY <2>1, <2>2, <2>3, <2>4
<1> QED
  BY <1>1, BusInvariant, PTL

\* No handler gets, and the UI does not show, an event after one that was
\* published when the call of the first had returned.
THEOREM SeenInOrder == Spec => []ServedInOrder
<1>1. BusInv => ServedInOrder
  BY DEF BusInv, OrderInv
<1> QED
  BY <1>1, BusInvariant, PTL

\* The coalescing index of the batcher names the entry of its own key and no
\* position of a batch that is gone, at every flush and push of the bus.
THEOREM IndexIsSound == Spec => []CoalesceIndexSound
<1>1. BusInv => CoalesceIndexSound
  BY DEF BusInv
<1> QED
  BY <1>1, BusInvariant, PTL
-----------------------------------------------------------------------------
(* The bus implements the broker *)

\* What drain() writes was published.
LogInv ==
  /\ \A i \in DOMAIN eventLog : pc[eventLog[i]] # "idle"
  /\ \A i \in DOMAIN flushing : pc[flushing[i]] # "idle"

\* An event that was published stays published, and only a published one is added
\* to the log.
LEMMA LogStep ==
  ASSUME BusInv, LogInv, [Next]_vars
  PROVE  LogInv'
<1> USE DEF controlVars, subVars, healthVars, callVars, logVars, drainVars, boundVars,
            historyVars
<1>1. /\ eventLog \in Seq(Events) /\ flushing \in Seq(Events)
      /\ \A i \in DOMAIN eventLog : eventLog[i] \in Events
      /\ \A i \in DOMAIN flushing : flushing[i] \in Events
      /\ pc \in [Events -> {"idle", "logging", "handling", "settled", "returned"}]
  BY DEF BusInv, TypeOK
<1>2. ASSUME \A f \in Events : pc[f] # "idle" => pc'[f] # "idle",
             UNCHANGED <<eventLog, flushing>>
      PROVE  LogInv'
  BY <1>1, <1>2 DEF LogInv
<1>3. CASE Start \/ DrainEnd \/ ForceStop \/ TimerFires \/ UNCHANGED vars
  BY <1>2, <1>3 DEF Start, DrainEnd, ForceStop, TimerFires, vars
<1>4. CASE \E s \in Subs : Subscribe(s) \/ Unsubscribe(s)
  BY <1>2, <1>4 DEF Subscribe, Unsubscribe
<1>5. CASE DrainBegin
  BY <1>5 DEF DrainBegin, LogInv
<1>6. CASE DrainWrite
  <2>1. /\ flushing # <<>> /\ flushing' = Tail(flushing)
        /\ UNCHANGED <<pc, eventLog>>
    BY <1>6 DEF DrainWrite
  <2>2. \A i \in DOMAIN flushing' : i + 1 \in DOMAIN flushing /\ flushing'[i] = flushing[i + 1]
    BY <1>1, <2>1
  <2> QED
    BY <2>1, <2>2 DEF LogInv
<1>7. ASSUME NEW e \in Events, Refuse(e) \/ PublishStep(e)
      PROVE  LogInv'
  <2>1. \E p \in {"handling", "settled", "returned"} : pc' = [pc EXCEPT ![e] = p]
    <3>2. CASE LogWritten(e)
      BY <3>2, CallMoves DEF LogWritten
    <3>3. CASE Resume(e)
      BY <3>3, CallMoves DEF Resume
    <3>4. CASE Refuse(e) \/ LogFailed(e)
      BY <3>4 DEF Refuse, LogFailed, Return
    <3>5. CASE \E ok \in BOOLEAN : Settle(e, ok)
      BY <3>5 DEF Settle
    <3> QED
      BY <1>7, <3>2, <3>3, <3>4, <3>5 DEF PublishStep
  <2>2. UNCHANGED <<eventLog, flushing>>
    BY <1>7 DEF Refuse, PublishStep, LogWritten, LogFailed, Settle, Resume
  <2>3. \A f \in Events : pc[f] # "idle" => pc'[f] # "idle"
    BY <1>1, <2>1
  <2> QED
    BY <1>2, <2>2, <2>3
<1>8. ASSUME NEW e \in Events, Publish(e)
      PROVE  LogInv'
  <2>1. \E p \in {"logging", "handling", "returned"} : pc' = [pc EXCEPT ![e] = p]
    BY <1>8, CallMoves DEF Publish
  <2>2. /\ eventLog' = Append(eventLog, e) \/ eventLog' = eventLog
        /\ flushing' = flushing
    BY <1>8 DEF Publish
  <2>3. pc'[e] # "idle" /\ \A f \in Events : pc[f] # "idle" => pc'[f] # "idle"
    BY <1>1, <2>1
  <2>4. ASSUME NEW i \in DOMAIN eventLog'
        PROVE  \/ i \in DOMAIN eventLog /\ eventLog'[i] = eventLog[i]
               \/ eventLog'[i] = e
    <3>1. CASE eventLog' = Append(eventLog, e)
      BY <1>1, <2>4, <3>1
    <3>2. CASE eventLog' = eventLog
      BY <2>4, <3>2
    <3> QED
      BY <2>2, <3>1, <3>2
  <2> QED
    BY <1>1, <2>2, <2>3, <2>4 DEF LogInv
<1> QED
  BY <1>3, <1>4, <1>5, <1>6, <1>7, <1>8 DEF Next, Lifecycle

\* The broker's words for the bus's state.
LEMMA GotIsHas == \A s, e : Broker!Got(s, e) <=> Has(s, e)
BY DEF Broker!Got, Has, Range

LEMMA UiHolds ==
  ASSUME BusInv, NEW e \in Events
  PROVE  InUi(e) <=> e \in EventsIn(openBatch) \cup EventsIn(shown)
<1>1. InUi(e) <=> e \in EventsIn(UiStream)
  BY DEF InUi, EventsIn
<1>2. EventsIn(UiStream) = EventsIn(shown) \cup EventsIn(openBatch)
  BY EventsConcat DEF UiStream, BusInv, BatcherInv, Whole
<1> QED
  BY <1>1, <1>2

LEMMA StageOpen ==
  ASSUME BusInv, NEW e \in Events
  PROVE  /\ pc[e] = "idle" <=> Stages[e] = "idle"
         /\ pc[e] \in {"logging", "handling", "settled"} <=> Stages[e] = "underway"
         /\ pc[e] # "returned" => Stages[e] \in {"idle", "underway"}
<1>1. /\ pc[e] \in {"idle", "logging", "handling", "settled", "returned"}
      /\ pc[e] = "returned" => result[e] \in {"none", "ok", "rejected", "failed", "refused"}
      /\ Stages[e] = StageOf(e)
  BY DEF BusInv, TypeOK, Stages
<1> QED
  BY <1>1 DEF StageOf

\* One call goes on, and its publisher knows it by the answer only.
LEMMA StageMoves ==
  ASSUME BusInv, NEW e \in Events, NEW p, pc' = [pc EXCEPT ![e] = p],
         \A f \in Events \ {e} : result'[f] = result[f]
  PROVE  /\ p \in {"logging", "handling", "settled"}
              => Stages' = [Stages EXCEPT ![e] = "underway"]
         /\ p = "returned" => Stages' = [Stages EXCEPT ![e] = result'[e]]
<1>1. /\ pc \in [Events -> {"idle", "logging", "handling", "settled", "returned"}]
      /\ pc'[e] = p /\ \A f \in Events \ {e} : pc'[f] = pc[f]
  BY DEF BusInv, TypeOK
<1>2. \A f \in Events \ {e} : StageOf(f)' = StageOf(f)
  BY <1>1 DEF StageOf
<1>3. /\ p \in {"logging", "handling", "settled"} => StageOf(e)' = "underway"
      /\ p = "returned" => StageOf(e)' = result'[e]
  BY <1>1 DEF StageOf
<1> QED
  BY <1>2, <1>3 DEF Stages

\* The end of a delivery is one, whatever the consumer of the batches throws.
LEMMA FinishDelivers ==
  ASSUME BusInv, NEW e \in Events, NEW S \in SUBSET Subs, FinishDelivery(e, S),
         pc[e] # "returned", ~InUi(e), \A s \in OfKind("plugin", S) : ~Has(s, e),
         stored' \in {stored, stored \cup {e}}, e \in ReplayGrade => e \in stored'
  PROVE  Broker!Deliver(e)
<1> DEFINE plugins == OfKind("plugin", S)
<1>1. /\ CallHandlers(e, plugins)
      /\ Push(e) \/ Flush \/ UNCHANGED batcherVars
      /\ pc' = [pc EXCEPT ![e] = "returned"]
      /\ \E r \in Delivered : result' = [result EXCEPT ![e] = r]
      /\ result \in [Events -> {"none", "ok", "rejected", "failed", "refused"}]
  BY DeliveryEnds DEF BusInv, TypeOK
<1>2. Broker!Answer(e)
  <2>1. PICK r \in Delivered : result' = [result EXCEPT ![e] = r]
    BY <1>1
  <2>2. Stages' = [Stages EXCEPT ![e] = r]
    BY <1>1, <2>1, StageMoves
  <2> QED
    BY <2>2, StageOpen DEF Broker!Answer, Broker!Delivered, Delivered
<1>3. Broker!Serve(e)
  <2>1. plugins \in SUBSET Subs
    BY DEF OfKind
  <2>2. handled' = [s \in Subs |-> IF s \in plugins THEN Append(handled[s], e) ELSE handled[s]]
    BY <1>1 DEF CallHandlers
  <2>3. \A s \in plugins : ~Broker!Got(s, e)
    BY GotIsHas
  <2> HIDE DEF plugins
  <2> QED
    BY <2>1, <2>2, <2>3 DEF Broker!Serve
<1>4. \/ Broker!GiveToUi(e) \/ Broker!ShowPending
      \/ UNCHANGED <<EventsIn(openBatch), EventsIn(shown)>>
  <2>1. ASSUME Push(e)
        PROVE  Broker!GiveToUi(e)
    <3>1. PICK gone \in SUBSET (EventsIn(openBatch) \cap TakesPlaceOf(e)) : Takes(e, gone)
      BY <2>1, PushTakes, BatcherAssumption DEF BusInv
    <3> QED
      BY <3>1, UiHolds DEF Takes, Broker!GiveToUi
  <2>2. ASSUME Flush
        PROVE  Broker!ShowPending
    BY <2>2, FlushShows DEF BusInv, ShowsAll, Broker!ShowPending
  <2>3. ASSUME UNCHANGED batcherVars
        PROVE  UNCHANGED <<EventsIn(openBatch), EventsIn(shown)>>
    BY <2>3 DEF batcherVars
  <2> QED
    BY <1>1, <2>1, <2>2, <2>3
<1> QED
  BY <1>2, <1>3, <1>4 DEF Broker!Deliver, Broker!StoredFirst

\* A core handler that is called is a delivery.
LEMMA ServeDelivers ==
  ASSUME BusInv, NEW e \in Events, NEW S \in SUBSET Subs, ServeNext(e, S),
         pc[e] # "returned", \A s \in S : IsFirst(s, S) => ~Has(s, e),
         stored' \in {stored, stored \cup {e}}, e \in ReplayGrade => e \in stored'
  PROVE  Broker!Deliver(e)
<1>1. PICK s \in S : IsFirst(s, S) /\ CallHandlers(e, {s})
  BY HandlerCalled
<1>2. /\ pc' = [pc EXCEPT ![e] = "handling"] /\ result' = result
      /\ UNCHANGED batcherVars
  BY HandlerCalled
<1>3. Stages' = [Stages EXCEPT ![e] = "underway"]
  BY <1>2, StageMoves
<1>4. Broker!Serve(e)
  <2>1. {s} \in SUBSET Subs /\ \A t \in {s} : ~Broker!Got(t, e)
    BY <1>1, GotIsHas
  <2>2. handled' = [t \in Subs |-> IF t \in {s} THEN Append(handled[t], e) ELSE handled[t]]
    BY <1>1 DEF CallHandlers
  <2> QED
    BY <2>1, <2>2 DEF Broker!Serve
<1>5. UNCHANGED <<EventsIn(openBatch), EventsIn(shown)>>
  BY <1>2 DEF batcherVars
<1>6. Broker!Answer(e)
  BY <1>3, StageOpen DEF Broker!Answer
<1> QED
  BY <1>4, <1>5, <1>6 DEF Broker!Deliver, Broker!StoredFirst

LEMMA DistributeImplements ==
  ASSUME BusInv, NEW e \in Events, Starting(e), Distribute(e),
         stored' \in {stored, stored \cup {e}}, e \in ReplayGrade => e \in stored'
  PROVE  Broker!Deliver(e)
<1>1. pc[e] # "returned" /\ ~InUi(e) /\ \A s \in Subs : ~Has(s, e)
  BY DEF BusInv, CallInv, Starting
<1>2. CASE StopInMiddleware(e)
  <2>1. /\ pc' = [pc EXCEPT ![e] = "returned"]
        /\ \E r \in Delivered : result' = [result EXCEPT ![e] = r]
        /\ UNCHANGED handled /\ UNCHANGED batcherVars
        /\ result \in [Events -> {"none", "ok", "rejected", "failed", "refused"}]
        /\ handled \in [Subs -> Seq(Events)]
    BY <1>2 DEF StopInMiddleware, Return, BusInv, TypeOK, Delivered
  <2>2. Broker!Answer(e)
    <3>1. PICK r \in Delivered : result' = [result EXCEPT ![e] = r]
      BY <2>1
    <3>2. Stages' = [Stages EXCEPT ![e] = r]
      BY <2>1, <3>1, StageMoves
    <3> QED
      BY <1>1, <3>2, StageOpen DEF Broker!Answer, Broker!Delivered, Delivered
  <2>3. handled' = [s \in Subs |-> IF s \in {} THEN Append(handled[s], e) ELSE handled[s]]
    BY <2>1
  <2>4. Broker!Serve(e)
    <3>1. {} \in SUBSET Subs /\ \A s \in {} : ~Broker!Got(s, e)
      OBVIOUS
    <3> QED
      BY <2>3, <3>1 DEF Broker!Serve
  <2>5. UNCHANGED <<EventsIn(openBatch), EventsIn(shown)>>
    BY <2>1 DEF batcherVars
  <2> QED
    BY <2>2, <2>4, <2>5 DEF Broker!Deliver, Broker!StoredFirst
<1>3. CASE DeliverToMatching(e)
  <2> DEFINE subs == Matching(e)
             core == OfKind("core", Matching(e))
  <2>1. /\ subs \in SUBSET Subs /\ core \in SUBSET Subs
        /\ \A s \in OfKind("plugin", subs) : ~Has(s, e)
        /\ \A s \in core : ~Has(s, e)
    BY <1>1, MatchingType DEF OfKind
  <2>2. IF core = {} THEN FinishDelivery(e, subs) ELSE ServeNext(e, core)
    BY <1>3 DEF DeliverToMatching
  <2> HIDE DEF subs, core
  <2> QED
    BY <1>1, <2>1, <2>2, FinishDelivers, ServeDelivers
<1> QED
  BY <1>2, <1>3 DEF Distribute

LEMMA ResumeImplements ==
  ASSUME BusInv, NEW e \in Events, Resume(e)
  PROVE  Broker!Deliver(e)
<1>1. /\ pc[e] = "settled" /\ stored' = stored
      /\ IF todo[e] = {} THEN FinishDelivery(e, matched[e]) ELSE ServeNext(e, todo[e])
  BY DEF Resume, logVars
<1>2. /\ matched[e] \in SUBSET Subs /\ todo[e] \in SUBSET Subs
      /\ e \in ReplayGrade => e \in stored
      /\ todo[e] \subseteq OfKind("core", matched[e]) /\ ~InUi(e)
      /\ \A s \in OfKind("plugin", matched[e]) : ~Has(s, e)
      /\ \A s \in OfKind("core", matched[e]) : Has(s, e) <=> s \notin todo[e]
  BY <1>1 DEF BusInv, TypeOK, CallInv, Serving, CalledInTurn
<1>3. \A s \in todo[e] : ~Has(s, e)
  BY <1>2
<1> QED
  BY <1>1, <1>2, <1>3, FinishDelivers, ServeDelivers

\* Nothing the broker knows of has changed.
LEMMA BrokerStutters ==
  ASSUME UNCHANGED <<Stages, stored, handled>>, UNCHANGED batcherVars
  PROVE  UNCHANGED Broker!vars
BY DEF Broker!vars, batcherVars

LEMMA FlushImplements ==
  ASSUME BusInv, Flush, UNCHANGED <<pc, result, stored, handled>>
  PROVE  Broker!Show
<1>1. ShowsAll
  BY FlushShows DEF BusInv
<1>2. Stages' = Stages
  BY DEF Stages, StageOf
<1> QED
  BY <1>1, <1>2 DEF ShowsAll, Broker!Show, Broker!ShowPending

LEMMA BrokerStep ==
  ASSUME BusInv, LogInv, [Next]_vars
  PROVE  [Broker!Next]_(Broker!vars)
<1> USE DEF controlVars, subVars, healthVars, callVars, logVars, drainVars, boundVars,
            historyVars
<1>1. UNCHANGED <<pc, result>> => Stages' = Stages
  BY DEF Stages, StageOf
<1>2. CASE Start \/ DrainBegin \/ UNCHANGED vars
  BY <1>1, <1>2, BrokerStutters DEF Start, DrainBegin, vars
<1>3. CASE \E s \in Subs : Subscribe(s) \/ Unsubscribe(s)
  BY <1>1, <1>3, BrokerStutters DEF Subscribe, Unsubscribe
<1>4. CASE DrainEnd \/ ForceStop \/ TimerFires
  BY <1>4, FlushImplements DEF DrainEnd, ForceStop, TimerFires, Broker!Next
<1>5. CASE DrainWrite
  <2> DEFINE e == Head(flushing)
  <2>1. /\ flushing # <<>>
        /\ stored' = stored \cup {e} \/ stored' = stored
        /\ UNCHANGED <<pc, result, handled>> /\ UNCHANGED batcherVars
    BY <1>5 DEF DrainWrite
  <2>2. e \in Events /\ pc[e] # "idle"
    <3>1. flushing \in Seq(Events)
      BY DEF BusInv, TypeOK
    <3>2. 1 \in DOMAIN flushing /\ e = flushing[1] /\ flushing[1] \in Events
      BY <2>1, <3>1
    <3> QED
      BY <3>2 DEF LogInv
  <2>3. Stages[e] # "idle"
    BY <2>2, StageOpen
  <2>4. CASE stored' = stored \cup {e}
    <3>1. Broker!Store(e)
      BY <1>1, <2>1, <2>3, <2>4 DEF Broker!Store, batcherVars
    <3> QED
      BY <2>2, <3>1 DEF Broker!Next
  <2>5. CASE stored' = stored
    BY <1>1, <2>1, <2>5, BrokerStutters
  <2> QED
    BY <2>1, <2>4, <2>5
<1>6. ASSUME NEW e \in Events, Refuse(e)
      PROVE  Broker!Refuse(e)
  <2>1. /\ pc[e] = "idle" /\ pc' = [pc EXCEPT ![e] = "returned"]
        /\ result' = [result EXCEPT ![e] = "refused"]
        /\ UNCHANGED <<stored, handled>> /\ UNCHANGED batcherVars
        /\ result \in [Events -> {"none", "ok", "rejected", "failed", "refused"}]
    BY <1>6 DEF Refuse, Return, BusInv, TypeOK
  <2>2. Stages' = [Stages EXCEPT ![e] = "refused"] /\ Stages[e] = "idle"
    BY <2>1, StageMoves, StageOpen
  <2> QED
    BY <2>1, <2>2 DEF Broker!Refuse, batcherVars
<1>7. ASSUME NEW e \in Events, LogFailed(e)
      PROVE  Broker!Fail(e)
  <2>1. /\ pc[e] = "logging" /\ pc' = [pc EXCEPT ![e] = "returned"]
        /\ result' = [result EXCEPT ![e] = "failed"]
        /\ UNCHANGED <<stored, handled>> /\ UNCHANGED batcherVars
        /\ result \in [Events -> {"none", "ok", "rejected", "failed", "refused"}]
    BY <1>7 DEF LogFailed, Return, BusInv, TypeOK
  <2>2. Stages' = [Stages EXCEPT ![e] = "failed"] /\ Stages[e] = "underway"
    BY <2>1, StageMoves, StageOpen
  <2>3. ~InUi(e) /\ \A s \in Subs : ~Has(s, e)
    BY <2>1 DEF BusInv, CallInv, Starting
  <2>4. Broker!NobodyGot(e)
    BY <2>3, UiHolds, GotIsHas DEF Broker!NobodyGot
  <2> QED
    BY <2>1, <2>2, <2>4 DEF Broker!Fail, batcherVars
<1>8. ASSUME NEW e \in Events, Publish(e)
      PROVE  Broker!Begin(e) \/ Broker!Deliver(e)
  <2>1. pc[e] = "idle" /\ stored' = stored /\ Starting(e)
    BY <1>8 DEF Publish, Starting
  <2>2. CASE e \in ReplayGrade
    <3>1. /\ pc' = [pc EXCEPT ![e] = "logging"] /\ UNCHANGED <<result, handled>>
          /\ UNCHANGED batcherVars
      BY <1>8, <2>2 DEF Publish
    <3>2. Stages' = [Stages EXCEPT ![e] = "underway"] /\ Stages[e] = "idle"
      BY <2>1, <3>1, StageMoves, StageOpen
    <3>3. Broker!Begin(e)
      BY <2>1, <3>1, <3>2 DEF Broker!Begin, batcherVars
    <3> QED
      BY <3>3
  <2>3. CASE e \notin ReplayGrade
    <3>1. Distribute(e)
      BY <1>8, <2>3 DEF Publish
    <3> QED
      BY <2>1, <2>3, <3>1, DistributeImplements
  <2> QED
    BY <2>2, <2>3
<1>9. ASSUME NEW e \in Events, LogWritten(e)
      PROVE  Broker!Deliver(e)
  <2>1. /\ Starting(e) /\ Distribute(e) /\ stored' = stored \cup {e}
    BY <1>9 DEF LogWritten, Starting
  <2> QED
    BY <2>1, DistributeImplements
<1>10. ASSUME NEW e \in Events, NEW ok \in BOOLEAN, Settle(e, ok)
       PROVE  UNCHANGED Broker!vars
  <2>1. /\ pc[e] = "handling" /\ pc' = [pc EXCEPT ![e] = "settled"]
        /\ UNCHANGED <<result, stored, handled>> /\ UNCHANGED batcherVars
    BY <1>10 DEF Settle
  <2>2. Stages' = [Stages EXCEPT ![e] = "underway"] /\ Stages[e] = "underway"
    BY <2>1, StageMoves, StageOpen
  <2>3. Stages' = Stages
    BY <2>2 DEF Stages
  <2> QED
    BY <2>1, <2>3, BrokerStutters
<1> QED
  BY <1>2, <1>3, <1>4, <1>5, <1>6, <1>7, <1>8, <1>9, <1>10, ResumeImplements
     DEF Next, Lifecycle, PublishStep, Broker!Next

LEMMA BrokerBegins ==
  ASSUME Init
  PROVE  Broker!Init /\ LogInv
<1>1. Stages = [e \in Events |-> "idle"]
  BY DEF Init, Stages, StageOf
<1>2. EventsIn(openBatch) = {} /\ EventsIn(shown) = {}
  BY NothingInNoEntries DEF Init, BatcherInit
<1>3. Broker!Init
  BY <1>1, <1>2 DEF Init, Broker!Init
<1>4. LogInv
  BY DEF Init, LogInv
<1> QED
  BY <1>3, <1>4

\* The bus implements the broker: every step it takes is one the broker allows,
\* or concerns nothing the broker speaks of.
THEOREM BrokerImplemented == Spec => ImplementsBroker
<1>1. Init => Broker!Init /\ LogInv
  BY BrokerBegins
<1>2. BusInv /\ LogInv /\ [Next]_vars => LogInv'
  BY LogStep
<1>3. BusInv /\ LogInv /\ [Next]_vars => [Broker!Next]_(Broker!vars)
  BY BrokerStep
<1> QED
  BY <1>1, <1>2, <1>3, BusInvariant, PTL DEF Spec, ImplementsBroker, Broker!Spec
-----------------------------------------------------------------------------
(* Sequence numbers *)

\* No two events have the same number, and an event has a higher one than those
\* whose publish() had returned before it was published; 0 is no number.
NumbersTell ==
  /\ \A e, f \in Events : e # f /\ seq[e] # 0 => seq[e] # seq[f]
  /\ \A e \in Events : \A f \in earlier[e] : seq[f] < seq[e]

NothingBegun ==
  /\ ~Accepting
  /\ \A e \in Events : pc[e] # "logging" /\ seq[e] = 0 /\ earlier[e] = {}

NumbersInv ==
  /\ starts = 0 => NothingBegun
  /\ starts <= 1 => NumbersTell /\ \A e \in Events : seq[e] <= sequence

\* Only start() and publish() have to do with the numbers.
LEMMA NumbersKept ==
  ASSUME NumbersInv, UNCHANGED <<starts, sequence, seq, earlier>>,
         starts = 0 => ~Accepting' /\ \A e \in Events : pc'[e] # "logging"
  PROVE  NumbersInv'
<1>1. NothingBegun /\ starts = 0 => NothingBegun'
  BY DEF NothingBegun
<1>2. NumbersTell => NumbersTell'
  BY DEF NumbersTell
<1> QED
  BY <1>1, <1>2 DEF NumbersInv

LEMMA NumbersStep ==
  ASSUME BusInv, NumbersInv, [Next]_vars
  PROVE  NumbersInv'
<1> USE DEF controlVars, subVars, healthVars, callVars, logVars, drainVars, boundVars,
            historyVars
<1>1. /\ pc \in [Events -> {"idle", "logging", "handling", "settled", "returned"}]
      /\ seq \in [Events -> Nat] /\ sequence \in Nat /\ starts \in Nat
      /\ earlier \in [Events -> SUBSET Events]
      /\ \A e, f \in Events : f \in earlier[e] => pc[f] = "returned"
  BY DEF BusInv, TypeOK, OrderInv
<1>2. starts = 0 => ~Accepting /\ \A e \in Events : pc[e] # "logging"
  BY DEF NumbersInv, NothingBegun
<1>3. CASE Start
  <2>1. starts' = starts + 1 /\ sequence' = 0 /\ UNCHANGED <<seq, earlier>>
    BY <1>3 DEF Start
  <2>2. starts' # 0 /\ (starts' <= 1 => starts = 0)
    BY <1>1, <2>1
  <2>3. starts = 0 => NumbersTell /\ \A e \in Events : seq[e] = 0
    BY <1>1 DEF NumbersInv, NothingBegun
  <2>4. NumbersTell => NumbersTell'
    BY <2>1 DEF NumbersTell
  <2> QED
    BY <1>1, <2>1, <2>2, <2>3, <2>4 DEF NumbersInv
<1>4. CASE DrainBegin \/ DrainWrite \/ DrainEnd \/ ForceStop \/ TimerFires
  BY <1>2, <1>4, NumbersKept
     DEF DrainBegin, DrainWrite, DrainEnd, ForceStop, TimerFires, Accepting
<1>5. CASE UNCHANGED vars \/ \E s \in Subs : Subscribe(s) \/ Unsubscribe(s)
  BY <1>2, <1>5, NumbersKept DEF vars, Subscribe, Unsubscribe, Accepting
<1>6. ASSUME NEW e \in Events, Refuse(e) \/ PublishStep(e)
      PROVE  NumbersInv'
  <2>1. UNCHANGED <<starts, sequence, seq, earlier>>
    BY <1>6 DEF Refuse, PublishStep, LogWritten, LogFailed, Settle, Resume
  <2>2. \E p \in {"handling", "settled", "returned"} : pc' = [pc EXCEPT ![e] = p]
    <3>1. CASE LogWritten(e)
      BY <3>1, CallMoves DEF LogWritten
    <3>2. CASE Resume(e)
      BY <3>2, CallMoves DEF Resume
    <3> QED
      BY <1>6, <3>1, <3>2 DEF Refuse, PublishStep, LogFailed, Settle, Return
  <2>3. state' = state \/ pc[e] = "logging"
    BY <1>6 DEF Refuse, PublishStep, LogWritten, LogFailed, Settle, Resume
  <2>4. starts = 0 => ~Accepting' /\ \A f \in Events : pc'[f] # "logging"
    BY <1>1, <1>2, <2>2, <2>3 DEF Accepting
  <2> QED
    BY <2>1, <2>4, NumbersKept
<1>7. ASSUME NEW e \in Events, Publish(e)
      PROVE  NumbersInv'
  <2>1. /\ Accepting /\ pc[e] = "idle" /\ starts' = starts
        /\ sequence' = sequence + 1 /\ seq' = [seq EXCEPT ![e] = sequence + 1]
        /\ earlier' = [earlier EXCEPT ![e] = {f \in Events : pc[f] = "returned"}]
    BY <1>7 DEF Publish
  <2>2. starts # 0
    BY <1>2, <2>1
  <2>3. ASSUME starts <= 1
        PROVE  NumbersTell' /\ \A f \in Events : seq'[f] <= sequence'
    <3>1. NumbersTell /\ \A f \in Events : seq[f] \in Nat /\ seq[f] <= sequence
      BY <1>1, <2>3 DEF NumbersInv
    <3>2. /\ seq'[e] = sequence + 1
          /\ \A f \in Events : f # e => seq'[f] = seq[f] /\ seq[f] < sequence + 1
      BY <1>1, <2>1, <3>1
    <3>3. \A f \in Events : seq'[f] <= sequence'
      BY <1>1, <2>1, <3>1, <3>2
    <3>4. \A f, g \in Events : f # g /\ seq'[f] # 0 => seq'[f] # seq'[g]
      BY <1>1, <3>1, <3>2 DEF NumbersTell
    <3>5. ASSUME NEW f \in Events, NEW g \in earlier'[f]
          PROVE  seq'[g] < seq'[f]
      <4>1. CASE f = e
        <5>1. g \in Events /\ pc[g] = "returned"
          BY <1>1, <2>1, <3>5, <4>1
        <5> QED
          BY <2>1, <3>2, <4>1, <5>1
      <4>2. CASE f # e
        <5>1. g \in earlier[f] /\ g \in Events /\ pc[g] = "returned"
          BY <1>1, <2>1, <3>5, <4>2
        <5> QED
          BY <2>1, <3>1, <3>2, <4>2, <5>1 DEF NumbersTell
      <4> QED
        BY <4>1, <4>2
    <3> QED
      BY <3>3, <3>4, <3>5 DEF NumbersTell
  <2> QED
    BY <2>1, <2>2, <2>3 DEF NumbersInv
<1> QED
  BY <1>3, <1>4, <1>5, <1>6, <1>7 DEF Next, Lifecycle

\* In a session that starts the bus once, whatever fails, drains and stops in it,
\* the sequence numbers are distinct and follow the order of publication.  (A
\* second start() counts from 0 again under calls of the first run.)
THEOREM SequenceNumbers == Spec => [](starts <= 1 => NumbersTell)
<1>1. Init => NumbersInv
  BY DEF Init, NumbersInv, NumbersTell, NothingBegun, Accepting
<1>2. BusInv /\ NumbersInv /\ [Next]_vars => NumbersInv'
  BY NumbersStep
<1>3. NumbersInv => (starts <= 1 => NumbersTell)
  BY DEF NumbersInv
<1> QED
  BY <1>1, <1>2, <1>3, BusInvariant, PTL DEF Spec
-----------------------------------------------------------------------------
(* publish() comes to its end *)

\* An id is younger than those given out before it, and than what is older than
\* those.
AgeInv ==
  \A s \in Subs \ fresh :
    /\ s \notin older[s] /\ older[s] \subseteq Subs \ fresh
    /\ \A t \in older[s] : older[t] \subseteq older[s]

\* A call that waits for a handler has one to wait for.
TurnInv == AgeInv /\ \A e \in Events : pc[e] = "handling" => todo[e] # {}

\* The map's order has no cycle: one of any handlers is the first.
LEMMA FirstExists ==
  ASSUME BusInv, AgeInv, NEW S \in SUBSET (Subs \ fresh), S # {}
  PROVE  \E s \in S : IsFirst(s, S)
<1> DEFINE Age(s) == Cardinality(older[s])
           Ages == {Age(s) : s \in S}
<1>1. older \in [Subs -> SUBSET Subs] /\ IsFiniteSet(Subs)
  BY BusAssumption DEF BusInv, TypeOK
<1>2. ASSUME NEW s \in S
      PROVE  IsFiniteSet(older[s]) /\ Age(s) \in Nat
  BY <1>1, <1>2, FS_Subset, FS_CardinalityType
<1>3. Ages \subseteq Nat /\ Ages # {}
  BY <1>2
<1>4. PICK n \in Ages : \A m \in Ages : <<m, n>> \notin OpToRel(<, Nat)
  <2> HIDE DEF Ages
  <2> QED
    BY <1>3, NatLessThanWellFounded, WFMin
<1>5. PICK s \in S : n = Age(s)
  OBVIOUS
<1>6. ASSUME NEW t \in S, t \in older[s]
      PROVE  FALSE
  <2>1. older[t] \subseteq older[s] /\ t \notin older[t] /\ t \in older[s]
    BY <1>6 DEF AgeInv
  <2>2. IsFiniteSet(older[s]) /\ older[t] # older[s]
    BY <1>2, <2>1
  <2>3. Age(t) < Age(s)
    BY <2>1, <2>2, <1>2, FS_Subset
  <2>4. <<Age(t), Age(s)>> \in OpToRel(<, Nat) /\ Age(t) \in Ages
    BY <1>2, <2>3 DEF OpToRel
  <2> QED
    BY <1>4, <1>5, <2>4
<1> QED
  BY <1>6 DEF IsFirst

LEMMA TurnStep ==
  ASSUME BusInv, TurnInv, [Next]_vars
  PROVE  TurnInv'
<1> USE DEF controlVars, subVars, healthVars, callVars, logVars, drainVars, boundVars,
            historyVars
<1>1. /\ pc \in [Events -> {"idle", "logging", "handling", "settled", "returned"}]
      /\ todo \in [Events -> SUBSET Subs] /\ older \in [Subs -> SUBSET Subs]
      /\ fresh \subseteq Subs
  BY DEF BusInv, TypeOK
<1>2. ASSUME UNCHANGED <<pc, todo>> PROVE (\A e \in Events : pc[e] = "handling" => todo[e] # {})'
  BY <1>2 DEF TurnInv
<1>3. ASSUME UNCHANGED <<older, fresh>> PROVE AgeInv'
  BY <1>3 DEF TurnInv, AgeInv
<1>4. CASE Lifecycle \/ TimerFires \/ UNCHANGED vars
  BY <1>2, <1>3, <1>4
     DEF TurnInv, Lifecycle, Start, DrainBegin, DrainWrite, DrainEnd, ForceStop, TimerFires, vars
<1>5. ASSUME NEW s \in Subs, Unsubscribe(s)
      PROVE  TurnInv'
  BY <1>2, <1>3, <1>5 DEF TurnInv, Unsubscribe
<1>6. ASSUME NEW s \in Subs, Subscribe(s)
      PROVE  TurnInv'
  <2>1. /\ s \in fresh /\ fresh' = fresh \ {s}
        /\ older' = [older EXCEPT ![s] = Subs \ fresh]
        /\ UNCHANGED <<pc, todo>>
    BY <1>6 DEF Subscribe
  <2>2. /\ older'[s] = Subs \ fresh /\ s \notin Subs \ fresh
        /\ \A t \in Subs \ fresh : older'[t] = older[t] /\ older[t] \subseteq Subs \ fresh
        /\ Subs \ fresh' = (Subs \ fresh) \cup {s}
    BY <1>1, <2>1 DEF TurnInv, AgeInv
  <2>3. ASSUME NEW t \in Subs \ fresh'
        PROVE  /\ t \notin older'[t] /\ older'[t] \subseteq Subs \ fresh'
               /\ \A u \in older'[t] : older'[u] \subseteq older'[t]
    <3>1. CASE t = s
      BY <2>2, <3>1
    <3>2. CASE t \in Subs \ fresh
      BY <2>2, <3>2 DEF TurnInv, AgeInv
    <3> QED
      BY <2>2, <3>1, <3>2
  <2> QED
    BY <1>2, <2>1, <2>3 DEF TurnInv, AgeInv
<1>7. ASSUME NEW e \in Events, Refuse(e) \/ Publish(e) \/ PublishStep(e)
      PROVE  TurnInv'
  <2>1. UNCHANGED <<older, fresh>>
    BY <1>7 DEF Refuse, Publish, PublishStep, LogWritten, LogFailed, Settle, Resume
  <2> DEFINE OneMoves == /\ \A f \in Events \ {e} : pc'[f] = pc[f] /\ todo'[f] = todo[f]
                         /\ pc'[e] = "handling" => todo'[e] # {}
  <2>2. OneMoves
    <3>1. ASSUME Distribute(e) PROVE OneMoves
      <4>1. CASE StopInMiddleware(e)
        BY <1>1, <4>1 DEF StopInMiddleware, Return
      <4>2. CASE DeliverToMatching(e)
        <5> DEFINE core == OfKind("core", Matching(e))
        <5>1. todo' = [todo EXCEPT ![e] = core]
          BY <4>2 DEF DeliverToMatching
        <5>2. CASE core = {}
          BY <1>1, <4>2, <5>1, <5>2, CallMoves DEF DeliverToMatching
        <5>3. CASE core # {}
          BY <1>1, <4>2, <5>1, <5>3 DEF DeliverToMatching, ServeNext
        <5> QED
          BY <5>2, <5>3
      <4> QED
        BY <3>1, <4>1, <4>2 DEF Distribute
    <3>2. CASE Refuse(e) \/ LogFailed(e)
      BY <1>1, <3>2 DEF Refuse, LogFailed, Return
    <3>3. CASE Publish(e) /\ e \in ReplayGrade
      BY <1>1, <3>3 DEF Publish
    <3>4. CASE Publish(e) /\ e \notin ReplayGrade
      BY <3>1, <3>4 DEF Publish
    <3>5. CASE LogWritten(e)
      BY <3>1, <3>5 DEF LogWritten
    <3>6. CASE \E ok \in BOOLEAN : Settle(e, ok)
      BY <1>1, <3>6 DEF Settle
    <3>7. CASE Resume(e)
      <4>1. CASE todo[e] = {}
        BY <1>1, <3>7, <4>1, CallMoves DEF Resume
      <4>2. CASE todo[e] # {}
        BY <1>1, <3>7, <4>2 DEF Resume, ServeNext
      <4> QED
        BY <4>1, <4>2
    <3> QED
      BY <1>7, <3>2, <3>3, <3>4, <3>5, <3>6, <3>7 DEF PublishStep
  <2>3. \A f \in Events : pc'[f] = "handling" => todo'[f] # {}
    BY <2>2 DEF TurnInv
  <2> QED
    BY <1>3, <2>1, <2>3 DEF TurnInv
<1> QED
  BY <1>4, <1>5, <1>6, <1>7 DEF Next

\* How many steps of its own a call may still take.
WorkLeft(e) == CASE pc[e] = "logging"  -> 2 * Cardinality(Subs) + 1
                 [] pc[e] = "handling" -> 2 * Cardinality(todo[e])
                 [] pc[e] = "settled"  -> 2 * Cardinality(todo[e]) + 1
                 [] OTHER              -> 0

UnderWay(e) == pc[e] \in {"logging", "handling", "settled"}

\* Whatever a call has got to, what it does next is determined: the handler whose
\* turn it is settles, or is called, or the delivery ends.
CallGoesOn(e) ==
  /\ pc[e] = "handling" => \E s \in todo[e] : IsFirst(s, todo[e])
  /\ pc[e] = "settled"  => todo[e] = {} \/ \E s \in todo[e] : IsFirst(s, todo[e])

\* Nobody else sets a call back, and each step of its own brings it nearer its end.
CallStep(e) ==
  UnderWay(e) => \/ UNCHANGED <<pc[e], todo[e]>>
                 \/ ~UnderWay(e)' \/ WorkLeft(e)' < WorkLeft(e)

LEMMA WorkBounds ==
  ASSUME BusInv, NEW e \in Events
  PROVE  /\ IsFiniteSet(todo[e]) /\ Cardinality(todo[e]) \in Nat
         /\ Cardinality(todo[e]) <= Cardinality(Subs) /\ Cardinality(Subs) \in Nat
<1>1. todo[e] \in SUBSET Subs /\ IsFiniteSet(Subs)
  BY BusAssumption DEF BusInv, TypeOK
<1> QED
  BY <1>1, FS_Subset, FS_CardinalityType

\* The steps of one call.
LEMMA OwnStep ==
  ASSUME BusInv, BusInv', NEW e \in Events, PublishStep(e)
  PROVE  /\ CallStep(e)
         /\ \A f \in Events \ {e} : UNCHANGED <<pc[f], todo[f]>>
<1>1. /\ pc \in [Events -> {"idle", "logging", "handling", "settled", "returned"}]
      /\ todo \in [Events -> SUBSET Subs]
  BY DEF BusInv, TypeOK
<1>2. /\ Cardinality(todo[e]) \in Nat /\ IsFiniteSet(todo[e]) /\ Cardinality(Subs) \in Nat
      /\ Cardinality(todo'[e]) \in Nat /\ Cardinality(todo'[e]) <= Cardinality(Subs)
  <2>1. /\ IsFiniteSet(todo'[e]) /\ Cardinality(todo'[e]) \in Nat
        /\ Cardinality(todo'[e]) <= Cardinality(Subs)
    <3>1. todo'[e] \in SUBSET Subs /\ IsFiniteSet(Subs)
      BY BusAssumption DEF BusInv, TypeOK
    <3> QED
      BY <3>1, FS_Subset, FS_CardinalityType
  <2> QED
    BY <2>1, WorkBounds
<1>3. CASE LogWritten(e)
  <2>1. pc[e] = "logging" /\ Distribute(e)
    BY <1>3 DEF LogWritten
  <2>2. /\ pc'[e] \in {"handling", "returned"}
        /\ \A f \in Events \ {e} : UNCHANGED <<pc[f], todo[f]>>
    <3>1. CASE StopInMiddleware(e)
      BY <1>1, <3>1 DEF StopInMiddleware, Return
    <3>2. CASE DeliverToMatching(e)
      <4>1. \A f \in Events \ {e} : UNCHANGED todo[f]
        BY <1>1, <3>2 DEF DeliverToMatching
      <4>2. \E p \in {"handling", "returned"} : pc' = [pc EXCEPT ![e] = p]
        BY <3>2, CallMoves DEF DeliverToMatching
      <4> QED
        BY <1>1, <4>1, <4>2
    <3> QED
      BY <2>1, <3>1, <3>2 DEF Distribute
  <2>3. pc'[e] = "handling" => WorkLeft(e)' < WorkLeft(e)
    BY <1>2, <2>1 DEF WorkLeft
  <2> QED
    BY <2>2, <2>3 DEF CallStep, UnderWay
<1>4. CASE LogFailed(e)
  BY <1>1, <1>4 DEF LogFailed, Return, CallStep, UnderWay, callVars
<1>5. CASE \E ok \in BOOLEAN : Settle(e, ok)
  <2>1. PICK s \in todo[e] : todo' = [todo EXCEPT ![e] = @ \ {s}]
    BY <1>5 DEF Settle
  <2>2. pc[e] = "handling" /\ pc' = [pc EXCEPT ![e] = "settled"]
    BY <1>5 DEF Settle
  <2>3. todo'[e] = todo[e] \ {s} /\ pc'[e] = "settled"
    BY <1>1, <2>1, <2>2
  <2>4. Cardinality(todo'[e]) = Cardinality(todo[e]) - 1
    BY <1>2, <2>1, <2>3, FS_RemoveElement
  <2>5. WorkLeft(e)' < WorkLeft(e)
    BY <1>2, <2>2, <2>3, <2>4 DEF WorkLeft
  <2> QED
    BY <1>1, <2>1, <2>2, <2>5 DEF CallStep
<1>6. CASE Resume(e)
  <2>1. pc[e] = "settled" /\ UNCHANGED todo
    BY <1>6 DEF Resume
  <2>2. \E p \in {"handling", "returned"} : pc' = [pc EXCEPT ![e] = p]
    BY <1>6, CallMoves DEF Resume
  <2>3. pc'[e] \in {"handling", "returned"}
    BY <1>1, <2>2
  <2>4. pc'[e] = "handling" => WorkLeft(e)' < WorkLeft(e)
    BY <1>2, <2>1 DEF WorkLeft
  <2> QED
    BY <1>1, <2>1, <2>2, <2>3, <2>4 DEF CallStep, UnderWay
<1> QED
  BY <1>3, <1>4, <1>5, <1>6 DEF PublishStep

LEMMA EveryCallStep ==
  ASSUME BusInv, BusInv', [Next]_vars, NEW e \in Events
  PROVE  CallStep(e)
<1> USE DEF controlVars, subVars, healthVars, callVars, logVars, drainVars, boundVars,
            historyVars
<1>1. ASSUME NEW f \in Events, PublishStep(f)
      PROVE  CallStep(e)
  BY <1>1, OwnStep DEF CallStep
<1>2. ASSUME NEW f \in Events, Refuse(f) \/ Publish(f)
      PROVE  CallStep(e)
  <2>1. pc[f] = "idle"
    BY <1>2 DEF Refuse, Publish
  <2>2. CASE f = e
    BY <2>1, <2>2 DEF CallStep, UnderWay
  <2>3. CASE f # e
    <3>1. /\ pc \in [Events -> {"idle", "logging", "handling", "settled", "returned"}]
          /\ todo \in [Events -> SUBSET Subs]
      BY DEF BusInv, TypeOK
    <3>2. \E p \in {"logging", "handling", "returned"} : pc' = [pc EXCEPT ![f] = p]
      BY <1>2, CallMoves DEF Refuse, Publish, Return
    <3>3. UNCHANGED todo \/ \E S : todo' = [todo EXCEPT ![f] = S]
      BY <1>2 DEF Refuse, Publish, Distribute, StopInMiddleware, DeliverToMatching
    <3>4. UNCHANGED <<pc[e], todo[e]>>
      BY <2>3, <3>1, <3>2, <3>3
    <3> QED
      BY <3>4 DEF CallStep
  <2> QED
    BY <2>2, <2>3
<1>3. CASE Lifecycle \/ TimerFires \/ UNCHANGED vars
           \/ \E s \in Subs : Subscribe(s) \/ Unsubscribe(s)
  BY <1>3 DEF CallStep, Lifecycle, Start, DrainBegin, DrainWrite, DrainEnd, ForceStop,
              TimerFires, Subscribe, Unsubscribe, vars
<1> QED
  BY <1>1, <1>2, <1>3 DEF Next

\* The half of "every publish() returns" that needs no fairness: whatever is
\* drained, stopped, started again, quarantined or unsubscribed meanwhile, a call
\* that is under way always has a next step, nobody sets it back, and after at
\* most 2 * Cardinality(Subs) + 1 steps of its own it has returned.  (That the log
\* write and the handlers end is the other half, PublishReturns.)
THEOREM PublishCountsDown ==
  Spec => /\ [](\A e \in Events : CallGoesOn(e))
          /\ [][\A e \in Events : CallStep(e)]_vars
<1>1. Init => TurnInv
  BY DEF Init, TurnInv, AgeInv
<1>2. BusInv /\ TurnInv /\ [Next]_vars => TurnInv'
  BY TurnStep
<1>3. BusInv /\ TurnInv => \A e \in Events : CallGoesOn(e)
  <2> SUFFICES ASSUME BusInv, TurnInv, NEW e \in Events PROVE CallGoesOn(e)
    OBVIOUS
  <2>1. todo[e] \in SUBSET (Subs \ fresh)
    BY DEF BusInv, CallInv
  <2>2. todo[e] # {} => \E s \in todo[e] : IsFirst(s, todo[e])
    BY <2>1, FirstExists DEF TurnInv
  <2> QED
    BY <2>2 DEF CallGoesOn, TurnInv
<1>4. BusInv /\ BusInv' /\ [Next]_vars => [\A e \in Events : CallStep(e)]_vars
  BY EveryCallStep
<1> QED
  BY <1>1, <1>2, <1>3, <1>4, BusInvariant, PTL DEF Spec
=============================================================================
