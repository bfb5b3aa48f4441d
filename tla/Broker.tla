------------------------------- MODULE Broker -------------------------------
(***************************************************************************)
(* What the event bus promises its publishers, its listeners and the UI,   *)
(* and nothing about how: no queue, no log, no subscription, no state of   *)
(* the bus, and not whether the publisher is answered before or after its  *)
(* event is delivered.  An event is on disk before anybody gets it if it   *)
(* has to be; a listener gets it once at most and never loses it; nobody   *)
(* gets an event whose publisher is told that it failed; and what is given *)
(* to the UI is shown, unless newer progress took its place first.         *)
(***************************************************************************)
EXTENDS Naturals, Sequences

CONSTANTS
  Events, Listeners,
  MustBeStored,   \* events that go to disk before anybody gets them
  Replaced        \* Events -> the events that one takes the place of

VARIABLES
  stage,      \* "idle", "underway", or what publish() answered
  disk,       \* events on disk
  inbox,      \* what each listener got, in order
  pending,    \* events given to the UI and not shown yet
  onScreen    \* events the UI was shown

vars == <<stage, disk, inbox, pending, onScreen>>

Init ==
  /\ stage = [e \in Events |-> "idle"]
  /\ disk = {}
  /\ inbox = [s \in Listeners |-> <<>>]
  /\ pending = {} /\ onScreen = {}

Got(s, e) == \E i \in DOMAIN inbox[s] : inbox[s][i] = e

NobodyGot(e) ==
  /\ \A s \in Listeners : ~Got(s, e)
  /\ e \notin pending \cup onScreen

Refuse(e) ==
  /\ stage[e] = "idle"
  /\ stage' = [stage EXCEPT ![e] = "refused"]
  /\ UNCHANGED <<disk, inbox, pending, onScreen>>

Fail(e) ==
  /\ stage[e] = "underway" /\ NobodyGot(e)
  /\ stage' = [stage EXCEPT ![e] = "failed"]
  /\ UNCHANGED <<disk, inbox, pending, onScreen>>

\* Some listeners get the event, none of which has it yet.
Serve(e) ==
  \E to \in SUBSET Listeners :
    /\ \A s \in to : ~Got(s, e)
    /\ inbox' = [s \in Listeners |-> IF s \in to THEN Append(inbox[s], e) ELSE inbox[s]]

ShowPending == pending' = {} /\ onScreen' = onScreen \cup pending

Show == ShowPending /\ UNCHANGED <<stage, disk, inbox>>

\* The event joins those that wait for the UI, less those whose place it takes;
\* they go on waiting or are shown.
GiveToUi(e) ==
  /\ e \notin pending \cup onScreen
  /\ \E gone \in SUBSET (pending \cap Replaced[e]) :
       LET now == (pending \ gone) \cup {e} IN
       \/ pending' = now /\ UNCHANGED onScreen
       \/ pending' = {} /\ onScreen' = onScreen \cup now

\* On disk in time, be it in this very step.
StoredFirst(e) ==
  /\ disk' \in {disk, disk \cup {e}}
  /\ e \in MustBeStored => e \in disk'

\* publish() begins.
Begin(e) ==
  /\ stage[e] = "idle"
  /\ stage' = [stage EXCEPT ![e] = "underway"]
  /\ UNCHANGED <<disk, inbox, pending, onScreen>>

\* What a publisher may be told once its event may be delivered: that it was
\* published, or whatever was thrown on the way.
Delivered == {"ok", "rejected"}

\* The publisher is answered, now or later; an answer stands.
Answer(e) ==
  \/ stage[e] \in {"idle", "underway"} /\ \E to \in {"underway"} \cup Delivered :
                                          stage' = [stage EXCEPT ![e] = to]
  \/ stage[e] \in Delivered /\ UNCHANGED stage

\* Some listeners, and perhaps the UI, get the event.
Deliver(e) ==
  /\ Answer(e) /\ StoredFirst(e) /\ Serve(e)
  /\ GiveToUi(e) \/ ShowPending \/ UNCHANGED <<pending, onScreen>>

\* An event that was published may go to disk at any time.
Store(e) ==
  /\ stage[e] # "idle"
  /\ disk' = disk \cup {e}
  /\ UNCHANGED <<stage, inbox, pending, onScreen>>

Next ==
  \/ \E e \in Events :
       Refuse(e) \/ Begin(e) \/ Deliver(e) \/ Fail(e) \/ Store(e)
  \/ Show

Spec == Init /\ [][Next]_vars
=============================================================================
