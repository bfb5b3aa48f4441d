---------------------------- MODULE MCBusScenes ----------------------------
(***************************************************************************)
(* Two scenes of the bus, of which a behaviour plays one, chosen at the    *)
(* start.  "delivery": two replay-grade events for two core subscribers    *)
(* and a plugin, over a forced stop and a restart.  "screen": an event     *)
(* that may not wait, one that may and two progress reports of one         *)
(* execution for the UI, over a drain.                                     *)
(***************************************************************************)
EXTENDS MCEventBus

CONSTANT memo   \* an ordinary event, not replay-grade

SceneWants ==
  [s \in Subs |-> CASE s \in {recorder, plugin} -> {note}
                    [] s = bridge              -> {merge, note}
                    [] OTHER                   -> Events \ {note}]

VARIABLE scene

\* Who is in a scene; those in "early" subscribe before anything happens.
Cast ==
  [delivery |-> [events |-> {merge, note}, subs |-> {recorder, bridge, plugin},
                 early |-> {recorder, bridge}, starts |-> 2, drains |-> 0],
   screen   |-> [events |-> {merge, memo, progress1, progress2}, subs |-> {ui},
                 early |-> {}, starts |-> 1, drains |-> 1]]

ScenesInit == Init /\ scene \in DOMAIN Cast

Ready(cast) == cast.early \cap fresh = {}

ScenesNext ==
  /\ UNCHANGED scene
  /\ LET cast == Cast[scene] IN
     \/ Ready(cast) /\ Lifecycle /\ starts' <= cast.starts /\ drains' <= cast.drains
     \/ \E s \in cast.subs : Subscribe(s) /\ (s = recorder \/ recorder \notin cast.subs \cap fresh)
     \/ \E s \in cast.subs : Ready(cast) /\ Unsubscribe(s)
     \/ \E e \in cast.events : Ready(cast) /\ (Refuse(e) \/ Publish(e) \/ PublishStep(e))
     \/ TimerFires

ScenesSpec == ScenesInit /\ [][ScenesNext]_<<vars, scene>> /\ Fairness
=============================================================================
