----------------------------- MODULE MCEventBus -----------------------------
(***************************************************************************)
(* The bus of EventBus on small instances: a merge event that the UI must  *)
(* see at once, a replay-grade event that may wait for the batch, and two  *)
(* progress reports of one execution; core, plugin and UI subscriptions.   *)
(***************************************************************************)
EXTENDS EventBus

CONSTANTS merge, note, progress1, progress2, recorder, bridge, plugin, ui,
          execution

MCKind == [s \in Subs |-> IF s = plugin THEN "plugin"
                          ELSE IF s = ui THEN "ui" ELSE "core"]
MCWants ==
  [s \in Subs |-> CASE s = recorder -> Events \cap {note}
                    [] s = bridge   -> Events \cap {merge, note, progress1}
                    [] OTHER        -> Events]
MCKeyOf ==
  [e \in Events |-> IF e \in {progress1, progress2} THEN execution ELSE NoKey]
MCSource == [e \in Events |-> IF e = merge THEN "MergeManager" ELSE "ExecutionEngine"]
=============================================================================
