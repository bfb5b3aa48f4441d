----------------------------- MODULE MCServices -----------------------------
(***************************************************************************)
(* The services of one page that share no state: the runtime, the artifact *)
(* managers, the session manager, a run of the refinement loop and the     *)
(* terminals.  A behaviour is one of them, chosen at the start, so that a  *)
(* run checks the sum of their state spaces and not the product.           *)
(***************************************************************************)
EXTENDS RuntimeLifecycle, ArtifactStore, SessionManager, RefinementLoop, TerminalRegistry

CONSTANT Parts    \* the components of which one behaviour may be

VARIABLE part

ServicesInit ==
  /\ part \in Parts
  /\ RuntimeInit /\ ArtifactInit /\ SessionInit /\ LoopInit /\ TerminalInit

\* The others stay as they are.
Rest(p) ==
  /\ UNCHANGED part
  /\ IF p = "runtime" THEN TRUE ELSE UNCHANGED runtimeVars
  /\ IF p = "artifacts" THEN TRUE ELSE UNCHANGED artifactVars
  /\ IF p = "sessions" THEN TRUE ELSE UNCHANGED sessionVars
  /\ IF p = "refinement" THEN TRUE ELSE UNCHANGED loopVars
  /\ IF p = "terminals" THEN TRUE ELSE UNCHANGED terminalVars

ServicesNext ==
  \/ part = "runtime" /\ RuntimeNext /\ Rest("runtime")
  \/ part = "artifacts" /\ ArtifactNext /\ Rest("artifacts")
  \/ part = "sessions" /\ SessionNext /\ Rest("sessions")
  \/ part = "refinement" /\ LoopNext /\ Rest("refinement")
  \/ part = "terminals" /\ TerminalNext /\ Rest("terminals")

servicesVars == <<part, runtimeVars, artifactVars, sessionVars, loopVars, terminalVars>>

\* Only the grace timer of the runtime is bound to go off.
ServicesSpec ==
  /\ ServicesInit /\ [][ServicesNext]_servicesVars
  /\ WF_runtimeVars(GraceExpires)

\* Service 1 is in the first phase; 2 and 3 are in the second and depend on it.
MCPhase == [s \in Services |-> IF s = 1 THEN 1 ELSE 2]
MCDependencies == [s \in Services |-> IF s = 1 THEN {} ELSE {1}]

\* Two views of the first node, one of the second.
MCNodeOf == [v \in Views |-> IF v = 3 THEN 2 ELSE 1]
=============================================================================
