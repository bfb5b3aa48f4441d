-------------------------- MODULE RuntimeLifecycle --------------------------
(***************************************************************************)
(* The runtime (src/runtime): a state machine of ten states, a registry of *)
(* services that start in phases, a shutdown that races a grace timer and  *)
(* a recovery that reloads failed services.                                *)
(*                                                                         *)
(* start(), stop() and recover() are async.  What one of them does between *)
(* two awaits is one action; while it waits for the hook of a service, the *)
(* other two, pause() and resume() may run.  A stop that lost its race     *)
(* against the timer goes on stopping services, so there may be more than  *)
(* one stopping loop.                                                      *)
(***************************************************************************)
EXTENDS Integers, FiniteSetsExt

CONSTANTS
  Services,             \* service ids, in registration order
  LastPhase,            \* startup phases are 1..LastPhase
  Phase,                \* Services -> 1..LastPhase
  Dependencies,         \* Services -> SUBSET Services
  Required,             \* services without which the runtime must not run
  SafetyCritical,       \* the safety-critical list of runtime-health.ts
  Hooked,               \* services with a lifecycle hook
  Throwing,             \* services whose hook may reject its promise
  MaxRecoveryAttempts,  \* config.maxRecoveryAttempts
  MaxBoots,             \* bound: calls of start() that are let in
  MaxStops              \* bound: calls of stop() that are let in

ASSUME RuntimeAssumption ==
  /\ Services \subseteq Nat /\ IsFiniteSet(Services)
  /\ LastPhase \in Nat \ {0}
  /\ Phase \in [Services -> 1..LastPhase]
  /\ Dependencies \in [Services -> SUBSET Services]
  /\ Required \subseteq Services /\ SafetyCritical \subseteq Services
  /\ Throwing \subseteq Hooked /\ Hooked \subseteq Services
  /\ MaxRecoveryAttempts \in Nat /\ MaxBoots \in Nat /\ MaxStops \in Nat

VARIABLES
  machine,     \* RuntimeStateMachine.state
  service,     \* the state of each registry entry
  boot,        \* the start() call under way
  shutdown,    \* shutdownPromise: no stop() under way, a graceful or a forced one
  loops,       \* every stopServices() loop, by the number of its stop() call
  recovery,    \* the recover() call under way
  attempts,    \* recoveryAttempts
  checking,    \* the health check timer is set
  boots, stops \* bound counters; stops is the number of the last stop()

runtimeVars == <<machine, service, boot, shutdown, loops, recovery, attempts,
                 checking, boots, stops>>

RuntimeStates == {"uninitialized", "starting", "ready", "running", "paused",
                  "degraded", "stopping", "stopped", "failed", "recovery"}
ServiceStates == {"unregistered", "registered", "starting", "running",
                  "stopped", "failed"}

Transitions ==
  [uninitialized |-> {"starting", "failed"},
   starting      |-> {"ready", "degraded", "failed"},
   ready         |-> {"running", "paused", "stopping", "degraded"},
   running       |-> {"paused", "degraded", "stopping", "failed", "recovery"},
   paused        |-> {"running", "stopping", "degraded"},
   degraded      |-> {"running", "stopping", "failed", "recovery"},
   stopping      |-> {"stopped", "failed"},
   stopped       |-> {"starting"},
   failed        |-> {"recovery", "starting", "stopped"},
   recovery      |-> {"running", "degraded", "failed", "stopping"}]

\* transition() leaves the state alone when the table does not allow the step;
\* most callers ignore its result.
After(from, to) == IF to \in Transitions[from] THEN to ELSE from

\* "alone" is history: nothing else was under way when the call began.
NoBoot     == [at |-> "none", phase |-> 0, waiting |-> {}, failed |-> {},
               alone |-> FALSE]
NoLoop     == [phase |-> 0, waiting |-> {}, alone |-> FALSE]
NoRecovery == [at |-> "none", todo |-> {}, chosen |-> {}]

RuntimeInit ==
  /\ machine = "uninitialized"
  /\ service = [s \in Services |-> "unregistered"]
  /\ boot = NoBoot /\ shutdown = "none" /\ recovery = NoRecovery
  /\ loops = [i \in 1..MaxStops |-> NoLoop]
  /\ attempts = 0 /\ checking = FALSE
  /\ boots = 0 /\ stops = 0

Quiet ==
  /\ boot = NoBoot /\ recovery = NoRecovery
  /\ \A i \in 1..MaxStops : loops[i].phase = 0

InPhase(p) == {s \in Services : Phase[s] = p}

\* What a hook's promise may come to; a service without a hook always succeeds.
Outcomes(s) ==
  IF s \in Throwing THEN {"ok", "error", "throws"}
  ELSE IF s \in Hooked THEN {"ok", "error"} ELSE {"ok"}

-----------------------------------------------------------------------------
(* start() *)

BeginPhaseUnawaited(p, states) ==   \* mutant: the hooks are not awaited
  /\ service' = [s \in Services |->
                   IF Phase[s] # p THEN states[s]
                   ELSE IF s \in Hooked THEN "starting" ELSE "running"]
  /\ boot' = [boot EXCEPT !.at = "phase", !.phase = p, !.failed = {}]
\* The services of a phase are started together and waited for together.
BeginPhase(p, states) ==
  /\ service' = [s \in Services |->
                   IF Phase[s] # p THEN states[s]
                   ELSE IF s \in Hooked THEN "starting" ELSE "running"]
  /\ boot' = [boot EXCEPT !.at = "phase", !.phase = p, !.failed = {},
                          !.waiting = InPhase(p) \cap Hooked]

Start ==
  /\ boot = NoBoot                           \* bound: one start() at a time
  /\ boots < MaxBoots
  /\ machine \in {"uninitialized", "stopped"}
  /\ machine' = "starting"
  /\ boot' = [NoBoot EXCEPT !.at = "config", !.alone = Quiet]
  /\ boots' = boots + 1
  /\ UNCHANGED <<service, shutdown, loops, recovery, attempts, checking, stops>>

ConfigFails ==
  /\ boot.at = "config"
  /\ machine' = After(machine, "failed")
  /\ boot' = NoBoot
  /\ UNCHANGED <<service, shutdown, loops, recovery, attempts, checking,
                 boots, stops>>

\* The registry keeps the entries, and their states, of an earlier start.
ConfigLoaded ==
  /\ boot.at = "config"
  /\ BeginPhase(1, [s \in Services |->
                      IF service[s] = "unregistered" THEN "registered"
                      ELSE service[s]])
  /\ UNCHANGED <<machine, shutdown, loops, recovery, attempts, checking,
                 boots, stops>>

HookStarted(s, outcome) ==
  /\ s \in boot.waiting
  /\ boot' = [boot EXCEPT !.waiting = @ \ {s},
                          !.failed = IF outcome = "ok" THEN @ ELSE @ \cup {s}]
  /\ service' = IF outcome = "ok" THEN [service EXCEPT ![s] = "running"]
                ELSE service
  /\ UNCHANGED <<machine, shutdown, loops, recovery, attempts, checking,
                 boots, stops>>

\* The failed services the loop over the results reaches: it returns at the
\* first required one.
Seen(failed) ==
  {s \in failed : \A r \in failed \cap Required : s <= r}

PhaseSettled ==
  /\ boot.at = "phase" /\ boot.waiting = {}
  /\ LET marked == [s \in Services |-> IF s \in Seen(boot.failed) THEN "failed"
                                       ELSE service[s]]
     IN \/ /\ boot.failed \cap Required # {}
           /\ service' = marked
           /\ machine' = After(machine, "failed")
           /\ boot' = NoBoot
           /\ UNCHANGED checking
        \/ /\ boot.failed \cap Required = {}
           /\ boot.phase < LastPhase
           /\ BeginPhase(boot.phase + 1, marked)
           /\ UNCHANGED <<machine, checking>>
        \/ /\ boot.failed \cap Required = {}
           /\ boot.phase = LastPhase
           /\ service' = marked
           /\ machine' = After(After(machine, "ready"), "running")
           /\ boot' = NoBoot
           /\ checking' = TRUE
  /\ UNCHANGED <<shutdown, loops, recovery, attempts, boots, stops>>

-----------------------------------------------------------------------------
(* pause(), resume(): running to paused and back; a degraded runtime is left *)
(* as it is *)

Pause ==
  /\ machine = "running"
  /\ machine' = "paused"
  /\ UNCHANGED <<service, boot, shutdown, loops, recovery, attempts, checking,
                 boots, stops>>

ResumeRuntime ==
  /\ machine = "paused"
  /\ machine' = "running"
  /\ UNCHANGED <<service, boot, shutdown, loops, recovery, attempts, checking,
                 boots, stops>>

-----------------------------------------------------------------------------
(* stop() *)

Registered == {s \in Services : service[s] # "unregistered"}

StopPhaseUnawaited(i, p, alone) ==  \* mutant: the hooks are not awaited
  /\ loops' = [loops EXCEPT ![i] = [phase |-> p, alone |-> alone, waiting |-> {}]]
  /\ service' = [s \in Services |->
                   IF s \in (InPhase(p) \cap Registered) \ Hooked THEN "stopped"
                   ELSE service[s]]
\* Loop i begins to stop the services of phase p.
StopPhase(i, p, alone) ==
  /\ loops' = [loops EXCEPT ![i] = [phase |-> p, alone |-> alone,
                                    waiting |-> InPhase(p) \cap Registered \cap Hooked]]
  /\ service' = [s \in Services |->
                   IF s \in (InPhase(p) \cap Registered) \ Hooked THEN "stopped"
                   ELSE service[s]]

\* The health checks go even when the shutdown is refused.
StopRefused ==
  /\ \/ shutdown # "none"
     \/ "stopping" \notin Transitions[machine]
  /\ checking
  /\ checking' = FALSE
  /\ UNCHANGED <<machine, service, boot, shutdown, loops, recovery, attempts,
                 boots, stops>>

\* The loop takes its phases from the registry when it begins.  The registry is
\* empty when a start() that could not load its configuration was recovered from:
\* then there is nothing to stop, and the loop is at its end.
Stop(mode) ==
  /\ stops < MaxStops
  /\ shutdown = "none"
  /\ "stopping" \in Transitions[machine]
  /\ machine' = "stopping"
  /\ shutdown' = mode
  /\ checking' = FALSE
  /\ stops' = stops + 1
  /\ StopPhase(stops + 1, IF Registered = {} THEN 1 ELSE LastPhase, Quiet)
  /\ UNCHANGED <<boot, recovery, attempts, boots>>

\* A hook that throws leaves its service as it was; the loop does not notice.
HookStopped(i, s, outcome) ==
  /\ s \in loops[i].waiting
  /\ loops' = [loops EXCEPT ![i].waiting = @ \ {s}]
  /\ service' = IF outcome = "throws" THEN service
                ELSE [service EXCEPT ![s] = "stopped"]
  /\ UNCHANGED <<machine, boot, shutdown, recovery, attempts, checking,
                 boots, stops>>

LoopNextPhase(i) ==
  /\ loops[i].phase > 1 /\ loops[i].waiting = {}
  /\ StopPhase(i, loops[i].phase - 1, loops[i].alone)
  /\ UNCHANGED <<machine, boot, shutdown, recovery, attempts, checking,
                 boots, stops>>

EndShutdownUnmarked ==              \* mutant: the state machine is not told
  shutdown' = "none" /\ UNCHANGED machine
\* The race is over: executeShutdown() asks for "stopped" and stop() returns.
EndShutdown ==
  /\ machine' = After(machine, "stopped")
  /\ shutdown' = "none"

LoopEnds(i) ==
  /\ loops[i].phase = 1 /\ loops[i].waiting = {}
  /\ loops' = [loops EXCEPT ![i] = NoLoop]
  /\ IF shutdown # "none" /\ i = stops THEN EndShutdown
     ELSE UNCHANGED <<machine, shutdown>>
  /\ UNCHANGED <<service, boot, recovery, attempts, checking, boots, stops>>

GraceExpires ==
  /\ shutdown = "graceful"
  /\ EndShutdown
  /\ UNCHANGED <<service, boot, loops, recovery, attempts, checking, boots, stops>>

-----------------------------------------------------------------------------
(* recover() *)

Healthy(states, s) == states[s] = "running"

DependenciesReady(states, s) == \A d \in Dependencies[s] : Healthy(states, d)

AllRequiredHealthy(states) ==
  \A s \in Required : states[s] # "unregistered" => Healthy(states, s)

\* The loop over the failed services goes on: those whose dependencies are not
\* ready are passed over.  m and n are the state and the count it began with.
Proceed(states, todo, m, n) ==
  LET able == {s \in todo : DependenciesReady(states, s)}
  IN \/ /\ able # {}
        /\ recovery' = [at |-> "stop", chosen |-> {Min(able)},
                        todo |-> {s \in todo : s > Min(able)}]
        /\ machine' = m /\ attempts' = n
     \/ /\ able = {}
        /\ recovery' = NoRecovery
        /\ IF AllRequiredHealthy(states)
           THEN machine' = After(m, "running") /\ attempts' = 0
           ELSE machine' = After(m, "degraded") /\ attempts' = n

FailedRequired == {s \in Required : service[s] = "failed"}

RecoverUncapped ==                  \* mutant: the cap on attempts is not looked at
  /\ recovery = NoRecovery /\ "recovery" \in Transitions[machine]
  /\ Proceed(service, FailedRequired, "recovery", attempts + 1)
  /\ UNCHANGED <<service, boot, shutdown, loops, checking, boots, stops>>
\* An attempt is counted before the state machine is asked.
Recover ==
  /\ recovery = NoRecovery                   \* bound: one recover() at a time
  /\ attempts < MaxRecoveryAttempts
  /\ \/ /\ "recovery" \notin Transitions[machine]
        /\ attempts' = attempts + 1
        /\ UNCHANGED <<machine, recovery>>
     \/ /\ "recovery" \in Transitions[machine]
        /\ FailedRequired = {}
        /\ attempts' = attempts + 1
        /\ machine' = "running"
        /\ UNCHANGED recovery
     \/ /\ "recovery" \in Transitions[machine]
        /\ FailedRequired # {}
        /\ Proceed(service, FailedRequired, "recovery", attempts + 1)
  /\ UNCHANGED <<service, boot, shutdown, loops, checking, boots, stops>>

\* reloadService(): the service is stopped, then started.  A hook that throws
\* ends recover() itself and leaves the state machine in "recovery".
ReloadStopped(s, outcome) ==
  /\ recovery.at = "stop" /\ s \in recovery.chosen
  /\ IF outcome = "throws"
     THEN recovery' = NoRecovery /\ UNCHANGED service
     ELSE /\ recovery' = [recovery EXCEPT !.at = "start"]
          /\ service' = [service EXCEPT ![s] = "starting"]
  /\ UNCHANGED <<machine, boot, shutdown, loops, attempts, checking, boots, stops>>

\* A failed reload records the error; the service stays "starting".
ReloadStarted(s, outcome) ==
  /\ recovery.at = "start" /\ s \in recovery.chosen
  /\ service' = IF outcome = "ok" THEN [service EXCEPT ![s] = "running"]
                ELSE service
  /\ IF outcome = "throws"
     THEN recovery' = NoRecovery /\ UNCHANGED <<machine, attempts>>
     ELSE Proceed(service', recovery.todo, machine, attempts)
  /\ UNCHANGED <<boot, shutdown, loops, checking, boots, stops>>

-----------------------------------------------------------------------------
HookAnswers ==
  \E s \in Services : \E outcome \in Outcomes(s) :
    \/ HookStarted(s, outcome)
    \/ \E i \in 1..MaxStops : HookStopped(i, s, outcome)
    \/ ReloadStopped(s, outcome)
    \/ ReloadStarted(s, outcome)

LoopAdvances == \E i \in 1..MaxStops : LoopNextPhase(i) \/ LoopEnds(i)

RuntimeCalls ==
  \/ Start \/ Pause \/ ResumeRuntime \/ Recover
  \/ StopRefused \/ \E mode \in {"graceful", "forced"} : Stop(mode)

RuntimeNext ==
  \/ RuntimeCalls
  \/ ConfigFails \/ ConfigLoaded \/ PhaseSettled
  \/ LoopAdvances \/ GraceExpires
  \/ HookAnswers

RuntimeSpec == RuntimeInit /\ [][RuntimeNext]_runtimeVars

\* The grace timer goes off, whatever the hooks do; no hook is bound to answer.
RuntimeFairSpec == RuntimeSpec /\ WF_runtimeVars(GraceExpires)

\* computeOverallHealth().
OverallHealth ==
  LET down == {s \in Registered : ~Healthy(service, s)}
  IN IF FailedRequired # {} THEN "failed"
     ELSE IF down \cap Required \cap SafetyCritical # {} THEN "unsafe"
     ELSE IF \E s \in down : s \in Required \/ service[s] # "registered"
          THEN "degraded" ELSE "healthy"

-----------------------------------------------------------------------------
(* Properties *)

RuntimeTypeOK ==
  /\ machine \in RuntimeStates
  /\ service \in [Services -> ServiceStates]
  /\ boot \in [at : {"none", "config", "phase"}, phase : 0..LastPhase,
               waiting : SUBSET Services, failed : SUBSET Services,
               alone : BOOLEAN]
  /\ shutdown \in {"none", "graceful", "forced"}
  /\ loops \in [1..MaxStops -> [phase : 0..LastPhase, alone : BOOLEAN,
                                waiting : SUBSET Services]]
  /\ recovery \in [at : {"none", "stop", "start"}, todo : SUBSET Services,
                   chosen : SUBSET Services]
  /\ attempts \in 0..MaxRecoveryAttempts
  /\ checking \in BOOLEAN
  /\ boots \in 0..MaxBoots /\ stops \in 0..MaxStops

\* A start() that nothing else overlapped keeps the phases apart: while a phase
\* is being started every required service of the phases before it runs.
BootInOrder ==
  boot.at = "phase" /\ boot.alone =>
    \A s \in Required : Phase[s] < boot.phase => service[s] = "running"

\* start() leaves the runtime running only with every required service up.
ReadyMeansServed ==
  [][boot.alone /\ boot' = NoBoot /\ machine' = "running" =>
       \A s \in Required : service'[s] = "running"]_runtimeVars

Down == {"stopped", "unregistered"}

\* A shutdown that nothing else overlapped goes down in reverse: the services of
\* the later phases are stopped before an earlier phase is touched.
DownInReverse ==
  shutdown # "none" /\ loops[stops].alone =>
    \A s \in Services \ Throwing :
      Phase[s] > loops[stops].phase => service[s] \in Down

\* When such a shutdown ends by itself, and not by the timer, no service is up.
StoppedIsDown ==
  [][shutdown # "none" /\ loops[stops].alone /\ loops'[stops] = NoLoop =>
       \A s \in Services \ Throwing : service'[s] \in Down]_runtimeVars

NeverRunsUnsafe ==
  machine = "running" => OverallHealth \notin {"unsafe", "failed"}

\* A graceful stop ends in "stopped" even when hooks never answer, if nothing
\* else was under way when it began.
GracefulStopEnds ==
  (shutdown = "graceful" /\ loops[stops].alone) ~> machine = "stopped"

=============================================================================
