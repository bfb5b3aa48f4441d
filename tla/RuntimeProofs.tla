---------------------------- MODULE RuntimeProofs ----------------------------
(* Proofs about RuntimeLifecycle, for every set of services and every       *)
(* arrangement of them in phases.                                           *)
EXTENDS RuntimeLifecycle, WellFoundedInduction, TLAPS

-----------------------------------------------------------------------------
(* The invariant *)

\* A loop that is over waits for nothing; one that is not begun is over.
LoopsIdle ==
  \A i \in 1..MaxStops :
    /\ loops[i].phase = 0 => loops[i] = NoLoop
    /\ i > stops => loops[i] = NoLoop
    /\ loops[i].waiting \subseteq InPhase(loops[i].phase)

\* stop() is under way only while its own loop is.
ShutdownHasLoop == shutdown # "none" => stops >= 1 /\ loops[stops].phase >= 1

\* Nothing can begin beside a start() that began with nothing under way.
BootUndisturbed ==
  boot.alone =>
    /\ boot.at \in {"config", "phase"}
    /\ machine = "starting" /\ recovery = NoRecovery /\ shutdown = "none"
    /\ \A i \in 1..MaxStops : loops[i] = NoLoop
    /\ boot.at = "config" => boot.waiting = {}

\* How far a start() that nothing overlapped has come.
BootProgress ==
  boot.at = "phase" /\ boot.alone =>
    /\ boot.phase \in 1..LastPhase
    /\ boot.waiting \subseteq InPhase(boot.phase)
    /\ boot.failed \subseteq InPhase(boot.phase)
    /\ \A s \in Required : Phase[s] < boot.phase => service[s] = "running"
    /\ \A s \in InPhase(boot.phase) \ (boot.waiting \cup boot.failed) : service[s] = "running"

\* Nothing can begin beside a stop() that began with nothing under way.
StopUndisturbed ==
  shutdown # "none" /\ loops[stops].alone =>
    /\ machine = "stopping" /\ boot = NoBoot /\ recovery = NoRecovery
    /\ \A i \in 1..MaxStops : i # stops => loops[i] = NoLoop

\* How far a stop() that nothing overlapped has come.
StopProgress ==
  shutdown # "none" /\ loops[stops].alone =>
    \A s \in Services \ Throwing :
      Phase[s] > loops[stops].phase
      \/ (Phase[s] = loops[stops].phase /\ s \notin loops[stops].waiting)
        => service[s] \in Down

RuntimeInv ==
  /\ RuntimeTypeOK /\ LoopsIdle /\ ShutdownHasLoop
  /\ BootUndisturbed /\ BootProgress /\ StopUndisturbed /\ StopProgress

\* A set of service ids has a least.
LEMMA MinOfNats ==
  ASSUME NEW S \in SUBSET Nat, S # {}
  PROVE  Min(S) \in S
<1> DEFINE Less == {ss \in Nat \X Nat : ss[1] < ss[2]}
<1>1. IsWellFoundedOn(Less, Nat)
  BY NatLessThanWellFounded DEF OpToRel
<1> HIDE DEF Less
<1>2. \E x \in S : \A y \in S : ~(<<y, x>> \in Less)
  BY <1>1, WFMin
<1>3. PICK x \in S : \A y \in S : ~(<<y, x>> \in Less)
  BY <1>2
<1>4. ASSUME NEW y \in S PROVE x <= y
  <2>1. <<y, x>> \in Nat \X Nat /\ <<y, x>>[1] = y /\ <<y, x>>[2] = x
    OBVIOUS
  <2>2. y < x => <<y, x>> \in Less
    BY <2>1 DEF Less
  <2> QED
    BY <1>3, <2>1, <2>2
<1> QED
  BY <1>4 DEF Min

\* The state machine goes from state to state.
LEMMA AfterType ==
  ASSUME NEW from \in RuntimeStates, NEW to \in RuntimeStates
  PROVE  After(from, to) \in RuntimeStates
BY DEF After

LEMMA TransitionsOf ==
  /\ "stopping" \notin Transitions["starting"] /\ "recovery" \notin Transitions["starting"]
  /\ "failed" \in Transitions["starting"]
  /\ "stopping" \notin Transitions["stopping"] /\ "recovery" \notin Transitions["stopping"]
BY DEF Transitions

LEMMA RuntimeInitInv == RuntimeInit => RuntimeInv
<1> SUFFICES ASSUME RuntimeInit PROVE RuntimeInv
  OBVIOUS
<1> USE RuntimeAssumption DEF RuntimeInit, NoBoot, NoLoop, NoRecovery
<1>1. RuntimeTypeOK
  <2>0. service \in [Services -> ServiceStates]
    BY DEF ServiceStates
  <2>5. checking \in BOOLEAN
    OBVIOUS
  <2>1. /\ machine \in RuntimeStates
        /\ shutdown \in {"none", "graceful", "forced"}
        /\ attempts \in 0..MaxRecoveryAttempts
        /\ boots \in 0..MaxBoots /\ stops \in 0..MaxStops
    BY DEF RuntimeStates
  <2>2. /\ boot \in [at : {"none", "config", "phase"}, phase : 0..LastPhase,
                     waiting : SUBSET Services, failed : SUBSET Services, alone : BOOLEAN]
        /\ recovery \in [at : {"none", "stop", "start"}, todo : SUBSET Services,
                         chosen : SUBSET Services]
    OBVIOUS
  <2>3. NoLoop \in [phase : 0..LastPhase, alone : BOOLEAN, waiting : SUBSET Services]
    OBVIOUS
  <2>4. loops \in [1..MaxStops -> [phase : 0..LastPhase, alone : BOOLEAN,
                                  waiting : SUBSET Services]]
    BY <2>3
  <2> QED
    BY <2>0, <2>1, <2>2, <2>4, <2>5 DEF RuntimeTypeOK
<1>2. LoopsIdle /\ ShutdownHasLoop
  BY DEF LoopsIdle, ShutdownHasLoop
<1>3. BootUndisturbed /\ BootProgress /\ StopUndisturbed /\ StopProgress
  BY DEF BootUndisturbed, BootProgress, StopUndisturbed, StopProgress
<1> QED
  BY <1>1, <1>2, <1>3 DEF RuntimeInv

-----------------------------------------------------------------------------
(* start() *)

LEMMA StartInv == ASSUME RuntimeInv, Start PROVE RuntimeInv'
<1> USE RuntimeAssumption DEF RuntimeInv, Start
<1>1. RuntimeTypeOK'
  <2>1. boot' \in [at : {"none", "config", "phase"}, phase : 0..LastPhase,
                  waiting : SUBSET Services, failed : SUBSET Services, alone : BOOLEAN]
    <3>1. Quiet \in BOOLEAN
      BY DEF Quiet
    <3>2. boot' = [at |-> "config", phase |-> 0, waiting |-> {}, failed |-> {},
                   alone |-> Quiet]
      BY DEF NoBoot
    <3> QED
      BY <3>1, <3>2
  <2>2. machine' \in RuntimeStates /\ boots' \in 0..MaxBoots
    BY DEF RuntimeTypeOK, RuntimeStates
  <2> QED
    BY <2>1, <2>2 DEF RuntimeTypeOK
<1>2. LoopsIdle' /\ ShutdownHasLoop'
  BY DEF LoopsIdle, ShutdownHasLoop
<1>3. BootUndisturbed'
  <2> SUFFICES ASSUME Quiet PROVE BootUndisturbed'
    BY DEF BootUndisturbed, NoBoot, RuntimeTypeOK
  <2>1. recovery = NoRecovery /\ \A i \in 1..MaxStops : loops[i] = NoLoop
    BY DEF Quiet, LoopsIdle
  <2>2. shutdown = "none"
    BY <2>1 DEF ShutdownHasLoop, RuntimeTypeOK, NoLoop
  <2> QED
    BY <2>1, <2>2 DEF BootUndisturbed, NoBoot
<1>4. BootProgress' /\ StopUndisturbed' /\ StopProgress'
  BY DEF BootProgress, StopUndisturbed, StopProgress, NoBoot
<1> QED
  BY <1>1, <1>2, <1>3, <1>4

LEMMA ConfigFailsInv == ASSUME RuntimeInv, ConfigFails PROVE RuntimeInv'
<1> USE RuntimeAssumption DEF RuntimeInv, ConfigFails
<1>1. RuntimeTypeOK'
  BY AfterType DEF RuntimeTypeOK, RuntimeStates, NoBoot
<1>2. LoopsIdle' /\ ShutdownHasLoop' /\ BootUndisturbed' /\ BootProgress'
  BY DEF LoopsIdle, ShutdownHasLoop, BootUndisturbed, BootProgress, NoBoot
<1>3. StopUndisturbed' /\ StopProgress'
  BY DEF StopUndisturbed, StopProgress, NoBoot
<1> QED
  BY <1>1, <1>2, <1>3

\* What BeginPhase() does, for a start() that nothing overlapped.
LEMMA BeginPhaseEffect ==
  ASSUME NEW p \in 1..LastPhase, NEW states \in [Services -> ServiceStates],
         BeginPhase(p, states),
         boot \in [at : {"none", "config", "phase"}, phase : 0..LastPhase,
                   waiting : SUBSET Services, failed : SUBSET Services, alone : BOOLEAN],
         \A s \in Required : Phase[s] < p => states[s] = "running"
  PROVE  /\ service' \in [Services -> ServiceStates]
         /\ boot' = [at |-> "phase", phase |-> p, failed |-> {}, alone |-> boot.alone,
                     waiting |-> InPhase(p) \cap Hooked]
         /\ boot'.waiting \subseteq InPhase(p)
         /\ \A s \in Required : Phase[s] < p => service'[s] = "running"
         /\ \A s \in InPhase(p) \ boot'.waiting : service'[s] = "running"
<1> USE RuntimeAssumption
<1>0. /\ service' = [s \in Services |-> IF Phase[s] # p THEN states[s]
                                       ELSE IF s \in Hooked THEN "starting" ELSE "running"]
      /\ boot' = [boot EXCEPT !.at = "phase", !.phase = p, !.failed = {},
                             !.waiting = InPhase(p) \cap Hooked]
  BY DEF BeginPhase
<1>1. service' \in [Services -> ServiceStates]
  BY <1>0 DEF ServiceStates
<1>2. boot' = [at |-> "phase", phase |-> p, failed |-> {}, alone |-> boot.alone,
               waiting |-> InPhase(p) \cap Hooked]
  BY <1>0
<1>3. \A s \in Required : Phase[s] < p => service'[s] = "running"
  BY <1>0
<1>4. boot'.waiting = InPhase(p) \cap Hooked
  BY <1>2
<1>5. ASSUME NEW s \in InPhase(p), s \notin Hooked PROVE service'[s] = "running"
  BY <1>0, <1>5 DEF InPhase
<1> QED
  BY <1>1, <1>2, <1>3, <1>4, <1>5

\* The facts that hold of a step that moves boot and service only, from a start()
\* under way to the same one.
LEMMA BootStepInv ==
  ASSUME RuntimeInv, boot.at # "none",
         NEW states \in [Services -> ServiceStates], service' = states,
         boot' \in [at : {"phase"}, phase : 0..LastPhase, waiting : SUBSET Services,
                    failed : SUBSET Services, alone : {boot.alone}],
         BootProgress',
         UNCHANGED <<machine, shutdown, loops, recovery, attempts, checking, boots, stops>>
  PROVE  RuntimeInv'
<1> USE RuntimeAssumption DEF RuntimeInv
<1>1. boot # NoBoot
  BY DEF NoBoot
<1>2. RuntimeTypeOK'
  BY DEF RuntimeTypeOK
<1>3. LoopsIdle' /\ ShutdownHasLoop' /\ BootUndisturbed'
  BY DEF LoopsIdle, ShutdownHasLoop, BootUndisturbed
<1>4. StopUndisturbed' /\ StopProgress'
  BY <1>1 DEF StopUndisturbed, StopProgress
<1> QED
  BY <1>2, <1>3, <1>4

LEMMA ConfigLoadedInv == ASSUME RuntimeInv, ConfigLoaded PROVE RuntimeInv'
<1> USE RuntimeAssumption
<1> DEFINE states == [s \in Services |-> IF service[s] = "unregistered" THEN "registered"
                                         ELSE service[s]]
<1>1. /\ boot.at = "config" /\ BeginPhase(1, states)
      /\ UNCHANGED <<machine, shutdown, loops, recovery, attempts, checking, boots, stops>>
  BY DEF ConfigLoaded
<1>2. /\ states \in [Services -> ServiceStates] /\ 1 \in 1..LastPhase
      /\ boot \in [at : {"none", "config", "phase"}, phase : 0..LastPhase,
                   waiting : SUBSET Services, failed : SUBSET Services, alone : BOOLEAN]
  BY DEF RuntimeInv, RuntimeTypeOK, ServiceStates
<1>3. \A s \in Required : ~(Phase[s] < 1)
  OBVIOUS
<1> HIDE DEF states
<1>4. /\ service' \in [Services -> ServiceStates]
      /\ boot' = [at |-> "phase", phase |-> 1, failed |-> {}, alone |-> boot.alone,
                  waiting |-> InPhase(1) \cap Hooked]
      /\ boot'.waiting \subseteq InPhase(1)
      /\ \A s \in Required : Phase[s] < 1 => service'[s] = "running"
      /\ \A s \in InPhase(1) \ boot'.waiting : service'[s] = "running"
  BY <1>1, <1>2, <1>3, BeginPhaseEffect
<1>5. BootProgress'
  BY <1>2, <1>4 DEF BootProgress, InPhase
<1>6. boot' \in [at : {"phase"}, phase : 0..LastPhase, waiting : SUBSET Services,
                 failed : SUBSET Services, alone : {boot.alone}]
  BY <1>2, <1>4 DEF InPhase
<1> QED
  BY <1>1, <1>4, <1>5, <1>6, BootStepInv

LEMMA HookStartedInv ==
  ASSUME RuntimeInv, NEW s \in Services, NEW outcome, HookStarted(s, outcome)
  PROVE  RuntimeInv'
<1> USE RuntimeAssumption
<1>1. /\ s \in boot.waiting
      /\ boot' = [boot EXCEPT !.waiting = @ \ {s},
                              !.failed = IF outcome = "ok" THEN @ ELSE @ \cup {s}]
      /\ service' = IF outcome = "ok" THEN [service EXCEPT ![s] = "running"] ELSE service
      /\ UNCHANGED <<machine, shutdown, loops, recovery, attempts, checking, boots, stops>>
  BY DEF HookStarted
<1>2. /\ service \in [Services -> ServiceStates]
      /\ boot \in [at : {"none", "config", "phase"}, phase : 0..LastPhase,
                   waiting : SUBSET Services, failed : SUBSET Services, alone : BOOLEAN]
  BY DEF RuntimeInv, RuntimeTypeOK
<1>3. /\ boot'.at = boot.at /\ boot'.phase = boot.phase /\ boot'.alone = boot.alone
      /\ boot'.waiting = boot.waiting \ {s}
      /\ boot'.failed = IF outcome = "ok" THEN boot.failed ELSE boot.failed \cup {s}
      /\ boot' \in [at : {"none", "config", "phase"}, phase : 0..LastPhase,
                    waiting : SUBSET Services, failed : SUBSET Services, alone : BOOLEAN]
  BY <1>1, <1>2
<1>4. /\ service' \in [Services -> ServiceStates]
      /\ \A r \in Services : service'[r] = IF outcome = "ok" /\ r = s THEN "running" ELSE service[r]
  BY <1>1, <1>2 DEF ServiceStates
<1>5. RuntimeTypeOK'
  BY <1>1, <1>3, <1>4 DEF RuntimeInv, RuntimeTypeOK
<1>6. LoopsIdle' /\ ShutdownHasLoop' /\ BootUndisturbed'
  BY <1>1, <1>3 DEF RuntimeInv, LoopsIdle, ShutdownHasLoop, BootUndisturbed
<1>7. boot # NoBoot
  BY <1>1 DEF NoBoot
<1>8. StopUndisturbed' /\ StopProgress'
  BY <1>1, <1>7 DEF RuntimeInv, StopUndisturbed, StopProgress
<1>9. BootProgress'
  <2> SUFFICES ASSUME boot.at = "phase", boot.alone PROVE BootProgress'
    BY <1>3 DEF BootProgress
  <2>1. /\ boot.phase \in 1..LastPhase
        /\ boot.waiting \subseteq InPhase(boot.phase)
        /\ boot.failed \subseteq InPhase(boot.phase)
        /\ \A r \in Required : Phase[r] < boot.phase => service[r] = "running"
        /\ \A r \in InPhase(boot.phase) \ (boot.waiting \cup boot.failed) : service[r] = "running"
    BY DEF RuntimeInv, BootProgress
  <2>2. \A r \in Required : Phase[r] < boot.phase => service'[r] = "running"
    BY <2>1, <1>4
  <2>3. \A r \in InPhase(boot.phase) \ (boot'.waiting \cup boot'.failed) : service'[r] = "running"
    BY <2>1, <1>3, <1>4 DEF InPhase
  <2> QED
    BY <2>1, <2>2, <2>3, <1>1, <1>3 DEF BootProgress
<1> QED
  BY <1>5, <1>6, <1>8, <1>9 DEF RuntimeInv

\* What is up when a phase has settled without a failure that counts.
LEMMA SettledEffect ==
  ASSUME RuntimeInv, boot.at = "phase", boot.alone, boot.waiting = {},
         boot.failed \cap Required = {},
         NEW states \in [Services -> ServiceStates],
         \A s \in Services \ boot.failed : states[s] = service[s]
  PROVE  \A s \in Required : Phase[s] <= boot.phase => states[s] = "running"
<1> USE RuntimeAssumption
<1>1. /\ boot.phase \in 1..LastPhase
      /\ \A s \in Required : Phase[s] < boot.phase => service[s] = "running"
      /\ \A s \in InPhase(boot.phase) \ boot.failed : service[s] = "running"
  BY DEF RuntimeInv, BootProgress
<1> QED
  BY <1>1 DEF InPhase

LEMMA PhaseSettledInv == ASSUME RuntimeInv, PhaseSettled PROVE RuntimeInv'
<1> USE RuntimeAssumption
<1> DEFINE marked == [s \in Services |-> IF s \in Seen(boot.failed) THEN "failed" ELSE service[s]]
<1>1. /\ service \in [Services -> ServiceStates] /\ machine \in RuntimeStates
      /\ boot \in [at : {"none", "config", "phase"}, phase : 0..LastPhase,
                   waiting : SUBSET Services, failed : SUBSET Services, alone : BOOLEAN]
  BY DEF RuntimeInv, RuntimeTypeOK
<1>2. /\ marked \in [Services -> ServiceStates]
      /\ \A s \in Services \ boot.failed : marked[s] = service[s]
  BY <1>1 DEF ServiceStates, Seen
<1>3. /\ boot.at = "phase" /\ boot.waiting = {}
      /\ \/ /\ service' = marked /\ boot' = NoBoot
            /\ \/ machine' = After(machine, "failed") /\ UNCHANGED checking
               \/ machine' = After(After(machine, "ready"), "running") /\ checking' = TRUE
         \/ /\ boot.failed \cap Required = {}
            /\ boot.phase < LastPhase
            /\ BeginPhase(boot.phase + 1, marked)
            /\ UNCHANGED <<machine, checking>>
      /\ UNCHANGED <<shutdown, loops, recovery, attempts, boots, stops>>
  BY DEF PhaseSettled
<1> HIDE DEF marked
<1>4. boot # NoBoot
  BY <1>3 DEF NoBoot
<1>5. CASE service' = marked /\ boot' = NoBoot
  <2>1. machine' \in RuntimeStates /\ checking' \in BOOLEAN
    <3>1. {"failed", "ready", "running"} \subseteq RuntimeStates
      BY DEF RuntimeStates
    <3>2. /\ After(machine, "failed") \in RuntimeStates
          /\ After(machine, "ready") \in RuntimeStates
      BY <1>1, <3>1, AfterType
    <3>3. After(After(machine, "ready"), "running") \in RuntimeStates
      BY <3>1, <3>2, AfterType
    <3>4. checking \in BOOLEAN
      BY DEF RuntimeInv, RuntimeTypeOK
    <3>5. boot' # boot
      BY <1>4, <1>5
    <3>6. ~(boot' = NoBoot /\ BeginPhase(boot.phase + 1, marked))
      <4>1. BeginPhase(boot.phase + 1, marked) => boot'.at = "phase"
        BY <1>1 DEF BeginPhase
      <4>2. NoBoot.at = "none"
        BY DEF NoBoot
      <4> QED
        BY <4>1, <4>2
    <3> QED
      BY <1>3, <1>5, <3>2, <3>3, <3>4, <3>6
  <2>2. RuntimeTypeOK'
    BY <1>2, <1>3, <1>5, <2>1 DEF RuntimeInv, RuntimeTypeOK, NoBoot
  <2>3. LoopsIdle' /\ ShutdownHasLoop' /\ BootUndisturbed' /\ BootProgress'
    BY <1>3, <1>5 DEF RuntimeInv, LoopsIdle, ShutdownHasLoop, BootUndisturbed,
                      BootProgress, NoBoot
  <2>4. StopUndisturbed' /\ StopProgress'
    BY <1>3, <1>4 DEF RuntimeInv, StopUndisturbed, StopProgress
  <2> QED
    BY <2>2, <2>3, <2>4 DEF RuntimeInv
<1>6. CASE /\ boot.failed \cap Required = {}
           /\ boot.phase < LastPhase
           /\ BeginPhase(boot.phase + 1, marked)
           /\ UNCHANGED <<machine, checking>>
  <2>1. boot.phase + 1 \in 1..LastPhase /\ boot.phase \in Nat
    BY <1>1, <1>6
  <2>2. /\ service' \in [Services -> ServiceStates]
        /\ boot' = [at |-> "phase", phase |-> boot.phase + 1, failed |-> {},
                    alone |-> boot.alone, waiting |-> InPhase(boot.phase + 1) \cap Hooked]
    BY <1>2, <1>6, <1>1, <2>1 DEF BeginPhase, ServiceStates
  <2>3. BootProgress'
    <3> SUFFICES ASSUME boot.alone PROVE BootProgress'
      BY <2>2 DEF BootProgress
    <3>1. \A s \in Required : Phase[s] <= boot.phase => marked[s] = "running"
      BY <1>2, <1>3, <1>6, SettledEffect
    <3>2. \A s \in Required : Phase[s] < boot.phase + 1 => marked[s] = "running"
      BY <3>1, <2>1
    <3>3. /\ boot'.waiting \subseteq InPhase(boot.phase + 1)
          /\ \A s \in Required : Phase[s] < boot.phase + 1 => service'[s] = "running"
          /\ \A s \in InPhase(boot.phase + 1) \ boot'.waiting : service'[s] = "running"
      BY <1>1, <1>2, <1>6, <2>1, <3>2, BeginPhaseEffect
    <3> QED
      BY <2>1, <2>2, <3>3 DEF BootProgress
  <2>4. boot' \in [at : {"phase"}, phase : 0..LastPhase, waiting : SUBSET Services,
                   failed : SUBSET Services, alone : {boot.alone}]
    BY <2>1, <2>2 DEF InPhase
  <2> QED
    BY <1>3, <1>6, <2>2, <2>3, <2>4, BootStepInv
<1> QED
  BY <1>3, <1>5, <1>6

-----------------------------------------------------------------------------
(* pause(), resume() and recover() *)

\* A step that leaves the start() and the stopping loops alone, taken while
\* neither is undisturbed.
LEMMA FreeStepInv ==
  ASSUME RuntimeInv, RuntimeTypeOK',
         ~boot.alone, ~(shutdown # "none" /\ loops[stops].alone),
         UNCHANGED <<boot, shutdown, loops, stops>>
  PROVE  RuntimeInv'
<1>1. LoopsIdle' /\ ShutdownHasLoop'
  BY DEF RuntimeInv, LoopsIdle, ShutdownHasLoop
<1>2. BootUndisturbed' /\ BootProgress' /\ StopUndisturbed' /\ StopProgress'
  BY DEF BootUndisturbed, BootProgress, StopUndisturbed, StopProgress
<1> QED
  BY <1>1, <1>2 DEF RuntimeInv

\* Outside "starting" and "stopping" neither is undisturbed.
LEMMA FreeStates ==
  ASSUME RuntimeInv, machine \notin {"starting", "stopping"} \/ recovery # NoRecovery
  PROVE  ~boot.alone /\ ~(shutdown # "none" /\ loops[stops].alone)
BY DEF RuntimeInv, BootUndisturbed, StopUndisturbed

LEMMA PauseInv == ASSUME RuntimeInv, Pause \/ ResumeRuntime PROVE RuntimeInv'
<1>1. machine \notin {"starting", "stopping"} /\ machine' \in {"paused", "running"}
  BY DEF Pause, ResumeRuntime
<1>2. UNCHANGED <<service, boot, shutdown, loops, recovery, attempts, checking, boots, stops>>
  BY DEF Pause, ResumeRuntime
<1>3. RuntimeTypeOK'
  BY <1>1, <1>2 DEF RuntimeInv, RuntimeTypeOK, RuntimeStates
<1> QED
  BY <1>1, <1>2, <1>3, FreeStates, FreeStepInv

\* What the loop of recover() leaves behind is well typed.
LEMMA ProceedType ==
  ASSUME NEW states, NEW todo \in SUBSET Services, NEW m \in RuntimeStates,
         NEW n \in 0..MaxRecoveryAttempts, Proceed(states, todo, m, n)
  PROVE  /\ recovery' \in [at : {"none", "stop", "start"}, todo : SUBSET Services,
                           chosen : SUBSET Services]
         /\ machine' \in RuntimeStates
         /\ attempts' \in 0..MaxRecoveryAttempts
<1> USE RuntimeAssumption
<1> DEFINE able == {s \in todo : DependenciesReady(states, s)}
<1>1. \/ /\ able # {}
         /\ recovery' = [at |-> "stop", chosen |-> {Min(able)},
                         todo |-> {s \in todo : s > Min(able)}]
         /\ machine' = m /\ attempts' = n
      \/ /\ recovery' = NoRecovery
         /\ \/ machine' = After(m, "running") /\ attempts' = 0
            \/ machine' = After(m, "degraded") /\ attempts' = n
  BY DEF Proceed
<1>2. able \subseteq Services /\ able \subseteq Nat
  OBVIOUS
<1> HIDE DEF able
<1>3. CASE /\ able # {}
           /\ recovery' = [at |-> "stop", chosen |-> {Min(able)},
                           todo |-> {s \in todo : s > Min(able)}]
           /\ machine' = m /\ attempts' = n
  <2>1. Min(able) \in Services
    BY <1>2, <1>3, MinOfNats
  <2>2. {Min(able)} \subseteq Services /\ {s \in todo : s > Min(able)} \subseteq Services
    BY <2>1
  <2> QED
    BY <1>3, <2>2
<1>4. CASE /\ recovery' = NoRecovery
           /\ \/ machine' = After(m, "running") /\ attempts' = 0
              \/ machine' = After(m, "degraded") /\ attempts' = n
  <2>1. After(m, "running") \in RuntimeStates /\ After(m, "degraded") \in RuntimeStates
    BY AfterType DEF RuntimeStates
  <2> QED
    BY <1>4, <2>1 DEF NoRecovery
<1> QED
  BY <1>1, <1>3, <1>4

LEMMA RecoverInv == ASSUME RuntimeInv, Recover PROVE RuntimeInv'
<1> USE RuntimeAssumption
<1>1. /\ attempts < MaxRecoveryAttempts /\ attempts \in 0..MaxRecoveryAttempts
      /\ UNCHANGED <<service, boot, shutdown, loops, checking, boots, stops>>
  BY DEF Recover, RuntimeInv, RuntimeTypeOK
<1>2. attempts + 1 \in 0..MaxRecoveryAttempts
  BY <1>1
<1>3. CASE attempts' = attempts + 1 /\ UNCHANGED <<machine, recovery>>
  <2>1. RuntimeTypeOK'
    BY <1>1, <1>2, <1>3 DEF RuntimeInv, RuntimeTypeOK
  <2>2. LoopsIdle' /\ ShutdownHasLoop'
    BY <1>1 DEF RuntimeInv, LoopsIdle, ShutdownHasLoop
  <2>3. BootUndisturbed' /\ BootProgress' /\ StopUndisturbed' /\ StopProgress'
    BY <1>1, <1>3 DEF RuntimeInv, BootUndisturbed, BootProgress, StopUndisturbed, StopProgress
  <2> QED
    BY <2>1, <2>2, <2>3 DEF RuntimeInv
<1>4. CASE "recovery" \in Transitions[machine]
  <2>1. machine \notin {"starting", "stopping"}
    BY <1>4, TransitionsOf
  <2>2. \/ attempts' = attempts + 1 /\ machine' = "running" /\ UNCHANGED recovery
        \/ Proceed(service, FailedRequired, "recovery", attempts + 1)
    BY <1>4 DEF Recover
  <2>3. FailedRequired \in SUBSET Services /\ {"recovery", "running"} \subseteq RuntimeStates
    BY DEF FailedRequired, RuntimeStates
  <2>4. /\ recovery' \in [at : {"none", "stop", "start"}, todo : SUBSET Services,
                          chosen : SUBSET Services]
        /\ machine' \in RuntimeStates
        /\ attempts' \in 0..MaxRecoveryAttempts
    <3>1. CASE attempts' = attempts + 1 /\ machine' = "running" /\ UNCHANGED recovery
      BY <1>2, <2>3, <3>1 DEF RuntimeInv, RuntimeTypeOK
    <3>2. CASE Proceed(service, FailedRequired, "recovery", attempts + 1)
      BY <1>2, <2>3, <3>2, ProceedType
    <3> QED
      BY <2>2, <3>1, <3>2
  <2>5. RuntimeTypeOK'
    BY <1>1, <2>4 DEF RuntimeInv, RuntimeTypeOK
  <2> QED
    BY <1>1, <2>1, <2>5, FreeStates, FreeStepInv
<1> QED
  BY <1>3, <1>4 DEF Recover

LEMMA ReloadStoppedInv ==
  ASSUME RuntimeInv, NEW s \in Services, NEW outcome, ReloadStopped(s, outcome)
  PROVE  RuntimeInv'
<1>1. /\ recovery.at = "stop"
      /\ \/ recovery' = NoRecovery /\ UNCHANGED service
         \/ /\ recovery' = [recovery EXCEPT !.at = "start"]
            /\ service' = [service EXCEPT ![s] = "starting"]
      /\ UNCHANGED <<machine, boot, shutdown, loops, attempts, checking, boots, stops>>
  BY DEF ReloadStopped
<1>2. recovery # NoRecovery
  BY <1>1 DEF NoRecovery
<1>3. recovery' \in [at : {"none", "stop", "start"}, todo : SUBSET Services,
                    chosen : SUBSET Services]
  BY <1>1 DEF RuntimeInv, RuntimeTypeOK, NoRecovery
<1>4. service' \in [Services -> ServiceStates]
  BY <1>1 DEF RuntimeInv, RuntimeTypeOK, ServiceStates
<1>5. RuntimeTypeOK'
  BY <1>1, <1>3, <1>4 DEF RuntimeInv, RuntimeTypeOK
<1> QED
  BY <1>1, <1>2, <1>5, FreeStates, FreeStepInv

LEMMA ReloadStartedInv ==
  ASSUME RuntimeInv, NEW s \in Services, NEW outcome, ReloadStarted(s, outcome)
  PROVE  RuntimeInv'
<1>1. /\ recovery.at = "start"
      /\ \/ service' = [service EXCEPT ![s] = "running"]
         \/ service' = service
      /\ \/ recovery' = NoRecovery /\ UNCHANGED <<machine, attempts>>
         \/ Proceed(service', recovery.todo, machine, attempts)
      /\ UNCHANGED <<boot, shutdown, loops, checking, boots, stops>>
  BY DEF ReloadStarted
<1>2. recovery # NoRecovery
  BY <1>1 DEF NoRecovery
<1>3. /\ recovery.todo \in SUBSET Services /\ machine \in RuntimeStates
      /\ attempts \in 0..MaxRecoveryAttempts
  BY DEF RuntimeInv, RuntimeTypeOK
<1>4. /\ recovery' \in [at : {"none", "stop", "start"}, todo : SUBSET Services,
                        chosen : SUBSET Services]
      /\ machine' \in RuntimeStates
      /\ attempts' \in 0..MaxRecoveryAttempts
  <2>1. CASE recovery' = NoRecovery /\ UNCHANGED <<machine, attempts>>
    BY <1>3, <2>1 DEF NoRecovery
  <2>2. CASE Proceed(service', recovery.todo, machine, attempts)
    BY <1>3, <2>2, ProceedType
  <2> QED
    BY <1>1, <2>1, <2>2
<1>5. service' \in [Services -> ServiceStates]
  BY <1>1 DEF RuntimeInv, RuntimeTypeOK, ServiceStates
<1>6. RuntimeTypeOK'
  BY <1>1, <1>4, <1>5 DEF RuntimeInv, RuntimeTypeOK
<1> QED
  BY <1>1, <1>2, <1>6, FreeStates, FreeStepInv

-----------------------------------------------------------------------------
(* stop() *)

LoopRecord == [phase : 0..LastPhase, alone : BOOLEAN, waiting : SUBSET Services]

\* Stopping a phase keeps what LoopsIdle says of every loop.
LEMMA StopPhaseEffect ==
  ASSUME RuntimeInv, NEW i \in 1..MaxStops, NEW p \in 1..LastPhase, NEW alone \in BOOLEAN,
         StopPhase(i, p, alone)
  PROVE  /\ loops' \in [1..MaxStops -> LoopRecord]
         /\ loops'[i].phase = p /\ loops'[i].alone = alone
         /\ loops'[i].waiting \subseteq InPhase(p)
         /\ \A j \in 1..MaxStops \ {i} : loops'[j] = loops[j]
         /\ service' \in [Services -> ServiceStates]
         /\ \A s \in Services : Phase[s] = p /\ s \notin loops'[i].waiting => service'[s] \in Down
         /\ \A s \in Services : service[s] \in Down => service'[s] \in Down
<1> USE RuntimeAssumption
<1> DEFINE waits == InPhase(p) \cap Registered \cap Hooked
           loop == [phase |-> p, alone |-> alone, waiting |-> waits]
<1>1. /\ loops \in [1..MaxStops -> LoopRecord]
      /\ service \in [Services -> ServiceStates]
  BY DEF RuntimeInv, RuntimeTypeOK, LoopRecord
<1>2. loops' = [loops EXCEPT ![i] = loop]
  BY DEF StopPhase
<1>3. service' = [s \in Services |-> IF s \in (InPhase(p) \cap Registered) \ Hooked THEN "stopped"
                                    ELSE service[s]]
  BY DEF StopPhase
<1>4. waits \in SUBSET Services /\ waits \subseteq InPhase(p)
  BY DEF InPhase
<1>7. /\ service' \in [Services -> ServiceStates]
      /\ \A s \in Services : service[s] \in Down => service'[s] \in Down
  BY <1>1, <1>3 DEF ServiceStates, Down
<1>8. ASSUME NEW s \in Services, Phase[s] = p, s \notin waits PROVE service'[s] \in Down
  BY <1>3, <1>8 DEF InPhase, Registered, Down
<1> HIDE DEF waits
<1>5. /\ loop \in LoopRecord
      /\ loop.phase = p /\ loop.alone = alone /\ loop.waiting = waits
  BY <1>4 DEF LoopRecord
<1> HIDE DEF loop
<1>6. /\ loops' \in [1..MaxStops -> LoopRecord] /\ loops'[i] = loop
      /\ \A j \in 1..MaxStops \ {i} : loops'[j] = loops[j]
  BY <1>1, <1>2, <1>5
<1> QED
  BY <1>4, <1>5, <1>6, <1>7, <1>8

\* A loop that is under way shows that no start() is undisturbed, and that a
\* stop() that is can only be the loop's own.
LEMMA LoopUnderWay ==
  ASSUME RuntimeInv, NEW i \in 1..MaxStops, loops[i] # NoLoop
  PROVE  /\ ~boot.alone
         /\ shutdown # "none" /\ loops[stops].alone => i = stops
         /\ loops[i].phase \in 1..LastPhase /\ i <= stops
<1> USE RuntimeAssumption
<1>1. ~boot.alone /\ (shutdown # "none" /\ loops[stops].alone => i = stops)
  BY DEF RuntimeInv, BootUndisturbed, StopUndisturbed
<1>2. loops[i].phase # 0 /\ ~(i > stops)
  BY DEF RuntimeInv, LoopsIdle
<1>3. loops[i].phase \in 0..LastPhase /\ stops \in Nat
  BY DEF RuntimeInv, RuntimeTypeOK
<1> QED
  BY <1>1, <1>2, <1>3

LEMMA StopRefusedInv == ASSUME RuntimeInv, StopRefused PROVE RuntimeInv'
<1>1. /\ checking' = FALSE
      /\ UNCHANGED <<machine, service, boot, shutdown, loops, recovery, attempts, boots, stops>>
  BY DEF StopRefused
<1>2. checking' \in BOOLEAN
  BY <1>1
<1>3. RuntimeTypeOK'
  BY <1>1, <1>2 DEF RuntimeInv, RuntimeTypeOK
<1>4. LoopsIdle' /\ ShutdownHasLoop' /\ BootUndisturbed' /\ BootProgress'
  BY <1>1 DEF RuntimeInv, LoopsIdle, ShutdownHasLoop, BootUndisturbed, BootProgress
<1>5. StopUndisturbed' /\ StopProgress'
  BY <1>1 DEF RuntimeInv, StopUndisturbed, StopProgress
<1> QED
  BY <1>3, <1>4, <1>5 DEF RuntimeInv

LEMMA StopInv ==
  ASSUME RuntimeInv, NEW mode \in {"graceful", "forced"}, Stop(mode)
  PROVE  RuntimeInv'
<1> USE RuntimeAssumption
<1>0. PICK p \in 1..LastPhase : /\ p = IF Registered = {} THEN 1 ELSE LastPhase
                               /\ StopPhase(stops + 1, p, Quiet)
  BY DEF Stop
<1>1. /\ stops < MaxStops /\ shutdown = "none" /\ "stopping" \in Transitions[machine]
      /\ machine' = "stopping" /\ shutdown' = mode /\ checking' = FALSE
      /\ stops' = stops + 1
      /\ UNCHANGED <<boot, recovery, attempts, boots>>
  BY DEF Stop
<1>2. stops + 1 \in 1..MaxStops /\ stops \in Nat
  BY <1>1 DEF RuntimeInv, RuntimeTypeOK
<1>3. Quiet \in BOOLEAN
  BY DEF Quiet
<1>4. /\ loops' \in [1..MaxStops -> LoopRecord]
      /\ loops'[stops + 1].phase = p /\ loops'[stops + 1].alone = Quiet
      /\ loops'[stops + 1].waiting \subseteq InPhase(p)
      /\ \A j \in 1..MaxStops \ {stops + 1} : loops'[j] = loops[j]
      /\ service' \in [Services -> ServiceStates]
      /\ \A s \in Services :
           Phase[s] = p /\ s \notin loops'[stops + 1].waiting => service'[s] \in Down
      /\ \A s \in Services : service[s] \in Down => service'[s] \in Down
  <2>1. PICK i \in 1..MaxStops : i = stops + 1
    BY <1>2
  <2>2. PICK alone \in BOOLEAN : alone = Quiet
    BY <1>3
  <2>3. StopPhase(i, p, alone)
    BY <1>0, <2>1, <2>2
  <2> QED
    BY <2>1, <2>2, <2>3, StopPhaseEffect
<1>5. loops'[stops'].phase = p /\ loops'[stops'].alone = Quiet
  BY <1>1, <1>4
<1>6. ~boot.alone
  BY <1>1, TransitionsOf DEF RuntimeInv, BootUndisturbed
<1>7. RuntimeTypeOK'
  <2>1. machine' \in RuntimeStates /\ checking' \in BOOLEAN
    BY <1>1 DEF RuntimeStates
  <2> QED
    BY <1>1, <1>2, <1>4, <2>1 DEF RuntimeInv, RuntimeTypeOK, LoopRecord
<1>8. LoopsIdle'
  <2> SUFFICES ASSUME NEW j \in 1..MaxStops
               PROVE  /\ loops'[j].phase = 0 => loops'[j] = NoLoop
                      /\ j > stops' => loops'[j] = NoLoop
                      /\ loops'[j].waiting \subseteq InPhase(loops'[j].phase)
    BY DEF LoopsIdle, InPhase
  <2>1. CASE j = stops + 1
    BY <1>1, <1>2, <1>4, <2>1
  <2>2. CASE j # stops + 1
    BY <1>1, <1>2, <1>4, <2>2 DEF RuntimeInv, LoopsIdle
  <2> QED
    BY <2>1, <2>2
<1>9. ShutdownHasLoop'
  BY <1>1, <1>2, <1>5 DEF ShutdownHasLoop
<1>10. BootUndisturbed' /\ BootProgress'
  BY <1>1, <1>6 DEF BootUndisturbed, BootProgress
<1>11. StopUndisturbed'
  <2> SUFFICES ASSUME Quiet PROVE StopUndisturbed'
    BY <1>5 DEF StopUndisturbed
  <2>1. boot = NoBoot /\ recovery = NoRecovery /\ \A j \in 1..MaxStops : loops[j] = NoLoop
    BY DEF Quiet, RuntimeInv, LoopsIdle
  <2> QED
    BY <1>1, <1>4, <2>1 DEF StopUndisturbed
<1>12. StopProgress'
  <2> SUFFICES ASSUME NEW s \in Services \ Throwing,
                      Phase[s] > p \/ (Phase[s] = p /\ s \notin loops'[stops + 1].waiting)
               PROVE  service'[s] \in Down
    BY <1>1, <1>5 DEF StopProgress
  <2>1. CASE Registered = {}
    <3>1. service[s] \in Down
      BY <2>1 DEF Registered, Down
    <3> QED
      BY <1>4, <3>1
  <2>2. CASE Registered # {}
    <3>1. p = LastPhase /\ Phase[s] \in 1..LastPhase /\ LastPhase \in Nat
      BY <1>0, <2>2
    <3>2. Phase[s] = p /\ s \notin loops'[stops + 1].waiting
      BY <3>1
    <3> QED
      BY <1>4, <3>2
  <2> QED
    BY <2>1, <2>2
<1> QED
  BY <1>7, <1>8, <1>9, <1>10, <1>11, <1>12 DEF RuntimeInv

LEMMA HookStoppedInv ==
  ASSUME RuntimeInv, NEW i \in 1..MaxStops, NEW s \in Services,
         NEW outcome \in Outcomes(s), HookStopped(i, s, outcome)
  PROVE  RuntimeInv'
<1> USE RuntimeAssumption
<1>1. /\ s \in loops[i].waiting
      /\ loops' = [loops EXCEPT ![i].waiting = @ \ {s}]
      /\ UNCHANGED <<machine, boot, shutdown, recovery, attempts, checking, boots, stops>>
  BY DEF HookStopped
<1>2. /\ outcome = "throws" => service' = service
      /\ outcome # "throws" => service' = [service EXCEPT ![s] = "stopped"]
  BY DEF HookStopped
<1>3. outcome = "throws" => s \in Throwing
  BY DEF Outcomes
<1>4. /\ loops \in [1..MaxStops -> LoopRecord] /\ service \in [Services -> ServiceStates]
  BY DEF RuntimeInv, RuntimeTypeOK, LoopRecord
<1>5. /\ loops' \in [1..MaxStops -> LoopRecord]
      /\ loops'[i].phase = loops[i].phase /\ loops'[i].alone = loops[i].alone
      /\ loops'[i].waiting = loops[i].waiting \ {s}
      /\ \A j \in 1..MaxStops \ {i} : loops'[j] = loops[j]
  BY <1>1, <1>4 DEF LoopRecord
<1>6. service' \in [Services -> ServiceStates]
  BY <1>2, <1>4 DEF ServiceStates
<1>7. /\ \A r \in Services : service[r] \in Down => service'[r] \in Down
      /\ s \notin Throwing => service'[s] \in Down
  BY <1>2, <1>3, <1>4 DEF Down
<1>8. loops[i] # NoLoop
  BY <1>1 DEF NoLoop
<1>9. /\ ~boot.alone
      /\ shutdown # "none" /\ loops[stops].alone => i = stops
      /\ loops[i].phase \in 1..LastPhase /\ i <= stops
  BY <1>8, LoopUnderWay
<1>10. RuntimeTypeOK'
  BY <1>1, <1>5, <1>6 DEF RuntimeInv, RuntimeTypeOK, LoopRecord
<1>11. LoopsIdle'
  <2> SUFFICES ASSUME NEW j \in 1..MaxStops
               PROVE  /\ loops'[j].phase = 0 => loops'[j] = NoLoop
                      /\ j > stops' => loops'[j] = NoLoop
                      /\ loops'[j].waiting \subseteq InPhase(loops'[j].phase)
    BY DEF LoopsIdle, InPhase
  <2>0. stops \in Nat
    BY DEF RuntimeInv, RuntimeTypeOK
  <2>1. CASE j = i
    BY <1>1, <1>5, <1>9, <2>0, <2>1 DEF RuntimeInv, LoopsIdle
  <2>2. CASE j # i
    BY <1>1, <1>5, <2>2 DEF RuntimeInv, LoopsIdle
  <2> QED
    BY <2>1, <2>2
<1>12. shutdown # "none" => stops \in 1..MaxStops
  BY DEF RuntimeInv, RuntimeTypeOK, ShutdownHasLoop
<1>13. ShutdownHasLoop'
  BY <1>1, <1>5, <1>12 DEF RuntimeInv, ShutdownHasLoop
<1>14. BootUndisturbed' /\ BootProgress'
  BY <1>1, <1>9 DEF BootUndisturbed, BootProgress
<1>15. StopUndisturbed'
  BY <1>1, <1>5, <1>9, <1>12 DEF RuntimeInv, StopUndisturbed
<1>16. StopProgress'
  <2> SUFFICES ASSUME shutdown # "none", loops'[stops].alone,
                      NEW r \in Services \ Throwing,
                      Phase[r] > loops'[stops].phase
                        \/ (Phase[r] = loops'[stops].phase /\ r \notin loops'[stops].waiting)
               PROVE  service'[r] \in Down
    BY <1>1 DEF StopProgress
  <2>1. i = stops /\ loops[stops].alone
    BY <1>5, <1>9, <1>12
  <2>2. CASE r = s
    BY <1>7, <2>2
  <2>3. CASE r # s
    BY <1>5, <1>7, <2>1, <2>3 DEF RuntimeInv, StopProgress
  <2> QED
    BY <2>2, <2>3
<1> QED
  BY <1>10, <1>11, <1>13, <1>14, <1>15, <1>16 DEF RuntimeInv

LEMMA LoopNextPhaseInv ==
  ASSUME RuntimeInv, NEW i \in 1..MaxStops, LoopNextPhase(i)
  PROVE  RuntimeInv'
<1> USE RuntimeAssumption
<1>1. /\ loops[i].phase > 1 /\ loops[i].waiting = {}
      /\ StopPhase(i, loops[i].phase - 1, loops[i].alone)
      /\ UNCHANGED <<machine, boot, shutdown, recovery, attempts, checking, boots, stops>>
  BY DEF LoopNextPhase
<1>2. loops[i].alone \in BOOLEAN /\ loops[i].phase \in 0..LastPhase /\ stops \in Nat
  BY DEF RuntimeInv, RuntimeTypeOK
<1>3. loops[i].phase - 1 \in 1..LastPhase
  BY <1>1, <1>2
<1>4. /\ loops' \in [1..MaxStops -> LoopRecord]
      /\ loops'[i].phase = loops[i].phase - 1 /\ loops'[i].alone = loops[i].alone
      /\ loops'[i].waiting \subseteq InPhase(loops[i].phase - 1)
      /\ \A j \in 1..MaxStops \ {i} : loops'[j] = loops[j]
      /\ service' \in [Services -> ServiceStates]
      /\ \A s \in Services :
           Phase[s] = loops[i].phase - 1 /\ s \notin loops'[i].waiting => service'[s] \in Down
      /\ \A s \in Services : service[s] \in Down => service'[s] \in Down
  BY <1>1, <1>2, <1>3, StopPhaseEffect
<1>5. /\ loops'[i].phase = loops[i].phase - 1
      /\ loops'[i].alone = loops[i].alone
      /\ loops'[i].waiting \subseteq InPhase(loops[i].phase - 1)
  BY <1>4
<1>6. loops[i] # NoLoop
  BY <1>1 DEF NoLoop
<1>7. /\ ~boot.alone
      /\ shutdown # "none" /\ loops[stops].alone => i = stops
      /\ loops[i].phase \in 1..LastPhase /\ i <= stops
  BY <1>6, LoopUnderWay
<1>8. RuntimeTypeOK'
  BY <1>1, <1>4 DEF RuntimeInv, RuntimeTypeOK, LoopRecord
<1>9. LoopsIdle'
  <2> SUFFICES ASSUME NEW j \in 1..MaxStops
               PROVE  /\ loops'[j].phase = 0 => loops'[j] = NoLoop
                      /\ j > stops' => loops'[j] = NoLoop
                      /\ loops'[j].waiting \subseteq InPhase(loops'[j].phase)
    BY DEF LoopsIdle, InPhase
  <2>1. CASE j = i
    BY <1>1, <1>2, <1>3, <1>5, <1>7, <2>1
  <2>2. CASE j # i
    BY <1>1, <1>4, <2>2 DEF RuntimeInv, LoopsIdle
  <2> QED
    BY <2>1, <2>2
<1>10. shutdown # "none" => stops \in 1..MaxStops
  BY DEF RuntimeInv, RuntimeTypeOK, ShutdownHasLoop
<1>11. ShutdownHasLoop'
  BY <1>1, <1>3, <1>4, <1>5, <1>10 DEF RuntimeInv, ShutdownHasLoop
<1>12. BootUndisturbed' /\ BootProgress'
  BY <1>1, <1>7 DEF BootUndisturbed, BootProgress
<1>13. StopUndisturbed'
  BY <1>1, <1>4, <1>5, <1>7, <1>10 DEF RuntimeInv, StopUndisturbed
<1>14. StopProgress'
  <2> SUFFICES ASSUME shutdown # "none", loops'[stops].alone,
                      NEW r \in Services \ Throwing,
                      Phase[r] > loops'[stops].phase
                        \/ (Phase[r] = loops'[stops].phase /\ r \notin loops'[stops].waiting)
               PROVE  service'[r] \in Down
    BY <1>1 DEF StopProgress
  <2>1. i = stops /\ loops[stops].alone
    BY <1>4, <1>5, <1>7, <1>10
  <2>2. Phase[r] \in 1..LastPhase
    OBVIOUS
  <2>3. CASE Phase[r] > loops[i].phase - 1
    <3>1. Phase[r] > loops[i].phase \/ Phase[r] = loops[i].phase
      BY <1>2, <2>2, <2>3
    <3>2. service[r] \in Down
      BY <1>1, <2>1, <3>1 DEF RuntimeInv, StopProgress
    <3> QED
      BY <1>4, <3>2
  <2>4. CASE ~(Phase[r] > loops[i].phase - 1)
    <3>1. Phase[r] = loops[i].phase - 1 /\ r \notin loops'[i].waiting
      BY <1>5, <2>1, <2>4
    <3> QED
      BY <1>4, <3>1
  <2> QED
    BY <2>3, <2>4
<1> QED
  BY <1>8, <1>9, <1>11, <1>12, <1>13, <1>14 DEF RuntimeInv

LEMMA LoopEndsInv ==
  ASSUME RuntimeInv, NEW i \in 1..MaxStops, LoopEnds(i)
  PROVE  RuntimeInv'
<1> USE RuntimeAssumption
<1>1. /\ loops[i].phase = 1 /\ loops[i].waiting = {}
      /\ loops' = [loops EXCEPT ![i] = NoLoop]
      /\ UNCHANGED <<service, boot, recovery, attempts, checking, boots, stops>>
  BY DEF LoopEnds
<1>2. \/ /\ shutdown # "none" /\ i = stops
         /\ machine' = After(machine, "stopped") /\ shutdown' = "none"
      \/ /\ ~(shutdown # "none" /\ i = stops)
         /\ UNCHANGED <<machine, shutdown>>
  BY DEF LoopEnds, EndShutdown
<1>3. /\ loops \in [1..MaxStops -> LoopRecord] /\ machine \in RuntimeStates
  BY DEF RuntimeInv, RuntimeTypeOK, LoopRecord
<1>4. NoLoop \in LoopRecord /\ NoLoop.phase = 0 /\ NoLoop.waiting = {} /\ ~NoLoop.alone
  BY DEF NoLoop, LoopRecord
<1>5. /\ loops' \in [1..MaxStops -> LoopRecord] /\ loops'[i] = NoLoop
      /\ \A j \in 1..MaxStops \ {i} : loops'[j] = loops[j]
  BY <1>1, <1>3, <1>4
<1>6. loops[i] # NoLoop
  BY <1>1, <1>4
<1>7. ~boot.alone
  BY <1>6, LoopUnderWay
<1>8. After(machine, "stopped") \in RuntimeStates
  BY <1>3, AfterType DEF RuntimeStates
<1>9. machine' \in RuntimeStates /\ shutdown' \in {"none", "graceful", "forced"}
  BY <1>2, <1>3, <1>8 DEF RuntimeInv, RuntimeTypeOK
<1>10. RuntimeTypeOK'
  BY <1>1, <1>5, <1>9 DEF RuntimeInv, RuntimeTypeOK, LoopRecord
<1>11. LoopsIdle'
  <2> SUFFICES ASSUME NEW j \in 1..MaxStops
               PROVE  /\ loops'[j].phase = 0 => loops'[j] = NoLoop
                      /\ j > stops' => loops'[j] = NoLoop
                      /\ loops'[j].waiting \subseteq InPhase(loops'[j].phase)
    BY DEF LoopsIdle, InPhase
  <2>1. CASE j = i
    BY <1>4, <1>5, <2>1
  <2>2. CASE j # i
    BY <1>1, <1>5, <2>2 DEF RuntimeInv, LoopsIdle
  <2> QED
    BY <2>1, <2>2
<1>12. shutdown # "none" => stops \in 1..MaxStops
  BY DEF RuntimeInv, RuntimeTypeOK, ShutdownHasLoop
<1>13. shutdown' # "none" => shutdown # "none" /\ loops'[stops] = loops[stops] /\ machine' = machine
  BY <1>2, <1>5, <1>12
<1>14. ShutdownHasLoop'
  BY <1>1, <1>13 DEF RuntimeInv, ShutdownHasLoop
<1>15. BootUndisturbed' /\ BootProgress'
  BY <1>1, <1>7 DEF BootUndisturbed, BootProgress
<1>16. StopUndisturbed' /\ StopProgress'
  BY <1>1, <1>5, <1>13 DEF RuntimeInv, StopUndisturbed, StopProgress
<1> QED
  BY <1>10, <1>11, <1>14, <1>15, <1>16 DEF RuntimeInv

LEMMA GraceExpiresInv == ASSUME RuntimeInv, GraceExpires PROVE RuntimeInv'
<1>1. /\ shutdown = "graceful" /\ shutdown' = "none"
      /\ machine' = After(machine, "stopped")
      /\ UNCHANGED <<service, boot, loops, recovery, attempts, checking, boots, stops>>
  BY DEF GraceExpires, EndShutdown
<1>2. machine' \in RuntimeStates
  BY <1>1, AfterType DEF RuntimeInv, RuntimeTypeOK, RuntimeStates
<1>3. RuntimeTypeOK'
  BY <1>1, <1>2 DEF RuntimeInv, RuntimeTypeOK
<1>4. LoopsIdle' /\ ShutdownHasLoop' /\ BootUndisturbed' /\ BootProgress'
  BY <1>1 DEF RuntimeInv, LoopsIdle, ShutdownHasLoop, BootUndisturbed, BootProgress
<1>5. StopUndisturbed' /\ StopProgress'
  BY <1>1 DEF StopUndisturbed, StopProgress
<1> QED
  BY <1>3, <1>4, <1>5 DEF RuntimeInv

-----------------------------------------------------------------------------
(* The theorems *)

LEMMA RuntimeNextInv == ASSUME RuntimeInv, [RuntimeNext]_runtimeVars PROVE RuntimeInv'
<1>1. CASE RuntimeCalls
  BY <1>1, StartInv, PauseInv, RecoverInv, StopRefusedInv, StopInv DEF RuntimeCalls
<1>2. CASE ConfigFails \/ ConfigLoaded \/ PhaseSettled
  BY <1>2, ConfigFailsInv, ConfigLoadedInv, PhaseSettledInv
<1>3. CASE LoopAdvances \/ GraceExpires
  BY <1>3, LoopNextPhaseInv, LoopEndsInv, GraceExpiresInv DEF LoopAdvances
<1>4. CASE HookAnswers
  BY <1>4, HookStartedInv, HookStoppedInv, ReloadStoppedInv, ReloadStartedInv DEF HookAnswers
<1>5. CASE UNCHANGED runtimeVars
  <2>1. RuntimeTypeOK' /\ LoopsIdle' /\ ShutdownHasLoop' /\ BootUndisturbed'
    BY <1>5 DEF runtimeVars, RuntimeInv, RuntimeTypeOK, LoopsIdle, ShutdownHasLoop,
                BootUndisturbed
  <2>2. BootProgress' /\ StopUndisturbed' /\ StopProgress'
    BY <1>5 DEF runtimeVars, RuntimeInv, BootProgress, StopUndisturbed, StopProgress
  <2> QED
    BY <2>1, <2>2 DEF RuntimeInv
<1> QED
  BY <1>1, <1>2, <1>3, <1>4, <1>5 DEF RuntimeNext

\* Whatever is called while whatever is under way, the invariant holds: in
\* particular no other call takes part in a start() or a stop() that began alone.
THEOREM RuntimeInvariant == RuntimeSpec => []RuntimeInv
<1>1. RuntimeInv /\ [RuntimeNext]_runtimeVars => RuntimeInv'
  BY RuntimeNextInv
<1> QED
  BY <1>1, RuntimeInitInv, PTL DEF RuntimeSpec

\* The variables of runtime-manager.ts and service-registry.ts keep their types,
\* and recoveryAttempts never passes its maximum.
THEOREM RuntimeTypes == RuntimeSpec => []RuntimeTypeOK
<1>1. RuntimeInv => RuntimeTypeOK
  BY DEF RuntimeInv
<1> QED
  BY <1>1, RuntimeInvariant, PTL

\* startServices() starts a phase only over the running required services of
\* the phases before it.
THEOREM BootsInOrder == RuntimeSpec => []BootInOrder
<1>1. RuntimeInv => BootInOrder
  BY DEF RuntimeInv, BootProgress, BootInOrder
<1> QED
  BY <1>1, RuntimeInvariant, PTL

\* stopServices() goes down through the phases in reverse.
THEOREM GoesDownInReverse == RuntimeSpec => []DownInReverse
<1>1. RuntimeInv => DownInReverse
  <2> SUFFICES ASSUME RuntimeInv, shutdown # "none", loops[stops].alone,
                      NEW s \in Services \ Throwing, Phase[s] > loops[stops].phase
               PROVE  service[s] \in Down
    BY DEF DownInReverse
  <2> QED
    BY DEF RuntimeInv, StopProgress
<1> QED
  BY <1>1, RuntimeInvariant, PTL

LEMMA ServedStep ==
  ASSUME RuntimeInv, RuntimeNext, boot.alone, boot' = NoBoot, machine' = "running"
  PROVE  \A s \in Required : service'[s] = "running"
<1> USE RuntimeAssumption
<1>1. /\ machine = "starting" /\ boot.at \in {"config", "phase"} /\ recovery = NoRecovery
      /\ shutdown = "none" /\ \A i \in 1..MaxStops : loops[i] = NoLoop
  BY DEF RuntimeInv, BootUndisturbed
<1>2. boot # NoBoot
  BY <1>1 DEF NoBoot
<1>3. ~(UNCHANGED boot) /\ ~(UNCHANGED machine)
  BY <1>1, <1>2
<1>4. ~RuntimeCalls /\ ~LoopAdvances /\ ~GraceExpires
  <2>1. ~Start
    BY <1>2 DEF Start
  <2>2. ~Pause /\ ~ResumeRuntime /\ ~Recover /\ ~StopRefused
    BY <1>3 DEF Pause, ResumeRuntime, Recover, StopRefused
  <2>3. ~LoopAdvances /\ ~GraceExpires /\ \A mode \in {"graceful", "forced"} : ~Stop(mode)
    BY <1>3 DEF LoopAdvances, LoopNextPhase, LoopEnds, GraceExpires, Stop
  <2> QED
    BY <2>1, <2>2, <2>3 DEF RuntimeCalls
<1>5. ~HookAnswers /\ ~ConfigLoaded
  BY <1>3 DEF HookAnswers, HookStarted, HookStopped, ReloadStopped, ReloadStarted, ConfigLoaded
<1>6. ~ConfigFails
  BY <1>1 DEF ConfigFails, After, Transitions
<1>7. PhaseSettled
  BY <1>4, <1>5, <1>6 DEF RuntimeNext
<1> DEFINE marked == [s \in Services |-> IF s \in Seen(boot.failed) THEN "failed" ELSE service[s]]
<1>8. /\ boot.at = "phase" /\ boot.waiting = {}
      /\ boot.failed \cap Required = {}
      /\ boot.phase = LastPhase
      /\ service' = marked
  <2>1. After(machine, "failed") = "failed"
    BY <1>1, TransitionsOf DEF After
  <2> QED
    BY <1>3, <1>7, <2>1 DEF PhaseSettled
<1>9. /\ marked \in [Services -> ServiceStates]
      /\ \A s \in Services \ boot.failed : marked[s] = service[s]
  BY DEF RuntimeInv, RuntimeTypeOK, ServiceStates, Seen
<1> HIDE DEF marked
<1>10. \A s \in Required : Phase[s] <= boot.phase => marked[s] = "running"
  BY <1>8, <1>9, SettledEffect
<1>11. \A s \in Required : Phase[s] <= boot.phase
  BY <1>8
<1> QED
  BY <1>8, <1>10, <1>11

\* start() leaves the runtime "running" only with every required service up.
THEOREM ReadyIsServed == RuntimeSpec => ReadyMeansServed
<1>1. RuntimeInv /\ [RuntimeNext]_runtimeVars =>
        [boot.alone /\ boot' = NoBoot /\ machine' = "running" =>
           \A s \in Required : service'[s] = "running"]_runtimeVars
  BY ServedStep
<1> QED
  BY <1>1, RuntimeInvariant, PTL DEF RuntimeSpec, ReadyMeansServed

LEMMA DownStep ==
  ASSUME RuntimeInv, RuntimeNext,
         shutdown # "none", loops[stops].alone, loops'[stops] = NoLoop
  PROVE  \A s \in Services \ Throwing : service'[s] \in Down
<1> USE RuntimeAssumption
<1>1. /\ stops \in 1..MaxStops /\ loops[stops].phase \in 0..LastPhase
      /\ loops[stops].phase >= 1 /\ NoLoop.phase = 0
      /\ loops \in [1..MaxStops -> LoopRecord]
  BY DEF RuntimeInv, RuntimeTypeOK, ShutdownHasLoop, NoLoop, LoopRecord
<1>2. ~(UNCHANGED loops)
  BY <1>1
<1>3. ~RuntimeCalls /\ ~GraceExpires /\ ~ConfigFails /\ ~ConfigLoaded /\ ~PhaseSettled
  <2>1. \A mode \in {"graceful", "forced"} : ~Stop(mode)
    BY DEF Stop
  <2> QED
    BY <1>2, <2>1 DEF RuntimeCalls, Start, Pause, ResumeRuntime, Recover, StopRefused, GraceExpires, ConfigFails,
                      ConfigLoaded, PhaseSettled
<1>4. ~HookAnswers
  <2> SUFFICES ASSUME NEW s \in Services, NEW outcome \in Outcomes(s), NEW i \in 1..MaxStops,
                      HookStopped(i, s, outcome)
               PROVE  FALSE
    BY <1>2 DEF HookAnswers, HookStarted, ReloadStopped, ReloadStarted
  <2>1. loops' = [loops EXCEPT ![i].waiting = @ \ {s}]
    BY DEF HookStopped
  <2>2. loops'[stops].phase = loops[stops].phase
    BY <1>1, <2>1 DEF LoopRecord
  <2> QED
    BY <1>1, <2>2
<1>5. PICK i \in 1..MaxStops : LoopNextPhase(i) \/ LoopEnds(i)
  BY <1>3, <1>4 DEF RuntimeNext, LoopAdvances
<1>6. i = stops
  <2> SUFFICES ASSUME i # stops PROVE FALSE
    OBVIOUS
  <2>1. loops'[stops] = loops[stops]
    BY <1>1, <1>5 DEF LoopNextPhase, LoopEnds, StopPhase
  <2> QED
    BY <1>1, <2>1
<1>7. ~LoopNextPhase(i)
  <2> SUFFICES ASSUME LoopNextPhase(i) PROVE FALSE
    OBVIOUS
  <2>1. loops[i].phase > 1 /\ StopPhase(i, loops[i].phase - 1, loops[i].alone)
    BY DEF LoopNextPhase
  <2>2. loops'[i].phase = loops[i].phase - 1
    BY <1>1, <2>1 DEF StopPhase
  <2> QED
    BY <1>1, <1>6, <2>1, <2>2
<1>8. loops[stops].phase = 1 /\ loops[stops].waiting = {} /\ service' = service
  BY <1>5, <1>6, <1>7 DEF LoopEnds
<1>9. \A s \in Services : Phase[s] > 1 \/ Phase[s] = 1
  OBVIOUS
<1> QED
  BY <1>8, <1>9 DEF RuntimeInv, StopProgress

\* A stop() that nothing overlapped ends, when its loop does, with every service
\* stopped whose hooks do not throw.
THEOREM StoppedIsAllDown == RuntimeSpec => StoppedIsDown
<1>1. RuntimeInv /\ [RuntimeNext]_runtimeVars =>
        [shutdown # "none" /\ loops[stops].alone /\ loops'[stops] = NoLoop =>
           \A s \in Services \ Throwing : service'[s] \in Down]_runtimeVars
  BY DownStep
<1> QED
  BY <1>1, RuntimeInvariant, PTL DEF RuntimeSpec, StoppedIsDown

\* An undisturbed stop() is under way.
StopAlone == shutdown # "none" /\ loops[stops].alone

\* Its next step leaves it under way, in "stopping", or is its end, in "stopped".
StopStep ==
  StopAlone => \/ StopAlone' /\ UNCHANGED <<machine, shutdown, stops>>
               \/ shutdown' = "none" /\ machine' = "stopped"

LEMMA StopAloneStep == ASSUME RuntimeInv, RuntimeNext PROVE StopStep
<1> SUFFICES ASSUME StopAlone
             PROVE  \/ StopAlone' /\ UNCHANGED <<machine, shutdown, stops>>
                    \/ shutdown' = "none" /\ machine' = "stopped"
  BY DEF StopStep
<1> USE RuntimeAssumption
<1>1. /\ stops \in 1..MaxStops /\ loops[stops].phase >= 1
      /\ loops \in [1..MaxStops -> LoopRecord]
      /\ shutdown # "none" /\ loops[stops].alone
  BY DEF RuntimeInv, RuntimeTypeOK, ShutdownHasLoop, LoopRecord, StopAlone
<1>2. /\ machine = "stopping" /\ boot = NoBoot /\ recovery = NoRecovery
      /\ \A i \in 1..MaxStops : i # stops => loops[i] = NoLoop
  BY DEF RuntimeInv, StopUndisturbed, StopAlone
<1>3. /\ boot.at = "none" /\ boot.waiting = {} /\ recovery.at = "none"
      /\ NoLoop.phase = 0 /\ NoLoop.waiting = {}
  BY <1>2 DEF NoBoot, NoRecovery, NoLoop
<1>4. After("stopping", "stopped") = "stopped" /\ "recovery" \notin Transitions["stopping"]
  BY DEF After, Transitions
<1>5. CASE RuntimeCalls
  <2>1. ~Start /\ ~Pause /\ ~ResumeRuntime /\ \A mode \in {"graceful", "forced"} : ~Stop(mode)
    BY <1>1, <1>2 DEF Start, Pause, ResumeRuntime, Stop
  <2>2. UNCHANGED <<machine, shutdown, stops, loops>>
    BY <1>2, <1>4, <1>5, <2>1 DEF RuntimeCalls, Recover, StopRefused
  <2> QED
    BY <1>1, <2>2 DEF StopAlone
<1>6. CASE ConfigFails \/ ConfigLoaded \/ PhaseSettled
  BY <1>3, <1>6 DEF ConfigFails, ConfigLoaded, PhaseSettled
<1>7. CASE GraceExpires
  BY <1>2, <1>4, <1>7 DEF GraceExpires, EndShutdown
<1>8. CASE HookAnswers
  <2>1. PICK s \in Services, i \in 1..MaxStops :
               \E outcome \in Outcomes(s) : HookStopped(i, s, outcome)
    BY <1>3, <1>8 DEF HookAnswers, HookStarted, ReloadStopped, ReloadStarted
  <2>2. /\ loops' = [loops EXCEPT ![i].waiting = @ \ {s}]
        /\ UNCHANGED <<machine, shutdown, stops>>
    BY <2>1 DEF HookStopped
  <2>3. loops'[stops].alone = loops[stops].alone
    BY <1>1, <2>2 DEF LoopRecord
  <2> QED
    BY <1>1, <2>2, <2>3 DEF StopAlone
<1>9. CASE LoopAdvances
  <2>1. PICK i \in 1..MaxStops : LoopNextPhase(i) \/ LoopEnds(i)
    BY <1>9 DEF LoopAdvances
  <2>2. i = stops
    BY <1>2, <1>3, <2>1 DEF LoopNextPhase, LoopEnds
  <2>3. CASE LoopNextPhase(i)
    <3>1. /\ loops' = [loops EXCEPT ![i] = [phase   |-> loops[i].phase - 1,
                                            alone   |-> loops[i].alone,
                                            waiting |-> InPhase(loops[i].phase - 1)
                                                          \cap Registered \cap Hooked]]
          /\ UNCHANGED <<machine, shutdown, stops>>
      BY <2>3 DEF LoopNextPhase, StopPhase
    <3>2. loops'[stops].alone = loops[stops].alone
      BY <1>1, <2>2, <3>1
    <3> QED
      BY <1>1, <3>1, <3>2 DEF StopAlone
  <2>4. CASE LoopEnds(i)
    BY <1>1, <1>2, <1>4, <2>2, <2>4 DEF LoopEnds, EndShutdown
  <2> QED
    BY <2>1, <2>3, <2>4
<1> QED
  BY <1>5, <1>6, <1>7, <1>8, <1>9 DEF RuntimeNext

\* A stop() that nothing overlapped ends in "stopped" and nowhere else, whichever
\* wins the race, the loop or the grace timer, and whatever hooks answer and calls
\* are made meanwhile.  (That it ends is GracefulStopEnds.)
THEOREM StopEndsStopped == RuntimeSpec => [][StopStep]_runtimeVars
<1>1. RuntimeInv /\ [RuntimeNext]_runtimeVars => [StopStep]_runtimeVars
  BY StopAloneStep
<1> QED
  BY <1>1, RuntimeInvariant, PTL DEF RuntimeSpec

=============================================================================
