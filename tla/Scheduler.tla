----------------------------- MODULE Scheduler -----------------------------
(***************************************************************************)
(* The scheduling kernel of src-tauri/src/scheduler: twelve queues, a      *)
(* concurrency limiter, a budget pool, a token bucket, a fairness tracker, *)
(* a retry table and a dead-letter queue, all behind the one Mutex of      *)
(* SchedulerManager.                                                       *)
(*                                                                         *)
(* The Mutex makes every command atomic.  tick() is the one command with a *)
(* loop in it, so it is told in steps: TickBegin (aging, readiness, the    *)
(* sorting of waiting units), one Dispatch or BlockOnBudget per turn of    *)
(* the loop, and TickEnd (the loop stops; due retries go back).  While     *)
(* pc = "dispatching" the Mutex is held and no other command runs; only    *)
(* time passes.                                                            *)
(***************************************************************************)
EXTENDS Integers, FiniteSets, FiniteSetsExt

CONSTANTS
  Units,            \* scheduling unit ids
  Kinds,            \* SchedulingUnitKind; also the fairness group of a unit
  Workspaces,       \* workspace ids
  KindOf,           \* Units -> Kinds
  WorkspaceOf,      \* Units -> Workspaces
  Deps,             \* Units -> SUBSET Units: unit.dependencies
  NeedsPermission,  \* units whose required_permissions is not empty
  Estimated,        \* units that carry a budget_estimate
  Estimate,         \* Units -> [Dims -> Nat]
  Limit,            \* Dims -> Nat: the BudgetPoolConfig
  Unlimited,        \* the limit UNLIMITED_BUDGET_POOL has in every dimension
  BasePriority,     \* Units -> 0..Critical, positions in AGING_ORDER
  MaxConcurrency,   \* config.max_concurrency
  MaxPerGroup,      \* config.fairness.max_per_group
  MaxPerWorkspace,  \* config.fairness.max_per_workspace
  NoCap,            \* u32::MAX, the value of a fairness cap that is not set
  MaxAttempts,      \* RetryPolicy.max_attempts (3 in RetryPolicy::default)
  EnableAging,      \* config.enable_aging
  MaxAgingLevels,   \* config.fairness.max_aging_levels
  Old,              \* bound: the units that live for an aging interval and more
  RateCapacity,     \* capacity of the global token bucket
  AppProvider,      \* TRUE: the readiness provider SchedulerManager installs
  Admin,            \* the reset commands in use, a subset of AdminCommands
  Counted           \* units whose failed runs the history counts

\* Two budget dimensions tell the two budget checks apart: the readiness gate
\* looks at the cost only, BudgetPool::can_reserve at every dimension.
Dims == {"cost", "workers"}

Critical == 4     \* the last position of AGING_ORDER

AdminCommands == {"fairness", "concurrency", "budget", "rate", "dead"}

ASSUME UnitsAssumption ==
  /\ IsFiniteSet(Units)
  /\ KindOf \in [Units -> Kinds]
  /\ WorkspaceOf \in [Units -> Workspaces]
  /\ Deps \in [Units -> SUBSET Units]
  /\ NeedsPermission \subseteq Units
  /\ Estimated \subseteq Units
  /\ BasePriority \in [Units -> 0..Critical]

ASSUME ConfigAssumption ==
  /\ Estimate \in [Units -> [Dims -> Nat]]
  /\ Limit \in [Dims -> Nat] /\ Unlimited \in Nat
  /\ MaxConcurrency \in Nat
  /\ MaxPerGroup \in Nat /\ MaxPerWorkspace \in Nat /\ NoCap \in Nat
  /\ MaxAttempts \in Nat /\ MaxAgingLevels \in Nat
  /\ RateCapacity \in Nat /\ Counted \subseteq Units
  /\ EnableAging \in BOOLEAN /\ AppProvider \in BOOLEAN
  /\ Admin \subseteq AdminCommands /\ Old \subseteq Units

VARIABLES
  lifecycle,       \* Idle, Running, Paused or Stopped
  pc,              \* "unlocked", or "dispatching" inside tick()
  queue,           \* QueueKind -> set of units
  state,           \* unit.state
  priority,        \* unit.priority, a position in AGING_ORDER
  age,             \* whole aging intervals since the unit was created
  slots,           \* keys of ConcurrencyLimiter.running
  kindCount,       \* ConcurrencyLimiter.kind_counts
  reservations,    \* keys of BudgetPool.reservations
  consumed,        \* BudgetPool.consumption
  tokens,          \* tokens of the global bucket
  groupCount,      \* ConcurrencyTracker.group_counts
  workspaceCount,  \* ConcurrencyTracker.workspace_counts
  attempt,         \* RetryQueue.entries: the entry's attempt, 0 for no entry
  due,             \* entries whose next_eligible_at has passed
  dead,            \* units with an entry in the DeadQueue
  failedRuns       \* history: fail() calls that found the unit running; kept
                   \* for Counted units, and counted to MaxAttempts (a bound)

concurrencyVars == <<slots, kindCount>>
budgetVars      == <<reservations, consumed>>
fairnessVars    == <<groupCount, workspaceCount>>
retryVars       == <<attempt, due>>
agingVars       == <<priority, age>>
poolVars        == <<concurrencyVars, budgetVars, fairnessVars, tokens>>
vars == <<lifecycle, pc, queue, state, agingVars, poolVars, retryVars, dead,
          failedRuns>>

-----------------------------------------------------------------------------
(* Queues and states *)

WaitQueues ==
  {"DependencyWait", "PermissionWait", "ApprovalWait", "LockWait", "BudgetWait"}
Terminal  == {"Completed", "Failed", "Cancelled"}
QueueKind ==
  {"Incoming", "Runnable", "Running", "Retry"} \cup WaitQueues \cup Terminal

SchedulingState ==
  {"created", "queued", "ready", "running", "completed", "failed", "cancelled",
   "waiting_for_dependencies", "waiting_for_permission",
   "waiting_for_approval", "waiting_for_lock", "waiting_for_budget"}

\* The state a unit is given when the readiness check puts it in queue q.
StateIn(q) ==
  CASE q = "Incoming"       -> "queued"
    [] q = "Runnable"       -> "ready"
    [] q = "DependencyWait" -> "waiting_for_dependencies"
    [] q = "PermissionWait" -> "waiting_for_permission"
    [] q = "ApprovalWait"   -> "waiting_for_approval"
    [] q = "LockWait"       -> "waiting_for_lock"
    [] OTHER                -> "waiting_for_budget"

\* The queues tick() empties and sorts again.
PolledOnce == {"Incoming"}   \* mutant: blocked units are not looked at again
Polled  == {"Incoming"} \cup WaitQueues
Pending == UNION {queue[q] : q \in Polled}

Known == UNION {queue[q] : q \in QueueKind}

CopyTo(u, from, to) ==     \* mutant: the insert without the remove
  queue' = [queue EXCEPT ![to] = @ \cup {u}]
Move(u, from, to) ==
  queue' = [queue EXCEPT ![from] = @ \ {u}, ![to] = @ \cup {u}]

-----------------------------------------------------------------------------
(* Readiness gates *)

\* What one evaluation knows: whether the runtime accepts work, and the set of
\* units that pass each of the other gates.
DefaultContext ==
  [runtime_ready |-> TRUE,
   dependencies  |-> {u \in Units : Deps[u] \subseteq queue["Completed"]},
   permissions   |-> Units \ NeedsPermission,
   approvals     |-> Units \ NeedsPermission,
   locks         |-> Units,
   budget        |-> {u \in Units : u \in Estimated =>
                        consumed["cost"] + Estimate[u]["cost"] <= Limit["cost"]}]

\* The closure of SchedulerManager::initialize: whether a pty session exists,
\* and empty sets and zero counts for the rest.
AppContext(session) ==
  [runtime_ready |-> session,
   dependencies  |-> {u \in Units : Deps[u] = {}},
   permissions   |-> Units \ NeedsPermission,
   approvals     |-> Units \ NeedsPermission,
   locks         |-> Units,
   budget        |-> Units]

Contexts ==
  IF AppProvider THEN {AppContext(session) : session \in BOOLEAN}
                 ELSE {DefaultContext}

\* The queue of the first gate that fails, in the order of all_safety_gates;
\* Runnable when none does.  A unit that fails only the resource gate is sent
\* to Runnable as well: dispatch_ready looks at the capacity again.
TargetQueue(ctx, u) ==
  IF ~ctx.runtime_ready          THEN "Incoming"
  ELSE IF u \notin ctx.dependencies THEN "DependencyWait"
  ELSE IF u \notin ctx.permissions  THEN "PermissionWait"
  ELSE IF u \notin ctx.approvals    THEN "ApprovalWait"
  ELSE IF u \notin ctx.locks        THEN "LockWait"
  ELSE IF u \notin ctx.budget       THEN "BudgetWait"
  ELSE "Runnable"

-----------------------------------------------------------------------------
(* Limits *)

AtMost(a, b)  == IF a <= b THEN a ELSE b
MinusOne(n)   == n - 1    \* mutant: not saturating
LessOne(n)    == IF n = 0 THEN 0 ELSE n - 1    \* saturating_sub(1)

FairPolicy == MaxPerGroup < NoCap \/ MaxPerWorkspace < NoCap
KindShare  == MaxConcurrency \div 2

\* can_acquire, and the half-capacity rule of ConcurrencyPolicy::Fair.
HasCapacityOrOneMore(k) ==   \* mutant: <= for <
  /\ Cardinality(slots) <= MaxConcurrency
  /\ (FairPolicy /\ KindShare > 0) => kindCount[k] <= KindShare
HasCapacity(k) ==
  /\ Cardinality(slots) < MaxConcurrency
  /\ (FairPolicy /\ KindShare > 0) => kindCount[k] < KindShare

\* ConcurrencyTracker::can_schedule
CanSchedule(u) ==
  /\ groupCount[KindOf[u]] < MaxPerGroup
  /\ workspaceCount[WorkspaceOf[u]] < MaxPerWorkspace

\* A dimension whose limit is the unlimited one is not looked at by can_reserve
\* (the readiness gate above compares the cost with whatever limit it has).
Bounded == {d \in Dims : Limit[d] # Unlimited}
CanReserveCost(u) ==        \* mutant: only the cost is checked
  u \in Estimated =>
    \A d \in Bounded \cap {"cost"} : consumed[d] + Estimate[u][d] <= Limit[d]
CanReserve(u) ==
  u \in Estimated =>
    \A d \in Bounded : consumed[d] + Estimate[u][d] <= Limit[d]

Admitted(u) == HasCapacity(KindOf[u]) /\ CanSchedule(u) /\ tokens > 0

\* The root of the Runnable heap: a unit of the highest priority.  The order of
\* arrival, which breaks ties, is left open.
Heads == {u \in queue["Runnable"] :
            \A v \in queue["Runnable"] : priority[v] <= priority[u]}

\* What cancel, complete and fail all give back, whatever the unit held.
\* ConcurrencyLimiter::release
ReleaseSlotBlindly(u) ==   \* mutant: the count goes down for any unit
  /\ slots' = slots \ {u}
  /\ kindCount' = [kindCount EXCEPT ![KindOf[u]] = @ - 1]
ReleaseSlot(u) ==
  /\ slots' = slots \ {u}
  /\ kindCount' = IF u \in slots
                    THEN [kindCount EXCEPT ![KindOf[u]] = @ - 1] ELSE kindCount

\* BudgetPool::release
ReleaseEstimate(u) ==      \* mutant: the estimate, not the reservation, is freed
  /\ reservations' = reservations \ {u}
  /\ consumed' = IF u \in Estimated
                   THEN [d \in Dims |-> consumed[d] - Estimate[u][d]] ELSE consumed
ReleaseBudget(u) ==
  /\ reservations' = reservations \ {u}
  /\ consumed' = IF u \in reservations
                   THEN [d \in Dims |-> consumed[d] - Estimate[u][d]]
                   ELSE consumed

\* ConcurrencyTracker::release
ReleaseFairness(u) ==
  /\ groupCount' = [groupCount EXCEPT ![KindOf[u]] = LessOne(@)]
  /\ workspaceCount' = [workspaceCount EXCEPT ![WorkspaceOf[u]] = LessOne(@)]

\* RateLimiter::return_tokens
ReturnToken == tokens' = AtMost(tokens + 1, RateCapacity)

Release(u) ==
  ReleaseSlot(u) /\ ReleaseBudget(u) /\ ReleaseFairness(u) /\ ReturnToken

-----------------------------------------------------------------------------
(* Initial state *)

Init ==
  /\ lifecycle = "Idle"
  /\ pc = "unlocked"
  /\ queue = [q \in QueueKind |-> {}]
  /\ state = [u \in Units |-> "created"]
  /\ priority = BasePriority
  /\ age = [u \in Units |-> 0]
  /\ slots = {}
  /\ kindCount = [k \in Kinds |-> 0]
  /\ reservations = {}
  /\ consumed = [d \in Dims |-> 0]
  /\ tokens = RateCapacity
  /\ groupCount = [k \in Kinds |-> 0]
  /\ workspaceCount = [w \in Workspaces |-> 0]
  /\ attempt = [u \in Units |-> 0]
  /\ due = {}
  /\ dead = {}
  /\ failedRuns = [u \in Units |-> 0]

-----------------------------------------------------------------------------
(* Lifecycle commands: none of them touches the queues *)

LifecycleStep(from, to) ==
  /\ pc = "unlocked"
  /\ lifecycle \in from
  /\ lifecycle' = to
  /\ UNCHANGED <<pc, queue, state, agingVars, poolVars, retryVars, dead,
                 failedRuns>>

Start  == LifecycleStep({"Idle", "Stopped"}, "Running")
Stop   == LifecycleStep({"Running", "Paused"}, "Stopped")
Pause  == LifecycleStep({"Running"}, "Paused")
Resume == LifecycleStep({"Paused"}, "Running")

-----------------------------------------------------------------------------
(* Unit commands: accepted in every lifecycle state *)

\* Ids are unique: a client enqueues an id once.
Enqueue(u) ==
  /\ pc = "unlocked"
  /\ u \notin Known
  /\ queue' = [queue EXCEPT !["Incoming"] = @ \cup {u}]
  /\ state' = [state EXCEPT ![u] = "queued"]
  /\ UNCHANGED <<lifecycle, pc, agingVars, poolVars, retryVars, dead,
                 failedRuns>>

\* remove_from_all_queues looks in every queue, the terminal ones included.
\* The unit's retry entry stays.
Cancel(u) ==
  /\ pc = "unlocked"
  /\ \E q \in QueueKind : u \in queue[q] /\ Move(u, q, "Cancelled")
  /\ Release(u)
  /\ state' = [state EXCEPT ![u] = "cancelled"]
  /\ UNCHANGED <<lifecycle, pc, agingVars, retryVars, dead, failedRuns>>

\* unit.state is not assigned: it stays "running", and no command ever gives a
\* unit the state "completed" that test_complete_running_unit expects here.
Complete(u) ==
  /\ pc = "unlocked"
  /\ u \in queue["Running"]
  /\ Move(u, "Running", "Completed")
  /\ Release(u)
  /\ UNCHANGED <<lifecycle, pc, state, agingVars, retryVars, dead, failedRuns>>

\* schedule_retry(attempt + 1): the category is in retry_on and an attempt is left.
MayRetry(u, retryable) == retryable /\ attempt[u] + 1 < MaxAttempts

FailRecordsLastAttempt(u, retryable) ==   \* mutant: only used-up units are recorded
  /\ pc = "unlocked"
  /\ \E q \in QueueKind :
       /\ u \in queue[q]
       /\ Move(u, q, IF MayRetry(u, retryable) THEN "Retry" ELSE "Failed")
  /\ Release(u)
  /\ state' = [state EXCEPT ![u] = "failed"]
  /\ attempt' = [attempt EXCEPT ![u] = IF MayRetry(u, retryable) THEN @ + 2 ELSE @]
  /\ dead' = IF attempt[u] > 0 /\ ~MayRetry(u, retryable) THEN dead \cup {u} ELSE dead
  /\ UNCHANGED <<lifecycle, pc, agingVars, due, failedRuns>>
Fail(u, retryable) ==
  /\ pc = "unlocked"
  /\ failedRuns' = IF u \in Counted \cap queue["Running"]
                     THEN [failedRuns EXCEPT ![u] = AtMost(@ + 1, MaxAttempts)]
                     ELSE failedRuns
  /\ \E q \in QueueKind :
       /\ u \in queue[q]
       /\ Move(u, q, IF MayRetry(u, retryable) THEN "Retry" ELSE "Failed")
  /\ Release(u)
  /\ IF MayRetry(u, retryable)
       THEN /\ attempt' = [attempt EXCEPT ![u] = @ + 2]
            /\ due' = due \ {u}
            /\ state' = [state EXCEPT ![u] = "queued"]
            /\ UNCHANGED dead
       ELSE /\ state' = [state EXCEPT ![u] = "failed"]
            /\ dead' = dead \cup {u}
            /\ UNCHANGED retryVars
  /\ UNCHANGED <<lifecycle, pc, agingVars>>

-----------------------------------------------------------------------------
(* tick() *)

\* apply_aging looks at the wait queues only, and starts from the priority the
\* last tick left.
AgedPriority ==
  [u \in Units |->
     IF EnableAging /\ \E q \in WaitQueues : u \in queue[q]
       THEN AtMost(priority[u] + age[u], Critical) ELSE priority[u]]

\* process_incoming and reevaluate_blocked under one context.
SortedReady(ctx) ==        \* mutant: blocked units are not put back
  [q \in QueueKind |->
     IF q = "Runnable" THEN queue[q] \cup {u \in Pending : TargetQueue(ctx, u) = q}
     ELSE IF q \in Polled THEN {} ELSE queue[q]]
Sorted(ctx) ==
  [q \in QueueKind |->
     {u \in Pending : TargetQueue(ctx, u) = q} \cup
     (IF q \in Polled THEN {} ELSE queue[q])]

TickBeginAnyTime ==        \* mutant: the lifecycle is not looked at
  /\ pc = "unlocked"
  /\ pc' = "dispatching"
  /\ priority' = AgedPriority
  /\ queue' = Sorted(DefaultContext)
  /\ UNCHANGED <<lifecycle, age, state, poolVars, retryVars, dead, failedRuns>>
TickBegin ==
  /\ pc = "unlocked"
  /\ lifecycle = "Running"
  /\ pc' = "dispatching"
  /\ priority' = AgedPriority
  /\ \E ctx \in Contexts :
       /\ queue' = Sorted(ctx)
       /\ state' = [u \in Units |-> IF u \in Pending
                                      THEN StateIn(TargetQueue(ctx, u))
                                      ELSE state[u]]
  /\ UNCHANGED <<lifecycle, age, poolVars, retryVars, dead, failedRuns>>

Dispatch(u) ==
  /\ pc = "dispatching"
  /\ u \in Heads
  /\ Admitted(u)
  /\ CanReserve(u)
  /\ Move(u, "Runnable", "Running")
  /\ state' = [state EXCEPT ![u] = "running"]
  /\ tokens' = tokens - 1
  /\ reservations' = reservations \cup ({u} \cap Estimated)
  /\ consumed' = IF u \in Estimated
                   THEN [d \in Dims |-> consumed[d] + Estimate[u][d]]
                   ELSE consumed
  /\ slots' = slots \cup {u}
  /\ kindCount' = [kindCount EXCEPT ![KindOf[u]] = @ + 1]
  /\ groupCount' = [groupCount EXCEPT ![KindOf[u]] = @ + 1]
  /\ workspaceCount' = [workspaceCount EXCEPT ![WorkspaceOf[u]] = @ + 1]
  /\ UNCHANGED <<lifecycle, pc, agingVars, retryVars, dead, failedRuns>>

BlockOnBudgetLate(u) ==    \* mutant: the fairness count is taken first and kept
  /\ pc = "dispatching" /\ u \in Heads /\ Admitted(u) /\ ~CanReserve(u)
  /\ Move(u, "Runnable", "BudgetWait")
  /\ groupCount' = [groupCount EXCEPT ![KindOf[u]] = @ + 1]
  /\ UNCHANGED <<lifecycle, pc, state, agingVars, concurrencyVars, budgetVars,
                 workspaceCount, tokens, retryVars, dead, failedRuns>>
\* The loop goes on with the next unit; the token is given back.
BlockOnBudget(u) ==
  /\ pc = "dispatching"
  /\ u \in Heads
  /\ Admitted(u)
  /\ ~CanReserve(u)
  /\ Move(u, "Runnable", "BudgetWait")
  /\ state' = [state EXCEPT ![u] = "queued"]
  /\ UNCHANGED <<lifecycle, pc, agingVars, poolVars, retryVars, dead,
                 failedRuns>>

TickEndInto(to, keep) ==   \* mutants below: where due units go, and who stays
  LET back == {u \in due : attempt[u] > 0 /\ u \in queue["Retry"]} IN
  /\ pc = "dispatching"
  /\ queue["Runnable"] = {} \/ \E u \in Heads : ~Admitted(u)
  /\ pc' = "unlocked"
  /\ queue' = [queue EXCEPT !["Retry"] = IF keep THEN @ ELSE @ \ back,
                            ![to] = IF keep THEN @ ELSE @ \cup back]
  /\ attempt' = [u \in Units |-> IF u \in back THEN 0 ELSE attempt[u]]
  /\ due' = due \ back
  /\ UNCHANGED <<lifecycle, state, agingVars, poolVars, dead, failedRuns>>
TickEndForgets    == TickEndInto("Incoming", TRUE)    \* the entry goes, the unit stays
TickEndSkipsGates == TickEndInto("Runnable", FALSE)   \* retries become Runnable
\* The loop breaks at the first head that is not admitted, whatever is behind
\* it.  process_retries then hands the due units to Incoming and forgets their
\* entries; an entry whose unit is not in Retry is left.
TickEnd ==
  LET back == {u \in due : attempt[u] > 0 /\ u \in queue["Retry"]} IN
  /\ pc = "dispatching"
  /\ queue["Runnable"] = {} \/ \E u \in Heads : ~Admitted(u)
  /\ pc' = "unlocked"
  /\ queue' = [queue EXCEPT !["Retry"] = @ \ back, !["Incoming"] = @ \cup back]
  /\ state' = [u \in Units |-> IF u \in back THEN "queued" ELSE state[u]]
  /\ attempt' = [u \in Units |-> IF u \in back THEN 0 ELSE attempt[u]]
  /\ due' = due \ back
  /\ UNCHANGED <<lifecycle, agingVars, poolVars, dead, failedRuns>>

-----------------------------------------------------------------------------
(* Reset commands of scheduler_cmd.rs *)

ResetStep(command) == pc = "unlocked" /\ command \in Admin

FairnessReset ==
  /\ ResetStep("fairness")
  /\ groupCount' = [k \in Kinds |-> 0]
  /\ workspaceCount' = [w \in Workspaces |-> 0]
  /\ UNCHANGED <<lifecycle, pc, queue, state, agingVars, concurrencyVars,
                 budgetVars, tokens, retryVars, dead, failedRuns>>

ConcurrencyReset ==
  /\ ResetStep("concurrency")
  /\ slots' = {}
  /\ kindCount' = [k \in Kinds |-> 0]
  /\ UNCHANGED <<lifecycle, pc, queue, state, agingVars, budgetVars,
                 fairnessVars, tokens, retryVars, dead, failedRuns>>

BudgetReset ==
  /\ ResetStep("budget")
  /\ reservations' = {}
  /\ consumed' = [d \in Dims |-> 0]
  /\ UNCHANGED <<lifecycle, pc, queue, state, agingVars, concurrencyVars,
                 fairnessVars, tokens, retryVars, dead, failedRuns>>

RateLimiterReset ==
  /\ ResetStep("rate")
  /\ tokens' = RateCapacity
  /\ UNCHANGED <<lifecycle, pc, queue, state, agingVars, concurrencyVars,
                 budgetVars, fairnessVars, retryVars, dead, failedRuns>>

\* dead_queue_remove for one unit; dead_queue_clear removes them all.
DeadQueueRemove(removed) ==
  /\ ResetStep("dead")
  /\ dead' = dead \ removed
  /\ UNCHANGED <<lifecycle, pc, queue, state, agingVars, poolVars, retryVars,
                 failedRuns>>

-----------------------------------------------------------------------------
(* Time: the clocks the commands read go on at any moment *)

Refill ==
  /\ tokens < RateCapacity
  /\ tokens' = tokens + 1
  /\ UNCHANGED <<lifecycle, pc, queue, state, agingVars, concurrencyVars,
                 budgetVars, fairnessVars, retryVars, dead, failedRuns>>

RetryDue(u) ==
  /\ attempt[u] > 0 /\ u \notin due
  /\ due' = due \cup {u}
  /\ UNCHANGED <<lifecycle, pc, queue, state, agingVars, poolVars, attempt,
                 dead, failedRuns>>

\* Levels beyond max_aging_levels are never used, so age stops there.
Age(u) ==
  /\ EnableAging
  /\ u \in Known \cap Old /\ age[u] < MaxAgingLevels
  /\ age' = [age EXCEPT ![u] = @ + 1]
  /\ UNCHANGED <<lifecycle, pc, queue, state, priority, poolVars, retryVars,
                 dead, failedRuns>>

-----------------------------------------------------------------------------

LifecycleCommand == Start \/ Stop \/ Pause \/ Resume

UnitCommand ==
  \E u \in Units :
    \/ Enqueue(u)
    \/ Cancel(u)
    \/ Complete(u)
    \/ \E retryable \in BOOLEAN : Fail(u, retryable)

Tick ==
  \/ TickBegin
  \/ \E u \in Units : Dispatch(u) \/ BlockOnBudget(u)
  \/ TickEnd

AdminCommand ==
  \/ FairnessReset \/ ConcurrencyReset \/ BudgetReset \/ RateLimiterReset
  \/ DeadQueueRemove(Units)
  \/ \E u \in dead : DeadQueueRemove({u})

Time ==
  \/ Refill
  \/ \E u \in Units : RetryDue(u) \/ Age(u)

Next == LifecycleCommand \/ UnitCommand \/ Tick \/ AdminCommand \/ Time

Spec == Init /\ [][Next]_vars

\* What the worker of a running unit sends in the end: a success or a failure.
Failure(u) == \E retryable \in BOOLEAN : Fail(u, retryable)
Report(u)  == u \in queue["Running"] /\ (Complete(u) \/ Failure(u))

\* A client that goes on calling tick() while the scheduler is Running, workers
\* that report every running unit in the end, with either outcome (the Mutex is
\* taken by other commands again and again, hence SF), and clocks that advance.
Fairness ==
  /\ WF_vars(Tick)
  /\ \A u \in Units : SF_vars(Report(u))
  /\ WF_vars(Refill)
  /\ \A u \in Units : WF_vars(RetryDue(u))

FairSpec == Spec /\ Fairness
-----------------------------------------------------------------------------
(* Properties.  OfKind, OfWorkspace and Total are what the counters should
   say. *)

Having(f, x, S)   == {u \in S : f[u] = x}
OfKind(k, S)      == Having(KindOf, k, S)
OfWorkspace(w, S) == Having(WorkspaceOf, w, S)

\* The values every variable ranges over.  Counters of the maps in the code are
\* unsigned: the type says that no release takes one below zero.
TypeOK ==
  /\ lifecycle \in {"Idle", "Running", "Paused", "Stopped"}
  /\ pc \in {"unlocked", "dispatching"}
  /\ queue \in [QueueKind -> SUBSET Units]
  /\ state \in [Units -> SchedulingState]
  /\ priority \in [Units -> 0..Critical]
  /\ age \in [Units -> 0..MaxAgingLevels]
  /\ slots \subseteq Units
  /\ kindCount \in [Kinds -> Nat]
  /\ reservations \subseteq Estimated
  /\ consumed \in [Dims -> Int]
  /\ tokens \in 0..RateCapacity
  /\ groupCount \in [Kinds -> Nat]
  /\ workspaceCount \in [Workspaces -> Nat]
  /\ attempt \in [Units -> Nat]
  /\ due \subseteq Units
  /\ dead \subseteq Units
  /\ failedRuns \in [Units -> Nat]

\* A unit is in one queue at most: the twelve heaps are moved between by a
\* remove and an insert each, and remove_from_all_queues stops at the first hit.
OnePlace ==
  \A p, q \in QueueKind : p # q => queue[p] \cap queue[q] = {}

\* No command loses a unit: what was ever enqueued stays in some queue.  tick()
\* drains six queues into vectors and has to put every unit back.
NothingLost == [][Known \subseteq Known']_vars

\* The limiter's slots are the Running queue, and its per-kind counts count it:
\* complete, cancel and fail may meet a unit anywhere and release blindly.
SlotsMatchRunning ==
  /\ slots = queue["Running"]
  /\ \A k \in Kinds : kindCount[k] = Cardinality(OfKind(k, slots))

\* At most max_concurrency units run and, under the fair policy, at most half
\* of them (rounded down) are of one kind.
CapacityBound ==
  /\ Cardinality(queue["Running"]) <= MaxConcurrency
  /\ (FairPolicy /\ KindShare > 0) =>
       \A k \in Kinds : Cardinality(OfKind(k, queue["Running"])) <= KindShare

\* The reservations are those of the running units that carry an estimate, and
\* the pool's consumption is their sum: a release gives back what the
\* reservation took, once, and nothing for a unit that never reserved.
Total(d, S) == MapThenSumSet(LAMBDA u : Estimate[u][d], S)
BudgetMatchesRunning ==
  /\ reservations = queue["Running"] \cap Estimated
  /\ \A d \in Dims : consumed[d] = Total(d, reservations)

\* The hard budget holds in every dimension that has one, with the units that tick() has
\* moved on the strength of a consumption read before the others were started.
BudgetNeverExceeded == \A d \in Bounded : consumed[d] <= Limit[d]

\* The fairness tracker never counts a unit that does not run: a leaked count
\* would lower the cap of its group or workspace for good.
NoFairnessLeak ==
  /\ \A k \in Kinds : groupCount[k] <= Cardinality(OfKind(k, queue["Running"]))
  /\ \A w \in Workspaces :
       workspaceCount[w] <= Cardinality(OfWorkspace(w, queue["Running"]))

\* A unit in the Retry queue has the entry that will bring it back.
RetryHasEntry == \A u \in queue["Retry"] : attempt[u] > 0

\* A failed unit is on record in the dead-letter queue, however it got there,
\* unless an administrator took the record away.
FailedIsRecorded == "dead" \in Admin \/ queue["Failed"] \subseteq dead

\* Gates are evaluated before every start, retries included: a unit becomes
\* Runnable only out of a polled queue, needing no permission, and with its
\* dependencies Completed at that moment.
GatesBeforeRunnable ==
  [][\A u \in queue'["Runnable"] \ queue["Runnable"] :
       /\ u \in Pending
       /\ u \notin NeedsPermission
       /\ Deps[u] \subseteq queue["Completed"]]_vars

\* The abstract admission gate is implemented, with the Running queue as the
\* active set.
Admission == INSTANCE Admission WITH
  open <- lifecycle = "Running", active <- queue["Running"],
  Capacity <- MaxConcurrency,
  KindRoom <- IF FairPolicy /\ KindShare > 0 THEN KindShare ELSE MaxConcurrency
ImplementsAdmission == Admission!Spec

\* Liveness is stated for a scheduler that stays Running from some time on.
StaysRunning == <>[](lifecycle = "Running")

\* ... and for workers that stop failing at some time, with nothing said of how
\* often they failed before.
FailuresEnd == <>[][~ \E u \in Units : Failure(u)]_vars

\* A unit that waits for dependencies which are all Completed is released,
\* unless one of them is taken out of Completed again.
DependenciesReleaseUnits ==
  StaysRunning => \A u \in {v \in Units : Deps[v] # {}} :
    (u \in queue["DependencyWait"] /\ Deps[u] \subseteq queue["Completed"])
      ~> ~(u \in queue["DependencyWait"] /\ Deps[u] \subseteq queue["Completed"])

\* A unit that needs no permission and no dependency, and whose estimate fits
\* the budget alone, comes to a terminal queue, through all its retries and
\* behind heads without capacity, share or token, which stop the loop for
\* everything behind them.  FailuresEnd is needed: a unit that goes on failing is
\* retried for ever (RetryAttemptsBounded), and ahead of units of lower priority.
Unhindered ==
  {u \in Units \ NeedsPermission :
     /\ Deps[u] = {}
     /\ u \in Estimated => \A d \in Bounded : Estimate[u][d] <= Limit[d]}
EventuallySettles ==
  StaysRunning /\ FailuresEnd => \A u \in Unhindered :
    (u \in Known) ~> (\E q \in Terminal : u \in queue[q])

-----------------------------------------------------------------------------
(* What the documents, a comment and a test say, and the code does not do. *)

\* Scheduler-Diagrams.md: a unit whose attempts are used up goes to the failed
\* queue.  So a unit that failed max_attempts times does not wait for a retry.
RetryAttemptsBounded ==
  \A u \in Units : failedRuns[u] >= MaxAttempts => u \notin queue["Retry"]

\* test_enqueue_and_tick_respects_concurrency_limit: a tick with work left over,
\* which no fairness cap and no rate limit holds back, ends with every slot used.
TickFillsSlots ==
  [][ ( /\ pc = "dispatching" /\ pc' = "unlocked"
        /\ queue["Runnable"] # {} /\ tokens > 0
        /\ \A u \in queue["Runnable"] : CanSchedule(u) )
      => Cardinality(queue["Running"]) = MaxConcurrency ]_vars

\* fairness.rs: promotions are capped at config.max_aging_levels.
AgingCapped ==
  \A u \in Units : priority[u] <= BasePriority[u] + MaxAgingLevels
=============================================================================
