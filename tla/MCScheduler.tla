---------------------------- MODULE MCScheduler ----------------------------
(* The instances of Scheduler that TLC checks. *)
EXTENDS Scheduler, TLC

CONSTANTS u1, u2, u3, task, merge, w1, w2

ThreeUnits == {u1, u2, u3}
TwoUnits   == {u1, u2}

\* Two tasks in one workspace and a merge in another; u2 waits for u1.
MCKindOf      == [u \in Units |-> IF u = u3 THEN merge ELSE task]
MCWorkspaceOf == [u \in Units |-> IF u = u3 THEN w2 ELSE w1]
MCDeps        == [u \in Units |-> IF u = u2 THEN {u1} ELSE {}]
NoDeps        == [u \in Units |-> {}]

\* u1 and u3 fit the budget one after the other and not together: u3 passes the
\* readiness gate, which looks at the cost, and meets the workers in can_reserve.
OneEstimate == {u1, u3}
MCEstimate  == [u \in Units |-> [d \in Dims |-> 1]]
MCLimit     == [d \in Dims |-> IF d = "cost" THEN 2 ELSE 1]

\* the cost without a limit, one worker
OnlyWorkers == [d \in Dims |-> IF d = "cost" THEN Unlimited ELSE 1]

MCPriority == [u \in Units |-> IF u = u3 THEN 3 ELSE 2]

\* tasks before the merge: a task that has no share blocks the merge behind it
TaskFirst == [u \in Units |-> IF u = u3 THEN 2 ELSE 3]

OnlyU1 == {u1}
OnlyU2 == {u2}
None == {}
=============================================================================
