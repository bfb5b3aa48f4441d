---------------------------- MODULE SessionManager ----------------------------
(***************************************************************************)
(* The session manager (src/session/session-manager.ts) on the state       *)
(* machine of src/state/session-state.ts.  A call logs the event of the    *)
(* state it asks for before the transition is tried, so the log of a       *)
(* session also holds the events of transitions that were refused.         *)
(***************************************************************************)
EXTENDS Integers, Sequences, FiniteSets, SequencesExt

CONSTANTS
  Sessions,     \* the sessions that may be created
  Workers,      \* the workers that may be added to them
  Requests,     \* the states transitionSession() is asked for directly
  MaxActive,    \* maxActiveSessions
  MaxWorkers,   \* maxWorkersPerSession
  MaxCalls      \* bound: calls that are let in

SessionStates ==
  {"created", "initializing", "loading_workspace", "starting_services", "running",
   "paused", "resumed", "completing", "completed", "archived", "failed",
   "cancelled", "recovering"}

ASSUME SessionAssumption ==
  /\ IsFiniteSet(Sessions)
  /\ MaxActive \in Nat \ {0} /\ MaxWorkers \in Nat /\ MaxCalls \in Nat
  /\ Requests \subseteq SessionStates \ {"created"}

VARIABLES
  session,       \* session -> its state, "none" before it is created
  workers,       \* session -> activeWorkerIds
  log,           \* session -> its events
  activeSession, \* activeSessionId, as a set of at most one
  calls          \* bound counter

sessionVars == <<session, workers, log, activeSession, calls>>

SessionTransitions ==
  [created           |-> {"initializing", "cancelled"},
   initializing      |-> {"loading_workspace", "failed", "cancelled"},
   loading_workspace |-> {"starting_services", "failed", "cancelled"},
   starting_services |-> {"running", "failed", "cancelled"},
   running           |-> {"paused", "completing", "failed", "cancelled"},
   paused            |-> {"resumed", "cancelled"},
   resumed           |-> {"running", "paused", "completing", "failed", "cancelled"},
   completing        |-> {"completed", "failed"},
   completed         |-> {"archived"},
   archived          |-> {},
   failed            |-> {"recovering", "cancelled"},
   cancelled         |-> {},
   recovering        |-> {"running", "failed", "cancelled"}]

SessionTerminal == {"completed", "archived", "failed", "cancelled"}

Known == {s \in Sessions : session[s] # "none"}
Live == {s \in Known : session[s] \notin SessionTerminal}

SessionInit ==
  /\ session = [s \in Sessions |-> "none"]
  /\ workers = [s \in Sessions |-> {}]
  /\ log = [s \in Sessions |-> <<>>]
  /\ activeSession = {}
  /\ calls = 0

\* Each operation is synchronous up to its end: one call, one step.
Call ==
  /\ calls < MaxCalls
  /\ calls' = calls + 1

\* The event of a state, as a tuple like the events of workers.
Entered(state) == <<state>>

\* emitEvent(): the sequence number is the place in the session's own log.
Emit(s, events) == log' = [log EXCEPT ![s] = @ \o events]

-----------------------------------------------------------------------------
CreateSession(s) ==
  /\ Call
  /\ session[s] = "none"
  /\ Cardinality(Live) < MaxActive
  /\ session' = [session EXCEPT ![s] = "created"]
  /\ Emit(s, <<Entered("created")>>)
  /\ activeSession' = {s}
  /\ UNCHANGED workers

AdvanceUnchecked(s, to) ==          \* mutant: the table is not looked at
  Emit(s, <<Entered(to)>>) /\ session' = [session EXCEPT ![s] = to] /\ UNCHANGED workers
\* transitionSession(): the event is emitted, then the transition is tried.
Advance(s, to) ==
  /\ Emit(s, <<Entered(to)>>)
  /\ session' = IF to \in SessionTransitions[session[s]]
                THEN [session EXCEPT ![s] = to] ELSE session
  /\ UNCHANGED workers

\* A call of several transitions ends at the first that throws.  Where the first
\* is legal the others are.
AdvanceAll(s, path) ==
  IF path[1] \in SessionTransitions[session[s]]
  THEN /\ Emit(s, [i \in 1..Len(path) |-> Entered(path[i])])
       /\ session' = [session EXCEPT ![s] = Last(path)]
       /\ UNCHANGED workers
  ELSE Advance(s, path[1])

ReleaseAlways(s) ==                 \* mutant: it is given up by a call that throws, too
  activeSession' = activeSession \ {s}
\* The active id is given up only by a call that did not throw.
Release(s) ==
  activeSession' = IF session'[s] # session[s] THEN activeSession \ {s} ELSE activeSession

TransitionSession(s, to) ==
  /\ Call /\ s \in Known
  /\ Advance(s, to)
  /\ UNCHANGED activeSession

PauseSession(s) == TransitionSession(s, "paused")
ArchiveSession(s) == TransitionSession(s, "archived")

InitializeSession(s) ==
  /\ Call /\ s \in Known
  /\ AdvanceAll(s, <<"initializing", "loading_workspace", "starting_services", "running">>)
  /\ UNCHANGED activeSession

ResumeSession(s) ==
  /\ Call /\ s \in Known
  /\ AdvanceAll(s, <<"resumed", "running">>)
  /\ UNCHANGED activeSession

CompleteSession(s) ==
  /\ Call /\ s \in Known
  /\ AdvanceAll(s, <<"completing", "completed">>)
  /\ Release(s)

\* failSession() and cancelSession()
EndSession(s, to) ==
  /\ Call /\ s \in Known
  /\ Advance(s, to)
  /\ Release(s)

JoinedSession(s, w) == workers[s] \cup {s}   \* mutant: ids mixed up
\* addWorker() keeps a worker once.
Joined(s, w) == workers[s] \cup {w}

\* The event is emitted for a worker the session already has, too.
AddWorker(s, w) ==
  /\ Call /\ s \in Known
  /\ Cardinality(workers[s]) < MaxWorkers
  /\ workers' = [workers EXCEPT ![s] = Joined(s, w)]
  /\ Emit(s, <<<<"worker_added", w>>>>)
  /\ UNCHANGED <<session, activeSession>>

\* .. and for one it does not have.
RemoveWorker(s, w) ==
  /\ Call /\ s \in Known
  /\ workers' = [workers EXCEPT ![s] = @ \ {w}]
  /\ Emit(s, <<<<"worker_removed", w>>>>)
  /\ UNCHANGED <<session, activeSession>>

SessionNext ==
  \E s \in Sessions :
    \/ CreateSession(s) \/ InitializeSession(s)
    \/ PauseSession(s) \/ ResumeSession(s)
    \/ CompleteSession(s) \/ ArchiveSession(s)
    \/ EndSession(s, "failed") \/ EndSession(s, "cancelled")
    \/ \E to \in Requests : TransitionSession(s, to)
    \/ \E w \in Workers : AddWorker(s, w) \/ RemoveWorker(s, w)

SessionSpec == SessionInit /\ [][SessionNext]_sessionVars

-----------------------------------------------------------------------------
(* Properties *)

StateEvents == {Entered(state) : state \in SessionStates}
WorkerEvents == {"worker_added", "worker_removed"} \X Workers

\* The states of sessions, their workers, their logs and the active one.
SessionTypeOK ==
  /\ session \in [Sessions -> SessionStates \cup {"none"}]
  /\ workers \in [Sessions -> SUBSET Workers]
  /\ log \in [Sessions -> Seq(StateEvents \cup WorkerEvents)]
  /\ activeSession \in SUBSET Sessions
  /\ calls \in 0..MaxCalls

\* What is left of a state after reading an event: an event of a transition
\* that is not legal is one that was refused.
ReadEvent(state, event) ==
  IF event \in WorkerEvents THEN state
  ELSE IF state = "none" \/ event[1] \in SessionTransitions[state] THEN event[1]
  ELSE state

Replay(seq) == FoldLeft(ReadEvent, "none", seq)

About(event, w) == event \in WorkerEvents /\ event[2] = w
LastAbout(seq, w) == SelectLastInSeq(seq, LAMBDA e : About(e, w))

\* The log of a session, refused transitions and workers added twice included,
\* is enough to tell its state and its workers.
LogTells ==
  \A s \in Sessions :
    /\ session[s] = Replay(log[s])
    /\ \A w \in Workers :
         w \in workers[s] <=>
           /\ LastAbout(log[s], w) > 0
           /\ log[s][LastAbout(log[s], w)][1] = "worker_added"

\* With one session allowed at a time, a session that was not brought back from
\* failure is live only as the active one: no other path forgets a live session
\* or keeps two of them.
LiveIsActive ==
  MaxActive = 1 =>
    \A s \in Live : Entered("recovering") \in ToSet(log[s]) \/ activeSession = {s}

=============================================================================
