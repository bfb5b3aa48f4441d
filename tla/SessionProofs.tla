---------------------------- MODULE SessionProofs ----------------------------
(***************************************************************************)
(* What holds of the session manager for every set of sessions and every   *)
(* limit.                                                                  *)
(***************************************************************************)
EXTENDS SessionManager, FiniteSetTheorems, WellFoundedInduction, TLAPS

Events == StateEvents \cup WorkerEvents

\* The live sessions that were not brought back from failure keep to the limit of
\* createSession(), which counts all that are live.
Ordinary == {s \in Live : Entered("recovering") \notin ToSet(log[s])}
LiveWithin == Cardinality(Ordinary) <= MaxActive

\* LiveIsActive and LiveWithin are inductive with the types of the variables.
SessionInv == SessionTypeOK /\ LiveIsActive /\ LiveWithin

-----------------------------------------------------------------------------
(* Facts about the operators *)

\* Every transition of the table leads from a state to a state, and out of a
\* terminal state only back through "recovering".
LEMMA TransitionsType ==
  \A from \in SessionStates :
    /\ SessionTransitions[from] \subseteq SessionStates
    /\ from \in SessionTerminal =>
         \A to \in SessionTransitions[from] : to \in SessionTerminal \/ to = "recovering"
BY DEF SessionTransitions, SessionStates, SessionTerminal

\* What a log holds after events were added at its end.
LEMMA ToSetAppended ==
  ASSUME NEW S, NEW seq \in Seq(S), NEW events \in Seq(S)
  PROVE  /\ seq \o events \in Seq(S)
         /\ ToSet(seq) \subseteq ToSet(seq \o events)
         /\ ToSet(events) \subseteq ToSet(seq \o events)
<1>1. /\ Len(seq \o events) = Len(seq) + Len(events)
      /\ seq \o events \in Seq(S)
      /\ \A i \in 1..Len(seq) : (seq \o events)[i] = seq[i]
      /\ \A i \in 1..Len(events) : (seq \o events)[i + Len(seq)] = events[i]
      /\ Len(seq) \in Nat /\ Len(events) \in Nat
      /\ DOMAIN seq = 1..Len(seq) /\ DOMAIN events = 1..Len(events)
      /\ DOMAIN (seq \o events) = 1..Len(seq \o events)
  OBVIOUS
<1>2. ToSet(seq) \subseteq ToSet(seq \o events)
  <2> SUFFICES ASSUME NEW i \in 1..Len(seq)
               PROVE  \E j \in 1..Len(seq \o events) : (seq \o events)[j] = seq[i]
    BY <1>1 DEF ToSet
  <2>1. i \in 1..Len(seq \o events)
    BY <1>1
  <2> QED
    BY <1>1, <2>1
<1>3. ToSet(events) \subseteq ToSet(seq \o events)
  <2> SUFFICES ASSUME NEW i \in 1..Len(events)
               PROVE  \E j \in 1..Len(seq \o events) : (seq \o events)[j] = events[i]
    BY <1>1 DEF ToSet
  <2>1. i + Len(seq) \in 1..Len(seq \o events)
    BY <1>1
  <2> QED
    BY <1>1, <2>1
<1> QED
  BY <1>1, <1>2, <1>3

-----------------------------------------------------------------------------
(* Reading a log *)

\* Replay(seq) is a fold, that is, a recursive function on sets of positions
\* that takes the last one away.  The lemmas below unfold it from the front,
\* replacing induction on the length by a smallest counterexample.

\* Every non-empty set of natural numbers has a least element.
LEMMA LeastNatural ==
  ASSUME NEW N, N \subseteq Nat, N # {}
  PROVE  \E n \in N : \A m \in N : n <= m
<1>1. PICK n \in N : \A m \in N : <<m, n>> \notin OpToRel(<, Nat)
  BY NatLessThanWellFounded, WFMin
<1>2. \A m \in N : ~(m < n)
  BY <1>1 DEF OpToRel
<1> QED BY <1>2

\* .. and a set of positions has a greatest one.
LEMMA MaxPosition ==
  ASSUME NEW k \in Nat, NEW T \in SUBSET (1..k), T # {}
  PROVE  Max(T) \in T /\ \A y \in T : y <= Max(T)
<1> DEFINE N == {k - y : y \in T}
<1>1. N \subseteq Nat /\ N # {}
  <2>1. \A y \in T : k - y \in Nat
    OBVIOUS
  <2> QED BY <2>1
<1>2. PICK n \in N : \A m \in N : n <= m
  BY <1>1, LeastNatural
<1>3. PICK x \in T : n = k - x
  OBVIOUS
<1>4. \A y \in T : x >= y
  <2> SUFFICES ASSUME NEW y \in T PROVE x >= y
    OBVIOUS
  <2>1. k - y \in N
    OBVIOUS
  <2> HIDE DEF N
  <2>2. n <= k - y
    BY <1>2, <2>1
  <2> QED BY <1>3, <2>2
<1>5. Max(T) \in T /\ \A y \in T : Max(T) >= y
  BY <1>4 DEF Max
<1> QED BY <1>5

\* The equation of the recursive function inside Replay, for the first k
\* positions of a log.
FoldEquation(f, seq, k) ==
  f = [T \in SUBSET (1..k) |->
         IF T = {} THEN "none"
         ELSE LET x == Max(T) IN ReadEvent(f[T \ {x}], seq[x])]

\* A solution for k positions extends to one position more.
LEMMA FoldExtends ==
  ASSUME NEW seq, NEW k \in Nat \ {0}, NEW f, FoldEquation(f, seq, k - 1)
  PROVE  \E g : FoldEquation(g, seq, k)
<1> DEFINE g == [T \in SUBSET (1..k) |->
                   IF k \in T THEN ReadEvent(f[T \ {k}], seq[k]) ELSE f[T]]
<1>1. ASSUME NEW T \in SUBSET (1..k)
      PROVE  g[T] = IF T = {} THEN "none"
                    ELSE LET x == Max(T) IN ReadEvent(g[T \ {x}], seq[x])
  <2>1. CASE T = {}
    BY <2>1 DEF FoldEquation
  <2>2. CASE T # {}
    <3> DEFINE x == Max(T)
    <3>1. x \in T /\ \A y \in T : y <= x
      BY <2>2, MaxPosition
    <3> HIDE DEF x
    <3>2. T \ {x} \in SUBSET (1..k)
      OBVIOUS
    <3>3. CASE k \in T
      <4>1. x = k
        BY <3>1, <3>3
      <4>2. g[T] = ReadEvent(f[T \ {k}], seq[k]) /\ g[T \ {k}] = f[T \ {k}]
        BY <3>3
      <4>3. g[T] = ReadEvent(g[T \ {x}], seq[x])
        BY <4>1, <4>2
      <4> QED BY <2>2, <4>3 DEF x
    <3>4. CASE k \notin T
      <4>1. T \in SUBSET (1..(k - 1)) /\ T \ {x} \in SUBSET (1..k) /\ k \notin T \ {x}
        <5>1. \A y \in T : y \in 1..(k - 1)
          BY <3>4
        <5> QED BY <3>2, <3>4, <5>1
      <4>2. f[T] = ReadEvent(f[T \ {x}], seq[x])
        BY <2>2, <4>1 DEF FoldEquation, x
      <4>3. g[T] = f[T] /\ g[T \ {x}] = f[T \ {x}]
        BY <3>4, <4>1
      <4>4. g[T] = ReadEvent(g[T \ {x}], seq[x])
        BY <4>2, <4>3
      <4> QED BY <2>2, <4>4 DEF x
    <3> QED BY <3>3, <3>4
  <2> QED BY <2>1, <2>2
<1>2. g = [T \in SUBSET (1..k) |-> g[T]]
  OBVIOUS
<1> HIDE DEF g
<1>3. FoldEquation(g, seq, k)
  BY <1>1, <1>2 DEF FoldEquation
<1> QED BY <1>3

LEMMA FoldExists ==
  ASSUME NEW seq, NEW k \in Nat
  PROVE  \E f : FoldEquation(f, seq, k)
<1> DEFINE Without == {n \in Nat : ~ \E f : FoldEquation(f, seq, n)}
<1>1. SUFFICES ASSUME Without # {} PROVE FALSE
  OBVIOUS
<1>2. PICK n \in Without : \A m \in Without : n <= m
  <2>1. Without \subseteq Nat
    OBVIOUS
  <2> HIDE DEF Without
  <2> QED BY <1>1, <2>1, LeastNatural
<1>3. n # 0
  <2>1. FoldEquation([T \in SUBSET (1..0) |-> "none"], seq, 0)
    BY DEF FoldEquation
  <2> QED BY <2>1
<1>4. n - 1 \in Nat \ Without
  <2>1. n - 1 \in Nat /\ ~(n <= n - 1)
    BY <1>3
  <2> HIDE DEF Without
  <2> QED BY <1>2, <2>1
<1>5. \E f : FoldEquation(f, seq, n)
  <2>1. PICK f : FoldEquation(f, seq, n - 1)
    BY <1>4
  <2>2. n \in Nat \ {0}
    BY <1>3
  <2> QED BY <2>1, <2>2, FoldExtends
<1> QED BY <1>5

\* The states a log leads through, one after each event.
IsTrace(r, seq) ==
  /\ r[0] = "none"
  /\ \A n \in 1..Len(seq) : r[n] = ReadEvent(r[n - 1], seq[n])

\* Replay is the last state of a trace ..
LEMMA ReplayTrace ==
  ASSUME NEW S, NEW seq \in Seq(S)
  PROVE  \E r : IsTrace(r, seq) /\ r[Len(seq)] = Replay(seq)
<1> DEFINE iter == CHOOSE f : FoldEquation(f, seq, Len(seq))
           r == [n \in 0..Len(seq) |-> iter[1..n]]
<1>1. Len(seq) \in Nat /\ DOMAIN seq = 1..Len(seq)
  OBVIOUS
<1>2. FoldEquation(iter, seq, Len(seq))
  BY <1>1, FoldExists
<1>3. Replay(seq) = iter[1..Len(seq)]
  BY <1>1 DEF Replay, FoldLeft, MapThenFoldSet, FoldEquation
<1> HIDE DEF iter
<1>4. r[0] = "none"
  <2>1. 1..0 = {} /\ {} \in SUBSET (1..Len(seq)) /\ 0 \in 0..Len(seq)
    BY <1>1
  <2>2. iter[{}] = "none"
    BY <1>2, <2>1 DEF FoldEquation
  <2> QED BY <2>1, <2>2
<1>5. ASSUME NEW n \in 1..Len(seq) PROVE r[n] = ReadEvent(r[n - 1], seq[n])
  <2>1. /\ 1..n \in SUBSET (1..Len(seq)) /\ 1..n # {}
        /\ (1..n) \ {n} = 1..(n - 1)
        /\ n \in 0..Len(seq) /\ n - 1 \in 0..Len(seq) /\ n \in Nat
    <3>1. n \in Nat /\ 1 <= n /\ n <= Len(seq)
      BY <1>1
    <3>2. \A y \in 1..n : y \in 1..Len(seq)
      BY <1>1, <3>1
    <3>3. \A y : y \in (1..n) \ {n} <=> y \in 1..(n - 1)
      BY <3>1
    <3>4. n \in 1..n /\ n \in 0..Len(seq) /\ n - 1 \in 0..Len(seq)
      BY <1>1, <3>1
    <3>5. (1..n) \ {n} = 1..(n - 1)
      BY <3>3
    <3>6. 1..n \in SUBSET (1..Len(seq)) /\ 1..n # {}
      BY <3>2, <3>4
    <3> QED BY <3>1, <3>4, <3>5, <3>6
  <2>2. Max(1..n) = n
    <3>1. /\ 1..n \in SUBSET (1..n) /\ n \in 1..n
      BY <2>1
    <3>2. Max(1..n) \in 1..n /\ \A y \in 1..n : y <= Max(1..n)
      BY <2>1, <3>1, MaxPosition
    <3> QED BY <3>1, <3>2
  <2>3. iter[1..n] = ReadEvent(iter[(1..n) \ {Max(1..n)}], seq[Max(1..n)])
    BY <1>2, <2>1 DEF FoldEquation
  <2> QED BY <2>1, <2>2, <2>3
<1>6. r[Len(seq)] = Replay(seq)
  BY <1>1, <1>3
<1> HIDE DEF r
<1> QED BY <1>4, <1>5, <1>6 DEF IsTrace

\* .. and traces of two logs agree as far as the logs do.
LEMMA TracesAgree ==
  ASSUME NEW S, NEW seq \in Seq(S), NEW more \in Seq(S), NEW r, NEW q,
         IsTrace(r, seq), IsTrace(q, more), NEW n \in Nat,
         n <= Len(seq), n <= Len(more), \A i \in 1..n : seq[i] = more[i]
  PROVE  r[n] = q[n]
<1> DEFINE Differ == {m \in 0..n : r[m] # q[m]}
<1>1. SUFFICES ASSUME Differ # {} PROVE FALSE
  OBVIOUS
<1>2. PICK m \in Differ : \A j \in Differ : m <= j
  <2>1. Differ \subseteq Nat
    OBVIOUS
  <2> HIDE DEF Differ
  <2> QED BY <1>1, <2>1, LeastNatural
<1>3. m \in 1..n /\ m \in 1..Len(seq) /\ m \in 1..Len(more)
  BY DEF IsTrace
<1>4. r[m - 1] = q[m - 1]
  <2>1. m - 1 \in 0..n /\ ~(m <= m - 1)
    BY <1>3
  <2>2. m - 1 \notin Differ
    <3> HIDE DEF Differ
    <3> QED BY <1>2, <2>1
  <2> QED BY <2>1, <2>2
<1>5. r[m] = ReadEvent(r[m - 1], seq[m]) /\ q[m] = ReadEvent(q[m - 1], more[m])
  BY <1>3 DEF IsTrace
<1> QED BY <1>3, <1>4, <1>5

\* An empty log is that of a session that was not created; one event more is
\* read in the state the log before it tells.
LEMMA ReplayEmpty == Replay(<<>>) = "none"
<1>1. <<>> \in Seq({}) /\ Len(<<>>) = 0
  OBVIOUS
<1>2. PICK r : IsTrace(r, <<>>) /\ r[Len(<<>>)] = Replay(<<>>)
  BY <1>1, ReplayTrace
<1> QED BY <1>1, <1>2 DEF IsTrace

LEMMA ReplayOne ==
  ASSUME NEW S, NEW seq \in Seq(S), NEW e \in S
  PROVE  Replay(seq \o <<e>>) = ReadEvent(Replay(seq), e)
<1> DEFINE more == seq \o <<e>>
<1>1. /\ more \in Seq(S) /\ Len(seq) \in Nat /\ Len(more) = Len(seq) + 1
      /\ \A i \in 1..Len(seq) : seq[i] = more[i]
      /\ more[Len(seq) + 1] = e
  OBVIOUS
<1> HIDE DEF more
<1>2. PICK r : IsTrace(r, seq) /\ r[Len(seq)] = Replay(seq)
  BY ReplayTrace
<1>3. PICK q : IsTrace(q, more) /\ q[Len(more)] = Replay(more)
  BY <1>1, ReplayTrace
<1>4. r[Len(seq)] = q[Len(seq)]
  BY <1>1, <1>2, <1>3, TracesAgree
<1>5. q[Len(seq) + 1] = ReadEvent(q[Len(seq)], more[Len(seq) + 1])
  <2>1. Len(seq) + 1 \in 1..Len(more) /\ (Len(seq) + 1) - 1 = Len(seq)
    BY <1>1
  <2> QED BY <1>3, <2>1 DEF IsTrace
<1> QED BY <1>1, <1>2, <1>3, <1>4, <1>5 DEF more

\* A state event is read as the transition it asks for, and is no event about a
\* worker; a worker event leaves the state.
LEMMA ReadState ==
  ASSUME NEW from \in SessionStates, NEW to \in SessionStates
  PROVE  /\ Entered(to) \notin WorkerEvents
         /\ ReadEvent(from, Entered(to)) =
              IF to \in SessionTransitions[from] THEN to ELSE from
         /\ ReadEvent("none", Entered(to)) = to
<1>1. Entered(to) \notin WorkerEvents
  BY DEF Entered, WorkerEvents
<1>2. from # "none" /\ Entered(to)[1] = to
  BY DEF SessionStates, Entered
<1> QED BY <1>1, <1>2 DEF ReadEvent

LEMMA ReadWorker ==
  ASSUME NEW event \in WorkerEvents, NEW state
  PROVE  ReadEvent(state, event) = state
BY DEF ReadEvent

\* A log is extended by a path of states: each is entered out of the one before.
LEMMA ReplayPath ==
  ASSUME NEW seq \in Seq(Events), NEW path \in Seq(SessionStates), path # <<>>,
         Replay(seq) \in SessionStates,
         path[1] \in SessionTransitions[Replay(seq)],
         \A i \in 2..Len(path) : path[i] \in SessionTransitions[path[i - 1]]
  PROVE  Replay(seq \o [i \in 1..Len(path) |-> Entered(path[i])]) = Last(path)
<1> DEFINE events == [i \in 1..Len(path) |-> Entered(path[i])]
           more == seq \o events
           k == Len(seq)
<1>1. /\ events \in Seq(Events) /\ Len(events) = Len(path) /\ Len(path) \in Nat \ {0}
      /\ \A i \in 1..Len(path) : events[i] = Entered(path[i]) /\ path[i] \in SessionStates
  BY DEF Events, StateEvents
<1> HIDE DEF events
<1>2. /\ more \in Seq(Events) /\ k \in Nat /\ Len(more) = k + Len(path)
      /\ \A i \in 1..k : seq[i] = more[i]
      /\ \A i \in 1..Len(path) : more[k + i] = Entered(path[i])
  BY <1>1
<1> HIDE DEF more, k
<1>3. PICK r : IsTrace(r, seq) /\ r[k] = Replay(seq)
  BY ReplayTrace DEF k
<1>4. PICK q : IsTrace(q, more) /\ q[Len(more)] = Replay(more)
  BY <1>2, ReplayTrace
<1>5. q[k] = Replay(seq)
  <2>1. /\ Len(seq) \in Nat /\ Len(seq) <= Len(seq) /\ Len(seq) <= Len(more)
        /\ \A i \in 1..Len(seq) : seq[i] = more[i]
    BY <1>1, <1>2 DEF k
  <2>2. r[Len(seq)] = q[Len(seq)]
    BY <1>2, <1>3, <1>4, <2>1, TracesAgree
  <2> QED BY <1>3, <2>2 DEF k
<1> DEFINE Off == {i \in 1..Len(path) : q[k + i] # path[i]}
<1>6. Off = {}
  <2>0. SUFFICES ASSUME Off # {} PROVE FALSE
    OBVIOUS
  <2>1. PICK i \in Off : \A j \in Off : i <= j
    <3>1. Off \subseteq Nat
      OBVIOUS
    <3> HIDE DEF Off
    <3> QED BY <2>0, <3>1, LeastNatural
  <2>2. /\ i \in 1..Len(path) /\ i \in Nat /\ q[k + i] # path[i]
        /\ k + i \in 1..Len(more) /\ (k + i) - 1 = k + (i - 1)
    BY <1>1, <1>2
  <2>3. q[k + i] = ReadEvent(q[k + (i - 1)], Entered(path[i]))
    BY <1>2, <1>4, <2>2 DEF IsTrace
  <2>4. /\ q[k + (i - 1)] \in SessionStates
        /\ path[i] \in SessionTransitions[q[k + (i - 1)]]
    <3>1. CASE i = 1
      BY <1>2, <1>5, <3>1
    <3>2. CASE i # 1
      <4>1. i \in 2..Len(path) /\ i - 1 \in 1..Len(path) /\ ~(i <= i - 1)
        BY <2>2, <3>2
      <4>2. i - 1 \notin Off
        <5> HIDE DEF Off
        <5> QED BY <2>1, <4>1
      <4>3. q[k + (i - 1)] = path[i - 1]
        BY <4>1, <4>2
      <4> QED BY <1>1, <4>1, <4>3
    <3> QED BY <3>1, <3>2
  <2>5. ReadEvent(q[k + (i - 1)], Entered(path[i])) = path[i]
    BY <1>1, <2>2, <2>4, ReadState
  <2> QED BY <2>2, <2>3, <2>5
<1>7. q[k + Len(path)] = path[Len(path)]
  BY <1>1, <1>6
<1>8. Replay(more) = Last(path)
  BY <1>2, <1>4, <1>7 DEF Last
<1> QED BY <1>8 DEF more, events

\* The position LastAbout finds is 0 or about the worker, and nothing after it
\* is; there is only one such position.
LEMMA LastAboutIs ==
  ASSUME NEW S, NEW seq \in Seq(S), NEW w
  PROVE  /\ LastAbout(seq, w) \in 0..Len(seq)
         /\ LastAbout(seq, w) > 0 => About(seq[LastAbout(seq, w)], w)
         /\ \A i \in 1..Len(seq) : About(seq[i], w) => i <= LastAbout(seq, w)
<1> DEFINE I == {i \in 1..Len(seq) : About(seq[i], w)}
<1>1. LastAbout(seq, w) = IF I # {} THEN Max(I) ELSE 0
  BY DEF LastAbout, SelectLastInSeq
<1>2. Len(seq) \in Nat /\ I \in SUBSET (1..Len(seq))
  OBVIOUS
<1>3. CASE I = {}
  BY <1>1, <1>2, <1>3
<1>4. CASE I # {}
  <2>1. Max(I) \in I /\ \A i \in I : i <= Max(I)
    <3> HIDE DEF I
    <3> QED BY <1>2, <1>4, MaxPosition
  <2> QED BY <1>1, <1>2, <1>4, <2>1
<1> QED BY <1>3, <1>4

LEMMA LastAboutUnique ==
  ASSUME NEW S, NEW seq \in Seq(S), NEW w, NEW n \in 0..Len(seq),
         n > 0 => About(seq[n], w),
         \A i \in 1..Len(seq) : About(seq[i], w) => i <= n
  PROVE  LastAbout(seq, w) = n
<1> DEFINE m == LastAbout(seq, w)
<1>1. /\ m \in 0..Len(seq)
      /\ m > 0 => About(seq[m], w)
      /\ \A i \in 1..Len(seq) : About(seq[i], w) => i <= m
  BY LastAboutIs
<1>2. Len(seq) \in Nat
  OBVIOUS
<1> HIDE DEF m
<1>3. m > 0 => m <= n
  BY <1>1, <1>2
<1>4. n > 0 => n <= m
  BY <1>1, <1>2
<1>5. m = n
  BY <1>1, <1>2, <1>3, <1>4
<1> QED BY <1>5 DEF m

\* The last event about w is one added just now, or else the one it was.
LEMMA LastAboutExtends ==
  ASSUME NEW S, NEW seq \in Seq(S), NEW events \in Seq(S), NEW w,
         \A i \in 1..Len(events) : ~About(events[i], w)
  PROVE  /\ LastAbout(seq \o events, w) = LastAbout(seq, w)
         /\ LastAbout(seq, w) > 0 =>
              (seq \o events)[LastAbout(seq, w)] = seq[LastAbout(seq, w)]
<1> DEFINE n == LastAbout(seq, w)
           more == seq \o events
<1>1. /\ more \in Seq(S) /\ Len(seq) \in Nat /\ Len(events) \in Nat
      /\ Len(more) = Len(seq) + Len(events)
      /\ \A i \in 1..Len(seq) : more[i] = seq[i]
      /\ \A i \in 1..Len(events) : more[Len(seq) + i] = events[i]
  OBVIOUS
<1>2. /\ n \in 0..Len(seq)
      /\ n > 0 => About(seq[n], w)
      /\ \A i \in 1..Len(seq) : About(seq[i], w) => i <= n
  BY LastAboutIs
<1> HIDE DEF n, more
<1>3. n > 0 => more[n] = seq[n]
  BY <1>1, <1>2
<1>4. \A i \in 1..Len(more) : About(more[i], w) => i <= n
  <2> SUFFICES ASSUME NEW i \in 1..Len(more), About(more[i], w) PROVE i <= n
    OBVIOUS
  <2>1. CASE i <= Len(seq)
    BY <1>1, <1>2, <2>1
  <2>2. CASE ~(i <= Len(seq))
    <3>1. i - Len(seq) \in 1..Len(events) /\ Len(seq) + (i - Len(seq)) = i
      BY <1>1, <2>2
    <3> QED BY <1>1, <3>1
  <2> QED BY <2>1, <2>2
<1>5. LastAbout(more, w) = n
  <2>1. n \in 0..Len(more)
    BY <1>1, <1>2
  <2> QED BY <1>1, <1>2, <1>3, <1>4, <2>1, LastAboutUnique
<1> QED BY <1>3, <1>5 DEF n, more

LEMMA LastAboutNew ==
  ASSUME NEW S, NEW seq \in Seq(S), NEW e \in S, NEW w, About(e, w)
  PROVE  /\ LastAbout(seq \o <<e>>, w) = Len(seq) + 1
         /\ (seq \o <<e>>)[Len(seq) + 1] = e
<1> DEFINE more == seq \o <<e>>
<1>1. /\ more \in Seq(S) /\ Len(seq) \in Nat /\ Len(more) = Len(seq) + 1
      /\ more[Len(seq) + 1] = e
  OBVIOUS
<1> HIDE DEF more
<1>2. \A i \in 1..Len(more) : i <= Len(seq) + 1
  BY <1>1
<1>3. Len(seq) + 1 \in 0..Len(more)
  BY <1>1
<1>4. LastAbout(more, w) = Len(seq) + 1
  BY <1>1, <1>2, <1>3, LastAboutUnique
<1> QED BY <1>1, <1>4 DEF more

-----------------------------------------------------------------------------
(* Every step keeps the invariant *)

LEMMA SessionInitInv == SessionInit => SessionInv
<1> SUFFICES ASSUME SessionInit PROVE SessionInv
  OBVIOUS
<1>1. SessionTypeOK /\ LiveIsActive
  BY SessionAssumption DEF SessionInit, SessionTypeOK, LiveIsActive, Live, Known
<1>2. Ordinary = {}
  BY DEF SessionInit, Ordinary, Live, Known
<1> QED
  BY <1>1, <1>2, FS_EmptySet, SessionAssumption DEF SessionInv, LiveWithin

\* Ordinary sessions are finitely many, and fewer of them keep to the limit.
LEMMA FewerOrdinary ==
  ASSUME LiveWithin, Ordinary' \subseteq Ordinary
  PROVE  LiveWithin'
<1>1. IsFiniteSet(Ordinary)
  BY SessionAssumption, FS_Subset DEF Ordinary, Live, Known
<1>2. IsFiniteSet(Ordinary') /\ Cardinality(Ordinary') <= Cardinality(Ordinary)
  BY <1>1, FS_Subset
<1>3. Cardinality(Ordinary) \in Nat /\ Cardinality(Ordinary') \in Nat
  BY <1>1, <1>2, FS_CardinalityType
<1> QED
  BY <1>2, <1>3, SessionAssumption DEF LiveWithin

\* A call that only adds events of session s to its log, and changes the state
\* of s along the table or not at all.  A state that is live again has its
\* "recovering" in the log.
LEMMA CallInv ==
  ASSUME SessionInv, NEW s \in Known, NEW events \in Seq(Events), NEW to \in SessionStates,
         Emit(s, events), Call,
         session' = [session EXCEPT ![s] = to],
         workers' \in [Sessions -> SUBSET Workers],
         \/ activeSession' = activeSession
         \/ activeSession' = activeSession \ {s} /\ to \in SessionTerminal,
         session[s] \in SessionTerminal =>
           to \in SessionTerminal \/ Entered("recovering") \in ToSet(events)
  PROVE  SessionInv'
<1>1. /\ s \in Sessions /\ session \in [Sessions -> SessionStates \cup {"none"}]
      /\ log \in [Sessions -> Seq(Events)] /\ activeSession \in SUBSET Sessions
      /\ calls \in 0..MaxCalls /\ session[s] # "none"
  BY DEF SessionInv, SessionTypeOK, Known, Events
<1>2. /\ log[s] \o events \in Seq(Events)
      /\ ToSet(log[s]) \subseteq ToSet(log[s] \o events)
      /\ ToSet(events) \subseteq ToSet(log[s] \o events)
  BY <1>1, ToSetAppended
<1>3. /\ log' = [log EXCEPT ![s] = log[s] \o events]
      /\ log' \in [Sessions -> Seq(Events)]
  BY <1>1, <1>2 DEF Emit
<1>4. SessionTypeOK'
  <2>1. session' \in [Sessions -> SessionStates \cup {"none"}]
    BY <1>1
  <2>2. calls' \in 0..MaxCalls
    BY <1>1, SessionAssumption DEF Call
  <2>3. activeSession' \in SUBSET Sessions
    BY <1>1
  <2> QED
    BY <1>3, <2>1, <2>2, <2>3 DEF SessionTypeOK, Events
<1>5. LiveIsActive'
  <2> SUFFICES ASSUME MaxActive = 1, NEW t \in Sessions,
                      session'[t] # "none", session'[t] \notin SessionTerminal
               PROVE  Entered("recovering") \in ToSet(log'[t]) \/ activeSession' = {t}
    BY DEF LiveIsActive, Live, Known
  <2>1. CASE t # s
    <3>1. session'[t] = session[t] /\ log'[t] = log[t]
      BY <1>1, <1>3, <2>1
    <3>2. Entered("recovering") \in ToSet(log[t]) \/ activeSession = {t}
      BY <3>1 DEF SessionInv, LiveIsActive, Live, Known
    <3> QED
      BY <2>1, <3>1, <3>2
  <2>2. CASE t = s
    <3>1. to \notin SessionTerminal /\ activeSession' = activeSession
      BY <1>1, <2>2
    <3>2. CASE session[s] \in SessionTerminal
      BY <1>1, <1>2, <1>3, <2>2, <3>1, <3>2
    <3>3. CASE session[s] \notin SessionTerminal
      <4>1. Entered("recovering") \in ToSet(log[s]) \/ activeSession = {s}
        BY <1>1, <3>3 DEF SessionInv, LiveIsActive, Live, Known
      <4> QED
        BY <1>1, <1>2, <1>3, <2>2, <3>1, <4>1
    <3> QED
      BY <3>2, <3>3
  <2> QED
    BY <2>1, <2>2
<1>6. LiveWithin'
  <2> SUFFICES ASSUME NEW t \in Ordinary'
               PROVE  t \in Ordinary
    BY FewerOrdinary DEF SessionInv
  <2>1. /\ t \in Sessions /\ session'[t] # "none" /\ session'[t] \notin SessionTerminal
        /\ Entered("recovering") \notin ToSet(log'[t])
    BY DEF Ordinary, Live, Known
  <2>2. CASE t # s
    <3>1. session'[t] = session[t] /\ log'[t] = log[t]
      BY <1>1, <1>3, <2>1, <2>2
    <3> QED
      BY <2>1, <3>1 DEF Ordinary, Live, Known
  <2>3. CASE t = s
    <3>1. session'[s] = to /\ log'[s] = log[s] \o events
      BY <1>1, <1>3
    <3>2. session[s] \notin SessionTerminal /\ Entered("recovering") \notin ToSet(log[s])
      BY <1>2, <2>1, <2>3, <3>1
    <3> QED
      BY <1>1, <2>3, <3>2 DEF Ordinary, Live, Known
  <2> QED
    BY <2>2, <2>3
<1> QED
  BY <1>4, <1>5, <1>6 DEF SessionInv

\* With one session allowed, a new one is created when none is live.
LEMMA CreateSessionInv ==
  ASSUME SessionInv, NEW s \in Sessions, CreateSession(s)
  PROVE  SessionInv'
<1>1. /\ session \in [Sessions -> SessionStates \cup {"none"}]
      /\ log \in [Sessions -> Seq(Events)] /\ calls \in 0..MaxCalls
      /\ workers \in [Sessions -> SUBSET Workers]
  BY DEF SessionInv, SessionTypeOK, Events
<1>2. /\ "created" \in SessionStates /\ <<Entered("created")>> \in Seq(Events)
  BY DEF SessionStates, Events, StateEvents
<1>3. /\ session' = [session EXCEPT ![s] = "created"]
      /\ log' = [log EXCEPT ![s] = log[s] \o <<Entered("created")>>]
      /\ activeSession' = {s} /\ workers' = workers
      /\ Cardinality(Live) < MaxActive /\ session[s] = "none"
      /\ calls < MaxCalls /\ calls' = calls + 1
  BY DEF CreateSession, Emit, Call
<1>4. log[s] \o <<Entered("created")>> \in Seq(Events)
  BY <1>1, <1>2, ToSetAppended
<1>5. SessionTypeOK'
  <2>1. log' \in [Sessions -> Seq(Events)]
    BY <1>1, <1>3, <1>4
  <2>2. session' \in [Sessions -> SessionStates \cup {"none"}]
    BY <1>1, <1>2, <1>3
  <2>3. calls' \in 0..MaxCalls
    BY <1>1, <1>3, SessionAssumption
  <2> QED
    BY <1>1, <1>3, <2>1, <2>2, <2>3 DEF SessionTypeOK, Events
<1>6. LiveIsActive'
  <2> SUFFICES ASSUME MaxActive = 1, NEW t \in Sessions,
                      session'[t] # "none", session'[t] \notin SessionTerminal
               PROVE  activeSession' = {t}
    BY DEF LiveIsActive, Live, Known
  <2>1. Live = {}
    <3>1. IsFiniteSet(Live)
      BY SessionAssumption, FS_Subset DEF Live, Known
    <3>2. Cardinality(Live) = 0
      BY <1>3, <3>1, FS_CardinalityType
    <3> QED
      BY <3>1, <3>2, FS_EmptySet
  <2>2. t = s
    BY <1>1, <1>3, <2>1 DEF Live, Known
  <2> QED
    BY <1>3, <2>2
<1>7. LiveWithin'
  <2>1. Ordinary' \subseteq Live \cup {s}
    <3> SUFFICES ASSUME NEW t \in Ordinary', t # s
                 PROVE  t \in Live
      OBVIOUS
    <3> QED
      BY <1>1, <1>3 DEF Ordinary, Live, Known
  <2>2. IsFiniteSet(Live)
    BY SessionAssumption, FS_Subset DEF Live, Known
  <2>3. /\ IsFiniteSet(Live \cup {s})
        /\ Cardinality(Live \cup {s}) <= Cardinality(Live) + 1
    BY <2>2, FS_AddElement, FS_CardinalityType
  <2>4. /\ IsFiniteSet(Ordinary')
        /\ Cardinality(Ordinary') <= Cardinality(Live \cup {s})
    BY <2>1, <2>3, FS_Subset
  <2>5. /\ Cardinality(Live) \in Nat /\ Cardinality(Live \cup {s}) \in Nat
        /\ Cardinality(Ordinary') \in Nat
    BY <2>2, <2>3, <2>4, FS_CardinalityType
  <2> QED
    BY <1>3, <2>3, <2>4, <2>5, SessionAssumption DEF LiveWithin
<1> QED
  BY <1>5, <1>6, <1>7 DEF SessionInv

\* transitionSession(), whether it throws or not.
LEMMA AdvanceInv ==
  ASSUME SessionInv, NEW s \in Known, NEW to \in SessionStates, Call, Advance(s, to),
         \/ activeSession' = activeSession
         \/ Release(s) /\ to \in SessionTerminal
  PROVE  SessionInv'
<1>1. /\ s \in Sessions /\ session \in [Sessions -> SessionStates \cup {"none"}]
      /\ session[s] \in SessionStates
      /\ workers' \in [Sessions -> SUBSET Workers]
  BY DEF SessionInv, SessionTypeOK, Known, Advance
<1>2. <<Entered(to)>> \in Seq(Events) /\ ToSet(<<Entered(to)>>) = {Entered(to)} /\ Emit(s, <<Entered(to)>>)
  BY DEF Events, StateEvents, ToSet, Advance
<1>3. CASE to \in SessionTransitions[session[s]]
  <2>1. session' = [session EXCEPT ![s] = to]
    BY <1>3 DEF Advance
  <2>2. session[s] \in SessionTerminal => to \in SessionTerminal \/ Entered("recovering") \in ToSet(<<Entered(to)>>)
    BY <1>1, <1>2, <1>3, TransitionsType
  <2>3. activeSession' = activeSession \/ (activeSession' = activeSession \ {s} /\ to \in SessionTerminal)
    BY DEF Release
  <2> QED
    BY <1>1, <1>2, <2>1, <2>2, <2>3, CallInv
<1>4. CASE to \notin SessionTransitions[session[s]]
  <2>1. session' = [session EXCEPT ![s] = session[s]] /\ session' = session
    BY <1>1, <1>4 DEF Advance
  <2>2. activeSession' = activeSession
    BY <2>1 DEF Release
  <2>3. session[s] \in SessionTerminal =>
          session[s] \in SessionTerminal \/ Entered("recovering") \in ToSet(<<Entered(to)>>)
    OBVIOUS
  <2> QED
    BY <1>1, <1>2, <2>1, <2>2, <2>3, CallInv
<1> QED
  BY <1>3, <1>4

\* A call of several transitions from a state that is not terminal.
LEMMA AdvanceAllInv ==
  ASSUME SessionInv, NEW s \in Known, NEW path \in Seq(SessionStates), path # <<>>, Call,
         AdvanceAll(s, path),
         \A from \in SessionTerminal : path[1] \notin SessionTransitions[from],
         \/ activeSession' = activeSession
         \/ Release(s) /\ Last(path) \in SessionTerminal /\ path[1] \notin SessionTerminal
  PROVE  SessionInv'
<1>1. /\ s \in Sessions /\ session \in [Sessions -> SessionStates \cup {"none"}]
      /\ session[s] \in SessionStates /\ session[s] # "none"
      /\ workers \in [Sessions -> SUBSET Workers]
  BY DEF SessionInv, SessionTypeOK, Known
<1>2. path[1] \in SessionStates /\ Last(path) \in SessionStates
  BY DEF Last
<1> DEFINE events == [i \in 1..Len(path) |-> Entered(path[i])]
<1>3. CASE path[1] \in SessionTransitions[session[s]]
  <2>1. /\ Emit(s, events) /\ workers' = workers
        /\ session' = [session EXCEPT ![s] = Last(path)]
    BY <1>3 DEF AdvanceAll
  <2>2. session[s] \notin SessionTerminal
    BY <1>3
  <2>3. events \in Seq(Events)
    BY DEF Events, StateEvents
  <2>4. \/ activeSession' = activeSession
        \/ activeSession' = activeSession \ {s} /\ Last(path) \in SessionTerminal
    BY DEF Release
  <2> QED
    BY <1>1, <1>2, <2>1, <2>2, <2>3, <2>4, CallInv
<1>4. CASE path[1] \notin SessionTransitions[session[s]]
  <2>1. Advance(s, path[1]) /\ session' = session
    BY <1>4 DEF AdvanceAll, Advance
  <2>2. activeSession' = activeSession
    BY <2>1 DEF Release
  <2> QED
    BY <1>2, <2>1, <2>2, AdvanceInv
<1> QED
  BY <1>3, <1>4

LEMMA WorkerInv ==
  ASSUME SessionInv, NEW s \in Sessions, NEW w \in Workers, AddWorker(s, w) \/ RemoveWorker(s, w)
  PROVE  SessionInv'
<1>1. /\ s \in Known /\ Call
      /\ session' = session /\ activeSession' = activeSession
  BY DEF AddWorker, RemoveWorker
<1>2. /\ session \in [Sessions -> SessionStates \cup {"none"}]
      /\ workers \in [Sessions -> SUBSET Workers]
      /\ session[s] \in SessionStates
  BY <1>1 DEF SessionInv, SessionTypeOK, Known
<1>3. workers' \in [Sessions -> SUBSET Workers]
  BY <1>2 DEF AddWorker, RemoveWorker, Joined
<1>4. PICK kind \in {"worker_added", "worker_removed"} : Emit(s, <<<<kind, w>>>>)
  BY DEF AddWorker, RemoveWorker
<1>5. <<<<kind, w>>>> \in Seq(Events)
  BY DEF Events, WorkerEvents
<1>6. session' = [session EXCEPT ![s] = session[s]]
  BY <1>1, <1>2
<1>7. session[s] \in SessionTerminal =>
        session[s] \in SessionTerminal \/ Entered("recovering") \in ToSet(<<<<kind, w>>>>)
  OBVIOUS
<1> QED
  BY <1>1, <1>2, <1>3, <1>4, <1>5, <1>6, <1>7, CallInv

LEMMA SessionNextInv == SessionInv /\ [SessionNext]_sessionVars => SessionInv'
<1> SUFFICES ASSUME SessionInv, [SessionNext]_sessionVars
             PROVE  SessionInv'
  OBVIOUS
<1>1. ASSUME NEW s \in Sessions, CreateSession(s) PROVE SessionInv'
  BY <1>1, CreateSessionInv
<1>2. ASSUME NEW s \in Sessions, NEW to \in SessionStates, TransitionSession(s, to)
      PROVE  SessionInv'
  BY <1>2, AdvanceInv DEF TransitionSession
<1>3. ASSUME NEW s \in Sessions, NEW to \in {"failed", "cancelled"}, EndSession(s, to)
      PROVE  SessionInv'
  BY <1>3, AdvanceInv DEF EndSession, SessionStates, SessionTerminal
<1>4. ASSUME NEW s \in Sessions, InitializeSession(s) PROVE SessionInv'
  <2> DEFINE path == <<"initializing", "loading_workspace", "starting_services", "running">>
  <2>1. path \in Seq(SessionStates) /\ path # <<>> /\ path[1] = "initializing"
    BY DEF SessionStates
  <2>2. \A from \in SessionTerminal : path[1] \notin SessionTransitions[from]
    BY <2>1 DEF SessionTerminal, SessionTransitions
  <2> HIDE DEF path
  <2> QED
    BY <1>4, <2>1, <2>2, AdvanceAllInv DEF InitializeSession, path
<1>5. ASSUME NEW s \in Sessions, ResumeSession(s) PROVE SessionInv'
  <2> DEFINE path == <<"resumed", "running">>
  <2>1. path \in Seq(SessionStates) /\ path # <<>> /\ path[1] = "resumed"
    BY DEF SessionStates
  <2>2. \A from \in SessionTerminal : path[1] \notin SessionTransitions[from]
    BY <2>1 DEF SessionTerminal, SessionTransitions
  <2> HIDE DEF path
  <2> QED
    BY <1>5, <2>1, <2>2, AdvanceAllInv DEF ResumeSession, path
<1>6. ASSUME NEW s \in Sessions, CompleteSession(s) PROVE SessionInv'
  <2> DEFINE path == <<"completing", "completed">>
  <2>1. /\ path \in Seq(SessionStates) /\ path # <<>> /\ path[1] = "completing"
        /\ Last(path) = "completed"
    BY DEF SessionStates, Last
  <2>2. /\ \A from \in SessionTerminal : path[1] \notin SessionTransitions[from]
        /\ Last(path) \in SessionTerminal /\ path[1] \notin SessionTerminal
    BY <2>1 DEF SessionTerminal, SessionTransitions
  <2> HIDE DEF path
  <2> QED
    BY <1>6, <2>1, <2>2, AdvanceAllInv DEF CompleteSession, path
<1>7. ASSUME NEW s \in Sessions, NEW w \in Workers, AddWorker(s, w) \/ RemoveWorker(s, w)
      PROVE  SessionInv'
  BY <1>7, WorkerInv
<1>8. ASSUME UNCHANGED sessionVars PROVE SessionInv'
  BY <1>8 DEF sessionVars, SessionInv, SessionTypeOK, LiveIsActive, LiveWithin, Ordinary,
              Live, Known
<1>9. Requests \subseteq SessionStates /\ {"paused", "archived"} \subseteq SessionStates
  BY SessionAssumption DEF SessionStates
<1> QED
  BY <1>1, <1>2, <1>3, <1>4, <1>5, <1>6, <1>7, <1>8, <1>9
     DEF SessionNext, PauseSession, ArchiveSession

\* The invariant of the session manager.
THEOREM SessionInvariant == SessionSpec => []SessionInv
BY SessionInitInv, SessionNextInv, PTL DEF SessionSpec

\* Every variable keeps its range: states, workers, events and the active
\* session are what they are declared to be, whatever call throws.
THEOREM SessionTypes == SessionSpec => []SessionTypeOK
<1>1. SessionInv => SessionTypeOK
  BY DEF SessionInv
<1> QED
  BY <1>1, SessionInvariant, PTL

\* With one session allowed at a time, a live session that was not brought back
\* from failure is the active one.
THEOREM LiveSessionIsActive == SessionSpec => []LiveIsActive
<1>1. SessionInv => LiveIsActive
  BY DEF SessionInv
<1> QED
  BY <1>1, SessionInvariant, PTL

\* The sessions that are live and were not brought back from failure are never
\* more than maxActiveSessions, whatever calls are refused or throw on the way.
\* (Bringing back looks at no limit, so with those there may be more.)
THEOREM LimitKept == SessionSpec => []LiveWithin
<1>1. SessionInv => LiveWithin
  BY DEF SessionInv
<1> QED
  BY <1>1, SessionInvariant, PTL

-----------------------------------------------------------------------------
(* What the log tells *)

\* A call that emits events of states and leaves the session in the state that
\* its log then tells.
LEMMA StateCallTells ==
  ASSUME SessionInv, LogTells, NEW s \in Sessions, NEW events \in Seq(StateEvents),
         Emit(s, events), workers' = workers, NEW to,
         session' = [session EXCEPT ![s] = to], to = Replay(log[s] \o events)
  PROVE  LogTells'
<1>1. /\ session \in [Sessions -> SessionStates \cup {"none"}]
      /\ log \in [Sessions -> Seq(Events)]
      /\ log' = [log EXCEPT ![s] = log[s] \o events]
      /\ events \in Seq(Events)
  BY DEF SessionInv, SessionTypeOK, Emit, Events
<1>2. \A w : \A i \in 1..Len(events) : ~About(events[i], w)
  <2>1. \A i \in 1..Len(events) : events[i] \in StateEvents
    OBVIOUS
  <2>2. \A e \in StateEvents : e \notin WorkerEvents
    BY ReadState DEF StateEvents
  <2> QED BY <2>1, <2>2 DEF About
<1>3. ASSUME NEW w \in Workers
      PROVE  /\ LastAbout(log[s] \o events, w) = LastAbout(log[s], w)
             /\ LastAbout(log[s], w) > 0 =>
                  (log[s] \o events)[LastAbout(log[s], w)] = log[s][LastAbout(log[s], w)]
  <2>1. log[s] \in Seq(Events)
    BY <1>1
  <2>2. \A i \in 1..Len(events) : ~About(events[i], w)
    BY <1>2
  <2> QED BY <1>1, <2>1, <2>2, LastAboutExtends
<1>4. \A w \in Workers : w \in workers[s] <=>
          /\ LastAbout(log[s], w) > 0
          /\ log[s][LastAbout(log[s], w)][1] = "worker_added"
  BY DEF LogTells
<1>5. \A w \in Workers : w \in workers[s] <=>
          /\ LastAbout(log[s] \o events, w) > 0
          /\ (log[s] \o events)[LastAbout(log[s] \o events, w)][1] = "worker_added"
  BY <1>3, <1>4
<1>6. ASSUME NEW t \in Sessions
      PROVE  /\ session'[t] = Replay(log'[t])
             /\ \A w \in Workers : w \in workers'[t] <=>
                  /\ LastAbout(log'[t], w) > 0
                  /\ log'[t][LastAbout(log'[t], w)][1] = "worker_added"
  <2>1. CASE t = s
    <3>1. log'[t] = log[s] \o events /\ session'[t] = to /\ workers'[t] = workers[s]
      BY <1>1, <2>1
    <3> QED BY <1>5, <3>1
  <2>2. CASE t # s
    <3>1. log'[t] = log[t] /\ session'[t] = session[t] /\ workers'[t] = workers[t]
      BY <1>1, <2>2
    <3> QED BY <3>1 DEF LogTells
  <2> QED BY <2>1, <2>2
<1> QED BY <1>6 DEF LogTells

\* One event about a worker, with the worker there afterwards or not.
LEMMA WorkerCallTells ==
  ASSUME SessionInv, LogTells, NEW s \in Sessions, NEW w \in Workers,
         NEW kind \in {"worker_added", "worker_removed"},
         Emit(s, <<<<kind, w>>>>), session' = session,
         workers' = [workers EXCEPT ![s] = IF kind = "worker_added" THEN @ \cup {w}
                                           ELSE @ \ {w}]
  PROVE  LogTells'
<1> DEFINE e == <<kind, w>>
<1>1. /\ session \in [Sessions -> SessionStates \cup {"none"}]
      /\ workers \in [Sessions -> SUBSET Workers]
      /\ log \in [Sessions -> Seq(Events)] /\ log[s] \in Seq(Events)
      /\ log' = [log EXCEPT ![s] = log[s] \o <<e>>]
      /\ e \in WorkerEvents /\ e \in Events /\ e[1] = kind /\ e[2] = w
  BY DEF SessionInv, SessionTypeOK, Emit, Events, WorkerEvents
<1> HIDE DEF e
<1>2. Replay(log[s] \o <<e>>) = session[s]
  <2>1. Replay(log[s] \o <<e>>) = ReadEvent(Replay(log[s]), e)
    BY <1>1, ReplayOne
  <2>2. session[s] = Replay(log[s])
    BY DEF LogTells
  <2> QED BY <1>1, <2>1, <2>2, ReadWorker
<1>3. ASSUME NEW v \in Workers
      PROVE  v \in workers'[s] <=>
               /\ LastAbout(log[s] \o <<e>>, v) > 0
               /\ (log[s] \o <<e>>)[LastAbout(log[s] \o <<e>>, v)][1] = "worker_added"
  <2>1. CASE v = w
    <3>1. About(e, v)
      BY <1>1, <2>1 DEF About
    <3>2. /\ LastAbout(log[s] \o <<e>>, v) = Len(log[s]) + 1
          /\ (log[s] \o <<e>>)[Len(log[s]) + 1] = e
      BY <1>1, <3>1, LastAboutNew
    <3>3. Len(log[s]) + 1 > 0
      BY <1>1
    <3>4. v \in workers'[s] <=> kind = "worker_added"
      BY <1>1, <2>1
    <3> QED BY <1>1, <3>2, <3>3, <3>4
  <2>2. CASE v # w
    <3>1. ~About(e, v)
      BY <1>1, <2>2 DEF About
    <3>2. <<e>> \in Seq(Events) /\ \A i \in 1..Len(<<e>>) : ~About(<<e>>[i], v)
      BY <1>1, <3>1
    <3>3. /\ LastAbout(log[s] \o <<e>>, v) = LastAbout(log[s], v)
          /\ LastAbout(log[s], v) > 0 =>
               (log[s] \o <<e>>)[LastAbout(log[s], v)] = log[s][LastAbout(log[s], v)]
      BY <1>1, <3>2, LastAboutExtends
    <3>4. v \in workers'[s] <=> v \in workers[s]
      BY <1>1, <2>2
    <3>5. v \in workers[s] <=>
            /\ LastAbout(log[s], v) > 0
            /\ log[s][LastAbout(log[s], v)][1] = "worker_added"
      BY DEF LogTells
    <3> QED BY <3>3, <3>4, <3>5
  <2> QED BY <2>1, <2>2
<1>4. ASSUME NEW t \in Sessions
      PROVE  /\ session'[t] = Replay(log'[t])
             /\ \A v \in Workers : v \in workers'[t] <=>
                  /\ LastAbout(log'[t], v) > 0
                  /\ log'[t][LastAbout(log'[t], v)][1] = "worker_added"
  <2>1. CASE t = s
    <3>1. log'[t] = log[s] \o <<e>> /\ session'[t] = session[s]
      BY <1>1, <2>1
    <3> QED BY <1>2, <1>3, <2>1, <3>1
  <2>2. CASE t # s
    <3>1. log'[t] = log[t] /\ session'[t] = session[t] /\ workers'[t] = workers[t]
      BY <1>1, <2>2
    <3> QED BY <3>1 DEF LogTells
  <2> QED BY <2>1, <2>2
<1> QED BY <1>4 DEF LogTells

\* transitionSession(): the state is what the new event is read as.
LEMMA AdvanceTells ==
  ASSUME SessionInv, LogTells, NEW s \in Known, NEW to \in SessionStates, Advance(s, to)
  PROVE  LogTells'
<1> DEFINE next == IF to \in SessionTransitions[session[s]] THEN to ELSE session[s]
<1>1. /\ s \in Sessions /\ session \in [Sessions -> SessionStates \cup {"none"}]
      /\ session[s] \in SessionStates /\ log[s] \in Seq(Events)
      /\ session[s] = Replay(log[s])
  BY DEF SessionInv, SessionTypeOK, Known, Events, LogTells
<1>2. /\ <<Entered(to)>> \in Seq(StateEvents) /\ Entered(to) \in Events
      /\ Emit(s, <<Entered(to)>>) /\ workers' = workers
      /\ session' = [session EXCEPT ![s] = next]
  <2>1. session' = [session EXCEPT ![s] = next]
    BY <1>1 DEF Advance
  <2>2. Entered(to) \in StateEvents /\ Entered(to) \in Events
    BY DEF StateEvents, Events
  <2>3. Emit(s, <<Entered(to)>>) /\ workers' = workers
    BY DEF Advance
  <2> HIDE DEF next
  <2> QED BY <2>1, <2>2, <2>3
<1>3. next = Replay(log[s] \o <<Entered(to)>>)
  <2>1. Replay(log[s] \o <<Entered(to)>>) = ReadEvent(Replay(log[s]), Entered(to))
    BY <1>1, <1>2, ReplayOne
  <2>2. ReadEvent(session[s], Entered(to)) = next
    BY <1>1, ReadState
  <2> QED BY <1>1, <2>1, <2>2
<1> HIDE DEF next
<1> QED BY <1>1, <1>2, <1>3, StateCallTells

\* A call of several transitions, each legal after the one before, reads as its
\* last state when the first is legal, and as no change otherwise.
LEMMA AdvanceAllTells ==
  ASSUME SessionInv, LogTells, NEW s \in Known, NEW path \in Seq(SessionStates),
         path # <<>>, AdvanceAll(s, path),
         \A i \in 2..Len(path) : path[i] \in SessionTransitions[path[i - 1]]
  PROVE  LogTells'
<1> DEFINE events == [i \in 1..Len(path) |-> Entered(path[i])]
<1>1. /\ s \in Sessions /\ session[s] \in SessionStates /\ log[s] \in Seq(Events)
      /\ session[s] = Replay(log[s]) /\ path[1] \in SessionStates
  BY DEF SessionInv, SessionTypeOK, Known, Events, LogTells
<1>2. CASE path[1] \in SessionTransitions[session[s]]
  <2>1. /\ Emit(s, events) /\ workers' = workers
        /\ session' = [session EXCEPT ![s] = Last(path)]
    BY <1>2 DEF AdvanceAll
  <2>2. events \in Seq(StateEvents)
    BY DEF StateEvents
  <2>3. Last(path) = Replay(log[s] \o events)
    BY <1>1, <1>2, ReplayPath
  <2> HIDE DEF events
  <2> QED BY <1>1, <2>1, <2>2, <2>3, StateCallTells
<1>3. CASE path[1] \notin SessionTransitions[session[s]]
  BY <1>1, <1>3, AdvanceTells DEF AdvanceAll
<1> QED BY <1>2, <1>3

LEMMA CreateTells ==
  ASSUME SessionInv, LogTells, NEW s \in Sessions, CreateSession(s)
  PROVE  LogTells'
<1>1. /\ "created" \in SessionStates /\ log[s] \in Seq(Events)
      /\ <<Entered("created")>> \in Seq(StateEvents) /\ Entered("created") \in Events
  BY DEF SessionStates, StateEvents, SessionInv, SessionTypeOK, Events
<1>2. /\ Emit(s, <<Entered("created")>>) /\ workers' = workers
      /\ session' = [session EXCEPT ![s] = "created"] /\ Replay(log[s]) = "none"
  BY DEF CreateSession, LogTells
<1>3. Replay(log[s] \o <<Entered("created")>>) = "created"
  <2>1. Replay(log[s] \o <<Entered("created")>>) = ReadEvent("none", Entered("created"))
    BY <1>1, <1>2, ReplayOne
  <2> QED BY <1>1, <2>1, ReadState
<1> QED BY <1>1, <1>2, <1>3, StateCallTells

LEMMA LogTellsStep == SessionInv /\ LogTells /\ [SessionNext]_sessionVars => LogTells'
<1> SUFFICES ASSUME SessionInv, LogTells, [SessionNext]_sessionVars PROVE LogTells'
  OBVIOUS
<1>1. ASSUME NEW s \in Sessions, CreateSession(s) PROVE LogTells'
  BY <1>1, CreateTells
<1>2. ASSUME NEW s \in Sessions, NEW to \in SessionStates,
             TransitionSession(s, to) \/ EndSession(s, to)
      PROVE  LogTells'
  BY <1>2, AdvanceTells DEF TransitionSession, EndSession
<1>3. ASSUME NEW s \in Sessions, InitializeSession(s) PROVE LogTells'
  <2> DEFINE path == <<"initializing", "loading_workspace", "starting_services", "running">>
  <2>1. path \in Seq(SessionStates) /\ path # <<>> /\ Len(path) = 4
    BY DEF SessionStates
  <2>2. \A i \in 2..Len(path) : path[i] \in SessionTransitions[path[i - 1]]
    <3>1. path[2] \in SessionTransitions[path[1]]
      BY DEF SessionTransitions
    <3>2. path[3] \in SessionTransitions[path[2]]
      BY DEF SessionTransitions
    <3>3. path[4] \in SessionTransitions[path[3]]
      BY DEF SessionTransitions
    <3> HIDE DEF path
    <3>4. \A i \in 2..4 : i = 2 \/ i = 3 \/ i = 4
      OBVIOUS
    <3> QED BY <2>1, <3>1, <3>2, <3>3, <3>4
  <2> HIDE DEF path
  <2> QED BY <1>3, <2>1, <2>2, AdvanceAllTells DEF InitializeSession, path
<1>4. ASSUME NEW s \in Sessions, ResumeSession(s) PROVE LogTells'
  <2> DEFINE path == <<"resumed", "running">>
  <2>1. path \in Seq(SessionStates) /\ path # <<>> /\ Len(path) = 2
    BY DEF SessionStates
  <2>2. path[2] \in SessionTransitions[path[1]]
    BY DEF SessionTransitions
  <2> HIDE DEF path
  <2>3. \A i \in 2..Len(path) : path[i] \in SessionTransitions[path[i - 1]]
    <3>1. \A i \in 2..2 : i = 2
      OBVIOUS
    <3> QED BY <2>1, <2>2, <3>1
  <2> QED BY <1>4, <2>1, <2>3, AdvanceAllTells DEF ResumeSession, path
<1>5. ASSUME NEW s \in Sessions, CompleteSession(s) PROVE LogTells'
  <2> DEFINE path == <<"completing", "completed">>
  <2>1. path \in Seq(SessionStates) /\ path # <<>> /\ Len(path) = 2
    BY DEF SessionStates
  <2>2. path[2] \in SessionTransitions[path[1]]
    BY DEF SessionTransitions
  <2> HIDE DEF path
  <2>3. \A i \in 2..Len(path) : path[i] \in SessionTransitions[path[i - 1]]
    <3>1. \A i \in 2..2 : i = 2
      OBVIOUS
    <3> QED BY <2>1, <2>2, <3>1
  <2> QED BY <1>5, <2>1, <2>3, AdvanceAllTells DEF CompleteSession, path
<1>6. ASSUME NEW s \in Sessions, NEW w \in Workers, AddWorker(s, w) PROVE LogTells'
  <2>1. /\ Emit(s, <<<<"worker_added", w>>>>) /\ session' = session
        /\ workers' = [workers EXCEPT ![s] = workers[s] \cup {w}]
    BY <1>6 DEF AddWorker, Joined
  <2> QED BY <2>1, WorkerCallTells
<1>7. ASSUME NEW s \in Sessions, NEW w \in Workers, RemoveWorker(s, w) PROVE LogTells'
  <2>1. /\ Emit(s, <<<<"worker_removed", w>>>>) /\ session' = session
        /\ workers' = [workers EXCEPT ![s] = workers[s] \ {w}]
    BY <1>7 DEF RemoveWorker
  <2> QED BY <2>1, WorkerCallTells
<1>8. CASE UNCHANGED sessionVars
  BY <1>8 DEF sessionVars, LogTells
<1>9. /\ Requests \subseteq SessionStates
      /\ {"paused", "archived", "failed", "cancelled"} \subseteq SessionStates
  BY SessionAssumption DEF SessionStates
<1> QED
  BY <1>1, <1>2, <1>3, <1>4, <1>5, <1>6, <1>7, <1>8, <1>9
     DEF SessionNext, PauseSession, ArchiveSession

\* The log of a session is enough to tell its state and its workers: read with
\* the table of transitions, refused transitions and workers added twice
\* included, it ends in the state the session is in.
THEOREM LogTellsState == SessionSpec => []LogTells
<1>1. SessionInit => LogTells
  <2> SUFFICES ASSUME SessionInit, NEW s \in Sessions, NEW w \in Workers
               PROVE  /\ session[s] = Replay(log[s])
                      /\ w \in workers[s] <=>
                           /\ LastAbout(log[s], w) > 0
                           /\ log[s][LastAbout(log[s], w)][1] = "worker_added"
    BY ReplayEmpty DEF LogTells, SessionInit
  <2>1. log[s] = <<>> /\ session[s] = "none" /\ workers[s] = {}
    BY DEF SessionInit
  <2>2. LastAbout(<<>>, w) = 0
    <3>1. <<>> \in Seq({}) /\ Len(<<>>) = 0
      OBVIOUS
    <3>2. LastAbout(<<>>, w) \in 0..0
      BY <3>1, LastAboutIs
    <3> QED BY <3>2
  <2> QED BY <2>1, <2>2, ReplayEmpty
<1> QED
  BY <1>1, SessionInvariant, LogTellsStep, PTL DEF SessionSpec
=============================================================================
