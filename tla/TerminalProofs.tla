---------------------------- MODULE TerminalProofs ----------------------------
(* Proofs about TerminalRegistry, for any nodes, views, PTYs and references. *)
EXTENDS TerminalRegistry, FiniteSetTheorems, TLAPS

TerminalTypeOK ==
  /\ graph \subseteq Nodes
  /\ registry \in [Nodes -> Nat] /\ refs \in [Nodes -> Nat] /\ created \in [Nodes -> Nat]
  /\ rendered \in [Views -> Nat] /\ shown \in [Views -> Nat]
  /\ disturbed \subseteq Nodes

\* The views whose effects, or whose renders, hold a PTY.
Showing(n) == {v \in ViewsOf(n) : shown[v] # NoPty}
Rendering(n) == {v \in ViewsOf(n) : rendered[v] # NoPty}

\* Whatever a view of the node holds, from a render or an effect, is the PTY of
\* the registry.
Held(n) ==
  \A v \in ViewsOf(n) : /\ shown[v] # NoPty => shown[v] = registry[n]
                        /\ rendered[v] # NoPty => rendered[v] = registry[n]

\* It has a reference for each effect that will give one up, and one for each
\* render whose effects are still to run.
Counted(n) == Cardinality(Showing(n)) + Cardinality(Rendering(n)) <= refs[n]

NodeOK(n) == Held(n) /\ Counted(n)

TerminalInv == TerminalTypeOK /\ \A n \in Nodes : n \notin disturbed => NodeOK(n)

-----------------------------------------------------------------------------
(* The sets of views that are counted.                                     *)

\* They are finite, and their sizes are numbers.
LEMMA ViewsFinite ==
  ASSUME NEW n \in Nodes
  PROVE  /\ IsFiniteSet(Showing(n)) /\ IsFiniteSet(Rendering(n))
         /\ Cardinality(Showing(n)) \in Nat /\ Cardinality(Rendering(n)) \in Nat
<1>1. Showing(n) \subseteq Views /\ Rendering(n) \subseteq Views
  BY DEF Showing, Rendering, ViewsOf
<1>2. IsFiniteSet(Showing(n)) /\ IsFiniteSet(Rendering(n))
  BY <1>1, FS_Subset, TerminalAssumption
<1> QED
  BY <1>2, FS_CardinalityType

\* A set that lost the element v is smaller by one.
LEMMA OneLess ==
  ASSUME NEW S, IsFiniteSet(S), NEW v \in S
  PROVE  /\ IsFiniteSet(S \ {v})
         /\ Cardinality(S) \in Nat /\ Cardinality(S \ {v}) \in Nat
         /\ Cardinality(S) = Cardinality(S \ {v}) + 1
<1>1. IsFiniteSet(S \ {v}) /\ Cardinality(S \ {v}) = Cardinality(S) - 1
  BY FS_RemoveElement
<1>2. Cardinality(S) \in Nat /\ Cardinality(S \ {v}) \in Nat
  BY <1>1, FS_CardinalityType
<1> QED
  BY <1>1, <1>2

\* A set that v may have joined is larger by one at most.
LEMMA OneMore ==
  ASSUME NEW S, IsFiniteSet(S), NEW v
  PROVE  /\ IsFiniteSet(S \union {v})
         /\ Cardinality(S) \in Nat /\ Cardinality(S \union {v}) \in Nat
         /\ Cardinality(S \union {v}) <= Cardinality(S) + 1
<1>1. /\ IsFiniteSet(S \union {v})
      /\ Cardinality(S \union {v}) \in {Cardinality(S), Cardinality(S) + 1}
  BY FS_AddElement
<1>2. Cardinality(S) \in Nat /\ Cardinality(S \union {v}) \in Nat
  BY <1>1, FS_CardinalityType
<1> QED
  BY <1>1, <1>2

\* A node none of whose views holds anything is in order whatever is counted.
LEMMA Unused ==
  ASSUME NEW n \in Nodes, refs'[n] \in Nat,
         \A v \in ViewsOf(n) : shown'[v] = NoPty /\ rendered'[v] = NoPty
  PROVE  NodeOK(n)'
<1>1. Showing(n)' = {} /\ Rendering(n)' = {}
  BY DEF Showing, Rendering, ViewsOf
<1>2. Cardinality(Showing(n))' = 0 /\ Cardinality(Rendering(n))' = 0
  BY <1>1, FS_EmptySet
<1>3. Counted(n)'
  BY <1>2 DEF Counted
<1>4. Held(n)'
  BY DEF Held, ViewsOf
<1> QED
  BY <1>3, <1>4 DEF NodeOK

\* A step that does not touch a node and its views leaves it in order.
LEMMA Untouched ==
  ASSUME NEW n \in Nodes, NodeOK(n),
         registry'[n] = registry[n], refs'[n] = refs[n],
         \A v \in ViewsOf(n) : shown'[v] = shown[v] /\ rendered'[v] = rendered[v]
  PROVE  NodeOK(n)'
<1>1. Showing(n)' = Showing(n) /\ Rendering(n)' = Rendering(n)
  BY DEF Showing, Rendering, ViewsOf
<1>2. Counted(n)'
  BY <1>1 DEF Counted, NodeOK
<1>3. Held(n)'
  BY DEF Held, ViewsOf, NodeOK
<1> QED
  BY <1>2, <1>3 DEF NodeOK

\* The nodes that were in order before the step and must be so after it are all
\* there is to look at: one that is disturbed no longer has no view in use.
LEMMA Settled ==
  ASSUME TerminalTypeOK', NEW nodes \in SUBSET Nodes, Disturb(nodes),
         \A n \in Nodes \ (disturbed \union nodes) : NodeOK(n)'
  PROVE  TerminalInv'
<1> SUFFICES ASSUME NEW n \in Nodes, n \notin disturbed' PROVE NodeOK(n)'
  BY DEF TerminalInv
<1>1. CASE n \notin disturbed \union nodes
  BY <1>1
<1>2. CASE n \in disturbed \union nodes
  <2>1. \A v \in ViewsOf(n) : shown'[v] = NoPty /\ rendered'[v] = NoPty
    BY <1>2 DEF Disturb
  <2> QED
    BY <2>1, Unused DEF TerminalTypeOK
<1> QED
  BY <1>1, <1>2

-----------------------------------------------------------------------------
(* Giving up a reference, at an unmount or before another effect.           *)

\* When a view that is shown gives up its reference and nobody takes its place,
\* the PTY goes only if no other view holds it.
LEMMA ReleaseKeeps ==
  ASSUME TerminalInv, NEW v \in Views, NodeOf[v] \notin disturbed,
         shown[v] # NoPty, ReleasePty(NodeOf[v]),
         \A w \in Views \ {v} : shown'[w] = shown[w] /\ rendered'[w] = rendered[w],
         rendered'[v] = NoPty,
         \/ shown'[v] = NoPty
         \/ shown'[v] = rendered[v] /\ rendered[v] # NoPty
  PROVE  NodeOK(NodeOf[v])'
<1> DEFINE n == NodeOf[v]
           S == Showing(n)
           R == Rendering(n)
<1> n \in Nodes
  BY TerminalAssumption
<1>0. NodeOK(n) /\ refs[n] \in Nat /\ registry \in [Nodes -> Nat] /\ refs \in [Nodes -> Nat]
  BY DEF TerminalInv, TerminalTypeOK
<1>1. v \in S
  BY DEF Showing, ViewsOf
<1>2. /\ IsFiniteSet(S) /\ IsFiniteSet(R)
      /\ Cardinality(S) \in Nat /\ Cardinality(R) \in Nat
  BY ViewsFinite
<1>3. Cardinality(S) + Cardinality(R) <= refs[n]
  BY <1>0 DEF NodeOK, Counted
<1>4. /\ Cardinality(S \ {v}) \in Nat /\ IsFiniteSet(S \ {v})
      /\ Cardinality(S) = Cardinality(S \ {v}) + 1
  BY <1>1, <1>2, OneLess
<1>5. Held(n)
  BY <1>0 DEF NodeOK
<1>6. CASE shown'[v] = NoPty
  <2>1. Showing(n)' = S \ {v} /\ Rendering(n)' \subseteq R
    BY <1>6 DEF Showing, Rendering, ViewsOf
  <2>2. IsFiniteSet(Rendering(n)') /\ Cardinality(Rendering(n)') <= Cardinality(R)
    BY <2>1, <1>2, FS_Subset
  <2>3. Cardinality(Rendering(n)') \in Nat
    BY <2>2, FS_CardinalityType
  <2>4. Cardinality(Showing(n)') + Cardinality(Rendering(n)') <= refs[n] - 1
    BY <2>1, <2>2, <2>3, <1>0, <1>2, <1>3, <1>4
  <2>5. CASE refs[n] <= 1
    <3>1. Cardinality(Showing(n)') = 0 /\ Cardinality(Rendering(n)') = 0
      BY <2>4, <2>5, <2>1, <1>4, <2>3, <1>0
    <3>2. Showing(n)' = {} /\ Rendering(n)' = {}
      BY <3>1, <2>1, <1>4, <2>2, FS_EmptySet
    <3>3. \A w \in ViewsOf(n) : shown'[w] = NoPty /\ rendered'[w] = NoPty
      BY <3>2 DEF Showing, Rendering, ViewsOf
    <3>4. refs'[n] \in Nat
      BY <1>0, <2>5 DEF ReleasePty
    <3> QED
      BY <3>3, <3>4, Unused
  <2>6. CASE ~(refs[n] <= 1)
    <3>1. refs'[n] = refs[n] - 1 /\ registry' = registry
      BY <2>6, <1>0 DEF ReleasePty
    <3>2. Counted(n)'
      BY <3>1, <2>4 DEF Counted
    <3>3. Held(n)'
      BY <3>1, <1>5, <1>6 DEF Held, ViewsOf
    <3> QED
      BY <3>2, <3>3 DEF NodeOK
  <2> QED
    BY <2>5, <2>6
<1>7. CASE shown'[v] = rendered[v] /\ rendered[v] # NoPty
  <2>1. v \in R
    BY <1>7 DEF Rendering, ViewsOf
  <2>2. /\ Cardinality(R \ {v}) \in Nat
        /\ Cardinality(R) = Cardinality(R \ {v}) + 1
    BY <2>1, <1>2, OneLess
  <2>3. Showing(n)' = S /\ Rendering(n)' = R \ {v}
    BY <1>7, <1>1 DEF Showing, Rendering, ViewsOf
  <2>4. ~(refs[n] <= 1)
    BY <1>0, <1>3, <1>4, <2>2
  <2>5. refs'[n] = refs[n] - 1 /\ registry' = registry
    BY <2>4, <1>0 DEF ReleasePty
  <2>6. Cardinality(S) + Cardinality(R \ {v}) <= refs[n] - 1
    BY <1>2, <1>3, <2>2, <1>0
  <2>7. Counted(n)'
    BY <2>3, <2>5, <2>6 DEF Counted
  <2>8. Held(n)'
    BY <2>5, <1>5, <1>7 DEF Held, ViewsOf
  <2> QED
    BY <2>7, <2>8 DEF NodeOK
<1> QED
  BY <1>6, <1>7

-----------------------------------------------------------------------------
(* The steps.                                                              *)

LEMMA TerminalInitInv == TerminalInit => TerminalInv
<1> SUFFICES ASSUME TerminalInit PROVE TerminalInv
  OBVIOUS
<1>1. TerminalTypeOK
  BY DEF TerminalInit, TerminalTypeOK, NoPty
<1>2. ASSUME NEW n \in Nodes PROVE NodeOK(n)
  <2>1. Showing(n) = {} /\ Rendering(n) = {}
    BY TerminalAssumption DEF TerminalInit, Showing, Rendering, ViewsOf
  <2>2. Counted(n)
    BY <2>1, FS_EmptySet DEF TerminalInit, Counted
  <2>3. Held(n)
    BY DEF TerminalInit, Held, ViewsOf
  <2> QED
    BY <2>2, <2>3 DEF NodeOK
<1> QED
  BY <1>1, <1>2 DEF TerminalInv

LEMMA RenderKeeps ==
  ASSUME TerminalInv, NEW v \in Views, Render(v)
  PROVE  TerminalInv'
<1> DEFINE n == NodeOf[v]
<1> n \in Nodes
  BY TerminalAssumption
<1>0. TerminalTypeOK
  BY DEF TerminalInv
<1>1. /\ registry'[n] \in Nat \ {NoPty}
      /\ registry' \in [Nodes -> Nat] /\ refs' \in [Nodes -> Nat] /\ created' \in [Nodes -> Nat]
      /\ \A m \in Nodes \ {n} : registry'[m] = registry[m] /\ refs'[m] = refs[m]
  <2>1. CASE Reuse(n)
    BY <2>1, <1>0 DEF TerminalTypeOK, Reuse, NoPty
  <2>2. CASE Make(n)
    BY <2>2, <1>0 DEF TerminalTypeOK, Make, NoPty
  <2> QED
    BY <2>1, <2>2 DEF Render, EnsurePty
<1>2. /\ shown' = shown /\ graph' = graph
      /\ rendered' = [rendered EXCEPT ![v] = registry'[n]]
      /\ Disturb({})
  BY DEF Render
<1>3. TerminalTypeOK'
  BY <1>0, <1>1, <1>2 DEF TerminalTypeOK, Disturb
<1>4. ASSUME NEW m \in Nodes \ disturbed PROVE NodeOK(m)'
  <2>0. NodeOK(m) /\ Held(m) /\ Counted(m)
    BY DEF TerminalInv, NodeOK
  <2>1. CASE m # n
    <3>1. \A w \in ViewsOf(m) : shown'[w] = shown[w] /\ rendered'[w] = rendered[w]
      BY <2>1, <1>0, <1>2 DEF ViewsOf, TerminalTypeOK
    <3> QED
      BY <2>0, <2>1, <3>1, <1>1, Untouched
  <2>2. CASE m = n
    <3>1. /\ IsFiniteSet(Rendering(n))
          /\ Cardinality(Showing(n)) \in Nat /\ Cardinality(Rendering(n)) \in Nat
      BY ViewsFinite
    <3>2. Showing(n)' = Showing(n) /\ Rendering(n)' = Rendering(n) \union {v}
      BY <1>0, <1>1, <1>2 DEF Showing, Rendering, ViewsOf, TerminalTypeOK
    <3>3. /\ Cardinality(Rendering(n) \union {v}) \in Nat
          /\ Cardinality(Rendering(n) \union {v}) <= Cardinality(Rendering(n)) + 1
      BY <3>1, OneMore
    <3>4. CASE Reuse(n)
      <4>1. refs'[n] = refs[n] + 1 /\ registry' = registry /\ refs[n] \in Nat
        BY <3>4, <1>0 DEF Reuse, TerminalTypeOK
      <4>2. Counted(n)'
        BY <4>1, <3>1, <3>2, <3>3, <2>0, <2>2 DEF Counted
      <4>3. Held(n)'
        BY <4>1, <1>0, <1>2, <2>0, <2>2 DEF Held, ViewsOf, TerminalTypeOK
      <4> QED
        BY <4>2, <4>3, <2>2 DEF NodeOK
    <3>5. CASE Make(n)
      <4>1. \A w \in ViewsOf(n) : shown[w] = NoPty /\ rendered[w] = NoPty
        BY <3>5, <2>0, <2>2 DEF Held, Make
      <4>2. Showing(n) = {} /\ Rendering(n) = {}
        BY <4>1 DEF Showing, Rendering
      <4>3. Cardinality(Showing(n)) = 0 /\ Cardinality(Rendering(n)) = 0
        BY <4>2, FS_EmptySet
      <4>4. refs'[n] = 1
        BY <3>5, <1>0 DEF Make, TerminalTypeOK
      <4>5. Counted(n)'
        BY <4>3, <4>4, <3>2, <3>3 DEF Counted
      <4>6. Held(n)'
        BY <4>1, <1>0, <1>2 DEF Held, ViewsOf, TerminalTypeOK
      <4> QED
        BY <4>5, <4>6, <2>2 DEF NodeOK
    <3> QED
      BY <3>4, <3>5 DEF Render, EnsurePty
  <2> QED
    BY <2>1, <2>2
<1> QED
  BY <1>2, <1>3, <1>4, Settled

\* The two steps in which a view gives up its reference.
LEMMA ReleaseStep ==
  ASSUME TerminalInv, NEW v \in Views, shown[v] # NoPty, ReleasePty(NodeOf[v]),
         graph' = graph, Disturb({}),
         rendered' = [rendered EXCEPT ![v] = NoPty],
         NEW pty, shown' = [shown EXCEPT ![v] = pty],
         pty = NoPty \/ (pty = rendered[v] /\ rendered[v] # NoPty)
  PROVE  TerminalInv'
<1> DEFINE n == NodeOf[v]
<1> n \in Nodes
  BY TerminalAssumption
<1>0. TerminalTypeOK
  BY DEF TerminalInv
<1>1. /\ registry' \in [Nodes -> Nat] /\ refs' \in [Nodes -> Nat] /\ created' = created
      /\ \A m \in Nodes \ {n} : registry'[m] = registry[m] /\ refs'[m] = refs[m]
  BY <1>0 DEF ReleasePty, TerminalTypeOK, NoPty
<1>2. pty \in Nat
  BY <1>0 DEF TerminalTypeOK, NoPty
<1>3. TerminalTypeOK'
  BY <1>0, <1>1, <1>2 DEF TerminalTypeOK, Disturb, NoPty
<1>4. /\ \A w \in Views \ {v} : shown'[w] = shown[w] /\ rendered'[w] = rendered[w]
      /\ rendered'[v] = NoPty /\ shown'[v] = pty
  BY <1>0 DEF TerminalTypeOK
<1>5. ASSUME NEW m \in Nodes \ disturbed PROVE NodeOK(m)'
  <2>1. CASE m # n
    <3>1. \A w \in ViewsOf(m) : shown'[w] = shown[w] /\ rendered'[w] = rendered[w]
      BY <2>1, <1>4 DEF ViewsOf
    <3>2. NodeOK(m)
      BY DEF TerminalInv
    <3> QED
      BY <2>1, <3>1, <3>2, <1>1, Untouched
  <2>2. CASE m = n
    BY <2>2, <1>4, ReleaseKeeps
  <2> QED
    BY <2>1, <2>2
<1> QED
  BY <1>3, <1>5, Settled

\* Effects that run for the first time, or not at all, give up nothing: what was
\* counted for the render is counted for the view.
LEMMA CommitKeeps ==
  ASSUME TerminalInv, NEW v \in Views, Commit(v)
  PROVE  TerminalInv'
<1> DEFINE n == NodeOf[v]
<1> n \in Nodes
  BY TerminalAssumption
<1>0. TerminalTypeOK
  BY DEF TerminalInv
<1>1. /\ rendered[v] # NoPty /\ graph' = graph /\ Disturb({})
      /\ rendered' = [rendered EXCEPT ![v] = NoPty]
      /\ shown' = [shown EXCEPT ![v] = rendered[v]]
  BY DEF Commit
<1>2. CASE shown[v] # NoPty /\ ReleasePty(n)
  BY <1>1, <1>2, ReleaseStep
<1>3. CASE shown[v] \in {NoPty, rendered[v]} /\ UNCHANGED <<registry, refs, created>>
  <2>1. TerminalTypeOK'
    BY <1>0, <1>1, <1>3 DEF TerminalTypeOK, Disturb, NoPty
  <2>2. /\ \A w \in Views \ {v} : shown'[w] = shown[w] /\ rendered'[w] = rendered[w]
        /\ rendered'[v] = NoPty /\ shown'[v] = rendered[v]
    BY <1>0, <1>1 DEF TerminalTypeOK
  <2>3. ASSUME NEW m \in Nodes \ disturbed PROVE NodeOK(m)'
    <3>0. NodeOK(m) /\ Held(m) /\ Counted(m) /\ refs[m] \in Nat
      BY <1>0 DEF TerminalInv, NodeOK, TerminalTypeOK
    <3>1. CASE m # n
      <4>1. \A w \in ViewsOf(m) : shown'[w] = shown[w] /\ rendered'[w] = rendered[w]
        BY <3>1, <2>2 DEF ViewsOf
      <4> QED
        BY <3>0, <4>1, <1>3, Untouched
    <3>2. CASE m = n
      <4>1. v \in Rendering(n)
        BY <1>1 DEF Rendering, ViewsOf
      <4>2. /\ IsFiniteSet(Showing(n)) /\ IsFiniteSet(Rendering(n))
            /\ Cardinality(Showing(n)) \in Nat /\ Cardinality(Rendering(n)) \in Nat
        BY ViewsFinite
      <4>3. Showing(n)' = Showing(n) \union {v} /\ Rendering(n)' = Rendering(n) \ {v}
        BY <1>1, <2>2 DEF Showing, Rendering, ViewsOf
      <4>4. /\ Cardinality(Showing(n) \union {v}) \in Nat
            /\ Cardinality(Showing(n) \union {v}) <= Cardinality(Showing(n)) + 1
        BY <4>2, OneMore
      <4>5. /\ Cardinality(Rendering(n) \ {v}) \in Nat
            /\ Cardinality(Rendering(n)) = Cardinality(Rendering(n) \ {v}) + 1
        BY <4>1, <4>2, OneLess
      <4>6. Counted(n)'
        BY <3>0, <3>2, <1>3, <4>2, <4>3, <4>4, <4>5 DEF Counted
      <4>7. Held(n)'
        BY <3>0, <3>2, <1>3, <1>1, <2>2 DEF Held, ViewsOf
      <4> QED
        BY <4>6, <4>7, <3>2 DEF NodeOK
    <3> QED
      BY <3>1, <3>2
  <2> QED
    BY <2>1, <2>3, <1>1, Settled
<1> QED
  BY <1>2, <1>3 DEF Commit

LEMMA UnmountKeeps ==
  ASSUME TerminalInv, NEW v \in Views, Unmount(v)
  PROVE  TerminalInv'
BY ReleaseStep DEF Unmount

LEMMA DiscardKeeps ==
  ASSUME TerminalInv, NEW v \in Views, Discard(v)
  PROVE  TerminalInv'
<1>0. TerminalTypeOK
  BY DEF TerminalInv
<1>1. /\ rendered' = [rendered EXCEPT ![v] = NoPty] /\ Disturb({})
      /\ UNCHANGED <<graph, registry, refs, created, shown>>
  BY DEF Discard
<1>2. TerminalTypeOK'
  BY <1>0, <1>1 DEF TerminalTypeOK, Disturb, NoPty
<1>3. ASSUME NEW m \in Nodes \ disturbed PROVE NodeOK(m)'
  <2>0. Held(m) /\ Counted(m) /\ refs[m] \in Nat
    BY <1>0 DEF TerminalInv, NodeOK, TerminalTypeOK
  <2>1. Showing(m)' = Showing(m) /\ Rendering(m)' \subseteq Rendering(m)
    BY <1>0, <1>1 DEF Showing, Rendering, ViewsOf, TerminalTypeOK
  <2>2. /\ IsFiniteSet(Rendering(m))
        /\ Cardinality(Showing(m)) \in Nat /\ Cardinality(Rendering(m)) \in Nat
    BY ViewsFinite
  <2>3. /\ IsFiniteSet(Rendering(m)')
        /\ Cardinality(Rendering(m)') <= Cardinality(Rendering(m))
    BY <2>1, <2>2, FS_Subset
  <2>4. Cardinality(Rendering(m)') \in Nat
    BY <2>3, FS_CardinalityType
  <2>5. Counted(m)'
    BY <2>0, <2>1, <2>2, <2>3, <2>4, <1>1 DEF Counted
  <2>6. Held(m)'
    BY <2>0, <1>0, <1>1 DEF Held, ViewsOf, TerminalTypeOK
  <2> QED
    BY <2>5, <2>6 DEF NodeOK
<1> QED
  BY <1>1, <1>2, <1>3, Settled

LEMMA ChangeGraphKeeps ==
  ASSUME TerminalInv, NEW nodes \in SUBSET Nodes, ChangeGraph(nodes)
  PROVE  TerminalInv'
<1>1. TerminalTypeOK' /\ disturbed' = disturbed
  BY DEF TerminalInv, TerminalTypeOK, ChangeGraph
<1>2. ASSUME NEW m \in Nodes, m \notin disturbed PROVE NodeOK(m)'
  BY <1>2, Untouched DEF TerminalInv, ChangeGraph
<1> QED
  BY <1>1, <1>2 DEF TerminalInv

LEMMA RemoveNodeKeeps ==
  ASSUME TerminalInv, NEW n \in Nodes, RemoveNode(n)
  PROVE  TerminalInv'
<1>0. TerminalTypeOK
  BY DEF TerminalInv
<1>1. /\ TerminalTypeOK'
      /\ \A m \in Nodes \ {n} : registry'[m] = registry[m] /\ refs'[m] = refs[m]
  BY <1>0 DEF TerminalTypeOK, RemoveNode, Disturb, NoPty
<1>2. ASSUME NEW m \in Nodes \ (disturbed \union {n}) PROVE NodeOK(m)'
  BY <1>1, Untouched DEF TerminalInv, RemoveNode
<1> QED
  BY <1>1, <1>2, Settled DEF RemoveNode

\* A node that undo() makes a PTY for had none, so no view of it held any.
LEMMA UndoKeeps ==
  ASSUME TerminalInv, NEW snapshot \in SUBSET Nodes, UndoTo(snapshot)
  PROVE  TerminalInv'
<1> DEFINE missing == {n \in snapshot : registry[n] = NoPty}
           gone    == {n \in graph \ snapshot : registry[n] # NoPty}
<1>0. TerminalTypeOK
  BY DEF TerminalInv
<1>1. /\ graph' = snapshot /\ UNCHANGED <<rendered, shown>> /\ Disturb(gone)
      /\ created' = [n \in Nodes |-> IF n \in missing THEN created[n] + 1 ELSE created[n]]
      /\ registry' = [n \in Nodes |-> IF n \in missing THEN created[n] + 1
                                      ELSE IF n \in gone THEN NoPty ELSE registry[n]]
      /\ refs' = [n \in Nodes |-> IF n \in missing THEN 1
                                  ELSE IF n \in gone THEN 0 ELSE refs[n]]
  BY DEF UndoTo
<1>2. gone \in SUBSET Nodes
  BY <1>0 DEF TerminalTypeOK
<1>3. /\ created' \in [Nodes -> Nat] /\ registry' \in [Nodes -> Nat]
      /\ refs' \in [Nodes -> Nat]
  BY <1>0, <1>1 DEF TerminalTypeOK, NoPty
<1>4. TerminalTypeOK'
  BY <1>0, <1>1, <1>2, <1>3 DEF TerminalTypeOK, Disturb
<1>5. ASSUME NEW m \in Nodes \ (disturbed \union gone) PROVE NodeOK(m)'
  <2>0. NodeOK(m)
    BY DEF TerminalInv
  <2>1. CASE m \in missing
    <3>1. \A v \in ViewsOf(m) : shown[v] = NoPty /\ rendered[v] = NoPty
      BY <2>0, <2>1 DEF NodeOK, Held
    <3>2. \A v \in ViewsOf(m) : shown'[v] = NoPty /\ rendered'[v] = NoPty
      BY <3>1, <1>1
    <3> QED
      BY <3>2, <1>3, Unused
  <2>2. CASE m \notin missing
    <3>1. registry'[m] = registry[m] /\ refs'[m] = refs[m]
      BY <2>2, <1>1
    <3> QED
      BY <3>1, <2>0, <1>1, Untouched
  <2> QED
    BY <2>1, <2>2
<1> QED
  BY <1>1, <1>2, <1>4, <1>5, Settled

LEMMA TerminalStep == TerminalInv /\ [TerminalNext]_terminalVars => TerminalInv'
<1> SUFFICES ASSUME TerminalInv, [TerminalNext]_terminalVars PROVE TerminalInv'
  OBVIOUS
<1>1. CASE UNCHANGED terminalVars
  BY <1>1 DEF terminalVars, TerminalInv, TerminalTypeOK, NodeOK, Held, Counted,
              Showing, Rendering, ViewsOf
<1>2. ASSUME NEW v \in Views, Render(v) \/ Commit(v) \/ Discard(v) \/ Unmount(v)
      PROVE  TerminalInv'
  BY <1>2, RenderKeeps, CommitKeeps, DiscardKeeps, UnmountKeeps
<1>3. ASSUME NEW n \in Nodes, RemoveNode(n) PROVE TerminalInv'
  BY <1>3, RemoveNodeKeeps
<1>4. ASSUME NEW nodes \in SUBSET Nodes, ChangeGraph(nodes) \/ UndoTo(nodes)
      PROVE  TerminalInv'
  BY <1>4, ChangeGraphKeeps, UndoKeeps
<1> QED
  BY <1>1, <1>2, <1>3, <1>4 DEF TerminalNext

\* The PTY a view shows stays the one of the registry while its node is not
\* removed under it: for any number of nodes, views and PTYs.
THEOREM PtyIsKept == TerminalSpec => []KeptInUse
<1>1. TerminalInv => KeptInUse
  BY TerminalAssumption DEF TerminalInv, NodeOK, Held, ViewsOf, KeptInUse
<1> QED
  BY <1>1, TerminalInitInv, TerminalStep, PTL DEF TerminalSpec
=============================================================================
