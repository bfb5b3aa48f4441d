--------------------------- MODULE TerminalRegistry ---------------------------
(***************************************************************************)
(* The terminals of the workspace: the registry of PTYs that               *)
(* src/ui/workspace/terminal/use-terminal.tsx shares between the views of  *)
(* a node, and what renders, effects and unmounts of the views and the     *)
(* removal, undo and redo of nodes (use-workspace.tsx) do to it.           *)
(*                                                                         *)
(* A PTY is known by its generation: the k-th one made for its node.  One  *)
(* that is made is in the registry until pty.kill() is called for it, and  *)
(* never after.                                                            *)
(***************************************************************************)
EXTENDS Integers, FiniteSets

CONSTANTS
  Nodes,      \* the terminal nodes
  Views,      \* the views of them: canvas preview, graph node
  NodeOf,     \* the node a view shows
  MaxPtys,    \* bound: PTYs made for one node
  MaxRefs     \* bound: references counted for one node

ASSUME TerminalAssumption ==
  /\ IsFiniteSet(Nodes) /\ IsFiniteSet(Views)
  /\ NodeOf \in [Views -> Nodes]
  /\ MaxPtys \in Nat /\ MaxRefs \in Nat

NoPty == 0

VARIABLES
  graph,       \* the terminal nodes in the graph of the project
  registry,    \* node -> its PTY in registry
  refs,        \* node -> its count in refCounts, 0 when there is none
  created,     \* node -> PTYs made for it so far
  rendered,    \* view -> what its last render got, until its effects run
  shown,       \* view -> the PTY its effects hold
  disturbed    \* history: nodes whose PTY was destroyed under a view in use

terminalVars == <<graph, registry, refs, created, rendered, shown, disturbed>>

ViewsOf(n) == {v \in Views : NodeOf[v] = n}

\* A node is disturbed until the last view that was in use is gone.
Disturb(nodes) ==
  disturbed' = {n \in disturbed \union nodes :
                  \E v \in ViewsOf(n) : shown'[v] # NoPty \/ rendered'[v] # NoPty}

TerminalInit ==
  /\ graph = {}
  /\ registry = [n \in Nodes |-> NoPty]
  /\ refs = [n \in Nodes |-> 0]
  /\ created = [n \in Nodes |-> 0]
  /\ rendered = [v \in Views |-> NoPty]
  /\ shown = [v \in Views |-> NoPty]
  /\ disturbed = {}

-----------------------------------------------------------------------------
(* The registry.                                                           *)

\* For a mutant: a reference that is handed out and not counted.
ReuseUncounted(n) ==
  /\ registry[n] # NoPty /\ refs[n] < MaxRefs
  /\ UNCHANGED <<refs, registry, created>>

\* ensurePty() takes one more reference to the PTY there is ...
Reuse(n) ==
  /\ registry[n] # NoPty /\ refs[n] < MaxRefs
  /\ refs' = [refs EXCEPT ![n] = @ + 1]
  /\ UNCHANGED <<registry, created>>

\* ... or makes one, with the first reference to it.
Make(n) ==
  /\ registry[n] = NoPty /\ created[n] < MaxPtys
  /\ created' = [created EXCEPT ![n] = @ + 1]
  /\ registry' = [registry EXCEPT ![n] = created[n] + 1]
  /\ refs' = [refs EXCEPT ![n] = 1]

EnsurePty(n) == Reuse(n) \/ Make(n)

\* The last reference takes the PTY with it.
ReleasePty(n) ==
  /\ refs' = [refs EXCEPT ![n] = IF @ <= 1 THEN 0 ELSE @ - 1]
  /\ registry' = IF refs[n] <= 1 THEN [registry EXCEPT ![n] = NoPty] ELSE registry
  /\ UNCHANGED created

-----------------------------------------------------------------------------
(* A view: useTerminal().                                                  *)

\* Every render asks for the PTY, the first one of a view and the later ones,
\* and so does one that React throws away.
Render(v) ==
  /\ NodeOf[v] \in graph \/ shown[v] # NoPty
  /\ EnsurePty(NodeOf[v])
  /\ rendered' = [rendered EXCEPT ![v] = registry'[NodeOf[v]]]
  /\ UNCHANGED <<graph, shown>>
  /\ Disturb({})

\* A render is committed and its effects run: not when PTY and shell are what
\* they were; else the cleanup of the earlier effect gives up its reference.
Commit(v) ==
  /\ rendered[v] # NoPty
  /\ \/ shown[v] \in {NoPty, rendered[v]} /\ UNCHANGED <<registry, refs, created>>
     \/ shown[v] # NoPty /\ ReleasePty(NodeOf[v])
  /\ rendered' = [rendered EXCEPT ![v] = NoPty]
  /\ shown' = [shown EXCEPT ![v] = rendered[v]]
  /\ UNCHANGED graph
  /\ Disturb({})

\* A render is thrown away; nobody gives up its reference.
Discard(v) ==
  /\ rendered[v] # NoPty
  /\ rendered' = [rendered EXCEPT ![v] = NoPty]
  /\ UNCHANGED <<graph, registry, refs, created, shown>>
  /\ Disturb({})

Unmount(v) ==
  /\ shown[v] # NoPty
  /\ ReleasePty(NodeOf[v])
  /\ rendered' = [rendered EXCEPT ![v] = NoPty]
  /\ shown' = [shown EXCEPT ![v] = NoPty]
  /\ UNCHANGED graph
  /\ Disturb({})

-----------------------------------------------------------------------------
(* The graph: its views come and go some renders later.                    *)

\* addNode(), or another project or canvas view is opened: no PTY is touched.
ChangeGraph(nodes) ==
  /\ graph' = nodes
  /\ UNCHANGED <<registry, refs, created, rendered, shown, disturbed>>

\* destroyPty(), whatever is counted.
RemoveNode(n) ==
  /\ n \in graph
  /\ graph' = graph \ {n}
  /\ registry' = [registry EXCEPT ![n] = NoPty]
  /\ refs' = [refs EXCEPT ![n] = IF registry[n] = NoPty THEN @ ELSE 0]
  /\ UNCHANGED <<created, rendered, shown>>
  /\ Disturb({n})

\* undo() or redo() to a graph with these terminals: PTYs that are missing are
\* made before any view renders, those of other nodes are destroyed.
UndoTo(snapshot) ==
  LET missing == {n \in snapshot : registry[n] = NoPty}
      gone    == {n \in graph \ snapshot : registry[n] # NoPty}
  IN /\ \A n \in missing : created[n] < MaxPtys
     /\ graph' = snapshot
     /\ created' = [n \in Nodes |-> IF n \in missing THEN created[n] + 1 ELSE created[n]]
     /\ registry' = [n \in Nodes |-> IF n \in missing THEN created[n] + 1
                                     ELSE IF n \in gone THEN NoPty ELSE registry[n]]
     /\ refs' = [n \in Nodes |-> IF n \in missing THEN 1
                                 ELSE IF n \in gone THEN 0 ELSE refs[n]]
     /\ UNCHANGED <<rendered, shown>>
     /\ Disturb(gone)

TerminalNext ==
  \/ \E v \in Views : Render(v) \/ Commit(v) \/ Discard(v) \/ Unmount(v)
  \/ \E n \in Nodes : RemoveNode(n)
  \/ \E nodes \in SUBSET Nodes : ChangeGraph(nodes) \/ UndoTo(nodes)

TerminalSpec == TerminalInit /\ [][TerminalNext]_terminalVars

-----------------------------------------------------------------------------
\* "Reference counting ensures PTYs are only destroyed when no longer in use"
\* (use-terminal.tsx): as long as no node is removed under its views, the PTY a
\* view shows is the one in the registry, not killed, whatever views of the node
\* rendered, came and went besides; so the views of a node share one shell.
KeptInUse ==
  \A v \in Views : shown[v] # NoPty /\ NodeOf[v] \notin disturbed =>
                     registry[NodeOf[v]] = shown[v]
=============================================================================
