-------------------------------- MODULE Dag --------------------------------
(***************************************************************************)
(* Package dag and the two uses the runtime makes of a graph: the loader   *)
(* builds it, validates it (Tarjan's strongly connected components,        *)
(* dag/tarjan.go and ops.go) and evaluates it in topological order         *)
(* (dag/walk.go); the scheduler splits it into weakly connected components *)
(* (dag/weak.go) and ranks each one by a topological walk from its leaves. *)
(*                                                                         *)
(* A Go map is ranged over in any order, so every algorithm has many       *)
(* executions on one graph; each of its steps is an action.  Recursion is  *)
(* an explicit stack of frames.  Lists of nodes still to be looked at are  *)
(* sets: the order in which they are taken is left open.                   *)
(***************************************************************************)
EXTENDS Naturals, Sequences, FiniteSets, GroupsAndRanks

CONSTANT Nodes

ASSUME DagAssumption == IsFiniteSet(Nodes)

VARIABLES
  nodes, outEdges, inEdges,   \* Graph
  pc,         \* what is being done with the graph
  index,      \* tarjan.nodes: the visit number of each node, 0 before its visit
  lowLink,    \* tarjan.lowLink
  stack,      \* tarjan.stack
  frames,     \* the calls of tarjan: node, and successors still to be looked at
  result,     \* tarjan.result, as sets
  unseen,     \* nodes WeaklyConnectedComponents has not visited
  frontier,   \* its queue
  component,  \* the component it is at
  components, \* the components it has found
  unchecked,  \* WalkTopological: nodes ready to be visited
  remaining,  \* remainingDeps, the number of outgoing edges where it has no entry
  order,      \* the nodes in the order WalkTopological called fn
  group,      \* desiredTask: group and rank of each node
  rank

graphVars == <<nodes, outEdges, inEdges>>
sccVars == <<index, lowLink, stack, frames, result>>
weakVars == <<unseen, frontier, component, components>>
walkVars == <<unchecked, remaining, order>>
taskVars == <<group, rank>>
vars == <<nodes, outEdges, inEdges, pc, index, lowLink, stack, frames, result,
          unseen, frontier, component, components, unchecked, remaining, order, group, rank>>

Last(s) == s[Len(s)]
Front(s) == SubSeq(s, 1, Len(s) - 1)
Elements(s) == {s[i] : i \in 1..Len(s)}
Smaller(m, n) == IF m < n THEN m ELSE n

(***************************************************************************)
(* Building the graph                                                      *)
(***************************************************************************)

Add(n) ==
  /\ pc = "build"
  /\ nodes' = nodes \cup {n}
  /\ UNCHANGED <<outEdges, inEdges, pc, sccVars, weakVars, walkVars, taskVars>>

\* Mutant: the incoming edge is not recorded.
AddEdgeOutOnly(from, to) ==
  /\ pc = "build"
  /\ from \in nodes /\ to \in nodes
  /\ outEdges' = [outEdges EXCEPT ![from] = @ \cup {to}]
  /\ UNCHANGED <<nodes, inEdges, pc, sccVars, weakVars, walkVars, taskVars>>

\* Both ends must be in the graph: otherwise the call panics.
AddEdge(from, to) ==
  /\ pc = "build"
  /\ from \in nodes /\ to \in nodes
  /\ inEdges' = [inEdges EXCEPT ![to] = @ \cup {from}]
  /\ outEdges' = [outEdges EXCEPT ![from] = @ \cup {to}]
  /\ UNCHANGED <<nodes, pc, sccVars, weakVars, walkVars, taskVars>>

Leaves == {n \in nodes : outEdges[n] = {}}

(***************************************************************************)
(* Validate                                                                *)
(***************************************************************************)

ValidateBegin ==
  /\ pc = "build"
  /\ pc' = "scc"
  /\ UNCHANGED <<graphVars, sccVars, weakVars, walkVars, taskVars>>

\* Node n is visited by a new call, made by the call of the last frame of calls.
visit(n, calls) ==
  LET number == Cardinality({m \in Nodes : index[m] # 0}) + 1
  IN /\ index' = [index EXCEPT ![n] = number]
     /\ lowLink' = [lowLink EXCEPT ![n] = number]
     /\ stack' = Append(stack, n)
     /\ frames' = Append(calls, [node |-> n, todo |-> outEdges[n]])

\* StronglyConnectedComponents calls tarjan for a node not visited yet.
TarjanRoot(n) ==
  /\ pc = "scc"
  /\ frames = <<>>
  /\ n \in nodes /\ index[n] = 0
  /\ visit(n, <<>>)
  /\ UNCHANGED <<graphVars, pc, result, weakVars, walkVars, taskVars>>

Current == Last(frames).node
WithoutSucc(succ) == Append(Front(frames), [Last(frames) EXCEPT !.todo = @ \ {succ}])

\* Mutant: a successor of a finished component counts.
linksAnyVisited(succ) == TRUE

\* onStack
links(succ) == succ \in Elements(stack)

\* The current call looks at a successor: it recurses, or links to it.
TarjanSuccessor(succ) ==
  /\ pc = "scc"
  /\ frames # <<>>
  /\ succ \in Last(frames).todo
  /\ \/ /\ index[succ] = 0
        /\ visit(succ, WithoutSucc(succ))
     \/ /\ index[succ] # 0
        /\ frames' = WithoutSucc(succ)
        /\ lowLink' = IF links(succ)
                        THEN [lowLink EXCEPT ![Current] = Smaller(@, index[succ])]
                        ELSE lowLink
        /\ UNCHANGED <<index, stack>>
  /\ UNCHANGED <<graphVars, pc, result, weakVars, walkVars, taskVars>>

\* The current call has looked at all successors.  A root pops its component; the
\* caller takes over the smaller lowLink.
TarjanReturn ==
  /\ pc = "scc"
  /\ frames # <<>>
  /\ Last(frames).todo = {}
  /\ \/ /\ lowLink[Current] = index[Current]
        /\ LET at == CHOOSE i \in 1..Len(stack) : stack[i] = Current
           IN /\ stack' = SubSeq(stack, 1, at - 1)
              /\ result' = result \cup {Elements(SubSeq(stack, at, Len(stack)))}
     \/ /\ lowLink[Current] # index[Current]
        /\ UNCHANGED <<stack, result>>
  /\ frames' = Front(frames)
  /\ lowLink' = IF Len(frames) = 1 THEN lowLink
                ELSE [lowLink EXCEPT ![Last(Front(frames)).node] = Smaller(@, lowLink[Current])]
  /\ UNCHANGED <<graphVars, pc, index, weakVars, walkVars, taskVars>>

\* No component has two nodes, and no node references itself.
Accepted ==
  /\ \A C \in result : Cardinality(C) = 1
  /\ \A n \in nodes : n \notin outEdges[n]

ValidateEnd ==
  /\ pc = "scc"
  /\ frames = <<>>
  /\ \A n \in nodes : index[n] # 0
  /\ pc' = IF Accepted THEN "accepted" ELSE "rejected"
  /\ UNCHANGED <<graphVars, sccVars, weakVars, walkVars, taskVars>>

(***************************************************************************)
(* WalkTopological                                                         *)
(***************************************************************************)

\* remainingDeps after the visit of n.
DepsLeft(n) == [m \in Nodes |-> IF m \in inEdges[n] THEN remaining[m] - 1 ELSE remaining[m]]

\* Mutant: a node is ready with its first dependency.
ReadyAtOnce(n) == inEdges[n]

\* The nodes that the visit of n makes ready.
Ready(n) == {m \in inEdges[n] : DepsLeft(n)[m] = 0}

\* The walk starts from the given leaves.
WalkBegin(start) ==
  /\ unchecked' = start
  /\ remaining' = [n \in Nodes |-> Cardinality(outEdges[n])]
  /\ order' = <<>>

\* An unchecked node is taken and fn called.  The code skips a node that it has
\* visited before; here the walk would be stuck, and the run shows it never is.
WalkStep(n) ==
  /\ n \in unchecked
  /\ n \notin Elements(order)
  /\ order' = Append(order, n)
  /\ remaining' = DepsLeft(n)
  /\ unchecked' = (unchecked \ {n}) \cup Ready(n)

\* The loader evaluates an accepted graph from all its leaves.
EvaluateBegin ==
  /\ pc = "accepted"
  /\ pc' = "evaluate"
  /\ WalkBegin(Leaves)
  /\ UNCHANGED <<graphVars, sccVars, weakVars, taskVars>>

EvaluateStep(n) ==
  /\ pc = "evaluate"
  /\ WalkStep(n)
  /\ UNCHANGED <<graphVars, pc, sccVars, weakVars, taskVars>>

EvaluateEnd ==
  /\ pc = "evaluate"
  /\ unchecked = {}
  /\ pc' = "evaluated"
  /\ UNCHANGED <<graphVars, sccVars, weakVars, walkVars, taskVars>>

(***************************************************************************)
(* desiredTasksFromGraph                                                   *)
(***************************************************************************)

\* Mutant: only the nodes that n references.
neighborsOutOnly(n) == outEdges[n]

neighbors(n) == outEdges[n] \cup inEdges[n]

\* The scheduler is given an accepted graph.  (It is so after the evaluation; the two
\* leave the graph alone and are looked at one by one.)
ComponentsBegin ==
  /\ pc = "accepted"
  /\ pc' = "components"
  /\ unseen' = nodes
  /\ UNCHANGED <<graphVars, sccVars, frontier, component, components, walkVars, taskVars>>

\* WeaklyConnectedComponents starts a component at a node not visited yet.
ComponentBegin(n) ==
  /\ pc = "components"
  /\ component = {} /\ frontier = {}
  /\ n \in unseen
  /\ unseen' = unseen \ {n}
  /\ frontier' = {n}
  /\ UNCHANGED <<graphVars, pc, sccVars, component, components, walkVars, taskVars>>

\* A node of the queue is added to it, its neighbours are queued.
ComponentStep(n) ==
  /\ pc = "components"
  /\ n \in frontier
  /\ component' = component \cup {n}
  /\ frontier' = (frontier \ {n}) \cup (neighbors(n) \cap unseen)
  /\ unseen' = unseen \ neighbors(n)
  /\ UNCHANGED <<graphVars, pc, sccVars, components, walkVars, taskVars>>

ComponentEnd ==
  /\ pc = "components"
  /\ component # {} /\ frontier = {}
  /\ components' = components \cup {component}
  /\ component' = {}
  /\ UNCHANGED <<graphVars, pc, sccVars, unseen, frontier, walkVars, taskVars>>

ComponentsDone ==
  /\ pc = "components"
  /\ unseen = {} /\ frontier = {} /\ component = {}
  /\ pc' = "ranks"
  /\ UNCHANGED <<graphVars, sccVars, weakVars, walkVars, taskVars>>

\* The walk of a component starts from its leaves; the rank starts at 0.
RankBegin(C) ==
  /\ pc = "ranks"
  /\ component = {}
  /\ C \in components
  /\ component' = C
  /\ components' = components \ {C}
  /\ WalkBegin(C \cap Leaves)
  /\ UNCHANGED <<graphVars, pc, sccVars, unseen, frontier, taskVars>>

\* fn gives the visited node the group of its component and the next rank.
RankStep(n) ==
  /\ pc = "ranks"
  /\ WalkStep(n)
  /\ group' = [group EXCEPT ![n] = component]
  /\ rank' = [rank EXCEPT ![n] = Len(order)]
  /\ UNCHANGED <<graphVars, pc, sccVars, weakVars>>

RankEnd ==
  /\ pc = "ranks"
  /\ component # {} /\ unchecked = {}
  /\ component' = {}
  /\ UNCHANGED <<graphVars, pc, sccVars, unseen, frontier, components, walkVars, taskVars>>

RanksDone ==
  /\ pc = "ranks"
  /\ component = {} /\ components = {}
  /\ pc' = "scheduled"
  /\ UNCHANGED <<graphVars, sccVars, weakVars, walkVars, taskVars>>

Init ==
  /\ nodes = {}
  /\ outEdges = [n \in Nodes |-> {}]
  /\ inEdges = [n \in Nodes |-> {}]
  /\ pc = "build"
  /\ index = [n \in Nodes |-> 0]
  /\ lowLink = [n \in Nodes |-> 0]
  /\ stack = <<>>
  /\ frames = <<>>
  /\ result = {}
  /\ unseen = {}
  /\ frontier = {}
  /\ component = {}
  /\ components = {}
  /\ unchecked = {}
  /\ remaining = [n \in Nodes |-> 0]
  /\ order = <<>>
  /\ group = [n \in Nodes |-> {}]
  /\ rank = [n \in Nodes |-> 0]

BuildStep == (\E n \in Nodes : Add(n)) \/ (\E m, n \in Nodes : AddEdge(m, n))

ValidateStep ==
  \/ ValidateBegin \/ TarjanReturn \/ ValidateEnd
  \/ \E n \in Nodes : TarjanRoot(n) \/ TarjanSuccessor(n)

EvaluateWalk == EvaluateBegin \/ EvaluateEnd \/ \E n \in Nodes : EvaluateStep(n)

ComponentsWalk ==
  \/ ComponentsBegin \/ ComponentEnd \/ ComponentsDone
  \/ \E n \in Nodes : ComponentBegin(n) \/ ComponentStep(n)

RanksWalk ==
  \/ RankEnd \/ RanksDone
  \/ \E C \in components : RankBegin(C)
  \/ \E n \in Nodes : RankStep(n)

Finished == pc \in {"rejected", "evaluated", "scheduled"} /\ UNCHANGED vars

Next == BuildStep \/ ValidateStep \/ EvaluateWalk \/ ComponentsWalk \/ RanksWalk \/ Finished

Spec == Init /\ [][Next]_vars

-----------------------------------------------------------------------------
(***************************************************************************)
(* Properties                                                              *)
(***************************************************************************)

\* The graph as GroupsAndRanks has it.
AsGraph == [nodes |-> nodes, edges |-> {e \in nodes \X nodes : e[2] \in outEdges[e[1]]}]

\* m can be reached from n along one or more edges: it is in every set that holds
\* the successors of n and is closed under successors.
Reaches(n, m) ==
  \A C \in SUBSET nodes :
    (outEdges[n] \subseteq C /\ \A x \in C : outEdges[x] \subseteq C) => m \in C

\* Types; the two edge maps mirror each other, so that walks along incoming and
\* along outgoing edges see the same graph.
TypeOK ==
  /\ nodes \subseteq Nodes
  /\ outEdges \in [Nodes -> SUBSET nodes] /\ inEdges \in [Nodes -> SUBSET nodes]
  /\ \A m, n \in Nodes : m \in outEdges[n] <=> n \in inEdges[m]
  /\ stack \in Seq(nodes) /\ unchecked \subseteq nodes /\ order \in Seq(nodes)
  /\ \A n \in Nodes : remaining[n] \in 0..Cardinality(outEdges[n])

\* "Validate checks that the graph doesn't contain cycles": whatever the order in
\* which nodes and successors are visited, Tarjan's algorithm finds the strongly
\* connected components, and exactly the graphs in which no node reaches itself are
\* accepted.
ValidateIsExact ==
  /\ pc \in {"accepted", "rejected"} =>
       result = {{n} \cup {m \in nodes : Reaches(n, m) /\ Reaches(m, n)} : n \in nodes}
  /\ pc = "accepted" => \A n \in nodes : ~Reaches(n, n)
  /\ pc = "rejected" => \E n \in nodes : Reaches(n, n)

\* "Nodes are only evaluated after all nodes they reference have been evaluated": a
\* walk calls fn once for a node, after the nodes it references, and leaves no node
\* of an accepted configuration out.
EvaluatesInOrder ==
  /\ \A i \in 1..Len(order) :
       /\ outEdges[order[i]] \subseteq {order[j] : j \in 1..(i - 1)}
       /\ order[i] \notin {order[j] : j \in 1..(i - 1)}
  /\ pc = "evaluated" => Elements(order) = nodes

\* The scheduler's groups are the connected components of the graph and its ranks
\* number each of them from leaves to roots: what module Scheduler assumes.
GroupsAndRanksAreExact ==
  pc = "scheduled" =>
    /\ \A n \in nodes : group[n] = Component(AsGraph, n)
    /\ [n \in nodes |-> rank[n]] \in TopologicalRanks(AsGraph)
=============================================================================
