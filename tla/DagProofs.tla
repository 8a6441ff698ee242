----------------------------- MODULE DagProofs -----------------------------
(***************************************************************************)
(* Proofs about Dag for every finite graph: Tarjan's algorithm, as package *)
(* dag has it, finds the strongly connected components in whatever order   *)
(* nodes and successors are looked at, so that Validate accepts exactly    *)
(* the graphs without cycles; the topological walk visits every node once, *)
(* after the nodes it references; and the scheduler's groups and ranks are *)
(* what GroupsAndRanks defines.                                            *)
(***************************************************************************)
EXTENDS Dag, FiniteSetTheorems, SequenceTheorems, WellFoundedInduction, TLAPS

(***************************************************************************)
(* The inductive invariant of the first part: the graph and Tarjan's       *)
(* algorithm.                                                              *)
(***************************************************************************)

\* Two edge maps, mirroring each other.
GraphOK ==
  /\ nodes \subseteq Nodes
  /\ outEdges \in [Nodes -> SUBSET nodes] /\ inEdges \in [Nodes -> SUBSET nodes]
  /\ \A m, n \in Nodes : m \in outEdges[n] <=> n \in inEdges[m]

Visited == {n \in Nodes : index[n] # 0}
OnStack == Elements(stack)
Popped == UNION result

\* n is being looked at by a call of tarjan, which has not yet looked at m.
InCall(n) == \E k \in 1..Len(frames) : frames[k].node = n
Left(n, m) == \E k \in 1..Len(frames) : frames[k].node = n /\ m \in frames[k].todo

TarjanTypes ==
  /\ index \in [Nodes -> Nat] /\ lowLink \in [Nodes -> Nat]
  /\ stack \in Seq(nodes)
  /\ frames \in Seq([node : Nodes, todo : SUBSET Nodes])
  /\ result \subseteq SUBSET nodes

\* Which parts of the algorithm have run.
Phases ==
  /\ pc = "build" => /\ index = [n \in Nodes |-> 0] /\ stack = <<>> /\ frames = <<>> /\ result = {}
  /\ pc \notin {"build", "scc"} => frames = <<>> /\ Visited = nodes

\* The stack and the calls list nodes in the order of their visits, and every visited
\* node is either on the stack or in a component.
StackOK ==
  /\ \A i, j \in 1..Len(stack) : i < j => index[stack[i]] < index[stack[j]]
  /\ Visited = OnStack \cup Popped
  /\ OnStack \cap Popped = {}
  /\ \A n \in Visited : index[n] <= Cardinality(Visited)

FramesOK ==
  /\ \A k \in 1..Len(frames) : frames[k].node \in OnStack /\ frames[k].todo \subseteq outEdges[frames[k].node]
  /\ \A k, l \in 1..Len(frames) : k < l => index[frames[k].node] < index[frames[l].node]
  /\ frames # <<>> => stack # <<>> /\ frames[1].node = stack[1]
  /\ frames = <<>> => stack = <<>>

\* Successors that were looked at are visited, and those of a finished component are
\* in finished components.
Explored ==
  /\ \A n \in Visited : \A m \in outEdges[n] : m \in Visited \/ Left(n, m)
  /\ \A n \in Popped : outEdges[n] \subseteq Popped

\* lowLink is low enough: no higher than the links of the node itself, and, for the
\* node of a call, than that of the nodes visited in this call and finished.
LowEnough ==
  /\ \A n \in OnStack : index[stack[1]] <= lowLink[n] /\ lowLink[n] <= index[n]
  /\ \A n \in OnStack : \A m \in outEdges[n] \cap OnStack : Left(n, m) \/ lowLink[n] <= index[m]
  /\ \A k \in 1..Len(frames) : \A n \in OnStack :
       /\ index[frames[k].node] <= index[n]
       /\ k < Len(frames) => index[n] < index[frames[k + 1].node]
       => lowLink[frames[k].node] <= lowLink[n]

\* lowLink is not too low: a node reaches the one on the stack whose number it is.
LowReached ==
  \A n \in OnStack : lowLink[n] < index[n] =>
    \E m \in OnStack : index[m] = lowLink[n] /\ Reaches(n, m)

\* The node of a call reaches those visited after it that are still on the stack, and
\* a node that stays there after its call has a lower link.
CallsReach ==
  /\ \A k \in 1..Len(frames) : \A n \in OnStack :
       index[frames[k].node] < index[n] => Reaches(frames[k].node, n)
  /\ \A n \in OnStack : InCall(n) \/ lowLink[n] < index[n]

\* The strongly connected component of n.
Strong(n) == {n} \cup {m \in nodes : Reaches(n, m) /\ Reaches(m, n)}

ResultIsExact == \A C \in result : C # {} /\ \A n \in C : C = Strong(n)

TarjanInv ==
  /\ GraphOK
  /\ TarjanTypes
  /\ Phases
  /\ StackOK
  /\ FramesOK
  /\ Explored
  /\ LowEnough
  /\ LowReached
  /\ CallsReach
  /\ ResultIsExact

-----------------------------------------------------------------------------
(***************************************************************************)
(* Reaches.                                                                *)
(***************************************************************************)

Closed(C) == \A x \in C : outEdges[x] \subseteq C

LEMMA ReachesEdge ==
  ASSUME NEW n, NEW m \in outEdges[n]
  PROVE  Reaches(n, m)
  BY DEF Reaches

LEMMA ReachesTrans ==
  ASSUME NEW a, NEW b, NEW c, Reaches(a, b), Reaches(b, c)
  PROVE  Reaches(a, c)
  BY DEF Reaches

\* What is reached from a closed set is in it.
LEMMA ReachesClosed ==
  ASSUME NEW D \in SUBSET nodes, Closed(D), NEW n \in D, NEW m, Reaches(n, m)
  PROVE  m \in D
  BY DEF Reaches, Closed

LEMMA ReachesNodes ==
  ASSUME GraphOK, NEW n \in Nodes, NEW m, Reaches(n, m)
  PROVE  m \in nodes
<1>1. nodes \in SUBSET nodes /\ outEdges[n] \subseteq nodes /\ \A x \in nodes : outEdges[x] \subseteq nodes
  BY DEF GraphOK
<1> QED BY <1>1 DEF Reaches

\* The first edge of a path.
LEMMA ReachesFirst ==
  ASSUME GraphOK, NEW n \in Nodes, NEW m, Reaches(n, m)
  PROVE  \E x \in outEdges[n] : x = m \/ Reaches(x, m)
<1> DEFINE D == outEdges[n] \cup {y \in nodes : \E x \in outEdges[n] : Reaches(x, y)}
<1>1. D \in SUBSET nodes /\ outEdges[n] \subseteq D
  BY DEF GraphOK
<1>2. ASSUME NEW y \in D, NEW z \in outEdges[y] PROVE z \in D
  <2>1. z \in nodes /\ Reaches(y, z)
    BY <1>1, <1>2, ReachesEdge DEF GraphOK
  <2>2. CASE y \in outEdges[n]
    BY <2>1, <2>2
  <2>3. ASSUME NEW x \in outEdges[n], Reaches(x, y) PROVE z \in D
    BY <2>1, <2>3, ReachesTrans
  <2> QED BY <2>2, <2>3
<1>3. m \in D
  <2> HIDE DEF D
  <2> QED BY <1>1, <1>2 DEF Reaches
<1> QED BY <1>3

\* The graph does not change after it is built.
LEMMA ReachesFrame ==
  ASSUME UNCHANGED graphVars
  PROVE  /\ \A n, m : Reaches(n, m)' <=> Reaches(n, m)
         /\ \A n : Strong(n)' = Strong(n)
         /\ GraphOK => GraphOK'
<1>1. UNCHANGED <<nodes, outEdges, inEdges>>
  BY DEF graphVars
<1>2. \A n, m : Reaches(n, m)' <=> Reaches(n, m)
  BY <1>1 DEF Reaches
<1>3. \A n : Strong(n)' = Strong(n)
  BY <1>1, <1>2 DEF Strong
<1>4. GraphOK => GraphOK'
  BY <1>1 DEF GraphOK
<1> QED BY <1>2, <1>3, <1>4

-----------------------------------------------------------------------------
(***************************************************************************)
(* The steps of Tarjan's algorithm.                                        *)
(***************************************************************************)

LEMMA VisitedFinite ==
  /\ IsFiniteSet(Visited)
  /\ Cardinality(Visited) \in Nat
<1>1. Visited \in SUBSET Nodes
  BY DEF Visited
<1> QED BY <1>1, DagAssumption, FS_Subset, FS_CardinalityType

\* Nodes is finite: among some of its subsets there is a smallest one.
LEMMA MinimalSubset ==
  ASSUME NEW T \in SUBSET (SUBSET Nodes), T # {}
  PROVE  \E R \in T : \A S \in T : S \subseteq R => S = R
<1>1. FiniteSubsetsOf(Nodes) = SUBSET Nodes
  BY DagAssumption, FS_FiniteSubsetsOfFinite
<1>2. PICK R \in T : \A S \in T : <<S, R>> \notin StrictSubsetOrdering(Nodes)
  BY <1>1, FS_StrictSubsetOrderingWellFounded, WFMin
<1>3. \A S \in T : S \subseteq R => S = R
  BY <1>2 DEF StrictSubsetOrdering
<1> QED BY <1>3

\* A set of nodes has one that was visited first.
LEMMA FirstVisited ==
  ASSUME TarjanTypes, NEW B \in SUBSET Nodes, B # {}
  PROVE  \E a \in B : \A b \in B : index[a] <= index[b]
<1> DEFINE Before(b) == {x \in B : index[x] < index[b]}
<1>1. PICK R \in {Before(b) : b \in B} : \A S \in {Before(b) : b \in B} : S \subseteq R => S = R
  <2>1. {Before(b) : b \in B} \in SUBSET (SUBSET Nodes) /\ {Before(b) : b \in B} # {}
    OBVIOUS
  <2> HIDE DEF Before
  <2> QED BY <2>1, MinimalSubset
<1>2. PICK a \in B : R = Before(a)
  BY <1>1
<1>3. ASSUME NEW b \in B, index[b] < index[a] PROVE FALSE
  <2>1. Before(b) \subseteq Before(a) /\ b \in Before(a) /\ b \notin Before(b)
    BY <1>3 DEF TarjanTypes
  <2> QED BY <1>1, <1>2, <2>1
<1> QED BY <1>3 DEF TarjanTypes

LEMMA TarjanInitially == Init => TarjanInv
<1> SUFFICES ASSUME Init PROVE TarjanInv
  OBVIOUS
<1>1. stack = <<>> /\ frames = <<>> /\ result = {} /\ index = [n \in Nodes |-> 0] /\ pc = "build"
  BY DEF Init
<1>2. GraphOK
  BY DEF Init, GraphOK
<1>3. TarjanTypes
  BY DEF Init, TarjanTypes
<1>4. Visited = {} /\ OnStack = {} /\ Popped = {}
  BY <1>1 DEF Visited, OnStack, Elements, Popped
<1>5. Phases
  BY <1>1 DEF Phases
<1>6. StackOK /\ FramesOK /\ Explored
  BY <1>1, <1>4 DEF StackOK, FramesOK, Explored
<1>7. LowEnough /\ LowReached /\ CallsReach
  BY <1>1, <1>4 DEF LowEnough, LowReached, CallsReach
<1>8. ResultIsExact
  BY <1>1 DEF ResultIsExact
<1> QED BY <1>2, <1>3, <1>5, <1>6, <1>7, <1>8 DEF TarjanInv

\* Steps that leave graph and algorithm alone.
LEMMA TarjanAlone ==
  ASSUME TarjanInv, UNCHANGED <<graphVars, sccVars>>, Phases'
  PROVE  TarjanInv'
<1>1. /\ UNCHANGED graphVars
      /\ UNCHANGED <<nodes, outEdges, inEdges>>
      /\ UNCHANGED <<index, lowLink, stack, frames, result>>
  BY DEF graphVars, sccVars
<1>2. GraphOK'
  BY <1>1, ReachesFrame DEF TarjanInv
<1>3. UNCHANGED <<Visited, OnStack, Popped>>
  BY <1>1 DEF Visited, OnStack, Elements, Popped
<1>4. TarjanTypes'
  BY <1>1 DEF TarjanInv, TarjanTypes
<1>5. StackOK' /\ FramesOK'
  BY <1>1, <1>3 DEF TarjanInv, StackOK, FramesOK
<1>6. \A n, m : Left(n, m)' <=> Left(n, m)
  BY <1>1 DEF Left
<1>7. \A n : InCall(n)' <=> InCall(n)
  BY <1>1 DEF InCall
<1>8. Explored'
  BY <1>1, <1>3, <1>6 DEF TarjanInv, Explored
<1>9. LowEnough'
  BY <1>1, <1>3, <1>6 DEF TarjanInv, LowEnough
<1>10. LowReached'
  BY <1>1, <1>3, ReachesFrame DEF TarjanInv, LowReached
<1>11. CallsReach'
  BY <1>1, <1>3, <1>7, ReachesFrame DEF TarjanInv, CallsReach
<1>12. ResultIsExact'
  BY <1>1, ReachesFrame DEF TarjanInv, ResultIsExact
<1> QED BY <1>2, <1>4, <1>5, <1>8, <1>9, <1>10, <1>11, <1>12 DEF TarjanInv

\* While the graph is being built nothing has been visited.
LEMMA TarjanBuilding ==
  ASSUME TarjanInv, BuildStep
  PROVE  TarjanInv'
<1>1. pc = "build" /\ pc' = "build" /\ UNCHANGED sccVars /\ GraphOK'
  <2>1. ASSUME NEW n \in Nodes, Add(n)
        PROVE  pc = "build" /\ pc' = "build" /\ UNCHANGED sccVars /\ GraphOK'
    <3>1. pc = "build" /\ pc' = "build" /\ UNCHANGED sccVars
      BY <2>1 DEF Add
    <3>2. GraphOK'
      BY <2>1 DEF Add, TarjanInv, GraphOK
    <3> QED BY <3>1, <3>2
  <2>2. ASSUME NEW m \in Nodes, NEW n \in Nodes, AddEdge(m, n)
        PROVE  pc = "build" /\ pc' = "build" /\ UNCHANGED sccVars /\ GraphOK'
    <3>1. pc = "build" /\ pc' = "build" /\ UNCHANGED sccVars
      BY <2>2 DEF AddEdge
    <3>2. GraphOK'
      BY <2>2 DEF AddEdge, TarjanInv, GraphOK
    <3> QED BY <3>1, <3>2
  <2> QED BY <2>1, <2>2 DEF BuildStep
<1>2. /\ stack = <<>> /\ frames = <<>> /\ result = {} /\ index = [n \in Nodes |-> 0]
      /\ UNCHANGED <<index, lowLink, stack, frames, result>>
  BY <1>1 DEF TarjanInv, Phases, sccVars
<1>3. Visited' = {} /\ OnStack' = {} /\ Popped' = {}
  BY <1>2 DEF Visited, OnStack, Elements, Popped
<1>4. TarjanTypes'
  <2>1. index \in [Nodes -> Nat] /\ lowLink \in [Nodes -> Nat]
    BY DEF TarjanInv, TarjanTypes
  <2> QED BY <1>2, <2>1 DEF TarjanTypes
<1>5. Phases'
  BY <1>1, <1>2 DEF Phases
<1>6. StackOK' /\ FramesOK' /\ Explored'
  BY <1>2, <1>3 DEF StackOK, FramesOK, Explored
<1>7. LowEnough' /\ LowReached' /\ CallsReach'
  BY <1>2, <1>3 DEF LowEnough, LowReached, CallsReach
<1>8. ResultIsExact'
  BY <1>2 DEF ResultIsExact
<1> QED BY <1>1, <1>4, <1>5, <1>6, <1>7, <1>8 DEF TarjanInv

\* A part of a sequence.
LEMMA SubSeqFacts ==
  ASSUME NEW S, NEW s \in Seq(S), NEW m \in Nat, NEW n \in Nat, 1 <= m, n <= Len(s), m <= n + 1
  PROVE  /\ SubSeq(s, m, n) \in Seq(S)
         /\ Len(SubSeq(s, m, n)) = n - m + 1
         /\ \A i \in 1..(n - m + 1) : SubSeq(s, m, n)[i] = s[m + i - 1]
<1>1. \A i \in m..n : s[i] \in S
  OBVIOUS
<1>2. m \in Int /\ n \in Int
  OBVIOUS
<1>3. SubSeq(s, m, n) \in Seq(S)
  BY <1>1, <1>2, SubSeqProperties, Zenon
<1>4. Len(SubSeq(s, m, n)) = n - m + 1
  <2>1. CASE n < m
    <3>1. SubSeq(s, m, n) = <<>> /\ n - m + 1 = 0
      BY <1>2, <2>1, SubSeqEmpty
    <3> QED BY <3>1
  <2>2. CASE m <= n
    BY <1>1, <1>2, <2>2, SubSeqProperties, Zenon
  <2> QED BY <2>1, <2>2
<1>5. \A i \in 1..(n - m + 1) : SubSeq(s, m, n)[i] = s[m + i - 1]
  OBVIOUS
<1> QED BY <1>3, <1>4, <1>5

LEMMA EmptyLen ==
  ASSUME NEW S, NEW s \in Seq(S)
  PROVE  s = <<>> <=> Len(s) = 0
  OBVIOUS

\* Last and Front.
LEMMA FrontLast ==
  ASSUME NEW R, NEW s \in Seq(R), s # <<>>
  PROVE  /\ Len(s) \in Nat \ {0}
         /\ Last(s) = s[Len(s)] /\ Last(s) \in R
         /\ Front(s) \in Seq(R)
         /\ Len(Front(s)) = Len(s) - 1
         /\ \A k \in 1..(Len(s) - 1) : Front(s)[k] = s[k]
<1>1. PICK l \in Nat \ {0} : l = Len(s)
  OBVIOUS
<1>2. Last(s) = s[l] /\ Last(s) \in R
  BY <1>1 DEF Last
<1>3. 1 \in Nat /\ l - 1 \in Nat /\ 1 <= 1 /\ l - 1 <= Len(s) /\ 1 <= (l - 1) + 1
  BY <1>1
<1>4. /\ SubSeq(s, 1, l - 1) \in Seq(R)
      /\ Len(SubSeq(s, 1, l - 1)) = (l - 1) - 1 + 1
      /\ \A k \in 1..((l - 1) - 1 + 1) : SubSeq(s, 1, l - 1)[k] = s[1 + k - 1]
  BY <1>3, SubSeqFacts
<1>5. Front(s) = SubSeq(s, 1, l - 1)
  BY <1>1 DEF Front
<1> DEFINE f == SubSeq(s, 1, l - 1)
<1> HIDE DEF f
<1>6. f \in Seq(R) /\ Len(f) = (l - 1) - 1 + 1 /\ \A k \in 1..((l - 1) - 1 + 1) : f[k] = s[1 + k - 1]
  BY <1>4 DEF f
<1>7. f \in Seq(R) /\ Len(f) = l - 1 /\ \A k \in 1..(l - 1) : f[k] = s[k]
  BY <1>6
<1> QED BY <1>1, <1>2, <1>5, <1>7 DEF f

\* The frame of the current call without a successor.
LEMMA WithoutSuccFacts ==
  ASSUME TarjanTypes, frames # <<>>, NEW succ
  PROVE  /\ WithoutSucc(succ) \in Seq([node : Nodes, todo : SUBSET Nodes])
         /\ Len(WithoutSucc(succ)) = Len(frames)
         /\ \A k \in 1..Len(frames) :
              /\ WithoutSucc(succ)[k].node = frames[k].node
              /\ WithoutSucc(succ)[k].todo \subseteq frames[k].todo
              /\ \A m \in frames[k].todo : m \in WithoutSucc(succ)[k].todo \/ (k = Len(frames) /\ m = succ)
<1>1. frames \in Seq([node : Nodes, todo : SUBSET Nodes]) /\ Len(frames) \in Nat \ {0}
  BY DEF TarjanTypes
<1> DEFINE last == [Last(frames) EXCEPT !.todo = @ \ {succ}]
<1>2. Last(frames) = frames[Len(frames)] /\ Last(frames) \in [node : Nodes, todo : SUBSET Nodes]
  BY <1>1, FrontLast
<1>3. /\ last \in [node : Nodes, todo : SUBSET Nodes]
      /\ last.node = frames[Len(frames)].node
      /\ last.todo = frames[Len(frames)].todo \ {succ}
  BY <1>2
<1>4. /\ Front(frames) \in Seq([node : Nodes, todo : SUBSET Nodes])
      /\ Len(Front(frames)) = Len(frames) - 1
      /\ \A k \in 1..(Len(frames) - 1) : Front(frames)[k] = frames[k]
  BY <1>1, FrontLast
<1> HIDE DEF last
<1>5. WithoutSucc(succ) = Append(Front(frames), last)
  BY DEF WithoutSucc, last
<1> DEFINE w == WithoutSucc(succ)
<1>6. /\ w \in Seq([node : Nodes, todo : SUBSET Nodes])
      /\ Len(w) = Len(frames)
      /\ \A k \in 1..(Len(frames) - 1) : w[k] = frames[k]
      /\ w[Len(frames)] = last
  BY <1>1, <1>3, <1>4, <1>5
<1>7. \A k \in 1..Len(frames) : k \in 1..(Len(frames) - 1) \/ k = Len(frames)
  BY <1>1
<1> QED BY <1>3, <1>6, <1>7

\* The first node on the stack was visited first.
LEMMA StackFirst ==
  ASSUME TarjanTypes, StackOK, NEW n \in OnStack
  PROVE  stack # <<>> /\ stack[1] \in OnStack /\ index[stack[1]] <= index[n]
<1>1. PICK i \in 1..Len(stack) : stack[i] = n
  BY DEF OnStack, Elements
<1>2. stack \in Seq(nodes) /\ Len(stack) \in Nat /\ 1 \in 1..Len(stack) /\ stack # <<>>
  BY <1>1 DEF TarjanTypes
<1>3. stack[1] \in OnStack
  BY <1>2 DEF OnStack, Elements
<1>4. CASE i = 1
  <2>1. n \in Visited
    BY DEF StackOK
  <2> QED BY <1>1, <1>2, <1>3, <1>4, <2>1 DEF TarjanTypes, Visited
<1>5. CASE i # 1
  <2>1. 1 < i
    BY <1>2, <1>5
  <2>2. index[stack[1]] < index[stack[i]]
    BY <1>2, <2>1 DEF StackOK
  <2>3. n \in Visited /\ stack[1] \in Visited
    BY <1>3 DEF StackOK
  <2>4. index[stack[1]] \in Nat /\ index[n] \in Nat
    BY <2>3 DEF TarjanTypes, Visited
  <2> QED BY <1>1, <1>2, <1>3, <2>2, <2>4
<1> QED BY <1>4, <1>5

\* Numbers of the nodes that matter.
LEMMA Numbers ==
  ASSUME TarjanInv
  PROVE  /\ OnStack \subseteq Visited /\ Visited \subseteq Nodes /\ OnStack \subseteq nodes
         /\ \A n \in Nodes : index[n] \in Nat /\ lowLink[n] \in Nat
         /\ \A k \in 1..Len(frames) : frames[k].node \in OnStack /\ frames[k].todo \subseteq outEdges[frames[k].node]
         /\ Len(frames) \in Nat /\ Len(stack) \in Nat
<1>1. OnStack \subseteq Visited /\ Visited \subseteq Nodes
  BY DEF TarjanInv, StackOK, Visited
<1>2. OnStack \subseteq nodes
  BY DEF TarjanInv, TarjanTypes, OnStack, Elements
<1>3. \A n \in Nodes : index[n] \in Nat /\ lowLink[n] \in Nat
  BY DEF TarjanInv, TarjanTypes
<1>4. \A k \in 1..Len(frames) : frames[k].node \in OnStack /\ frames[k].todo \subseteq outEdges[frames[k].node]
  BY DEF TarjanInv, FramesOK
<1>5. Len(frames) \in Nat /\ Len(stack) \in Nat
  BY DEF TarjanInv, TarjanTypes
<1> QED BY <1>1, <1>2, <1>3, <1>4, <1>5

\* A node of a later call was visited later.
LEMMA CallsInOrder ==
  ASSUME TarjanInv, NEW k \in 1..Len(frames), NEW l \in 1..Len(frames),
         index[frames[k].node] <= index[frames[l].node]
  PROVE  k <= l
<1>1. frames[k].node \in Nodes /\ frames[l].node \in Nodes
  BY Numbers
<1>2. index[frames[k].node] \in Nat /\ index[frames[l].node] \in Nat /\ k \in Nat /\ l \in Nat
  BY <1>1, Numbers
<1>3. l < k => index[frames[l].node] < index[frames[k].node]
  BY DEF TarjanInv, FramesOK
<1> QED BY <1>2, <1>3

\* A node is visited for the first time: by the loop over all nodes, or by the current
\* call, whose node references it.
LEMMA TarjanVisits ==
  ASSUME TarjanInv, pc = "scc", UNCHANGED <<graphVars, pc, result>>,
         NEW n \in nodes, index[n] = 0,
         NEW STATE calls, visit(n, calls),
         calls \in Seq([node : Nodes, todo : SUBSET Nodes]),
         Len(calls) = Len(frames),
         \A k \in 1..Len(frames) :
           /\ calls[k].node = frames[k].node
           /\ calls[k].todo \subseteq frames[k].todo
           /\ \A m \in frames[k].todo : m \in calls[k].todo \/ (k = Len(frames) /\ m = n),
         frames # <<>> => n \in outEdges[frames[Len(frames)].node]
  PROVE  TarjanInv'
<1> DEFINE c == Cardinality(Visited)
           top == [node |-> n, todo |-> outEdges[n]]
           L == Len(frames)
<1>1. /\ UNCHANGED <<nodes, outEdges, inEdges>> /\ UNCHANGED graphVars
      /\ pc' = pc /\ result' = result
  BY DEF graphVars
<1>2. /\ n \in Nodes /\ outEdges[n] \in SUBSET Nodes
      /\ nodes \subseteq Nodes
  BY DEF TarjanInv, GraphOK
<1>3. c \in Nat /\ IsFiniteSet(Visited)
  BY VisitedFinite
<1>4. /\ index' = [index EXCEPT ![n] = c + 1]
      /\ lowLink' = [lowLink EXCEPT ![n] = c + 1]
      /\ stack' = Append(stack, n)
      /\ frames' = Append(calls, top)
  BY DEF visit, Visited
<1> HIDE DEF c
<1>5. /\ index \in [Nodes -> Nat] /\ lowLink \in [Nodes -> Nat] /\ stack \in Seq(nodes)
  BY DEF TarjanInv, TarjanTypes
<1>6. /\ index' \in [Nodes -> Nat] /\ lowLink' \in [Nodes -> Nat]
      /\ index'[n] = c + 1 /\ lowLink'[n] = c + 1
      /\ \A m \in Nodes : m # n => index'[m] = index[m] /\ lowLink'[m] = lowLink[m]
  BY <1>2, <1>3, <1>4, <1>5
<1>7. /\ stack' \in Seq(nodes') /\ Len(stack') = Len(stack) + 1 /\ Len(stack) \in Nat
      /\ stack'[Len(stack) + 1] = n
      /\ \A i \in 1..Len(stack) : stack'[i] = stack[i]
  BY <1>1, <1>4, <1>5
<1>8. top \in [node : Nodes, todo : SUBSET Nodes] /\ top.node = n /\ top.todo = outEdges[n]
  BY <1>2
<1> HIDE DEF top
<1>9. /\ L \in Nat
      /\ frames' \in Seq([node : Nodes, todo : SUBSET Nodes]) /\ Len(frames') = L + 1
      /\ frames'[L + 1] = top
      /\ \A k \in 1..L : frames'[k] = calls[k]
  BY <1>4, <1>8, Numbers
<1>10. /\ \A k \in 1..L : frames'[k].node = frames[k].node /\ frames'[k].todo \subseteq frames[k].todo
       /\ \A k \in 1..L : \A m \in frames[k].todo : m \in frames'[k].todo \/ (k = L /\ m = n)
       /\ frames'[L + 1].node = n /\ frames'[L + 1].todo = outEdges[n]
  BY <1>8, <1>9
<1>11. OnStack' = OnStack \cup {n}
  BY <1>7 DEF OnStack, Elements
<1>12. n \notin Visited /\ Visited' = Visited \cup {n}
  BY <1>2, <1>3, <1>6 DEF Visited
<1>13. Cardinality(Visited') = c + 1
  BY <1>3, <1>12, FS_AddElement DEF c
<1>14. Popped' = Popped
  BY <1>1 DEF Popped
<1>15. \A m \in Visited : m \in Nodes /\ m # n /\ index[m] \in Nat /\ index[m] <= c /\ index'[m] = index[m] /\ lowLink'[m] = lowLink[m]
  BY <1>5, <1>6, <1>12 DEF TarjanInv, StackOK, Visited, c
<1>16. OnStack \subseteq Visited /\ \A k \in 1..L : frames[k].node \in OnStack
  BY Numbers
<1>17. \A i \in 1..Len(stack) : stack[i] \in OnStack
  BY DEF OnStack, Elements
<1>18. /\ \A k \in 1..(L + 1) : k \in 1..L \/ k = L + 1
       /\ \A i \in 1..(Len(stack) + 1) : i \in 1..Len(stack) \/ i = Len(stack) + 1
  BY <1>7, <1>9
<1>19. TarjanTypes'
  <2>1. result' \subseteq SUBSET nodes'
    BY <1>1 DEF TarjanInv, TarjanTypes
  <2> QED BY <1>6, <1>7, <1>9, <2>1 DEF TarjanTypes
<1>20. Phases'
  BY <1>1 DEF Phases
<1>21. StackOK'
  <2>1. ASSUME NEW i \in 1..Len(stack'), NEW j \in 1..Len(stack'), i < j
        PROVE  index'[stack'[i]] < index'[stack'[j]]
    <3>1. i \in 1..Len(stack)
      BY <1>7, <2>1
    <3>2. stack'[i] = stack[i] /\ stack[i] \in Visited
      BY <1>7, <1>16, <1>17, <3>1
    <3>3. CASE j \in 1..Len(stack)
      <4>1. stack'[j] = stack[j] /\ stack[j] \in Visited
        BY <1>7, <1>16, <1>17, <3>3
      <4>2. index[stack[i]] < index[stack[j]]
        BY <2>1, <3>1, <3>3 DEF TarjanInv, StackOK
      <4> QED BY <1>15, <3>2, <4>1, <4>2
    <3>4. CASE j = Len(stack) + 1
      <4>1. index'[stack'[j]] = c + 1
        BY <1>6, <1>7, <3>4
      <4> QED BY <1>3, <1>15, <3>2, <4>1
    <3> QED BY <1>7, <1>18, <3>3, <3>4
  <2>2. Visited' = OnStack' \cup Popped'
    BY <1>11, <1>12, <1>14 DEF TarjanInv, StackOK
  <2>3. OnStack' \cap Popped' = {}
    BY <1>11, <1>12, <1>14 DEF TarjanInv, StackOK
  <2>4. \A m \in Visited' : index'[m] <= Cardinality(Visited')
    BY <1>3, <1>6, <1>12, <1>13, <1>15
  <2> QED BY <2>1, <2>2, <2>3, <2>4 DEF StackOK
<1>22. FramesOK'
  <2>1. \A k \in 1..Len(frames') :
          frames'[k].node \in OnStack' /\ frames'[k].todo \subseteq outEdges'[frames'[k].node]
    BY <1>1, <1>9, <1>10, <1>11, <1>16, <1>18, Numbers
  <2>2. ASSUME NEW k \in 1..Len(frames'), NEW l \in 1..Len(frames'), k < l
        PROVE  index'[frames'[k].node] < index'[frames'[l].node]
    <3>1. k \in 1..L
      BY <1>9, <2>2
    <3>2. frames'[k].node = frames[k].node /\ frames[k].node \in Visited
      BY <1>10, <1>16, <3>1
    <3>3. CASE l \in 1..L
      <4>1. frames'[l].node = frames[l].node /\ frames[l].node \in Visited
        BY <1>10, <1>16, <3>3
      <4>2. index[frames[k].node] < index[frames[l].node]
        BY <2>2, <3>1, <3>3 DEF TarjanInv, FramesOK
      <4> QED BY <1>15, <3>2, <4>1, <4>2
    <3>4. CASE l = L + 1
      <4>1. index'[frames'[l].node] = c + 1
        BY <1>6, <1>10, <3>4
      <4>2. index'[frames'[k].node] \in Nat /\ index'[frames'[k].node] <= c
        BY <1>15, <3>2
      <4> QED BY <1>3, <4>1, <4>2
    <3> QED BY <1>9, <1>18, <3>3, <3>4
  <2>3. stack' # <<>> /\ frames' # <<>>
    BY <1>7, <1>9
  <2>4. frames'[1].node = stack'[1]
    <3>1. CASE frames = <<>>
      <4>1. L = 0 /\ stack = <<>> /\ Len(stack) = 0
        BY <3>1 DEF TarjanInv, FramesOK
      <4> QED BY <1>7, <1>10, <4>1
    <3>2. CASE frames # <<>>
      <4>1. stack # <<>> /\ frames[1].node = stack[1]
        BY <3>2 DEF TarjanInv, FramesOK
      <4>2. 1 \in 1..L /\ 1 \in 1..Len(stack)
        <5>1. Len(frames) # 0 /\ Len(stack) # 0
          BY <3>2, <4>1 DEF TarjanInv, TarjanTypes
        <5> QED BY <1>7, <1>9, <5>1
      <4> QED BY <1>7, <1>10, <4>1, <4>2
    <3> QED BY <3>1, <3>2
  <2> QED BY <2>1, <2>2, <2>3, <2>4 DEF FramesOK
<1>23. /\ \A a, m : Left(a, m) => Left(a, m)' \/ m = n
       /\ \A m \in outEdges[n] : Left(n, m)'
       /\ \A a : InCall(a) => InCall(a)'
       /\ InCall(n)'
  BY <1>9, <1>10 DEF Left, InCall
<1>24. Explored'
  <2>1. ASSUME NEW a \in Visited', NEW m \in outEdges'[a]
        PROVE  m \in Visited' \/ Left(a, m)'
    BY <1>1, <1>12, <1>23, <2>1 DEF TarjanInv, Explored
  <2>2. \A a \in Popped' : outEdges'[a] \subseteq Popped'
    BY <1>1, <1>14 DEF TarjanInv, Explored
  <2> QED BY <2>1, <2>2 DEF Explored
<1>25. \A m \in OnStack' : index'[m] <= c + 1 /\ index'[m] \in Nat
  <2>1. \A m \in OnStack : index'[m] <= c + 1 /\ index'[m] \in Nat
    BY <1>3, <1>15, <1>16
  <2>2. index'[n] <= c + 1 /\ index'[n] \in Nat
    BY <1>3, <1>6
  <2> QED BY <1>11, <2>1, <2>2
<1>26. LowEnough'
  <2>1. ASSUME NEW a \in OnStack' PROVE index'[stack'[1]] <= lowLink'[a] /\ lowLink'[a] <= index'[a]
    <3>1. CASE a \in OnStack
      <4>1. stack # <<>> /\ stack[1] \in Visited
        BY <1>16, <3>1, StackFirst DEF TarjanInv
      <4>2. 1 \in 1..Len(stack)
        BY <1>5, <1>7, <4>1
      <4>3. stack'[1] = stack[1]
        BY <1>7, <4>2
      <4>4. index[stack[1]] <= lowLink[a] /\ lowLink[a] <= index[a]
        BY <3>1 DEF TarjanInv, LowEnough
      <4> QED BY <1>15, <1>16, <3>1, <4>1, <4>3, <4>4
    <3>2. CASE a = n
      <4>1. stack'[1] \in OnStack'
        BY <1>7 DEF OnStack, Elements
      <4>2. index'[stack'[1]] <= c + 1
        BY <1>25, <4>1
      <4> QED BY <1>3, <1>6, <3>2, <4>2
    <3> QED BY <1>11, <3>1, <3>2
  <2>2. ASSUME NEW a \in OnStack', NEW m \in outEdges'[a] \cap OnStack'
        PROVE  Left(a, m)' \/ lowLink'[a] <= index'[m]
    <3>1. CASE a = n
      BY <1>1, <1>23, <3>1, <2>2
    <3>2. CASE a \in OnStack /\ m \in OnStack
      <4>1. Left(a, m) \/ lowLink[a] <= index[m]
        BY <1>1, <2>2, <3>2 DEF TarjanInv, LowEnough
      <4> QED BY <1>15, <1>16, <1>23, <3>2, <4>1
    <3>3. CASE a \in OnStack /\ m = n
      <4>1. lowLink[a] <= index[a] /\ index[a] <= c /\ lowLink[a] \in Nat /\ index[a] \in Nat
        BY <1>5, <1>15, <1>16, <3>3 DEF TarjanInv, LowEnough
      <4> QED BY <1>3, <1>6, <1>15, <1>16, <3>3, <4>1
    <3> QED BY <1>11, <3>1, <3>2, <3>3
  <2>3. ASSUME NEW k \in 1..Len(frames'), NEW a \in OnStack',
               index'[frames'[k].node] <= index'[a],
               k < Len(frames') => index'[a] < index'[frames'[k + 1].node]
        PROVE  lowLink'[frames'[k].node] <= lowLink'[a]
    <3>1. CASE k = L + 1
      <4>1. frames'[k].node = n /\ index'[n] = c + 1
        BY <1>6, <1>10, <3>1
      <4>2. a = n
        BY <1>3, <1>11, <1>15, <1>16, <2>3, <4>1
      <4> QED BY <1>3, <1>6, <4>1, <4>2
    <3>2. CASE k \in 1..L
      <4>1. frames'[k].node = frames[k].node /\ frames[k].node \in Visited /\ k < Len(frames') /\ k + 1 \in 1..Len(frames')
        BY <1>9, <1>10, <1>16, <3>2
      <4>2. frames'[k + 1].node \in OnStack'
        BY <1>22, <4>1 DEF FramesOK
      <4>3. index'[frames'[k + 1].node] <= c + 1 /\ index'[frames'[k + 1].node] \in Nat
        BY <1>25, <4>2
      <4>4. a \in OnStack
        BY <1>3, <1>6, <1>11, <2>3, <4>1, <4>3
      <4>5. index[frames[k].node] <= index[a]
        BY <1>15, <1>16, <2>3, <4>1, <4>4
      <4>6. ASSUME k < L PROVE index[a] < index[frames[k + 1].node]
        <5>1. k + 1 \in 1..L
          BY <1>9, <3>2, <4>6
        <5>2. frames'[k + 1].node = frames[k + 1].node /\ frames[k + 1].node \in Visited
          BY <1>10, <1>16, <5>1
        <5> QED BY <1>15, <1>16, <2>3, <4>1, <4>4, <5>2
      <4>7. lowLink[frames[k].node] <= lowLink[a]
        BY <3>2, <4>4, <4>5, <4>6 DEF TarjanInv, LowEnough
      <4> QED BY <1>15, <1>16, <4>1, <4>4, <4>7
    <3> QED BY <1>9, <1>18, <3>1, <3>2
  <2> QED BY <2>1, <2>2, <2>3 DEF LowEnough
<1>27. LowReached'
  <2>1. ASSUME NEW a \in OnStack', lowLink'[a] < index'[a]
        PROVE  \E m \in OnStack' : index'[m] = lowLink'[a] /\ Reaches(a, m)'
    <3>1. a \in OnStack
      BY <1>3, <1>6, <1>11, <2>1
    <3>2. PICK m \in OnStack : index[m] = lowLink[a] /\ Reaches(a, m)
      BY <1>15, <1>16, <2>1, <3>1 DEF TarjanInv, LowReached
    <3>3. Reaches(a, m)'
      BY <1>1, <3>2, ReachesFrame
    <3> QED BY <1>11, <1>15, <1>16, <3>1, <3>2, <3>3
  <2> QED BY <2>1 DEF LowReached
<1>28. CallsReach'
  <2>1. ASSUME NEW k \in 1..Len(frames'), NEW a \in OnStack', index'[frames'[k].node] < index'[a]
        PROVE  Reaches(frames[k].node, a)'
    <3>1. PICK f \in Nodes : f = frames'[k].node
      <4>1. frames'[k].node \in Nodes
        BY <1>2, <1>10, <1>15, <1>16, <1>18, <1>9
      <4> QED BY <4>1
    <3>2. k \in 1..L
      <4>1. k # L + 1
        BY <1>3, <1>6, <1>10, <1>11, <1>15, <1>16, <2>1
      <4> QED BY <1>9, <1>18, <4>1
    <3>3. f = frames[k].node /\ f \in OnStack
      BY <1>10, <1>16, <3>1, <3>2
    <3>4. CASE a \in OnStack
      <4>1. Reaches(frames[k].node, a)
        BY <1>15, <1>16, <2>1, <3>1, <3>2, <3>3, <3>4 DEF TarjanInv, CallsReach
      <4>2. Reaches(f, a)
        BY <3>3, <4>1
      <4>3. Reaches(f, a)'
        BY <1>1, <4>2, ReachesFrame
      <4> QED BY <3>1, <4>3 DEF Reaches
    <3>5. CASE a = n
      <4>1. PICK g \in Nodes : g = frames[L].node
        BY <1>9, <1>15, <1>16, <3>2
      <4>2. L \in 1..L /\ frames # <<>>
        BY <1>9, <3>2
      <4>3. Reaches(g, n)
        BY <4>1, <4>2, ReachesEdge
      <4>4. f = g \/ Reaches(f, g)
        <5>1. CASE k = L
          BY <3>3, <4>1, <5>1
        <5>2. CASE k < L
          <6>1. index[frames[k].node] < index[frames[L].node] /\ g \in OnStack
            BY <1>16, <3>2, <4>1, <4>2, <5>2 DEF TarjanInv, FramesOK
          <6>2. Reaches(frames[k].node, g)
            BY <3>2, <4>1, <6>1 DEF TarjanInv, CallsReach
          <6> QED BY <3>3, <6>2
        <5> QED BY <1>9, <3>2, <5>1, <5>2
      <4>5. Reaches(f, n)
        BY <4>3, <4>4, ReachesTrans
      <4>6. Reaches(f, n)'
        BY <1>1, <4>5, ReachesFrame
      <4> QED BY <3>1, <3>5, <4>6 DEF Reaches
    <3> QED BY <1>11, <3>4, <3>5
  <2>2. ASSUME NEW a \in OnStack' PROVE InCall(a)' \/ lowLink'[a] < index'[a]
    <3>1. CASE a = n
      BY <1>23, <3>1
    <3>2. CASE a \in OnStack
      BY <1>15, <1>16, <1>23, <3>2 DEF TarjanInv, CallsReach
    <3> QED BY <1>11, <3>1, <3>2
  <2> QED BY <2>1, <2>2 DEF CallsReach
<1>29. ResultIsExact'
  BY <1>1, ReachesFrame DEF TarjanInv, ResultIsExact
<1>30. GraphOK'
  BY <1>1, ReachesFrame DEF TarjanInv
<1> QED BY <1>19, <1>20, <1>21, <1>22, <1>24, <1>26, <1>27, <1>28, <1>29, <1>30 DEF TarjanInv

LEMMA TarjanRoots ==
  ASSUME TarjanInv, NEW n \in Nodes, TarjanRoot(n)
  PROVE  TarjanInv'
<1>1. /\ pc = "scc" /\ frames = <<>> /\ n \in nodes /\ index[n] = 0
      /\ visit(n, <<>>) /\ UNCHANGED <<graphVars, pc, result>>
  BY DEF TarjanRoot
<1>2. <<>> \in Seq([node : Nodes, todo : SUBSET Nodes]) /\ Len(<<>>) = Len(frames) /\ 1..Len(frames) = {}
  BY <1>1
<1> QED BY <1>1, <1>2, TarjanVisits

\* The current call looks at a node that is visited.
LEMMA TarjanLinks ==
  ASSUME TarjanInv, pc = "scc", frames # <<>>, UNCHANGED <<graphVars, pc, result, index, stack>>,
         NEW s \in Last(frames).todo, index[s] # 0,
         frames' = WithoutSucc(s),
         lowLink' = IF links(s) THEN [lowLink EXCEPT ![Current] = Smaller(@, index[s])] ELSE lowLink
  PROVE  TarjanInv'
<1> DEFINE L == Len(frames)
<1>1. /\ UNCHANGED <<nodes, outEdges, inEdges>> /\ UNCHANGED graphVars
      /\ pc' = pc /\ result' = result /\ index' = index /\ stack' = stack
  BY DEF graphVars
<1>2. /\ L \in Nat \ {0} /\ L \in 1..L
      /\ Last(frames) = frames[L]
  <2>1. frames \in Seq([node : Nodes, todo : SUBSET Nodes])
    BY DEF TarjanInv, TarjanTypes
  <2>2. L \in Nat \ {0} /\ Last(frames) = frames[L]
    BY <2>1, FrontLast
  <2> QED BY <2>2
<1>3. PICK r \in Nodes : r = Current
  BY <1>2, Numbers DEF Current
<1>4. /\ r = frames[L].node /\ r \in OnStack /\ r \in Visited /\ s \in outEdges[r] /\ s \in Visited
  <2>1. r = frames[L].node /\ r \in OnStack /\ s \in outEdges[r]
    BY <1>2, <1>3, Numbers DEF Current
  <2>2. s \in Nodes
    BY <2>1 DEF TarjanInv, GraphOK
  <2> QED BY <2>1, <2>2, Numbers DEF Visited
<1>5. /\ index \in [Nodes -> Nat] /\ lowLink \in [Nodes -> Nat] /\ s \in Nodes
  BY <1>4, Numbers DEF TarjanInv, TarjanTypes
<1>6. /\ lowLink' \in [Nodes -> Nat]
      /\ \A m \in Nodes : m # r => lowLink'[m] = lowLink[m]
      /\ s \notin OnStack => lowLink'[r] = lowLink[r]
      /\ s \in OnStack => lowLink'[r] = Smaller(lowLink[r], index[s])
  <2>1. lowLink' = IF s \in OnStack THEN [lowLink EXCEPT ![r] = Smaller(@, index[s])] ELSE lowLink
    BY <1>3 DEF links, OnStack
  <2>2. Smaller(lowLink[r], index[s]) \in Nat
    BY <1>5 DEF Smaller
  <2> QED BY <1>5, <2>1, <2>2
<1>7. /\ lowLink'[r] <= lowLink[r]
      /\ s \in OnStack => lowLink'[r] <= index[s]
      /\ lowLink'[r] = lowLink[r] \/ (s \in OnStack /\ lowLink'[r] = index[s])
  BY <1>5, <1>6 DEF Smaller
<1>8. /\ frames' \in Seq([node : Nodes, todo : SUBSET Nodes]) /\ Len(frames') = L
      /\ \A k \in 1..L : frames'[k].node = frames[k].node /\ frames'[k].todo \subseteq frames[k].todo
      /\ \A k \in 1..L : \A m \in frames[k].todo : m \in frames'[k].todo \/ (k = L /\ m = s)
  BY WithoutSuccFacts DEF TarjanInv
<1>9. UNCHANGED <<Visited, OnStack, Popped>>
  BY <1>1 DEF Visited, OnStack, Elements, Popped
<1>10. /\ \A a, m : Left(a, m) => Left(a, m)' \/ (a = r /\ m = s)
       /\ \A a : InCall(a)' <=> InCall(a)
  BY <1>2, <1>4, <1>8 DEF Left, InCall
<1>11. \A m \in OnStack : m \in Nodes /\ m \in Visited /\ index[m] \in Nat /\ lowLink[m] \in Nat /\ lowLink'[m] \in Nat /\ lowLink'[m] <= lowLink[m]
  BY <1>5, <1>6, <1>7, Numbers
<1>12. TarjanTypes'
  BY <1>1, <1>6, <1>8 DEF TarjanInv, TarjanTypes
<1>13. Phases'
  BY <1>1 DEF Phases
<1>14. StackOK'
  BY <1>1, <1>9 DEF TarjanInv, StackOK
<1>15. FramesOK'
  <2>1. \A k \in 1..Len(frames') : frames'[k].node \in OnStack' /\ frames'[k].todo \subseteq outEdges'[frames'[k].node]
    BY <1>1, <1>8, <1>9, Numbers
  <2>2. \A k, l \in 1..Len(frames') : k < l => index'[frames'[k].node] < index'[frames'[l].node]
    BY <1>1, <1>8 DEF TarjanInv, FramesOK
  <2>3. frames' # <<>> /\ stack' # <<>> /\ frames'[1].node = stack'[1]
    <3>1. frames' # <<>> /\ 1 \in 1..L
      BY <1>2, <1>8
    <3>2. stack # <<>> /\ frames[1].node = stack[1]
      BY DEF TarjanInv, FramesOK
    <3> QED BY <1>1, <1>8, <3>1, <3>2
  <2> QED BY <2>1, <2>2, <2>3 DEF FramesOK
<1>16. Explored'
  BY <1>1, <1>4, <1>9, <1>10 DEF TarjanInv, Explored
<1>17. LowEnough'
  <2>1. ASSUME NEW a \in OnStack' PROVE index'[stack'[1]] <= lowLink'[a] /\ lowLink'[a] <= index'[a]
    <3>1. a \in OnStack
      BY <1>9
    <3>2. index[stack[1]] <= lowLink[a] /\ lowLink[a] <= index[a]
      BY <3>1 DEF TarjanInv, LowEnough
    <3>3. index[stack[1]] \in Nat
      BY <1>11, <3>1, StackFirst DEF TarjanInv
    <3>4. index[stack[1]] <= lowLink'[a]
      <4>1. CASE a # r
        BY <1>6, <1>11, <3>1, <3>2, <4>1
      <4>2. CASE a = r /\ s \in OnStack
        <5>1. index[stack[1]] <= index[s]
          BY <4>2, StackFirst DEF TarjanInv
        <5> QED BY <1>7, <3>2, <4>2, <5>1
      <4>3. CASE a = r /\ s \notin OnStack
        BY <1>6, <3>2, <4>3
      <4> QED BY <4>1, <4>2, <4>3
    <3> QED BY <1>1, <1>11, <3>1, <3>2, <3>3, <3>4
  <2>2. ASSUME NEW a \in OnStack', NEW m \in outEdges'[a] \cap OnStack'
        PROVE  Left(a, m)' \/ lowLink'[a] <= index'[m]
    <3>1. a \in OnStack /\ m \in OnStack /\ m \in outEdges[a]
      BY <1>1, <1>9, <2>2
    <3>2. Left(a, m) \/ lowLink[a] <= index[m]
      BY <3>1 DEF TarjanInv, LowEnough
    <3>3. CASE lowLink[a] <= index[m]
      BY <1>1, <1>11, <3>1, <3>3
    <3>4. CASE Left(a, m)
      BY <1>1, <1>7, <1>10, <3>1, <3>4
    <3> QED BY <3>2, <3>3, <3>4
  <2>3. ASSUME NEW k \in 1..Len(frames'), NEW a \in OnStack',
               index'[frames'[k].node] <= index'[a],
               k < Len(frames') => index'[a] < index'[frames'[k + 1].node]
        PROVE  lowLink'[frames'[k].node] <= lowLink'[a]
    <3>1. k \in 1..L /\ frames'[k].node = frames[k].node /\ a \in OnStack /\ frames[k].node \in OnStack
      BY <1>8, <1>9, Numbers
    <3>2. ASSUME k < L PROVE k + 1 \in 1..L /\ frames'[k + 1].node = frames[k + 1].node /\ index[a] < index[frames[k + 1].node]
      <4>1. k + 1 \in 1..L
        BY <1>2, <3>1, <3>2
      <4> QED BY <1>1, <1>8, <2>3, <3>2, <4>1
    <3>3. lowLink[frames[k].node] <= lowLink[a]
      BY <1>1, <2>3, <3>1, <3>2 DEF TarjanInv, LowEnough
    <3>4. CASE a # r
      BY <1>6, <1>11, <3>1, <3>3, <3>4
    <3>5. CASE a = r /\ k = L
      BY <1>4, <1>11, <3>1, <3>5
    <3>6. CASE a = r /\ k # L
      <4>1. k < L
        BY <1>2, <3>1, <3>6
      <4>2. k + 1 \in 1..L /\ index[frames[L].node] < index[frames[k + 1].node]
        BY <1>4, <3>2, <3>6, <4>1
      <4>3. k + 1 = L \/ index[frames[k + 1].node] < index[frames[L].node]
        BY <1>2, <4>1, <4>2 DEF TarjanInv, FramesOK
      <4>4. frames[L].node \in OnStack /\ frames[k + 1].node \in OnStack
        BY <1>2, <4>2, Numbers
      <4> QED BY <1>11, <4>2, <4>3, <4>4
    <3> QED BY <3>4, <3>5, <3>6
  <2> QED BY <2>1, <2>2, <2>3 DEF LowEnough
<1>18. LowReached'
  <2>1. ASSUME NEW a \in OnStack', lowLink'[a] < index'[a]
        PROVE  \E m \in OnStack' : index'[m] = lowLink'[a] /\ Reaches(a, m)'
    <3>1. a \in OnStack
      BY <1>9
    <3>2. CASE lowLink'[a] = lowLink[a]
      <4>1. PICK m \in OnStack : index[m] = lowLink[a] /\ Reaches(a, m)
        BY <1>1, <2>1, <3>1, <3>2 DEF TarjanInv, LowReached
      <4> QED BY <1>1, <1>9, <3>2, <4>1, ReachesFrame
    <3>3. CASE a = r /\ s \in OnStack /\ lowLink'[r] = index[s]
      <4>1. Reaches(r, s)
        BY <1>4, ReachesEdge
      <4> QED BY <1>1, <1>9, <3>3, <4>1, ReachesFrame
    <3> QED BY <1>6, <1>7, <1>11, <3>1, <3>2, <3>3
  <2> QED BY <2>1 DEF LowReached
<1>19. CallsReach'
  <2>1. ASSUME NEW k \in 1..Len(frames'), NEW a \in OnStack', index'[frames'[k].node] < index'[a]
        PROVE  Reaches(frames[k].node, a)'
    <3>1. k \in 1..L /\ frames'[k].node = frames[k].node /\ a \in OnStack
      BY <1>8, <1>9
    <3>2. PICK f \in Nodes : f = frames[k].node
      BY <1>11, <3>1, Numbers
    <3>3. Reaches(frames[k].node, a)
      BY <1>1, <2>1, <3>1 DEF TarjanInv, CallsReach
    <3>4. Reaches(f, a)'
      BY <1>1, <3>2, <3>3, ReachesFrame
    <3> QED BY <3>1, <3>2, <3>4 DEF Reaches
  <2>2. ASSUME NEW a \in OnStack' PROVE InCall(a)' \/ lowLink'[a] < index'[a]
    <3>1. a \in OnStack
      BY <1>9
    <3>2. InCall(a) \/ lowLink[a] < index[a]
      BY <3>1 DEF TarjanInv, CallsReach
    <3> QED BY <1>1, <1>10, <1>11, <3>1, <3>2
  <2> QED BY <2>1, <2>2 DEF CallsReach
<1>20. ResultIsExact'
  BY <1>1, ReachesFrame DEF TarjanInv, ResultIsExact
<1>21. GraphOK'
  BY <1>1, ReachesFrame DEF TarjanInv
<1> QED BY <1>12, <1>13, <1>14, <1>15, <1>16, <1>17, <1>18, <1>19, <1>20, <1>21 DEF TarjanInv

LEMMA TarjanSuccessors ==
  ASSUME TarjanInv, NEW s \in Nodes, TarjanSuccessor(s)
  PROVE  TarjanInv'
<1>1. pc = "scc" /\ frames # <<>> /\ s \in Last(frames).todo /\ UNCHANGED <<graphVars, pc, result>>
  BY DEF TarjanSuccessor
<1>2. CASE index[s] = 0 /\ visit(s, WithoutSucc(s))
  <2>1. Last(frames) = frames[Len(frames)] /\ Len(frames) \in 1..Len(frames)
    <3>1. frames \in Seq([node : Nodes, todo : SUBSET Nodes])
      BY DEF TarjanInv, TarjanTypes
    <3>2. Len(frames) \in Nat \ {0} /\ Last(frames) = frames[Len(frames)]
      BY <1>1, <3>1, FrontLast
    <3> QED BY <3>2
  <2>2. s \in outEdges[frames[Len(frames)].node] /\ frames[Len(frames)].node \in Nodes
    BY <1>1, <2>1, Numbers
  <2>3. s \in nodes
    BY <2>2 DEF TarjanInv, GraphOK
  <2>4. TarjanTypes
    BY DEF TarjanInv
  <2> QED BY <1>1, <1>2, <2>2, <2>3, <2>4, WithoutSuccFacts, TarjanVisits
<1>3. CASE /\ index[s] # 0 /\ frames' = WithoutSucc(s) /\ UNCHANGED <<index, stack>>
           /\ lowLink' = IF links(s) THEN [lowLink EXCEPT ![Current] = Smaller(@, index[s])] ELSE lowLink
  BY <1>1, <1>3, TarjanLinks
<1> QED BY <1>2, <1>3 DEF TarjanSuccessor

\* What both ways to return have in common.
LEMMA ReturnFacts ==
  ASSUME TarjanInv, pc = "scc", frames # <<>>, Last(frames).todo = {},
         frames' = Front(frames), UNCHANGED <<graphVars, index>>
  PROVE  /\ Len(frames) \in Nat \ {0} /\ Len(frames) \in 1..Len(frames)
         /\ Current = frames[Len(frames)].node /\ Current \in OnStack
         /\ frames' \in Seq([node : Nodes, todo : SUBSET Nodes])
         /\ Len(frames') = Len(frames) - 1
         /\ \A k \in 1..(Len(frames) - 1) : k \in 1..Len(frames) /\ frames'[k] = frames[k]
         /\ \A a, m : Left(a, m) => Left(a, m)'
         /\ \A a : InCall(a) => InCall(a)' \/ a = Current
         /\ \A k \in 1..(Len(frames) - 1) : index[frames[k].node] < index[Current]
<1> DEFINE L == Len(frames)
<1>1. frames \in Seq([node : Nodes, todo : SUBSET Nodes])
  BY DEF TarjanInv, TarjanTypes
<1>2. /\ L \in Nat \ {0} /\ Last(frames) = frames[L]
      /\ Front(frames) \in Seq([node : Nodes, todo : SUBSET Nodes])
      /\ Len(Front(frames)) = L - 1
      /\ \A k \in 1..(L - 1) : Front(frames)[k] = frames[k]
  BY <1>1, FrontLast
<1>3. L \in 1..L /\ L - 1 \in Nat
  BY <1>2
<1>4. Current = frames[L].node /\ Current \in OnStack
  BY <1>2, <1>3, Numbers DEF Current
<1>5. \A k \in 1..(L - 1) : k \in 1..L /\ k < L /\ frames'[k] = frames[k]
  BY <1>2
<1>6. \A k \in 1..L : k \in 1..(L - 1) \/ k = L
  BY <1>2
<1>7. \A a, m : Left(a, m) => Left(a, m)'
  BY <1>2, <1>5, <1>6 DEF Left
<1>8. \A a : InCall(a) => InCall(a)' \/ a = Current
  BY <1>2, <1>4, <1>5, <1>6 DEF InCall
<1>9. \A k \in 1..(L - 1) : index[frames[k].node] < index[Current]
  BY <1>3, <1>4, <1>5 DEF TarjanInv, FramesOK
<1> QED BY <1>2, <1>3, <1>4, <1>5, <1>7, <1>8, <1>9

\* A call returns and its node stays on the stack: the node of the caller reaches at
\* least as low.
LEMMA TarjanStays ==
  ASSUME TarjanInv, pc = "scc", frames # <<>>, Last(frames).todo = {},
         lowLink[Current] # index[Current],
         frames' = Front(frames), UNCHANGED <<graphVars, pc, index, stack, result>>,
         lowLink' = IF Len(frames) = 1 THEN lowLink
                    ELSE [lowLink EXCEPT ![Last(Front(frames)).node] = Smaller(@, lowLink[Current])]
  PROVE  TarjanInv'
<1> DEFINE L == Len(frames)
<1>1. /\ UNCHANGED <<nodes, outEdges, inEdges>> /\ UNCHANGED graphVars
      /\ pc' = pc /\ result' = result /\ index' = index /\ stack' = stack
  BY DEF graphVars
<1>2. /\ L \in Nat \ {0} /\ L \in 1..L
      /\ Current = frames[L].node /\ Current \in OnStack
      /\ frames' \in Seq([node : Nodes, todo : SUBSET Nodes])
      /\ Len(frames') = L - 1
      /\ \A k \in 1..(L - 1) : k \in 1..L /\ frames'[k] = frames[k]
      /\ \A a, m : Left(a, m) => Left(a, m)'
      /\ \A a : InCall(a) => InCall(a)' \/ a = Current
      /\ \A k \in 1..(L - 1) : index[frames[k].node] < index[Current]
  BY <1>1, ReturnFacts
<1>3. PICK r \in OnStack : r = Current
  BY <1>2
<1>4. \A m \in OnStack : m \in Nodes /\ index[m] \in Nat /\ lowLink[m] \in Nat
  BY Numbers
<1>5. lowLink[r] < index[r]
  <2>1. lowLink[r] <= index[r]
    BY DEF TarjanInv, LowEnough
  <2> QED BY <1>3, <1>4, <2>1
<1>6. L # 1
  <2>1. ASSUME L = 1 PROVE FALSE
    <3>1. stack[1] = r
      BY <1>2, <1>3, <2>1 DEF TarjanInv, FramesOK
    <3>2. index[stack[1]] <= lowLink[r]
      BY DEF TarjanInv, LowEnough
    <3> QED BY <1>4, <1>5, <3>1, <3>2
  <2> QED BY <2>1
<1>7. L - 1 \in 1..(L - 1) /\ L - 1 \in 1..L
  BY <1>2, <1>6
<1>8. PICK p \in OnStack : p = frames[L - 1].node
  BY <1>7, Numbers
<1>9. Last(Front(frames)).node = p
  <2>1. frames' # <<>>
    BY <1>2, <1>7
  <2>2. Last(frames') = frames'[Len(frames')]
    BY DEF Last
  <2> QED BY <1>2, <1>7, <1>8, <2>2
<1>10. lowLink' = [lowLink EXCEPT ![p] = Smaller(@, lowLink[r])]
  BY <1>3, <1>6, <1>9
<1>11. lowLink \in [Nodes -> Nat] /\ index \in [Nodes -> Nat]
  BY DEF TarjanInv, TarjanTypes
<1>12. /\ lowLink' \in [Nodes -> Nat]
       /\ \A m \in Nodes : m # p => lowLink'[m] = lowLink[m]
       /\ lowLink'[p] <= lowLink[p] /\ lowLink'[p] <= lowLink[r]
       /\ lowLink'[p] = lowLink[p] \/ lowLink'[p] = lowLink[r]
  <2>1. Smaller(lowLink[p], lowLink[r]) \in Nat
    BY <1>4 DEF Smaller
  <2>2. /\ lowLink' \in [Nodes -> Nat]
        /\ \A m \in Nodes : m # p => lowLink'[m] = lowLink[m]
        /\ lowLink'[p] = Smaller(lowLink[p], lowLink[r])
    BY <1>4, <1>10, <1>11, <2>1
  <2> QED BY <1>4, <2>2 DEF Smaller
<1>13. \A m \in OnStack : lowLink'[m] \in Nat /\ lowLink'[m] <= lowLink[m]
  BY <1>4, <1>12
<1>14. index[p] < index[r] /\ Reaches(p, r)
  <2>1. index[p] < index[r]
    BY <1>2, <1>3, <1>7, <1>8
  <2>2. Reaches(frames[L - 1].node, r)
    BY <1>7, <1>8, <2>1 DEF TarjanInv, CallsReach
  <2> QED BY <1>8, <2>1, <2>2
<1>15. UNCHANGED <<Visited, OnStack, Popped>>
  BY <1>1 DEF Visited, OnStack, Elements, Popped
<1>16. TarjanTypes'
  BY <1>1, <1>2, <1>12 DEF TarjanInv, TarjanTypes
<1>17. Phases'
  BY <1>1 DEF Phases
<1>18. StackOK'
  BY <1>1, <1>15 DEF TarjanInv, StackOK
<1>19. FramesOK'
  <2>1. \A k \in 1..Len(frames') : frames'[k].node \in OnStack' /\ frames'[k].todo \subseteq outEdges'[frames'[k].node]
    BY <1>1, <1>2, <1>15, Numbers
  <2>2. \A k, l \in 1..Len(frames') : k < l => index'[frames'[k].node] < index'[frames'[l].node]
    BY <1>1, <1>2 DEF TarjanInv, FramesOK
  <2>3. frames' # <<>> /\ stack' # <<>> /\ frames'[1].node = stack'[1]
    <3>1. frames' # <<>> /\ 1 \in 1..(L - 1)
      BY <1>2, <1>7
    <3>2. stack # <<>> /\ frames[1].node = stack[1]
      BY DEF TarjanInv, FramesOK
    <3> QED BY <1>1, <1>2, <3>1, <3>2
  <2> QED BY <2>1, <2>2, <2>3 DEF FramesOK
<1>20. Explored'
  BY <1>1, <1>2, <1>15 DEF TarjanInv, Explored
<1>21. LowEnough'
  <2>1. ASSUME NEW a \in OnStack' PROVE index'[stack'[1]] <= lowLink'[a] /\ lowLink'[a] <= index'[a]
    <3>1. a \in OnStack
      BY <1>15
    <3>2. /\ index[stack[1]] <= lowLink[a] /\ lowLink[a] <= index[a]
          /\ index[stack[1]] <= lowLink[r]
      BY <3>1 DEF TarjanInv, LowEnough
    <3>3. index[stack[1]] \in Nat
      BY <1>4, <3>1, StackFirst DEF TarjanInv
    <3> QED BY <1>1, <1>4, <1>12, <1>13, <3>1, <3>2, <3>3
  <2>2. ASSUME NEW a \in OnStack', NEW m \in outEdges'[a] \cap OnStack'
        PROVE  Left(a, m)' \/ lowLink'[a] <= index'[m]
    <3>1. a \in OnStack /\ m \in OnStack /\ m \in outEdges[a]
      BY <1>1, <1>15, <2>2
    <3>2. Left(a, m) \/ lowLink[a] <= index[m]
      BY <3>1 DEF TarjanInv, LowEnough
    <3>3. CASE lowLink[a] <= index[m]
      BY <1>1, <1>4, <1>13, <3>1, <3>3
    <3> QED BY <1>2, <3>2, <3>3
  <2>3. ASSUME NEW k \in 1..Len(frames'), NEW a \in OnStack',
               index'[frames'[k].node] <= index'[a],
               k < Len(frames') => index'[a] < index'[frames'[k + 1].node]
        PROVE  lowLink'[frames'[k].node] <= lowLink'[a]
    <3>1. k \in 1..(L - 1) /\ k \in 1..L /\ frames'[k].node = frames[k].node /\ a \in OnStack /\ frames[k].node \in OnStack
      BY <1>2, <1>15, Numbers
    <3>2. index[frames[k].node] <= index[a]
      BY <1>1, <2>3, <3>1
    <3>3. CASE k = L - 1
      <4>1. frames'[k].node = p
        BY <1>8, <3>1, <3>3
      <4>2. CASE a = p
        BY <1>13, <4>1, <4>2
      <4>3. CASE a # p /\ index[r] <= index[a]
        <5>1. L \in 1..Len(frames) /\ r = frames[L].node /\ ~(L < Len(frames))
          BY <1>2, <1>3
        <5>2. lowLink[frames[L].node] <= lowLink[a]
          BY <3>1, <4>3, <5>1 DEF TarjanInv, LowEnough
        <5>3. lowLink[r] <= lowLink[a]
          BY <5>1, <5>2
        <5> QED BY <1>4, <1>12, <1>13, <3>1, <4>1, <4>3, <5>3
      <4>4. CASE a # p /\ ~(index[r] <= index[a])
        <5>1. index[a] < index[frames[(L - 1) + 1].node]
          BY <1>2, <1>3, <1>4, <3>1, <4>4
        <5>2. lowLink[p] <= lowLink[a]
          BY <1>7, <1>8, <3>1, <3>2, <3>3, <5>1 DEF TarjanInv, LowEnough
        <5> QED BY <1>4, <1>12, <1>13, <3>1, <4>1, <4>4, <5>2
      <4> QED BY <4>2, <4>3, <4>4
    <3>4. CASE k # L - 1
      <4>1. k < L - 1 /\ k + 1 \in 1..(L - 1) /\ k + 1 \in 1..L /\ k < L
        BY <1>2, <3>1, <3>4
      <4>2. index[a] < index[frames[k + 1].node]
        BY <1>1, <1>2, <2>3, <4>1
      <4>3. lowLink[frames[k].node] <= lowLink[a]
        BY <3>1, <3>2, <4>1, <4>2 DEF TarjanInv, LowEnough
      <4>4. k + 1 = L - 1 \/ index[frames[k + 1].node] < index[p]
        BY <1>2, <1>7, <1>8, <4>1 DEF TarjanInv, FramesOK
      <4>5. frames[k + 1].node \in OnStack
        BY <4>1, Numbers
      <4>6. a # p
        BY <1>4, <1>8, <4>2, <4>4, <4>5
      <4> QED BY <1>4, <1>12, <1>13, <3>1, <4>3, <4>6
    <3> QED BY <3>3, <3>4
  <2> QED BY <2>1, <2>2, <2>3 DEF LowEnough
<1>22. LowReached'
  <2>1. ASSUME NEW a \in OnStack', lowLink'[a] < index'[a]
        PROVE  \E m \in OnStack' : index'[m] = lowLink'[a] /\ Reaches(a, m)'
    <3>1. a \in OnStack
      BY <1>15
    <3>2. CASE lowLink'[a] = lowLink[a]
      <4>1. PICK m \in OnStack : index[m] = lowLink[a] /\ Reaches(a, m)
        BY <1>1, <2>1, <3>1, <3>2 DEF TarjanInv, LowReached
      <4> QED BY <1>1, <1>15, <3>2, <4>1, ReachesFrame
    <3>3. CASE a = p /\ lowLink'[p] = lowLink[r]
      <4>1. PICK m \in OnStack : index[m] = lowLink[r] /\ Reaches(r, m)
        BY <1>5 DEF TarjanInv, LowReached
      <4>2. Reaches(p, m)
        BY <1>14, <4>1, ReachesTrans
      <4> QED BY <1>1, <1>15, <3>3, <4>1, <4>2, ReachesFrame
    <3> QED BY <1>4, <1>12, <3>1, <3>2, <3>3
  <2> QED BY <2>1 DEF LowReached
<1>23. CallsReach'
  <2>1. ASSUME NEW k \in 1..Len(frames'), NEW a \in OnStack', index'[frames'[k].node] < index'[a]
        PROVE  Reaches(frames[k].node, a)'
    <3>1. k \in 1..L /\ frames'[k].node = frames[k].node /\ a \in OnStack
      BY <1>2, <1>15
    <3>2. PICK f \in Nodes : f = frames[k].node
      BY <1>4, <3>1, Numbers
    <3>3. Reaches(frames[k].node, a)
      BY <1>1, <2>1, <3>1 DEF TarjanInv, CallsReach
    <3>4. Reaches(f, a)'
      BY <1>1, <3>2, <3>3, ReachesFrame
    <3> QED BY <3>1, <3>2, <3>4 DEF Reaches
  <2>2. ASSUME NEW a \in OnStack' PROVE InCall(a)' \/ lowLink'[a] < index'[a]
    <3>1. a \in OnStack
      BY <1>15
    <3>2. (InCall(a) /\ a # r) \/ lowLink[a] < index[a]
      BY <1>5, <3>1 DEF TarjanInv, CallsReach
    <3> QED BY <1>1, <1>2, <1>3, <1>4, <1>13, <3>1, <3>2
  <2> QED BY <2>1, <2>2 DEF CallsReach
<1>24. ResultIsExact'
  BY <1>1, ReachesFrame DEF TarjanInv, ResultIsExact
<1>25. GraphOK'
  BY <1>1, ReachesFrame DEF TarjanInv
<1> QED BY <1>16, <1>17, <1>18, <1>19, <1>20, <1>21, <1>22, <1>23, <1>24, <1>25 DEF TarjanInv

\* The stack splits at the node of the current call: what is above was visited later.
LEMMA StackSplits ==
  ASSUME TarjanTypes, StackOK, NEW r \in OnStack, NEW at \in 1..Len(stack), stack[at] = r
  PROVE  /\ SubSeq(stack, 1, at - 1) \in Seq(nodes)
         /\ Len(SubSeq(stack, 1, at - 1)) = at - 1
         /\ \A i \in 1..(at - 1) : i \in 1..Len(stack) /\ SubSeq(stack, 1, at - 1)[i] = stack[i]
         /\ Elements(SubSeq(stack, 1, at - 1)) = {n \in OnStack : index[n] < index[r]}
         /\ Elements(SubSeq(stack, at, Len(stack))) = {n \in OnStack : index[r] <= index[n]}
<1>1. /\ stack \in Seq(nodes) /\ Len(stack) \in Nat /\ at \in Nat /\ 1 <= at /\ at <= Len(stack)
      /\ \A i \in 1..Len(stack) : stack[i] \in nodes /\ stack[i] \in OnStack /\ index[stack[i]] \in Nat
  <2>1. stack \in Seq(nodes) /\ Len(stack) \in Nat
    BY DEF TarjanTypes
  <2>2. \A i \in 1..Len(stack) : stack[i] \in nodes /\ stack[i] \in OnStack
    BY <2>1 DEF OnStack, Elements
  <2>3. \A n \in OnStack : index[n] \in Nat
    BY DEF StackOK, Visited, TarjanTypes
  <2> QED BY <2>1, <2>2, <2>3
<1>2. /\ \A i \in 1..(at - 1) : i \in 1..Len(stack) /\ i < at
      /\ \A i \in at..Len(stack) : i \in 1..Len(stack)
      /\ 1 \in Int /\ at - 1 \in Int /\ at \in Int /\ Len(stack) \in Int
  BY <1>1
<1> DEFINE low == SubSeq(stack, 1, at - 1)
           up == SubSeq(stack, at, Len(stack))
<1>3. /\ 1 <= 1 /\ at - 1 \in Nat /\ at - 1 <= Len(stack) /\ 1 <= (at - 1) + 1
      /\ Len(stack) <= Len(stack) /\ at <= Len(stack) + 1
  BY <1>1
<1>4. /\ low \in Seq(nodes)
      /\ Len(low) = (at - 1) - 1 + 1
      /\ \A i \in 1..((at - 1) - 1 + 1) : low[i] = stack[1 + i - 1]
      /\ Len(up) = Len(stack) - at + 1
      /\ \A i \in 1..(Len(stack) - at + 1) : up[i] = stack[at + i - 1]
  BY <1>1, <1>3, SubSeqFacts
<1> HIDE DEF low, up
<1>5. low \in Seq(nodes) /\ Len(low) = at - 1 /\ \A i \in 1..(at - 1) : low[i] = stack[i]
  BY <1>1, <1>4
<1>6. Len(up) = Len(stack) - at + 1 /\ \A i \in 1..(Len(stack) - at + 1) : up[i] = stack[at + i - 1]
  BY <1>4
<1>7. \A i \in 1..Len(stack) : (i < at => index[stack[i]] < index[r]) /\ (at < i => index[r] < index[stack[i]])
  BY DEF StackOK
<1>8. \A i \in 1..Len(stack) : index[stack[i]] < index[r] <=> i < at
  BY <1>1, <1>7
<1>9. \A i \in 1..Len(stack) : index[r] <= index[stack[i]] <=> at <= i
  BY <1>1, <1>7
<1>10. OnStack = {stack[i] : i \in 1..Len(stack)}
  BY DEF OnStack, Elements
<1>11. Elements(low) = {n \in OnStack : index[n] < index[r]}
  <2>1. Elements(low) = {stack[i] : i \in 1..(at - 1)}
    BY <1>5 DEF Elements
  <2>2. \A i \in 1..Len(stack) : i < at => i \in 1..(at - 1)
    BY <1>1
  <2> QED BY <1>2, <1>8, <1>10, <2>1, <2>2
<1>12. Elements(up) = {n \in OnStack : index[r] <= index[n]}
  <2>1. \A x \in Elements(up) : x \in OnStack /\ index[r] <= index[x]
    <3>1. ASSUME NEW i \in 1..Len(up) PROVE up[i] \in OnStack /\ index[r] <= index[up[i]]
      <4>1. at + i - 1 \in 1..Len(stack) /\ at <= at + i - 1 /\ up[i] = stack[at + i - 1]
        BY <1>1, <1>6
      <4> QED BY <1>1, <1>9, <4>1
    <3> QED BY <3>1 DEF Elements
  <2>2. ASSUME NEW x \in OnStack, index[r] <= index[x] PROVE x \in Elements(up)
    <3>1. PICK i \in 1..Len(stack) : x = stack[i]
      BY <1>10
    <3>2. at <= i
      BY <1>9, <2>2, <3>1
    <3>3. i - at + 1 \in 1..Len(up) /\ i - at + 1 \in 1..(Len(stack) - at + 1) /\ at + (i - at + 1) - 1 = i
      BY <1>1, <1>6, <3>2
    <3>4. up[i - at + 1] = x
      BY <1>6, <3>1, <3>3
    <3> QED BY <3>3, <3>4 DEF Elements
  <2> QED BY <2>1, <2>2
<1> QED BY <1>2, <1>5, <1>11, <1>12 DEF low, up

\* The call of a root returns: the nodes above it on the stack and itself are a
\* strongly connected component.
LEMMA RootComponent ==
  ASSUME TarjanInv, NEW r \in OnStack, lowLink[r] = index[r], frames # <<>>,
         frames[Len(frames)].node = r, frames[Len(frames)].todo = {}
  PROVE  LET C == {n \in OnStack : index[r] <= index[n]}
         IN  /\ \A n \in C : outEdges[n] \subseteq Popped \cup C
             /\ \A n \in C : C = Strong(n)
<1> DEFINE C == {n \in OnStack : index[r] <= index[n]}
           L == Len(frames)
<1>1. \A m \in OnStack : m \in Nodes /\ m \in Visited /\ m \in nodes /\ index[m] \in Nat /\ lowLink[m] \in Nat
  BY Numbers
<1>2. L \in Nat \ {0} /\ L \in 1..L
  <2>1. frames \in Seq([node : Nodes, todo : SUBSET Nodes])
    BY DEF TarjanInv, TarjanTypes
  <2>2. L \in Nat \ {0}
    BY <2>1, FrontLast
  <2> QED BY <2>2
<1>3. r \in C /\ C \subseteq OnStack
  BY <1>1
<1>4. \A k \in 1..L : frames[k].node \in C => k = L
  <2>1. SUFFICES ASSUME NEW k \in 1..L, frames[k].node \in C PROVE k = L
    OBVIOUS
  <2>2. L <= k
    BY <1>2, <2>1, CallsInOrder
  <2> QED BY <1>2, <2>2
<1>5. \A n \in C : lowLink[r] <= lowLink[n]
  <2>1. SUFFICES ASSUME NEW n \in C PROVE lowLink[r] <= lowLink[n]
    OBVIOUS
  <2>2. lowLink[frames[L].node] <= lowLink[n]
    BY <1>2 DEF TarjanInv, LowEnough
  <2> QED BY <2>2
<1>6. ASSUME NEW n \in C, NEW m \in outEdges[n] PROVE m \in Popped \cup C
  <2>1. ~Left(n, m)
    BY <1>4 DEF Left
  <2>2. m \in Visited
    BY <1>1, <2>1 DEF TarjanInv, Explored
  <2>3. CASE m \in OnStack
    <3>1. lowLink[n] <= index[m]
      BY <2>1, <2>3 DEF TarjanInv, LowEnough
    <3> QED BY <1>1, <1>5, <2>3, <3>1
  <2> QED BY <2>2, <2>3 DEF TarjanInv, StackOK
<1>7. ASSUME NEW n \in C, n # r PROVE Reaches(r, n)
  <2>1. index[r] < index[n]
    <3>1. PICK i \in 1..Len(stack) : stack[i] = n
      BY DEF OnStack, Elements
    <3>2. PICK j \in 1..Len(stack) : stack[j] = r
      BY DEF OnStack, Elements
    <3>3. i < j \/ j < i
      BY <1>7, <3>1, <3>2, Numbers
    <3>4. index[n] # index[r]
      BY <1>1, <3>1, <3>2, <3>3 DEF TarjanInv, StackOK
    <3> QED BY <1>1, <3>4
  <2>2. Reaches(frames[L].node, n)
    BY <1>2, <2>1 DEF TarjanInv, CallsReach
  <2> QED BY <2>2
<1>8. ASSUME NEW n \in C, n # r PROVE Reaches(n, r)
  <2> DEFINE B == {a \in C : a # r /\ ~Reaches(a, r)}
  <2>1. ASSUME B # {} PROVE FALSE
    <3>1. B \in SUBSET Nodes
      BY <1>1
    <3>2. PICK a \in B : \A b \in B : index[a] <= index[b]
      <4> HIDE DEF B
      <4> QED BY <2>1, <3>1, FirstVisited DEF TarjanInv
    <3>3. ~InCall(a)
      BY <1>4, <3>2 DEF InCall
    <3>4. lowLink[a] < index[a]
      BY <3>2, <3>3 DEF TarjanInv, CallsReach
    <3>5. PICK m \in OnStack : index[m] = lowLink[a] /\ Reaches(a, m)
      BY <3>2, <3>4 DEF TarjanInv, LowReached
    <3>6. m \in C /\ index[m] < index[a]
      BY <1>1, <1>5, <3>2, <3>4, <3>5
    <3>7. m \notin B
      BY <1>1, <3>2, <3>6
    <3>8. m = r \/ Reaches(m, r)
      BY <3>6, <3>7
    <3>9. Reaches(a, r)
      BY <3>5, <3>8, ReachesTrans
    <3> QED BY <3>2, <3>9
  <2> QED BY <1>8, <2>1
<1>9. ASSUME NEW n \in C PROVE C = Strong(n)
  <2>1. ASSUME NEW m \in C PROVE m \in Strong(n)
    <3>1. CASE m = n
      BY <3>1 DEF Strong
    <3>2. CASE m # n
      <4>1. Reaches(n, m) /\ Reaches(m, n)
        BY <1>7, <1>8, <3>2, ReachesTrans
      <4> QED BY <1>1, <4>1 DEF Strong
    <3> QED BY <3>1, <3>2
  <2>2. ASSUME NEW m \in Strong(n) PROVE m \in C
    <3>1. CASE m = n
      BY <3>1
    <3>2. CASE m \in nodes /\ Reaches(n, m) /\ Reaches(m, n)
      <4>1. Popped \in SUBSET nodes /\ Closed(Popped) /\ Popped \cap OnStack = {}
        BY DEF TarjanInv, TarjanTypes, Popped, Explored, Closed, StackOK
      <4>2. Popped \cup C \in SUBSET nodes /\ Closed(Popped \cup C)
        BY <1>1, <1>6, <4>1 DEF Closed
      <4>3. m \in Popped \cup C
        <5> HIDE DEF C
        <5> QED BY <3>2, <4>2, ReachesClosed
      <4>4. m \notin Popped
        BY <3>2, <4>1, ReachesClosed
      <4> QED BY <4>3, <4>4
    <3> QED BY <2>2, <3>1, <3>2 DEF Strong
  <2> QED BY <2>1, <2>2
<1> QED BY <1>6, <1>9

LEMMA TarjanPops ==
  ASSUME TarjanInv, pc = "scc", frames # <<>>, Last(frames).todo = {},
         lowLink[Current] = index[Current],
         LET at == CHOOSE i \in 1..Len(stack) : stack[i] = Current
         IN  /\ stack' = SubSeq(stack, 1, at - 1)
             /\ result' = result \cup {Elements(SubSeq(stack, at, Len(stack)))},
         frames' = Front(frames), UNCHANGED <<graphVars, pc, index>>,
         lowLink' = IF Len(frames) = 1 THEN lowLink
                    ELSE [lowLink EXCEPT ![Last(Front(frames)).node] = Smaller(@, lowLink[Current])]
  PROVE  TarjanInv'
<1> DEFINE L == Len(frames)
<1>1. /\ UNCHANGED <<nodes, outEdges, inEdges>> /\ UNCHANGED graphVars
      /\ pc' = pc /\ index' = index
  BY DEF graphVars
<1>2. /\ L \in Nat \ {0} /\ L \in 1..L
      /\ Current = frames[L].node /\ Current \in OnStack
      /\ frames' \in Seq([node : Nodes, todo : SUBSET Nodes])
      /\ Len(frames') = L - 1
      /\ \A k \in 1..(L - 1) : k \in 1..L /\ frames'[k] = frames[k]
      /\ \A a, m : Left(a, m) => Left(a, m)'
      /\ \A a : InCall(a) => InCall(a)' \/ a = Current
      /\ \A k \in 1..(L - 1) : index[frames[k].node] < index[Current]
  BY <1>1, ReturnFacts
<1>3. PICK r \in OnStack : r = Current
  BY <1>2
<1>4. \A m \in OnStack : m \in Nodes /\ m \in nodes /\ m \in Visited /\ index[m] \in Nat /\ lowLink[m] \in Nat
  BY Numbers
<1> DEFINE C == {n \in OnStack : index[r] <= index[n]}
           at0 == CHOOSE i \in 1..Len(stack) : stack[i] = r
<1>5. PICK at \in 1..Len(stack) : at = at0 /\ stack[at] = r
  BY DEF OnStack, Elements
<1>6. stack' = SubSeq(stack, 1, at - 1) /\ result' = result \cup {Elements(SubSeq(stack, at, Len(stack)))}
  BY <1>3, <1>5
<1>7. /\ stack' \in Seq(nodes) /\ Len(stack') = at - 1
      /\ \A i \in 1..(at - 1) : i \in 1..Len(stack) /\ stack'[i] = stack[i]
      /\ OnStack' = {n \in OnStack : index[n] < index[r]}
      /\ result' = result \cup {C}
  <2>1. TarjanTypes /\ StackOK
    BY DEF TarjanInv
  <2>2. /\ SubSeq(stack, 1, at - 1) \in Seq(nodes)
        /\ Len(SubSeq(stack, 1, at - 1)) = at - 1
        /\ \A i \in 1..(at - 1) : i \in 1..Len(stack) /\ SubSeq(stack, 1, at - 1)[i] = stack[i]
        /\ Elements(SubSeq(stack, 1, at - 1)) = {n \in OnStack : index[n] < index[r]}
        /\ Elements(SubSeq(stack, at, Len(stack))) = C
    BY <1>5, <2>1, StackSplits
  <2>3. OnStack' = Elements(stack')
    BY DEF OnStack, Elements
  <2> QED BY <1>6, <2>2, <2>3, Zenon
<1>8. /\ \A n \in C : outEdges[n] \subseteq Popped \cup C
      /\ \A n \in C : C = Strong(n)
  <2>1. frames[Len(frames)].node = r /\ frames[Len(frames)].todo = {} /\ lowLink[r] = index[r]
    BY <1>2, <1>3 DEF Last
  <2> QED BY <2>1, RootComponent
<1>9. C \in SUBSET nodes /\ C # {} /\ C \subseteq OnStack /\ OnStack = OnStack' \cup C /\ OnStack' \cap C = {}
  <2>1. r \in C
    BY <1>4
  <2>2. C \in SUBSET nodes /\ C \subseteq OnStack
    BY <1>4
  <2>3. \A n \in OnStack : index[n] < index[r] <=> ~(index[r] <= index[n])
    BY <1>4
  <2>4. OnStack = OnStack' \cup C /\ OnStack' \cap C = {}
    BY <1>7, <2>3
  <2> QED BY <2>1, <2>2, <2>4
<1> HIDE DEF C
<1>10. Popped' = Popped \cup C
  BY <1>7 DEF Popped
<1>11. lowLink' = lowLink
  <2>1. lowLink \in [Nodes -> Nat]
    BY DEF TarjanInv, TarjanTypes
  <2>2. CASE L = 1
    BY <2>2
  <2>3. CASE L # 1
    <3>1. L - 1 \in 1..(L - 1) /\ L - 1 \in 1..L
      BY <1>2, <2>3
    <3>2. PICK p \in OnStack : p = frames[L - 1].node
      BY <3>1, Numbers
    <3>3. Last(Front(frames)).node = p
      <4>1. Last(frames') = frames'[Len(frames')]
        BY DEF Last
      <4> QED BY <1>2, <3>1, <3>2, <4>1
    <3>4. lowLink' = [lowLink EXCEPT ![p] = Smaller(@, index[r])]
      BY <1>3, <2>3, <3>3
    <3>5. lowLink[p] <= index[p] /\ index[p] < index[r]
      BY <1>2, <1>3, <3>1, <3>2 DEF TarjanInv, LowEnough
    <3>6. Smaller(lowLink[p], index[r]) = lowLink[p]
      BY <1>4, <3>5 DEF Smaller
    <3> QED BY <1>4, <2>1, <3>4, <3>6
  <2> QED BY <2>2, <2>3
<1>12. Visited' = Visited
  BY <1>1 DEF Visited
<1>13. \A k \in 1..(L - 1) : frames[k].node \in OnStack'
  BY <1>2, <1>3, <1>7, Numbers
<1>14. TarjanTypes'
  <2>1. result' \subseteq SUBSET nodes'
    BY <1>1, <1>7, <1>9 DEF TarjanInv, TarjanTypes
  <2> QED BY <1>1, <1>2, <1>7, <1>11, <2>1 DEF TarjanInv, TarjanTypes
<1>15. Phases'
  BY <1>1 DEF Phases
<1>16. StackOK'
  <2>1. ASSUME NEW i \in 1..Len(stack'), NEW j \in 1..Len(stack'), i < j
        PROVE  index'[stack'[i]] < index'[stack'[j]]
    <3>1. i \in 1..Len(stack) /\ j \in 1..Len(stack) /\ stack'[i] = stack[i] /\ stack'[j] = stack[j]
      BY <1>7
    <3>2. index[stack[i]] < index[stack[j]]
      BY <2>1, <3>1 DEF TarjanInv, StackOK
    <3> QED BY <1>1, <3>1, <3>2
  <2>2. Visited' = OnStack' \cup Popped' /\ OnStack' \cap Popped' = {}
    BY <1>9, <1>10, <1>12 DEF TarjanInv, StackOK
  <2>3. \A n \in Visited' : index'[n] <= Cardinality(Visited')
    BY <1>1, <1>12 DEF TarjanInv, StackOK
  <2> QED BY <2>1, <2>2, <2>3 DEF StackOK
<1>17. \A n \in OnStack' : stack' # <<>> /\ stack'[1] = stack[1]
  <2>1. SUFFICES ASSUME NEW n \in OnStack' PROVE stack' # <<>> /\ stack'[1] = stack[1]
    OBVIOUS
  <2>2. stack' # <<>> /\ 1 \in 1..Len(stack')
    <3>1. PICK i \in 1..Len(stack') : stack'[i] = n
      BY DEF OnStack, Elements
    <3>2. Len(stack') \in Nat /\ 1 \in 1..Len(stack') /\ Len(stack') # 0
      BY <1>7, <3>1
    <3> QED BY <1>7, <3>2, EmptyLen
  <2> QED BY <1>7, <2>2
<1>18. FramesOK'
  <2>1. \A k \in 1..Len(frames') : frames'[k].node \in OnStack' /\ frames'[k].todo \subseteq outEdges'[frames'[k].node]
    BY <1>1, <1>2, <1>13, Numbers
  <2>2. \A k, l \in 1..Len(frames') : k < l => index'[frames'[k].node] < index'[frames'[l].node]
    BY <1>1, <1>2 DEF TarjanInv, FramesOK
  <2>3. ASSUME frames' # <<>> PROVE stack' # <<>> /\ frames'[1].node = stack'[1]
    <3>1. 1 \in 1..(L - 1)
      <4>1. Len(frames') # 0
        BY <1>2, <2>3
      <4> QED BY <1>2, <4>1
    <3>2. frames[1].node = stack[1]
      BY DEF TarjanInv, FramesOK
    <3> QED BY <1>2, <1>13, <1>17, <3>1, <3>2
  <2>4. ASSUME frames' = <<>> PROVE stack' = <<>>
    <3>1. L = 1
      BY <1>2, <2>4
    <3>2. stack[1] = r
      BY <1>2, <1>3, <3>1 DEF TarjanInv, FramesOK
    <3>3. at = 1
      <4>1. 1 \in 1..Len(stack)
        BY Numbers
      <4>2. 1 < at => index[stack[1]] < index[stack[at]]
        BY <4>1 DEF TarjanInv, StackOK
      <4>3. ~(1 < at)
        BY <1>4, <1>5, <3>2, <4>2
      <4> QED BY <1>5, <4>3, Numbers
    <3>4. Len(stack') = 0
      BY <1>7, <3>3
    <3> QED BY <1>7, <3>4, EmptyLen
  <2> QED BY <2>1, <2>2, <2>3, <2>4 DEF FramesOK
<1>19. Explored'
  <2>1. \A n \in Visited' : \A m \in outEdges'[n] : m \in Visited' \/ Left(n, m)'
    BY <1>1, <1>2, <1>12 DEF TarjanInv, Explored
  <2>2. \A n \in Popped' : outEdges'[n] \subseteq Popped'
    BY <1>1, <1>8, <1>10 DEF TarjanInv, Explored
  <2> QED BY <2>1, <2>2 DEF Explored
<1>20. LowEnough'
  <2>1. \A n \in OnStack' : index'[stack'[1]] <= lowLink'[n] /\ lowLink'[n] <= index'[n]
    BY <1>1, <1>9, <1>11, <1>17 DEF TarjanInv, LowEnough
  <2>2. \A n \in OnStack' : \A m \in outEdges'[n] \cap OnStack' : Left(n, m)' \/ lowLink'[n] <= index'[m]
    BY <1>1, <1>2, <1>9, <1>11 DEF TarjanInv, LowEnough
  <2>3. ASSUME NEW k \in 1..Len(frames'), NEW a \in OnStack',
               index'[frames'[k].node] <= index'[a],
               k < Len(frames') => index'[a] < index'[frames'[k + 1].node]
        PROVE  lowLink'[frames'[k].node] <= lowLink'[a]
    <3>1. k \in 1..(L - 1) /\ k \in 1..L /\ frames'[k].node = frames[k].node /\ a \in OnStack /\ index[a] < index[r]
      BY <1>2, <1>7
    <3>2. k + 1 \in 1..L /\ index[a] < index[frames[k + 1].node]
      <4>1. CASE k = L - 1
        BY <1>2, <1>3, <3>1, <4>1
      <4>2. CASE k # L - 1
        <5>1. k < L - 1 /\ k + 1 \in 1..(L - 1)
          BY <1>2, <3>1, <4>2
        <5> QED BY <1>1, <1>2, <2>3, <5>1
      <4> QED BY <4>1, <4>2
    <3>3. lowLink[frames[k].node] <= lowLink[a]
      BY <1>1, <2>3, <3>1, <3>2 DEF TarjanInv, LowEnough
    <3> QED BY <1>11, <3>1, <3>3
  <2> QED BY <2>1, <2>2, <2>3 DEF LowEnough
<1>21. LowReached'
  <2>1. ASSUME NEW a \in OnStack', lowLink'[a] < index'[a]
        PROVE  \E m \in OnStack' : index'[m] = lowLink'[a] /\ Reaches(a, m)'
    <3>1. a \in OnStack /\ index[a] < index[r] /\ lowLink[a] < index[a]
      BY <1>1, <1>7, <1>11, <2>1
    <3>2. PICK m \in OnStack : index[m] = lowLink[a] /\ Reaches(a, m)
      BY <3>1 DEF TarjanInv, LowReached
    <3>3. index[m] < index[r]
      BY <1>4, <3>1, <3>2
    <3> QED BY <1>1, <1>7, <1>11, <3>2, <3>3, ReachesFrame
  <2> QED BY <2>1 DEF LowReached
<1>22. CallsReach'
  <2>1. ASSUME NEW k \in 1..Len(frames'), NEW a \in OnStack', index'[frames'[k].node] < index'[a]
        PROVE  Reaches(frames[k].node, a)'
    <3>1. k \in 1..L /\ frames'[k].node = frames[k].node /\ a \in OnStack
      BY <1>2, <1>9
    <3>2. PICK f \in Nodes : f = frames[k].node
      BY <1>4, <3>1, Numbers
    <3>3. Reaches(frames[k].node, a)
      BY <1>1, <2>1, <3>1 DEF TarjanInv, CallsReach
    <3>4. Reaches(f, a)'
      BY <1>1, <3>2, <3>3, ReachesFrame
    <3> QED BY <3>1, <3>2, <3>4 DEF Reaches
  <2>2. ASSUME NEW a \in OnStack' PROVE InCall(a)' \/ lowLink'[a] < index'[a]
    <3>1. a \in OnStack /\ a # r
      BY <1>4, <1>7
    <3>2. InCall(a) \/ lowLink[a] < index[a]
      BY <3>1 DEF TarjanInv, CallsReach
    <3> QED BY <1>1, <1>2, <1>3, <1>11, <3>1, <3>2
  <2> QED BY <2>1, <2>2 DEF CallsReach
<1>23. ResultIsExact'
  <2>1. SUFFICES ASSUME NEW D \in result' PROVE D # {} /\ \A n \in D : D = Strong(n)'
    BY DEF ResultIsExact
  <2>2. D # {} /\ \A n \in D : D = Strong(n)
    BY <1>7, <1>8, <1>9 DEF TarjanInv, ResultIsExact
  <2> QED BY <1>1, <2>2, ReachesFrame
<1>24. GraphOK'
  BY <1>1, ReachesFrame DEF TarjanInv
<1> QED BY <1>14, <1>15, <1>16, <1>18, <1>19, <1>20, <1>21, <1>22, <1>23, <1>24 DEF TarjanInv

LEMMA TarjanReturns ==
  ASSUME TarjanInv, TarjanReturn
  PROVE  TarjanInv'
<1>1. CASE lowLink[Current] = index[Current]
  BY <1>1, TarjanPops DEF TarjanReturn
<1>2. CASE lowLink[Current] # index[Current]
  BY <1>2, TarjanStays DEF TarjanReturn
<1> QED BY <1>1, <1>2

-----------------------------------------------------------------------------
(***************************************************************************)
(* What Tarjan's algorithm finds.                                          *)
(***************************************************************************)

\* The verdict is about the graph that was validated.
Verdict ==
  /\ pc = "rejected" => ~Accepted
  /\ pc \notin {"build", "scc", "rejected"} => Accepted

LaterPhase == EvaluateWalk \/ ComponentsWalk \/ RanksWalk \/ Finished

\* After the validation graph and verdict stay as they are.
LEMMA LaterLeavesAlone ==
  ASSUME LaterPhase
  PROVE  /\ UNCHANGED <<graphVars, sccVars>>
         /\ pc \notin {"build", "scc"} /\ pc' \notin {"build", "scc"}
         /\ pc' = "rejected" <=> pc = "rejected"
<1>1. CASE EvaluateWalk
  BY <1>1 DEF EvaluateWalk, EvaluateBegin, EvaluateEnd, EvaluateStep
<1>2. CASE ComponentsWalk
  BY <1>2 DEF ComponentsWalk, ComponentsBegin, ComponentEnd, ComponentsDone, ComponentBegin, ComponentStep
<1>3. CASE RanksWalk
  BY <1>3 DEF RanksWalk, RankEnd, RanksDone, RankBegin, RankStep
<1>4. CASE Finished
  BY <1>4 DEF Finished, vars, graphVars, sccVars
<1> QED BY <1>1, <1>2, <1>3, <1>4 DEF LaterPhase

LEMMA TarjanKeeps == TarjanInv /\ [Next]_vars => TarjanInv'
<1> SUFFICES ASSUME TarjanInv, [Next]_vars PROVE TarjanInv'
  OBVIOUS
<1>1. CASE BuildStep
  BY <1>1, TarjanBuilding
<1>2. CASE ValidateBegin
  <2>1. UNCHANGED <<graphVars, sccVars>> /\ pc' = "scc"
    BY <1>2 DEF ValidateBegin
  <2>2. Phases'
    BY <2>1 DEF Phases
  <2> QED BY <2>1, <2>2, TarjanAlone
<1>3. CASE TarjanReturn
  BY <1>3, TarjanReturns
<1>4. CASE ValidateEnd
  <2>1. /\ UNCHANGED <<graphVars, sccVars>> /\ UNCHANGED <<nodes, index, frames>>
        /\ frames = <<>> /\ pc' \in {"accepted", "rejected"}
        /\ \A n \in nodes : index[n] # 0
    BY <1>4 DEF ValidateEnd, graphVars, sccVars
  <2>2. Visited = nodes
    <3>1. nodes \subseteq Visited
      BY <2>1 DEF TarjanInv, GraphOK, Visited
    <3>2. OnStack \subseteq nodes /\ Popped \subseteq nodes /\ Visited = OnStack \cup Popped
      BY Numbers DEF TarjanInv, TarjanTypes, StackOK, Popped
    <3> QED BY <3>1, <3>2
  <2>3. Visited' = nodes'
    BY <2>1, <2>2 DEF Visited
  <2>4. Phases'
    BY <2>1, <2>3 DEF Phases
  <2> QED BY <2>1, <2>4, TarjanAlone
<1>5. CASE \E n \in Nodes : TarjanRoot(n) \/ TarjanSuccessor(n)
  BY <1>5, TarjanRoots, TarjanSuccessors
<1>6. CASE LaterPhase
  <2>1. UNCHANGED <<graphVars, sccVars>> /\ pc \notin {"build", "scc"} /\ pc' \notin {"build", "scc"}
    BY <1>6, LaterLeavesAlone
  <2>2. UNCHANGED <<nodes, index, frames>>
    BY <2>1 DEF graphVars, sccVars
  <2>3. UNCHANGED Visited
    BY <2>2 DEF Visited
  <2>4. Phases'
    BY <2>1, <2>2, <2>3 DEF TarjanInv, Phases
  <2> QED BY <2>1, <2>4, TarjanAlone
<1>7. CASE UNCHANGED vars
  <2>1. UNCHANGED <<graphVars, sccVars>> /\ UNCHANGED <<nodes, index, frames, stack, result, pc>>
    BY <1>7 DEF vars, graphVars, sccVars
  <2>2. Phases'
    BY <2>1 DEF TarjanInv, Phases, Visited
  <2> QED BY <2>1, <2>2, TarjanAlone
<1> QED BY <1>1, <1>2, <1>3, <1>4, <1>5, <1>6, <1>7 DEF Next, ValidateStep, LaterPhase

LEMMA VerdictKeeps == Verdict /\ [Next]_vars => Verdict'
<1> SUFFICES ASSUME Verdict, [Next]_vars PROVE Verdict'
  OBVIOUS
<1>1. ASSUME UNCHANGED <<graphVars, sccVars>> PROVE Accepted' <=> Accepted
  BY <1>1 DEF Accepted, graphVars, sccVars
<1>2. CASE pc' \in {"build", "scc"}
  BY <1>2 DEF Verdict
<1>3. CASE ValidateEnd
  <2>1. UNCHANGED <<graphVars, sccVars>> /\ pc' = IF Accepted THEN "accepted" ELSE "rejected"
    BY <1>3 DEF ValidateEnd
  <2> QED BY <1>1, <2>1 DEF Verdict
<1>4. CASE LaterPhase
  BY <1>1, <1>4, LaterLeavesAlone DEF Verdict
<1>5. CASE UNCHANGED vars
  <2>1. UNCHANGED <<graphVars, sccVars>> /\ pc' = pc
    BY <1>5 DEF vars, graphVars, sccVars
  <2> QED BY <1>1, <2>1 DEF Verdict
<1>6. ASSUME BuildStep \/ ValidateBegin \/ TarjanReturn \/ \E n \in Nodes : TarjanRoot(n) \/ TarjanSuccessor(n)
      PROVE  pc' \in {"build", "scc"}
  BY <1>6 DEF BuildStep, Add, AddEdge, ValidateBegin, TarjanReturn, TarjanRoot, TarjanSuccessor
<1> QED BY <1>2, <1>3, <1>4, <1>5, <1>6 DEF Next, ValidateStep, LaterPhase

Acyclic == \A n \in nodes : ~Reaches(n, n)

\* The finished algorithm has every node in the component it belongs to.
LEMMA Finds ==
  ASSUME TarjanInv, pc \notin {"build", "scc"}
  PROVE  /\ result = {Strong(n) : n \in nodes}
         /\ Accepted <=> Acyclic
<1>1. GraphOK /\ Popped = nodes
  <2>1. frames = <<>> /\ Visited = nodes /\ stack = <<>>
    BY DEF TarjanInv, Phases, FramesOK
  <2>2. OnStack = {}
    BY <2>1 DEF OnStack, Elements
  <2> QED BY <2>1, <2>2 DEF TarjanInv, StackOK
<1>2. \A C \in result : C \in SUBSET nodes /\ C # {} /\ \A n \in C : C = Strong(n)
  BY DEF TarjanInv, ResultIsExact, TarjanTypes
<1>3. \A n \in nodes : Strong(n) \in result
  BY <1>1, <1>2 DEF Popped
<1>4. result = {Strong(n) : n \in nodes}
  BY <1>2, <1>3
<1>5. ASSUME Accepted, NEW n \in nodes, Reaches(n, n) PROVE FALSE
  <2>1. n \in Nodes
    BY <1>1 DEF GraphOK
  <2>2. PICK x \in outEdges[n] : x = n \/ Reaches(x, n)
    BY <1>1, <1>5, <2>1, ReachesFirst
  <2>3. x # n
    BY <1>5 DEF Accepted
  <2>4. Reaches(n, x) /\ x \in nodes
    BY <1>1, <2>1, ReachesEdge DEF GraphOK
  <2>5. n \in Strong(n) /\ x \in Strong(n)
    BY <2>2, <2>3, <2>4 DEF Strong
  <2>6. Cardinality(Strong(n)) = 1 /\ IsFiniteSet(Strong(n))
    <3>1. Strong(n) \in SUBSET Nodes
      BY <1>1, <1>2, <1>3 DEF GraphOK
    <3> QED BY <1>3, <1>5, <3>1, DagAssumption, FS_Subset DEF Accepted
  <2>7. \E y : Strong(n) = {y}
    BY <2>6, FS_Singleton
  <2> QED BY <2>3, <2>5, <2>7
<1>6. ASSUME Acyclic PROVE Accepted
  <2>1. ASSUME NEW C \in result PROVE Cardinality(C) = 1
    <3>1. PICK n \in C : C = Strong(n) /\ n \in nodes
      BY <1>2
    <3>2. ASSUME NEW m \in C, m # n PROVE FALSE
      <4>1. Reaches(n, m) /\ Reaches(m, n)
        BY <3>1, <3>2 DEF Strong
      <4>2. Reaches(n, n)
        BY <4>1, ReachesTrans
      <4> QED BY <1>6, <3>1, <4>2 DEF Acyclic
    <3>3. C = {n}
      BY <3>1, <3>2
    <3> QED BY <3>3, FS_Singleton
  <2>2. ASSUME NEW n \in nodes, n \in outEdges[n] PROVE FALSE
    BY <1>6, <2>2, ReachesEdge DEF Acyclic
  <2> QED BY <2>1, <2>2 DEF Accepted
<1> QED BY <1>4, <1>5, <1>6 DEF Acyclic

LEMMA TarjanAlways == Spec => [](TarjanInv /\ Verdict)
<1>1. Init => TarjanInv /\ Verdict
  BY TarjanInitially DEF Init, Verdict
<1>2. TarjanInv /\ Verdict /\ [Next]_vars => (TarjanInv /\ Verdict)'
  BY TarjanKeeps, VerdictKeeps
<1> QED BY <1>1, <1>2, PTL DEF Spec

\* "Validate checks that the graph doesn't contain cycles" (dag/ops.go): Tarjan's
\* algorithm finds the strongly connected components of every finite graph, whatever
\* the order of visits, and Validate accepts exactly the graphs without a cycle.
THEOREM ValidateExact == Spec => []ValidateIsExact
<1>1. TarjanInv /\ Verdict => ValidateIsExact
  <2>1. SUFFICES ASSUME TarjanInv, Verdict PROVE ValidateIsExact
    OBVIOUS
  <2>2. CASE pc \notin {"accepted", "rejected"}
    BY <2>2 DEF ValidateIsExact
  <2>3. CASE pc \in {"accepted", "rejected"}
    <3>1. result = {Strong(n) : n \in nodes} /\ (Accepted <=> Acyclic)
      BY <2>1, <2>3, Finds
    <3>2. result = {{n} \cup {m \in nodes : Reaches(n, m) /\ Reaches(m, n)} : n \in nodes}
      BY <3>1 DEF Strong
    <3>3. pc = "accepted" => Acyclic
      BY <2>1, <3>1 DEF Verdict
    <3>4. pc = "rejected" => ~Acyclic
      BY <2>1, <3>1 DEF Verdict
    <3> QED BY <3>2, <3>3, <3>4 DEF ValidateIsExact, Acyclic
  <2> QED BY <2>2, <2>3
<1> QED BY <1>1, TarjanAlways, PTL

-----------------------------------------------------------------------------
(***************************************************************************)
(* The inductive invariant of the second part: the walks over an accepted  *)
(* graph.                                                                  *)
(***************************************************************************)

Seen == Elements(order)

\* What holds of a walk also after its end.
OrderOK ==
  /\ order \in Seq(nodes) /\ unchecked \subseteq nodes
  /\ remaining \in [Nodes -> Nat]
  /\ \A n \in Nodes : remaining[n] <= Cardinality(outEdges[n])
  /\ \A i \in 1..Len(order) :
       /\ outEdges[order[i]] \subseteq {order[j] : j \in 1..(i - 1)}
       /\ order[i] \notin {order[j] : j \in 1..(i - 1)}

\* No edge leaves or enters D.
Separate(D) == D \subseteq nodes /\ \A n \in D : outEdges[n] \subseteq D /\ inEdges[n] \subseteq D

\* A walk of the nodes of D: a node is in unchecked when all that it references was
\* visited and the node itself was not.
Walk(D) ==
  /\ Separate(D)
  /\ Seen \subseteq D
  /\ \A n \in Nodes : remaining[n] = Cardinality(outEdges[n] \ Seen)
  /\ unchecked = {n \in D \ Seen : outEdges[n] \subseteq Seen}

\* Which part of which walk has run.
WalkPhases ==
  /\ pc \in {"build", "scc", "accepted", "rejected", "components"} =>
       unchecked = {} /\ order = <<>>
  /\ pc = "build" => remaining = [n \in Nodes |-> 0]
  /\ pc \in {"evaluate", "evaluated"} => Walk(nodes)
  /\ pc = "evaluated" => unchecked = {}
  /\ pc = "ranks" => IF component = {} THEN unchecked = {} ELSE Walk(component)

Connected(n, m) == m \in Component(AsGraph, n)

\* C is a component of the graph.
IsComponent(C) == C \in SUBSET nodes /\ C # {} /\ \A n \in C : C = Component(AsGraph, n)

\* The search for components: every node is unseen, queued, in the component the
\* search is at or in one that it has found, and the search stays in a component until
\* it has all of it.
SearchInv ==
  /\ \A C \in components : IsComponent(C)
  /\ component \subseteq nodes
  /\ nodes = unseen \cup frontier \cup component \cup UNION components
  /\ unseen \cap (frontier \cup component \cup UNION components) = {}
  /\ component \cap frontier = {}
  /\ (frontier \cup component) \cap UNION components = {}
  /\ \A n \in component : neighbors(n) \subseteq component \cup frontier
  /\ \A n, m \in component \cup frontier : Connected(n, m)

WeakInv ==
  /\ pc \in {"build", "scc", "accepted", "rejected"} =>
       frontier = {} /\ component = {} /\ components = {}
  /\ \A C \in components : IsComponent(C)
  /\ component \subseteq nodes
  /\ pc = "components" => SearchInv

\* A node has its group and its rank.
Ranked(n) ==
  /\ group[n] = Component(AsGraph, n)
  /\ {rank[m] : m \in Component(AsGraph, n)} = 0..(Cardinality(Component(AsGraph, n)) - 1)
  /\ \A m \in outEdges[n] : rank[m] < rank[n]

RankInv ==
  /\ rank \in [Nodes -> Nat] /\ group \in [Nodes -> SUBSET Nodes]
  /\ pc = "ranks" =>
       /\ component # {} => /\ IsComponent(component)
                            /\ component \cap UNION components = {}
                            /\ \A i \in 1..Len(order) : group[order[i]] = component /\ rank[order[i]] = i - 1
       /\ \A n \in nodes \ (component \cup UNION components) : Ranked(n)
  /\ pc = "scheduled" => \A n \in nodes : Ranked(n)

WalkInv == OrderOK /\ WalkPhases /\ WeakInv /\ RankInv

(***************************************************************************)
(* Components of a graph.                                                  *)
(***************************************************************************)

LEMMA SeparateIsClosed ==
  ASSUME GraphOK, NEW C \in SUBSET nodes
  PROVE  (\A e \in AsGraph.edges : e[1] \in C <=> e[2] \in C) <=> Separate(C)
<1>1. AsGraph.edges = {e \in nodes \X nodes : e[2] \in outEdges[e[1]]}
  BY DEF AsGraph
<1>2. \A a, b \in nodes : b \in outEdges[a] <=> a \in inEdges[b]
  BY DEF GraphOK
<1>3. \A a \in nodes : outEdges[a] \subseteq nodes /\ inEdges[a] \subseteq nodes
  BY DEF GraphOK
<1>4. ASSUME \A e \in AsGraph.edges : e[1] \in C <=> e[2] \in C PROVE Separate(C)
  <2>1. \A a, b \in nodes : b \in outEdges[a] => (a \in C <=> b \in C)
    <3>1. SUFFICES ASSUME NEW a \in nodes, NEW b \in nodes, b \in outEdges[a] PROVE a \in C <=> b \in C
      OBVIOUS
    <3>2. <<a, b>> \in AsGraph.edges
      BY <1>1, <3>1
    <3> QED BY <1>4, <3>2
  <2> QED BY <1>2, <1>3, <2>1 DEF Separate
<1>5. ASSUME Separate(C), NEW e \in AsGraph.edges PROVE e[1] \in C <=> e[2] \in C
  <2>1. e[1] \in nodes /\ e[2] \in nodes /\ e[2] \in outEdges[e[1]] /\ e[1] \in inEdges[e[2]]
    BY <1>1, <1>2
  <2> QED BY <1>5, <2>1 DEF Separate
<1> QED BY <1>4, <1>5

LEMMA ConnectedIs ==
  ASSUME GraphOK, NEW n, NEW m
  PROVE  Connected(n, m) <=> m \in nodes /\ \A C \in SUBSET nodes : n \in C /\ Separate(C) => m \in C
<1>1. AsGraph.nodes = nodes
  BY DEF AsGraph
<1>2. Connected(n, m) <=> m \in nodes /\ \A C \in SUBSET nodes :
        (n \in C /\ \A e \in AsGraph.edges : e[1] \in C <=> e[2] \in C) => m \in C
  BY <1>1 DEF Connected, Component
<1> QED BY <1>2, SeparateIsClosed

\* Connected is an equivalence that holds of neighbours.
LEMMA ConnectedFacts ==
  ASSUME GraphOK
  PROVE  /\ \A n \in nodes : Connected(n, n)
         /\ \A n, m \in nodes : Connected(n, m) => Connected(m, n)
         /\ \A n, m, k \in nodes : Connected(n, m) /\ Connected(m, k) => Connected(n, k)
         /\ \A n \in nodes : \A m \in neighbors(n) : m \in nodes /\ Connected(n, m)
<1>1. \A n \in nodes : Connected(n, n)
  BY ConnectedIs
<1>2. ASSUME NEW n \in nodes, NEW m \in nodes, Connected(n, m) PROVE Connected(m, n)
  <2>1. SUFFICES ASSUME NEW C \in SUBSET nodes, m \in C, Separate(C), n \notin C PROVE FALSE
    BY ConnectedIs
  <2>2. nodes \ C \in SUBSET nodes /\ n \in nodes \ C
    BY <2>1
  <2>3. Separate(nodes \ C)
    <3>1. \A a, b \in nodes : b \in outEdges[a] <=> a \in inEdges[b]
      BY DEF GraphOK
    <3>2. \A a \in nodes : outEdges[a] \subseteq nodes /\ inEdges[a] \subseteq nodes
      BY DEF GraphOK
    <3> QED BY <2>1, <3>1, <3>2 DEF Separate
  <2>4. m \in nodes \ C
    BY <1>2, <2>2, <2>3, ConnectedIs
  <2> QED BY <2>1, <2>4
<1>3. ASSUME NEW n \in nodes, NEW m \in nodes, NEW k \in nodes, Connected(n, m), Connected(m, k)
      PROVE  Connected(n, k)
  BY <1>3, ConnectedIs
<1>4. ASSUME NEW n \in nodes, NEW m \in neighbors(n) PROVE m \in nodes /\ Connected(n, m)
  <2>1. m \in nodes
    BY DEF neighbors, GraphOK
  <2>2. \A C \in SUBSET nodes : n \in C /\ Separate(C) => m \in C
    BY DEF neighbors, Separate
  <2> QED BY <2>1, <2>2, ConnectedIs
<1> QED BY <1>1, <1>2, <1>3, <1>4

\* A component has no edges to other nodes, and two components that meet are the same.
LEMMA ComponentIsSeparate ==
  ASSUME GraphOK, NEW C, IsComponent(C)
  PROVE  Separate(C)
<1>1. C \in SUBSET nodes /\ \A n \in C, m \in nodes : m \in C <=> Connected(n, m)
  BY DEF IsComponent, Connected
<1>2. ASSUME NEW n \in C, NEW m \in neighbors(n) PROVE m \in C
  BY <1>1, <1>2, ConnectedFacts
<1> QED BY <1>1, <1>2 DEF Separate, neighbors

LEMMA ComponentsDisjoint ==
  ASSUME NEW C, NEW D, IsComponent(C), IsComponent(D), C # D
  PROVE  C \cap D = {}
  BY DEF IsComponent

\* A connected set without edges to other nodes is a component.
LEMMA SeparateConnected ==
  ASSUME GraphOK, NEW C \in SUBSET nodes, C # {}, Separate(C), \A n, m \in C : Connected(n, m)
  PROVE  IsComponent(C)
<1>1. ASSUME NEW n \in C PROVE C = Component(AsGraph, n)
  <2>1. \A m \in C : m \in Component(AsGraph, n)
    BY DEF Connected
  <2>2. ASSUME NEW m \in Component(AsGraph, n) PROVE m \in C
    <3>1. Connected(n, m)
      BY DEF Connected
    <3> QED BY <3>1, ConnectedIs
  <2> QED BY <2>1, <2>2
<1> QED BY <1>1 DEF IsComponent

LEMMA ComponentFrame ==
  ASSUME UNCHANGED graphVars
  PROVE  /\ \A n : Component(AsGraph, n)' = Component(AsGraph, n)
         /\ \A n, m : Connected(n, m)' <=> Connected(n, m)
         /\ \A C : IsComponent(C)' <=> IsComponent(C)
         /\ \A C : Separate(C)' <=> Separate(C)
<1>1. UNCHANGED <<nodes, outEdges, inEdges>>
  BY DEF graphVars
<1>2. AsGraph' = AsGraph
  BY <1>1 DEF AsGraph
<1>3. \A n : Component(AsGraph, n)' = Component(AsGraph, n)
  BY <1>2 DEF Component
<1> QED BY <1>1, <1>3 DEF Connected, IsComponent, Separate

(***************************************************************************)
(* Topological walks.                                                      *)
(***************************************************************************)

\* A graph without cycles: every set of nodes has one that references none of them.
LEMMA AcyclicLeaf ==
  ASSUME GraphOK, Acyclic, NEW S \in SUBSET nodes, S # {}
  PROVE  \E n \in S : outEdges[n] \cap S = {}
<1> DEFINE R(n) == {m \in nodes : Reaches(n, m)}
<1>1. nodes \subseteq Nodes
  BY DEF GraphOK
<1>2. PICK Q \in {R(n) : n \in S} : \A P \in {R(n) : n \in S} : P \subseteq Q => P = Q
  <2>1. {R(n) : n \in S} \in SUBSET (SUBSET Nodes) /\ {R(n) : n \in S} # {}
    BY <1>1
  <2> HIDE DEF R
  <2> QED BY <2>1, MinimalSubset
<1>3. PICK n \in S : Q = R(n)
  BY <1>2
<1>4. ASSUME NEW m \in outEdges[n] \cap S PROVE FALSE
  <2>1. Reaches(n, m) /\ m \in nodes
    BY <1>4, ReachesEdge
  <2>2. R(m) \subseteq R(n) /\ m \in R(n)
    BY <2>1, ReachesTrans
  <2>3. R(m) = R(n)
    BY <1>2, <1>3, <1>4, <2>2
  <2>4. Reaches(m, m)
    BY <2>2, <2>3
  <2> QED BY <2>1, <2>4 DEF Acyclic
<1> QED BY <1>4

LEMMA EdgesFinite ==
  ASSUME GraphOK, NEW n \in Nodes, NEW S
  PROVE  /\ IsFiniteSet(outEdges[n] \ S)
         /\ Cardinality(outEdges[n] \ S) \in Nat
         /\ Cardinality(outEdges[n] \ S) <= Cardinality(outEdges[n])
         /\ Cardinality(outEdges[n] \ S) = 0 <=> outEdges[n] \subseteq S
<1>1. outEdges[n] \in SUBSET Nodes
  BY DEF GraphOK
<1>2. IsFiniteSet(outEdges[n])
  BY <1>1, DagAssumption, FS_Subset
<1>3. IsFiniteSet(outEdges[n] \ S) /\ Cardinality(outEdges[n] \ S) <= Cardinality(outEdges[n])
  BY <1>2, FS_Subset
<1>4. Cardinality(outEdges[n] \ S) \in Nat
  BY <1>3, FS_CardinalityType
<1>5. Cardinality(outEdges[n] \ S) = 0 <=> outEdges[n] \ S = {}
  BY <1>3, FS_EmptySet
<1> QED BY <1>3, <1>4, <1>5

LEMMA WalkBegins ==
  ASSUME GraphOK, NEW D \in SUBSET nodes, Separate(D), UNCHANGED graphVars,
         NEW STATE start, start = D \cap Leaves, WalkBegin(start)
  PROVE  OrderOK' /\ Walk(D)'
<1>1. /\ UNCHANGED <<nodes, outEdges, inEdges>>
      /\ order' = <<>> /\ unchecked' = {n \in D : outEdges[n] = {}}
      /\ remaining' = [n \in Nodes |-> Cardinality(outEdges[n])]
  BY DEF graphVars, WalkBegin, Leaves
<1>2. Seen' = {}
  BY <1>1 DEF Seen, Elements
<1>3. \A n \in Nodes : outEdges[n] \ {} = outEdges[n] /\ Cardinality(outEdges[n]) \in Nat
  <2>1. \A n \in Nodes : outEdges[n] \ {} = outEdges[n]
    OBVIOUS
  <2>2. ASSUME NEW n \in Nodes PROVE Cardinality(outEdges[n]) \in Nat
    <3>1. Cardinality(outEdges[n] \ {}) \in Nat
      BY EdgesFinite
    <3> QED BY <2>1, <3>1
  <2> QED BY <2>1, <2>2
<1>4. OrderOK'
  BY <1>1, <1>3 DEF OrderOK
<1>5. Separate(D)'
  BY ComponentFrame
<1>6. unchecked' = {n \in D \ Seen' : outEdges'[n] \subseteq Seen'}
  BY <1>1, <1>2
<1>7. \A n \in Nodes : remaining'[n] = Cardinality(outEdges'[n] \ Seen')
  BY <1>1, <1>2, <1>3
<1> QED BY <1>2, <1>4, <1>5, <1>6, <1>7 DEF Walk

LEMMA WalkSteps ==
  ASSUME GraphOK, OrderOK, NEW D \in SUBSET nodes, Walk(D), UNCHANGED graphVars,
         NEW n \in Nodes, WalkStep(n)
  PROVE  /\ OrderOK' /\ Walk(D)'
         /\ n \in D /\ Len(order) \in Nat /\ Len(order') = Len(order) + 1
         /\ order'[Len(order) + 1] = n /\ n \notin Seen
         /\ \A i \in 1..Len(order) : order'[i] = order[i]
<1>1. /\ UNCHANGED <<nodes, outEdges, inEdges>>
      /\ n \in unchecked /\ n \notin Seen
      /\ order' = Append(order, n) /\ remaining' = DepsLeft(n)
      /\ unchecked' = (unchecked \ {n}) \cup Ready(n)
  BY DEF graphVars, WalkStep, Seen
<1>2. n \in D /\ n \in nodes /\ outEdges[n] \subseteq Seen
  BY <1>1 DEF Walk
<1>3. order \in Seq(nodes) /\ Len(order) \in Nat
  BY DEF OrderOK
<1>4. /\ order' \in Seq(nodes) /\ Len(order') = Len(order) + 1
      /\ order'[Len(order) + 1] = n
      /\ \A i \in 1..Len(order) : order'[i] = order[i]
  BY <1>1, <1>2, <1>3
<1>5. Seen' = Seen \cup {n}
  BY <1>3, <1>4 DEF Seen, Elements
<1>6. \A i \in 1..(Len(order) + 1) : i \in 1..Len(order) \/ i = Len(order) + 1
  BY <1>3
<1>7. \A m \in Nodes : outEdges[m] \in SUBSET nodes /\ (m \in inEdges[n] <=> n \in outEdges[m])
  BY <1>2 DEF GraphOK
<1>8. \A m \in Nodes : remaining'[m] = Cardinality(outEdges[m] \ (Seen \cup {n}))
  <2>1. SUFFICES ASSUME NEW m \in Nodes PROVE remaining'[m] = Cardinality(outEdges[m] \ (Seen \cup {n}))
    OBVIOUS
  <2>2. remaining'[m] = IF n \in outEdges[m] THEN remaining[m] - 1 ELSE remaining[m]
    BY <1>1, <1>7 DEF DepsLeft
  <2>3. remaining[m] = Cardinality(outEdges[m] \ Seen)
    BY DEF Walk
  <2>4. outEdges[m] \ (Seen \cup {n}) = (outEdges[m] \ Seen) \ {n}
    OBVIOUS
  <2>5. n \in outEdges[m] <=> n \in outEdges[m] \ Seen
    BY <1>1
  <2>6. Cardinality((outEdges[m] \ Seen) \ {n}) =
          IF n \in outEdges[m] \ Seen THEN Cardinality(outEdges[m] \ Seen) - 1 ELSE Cardinality(outEdges[m] \ Seen)
    <3>1. IsFiniteSet(outEdges[m] \ Seen)
      BY EdgesFinite
    <3> QED BY <3>1, FS_RemoveElement
  <2> QED BY <2>2, <2>3, <2>4, <2>5, <2>6
<1>9. \A m \in Nodes :
        /\ remaining'[m] \in Nat /\ remaining'[m] <= Cardinality(outEdges[m])
        /\ remaining'[m] = 0 <=> outEdges[m] \subseteq Seen \cup {n}
  <2>1. SUFFICES ASSUME NEW m \in Nodes
                 PROVE  /\ remaining'[m] \in Nat /\ remaining'[m] <= Cardinality(outEdges[m])
                        /\ remaining'[m] = 0 <=> outEdges[m] \subseteq Seen \cup {n}
    OBVIOUS
  <2> DEFINE S == Seen \cup {n}
  <2>2. /\ Cardinality(outEdges[m] \ S) \in Nat
        /\ Cardinality(outEdges[m] \ S) <= Cardinality(outEdges[m])
        /\ Cardinality(outEdges[m] \ S) = 0 <=> outEdges[m] \subseteq S
    <3> HIDE DEF S
    <3> QED BY EdgesFinite
  <2>3. remaining'[m] = Cardinality(outEdges[m] \ S)
    BY <1>8
  <2> QED BY <2>2, <2>3
<1>10. \A m \in Seen : outEdges[m] \subseteq Seen /\ m \in nodes
  <2>1. ASSUME NEW i \in 1..Len(order) PROVE outEdges[order[i]] \subseteq Seen /\ order[i] \in nodes
    <3>1. {order[j] : j \in 1..(i - 1)} \subseteq Seen
      BY <1>3 DEF Seen, Elements
    <3> QED BY <1>3, <3>1 DEF OrderOK
  <2> QED BY <2>1 DEF Seen, Elements
<1>11. unchecked' = {m \in D \ Seen' : outEdges'[m] \subseteq Seen'}
  <2>1. inEdges[n] \subseteq D /\ D \subseteq Nodes
    BY <1>2 DEF Walk, Separate, GraphOK
  <2>2. Ready(n) = {m \in D : n \in outEdges[m] /\ outEdges[m] \subseteq Seen \cup {n}}
    <3>1. Ready(n) = {m \in inEdges[n] : remaining'[m] = 0}
      BY <1>1 DEF Ready
    <3> QED BY <1>7, <1>9, <2>1, <3>1
  <2>3. unchecked = {m \in D \ Seen : outEdges[m] \subseteq Seen}
    BY DEF Walk
  <2>4. \A m \in D : n \in outEdges[m] => m \notin Seen /\ m # n
    BY <1>1, <1>2, <1>10
  <2> QED BY <1>1, <1>5, <2>2, <2>3, <2>4
<1>12. Separate(D)' /\ Seen' \subseteq D
  BY <1>2, <1>5, ComponentFrame DEF Walk
<1>13. Walk(D)'
  <2>1. \A m \in Nodes : remaining'[m] = Cardinality(outEdges'[m] \ Seen')
    BY <1>1, <1>5, <1>8
  <2> QED BY <1>11, <1>12, <2>1 DEF Walk
<1>14. OrderOK'
  <2>1. unchecked' \subseteq nodes'
    BY <1>1, <1>11
  <2>2. remaining' \in [Nodes -> Nat]
    BY <1>1, <1>9 DEF DepsLeft
  <2>3. ASSUME NEW i \in 1..Len(order')
        PROVE  /\ outEdges'[order'[i]] \subseteq {order'[j] : j \in 1..(i - 1)}
               /\ order'[i] \notin {order'[j] : j \in 1..(i - 1)}
    <3>1. {order'[j] : j \in 1..(i - 1)} = {order[j] : j \in 1..(i - 1)}
      <4>1. \A j \in 1..(i - 1) : j \in 1..Len(order)
        BY <1>3, <1>4
      <4> QED BY <1>4, <4>1
    <3>2. CASE i \in 1..Len(order)
      <4>1. order'[i] = order[i]
        BY <1>4, <3>2
      <4> QED BY <1>1, <3>1, <3>2, <4>1 DEF OrderOK
    <3>3. CASE i = Len(order) + 1
      <4>1. order'[i] = n /\ 1..(i - 1) = 1..Len(order)
        BY <1>3, <1>4, <3>3
      <4>2. {order[j] : j \in 1..(i - 1)} = Seen
        BY <4>1 DEF Seen, Elements
      <4> QED BY <1>1, <1>2, <3>1, <4>1, <4>2
    <3> QED BY <1>4, <1>6, <3>2, <3>3
  <2> QED BY <1>1, <1>4, <1>9, <2>1, <2>2, <2>3 DEF OrderOK
<1> QED BY <1>1, <1>2, <1>3, <1>4, <1>13, <1>14

\* A walk that has nothing left to check has visited everything.
LEMMA WalkEnds ==
  ASSUME GraphOK, Acyclic, NEW D, Walk(D), unchecked = {}
  PROVE  Seen = D
<1>1. ASSUME D \ Seen # {} PROVE FALSE
  <2>1. D \ Seen \in SUBSET nodes
    BY DEF Walk, Separate
  <2>2. PICK n \in D \ Seen : outEdges[n] \cap (D \ Seen) = {}
    BY <1>1, <2>1, AcyclicLeaf
  <2>3. outEdges[n] \subseteq D
    BY DEF Walk, Separate
  <2> QED BY <2>2, <2>3 DEF Walk
<1> QED BY <1>1 DEF Walk

(***************************************************************************)
(* The walks keep the invariant.                                           *)
(***************************************************************************)

LEMMA WalkFrame ==
  ASSUME UNCHANGED graphVars, UNCHANGED walkVars
  PROVE  /\ OrderOK => OrderOK'
         /\ \A D : Walk(D)' <=> Walk(D)
<1>1. UNCHANGED <<nodes, outEdges, inEdges>> /\ UNCHANGED <<unchecked, remaining, order>>
  BY DEF graphVars, walkVars
<1>2. Seen' = Seen
  BY <1>1 DEF Seen, Elements
<1>3. ASSUME OrderOK PROVE OrderOK'
  <2>1. ASSUME NEW i \in 1..Len(order')
        PROVE  /\ outEdges'[order'[i]] \subseteq {order'[j] : j \in 1..(i - 1)}
               /\ order'[i] \notin {order'[j] : j \in 1..(i - 1)}
    <3>1. {order'[j] : j \in 1..(i - 1)} = {order[j] : j \in 1..(i - 1)}
      BY <1>1
    <3>2. i \in 1..Len(order) /\ order'[i] = order[i] /\ outEdges' = outEdges
      BY <1>1
    <3>3. /\ outEdges[order[i]] \subseteq {order[j] : j \in 1..(i - 1)}
          /\ order[i] \notin {order[j] : j \in 1..(i - 1)}
      BY <1>3, <3>2 DEF OrderOK
    <3> QED BY <3>1, <3>2, <3>3
  <2>2. /\ order' \in Seq(nodes') /\ unchecked' \subseteq nodes'
        /\ remaining' \in [Nodes -> Nat]
        /\ \A n \in Nodes : remaining'[n] <= Cardinality(outEdges'[n])
    BY <1>1, <1>3 DEF OrderOK
  <2> QED BY <2>1, <2>2 DEF OrderOK
<1>4. \A D : Walk(D)' <=> Walk(D)
  BY <1>1, <1>2, ComponentFrame DEF Walk
<1> QED BY <1>3, <1>4

LEMMA RankedFrame ==
  ASSUME UNCHANGED graphVars, UNCHANGED taskVars
  PROVE  \A n : Ranked(n)' <=> Ranked(n)
<1>1. UNCHANGED outEdges /\ UNCHANGED <<group, rank>>
  BY DEF graphVars, taskVars
<1> QED BY <1>1, ComponentFrame DEF Ranked

LEMMA WalkInitially == Init => WalkInv
<1> SUFFICES ASSUME Init PROVE WalkInv
  OBVIOUS
<1>1. /\ pc = "build" /\ nodes = {} /\ unchecked = {} /\ order = <<>> /\ remaining = [n \in Nodes |-> 0]
      /\ frontier = {} /\ component = {} /\ components = {} /\ outEdges = [n \in Nodes |-> {}]
      /\ group = [n \in Nodes |-> {}] /\ rank = [n \in Nodes |-> 0]
  BY DEF Init
<1>2. OrderOK
  BY <1>1, FS_EmptySet DEF OrderOK
<1>3. WalkPhases /\ WeakInv
  BY <1>1 DEF WalkPhases, WeakInv
<1>4. RankInv
  BY <1>1 DEF RankInv
<1> QED BY <1>2, <1>3, <1>4 DEF WalkInv

\* While the graph is built and validated there is no walk.
LEMMA WalkNotYet ==
  ASSUME WalkInv, TarjanInv', BuildStep \/ ValidateStep
  PROVE  WalkInv'
<1>1. /\ UNCHANGED <<weakVars, walkVars, taskVars>>
      /\ pc \in {"build", "scc"} /\ pc' \in {"build", "scc", "accepted", "rejected"}
      /\ pc' = "build" => pc = "build"
      /\ pc # "build" => UNCHANGED graphVars
      /\ pc' # "build" => UNCHANGED graphVars
  <2>1. CASE BuildStep
    BY <2>1 DEF BuildStep, Add, AddEdge
  <2>2. CASE ValidateStep
    BY <2>2 DEF ValidateStep, ValidateBegin, TarjanReturn, ValidateEnd, TarjanRoot, TarjanSuccessor
  <2> QED BY <2>1, <2>2
<1>2. UNCHANGED <<unseen, frontier, component, components, unchecked, remaining, order, group, rank>>
  BY <1>1 DEF weakVars, walkVars, taskVars
<1>3. unchecked = {} /\ order = <<>> /\ frontier = {} /\ component = {} /\ components = {}
  BY <1>1 DEF WalkInv, WalkPhases, WeakInv
<1>4. OrderOK'
  <2>1. CASE pc = "build"
    <3>1. remaining = [n \in Nodes |-> 0]
      BY <2>1 DEF WalkInv, WalkPhases
    <3>2. \A n \in Nodes : Cardinality(outEdges'[n]) \in Nat
      <4>1. SUFFICES ASSUME NEW n \in Nodes PROVE Cardinality(outEdges'[n]) \in Nat
        OBVIOUS
      <4>2. outEdges'[n] \in SUBSET Nodes
        BY DEF TarjanInv, GraphOK
      <4> QED BY <4>2, DagAssumption, FS_Subset, FS_CardinalityType
    <3> QED BY <1>2, <1>3, <3>1, <3>2 DEF OrderOK
  <2>2. CASE pc # "build"
    BY <1>1, <2>2, WalkFrame DEF WalkInv
  <2> QED BY <2>1, <2>2
<1>5. WalkPhases'
  BY <1>1, <1>2, <1>3 DEF WalkInv, WalkPhases
<1>6. WeakInv'
  BY <1>1, <1>2, <1>3 DEF WeakInv
<1>7. RankInv'
  BY <1>1, <1>2 DEF WalkInv, RankInv
<1> QED BY <1>4, <1>5, <1>6, <1>7 DEF WalkInv

LEMMA EvaluateKeeps ==
  ASSUME WalkInv, GraphOK, EvaluateWalk
  PROVE  WalkInv'
<1>1. /\ UNCHANGED graphVars /\ UNCHANGED weakVars /\ UNCHANGED taskVars
      /\ pc \in {"accepted", "evaluate"} /\ pc' \in {"evaluate", "evaluated"}
  BY DEF EvaluateWalk, EvaluateBegin, EvaluateEnd, EvaluateStep
<1>2. /\ UNCHANGED <<nodes, outEdges, inEdges>>
      /\ UNCHANGED <<unseen, frontier, component, components>> /\ UNCHANGED <<group, rank>>
  BY <1>1 DEF graphVars, weakVars, taskVars
<1>3. WeakInv'
  BY <1>1, <1>2, ComponentFrame DEF WalkInv, WeakInv
<1>4. RankInv'
  BY <1>1, <1>2 DEF WalkInv, RankInv
<1>5. OrderOK' /\ Walk(nodes)' /\ (pc' = "evaluated" => unchecked' = {})
  <2>1. CASE EvaluateBegin
    <3>1. WalkBegin(Leaves) /\ pc' = "evaluate" /\ Leaves = nodes \cap Leaves
      BY <2>1 DEF EvaluateBegin, Leaves
    <3>2. Separate(nodes)
      BY DEF Separate, GraphOK
    <3>3. PICK D \in SUBSET nodes : D = nodes
      OBVIOUS
    <3>4. OrderOK' /\ Walk(D)'
      BY <1>1, <3>1, <3>2, <3>3, WalkBegins
    <3>5. D = nodes'
      BY <1>2, <3>3
    <3>6. Walk(nodes)'
      BY <3>4, <3>5 DEF Walk, Separate
    <3> QED BY <3>1, <3>4, <3>6
  <2>2. ASSUME NEW n \in Nodes, EvaluateStep(n)
        PROVE  OrderOK' /\ Walk(nodes)' /\ (pc' = "evaluated" => unchecked' = {})
    <3>1. WalkStep(n) /\ pc' = pc /\ pc = "evaluate" /\ OrderOK
      BY <2>2 DEF EvaluateStep, WalkInv
    <3>2. PICK D \in SUBSET nodes : D = nodes
      OBVIOUS
    <3>3. Walk(D)
      BY <3>1, <3>2 DEF WalkInv, WalkPhases
    <3>4. OrderOK' /\ Walk(D)'
      BY <1>1, <3>1, <3>3, WalkSteps
    <3>5. D = nodes'
      BY <1>2, <3>2
    <3>6. Walk(nodes)'
      BY <3>4, <3>5 DEF Walk, Separate
    <3> QED BY <3>1, <3>4, <3>6
  <2>3. CASE EvaluateEnd
    <3>1. UNCHANGED walkVars /\ unchecked = {} /\ pc = "evaluate" /\ unchecked' = unchecked
      BY <2>3 DEF EvaluateEnd, walkVars
    <3>2. OrderOK /\ Walk(nodes)
      BY <3>1 DEF WalkInv, WalkPhases
    <3>3. PICK D \in SUBSET nodes : D = nodes
      OBVIOUS
    <3>4. OrderOK' /\ Walk(D)'
      BY <1>1, <3>1, <3>2, <3>3, WalkFrame
    <3>5. D = nodes'
      BY <1>2, <3>3
    <3>6. Walk(nodes)'
      BY <3>4, <3>5 DEF Walk, Separate
    <3> QED BY <3>1, <3>4, <3>6
  <2> QED BY <2>1, <2>2, <2>3 DEF EvaluateWalk
<1>6. WalkPhases'
  BY <1>1, <1>5 DEF WalkPhases
<1> QED BY <1>3, <1>4, <1>5, <1>6 DEF WalkInv

LEMMA SearchSteps ==
  ASSUME SearchInv, GraphOK, UNCHANGED graphVars, NEW n \in Nodes,
         ComponentBegin(n) \/ ComponentStep(n)
  PROVE  SearchInv'
<1>1. UNCHANGED <<nodes, outEdges, inEdges>>
  BY DEF graphVars
<1>2. /\ \A a : neighbors(a)' = neighbors(a)
      /\ \A a, b : Connected(a, b)' <=> Connected(a, b)
      /\ \A C : IsComponent(C)' <=> IsComponent(C)
  BY <1>1, ComponentFrame DEF neighbors
<1>3. CASE ComponentBegin(n)
  <2>1. /\ component = {} /\ frontier = {} /\ n \in unseen
        /\ unseen' = unseen \ {n} /\ frontier' = {n} /\ component' = {} /\ components' = components
    BY <1>3 DEF ComponentBegin
  <2>2. n \in nodes /\ n \notin UNION components
    BY <2>1 DEF SearchInv
  <2>3. Connected(n, n)
    BY <2>2, ConnectedFacts
  <2>4. /\ \A C \in components' : IsComponent(C)'
        /\ component' \subseteq nodes'
        /\ \A a \in component' : neighbors(a)' \subseteq component' \cup frontier'
    BY <1>2, <2>1 DEF SearchInv
  <2>5. nodes' = unseen' \cup frontier' \cup component' \cup UNION components'
    BY <1>1, <2>1, <2>2 DEF SearchInv
  <2>6. /\ unseen' \cap (frontier' \cup component' \cup UNION components') = {}
        /\ component' \cap frontier' = {}
        /\ (frontier' \cup component') \cap UNION components' = {}
    BY <2>1, <2>2 DEF SearchInv
  <2>7. \A a, b \in component' \cup frontier' : Connected(a, b)'
    BY <1>2, <2>1, <2>3
  <2> QED BY <2>4, <2>5, <2>6, <2>7 DEF SearchInv
<1>4. CASE ComponentStep(n)
  <2>1. /\ n \in frontier /\ component' = component \cup {n} /\ components' = components
        /\ frontier' = (frontier \ {n}) \cup (neighbors(n) \cap unseen)
        /\ unseen' = unseen \ neighbors(n)
    BY <1>4 DEF ComponentStep
  <2>2. n \in nodes /\ n \notin unseen /\ n \notin component /\ n \notin UNION components
    BY <2>1 DEF SearchInv
  <2>3. \A m \in neighbors(n) : m \in nodes /\ Connected(n, m)
    BY <2>2, ConnectedFacts
  <2>4. \A m \in neighbors(n) : m \notin UNION components
    <3>1. SUFFICES ASSUME NEW m \in neighbors(n), NEW C \in components, m \in C PROVE FALSE
      OBVIOUS
    <3>2. C = Component(AsGraph, m)
      BY <3>1 DEF SearchInv, IsComponent
    <3>3. Connected(m, n)
      BY <2>2, <2>3, ConnectedFacts
    <3>4. n \in C
      BY <3>2, <3>3 DEF Connected
    <3> QED BY <2>2, <3>4
  <2>5. neighbors(n) \subseteq unseen \cup frontier \cup component
    BY <2>3, <2>4 DEF SearchInv
  <2>6. component' \cup frontier' = component \cup frontier \cup (neighbors(n) \cap unseen)
    BY <2>1
  <2>7. \A C \in components' : IsComponent(C)'
    BY <1>2, <2>1 DEF SearchInv
  <2>8. component' \subseteq nodes'
    BY <1>1, <2>1, <2>2 DEF SearchInv
  <2>9. nodes' = unseen' \cup frontier' \cup component' \cup UNION components'
    BY <1>1, <2>1 DEF SearchInv
  <2>10. unseen' \cap (frontier' \cup component' \cup UNION components') = {}
    BY <2>1, <2>2 DEF SearchInv
  <2>11. component' \cap frontier' = {}
    BY <2>1, <2>2 DEF SearchInv
  <2>12. (frontier' \cup component') \cap UNION components' = {}
    BY <2>1, <2>4, <2>6 DEF SearchInv
  <2>13. \A a \in component' : neighbors(a)' \subseteq component' \cup frontier'
    <3>1. \A a \in component : neighbors(a) \subseteq component' \cup frontier'
      BY <2>6 DEF SearchInv
    <3>2. neighbors(n) \subseteq component' \cup frontier'
      BY <2>5, <2>6
    <3> QED BY <1>2, <2>1, <3>1, <3>2
  <2>14. \A a, b \in component' \cup frontier' : Connected(a, b)'
    <3>1. \A a \in component' \cup frontier' : a \in nodes /\ Connected(n, a)
      BY <2>1, <2>3, <2>6 DEF SearchInv
    <3>2. \A a, b \in component' \cup frontier' : Connected(a, b)
      BY <2>2, <3>1, ConnectedFacts
    <3> QED BY <1>2, <3>2
  <2> QED BY <2>7, <2>8, <2>9, <2>10, <2>11, <2>12, <2>13, <2>14 DEF SearchInv
<1> QED BY <1>3, <1>4

LEMMA SearchFinds ==
  ASSUME SearchInv, GraphOK, UNCHANGED graphVars, ComponentEnd
  PROVE  SearchInv'
<1>1. UNCHANGED <<nodes, outEdges, inEdges>>
  BY DEF graphVars
<1>2. /\ \A C : IsComponent(C)' <=> IsComponent(C)
  BY <1>1, ComponentFrame
<1>3. /\ component # {} /\ frontier = {} /\ components' = components \cup {component} /\ component' = {}
      /\ unseen' = unseen /\ frontier' = frontier
  BY DEF ComponentEnd
<1>4. Separate(component)
  BY <1>3 DEF SearchInv, Separate, neighbors
<1>5. component \in SUBSET nodes /\ \A n, m \in component : Connected(n, m)
  BY DEF SearchInv
<1>6. PICK C : C = component
  OBVIOUS
<1>7. IsComponent(C)
  BY <1>3, <1>4, <1>5, <1>6, SeparateConnected
<1>8. \A B \in components' : IsComponent(B)'
  BY <1>2, <1>3, <1>6, <1>7 DEF SearchInv
<1>9. UNION components' = component \cup UNION components
  BY <1>3
<1>10. nodes' = unseen' \cup frontier' \cup component' \cup UNION components'
  BY <1>1, <1>3, <1>9 DEF SearchInv
<1>11. unseen' \cap (frontier' \cup component' \cup UNION components') = {}
  BY <1>3, <1>9 DEF SearchInv
<1> QED BY <1>3, <1>8, <1>10, <1>11 DEF SearchInv

LEMMA ComponentsKeeps ==
  ASSUME WalkInv, GraphOK, ComponentsWalk
  PROVE  WalkInv'
<1>1. /\ UNCHANGED graphVars /\ UNCHANGED walkVars /\ UNCHANGED taskVars
      /\ pc \in {"accepted", "components"} /\ pc' \in {"components", "ranks"}
  BY DEF ComponentsWalk, ComponentsBegin, ComponentEnd, ComponentsDone, ComponentBegin, ComponentStep
<1>2. /\ UNCHANGED <<nodes, outEdges, inEdges>>
      /\ UNCHANGED <<unchecked, remaining, order>> /\ UNCHANGED <<group, rank>>
  BY <1>1 DEF graphVars, walkVars, taskVars
<1>3. OrderOK'
  BY <1>1, WalkFrame DEF WalkInv
<1>4. unchecked = {} /\ order = <<>>
  BY <1>1 DEF WalkInv, WalkPhases
<1>5. ASSUME pc' = "components", SearchInv' PROVE WalkInv'
  <2>1. WalkPhases'
    BY <1>2, <1>4, <1>5 DEF WalkPhases
  <2>2. WeakInv'
    BY <1>5 DEF WeakInv, SearchInv
  <2>3. RankInv'
    BY <1>2, <1>5 DEF WalkInv, RankInv
  <2> QED BY <1>3, <2>1, <2>2, <2>3 DEF WalkInv
<1>6. ASSUME pc = "components" PROVE SearchInv
  BY <1>6 DEF WalkInv, WeakInv, SearchInv
<1>7. CASE ComponentsBegin
  <2>1. /\ pc = "accepted" /\ pc' = "components" /\ unseen' = nodes
        /\ UNCHANGED <<frontier, component, components>>
    BY <1>7 DEF ComponentsBegin
  <2>2. frontier = {} /\ component = {} /\ components = {}
    BY <2>1 DEF WalkInv, WeakInv
  <2>3. SearchInv'
    BY <1>2, <2>1, <2>2 DEF SearchInv
  <2> QED BY <1>5, <2>1, <2>3
<1>8. ASSUME NEW n \in Nodes, ComponentBegin(n) \/ ComponentStep(n) PROVE WalkInv'
  <2>1. pc = "components" /\ pc' = "components"
    BY <1>8 DEF ComponentBegin, ComponentStep
  <2> QED BY <1>1, <1>5, <1>6, <1>8, <2>1, SearchSteps
<1>9. CASE ComponentEnd
  <2>1. pc = "components" /\ pc' = "components"
    BY <1>9 DEF ComponentEnd
  <2> QED BY <1>1, <1>5, <1>6, <1>9, <2>1, SearchFinds
<1>10. CASE ComponentsDone
  <2>1. /\ pc = "components" /\ unseen = {} /\ frontier = {} /\ component = {} /\ pc' = "ranks"
        /\ UNCHANGED <<unseen, frontier, component, components>>
    BY <1>10 DEF ComponentsDone, weakVars
  <2>2. nodes = UNION components /\ \A C \in components : IsComponent(C)
    BY <1>6, <2>1 DEF SearchInv
  <2>3. WalkPhases'
    BY <1>2, <1>4, <2>1 DEF WalkPhases
  <2>4. WeakInv'
    BY <1>1, <2>1, <2>2, ComponentFrame DEF WeakInv
  <2>5. RankInv'
    BY <1>2, <2>1, <2>2 DEF WalkInv, RankInv
  <2> QED BY <1>3, <2>3, <2>4, <2>5 DEF WalkInv
<1> QED BY <1>7, <1>8, <1>9, <1>10 DEF ComponentsWalk

\* The position at which a walk visits a node ranks it.
LEMMA WalkRanks ==
  ASSUME GraphOK, Acyclic, OrderOK, NEW C, IsComponent(C), Walk(C), unchecked = {},
         \A i \in 1..Len(order) : group[order[i]] = C /\ rank[order[i]] = i - 1
  PROVE  \A n \in C : Ranked(n)
<1> DEFINE L == Len(order)
<1>1. order \in Seq(nodes) /\ L \in Nat /\ order \in [1..L -> nodes]
  BY DEF OrderOK
<1>2. C = {order[i] : i \in 1..L}
  BY WalkEnds DEF Seen, Elements
<1>3. order \in [1..L -> C]
  BY <1>1, <1>2
<1>4. \A i, j \in 1..L : i # j => order[i] # order[j]
  <2>1. ASSUME NEW i \in 1..L, NEW j \in 1..L, j < i PROVE order[i] # order[j]
    <3>1. j \in 1..(i - 1)
      BY <1>1, <2>1
    <3> QED BY <3>1 DEF OrderOK
  <2> QED BY <1>1, <2>1
<1>5. order \in Bijection(1..L, C)
  <2>1. \A i, j \in 1..L : order[i] = order[j] => i = j
    BY <1>4
  <2>2. \A x \in C : \E i \in 1..L : order[i] = x
    BY <1>2
  <2> QED BY <1>3, <2>1, <2>2 DEF Bijection, Injection, IsInjective, Surjection
<1>6. Cardinality(C) = L
  <2>1. ExistsBijection(1..L, C)
    BY <1>5 DEF ExistsBijection
  <2> QED BY <1>1, <2>1, FS_CountingElements
<1>7. {rank[m] : m \in C} = 0..(L - 1)
  <2>1. \A m \in C : rank[m] \in 0..(L - 1)
    BY <1>1, <1>2
  <2>2. ASSUME NEW k \in 0..(L - 1) PROVE k \in {rank[m] : m \in C}
    <3>1. k + 1 \in 1..L /\ (k + 1) - 1 = k
      BY <1>1
    <3>2. order[k + 1] \in C /\ rank[order[k + 1]] = k
      BY <1>2, <3>1
    <3> QED BY <3>2
  <2> QED BY <2>1, <2>2
<1>8. ASSUME NEW n \in C PROVE Ranked(n)
  <2>1. C = Component(AsGraph, n)
    BY DEF IsComponent
  <2>2. PICK i \in 1..L : n = order[i]
    BY <1>2
  <2>3. group[n] = C /\ rank[n] = i - 1
    BY <2>2
  <2>4. ASSUME NEW m \in outEdges[n] PROVE rank[m] < rank[n]
    <3>1. PICK j \in 1..(i - 1) : m = order[j]
      <4>1. outEdges[order[i]] \subseteq {order[j] : j \in 1..(i - 1)}
        BY DEF OrderOK
      <4> QED BY <2>2, <2>4, <4>1
    <3>2. j \in 1..L /\ j < i
      BY <1>1, <3>1
    <3>3. rank[m] = j - 1
      BY <3>1, <3>2
    <3> QED BY <1>1, <2>3, <3>2, <3>3
  <2> QED BY <1>6, <1>7, <2>1, <2>3, <2>4 DEF Ranked
<1> QED BY <1>8

\* A step of the walk of one component leaves the others alone.
LEMMA RankStepsKeep ==
  ASSUME WalkInv, GraphOK, NEW n \in Nodes, RankStep(n)
  PROVE  WalkInv'
<1>1. /\ UNCHANGED graphVars /\ UNCHANGED weakVars /\ pc = "ranks" /\ pc' = "ranks" /\ WalkStep(n)
      /\ group' = [group EXCEPT ![n] = component] /\ rank' = [rank EXCEPT ![n] = Len(order)]
  BY DEF RankStep
<1>2. UNCHANGED <<nodes, outEdges, inEdges>> /\ UNCHANGED <<unseen, frontier, component, components>>
  BY <1>1 DEF graphVars, weakVars
<1>3. component # {}
  BY <1>1 DEF WalkInv, WalkPhases, WalkStep
<1>4. PICK D \in SUBSET nodes : D = component
  BY DEF WalkInv, WeakInv
<1>5. OrderOK /\ Walk(D) /\ D # {}
  BY <1>1, <1>3, <1>4 DEF WalkInv, WalkPhases
<1>6. /\ OrderOK' /\ Walk(D)'
      /\ n \in D /\ Len(order) \in Nat /\ Len(order') = Len(order) + 1
      /\ order'[Len(order) + 1] = n /\ n \notin Seen
      /\ \A i \in 1..Len(order) : order'[i] = order[i]
  BY <1>1, <1>5, WalkSteps
<1>7. WalkPhases'
  BY <1>1, <1>2, <1>4, <1>5, <1>6 DEF WalkPhases
<1>8. WeakInv'
  BY <1>1, <1>2, ComponentFrame DEF WalkInv, WeakInv
<1>9. /\ rank \in [Nodes -> Nat] /\ group \in [Nodes -> SUBSET Nodes] /\ D \in SUBSET Nodes
      /\ IsComponent(D) /\ D \cap UNION components = {}
      /\ \A i \in 1..Len(order) : group[order[i]] = D /\ rank[order[i]] = i - 1
      /\ \A m \in nodes \ (D \cup UNION components) : Ranked(m)
  BY <1>1, <1>3, <1>4 DEF WalkInv, RankInv, GraphOK
<1>10. /\ rank' \in [Nodes -> Nat] /\ group' \in [Nodes -> SUBSET Nodes]
       /\ group'[n] = D /\ rank'[n] = Len(order)
       /\ \A m \in Nodes : m # n => group'[m] = group[m] /\ rank'[m] = rank[m]
  BY <1>1, <1>4, <1>6, <1>9
<1>11. ASSUME NEW i \in 1..Len(order') PROVE group'[order'[i]] = D /\ rank'[order'[i]] = i - 1
  <2>1. CASE i \in 1..Len(order)
    <3>1. order'[i] = order[i] /\ order[i] \in Seen /\ order[i] \in Nodes
      BY <1>5, <1>6, <2>1 DEF Seen, Elements, OrderOK, GraphOK
    <3> QED BY <1>6, <1>9, <1>10, <2>1, <3>1
  <2>2. CASE i = Len(order) + 1
    BY <1>6, <1>10, <2>2
  <2> QED BY <1>6, <2>1, <2>2
<1>12. ASSUME NEW m \in nodes \ (D \cup UNION components) PROVE Ranked(m)'
  <2>1. m \in Nodes /\ n \in nodes /\ Ranked(m)
    BY <1>6, <1>9 DEF GraphOK
  <2>2. ~Connected(m, n)
    <3>1. ~Connected(n, m)
      BY <1>6, <1>9 DEF IsComponent, Connected
    <3> QED BY <2>1, <3>1, ConnectedFacts
  <2>3. n \notin Component(AsGraph, m) /\ n \notin outEdges[m] /\ m # n
    <3>1. n \notin neighbors(m)
      BY <2>2, ConnectedFacts
    <3> QED BY <1>6, <2>2, <3>1 DEF Connected, neighbors
  <2>4. Component(AsGraph, m) \subseteq Nodes /\ outEdges[m] \subseteq Nodes
    BY <2>1 DEF Component, AsGraph, GraphOK
  <2>5. Component(AsGraph, m)' = Component(AsGraph, m)
    BY <1>1, ComponentFrame
  <2>6. PICK K \in SUBSET Nodes : K = Component(AsGraph, m)
    BY <2>4
  <2>7. {rank'[x] : x \in K} = {rank[x] : x \in K}
    BY <1>10, <2>3, <2>6
  <2>8. group'[m] = K
    BY <1>10, <2>1, <2>3, <2>6 DEF Ranked
  <2>9. {rank'[x] : x \in K} = 0..(Cardinality(K) - 1)
    BY <2>1, <2>6, <2>7 DEF Ranked
  <2>10. \A x \in outEdges'[m] : rank'[x] < rank'[m]
    BY <1>2, <1>10, <2>1, <2>3, <2>4 DEF Ranked
  <2> QED BY <2>5, <2>6, <2>8, <2>9, <2>10 DEF Ranked
<1>13. RankInv'
  <2>1. IsComponent(component)'
    <3>1. IsComponent(D)' /\ D = component'
      BY <1>1, <1>2, <1>4, <1>9, ComponentFrame
    <3> QED BY <3>1 DEF IsComponent
  <2>2. component' \cap UNION components' = {}
    BY <1>2, <1>4, <1>9
  <2>3. \A i \in 1..Len(order') : group'[order'[i]] = component' /\ rank'[order'[i]] = i - 1
    BY <1>2, <1>4, <1>11
  <2>4. \A m \in nodes' \ (component' \cup UNION components') : Ranked(m)'
    BY <1>2, <1>4, <1>12
  <2> QED BY <1>1, <1>10, <2>1, <2>2, <2>3, <2>4 DEF RankInv
<1> QED BY <1>6, <1>7, <1>8, <1>13 DEF WalkInv

LEMMA RanksKeeps ==
  ASSUME WalkInv, GraphOK, Acyclic, RanksWalk
  PROVE  WalkInv'
<1>1. ASSUME NEW C \in components, RankBegin(C) PROVE WalkInv'
  <2>1. /\ UNCHANGED graphVars /\ pc = "ranks" /\ pc' = "ranks" /\ component = {}
        /\ component' = C /\ components' = components \ {C} /\ WalkBegin(C \cap Leaves)
        /\ UNCHANGED taskVars
    BY <1>1 DEF RankBegin
  <2>2. UNCHANGED <<nodes, outEdges, inEdges>> /\ UNCHANGED <<group, rank>>
    BY <2>1 DEF graphVars, taskVars
  <2>3. IsComponent(C) /\ C \in SUBSET nodes /\ C # {}
    BY <1>1 DEF WalkInv, WeakInv, IsComponent
  <2>4. Separate(C)
    BY <2>3, ComponentIsSeparate
  <2>5. OrderOK' /\ Walk(C)'
    BY <2>1, <2>3, <2>4, WalkBegins
  <2>6. order' = <<>>
    BY <2>1 DEF WalkBegin
  <2>7. WalkPhases'
    BY <2>1, <2>3, <2>5 DEF WalkPhases
  <2>8. \A B \in components : IsComponent(B)
    BY DEF WalkInv, WeakInv
  <2>9. WeakInv'
    <3>1. \A B \in components' : IsComponent(B)'
      BY <2>1, <2>8, ComponentFrame
    <3> QED BY <2>1, <2>2, <2>3, <3>1 DEF WeakInv
  <2>10. C \cap UNION (components \ {C}) = {}
    BY <2>3, <2>8, ComponentsDisjoint
  <2>11. UNION components = C \cup UNION (components \ {C})
    BY <1>1
  <2>12. RankInv'
    <3>1. rank' \in [Nodes -> Nat] /\ group' \in [Nodes -> SUBSET Nodes]
      BY <2>2 DEF WalkInv, RankInv
    <3>2. IsComponent(component)'
      <4>1. IsComponent(C)' /\ C = component'
        BY <2>1, <2>3, ComponentFrame
      <4> QED BY <4>1 DEF IsComponent
    <3>3. component' \cap UNION components' = {}
      BY <2>1, <2>10
    <3>4. \A i \in 1..Len(order') : group'[order'[i]] = component' /\ rank'[order'[i]] = i - 1
      BY <2>6
    <3>5. \A m \in nodes \ UNION components : Ranked(m)
      BY <2>1 DEF WalkInv, RankInv
    <3>6. component' \cup UNION components' = UNION components
      BY <2>1, <2>11
    <3>7. \A m \in nodes' \ (component' \cup UNION components') : Ranked(m)'
      BY <2>1, <2>2, <3>5, <3>6, RankedFrame
    <3> QED BY <2>1, <3>1, <3>2, <3>3, <3>4, <3>7 DEF RankInv
  <2> QED BY <2>5, <2>7, <2>9, <2>12 DEF WalkInv
<1>2. ASSUME NEW n \in Nodes, RankStep(n) PROVE WalkInv'
  BY <1>2, RankStepsKeep
<1>3. CASE RankEnd
  <2>1. /\ UNCHANGED graphVars /\ UNCHANGED walkVars /\ UNCHANGED taskVars
        /\ pc = "ranks" /\ pc' = "ranks" /\ component # {} /\ unchecked = {} /\ component' = {}
        /\ components' = components /\ unchecked' = {}
    BY <1>3 DEF RankEnd, walkVars
  <2>2. UNCHANGED <<nodes, outEdges, inEdges>> /\ UNCHANGED <<group, rank>> /\ order' = order
    BY <2>1 DEF graphVars, taskVars, walkVars
  <2>3. PICK C \in SUBSET nodes : C = component
    BY DEF WalkInv, WeakInv
  <2>4. /\ OrderOK /\ IsComponent(C) /\ Walk(C)
        /\ \A i \in 1..Len(order) : group[order[i]] = C /\ rank[order[i]] = i - 1
        /\ \A m \in nodes \ (C \cup UNION components) : Ranked(m)
    BY <2>1, <2>3 DEF WalkInv, WalkPhases, RankInv
  <2>5. \A n \in C : Ranked(n)
    BY <2>1, <2>4, WalkRanks
  <2>6. OrderOK'
    BY <2>1, <2>4, WalkFrame
  <2>7. WalkPhases'
    BY <2>1 DEF WalkPhases
  <2>8. WeakInv'
    BY <2>1, ComponentFrame DEF WalkInv, WeakInv
  <2>9. \A m \in nodes \ UNION components : Ranked(m)
    BY <2>4, <2>5
  <2>10. \A m \in nodes' \ (component' \cup UNION components') : Ranked(m)'
    BY <2>1, <2>2, <2>9, RankedFrame
  <2>11. RankInv'
    BY <2>1, <2>2, <2>10 DEF WalkInv, RankInv
  <2> QED BY <2>6, <2>7, <2>8, <2>11 DEF WalkInv
<1>4. CASE RanksDone
  <2>1. /\ UNCHANGED graphVars /\ UNCHANGED walkVars /\ UNCHANGED taskVars /\ UNCHANGED weakVars
        /\ pc = "ranks" /\ pc' = "scheduled" /\ component = {} /\ components = {}
    BY <1>4 DEF RanksDone
  <2>2. UNCHANGED <<nodes, outEdges, inEdges>> /\ UNCHANGED <<group, rank>> /\ UNCHANGED <<component, components>>
    BY <2>1 DEF graphVars, taskVars, weakVars
  <2>3. OrderOK'
    BY <2>1, WalkFrame DEF WalkInv
  <2>4. WalkPhases'
    BY <2>1 DEF WalkPhases
  <2>5. WeakInv'
    BY <2>1, <2>2 DEF WeakInv
  <2>6. \A n \in nodes : Ranked(n)
    BY <2>1 DEF WalkInv, RankInv
  <2>7. \A n \in nodes' : Ranked(n)'
    BY <2>1, <2>2, <2>6, RankedFrame
  <2>8. RankInv'
    BY <2>1, <2>2, <2>7 DEF WalkInv, RankInv
  <2> QED BY <2>3, <2>4, <2>5, <2>8 DEF WalkInv
<1> QED BY <1>1, <1>2, <1>3, <1>4 DEF RanksWalk

LEMMA WalkKeeps == TarjanInv /\ Verdict /\ WalkInv /\ TarjanInv' /\ [Next]_vars => WalkInv'
<1> SUFFICES ASSUME TarjanInv, Verdict, WalkInv, TarjanInv', [Next]_vars PROVE WalkInv'
  OBVIOUS
<1>1. GraphOK
  BY DEF TarjanInv
<1>2. CASE BuildStep \/ ValidateStep
  BY <1>2, WalkNotYet
<1>3. CASE EvaluateWalk
  BY <1>1, <1>3, EvaluateKeeps
<1>4. CASE ComponentsWalk
  BY <1>1, <1>4, ComponentsKeeps
<1>5. CASE RanksWalk
  <2>1. pc = "ranks"
    BY <1>5 DEF RanksWalk, RankEnd, RanksDone, RankBegin, RankStep
  <2>2. Acyclic
    BY <2>1, Finds DEF Verdict
  <2> QED BY <1>1, <1>5, <2>2, RanksKeeps
<1>6. CASE UNCHANGED vars
  <2>1. /\ UNCHANGED graphVars /\ UNCHANGED walkVars /\ UNCHANGED taskVars
        /\ UNCHANGED <<nodes, outEdges, inEdges>> /\ UNCHANGED <<unchecked, remaining, order>>
        /\ UNCHANGED <<unseen, frontier, component, components>> /\ UNCHANGED <<group, rank>> /\ pc' = pc
    BY <1>6 DEF vars, graphVars, walkVars, taskVars
  <2>2. OrderOK'
    BY <2>1, WalkFrame DEF WalkInv
  <2>3. WalkPhases'
    <3>1. PICK N : N = nodes
      OBVIOUS
    <3>2. PICK C : C = component
      OBVIOUS
    <3>3. (Walk(N)' <=> Walk(N)) /\ (Walk(C)' <=> Walk(C))
      BY <2>1, WalkFrame
    <3>4. (Walk(nodes)' <=> Walk(nodes)) /\ (Walk(component)' <=> Walk(component))
      BY <2>1, <3>1, <3>2, <3>3 DEF Walk, Separate
    <3> QED BY <2>1, <3>4 DEF WalkInv, WalkPhases
  <2>4. WeakInv'
    <3>1. \A a : neighbors(a)' = neighbors(a)
      BY <2>1 DEF neighbors
    <3> QED BY <2>1, <3>1, ComponentFrame DEF WalkInv, WeakInv, SearchInv
  <2>5. RankInv'
    <3>1. PICK C : C = component
      OBVIOUS
    <3>2. IsComponent(C)' <=> IsComponent(C)
      BY <2>1, ComponentFrame
    <3>3. IsComponent(component)' <=> IsComponent(component)
      BY <2>1, <3>1, <3>2 DEF IsComponent
    <3> QED BY <2>1, <3>3, RankedFrame DEF WalkInv, RankInv
  <2> QED BY <2>2, <2>3, <2>4, <2>5 DEF WalkInv
<1>7. CASE Finished
  BY <1>6, <1>7 DEF Finished
<1> QED BY <1>2, <1>3, <1>4, <1>5, <1>6, <1>7 DEF Next

LEMMA WalkAlways == Spec => [](TarjanInv /\ Verdict /\ WalkInv)
<1>1. Init => WalkInv
  BY WalkInitially
<1>2. TarjanInv /\ Verdict /\ WalkInv /\ [Next]_vars => WalkInv'
  BY TarjanKeeps, WalkKeeps
<1> QED BY <1>1, <1>2, TarjanAlways, PTL DEF Spec

\* Types, and the two edge maps of a graph (dag/dag.go) mirror each other at every
\* moment, so that the walks along either of them see the same graph.
THEOREM TypeCorrect == Spec => []TypeOK
<1>1. TarjanInv /\ WalkInv => TypeOK
  <2> SUFFICES ASSUME TarjanInv, WalkInv PROVE TypeOK
    OBVIOUS
  <2>1. GraphOK /\ stack \in Seq(nodes) /\ OrderOK
    BY DEF TarjanInv, TarjanTypes, WalkInv
  <2>2. \A n \in Nodes : remaining[n] \in 0..Cardinality(outEdges[n])
    <3>1. SUFFICES ASSUME NEW n \in Nodes PROVE remaining[n] \in 0..Cardinality(outEdges[n])
      OBVIOUS
    <3>2. Cardinality(outEdges[n]) \in Nat
      <4>1. outEdges[n] \in SUBSET Nodes
        BY <2>1 DEF GraphOK
      <4> QED BY <4>1, DagAssumption, FS_Subset, FS_CardinalityType
    <3>3. remaining[n] \in Nat /\ remaining[n] <= Cardinality(outEdges[n])
      BY <2>1 DEF OrderOK
    <3> QED BY <3>2, <3>3
  <2> QED BY <2>1, <2>2 DEF TypeOK, GraphOK, OrderOK
<1> QED BY <1>1, WalkAlways, PTL

\* WalkTopological calls fn once for a node, after the nodes it references, and an
\* evaluation leaves no node of an accepted graph out: where it ends without ready
\* nodes there is none left, because a graph without cycles always has one.
THEOREM EvaluatesInOrderHolds == Spec => []EvaluatesInOrder
<1>1. TarjanInv /\ Verdict /\ WalkInv => EvaluatesInOrder
  <2> SUFFICES ASSUME TarjanInv, Verdict, WalkInv PROVE EvaluatesInOrder
    OBVIOUS
  <2>1. ASSUME pc = "evaluated" PROVE Elements(order) = nodes
    <3>1. Walk(nodes) /\ unchecked = {}
      BY <2>1 DEF WalkInv, WalkPhases
    <3>2. Acyclic /\ GraphOK
      BY <2>1, Finds DEF Verdict, TarjanInv
    <3>3. Seen = nodes
      BY <3>1, <3>2, WalkEnds
    <3> QED BY <3>3 DEF Seen
  <2>2. OrderOK
    BY DEF WalkInv
  <2> QED BY <2>1, <2>2 DEF OrderOK, EvaluatesInOrder
<1> QED BY <1>1, WalkAlways, PTL

\* The groups and ranks the scheduler computes from a graph (desiredTasksFromGraph) are its connected components and a numbering of each of
\* them from the leaves: what module Scheduler takes for granted.
THEOREM GroupsAndRanksExact == Spec => []GroupsAndRanksAreExact
<1>1. TarjanInv /\ WalkInv => GroupsAndRanksAreExact
  <2> SUFFICES ASSUME TarjanInv, WalkInv, pc = "scheduled"
               PROVE  /\ \A n \in nodes : group[n] = Component(AsGraph, n)
                      /\ [n \in nodes |-> rank[n]] \in TopologicalRanks(AsGraph)
    BY DEF GroupsAndRanksAreExact
  <2>1. GraphOK /\ rank \in [Nodes -> Nat] /\ \A n \in nodes : Ranked(n)
    BY DEF TarjanInv, WalkInv, RankInv
  <2> DEFINE r == [n \in nodes |-> rank[n]]
             K(n) == Component(AsGraph, n)
  <2>2. AsGraph.nodes = nodes /\ AsGraph.edges = {e \in nodes \X nodes : e[2] \in outEdges[e[1]]}
    BY DEF AsGraph
  <2>3. \A n \in nodes : K(n) \in SUBSET nodes /\ n \in K(n)
    BY <2>1, <2>2, ConnectedFacts DEF Component, Connected
  <2>4. nodes \in SUBSET Nodes /\ IsFiniteSet(nodes) /\ Cardinality(nodes) \in Nat
    BY <2>1, DagAssumption, FS_Subset, FS_CardinalityType DEF GraphOK
  <2>5. ASSUME NEW n \in nodes PROVE rank[n] \in 0..(Cardinality(nodes) - 1)
    <3>1. rank[n] \in 0..(Cardinality(K(n)) - 1)
      <4>1. rank[n] \in {rank[m] : m \in K(n)}
        BY <2>3
      <4> QED BY <2>1, <4>1 DEF Ranked
    <3>2. Cardinality(K(n)) \in Nat /\ Cardinality(K(n)) <= Cardinality(nodes)
      BY <2>3, <2>4, FS_Subset, FS_CardinalityType
    <3> HIDE DEF K
    <3> QED BY <2>4, <3>1, <3>2
  <2>6. r \in [nodes -> 0..(Cardinality(nodes) - 1)]
    BY <2>5
  <2>7. ASSUME NEW e \in AsGraph.edges PROVE r[e[2]] < r[e[1]]
    BY <2>1, <2>2 DEF Ranked
  <2>8. ASSUME NEW n \in nodes PROVE {r[m] : m \in K(n)} = 0..(Cardinality(K(n)) - 1)
    <3>1. {r[m] : m \in K(n)} = {rank[m] : m \in K(n)}
      BY <2>3
    <3> QED BY <2>1, <3>1 DEF Ranked
  <2>9. r \in TopologicalRanks(AsGraph)
    BY <2>2, <2>6, <2>7, <2>8 DEF TopologicalRanks
  <2> QED BY <2>1, <2>9 DEF Ranked
<1> QED BY <1>1, WalkAlways, PTL
=============================================================================
