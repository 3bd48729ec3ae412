------------------------ MODULE EventPipelineProofs ------------------------
(***************************************************************************)
(* Theorems about EventPipeline, for all settings, trees, events, threads,   *)
(* intervals and numbers of starts.  In this order:                          *)
(*                                                                         *)
(*   - the trees, by the lemmas of TriggerTreeProofs about trees of any kind  *)
(*     (nothing here uses what it says of TriggerEvaluation);                *)
(*   - HandlerInv, the types of the variables, and that every step of         *)
(*     handle_event keeps them;                                            *)
(*   - StepKinds, the steps by what they do to the thread that takes them:    *)
(*     what the later invariants need to know of them;                       *)
(*   - AgesAgree, which relates the resolver's and the tracker's memory to    *)
(*     what really happened, and ArgsFit, what args may be;                 *)
(*   - silent mode's collector and its cap;                                  *)
(*   - one section per property, with the invariant it rests on; the last of  *)
(*     them, OvershootBounded, needs sums over finite sets (the fold of       *)
(*     Functions.tla), what the reaction trees are worth by them, and what    *)
(*     a thread may still do, before the invariant of one or two threads.    *)
(***************************************************************************)
EXTENDS EventPipeline, TriggerTreeProofs, FiniteSetTheorems

\* The places of handle_event.
Labels == {"idle", "collect", "count", "resolve", "stamp", "execute", "add"}

\* NoEvent is an event, and every event of a thread has its name among EventNames.
LEMMA KnownEvents ==
    /\ NoEvent \in Events
    /\ \A t \in Threads : Inputs[t] \subseteq Events
    /\ \A e \in Events : e.name \in EventNames
<1>1. \A t \in Threads : Inputs[t] \subseteq Events
  BY DEF Events
<1>2. Events # {}
  BY <1>1, PipelineAssumption
<1> QED BY <1>1, <1>2 DEF NoEvent, EventNames

-----------------------------------------------------------------------------
(* Trigger trees for one event *)

\* The results of the leaves, by node and args.
LeafResults(e, last) ==
    [p \in Nodes \X ArgsValues |-> LeafValue(Node[p[1]].leaf, p[2], e, last)]
IsLeafNode(n) == Node[n].kind = "leaf"
BelowNode == BelowOf(Node)

LEMMA NodeKinds ==
    ASSUME NEW n \in Nodes
    PROVE  \/ Normalized(Node[n].kind) = "and" /\ Node[n].kids \in Seq(Nodes)
           \/ Normalized(Node[n].kind) = "or" /\ Node[n].kids \in Seq(Nodes)
           \/ Normalized(Node[n].kind) = "not" /\ Node[n].kid \in Nodes \cup {NoNode}
           \/ Normalized(Node[n].kind) = "leaf" /\ IsLeafNode(n)
BY SettingsAssumption, TreeKinds DEF IsLeafNode

LEMMA NodesFounded ==
    /\ Founded(Nodes, BelowNode)
    /\ \A n \in Nodes : BelowNode[n] \subseteq Nodes
    /\ \A n \in Nodes : Normalized(Node[n].kind) \in {"and", "or"} =>
            \A k \in 1..Len(Node[n].kids) : Node[n].kids[k] \in BelowNode[n]
    /\ \A n \in Nodes : Normalized(Node[n].kind) = "not" /\ Node[n].kid # NoNode =>
            Node[n].kid \in BelowNode[n]
BY SettingsAssumption, TreeFounded DEF BelowNode

\* An event of a thread is typed.
LEMMA EventTypes ==
    ASSUME NEW e \in Events
    PROVE  e.user \in Users \cup {NoUser} /\ e.message.starts \subseteq Commands
BY PipelineAssumption DEF Events, Message

\* The results of the leaves for an event: typed, and they leave args alone or put the
\* command of a leaf that matches there, if there were none.
LEMMA LeafResultsType ==
    ASSUME NEW e \in Events, NEW last, NEW n \in Nodes, IsLeafNode(n), NEW a \in ArgsValues
    PROVE  LET r == LeafResults(e, last)[<<n, a>>]
           IN  /\ r = LeafValue(Node[n].leaf, a, e, last)
               /\ r \in Results
               /\ r.args = a \/ (a = NoArgs /\ r.args \in e.message.starts)
<1> DEFINE leaf == Node[n].leaf
           r == LeafValue(leaf, a, e, last)
<1>1. /\ leaf.type \in {"command", "compare", "below", "time", "new_chatter", "follow", "role"}
      /\ leaf.type = "command" => leaf.command \in Commands
  BY SettingsAssumption DEF IsLeafNode
<1>2. LeafResults(e, last)[<<n, a>>] = r
  BY DEF LeafResults
<1> HIDE DEF leaf
<1>3. CASE leaf.type = "command"
  <2>1. r = MatchCommand(leaf, e.message, a)
    BY <1>3 DEF LeafValue
  <2>2. CASE leaf.command \in e.message.starts
    <3>1. r = [holds |-> TRUE, args |-> IF a = NoArgs THEN leaf.command ELSE a]
      BY <2>1, <2>2 DEF MatchCommand, Inject
    <3>2. r \in Results /\ (r.args = a \/ (a = NoArgs /\ r.args \in e.message.starts))
      BY <1>1, <1>3, <2>2, <3>1 DEF Results, ArgsValues
    <3> QED BY <1>2, <3>2 DEF leaf
  <2>3. CASE leaf.command \notin e.message.starts
    <3>1. r = [holds |-> FALSE, args |-> a]
      BY <2>1, <2>3 DEF MatchCommand
    <3>2. r \in Results /\ r.args = a
      BY <3>1 DEF Results
    <3> QED BY <1>2, <3>2 DEF leaf
  <2> QED BY <2>2, <2>3
<1>4. CASE leaf.type # "command"
  <2>1. \E h \in BOOLEAN : r = [holds |-> h, args |-> a]
    <3>1. CASE leaf.type = "compare"
      BY <3>1 DEF LeafValue, MatchCompare
    <3>2. CASE leaf.type = "below"
      BY <3>2 DEF LeafValue, MatchBelow
    <3>3. CASE leaf.type = "time"
      BY <3>3 DEF LeafValue, AtLeast
    <3>4. CASE leaf.type = "new_chatter"
      BY <3>4 DEF LeafValue, IsNew
    <3>5. CASE leaf.type = "follow"
      BY <3>5 DEF LeafValue
    <3>6. CASE leaf.type = "role"
      BY <3>6 DEF LeafValue, MatchesRoles
    <3> QED BY <1>1, <1>4, <3>1, <3>2, <3>3, <3>4, <3>5, <3>6
  <2>2. r \in Results /\ r.args = a
    BY <2>1 DEF Results
  <2> QED BY <1>2, <2>2 DEF leaf
<1> QED BY <1>3, <1>4

\* What evaluate_when makes of the nodes for an event.
WhenResults(e, last) ==
    CHOOSE E : E = [p \in Nodes \X (Commands \cup {NoArgs}) |->
        AtNode(Node[p[1]], p[2], E, LAMBDA leaf, b : LeafValue(leaf, b, e, last))]

ResultOf(E, root, a) == IF root = NoNode THEN [holds |-> TRUE, args |-> a] ELSE E[<<root, a>>]

\* The resolver and the engine evaluate trees so.
LEMMA WhenTrees ==
    ASSUME NEW t
    PROVE  /\ Result(t) = ResultOf(WhenResults(event[t], since[Triggers[at[t]].name]),
                                   Triggers[at[t]].when, args[t])
           /\ Condition(t) = ResultOf(WhenResults(event[t], Never), Top(t).when, args[t])
BY DEF Result, Condition, EvaluateWhen, WhenResults, ResultOf

LEMMA WhenEvaluates ==
    ASSUME NEW e \in Events, NEW last
    PROVE  Evaluates(Node, WhenResults(e, last), LeafResults(e, last))
<1> DEFINE V == LeafResults(e, last)
           G == WhenResults(e, last)
           At(p, E) == AtNode(Node[p[1]], p[2], E, LAMBDA leaf, b : LeafValue(leaf, b, e, last))
<1>1. ASSUME NEW p \in Nodes \X ArgsValues, NEW E
      PROVE  At(p, E) = NodeResult(Node, p[1], p[2], E, V)
  <2>1. V[<<p[1], p[2]>>] = LeafValue(Node[p[1]].leaf, p[2], e, last)
    BY DEF LeafResults
  <2> HIDE DEF V
  <2> QED BY <2>1 DEF AtNode, NodeResult
<1> HIDE DEF V
<1>2. \A E : [p \in Nodes \X ArgsValues |-> At(p, E)]
              = [p \in Nodes \X ArgsValues |-> NodeResult(Node, p[1], p[2], E, V)]
  <2> HIDE DEF At
  <2> QED BY <1>1
<1>3. WellFormed(Node) /\ LeavesTyped(Node, V)
  BY LeafResultsType, SettingsAssumption DEF LeavesTyped, V, IsLeafNode
<1>4. PICK E : Evaluates(Node, E, V)
  BY <1>3, Evaluable
<1>5. E = [p \in Nodes \X ArgsValues |-> NodeResult(Node, p[1], p[2], E, V)]
  BY <1>4 DEF Evaluates, Evaluations
<1>6. E = [p \in Nodes \X ArgsValues |-> At(p, E)]
  BY <1>2, <1>5
<1>7. G = [p \in Nodes \X ArgsValues |-> At(p, G)]
  BY <1>6 DEF WhenResults, ArgsValues
<1> HIDE DEF G, At
<1>8. G = [p \in Nodes \X ArgsValues |-> NodeResult(Node, p[1], p[2], G, V)]
  BY <1>2, <1>7
<1>9. Evaluates(Node, G, V)
  BY <1>3, <1>8, SolutionEvaluates
<1> QED BY <1>9 DEF G, V

\* The leaves that each node requires.
RequiredBy == CHOOSE R : R = [n \in Nodes |-> RequiredAt(n, R)]

LEMMA RequiredUnfolds ==
    /\ \A n \in Nodes : RequiredBy[n] = RequiredAt(n, RequiredBy)
    /\ \A root : Required(root) = IF root = NoNode THEN {} ELSE RequiredBy[root]
<1> DEFINE Sets == SUBSET {Node[n].leaf : n \in Nodes}
           B == [x \in Nodes \X [Nodes -> Sets] |-> RequiredAt(x[1], x[2])]
<1>1. \A n \in Nodes : \A R \in [Nodes -> Sets] : B[<<n, R>>] = RequiredAt(n, R)
  OBVIOUS
<1>2. ASSUME NEW n \in Nodes, NEW R \in [Nodes -> Sets]
      PROVE  RequiredAt(n, R) \in Sets
  <2>1. CASE Node[n].kind = "leaf"
    BY <2>1 DEF RequiredAt, Normalized
  <2>2. CASE Normalized(Node[n].kind) = "and"
    <3>1. /\ DOMAIN Node[n].kids = 1..Len(Node[n].kids)
          /\ \A k \in 1..Len(Node[n].kids) : Node[n].kids[k] \in Nodes
      BY <2>2, NodeKinds, LenProperties, ElementOfSeq
    <3>2. \A k \in DOMAIN Node[n].kids : R[Node[n].kids[k]] \in Sets
      BY <3>1
    <3>3. UNION {R[Node[n].kids[k]] : k \in DOMAIN Node[n].kids} \in Sets
      BY <3>2
    <3>4. Node[n].kind # "leaf"
      BY <2>2 DEF Normalized
    <3> QED BY <2>2, <3>3, <3>4 DEF RequiredAt
  <2>3. CASE Node[n].kind # "leaf" /\ Normalized(Node[n].kind) # "and"
    BY <2>3 DEF RequiredAt
  <2> QED BY <2>1, <2>2, <2>3
<1>3. ASSUME NEW n \in Nodes, NEW R \in [Nodes -> Sets], NEW Q \in [Nodes -> Sets],
             \A m \in BelowNode[n] : R[m] = Q[m]
      PROVE  RequiredAt(n, R) = RequiredAt(n, Q)
  <2>1. CASE Normalized(Node[n].kind) = "and"
    <3>1. \A k \in DOMAIN Node[n].kids : R[Node[n].kids[k]] = Q[Node[n].kids[k]]
      BY <1>3, <2>1, NodeKinds, NodesFounded, LenProperties
    <3>2. UNION {R[Node[n].kids[k]] : k \in DOMAIN Node[n].kids}
          = UNION {Q[Node[n].kids[k]] : k \in DOMAIN Node[n].kids}
      BY <3>1
    <3> QED BY <3>2 DEF RequiredAt
  <2>2. CASE Normalized(Node[n].kind) # "and"
    BY <2>2 DEF RequiredAt
  <2> QED BY <2>1, <2>2
<1>4. \E R \in [Nodes -> Sets] : \A n \in Nodes : R[n] = B[<<n, R>>]
  <2> HIDE DEF B
  <2>1. Sets # {} /\ Founded(Nodes, BelowNode) /\ \A n \in Nodes : BelowNode[n] \subseteq Nodes
    BY NodesFounded
  <2> HIDE DEF Sets
  <2>2. \A n \in Nodes : \A R \in [Nodes -> Sets] : B[<<n, R>>] \in Sets
    BY <1>1, <1>2
  <2>3. \A n \in Nodes : \A R, Q \in [Nodes -> Sets] :
           (\A m \in BelowNode[n] : R[m] = Q[m]) => B[<<n, R>>] = B[<<n, Q>>]
    BY <1>1, <1>3
  <2>4. Recursion(Nodes, Sets, BelowNode, B)
    BY <2>1, <2>2, <2>3 DEF Recursion
  <2> QED BY <2>4, FoundedRecursion
<1> HIDE DEF B
<1>5. \E R : R = [n \in Nodes |-> RequiredAt(n, R)]
  BY <1>1, <1>4
<1>6. RequiredBy = [n \in Nodes |-> RequiredAt(n, RequiredBy)]
  BY <1>5 DEF RequiredBy
<1>7. \A root : Required(root) = IF root = NoNode THEN {} ELSE RequiredBy[root]
  BY DEF Required, RequiredBy
<1> QED BY <1>6, <1>7

\* A leaf l of the trees held at some args of W, which have at most grown since.
Backed(l, a, V, W) ==
    \E m \in Nodes : \E b \in W :
        IsLeafNode(m) /\ Node[m].leaf = l /\ V[<<m, b>>].holds /\ Grows(V[<<m, b>>].args, a)

\* Evaluating a node keeps args within W if its leaves do, and never changes args that
\* are there; and if the node holds, so did every leaf that it requires.
LEMMA RequiredHold ==
    ASSUME NEW V, NEW E, Evaluates(Node, E, V), NEW W \in SUBSET ArgsValues,
           \A m \in Nodes : IsLeafNode(m) => \A b \in W :
               V[<<m, b>>].args \in W /\ Grows(b, V[<<m, b>>].args)
    PROVE  \A n \in Nodes : \A a \in W :
               /\ E[<<n, a>>].args \in W /\ Grows(a, E[<<n, a>>].args)
               /\ E[<<n, a>>].holds =>
                    \A l \in RequiredBy[n] : Backed(l, E[<<n, a>>].args, V, W)
<1> DEFINE Sound(n, a) ==
               /\ E[<<n, a>>].args \in W /\ Grows(a, E[<<n, a>>].args)
               /\ E[<<n, a>>].holds =>
                    \A l \in RequiredBy[n] : Backed(l, E[<<n, a>>].args, V, W)
           S == {n \in Nodes : \A a \in W : Sound(n, a)}
<1>1. E \in Evaluations
  BY DEF Evaluates
<1>2. ASSUME NEW n \in Nodes, \A m \in BelowNode[n] \cap Nodes : m \in S
      PROVE  n \in S
  <2> SUFFICES ASSUME NEW a \in W PROVE Sound(n, a)
    OBVIOUS
  <2>1. \A m \in BelowNode[n] : m \in Nodes /\ \A b \in W : Sound(m, b)
    <3> HIDE DEF Sound
    <3> QED BY <1>2, NodesFounded
  <2>2. a \in ArgsValues /\ E[<<n, a>>] = NodeResult(Node, n, a, E, V)
    BY DEF Evaluates
  <2>3. RequiredBy[n] = RequiredAt(n, RequiredBy)
    BY RequiredUnfolds
  <2>4. ASSUME NEW found \in BOOLEAN, Node[n].kids \in Seq(Nodes),
               Normalized(Node[n].kind) \in {"and", "or"},
               E[<<n, a>>] = Without(Children(Node[n].kids, found, a, E))
        PROVE  /\ E[<<n, a>>].args \in W /\ Grows(a, E[<<n, a>>].args)
               /\ ~found /\ E[<<n, a>>].holds =>
                    \A k \in 1..Len(Node[n].kids) : \E b \in W :
                        /\ E[<<Node[n].kids[k], b>>].holds
                        /\ Grows(E[<<Node[n].kids[k], b>>].args, E[<<n, a>>].args)
    <3> DEFINE kids == Node[n].kids
               r == Children(kids, found, a, E)
    <3>1. \A k \in 1..Len(kids) : \A b \in W :
             E[<<kids[k], b>>].args \in W /\ Grows(b, E[<<kids[k], b>>].args)
      BY <2>1, <2>4, NodesFounded
    <3> HIDE DEF kids
    <3>2. /\ r.args \in W /\ Grows(a, r.args)
          /\ ~found /\ r.holds =>
                \A k \in 1..Len(kids) : \E b \in W :
                    E[<<kids[k], b>>].holds /\ Grows(E[<<kids[k], b>>].args, r.args)
      BY <1>1, <2>4, <3>1, ChildrenLegal DEF kids
    <3>3. E[<<n, a>>].args = r.args /\ E[<<n, a>>].holds = r.holds
      BY <2>4 DEF Without, kids
    <3> HIDE DEF r
    <3> QED BY <3>2, <3>3 DEF kids
  <2>5. CASE Normalized(Node[n].kind) = "and"
    <3>1. Node[n].kids \in Seq(Nodes) /\ DOMAIN Node[n].kids = 1..Len(Node[n].kids)
      BY <2>5, NodeKinds, LenProperties
    <3>2. E[<<n, a>>] = Without(Children(Node[n].kids, FALSE, a, E))
      BY <2>2, <2>5 DEF NodeResult, AtNode
    <3>3. Node[n].kind # "leaf"
      BY <2>5 DEF Normalized
    <3>4. RequiredBy[n] = UNION {RequiredBy[Node[n].kids[k]] : k \in DOMAIN Node[n].kids}
      BY <2>3, <2>5, <3>3 DEF RequiredAt
    <3>5. ASSUME E[<<n, a>>].holds, NEW l \in RequiredBy[n]
          PROVE  Backed(l, E[<<n, a>>].args, V, W)
      <4>1. PICK k \in 1..Len(Node[n].kids) : l \in RequiredBy[Node[n].kids[k]]
        BY <3>1, <3>4
      <4>2. PICK b \in W : /\ E[<<Node[n].kids[k], b>>].holds
                           /\ Grows(E[<<Node[n].kids[k], b>>].args, E[<<n, a>>].args)
        BY <2>4, <2>5, <3>1, <3>2, <3>5
      <4>3. Backed(l, E[<<Node[n].kids[k], b>>].args, V, W)
        BY <2>1, <2>5, <4>1, <4>2, NodesFounded
      <4> QED BY <4>2, <4>3 DEF Backed, Grows
    <3> QED BY <2>4, <2>5, <3>1, <3>2, <3>5
  <2>6. CASE Normalized(Node[n].kind) = "or"
    <3>1. Node[n].kids \in Seq(Nodes)
      BY <2>6, NodeKinds
    <3>2. E[<<n, a>>] = Without(Children(Node[n].kids, TRUE, a, E))
      BY <2>2, <2>6 DEF NodeResult, AtNode
    <3>3. Node[n].kind # "leaf"
      BY <2>6 DEF Normalized
    <3>4. RequiredBy[n] = {}
      BY <2>3, <2>6, <3>3 DEF RequiredAt
    <3> QED BY <2>4, <2>6, <3>1, <3>2, <3>4
  <2>7. CASE Normalized(Node[n].kind) = "not"
    <3>1. Node[n].kind # "leaf"
      BY <2>7 DEF Normalized
    <3>2. RequiredBy[n] = {}
      BY <2>3, <2>7, <3>1 DEF RequiredAt
    <3>3. E[<<n, a>>].args \in W /\ Grows(a, E[<<n, a>>].args)
      <4>1. CASE Node[n].kid = NoNode
        BY <2>2, <2>7, <4>1 DEF NodeResult, AtNode, Grows
      <4>2. CASE Node[n].kid # NoNode
        <5>1. E[<<n, a>>].args = E[<<Node[n].kid, a>>].args
          BY <2>2, <2>7, <4>2 DEF NodeResult, AtNode
        <5> QED BY <2>1, <2>7, <4>2, <5>1, NodesFounded
      <4> QED BY <4>1, <4>2
    <3> QED BY <3>2, <3>3
  <2>8. CASE Normalized(Node[n].kind) = "leaf"
    <3>1. IsLeafNode(n) /\ E[<<n, a>>] = V[<<n, a>>]
      BY <2>2, <2>8, NodeKinds DEF NodeResult, AtNode
    <3>2. RequiredBy[n] = {Node[n].leaf}
      BY <2>3, <3>1 DEF RequiredAt, IsLeafNode, Normalized
    <3>3. Backed(Node[n].leaf, V[<<n, a>>].args, V, W) \/ ~V[<<n, a>>].holds
      BY <3>1 DEF Backed, Grows
    <3> QED BY <3>1, <3>2, <3>3
  <2> HIDE DEF Sound
  <2> QED BY <2>5, <2>6, <2>7, <2>8, NodeKinds
<1>3. \A n \in Nodes : n \in S
  <2> HIDE DEF S
  <2> QED BY <1>2, NodesFounded, FoundedInduction
<1> QED BY <1>3
-----------------------------------------------------------------------------
(* What the threads and the memory they share may be *)

\* The memory that the threads share, and its history.
MemoryType ==
    /\ starts \in 1..MaxStarts
    /\ since \in [Names -> Ages]
    /\ silence \in [Users -> Ages]
    /\ counters \in [Counters -> Nat \cup {NoCounter}]
    /\ spoke \in [Users -> Ages]
    /\ fired \in [DOMAIN Triggers -> Ages]

\* What each thread has of its own.
LocalType ==
    /\ pc \in [Threads -> Labels]
    /\ event \in [Threads -> Events]
    /\ args \in [Threads -> ArgsValues]
    /\ at \in [Threads -> Indices]
    /\ todo \in [Threads -> Seq(Reactions)]
    /\ read \in [Threads -> Nat]

\* Where a thread is says what it has: one of its events, a trigger, a reaction.
Placed ==
    \A t \in Threads :
        /\ pc[t] # "idle" => event[t] \in Inputs[t]
        /\ pc[t] = "stamp" => at[t] \in DOMAIN Triggers
        /\ pc[t] = "add" => todo[t] # <<>>

HandlerInv == MemoryType /\ LocalType /\ Placed

LEMMA TriggerIndices ==
    /\ Len(Triggers) \in Nat
    /\ DOMAIN Triggers = 1..Len(Triggers)
    /\ Indices = 1..(Len(Triggers) + 1)
    /\ \A i \in DOMAIN Triggers : Triggers[i].name \in Names
<1>1. Triggers \in Seq({Triggers[i] : i \in DOMAIN Triggers})
  BY SettingsAssumption
<1>2. Len(Triggers) \in Nat /\ DOMAIN Triggers = 1..Len(Triggers)
  BY <1>1, LenProperties
<1> QED BY <1>2 DEF Indices, Names

\* Evaluating a tree gives a result.
LEMMA ResultType ==
    ASSUME NEW e \in Events, NEW last, NEW root \in Nodes \cup {NoNode}, NEW a \in ArgsValues
    PROVE  ResultOf(WhenResults(e, last), root, a) \in Results
<1>1. WhenResults(e, last) \in Evaluations
  BY WhenEvaluates DEF Evaluates
<1>2. root # NoNode => WhenResults(e, last)[<<root, a>>] \in Results
  BY <1>1 DEF Evaluations
<1> QED BY <1>2 DEF ResultOf, Results

\* A node unfolds to nodes of a set that the branches it may take are of.
LEMMA UnfoldWithin ==
    ASSUME NEW S, NEW n, NEW holds, NEW value,
           n.kind \in {"seq", "if", "switch"},
           n.kind = "seq" => n.kids \in Seq(S),
           n.kind = "if" => (IF holds THEN n.then ELSE n.else) \in S \cup {NoNode},
           n.kind = "switch" =>
               /\ n.default \in S \cup {NoNode} /\ Len(n.cases) \in Nat
               /\ \A k \in 1..Len(n.cases) : n.cases[k].then \in S \cup {NoNode}
    PROVE  Unfold(n, holds, value) \in Seq(S)
<1> DEFINE MayBe == S \cup {NoNode}
<1>1. \A x \in MayBe : Optional(x) \in Seq(S)
  BY DEF Optional
<1> HIDE DEF MayBe
<1>2. CASE n.kind = "seq"
  BY <1>2 DEF Unfold
<1>3. CASE n.kind = "if"
  BY <1>1, <1>3 DEF Unfold, Branch, MayBe
<1>4. CASE n.kind = "switch"
  <2> DEFINE I == {i \in 1..Len(n.cases) : n.cases[i].equals = value}
  <2>1. Unfold(n, holds, value) = Case(n, value)
    BY <1>4 DEF Unfold
  <2>2. Case(n, value) =
           LET i == IF I # {} THEN Min(I) ELSE 0
           IN  Optional(IF i = 0 THEN n.default ELSE n.cases[i].then)
    BY DEF Case, SelectInSeq
  <2>3. I # {} => Min(I) \in I
    <3> SUFFICES ASSUME I # {} PROVE Min(I) \in I
      OBVIOUS
    <3>1. I \subseteq Nat
      BY <1>4
    <3>2. \E i \in I : \A j \in I : i <= j
      BY <3>1, LeastElement
    <3> HIDE DEF I
    <3> QED BY <3>2 DEF Min
  <2>4. I # {} => Min(I) \in 1..Len(n.cases)
    BY <2>3
  <2> HIDE DEF I
  <2>5. Case(n, value) \in Seq(S)
    BY <1>1, <1>4, <2>2, <2>4 DEF MayBe
  <2> QED BY <2>1, <2>5
<1> QED BY <1>2, <1>3, <1>4

LEMMA UnfoldType ==
    ASSUME NEW id \in ReactionNodes, Reaction[id].kind \in {"seq", "if", "switch"},
           NEW holds, NEW value
    PROVE  Unfold(Reaction[id], holds, value) \in Seq(ReactionNodes)
<1> DEFINE n == Reaction[id]
           MayBe == ReactionNodes \cup {NoNode}
<1>1. /\ n.kind = "seq" => n.kids \in Seq(ReactionNodes)
      /\ n.kind = "if" => n.then \in MayBe /\ n.else \in MayBe
      /\ n.kind = "switch" => /\ n.default \in MayBe /\ Len(n.cases) \in Nat
                              /\ \A k \in 1..Len(n.cases) : n.cases[k].then \in MayBe
  BY SettingsAssumption DEF WellFormedReactions
<1> HIDE DEF n
<1> QED BY <1>1, UnfoldWithin DEF n

\* What takes the place of the first node of t: nodes of the triggers t has.
LEMMA ReplaceType ==
    ASSUME LocalType, NEW t \in Threads, todo[t] # <<>>,
           NEW ids \in Seq(ReactionNodes), Replace(t, ids)
    PROVE  /\ todo' \in [Threads -> Seq(Reactions)]
           /\ \A u \in Threads \ {t} : todo'[u] = todo[u]
           /\ \A k \in DOMAIN todo'[t] :
                  \/ \E j \in DOMAIN todo[t] : todo'[t][k] = todo[t][j]
                  \/ \E j \in DOMAIN ids :
                        todo'[t][k] = [trigger |-> Head(todo[t]).trigger, node |-> ids[j]]
<1> DEFINE i == Head(todo[t]).trigger
           new == [k \in DOMAIN ids |-> [trigger |-> i, node |-> ids[k]]]
           rest == Tail(todo[t])
<1>1. todo[t] \in Seq(Reactions) /\ Len(todo[t]) \in Nat \ {0}
  BY EmptySeq, LenProperties DEF LocalType
<1>2. Head(todo[t]) = todo[t][1] /\ todo[t][1] \in Reactions /\ i \in DOMAIN Triggers
  <2>1. Head(todo[t]) = todo[t][1]
    BY <1>1, HeadTailProperties
  <2>2. todo[t][1] \in Reactions
    BY <1>1, ElementOfSeq
  <2> QED BY <2>1, <2>2 DEF Reactions
<1>3. rest \in Seq(Reactions) /\ Len(rest) = Len(todo[t]) - 1
      /\ \A k \in 1..Len(rest) : rest[k] = todo[t][k + 1]
  BY <1>1, HeadTailProperties
<1>4. DOMAIN ids = 1..Len(ids) /\ Len(ids) \in Nat /\ \A k \in 1..Len(ids) : ids[k] \in ReactionNodes
  BY LenProperties, ElementOfSeq
<1>5. new \in Seq(Reactions) /\ Len(new) = Len(ids)
  BY <1>2, <1>4 DEF Reactions
<1>6. todo' = [todo EXCEPT ![t] = new \o rest]
  BY DEF Replace
<1>7. \A k \in 1..Len(new) : k \in DOMAIN ids /\ new[k] = [trigger |-> i, node |-> ids[k]]
  BY <1>4, <1>5
<1> HIDE DEF new, rest, i
<1>8. /\ new \o rest \in Seq(Reactions)
      /\ Len(new \o rest) = Len(new) + Len(rest)
      /\ \A k \in 1..(Len(new) + Len(rest)) :
             (new \o rest)[k] = IF k <= Len(new) THEN new[k] ELSE rest[k - Len(new)]
  <2> HIDE DEF Reactions
  <2>1. new \o rest \in Seq(Reactions) /\ Len(new \o rest) = Len(new) + Len(rest)
    BY <1>3, <1>5, ConcatProperties
  <2> QED BY <1>3, <1>5, <2>1, ConcatProperties
<1>9. todo'[t] = new \o rest
  BY <1>6 DEF LocalType
<1>10. ASSUME NEW k \in DOMAIN todo'[t]
       PROVE  \/ \E j \in DOMAIN todo[t] : todo'[t][k] = todo[t][j]
              \/ \E j \in DOMAIN ids : todo'[t][k] = [trigger |-> i, node |-> ids[j]]
  <2>1. k \in 1..(Len(new) + Len(rest)) /\ DOMAIN todo[t] = 1..Len(todo[t])
        /\ Len(new) \in Nat /\ Len(rest) \in Nat
    BY <1>1, <1>3, <1>5, <1>8, <1>9, LenProperties
  <2>2. CASE k <= Len(new)
    <3>1. todo'[t][k] = new[k] /\ k \in 1..Len(new)
      BY <1>8, <1>9, <2>1, <2>2
    <3> QED BY <1>7, <3>1
  <2>3. CASE k > Len(new)
    <3>1. k - Len(new) \in 1..Len(rest)
      BY <2>1, <2>3
    <3>2. todo'[t][k] = todo[t][(k - Len(new)) + 1]
      <4>1. todo'[t][k] = rest[k - Len(new)]
        BY <1>8, <1>9, <2>1, <2>3
      <4> QED BY <1>3, <3>1, <4>1
    <3>3. (k - Len(new)) + 1 \in DOMAIN todo[t]
      BY <1>1, <1>3, <2>1, <3>1
    <3> QED BY <3>2, <3>3
  <2> QED BY <2>1, <2>2, <2>3
<1> QED BY <1>6, <1>8, <1>10 DEF LocalType, i

-----------------------------------------------------------------------------
LEMMA AgeTypes ==
    /\ Never \in Ages /\ 0 \in Ages
    /\ \A age \in Ages : Older(age) \in Ages
BY PipelineAssumption DEF Ages, Older

LEMMA InitHandler == Init => HandlerInv
<1> SUFFICES ASSUME Init PROVE HandlerInv
  OBVIOUS
<1>1. 1 \in 1..MaxStarts /\ 1 \in Indices
  BY PipelineAssumption, TriggerIndices
<1>2. MemoryType
  BY <1>1, AgeTypes DEF Init, MemoryType
<1>3. <<>> \in Seq(Reactions)
  BY EmptySeq
<1>4. LocalType
  BY <1>1, <1>3, KnownEvents DEF Init, LocalType, Labels, ArgsValues
<1>5. Placed
  BY DEF Init, Placed
<1> QED BY <1>2, <1>4, <1>5 DEF HandlerInv

\* The call of t ends.
LEMMA ReturnHandler ==
    ASSUME HandlerInv, NEW t \in Threads, Return(t), UNCHANGED <<starts, since>>,
           silence' \in [Users -> Ages], counters' \in [Counters -> Nat \cup {NoCounter}]
    PROVE  HandlerInv'
<1>1. MemoryType'
  BY AgeTypes DEF HandlerInv, MemoryType, Return
<1>2. <<>> \in Seq(Reactions) /\ 1 \in Indices
  BY EmptySeq, TriggerIndices
<1>3. LocalType'
  BY <1>2, KnownEvents DEF HandlerInv, LocalType, Return, Goto, Labels, ArgsValues
<1>4. Placed'
  BY DEF HandlerInv, LocalType, Placed, Return, Goto
<1> QED BY <1>1, <1>3, <1>4 DEF HandlerInv

\* The start of a call, and the collector.
LEMMA CollectHandler ==
    ASSUME HandlerInv, NEW t \in Threads, Receive(t) \/ Collect(t)
    PROVE  HandlerInv'
<1>1. CASE Receive(t)
  <2>1. PICK e \in Inputs[t] : event' = [event EXCEPT ![t] = e]
    BY <1>1 DEF Receive
  <2>2. e \in Events
    BY KnownEvents
  <2>3. MemoryType'
    BY <1>1 DEF HandlerInv, MemoryType, Receive, memory, history
  <2>4. LocalType'
    BY <1>1, <2>1, <2>2 DEF HandlerInv, LocalType, Receive, Goto, Labels
  <2>5. Placed'
    BY <1>1, <2>1 DEF HandlerInv, LocalType, Placed, Receive, Goto
  <2> QED BY <2>3, <2>4, <2>5 DEF HandlerInv
<1>2. CASE AppendFails(t)
  BY <1>2, ReturnHandler DEF AppendFails, HandlerInv, MemoryType, memory
<1>3. CASE CapReached(t) \/ AppendLine(t) \/ CountLine(t)
  <2>1. /\ pc[t] \in {"collect", "count"}
        /\ \E l \in {"resolve", "count"} : pc' = [pc EXCEPT ![t] = l]
        /\ UNCHANGED <<starts, since, silence, counters, local, history>>
    BY <1>3 DEF CapReached, AppendLine, CountLine, Goto, memory
  <2>2. MemoryType'
    BY <2>1 DEF HandlerInv, MemoryType, history
  <2>3. LocalType'
    BY <2>1 DEF HandlerInv, LocalType, local, Labels
  <2>4. Placed'
    BY <2>1 DEF HandlerInv, LocalType, Placed, local
  <2> QED BY <2>2, <2>3, <2>4 DEF HandlerInv
<1> QED BY <1>1, <1>2, <1>3 DEF Collect

\* The resolver.
LEMMA ResolveHandler ==
    ASSUME HandlerInv, NEW t \in Threads, Resolve(t)
    PROVE  HandlerInv'
<1> DEFINE i == at[t]
<1>1. CASE Filtered(t) \/ Resolved(t)
  <2>1. MemoryType'
    BY <1>1 DEF HandlerInv, MemoryType, Filtered, Resolved, memory, history
  <2>2. at' \in [Threads -> Indices]
    <3>1. CASE Resolved(t)
      BY <3>1 DEF HandlerInv, LocalType, Resolved, local
    <3>2. CASE Filtered(t)
      <4>1. at[t] + 1 \in Indices
        BY <3>2, TriggerIndices DEF HandlerInv, LocalType, Filtered
      <4>2. at' = [at EXCEPT ![t] = at[t] + 1]
        BY <3>2 DEF Filtered, Next1
      <4> QED BY <4>1, <4>2 DEF HandlerInv, LocalType
    <3> QED BY <1>1, <3>1, <3>2
  <2>3. LocalType'
    BY <1>1, <2>2 DEF HandlerInv, LocalType, Filtered, Resolved, Goto, Labels, local
  <2>4. Placed'
    BY <1>1 DEF HandlerInv, LocalType, Placed, Filtered, Resolved, Next1, Goto, local
  <2> QED BY <2>1, <2>3, <2>4 DEF HandlerInv
<1>2. ASSUME NoMatch(t) \/ Match(t)
      PROVE  /\ i \in DOMAIN Triggers /\ Result(t).args \in ArgsValues
             /\ args' = [args EXCEPT ![t] = Result(t).args]
  <2>1. i \in DOMAIN Triggers
    BY <1>2, TriggerIndices DEF NoMatch, Match, HandlerInv, LocalType
  <2>2. Result(t) \in Results
    <3>1. /\ event[t] \in Events /\ args[t] \in ArgsValues
          /\ Triggers[i].when \in Nodes \cup {NoNode}
      BY <2>1, SettingsAssumption DEF HandlerInv, LocalType
    <3>2. Result(t) = ResultOf(WhenResults(event[t], since[Triggers[i].name]),
                               Triggers[i].when, args[t])
      BY WhenTrees
    <3> QED BY <3>1, <3>2, ResultType
  <2> QED BY <1>2, <2>1, <2>2 DEF NoMatch, Match, Results
<1>3. CASE NoMatch(t)
  <2>1. MemoryType'
    BY <1>3 DEF HandlerInv, MemoryType, NoMatch, memory, history
  <2>2. LocalType'
    BY <1>2, <1>3, TriggerIndices DEF HandlerInv, LocalType, NoMatch, Next1
  <2>3. Placed'
    BY <1>3 DEF HandlerInv, LocalType, Placed, NoMatch, Next1
  <2> QED BY <2>1, <2>2, <2>3 DEF HandlerInv
<1>4. CASE Match(t)
  <2>1. MemoryType'
    BY <1>4 DEF HandlerInv, MemoryType, Match, memory, history
  <2>2. Collected(i) \in Seq(Reactions)
    <3>1. i \in DOMAIN Triggers /\ Triggers[i].reactions \in ReactionNodes \cup {NoNode}
      BY <1>2, <1>4, SettingsAssumption
    <3>2. CASE Triggers[i].reactions = NoNode
      BY <3>2, EmptySeq DEF Collected
    <3>3. CASE Triggers[i].reactions # NoNode
      <4>1. [trigger |-> i, node |-> Triggers[i].reactions] \in Reactions
        BY <3>1, <3>3 DEF Reactions
      <4> QED BY <3>3, <4>1 DEF Collected
    <3> QED BY <3>2, <3>3
  <2>3. todo[t] \o Collected(i) \in Seq(Reactions)
    BY <2>2, ConcatProperties DEF HandlerInv, LocalType
  <2>4. todo' = [todo EXCEPT ![t] = todo[t] \o Collected(i)]
    BY <1>4 DEF Match
  <2>5. LocalType'
    BY <1>2, <1>4, <2>3, <2>4 DEF HandlerInv, LocalType, Match, Goto, Labels
  <2>6. Placed'
    BY <1>2, <1>4, <2>4 DEF HandlerInv, LocalType, Placed, Match, Goto
  <2> QED BY <2>1, <2>5, <2>6 DEF HandlerInv
<1>5. CASE Stamp(t)
  <2>1. i \in DOMAIN Triggers
    BY <1>5 DEF Stamp, HandlerInv, Placed
  <2>2. MemoryType'
    BY <1>5, <2>1, AgeTypes, TriggerIndices DEF HandlerInv, MemoryType, Stamp, Remember
  <2>3. LocalType'
    BY <1>5, <2>1, TriggerIndices DEF HandlerInv, LocalType, Stamp, Next1, Goto, Labels
  <2>4. Placed'
    BY <1>5 DEF HandlerInv, LocalType, Placed, Stamp, Next1, Goto
  <2> QED BY <2>2, <2>3, <2>4 DEF HandlerInv
<1> QED BY <1>1, <1>3, <1>4, <1>5 DEF Resolve

\* The next node of t.
LEMMA TopType ==
    ASSUME LocalType, NEW t \in Threads, todo[t] # <<>>
    PROVE  /\ Head(todo[t]) \in Reactions /\ Head(todo[t]) = todo[t][1]
           /\ 1 \in DOMAIN todo[t]
           /\ Head(todo[t]).node \in ReactionNodes
<1>1. todo[t] \in Seq(Reactions) /\ Len(todo[t]) \in Nat \ {0} /\ DOMAIN todo[t] = 1..Len(todo[t])
  BY EmptySeq, LenProperties DEF LocalType
<1>2. Head(todo[t]) = todo[t][1]
  BY <1>1, HeadTailProperties
<1>3. todo[t][1] \in Reactions
  BY <1>1, ElementOfSeq
<1> QED BY <1>1, <1>2, <1>3 DEF Reactions

\* t replaces its next node, changes no other variables of its own but args and read,
\* and is left at a place where it needs no more.
LEMMA ReplaceHandler ==
    ASSUME HandlerInv, NEW t \in Threads, todo[t] # <<>>,
           NEW ids \in Seq(ReactionNodes), Replace(t, ids),
           UNCHANGED <<event, at>>, MemoryType',
           NEW l \in {"execute"}, pc[t] # "idle", pc' = [pc EXCEPT ![t] = l],
           args' \in [Threads -> ArgsValues], read' \in [Threads -> Nat]
    PROVE  HandlerInv'
<1>1. /\ todo' \in [Threads -> Seq(Reactions)]
      /\ \A u \in Threads \ {t} : todo'[u] = todo[u]
  BY ReplaceType DEF HandlerInv
<1>2. LocalType'
  BY <1>1 DEF HandlerInv, LocalType, Labels
<1>3. Placed'
  BY <1>1 DEF HandlerInv, LocalType, Placed
<1> QED BY <1>2, <1>3 DEF HandlerInv

LEMMA SavedHandler ==
    ASSUME HandlerInv, NEW t \in Threads, todo[t] # <<>>, pc[t] # "idle",
           Saved(t), UNCHANGED <<starts, since, silence>>,
           counters' \in [Counters -> Nat \cup {NoCounter}]
    PROVE  HandlerInv'
<1>1. CASE Return(t)
  BY <1>1, ReturnHandler DEF HandlerInv, MemoryType
<1>2. CASE ~Return(t)
  <2>1. /\ Replace(t, <<>>) /\ pc' = [pc EXCEPT ![t] = "execute"]
        /\ read' = [read EXCEPT ![t] = 0] /\ UNCHANGED <<event, args, at, history>>
    BY <1>2 DEF Saved, Goto
  <2>2. MemoryType'
    BY <2>1 DEF HandlerInv, MemoryType, history
  <2>3. args' \in [Threads -> ArgsValues] /\ read' \in [Threads -> Nat]
    BY <2>1 DEF HandlerInv, LocalType
  <2>4. <<>> \in Seq(ReactionNodes)
    BY EmptySeq
  <2> QED BY <2>1, <2>2, <2>3, <2>4, ReplaceHandler
<1> QED BY <1>1, <1>2

\* The engine.
LEMMA ReactHandler ==
    ASSUME HandlerInv, NEW t \in Threads, React(t)
    PROVE  HandlerInv'
<1>1. CASE EnterSeq(t) \/ EnterIf(t) \/ EnterSwitch(t)
  <2>1. /\ pc[t] = "execute" /\ todo[t] # <<>> /\ Top(t).kind \in {"seq", "if", "switch"}
        /\ UNCHANGED <<starts, memory, lines, pc, event, at, read, history>>
        /\ \E holds, value : Replace(t, Unfold(Top(t), holds, value))
    BY <1>1 DEF EnterSeq, EnterIf, EnterSwitch, EnterNode, Reaches
  <2>2. PICK holds, value : Replace(t, Unfold(Top(t), holds, value))
    BY <2>1
  <2>3. Head(todo[t]).node \in ReactionNodes
    BY <2>1, TopType DEF HandlerInv
  <2>4. Unfold(Top(t), holds, value) \in Seq(ReactionNodes)
    BY <2>1, <2>3, UnfoldType DEF Top
  <2>5. MemoryType'
    BY <2>1 DEF HandlerInv, MemoryType, memory, history
  <2>6. args' \in [Threads -> ArgsValues]
    <3>1. CASE args' = args
      BY <3>1 DEF HandlerInv, LocalType
    <3>2. CASE EnterIf(t)
      <4>1. Top(t).when \in Nodes \cup {NoNode}
        BY <2>3, <3>2, SettingsAssumption DEF WellFormedReactions, EnterIf, Reaches, Top
      <4>2. event[t] \in Events /\ args[t] \in ArgsValues
        BY DEF HandlerInv, LocalType
      <4>3. Condition(t) = ResultOf(WhenResults(event[t], Never), Top(t).when, args[t])
        BY WhenTrees
      <4>4. Condition(t) \in Results
        BY <4>1, <4>2, <4>3, ResultType
      <4>5. Condition(t).args \in ArgsValues
        BY <4>4 DEF Results
      <4> QED BY <3>2, <4>5 DEF EnterIf, HandlerInv, LocalType
    <3> QED BY <1>1, <3>1, <3>2 DEF EnterSeq, EnterSwitch
  <2>7. pc' = [pc EXCEPT ![t] = "execute"] /\ UNCHANGED <<event, at>>
        /\ read' \in [Threads -> Nat]
    BY <2>1 DEF HandlerInv, LocalType
  <2> QED BY <2>1, <2>2, <2>4, <2>5, <2>6, <2>7, ReplaceHandler
<1>2. CASE Execute(t) \/ Query(t)
  <2>1. /\ pc[t] = "execute" /\ todo[t] # <<>> /\ Replace(t, <<>>)
        /\ UNCHANGED <<starts, memory, lines, pc, event, args, at, read, history>>
    BY <1>2 DEF Execute, Query, RunsCounter, Runs, Reaches
  <2>2. MemoryType'
    BY <2>1 DEF HandlerInv, MemoryType, memory, history
  <2>3. pc' = [pc EXCEPT ![t] = "execute"] /\ UNCHANGED <<event, at>>
        /\ args' \in [Threads -> ArgsValues] /\ read' \in [Threads -> Nat]
        /\ <<>> \in Seq(ReactionNodes)
    BY <2>1, EmptySeq DEF HandlerInv, LocalType
  <2> QED BY <2>1, <2>2, <2>3, ReplaceHandler
<1>3. CASE CreateCounter(t)
  <2>1. MemoryType'
    BY <1>3 DEF HandlerInv, MemoryType, CreateCounter, history
  <2>2. LocalType' /\ Placed'
    BY <1>3 DEF HandlerInv, LocalType, Placed, CreateCounter, local
  <2> QED BY <2>1, <2>2 DEF HandlerInv
<1>4. CASE ReadCounter(t)
  <2> DEFINE c == Top(t).reaction.counter
  <2>1. MemoryType'
    BY <1>4 DEF HandlerInv, MemoryType, ReadCounter, memory, history
  <2>2. /\ pc[t] = "execute" /\ todo[t] # <<>>
        /\ UNCHANGED <<event, args, at, todo>>
        /\ pc' = [pc EXCEPT ![t] = "add"]
        /\ read' = [read EXCEPT ![t] = counters[c]] /\ counters[c] # NoCounter
    BY <1>4 DEF ReadCounter, RunsCounter, Runs, Reaches, Goto
  <2>3. c \in Counters
    <3>1. Head(todo[t]).node \in ReactionNodes
      BY <2>2, TopType DEF HandlerInv
    <3>2. Top(t).kind = "reaction" /\ Top(t).reaction.type = "counter"
      BY <1>4 DEF ReadCounter, RunsCounter, Runs, Reaches
    <3> QED BY <3>1, <3>2, SettingsAssumption DEF Top, WellFormedReactions
  <2>4. counters[c] \in Nat
    BY <2>2, <2>3 DEF HandlerInv, MemoryType
  <2>5. LocalType'
    BY <2>2, <2>4 DEF HandlerInv, LocalType, Labels
  <2>6. Placed'
    BY <2>2 DEF HandlerInv, LocalType, Placed
  <2> QED BY <2>1, <2>5, <2>6 DEF HandlerInv
<1>5. CASE AddToCounter(t) \/ ResetCounter(t)
  <2>1. /\ todo[t] # <<>> /\ pc[t] # "idle" /\ Saved(t)
        /\ UNCHANGED <<starts, since, silence>>
    BY <1>5 DEF AddToCounter, ResetCounter, RunsCounter, Runs, Reaches, HandlerInv, Placed
  <2>2. counters' \in [Counters -> Nat \cup {NoCounter}]
    <3>1. read[t] + 1 \in Nat
      BY DEF HandlerInv, LocalType
    <3> QED BY <1>5, <3>1 DEF AddToCounter, ResetCounter, HandlerInv, MemoryType
  <2> QED BY <2>1, <2>2, SavedHandler
<1>6. CASE ExecuteRaises(t)
  BY <1>6, ReturnHandler DEF ExecuteRaises, HandlerInv, MemoryType, memory
<1> QED BY <1>1, <1>2, <1>3, <1>4, <1>5, <1>6 DEF React

\* The end of a call.
LEMMA FinishHandler ==
    ASSUME HandlerInv, NEW t \in Threads, Finish(t)
    PROVE  HandlerInv'
<1>1. CASE Record(t)
  <2>1. silence' \in [Users -> Ages]
    BY <1>1, AgeTypes DEF Record, HandlerInv, MemoryType
  <2> QED BY <1>1, <2>1, ReturnHandler DEF Record, HandlerInv, MemoryType
<1>2. CASE NothingToRecord(t)
  BY <1>2, ReturnHandler DEF NothingToRecord, HandlerInv, MemoryType, memory
<1> QED BY <1>1, <1>2 DEF Finish

LEMMA NextHandler ==
    ASSUME HandlerInv, [Next]_vars
    PROVE  HandlerInv'
<1>1. ASSUME NEW t \in Threads, HandleEvent(t)
      PROVE  HandlerInv'
  BY <1>1, CollectHandler, ResolveHandler, ReactHandler, FinishHandler DEF HandleEvent
<1>2. CASE Clock
  <2>1. MemoryType'
    BY <1>2, AgeTypes DEF Clock, HandlerInv, MemoryType
  <2>2. LocalType' /\ Placed'
    BY <1>2 DEF Clock, HandlerInv, LocalType, Placed, local
  <2> QED BY <2>1, <2>2 DEF HandlerInv
<1>3. CASE Restart
  <2>1. MemoryType'
    BY <1>3, AgeTypes, PipelineAssumption DEF Restart, HandlerInv, MemoryType
  <2>2. <<>> \in Seq(Reactions) /\ 1 \in Indices
    BY EmptySeq, TriggerIndices
  <2>3. LocalType'
    BY <1>3, <2>2, KnownEvents DEF Restart, LocalType, Labels, ArgsValues
  <2>4. Placed'
    BY <1>3 DEF Restart, Placed
  <2> QED BY <2>1, <2>3, <2>4 DEF HandlerInv
<1>4. CASE UNCHANGED vars
  BY <1>4 DEF vars, HandlerInv, MemoryType, LocalType, Placed
<1> QED BY <1>1, <1>2, <1>3, <1>4 DEF Next
-----------------------------------------------------------------------------
(* The steps of a call, by what they do to the thread that takes them.       *)

\* The other threads keep what is theirs.
OthersKept(t) ==
    \A u \in Threads \ {t} :
        /\ pc'[u] = pc[u] /\ event'[u] = event[u] /\ args'[u] = args[u]
        /\ at'[u] = at[u] /\ todo'[u] = todo[u] /\ read'[u] = read[u]

\* An event comes in.
Begins(t) ==
    /\ pc[t] = "idle" /\ pc'[t] \in {"collect", "resolve"} /\ event'[t] \in Inputs[t]
    /\ UNCHANGED <<since, silence, spoke, fired, args, at, todo>>

\* Nothing that the triggers or the engine depend on changes.
Quiet(t) ==
    /\ pc[t] \notin {"idle", "stamp"} /\ pc'[t] \notin {"idle", "stamp"}
    /\ IF pc[t] = "resolve" /\ pc'[t] = "resolve" THEN Filtered(t) ELSE UNCHANGED at
    /\ UNCHANGED <<since, silence, spoke, fired, event, args, todo>>

Enters(t) == EnterSeq(t) \/ EnterIf(t) \/ EnterSwitch(t)

\* A reaction is done.
Drops(t) ==
    /\ pc[t] \in {"execute", "add"} /\ pc'[t] = "execute" /\ todo[t] # <<>> /\ Replace(t, <<>>)
    /\ UNCHANGED <<since, silence, spoke, fired, event, args, at>>

\* The call raises: the append to the file, a reaction, the save of a counter.
Raises(t) ==
    \/ AppendFails(t) \/ ExecuteRaises(t)
    \/ (AddToCounter(t) \/ ResetCounter(t)) /\ Return(t)

\* The call raises, or ends after its last reaction.
Ends(t) ==
    /\ pc[t] # "idle" /\ Return(t) /\ UNCHANGED since
    /\ \/ Record(t)
       \/ UNCHANGED silence /\ (Raises(t) \/ NothingToRecord(t))

LEMMA StepKinds ==
    ASSUME HandlerInv, NEW t \in Threads, HandleEvent(t)
    PROVE  /\ OthersKept(t)
           /\ \/ Begins(t) \/ Quiet(t) \/ NoMatch(t) \/ Match(t) \/ Stamp(t)
              \/ Enters(t) \/ Drops(t) \/ Ends(t)
<1>1. pc \in [Threads -> Labels] /\ read \in [Threads -> Nat]
  BY DEF HandlerInv, LocalType
<1>2. ASSUME Return(t) PROVE OthersKept(t)
  BY <1>2 DEF OthersKept, Return, Goto, HandlerInv, LocalType
<1>3. ASSUME NEW ids, Replace(t, ids) PROVE \A u \in Threads \ {t} : todo'[u] = todo[u]
  BY <1>3 DEF Replace, HandlerInv, LocalType
<1>4. CASE Receive(t)
  BY <1>4 DEF Receive, Begins, OthersKept, HandlerInv, LocalType, Goto, memory, history
<1>5. CASE Collect(t)
  <2>1. CASE AppendFails(t)
    BY <1>2, <2>1 DEF AppendFails, Ends, Raises, memory
  <2>2. CASE CapReached(t) \/ AppendLine(t) \/ CountLine(t)
    BY <2>2, <1>1 DEF CapReached, AppendLine, CountLine, Quiet, OthersKept, Goto, memory, local, history
  <2> QED BY <1>5, <2>1, <2>2 DEF Collect
<1>6. CASE Resolve(t)
  <2>1. CASE Filtered(t) \/ Resolved(t)
    BY <2>1 DEF Filtered, Resolved, Quiet, OthersKept, HandlerInv, LocalType, Next1, Goto,
                memory, local, history
  <2>2. CASE NoMatch(t) \/ Match(t) \/ Stamp(t)
    BY <2>2 DEF NoMatch, Match, Stamp, OthersKept, HandlerInv, LocalType, Next1, Goto
  <2> QED BY <1>6, <2>1, <2>2 DEF Resolve
<1>7. CASE React(t)
  <2>1. CASE Enters(t)
    <3>1. /\ UNCHANGED <<pc, event, at, read>>
          /\ \A u \in Threads \ {t} : args'[u] = args[u]
          /\ \E ids : Replace(t, ids)
      BY <2>1 DEF Enters, EnterSeq, EnterIf, EnterSwitch, EnterNode, HandlerInv, LocalType
    <3> QED BY <1>3, <2>1, <3>1 DEF OthersKept
  <2>2. CASE Execute(t) \/ Query(t)
    <3>1. Drops(t) /\ UNCHANGED <<pc, read>>
      BY <2>2 DEF Execute, Query, RunsCounter, Runs, Reaches, Drops, memory, history
    <3> QED BY <1>3, <3>1 DEF Drops, OthersKept
  <2>3. CASE CreateCounter(t) \/ ReadCounter(t)
    BY <2>3, <1>1 DEF CreateCounter, ReadCounter, RunsCounter, Runs, Reaches, Quiet, OthersKept,
                Goto, memory, local, history
  <2>4. CASE AddToCounter(t) \/ ResetCounter(t)
    <3>1. /\ Saved(t) /\ pc[t] \in {"add", "execute"} /\ todo[t] # <<>>
          /\ UNCHANGED <<since, silence>>
      BY <2>4 DEF AddToCounter, ResetCounter, RunsCounter, Runs, Reaches, HandlerInv, Placed
    <3>2. CASE Return(t)
      BY <1>2, <2>4, <3>1, <3>2 DEF Ends, Raises
    <3>3. CASE ~Return(t)
      <4>1. Drops(t) /\ \A u \in Threads \ {t} : pc'[u] = pc[u] /\ read'[u] = read[u]
        BY <1>1, <3>1, <3>3 DEF Saved, Drops, history, Goto
      <4> QED BY <1>3, <4>1 DEF Drops, OthersKept
    <3> QED BY <3>2, <3>3
  <2>5. CASE ExecuteRaises(t)
    BY <1>2, <2>5 DEF ExecuteRaises, Reaches, Ends, Raises, memory
  <2> QED BY <1>7, <2>1, <2>2, <2>3, <2>4, <2>5 DEF React, Enters
<1>8. CASE Finish(t)
  <2>1. Ends(t)
    BY <1>8 DEF Finish, Record, NothingToRecord, Ends, memory
  <2> QED BY <1>2, <2>1 DEF Ends
<1> QED BY <1>4, <1>5, <1>6, <1>7, <1>8 DEF HandleEvent
-----------------------------------------------------------------------------
(* Ages *)

\* a is an age at least as great as b.
NoYounger(a, b) == a = Never \/ (b # Never /\ a >= b)

LEMMA AgeOrder ==
    /\ \A a, b \in Ages : NoYounger(a, b) => NoYounger(Older(a), Older(b))
    /\ \A a, b \in Ages : \A n \in Nat : NoYounger(a, b) /\ AtLeast(b, n) => AtLeast(a, n)
    /\ \A a \in Ages : \A n \in Nat : AtLeast(a, n) => AtLeast(Older(a), n)
    /\ \A a \in Ages : NoYounger(a, 0) /\ NoYounger(a, a) /\ NoYounger(Never, a)
BY PipelineAssumption DEF Ages, NoYounger, Older, AtLeast

\* The resolver's memory is no older than the last match of any trigger of the name,
\* and the tracker's no younger than the chatter's last message.
AgesAgree ==
    /\ \A i \in DOMAIN Triggers : NoYounger(fired[i], since[Triggers[i].name])
    /\ \A u \in Users : NoYounger(silence[u], spoke[u])

LEMMA AgesAgreeInv ==
    /\ Init => AgesAgree
    /\ HandlerInv /\ AgesAgree /\ [Next]_vars => AgesAgree'
<1>1. Init => AgesAgree
  BY AgeTypes, AgeOrder, TriggerIndices DEF Init, AgesAgree
<1>2. ASSUME HandlerInv, AgesAgree, [Next]_vars PROVE AgesAgree'
  <2> USE <1>2
  <2>0. MemoryType /\ Never \in Ages /\ 0 \in Ages
    BY AgeTypes DEF HandlerInv
  <2>1. ASSUME NEW t \in Threads, HandleEvent(t) PROVE AgesAgree'
    <3>1. CASE UNCHANGED <<since, silence, spoke, fired>>
      BY <3>1 DEF AgesAgree
    <3>2. CASE Stamp(t)
      <4>1. at[t] \in DOMAIN Triggers
        BY <3>2 DEF HandlerInv, Placed, Stamp
      <4>2. /\ since' = [since EXCEPT ![Triggers[at[t]].name] = 0]
            /\ fired' = [fired EXCEPT ![at[t]] = 0] /\ UNCHANGED <<silence, spoke>>
        BY <3>2 DEF Stamp, Remember
      <4> QED BY <2>0, <4>1, <4>2, AgeOrder, TriggerIndices DEF AgesAgree, MemoryType
    <3>3. CASE Ends(t)
      <4>1. spoke' = [u \in Users |-> IF event[t].name = "chat.message" /\ event[t].user = u
                                     THEN 0 ELSE spoke[u]]
            /\ UNCHANGED <<since, fired>>
        BY <3>3 DEF Ends, Return
      <4>2. CASE UNCHANGED silence
        BY <2>0, <4>1, <4>2, AgeOrder DEF AgesAgree, MemoryType
      <4>3. CASE Record(t)
        <5>1. silence' = [silence EXCEPT ![event[t].user] = 0] /\ event[t].name = "chat.message"
          BY <4>3 DEF Record, IsChat
        <5> QED BY <2>0, <4>1, <5>1, AgeOrder DEF AgesAgree, MemoryType
      <4> QED BY <3>3, <4>2, <4>3 DEF Ends
    <3>4. Begins(t) \/ Quiet(t) \/ NoMatch(t) \/ Match(t) \/ Enters(t) \/ Drops(t)
          => UNCHANGED <<since, silence, spoke, fired>>
      BY DEF Begins, Quiet, NoMatch, Match, Enters, EnterSeq, EnterIf, EnterSwitch, EnterNode,
             Drops, memory, history
    <3> QED BY <2>1, <3>1, <3>2, <3>3, <3>4, StepKinds
  <2>2. CASE Clock
    BY <2>0, <2>2, AgeOrder, TriggerIndices DEF AgesAgree, Clock, MemoryType
  <2>3. CASE Restart
    BY <2>0, <2>3, AgeOrder, TriggerIndices DEF AgesAgree, Restart
  <2>4. CASE UNCHANGED vars
    BY <2>4 DEF AgesAgree, vars
  <2> QED BY <2>1, <2>2, <2>3, <2>4 DEF Next
<1> QED BY <1>1, <1>2
-----------------------------------------------------------------------------
\* Required leaves are leaves of the trees.
LEMMA RequiredAreLeaves ==
    \A n \in Nodes : \A l \in RequiredBy[n] : \E m \in Nodes : IsLeafNode(m) /\ Node[m].leaf = l
<1> DEFINE S == {n \in Nodes : \A l \in RequiredBy[n] :
                                   \E m \in Nodes : IsLeafNode(m) /\ Node[m].leaf = l}
<1>1. ASSUME NEW n \in Nodes, \A m \in BelowNode[n] \cap Nodes : m \in S
      PROVE  n \in S
  <2>1. RequiredBy[n] = RequiredAt(n, RequiredBy)
    BY RequiredUnfolds
  <2>2. CASE Normalized(Node[n].kind) = "and"
    <3>1. \A k \in DOMAIN Node[n].kids : Node[n].kids[k] \in BelowNode[n] \cap Nodes
      BY <2>2, NodeKinds, NodesFounded, LenProperties
    <3>2. \A k \in DOMAIN Node[n].kids : Node[n].kids[k] \in S
      BY <1>1, <3>1
    <3>3. Node[n].kind # "leaf"
      BY <2>2 DEF Normalized
    <3>4. RequiredBy[n] = UNION {RequiredBy[Node[n].kids[k]] : k \in DOMAIN Node[n].kids}
      BY <2>1, <2>2, <3>3 DEF RequiredAt
    <3> QED BY <3>2, <3>4
  <2>3. CASE Node[n].kind = "leaf"
    <3>1. RequiredBy[n] = {Node[n].leaf}
      BY <2>1, <2>3 DEF RequiredAt, Normalized
    <3> QED BY <2>3, <3>1 DEF IsLeafNode
  <2>4. CASE Normalized(Node[n].kind) # "and" /\ Node[n].kind # "leaf"
    <3>1. RequiredBy[n] = {}
      BY <2>1, <2>4 DEF RequiredAt
    <3> QED BY <3>1
  <2> QED BY <2>2, <2>3, <2>4
<1>2. \A n \in Nodes : n \in S
  <2> HIDE DEF S
  <2> QED BY <1>1, NodesFounded, FoundedInduction
<1> QED BY <1>2

\* Evaluating a tree for an event leaves args alone, or sets them to a command that
\* the message starts with if there were none.
LEMMA TreeArgs ==
    ASSUME NEW e \in Events, NEW last, NEW root \in Nodes \cup {NoNode}, NEW a \in ArgsValues,
           a \in e.message.starts \cup {NoArgs},
           NEW r, r = ResultOf(WhenResults(e, last), root, a)
    PROVE  /\ r.args \in e.message.starts \cup {NoArgs}
           /\ a # NoArgs => r.args = a
<1> DEFINE E == WhenResults(e, last)
           V == LeafResults(e, last)
           W == e.message.starts \cup {NoArgs}
<1>1. Evaluates(Node, E, V)
  BY WhenEvaluates
<1>2. W \in SUBSET ArgsValues /\ a \in W
  BY EventTypes DEF ArgsValues
<1>3. \A m \in Nodes : IsLeafNode(m) => \A b \in W :
         V[<<m, b>>].args \in W /\ Grows(b, V[<<m, b>>].args)
  BY <1>2, LeafResultsType DEF Grows
<1>4. CASE root = NoNode
  BY <1>4 DEF ResultOf
<1>5. CASE root # NoNode
  <2>1. r = E[<<root, a>>] /\ root \in Nodes
    BY <1>5 DEF ResultOf
  <2> HIDE DEF E, V, W
  <2>2. r.args \in W /\ Grows(a, r.args)
    BY <1>1, <1>2, <1>3, <2>1, RequiredHold
  <2> QED BY <2>2 DEF Grows, W
<1> QED BY <1>4, <1>5

\* What a tree that holds for an event says of a leaf that it requires: the leaf held
\* for some args, and if it is a command leaf, args are set now.
LEMMA HoldsMeans ==
    ASSUME NEW e \in Events, NEW last, NEW root \in Nodes \cup {NoNode}, NEW a \in ArgsValues,
           a \in e.message.starts \cup {NoArgs},
           NEW r, r = ResultOf(WhenResults(e, last), root, a), r.holds,
           NEW l \in Required(root)
    PROVE  /\ \E m \in Nodes : IsLeafNode(m) /\ Node[m].leaf = l
           /\ \E b \in ArgsValues : LeafValue(l, b, e, last).holds
           /\ l.type = "command" => l.command \in e.message.starts /\ r.args # NoArgs
<1> DEFINE E == WhenResults(e, last)
           V == LeafResults(e, last)
           W == e.message.starts \cup {NoArgs}
<1>1. Evaluates(Node, E, V)
  BY WhenEvaluates
<1>2. W \in SUBSET ArgsValues /\ a \in W
  BY EventTypes DEF ArgsValues
<1>3. \A m \in Nodes : IsLeafNode(m) => \A b \in W :
         V[<<m, b>>].args \in W /\ Grows(b, V[<<m, b>>].args)
  BY <1>2, LeafResultsType DEF Grows
<1>4. root # NoNode /\ r = E[<<root, a>>] /\ root \in Nodes /\ l \in RequiredBy[root]
  BY RequiredUnfolds DEF ResultOf
<1> HIDE DEF E, V, W
<1>5. Backed(l, r.args, V, W)
  BY <1>1, <1>2, <1>3, <1>4, RequiredHold
<1>6. PICK m \in Nodes, b \in W :
         IsLeafNode(m) /\ Node[m].leaf = l /\ V[<<m, b>>].holds /\ Grows(V[<<m, b>>].args, r.args)
  BY <1>5 DEF Backed
<1>7. b \in ArgsValues /\ V[<<m, b>>] = LeafValue(l, b, e, last)
  BY <1>2, <1>6, LeafResultsType DEF V
<1>8. ASSUME l.type = "command"
      PROVE  l.command \in e.message.starts /\ r.args # NoArgs
  <2>1. LeafValue(l, b, e, last) = MatchCommand(l, e.message, b)
    BY <1>8 DEF LeafValue
  <2>2. l.command \in e.message.starts
    BY <1>6, <1>7, <2>1 DEF MatchCommand
  <2>3. V[<<m, b>>].args = IF b = NoArgs THEN l.command ELSE b
    BY <1>7, <2>1, <2>2 DEF MatchCommand, Inject
  <2>4. l.command # NoArgs
    BY <2>2, EventTypes, SettingsAssumption DEF WellFormed
  <2> QED BY <1>6, <2>2, <2>3, <2>4 DEF Grows
<1> QED BY <1>6, <1>7, <1>8

\* What a match says of the leaves that its trigger requires.
LEMMA MatchMeans ==
    ASSUME HandlerInv, NEW t \in Threads, Match(t), args[t] \in event[t].message.starts \cup {NoArgs},
           NEW l \in Required(Triggers[at[t]].when)
    PROVE  /\ \E m \in Nodes : IsLeafNode(m) /\ Node[m].leaf = l
           /\ l.type = "command" => /\ l.command \in event[t].message.starts
                                    /\ Result(t).args # NoArgs
           /\ l.type = "time" => AtLeast(since[Triggers[at[t]].name], l.interval)
           /\ l.type = "new_chatter" => IsNew(event[t].user, l.window)
           /\ l.type = "below" => MatchBelow(l, counters, NoArgs).holds
<1> DEFINE e == event[t]
           i == at[t]
           last == since[Triggers[i].name]
<1>1. /\ i \in DOMAIN Triggers /\ Triggers[i].when \in Nodes \cup {NoNode}
      /\ e \in Events /\ args[t] \in ArgsValues /\ Result(t).holds
  BY TriggerIndices, SettingsAssumption DEF Match, HandlerInv, LocalType
<1>2. Result(t) = ResultOf(WhenResults(e, last), Triggers[i].when, args[t])
  BY WhenTrees
<1> HIDE DEF e, last, i
<1>3. l \in Required(Triggers[i].when)
  BY DEF i
<1>4. /\ \E m \in Nodes : IsLeafNode(m) /\ Node[m].leaf = l
      /\ \E b \in ArgsValues : LeafValue(l, b, e, last).holds
      /\ l.type = "command" => l.command \in e.message.starts /\ Result(t).args # NoArgs
  BY <1>1, <1>2, <1>3, HoldsMeans DEF e
<1>5. l.type = "time" => AtLeast(last, l.interval)
  BY <1>4 DEF LeafValue
<1>6. l.type = "new_chatter" => IsNew(e.user, l.window)
  BY <1>4 DEF LeafValue
<1>7. l.type = "below" => MatchBelow(l, counters, NoArgs).holds
  BY <1>4 DEF LeafValue, MatchBelow
<1> QED BY <1>4, <1>5, <1>6, <1>7 DEF e, last, i
-----------------------------------------------------------------------------
\* The part of the state that the collector's cap depends on.
CollectorType ==
    /\ starts \in Nat \ {0}
    /\ counts \in [EventNames -> Nat]
    /\ lines \in [EventNames -> Nat]
    /\ pc \in [Threads -> Labels]
    /\ event \in [Threads -> Events]

\* A thread handles one of its own events.
OwnEvent == \A t \in Threads : pc[t] # "idle" => event[t] \in Inputs[t]

\* A line is in the file and not yet counted.
Pending(type) == \E t \in Threads : pc[t] = "count" /\ event[t].name = type

\* The count leaves room for the line that is pending.
RoomForPending ==
    \A e \in EventNames :
        /\ counts[e] <= MaxPerType
        /\ Pending(e) => counts[e] < MaxPerType

\* The lines of the starts before this one, those counted, and the pending one.
LinesCounted ==
    \A e \in EventNames :
        lines[e] <= MaxPerType * (starts - 1) + counts[e] + (IF Pending(e) THEN 1 ELSE 0)

Inv == CollectorType /\ OwnEvent /\ RoomForPending /\ LinesCounted

\* A step of t that leaves the collector alone.
ElsewhereStep(t) ==
    /\ UNCHANGED <<starts, counts, lines>>
    /\ pc[t] # "count" /\ pc'[t] # "count"
    /\ pc' \in [Threads -> Labels]
    /\ event' \in [Threads -> Events]
    /\ \A u \in Threads \ {t} : pc'[u] = pc[u] /\ event'[u] = event[u]
    /\ pc'[t] # "idle" => event'[t] \in Inputs[t]
-----------------------------------------------------------------------------
\* Init establishes the invariant.
LEMMA InitInv == Init => Inv
<1> SUFFICES ASSUME Init PROVE Inv
  OBVIOUS
<1>1. CollectorType
  BY KnownEvents DEF Init, CollectorType, Labels
<1>2. OwnEvent /\ \A e : ~Pending(e)
  BY DEF Init, OwnEvent, Pending
<1>3. RoomForPending
  BY <1>2, PipelineAssumption DEF Init, RoomForPending
<1>4. LinesCounted
  BY <1>2, PipelineAssumption DEF Init, LinesCounted
<1> QED BY <1>1, <1>2, <1>3, <1>4 DEF Inv

\* One start's share: the invariant bounds the file.
LEMMA InvImpliesCap == Inv => CapPerStart
<1> SUFFICES ASSUME Inv, NEW e \in EventNames
             PROVE  lines[e] <= MaxPerType * starts
  BY DEF CapPerStart
<1>1. /\ MaxPerType \in Nat /\ starts \in Nat \ {0}
      /\ counts[e] \in Nat /\ lines[e] \in Nat
  BY PipelineAssumption DEF Inv, CollectorType
<1>2. lines[e] <= MaxPerType * (starts - 1) + MaxPerType
  <2>1. CASE Pending(e)
    BY <1>1, <2>1 DEF Inv, RoomForPending, LinesCounted
  <2>2. CASE ~Pending(e)
    BY <1>1, <2>2 DEF Inv, RoomForPending, LinesCounted
  <2> QED BY <2>1, <2>2
<1>3. MaxPerType * (starts - 1) + MaxPerType = MaxPerType * starts
  BY <1>1
<1> QED BY <1>1, <1>2, <1>3

\* A step elsewhere changes nothing that the cap depends on.
LEMMA ElsewhereInv ==
    ASSUME Inv, NEW t \in Threads, ElsewhereStep(t)
    PROVE  Inv'
<1>1. CollectorType'
  BY DEF Inv, CollectorType, ElsewhereStep
<1>2. OwnEvent'
  BY DEF Inv, OwnEvent, ElsewhereStep
<1>3. \A e : Pending(e)' <=> Pending(e)
  BY DEF Pending, ElsewhereStep
<1>4. RoomForPending'
  BY <1>3 DEF Inv, RoomForPending, ElsewhereStep
<1>5. LinesCounted'
  BY <1>3 DEF Inv, LinesCounted, ElsewhereStep
<1> QED BY <1>1, <1>2, <1>4, <1>5 DEF Inv

\* The call of t that ends, after a step that leaves the collector alone.
LEMMA ReturnIsElsewhere ==
    ASSUME Inv, NEW t \in Threads, Return(t), pc[t] # "count",
           UNCHANGED <<starts, counts, lines>>
    PROVE  ElsewhereStep(t)
BY KnownEvents DEF Inv, CollectorType, Return, Goto, ElsewhereStep, Labels

\* Resolving triggers and what they lead to happens elsewhere.
LEMMA ResolveIsElsewhere ==
    ASSUME Inv, NEW t \in Threads, Resolve(t)
    PROVE  ElsewhereStep(t)
<1> USE DEF Inv, CollectorType, OwnEvent, ElsewhereStep, Labels, memory, local, Goto
<1>1. CASE Filtered(t)
  BY <1>1 DEF Filtered
<1>2. CASE NoMatch(t)
  BY <1>2 DEF NoMatch
<1>3. CASE Match(t)
  BY <1>3 DEF Match
<1>4. CASE Stamp(t)
  BY <1>4 DEF Stamp
<1>5. CASE Resolved(t)
  BY <1>5 DEF Resolved
<1> QED BY <1>1, <1>2, <1>3, <1>4, <1>5 DEF Resolve

\* So does the evaluation of the reaction trees.
LEMMA ReactIsElsewhere ==
    ASSUME Inv, NEW t \in Threads, React(t)
    PROVE  ElsewhereStep(t)
<1>1. CASE EnterSeq(t) \/ EnterIf(t) \/ EnterSwitch(t)
  BY <1>1 DEF Inv, CollectorType, OwnEvent, ElsewhereStep, memory, EnterSeq, EnterIf,
              EnterSwitch, EnterNode, Reaches
<1>2. CASE Execute(t) \/ Query(t)
  BY <1>2 DEF Inv, CollectorType, OwnEvent, ElsewhereStep, memory, Execute, Query,
              RunsCounter, Runs, Reaches
<1>3. CASE CreateCounter(t)
  BY <1>3 DEF Inv, CollectorType, OwnEvent, ElsewhereStep, local, CreateCounter, Runs, Reaches
<1>4. CASE ReadCounter(t)
  BY <1>4 DEF Inv, CollectorType, OwnEvent, ElsewhereStep, memory, Labels, Goto,
              ReadCounter, RunsCounter, Runs, Reaches
<1>5. CASE AddToCounter(t) \/ ResetCounter(t)
  <2>1. /\ pc[t] \in {"add", "execute"} /\ Saved(t)
        /\ UNCHANGED <<starts, counts, lines>>
    BY <1>5 DEF AddToCounter, ResetCounter, RunsCounter, Runs, Reaches
  <2>2. CASE Return(t)
    BY <2>1, <2>2, ReturnIsElsewhere
  <2>3. CASE ~Return(t)
    BY <2>1, <2>3 DEF Inv, CollectorType, OwnEvent, ElsewhereStep, Labels, Goto, Saved
  <2> QED BY <2>2, <2>3
<1>6. CASE ExecuteRaises(t)
  BY <1>6, ReturnIsElsewhere DEF ExecuteRaises, Reaches, memory
<1> QED BY <1>1, <1>2, <1>3, <1>4, <1>5, <1>6 DEF React

\* And the start and the end of a call.
LEMMA EndsAreElsewhere ==
    ASSUME Inv, NEW t \in Threads,
           Receive(t) \/ CapReached(t) \/ AppendFails(t) \/ Finish(t)
    PROVE  ElsewhereStep(t)
<1>1. CASE Receive(t)
  <2>1. PICK e \in Inputs[t] : event' = [event EXCEPT ![t] = e]
    BY <1>1 DEF Receive
  <2>2. e \in Events
    BY KnownEvents
  <2> QED BY <1>1, <2>1, <2>2 DEF Inv, CollectorType, Receive, ElsewhereStep, memory, Labels, Goto
<1>2. CASE CapReached(t)
  BY <1>2 DEF Inv, CollectorType, OwnEvent, ElsewhereStep, CapReached, Labels, Goto, memory, local
<1>3. CASE AppendFails(t)
  BY <1>3, ReturnIsElsewhere DEF AppendFails, memory
<1>4. CASE Finish(t)
  BY <1>4, ReturnIsElsewhere DEF Finish, Record, NothingToRecord, memory
<1> QED BY <1>1, <1>2, <1>3, <1>4
-----------------------------------------------------------------------------
\* The append: the line is in the file and pending, and there is room for it.
LEMMA AppendInv ==
    ASSUME Inv, OneThreadPerType, NEW t \in Threads, AppendLine(t)
    PROVE  Inv'
<1> DEFINE type == event[t].name
<1>1. /\ pc[t] = "collect" /\ counts[type] < MaxPerType
      /\ type \in EventNames /\ event[t] \in Inputs[t]
      /\ MaxPerType \in Nat /\ counts[type] \in Nat
  BY KnownEvents, PipelineAssumption DEF AppendLine, Full, Inv, CollectorType, OwnEvent
<1>2. /\ UNCHANGED <<starts, counts, event>>
      /\ lines' = [lines EXCEPT ![type] = @ + 1]
      /\ pc' = [pc EXCEPT ![t] = "count"]
  BY DEF AppendLine, Goto, memory, local
<1>3. CollectorType' /\ OwnEvent'
  BY <1>1, <1>2 DEF Inv, CollectorType, OwnEvent, Labels
<1>4. ~Pending(type)
  BY <1>1 DEF Inv, OwnEvent, Pending, OneThreadPerType
<1>5. \A e \in EventNames : Pending(e)' <=> Pending(e) \/ e = type
  BY <1>1, <1>2 DEF Pending, Inv, CollectorType
<1>6. RoomForPending'
  BY <1>1, <1>2, <1>5 DEF Inv, RoomForPending
<1>7. LinesCounted'
  <2> SUFFICES ASSUME NEW e \in EventNames
               PROVE  lines'[e] <= MaxPerType * (starts' - 1) + counts'[e]
                                     + (IF Pending(e)' THEN 1 ELSE 0)
    BY DEF LinesCounted
  <2>1. CASE e = type
    <3>1. lines[e] <= MaxPerType * (starts - 1) + counts[e]
      BY <1>1, <1>4, <2>1 DEF Inv, CollectorType, LinesCounted
    <3> QED BY <1>1, <1>2, <1>5, <2>1, <3>1 DEF Inv, CollectorType
  <2>2. CASE e # type
    BY <1>2, <1>5, <2>2 DEF Inv, CollectorType, LinesCounted
  <2> QED BY <2>1, <2>2
<1> QED BY <1>3, <1>6, <1>7 DEF Inv

\* The count: the pending line becomes a counted one.
LEMMA CountInv ==
    ASSUME Inv, OneThreadPerType, NEW t \in Threads, CountLine(t)
    PROVE  Inv'
<1> DEFINE type == event[t].name
<1>1. /\ pc[t] = "count" /\ type \in EventNames /\ event[t] \in Inputs[t]
      /\ MaxPerType \in Nat /\ counts[type] \in Nat
  BY KnownEvents, PipelineAssumption DEF CountLine, Inv, CollectorType, OwnEvent
<1>2. /\ UNCHANGED <<starts, lines, event>>
      /\ counts' = [counts EXCEPT ![type] = @ + 1]
      /\ pc' = [pc EXCEPT ![t] = "resolve"]
  BY DEF CountLine, Goto, local
<1>3. CollectorType' /\ OwnEvent'
  BY <1>1, <1>2 DEF Inv, CollectorType, OwnEvent, Labels
<1>4. Pending(type) /\ counts[type] < MaxPerType
  BY <1>1 DEF Inv, RoomForPending, Pending
<1>5. \A e \in EventNames : Pending(e)' <=> Pending(e) /\ e # type
  BY <1>1, <1>2 DEF Pending, Inv, CollectorType, OwnEvent, OneThreadPerType
<1>6. RoomForPending'
  BY <1>1, <1>2, <1>4, <1>5 DEF Inv, CollectorType, RoomForPending
<1>7. LinesCounted'
  <2> SUFFICES ASSUME NEW e \in EventNames
               PROVE  lines'[e] <= MaxPerType * (starts' - 1) + counts'[e]
                                     + (IF Pending(e)' THEN 1 ELSE 0)
    BY DEF LinesCounted
  <2>1. CASE e = type
    <3>1. lines[e] <= MaxPerType * (starts - 1) + counts[e] + 1
      BY <1>4, <2>1 DEF Inv, LinesCounted
    <3> QED BY <1>1, <1>2, <1>5, <2>1, <3>1 DEF Inv, CollectorType
  <2>2. CASE e # type
    BY <1>2, <1>5, <2>2 DEF Inv, CollectorType, LinesCounted
  <2> QED BY <2>1, <2>2
<1> QED BY <1>3, <1>6, <1>7 DEF Inv

\* A restart forgets the counts and what is pending: the next share begins.
LEMMA RestartInv ==
    ASSUME Inv, Restart
    PROVE  Inv'
<1>1. starts \in Nat \ {0} /\ starts' = starts + 1 /\ UNCHANGED lines
  BY DEF Restart, Inv, CollectorType
<1>2. CollectorType' /\ OwnEvent'
  BY KnownEvents DEF Restart, Inv, CollectorType, OwnEvent, Labels
<1>3. \A e \in EventNames : ~Pending(e)' /\ counts'[e] = 0
  BY DEF Restart, Pending
<1>4. RoomForPending'
  BY <1>3, PipelineAssumption DEF RoomForPending
<1>5. \A e \in EventNames : lines[e] <= MaxPerType * starts
  BY InvImpliesCap DEF CapPerStart
<1>6. starts' - 1 = starts
  BY <1>1
<1>7. MaxPerType * starts \in Nat
  BY <1>1, PipelineAssumption
<1>8. LinesCounted'
  BY <1>1, <1>3, <1>5, <1>6, <1>7 DEF LinesCounted
<1> QED BY <1>2, <1>4, <1>8 DEF Inv

\* Every step keeps the invariant.
LEMMA NextInv ==
    ASSUME Inv, OneThreadPerType, [Next]_vars
    PROVE  Inv'
<1>1. ASSUME NEW t \in Threads, HandleEvent(t)
      PROVE  Inv'
  <2>1. CASE Receive(t) \/ CapReached(t) \/ AppendFails(t) \/ Finish(t)
    BY <2>1, EndsAreElsewhere, ElsewhereInv
  <2>2. CASE AppendLine(t)
    BY <2>2, AppendInv
  <2>3. CASE CountLine(t)
    BY <2>3, CountInv
  <2>4. CASE Resolve(t)
    BY <2>4, ResolveIsElsewhere, ElsewhereInv
  <2>5. CASE React(t)
    BY <2>5, ReactIsElsewhere, ElsewhereInv
  <2> QED BY <1>1, <2>1, <2>2, <2>3, <2>4, <2>5 DEF HandleEvent, Collect
<1>2. ASSUME UNCHANGED <<starts, counts, lines, pc, event>>
      PROVE  Inv'
  BY <1>2 DEF Inv, CollectorType, OwnEvent, RoomForPending, LinesCounted, Pending
<1>3. CASE Clock
  BY <1>2, <1>3 DEF Clock, local
<1>4. CASE Restart
  BY <1>4, RestartInv
<1>5. CASE UNCHANGED vars
  BY <1>2, <1>5 DEF vars
<1> QED BY <1>1, <1>3, <1>4, <1>5 DEF Next

\* The file of silent mode is bounded by the starts of the bot: max_per_type lines
\* of a type each (silent_collector.py:46-52), also when the bot ends between the
\* append and the count, and when appends fail, if each type has its thread.
THEOREM CapPerStartHolds == OneThreadPerType => (Spec => []CapPerStart)
<1> SUFFICES ASSUME OneThreadPerType PROVE Spec => []CapPerStart
  OBVIOUS
<1>1. Init => Inv
  BY InitInv
<1>2. Inv /\ [Next]_vars => Inv'
  BY NextInv
<1>3. Inv => CapPerStart
  BY InvImpliesCap
<1> QED BY <1>1, <1>2, <1>3, PTL DEF Spec
-----------------------------------------------------------------------------
(* The types, and what holds of each thread's args, of every specification.  *)

\* The args of an event were cut off by a command that its message starts with, and
\* between two events there is nothing left of the last one.
ArgsFit ==
    \A t \in Threads :
        /\ args[t] \in event[t].message.starts \cup {NoArgs}
        /\ pc[t] = "idle" => args[t] = NoArgs /\ todo[t] = <<>>

LEMMA ResultFits ==
    ASSUME HandlerInv, NEW t \in Threads, args[t] \in event[t].message.starts \cup {NoArgs},
           NoMatch(t) \/ Match(t)
    PROVE  /\ Result(t).args \in event[t].message.starts \cup {NoArgs}
           /\ args[t] # NoArgs => Result(t).args = args[t]
           /\ args' = [args EXCEPT ![t] = Result(t).args] /\ UNCHANGED event
<1>1. /\ at[t] \in DOMAIN Triggers /\ Triggers[at[t]].when \in Nodes \cup {NoNode}
      /\ event[t] \in Events /\ args[t] \in ArgsValues
  BY TriggerIndices, SettingsAssumption DEF NoMatch, Match, HandlerInv, LocalType
<1>2. Result(t) = ResultOf(WhenResults(event[t], since[Triggers[at[t]].name]),
                           Triggers[at[t]].when, args[t])
  BY WhenTrees
<1> DEFINE e == event[t]
           last == since[Triggers[at[t]].name]
           root == Triggers[at[t]].when
<1>4. /\ e \in Events /\ root \in Nodes \cup {NoNode} /\ args[t] \in ArgsValues
      /\ args[t] \in e.message.starts \cup {NoArgs}
      /\ Result(t) = ResultOf(WhenResults(e, last), root, args[t])
  BY <1>1, <1>2
<1> HIDE DEF e, last, root
<1>3. /\ Result(t).args \in e.message.starts \cup {NoArgs}
      /\ args[t] # NoArgs => Result(t).args = args[t]
  BY <1>4, TreeArgs
<1> USE DEF e
<1> QED BY <1>3 DEF NoMatch, Match

LEMMA EnterFits ==
    ASSUME HandlerInv, NEW t \in Threads, args[t] \in event[t].message.starts \cup {NoArgs},
           Enters(t)
    PROVE  /\ args' \in [Threads -> ArgsValues]
           /\ args'[t] \in event[t].message.starts \cup {NoArgs}
           /\ args[t] # NoArgs => args'[t] = args[t]
           /\ UNCHANGED <<pc, event>> /\ pc[t] = "execute" /\ todo[t] # <<>>
           /\ \E ids \in Seq(ReactionNodes) : Replace(t, ids)
<1>1. args \in [Threads -> ArgsValues]
  BY DEF HandlerInv, LocalType
<1>2. /\ UNCHANGED <<pc, event>> /\ pc[t] = "execute" /\ todo[t] # <<>>
      /\ Top(t).kind \in {"seq", "if", "switch"}
      /\ \E holds, value : Replace(t, Unfold(Top(t), holds, value))
  BY DEF Enters, EnterSeq, EnterIf, EnterSwitch, EnterNode, Reaches
<1>3. Head(todo[t]).node \in ReactionNodes
  BY <1>2, TopType DEF HandlerInv
<1>4. \E ids \in Seq(ReactionNodes) : Replace(t, ids)
  BY <1>2, <1>3, UnfoldType DEF Top
<1>5. CASE args' = args
  BY <1>1, <1>2, <1>4, <1>5
<1>6. CASE EnterIf(t)
  <2> DEFINE r == Condition(t)
  <2>1. Top(t).when \in Nodes \cup {NoNode}
    BY <1>3, <1>6, SettingsAssumption DEF WellFormedReactions, EnterIf, Reaches, Top
  <2>2. event[t] \in Events /\ args[t] \in ArgsValues
    BY DEF HandlerInv, LocalType
  <2>3. r = ResultOf(WhenResults(event[t], Never), Top(t).when, args[t])
    BY WhenTrees
  <2> DEFINE e == event[t]
             root == Top(t).when
  <2>7. /\ e \in Events /\ root \in Nodes \cup {NoNode} /\ args[t] \in ArgsValues
        /\ args[t] \in e.message.starts \cup {NoArgs}
        /\ r = ResultOf(WhenResults(e, Never), root, args[t])
    BY <2>1, <2>2, <2>3
  <2> HIDE DEF r, e, root
  <2>4. /\ r.args \in e.message.starts \cup {NoArgs}
        /\ args[t] # NoArgs => r.args = args[t]
    BY <2>7, TreeArgs
  <2> USE DEF e
  <2>5. args' = [args EXCEPT ![t] = r.args]
    BY <1>6 DEF EnterIf, r
  <2>6. event[t].message.starts \cup {NoArgs} \subseteq ArgsValues
    BY <2>2, EventTypes DEF ArgsValues
  <2> QED BY <1>1, <1>2, <1>4, <2>4, <2>5, <2>6
<1> QED BY <1>5, <1>6 DEF Enters, EnterSeq, EnterSwitch

\* Args change only where a tree is evaluated.
LEMMA ArgsFitInv ==
    /\ Init => ArgsFit
    /\ HandlerInv /\ ArgsFit /\ [Next]_vars => ArgsFit'
<1>1. Init => ArgsFit
  BY DEF Init, ArgsFit
<1>2. ASSUME HandlerInv, ArgsFit, [Next]_vars PROVE ArgsFit'
  <2> USE <1>2
  <2>1. ASSUME NEW t \in Threads, HandleEvent(t) PROVE ArgsFit'
    <3>1. OthersKept(t)
      BY <2>1, StepKinds
    <3>2. args[t] \in event[t].message.starts \cup {NoArgs} 
          /\ (pc[t] = "idle" => args[t] = NoArgs /\ todo[t] = <<>>)
      BY DEF ArgsFit
    <3> SUFFICES /\ args'[t] \in event'[t].message.starts \cup {NoArgs}
                 /\ pc'[t] = "idle" => args'[t] = NoArgs /\ todo'[t] = <<>>
      BY <3>1 DEF ArgsFit, OthersKept
    <3>3. CASE Begins(t)
      BY <3>2, <3>3 DEF Begins
    <3>4. CASE Quiet(t) \/ Drops(t)
      BY <3>2, <3>4 DEF Quiet, Drops
    <3>5. CASE NoMatch(t) \/ Match(t)
      <4>1. pc'[t] # "idle" /\ args'[t] = Result(t).args /\ event'[t] = event[t]
        BY <3>2, <3>5, ResultFits DEF NoMatch, Match, Goto, HandlerInv, LocalType
      <4> QED BY <3>2, <3>5, <4>1, ResultFits
    <3>6. CASE Stamp(t)
      BY <3>2, <3>6 DEF Stamp, Goto, HandlerInv, LocalType
    <3>7. CASE Enters(t)
      <4>1. pc'[t] = "execute" /\ event'[t] = event[t]
        BY <3>2, <3>7, EnterFits
      <4> QED BY <3>2, <3>7, <4>1, EnterFits
    <3>8. CASE Ends(t)
      BY <3>8 DEF Ends, Return, HandlerInv, LocalType
    <3> QED BY <2>1, <3>3, <3>4, <3>5, <3>6, <3>7, <3>8, StepKinds
  <2>2. CASE Clock
    BY <2>2 DEF ArgsFit, Clock, local
  <2>3. CASE Restart
    BY <2>3 DEF ArgsFit, Restart
  <2>4. CASE UNCHANGED vars
    BY <2>4 DEF ArgsFit, vars
  <2> QED BY <2>1, <2>2, <2>3, <2>4 DEF Next
<1> QED BY <1>1, <1>2

\* What every behaviour of the specification keeps.
PipelineInv == HandlerInv /\ AgesAgree /\ ArgsFit

LEMMA PipelineInvHolds == Spec => []PipelineInv
<1>1. Init => PipelineInv
  BY InitHandler, AgesAgreeInv, ArgsFitInv DEF PipelineInv
<1>2. PipelineInv /\ [Next]_vars => PipelineInv'
  BY NextHandler, AgesAgreeInv, ArgsFitInv DEF PipelineInv
<1> QED BY <1>1, <1>2, PTL DEF Spec
-----------------------------------------------------------------------------
(* Ages: intervals and windows. *)

\* A thread that is about to stamp a trigger found that it applies, and the trigger's
\* last match is an interval ago.
StampAllowed ==
    \A t \in Threads : pc[t] = "stamp" =>
        /\ Applies(Triggers[at[t]], event[t])
        /\ \A l \in RequiredOf(at[t], "time") : AtLeast(fired[at[t]], l.interval)

\* The intervals of the triggers and their windows are numbers.
LEMMA RequiredTimes ==
    ASSUME NEW i \in DOMAIN Triggers, NEW l \in Required(Triggers[i].when)
    PROVE  /\ l.type = "time" => l.interval \in Nat
           /\ l.type = "new_chatter" => l.window \in Nat
<1>1. Triggers[i].when \in Nodes /\ l \in RequiredBy[Triggers[i].when]
  BY RequiredUnfolds, SettingsAssumption
<1>2. PICK m \in Nodes : IsLeafNode(m) /\ Node[m].leaf = l
  BY <1>1, RequiredAreLeaves
<1> QED BY <1>2, SettingsAssumption DEF IsLeafNode

LEMMA StampAllowedInv ==
    ASSUME OneThreadPerTimedTrigger
    PROVE  /\ Init => StampAllowed
           /\ PipelineInv /\ StampAllowed /\ [Next]_vars => StampAllowed'
<1>1. Init => StampAllowed
  BY DEF Init, StampAllowed
<1>2. ASSUME PipelineInv, StampAllowed, [Next]_vars PROVE StampAllowed'
  <2> USE <1>2
  <2>1. HandlerInv /\ MemoryType /\ LocalType /\ Placed /\ AgesAgree
    BY DEF PipelineInv, HandlerInv
  <2>2. ASSUME NEW t \in Threads, HandleEvent(t) PROVE StampAllowed'
    <3>1. OthersKept(t)
      BY <2>1, <2>2, StepKinds
    <3>2. CASE Match(t)
      <4>1. /\ pc' = [pc EXCEPT ![t] = "stamp"] /\ UNCHANGED <<since, event, at, fired>>
            /\ Applies(Triggers[at[t]], event[t]) /\ at[t] \in DOMAIN Triggers
        BY <2>1, <3>2, TriggerIndices DEF Match, Goto, memory, history, LocalType
      <4>2. ASSUME NEW l \in RequiredOf(at[t], "time")
            PROVE  AtLeast(fired[at[t]], l.interval)
        <5>1. l \in Required(Triggers[at[t]].when) /\ l.type = "time"
          BY DEF RequiredOf
        <5>2. AtLeast(since[Triggers[at[t]].name], l.interval)
          BY <2>1, <3>2, <5>1, MatchMeans DEF PipelineInv, ArgsFit
        <5>3. l.interval \in Nat /\ NoYounger(fired[at[t]], since[Triggers[at[t]].name])
          BY <2>1, <4>1, <5>1, RequiredTimes DEF AgesAgree
        <5> QED BY <2>1, <4>1, <5>2, <5>3, AgeOrder, TriggerIndices DEF MemoryType
      <4> QED BY <2>1, <3>1, <4>1, <4>2 DEF StampAllowed, OthersKept, LocalType
    <3>3. CASE Stamp(t)
      <4>1. /\ pc[t] = "stamp" /\ pc'[t] = "resolve" /\ fired' = [fired EXCEPT ![at[t]] = 0]
            /\ at[t] \in DOMAIN Triggers /\ Applies(Triggers[at[t]], event[t])
            /\ event[t] \in Inputs[t]
        BY <2>1, <3>3 DEF Stamp, Goto, LocalType, Placed, StampAllowed
      <4> SUFFICES ASSUME NEW u \in Threads, pc'[u] = "stamp"
                   PROVE  /\ Applies(Triggers[at'[u]], event'[u])
                          /\ \A l \in RequiredOf(at'[u], "time") : AtLeast(fired'[at'[u]], l.interval)
        BY DEF StampAllowed
      <4>2. /\ u # t /\ pc[u] = "stamp" /\ at'[u] = at[u] /\ event'[u] = event[u]
            /\ event[u] \in Inputs[u] /\ at[u] \in DOMAIN Triggers
        BY <2>1, <3>1, <4>1 DEF OthersKept, Placed
      <4>3. /\ Applies(Triggers[at[u]], event[u])
            /\ \A l \in RequiredOf(at[u], "time") : AtLeast(fired[at[u]], l.interval)
        BY <4>2 DEF StampAllowed
      <4>4. RequiredOf(at[u], "time") # {} => at[u] # at[t]
        BY <4>1, <4>2, <4>3 DEF OneThreadPerTimedTrigger, TimedTriggers
      <4>5. RequiredOf(at[u], "time") # {} => fired'[at[u]] = fired[at[u]]
        BY <2>1, <4>1, <4>2, <4>4 DEF MemoryType
      <4> QED BY <4>2, <4>3, <4>5
    <3>4. CASE pc'[t] # "stamp" /\ UNCHANGED fired
      BY <3>1, <3>4 DEF StampAllowed, OthersKept
    <3>5. Begins(t) \/ Quiet(t) \/ NoMatch(t) \/ Enters(t) \/ Drops(t) \/ Ends(t)
          => pc'[t] # "stamp" /\ UNCHANGED fired
      BY <2>1 DEF Begins, Quiet, NoMatch, Enters, EnterSeq, EnterIf, EnterSwitch, EnterNode, Reaches,
             Drops, Ends, Return, Goto, history, LocalType
    <3> QED BY <2>1, <2>2, <3>2, <3>3, <3>4, <3>5, StepKinds
  <2>3. CASE Clock
    <3> SUFFICES ASSUME NEW t \in Threads, pc[t] = "stamp", NEW l \in RequiredOf(at[t], "time")
                 PROVE  AtLeast(fired'[at[t]], l.interval)
      BY <2>3 DEF Clock, local, StampAllowed
    <3>1. at[t] \in DOMAIN Triggers /\ AtLeast(fired[at[t]], l.interval)
      BY <2>1 DEF Placed, StampAllowed
    <3>2. l.interval \in Nat
      BY <3>1, RequiredTimes DEF RequiredOf
    <3> QED BY <2>1, <2>3, <3>1, <3>2, AgeOrder DEF Clock, MemoryType
  <2>4. CASE Restart
    BY <2>4 DEF StampAllowed, Restart
  <2>5. CASE UNCHANGED vars
    BY <2>5 DEF StampAllowed, vars
  <2> QED BY <2>2, <2>3, <2>4, <2>5 DEF Next
<1> QED BY <1>1, <1>2

\* A trigger that requires a time leaf matches at most once per interval
\* (trigger_resolver.py:51, 96), whatever the trees, the intervals and the other
\* triggers, if no two threads bring events it applies to: nobody can then stamp it
\* between its evaluation and its stamp.
THEOREM OncePerIntervalHolds == OneThreadPerTimedTrigger => (Spec => OncePerInterval)
<1> SUFFICES ASSUME OneThreadPerTimedTrigger PROVE Spec => OncePerInterval
  OBVIOUS
<1>1. Init => StampAllowed
  BY StampAllowedInv
<1>2. PipelineInv /\ StampAllowed /\ [Next]_vars => StampAllowed'
  BY StampAllowedInv
<1>3. StampAllowed => \A t \in Threads : \A i \in DOMAIN Triggers : Stamps(t, i) =>
          \A l \in RequiredOf(i, "time") : AtLeast(fired[i], l.interval)
  BY DEF StampAllowed, Stamps
<1> QED BY <1>1, <1>2, <1>3, PipelineInvHolds, PTL DEF Spec, OncePerInterval

\* A leaf at the root is what the tree is worth.
LEMMA LeafTree ==
    ASSUME NEW e \in Events, NEW last, NEW n \in Nodes, IsLeafNode(n), NEW a \in ArgsValues
    PROVE  ResultOf(WhenResults(e, last), n, a) = LeafValue(Node[n].leaf, a, e, last)
<1> DEFINE E == WhenResults(e, last)
           V == LeafResults(e, last)
<1>1. Evaluates(Node, E, V)
  BY WhenEvaluates
<1>2. V[<<n, a>>] = LeafValue(Node[n].leaf, a, e, last)
  BY DEF LeafResults
<1>3. n # NoNode
  BY SettingsAssumption DEF WellFormed
<1> HIDE DEF E, V
<1>4. E[<<n, a>>] = NodeResult(Node, n, a, E, V)
  BY <1>1 DEF Evaluates
<1>5. NodeResult(Node, n, a, E, V) = V[<<n, a>>]
  BY DEF NodeResult, AtNode, IsLeafNode, Normalized
<1> QED BY <1>2, <1>3, <1>4, <1>5 DEF ResultOf, E

\* A chatter who has been silent for the window is greeted (bot.py:802-805), also
\* when calls raise and when other threads handle other messages: the tracker's
\* timestamp is never younger than the last message, and is not yet that of this one.
THEOREM NewcomerIsGreetedHolds == Spec => NewcomerIsGreeted
<1> DEFINE Missed(t, i) ==
        LET root == Triggers[i].when
        IN  /\ pc[t] = "resolve" /\ pc'[t] = "resolve" /\ at[t] = i /\ at'[t] = i + 1
            /\ Applies(Triggers[i], event[t])
            /\ event[t].user # NoUser
            /\ root \in Nodes /\ Node[root].kind = "leaf"
            /\ Node[root].leaf.type = "new_chatter" /\ Node[root].leaf.window > 0
            /\ AtLeast(spoke[event[t].user], Node[root].leaf.window)
<1>1. ASSUME PipelineInv, [Next]_vars, NEW t \in Threads, NEW i \in DOMAIN Triggers, Missed(t, i)
      PROVE  FALSE
  <2> DEFINE root == Triggers[i].when
             leaf == Node[root].leaf
             last == since[Triggers[i].name]
             user == event[t].user
  <2>1. HandlerInv /\ MemoryType /\ LocalType /\ AgesAgree
    BY <1>1 DEF PipelineInv, HandlerInv
  <2>2. /\ pc[t] = "resolve" /\ pc'[t] = "resolve" /\ at[t] = i /\ at'[t] = i + 1
        /\ Applies(Triggers[i], event[t]) /\ user # NoUser
        /\ root \in Nodes /\ IsLeafNode(root) /\ leaf.type = "new_chatter"
        /\ leaf.window > 0 /\ AtLeast(spoke[user], leaf.window)
    BY <1>1 DEF IsLeafNode
  <2>3. i # i + 1
    BY TriggerIndices
  <2>4. PICK u \in Threads : HandleEvent(u)
    <3>1. ~Clock /\ ~Restart /\ ~UNCHANGED vars
      BY <2>2, <2>3 DEF Clock, Restart, vars, local
    <3> QED BY <1>1, <3>1 DEF Next
  <2>5. u = t
    BY <2>1, <2>2, <2>3, <2>4, StepKinds DEF OthersKept
  <2>6. NoMatch(t)
    <3>1. ~Begins(t) /\ ~Match(t) /\ ~Stamp(t) /\ ~Drops(t) /\ ~Enters(t) /\ ~Ends(t)
      BY <2>1, <2>2 DEF Begins, Match, Stamp, Drops, Enters, EnterSeq, EnterIf, EnterSwitch,
                        Reaches, Ends, Return, Goto, LocalType
    <3>2. ~Quiet(t)
      BY <2>2 DEF Quiet, Filtered
    <3> QED BY <2>1, <2>4, <2>5, <3>1, <3>2, StepKinds
  <2>7. /\ event[t] \in Events /\ args[t] \in ArgsValues /\ user \in Users
    <3>1. event[t] \in Events /\ args[t] \in ArgsValues
      BY <2>1 DEF LocalType
    <3> QED BY <2>2, <3>1, EventTypes
  <2>8. Result(t) = LeafValue(leaf, args[t], event[t], last)
    <3>1. Result(t) = ResultOf(WhenResults(event[t], last), root, args[t])
      BY <2>2, WhenTrees
    <3> HIDE DEF last, root
    <3> QED BY <2>2, <2>7, <3>1, LeafTree
  <2>9. ~AtLeast(silence[user], leaf.window)
    <3>1. ~Result(t).holds
      BY <2>6 DEF NoMatch
    <3> HIDE DEF leaf
    <3>2. Result(t) = [holds |-> IsNew(event[t].user, leaf.window), args |-> args[t]]
      BY <2>2, <2>8 DEF LeafValue
    <3>3. ~IsNew(event[t].user, leaf.window)
      BY <3>1, <3>2
    <3> QED BY <2>2, <3>3 DEF IsNew
  <2>10. NoYounger(silence[user], spoke[user]) /\ silence[user] \in Ages /\ spoke[user] \in Ages
    BY <2>1, <2>7 DEF AgesAgree, MemoryType
  <2>11. leaf.window \in Nat
    BY <2>2, SettingsAssumption DEF IsLeafNode
  <2> QED BY <2>2, <2>9, <2>10, <2>11, AgeOrder
<1>2. PipelineInv /\ [Next]_vars =>
        \A t \in Threads : \A i \in DOMAIN Triggers : ~Missed(t, i)
  BY <1>1
<1>3. PipelineInv /\ [Next]_vars => \A t \in Threads : \A i \in DOMAIN Triggers :
        LET root == Triggers[i].when
        IN  /\ pc[t] = "resolve" /\ pc'[t] = "resolve" /\ at[t] = i /\ at'[t] = i + 1
            /\ Applies(Triggers[i], event[t])
            /\ event[t].user # NoUser
            /\ root \in Nodes /\ Node[root].kind = "leaf"
            /\ Node[root].leaf.type = "new_chatter" /\ Node[root].leaf.window > 0
            => ~AtLeast(spoke[event[t].user], Node[root].leaf.window)
  BY <1>2
<1> QED BY <1>3, PipelineInvHolds, PTL DEF Spec, NewcomerIsGreeted

\* No call that handles a chat message raises.
NoChatCallRaises == [][\A t \in Threads : Raises(t) => ~IsChat(event[t])]_vars

\* The tracker knows each chatter's last message.
Tracked == \A u \in Users : spoke[u] = silence[u]

LEMMA TrackedInv ==
    /\ Init => Tracked
    /\ HandlerInv /\ Tracked /\ [Next]_vars
         /\ [\A t \in Threads : Raises(t) => ~IsChat(event[t])]_vars => Tracked'
<1>1. Init => Tracked
  BY DEF Init, Tracked
<1>2. ASSUME HandlerInv, Tracked, [Next]_vars,
             [\A t \in Threads : Raises(t) => ~IsChat(event[t])]_vars
      PROVE  Tracked'
  <2> USE <1>2
  <2>1. MemoryType /\ LocalType
    BY DEF HandlerInv
  <2>2. ASSUME NEW t \in Threads, HandleEvent(t) PROVE Tracked'
    <3>1. CASE Ends(t)
      <4>1. /\ spoke' = [u \in Users |-> IF event[t].name = "chat.message" /\ event[t].user = u
                                       THEN 0 ELSE spoke[u]]
            /\ pc[t] # "idle" /\ pc' = [pc EXCEPT ![t] = "idle"]
        BY <3>1 DEF Ends, Return, Goto
      <4>2. CASE Record(t)
        <5>1. /\ silence' = [silence EXCEPT ![event[t].user] = 0]
              /\ event[t].name = "chat.message" /\ event[t].user # NoUser
          BY <4>2 DEF Record, IsChat
        <5> QED BY <2>1, <4>1, <5>1 DEF Tracked, MemoryType
      <4>3. CASE UNCHANGED silence /\ (Raises(t) \/ NothingToRecord(t))
        <5>1. pc' # pc
          BY <2>1, <4>1 DEF LocalType
        <5>2. ~IsChat(event[t])
          BY <4>3, <5>1 DEF NothingToRecord, vars
        <5>3. \A u \in Users : ~(event[t].name = "chat.message" /\ event[t].user = u)
          BY <5>2, PipelineAssumption DEF IsChat
        <5> QED BY <4>1, <4>3, <5>3 DEF Tracked
      <4> QED BY <3>1, <4>2, <4>3 DEF Ends
    <3>2. Begins(t) \/ Quiet(t) \/ NoMatch(t) \/ Match(t) \/ Stamp(t) \/ Enters(t) \/ Drops(t)
          => UNCHANGED <<silence, spoke>>
      BY DEF Begins, Quiet, NoMatch, Match, Stamp, Enters, EnterSeq, EnterIf, EnterSwitch, EnterNode,
             Drops, memory, history
    <3>3. CASE UNCHANGED <<silence, spoke>>
      BY <3>3 DEF Tracked
    <3> QED BY <2>2, <3>1, <3>2, <3>3, StepKinds
  <2>3. CASE Clock
    BY <2>3 DEF Tracked, Clock
  <2>4. CASE Restart
    BY <2>4 DEF Tracked, Restart
  <2>5. CASE UNCHANGED vars
    BY <2>5 DEF Tracked, vars
  <2> QED BY <2>2, <2>3, <2>4, <2>5 DEF Next
<1> QED BY <1>1, <1>2

\* A thread that goes from the resolver to the stamp has a match.
LEMMA MatchesAreMatches ==
    ASSUME HandlerInv, [Next]_vars, NEW t \in Threads, pc[t] = "resolve", pc'[t] = "stamp"
    PROVE  Match(t)
<1>1. LocalType
  BY DEF HandlerInv
<1>2. PICK u \in Threads : HandleEvent(u)
  <2>1. ~Clock /\ ~Restart /\ ~UNCHANGED vars
    BY DEF Clock, Restart, vars
  <2> QED BY <2>1 DEF Next
<1>3. u = t
  BY <1>2, StepKinds DEF OthersKept
<1>4. ~Begins(t) /\ ~Quiet(t) /\ ~NoMatch(t) /\ ~Stamp(t) /\ ~Enters(t) /\ ~Drops(t) /\ ~Ends(t)
  BY <1>1 DEF Begins, Quiet, NoMatch, Stamp, Enters, EnterSeq, EnterIf, EnterSwitch, Reaches,
              Drops, Ends, Return, Goto, LocalType
<1> QED BY <1>2, <1>3, <1>4, StepKinds

\* A chatter is greeted only after a window without a message from them, in every
\* behaviour in which no call that handles a chat message raises: each of these
\* calls then records its chatter (bot.py:802-805).
THEOREM GreetedOncePerWindowHolds == Spec /\ NoChatCallRaises => GreetedOncePerWindow
<1>1. Init => Tracked
  BY TrackedInv
<1>2. HandlerInv /\ Tracked /\ [Next]_vars
        /\ [\A t \in Threads : Raises(t) => ~IsChat(event[t])]_vars => Tracked'
  BY TrackedInv
<1>3. ASSUME PipelineInv, Tracked, [Next]_vars, NEW t \in Threads, NEW i \in DOMAIN Triggers,
             Matches(t, i), NEW l \in RequiredOf(i, "new_chatter")
      PROVE  AtLeast(spoke[event[t].user], l.window)
  <2>1. HandlerInv /\ LocalType
    BY <1>3 DEF PipelineInv, HandlerInv
  <2>2. Match(t) /\ at[t] = i
    BY <1>3, <2>1, MatchesAreMatches DEF Matches
  <2>3. l \in Required(Triggers[at[t]].when) /\ l.type = "new_chatter"
    BY <1>3, <2>2 DEF RequiredOf
  <2>4. IsNew(event[t].user, l.window)
    BY <1>3, <2>1, <2>2, <2>3, MatchMeans DEF PipelineInv, ArgsFit
  <2>5. event[t].user \in Users
    BY <2>1, <2>4, EventTypes DEF IsNew, LocalType
  <2> QED BY <1>3, <2>4, <2>5 DEF IsNew, Tracked
<1>4. PipelineInv /\ Tracked /\ [Next]_vars =>
        \A t \in Threads : \A i \in DOMAIN Triggers : Matches(t, i) =>
            \A l \in RequiredOf(i, "new_chatter") : AtLeast(spoke[event[t].user], l.window)
  BY <1>3
<1>5. PipelineInv => HandlerInv
  BY DEF PipelineInv
<1> QED BY <1>1, <1>2, <1>4, <1>5, PipelineInvHolds, PTL
        DEF Spec, NoChatCallRaises, GreetedOncePerWindow
-----------------------------------------------------------------------------
(* What is left of the reactions of an event. *)

\* What a match adds.
LEMMA MatchTodo ==
    ASSUME HandlerInv, NEW t \in Threads, Match(t)
    PROVE  \A k \in DOMAIN todo'[t] :
              \/ \E j \in DOMAIN todo[t] : todo'[t][k] = todo[t][j]
              \/ /\ todo'[t][k] = [trigger |-> at[t], node |-> Triggers[at[t]].reactions]
                 /\ Triggers[at[t]].reactions # NoNode
<1> DEFINE old == todo[t]
           new == Collected(at[t])
<1>1. todo'[t] = old \o new /\ old \in Seq(Reactions)
  BY DEF Match, HandlerInv, LocalType
<1>2. CASE Triggers[at[t]].reactions = NoNode
  <2>1. new = <<>>
    BY <1>2 DEF Collected
  <2>2. todo'[t] = old
    BY <1>1, <2>1, ConcatEmptySeq
  <2> QED BY <2>2
<1>3. CASE Triggers[at[t]].reactions # NoNode
  <2> DEFINE x == [trigger |-> at[t], node |-> Triggers[at[t]].reactions]
  <2>1. new = <<x>>
    BY <1>3 DEF Collected
  <2> HIDE DEF x, old, new, Reactions
  <2>2. /\ Len(old) \in Nat /\ DOMAIN old = 1..Len(old)
        /\ DOMAIN (old \o <<x>>) = 1..(Len(old) + 1)
        /\ \A k \in 1..(Len(old) + 1) : (old \o <<x>>)[k] = IF k <= Len(old) THEN old[k] ELSE x
    <3>1. old \in Seq(Reactions)
      BY <1>1
    <3>2. old \o <<x>> = Append(old, x)
      BY <3>1
    <3> QED BY <3>1, <3>2
  <2>3. \A k \in DOMAIN todo'[t] : (\E j \in DOMAIN old : todo'[t][k] = old[j]) \/ todo'[t][k] = x
    BY <1>1, <2>1, <2>2
  <2> QED BY <1>3, <2>3 DEF x, old
<1> QED BY <1>2, <1>3

\* The reactions that are left are of triggers whose commands the message starts with,
\* and args are set if there are any.
OwnCommands ==
    \A t \in Threads : \A k \in DOMAIN todo[t] :
        \A l \in RequiredOf(todo[t][k].trigger, "command") :
            l.command \in event[t].message.starts /\ args[t] # NoArgs

LEMMA OwnCommandsInv ==
    /\ Init => OwnCommands
    /\ PipelineInv /\ OwnCommands /\ [Next]_vars => OwnCommands'
<1>0. DOMAIN <<>> = {}
  OBVIOUS
<1>1. Init => OwnCommands
  BY <1>0 DEF Init, OwnCommands
<1>2. ASSUME PipelineInv, OwnCommands, [Next]_vars PROVE OwnCommands'
  <2> USE <1>2
  <2>1. HandlerInv /\ LocalType
    BY DEF PipelineInv, HandlerInv
  <2>2. ASSUME NEW t \in Threads, HandleEvent(t) PROVE OwnCommands'
    <3>1. OthersKept(t)
      BY <2>1, <2>2, StepKinds
    <3>2. /\ args[t] \in event[t].message.starts \cup {NoArgs}
          /\ pc[t] = "idle" => args[t] = NoArgs /\ todo[t] = <<>>
          /\ \A j \in DOMAIN todo[t] : \A l \in RequiredOf(todo[t][j].trigger, "command") :
                l.command \in event[t].message.starts /\ args[t] # NoArgs
      BY DEF PipelineInv, ArgsFit, OwnCommands
    <3> SUFFICES ASSUME NEW k \in DOMAIN todo'[t],
                        NEW l \in RequiredOf(todo'[t][k].trigger, "command")
                 PROVE  l.command \in event'[t].message.starts /\ args'[t] # NoArgs
      BY <3>1 DEF OwnCommands, OthersKept
    <3>3. CASE Begins(t) \/ Ends(t)
      BY <1>0, <2>1, <3>2, <3>3 DEF Begins, Ends, Return, LocalType
    <3>4. CASE Quiet(t) \/ Stamp(t)
      BY <3>2, <3>4 DEF Quiet, Stamp
    <3>5. CASE NoMatch(t)
      <4>1. todo' = todo /\ event' = event /\ (args[t] # NoArgs => args'[t] = args[t])
        BY <2>1, <3>2, <3>5, ResultFits DEF NoMatch, LocalType
      <4> QED BY <3>2, <4>1
    <3>6. CASE Match(t)
      <4>1. event' = event /\ args'[t] = Result(t).args /\ (args[t] # NoArgs => args'[t] = args[t])
        BY <2>1, <3>2, <3>6, ResultFits DEF LocalType
      <4>2. CASE \E j \in DOMAIN todo[t] : todo'[t][k] = todo[t][j]
        BY <3>2, <4>1, <4>2
      <4>3. CASE todo'[t][k] = [trigger |-> at[t], node |-> Triggers[at[t]].reactions]
        <5>1. l \in Required(Triggers[at[t]].when) /\ l.type = "command"
          BY <4>3 DEF RequiredOf
        <5> QED BY <2>1, <3>2, <3>6, <4>1, <5>1, MatchMeans
      <4> QED BY <2>1, <3>6, <4>2, <4>3, MatchTodo
    <3>7. CASE Enters(t) \/ Drops(t)
      <4>1. /\ event' = event /\ todo[t] # <<>> /\ (args[t] # NoArgs => args'[t] = args[t])
            /\ \E ids \in Seq(ReactionNodes) : Replace(t, ids)
        <5>1. CASE Enters(t)
          BY <2>1, <3>2, <5>1, EnterFits
        <5>2. CASE Drops(t)
          BY <5>2, EmptySeq DEF Drops
        <5> QED BY <3>7, <5>1, <5>2
      <4>2. PICK ids \in Seq(ReactionNodes) : Replace(t, ids)
        BY <4>1
      <4>3. /\ 1 \in DOMAIN todo[t] /\ Head(todo[t]) = todo[t][1]
        BY <2>1, <4>1, TopType
      <4>4. \E j \in DOMAIN todo[t] : todo'[t][k].trigger = todo[t][j].trigger
        <5>1. CASE \E j \in DOMAIN todo[t] : todo'[t][k] = todo[t][j]
          BY <5>1
        <5>2. CASE \E j \in DOMAIN ids :
                     todo'[t][k] = [trigger |-> Head(todo[t]).trigger, node |-> ids[j]]
          <6>1. todo'[t][k].trigger = todo[t][1].trigger
            BY <4>3, <5>2
          <6> QED BY <4>3, <6>1
        <5> QED BY <2>1, <4>1, <4>2, <5>1, <5>2, ReplaceType
      <4> QED BY <3>2, <4>1, <4>4
    <3> QED BY <2>1, <2>2, <3>3, <3>4, <3>5, <3>6, <3>7, StepKinds
  <2>3. CASE Clock
    BY <2>3 DEF OwnCommands, Clock, local
  <2>4. CASE Restart
    BY <1>0, <2>4 DEF OwnCommands, Restart
  <2>5. CASE UNCHANGED vars
    BY <2>5 DEF OwnCommands, vars
  <2> QED BY <2>2, <2>3, <2>4, <2>5 DEF Next
<1> QED BY <1>1, <1>2

\* The reactions of a trigger see the arguments of its own command (README.md:155),
\* whatever the trees of this and of the other triggers, if no message starts with
\* two commands.
THEOREM ArgsOfOwnCommandHolds == OneCommandPerMessage => (Spec => []ArgsOfOwnCommand)
<1> SUFFICES ASSUME OneCommandPerMessage PROVE Spec => []ArgsOfOwnCommand
  OBVIOUS
<1>1. Init => OwnCommands
  BY OwnCommandsInv
<1>2. PipelineInv /\ OwnCommands /\ [Next]_vars => OwnCommands'
  BY OwnCommandsInv
<1>3. ASSUME PipelineInv, OwnCommands PROVE ArgsOfOwnCommand
  <2> SUFFICES ASSUME NEW t \in Threads, pc[t] = "execute", todo[t] # <<>>,
                      NEW l \in RequiredOf(Head(todo[t]).trigger, "command")
               PROVE  args[t] = l.command
    BY DEF ArgsOfOwnCommand
  <2>1. HandlerInv /\ event[t] \in Inputs[t]
    BY <1>3 DEF PipelineInv, HandlerInv, Placed
  <2>2. 1 \in DOMAIN todo[t] /\ Head(todo[t]) = todo[t][1]
    BY <2>1, TopType DEF HandlerInv
  <2>3. l.command \in event[t].message.starts /\ args[t] # NoArgs
    BY <1>3, <2>2 DEF OwnCommands
  <2>4. args[t] \in event[t].message.starts
    BY <1>3, <2>3 DEF PipelineInv, ArgsFit
  <2> QED BY <2>1, <2>3, <2>4 DEF OneCommandPerMessage
<1> QED BY <1>1, <1>2, <1>3, PipelineInvHolds, PTL DEF Spec
-----------------------------------------------------------------------------
(* Resets. *)

\* The event is of someone who may reset counters.
OfKeeper(e) == e.roles \cap (Keepers \cup {"broadcaster"}) # {}

\* What is left of an event stays within Free, unless it is of a keeper.
Kept(Free) ==
    \A t \in Threads : \A k \in DOMAIN todo[t] : todo[t][k].node \in Free \/ OfKeeper(event[t])

\* A tree that demands a keeper holds for keepers only.
LEMMA KeeperTree ==
    ASSUME NEW e \in Events, NEW root \in Nodes \cup {NoNode}, NEW a \in ArgsValues,
           a \in e.message.starts \cup {NoArgs}, DemandsKeeper(root),
           ResultOf(WhenResults(e, Never), root, a).holds
    PROVE  OfKeeper(e)
<1>1. PICK l \in Required(root) :
         l.type = "role" /\ l.roles # {} /\ "everyone" \notin l.roles /\ l.roles \subseteq Keepers
  BY DEF DemandsKeeper
<1> DEFINE r == ResultOf(WhenResults(e, Never), root, a)
<1>2. r.holds /\ r = ResultOf(WhenResults(e, Never), root, a)
  OBVIOUS
<1> HIDE DEF r
<1>3. PICK b \in ArgsValues : LeafValue(l, b, e, Never).holds
  BY <1>1, <1>2, HoldsMeans
<1>4. MatchesRoles(l.roles, e.roles)
  BY <1>1, <1>3 DEF LeafValue
<1> QED BY <1>1, <1>4 DEF MatchesRoles, OfKeeper

\* A node of Free gives way to nodes of Free, or it is an "if" of Guards that holds.
LEMMA EnterWithin ==
    ASSUME HandlerInv, NEW t \in Threads, Enters(t),
           NEW Free \in SUBSET ReactionNodes, NEW Guards, Confined(Free, Guards),
           Head(todo[t]).node \in Free
    PROVE  \E ids \in Seq(ReactionNodes) :
               /\ Replace(t, ids)
               /\ \/ ids \in Seq(Free)
                  \/ EnterIf(t) /\ Head(todo[t]).node \in Guards /\ Condition(t).holds
<1> DEFINE n == Top(t)
           MayBe == Free \cup {NoNode}
           guarded == Head(todo[t]).node \in Guards
<1>1. /\ n.kind = "seq" => n.kids \in Seq(Free)
      /\ n.kind = "if" => (n.then \in MayBe \/ guarded) /\ n.else \in MayBe
      /\ n.kind = "switch" => n.default \in MayBe /\ \A k \in 1..Len(n.cases) : n.cases[k].then \in MayBe
  BY DEF Confined, Top
<1>2. n.kind = "switch" => Len(n.cases) \in Nat
  BY SettingsAssumption DEF WellFormedReactions, Top
<1>3. Seq(Free) \subseteq Seq(ReactionNodes)
  OBVIOUS
<1> HIDE DEF guarded
<1>4. \A holds, value : n.kind \in {"seq", "switch"} => Unfold(n, holds, value) \in Seq(Free)
  <2> HIDE DEF n
  <2> QED BY <1>1, <1>2, UnfoldWithin
<1>5. \A holds, value :
         n.kind = "if" /\ (IF holds THEN n.then ELSE n.else) \in MayBe
         => Unfold(n, holds, value) \in Seq(Free)
  <2> HIDE DEF n
  <2> QED BY UnfoldWithin
<1>6. CASE EnterSeq(t) \/ EnterSwitch(t)
  <2>1. n.kind \in {"seq", "switch"} /\ \E holds, value : Replace(t, Unfold(n, holds, value))
    BY <1>6 DEF EnterSeq, EnterSwitch, EnterNode, Reaches
  <2> HIDE DEF n
  <2>2. PICK holds, value : Replace(t, Unfold(n, holds, value))
    BY <2>1
  <2>3. Unfold(n, holds, value) \in Seq(Free)
    BY <1>4, <2>1
  <2>4. Unfold(n, holds, value) \in Seq(ReactionNodes)
    BY <1>3, <2>3
  <2> QED BY <2>2, <2>3, <2>4
<1>7. CASE EnterIf(t)
  <2> DEFINE holds == Condition(t).holds
  <2>1. n.kind = "if" /\ Replace(t, Unfold(n, holds, NoArgs))
    BY <1>7 DEF EnterIf, EnterNode, Reaches
  <2>2. CASE (IF holds THEN n.then ELSE n.else) \in MayBe
    <3>1. Unfold(n, holds, NoArgs) \in Seq(Free)
      <4> HIDE DEF n, MayBe, holds
      <4> QED BY <1>5, <2>1, <2>2
    <3> QED BY <1>3, <2>1, <3>1
  <2>3. CASE (IF holds THEN n.then ELSE n.else) \notin MayBe
    <3>1. holds /\ guarded
      <4> HIDE DEF n, MayBe, holds
      <4> QED BY <1>1, <2>1, <2>3
    <3>2. Unfold(n, holds, NoArgs) \in Seq(ReactionNodes)
      <4>1. Head(todo[t]).node \in ReactionNodes
        OBVIOUS
      <4> QED BY <2>1, <4>1, UnfoldType DEF Top
    <3> QED BY <1>7, <2>1, <3>1, <3>2 DEF guarded
  <2> QED BY <2>2, <2>3
<1> QED BY <1>6, <1>7 DEF Enters

\* The "if" nodes that demand a keeper.
KeeperIfs == {id \in ReactionNodes : Reaction[id].kind = "if" /\ DemandsKeeper(Reaction[id].when)}

LEMMA KeptInv ==
    ASSUME NEW Free \in SUBSET ReactionNodes, Confined(Free, KeeperIfs),
           \A i \in DOMAIN Triggers : Triggers[i].reactions \in Free \cup {NoNode}
    PROVE  /\ Init => Kept(Free)
           /\ PipelineInv /\ Kept(Free) /\ [Next]_vars => Kept(Free)'
<1>0. DOMAIN <<>> = {}
  OBVIOUS
<1>1. Init => Kept(Free)
  BY <1>0 DEF Init, Kept
<1>2. ASSUME PipelineInv, Kept(Free), [Next]_vars PROVE Kept(Free)'
  <2> USE <1>2
  <2>1. HandlerInv /\ LocalType
    BY DEF PipelineInv, HandlerInv
  <2>2. ASSUME NEW t \in Threads, HandleEvent(t) PROVE Kept(Free)'
    <3>1. OthersKept(t)
      BY <2>1, <2>2, StepKinds
    <3>2. /\ args[t] \in event[t].message.starts \cup {NoArgs}
          /\ pc[t] = "idle" => todo[t] = <<>>
          /\ \A j \in DOMAIN todo[t] : todo[t][j].node \in Free \/ OfKeeper(event[t])
      BY DEF PipelineInv, ArgsFit, Kept
    <3> SUFFICES ASSUME NEW k \in DOMAIN todo'[t]
                 PROVE  todo'[t][k].node \in Free \/ OfKeeper(event'[t])
      BY <3>1 DEF Kept, OthersKept, OfKeeper
    <3>3. CASE Begins(t) \/ Ends(t)
      BY <1>0, <2>1, <3>2, <3>3 DEF Begins, Ends, Return, LocalType
    <3>4. CASE Quiet(t) \/ Stamp(t) \/ NoMatch(t)
      BY <3>2, <3>4 DEF Quiet, Stamp, NoMatch
    <3>5. CASE Match(t)
      <4>1. event' = event /\ at[t] \in DOMAIN Triggers
        BY <2>1, <3>5, TriggerIndices DEF Match, LocalType
      <4>2. CASE \E j \in DOMAIN todo[t] : todo'[t][k] = todo[t][j]
        BY <3>2, <4>1, <4>2
      <4>3. CASE /\ todo'[t][k] = [trigger |-> at[t], node |-> Triggers[at[t]].reactions]
                 /\ Triggers[at[t]].reactions # NoNode
        BY <4>1, <4>3
      <4> QED BY <2>1, <3>5, <4>2, <4>3, MatchTodo
    <3>6. CASE Enters(t) \/ Drops(t)
      <4>1. /\ event' = event /\ todo[t] # <<>>
            /\ \E ids \in Seq(ReactionNodes) : Replace(t, ids)
        <5>1. CASE Enters(t)
          BY <2>1, <3>2, <5>1, EnterFits
        <5>2. CASE Drops(t)
          BY <5>2, EmptySeq DEF Drops
        <5> QED BY <3>6, <5>1, <5>2
      <4>2. 1 \in DOMAIN todo[t] /\ Head(todo[t]) = todo[t][1]
        BY <2>1, <4>1, TopType
      <4>3. CASE OfKeeper(event[t])
        BY <4>1, <4>3
      <4>4. CASE ~OfKeeper(event[t])
        <5>1. Head(todo[t]).node \in Free
          BY <3>2, <4>2, <4>4
        <5>2. \E ids \in Seq(ReactionNodes) : Replace(t, ids) /\ ids \in Seq(Free)
          <6>1. CASE Enters(t)
            <7>1. ASSUME EnterIf(t), Head(todo[t]).node \in KeeperIfs, Condition(t).holds
                  PROVE  FALSE
              <8>1. DemandsKeeper(Top(t).when) /\ Top(t).when \in Nodes \cup {NoNode}
                BY <7>1, SettingsAssumption DEF KeeperIfs, Top, WellFormedReactions
              <8>2. event[t] \in Events /\ args[t] \in ArgsValues
                BY <2>1 DEF LocalType
              <8>3. ResultOf(WhenResults(event[t], Never), Top(t).when, args[t]).holds
                BY <7>1, WhenTrees
              <8> QED BY <3>2, <4>4, <8>1, <8>2, <8>3, KeeperTree
            <7>2. PICK ids \in Seq(ReactionNodes) :
                     /\ Replace(t, ids)
                     /\ \/ ids \in Seq(Free)
                        \/ EnterIf(t) /\ Head(todo[t]).node \in KeeperIfs /\ Condition(t).holds
              BY <2>1, <5>1, <6>1, EnterWithin
            <7> QED BY <7>1, <7>2
          <6>2. CASE Drops(t)
            BY <6>2, EmptySeq DEF Drops
          <6> QED BY <3>6, <6>1, <6>2
        <5>3. PICK ids \in Seq(ReactionNodes) : Replace(t, ids) /\ ids \in Seq(Free)
          BY <5>2
        <5>4. \A j \in DOMAIN ids : ids[j] \in Free
          BY <5>3, LenProperties, ElementOfSeq
        <5>5. \/ \E j \in DOMAIN todo[t] : todo'[t][k] = todo[t][j]
              \/ \E j \in DOMAIN ids :
                    todo'[t][k] = [trigger |-> Head(todo[t]).trigger, node |-> ids[j]]
          <6>1. LocalType /\ todo[t] # <<>> /\ ids \in Seq(ReactionNodes) /\ Replace(t, ids)
            BY <2>1, <4>1, <5>3
          <6> QED BY <6>1, ReplaceType
        <5>6. CASE \E j \in DOMAIN todo[t] : todo'[t][k] = todo[t][j]
          BY <3>2, <4>4, <5>6
        <5>7. CASE \E j \in DOMAIN ids :
                     todo'[t][k] = [trigger |-> Head(todo[t]).trigger, node |-> ids[j]]
          <6>1. PICK j \in DOMAIN ids : todo'[t][k].node = ids[j]
            BY <5>7
          <6> QED BY <5>4, <6>1
        <5> QED BY <5>5, <5>6, <5>7
      <4> QED BY <4>3, <4>4
    <3> QED BY <2>1, <2>2, <3>3, <3>4, <3>5, <3>6, StepKinds
  <2>3. CASE Clock
    BY <2>3 DEF Kept, Clock, local
  <2>4. CASE Restart
    BY <1>0, <2>4 DEF Kept, Restart
  <2>5. CASE UNCHANGED vars
    BY <2>5 DEF Kept, vars
  <2> QED BY <2>2, <2>3, <2>4, <2>5 DEF Next
<1> QED BY <1>1, <1>2

\* Three steps change counters.
LEMMA CounterSteps ==
    ASSUME NEW t \in Threads, HandleEvent(t)
    PROVE  UNCHANGED counters \/ CreateCounter(t) \/ AddToCounter(t) \/ ResetCounter(t)
<1>1. CASE Receive(t) \/ Collect(t)
  BY <1>1 DEF Receive, Collect, CapReached, AppendLine, AppendFails, CountLine, memory
<1>2. CASE Resolve(t)
  BY <1>2 DEF Resolve, Filtered, NoMatch, Match, Stamp, Resolved, memory
<1>3. CASE React(t)
  BY <1>3 DEF React, EnterSeq, EnterIf, EnterSwitch, EnterNode, Execute, ExecuteRaises, Query,
              ReadCounter, memory
<1>4. CASE Finish(t)
  BY <1>4 DEF Finish, Record, NothingToRecord, memory
<1> QED BY <1>1, <1>2, <1>3, <1>4 DEF HandleEvent

\* A counter that goes back to zero is reset.
LEMMA ZeroIsReset ==
    ASSUME HandlerInv, [Next]_vars, NEW c \in Counters,
           counters[c] \notin {NoCounter, 0}, counters'[c] = 0
    PROVE  \E t \in Threads : ResetCounter(t)
<1>1. MemoryType /\ LocalType
  BY DEF HandlerInv
<1>2. PICK t \in Threads : HandleEvent(t)
  <2>1. ~Clock /\ ~Restart /\ ~UNCHANGED vars
    BY DEF Clock, Restart, vars
  <2> QED BY <2>1 DEF Next
<1>3. ~UNCHANGED counters
  OBVIOUS
<1>4. ~CreateCounter(t)
  <2> SUFFICES ASSUME CreateCounter(t) PROVE FALSE
    OBVIOUS
  <2>1. PICK d : counters[d] = NoCounter /\ counters' = [counters EXCEPT ![d] = 0]
    BY DEF CreateCounter
  <2> QED BY <1>1, <2>1 DEF MemoryType
<1>5. ~AddToCounter(t)
  <2> SUFFICES ASSUME AddToCounter(t) PROVE FALSE
    OBVIOUS
  <2>1. PICK d : counters' = [counters EXCEPT ![d] = read[t] + 1]
    BY DEF AddToCounter
  <2>2. read[t] + 1 # 0
    BY <1>1 DEF LocalType
  <2> QED BY <1>1, <2>1, <2>2 DEF MemoryType
<1> QED BY <1>2, <1>3, <1>4, <1>5, CounterSteps

\* A counter goes back to zero only in an event of someone with a role that the
\* trees demand for that (docs/ui.md:57-61), if every way to a reset demands it,
\* whatever raises and whatever the other threads do.
THEOREM ResetByKeeperHolds == ResetsAreGuarded => (Spec => ResetByKeeper)
<1> SUFFICES ASSUME ResetsAreGuarded PROVE Spec => ResetByKeeper
  OBVIOUS
<1>1. PICK Free \in SUBSET ReactionNodes :
         /\ \A id \in Free : \A c \in Counters : ~IsChange(Reaction[id], "reset", c)
         /\ Confined(Free, KeeperIfs)
         /\ \A i \in DOMAIN Triggers : Triggers[i].reactions \in Free \cup {NoNode}
  BY DEF ResetsAreGuarded, KeeperIfs
<1>2. Init => Kept(Free)
  BY <1>1, KeptInv
<1>3. PipelineInv /\ Kept(Free) /\ [Next]_vars => Kept(Free)'
  BY <1>1, KeptInv
<1>4. ASSUME PipelineInv, Kept(Free), [Next]_vars, NEW c \in Counters,
             counters[c] \notin {NoCounter, 0}, counters'[c] = 0
      PROVE  \E t \in Threads : /\ todo'[t] # todo[t]
                                /\ event[t].roles \cap (Keepers \cup {"broadcaster"}) # {}
  <2>1. HandlerInv /\ LocalType
    BY <1>4 DEF PipelineInv, HandlerInv
  <2>2. PICK t \in Threads : ResetCounter(t)
    BY <1>4, <2>1, ZeroIsReset
  <2>3. /\ todo[t] # <<>> /\ Saved(t) /\ Top(t).kind = "reaction"
        /\ Top(t).reaction.type = "counter" /\ Top(t).reaction.action = "reset"
    BY <2>2 DEF ResetCounter, RunsCounter, Runs, Reaches
  <2>4. 1 \in DOMAIN todo[t] /\ Head(todo[t]) = todo[t][1]
    BY <2>1, <2>3, TopType
  <2>5. Head(todo[t]).node \notin Free
    <3>1. Top(t).reaction.counter \in Counters
      <4>1. Head(todo[t]).node \in ReactionNodes
        BY <2>1, <2>3, TopType
      <4> QED BY <2>3, <4>1, SettingsAssumption DEF Top, WellFormedReactions
    <3>2. IsChange(Reaction[Head(todo[t]).node], "reset", Top(t).reaction.counter)
      BY <2>3 DEF IsChange, Top
    <3> QED BY <1>1, <3>1, <3>2
  <2>6. OfKeeper(event[t])
    BY <1>4, <2>4, <2>5 DEF Kept
  <2>7. todo'[t] # todo[t]
    <3>1. CASE Return(t)
      BY <2>1, <2>3, <3>1 DEF Return, LocalType
    <3>2. CASE Replace(t, <<>>)
      <4>1. todo'[t] = <<>> \o Tail(todo[t])
        <5>1. [k \in DOMAIN <<>> |-> [trigger |-> Head(todo[t]).trigger, node |-> <<>>[k]]] = <<>>
          OBVIOUS
        <5> QED BY <2>1, <3>2, <5>1 DEF Replace, LocalType
      <4>2. todo[t] \in Seq(Reactions)
        BY <2>1 DEF LocalType
      <4>3. Tail(todo[t]) \in Seq(Reactions) /\ Len(Tail(todo[t])) = Len(todo[t]) - 1 /\ Len(todo[t]) \in Nat
        BY <2>3, <4>2, HeadTailProperties, LenProperties
      <4>4. todo'[t] = Tail(todo[t])
        <5> HIDE DEF Reactions
        <5>1. <<>> \o Tail(todo[t]) = Tail(todo[t])
          BY <4>3, ConcatEmptySeq, Zenon
        <5> QED BY <4>1, <5>1
      <4>5. Len(todo'[t]) # Len(todo[t])
        BY <4>3, <4>4
      <4> QED BY <4>5
    <3> QED BY <2>3, <3>1, <3>2 DEF Saved
  <2> QED BY <2>6, <2>7 DEF OfKeeper
<1>5. PipelineInv /\ Kept(Free) /\ [Next]_vars =>
         \A c \in Counters : counters[c] \notin {NoCounter, 0} /\ counters'[c] = 0 =>
             \E t \in Threads : /\ todo'[t] # todo[t]
                                /\ event[t].roles \cap (Keepers \cup {"broadcaster"}) # {}
  BY <1>4
<1> QED BY <1>2, <1>3, <1>5, PipelineInvHolds, PTL DEF Spec, ResetByKeeper
-----------------------------------------------------------------------------
(* Sums over finite sets of what a function makes of their elements: how the *)
(* fold of Functions.tla unfolds.                                            *)

\* The proper subsets of a finite set are below it.
SubsetsBelow(S) == [s \in SUBSET S |-> {u \in SUBSET s : u # s}]

LEMMA SubsetsFounded ==
    ASSUME NEW S, IsFiniteSet(S)
    PROVE  Founded(SUBSET S, SubsetsBelow(S))
<1> SUFFICES ASSUME NEW Q \in SUBSET SUBSET S, Q # {}
             PROVE  \E s \in Q : SubsetsBelow(S)[s] \cap Q = {}
  BY DEF Founded
<1> DEFINE T == {Cardinality(s) : s \in Q}
<1>1. \A s \in SUBSET S : IsFiniteSet(s) /\ Cardinality(s) \in Nat
  BY FS_Subset, FS_CardinalityType
<1>2. T \subseteq Nat /\ T # {}
  BY <1>1
<1>3. PICK n \in T : \A m \in T : n <= m
  BY <1>2, LeastElement
<1>4. PICK s \in Q : Cardinality(s) = n
  BY <1>3
<1>5. ASSUME NEW u \in SubsetsBelow(S)[s] \cap Q PROVE FALSE
  <2>1. u \in SUBSET s /\ u # s /\ u \in Q /\ IsFiniteSet(s)
    BY <1>1, <1>5 DEF SubsetsBelow
  <2>2. Cardinality(u) <= Cardinality(s) /\ Cardinality(s) # Cardinality(u)
    BY <2>1, FS_Subset
  <2>3. Cardinality(s) <= Cardinality(u)
    BY <1>3, <1>4, <2>1
  <2>4. Cardinality(s) \in Nat /\ Cardinality(u) \in Nat
    BY <1>1, <2>1
  <2> QED BY <2>2, <2>3, <2>4
<1> QED BY <1>5

\* What holds of a finite set whenever it holds of its proper subsets holds of it.
LEMMA SubsetInduction ==
    ASSUME NEW S, IsFiniteSet(S), NEW Q,
           \A s \in SUBSET S : (\A u \in SUBSET s : u # s => u \in Q) => s \in Q
    PROVE  \A s \in SUBSET S : s \in Q
<1> DEFINE D == SUBSET S
           Below == SubsetsBelow(S)
<1>1. Founded(D, Below)
  BY SubsetsFounded
<1>2. \A s \in D : (\A u \in Below[s] \cap D : u \in Q) => s \in Q
  BY DEF SubsetsBelow
<1> HIDE DEF D, Below
<1>3. \A s \in D : s \in Q
  BY <1>1, <1>2, FoundedInduction
<1> QED BY <1>3 DEF D

\* The element that the fold takes first.
FirstOf(s) == CHOOSE x \in s : TRUE

SumsOver(f, S) ==
    CHOOSE sum : sum = [s \in SUBSET S |-> IF s = {} THEN 0 ELSE f[FirstOf(s)] + sum[s \ {FirstOf(s)}]]

LEMMA SumsUnfold ==
    ASSUME NEW S, IsFiniteSet(S), NEW f, \A x \in S : f[x] \in Nat
    PROVE  /\ SumFunctionOnSet(f, S) = SumsOver(f, S)[S]
           /\ \A s \in SUBSET S :
                /\ SumsOver(f, S)[s] \in Nat
                /\ SumsOver(f, S)[s]
                     = IF s = {} THEN 0 ELSE f[FirstOf(s)] + SumsOver(f, S)[s \ {FirstOf(s)}]
<1> DEFINE At(s, F) == IF s = {} THEN 0 ELSE f[FirstOf(s)] + F[s \ {FirstOf(s)}]
           G == SumsOver(f, S)
<1>1. ASSUME NEW s \in SUBSET S, s # {}
      PROVE  /\ FirstOf(s) \in S /\ s \ {FirstOf(s)} \in SUBSET S
             /\ s \ {FirstOf(s)} \in SubsetsBelow(S)[s]
             /\ s \ {FirstOf(s)} \in SUBSET s /\ s \ {FirstOf(s)} # s
  <2>1. FirstOf(s) \in s
    BY <1>1 DEF FirstOf
  <2> QED BY <2>1 DEF SubsetsBelow
<1>2. \E F \in [SUBSET S -> Nat] : \A s \in SUBSET S : F[s] = At(s, F)
  <2> DEFINE D == SUBSET S
             Below == SubsetsBelow(S)
             B == [p \in D \X [D -> Nat] |-> At(p[1], p[2])]
  <2>1. \A s \in D : \A F \in [D -> Nat] : B[<<s, F>>] = At(s, F)
    OBVIOUS
  <2>2. \A s \in D : \A F \in [D -> Nat] : At(s, F) \in Nat
    <3> SUFFICES ASSUME NEW s \in D, NEW F \in [D -> Nat] PROVE At(s, F) \in Nat
      OBVIOUS
    <3>1. CASE s = {}
      BY <3>1
    <3>2. CASE s # {}
      <4>1. FirstOf(s) \in S /\ s \ {FirstOf(s)} \in D
        BY <1>1, <3>2
      <4>2. F[s \ {FirstOf(s)}] \in Nat
        BY <4>1
      <4> QED BY <3>2, <4>1, <4>2
    <3> QED BY <3>1, <3>2
  <2>3. \A s \in D : \A E, F \in [D -> Nat] :
           (\A u \in Below[s] : E[u] = F[u]) => At(s, E) = At(s, F)
    BY <1>1
  <2>4. Founded(D, Below) /\ \A s \in D : Below[s] \subseteq D
    BY SubsetsFounded DEF SubsetsBelow
  <2> HIDE DEF B, D, Below, At
  <2>5. Recursion(D, Nat, Below, B)
    BY <2>1, <2>2, <2>3, <2>4 DEF Recursion
  <2>6. \E F \in [D -> Nat] : \A s \in D : F[s] = B[<<s, F>>]
    BY <2>5, FoundedRecursion
  <2>7. \E F \in [D -> Nat] : \A s \in D : F[s] = At(s, F)
    BY <2>1, <2>6
  <2> QED BY <2>7 DEF D
<1>3. PICK F \in [SUBSET S -> Nat] : F = [s \in SUBSET S |-> At(s, F)]
  <2> HIDE DEF At
  <2> QED BY <1>2
<1>4. G = [s \in SUBSET S |-> At(s, G)]
  BY <1>3 DEF SumsOver
<1>5. \A s \in SUBSET S : G[s] = At(s, G)
  BY <1>4
<1> HIDE DEF G
<1>6. \A s \in SUBSET S : s \in {u \in SUBSET S : G[u] \in Nat}
  <2> DEFINE T == {u \in SUBSET S : G[u] \in Nat}
  <2>1. ASSUME NEW s \in SUBSET S, \A u \in SUBSET s : u # s => u \in T
        PROVE  s \in T
    <3>1. CASE s = {}
      BY <1>5, <3>1
    <3>2. CASE s # {}
      <4>1. FirstOf(s) \in S /\ s \ {FirstOf(s)} \in T
        BY <1>1, <2>1, <3>2
      <4>2. f[FirstOf(s)] \in Nat /\ G[s \ {FirstOf(s)}] \in Nat
        BY <4>1
      <4>3. G[s] = f[FirstOf(s)] + G[s \ {FirstOf(s)}]
        BY <1>5, <3>2
      <4> QED BY <4>2, <4>3
    <3> QED BY <3>1, <3>2
  <2> HIDE DEF T
  <2>2. \A s \in SUBSET S : s \in T
    BY <2>1, SubsetInduction
  <2> QED BY <2>2 DEF T
<1>7. SumFunctionOnSet(f, S) = G[S]
  BY DEF SumFunctionOnSet, FoldFunctionOnSet, MapThenFoldSet, SumsOver, FirstOf, G
<1> QED BY <1>5, <1>6, <1>7 DEF G

\* A sum does not depend on what the function makes of other elements.
LEMMA SumsAgree ==
    ASSUME NEW S, IsFiniteSet(S), NEW T, IsFiniteSet(T), NEW f, NEW g,
           \A x \in S : f[x] \in Nat, \A x \in T : g[x] \in Nat,
           NEW R, R \subseteq S, R \subseteq T, \A x \in R : f[x] = g[x]
    PROVE  SumsOver(f, S)[R] = SumsOver(g, T)[R]
<1> DEFINE F == SumsOver(f, S)
           G == SumsOver(g, T)
           Q == {s \in SUBSET R : F[s] = G[s]}
<1>1. /\ \A s \in SUBSET R : F[s] = IF s = {} THEN 0 ELSE f[FirstOf(s)] + F[s \ {FirstOf(s)}]
      /\ \A s \in SUBSET R : G[s] = IF s = {} THEN 0 ELSE g[FirstOf(s)] + G[s \ {FirstOf(s)}]
  <2>1. \A s \in SUBSET R : s \in SUBSET S /\ s \in SUBSET T
    OBVIOUS
  <2>2. \A s \in SUBSET S :
           /\ F[s] \in Nat
           /\ F[s] = IF s = {} THEN 0 ELSE f[FirstOf(s)] + F[s \ {FirstOf(s)}]
    BY SumsUnfold, Zenon
  <2>3. \A s \in SUBSET T :
           /\ G[s] \in Nat
           /\ G[s] = IF s = {} THEN 0 ELSE g[FirstOf(s)] + G[s \ {FirstOf(s)}]
    BY SumsUnfold, Zenon
  <2> HIDE DEF F, G
  <2> QED BY <2>1, <2>2, <2>3
<1> HIDE DEF F, G
<1>2. ASSUME NEW s \in SUBSET R, \A u \in SUBSET s : u # s => u \in Q
      PROVE  s \in Q
  <2>1. CASE s = {}
    BY <1>1, <2>1
  <2>2. CASE s # {}
    <3>1. FirstOf(s) \in s
      BY <2>2 DEF FirstOf
    <3>2. s \ {FirstOf(s)} \in SUBSET s /\ s \ {FirstOf(s)} # s
      BY <3>1 DEF SubsetsBelow
    <3>3. F[s \ {FirstOf(s)}] = G[s \ {FirstOf(s)}] /\ f[FirstOf(s)] = g[FirstOf(s)]
      BY <1>2, <3>1, <3>2
    <3> QED BY <1>1, <2>2, <3>3
  <2> QED BY <2>1, <2>2
<1>3. IsFiniteSet(R)
  BY FS_Subset
<1> HIDE DEF Q
<1>4. \A s \in SUBSET R : s \in Q
  BY <1>2, <1>3, SubsetInduction
<1> QED BY <1>4 DEF Q, F, G

\* The sum over no element, and one element more; whichever it is.
LEMMA SumProperties ==
    /\ \A f : SumFunctionOnSet(f, {}) = 0
    /\ \A S, f : IsFiniteSet(S) /\ (\A x \in S : f[x] \in Nat) => SumFunctionOnSet(f, S) \in Nat
    /\ \A S, f, g : IsFiniteSet(S) /\ (\A x \in S : f[x] \in Nat /\ g[x] = f[x]) =>
            SumFunctionOnSet(f, S) = SumFunctionOnSet(g, S)
    /\ \A S, f : IsFiniteSet(S) /\ (\A x \in S : f[x] \in Nat) =>
            \A x \in S : SumFunctionOnSet(f, S) = f[x] + SumFunctionOnSet(f, S \ {x})
<1>1. ASSUME NEW f PROVE SumFunctionOnSet(f, {}) = 0
  BY FS_EmptySet, SumsUnfold
<1>2. ASSUME NEW S, NEW f, IsFiniteSet(S), \A x \in S : f[x] \in Nat
      PROVE  SumFunctionOnSet(f, S) \in Nat
  <2>1. S \in SUBSET S
    OBVIOUS
  <2>2. SumFunctionOnSet(f, S) = SumsOver(f, S)[S]
    BY <1>2, SumsUnfold
  <2>3. \A s \in SUBSET S : SumsOver(f, S)[s] \in Nat
    BY <1>2, SumsUnfold
  <2> QED BY <2>1, <2>2, <2>3
<1>3. ASSUME NEW S, NEW f, NEW g, IsFiniteSet(S), \A x \in S : f[x] \in Nat /\ g[x] = f[x]
      PROVE  SumFunctionOnSet(f, S) = SumFunctionOnSet(g, S)
  <2>1. \A x \in S : f[x] \in Nat /\ g[x] \in Nat /\ f[x] = g[x]
    BY <1>3
  <2>2. SumsOver(f, S)[S] = SumsOver(g, S)[S]
    BY <1>3, <2>1, SumsAgree
  <2> QED BY <1>3, <2>1, <2>2, SumsUnfold
<1>4. ASSUME NEW S, NEW f, IsFiniteSet(S), \A x \in S : f[x] \in Nat
      PROVE  \A x \in S : SumFunctionOnSet(f, S) = f[x] + SumFunctionOnSet(f, S \ {x})
  <2> DEFINE F == SumsOver(f, S)
             Q == {s \in SUBSET S : \A x \in s : F[s] = f[x] + F[s \ {x}]}
  <2>1. \A s \in SUBSET S : /\ F[s] \in Nat
                           /\ F[s] = IF s = {} THEN 0 ELSE f[FirstOf(s)] + F[s \ {FirstOf(s)}]
    <3> HIDE DEF F
    <3> QED BY <1>4, SumsUnfold DEF F
  <2>2. \A s \in SUBSET S : SumFunctionOnSet(f, s) = F[s]
    <3> SUFFICES ASSUME NEW s \in SUBSET S PROVE SumFunctionOnSet(f, s) = F[s]
      OBVIOUS
    <3>1. IsFiniteSet(s) /\ \A x \in s : f[x] \in Nat
      BY <1>4, FS_Subset
    <3>2. SumFunctionOnSet(f, s) = SumsOver(f, s)[s]
      BY <3>1, SumsUnfold
    <3>3. SumsOver(f, s)[s] = SumsOver(f, S)[s]
      BY <1>4, <3>1, SumsAgree
    <3> QED BY <3>2, <3>3
  <2> HIDE DEF F
  <2>3. ASSUME NEW s \in SUBSET S, \A u \in SUBSET s : u # s => u \in Q
        PROVE  s \in Q
    <3> SUFFICES ASSUME NEW x \in s PROVE F[s] = f[x] + F[s \ {x}]
      OBVIOUS
    <3> DEFINE y == FirstOf(s)
    <3>1. y \in s
      BY DEF FirstOf
    <3>2. F[s] = f[y] + F[s \ {y}]
      BY <2>1
    <3> HIDE DEF y
    <3>3. CASE x = y
      BY <3>2, <3>3
    <3>4. CASE x # y
      <4>1. s \ {x} \in SUBSET s /\ s \ {x} # s /\ s \ {y} \in SUBSET s /\ s \ {y} # s
        BY <3>1 DEF SubsetsBelow
      <4>2. s \ {x} \in Q /\ s \ {y} \in Q
        BY <2>3, <4>1
      <4>3. y \in s \ {x} /\ x \in s \ {y}
        BY <3>1, <3>4
      <4> DEFINE r == s \ {x, y}
      <4>4. (s \ {y}) \ {x} = r /\ (s \ {x}) \ {y} = r /\ r \in SUBSET S
        OBVIOUS
      <4> HIDE DEF r
      <4>5. F[s \ {y}] = f[x] + F[r]
        BY <4>2, <4>3, <4>4
      <4>6. F[s \ {x}] = f[y] + F[r]
        BY <4>2, <4>3, <4>4
      <4>7. f[x] \in Nat /\ f[y] \in Nat /\ F[r] \in Nat
        <5>1. x \in S /\ y \in S /\ \A u \in SUBSET S : F[u] \in Nat
          BY <2>1, <3>1
        <5> QED BY <1>4, <4>4, <5>1
      <4> QED BY <3>2, <4>5, <4>6, <4>7
    <3> QED BY <3>3, <3>4
  <2> HIDE DEF Q
  <2>4. \A s \in SUBSET S : s \in Q
    BY <1>4, <2>3, SubsetInduction
  <2>5. \A x \in S : F[S] = f[x] + F[S \ {x}]
    BY <2>4 DEF Q
  <2> QED BY <2>2, <2>5
<1> QED BY <1>1, <1>2, <1>3, <1>4

LEMMA SumRemove ==
    ASSUME NEW S, IsFiniteSet(S), NEW f, \A y \in S : f[y] \in Nat, NEW x \in S,
           NEW R, \A y : y \in R <=> y \in S /\ y # x
    PROVE  /\ IsFiniteSet(R) /\ SumFunctionOnSet(f, R) \in Nat
           /\ SumFunctionOnSet(f, S) = f[x] + SumFunctionOnSet(f, R)
<1>1. R = S \ {x}
  OBVIOUS
<1>2. IsFiniteSet(R)
  BY <1>1, FS_RemoveElement, Zenon
<1>3. SumFunctionOnSet(f, R) \in Nat
  BY <1>2, SumProperties
<1>4. SumFunctionOnSet(f, S) = f[x] + SumFunctionOnSet(f, S \ {x})
  BY SumProperties
<1> QED BY <1>1, <1>2, <1>3, <1>4, Zenon

\* Sums of naturals grow with the function; an element's value, and two elements'
\* values, are at most the sum.
LEMMA SumGrows ==
    ASSUME NEW S, IsFiniteSet(S), NEW f, NEW g, \A x \in S : f[x] \in Nat /\ g[x] \in Nat /\ f[x] <= g[x]
    PROVE  SumFunctionOnSet(f, S) <= SumFunctionOnSet(g, S)
<1> DEFINE Q == {s \in SUBSET S : SumFunctionOnSet(f, s) <= SumFunctionOnSet(g, s)}
<1>1. ASSUME NEW s \in SUBSET S, \A u \in SUBSET s : u # s => u \in Q
      PROVE  s \in Q
  <2>0. IsFiniteSet(s)
    BY FS_Subset
  <2>1. CASE s = {}
    BY <2>1, SumProperties
  <2>2. CASE s # {}
    <3>1. PICK x \in s : TRUE
      BY <2>2
    <3> DEFINE u == s \ {x}
    <3>2. u \in SUBSET s /\ u # s /\ IsFiniteSet(u)
      BY <2>0, FS_RemoveElement DEF SubsetsBelow
    <3>3. SumFunctionOnSet(f, u) <= SumFunctionOnSet(g, u)
      BY <1>1, <3>2
    <3>4. SumFunctionOnSet(f, u) \in Nat /\ SumFunctionOnSet(g, u) \in Nat
      BY <3>2, SumProperties
    <3>5. /\ SumFunctionOnSet(f, s) = f[x] + SumFunctionOnSet(f, u)
          /\ SumFunctionOnSet(g, s) = g[x] + SumFunctionOnSet(g, u)
      BY <2>0, SumProperties
    <3> QED BY <3>3, <3>4, <3>5
  <2> QED BY <2>1, <2>2
<1> HIDE DEF Q
<1>2. \A s \in SUBSET S : s \in Q
  BY <1>1, SubsetInduction
<1> QED BY <1>2 DEF Q

\* A sum of zeros.
LEMMA SumOfZeros ==
    ASSUME NEW S, IsFiniteSet(S), NEW f, \A x \in S : f[x] = 0
    PROVE  SumFunctionOnSet(f, S) = 0
<1> DEFINE Q == {s \in SUBSET S : SumFunctionOnSet(f, s) = 0}
<1>1. ASSUME NEW s \in SUBSET S, \A u \in SUBSET s : u # s => u \in Q
      PROVE  s \in Q
  <2>0. IsFiniteSet(s)
    BY FS_Subset
  <2>1. CASE s = {}
    BY <2>1, SumProperties
  <2>2. CASE s # {}
    <3>1. PICK x \in s : TRUE
      BY <2>2
    <3> DEFINE u == s \ {x}
    <3>2. u \in SUBSET s /\ u # s
      BY DEF SubsetsBelow
    <3>3. SumFunctionOnSet(f, u) = 0
      BY <1>1, <3>2
    <3>4. SumFunctionOnSet(f, s) = f[x] + SumFunctionOnSet(f, u)
      BY <2>0, SumProperties
    <3> QED BY <3>3, <3>4
  <2> QED BY <2>1, <2>2
<1> HIDE DEF Q
<1>2. \A s \in SUBSET S : s \in Q
  BY <1>1, SubsetInduction
<1> QED BY <1>2 DEF Q

LEMMA SumMembers ==
    ASSUME NEW S, IsFiniteSet(S), NEW f, \A x \in S : f[x] \in Nat
    PROVE  /\ \A x \in S : f[x] <= SumFunctionOnSet(f, S)
           /\ \A x, y \in S : x # y => f[x] + f[y] <= SumFunctionOnSet(f, S)
<1>1. ASSUME NEW x \in S PROVE f[x] <= SumFunctionOnSet(f, S)
  <2>1. PICK R : \A y : y \in R <=> y \in S /\ y # x
    <3>1. \A y : y \in S \ {x} <=> y \in S /\ y # x
      OBVIOUS
    <3> QED BY <3>1
  <2>2. SumFunctionOnSet(f, R) \in Nat /\ SumFunctionOnSet(f, S) = f[x] + SumFunctionOnSet(f, R)
    BY <2>1, SumRemove
  <2> QED BY <2>2
<1>2. ASSUME NEW x \in S, NEW y \in S, x # y PROVE f[x] + f[y] <= SumFunctionOnSet(f, S)
  <2>1. PICK R : \A z : z \in R <=> z \in S /\ z # x
    <3>1. \A z : z \in S \ {x} <=> z \in S /\ z # x
      OBVIOUS
    <3> QED BY <3>1
  <2>2. /\ IsFiniteSet(R) /\ SumFunctionOnSet(f, R) \in Nat
        /\ SumFunctionOnSet(f, S) = f[x] + SumFunctionOnSet(f, R)
    BY <2>1, SumRemove
  <2>3. y \in R /\ \A z \in R : f[z] \in Nat
    BY <1>2, <2>1
  <2>4. f[y] <= SumFunctionOnSet(f, R)
    <3>1. PICK Q : \A z : z \in Q <=> z \in R /\ z # y
      <4>1. \A z : z \in R \ {y} <=> z \in R /\ z # y
        OBVIOUS
      <4> QED BY <4>1
    <3>2. SumFunctionOnSet(f, Q) \in Nat /\ SumFunctionOnSet(f, R) = f[y] + SumFunctionOnSet(f, Q)
      BY <2>2, <2>3, <3>1, SumRemove
    <3> QED BY <2>3, <3>2
  <2> QED BY <2>2, <2>3, <2>4
<1> QED BY <1>1, <1>2

\* The sum over a subset is at most the sum.
LEMMA SumOfSubset ==
    ASSUME NEW S, IsFiniteSet(S), NEW f, \A x \in S : f[x] \in Nat, NEW T \in SUBSET S
    PROVE  SumFunctionOnSet(f, T) <= SumFunctionOnSet(f, S)
<1> DEFINE Q == {s \in SUBSET S : SumFunctionOnSet(f, s \cap T) <= SumFunctionOnSet(f, s)}
<1>1. ASSUME NEW s \in SUBSET S, \A u \in SUBSET s : u # s => u \in Q
      PROVE  s \in Q
  <2>0. IsFiniteSet(s)
    BY FS_Subset
  <2>1. CASE s \subseteq T
    <3>1. s \cap T = s
      BY <2>1
    <3>2. SumFunctionOnSet(f, s) \in Nat
      BY <2>0, SumProperties
    <3> QED BY <3>1, <3>2
  <2>2. CASE ~(s \subseteq T)
    <3>1. PICK x \in s : x \notin T
      BY <2>2
    <3> DEFINE u == s \ {x}
               r == s \cap T
    <3>2. u \in SUBSET s /\ u # s /\ u \cap T = r
      BY <3>1
    <3>3. IsFiniteSet(u) /\ IsFiniteSet(r)
      BY <2>0, FS_RemoveElement, FS_Subset
    <3>4. SumFunctionOnSet(f, s) = f[x] + SumFunctionOnSet(f, u) /\ f[x] \in Nat
      BY <2>0, SumProperties
    <3>5. SumFunctionOnSet(f, u) \in Nat /\ SumFunctionOnSet(f, r) \in Nat
      BY <3>3, SumProperties
    <3> HIDE DEF u, r
    <3>6. SumFunctionOnSet(f, r) <= SumFunctionOnSet(f, u)
      <4>1. u \in Q
        BY <1>1, <3>2
      <4> QED BY <3>2, <4>1
    <3>7. SumFunctionOnSet(f, r) <= SumFunctionOnSet(f, s)
      BY <3>4, <3>5, <3>6
    <3> QED BY <3>7 DEF r
  <2> QED BY <2>1, <2>2
<1> HIDE DEF Q
<1>2. \A s \in SUBSET S : s \in Q
  BY <1>1, SubsetInduction
<1>3. S \in Q /\ S \cap T = T
  BY <1>2
<1>4. SumFunctionOnSet(f, S \cap T) <= SumFunctionOnSet(f, S)
  BY <1>3 DEF Q
<1>5. SumFunctionOnSet(f, S \cap T) = SumFunctionOnSet(f, T)
  BY <1>3
<1> QED BY <1>4, <1>5

\* Sums of sequences of naturals.
LEMMA SumOfSeq ==
    /\ SumFunction(<<>>) = 0
    /\ \A s \in Seq(Nat) : /\ SumFunction(s) \in Nat
                           /\ \A k \in 1..Len(s) : s[k] <= SumFunction(s)
    /\ \A n \in Nat : SumFunction(<<n>>) = n
<1>1. DOMAIN <<>> = {}
  OBVIOUS
<1>2. SumFunction(<<>>) = 0
  BY <1>1, SumProperties DEF SumFunction
<1>3. ASSUME NEW s \in Seq(Nat)
      PROVE  SumFunction(s) \in Nat /\ \A k \in 1..Len(s) : s[k] <= SumFunction(s)
  <2>1. DOMAIN s = 1..Len(s) /\ Len(s) \in Nat /\ \A k \in DOMAIN s : s[k] \in Nat
    BY LenProperties, ElementOfSeq
  <2>2. IsFiniteSet(DOMAIN s)
    BY <2>1, FS_Interval
  <2>3. SumFunctionOnSet(s, DOMAIN s) \in Nat
    BY <2>1, <2>2, SumProperties
  <2>4. \A k \in DOMAIN s : s[k] <= SumFunctionOnSet(s, DOMAIN s)
    BY <2>1, <2>2, SumMembers
  <2> QED BY <2>1, <2>3, <2>4 DEF SumFunction
<1>4. ASSUME NEW n \in Nat PROVE SumFunction(<<n>>) = n
  <2> DEFINE s == <<n>>
             D == DOMAIN s
  <2>1. D = {1} /\ s[1] = n /\ D \ {1} = {}
    OBVIOUS
  <2>2. IsFiniteSet(D) /\ \A k \in D : s[k] \in Nat
    BY <2>1, FS_EmptySet, FS_AddElement
  <2> HIDE DEF s, D
  <2>3. SumFunctionOnSet(s, D) = s[1] + SumFunctionOnSet(s, D \ {1})
    BY <2>1, <2>2, SumProperties
  <2>4. SumFunctionOnSet(s, D \ {1}) = 0
    BY <2>1, SumProperties
  <2>5. SumFunction(s) = n
    BY <2>1, <2>3, <2>4 DEF SumFunction, D
  <2> QED BY <2>5 DEF s
<1> QED BY <1>2, <1>3, <1>4

LEMMA SumUpTo ==
    ASSUME NEW n \in Nat, NEW f, \A k \in 1..(n + 1) : f[k] \in Nat
    PROVE  /\ SumFunctionOnSet(f, 1..n) \in Nat
           /\ SumFunctionOnSet(f, 1..(n + 1)) = SumFunctionOnSet(f, 1..n) + f[n + 1]
<1> DEFINE S == 1..(n + 1)
           R == 1..n
           x == n + 1
<1>1. IsFiniteSet(S)
  BY FS_Interval
<1>2. x \in S /\ (\A y \in S : f[y] \in Nat) /\ f[x] \in Nat
  OBVIOUS
<1>3. \A y : y \in R <=> y \in S /\ y # x
  OBVIOUS
<1> HIDE DEF S, R, x
<1>4. SumFunctionOnSet(f, R) \in Nat /\ SumFunctionOnSet(f, S) = f[x] + SumFunctionOnSet(f, R)
  BY <1>1, <1>2, <1>3, SumRemove
<1>5. SumFunctionOnSet(f, S) = SumFunctionOnSet(f, R) + f[x]
  BY <1>2, <1>4
<1> QED BY <1>4, <1>5 DEF S, R, x

LEMMA SumOfConcat ==
    ASSUME NEW s \in Seq(Nat), NEW t \in Seq(Nat)
    PROVE  SumFunction(s \o t) = SumFunction(s) + SumFunction(t)
<1> DEFINE m == Len(s)
           r == s \o t
           Q == {n \in Nat : n <= Len(t) =>
                    SumFunctionOnSet(r, 1..(m + n)) = SumFunction(s) + SumFunctionOnSet(t, 1..n)}
<1>1. /\ m \in Nat /\ Len(t) \in Nat /\ DOMAIN s = 1..m /\ DOMAIN t = 1..Len(t)
      /\ \A k \in 1..m : s[k] \in Nat
      /\ \A k \in 1..Len(t) : t[k] \in Nat
  BY LenProperties, ElementOfSeq
<1>2. /\ r \in Seq(Nat) /\ Len(r) = m + Len(t)
      /\ \A k \in 1..(m + Len(t)) : r[k] = IF k <= m THEN s[k] ELSE t[k - m]
  BY ConcatProperties
<1>3. DOMAIN r = 1..(m + Len(t))
  BY <1>2, LenProperties
<1> HIDE DEF r, m
<1>4. \A k \in 1..(m + Len(t)) : r[k] \in Nat
  BY <1>1, <1>2, ElementOfSeq
<1>5. SumFunction(s) \in Nat
  BY SumOfSeq
<1>6. 0 \in Q
  <2>1. 1..(m + 0) = 1..m /\ 1..0 = {}
    BY <1>1
  <2>2. \A k \in 1..m : s[k] \in Nat /\ r[k] = s[k]
    BY <1>1, <1>2
  <2>3. SumFunctionOnSet(r, 1..m) = SumFunctionOnSet(s, 1..m)
    <3>1. IsFiniteSet(1..m)
      BY <1>1, FS_Interval
    <3> QED BY <2>2, <3>1, SumProperties
  <2>4. SumFunctionOnSet(t, 1..0) = 0
    BY <2>1, SumProperties
  <2>5. SumFunctionOnSet(r, 1..(m + 0)) = SumFunction(s) + SumFunctionOnSet(t, 1..0)
    BY <1>1, <1>5, <2>1, <2>3, <2>4 DEF SumFunction
  <2> QED BY <2>5
<1>7. ASSUME NEW n \in Nat, n \in Q PROVE n + 1 \in Q
  <2> SUFFICES ASSUME n + 1 <= Len(t)
               PROVE  SumFunctionOnSet(r, 1..(m + (n + 1)))
                      = SumFunction(s) + SumFunctionOnSet(t, 1..(n + 1))
    OBVIOUS
  <2>1. n <= Len(t) /\ n + 1 \in 1..Len(t) /\ m + (n + 1) \in 1..(m + Len(t)) /\ m + n \in Nat
        /\ m + (n + 1) = (m + n) + 1
    BY <1>1
  <2>2. (\A k \in 1..((m + n) + 1) : r[k] \in Nat) /\ \A k \in 1..(n + 1) : t[k] \in Nat
    BY <1>1, <1>4, <2>1
  <2>3. r[(m + n) + 1] = t[n + 1] /\ t[n + 1] \in Nat
    <3>1. ~(m + (n + 1) <= m) /\ (m + (n + 1)) - m = n + 1
      BY <1>1
    <3> QED BY <1>1, <1>2, <2>1, <3>1
  <2>4. SumFunctionOnSet(r, 1..(m + n)) = SumFunction(s) + SumFunctionOnSet(t, 1..n)
    BY <1>7, <2>1
  <2>5. SumFunctionOnSet(r, 1..((m + n) + 1)) = SumFunctionOnSet(r, 1..(m + n)) + r[(m + n) + 1]
    BY <2>1, <2>2, SumUpTo
  <2>6. /\ SumFunctionOnSet(t, 1..n) \in Nat
        /\ SumFunctionOnSet(t, 1..(n + 1)) = SumFunctionOnSet(t, 1..n) + t[n + 1]
    BY <2>2, SumUpTo
  <2>7. SumFunctionOnSet(r, 1..((m + n) + 1)) = SumFunction(s) + SumFunctionOnSet(t, 1..(n + 1))
    BY <1>5, <2>3, <2>4, <2>5, <2>6
  <2> QED BY <2>1, <2>7
<1> HIDE DEF Q
<1>8. Len(t) \in Q
  BY <1>1, <1>6, <1>7, InductionOverSet
<1> QED BY <1>1, <1>3, <1>8 DEF Q, SumFunction, r

-----------------------------------------------------------------------------
(* How many reactions of a kind the trees have: Changes, and how a node's      *)
(* number relates to those of the nodes that take its place.                  *)

MaybeReaction == ReactionNodes \cup {NoNode}
ReactionBelow == [id \in ReactionNodes |-> Range(ReactionsBelow(Reaction[id])) \cap ReactionNodes]

LEMMA BelowType ==
    ASSUME NEW id \in ReactionNodes
    PROVE  /\ Reaction[id].kind \in {"seq", "if", "switch", "reaction"}
           /\ ReactionsBelow(Reaction[id]) \in Seq(MaybeReaction)
           /\ \A k \in DOMAIN ReactionsBelow(Reaction[id]) :
                  \/ ReactionsBelow(Reaction[id])[k] = NoNode
                  \/ ReactionsBelow(Reaction[id])[k] \in ReactionBelow[id]
<1> DEFINE n == Reaction[id]
           below == ReactionsBelow(n)
<1>1. /\ n.kind \in {"seq", "if", "switch", "reaction"}
      /\ n.kind = "seq" => n.kids \in Seq(ReactionNodes)
      /\ n.kind = "if" => n.then \in MaybeReaction /\ n.else \in MaybeReaction
      /\ n.kind = "switch" => /\ n.default \in MaybeReaction /\ Len(n.cases) \in Nat
                              /\ \A k \in 1..Len(n.cases) : n.cases[k].then \in MaybeReaction
  BY SettingsAssumption DEF WellFormedReactions, MaybeReaction
<1>2. below \in Seq(MaybeReaction)
  <2> HIDE DEF n
  <2>1. CASE n.kind = "seq"
    BY <1>1, <2>1 DEF ReactionsBelow, MaybeReaction
  <2>2. CASE n.kind = "if"
    BY <1>1, <2>2 DEF ReactionsBelow
  <2>3. CASE n.kind = "switch"
    <3> DEFINE s == [k \in 1..Len(n.cases) |-> n.cases[k].then]
    <3>1. s \in Seq(MaybeReaction)
      BY <1>1, <2>3
    <3>2. below = Append(s, n.default)
      BY <2>3 DEF ReactionsBelow
    <3> HIDE DEF s
    <3> QED BY <1>1, <2>3, <3>1, <3>2
  <2>4. CASE n.kind = "reaction"
    BY <2>4, EmptySeq DEF ReactionsBelow
  <2> QED BY <1>1, <2>1, <2>2, <2>3, <2>4
<1>3. \A k \in DOMAIN below : below[k] \in MaybeReaction /\ below[k] \in Range(below)
  BY <1>2, LenProperties, ElementOfSeq DEF Range
<1>4. \A k \in DOMAIN below : below[k] = NoNode \/ below[k] \in ReactionBelow[id]
  <2>1. ReactionBelow[id] = Range(below) \cap ReactionNodes
    BY DEF ReactionBelow
  <2> HIDE DEF below
  <2> QED BY <1>3, <2>1 DEF MaybeReaction
<1> QED BY <1>1, <1>2, <1>4

LEMMA ReactionsFounded ==
    /\ Founded(ReactionNodes, ReactionBelow)
    /\ \A id \in ReactionNodes : ReactionBelow[id] \subseteq ReactionNodes
<1>1. ASSUME NEW S \in SUBSET ReactionNodes, S # {}
      PROVE  \E id \in S : ReactionBelow[id] \cap S = {}
  <2>1. PICK id \in S : Range(ReactionsBelow(Reaction[id])) \cap S = {}
    BY <1>1, SettingsAssumption DEF WellFormedReactions
  <2>2. ReactionBelow[id] = Range(ReactionsBelow(Reaction[id])) \cap ReactionNodes
    BY DEF ReactionBelow
  <2> QED BY <2>1, <2>2
<1> QED BY <1>1 DEF Founded, ReactionBelow

\* The numbers that a node's own is the sum of.
WeightsBelow(n, W) == [k \in DOMAIN ReactionsBelow(n) |-> WeightOf(ReactionsBelow(n)[k], W)]

LEMMA WeightsBelowType ==
    ASSUME NEW id \in ReactionNodes, NEW W, \A m \in ReactionBelow[id] : W[m] \in Nat
    PROVE  /\ WeightsBelow(Reaction[id], W) \in Seq(Nat)
           /\ Len(WeightsBelow(Reaction[id], W)) = Len(ReactionsBelow(Reaction[id]))
           /\ \A k \in 1..Len(ReactionsBelow(Reaction[id])) :
                  WeightsBelow(Reaction[id], W)[k] = WeightOf(ReactionsBelow(Reaction[id])[k], W)
<1> DEFINE below == ReactionsBelow(Reaction[id])
<1>1. DOMAIN below = 1..Len(below) /\ Len(below) \in Nat
  BY BelowType, LenProperties
<1>2. \A k \in DOMAIN below : WeightOf(below[k], W) \in Nat
  <2>1. \A k \in DOMAIN below : below[k] = NoNode \/ below[k] \in ReactionBelow[id]
    BY BelowType
  <2> HIDE DEF below
  <2> QED BY <2>1 DEF WeightOf
<1>3. WeightsBelow(Reaction[id], W) = [k \in DOMAIN below |-> WeightOf(below[k], W)]
  BY DEF WeightsBelow
<1> HIDE DEF below
<1> QED BY <1>1, <1>2, <1>3 DEF below

\* What a node is worth depends on the nodes right below it only.
LEMMA ChangesAtType ==
    ASSUME NEW action, NEW c, NEW id \in ReactionNodes, NEW W,
           \A m \in ReactionBelow[id] : W[m] \in Nat
    PROVE  /\ ChangesAt(Reaction[id], action, c, W) \in Nat
           /\ Reaction[id].kind # "reaction" =>
                ChangesAt(Reaction[id], action, c, W) = SumFunction(WeightsBelow(Reaction[id], W))
<1> DEFINE n == Reaction[id]
<1>1. n.kind # "reaction" => ChangesAt(n, action, c, W) = SumFunction(WeightsBelow(n, W))
  BY DEF ChangesAt, WeightsBelow
<1>2. SumFunction(WeightsBelow(n, W)) \in Nat
  BY WeightsBelowType, SumOfSeq
<1>3. n.kind = "reaction" => ChangesAt(n, action, c, W) = IF IsChange(n, action, c) THEN 1 ELSE 0
  BY DEF ChangesAt
<1> HIDE DEF n
<1> QED BY <1>1, <1>2, <1>3 DEF n

LEMMA ChangesAgree ==
    ASSUME NEW action, NEW c, NEW id \in ReactionNodes, NEW W, NEW V,
           \A m \in ReactionBelow[id] : V[m] = W[m]
    PROVE  ChangesAt(Reaction[id], action, c, V) = ChangesAt(Reaction[id], action, c, W)
<1> DEFINE n == Reaction[id]
           below == ReactionsBelow(n)
<1>1. WeightsBelow(n, V) = WeightsBelow(n, W)
  <2>1. \A k \in DOMAIN below : below[k] = NoNode \/ below[k] \in ReactionBelow[id]
    BY BelowType
  <2>2. /\ WeightsBelow(n, V) = [k \in DOMAIN below |-> WeightOf(below[k], V)]
        /\ WeightsBelow(n, W) = [k \in DOMAIN below |-> WeightOf(below[k], W)]
    BY DEF WeightsBelow
  <2> HIDE DEF below
  <2>3. \A k \in DOMAIN below : WeightOf(below[k], V) = WeightOf(below[k], W)
    BY <2>1 DEF WeightOf
  <2> QED BY <2>2, <2>3
<1>2. \A X : n.kind # "reaction" => ChangesAt(n, action, c, X) = SumFunction(WeightsBelow(n, X))
  BY DEF ChangesAt, WeightsBelow
<1>3. n.kind = "reaction" =>
        \A X : ChangesAt(n, action, c, X) = IF IsChange(n, action, c) THEN 1 ELSE 0
  BY DEF ChangesAt
<1> HIDE DEF n, below
<1> QED BY <1>1, <1>2, <1>3 DEF n

\* The numbers of all nodes are natural, and made up of those of the nodes below.
LEMMA ChangesUnfold ==
    ASSUME NEW action, NEW c
    PROVE  /\ Changes(Reaction, action, c) \in [ReactionNodes -> Nat]
           /\ \A id \in ReactionNodes :
                  Changes(Reaction, action, c)[id]
                    = ChangesAt(Reaction[id], action, c, Changes(Reaction, action, c))
<1> DEFINE At(id, W) == ChangesAt(Reaction[id], action, c, W)
           G == Changes(Reaction, action, c)
           D == ReactionNodes
           B == [x \in D \X [D -> Nat] |-> At(x[1], x[2])]
<1>1. \A id \in D : \A W \in [D -> Nat] : B[<<id, W>>] = At(id, W)
  OBVIOUS
<1>2. \A id \in D : \A W \in [D -> Nat] : At(id, W) \in Nat
  BY ChangesAtType, ReactionsFounded
<1>3. \A id \in D : \A V, W \in [D -> Nat] :
         (\A m \in ReactionBelow[id] : V[m] = W[m]) => At(id, V) = At(id, W)
  <2> SUFFICES ASSUME NEW id \in D, NEW V \in [D -> Nat], NEW W \in [D -> Nat],
                      \A m \in ReactionBelow[id] : V[m] = W[m]
               PROVE  At(id, V) = At(id, W)
    OBVIOUS
  <2>1. id \in ReactionNodes /\ \A m \in ReactionBelow[id] : V[m] = W[m]
    OBVIOUS
  <2>2. ChangesAt(Reaction[id], action, c, V) = ChangesAt(Reaction[id], action, c, W)
    <3> HIDE DEF At, B, D, G
    <3> QED BY <2>1, ChangesAgree
  <2> QED BY <2>2
<1>4. \E W \in [D -> Nat] : \A id \in D : W[id] = At(id, W)
  <2> HIDE DEF B, At, D
  <2>1. Recursion(D, Nat, ReactionBelow, B)
    BY <1>1, <1>2, <1>3, ReactionsFounded DEF Recursion, D
  <2>2. \E W \in [D -> Nat] : \A id \in D : W[id] = B[<<id, W>>]
    BY <2>1, FoundedRecursion
  <2> QED BY <1>1, <2>2
<1>5. PICK W : W = [id \in D |-> At(id, W)]
  <2> HIDE DEF At
  <2> QED BY <1>4
<1>6. G = [id \in D |-> At(id, G)]
  BY <1>5 DEF Changes
<1> HIDE DEF G, B
<1>7. \A id \in D : G[id] = At(id, G)
  BY <1>6
<1>8. \A id \in D : id \in {m \in D : G[m] \in Nat}
  <2> DEFINE S == {m \in D : G[m] \in Nat}
  <2>1. ASSUME NEW id \in D, \A m \in ReactionBelow[id] \cap D : m \in S
        PROVE  id \in S
    <3>1. \A m \in ReactionBelow[id] : G[m] \in Nat
      BY <2>1, ReactionsFounded
    <3>2. At(id, G) \in Nat
      BY <3>1, ChangesAtType
    <3> QED BY <1>7, <3>2
  <2> HIDE DEF S
  <2>2. \A id \in D : id \in S
    BY <2>1, ReactionsFounded, FoundedInduction
  <2> QED BY <2>2 DEF S
<1>9. G \in [D -> Nat]
  <2> HIDE DEF At
  <2> QED BY <1>6, <1>8
<1> QED BY <1>7, <1>9 DEF G

\* A reaction is worth one if it is of the kind, and nothing else.
LEMMA ChangesOfReaction ==
    ASSUME NEW action, NEW c, NEW id \in ReactionNodes, Reaction[id].kind = "reaction"
    PROVE  Changes(Reaction, action, c)[id] = IF IsChange(Reaction[id], action, c) THEN 1 ELSE 0
BY ChangesUnfold DEF ChangesAt

\* What a sequence of nodes is worth.
Worth(w, ids) == SumFunction([k \in DOMAIN ids |-> w[ids[k]]])

LEMMA WorthOfOptional ==
    ASSUME NEW w, NEW x, x # NoNode => w[x] \in Nat
    PROVE  Worth(w, Optional(x)) = WeightOf(x, w)
<1>1. CASE x = NoNode
  <2>1. [k \in DOMAIN <<>> |-> w[<<>>[k]]] = <<>>
    OBVIOUS
  <2>2. Worth(w, <<>>) = 0
    BY <2>1, SumOfSeq DEF Worth
  <2> QED BY <1>1, <2>2 DEF Optional, WeightOf
<1>2. CASE x # NoNode
  <2>1. [k \in DOMAIN <<x>> |-> w[<<x>>[k]]] = <<w[x]>>
    OBVIOUS
  <2>2. Worth(w, <<x>>) = w[x]
    BY <1>2, <2>1, SumOfSeq DEF Worth
  <2> QED BY <1>2, <2>2 DEF Optional, WeightOf
<1> QED BY <1>1, <1>2

\* An "if" and a "switch" give way to one of the nodes right below them, if it is there.
LEMMA UnfoldsToOne ==
    ASSUME NEW id \in ReactionNodes, Reaction[id].kind \in {"if", "switch"}, NEW holds, NEW value
    PROVE  \E j \in 1..Len(ReactionsBelow(Reaction[id])) :
               Unfold(Reaction[id], holds, value) = Optional(ReactionsBelow(Reaction[id])[j])
<1> DEFINE n == Reaction[id]
           below == ReactionsBelow(n)
<1>1. n.kind = "switch" => Len(n.cases) \in Nat
  BY SettingsAssumption DEF WellFormedReactions
<1>2. CASE n.kind = "if"
  <2>1. below = <<n.then, n.else>>
    BY <1>2 DEF ReactionsBelow
  <2>2. Unfold(n, holds, value) = Optional(IF holds THEN n.then ELSE n.else)
    BY <1>2 DEF Unfold, Branch
  <2> HIDE DEF below, n
  <2>3. 1 \in 1..Len(below) /\ 2 \in 1..Len(below) /\ below[1] = n.then /\ below[2] = n.else
    BY <2>1
  <2>4. \E j \in 1..Len(below) : Unfold(n, holds, value) = Optional(below[j])
    <3>1. CASE holds
      BY <2>2, <2>3, <3>1
    <3>2. CASE ~holds
      BY <2>2, <2>3, <3>2
    <3> QED BY <3>1, <3>2
  <2> QED BY <2>4 DEF below, n
<1>3. CASE n.kind = "switch"
  <2> DEFINE m == Len(n.cases)
             I == {i \in 1..m : n.cases[i].equals = value}
             s == [k \in 1..m |-> n.cases[k].then]
  <2>1. Unfold(n, holds, value) = Case(n, value)
    BY <1>3 DEF Unfold
  <2>2. Case(n, value) =
           LET i == IF I # {} THEN Min(I) ELSE 0
           IN  Optional(IF i = 0 THEN n.default ELSE n.cases[i].then)
    BY DEF Case, SelectInSeq
  <2>3. I # {} => Min(I) \in I
    <3> SUFFICES ASSUME I # {} PROVE Min(I) \in I
      OBVIOUS
    <3>1. I \subseteq Nat
      OBVIOUS
    <3>2. \E i \in I : \A j \in I : i <= j
      BY <3>1, LeastElement
    <3> HIDE DEF I
    <3> QED BY <3>2 DEF Min
  <2>4. I # {} => Min(I) \in 1..m
    BY <2>3
  <2>5. below = Append(s, n.default)
    BY <1>3 DEF ReactionsBelow
  <2>6. m \in Nat
    BY <1>1, <1>3
  <2> HIDE DEF I, m, below
  <2>7. /\ Len(below) = m + 1 /\ below[m + 1] = n.default
        /\ \A k \in 1..m : below[k] = n.cases[k].then
    <3>1. Len(s) = m /\ s \in Seq({n.cases[k].then : k \in 1..m})
      BY <2>6
    <3> HIDE DEF n
    <3> QED BY <2>5, <2>6, <3>1
  <2>8. \E j \in 1..Len(below) : Case(n, value) = Optional(below[j])
    <3> HIDE DEF n, s
    <3>1. CASE I = {}
      <4>1. Case(n, value) = Optional(n.default)
        BY <2>2, <3>1
      <4>2. m + 1 \in 1..Len(below)
        BY <2>6, <2>7
      <4> QED BY <2>7, <4>1, <4>2
    <3>2. CASE I # {}
      <4>1. Case(n, value) = Optional(n.cases[Min(I)].then)
        BY <2>2, <2>4, <2>6, <3>2
      <4>2. Min(I) \in 1..Len(below)
        BY <2>4, <2>6, <2>7, <3>2
      <4> QED BY <2>4, <2>7, <3>2, <4>1, <4>2
    <3> QED BY <3>1, <3>2
  <2> QED BY <2>1, <2>8 DEF below
<1> QED BY <1>2, <1>3

\* No way through a tree runs more of the reactions than the tree has.
LEMMA UnfoldLighter ==
    ASSUME NEW id \in ReactionNodes, Reaction[id].kind \in {"seq", "if", "switch"},
           NEW holds, NEW value, NEW action, NEW c
    PROVE  Worth(Changes(Reaction, action, c), Unfold(Reaction[id], holds, value))
             <= Changes(Reaction, action, c)[id]
<1> DEFINE n == Reaction[id]
           W == Changes(Reaction, action, c)
           below == ReactionsBelow(n)
           ids == Unfold(n, holds, value)
           weights == WeightsBelow(n, W)
<1>1. W \in [ReactionNodes -> Nat] /\ W[id] = ChangesAt(n, action, c, W)
  BY ChangesUnfold
<1>2. W[id] = SumFunction(weights)
  <2>1. n.kind # "reaction"
    OBVIOUS
  <2>2. \A m \in ReactionBelow[id] : W[m] \in Nat
    BY <1>1, ReactionsFounded
  <2> HIDE DEF W
  <2>3. ChangesAt(n, action, c, W) = SumFunction(weights)
    <3> HIDE DEF below, ids
    <3> QED BY <2>1, <2>2, ChangesAtType
  <2> HIDE DEF n, weights
  <2> QED BY <1>1, <2>3
<1>3. /\ weights \in Seq(Nat) /\ Len(weights) = Len(below)
      /\ \A k \in 1..Len(below) : weights[k] = WeightOf(below[k], W)
  <2>1. \A m \in ReactionBelow[id] : W[m] \in Nat
    BY <1>1, ReactionsFounded
  <2> HIDE DEF W
  <2> QED BY <2>1, WeightsBelowType
<1>4. below \in Seq(MaybeReaction) /\ DOMAIN below = 1..Len(below)
  BY BelowType, LenProperties
<1>5. CASE n.kind = "seq"
  <2>1. ids = n.kids /\ below = n.kids
    BY <1>5 DEF Unfold, ReactionsBelow
  <2>2. n.kids \in Seq(ReactionNodes) /\ NoNode \notin ReactionNodes
    BY <1>5, SettingsAssumption DEF WellFormedReactions
  <2>3. \A k \in DOMAIN n.kids : WeightOf(n.kids[k], W) = W[n.kids[k]]
    BY <2>2, LenProperties, ElementOfSeq DEF WeightOf
  <2>4. weights = [k \in DOMAIN n.kids |-> WeightOf(n.kids[k], W)]
    BY <2>1 DEF WeightsBelow
  <2> HIDE DEF W, ids, weights, n
  <2>5. weights = [k \in DOMAIN ids |-> W[ids[k]]]
    BY <2>1, <2>3, <2>4
  <2>6. Worth(W, ids) = W[id]
    BY <1>2, <2>5 DEF Worth
  <2>7. Worth(W, ids) <= W[id]
    BY <1>1, <2>6
  <2> QED BY <2>7 DEF W, ids, n
<1>6. CASE n.kind \in {"if", "switch"}
  <2>1. PICK j \in 1..Len(below) : ids = Optional(below[j])
    BY <1>6, UnfoldsToOne
  <2>2. below[j] \in MaybeReaction
    BY <1>4, ElementOfSeq
  <2>3. weights[j] <= SumFunction(weights)
    <3> HIDE DEF weights, below
    <3>1. \A s \in Seq(Nat) : \A k \in 1..Len(s) : s[k] <= SumFunction(s)
      BY SumOfSeq
    <3> QED BY <1>3, <3>1
  <2>4. Worth(W, ids) = WeightOf(below[j], W)
    <3>1. below[j] # NoNode => W[below[j]] \in Nat
      BY <1>1, <2>2 DEF MaybeReaction
    <3> HIDE DEF W, ids, below
    <3> QED BY <2>1, <3>1, WorthOfOptional
  <2> HIDE DEF W, ids, weights, below
  <2>5. Worth(W, ids) <= W[id]
    BY <1>2, <1>3, <2>1, <2>3, <2>4
  <2> QED BY <2>5 DEF W, ids
<1> QED BY <1>5, <1>6

-----------------------------------------------------------------------------
(* What a thread still has before it, by what each node is worth.             *)

\* What is left of an event is worth, when w says what its nodes are.
Loads(w, s) == [k \in DOMAIN s |-> w[s[k].node]]
Load(w, s) == SumFunction(Loads(w, s))

LEMMA LoadsType ==
    ASSUME NEW w \in [ReactionNodes -> Nat], NEW s \in Seq(Reactions)
    PROVE  /\ Loads(w, s) \in Seq(Nat) /\ Load(w, s) \in Nat
           /\ Len(Loads(w, s)) = Len(s)
           /\ \A k \in 1..Len(s) : Loads(w, s)[k] = w[s[k].node]
<1>1. DOMAIN s = 1..Len(s) /\ Len(s) \in Nat /\ \A k \in 1..Len(s) : s[k].node \in ReactionNodes
  <2>1. \A k \in 1..Len(s) : s[k] \in Reactions
    BY ElementOfSeq
  <2> QED BY <2>1, LenProperties DEF Reactions
<1>2. /\ Loads(w, s) \in Seq(Nat) /\ Len(Loads(w, s)) = Len(s)
      /\ \A k \in 1..Len(s) : Loads(w, s)[k] = w[s[k].node]
  BY <1>1 DEF Loads
<1>3. Load(w, s) \in Nat
  BY <1>2, SumOfSeq DEF Load
<1> QED BY <1>2, <1>3

LEMMA LoadOfNone == \A w : Load(w, <<>>) = 0
<1>1. \A w : Loads(w, <<>>) = <<>>
  BY DEF Loads
<1> QED BY <1>1, SumOfSeq DEF Load

LEMMA LoadOfConcat ==
    ASSUME NEW w \in [ReactionNodes -> Nat], NEW s \in Seq(Reactions), NEW r \in Seq(Reactions)
    PROVE  Load(w, s \o r) = Load(w, s) + Load(w, r)
<1> DEFINE q == s \o r
<1>1. /\ q \in Seq(Reactions) /\ Len(q) = Len(s) + Len(r) /\ Len(s) \in Nat /\ Len(r) \in Nat
      /\ \A k \in 1..(Len(s) + Len(r)) : q[k] = IF k <= Len(s) THEN s[k] ELSE r[k - Len(s)]
  <2> HIDE DEF Reactions
  <2>1. q \in Seq(Reactions) /\ Len(q) = Len(s) + Len(r)
    BY ConcatProperties
  <2>2. \A k \in 1..(Len(s) + Len(r)) : q[k] = IF k <= Len(s) THEN s[k] ELSE r[k - Len(s)]
    BY ConcatProperties
  <2> QED BY <2>1, <2>2, LenProperties
<1> HIDE DEF q
<1>2. Loads(w, q) \in Seq(Nat) /\ Loads(w, s) \in Seq(Nat) /\ Loads(w, r) \in Seq(Nat)
      /\ Len(Loads(w, q)) = Len(q) /\ Len(Loads(w, s)) = Len(s) /\ Len(Loads(w, r)) = Len(r)
  BY <1>1, LoadsType
<1>3. /\ \A k \in 1..Len(q) : Loads(w, q)[k] = w[q[k].node]
      /\ \A k \in 1..Len(s) : Loads(w, s)[k] = w[s[k].node]
      /\ \A k \in 1..Len(r) : Loads(w, r)[k] = w[r[k].node]
  BY <1>1, LoadsType
<1> DEFINE a == Loads(w, s)
           b == Loads(w, r)
           ab == a \o b
<1>4. /\ ab \in Seq(Nat) /\ Len(ab) = Len(s) + Len(r)
      /\ \A k \in 1..(Len(s) + Len(r)) : ab[k] = IF k <= Len(s) THEN a[k] ELSE b[k - Len(s)]
  <2> HIDE DEF a, b
  <2>1. a \in Seq(Nat) /\ b \in Seq(Nat) /\ Len(a) = Len(s) /\ Len(b) = Len(r)
    BY <1>2 DEF a, b
  <2>2. ab \in Seq(Nat) /\ Len(ab) = Len(a) + Len(b)
    BY <2>1, ConcatProperties
  <2>3. \A k \in 1..(Len(a) + Len(b)) : ab[k] = IF k <= Len(a) THEN a[k] ELSE b[k - Len(a)]
    BY <2>1, ConcatProperties
  <2> QED BY <2>1, <2>2, <2>3
<1> HIDE DEF ab
<1>5. \A k \in 1..Len(q) : Loads(w, q)[k] = ab[k]
  <2> SUFFICES ASSUME NEW k \in 1..Len(q) PROVE Loads(w, q)[k] = ab[k]
    OBVIOUS
  <2>1. CASE k <= Len(s)
    <3>1. k \in 1..Len(s)
      BY <1>1, <2>1
    <3>2. q[k] = s[k] /\ ab[k] = a[k]
      BY <1>1, <1>4, <2>1
    <3> QED BY <1>3, <3>1, <3>2
  <2>2. CASE k > Len(s)
    <3>1. k - Len(s) \in 1..Len(r)
      BY <1>1, <2>2
    <3>2. q[k] = r[k - Len(s)] /\ ab[k] = b[k - Len(s)]
      BY <1>1, <1>4, <2>2
    <3> QED BY <1>3, <3>1, <3>2
  <2> QED BY <1>1, <2>1, <2>2
<1>6. Loads(w, q) = ab
  <2> DEFINE x == Loads(w, q)
  <2>1. x \in Seq(Nat) /\ Len(x) = Len(ab) /\ \A k \in 1..Len(x) : x[k] = ab[k]
    BY <1>1, <1>2, <1>4, <1>5
  <2> HIDE DEF x
  <2>2. x = ab
    BY <1>4, <2>1, SeqEqual
  <2> QED BY <2>2 DEF x
<1>7. SumFunction(ab) = SumFunction(a) + SumFunction(b)
  <2> HIDE DEF a, b
  <2>1. a \in Seq(Nat) /\ b \in Seq(Nat)
    BY <1>2 DEF a, b
  <2> QED BY <2>1, SumOfConcat DEF ab
<1> QED BY <1>6, <1>7 DEF Load, q

LEMMA LoadOfHead ==
    ASSUME NEW w \in [ReactionNodes -> Nat], NEW s \in Seq(Reactions), s # <<>>
    PROVE  Load(w, s) = w[Head(s).node] + Load(w, Tail(s)) /\ Load(w, Tail(s)) \in Nat
<1> DEFINE x == Head(s)
           r == Tail(s)
<1>1. Len(s) \in Nat \ {0}
  BY EmptySeq
<1>2. x \in Reactions /\ r \in Seq(Reactions) /\ <<x>> \in Seq(Reactions)
  <2> HIDE DEF Reactions
  <2> QED BY HeadTailProperties
<1>3. s = <<x>> \o r
  <2>1. 1 \in 1..Len(s) /\ Len(s) \in 1..Len(s)
    BY <1>1
  <2> HIDE DEF Reactions
  <2>2. SubSeq(s, 1, Len(s)) = <<s[1]>> \o SubSeq(s, 2, Len(s))
    BY <2>1, SubSeqRecursiveFirst
  <2>3. SubSeq(s, 1, Len(s)) = s /\ r = SubSeq(s, 2, Len(s)) /\ x = s[1]
    BY SubSeqFull, TailIsSubSeq
  <2> QED BY <2>2, <2>3
<1>4. x.node \in ReactionNodes
  BY <1>2 DEF Reactions
<1> HIDE DEF x, r
<1>5. Load(w, <<x>>) = w[x.node]
  <2>1. Loads(w, <<x>>) = <<w[x.node]>>
    BY DEF Loads
  <2> QED BY <1>4, <2>1, SumOfSeq DEF Load
<1>6. Load(w, s) = Load(w, <<x>>) + Load(w, r)
  BY <1>2, <1>3, LoadOfConcat
<1>7. Load(w, r) \in Nat
  BY <1>2, LoadsType
<1> QED BY <1>5, <1>6, <1>7 DEF x, r

\* Nodes that are worth less are together worth less.
LEMMA LoadGrows ==
    ASSUME NEW v \in [ReactionNodes -> Nat], NEW w \in [ReactionNodes -> Nat],
           \A id \in ReactionNodes : v[id] <= w[id], NEW s \in Seq(Reactions)
    PROVE  Load(v, s) <= Load(w, s)
<1> DEFINE a == Loads(v, s)
           b == Loads(w, s)
           S == 1..Len(s)
<1>1. a \in Seq(Nat) /\ b \in Seq(Nat) /\ Len(a) = Len(s) /\ Len(b) = Len(s)
  BY LoadsType
<1>2. \A k \in S : a[k] = v[s[k].node] /\ b[k] = w[s[k].node] /\ s[k] \in Reactions
  BY LoadsType, ElementOfSeq
<1>3. DOMAIN a = S /\ DOMAIN b = S /\ Len(s) \in Nat
  <2> HIDE DEF a, b
  <2> QED BY <1>1, LenProperties
<1>4. IsFiniteSet(S)
  BY <1>3, FS_Interval
<1>5. \A k \in S : a[k] \in Nat /\ b[k] \in Nat /\ a[k] <= b[k]
  BY <1>2 DEF Reactions
<1> HIDE DEF a, b, S
<1>6. SumFunctionOnSet(a, S) <= SumFunctionOnSet(b, S)
  BY <1>4, <1>5, SumGrows
<1> QED BY <1>3, <1>6 DEF SumFunction, Load, a, b

\* The first node gives way to ids.
LEMMA LoadOfReplaced ==
    ASSUME LocalType, NEW t \in Threads, todo[t] # <<>>,
           NEW ids \in Seq(ReactionNodes), Replace(t, ids),
           NEW w \in [ReactionNodes -> Nat]
    PROVE  \E rest \in Nat :
               /\ Load(w, todo[t]) = w[Head(todo[t]).node] + rest
               /\ Load(w, todo'[t]) = Worth(w, ids) + rest
<1> DEFINE i == Head(todo[t]).trigger
           new == [k \in DOMAIN ids |-> [trigger |-> i, node |-> ids[k]]]
           rest == Tail(todo[t])
<1>1. todo[t] \in Seq(Reactions)
  BY DEF LocalType
<1>2. rest \in Seq(Reactions) /\ i \in DOMAIN Triggers
  <2>1. Head(todo[t]) \in Reactions
    BY TopType
  <2>2. i \in DOMAIN Triggers
    BY <2>1 DEF Reactions
  <2> HIDE DEF Reactions, i
  <2> QED BY <1>1, <2>2, HeadTailProperties
<1>3. new \in Seq(Reactions)
  <2>1. DOMAIN ids = 1..Len(ids) /\ Len(ids) \in Nat /\ \A k \in 1..Len(ids) : ids[k] \in ReactionNodes
    BY LenProperties, ElementOfSeq
  <2> HIDE DEF i, rest
  <2> QED BY <1>2, <2>1 DEF Reactions
<1>4. todo'[t] = new \o rest
  BY DEF Replace, LocalType
<1>5. Loads(w, new) = [k \in DOMAIN ids |-> w[ids[k]]]
  BY DEF Loads
<1>6. Load(w, new) = Worth(w, ids)
  BY <1>5 DEF Load, Worth
<1> HIDE DEF new, rest
<1>7. Load(w, todo'[t]) = Load(w, new) + Load(w, rest)
  BY <1>2, <1>3, <1>4, LoadOfConcat
<1>8. Load(w, todo[t]) = w[Head(todo[t]).node] + Load(w, rest) /\ Load(w, rest) \in Nat
  BY <1>1, LoadOfHead DEF rest
<1> QED BY <1>6, <1>7, <1>8

-----------------------------------------------------------------------------
(* It is no more than what the triggers yield for its event.                  *)

\* What each trigger yields for an event, when W says what the trees are worth.
Yields(e, W) ==
    [i \in DOMAIN Triggers |->
        IF Applies(Triggers[i], e) THEN WeightOf(Triggers[i].reactions, W) ELSE 0]

LEMMA YieldsType ==
    ASSUME NEW W \in [ReactionNodes -> Nat], NEW e
    PROVE  /\ Yields(e, W) \in Seq(Nat) /\ DOMAIN Yields(e, W) = 1..Len(Triggers)
           /\ Len(Yields(e, W)) = Len(Triggers)
           /\ \A i \in 1..Len(Triggers) :
                /\ Yields(e, W)[i] \in Nat
                /\ WeightOf(Triggers[i].reactions, W) \in Nat
                /\ Yields(e, W)[i] = IF Applies(Triggers[i], e)
                                     THEN WeightOf(Triggers[i].reactions, W) ELSE 0
<1>1. DOMAIN Triggers = 1..Len(Triggers) /\ Len(Triggers) \in Nat
  BY TriggerIndices
<1>2. \A i \in DOMAIN Triggers : WeightOf(Triggers[i].reactions, W) \in Nat
  BY SettingsAssumption DEF WeightOf
<1>3. \A i \in DOMAIN Triggers :
         Yields(e, W)[i] = IF Applies(Triggers[i], e) THEN WeightOf(Triggers[i].reactions, W) ELSE 0
  BY DEF Yields
<1>4. DOMAIN Yields(e, W) = DOMAIN Triggers
      /\ Yields(e, W) = [i \in DOMAIN Triggers |-> Yields(e, W)[i]]
  BY DEF Yields
<1>5. \A i \in DOMAIN Triggers : Yields(e, W)[i] \in Nat
  BY <1>2, <1>3
<1> DEFINE y == Yields(e, W)
<1> HIDE DEF y
<1>6. y = [i \in 1..Len(Triggers) |-> y[i]] /\ \A i \in 1..Len(Triggers) : y[i] \in Nat
  BY <1>1, <1>4, <1>5 DEF y
<1>7. y \in [1..Len(Triggers) -> Nat]
  BY <1>6
<1>8. y \in Seq(Nat) /\ Len(y) = Len(Triggers)
  BY <1>1, <1>7
<1> QED BY <1>1, <1>2, <1>3, <1>4, <1>5, <1>8 DEF y

\* The greatest of bounded numbers.
LEMMA GreatestElement ==
    ASSUME NEW T, T \subseteq Nat, T # {}, NEW m \in Nat, \A x \in T : x <= m
    PROVE  Max(T) \in T /\ \A x \in T : x <= Max(T)
<1> DEFINE U == {m - x : x \in T}
<1>1. U \subseteq Nat /\ U # {}
  <2>1. \A x \in T : m - x \in Nat
    OBVIOUS
  <2>2. U \subseteq Nat
    BY <2>1
  <2> QED BY <2>2
<1>2. PICK n \in U : \A k \in U : n <= k
  BY <1>1, LeastElement
<1>3. PICK x \in T : n = m - x
  BY <1>2
<1>4. \A y \in T : m - y \in U
  OBVIOUS
<1> HIDE DEF U
<1>5. \A y \in T : x >= y
  BY <1>2, <1>3, <1>4
<1>6. Max(T) \in T /\ \A y \in T : Max(T) >= y
  <2>1. \E z \in T : \A y \in T : z >= y
    BY <1>5
  <2> QED BY <2>1 DEF Max
<1> QED BY <1>6

\* No event of a thread does more to a counter than the thread's burst.
LEMMA BurstBounds ==
    ASSUME NEW t \in Threads, NEW action, NEW c
    PROVE  /\ Burst(t, action, c) \in Nat
           /\ \A e \in Inputs[t] :
                OfEvent(e, action, c) \in Nat /\ OfEvent(e, action, c) <= Burst(t, action, c)
<1> DEFINE W == Changes(Reaction, action, c)
           all == [i \in DOMAIN Triggers |-> WeightOf(Triggers[i].reactions, W)]
           S == 1..Len(Triggers)
           m == SumFunctionOnSet(all, S)
           T == {0} \cup {OfEvent(e, action, c) : e \in Inputs[t]}
<1>1. W \in [ReactionNodes -> Nat]
  BY ChangesUnfold
<1>2. DOMAIN Triggers = S /\ IsFiniteSet(S)
  BY TriggerIndices, FS_Interval
<1>3. \A e : OfEvent(e, action, c) = SumFunctionOnSet(Yields(e, W), S)
  <2>1. \A e : OfEvent(e, action, c) = SumFunction(Yields(e, W))
    BY DEF OfEvent, Yields
  <2> HIDE DEF W, S
  <2>2. \A e : DOMAIN Yields(e, W) = S
    BY <1>1, YieldsType DEF S
  <2> QED BY <2>1, <2>2 DEF SumFunction
<1>4. \A i \in S : all[i] = WeightOf(Triggers[i].reactions, W)
  BY <1>2
<1> HIDE DEF W, all, S
<1>5. ASSUME NEW e PROVE SumFunctionOnSet(Yields(e, W), S) \in Nat
                         /\ SumFunctionOnSet(Yields(e, W), S) <= m /\ m \in Nat
  <2> DEFINE y == Yields(e, W)
  <2>1. \A i \in S : y[i] \in Nat /\ all[i] \in Nat /\ y[i] <= all[i]
    <3> SUFFICES ASSUME NEW i \in S PROVE y[i] \in Nat /\ all[i] \in Nat /\ y[i] <= all[i]
      OBVIOUS
    <3> DEFINE x == WeightOf(Triggers[i].reactions, W)
    <3>1. all[i] = x /\ y[i] \in Nat /\ x \in Nat
          /\ y[i] = IF Applies(Triggers[i], e) THEN x ELSE 0
      BY <1>1, <1>4, YieldsType DEF S
    <3> HIDE DEF x, y
    <3> QED BY <3>1
  <2> HIDE DEF y
  <2>2. SumFunctionOnSet(y, S) \in Nat /\ SumFunctionOnSet(all, S) \in Nat
    BY <1>2, <2>1, SumProperties
  <2>3. SumFunctionOnSet(y, S) <= SumFunctionOnSet(all, S)
    BY <1>2, <2>1, SumGrows
  <2> QED BY <2>2, <2>3 DEF y
<1>6. T \subseteq Nat /\ T # {} /\ m \in Nat /\ \A x \in T : x <= m
  <2> HIDE DEF m
  <2> QED BY <1>3, <1>5
<1>7. Burst(t, action, c) = Max(T)
  BY DEF Burst
<1>8. \A e \in Inputs[t] : OfEvent(e, action, c) \in T
  OBVIOUS
<1> HIDE DEF T, m
<1>9. Max(T) \in T /\ \A x \in T : x <= Max(T)
  BY <1>6, GreatestElement
<1> QED BY <1>6, <1>7, <1>8, <1>9

\* The triggers that t has looked at: it has collected what they yield.
Looked(t) == 1..(IF pc[t] = "stamp" THEN at[t] ELSE at[t] - 1)

\* What is left of an event is worth no more than what the triggers looked at yield.
Foreseen(W) ==
    \A t \in Threads :
        /\ pc[t] = "idle" => todo[t] = <<>>
        /\ Load(W, todo[t]) <= SumFunctionOnSet(Yields(event[t], W), Looked(t))

LEMMA LookedType ==
    ASSUME HandlerInv, NEW t \in Threads
    PROVE  /\ at[t] \in 1..(Len(Triggers) + 1) /\ Len(Triggers) \in Nat
           /\ Looked(t) \subseteq 1..Len(Triggers) /\ IsFiniteSet(Looked(t))
<1>1. at[t] \in 1..(Len(Triggers) + 1) /\ Len(Triggers) \in Nat
      /\ (pc[t] = "stamp" => at[t] \in 1..Len(Triggers))
  BY TriggerIndices DEF HandlerInv, LocalType, Placed
<1>2. CASE pc[t] = "stamp"
  <2>1. Looked(t) = 1..at[t]
    BY <1>2 DEF Looked
  <2>2. at[t] \in Int /\ 1..at[t] \subseteq 1..Len(Triggers)
    BY <1>1, <1>2
  <2>3. IsFiniteSet(1..at[t])
    BY <2>2, FS_Interval
  <2> QED BY <1>1, <2>1, <2>2, <2>3
<1>3. CASE pc[t] # "stamp"
  <2>1. Looked(t) = 1..(at[t] - 1)
    BY <1>3 DEF Looked
  <2>2. at[t] - 1 \in Int /\ 1..(at[t] - 1) \subseteq 1..Len(Triggers)
    BY <1>1
  <2>3. IsFiniteSet(1..(at[t] - 1))
    BY <2>2, FS_Interval
  <2> QED BY <1>1, <2>1, <2>2, <2>3
<1> QED BY <1>2, <1>3

\* The sums over the triggers looked at are numbers that grow with the triggers.
LEMMA YieldsGrow ==
    ASSUME NEW W \in [ReactionNodes -> Nat], NEW e, NEW R \in SUBSET (1..Len(Triggers)),
           NEW S \in SUBSET R
    PROVE  /\ SumFunctionOnSet(Yields(e, W), R) \in Nat
           /\ SumFunctionOnSet(Yields(e, W), S) \in Nat
           /\ SumFunctionOnSet(Yields(e, W), S) <= SumFunctionOnSet(Yields(e, W), R)
<1> DEFINE y == Yields(e, W)
<1>1. IsFiniteSet(1..Len(Triggers))
  BY TriggerIndices, FS_Interval
<1>2. IsFiniteSet(R) /\ IsFiniteSet(S)
  <2>1. IsFiniteSet(R)
    BY <1>1, FS_Subset
  <2> QED BY <2>1, FS_Subset
<1>3. \A i \in R : y[i] \in Nat
  BY YieldsType
<1> HIDE DEF y
<1>4. SumFunctionOnSet(y, R) \in Nat /\ SumFunctionOnSet(y, S) \in Nat
  BY <1>2, <1>3, SumProperties
<1>5. SumFunctionOnSet(y, S) <= SumFunctionOnSet(y, R)
  BY <1>2, <1>3, SumOfSubset
<1> QED BY <1>4, <1>5 DEF y

\* An "if", a "seq" or a "switch" gives way to what is worth no more.
LEMMA EntersLighter ==
    ASSUME HandlerInv, NEW t \in Threads, Enters(t), NEW action, NEW c
    PROVE  \E ids \in Seq(ReactionNodes) :
               /\ Replace(t, ids)
               /\ Worth(Changes(Reaction, action, c), ids)
                    <= Changes(Reaction, action, c)[Head(todo[t]).node]
<1> DEFINE id == Head(todo[t]).node
<1>1. /\ todo[t] # <<>> /\ Reaction[id].kind \in {"seq", "if", "switch"}
      /\ \E holds, value : Replace(t, Unfold(Reaction[id], holds, value))
  BY DEF Enters, EnterSeq, EnterIf, EnterSwitch, EnterNode, Reaches, Top
<1>2. id \in ReactionNodes
  BY <1>1, TopType DEF HandlerInv
<1>3. PICK holds, value : Replace(t, Unfold(Reaction[id], holds, value))
  BY <1>1
<1>4. Unfold(Reaction[id], holds, value) \in Seq(ReactionNodes)
  BY <1>1, <1>2, UnfoldType
<1>5. Worth(Changes(Reaction, action, c), Unfold(Reaction[id], holds, value))
        <= Changes(Reaction, action, c)[id]
  BY <1>1, <1>2, UnfoldLighter
<1> QED BY <1>3, <1>4, <1>5

\* Nodes that are worth less are together worth less, and nothing if each is.
LEMMA WorthGrows ==
    ASSUME NEW v \in [ReactionNodes -> Nat], NEW w \in [ReactionNodes -> Nat],
           \A id \in ReactionNodes : v[id] <= w[id], NEW ids \in Seq(ReactionNodes)
    PROVE  /\ Worth(v, ids) \in Nat /\ Worth(w, ids) \in Nat /\ Worth(v, ids) <= Worth(w, ids)
           /\ (\A k \in DOMAIN ids : v[ids[k]] = 0) => Worth(v, ids) = 0
<1> DEFINE D == DOMAIN ids
           a == [k \in D |-> v[ids[k]]]
           b == [k \in D |-> w[ids[k]]]
<1>1. D = 1..Len(ids) /\ Len(ids) \in Nat /\ \A k \in D : ids[k] \in ReactionNodes
  BY LenProperties, ElementOfSeq
<1>2. IsFiniteSet(D)
  BY <1>1, FS_Interval
<1>3. /\ \A k \in D : a[k] \in Nat /\ b[k] \in Nat /\ a[k] <= b[k]
      /\ (\A k \in D : v[ids[k]] = 0) => \A k \in D : a[k] = 0
      /\ DOMAIN a = D /\ DOMAIN b = D
  BY <1>1
<1>4. Worth(v, ids) = SumFunction(a) /\ Worth(w, ids) = SumFunction(b)
  BY DEF Worth
<1> HIDE DEF a, b, D
<1>5. SumFunctionOnSet(a, D) \in Nat /\ SumFunctionOnSet(b, D) \in Nat
  BY <1>2, <1>3, SumProperties
<1>6. SumFunctionOnSet(a, D) <= SumFunctionOnSet(b, D)
  BY <1>2, <1>3, SumGrows
<1>7. (\A k \in D : v[ids[k]] = 0) => SumFunctionOnSet(a, D) = 0
  BY <1>2, <1>3, SumOfZeros
<1> QED BY <1>3, <1>4, <1>5, <1>6, <1>7 DEF SumFunction, D

LEMMA ReplacedLighter ==
    ASSUME HandlerInv, NEW t \in Threads, Enters(t) \/ Drops(t), NEW action, NEW c
    PROVE  Load(Changes(Reaction, action, c), todo'[t]) <= Load(Changes(Reaction, action, c), todo[t])
<1> DEFINE W == Changes(Reaction, action, c)
           id == Head(todo[t]).node
<1>1. W \in [ReactionNodes -> Nat]
  BY ChangesUnfold
<1>2. LocalType /\ todo[t] # <<>> /\ id \in ReactionNodes
  <2>1. LocalType /\ todo[t] # <<>>
    BY DEF HandlerInv, Drops, Enters, EnterSeq, EnterIf, EnterSwitch, Reaches
  <2> QED BY <2>1, TopType
<1>3. \E ids \in Seq(ReactionNodes) : Replace(t, ids) /\ Worth(W, ids) <= W[id]
  <2>1. CASE Drops(t)
    <3>1. <<>> \in Seq(ReactionNodes) /\ Replace(t, <<>>)
      BY <2>1, EmptySeq DEF Drops
    <3>2. Worth(W, <<>>) = 0
      <4>1. DOMAIN <<>> = {}
        OBVIOUS
      <4>2. \A x \in ReactionNodes : W[x] <= W[x]
        BY <1>1
      <4> HIDE DEF W
      <4> QED BY <1>1, <3>1, <4>1, <4>2, WorthGrows
    <3>3. W[id] \in Nat
      BY <1>1, <1>2
    <3> HIDE DEF W, id
    <3>4. Worth(W, <<>>) <= W[id]
      BY <3>2, <3>3
    <3> QED BY <3>1, <3>4, Zenon
  <2>2. CASE Enters(t)
    BY <2>2, EntersLighter
  <2> QED BY <2>1, <2>2
<1> HIDE DEF W, id
<1>4. PICK ids \in Seq(ReactionNodes) : Replace(t, ids) /\ Worth(W, ids) <= W[id]
  BY <1>3
<1>5. PICK rest \in Nat : /\ Load(W, todo[t]) = W[id] + rest
                          /\ Load(W, todo'[t]) = Worth(W, ids) + rest
  BY <1>1, <1>2, <1>4, LoadOfReplaced DEF id
<1>6. W[id] \in Nat /\ Worth(W, ids) \in Nat
  <2>1. \A x \in ReactionNodes : W[x] <= W[x]
    BY <1>1
  <2> QED BY <1>1, <1>2, <2>1, WorthGrows
<1>7. Load(W, todo'[t]) <= Load(W, todo[t])
  BY <1>4, <1>5, <1>6
<1> QED BY <1>7 DEF W

\* What a match adds is what the trigger is worth.
LEMMA MatchLoad ==
    ASSUME HandlerInv, NEW t \in Threads, Match(t), NEW W \in [ReactionNodes -> Nat]
    PROVE  /\ at[t] \in DOMAIN Triggers
           /\ WeightOf(Triggers[at[t]].reactions, W) \in Nat
           /\ Load(W, todo[t]) \in Nat
           /\ Load(W, todo'[t]) = Load(W, todo[t]) + WeightOf(Triggers[at[t]].reactions, W)
<1> DEFINE i == at[t]
           id == Triggers[i].reactions
<1>1. i \in DOMAIN Triggers /\ id \in ReactionNodes \cup {NoNode}
  BY TriggerIndices, SettingsAssumption DEF Match, HandlerInv, LocalType
<1>2. todo'[t] = todo[t] \o Collected(i) /\ todo[t] \in Seq(Reactions)
  BY DEF Match, HandlerInv, LocalType
<1>3. Collected(i) \in Seq(Reactions) /\ Load(W, Collected(i)) = WeightOf(id, W)
      /\ WeightOf(id, W) \in Nat
  <2>1. CASE id = NoNode
    <3>1. Collected(i) = <<>> /\ WeightOf(id, W) = 0
      BY <2>1 DEF Collected, WeightOf
    <3> QED BY <3>1, LoadOfNone, EmptySeq
  <2>2. CASE id # NoNode
    <3> DEFINE x == [trigger |-> i, node |-> id]
    <3>1. Collected(i) = <<x>> /\ WeightOf(id, W) = W[id] /\ W[id] \in Nat /\ x.node = id
      BY <1>1, <2>2 DEF Collected, WeightOf
    <3>2. x \in Reactions
      BY <1>1, <2>2 DEF Reactions
    <3> HIDE DEF x, id
    <3>3. Loads(W, <<x>>) = <<W[id]>>
      BY <3>1 DEF Loads
    <3>4. Load(W, <<x>>) = W[id]
      BY <3>1, <3>3, SumOfSeq DEF Load
    <3>5. <<x>> \in Seq(Reactions)
      <4> HIDE DEF Reactions
      <4> QED BY <3>2
    <3> QED BY <3>1, <3>4, <3>5
  <2> QED BY <2>1, <2>2
<1>4. Load(W, todo[t] \o Collected(i)) = Load(W, todo[t]) + Load(W, Collected(i))
  BY <1>2, <1>3, LoadOfConcat
<1>5. Load(W, todo[t]) \in Nat
  BY <1>2, LoadsType
<1> QED BY <1>1, <1>2, <1>3, <1>4, <1>5

\* What LookedType says of the step's end.
LookedWithin == \A t \in Threads : Looked(t) \subseteq 1..Len(Triggers)

LEMMA LookedNext == HandlerInv' => LookedWithin'
<1>1. HandlerInv => LookedWithin
  BY LookedType DEF LookedWithin
<1> QED BY <1>1, PTL

\* What is left of an event is worth no more than what the triggers looked at yield, and
\* so no more than the thread's burst.
LEMMA ForeseenInv ==
    ASSUME NEW action, NEW c, NEW W, W = Changes(Reaction, action, c)
    PROVE  /\ Init => Foreseen(W)
           /\ HandlerInv /\ Foreseen(W) /\ [Next]_vars => Foreseen(W)'
<1>0. W \in [ReactionNodes -> Nat]
  BY ChangesUnfold
<1>1. ASSUME NEW e, NEW R \in SUBSET (1..Len(Triggers))
      PROVE  Load(W, <<>>) <= SumFunctionOnSet(Yields(e, W), R)
  <2>1. SumFunctionOnSet(Yields(e, W), R) \in Nat
    BY <1>0, YieldsGrow
  <2>2. Load(W, <<>>) = 0
    BY LoadOfNone
  <2> QED BY <2>1, <2>2
<1>2. Init => Foreseen(W)
  <2> SUFFICES ASSUME Init, NEW t \in Threads
               PROVE  Load(W, todo[t]) <= SumFunctionOnSet(Yields(event[t], W), Looked(t))
    BY DEF Foreseen, Init
  <2>1. todo[t] = <<>> /\ Looked(t) \subseteq 1..Len(Triggers)
    BY InitHandler, LookedType DEF Init
  <2> QED BY <1>1, <2>1
<1>3. ASSUME HandlerInv, Foreseen(W), [Next]_vars PROVE Foreseen(W)'
  <2> USE <1>3
  <2>1. HandlerInv' /\ LocalType /\ LocalType'
    BY NextHandler DEF HandlerInv
  <2>2. \A t \in Threads : Looked(t)' \subseteq 1..Len(Triggers)
    BY <2>1, LookedNext DEF LookedWithin
  <2>3. ASSUME NEW t \in Threads, HandleEvent(t) PROVE Foreseen(W)'
    <3>1. OthersKept(t)
      BY <2>3, StepKinds
    <3>2. /\ pc[t] = "idle" => todo[t] = <<>>
          /\ Load(W, todo[t]) <= SumFunctionOnSet(Yields(event[t], W), Looked(t))
      BY DEF Foreseen
    <3> SUFFICES /\ pc'[t] = "idle" => todo'[t] = <<>>
                 /\ Load(W, todo'[t]) <= SumFunctionOnSet(Yields(event'[t], W), Looked(t)')
      <4>1. \A u \in Threads \ {t} : Looked(u)' = Looked(u)
        BY <3>1 DEF OthersKept, Looked
      <4> QED BY <3>1, <4>1 DEF OthersKept, Foreseen
    <3>3. ASSUME todo'[t] = <<>>
          PROVE  Load(W, todo'[t]) <= SumFunctionOnSet(Yields(event'[t], W), Looked(t)')
      BY <1>1, <2>2, <3>3
    <3>4. Load(W, todo[t]) \in Nat /\ Load(W, todo'[t]) \in Nat
      <4>1. todo[t] \in Seq(Reactions) /\ todo'[t] \in Seq(Reactions)
        BY <2>1 DEF LocalType
      <4> QED BY <1>0, <4>1, LoadsType
    <3>5. ASSUME event'[t] = event[t], Looked(t) \subseteq Looked(t)',
                 Load(W, todo'[t]) <= Load(W, todo[t])
          PROVE  Load(W, todo'[t]) <= SumFunctionOnSet(Yields(event'[t], W), Looked(t)')
      <4> DEFINE old == SumFunctionOnSet(Yields(event[t], W), Looked(t))
                 new == SumFunctionOnSet(Yields(event[t], W), Looked(t)')
      <4>1. old <= new /\ old \in Nat /\ new \in Nat
        BY <1>0, <2>2, <3>5, YieldsGrow
      <4>2. Load(W, todo[t]) <= old
        BY <3>2
      <4> HIDE DEF old, new
      <4>3. Load(W, todo'[t]) <= new
        BY <3>4, <3>5, <4>1, <4>2
      <4> QED BY <3>5, <4>3 DEF new
    <3>6. at[t] \in 1..(Len(Triggers) + 1) /\ Len(Triggers) \in Nat
      BY LookedType
    <3>7. CASE Begins(t)
      <4>1. todo'[t] = <<>>
        BY <3>2, <3>7 DEF Begins
      <4> QED BY <3>3, <4>1
    <3>8. CASE Quiet(t)
      <4>1. event'[t] = event[t] /\ todo'[t] = todo[t] /\ pc'[t] # "idle" /\ pc'[t] # "stamp"
            /\ pc[t] # "stamp"
        BY <3>8 DEF Quiet
      <4>2. at'[t] = at[t] \/ at'[t] = at[t] + 1
        BY <2>1, <3>8 DEF Quiet, Filtered, Next1, LocalType
      <4>3. Looked(t) = 1..(at[t] - 1) /\ Looked(t)' = 1..(at'[t] - 1)
        BY <4>1 DEF Looked
      <4>4. Looked(t) \subseteq Looked(t)'
        BY <3>6, <4>2, <4>3
      <4>5. Load(W, todo'[t]) <= Load(W, todo[t])
        BY <3>4, <4>1
      <4> QED BY <3>5, <4>1, <4>4, <4>5
    <3>9. CASE NoMatch(t) \/ Stamp(t)
      <4>1. event'[t] = event[t] /\ todo'[t] = todo[t] /\ pc'[t] = "resolve" /\ at'[t] = at[t] + 1
        BY <2>1, <3>9 DEF NoMatch, Stamp, Next1, Goto, LocalType
      <4>2. Looked(t) \subseteq 1..at[t] /\ Looked(t)' = 1..((at[t] + 1) - 1)
        BY <3>6, <4>1 DEF Looked
      <4>3. Looked(t) \subseteq Looked(t)'
        BY <3>6, <4>2
      <4>4. Load(W, todo'[t]) <= Load(W, todo[t])
        BY <3>4, <4>1
      <4> QED BY <3>5, <4>1, <4>3, <4>4
    <3>10. CASE Match(t)
      <4> DEFINE y == Yields(event[t], W)
                 x == WeightOf(Triggers[at[t]].reactions, W)
                 n == at[t] - 1
      <4>1. /\ event'[t] = event[t] /\ pc[t] = "resolve" /\ pc'[t] = "stamp" /\ at'[t] = at[t]
            /\ Applies(Triggers[at[t]], event[t])
        BY <2>1, <3>10 DEF Match, Goto, LocalType
      <4>2. at[t] \in 1..Len(Triggers) /\ x \in Nat /\ Load(W, todo'[t]) = Load(W, todo[t]) + x
        BY <1>0, <3>10, MatchLoad, TriggerIndices
      <4>3. y[at[t]] = x /\ \A i \in 1..Len(Triggers) : y[i] \in Nat
        BY <1>0, <4>1, <4>2, YieldsType
      <4>4. Looked(t) = 1..n /\ Looked(t)' = 1..at[t]
        BY <4>1 DEF Looked
      <4>5. n \in Nat /\ n + 1 = at[t] /\ \A i \in 1..(n + 1) : y[i] \in Nat
        BY <3>6, <4>2, <4>3
      <4> HIDE DEF y, x, n
      <4>6. SumFunctionOnSet(y, 1..n) \in Nat
            /\ SumFunctionOnSet(y, 1..(n + 1)) = SumFunctionOnSet(y, 1..n) + y[n + 1]
        BY <4>5, SumUpTo
      <4>7. SumFunctionOnSet(y, 1..at[t]) = SumFunctionOnSet(y, 1..n) + x
        BY <4>3, <4>5, <4>6
      <4>8. Load(W, todo[t]) <= SumFunctionOnSet(y, 1..n)
        BY <3>2, <4>4 DEF y
      <4>9. Load(W, todo'[t]) <= SumFunctionOnSet(y, 1..at[t])
        BY <3>4, <4>2, <4>6, <4>7, <4>8
      <4> QED BY <4>1, <4>4, <4>9 DEF y
    <3>11. CASE Enters(t) \/ Drops(t)
      <4>1. event'[t] = event[t] /\ pc[t] \in {"execute", "add"} /\ pc'[t] = "execute" /\ at'[t] = at[t]
        BY <3>11 DEF Enters, EnterSeq, EnterIf, EnterSwitch, EnterNode, Reaches, Drops
      <4>2. Load(W, todo'[t]) <= Load(W, todo[t])
        BY <3>11, ReplacedLighter
      <4>3. Looked(t)' = Looked(t)
        BY <4>1 DEF Looked
      <4> QED BY <3>5, <4>1, <4>2, <4>3
    <3>12. CASE Ends(t)
      <4>1. todo'[t] = <<>>
        BY <2>1, <3>12 DEF Ends, Return, LocalType
      <4> QED BY <3>3, <4>1
    <3> QED BY <2>3, <3>7, <3>8, <3>9, <3>10, <3>11, <3>12, StepKinds
  <2>4. CASE Clock \/ UNCHANGED vars
    BY <2>4 DEF Foreseen, Looked, Clock, local, vars
  <2>5. CASE Restart
    <3>1. \A t \in Threads : todo'[t] = <<>>
      BY <2>5 DEF Restart
    <3>2. \A t \in Threads : Load(W, todo'[t]) <= SumFunctionOnSet(Yields(event'[t], W), Looked(t)')
      BY <1>1, <2>2, <3>1
    <3> QED BY <3>1, <3>2 DEF Foreseen
  <2> QED BY <2>3, <2>4, <2>5 DEF Next
<1> QED BY <1>2, <1>3

LEMMA LoadWithinBurst ==
    ASSUME HandlerInv, NEW action, NEW c, Foreseen(Changes(Reaction, action, c)), NEW t \in Threads
    PROVE  Load(Changes(Reaction, action, c), todo[t]) \in Nat
           /\ Load(Changes(Reaction, action, c), todo[t]) <= Burst(t, action, c)
<1> DEFINE W == Changes(Reaction, action, c)
           e == event[t]
<1>1. W \in [ReactionNodes -> Nat] /\ todo[t] \in Seq(Reactions)
  BY ChangesUnfold DEF HandlerInv, LocalType
<1>2. Burst(t, action, c) \in Nat
  BY BurstBounds
<1>3. OfEvent(e, action, c) = SumFunctionOnSet(Yields(e, W), 1..Len(Triggers))
  <2>1. OfEvent(e, action, c) = SumFunction(Yields(e, W))
    BY DEF OfEvent, Yields
  <2>2. DOMAIN Yields(e, W) = 1..Len(Triggers)
    BY <1>1, YieldsType
  <2> HIDE DEF W, e
  <2> QED BY <2>1, <2>2 DEF SumFunction
<1>4. CASE pc[t] = "idle"
  <2>1. todo[t] = <<>>
    BY <1>4 DEF Foreseen
  <2>2. Load(W, todo[t]) = 0
    BY <2>1, LoadOfNone
  <2> QED BY <1>2, <2>2
<1>5. CASE pc[t] # "idle"
  <2> DEFINE some == SumFunctionOnSet(Yields(e, W), Looked(t))
             all == SumFunctionOnSet(Yields(e, W), 1..Len(Triggers))
  <2>1. Load(W, todo[t]) <= some
    BY DEF Foreseen
  <2>2. some <= all /\ some \in Nat /\ all \in Nat
    BY <1>1, LookedType, YieldsGrow
  <2>3. all <= Burst(t, action, c)
    <3>1. e \in Inputs[t]
      BY <1>5 DEF HandlerInv, Placed
    <3> HIDE DEF e, W
    <3> QED BY <1>3, <3>1, BurstBounds
  <2>4. Load(W, todo[t]) \in Nat
    BY <1>1, LoadsType
  <2> HIDE DEF some, all, W
  <2> QED BY <1>2, <2>1, <2>2, <2>3, <2>4 DEF W
<1> QED BY <1>4, <1>5

-----------------------------------------------------------------------------
(* The steps of the engine that change a counter.                             *)

\* A thread that adds to a counter has an increment of it next, and it exists.
Adding ==
    \A t \in Threads : pc[t] = "add" =>
        /\ IsChange(Top(t), "increment", Top(t).reaction.counter)
        /\ counters[Top(t).reaction.counter] # NoCounter

\* Only ReadCounter leads there.
LEMMA AddSteps ==
    ASSUME HandlerInv, NEW t \in Threads, HandleEvent(t), pc'[t] = "add"
    PROVE  ReadCounter(t)
<1>1. pc \in [Threads -> Labels]
  BY DEF HandlerInv, LocalType
<1>2. ~Return(t)
  BY <1>1 DEF Return, Goto
<1>3. ~Receive(t) /\ ~Collect(t)
  BY <1>1, <1>2 DEF Receive, Collect, CapReached, AppendLine, AppendFails, CountLine, Goto
<1>4. ~Resolve(t)
  BY <1>1 DEF Resolve, Filtered, NoMatch, Match, Stamp, Resolved, Goto
<1>5. ~Finish(t)
  BY <1>2 DEF Finish, Record, NothingToRecord
<1>6. ~EnterSeq(t) /\ ~EnterIf(t) /\ ~EnterSwitch(t)
  BY <1>1 DEF EnterSeq, EnterIf, EnterSwitch, EnterNode, Reaches
<1>7. ~Execute(t) /\ ~ExecuteRaises(t) /\ ~CreateCounter(t) /\ ~Query(t)
  BY <1>1, <1>2 DEF Execute, ExecuteRaises, CreateCounter, Query, RunsCounter, Runs, Reaches
<1>8. ~AddToCounter(t) /\ ~ResetCounter(t)
  BY <1>1, <1>2 DEF AddToCounter, ResetCounter, Saved, Goto
<1> QED BY <1>3, <1>4, <1>5, <1>6, <1>7, <1>8 DEF HandleEvent, React

\* Counters stay once they are there.
LEMMA CountersStay ==
    ASSUME HandlerInv, [Next]_vars, NEW c \in Counters, counters[c] # NoCounter
    PROVE  counters'[c] # NoCounter
<1>1. counters \in [Counters -> Nat \cup {NoCounter}] /\ read \in [Threads -> Nat]
  BY DEF HandlerInv, MemoryType, LocalType
<1>2. CASE UNCHANGED counters
  BY <1>2
<1>3. ASSUME NEW t \in Threads, HandleEvent(t) PROVE counters'[c] # NoCounter
  <2>1. CASE CreateCounter(t) \/ AddToCounter(t) \/ ResetCounter(t)
    <3>1. \E d : \E n \in Nat : counters' = [counters EXCEPT ![d] = n]
      BY <1>1, <2>1 DEF CreateCounter, AddToCounter, ResetCounter
    <3>2. PICK d : \E n \in Nat : counters' = [counters EXCEPT ![d] = n]
      BY <3>1
    <3>3. PICK n \in Nat : counters' = [counters EXCEPT ![d] = n]
      BY <3>2
    <3> QED BY <1>1, <3>3, PipelineAssumption
  <2> QED BY <1>3, <2>1, CounterSteps
<1>4. CASE Clock \/ Restart \/ UNCHANGED vars
  BY <1>4 DEF Clock, Restart, vars
<1> QED BY <1>3, <1>4 DEF Next

LEMMA AddingInv ==
    /\ Init => Adding
    /\ HandlerInv /\ Adding /\ [Next]_vars => Adding'
<1>1. Init => Adding
  BY DEF Init, Adding
<1>2. ASSUME HandlerInv, Adding, [Next]_vars PROVE Adding'
  <2> USE <1>2
  <2>1. ASSUME NEW u \in Threads, pc[u] = "add", todo'[u] = todo[u]
        PROVE  /\ IsChange(Top(u)', "increment", Top(u)'.reaction.counter)
               /\ counters'[Top(u)'.reaction.counter] # NoCounter
    <3> DEFINE c == Top(u).reaction.counter
    <3>1. IsChange(Top(u), "increment", c) /\ counters[c] # NoCounter
      BY <2>1 DEF Adding
    <3>2. Head(todo[u]).node \in ReactionNodes
      BY <2>1, TopType DEF HandlerInv, Placed
    <3>3. c \in Counters
      BY <3>1, <3>2, SettingsAssumption DEF IsChange, Top, WellFormedReactions
    <3>4. counters'[c] # NoCounter
      BY <3>1, <3>3, CountersStay
    <3>5. Top(u)' = Top(u)
      BY <2>1 DEF Top
    <3> QED BY <3>1, <3>4, <3>5
  <2>2. ASSUME NEW t \in Threads, HandleEvent(t) PROVE Adding'
    <3>1. OthersKept(t)
      BY <2>2, StepKinds
    <3>2. ASSUME pc'[t] = "add"
          PROVE  /\ IsChange(Top(t)', "increment", Top(t)'.reaction.counter)
                 /\ counters'[Top(t)'.reaction.counter] # NoCounter
      <4>1. ReadCounter(t)
        BY <2>2, <3>2, AddSteps
      <4>2. Top(t)' = Top(t) /\ UNCHANGED counters
        BY <4>1 DEF ReadCounter, Top, memory
      <4> QED BY <4>1, <4>2 DEF ReadCounter, RunsCounter, Runs, Reaches, IsChange
    <3>3. ASSUME NEW u \in Threads, u # t, pc'[u] = "add"
          PROVE  /\ IsChange(Top(u)', "increment", Top(u)'.reaction.counter)
                 /\ counters'[Top(u)'.reaction.counter] # NoCounter
      <4>1. pc[u] = "add" /\ todo'[u] = todo[u]
        BY <3>1, <3>3 DEF OthersKept
      <4> QED BY <2>1, <4>1
    <3> QED BY <3>2, <3>3 DEF Adding
  <2>3. CASE Clock \/ UNCHANGED vars
    <3>1. UNCHANGED <<pc, todo>>
      BY <2>3 DEF Clock, local, vars
    <3> QED BY <2>1, <3>1 DEF Adding
  <2>4. CASE Restart
    BY <2>4 DEF Restart, Adding
  <2> QED BY <2>2, <2>3, <2>4 DEF Next
<1> QED BY <1>1, <1>2

-----------------------------------------------------------------------------
(* What a thread may still do to a counter that is incremented below a limit.  *)

\* The increments of c that t has before it outside Free: nothing there asks for the
\* limit any more.
Weights(Free, c) ==
    [id \in ReactionNodes |-> IF id \in Free THEN 0 ELSE Changes(Reaction, "increment", c)[id]]
Due(t, Free, c) == Load(Weights(Free, c), todo[t])

\* t has read c and is to write it.
Adds(t, c) == pc[t] = "add" /\ Top(t).reaction.counter = c

\* No increment of c is in Free, and the ways from there to one, or to it from a
\* trigger, lead through a tree that requires l.
Guarded(Free, l) ==
    /\ Free \in SUBSET ReactionNodes
    /\ \A id \in Free : ~IsChange(Reaction[id], "increment", l.counter)
    /\ Confined(Free, {id \in ReactionNodes : /\ Reaction[id].kind = "if"
                                             /\ l \in Required(Reaction[id].when)})
    /\ \A i \in DOMAIN Triggers : \/ Triggers[i].reactions \in Free \cup {NoNode}
                                 \/ l \in Required(Triggers[i].when)

TakerInv(c) ==
    /\ PipelineInv /\ Adding
    /\ Foreseen(Changes(Reaction, "increment", c)) /\ Foreseen(Changes(Reaction, "reset", c))

TakersInv == \A c \in Counters : TakerInv(c)

LEMMA TakersInvHolds == Spec => []TakersInv
<1>1. ASSUME NEW c
      PROVE  /\ Init => TakerInv(c)
             /\ TakerInv(c) /\ [Next]_vars => TakerInv(c)'
  <2>1. Init => TakerInv(c)
    BY InitHandler, AgesAgreeInv, ArgsFitInv, AddingInv, ForeseenInv DEF TakerInv, PipelineInv
  <2>2. TakerInv(c) /\ [Next]_vars => TakerInv(c)'
    BY NextHandler, AgesAgreeInv, ArgsFitInv, AddingInv, ForeseenInv DEF TakerInv, PipelineInv
  <2> QED BY <2>1, <2>2
<1>2. Init => TakersInv
  BY <1>1 DEF TakersInv
<1>3. TakersInv /\ [Next]_vars => TakersInv'
  BY <1>1 DEF TakersInv
<1> QED BY <1>2, <1>3, PTL DEF Spec

\* The types; and who is to write has the increment before it.
TakerFacts(t, Free, c) ==
    /\ counters[c] \in Nat \cup {NoCounter} /\ read[t] \in Nat
    /\ Due(t, Free, c) \in Nat /\ Due(t, Free, c) <= Burst(t, "increment", c)
    /\ Adds(t, c) => Due(t, Free, c) >= 1 /\ counters[c] # NoCounter

LEMMA WeightsType ==
    ASSUME NEW Free \in SUBSET ReactionNodes, NEW c
    PROVE  /\ Weights(Free, c) \in [ReactionNodes -> Nat]
           /\ Changes(Reaction, "increment", c) \in [ReactionNodes -> Nat]
           /\ \A id \in ReactionNodes : Weights(Free, c)[id] <= Changes(Reaction, "increment", c)[id]
<1> DEFINE W == Changes(Reaction, "increment", c)
<1>1. W \in [ReactionNodes -> Nat]
  BY ChangesUnfold
<1>2. Weights(Free, c) = [id \in ReactionNodes |-> IF id \in Free THEN 0 ELSE W[id]]
  BY DEF Weights
<1> HIDE DEF W
<1>3. /\ Weights(Free, c) \in [ReactionNodes -> Nat]
      /\ \A id \in ReactionNodes : Weights(Free, c)[id] <= W[id]
  BY <1>1, <1>2
<1> QED BY <1>1, <1>3 DEF W

LEMMA TakersAre ==
    ASSUME NEW c \in Counters, NEW l, l.counter = c, NEW Free, Guarded(Free, l),
           NEW t \in Threads, TakerInv(c)
    PROVE  TakerFacts(t, Free, c)
<1> DEFINE W == Changes(Reaction, "increment", c)
           w == Weights(Free, c)
<1>1. /\ HandlerInv /\ Adding /\ Foreseen(W) /\ Free \in SUBSET ReactionNodes
      /\ todo[t] \in Seq(Reactions) /\ counters[c] \in Nat \cup {NoCounter} /\ read[t] \in Nat
  BY DEF TakerInv, PipelineInv, HandlerInv, MemoryType, LocalType, Guarded
<1>2. /\ w \in [ReactionNodes -> Nat] /\ W \in [ReactionNodes -> Nat]
      /\ \A id \in ReactionNodes : w[id] <= W[id]
  BY <1>1, WeightsType
<1>3. Load(w, todo[t]) \in Nat /\ Load(W, todo[t]) \in Nat
  BY <1>1, <1>2, LoadsType
<1>4. Load(w, todo[t]) <= Load(W, todo[t])
  BY <1>1, <1>2, LoadGrows
<1>5. Load(W, todo[t]) <= Burst(t, "increment", c)
  BY <1>1, LoadWithinBurst
<1>6. Burst(t, "increment", c) \in Nat
  BY BurstBounds
<1>7. ASSUME Adds(t, c) PROVE Load(w, todo[t]) >= 1 /\ counters[c] # NoCounter
  <2> DEFINE id == Head(todo[t]).node
  <2>1. pc[t] = "add" /\ IsChange(Top(t), "increment", c) /\ counters[c] # NoCounter /\ todo[t] # <<>>
    BY <1>1, <1>7 DEF Adds, Adding, HandlerInv, Placed
  <2>2. id \in ReactionNodes /\ id \notin Free
    BY <1>1, <2>1, TopType DEF HandlerInv, Guarded, Top
  <2>3. W[id] = 1
    BY <2>1, <2>2, ChangesOfReaction DEF IsChange, Top
  <2>4. w[id] = 1
    BY <2>2, <2>3 DEF Weights
  <2>5. Load(w, todo[t]) = w[id] + Load(w, Tail(todo[t])) /\ Load(w, Tail(todo[t])) \in Nat
    BY <1>1, <1>2, <2>1, LoadOfHead
  <2> HIDE DEF w, id
  <2> QED BY <2>1, <2>4, <2>5
<1> HIDE DEF w, W
<1>8. Load(w, todo[t]) <= Burst(t, "increment", c)
  BY <1>3, <1>4, <1>5, <1>6
<1> QED BY <1>1, <1>3, <1>7, <1>8 DEF TakerFacts, Due, w

\* The steps of t, by what they do to c, to what t has before it and to what it read.
TakerKinds(t, Free, l) ==
    LET c == l.counter
        same == counters'[c] = counters[c]
    IN  \/ /\ same /\ Due(t, Free, c)' <= Due(t, Free, c)
           /\ Adds(t, c)' => Adds(t, c) /\ read'[t] = read[t]
        \/ /\ same /\ counters[c] # NoCounter /\ counters[c] < l.limit
           /\ ~Adds(t, c)'
        \/ /\ counters[c] = NoCounter /\ counters'[c] = 0
           /\ Due(t, Free, c)' = Due(t, Free, c) /\ ~Adds(t, c)'
        \/ /\ same /\ counters[c] # NoCounter
           /\ Due(t, Free, c)' = Due(t, Free, c) /\ ~Adds(t, c)
           /\ Adds(t, c)' /\ read'[t] = counters[c]
        \/ /\ Adds(t, c) /\ ~Adds(t, c)' /\ counters'[c] = read[t] + 1
           /\ Due(t, Free, c)' <= Due(t, Free, c) - 1
        \/ /\ counters[c] # NoCounter /\ counters'[c] = 0 /\ Burst(t, "reset", c) > 0
           /\ Due(t, Free, c)' <= Due(t, Free, c) /\ ~Adds(t, c)'

\* What replacing the first node by nothing leaves.
LEMMA DueOfDropped ==
    ASSUME LocalType, NEW t \in Threads, todo[t] # <<>>, Replace(t, <<>>) \/ Return(t),
           NEW w \in [ReactionNodes -> Nat]
    PROVE  /\ Load(w, todo[t]) \in Nat /\ Load(w, todo'[t]) \in Nat
           /\ Load(w, todo'[t]) + w[Head(todo[t]).node] <= Load(w, todo[t])
           /\ w[Head(todo[t]).node] \in Nat
<1> DEFINE id == Head(todo[t]).node
<1>1. todo[t] \in Seq(Reactions) /\ id \in ReactionNodes
  BY TopType DEF LocalType
<1>2. Load(w, todo[t]) = w[id] + Load(w, Tail(todo[t])) /\ Load(w, Tail(todo[t])) \in Nat
  BY <1>1, LoadOfHead
<1>3. w[id] \in Nat
  BY <1>1
<1>4. CASE Return(t)
  <2>1. todo'[t] = <<>>
    BY <1>4 DEF Return, LocalType
  <2>2. Load(w, todo'[t]) = 0
    BY <2>1, LoadOfNone
  <2> HIDE DEF id
  <2> QED BY <1>2, <1>3, <2>2 DEF id
<1>5. CASE Replace(t, <<>>)
  <2>1. <<>> \in Seq(ReactionNodes)
    BY EmptySeq
  <2>2. Worth(w, <<>>) = 0
    <3>1. [k \in DOMAIN <<>> |-> w[<<>>[k]]] = <<>>
      OBVIOUS
    <3> QED BY <3>1, SumOfSeq DEF Worth
  <2>3. PICK rest \in Nat : Load(w, todo[t]) = w[id] + rest /\ Load(w, todo'[t]) = Worth(w, <<>>) + rest
    BY <1>5, <2>1, LoadOfReplaced
  <2> HIDE DEF id
  <2> QED BY <1>3, <2>2, <2>3 DEF id
<1> QED BY <1>4, <1>5

\* The four steps of the engine that concern counters: those on c do what they say, those
\* on others nothing to c.
LEMMA CounterKinds ==
    ASSUME NEW l \in Limits, NEW Free, Guarded(Free, l), TakerInv(l.counter),
           l.counter \in Counters, NEW t \in Threads,
           AddToCounter(t) \/ ResetCounter(t) \/ CreateCounter(t) \/ ReadCounter(t)
    PROVE  TakerKinds(t, Free, l)
<1> DEFINE c == l.counter
           w == Weights(Free, c)
           d == Top(t).reaction.counter
           due == Load(w, todo[t])
           due1 == Load(w, todo'[t])
<1>1. /\ HandlerInv /\ LocalType /\ Adding /\ counters \in [Counters -> Nat \cup {NoCounter}]
      /\ read \in [Threads -> Nat] /\ pc \in [Threads -> Labels] /\ c \in Counters
  BY DEF TakerInv, PipelineInv, HandlerInv, MemoryType, LocalType
<1>2. w \in [ReactionNodes -> Nat]
  BY WeightsType DEF Guarded
<1>3. todo[t] # <<>> /\ pc[t] # "idle"
  BY <1>1 DEF AddToCounter, ResetCounter, CreateCounter, ReadCounter, RunsCounter, Runs, Reaches,
              HandlerInv, Placed
<1>4. due \in Nat /\ Due(t, Free, c) = due /\ Due(t, Free, c)' = due1
  <2>1. due \in Nat
    BY <1>1, <1>2, LoadsType DEF LocalType
  <2> QED BY <2>1 DEF Due
<1>5. (Adds(t, c) <=> pc[t] = "add" /\ d = c)
      /\ (Adds(t, c)' <=> pc'[t] = "add" /\ Top(t)'.reaction.counter = c)
  BY DEF Adds
<1>6. ASSUME AddToCounter(t) \/ ResetCounter(t)
      PROVE  /\ due1 \in Nat /\ due1 + w[Head(todo[t]).node] <= due
             /\ w[Head(todo[t]).node] \in Nat /\ pc'[t] # "add"
  <2>1. Saved(t)
    BY <1>6 DEF AddToCounter, ResetCounter
  <2>2. Replace(t, <<>>) \/ Return(t)
    BY <2>1 DEF Saved
  <2>3. pc'[t] # "add"
    BY <1>1, <2>1 DEF Saved, Return, Goto
  <2> HIDE DEF w
  <2>4. /\ due \in Nat /\ due1 \in Nat /\ due1 + w[Head(todo[t]).node] <= due
        /\ w[Head(todo[t]).node] \in Nat
    BY <1>1, <1>2, <1>3, <2>2, DueOfDropped
  <2> QED BY <2>3, <2>4
<1>7. CASE AddToCounter(t)
  <2>1. pc[t] = "add" /\ counters' = [counters EXCEPT ![d] = read[t] + 1]
    BY <1>7 DEF AddToCounter
  <2>2. CASE d = c
    <3>1. counters'[c] = read[t] + 1
      BY <1>1, <2>1, <2>2
    <3>2. w[Head(todo[t]).node] = 1
      <4>1. IsChange(Top(t), "increment", c) /\ Head(todo[t]).node \in ReactionNodes
        BY <1>1, <1>3, <2>1, <2>2, TopType DEF Adding
      <4>2. Head(todo[t]).node \notin Free
        BY <4>1 DEF Guarded, Top
      <4>3. Changes(Reaction, "increment", c)[Head(todo[t]).node] = 1
        BY <4>1, ChangesOfReaction DEF IsChange, Top
      <4> QED BY <4>1, <4>2, <4>3 DEF Weights
    <3>3. Adds(t, c) /\ ~Adds(t, c)'
      BY <1>5, <1>6, <1>7, <2>1, <2>2
    <3> HIDE DEF w, due, due1
    <3>4. due1 <= due - 1
      BY <1>4, <1>6, <1>7, <3>2
    <3> QED BY <1>4, <3>1, <3>3, <3>4 DEF TakerKinds
  <2>3. CASE d # c
    <3>1. counters'[c] = counters[c]
      BY <1>1, <2>1, <2>3
    <3>2. ~Adds(t, c)'
      BY <1>5, <1>6, <1>7
    <3> HIDE DEF w, due, due1
    <3>3. due1 <= due
      BY <1>4, <1>6, <1>7
    <3> QED BY <1>4, <3>1, <3>2, <3>3 DEF TakerKinds
  <2> QED BY <2>2, <2>3
<1>8. CASE ResetCounter(t)
  <2>1. /\ counters[d] # NoCounter /\ counters' = [counters EXCEPT ![d] = 0]
        /\ IsChange(Top(t), "reset", d)
    BY <1>8 DEF ResetCounter, RunsCounter, Runs, Reaches, IsChange
  <2>2. ~Adds(t, c)'
    BY <1>5, <1>6, <1>8
  <2>3. due1 <= due
    <3> HIDE DEF w, due, due1
    <3> QED BY <1>4, <1>6, <1>8
  <2>4. CASE d = c
    <3> DEFINE R == Changes(Reaction, "reset", c)
               id == Head(todo[t]).node
    <3>1. R \in [ReactionNodes -> Nat] /\ id \in ReactionNodes /\ todo[t] \in Seq(Reactions)
      BY <1>1, <1>3, TopType, ChangesUnfold DEF LocalType
    <3>2. R[id] = 1
      BY <2>1, <2>4, <3>1, ChangesOfReaction DEF IsChange, Top
    <3>3. Load(R, todo[t]) = R[id] + Load(R, Tail(todo[t])) /\ Load(R, Tail(todo[t])) \in Nat
      BY <1>3, <3>1, LoadOfHead
    <3>4. Load(R, todo[t]) <= Burst(t, "reset", c) /\ Burst(t, "reset", c) \in Nat
      BY <1>1, LoadWithinBurst, BurstBounds DEF TakerInv
    <3> HIDE DEF R, id
    <3>5. Burst(t, "reset", c) > 0
      BY <3>2, <3>3, <3>4
    <3>6. counters'[c] = 0 /\ counters[c] # NoCounter
      BY <1>1, <2>1, <2>4
    <3> HIDE DEF w, due, due1
    <3> QED BY <1>4, <2>2, <2>3, <3>5, <3>6 DEF TakerKinds
  <2>5. CASE d # c
    <3>1. counters'[c] = counters[c]
      BY <1>1, <2>1, <2>5
    <3> HIDE DEF w, due, due1
    <3> QED BY <1>4, <2>2, <2>3, <3>1 DEF TakerKinds
  <2> QED BY <2>4, <2>5
<1>9. CASE CreateCounter(t)
  <2>1. /\ pc[t] = "execute" /\ pc' = pc /\ todo' = todo
        /\ counters[d] = NoCounter /\ counters' = [counters EXCEPT ![d] = 0]
    BY <1>9 DEF CreateCounter, Runs, Reaches, local
  <2>2. ~Adds(t, c)' /\ due1 = due
    BY <1>5, <2>1
  <2>3. CASE d = c
    <3>1. counters[c] = NoCounter /\ counters'[c] = 0
      BY <1>1, <2>1, <2>3
    <3> HIDE DEF w, due, due1
    <3> QED BY <1>4, <2>2, <3>1 DEF TakerKinds
  <2>4. CASE d # c
    <3>1. counters'[c] = counters[c]
      BY <1>1, <2>1, <2>4
    <3> HIDE DEF w, due, due1
    <3> QED BY <1>4, <2>2, <3>1 DEF TakerKinds
  <2> QED BY <2>3, <2>4
<1>10. CASE ReadCounter(t)
  <2>1. /\ pc[t] = "execute" /\ pc'[t] = "add" /\ todo' = todo /\ counters' = counters
        /\ counters[d] # NoCounter /\ read'[t] = counters[d]
    BY <1>1, <1>10 DEF ReadCounter, RunsCounter, Runs, Reaches, Goto, memory
  <2>2. Top(t)' = Top(t) /\ due1 = due /\ ~Adds(t, c)
    BY <1>5, <2>1 DEF Top
  <2>3. CASE d = c
    <3>1. Adds(t, c)' /\ counters[c] # NoCounter /\ read'[t] = counters[c] /\ counters'[c] = counters[c]
      BY <1>5, <2>1, <2>2, <2>3
    <3> HIDE DEF w, due, due1
    <3> QED BY <1>4, <2>2, <3>1 DEF TakerKinds
  <2>4. CASE d # c
    <3>1. ~Adds(t, c)' /\ counters'[c] = counters[c]
      BY <1>5, <2>1, <2>2, <2>4
    <3> HIDE DEF w, due, due1
    <3> QED BY <1>4, <2>2, <3>1 DEF TakerKinds
  <2> QED BY <2>3, <2>4
<1> QED BY <1>7, <1>8, <1>9, <1>10

\* Whoever leaves Free for a node that leads to an increment found c below the limit.
LEMMA BelowWhenMatched ==
    ASSUME NEW l \in Limits, l.type = "below", TakerInv(l.counter), NEW t \in Threads, Match(t),
           l \in Required(Triggers[at[t]].when)
    PROVE  counters[l.counter] # NoCounter /\ counters[l.counter] < l.limit
<1>1. HandlerInv /\ args[t] \in event[t].message.starts \cup {NoArgs}
  BY DEF TakerInv, PipelineInv, ArgsFit
<1>2. MatchBelow(l, counters, NoArgs).holds
  BY <1>1, MatchMeans
<1> QED BY <1>2 DEF MatchBelow

LEMMA BelowWhenEntered ==
    ASSUME NEW l \in Limits, l.type = "below", TakerInv(l.counter), NEW t \in Threads, EnterIf(t),
           l \in Required(Top(t).when), Condition(t).holds
    PROVE  counters[l.counter] # NoCounter /\ counters[l.counter] < l.limit
<1> DEFINE e == event[t]
           root == Top(t).when
           r == Condition(t)
<1>1. HandlerInv /\ args[t] \in e.message.starts \cup {NoArgs}
  BY DEF TakerInv, PipelineInv, ArgsFit
<1>2. todo[t] # <<>> /\ Top(t).kind = "if"
  BY DEF EnterIf, Reaches
<1>3. root \in Nodes \cup {NoNode}
  <2>1. Head(todo[t]).node \in ReactionNodes
    BY <1>1, <1>2, TopType DEF HandlerInv
  <2> QED BY <1>2, <2>1, SettingsAssumption DEF Top, WellFormedReactions
<1>4. e \in Events /\ args[t] \in ArgsValues
  BY <1>1 DEF HandlerInv, LocalType
<1>5. r = ResultOf(WhenResults(e, Never), root, args[t])
  BY WhenTrees
<1>6. r.holds /\ l \in Required(root)
  OBVIOUS
<1> HIDE DEF e, root, r
<1>7. \E b \in ArgsValues : LeafValue(l, b, e, Never).holds
  BY <1>1, <1>3, <1>4, <1>5, <1>6, HoldsMeans
<1> QED BY <1>7 DEF LeafValue, MatchBelow

\* A node outside Free gives way to what is worth no more, one of Free to nodes of Free or
\* past the limit.
LEMMA EntersDue ==
    ASSUME NEW l \in Limits, l.type = "below", NEW Free, Guarded(Free, l), TakerInv(l.counter),
           l.counter \in Counters, NEW t \in Threads, Enters(t)
    PROVE  \/ Load(Weights(Free, l.counter), todo'[t]) <= Load(Weights(Free, l.counter), todo[t])
           \/ counters[l.counter] # NoCounter /\ counters[l.counter] < l.limit
<1> DEFINE c == l.counter
           W == Changes(Reaction, "increment", c)
           w == Weights(Free, c)
           id == Head(todo[t]).node
<1>1. HandlerInv /\ LocalType /\ todo[t] # <<>> /\ Free \in SUBSET ReactionNodes
  BY DEF TakerInv, PipelineInv, HandlerInv, Guarded, Enters, EnterSeq, EnterIf, EnterSwitch, Reaches
<1>2. id \in ReactionNodes
  BY <1>1, TopType
<1>3. /\ w \in [ReactionNodes -> Nat] /\ W \in [ReactionNodes -> Nat]
      /\ \A x \in ReactionNodes : w[x] <= W[x]
  BY <1>1, WeightsType
<1>4. \A x \in ReactionNodes : w[x] = IF x \in Free THEN 0 ELSE W[x]
  BY DEF Weights
<1>5. ASSUME NEW ids \in Seq(ReactionNodes), Replace(t, ids), Worth(w, ids) <= w[id]
      PROVE  Load(w, todo'[t]) <= Load(w, todo[t])
  <2>1. Worth(w, ids) \in Nat /\ w[id] \in Nat
    BY <1>2, <1>3, WorthGrows
  <2> HIDE DEF w
  <2>2. PICK rest \in Nat : /\ Load(w, todo[t]) = w[Head(todo[t]).node] + rest
                            /\ Load(w, todo'[t]) = Worth(w, ids) + rest
    BY <1>1, <1>3, <1>5, LoadOfReplaced
  <2> QED BY <1>5, <2>1, <2>2
<1>6. CASE id \notin Free
  <2>1. PICK ids \in Seq(ReactionNodes) : Replace(t, ids) /\ Worth(W, ids) <= W[id]
    BY <1>1, EntersLighter
  <2>2. Worth(w, ids) <= Worth(W, ids) /\ Worth(w, ids) \in Nat /\ Worth(W, ids) \in Nat
    BY <1>3, WorthGrows
  <2>3. w[id] = W[id] /\ W[id] \in Nat
    BY <1>2, <1>3, <1>4, <1>6
  <2> HIDE DEF w, W, id
  <2>4. Worth(w, ids) <= w[id]
    BY <2>1, <2>2, <2>3
  <2>5. Load(w, todo'[t]) <= Load(w, todo[t])
    BY <1>5, <2>1, <2>4
  <2> QED BY <2>5 DEF w
<1>7. CASE id \in Free
  <2> DEFINE Guards == {x \in ReactionNodes : Reaction[x].kind = "if" /\ l \in Required(Reaction[x].when)}
  <2>1. Confined(Free, Guards)
    BY DEF Guarded
  <2>2. \A x \in Guards : l \in Required(Reaction[x].when)
    OBVIOUS
  <2> HIDE DEF Guards, w, W
  <2>3. PICK ids \in Seq(ReactionNodes) :
           /\ Replace(t, ids)
           /\ ids \in Seq(Free) \/ (EnterIf(t) /\ id \in Guards /\ Condition(t).holds)
    BY <1>1, <1>7, <2>1, EnterWithin
  <2>4. CASE ids \in Seq(Free)
    <3>1. \A k \in DOMAIN ids : ids[k] \in Free
      BY <2>4, LenProperties, ElementOfSeq
    <3>2. \A k \in DOMAIN ids : w[ids[k]] = 0
      BY <1>1, <1>4, <3>1
    <3>3. Worth(w, ids) = 0
      BY <1>3, <3>2, WorthGrows
    <3>4. w[id] \in Nat
      BY <1>2, <1>3
    <3>5. Worth(w, ids) <= w[id]
      BY <3>3, <3>4
    <3>6. Load(w, todo'[t]) <= Load(w, todo[t])
      BY <1>5, <2>3, <3>5
    <3> QED BY <3>6 DEF w
  <2>5. CASE EnterIf(t) /\ id \in Guards /\ Condition(t).holds
    <3>1. l \in Required(Top(t).when)
      BY <2>2, <2>5 DEF Top
    <3> QED BY <2>5, <3>1, BelowWhenEntered
  <2> QED BY <2>3, <2>4, <2>5
<1> QED BY <1>6, <1>7

LEMMA TakerSteps ==
    ASSUME NEW l \in Limits, l.type = "below", NEW Free, Guarded(Free, l), TakerInv(l.counter),
           l.counter \in Counters, NEW t \in Threads, HandleEvent(t)
    PROVE  TakerKinds(t, Free, l)
<1> DEFINE c == l.counter
           w == Weights(Free, c)
<1>1. HandlerInv /\ LocalType /\ w \in [ReactionNodes -> Nat] /\ todo[t] \in Seq(Reactions)
  BY WeightsType DEF TakerInv, PipelineInv, HandlerInv, LocalType, Guarded
<1>2. CASE AddToCounter(t) \/ ResetCounter(t) \/ CreateCounter(t) \/ ReadCounter(t)
  BY <1>2, CounterKinds
<1>3. CASE ~(AddToCounter(t) \/ ResetCounter(t) \/ CreateCounter(t) \/ ReadCounter(t))
  <2>1. UNCHANGED counters /\ pc'[t] # "add"
    BY <1>1, <1>3, CounterSteps, AddSteps
  <2>2. counters'[c] = counters[c] /\ ~Adds(t, c)'
    BY <2>1 DEF Adds
  <2>3. Due(t, Free, c) = Load(w, todo[t]) /\ Due(t, Free, c)' = Load(w, todo'[t])
    BY DEF Due
  <2>4. Load(w, todo[t]) \in Nat
    BY <1>1, LoadsType
  <2> SUFFICES \/ Load(w, todo'[t]) <= Load(w, todo[t])
               \/ counters[c] # NoCounter /\ counters[c] < l.limit
    BY <2>2, <2>3 DEF TakerKinds
  <2>5. ASSUME todo'[t] = todo[t] PROVE Load(w, todo'[t]) <= Load(w, todo[t])
    BY <2>4, <2>5
  <2>6. CASE Begins(t) \/ Quiet(t) \/ NoMatch(t) \/ Stamp(t)
    <3>1. todo'[t] = todo[t]
      BY <2>6 DEF Begins, Quiet, NoMatch, Stamp
    <3> QED BY <2>5, <3>1
  <2>7. CASE Match(t)
    <3> DEFINE root == Triggers[at[t]].reactions
    <3>1. at[t] \in DOMAIN Triggers
          /\ Load(w, todo'[t]) = Load(w, todo[t]) + WeightOf(root, w)
      BY <1>1, <2>7, MatchLoad
    <3>2. CASE root \in Free \cup {NoNode}
      <4>1. WeightOf(root, w) = 0
        BY <3>2 DEF WeightOf, Weights, Guarded
      <4> HIDE DEF w, root
      <4> QED BY <2>4, <3>1, <4>1
    <3>3. CASE root \notin Free \cup {NoNode}
      <4>1. l \in Required(Triggers[at[t]].when)
        BY <3>1, <3>3 DEF Guarded
      <4> QED BY <2>7, <4>1, BelowWhenMatched
    <3> QED BY <3>2, <3>3
  <2>8. CASE Enters(t)
    BY <2>8, EntersDue
  <2>9. CASE Drops(t) \/ Ends(t)
    <3>1. CASE todo[t] = <<>>
      <4>1. todo'[t] = <<>>
        BY <1>1, <2>9, <3>1 DEF Drops, Ends, Return, LocalType
      <4> QED BY <2>5, <3>1, <4>1
    <3>2. CASE todo[t] # <<>>
      <4>1. Replace(t, <<>>) \/ Return(t)
        BY <2>9 DEF Drops, Ends
      <4> HIDE DEF w
      <4>2. /\ Load(w, todo'[t]) \in Nat /\ w[Head(todo[t]).node] \in Nat
            /\ Load(w, todo'[t]) + w[Head(todo[t]).node] <= Load(w, todo[t])
        BY <1>1, <3>2, <4>1, DueOfDropped
      <4> QED BY <2>4, <4>2
    <3> QED BY <3>1, <3>2
  <2> QED BY <1>1, <2>6, <2>7, <2>8, <2>9, StepKinds
<1> QED BY <1>2, <1>3

-----------------------------------------------------------------------------
(* How far a counter passes its limit.                                       *)

\* Of one thread that increments: what the counter holds, or the thread has read of it,
\* and what the thread still has before it.
Alone(t, Free, l) ==
    LET c    == l.counter
        most == l.limit - 1 + Burst(t, "increment", c)
    IN  /\ counters[c] # NoCounter => counters[c] + Due(t, Free, c) <= most
        /\ Adds(t, c) => read[t] + Due(t, Free, c) <= most

\* Of two, seen from t: the same for what both have before them; and while u is to write
\* a low value, or the counter is low and t is to write, what t adds is within its own
\* share, since u may then decide once more on what it sees.
Beside(t, u, Free, l) ==
    LET c    == l.counter
        mine == l.limit - 1 + Burst(t, "increment", c)
        most == mine + Burst(u, "increment", c)
        due  == Due(t, Free, c)
        all  == due + Due(u, Free, c)
    IN  /\ counters[c] # NoCounter => counters[c] + all <= most
        /\ Adds(t, c) => read[t] + all <= most
        /\ Adds(t, c) /\ counters[c] < l.limit => read[t] + due <= mine
        /\ Adds(u, c) /\ read[u] <= l.limit - 2 =>
               /\ counters[c] + due <= mine
               /\ Adds(t, c) => read[t] + due <= mine

\* What u has before it and is to write stays when another thread takes a step.
LEMMA DueKept ==
    ASSUME NEW t \in Threads, NEW u \in Threads, u # t, OthersKept(t), NEW Free, NEW c
    PROVE  Due(u, Free, c)' = Due(u, Free, c) /\ (Adds(u, c)' <=> Adds(u, c)) /\ read'[u] = read[u]
<1>1. pc'[u] = pc[u] /\ todo'[u] = todo[u] /\ read'[u] = read[u]
  BY DEF OthersKept
<1>2. Due(u, Free, c)' = Due(u, Free, c)
  BY <1>1 DEF Due
<1>3. Adds(u, c)' <=> Adds(u, c)
  BY <1>1 DEF Adds, Top
<1> QED BY <1>1, <1>2, <1>3

LEMMA BesideStep ==
    ASSUME NEW l, l.limit \in Int, l.limit > 0, NEW Free, NEW t \in Threads, NEW u \in Threads,
           u # t, Burst(t, "reset", l.counter) = 0, OthersKept(t), TakerKinds(t, Free, l),
           TakerFacts(t, Free, l.counter), TakerFacts(t, Free, l.counter)',
           TakerFacts(u, Free, l.counter), Beside(t, u, Free, l), Beside(u, t, Free, l)
    PROVE  Beside(t, u, Free, l)' /\ Beside(u, t, Free, l)'
<1> DEFINE c  == l.counter
           L  == l.limit
           q  == Burst(t, "increment", c)
           p  == Burst(u, "increment", c)
           v  == counters[c]
           v1 == counters'[c]
           d  == Due(t, Free, c)
           d1 == Due(t, Free, c)'
           e  == Due(u, Free, c)
           a  == Adds(t, c)
           a1 == Adds(t, c)'
           b  == Adds(u, c)
           r  == read[t]
           r1 == read'[t]
           s  == read[u]
<1>1. Due(u, Free, c)' = e /\ (Adds(u, c)' <=> b) /\ read'[u] = s
  BY DueKept
<1>2. q \in Nat /\ p \in Nat /\ L \in Int /\ L > 0
  BY BurstBounds
<1>3. /\ v \in Nat \cup {NoCounter} /\ r \in Nat /\ d \in Nat /\ d <= q
      /\ a => d >= 1 /\ v # NoCounter
  BY DEF TakerFacts
<1>4. /\ v1 \in Nat \cup {NoCounter} /\ r1 \in Nat /\ d1 \in Nat /\ d1 <= q
      /\ a1 => d1 >= 1 /\ v1 # NoCounter
  BY DEF TakerFacts
<1>5. s \in Nat /\ e \in Nat /\ e <= p /\ (b => e >= 1 /\ v # NoCounter)
  BY DEF TakerFacts
<1>6. /\ v # NoCounter => v + (d + e) <= L - 1 + q + p
      /\ a => r + (d + e) <= L - 1 + q + p
      /\ a /\ v < L => r + d <= L - 1 + q
      /\ b /\ s <= L - 2 => /\ v + d <= L - 1 + q
                            /\ a => r + d <= L - 1 + q
  BY DEF Beside
<1>7. /\ b => s + (e + d) <= L - 1 + p + q
      /\ b /\ v < L => s + e <= L - 1 + p
      /\ a /\ r <= L - 2 => /\ v + e <= L - 1 + p
                            /\ b => s + e <= L - 1 + p
  BY DEF Beside
<1>8. \/ v1 = v /\ d1 <= d /\ (a1 => a /\ r1 = r)
      \/ v1 = v /\ v # NoCounter /\ v < L /\ ~a1
      \/ v = NoCounter /\ v1 = 0 /\ d1 = d /\ ~a1
      \/ v1 = v /\ v # NoCounter /\ d1 = d /\ ~a /\ a1 /\ r1 = v
      \/ a /\ ~a1 /\ v1 = r + 1 /\ d1 <= d - 1
  <2> HIDE DEF v, v1, d, d1, a, a1, r, r1
  <2> QED BY DEF TakerKinds, v, v1, d, d1, a, a1, r, r1
<1>9. NoCounter \notin Nat
  BY PipelineAssumption
<1> SUFFICES
      /\ /\ v1 # NoCounter => v1 + (d1 + e) <= L - 1 + q + p
         /\ a1 => r1 + (d1 + e) <= L - 1 + q + p
         /\ a1 /\ v1 < L => r1 + d1 <= L - 1 + q
         /\ b /\ s <= L - 2 => /\ v1 + d1 <= L - 1 + q
                               /\ a1 => r1 + d1 <= L - 1 + q
      /\ /\ v1 # NoCounter => v1 + (e + d1) <= L - 1 + p + q
         /\ b => s + (e + d1) <= L - 1 + p + q
         /\ b /\ v1 < L => s + e <= L - 1 + p
         /\ a1 /\ r1 <= L - 2 => /\ v1 + e <= L - 1 + p
                                 /\ b => s + e <= L - 1 + p
  BY <1>1 DEF Beside
<1> HIDE DEF L, q, p, v, v1, d, d1, e, a, a1, b, r, r1, s
<1>10. CASE v1 = v /\ d1 <= d /\ (a1 => a /\ r1 = r)
  BY <1>2, <1>3, <1>4, <1>5, <1>6, <1>7, <1>9, <1>10
<1>11. CASE v1 = v /\ v # NoCounter /\ v < L /\ ~a1
  BY <1>2, <1>3, <1>4, <1>5, <1>6, <1>7, <1>9, <1>11
<1>12. CASE v = NoCounter /\ v1 = 0 /\ d1 = d /\ ~a1
  BY <1>2, <1>3, <1>4, <1>5, <1>6, <1>7, <1>9, <1>12
<1>13. CASE v1 = v /\ v # NoCounter /\ d1 = d /\ ~a /\ a1 /\ r1 = v
  BY <1>2, <1>3, <1>4, <1>5, <1>6, <1>7, <1>9, <1>13
<1>14. CASE a /\ ~a1 /\ v1 = r + 1 /\ d1 <= d - 1
  BY <1>2, <1>3, <1>4, <1>5, <1>6, <1>7, <1>9, <1>14
<1> QED BY <1>8, <1>10, <1>11, <1>12, <1>13, <1>14

\* A thread that has no more before it than before, and is to write only what it was.
NoMore(t, Free, c) ==
    /\ Due(t, Free, c)' <= Due(t, Free, c)
    /\ Adds(t, c)' => Adds(t, c) /\ read'[t] = read[t]

\* Other threads, the clock and restarts do not disturb the bounds.
LEMMA BesideKept ==
    ASSUME NEW l, l.limit \in Int, l.limit > 0, NEW Free, NEW t \in Threads, NEW u \in Threads,
           LET c == l.counter
           IN  /\ NoMore(t, Free, c) /\ NoMore(u, Free, c)
               /\ counters'[c] = counters[c] \/ (counters[c] = NoCounter /\ counters'[c] = 0),
           TakerFacts(t, Free, l.counter), TakerFacts(t, Free, l.counter)',
           TakerFacts(u, Free, l.counter), TakerFacts(u, Free, l.counter)', Beside(t, u, Free, l)
    PROVE  Beside(t, u, Free, l)'
<1> DEFINE c  == l.counter
           L  == l.limit
           q  == Burst(t, "increment", c)
           p  == Burst(u, "increment", c)
           v  == counters[c]
           v1 == counters'[c]
           d  == Due(t, Free, c)
           d1 == Due(t, Free, c)'
           e  == Due(u, Free, c)
           e1 == Due(u, Free, c)'
           a  == Adds(t, c)
           a1 == Adds(t, c)'
           b  == Adds(u, c)
           b1 == Adds(u, c)'
           r  == read[t]
           r1 == read'[t]
           s  == read[u]
           s1 == read'[u]
<1>1. q \in Nat /\ p \in Nat /\ L \in Int /\ L > 0 /\ NoCounter \notin Nat
  BY BurstBounds, PipelineAssumption
<1>2. /\ v \in Nat \cup {NoCounter} /\ r \in Nat /\ d \in Nat /\ d <= q
      /\ a => d >= 1 /\ v # NoCounter
  BY DEF TakerFacts
<1>3. /\ s \in Nat /\ e \in Nat /\ e <= p
      /\ b => e >= 1 /\ v # NoCounter
  BY DEF TakerFacts
<1>4. d1 \in Nat /\ r1 \in Nat /\ d1 <= q
  BY DEF TakerFacts
<1>5. e1 \in Nat /\ s1 \in Nat /\ e1 <= p
  BY DEF TakerFacts
<1>6. /\ v # NoCounter => v + (d + e) <= L - 1 + q + p
      /\ a => r + (d + e) <= L - 1 + q + p
      /\ a /\ v < L => r + d <= L - 1 + q
      /\ b /\ s <= L - 2 => /\ v + d <= L - 1 + q
                            /\ a => r + d <= L - 1 + q
  BY DEF Beside
<1>7. d1 <= d /\ (a1 => a /\ r1 = r) /\ e1 <= e /\ (b1 => b /\ s1 = s)
  BY DEF NoMore
<1>8. v1 = v \/ (v = NoCounter /\ v1 = 0)
  OBVIOUS
<1> SUFFICES /\ v1 # NoCounter => v1 + (d1 + e1) <= L - 1 + q + p
             /\ a1 => r1 + (d1 + e1) <= L - 1 + q + p
             /\ a1 /\ v1 < L => r1 + d1 <= L - 1 + q
             /\ b1 /\ s1 <= L - 2 => /\ v1 + d1 <= L - 1 + q
                                     /\ a1 => r1 + d1 <= L - 1 + q
  BY DEF Beside
<1> HIDE DEF L, q, p, v, v1, d, d1, e, e1, a, a1, b, b1, r, r1, s, s1
<1> QED BY <1>1, <1>2, <1>3, <1>4, <1>5, <1>6, <1>7, <1>8

LEMMA AloneKept ==
    ASSUME NEW l, l.limit \in Int, l.limit > 0, NEW Free, NEW t \in Threads,
           NoMore(t, Free, l.counter), counters'[l.counter] \in {counters[l.counter], 0},
           TakerFacts(t, Free, l.counter), TakerFacts(t, Free, l.counter)', Alone(t, Free, l)
    PROVE  Alone(t, Free, l)'
<1> DEFINE c  == l.counter
           L  == l.limit
           q  == Burst(t, "increment", c)
           v  == counters[c]
           v1 == counters'[c]
           d  == Due(t, Free, c)
           d1 == Due(t, Free, c)'
           a  == Adds(t, c)
           a1 == Adds(t, c)'
           r  == read[t]
           r1 == read'[t]
<1>1. q \in Nat /\ L \in Int /\ L > 0
  BY BurstBounds
<1>2. v \in Nat \cup {NoCounter} /\ r \in Nat /\ d \in Nat
  BY DEF TakerFacts
<1>3. d1 \in Nat /\ d1 <= q
  BY DEF TakerFacts
<1>4. /\ v # NoCounter => v + d <= L - 1 + q
      /\ a => r + d <= L - 1 + q
  BY DEF Alone
<1>5. d1 <= d /\ (a1 => a /\ r1 = r) /\ v1 \in {v, 0}
  BY DEF NoMore
<1> SUFFICES /\ v1 # NoCounter => v1 + d1 <= L - 1 + q
             /\ a1 => r1 + d1 <= L - 1 + q
  BY DEF Alone
<1> HIDE DEF L, q, v, v1, d, d1, a, a1, r, r1
<1> QED BY <1>1, <1>2, <1>3, <1>4, <1>5

LEMMA AloneStep ==
    ASSUME NEW l, l.limit \in Int, l.limit > 0, NEW Free, NEW t \in Threads,
           TakerKinds(t, Free, l), TakerFacts(t, Free, l.counter),
           TakerFacts(t, Free, l.counter)', Alone(t, Free, l)
    PROVE  Alone(t, Free, l)'
<1> DEFINE c  == l.counter
           L  == l.limit
           q  == Burst(t, "increment", c)
           v  == counters[c]
           v1 == counters'[c]
           d  == Due(t, Free, c)
           d1 == Due(t, Free, c)'
           a  == Adds(t, c)
           a1 == Adds(t, c)'
           r  == read[t]
           r1 == read'[t]
<1>1. q \in Nat /\ L \in Int /\ L > 0
  BY BurstBounds
<1>2. v \in Nat \cup {NoCounter} /\ r \in Nat /\ d \in Nat
  BY DEF TakerFacts
<1>3. d1 \in Nat /\ d1 <= q
  BY DEF TakerFacts
<1>4. /\ v # NoCounter => v + d <= L - 1 + q
      /\ a => r + d <= L - 1 + q
  BY DEF Alone
<1>5. \/ v1 = v /\ d1 <= d /\ (a1 => a /\ r1 = r)
      \/ v1 = v /\ v # NoCounter /\ v < L /\ ~a1
      \/ v1 = 0 /\ ~a1
      \/ v1 = v /\ v # NoCounter /\ d1 = d /\ r1 = v
      \/ a /\ ~a1 /\ v1 = r + 1 /\ d1 <= d - 1
  <2> HIDE DEF v, v1, d, d1, a, a1, r, r1
  <2> QED BY DEF TakerKinds, v, v1, d, d1, a, a1, r, r1
<1>6. NoCounter \notin Nat
  BY PipelineAssumption
<1> SUFFICES /\ v1 # NoCounter => v1 + d1 <= L - 1 + q
             /\ a1 => r1 + d1 <= L - 1 + q
  BY DEF Alone
<1> HIDE DEF L, q, v, v1, d, d1, a, a1, r, r1
<1> QED BY <1>1, <1>2, <1>3, <1>4, <1>5, <1>6

\* What a limit says of the settings.
LEMMA LimitFacts ==
    ASSUME NEW l \in Limits
    PROVE  /\ l.type = "below" /\ l.limit \in Int /\ l.limit > 0 /\ l.counter \in Counters
           /\ \E Free \in SUBSET ReactionNodes : Guarded(Free, l)
<1>1. l.type = "below" /\ l.limit > 0 /\ \E Free \in SUBSET ReactionNodes : Guarded(Free, l)
  BY DEF Limits, Guarded
<1>2. l.limit \in Int /\ l.counter \in Counters
  BY <1>1, SettingsAssumption DEF Limits
<1> QED BY <1>1, <1>2

\* Only t and u increment c; it is not reset if they are two.
Takers(t, u, c) ==
    LET Doing(action) == {w \in Threads : Burst(w, action, c) > 0}
    IN  Doing("increment") \subseteq {t, u} /\ (t = u \/ Doing("reset") = {})

Bounded(t, u, Free, l) ==
    IF t = u THEN Alone(t, Free, l) ELSE Beside(t, u, Free, l) /\ Beside(u, t, Free, l)

AllFacts(Free, c) == \A t \in Threads : TakerFacts(t, Free, c)

LEMMA FactsNext ==
    ASSUME NEW l \in Limits, NEW Free \in SUBSET ReactionNodes, Guarded(Free, l)
    PROVE  /\ TakersInv => AllFacts(Free, l.counter)
           /\ TakersInv' => AllFacts(Free, l.counter)'
<1>1. TakersInv => AllFacts(Free, l.counter)
  BY LimitFacts, TakersAre DEF TakersInv, AllFacts
<1> QED BY <1>1, PTL

\* A thread that does not increment c leaves it alone, creates it, or resets it.
LEMMA IdlerSteps ==
    ASSUME NEW l \in Limits, NEW Free, NEW t \in Threads, TakerKinds(t, Free, l),
           Burst(t, "increment", l.counter) = 0,
           TakerFacts(t, Free, l.counter), TakerFacts(t, Free, l.counter)'
    PROVE  \/ counters'[l.counter] = counters[l.counter]
           \/ counters[l.counter] = NoCounter /\ counters'[l.counter] = 0
           \/ Burst(t, "reset", l.counter) > 0 /\ counters'[l.counter] = 0
<1>1. ~Adds(t, l.counter)
  BY DEF TakerFacts
<1> QED BY <1>1 DEF TakerKinds

LEMMA BoundedInit ==
    ASSUME NEW l \in Limits, NEW Free, NEW t \in Threads, NEW u \in Threads, Init
    PROVE  Bounded(t, u, Free, l)
<1> DEFINE c == l.counter
<1>1. l.limit \in Int /\ l.limit > 0 /\ c \in Counters
  BY LimitFacts
<1>2. Burst(t, "increment", c) \in Nat /\ Burst(u, "increment", c) \in Nat
  BY BurstBounds
<1>3. counters[c] \in {NoCounter, 0}
  BY <1>1 DEF Init
<1>4. \A w \in Threads : Due(w, Free, c) = 0 /\ ~Adds(w, c)
  BY LoadOfNone DEF Init, Due, Adds
<1> HIDE DEF c
<1>5. Alone(t, Free, l)
  BY <1>1, <1>2, <1>3, <1>4 DEF Alone, c
<1>6. Beside(t, u, Free, l)
  BY <1>1, <1>2, <1>3, <1>4 DEF Beside, c
<1>7. Beside(u, t, Free, l)
  BY <1>1, <1>2, <1>3, <1>4 DEF Beside, c
<1> QED BY <1>5, <1>6, <1>7 DEF Bounded

LEMMA BoundedNext ==
    ASSUME NEW l \in Limits, NEW Free \in SUBSET ReactionNodes, Guarded(Free, l),
           NEW t \in Threads, NEW u \in Threads, Takers(t, u, l.counter),
           TakersInv, TakersInv', Bounded(t, u, Free, l), [Next]_vars
    PROVE  Bounded(t, u, Free, l)'
<1> DEFINE c == l.counter
<1>1. l.type = "below" /\ l.limit \in Int /\ l.limit > 0 /\ c \in Counters /\ TakerInv(c) /\ HandlerInv
  BY LimitFacts DEF TakersInv, TakerInv, PipelineInv
<1>2. \A w \in Threads : TakerFacts(w, Free, c) /\ TakerFacts(w, Free, c)'
  BY FactsNext DEF AllFacts
<1>3. \A w \in Threads : Burst(w, "increment", c) \in Nat /\ Burst(w, "reset", c) \in Nat
  BY BurstBounds
<1>4. \A w \in Threads \ {t, u} : Burst(w, "increment", c) = 0
  BY <1>3 DEF Takers
<1>5. t # u => \A w \in Threads : Burst(w, "reset", c) = 0
  BY <1>3 DEF Takers
<1> HIDE DEF c
<1>6. ASSUME NoMore(t, Free, c), NoMore(u, Free, c),
             \/ counters'[c] = counters[c]
             \/ counters[c] = NoCounter /\ counters'[c] = 0
             \/ t = u /\ counters'[c] = 0
      PROVE  Bounded(t, u, Free, l)'
  <2>1. CASE t = u
    BY <1>1, <1>2, <1>6, <2>1, AloneKept DEF Bounded, c
  <2>2. CASE t # u
    <3>1. Beside(t, u, Free, l)'
      BY <1>1, <1>2, <1>6, <2>2, BesideKept DEF Bounded, c
    <3>2. Beside(u, t, Free, l)'
      BY <1>1, <1>2, <1>6, <2>2, BesideKept DEF Bounded, c
    <3> QED BY <2>2, <3>1, <3>2 DEF Bounded
  <2> QED BY <2>1, <2>2
<1>7. ASSUME NEW w \in Threads, HandleEvent(w) PROVE Bounded(t, u, Free, l)'
  <2>1. TakerKinds(w, Free, l)
    BY <1>1, <1>7, TakerSteps DEF c
  <2>2. OthersKept(w)
    BY <1>1, <1>7, StepKinds
  <2>3. CASE w \in {t, u} /\ t = u
    BY <1>1, <1>2, <2>1, <2>3, AloneStep DEF Bounded, c
  <2>4. CASE w = t /\ t # u
    BY <1>1, <1>2, <1>5, <2>1, <2>2, <2>4, BesideStep DEF Bounded, c
  <2>5. CASE w = u /\ t # u
    BY <1>1, <1>2, <1>5, <2>1, <2>2, <2>5, BesideStep DEF Bounded, c
  <2>6. CASE w \notin {t, u}
    <3>1. NoMore(t, Free, c) /\ NoMore(u, Free, c)
      <4>1. ASSUME NEW x \in {t, u} PROVE NoMore(x, Free, c)
        <5>1. /\ Due(x, Free, c)' = Due(x, Free, c) /\ (Adds(x, c)' <=> Adds(x, c))
              /\ read'[x] = read[x]
          BY <2>2, <2>6, DueKept
        <5>2. Due(x, Free, c) \in Nat
          BY <1>2 DEF TakerFacts
        <5> QED BY <5>1, <5>2 DEF NoMore
      <4> QED BY <4>1
    <3>2. \/ counters'[c] = counters[c]
          \/ counters[c] = NoCounter /\ counters'[c] = 0
          \/ Burst(w, "reset", c) > 0 /\ counters'[c] = 0
      BY <1>2, <1>4, <2>1, <2>6, IdlerSteps DEF c
    <3> QED BY <1>5, <1>6, <3>1, <3>2
  <2> QED BY <2>3, <2>4, <2>5, <2>6
<1>8. CASE Clock \/ UNCHANGED vars
  <2>1. UNCHANGED <<pc, todo, read, counters>>
    BY <1>8 DEF Clock, local, vars
  <2>2. ASSUME NEW x \in Threads PROVE NoMore(x, Free, c)
    <3>1. Due(x, Free, c)' = Due(x, Free, c)
      BY <2>1 DEF Due
    <3>2. Due(x, Free, c) \in Nat
      BY <1>2 DEF TakerFacts
    <3> QED BY <2>1, <3>1, <3>2 DEF NoMore, Adds, Top
  <2> QED BY <1>6, <2>1, <2>2
<1>9. CASE Restart
  <2>1. UNCHANGED counters /\ \A x \in Threads : pc'[x] = "idle" /\ todo'[x] = <<>>
    BY <1>9 DEF Restart
  <2>2. ASSUME NEW x \in Threads PROVE NoMore(x, Free, c)
    <3>1. Due(x, Free, c)' = 0
      BY <2>1, LoadOfNone DEF Due
    <3>2. Due(x, Free, c) \in Nat
      BY <1>2 DEF TakerFacts
    <3> QED BY <2>1, <3>1, <3>2 DEF NoMore, Adds
  <2> QED BY <1>6, <2>1, <2>2
<1> QED BY <1>7, <1>8, <1>9 DEF Next

\* The inductive invariant: every limit, whoever takes part and wherever its guards are.
BoundedInv ==
    \A l \in Limits : \A Free \in SUBSET ReactionNodes : \A t, u \in Threads :
        Guarded(Free, l) /\ Takers(t, u, l.counter) => Bounded(t, u, Free, l)

\* What two threads may add is part of what all may.
LEMMA SharesOfAll ==
    ASSUME NEW t \in Threads, NEW u \in Threads, NEW c \in Counters
    PROVE  /\ Bursts[c] \in Nat
           /\ Burst(t, "increment", c) <= Bursts[c]
           /\ t # u => Burst(t, "increment", c) + Burst(u, "increment", c) <= Bursts[c]
<1> DEFINE f == [w \in Threads |-> Burst(w, "increment", c)]
<1>1. IsFiniteSet(Threads) /\ \A w \in Threads : f[w] \in Nat
  BY PipelineAssumption, BurstBounds
<1>2. Bursts[c] = SumFunctionOnSet(f, Threads)
  BY DEF Bursts, SumFunction
<1>3. f[t] = Burst(t, "increment", c) /\ f[u] = Burst(u, "increment", c)
  OBVIOUS
<1> HIDE DEF f
<1>4. SumFunctionOnSet(f, Threads) \in Nat
  BY <1>1, SumProperties
<1>5. /\ f[t] <= SumFunctionOnSet(f, Threads)
      /\ t # u => f[t] + f[u] <= SumFunctionOnSet(f, Threads)
  BY <1>1, SumMembers
<1> QED BY <1>2, <1>3, <1>4, <1>5

\* Such a counter passes its limit by no more than the threads may have decided on
\* before they see each other's increments (bot.py:791-800), whatever updates are lost
\* and whatever saves fail; if at most two threads increment it, or one if it is reset.
THEOREM OvershootBoundedHolds == FewTakers => (Spec => []OvershootBounded)
<1> SUFFICES ASSUME FewTakers PROVE Spec => []OvershootBounded
  OBVIOUS
<1>1. Init => BoundedInv
  BY BoundedInit DEF BoundedInv
<1>2. TakersInv /\ TakersInv' /\ BoundedInv /\ [Next]_vars => BoundedInv'
  <2> SUFFICES ASSUME TakersInv, TakersInv', BoundedInv, [Next]_vars,
                      NEW l \in Limits, NEW Free \in SUBSET ReactionNodes,
                      NEW t \in Threads, NEW u \in Threads,
                      Guarded(Free, l), Takers(t, u, l.counter)
               PROVE  Bounded(t, u, Free, l)'
    BY DEF BoundedInv
  <2>1. Bounded(t, u, Free, l)
    BY DEF BoundedInv
  <2> QED BY <2>1, BoundedNext
<1>3. TakersInv /\ BoundedInv => OvershootBounded
  <2> SUFFICES ASSUME TakersInv, BoundedInv, NEW l \in Limits, counters[l.counter] # NoCounter
               PROVE  counters[l.counter] < l.limit + Bursts[l.counter]
    BY DEF OvershootBounded
  <2> DEFINE c == l.counter
  <2>1. l.limit \in Int /\ c \in Counters
    BY LimitFacts
  <2>2. PICK Free \in SUBSET ReactionNodes : Guarded(Free, l)
    BY LimitFacts
  <2>3. PICK t \in Threads, u \in Threads : Takers(t, u, c)
    BY DEF FewTakers, Takers
  <2>4. Bounded(t, u, Free, l)
    BY <2>2, <2>3 DEF BoundedInv
  <2>5. TakerFacts(t, Free, c) /\ TakerFacts(u, Free, c)
    BY <2>2, FactsNext DEF AllFacts
  <2>6. /\ Burst(t, "increment", c) \in Nat /\ Burst(u, "increment", c) \in Nat
    BY BurstBounds
  <2>7. /\ Bursts[c] \in Nat /\ Burst(t, "increment", c) <= Bursts[c]
        /\ t # u => Burst(t, "increment", c) + Burst(u, "increment", c) <= Bursts[c]
    BY <2>1, SharesOfAll
  <2> HIDE DEF c
  <2>8. CASE t = u
    <3>1. counters[c] + Due(t, Free, c) <= l.limit - 1 + Burst(t, "increment", c)
      BY <2>4, <2>8 DEF Bounded, Alone, c
    <3>2. counters[c] \in Nat /\ Due(t, Free, c) \in Nat
      BY <2>5 DEF TakerFacts, c
    <3> QED BY <2>1, <2>6, <2>7, <3>1, <3>2 DEF c
  <2>9. CASE t # u
    <3>1. counters[c] + (Due(t, Free, c) + Due(u, Free, c))
             <= l.limit - 1 + Burst(t, "increment", c) + Burst(u, "increment", c)
      BY <2>4, <2>9 DEF Bounded, Beside, c
    <3>2. counters[c] \in Nat /\ Due(t, Free, c) \in Nat /\ Due(u, Free, c) \in Nat
      BY <2>5 DEF TakerFacts, c
    <3> QED BY <2>1, <2>6, <2>7, <2>9, <3>1, <3>2 DEF c
  <2> QED BY <2>8, <2>9
<1> QED BY <1>1, <1>2, <1>3, TakersInvHolds, PTL DEF Spec
-----------------------------------------------------------------------------
\* Every variable has its type, and the collector's counts are at most
\* max_per_type, if each type of event has its thread.
THEOREM TypeOKHolds == OneThreadPerType => (Spec => []TypeOK)
<1> SUFFICES ASSUME OneThreadPerType PROVE Spec => []TypeOK
  OBVIOUS
<1>1. Init => Inv
  BY InitInv
<1>2. Inv /\ [Next]_vars => Inv'
  BY NextInv
<1>3. ASSUME PipelineInv, Inv PROVE TypeOK
  <2>1. HandlerInv /\ MemoryType /\ LocalType
    BY <1>3 DEF PipelineInv, HandlerInv
  <2>2. counts \in [EventNames -> 0..MaxPerType] /\ lines \in [EventNames -> Nat]
    BY <1>3, PipelineAssumption DEF Inv, CollectorType, RoomForPending
  <2> QED BY <2>1, <2>2 DEF TypeOK, MemoryType, LocalType, Labels, ArgsValues
<1> QED BY <1>1, <1>2, <1>3, PipelineInvHolds, PTL DEF Spec
=============================================================================
