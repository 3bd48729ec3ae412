---------------------------- MODULE ReactionTree ----------------------------
(***************************************************************************)
(* The reaction trees of triggers (expression/nodes.py:98-204) and what     *)
(* evaluate_reaction_ast (expression/evaluator.py) does with one node.       *)
(*                                                                         *)
(* The code walks the tree recursively and runs each reaction as it meets    *)
(* it.  Here a node that is no reaction is unfolded to the nodes that are to  *)
(* be evaluated in its place, in order, so that whoever walks the tree can    *)
(* be interrupted between any two reactions.                                 *)
(***************************************************************************)
EXTENDS TriggerTree

CONSTANTS
    ReactionNodes,  \* ids of the nodes of all reaction trees; NoNode: no node
    Counters,       \* names of counters
    NoCounter       \* a counter that is not in the handler's dictionary

\* The nodes right below a node, in order; NoNode where a branch is missing.
ReactionsBelow(n) ==
    CASE n.kind = "seq" -> n.kids
      [] n.kind = "if" -> <<n.then, n.else>>
      [] n.kind = "switch" -> Append([k \in 1..Len(n.cases) |-> n.cases[k].then], n.default)
      [] n.kind = "reaction" -> <<>>

\* What ReactionNode.from_dict makes of the "reactions" objects: nodes of these kinds,
\* and finite trees.
WellFormedReactions(Tree) ==
    LET MayBe == ReactionNodes \cup {NoNode}
    IN  /\ NoNode \notin ReactionNodes
        /\ \A id \in ReactionNodes :
               LET n == Tree[id]
               IN  /\ n.kind \in {"seq", "if", "switch", "reaction"}
                   /\ n.kind = "seq" => n.kids \in Seq(ReactionNodes)
                   /\ n.kind = "if" => /\ n.when \in Nodes \cup {NoNode}
                                      /\ n.then \in MayBe /\ n.else \in MayBe
                   /\ n.kind = "switch" => /\ n.default \in MayBe /\ Len(n.cases) \in Nat
                                          /\ \A k \in 1..Len(n.cases) : n.cases[k].then \in MayBe
                   /\ n.kind = "reaction" /\ n.reaction.type = "counter" => n.reaction.counter \in Counters
        /\ \A S \in SUBSET ReactionNodes : S # {} =>
               \E id \in S : Range(ReactionsBelow(Tree[id])) \cap S = {}

\* A placeholder that stays as it is: {args[0]} without args, {counter:c:value}
\* without the counter.  It equals no word and no number.
PlaceholderValue(p, message, args, counters) ==
    CASE p.type = "args" -> IF args = NoArgs THEN NoArgs ELSE message.word[args]
      [] p.type = "counter" -> counters[p.counter]

\* evaluate_compare for "{counter:c:value} < limit": comparing the text of an
\* unresolved placeholder with a number raises TypeError, which is False.
MatchBelow(leaf, counters, args) ==
    [holds |-> counters[leaf.counter] # NoCounter /\ counters[leaf.counter] < leaf.limit,
     args |-> args]

Optional(id) == IF id = NoNode THEN <<>> ELSE <<id>>

\* Mutant (OvershootBounded): "then" is taken when there is no "else".
BranchOrThen(n, holds) ==
    Optional(IF holds \/ n.else = NoNode THEN n.then ELSE n.else)

\* If: one branch or the other, which may be missing.
Branch(n, holds) == Optional(IF holds THEN n.then ELSE n.else)

\* Switch: the first case that equals the value, or the default.
Case(n, value) ==
    LET i == SelectInSeq(n.cases, LAMBDA c : c.equals = value)
    IN  Optional(IF i = 0 THEN n.default ELSE n.cases[i].then)

\* evaluate_reaction_ast for one node: the nodes in its place, given whether the
\* "when" tree of an "if" holds and what the placeholder of a "switch" stands for.
Unfold(n, holds, value) ==
    CASE n.kind = "seq" -> n.kids
      [] n.kind = "if" -> Branch(n, holds)
      [] n.kind = "switch" -> Case(n, value)

\* A node that is a reaction which does this to counter c.
IsChange(n, action, c) ==
    /\ n.kind = "reaction" /\ n.reaction.type = "counter"
    /\ n.reaction.action = action /\ n.reaction.counter = c

(* For the properties and proofs only, no code computes it: how many of the   *)
(* reactions in a tree change c like that, a bound for what evaluating it does. *)

\* W[id] is the number for the tree of id.
WeightOf(id, W) == IF id = NoNode THEN 0 ELSE W[id]

ChangesAt(n, action, c, W) ==
    IF n.kind = "reaction" THEN (IF IsChange(n, action, c) THEN 1 ELSE 0)
    ELSE SumFunction([k \in DOMAIN ReactionsBelow(n) |-> WeightOf(ReactionsBelow(n)[k], W)])

Changes(Tree, action, c) ==
    LET W[id \in ReactionNodes] == ChangesAt(Tree[id], action, c, W) IN W
=============================================================================
