---------------------------- MODULE TriggerTree ----------------------------
(***************************************************************************)
(* The "when" trees of triggers (expression/nodes.py) and their evaluation   *)
(* (expression/evaluator.py, expression/condition_match.py).                 *)
(*                                                                         *)
(* Evaluation has a side effect: the first command leaf that matches puts   *)
(* "args" into the payload, which later leaves, later triggers and the      *)
(* reactions read.  Which leaves are evaluated at all depends on the short   *)
(* circuit of "and" and "or", so the order of children matters.             *)
(*                                                                         *)
(* Abstractions: a node is named by an id, its children by theirs; "args" is *)
(* the command leaf it was cut off by, the message being fixed; a compare    *)
(* leaf tests {args[0]} for equality; a leaf whose truth neither reads nor   *)
(* writes args ("plain": follow, sub, cheer, raid, reward, role, ...) has the*)
(* truth the payload gives it.                                              *)
(***************************************************************************)
EXTENDS Naturals, Sequences, SequencesExt

CONSTANTS
    Nodes,      \* ids of the nodes of all trees
    NoNode,     \* the child of a "not" without child
    Commands,   \* the command texts of leaves
    Words,      \* what args[0] may be
    NoArgs      \* "args" is not in the payload; args is an empty list

\* TriggerNode.from_dict: "all" and "any" are read as "and" and "or".
Normalized(kind) == CASE kind = "all" -> "and"
                      [] kind = "any" -> "or"
                      [] OTHER -> kind

\* The nodes right below a node.
NodesBelow(node) ==
    CASE Normalized(node.kind) \in {"and", "or"} -> {node.kids[k] : k \in DOMAIN node.kids}
      [] Normalized(node.kind) = "not" -> {node.kid} \ {NoNode}
      [] OTHER -> {}

\* What from_dict makes of the "when" objects of a settings.json: nodes of these
\* kinds, and trees, since a JSON value is finite: whichever nodes one takes, there
\* is one with no child among them.
WellFormed(Node) ==
    /\ NoArgs \notin Commands
    /\ NoNode \notin Nodes
    /\ \A n \in Nodes :
           /\ Normalized(Node[n].kind) \in {"and", "or", "not", "leaf"}
           /\ Normalized(Node[n].kind) \in {"and", "or"} => Node[n].kids \in Seq(Nodes)
           /\ Normalized(Node[n].kind) = "not" => Node[n].kid \in Nodes \cup {NoNode}
    /\ \A S \in SUBSET Nodes : S # {} => \E n \in S : NodesBelow(Node[n]) \cap S = {}

\* A payload: message's commands (the texts it begins with, ignoring case), and
\* the first word after each of them.
Message == [starts : SUBSET Commands, word : [Commands -> Words \cup {NoArgs}]]

\* Mutant (ArgsSetOnce): the last matching command wins.
InjectAlways(args, cmd) == cmd

\* inject_command_args: only if there are none yet.
Inject(args, cmd) == IF args = NoArgs THEN cmd ELSE args

\* Mutant (ArgsOfOwnCommand): args are set before the text is compared.
MatchAfterInject(leaf, message, args) ==
    [holds |-> leaf.command \in message.starts, args |-> Inject(args, leaf.command)]

\* match_event_condition for a command leaf; the compare leaf of evaluate_when.
\* Without args, and out of range, {args[0]} stays as it is and equals no word.
MatchCommand(leaf, message, args) ==
    IF leaf.command \in message.starts
    THEN [holds |-> TRUE, args |-> Inject(args, leaf.command)]
    ELSE [holds |-> FALSE, args |-> args]

MatchCompare(leaf, message, args) ==
    [holds |-> args # NoArgs /\ message.word[args] = leaf.word, args |-> args]

\* Mutant (HoldsAsMeant): stops at a child that does not decide the node.
StepTooFar(found, r) == [holds |-> r.holds, args |-> r.args, stop |-> r.holds # found]

\* What one node adds to the evaluation of its siblings before it.
Step(found, r) == [holds |-> r.holds, args |-> r.args, stop |-> r.holds = found]

\* all() stops at the first child that fails, any() at the first that holds:
\* what the first n children make of the node, for each n.
Children(kids, found, args, E) ==
    LET first[n \in 0..Len(kids)] ==
            IF n = 0 THEN [holds |-> ~found, args |-> args, stop |-> FALSE]
            ELSE LET acc == first[n - 1]
                 IN  IF acc.stop THEN acc ELSE Step(found, E[<<kids[n], acc.args>>])
    IN  first[Len(kids)]

Without(r) == [holds |-> r.holds, args |-> r.args]

\* evaluate_when for one node: E has the results of all nodes by node and args.
\* LeafValue(leaf, args) is the result for a leaf.
AtNode(n, args, E, LeafValue(_, _)) ==
    LET kind == Normalized(n.kind)
    IN  CASE kind = "and" -> Without(Children(n.kids, FALSE, args, E))
          [] kind = "or" -> Without(Children(n.kids, TRUE, args, E))
          [] kind = "not" /\ n.kid = NoNode -> [holds |-> FALSE, args |-> args]
          [] kind = "not" /\ n.kid # NoNode ->
                [holds |-> ~E[<<n.kid, args>>].holds, args |-> E[<<n.kid, args>>].args]
          [] kind = "leaf" -> LeafValue(n.leaf, args)

\* evaluate_when: whether the tree at root holds, and the args afterwards.
EvaluateWhen(Node, root, args0, LeafValue(_, _)) ==
    LET E[p \in Nodes \X (Commands \cup {NoArgs})] == AtNode(Node[p[1]], p[2], E, LeafValue)
    IN  IF root = NoNode THEN [holds |-> TRUE, args |-> args0] ELSE E[<<root, args0>>]

\* walk_trigger_leaves: every leaf of the tree, in whatever order.
LeavesAt(n, L) ==
    IF Normalized(n.kind) = "leaf" THEN {n.leaf} ELSE UNION {L[m] : m \in NodesBelow(n)}

Leaves(Node, root) ==
    LET L[n \in Nodes] == LeavesAt(Node[n], L)
    IN  IF root = NoNode THEN {} ELSE L[root]
=============================================================================
