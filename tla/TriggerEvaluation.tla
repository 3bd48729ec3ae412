------------------------- MODULE TriggerEvaluation -------------------------
(***************************************************************************)
(* evaluate_when against what a "when" tree means: a Boolean formula over    *)
(* its leaves.  A behaviour evaluates one tree for one message, and then the *)
(* tree again for the next trigger, with the args the first left behind.    *)
(***************************************************************************)
EXTENDS TriggerTree

CONSTANTS
    Trees,      \* the trees to evaluate: functions from Nodes to nodes
    Root,       \* the root of each of them
    Messages,   \* the messages
    Truths      \* the truth of the leaf "plain"

\* Every tree is one that from_dict returns, with leaves of three kinds.
ASSUME EvaluationAssumption ==
    /\ Root \in Nodes
    /\ Messages \subseteq Message
    /\ Truths \subseteq BOOLEAN
    /\ \A T \in Trees :
           /\ WellFormed(T)
           /\ \A n \in Nodes : T[n].kind = "leaf" =>
                  \/ \E c \in Commands : T[n].leaf = [type |-> "command", command |-> c]
                  \/ T[n].leaf.type \in {"compare", "plain"}

VARIABLES
    tree,       \* the tree
    message,    \* the message
    plain,      \* the truth of the leaf "plain" for this event
    payloadArgs,\* payload["args"]
    evaluated   \* the results so far

evaluationVars == <<tree, message, plain, payloadArgs, evaluated>>

EvaluationInit ==
    /\ tree \in Trees
    /\ message \in Messages
    /\ plain \in Truths
    /\ payloadArgs \in Commands \cup {NoArgs}
    /\ evaluated = <<>>

MatchLeaf(leaf, a) ==
    CASE leaf.type = "command" -> MatchCommand(leaf, message, a)
      [] leaf.type = "compare" -> MatchCompare(leaf, message, a)
      [] leaf.type = "plain" -> [holds |-> plain, args |-> a]

Evaluate ==
    /\ Len(evaluated) < 2
    /\ LET r == EvaluateWhen(tree, Root, payloadArgs, MatchLeaf)
       IN  /\ payloadArgs' = r.args
           /\ evaluated' = Append(evaluated, r.holds)
    /\ UNCHANGED <<tree, message, plain>>

EvaluationSpec == EvaluationInit /\ [][Evaluate]_evaluationVars
-----------------------------------------------------------------------------
\* A leaf's truth when {args[0]} is what it was cut off by cmd.
Truth(leaf, cmd) ==
    CASE leaf.type = "command" -> leaf.command \in message.starts
      [] leaf.type = "compare" -> cmd # NoArgs /\ message.word[cmd] = leaf.word
      [] leaf.type = "plain" -> plain

\* The formula of one node, given those of its children.
MeaningAt(n, cmd, M) ==
    LET k == tree[n].kind
    IN  CASE k \in {"and", "all"} -> \A i \in DOMAIN tree[n].kids : M[tree[n].kids[i]]
          [] k \in {"or", "any"} -> \E i \in DOMAIN tree[n].kids : M[tree[n].kids[i]]
          [] k = "not" -> tree[n].kid # NoNode /\ ~M[tree[n].kid]
          [] k = "leaf" -> Truth(tree[n].leaf, cmd)

\* The formula a tree stands for.
Meaning(cmd) == LET M[n \in Nodes] == MeaningAt(n, cmd, M) IN M[Root]

CompareLeaves == \E leaf \in Leaves(tree, Root) : leaf.type = "compare"

\* A tree holds exactly when the formula over its leaves does
\* (expression/evaluator.py:47-109): neither the short circuit nor the order of
\* the children changes that, unless a compare leaf reads {args[0]} while
\* another leaf of the tree is still to set args.
HoldsAsMeant ==
    [][payloadArgs # NoArgs \/ ~CompareLeaves =>
        Last(evaluated') = Meaning(payloadArgs)]_evaluationVars

\* Args are set at most once per event, by a command leaf of the tree that
\* matches the message (condition_match.py:20-21 and 61-69); whoever evaluates
\* the payload next finds what the first matching command left there.
ArgsSetOnce ==
    [][payloadArgs' # payloadArgs =>
        /\ payloadArgs = NoArgs
        /\ payloadArgs' \in message.starts
        /\ [type |-> "command", command |-> payloadArgs'] \in Leaves(tree, Root)]_evaluationVars
=============================================================================
