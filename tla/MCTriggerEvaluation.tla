------------------------ MODULE MCTriggerEvaluation ------------------------
(***************************************************************************)
(* Every tree of up to three nodes (children have larger ids) for TLC.      *)
(***************************************************************************)
EXTENDS TriggerEvaluation, FiniteSets

CONSTANTS a, b, w

ThreeNodes == 1..3

CommandLeaf(c) == [kind |-> "leaf", leaf |-> [type |-> "command", command |-> c]]

LeafNodes ==
    {CommandLeaf(c) : c \in Commands}
        \cup {[kind |-> "leaf", leaf |-> [type |-> "compare", word |-> w]],
              [kind |-> "leaf", leaf |-> [type |-> "plain"]]}

\* The nodes that may have the id n.
NodesAt(n) ==
    LET below == (n + 1)..3
        kids  == {<<>>} \cup {<<k>> : k \in below} \cup (below \X below)
    IN  LeafNodes
            \cup [kind : {"and", "or", "any"}, kids : kids]
            \cup [kind : {"not"}, kid : below \cup {NoNode}]

AllTrees == {<<x, y, z>> : x \in NodesAt(1) \ LeafNodes, y \in NodesAt(2), z \in NodesAt(3)}

\* "a" may be a prefix of "b": a message that begins with b begins with a.
SomeMessages ==
    {[starts |-> s, word |-> v] :
        s \in {{}, {a}, {a, b}}, v \in [Commands -> {w, NoArgs}]}
=============================================================================
