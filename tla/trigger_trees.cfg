CONSTANTS
    a = a
    b = b
    w = w
    NoNode = NoNode
    NoArgs = NoArgs
    Commands = {a, b}
    Words = {w}
    Root = 1
    Nodes <- ThreeNodes
    Trees <- AllTrees
    Messages <- SomeMessages
    Truths = {TRUE, FALSE}
SPECIFICATION EvaluationSpec
PROPERTIES HoldsAsMeant ArgsSetOnce
CHECK_DEADLOCK FALSE
