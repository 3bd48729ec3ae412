--------------------------- MODULE MCCounterStore ---------------------------
(***************************************************************************)
(* Instances of CounterStore for TLC.                                       *)
(***************************************************************************)
EXTENDS CounterStore

CONSTANTS k1, k2, s1, s2, webhook, timer

AnyReaction == [t \in Threads |-> Ops \X Keys]

\* Chat counts and deletes k1, selects its subcounter and deletes it, the timer adds and
\* deletes that subcounter, may delete k1 as well, and has a counter of its own, k2.
PartlyShared ==
    [t \in Threads |->
        IF t = webhook
        THEN {"increment", "select_subcounter", "delete_subcounter", "delete"} \X {k1}
        ELSE {<<"add_subcounter", k1>>, <<"delete_subcounter", k1>>, <<"delete", k1>>,
              <<"increment", k2>>}]

\* Chat and timer count and show the same counter.
Shared == [t \in Threads |-> {"increment", "query"} \X Keys]
=============================================================================
