---------------------------- MODULE CounterData ----------------------------
(***************************************************************************)
(* A counter as models/counter.py has it, shared by the promise             *)
(* (DurableCounters) and the implementation (CounterStore).                 *)
(***************************************************************************)
EXTENDS Integers

CONSTANTS
    Keys,       \* counter keys ("name:category") that reactions name
    Subs,       \* subcounter names
    Ints,       \* the integers "amount" and "value" may be (model bound)
    NoCounter,  \* a key without a counter
    NoSub       \* a name without a subcounter; an empty selection

Counter == [value : Int, subs : [Subs -> Int \cup {NoSub}], active : Subs \cup {NoSub}]

ASSUME CountersAssumption ==
    /\ Ints \subseteq Int
    /\ NoSub \notin Subs \cup Int
    /\ NoCounter \notin Counter

\* Counter(name, category): value 0, no subcounters, nothing selected.
Fresh == [value |-> 0, subs |-> [s \in Subs |-> NoSub], active |-> NoSub]

\* self.counters and the contents of counters.json.
Image == [Keys -> Counter \cup {NoCounter}]
Empty == [k \in Keys |-> NoCounter]

\* The selected subcounter, NoSub when nothing is selected or the selected
\* name has no subcounter.
Selected(c) ==
    IF c.active # NoSub /\ c.subs[c.active] # NoSub THEN c.active ELSE NoSub
=============================================================================
