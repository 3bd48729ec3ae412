-------------------------- MODULE DurableCounters --------------------------
(***************************************************************************)
(* What the bot's counters promise: a persistent map from counter keys to   *)
(* a value, named subcounters and at most one selected subcounter, changed  *)
(* by whole operations only, or lost as a whole.  Neither the file, nor the *)
(* process, nor the order in which CounterHandler touches the fields of a   *)
(* counter is visible here.  CounterStore implements this module.           *)
(***************************************************************************)
EXTENDS CounterData

VARIABLE store

Exists(k) == store[k] # NoCounter
Put(k, c) == store' = [store EXCEPT ![k] = c]

Create(k) == ~Exists(k) /\ Put(k, Fresh)
Delete(k) == Exists(k) /\ Put(k, NoCounter)

\* An increment (a decrement adds a negative amount) reaches the counter and
\* its selected subcounter together, never one of the two.
Add(k, n) ==
    /\ Exists(k)
    /\ LET c == store[k]
       IN  \/ c.active = NoSub /\ Put(k, [c EXCEPT !.value = @ + n])
           \/ c.active # NoSub /\ Put(k, [c EXCEPT !.value = @ + n, !.subs[c.active] = @ + n])

\* set and reset reach the selected subcounter if there is one, else the counter.
Assign(k, n) ==
    /\ Exists(k)
    /\ LET c == store[k]
       IN  \/ c.active = NoSub /\ Put(k, [c EXCEPT !.value = n])
           \/ c.active # NoSub /\ Put(k, [c EXCEPT !.subs[c.active] = n])

AddSub(k, s) == Exists(k) /\ Put(k, [store[k] EXCEPT !.subs[s] = 0])

Select(k, s) ==
    /\ Exists(k)
    /\ s # NoSub => store[k].subs[s] # NoSub
    /\ Put(k, [store[k] EXCEPT !.active = s])

RemoveSub(k, s) ==
    /\ Exists(k)
    /\ store[k].subs[s] # NoSub
    /\ Put(k, [store[k] EXCEPT !.subs[s] = NoSub,
                               !.active = IF @ = s THEN NoSub ELSE @])

ChangeOne ==
    \E k \in Keys :
        \/ Create(k)
        \/ Delete(k)
        \/ \E n \in Ints : Add(k, n) \/ Add(k, -n) \/ Assign(k, n)
        \/ Assign(k, 0)
        \/ \E s \in Subs : AddSub(k, s) \/ RemoveSub(k, s)
        \/ \E s \in Subs \cup {NoSub} : Select(k, s)

\* _save truncates the file before it writes: a crash in between loses every
\* counter, never some of them or a part of one.
LoseAll == store' = Empty

Init == store = Empty

Next == ChangeOne \/ LoseAll

Spec == Init /\ [][Next]_store
=============================================================================
