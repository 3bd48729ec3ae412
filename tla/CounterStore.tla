---------------------------- MODULE CounterStore ----------------------------
(***************************************************************************)
(* CounterHandler (counter_handler.py): counters in memory, rewritten to    *)
(* counters.json after every mutation, and loaded from it at start.         *)
(*                                                                         *)
(* handle() takes no lock.  The webhook thread and the timer thread both    *)
(* reach it through TwitchBot.handle_event, so one handler call is a series *)
(* of steps, one per access to state that another thread may change in      *)
(* between: a read and the write that depends on it, a check and the act,   *)
(* the parts of _save.  With one thread this is the sequential handler.     *)
(*                                                                         *)
(* Abstractions: a counter or a subcounter that was dropped while a handler *)
(* still holds it is not followed any further (the thread is "detached":    *)
(* what it still writes is lost, but for a _save that has begun before); in *)
(* a counter, NoSub stands for both None and "", as every reader of         *)
(* active_subcounter tests truth, and in a request for a missing name or    *)
(* "", which select_subcounter tells apart; a request without a counter     *)
(* name returns an error before anything is touched, which is no step here; *)
(* _save reads the fields of all counters at one moment, although others    *)
(* may write between two of them; created_at and the result dictionaries    *)
(* are left out.                                                           *)
(***************************************************************************)
EXTENDS CounterData, FiniteSets

CONSTANTS
    Threads,    \* threads that call handle()
    Uses,       \* Uses[t]: the counter reactions t runs, as <<action, key>>
    Faults,     \* subset of {"crash_in_save", "io_error"}
    Bound,      \* increments keep values within -Bound..Bound (model bound)
    Missing,    \* counters.json does not exist
    Torn        \* counters.json is not valid JSON (truncated or overlapped)

Shifts  == {"increment", "decrement"}
Assigns == {"set", "reset"}
SubOps  == {"add_subcounter", "select_subcounter", "delete_subcounter"}
Plain   == {"create", "delete", "clear_active_subcounter", "query"}
Ops     == Shifts \cup Assigns \cup SubOps \cup Plain

ASSUME ThreadsAssumption ==
    /\ Keys # {}
    /\ IsFiniteSet(Keys)
    /\ Uses \in [Threads -> SUBSET (Ops \X Keys)]
    /\ {Missing, Torn} \cap Image = {}
    /\ Missing # Torn
    /\ Bound \in Nat

VARIABLES
    up,         \* the bot process runs
    counters,   \* self.counters
    file,       \* counters.json
    pc,         \* pc[t]: where t is inside handle(), "idle" when outside
    req,        \* req[t]: the payload t handles
    tmp,        \* tmp[t]: the number t has read and is about to write back
    sel,        \* sel[t]: the selection t has read, or its subcounter's dict
    snap,       \* snap[t]: the payload t's _save has built
    size,       \* size[t]: number of counters when that iteration began
    resume,     \* resume[t]: where t goes on after _save
    detached    \* threads whose counter, or selected subcounter, was dropped

vars == <<up, counters, file, pc, req, tmp, sel, snap, size, resume, detached>>
local == <<tmp, sel, snap, size, resume>>
stored == <<up, counters, file>>

\* A payload: every action reads "name" and "category", some "amount" or
\* "value", some "subcounter_name".
Requests ==
    [op : Plain \cup {"reset"}, key : Keys, sub : {NoSub}, n : {0}]
        \cup [op : Shifts \cup {"set"}, key : Keys, sub : {NoSub}, n : Ints]
        \cup [op : SubOps, key : Keys, sub : Subs \cup {NoSub}, n : {0}]

\* What req[t] is while t is idle (not read).
NoReq == [op |-> "query", key |-> CHOOSE k \in Keys : TRUE, sub |-> NoSub, n |-> 0]

Present(k)  == counters[k] # NoCounter
KeysInUse   == {k \in Keys : Present(k)}
Key(t)      == req[t].key
Goto(t, l)  == pc' = [pc EXCEPT ![t] = l]
Delta(t)    == IF req[t].op = "increment" THEN req[t].n ELSE -req[t].n

\* The counter t holds; what is in a dropped one only shows in t's own result,
\* and in whether t finds a subcounter there: it may or may not.
Held(t) == IF t \in detached THEN Fresh ELSE counters[Key(t)]
Has(t, s)   == t \in detached \/ Held(t).subs[s] # NoSub
Lacks(t, s) == t \in detached \/ Held(t).subs[s] = NoSub

\* Mutant (OwnReadIsCurrent): all keys share one Counter object.
ChangeEveryKey(t, c) ==
    counters' = [k \in Keys |-> IF counters[k] = NoCounter THEN NoCounter ELSE c]

Change(t, c) ==
    counters' = IF t \in detached THEN counters ELSE [counters EXCEPT ![Key(t)] = c]

\* Threads other than t that hold the counter k.
Holders(t, k) ==
    {u \in Threads \ {t} : Key(u) = k /\ pc[u] \notin {"idle", "ensure", "insert", "remove"}}

\* Threads other than t that have fetched the dict of subcounter s of k.
SubHolders(t, k, s) ==
    {u \in Threads \ {t} :
        Key(u) = k /\ sel[u] = s /\ pc[u] \in {"read_sub", "add_sub", "assign"}}
-----------------------------------------------------------------------------
Init ==
    /\ up = TRUE
    /\ counters = Empty
    /\ file = Missing
    /\ pc = [t \in Threads |-> "idle"]
    /\ req = [t \in Threads |-> NoReq]
    /\ tmp = [t \in Threads |-> 0]
    /\ sel = [t \in Threads |-> NoSub]
    /\ snap = [t \in Threads |-> Empty]
    /\ size = [t \in Threads |-> 0]
    /\ resume = [t \in Threads |-> "idle"]
    /\ detached = {}

-----------------------------------------------------------------------------
\* handle() returns or raises: the call's locals are gone.
Return(t) ==
    /\ Goto(t, "idle")
    /\ req' = [req EXCEPT ![t] = NoReq]
    /\ tmp' = [tmp EXCEPT ![t] = 0]
    /\ sel' = [sel EXCEPT ![t] = NoSub]
    /\ snap' = [snap EXCEPT ![t] = Empty]
    /\ size' = [size EXCEPT ![t] = 0]
    /\ resume' = [resume EXCEPT ![t] = "idle"]
    /\ detached' = detached \ {t}

\* self._save() is called next, and the handler goes on at l.
SaveThen(t, l) == Goto(t, "save") /\ resume' = [resume EXCEPT ![t] = l]

InRange(v) == -Bound <= v /\ v <= Bound

\* The model bound: requests whose result stays small.
Small(r) ==
    r.op \in Shifts /\ Present(r.key) =>
        LET c == counters[r.key]
        IN  \A v \in {c.value} \cup ({c.subs[s] : s \in Subs} \ {NoSub}) :
                InRange(v + r.n) /\ InRange(v - r.n)

Begin(t) ==
    /\ up
    /\ pc[t] = "idle"
    /\ \E r \in Requests :
           /\ <<r.op, r.key>> \in Uses[t]
           /\ Small(r)
           /\ req' = [req EXCEPT ![t] = r]
    /\ Goto(t, "ensure")
    /\ UNCHANGED <<stored, local, detached>>

\* The look-up of _ensure_counter, and that of create and of delete.
Found(t) ==
    /\ pc[t] = "ensure"
    /\ Present(Key(t))
    /\ \/ /\ req[t].op = "create"          \* {"error": "counter_exists"}
          /\ Return(t)
       \/ /\ req[t].op = "delete"
          /\ Goto(t, "remove")
          /\ UNCHANGED <<req, local, detached>>
       \/ /\ req[t].op \notin {"create", "delete"}
          /\ Goto(t, "body")
          /\ UNCHANGED <<req, local, detached>>
    /\ UNCHANGED stored

NotFound(t) ==
    /\ pc[t] = "ensure"
    /\ ~Present(Key(t))
    /\ \/ /\ req[t].op = "delete"          \* {"error": "counter_not_found"}
          /\ Return(t)
       \/ /\ req[t].op # "delete"
          /\ Goto(t, "insert")
          /\ UNCHANGED <<req, local, detached>>
    /\ UNCHANGED stored

\* self.counters[key] = Counter(name, category); self._save()
Insert(t) ==
    /\ pc[t] = "insert"
    /\ counters' = [counters EXCEPT ![Key(t)] = Fresh]
    /\ detached' = detached \cup Holders(t, Key(t))
    /\ SaveThen(t, IF req[t].op = "create" THEN "idle" ELSE "body")
    /\ UNCHANGED <<up, file, req, tmp, sel, snap, size>>

\* del self.counters[key]; self._save().  The key may have gone meanwhile.
Remove(t) ==
    /\ pc[t] = "remove"
    /\ Present(Key(t))
    /\ counters' = [counters EXCEPT ![Key(t)] = NoCounter]
    /\ detached' = detached \cup Holders(t, Key(t))
    /\ SaveThen(t, "idle")
    /\ UNCHANGED <<up, file, req, tmp, sel, snap, size>>

RemoveKeyError(t) ==
    /\ pc[t] = "remove"
    /\ ~Present(Key(t))
    /\ Return(t)
    /\ UNCHANGED stored
-----------------------------------------------------------------------------
\* counter.value += amount (-= in decrement): the read, then the write.
ReadValue(t) ==
    /\ pc[t] = "body"
    /\ req[t].op \in Shifts
    /\ tmp' = [tmp EXCEPT ![t] = Held(t).value]
    /\ Goto(t, "add")
    /\ UNCHANGED <<stored, req, sel, snap, size, resume, detached>>

AddToValue(t) ==
    /\ pc[t] = "add"
    /\ Change(t, [Held(t) EXCEPT !.value = tmp[t] + Delta(t)])
    /\ Goto(t, "select")
    /\ UNCHANGED <<up, file, req, local, detached>>

\* _active_subcounter returned None: an increment saves, set and reset go on.
NoneSelected(t) ==
    /\ sel' = [sel EXCEPT ![t] = NoSub]
    /\ \/ req[t].op \in Shifts /\ SaveThen(t, "idle")
       \/ req[t].op \in Assigns /\ Goto(t, "assign") /\ UNCHANGED resume

\* _active_subcounter reads the name, then looks it up, and drops a selection
\* whose subcounter is gone.
ReadSelection(t) ==
    /\ pc[t] = "select" \/ (pc[t] = "body" /\ req[t].op \in Assigns)
    /\ \/ Held(t).active = NoSub /\ NoneSelected(t)
       \/ /\ Held(t).active # NoSub
          /\ sel' = [sel EXCEPT ![t] = Held(t).active]
          /\ Goto(t, "fetch")
          /\ UNCHANGED resume
    /\ UNCHANGED <<stored, req, tmp, snap, size, detached>>

\* Mutant (WritesExistingSub): no test for a subcounter that is gone.
FetchUntested(t) ==
    /\ pc[t] = "fetch"
    /\ Goto(t, IF req[t].op \in Shifts THEN "read_sub" ELSE "assign")
    /\ UNCHANGED <<stored, req, local, detached>>

FetchSub(t) ==
    /\ pc[t] = "fetch"
    /\ \/ Has(t, sel[t]) /\ Goto(t, IF req[t].op \in Shifts THEN "read_sub" ELSE "assign")
       \/ Lacks(t, sel[t]) /\ Goto(t, "unselect")
    /\ UNCHANGED <<stored, req, local, detached>>

\* Whatever is selected by now.
Unselect(t) ==
    /\ pc[t] = "unselect"
    /\ Change(t, [Held(t) EXCEPT !.active = NoSub])
    /\ NoneSelected(t)
    /\ UNCHANGED <<up, file, req, tmp, snap, size, detached>>

\* sub["value"] = int(sub.get("value", 0)) + amount: the read, then the write.
ReadSub(t) ==
    /\ pc[t] = "read_sub"
    /\ tmp' = [tmp EXCEPT ![t] = IF t \in detached THEN 0 ELSE Held(t).subs[sel[t]]]
    /\ Goto(t, "add_sub")
    /\ UNCHANGED <<stored, req, sel, snap, size, resume, detached>>

AddToSub(t) ==
    /\ pc[t] = "add_sub"
    /\ Change(t, [Held(t) EXCEPT !.subs[sel[t]] = tmp[t] + Delta(t)])
    /\ SaveThen(t, "idle")
    /\ UNCHANGED <<up, file, req, tmp, sel, snap, size, detached>>

\* set and reset: the selected subcounter if there is one, else the counter.
\* Mutant (ImplementsDurableCounters): set reaches the counter, too.
AssignBoth(t, n) ==
    Change(t, IF sel[t] = NoSub THEN [Held(t) EXCEPT !.value = n]
              ELSE [Held(t) EXCEPT !.value = n, !.subs[sel[t]] = n])

AssignNumber(t, n) ==
    \/ /\ sel[t] = NoSub
       /\ Change(t, [Held(t) EXCEPT !.value = n])
    \/ /\ sel[t] # NoSub
       /\ Change(t, [Held(t) EXCEPT !.subs[sel[t]] = n])

AssignTo(t) ==
    /\ pc[t] = "assign"
    /\ AssignNumber(t, req[t].n)
    /\ SaveThen(t, "idle")
    /\ UNCHANGED <<up, file, req, tmp, sel, snap, size, detached>>

\* add_subcounter replaces an existing one, at 0.
AddSubcounter(t) ==
    /\ pc[t] = "body"
    /\ req[t].op = "add_subcounter"
    /\ req[t].sub # NoSub
    /\ Change(t, [Held(t) EXCEPT !.subs[req[t].sub] = 0])
    /\ detached' = IF t \in detached THEN detached
                   ELSE detached \cup SubHolders(t, Key(t), req[t].sub)
    /\ SaveThen(t, "idle")
    /\ UNCHANGED <<up, file, req, tmp, sel, snap, size>>

\* select_subcounter: the membership test, then the assignment.  The empty
\* name is selected untested; a missing one is an error (NoChange).
CheckSelection(t) ==
    /\ pc[t] = "body"
    /\ req[t].op = "select_subcounter"
    /\ req[t].sub # NoSub => Has(t, req[t].sub)
    /\ Goto(t, "choose")
    /\ UNCHANGED <<stored, req, local, detached>>

SelectSubcounter(t) ==
    /\ pc[t] = "choose"
    /\ Change(t, [Held(t) EXCEPT !.active = req[t].sub])
    /\ SaveThen(t, "idle")
    /\ UNCHANGED <<up, file, req, tmp, sel, snap, size, detached>>

\* clear_active_subcounter, and the end of delete_subcounter.
Clearing(t) ==
    pc[t] = "clear" \/ (pc[t] = "body" /\ req[t].op = "clear_active_subcounter")

\* Mutant (DurableWhenIdle): returns without _save.
ClearWithoutSave(t) ==
    /\ Clearing(t)
    /\ Change(t, [Held(t) EXCEPT !.active = NoSub])
    /\ Return(t)
    /\ UNCHANGED <<up, file>>

ClearActiveSubcounter(t) ==
    /\ Clearing(t)
    /\ Change(t, [Held(t) EXCEPT !.active = NoSub])
    /\ SaveThen(t, "idle")
    /\ UNCHANGED <<up, file, req, tmp, sel, snap, size, detached>>

\* delete_subcounter: the membership test, the del, which raises when the
\* subcounter has gone meanwhile, the test of the selection, and its end.
CheckDeletion(t) ==
    /\ pc[t] = "body"
    /\ req[t].op = "delete_subcounter"
    /\ req[t].sub # NoSub
    /\ Has(t, req[t].sub)
    /\ Goto(t, "drop")
    /\ UNCHANGED <<stored, req, local, detached>>

DropSub(t) ==
    /\ pc[t] = "drop"
    /\ Has(t, req[t].sub)
    /\ Change(t, [Held(t) EXCEPT !.subs[req[t].sub] = NoSub])
    /\ detached' = IF t \in detached THEN detached
                   ELSE detached \cup SubHolders(t, Key(t), req[t].sub)
    /\ Goto(t, "deselect")
    /\ UNCHANGED <<up, file, req, local>>

DropKeyError(t) ==
    /\ pc[t] = "drop"
    /\ Lacks(t, req[t].sub)
    /\ Return(t)
    /\ UNCHANGED stored

\* Mutant (SelectionExists): the selection stays.
KeepSelection(t) ==
    /\ pc[t] = "deselect"
    /\ SaveThen(t, "idle")
    /\ UNCHANGED <<stored, req, tmp, sel, snap, size, detached>>

TestSelection(t) ==
    /\ pc[t] = "deselect"
    /\ \/ Held(t).active = req[t].sub /\ Goto(t, "clear") /\ UNCHANGED resume
       \/ Held(t).active # req[t].sub /\ SaveThen(t, "idle")
    /\ UNCHANGED <<stored, req, tmp, sel, snap, size, detached>>

\* query, and the error returns after the counter was found or created.
NoChange(t) ==
    /\ pc[t] = "body"
    /\ \/ req[t].op = "query"
       \/ req[t].op \in SubOps /\ req[t].sub = NoSub
       \/ /\ req[t].op \in {"select_subcounter", "delete_subcounter"}
          /\ req[t].sub # NoSub
          /\ Lacks(t, req[t].sub)
    /\ Return(t)
    /\ UNCHANGED stored
-----------------------------------------------------------------------------
\* _save: the payload is built by iterating over self.counters.  Another
\* thread that changes its size meanwhile makes the iteration raise.
IterateCounters(t) ==
    /\ pc[t] = "save"
    /\ size' = [size EXCEPT ![t] = Cardinality(KeysInUse)]
    /\ Goto(t, "build")
    /\ UNCHANGED <<stored, req, tmp, sel, snap, resume, detached>>

BuildPayload(t) ==
    /\ pc[t] = "build"
    /\ size[t] = Cardinality(KeysInUse)
    /\ snap' = [snap EXCEPT ![t] = counters]
    /\ Goto(t, "open")
    /\ UNCHANGED <<stored, req, tmp, sel, size, resume, detached>>

SizeChanged(t) ==
    /\ pc[t] = "build"
    /\ size[t] # Cardinality(KeysInUse)
    /\ Return(t)
    /\ UNCHANGED stored

\* store_path.open("w") truncates.
OpenFile(t) ==
    /\ pc[t] = "open"
    /\ file' = Torn
    /\ Goto(t, "dump")
    /\ UNCHANGED <<up, counters, req, local, detached>>

AfterSave(t) ==
    \/ /\ resume[t] = "idle"
       /\ Return(t)
    \/ /\ resume[t] = "body"
       /\ Goto(t, "body")
       /\ snap' = [snap EXCEPT ![t] = Empty]
       /\ size' = [size EXCEPT ![t] = 0]
       /\ resume' = [resume EXCEPT ![t] = "idle"]
       /\ UNCHANGED <<req, tmp, sel, detached>>

\* The text of a payload: its subcounters are the live dicts, so any of them
\* may show what another thread has made of it since the payload was built.
Text(m, Live) ==
    [k \in Keys |->
        IF m[k] = NoCounter \/ ~Present(k) THEN m[k]
        ELSE [m[k] EXCEPT !.subs =
                 [s \in Subs |-> IF <<k, s>> \in Live THEN counters[k].subs[s] ELSE @[s]]]]

\* json.dump and close, from this handle's own offset 0.  Text another thread
\* has written since our open is overwritten; if it is longer, its tail stays
\* behind ours (lengths are not modelled).
Dump(t) ==
    /\ pc[t] = "dump"
    /\ \E Live \in SUBSET (Keys \X Subs) :
           \/ file' = Text(snap[t], Live)
           \/ file \notin {Torn, Text(snap[t], Live)} /\ file' = Torn
    /\ AfterSave(t)
    /\ UNCHANGED <<up, counters>>

\* The encoder (the Python one, as indent is set) iterates over those dicts
\* and raises when one has changed its size meanwhile.
SubsOf(c) == {s \in Subs : c.subs[s] # NoSub}

DumpRaises(t) ==
    /\ pc[t] = "dump"
    /\ \E k \in KeysInUse :
           snap[t][k] # NoCounter
               /\ Cardinality(SubsOf(snap[t][k])) # Cardinality(SubsOf(counters[k]))
    /\ file' = Torn
    /\ Return(t)
    /\ UNCHANGED <<up, counters>>

\* The write fails (OSError): the exception leaves the handler.
DumpFails(t) ==
    /\ "io_error" \in Faults
    /\ pc[t] = "dump"
    /\ file' = Torn
    /\ Return(t)
    /\ UNCHANGED <<up, counters>>
-----------------------------------------------------------------------------
Crash ==
    /\ up
    /\ "crash_in_save" \in Faults \/ \A t \in Threads : pc[t] # "dump"
    /\ up' = FALSE
    /\ counters' = Empty
    /\ pc' = [t \in Threads |-> "idle"]
    /\ req' = [t \in Threads |-> NoReq]
    /\ tmp' = [t \in Threads |-> 0]
    /\ sel' = [t \in Threads |-> NoSub]
    /\ snap' = [t \in Threads |-> Empty]
    /\ size' = [t \in Threads |-> 0]
    /\ resume' = [t \in Threads |-> "idle"]
    /\ detached' = {}
    /\ UNCHANGED file

\* _load: no file, and a file that does not parse, give no counters.
Load(f) == IF f \in {Missing, Torn} THEN Empty ELSE f

Restart ==
    /\ ~up
    /\ up' = TRUE
    /\ counters' = Load(file)
    /\ UNCHANGED <<file, pc, req, local, detached>>

Lookup(t) == Found(t) \/ NotFound(t) \/ Insert(t) \/ Remove(t) \/ RemoveKeyError(t)
Mutate(t) ==
    \/ ReadValue(t) \/ AddToValue(t) \/ ReadSub(t) \/ AddToSub(t) \/ AssignTo(t)
    \/ ReadSelection(t) \/ FetchSub(t) \/ Unselect(t)
    \/ AddSubcounter(t)
    \/ CheckDeletion(t) \/ DropSub(t) \/ DropKeyError(t) \/ TestSelection(t)
    \/ CheckSelection(t) \/ SelectSubcounter(t) \/ ClearActiveSubcounter(t)
    \/ NoChange(t)
Save(t) ==
    \/ IterateCounters(t) \/ BuildPayload(t) \/ SizeChanged(t)
    \/ OpenFile(t) \/ Dump(t) \/ DumpRaises(t) \/ DumpFails(t)

Next ==
    \/ \E t \in Threads : Begin(t) \/ Lookup(t) \/ Mutate(t) \/ Save(t)
    \/ Crash
    \/ Restart

Spec == Init /\ [][Next]_vars
-----------------------------------------------------------------------------
PCs == {"idle", "ensure", "insert", "remove", "body", "add", "select", "fetch",
        "unselect", "read_sub", "add_sub", "assign", "choose", "drop", "deselect", "clear",
        "save", "build", "open", "dump"}

\* The shape of every variable.
TypeOK ==
    /\ up \in BOOLEAN
    /\ counters \in Image
    /\ file \in Image \cup {Missing, Torn}
    /\ pc \in [Threads -> PCs]
    /\ req \in [Threads -> [op : Ops, key : Keys,
                            sub : Subs \cup {NoSub}, n : Int]]
    /\ tmp \in [Threads -> Int]
    /\ sel \in [Threads -> Subs \cup {NoSub}]
    /\ snap \in [Threads -> Image]
    /\ size \in [Threads -> Nat]
    /\ resume \in [Threads -> {"idle", "body"}]
    /\ detached \subseteq Threads

\* The selected subcounter exists, in every counter but one whose subcounter
\* delete_subcounter has just dropped, and in the file, which a restart loads
\* (counter_handler.py:86-94 repairs a counter for which it does not):
\* delete_subcounter ends the selection before it saves, select_subcounter
\* refuses an unknown name, and a crash keeps both or neither.  Holds for one
\* thread.
SelectionExists ==
    LET Valid(m, ks) == \A k \in ks : m[k] # NoCounter => m[k].active = Selected(m[k])
        Dropped == {Key(t) : t \in {u \in Threads : pc[u] \in {"deselect", "clear"}}}
    IN  /\ Valid(counters, Keys \ Dropped)
        /\ file \notin {Missing, Torn} => Valid(file, Keys)

\* Outside handle() the file holds what memory holds: no action forgets
\* its _save (counter_handler.py:374-378), so a restart loses nothing that a
\* handler has returned.  A crash inside a write loses all, and the bot
\* then starts without counters.  Holds for one thread whose writes do not fail.
DurableWhenIdle ==
    (up /\ \A t \in Threads : pc[t] = "idle") => counters = Load(file)

\* The number a thread has read is still the counter's value when it writes
\* it back incremented: no increment by another thread is lost.  Fails.
ReadIsCurrent ==
    \A t \in Threads :
        pc[t] = "add" /\ t \notin detached => tmp[t] = counters[Key(t)].value

\* It holds for a counter that only one thread's reactions name: what the other
\* thread does to its own counters, the creation and deletion of keys and the
\* rewriting of the whole file included, never reaches it.
OwnReadIsCurrent ==
    \A t \in Threads :
        /\ pc[t] = "add" /\ t \notin detached
        /\ \A u \in Threads \ {t}, o \in Ops : <<o, Key(t)>> \notin Uses[u]
        => tmp[t] = counters[Key(t)].value

\* A handler takes a subcounter in hand only while it is in the counter:
\* even a selection left dangling by two threads (one has checked the name in
\* select_subcounter, the other deletes it, the first selects it) is dropped by
\* _active_subcounter, so that sub["value"] never meets a missing subcounter.
WritesExistingSub ==
    \A t \in Threads :
        pc[t] \in {"read_sub", "add_sub", "assign"} /\ sel[t] # NoSub /\ t \notin detached =>
            /\ Present(Key(t))
            /\ counters[Key(t)].subs[sel[t]] # NoSub

\* What is durable: the file, or the payload that replaces it while a thread
\* is between the truncation and the write.
Durable ==
    IF file = Torn /\ \E t \in Threads : pc[t] = "dump"
    THEN snap[CHOOSE t \in Threads : pc[t] = "dump"]
    ELSE Load(file)

\* The handler, its file and its crashes behave as whole operations on a
\* persistent map, which a crash inside a write loses as a whole (for one thread,
\* and writes that do not fail).
DC == INSTANCE DurableCounters WITH store <- Durable
ImplementsDurableCounters == DC!Spec
=============================================================================
