-------------------------- MODULE CounterStoreProofs --------------------------
(***************************************************************************)
(* Theorems about CounterStore.  For any number of threads, keys and        *)
(* subcounters, with crashes and writes that fail: what a thread has read    *)
(* of a counter of its own stays current, and no handler writes a           *)
(* subcounter that is gone.  For one thread: every selection exists, what a  *)
(* handler has returned is in the file, and the handler with its file and   *)
(* its crashes implements DurableCounters.                                  *)
(***************************************************************************)
EXTENDS CounterStore, FiniteSetTheorems, TLAPS

\* Inside the body of an action, and inside _save.
Bodies == {"body", "add", "select", "fetch", "unselect", "read_sub", "add_sub", "assign",
           "choose", "drop", "deselect", "clear"}
Saves == {"save", "build", "open", "dump"}

\* t holds a Counter object, or will when its _save of a new one is done.
Holding(t) == t \notin detached /\ (pc[t] \in Bodies \/ resume[t] = "body")

\* t has a subcounter's dict in its hands and is going to write to it.
Writing(t) ==
    t \notin detached /\ pc[t] \in {"read_sub", "add_sub", "assign"} /\ sel[t] # NoSub

\* No other thread's reactions name the counter t works on.
Own(t) == \A u \in Threads \ {t}, o \in Ops : <<o, req[t].key>> \notin Uses[u]

\* What each thread may rely on.
Reliable(t) ==
    /\ pc[t] = "idle" \/ <<req[t].op, req[t].key>> \in Uses[t]
    /\ resume[t] = "body" => pc[t] \in Saves
    /\ pc[t] \in {"fetch", "read_sub", "add_sub"} => sel[t] # NoSub
    /\ pc[t] = "drop" => req[t].sub # NoSub
    /\ Holding(t) => counters[req[t].key] # NoCounter
    /\ Writing(t) => counters[req[t].key].subs[sel[t]] # NoSub
    /\ pc[t] = "add" /\ t \notin detached /\ Own(t) => tmp[t] = counters[req[t].key].value

Inv == TypeOK /\ \A t \in Threads : Reliable(t)

-----------------------------------------------------------------------------
(* Counters.                                                               *)

LEMMA FreshIsCounter == Fresh \in Counter /\ Fresh # NoCounter
  BY CountersAssumption DEF Fresh, Counter

\* One field or one subcounter of a counter replaced.
LEMMA WithValue ==
    ASSUME NEW c \in Counter, NEW v \in Int
    PROVE  /\ [c EXCEPT !.value = v] \in Counter
           /\ [c EXCEPT !.value = v].subs = c.subs
  BY DEF Counter

LEMMA WithActive ==
    ASSUME NEW c \in Counter, NEW a \in Subs \cup {NoSub}
    PROVE  /\ [c EXCEPT !.active = a] \in Counter
           /\ [c EXCEPT !.active = a].subs = c.subs
  BY DEF Counter

LEMMA WithSub ==
    ASSUME NEW c \in Counter, NEW s \in Subs, NEW v \in Int \cup {NoSub}
    PROVE  /\ [c EXCEPT !.subs[s] = v] \in Counter
           /\ [c EXCEPT !.subs[s] = v].subs[s] = v
           /\ \A z \in Subs \ {s} : [c EXCEPT !.subs[s] = v].subs[z] = c.subs[z]
  BY DEF Counter

\* The selection that _active_subcounter returns.
LEMMA SelectedExists ==
    ASSUME NEW c \in Counter
    PROVE  /\ Selected(c) \in Subs \cup {NoSub}
           /\ Selected(c) # NoSub =>
                Selected(c) \in Subs /\ c.subs[Selected(c)] \in Int
  BY DEF Selected, Counter

\* The text of a payload is an image, and that of the memory is the memory.
LEMMA TextType ==
    ASSUME counters \in Image, NEW m \in Image, NEW Live
    PROVE  Text(m, Live) \in Image
<1> SUFFICES ASSUME NEW k \in Keys PROVE Text(m, Live)[k] \in Counter \cup {NoCounter}
  BY DEF Text, Image
<1>1. CASE m[k] = NoCounter \/ ~Present(k)
  BY <1>1 DEF Text, Image
<1>2. CASE m[k] # NoCounter /\ Present(k)
  <2> DEFINE f == [s \in Subs |->
                      IF <<k, s>> \in Live THEN counters[k].subs[s] ELSE m[k].subs[s]]
  <2>1. m[k] \in Counter /\ counters[k] \in Counter
    BY <1>2 DEF Image, Present
  <2>2. f \in [Subs -> Int \cup {NoSub}]
    BY <2>1 DEF Counter
  <2>3. Text(m, Live)[k] = [m[k] EXCEPT !.subs = f]
    BY <1>2 DEF Text
  <2> HIDE DEF f
  <2>4. [m[k] EXCEPT !.subs = f] \in Counter
    BY <2>1, <2>2 DEF Counter
  <2> QED BY <2>3, <2>4
<1> QED BY <1>1, <1>2

LEMMA TextOfMemory ==
    ASSUME counters \in Image, NEW Live
    PROVE  Text(counters, Live) = counters
<1> SUFFICES ASSUME NEW k \in Keys PROVE Text(counters, Live)[k] = counters[k]
  BY DEF Text, Image
<1>1. CASE ~Present(k)
  BY <1>1 DEF Text
<1>2. CASE Present(k)
  <2>1. counters[k] \in Counter
    BY <1>2 DEF Image, Present
  <2>2. [s \in Subs |-> IF <<k, s>> \in Live THEN counters[k].subs[s]
                        ELSE counters[k].subs[s]] = counters[k].subs
    BY <2>1 DEF Counter
  <2>3. Text(counters, Live)[k] = [counters[k] EXCEPT !.subs = counters[k].subs]
    BY <1>2, <2>2 DEF Text, Present
  <2> QED BY <2>1, <2>3 DEF Counter
<1> QED BY <1>1, <1>2

LEMMA NumbersAreNotNoSub == \A v \in Int : v # NoSub
  BY CountersAssumption

LEMMA CountersAreNotNoCounter == \A c \in Counter : c # NoCounter
  BY CountersAssumption

LEMMA EmptyIsImage == Empty \in Image
  BY DEF Empty, Image

LEMMA KeysInUseCount ==
    Cardinality(KeysInUse) \in Nat
<1>1. KeysInUse \in SUBSET Keys
  BY DEF KeysInUse
<1>2. IsFiniteSet(KeysInUse)
  BY <1>1, ThreadsAssumption, FS_Subset
<1> QED BY <1>2, FS_CardinalityType

\* Requests are well formed, and so is what stands for none.
LEMMA RequestType ==
    Requests \subseteq [op : Ops, key : Keys, sub : Subs \cup {NoSub}, n : Int]
<1>1. ASSUME NEW r \in [op : Plain \cup {"reset"}, key : Keys, sub : {NoSub}, n : {0}]
      PROVE  r \in [op : Ops, key : Keys, sub : Subs \cup {NoSub}, n : Int]
  BY DEF Ops, Plain, Assigns
<1>2. ASSUME NEW r \in [op : Shifts \cup {"set"}, key : Keys, sub : {NoSub}, n : Ints]
      PROVE  r \in [op : Ops, key : Keys, sub : Subs \cup {NoSub}, n : Int]
  BY CountersAssumption DEF Ops, Shifts, Assigns
<1>3. ASSUME NEW r \in [op : SubOps, key : Keys, sub : Subs \cup {NoSub}, n : {0}]
      PROVE  r \in [op : Ops, key : Keys, sub : Subs \cup {NoSub}, n : Int]
  BY DEF Ops, SubOps
<1> QED BY <1>1, <1>2, <1>3 DEF Requests

LEMMA NoReqType ==
    NoReq \in [op : Ops, key : Keys, sub : Subs \cup {NoSub}, n : Int]
<1>1. (CHOOSE k \in Keys : TRUE) \in Keys
  BY ThreadsAssumption
<1> QED BY <1>1 DEF NoReq, Ops, Plain
-----------------------------------------------------------------------------
(* Types.                                                                  *)

\* The counter t holds is one, and changing it keeps the image one.
LEMMA HeldType ==
    ASSUME TypeOK, NEW t \in Threads, Reliable(t), pc[t] \in Bodies
    PROVE  Held(t) \in Counter
<1>1. CASE t \in detached
  BY <1>1, FreshIsCounter DEF Held
<1>2. CASE t \notin detached
  <2>1. counters[req[t].key] # NoCounter
    BY <1>2 DEF Reliable, Holding
  <2> QED BY <1>2, <2>1 DEF Held, Key, TypeOK, Image
<1> QED BY <1>1, <1>2

LEMMA ChangeType ==
    ASSUME TypeOK, NEW t \in Threads, NEW c \in Counter, Change(t, c)
    PROVE  /\ counters' \in Image
           /\ \A k \in Keys \ {req[t].key} : counters'[k] = counters[k]
           /\ t \in detached => counters' = counters
           /\ t \notin detached => counters'[req[t].key] = c
<1>1. counters \in Image /\ req[t].key \in Keys
  BY DEF TypeOK
<1> QED BY <1>1 DEF Change, Key, Image

LEMMA GotoType ==
    ASSUME TypeOK, NEW t \in Threads, NEW l \in PCs, Goto(t, l)
    PROVE  /\ pc' \in [Threads -> PCs]
           /\ pc'[t] = l
           /\ \A u \in Threads \ {t} : pc'[u] = pc[u]
  BY DEF TypeOK, Goto

LEMMA SaveThenType ==
    ASSUME TypeOK, NEW t \in Threads, NEW l \in {"idle", "body"}, SaveThen(t, l)
    PROVE  /\ pc' \in [Threads -> PCs]
           /\ pc'[t] = "save"
           /\ \A u \in Threads \ {t} : pc'[u] = pc[u]
           /\ resume' \in [Threads -> {"idle", "body"}]
           /\ resume'[t] = l
           /\ \A u \in Threads \ {t} : resume'[u] = resume[u]
<1>1. Goto(t, "save") /\ "save" \in PCs
  BY DEF SaveThen, PCs
<1> QED BY <1>1, GotoType DEF SaveThen, TypeOK

LEMMA ReturnType ==
    ASSUME TypeOK, NEW t \in Threads, Return(t)
    PROVE  /\ pc' \in [Threads -> PCs]
           /\ req' \in [Threads -> [op : Ops, key : Keys, sub : Subs \cup {NoSub}, n : Int]]
           /\ tmp' \in [Threads -> Int]
           /\ sel' \in [Threads -> Subs \cup {NoSub}]
           /\ snap' \in [Threads -> Image]
           /\ size' \in [Threads -> Nat]
           /\ resume' \in [Threads -> {"idle", "body"}]
           /\ detached' \subseteq Threads
  BY EmptyIsImage, NoReqType DEF Return, Goto, TypeOK, PCs
-----------------------------------------------------------------------------
(* What a step of one thread leaves to the others.                         *)

\* A step of t keeps what the other threads have in their hands, and takes no
\* counter from a thread that it does not detach.
Considerate(t) ==
    /\ \A u \in Threads \ {t} :
           /\ pc'[u] = pc[u] /\ req'[u] = req[u] /\ tmp'[u] = tmp[u]
           /\ sel'[u] = sel[u] /\ resume'[u] = resume[u]
           /\ u \in detached => u \in detached'
    /\ \A k \in Keys \ {req[t].key} : counters'[k] = counters[k]
    /\ \A u \in Threads \ {t} :
           /\ req[u].key = req[t].key
           /\ u \notin detached'
           => /\ Holding(u) => counters'[req[u].key] # NoCounter
              /\ Writing(u) => counters'[req[u].key].subs[sel[u]] # NoSub

LEMMA OthersReliable ==
    ASSUME Inv, NEW t \in Threads, pc[t] # "idle", Considerate(t),
           NEW u \in Threads \ {t}
    PROVE  Reliable(u)'
<1>1. /\ pc'[u] = pc[u] /\ req'[u] = req[u] /\ tmp'[u] = tmp[u]
      /\ sel'[u] = sel[u] /\ resume'[u] = resume[u]
      /\ u \in detached => u \in detached'
  BY DEF Considerate
<1>2. Reliable(u) /\ Reliable(t)
  BY DEF Inv
<1>3. /\ Holding(u)' => Holding(u)
      /\ Writing(u)' => Writing(u)
      /\ Own(u)' <=> Own(u)
  BY <1>1 DEF Holding, Writing, Own
<1>4. req[u].key \in Keys /\ req[t].key \in Keys /\ req[t].op \in Ops
  BY DEF Inv, TypeOK
<1>5. CASE req[u].key # req[t].key
  <2>1. counters'[req[u].key] = counters[req[u].key]
    BY <1>4, <1>5 DEF Considerate
  <2> QED BY <1>1, <1>2, <1>3, <2>1 DEF Reliable
<1>6. CASE req[u].key = req[t].key
  <2>1. ~Own(u)
    <3>1. <<req[t].op, req[u].key>> \in Uses[t]
      BY <1>2, <1>6 DEF Reliable
    <3> QED BY <1>4, <3>1 DEF Own
  <2>2. Holding(u)' => counters'[req[u].key] # NoCounter
    BY <1>3, <1>6 DEF Considerate, Holding
  <2>3. Writing(u)' => counters'[req[u].key].subs[sel[u]] # NoSub
    BY <1>3, <1>6 DEF Considerate, Writing
  <2> QED BY <1>1, <1>2, <1>3, <2>1, <2>2, <2>3 DEF Reliable
<1> QED BY <1>5, <1>6

\* A step that leaves the counters, and the others' locals, alone.
LEMMA QuietStep ==
    ASSUME Inv, NEW t \in Threads, counters' = counters,
           \A u \in Threads \ {t} :
               /\ pc'[u] = pc[u] /\ req'[u] = req[u] /\ tmp'[u] = tmp[u]
               /\ sel'[u] = sel[u] /\ resume'[u] = resume[u]
               /\ u \in detached <=> u \in detached'
    PROVE  \A u \in Threads \ {t} : Reliable(u)'
  BY DEF Inv, Reliable, Holding, Writing, Own

\* A call that returns relies on nothing.
LEMMA ReturnReliable ==
    ASSUME Inv, NEW t \in Threads, pc[t] # "idle", Return(t), counters' = counters
    PROVE  \A u \in Threads : Reliable(u)'
<1>1. \A u \in Threads \ {t} :
          /\ pc'[u] = pc[u] /\ req'[u] = req[u] /\ tmp'[u] = tmp[u]
          /\ sel'[u] = sel[u] /\ resume'[u] = resume[u]
          /\ u \in detached <=> u \in detached'
  BY DEF Return, Goto, Inv, TypeOK
<1>2. \A u \in Threads \ {t} : Reliable(u)'
  BY <1>1, QuietStep
<1>3. pc'[t] = "idle" /\ resume'[t] = "idle"
  BY DEF Return, Goto, Inv, TypeOK
<1>4. Reliable(t)'
  BY <1>3 DEF Reliable, Holding, Writing, Bodies
<1> QED BY <1>2, <1>4

\* A handler that saves and then returns relies on nothing, either.
LEMMA SaveReliable ==
    ASSUME Inv, NEW t \in Threads, pc[t] # "idle", req' = req,
           pc'[t] = "save", resume'[t] = "idle", Considerate(t)
    PROVE  \A u \in Threads : Reliable(u)'
<1>1. \A u \in Threads \ {t} : Reliable(u)'
  BY OthersReliable
<1>2. <<req[t].op, req[t].key>> \in Uses[t]
  BY DEF Inv, Reliable
<1>3. Reliable(t)'
  BY <1>2 DEF Reliable, Holding, Writing, Bodies
<1> QED BY <1>1, <1>3

\* A change of the held counter that takes no subcounter away.
LEMMA ChangeConsiderate ==
    ASSUME Inv, NEW t \in Threads, pc[t] \in Bodies, NEW c \in Counter, Change(t, c),
           req' = req,
           \A u \in Threads \ {t} :
               /\ pc'[u] = pc[u] /\ tmp'[u] = tmp[u]
               /\ sel'[u] = sel[u] /\ resume'[u] = resume[u]
               /\ u \in detached => u \in detached',
           \A u \in Threads \ {t} :
               Writing(u) /\ u \notin detached' /\ req[u].key = req[t].key
               /\ Held(t).subs[sel[u]] # NoSub
               => c.subs[sel[u]] # NoSub
    PROVE  Considerate(t)
<1>1. /\ \A k \in Keys \ {req[t].key} : counters'[k] = counters[k]
      /\ t \in detached => counters' = counters
      /\ t \notin detached => counters'[req[t].key] = c
  BY ChangeType DEF Inv
<1>2. ASSUME NEW u \in Threads \ {t}, req[u].key = req[t].key, u \notin detached', Holding(u)
      PROVE  counters'[req[u].key] # NoCounter
  <2>1. counters[req[u].key] # NoCounter
    BY <1>2 DEF Inv, Reliable
  <2> QED BY <1>1, <1>2, <2>1, CountersAreNotNoCounter
<1>3. ASSUME NEW u \in Threads \ {t}, req[u].key = req[t].key, u \notin detached', Writing(u)
      PROVE  counters'[req[u].key].subs[sel[u]] # NoSub
  <2>1. counters[req[u].key].subs[sel[u]] # NoSub
    BY <1>3 DEF Inv, Reliable
  <2>2. t \notin detached => Held(t) = counters[req[u].key]
    BY <1>3 DEF Held, Key
  <2> QED BY <1>1, <1>3, <2>1, <2>2
<1> QED BY <1>1, <1>2, <1>3 DEF Considerate
-----------------------------------------------------------------------------
(* The actions: the beginning of a call.                                   *)

LEMMA BeginInv ==
    ASSUME Inv, NEW t \in Threads, Begin(t)
    PROVE  Inv'
<1> PICK r \in Requests : <<r.op, r.key>> \in Uses[t] /\ req' = [req EXCEPT ![t] = r]
  BY DEF Begin
<1>1. r \in [op : Ops, key : Keys, sub : Subs \cup {NoSub}, n : Int]
  BY RequestType
<1>2. TypeOK' /\ pc'[t] = "ensure" /\ req'[t] = r /\ resume'[t] = resume[t]
  BY <1>1 DEF Begin, Goto, Inv, TypeOK, PCs, stored, local
<1>3. \A u \in Threads \ {t} : Reliable(u)'
  <2>1. \A u \in Threads \ {t} : pc'[u] = pc[u] /\ req'[u] = req[u]
    BY DEF Begin, Goto, Inv, TypeOK
  <2> QED BY <2>1, QuietStep DEF Begin, stored, local
<1>4. resume[t] # "body"
  BY DEF Begin, Inv, Reliable, Saves
<1>5. Reliable(t)'
  BY <1>2, <1>4 DEF Reliable, Holding, Writing, Bodies
<1> QED BY <1>2, <1>3, <1>5 DEF Inv

\* A call that ends without touching the counters.
LEMMA ReturnInv ==
    ASSUME Inv, NEW t \in Threads, pc[t] # "idle", Return(t), UNCHANGED <<up, counters>>,
           file' \in Image \cup {Missing, Torn}
    PROVE  Inv'
<1>1. TypeOK'
  BY ReturnType DEF Inv, TypeOK
<1> QED BY <1>1, ReturnReliable DEF Inv

\* A step of the look-up, or of _save, that goes on in the same call.
LEMMA StepInv ==
    ASSUME Inv, NEW t \in Threads, pc[t] # "idle", NEW l \in PCs, Goto(t, l),
           UNCHANGED <<up, counters, req, tmp, sel, resume, detached>>,
           file' \in Image \cup {Missing, Torn}, snap' \in [Threads -> Image],
           size' \in [Threads -> Nat],
           l \notin {"add", "fetch", "read_sub", "add_sub", "assign", "drop"},
           resume[t] = "body" => l \in Saves,
           l \in Bodies /\ t \notin detached => counters[req[t].key] # NoCounter
    PROVE  Inv'
<1>1. /\ pc' \in [Threads -> PCs]
      /\ pc'[t] = l
      /\ \A u \in Threads \ {t} : pc'[u] = pc[u]
  BY GotoType DEF Inv
<1>2. TypeOK'
  BY <1>1 DEF Inv, TypeOK
<1>3. \A u \in Threads \ {t} : Reliable(u)'
  BY <1>1, QuietStep
<1>4. resume[t] = "body" /\ t \notin detached => counters[req[t].key] # NoCounter
  BY DEF Inv, Reliable, Holding
<1>5. <<req[t].op, req[t].key>> \in Uses[t]
  BY DEF Inv, Reliable
<1>6. Reliable(t)'
  BY <1>1, <1>4, <1>5 DEF Reliable, Holding, Writing
<1> QED BY <1>2, <1>3, <1>6 DEF Inv

\* Where resume is "body", the thread is inside _save.
LEMMA NotResuming ==
    ASSUME Inv, NEW t \in Threads, pc[t] \notin Saves
    PROVE  resume[t] # "body"
  BY DEF Inv, Reliable

LEMMA FoundInv ==
    ASSUME Inv, NEW t \in Threads, Found(t)
    PROVE  Inv'
<1> pc[t] = "ensure" /\ Present(Key(t)) /\ resume[t] # "body"
  BY NotResuming DEF Found, Saves
<1> UNCHANGED <<up, counters, file>> /\ file \in Image \cup {Missing, Torn}
  BY DEF Found, stored, Inv, TypeOK
<1> snap \in [Threads -> Image] /\ size \in [Threads -> Nat]
  BY DEF Inv, TypeOK
<1>1. CASE Return(t)
  BY <1>1, ReturnInv
<1>2. CASE Goto(t, "remove") /\ UNCHANGED <<req, local, detached>>
  BY <1>2, StepInv DEF PCs, Bodies, local
<1>3. CASE Goto(t, "body") /\ UNCHANGED <<req, local, detached>>
  BY <1>3, StepInv DEF PCs, local, Present, Key
<1> QED BY <1>1, <1>2, <1>3 DEF Found

LEMMA NotFoundInv ==
    ASSUME Inv, NEW t \in Threads, NotFound(t)
    PROVE  Inv'
<1> pc[t] = "ensure" /\ resume[t] # "body"
  BY NotResuming DEF NotFound, Saves
<1> UNCHANGED <<up, counters, file>> /\ file \in Image \cup {Missing, Torn}
  BY DEF NotFound, stored, Inv, TypeOK
<1> snap \in [Threads -> Image] /\ size \in [Threads -> Nat]
  BY DEF Inv, TypeOK
<1>1. CASE Return(t)
  BY <1>1, ReturnInv
<1>2. CASE Goto(t, "insert") /\ UNCHANGED <<req, local, detached>>
  BY <1>2, StepInv DEF PCs, Bodies, local
<1> QED BY <1>1, <1>2 DEF NotFound

\* A counter inserted or removed: whoever holds the one that was there is detached.
LEMMA HoldersDetached ==
    ASSUME Inv, NEW t \in Threads, NEW u \in Threads \ {t}, Holding(u) \/ Writing(u),
           req[u].key = req[t].key
    PROVE  u \in Holders(t, Key(t))
<1>1. pc[u] \in Bodies \cup Saves
  BY DEF Inv, Reliable, Holding, Writing, Bodies
<1> QED BY <1>1 DEF Holders, Key, Bodies, Saves

LEMMA InsertInv ==
    ASSUME Inv, NEW t \in Threads, Insert(t)
    PROVE  Inv'
<1> DEFINE l == IF req[t].op = "create" THEN "idle" ELSE "body"
<1>1. l \in {"idle", "body"} /\ SaveThen(t, l)
  BY DEF Insert
<1> HIDE DEF l
<1>2. /\ pc' \in [Threads -> PCs] /\ pc'[t] = "save"
      /\ resume' \in [Threads -> {"idle", "body"}] /\ resume'[t] = l
      /\ \A u \in Threads \ {t} : pc'[u] = pc[u] /\ resume'[u] = resume[u]
  BY <1>1, SaveThenType DEF Inv
<1>3. counters \in Image /\ req[t].key \in Keys
  BY DEF Inv, TypeOK
<1>4. /\ counters' \in Image /\ counters'[req[t].key] = Fresh
      /\ \A k \in Keys \ {req[t].key} : counters'[k] = counters[k]
  BY <1>3, FreshIsCounter DEF Insert, Image, Key
<1>5. detached' = detached \cup Holders(t, Key(t)) /\ detached' \subseteq Threads
  BY DEF Insert, Holders, Inv, TypeOK
<1>6. TypeOK'
  BY <1>2, <1>4, <1>5 DEF Insert, Inv, TypeOK
<1>7. Considerate(t)
  BY <1>2, <1>4, <1>5, HoldersDetached DEF Insert, Considerate
<1>8. \A u \in Threads \ {t} : Reliable(u)'
  BY <1>7, OthersReliable DEF Insert
<1>9. Reliable(t)'
  <2>1. <<req[t].op, req[t].key>> \in Uses[t] /\ req' = req
    BY DEF Insert, Inv, Reliable
  <2> QED BY <1>2, <1>4, <2>1, FreshIsCounter DEF Reliable, Writing, Saves
<1> QED BY <1>6, <1>8, <1>9 DEF Inv

LEMMA RemoveInv ==
    ASSUME Inv, NEW t \in Threads, Remove(t)
    PROVE  Inv'
<1>1. /\ pc' \in [Threads -> PCs] /\ pc'[t] = "save"
      /\ resume' \in [Threads -> {"idle", "body"}] /\ resume'[t] = "idle"
      /\ \A u \in Threads \ {t} : pc'[u] = pc[u] /\ resume'[u] = resume[u]
  BY SaveThenType DEF Inv, Remove
<1>2. counters \in Image /\ req[t].key \in Keys
  BY DEF Inv, TypeOK
<1>3. /\ counters' \in Image
      /\ \A k \in Keys \ {req[t].key} : counters'[k] = counters[k]
  BY <1>2 DEF Remove, Image, Key
<1>4. detached' = detached \cup Holders(t, Key(t)) /\ detached' \subseteq Threads
  BY DEF Remove, Holders, Inv, TypeOK
<1>5. TypeOK'
  BY <1>1, <1>3, <1>4 DEF Remove, Inv, TypeOK
<1>6. Considerate(t)
  BY <1>1, <1>3, <1>4, HoldersDetached DEF Remove, Considerate
<1>7. pc[t] # "idle" /\ req' = req
  BY DEF Remove
<1> QED BY <1>1, <1>5, <1>6, <1>7, SaveReliable DEF Inv

LEMMA LookupInv ==
    ASSUME Inv, NEW t \in Threads, Lookup(t)
    PROVE  Inv'
<1>1. ASSUME RemoveKeyError(t) PROVE Inv'
  <2>1. pc[t] # "idle" /\ Return(t) /\ UNCHANGED <<up, counters, file>>
    BY <1>1 DEF RemoveKeyError, stored
  <2> QED BY <2>1, ReturnInv DEF Inv, TypeOK
<1> QED BY <1>1, FoundInv, NotFoundInv, InsertInv, RemoveInv DEF Lookup
-----------------------------------------------------------------------------
(* The actions: the bodies.                                                *)

\* The held counter is changed, and saved.
LEMMA ChangeAndSave ==
    ASSUME Inv, NEW t \in Threads, pc[t] \in Bodies, NEW c \in Counter, Change(t, c),
           SaveThen(t, "idle"), UNCHANGED <<up, file, req, tmp, snap, size>>,
           sel' \in [Threads -> Subs \cup {NoSub}], \A u \in Threads \ {t} : sel'[u] = sel[u],
           detached \subseteq detached', detached' \subseteq Threads,
           \A u \in Threads \ {t} :
               Writing(u) /\ u \notin detached' /\ req[u].key = req[t].key
               /\ Held(t).subs[sel[u]] # NoSub
               => c.subs[sel[u]] # NoSub
    PROVE  Inv'
<1>1. /\ pc' \in [Threads -> PCs] /\ pc'[t] = "save"
      /\ resume' \in [Threads -> {"idle", "body"}] /\ resume'[t] = "idle"
      /\ \A u \in Threads \ {t} : pc'[u] = pc[u] /\ resume'[u] = resume[u]
  BY SaveThenType DEF Inv
<1>2. counters' \in Image
  BY ChangeType DEF Inv
<1>3. TypeOK'
  BY <1>1, <1>2 DEF Inv, TypeOK
<1>4. Considerate(t)
  <2>1. \A u \in Threads \ {t} :
            /\ pc'[u] = pc[u] /\ tmp'[u] = tmp[u] /\ sel'[u] = sel[u]
            /\ resume'[u] = resume[u] /\ (u \in detached => u \in detached')
    BY <1>1
  <2> QED BY <2>1, ChangeConsiderate
<1>5. pc[t] # "idle"
  BY DEF Bodies
<1> QED BY <1>1, <1>3, <1>4, <1>5, SaveReliable DEF Inv

\* The held counter is changed, and the body goes on.
LEMMA ChangeAndGo ==
    ASSUME Inv, NEW t \in Threads, pc[t] \in Bodies, NEW c \in Counter, Change(t, c),
           NEW l \in {"select", "assign", "deselect"}, Goto(t, l),
           UNCHANGED <<up, file, req, tmp, snap, size, resume>>,
           sel' \in [Threads -> Subs \cup {NoSub}], \A u \in Threads \ {t} : sel'[u] = sel[u],
           l = "assign" => sel'[t] = NoSub,
           detached \subseteq detached', detached' \subseteq Threads,
           \A u \in Threads \ {t} :
               Writing(u) /\ u \notin detached' /\ req[u].key = req[t].key
               /\ Held(t).subs[sel[u]] # NoSub
               => c.subs[sel[u]] # NoSub
    PROVE  Inv'
<1>1. l \in PCs
  BY DEF PCs
<1>2. /\ pc' \in [Threads -> PCs] /\ pc'[t] = l
      /\ \A u \in Threads \ {t} : pc'[u] = pc[u]
  BY <1>1, GotoType DEF Inv
<1>3. counters' \in Image /\ (t \notin detached => counters'[req[t].key] = c)
  BY ChangeType DEF Inv
<1>4. TypeOK'
  BY <1>2, <1>3 DEF Inv, TypeOK
<1>5. Considerate(t)
  <2>1. \A u \in Threads \ {t} :
            /\ pc'[u] = pc[u] /\ tmp'[u] = tmp[u] /\ sel'[u] = sel[u]
            /\ resume'[u] = resume[u] /\ (u \in detached => u \in detached')
    BY <1>2
  <2> QED BY <2>1, ChangeConsiderate
<1>6. pc[t] \notin Saves /\ pc[t] # "idle"
  BY DEF Bodies, Saves
<1>7. \A u \in Threads \ {t} : Reliable(u)'
  BY <1>5, <1>6, OthersReliable
<1>8. Reliable(t)'
  <2>1. resume[t] # "body" /\ <<req[t].op, req[t].key>> \in Uses[t]
    BY <1>6 DEF Inv, Reliable
  <2>2. t \notin detached => counters'[req[t].key] # NoCounter
    BY <1>3, CountersAreNotNoCounter
  <2> QED BY <1>2, <1>3, <2>1, <2>2 DEF Reliable, Writing, Holding
<1> QED BY <1>4, <1>7, <1>8 DEF Inv

\* The counters are read, and the body goes on.
LEMMA ReadAndGo ==
    ASSUME Inv, NEW t \in Threads, pc[t] \in Bodies, NEW l \in Bodies \ {"add"}, Goto(t, l),
           UNCHANGED <<up, counters, file, req, snap, size, resume, detached>>,
           tmp' \in [Threads -> Int], \A u \in Threads \ {t} : tmp'[u] = tmp[u],
           sel' \in [Threads -> Subs \cup {NoSub}], \A u \in Threads \ {t} : sel'[u] = sel[u],
           l \in {"fetch", "read_sub", "add_sub"} => sel'[t] # NoSub,
           l = "drop" => req[t].sub # NoSub,
           l \in {"read_sub", "add_sub", "assign"} /\ t \notin detached /\ sel'[t] # NoSub =>
               counters[req[t].key].subs[sel'[t]] # NoSub
    PROVE  Inv'
<1>1. l \in PCs
  BY DEF Bodies, PCs
<1>2. /\ pc' \in [Threads -> PCs] /\ pc'[t] = l
      /\ \A u \in Threads \ {t} : pc'[u] = pc[u]
  BY <1>1, GotoType DEF Inv
<1>3. TypeOK'
  BY <1>2 DEF Inv, TypeOK
<1>4. \A u \in Threads \ {t} : Reliable(u)'
  BY <1>2, QuietStep
<1>5. Reliable(t)'
  <2>1. resume[t] # "body" /\ <<req[t].op, req[t].key>> \in Uses[t]
    BY DEF Inv, Reliable, Bodies, Saves
  <2>2. t \notin detached => counters[req[t].key] # NoCounter
    BY DEF Inv, Reliable, Holding
  <2>3. l # "add"
    OBVIOUS
  <2> QED BY <1>2, <2>1, <2>2, <2>3 DEF Reliable, Writing, Holding
<1> QED BY <1>3, <1>4, <1>5 DEF Inv

\* The counters are read, and saved.
LEMMA ReadAndSave ==
    ASSUME Inv, NEW t \in Threads, pc[t] \in Bodies, SaveThen(t, "idle"),
           UNCHANGED <<up, counters, file, req, tmp, snap, size, detached>>,
           sel' \in [Threads -> Subs \cup {NoSub}], \A u \in Threads \ {t} : sel'[u] = sel[u]
    PROVE  Inv'
<1>1. /\ pc' \in [Threads -> PCs] /\ pc'[t] = "save"
      /\ resume' \in [Threads -> {"idle", "body"}] /\ resume'[t] = "idle"
      /\ \A u \in Threads \ {t} : pc'[u] = pc[u] /\ resume'[u] = resume[u]
  BY SaveThenType DEF Inv
<1>2. TypeOK'
  BY <1>1 DEF Inv, TypeOK
<1>3. \A u \in Threads \ {t} : Reliable(u)'
  BY <1>1, QuietStep
<1>4. <<req[t].op, req[t].key>> \in Uses[t]
  BY DEF Inv, Reliable, Bodies
<1>5. Reliable(t)'
  BY <1>1, <1>4 DEF Reliable, Holding, Writing, Bodies
<1> QED BY <1>2, <1>3, <1>5 DEF Inv

LEMMA ReadValueInv ==
    ASSUME Inv, NEW t \in Threads, ReadValue(t)
    PROVE  Inv'
<1>1. pc[t] \in Bodies /\ pc[t] \notin Saves /\ pc[t] # "idle"
  BY DEF ReadValue, Bodies, Saves
<1>2. Held(t) \in Counter /\ resume[t] # "body" /\ <<req[t].op, req[t].key>> \in Uses[t]
  BY <1>1, HeldType DEF Inv, Reliable
<1>3. tmp' = [tmp EXCEPT ![t] = Held(t).value] /\ Held(t).value \in Int
  BY <1>2 DEF ReadValue, Counter
<1>4. /\ pc' \in [Threads -> PCs] /\ pc'[t] = "add"
      /\ \A u \in Threads \ {t} : pc'[u] = pc[u]
  BY GotoType DEF ReadValue, PCs, Inv
<1>5. TypeOK' /\ tmp'[t] = Held(t).value /\ \A u \in Threads \ {t} : tmp'[u] = tmp[u]
  BY <1>3, <1>4 DEF ReadValue, stored, Inv, TypeOK
<1>6. \A u \in Threads \ {t} : Reliable(u)'
  BY <1>4, <1>5, QuietStep DEF ReadValue, stored
<1>7. t \notin detached => /\ counters[req[t].key] # NoCounter
                           /\ Held(t) = counters[req[t].key]
  BY <1>1 DEF Inv, Reliable, Holding, Held, Key
<1>8. Reliable(t)'
  BY <1>2, <1>4, <1>5, <1>7 DEF ReadValue, stored, Reliable, Writing, Holding
<1> QED BY <1>5, <1>6, <1>8 DEF Inv

LEMMA AddToValueInv ==
    ASSUME Inv, NEW t \in Threads, AddToValue(t)
    PROVE  Inv'
<1>1. pc[t] \in Bodies
  BY DEF AddToValue, Bodies
<1>2. Held(t) \in Counter
  BY <1>1, HeldType DEF Inv
<1>3. tmp[t] + Delta(t) \in Int
  BY DEF Delta, Inv, TypeOK
<1> DEFINE c == [Held(t) EXCEPT !.value = tmp[t] + Delta(t)]
<1>4. c \in Counter /\ c.subs = Held(t).subs
  BY <1>2, <1>3, WithValue
<1>5. Change(t, c) /\ Goto(t, "select") /\ UNCHANGED <<up, file, req, local, detached>>
  BY DEF AddToValue
<1> HIDE DEF c
<1>6. detached' \subseteq Threads /\ sel' \in [Threads -> Subs \cup {NoSub}]
  BY <1>5 DEF local, Inv, TypeOK
<1> QED BY <1>1, <1>4, <1>5, <1>6, ChangeAndGo DEF local

LEMMA ReadSelectionInv ==
    ASSUME Inv, NEW t \in Threads, ReadSelection(t)
    PROVE  Inv'
<1>1. pc[t] \in Bodies
  BY DEF ReadSelection, Bodies
<1>2. Held(t) \in Counter
  BY <1>1, HeldType DEF Inv
<1>3. UNCHANGED <<up, counters, file, req, tmp, snap, size, detached>> /\ tmp' \in [Threads -> Int]
  BY DEF ReadSelection, stored, Inv, TypeOK
<1>4. CASE NoneSelected(t)
  <2>1. /\ sel' \in [Threads -> Subs \cup {NoSub}] /\ sel'[t] = NoSub
        /\ \A u \in Threads \ {t} : sel'[u] = sel[u]
    BY <1>4 DEF NoneSelected, Inv, TypeOK
  <2>2. CASE SaveThen(t, "idle")
    BY <1>1, <1>3, <2>1, <2>2, ReadAndSave
  <2>3. CASE Goto(t, "assign") /\ UNCHANGED resume
    BY <1>1, <1>3, <2>1, <2>3, ReadAndGo DEF Bodies
  <2> QED BY <1>4, <2>2, <2>3 DEF NoneSelected
<1>5. CASE /\ Held(t).active # NoSub
           /\ sel' = [sel EXCEPT ![t] = Held(t).active]
           /\ Goto(t, "fetch")
           /\ UNCHANGED resume
  <2>1. /\ sel' \in [Threads -> Subs \cup {NoSub}] /\ sel'[t] # NoSub
        /\ \A u \in Threads \ {t} : sel'[u] = sel[u]
    BY <1>2, <1>5 DEF Counter, Inv, TypeOK
  <2> QED BY <1>1, <1>3, <1>5, <2>1, ReadAndGo DEF Bodies
<1> QED BY <1>4, <1>5 DEF ReadSelection

LEMMA FetchSubInv ==
    ASSUME Inv, NEW t \in Threads, FetchSub(t)
    PROVE  Inv'
<1> DEFINE here == IF req[t].op \in Shifts THEN "read_sub" ELSE "assign"
<1>1. pc[t] \in Bodies /\ sel[t] # NoSub
  BY DEF FetchSub, Bodies, Inv, Reliable
<1>2. /\ UNCHANGED <<up, counters, file, req, tmp, sel, snap, size, resume, detached>>
      /\ tmp' \in [Threads -> Int] /\ sel' \in [Threads -> Subs \cup {NoSub}]
  BY DEF FetchSub, stored, local, Inv, TypeOK
<1>3. CASE Has(t, sel[t]) /\ Goto(t, here)
  <2>1. t \notin detached => counters[req[t].key].subs[sel[t]] # NoSub
    BY <1>3 DEF Has, Held, Key
  <2>2. here \in {"read_sub", "assign"} /\ here \in Bodies \ {"add"}
    BY DEF Bodies
  <2>3. Goto(t, here)
    BY <1>3
  <2> HIDE DEF here
  <2> QED BY <1>1, <1>2, <2>1, <2>2, <2>3, ReadAndGo
<1>4. CASE Goto(t, "unselect")
  BY <1>1, <1>2, <1>4, ReadAndGo DEF Bodies
<1> QED BY <1>3, <1>4 DEF FetchSub

LEMMA UnselectInv ==
    ASSUME Inv, NEW t \in Threads, Unselect(t)
    PROVE  Inv'
<1>1. pc[t] \in Bodies
  BY DEF Unselect, Bodies
<1>2. Held(t) \in Counter
  BY <1>1, HeldType DEF Inv
<1> DEFINE c == [Held(t) EXCEPT !.active = NoSub]
<1>3. c \in Counter /\ c.subs = Held(t).subs
  BY <1>2, WithActive
<1>4. Change(t, c) /\ UNCHANGED <<up, file, req, tmp, snap, size, detached>>
  BY DEF Unselect
<1>5. /\ sel' \in [Threads -> Subs \cup {NoSub}] /\ sel'[t] = NoSub
      /\ \A u \in Threads \ {t} : sel'[u] = sel[u]
      /\ detached' \subseteq Threads
  BY <1>4 DEF Unselect, NoneSelected, Inv, TypeOK
<1> HIDE DEF c
<1>6. CASE SaveThen(t, "idle")
  BY <1>1, <1>3, <1>4, <1>5, <1>6, ChangeAndSave
<1>7. CASE Goto(t, "assign") /\ UNCHANGED resume
  BY <1>1, <1>3, <1>4, <1>5, <1>7, ChangeAndGo
<1> QED BY <1>6, <1>7 DEF Unselect, NoneSelected

LEMMA ReadSubInv ==
    ASSUME Inv, NEW t \in Threads, ReadSub(t)
    PROVE  Inv'
<1> DEFINE v == IF t \in detached THEN 0 ELSE Held(t).subs[sel[t]]
<1>1. /\ pc[t] = "read_sub" /\ pc[t] \in Bodies /\ sel[t] # NoSub
      /\ t \notin detached => counters[req[t].key].subs[sel[t]] # NoSub
  BY DEF ReadSub, Bodies, Inv, Reliable, Writing
<1>2. Held(t) \in Counter /\ sel[t] \in Subs
  BY <1>1, HeldType DEF Inv, TypeOK
<1>3. v \in Int
  BY <1>1, <1>2 DEF Held, Key, Counter
<1>4. tmp' = [tmp EXCEPT ![t] = v] /\ Goto(t, "add_sub")
  BY DEF ReadSub
<1> HIDE DEF v
<1>5. tmp' \in [Threads -> Int] /\ \A u \in Threads \ {t} : tmp'[u] = tmp[u]
  BY <1>3, <1>4 DEF Inv, TypeOK
<1>6. /\ UNCHANGED <<up, counters, file, req, sel, snap, size, resume, detached>>
      /\ sel' \in [Threads -> Subs \cup {NoSub}]
  BY DEF ReadSub, stored, Inv, TypeOK
<1> QED BY <1>1, <1>4, <1>5, <1>6, ReadAndGo DEF Bodies

LEMMA AddToSubInv ==
    ASSUME Inv, NEW t \in Threads, AddToSub(t)
    PROVE  Inv'
<1>1. pc[t] \in Bodies /\ sel[t] \in Subs
  BY DEF AddToSub, Bodies, Inv, Reliable, TypeOK
<1>2. Held(t) \in Counter
  BY <1>1, HeldType DEF Inv
<1>3. tmp[t] + Delta(t) \in Int
  BY DEF Delta, Inv, TypeOK
<1> DEFINE c == [Held(t) EXCEPT !.subs[sel[t]] = tmp[t] + Delta(t)]
<1>4. /\ c \in Counter /\ c.subs[sel[t]] = tmp[t] + Delta(t)
      /\ \A z \in Subs \ {sel[t]} : c.subs[z] = Held(t).subs[z]
  BY <1>1, <1>2, <1>3, WithSub
<1>5. /\ Change(t, c) /\ SaveThen(t, "idle")
      /\ UNCHANGED <<up, file, req, tmp, sel, snap, size, detached>>
  BY DEF AddToSub
<1> HIDE DEF c
<1>6. ASSUME NEW u \in Threads \ {t}, Writing(u), Held(t).subs[sel[u]] # NoSub
      PROVE  c.subs[sel[u]] # NoSub
  <2>1. sel[u] \in Subs
    BY <1>6 DEF Writing, Inv, TypeOK
  <2> QED BY <1>3, <1>4, <1>6, <2>1, NumbersAreNotNoSub
<1>7. sel' \in [Threads -> Subs \cup {NoSub}] /\ detached' \subseteq Threads
  BY <1>5 DEF Inv, TypeOK
<1> QED BY <1>1, <1>4, <1>5, <1>6, <1>7, ChangeAndSave

LEMMA AssignToInv ==
    ASSUME Inv, NEW t \in Threads, AssignTo(t)
    PROVE  Inv'
<1>1. pc[t] \in Bodies /\ req[t].n \in Int
  BY DEF AssignTo, Bodies, Inv, TypeOK
<1>2. Held(t) \in Counter
  BY <1>1, HeldType DEF Inv
<1>3. /\ SaveThen(t, "idle") /\ UNCHANGED <<up, file, req, tmp, sel, snap, size, detached>>
      /\ sel' \in [Threads -> Subs \cup {NoSub}] /\ detached' \subseteq Threads
  BY DEF AssignTo, Inv, TypeOK
<1>4. ASSUME sel[t] = NoSub, Change(t, [Held(t) EXCEPT !.value = req[t].n])
      PROVE  Inv'
  <2> DEFINE c == [Held(t) EXCEPT !.value = req[t].n]
  <2>1. c \in Counter /\ c.subs = Held(t).subs
    BY <1>1, <1>2, WithValue
  <2>2. Change(t, c)
    BY <1>4
  <2> HIDE DEF c
  <2> QED BY <1>1, <1>3, <2>1, <2>2, ChangeAndSave
<1>5. ASSUME sel[t] # NoSub, Change(t, [Held(t) EXCEPT !.subs[sel[t]] = req[t].n])
      PROVE  Inv'
  <2> DEFINE c == [Held(t) EXCEPT !.subs[sel[t]] = req[t].n]
  <2>1. sel[t] \in Subs
    BY <1>5 DEF Inv, TypeOK
  <2>2. /\ c \in Counter /\ c.subs[sel[t]] = req[t].n
        /\ \A z \in Subs \ {sel[t]} : c.subs[z] = Held(t).subs[z]
    BY <1>1, <1>2, <2>1, WithSub
  <2>3. Change(t, c)
    BY <1>5
  <2> HIDE DEF c
  <2>4. ASSUME NEW u \in Threads \ {t}, Writing(u), Held(t).subs[sel[u]] # NoSub
        PROVE  c.subs[sel[u]] # NoSub
    <3>1. sel[u] \in Subs
      BY <2>4 DEF Writing, Inv, TypeOK
    <3> QED BY <1>1, <2>2, <2>4, <3>1, NumbersAreNotNoSub
  <2> QED BY <1>1, <1>3, <2>2, <2>3, <2>4, ChangeAndSave
<1> QED BY <1>4, <1>5 DEF AssignTo, AssignNumber

LEMMA AddSubcounterInv ==
    ASSUME Inv, NEW t \in Threads, AddSubcounter(t)
    PROVE  Inv'
<1>1. pc[t] \in Bodies /\ req[t].sub \in Subs
  BY DEF AddSubcounter, Bodies, Inv, TypeOK
<1>2. Held(t) \in Counter
  BY <1>1, HeldType DEF Inv
<1> DEFINE c == [Held(t) EXCEPT !.subs[req[t].sub] = 0]
<1>3. /\ c \in Counter /\ c.subs[req[t].sub] = 0
      /\ \A z \in Subs \ {req[t].sub} : c.subs[z] = Held(t).subs[z]
  BY <1>1, <1>2, WithSub
<1>4. /\ Change(t, c) /\ SaveThen(t, "idle")
      /\ UNCHANGED <<up, file, req, tmp, sel, snap, size>>
  BY DEF AddSubcounter
<1> HIDE DEF c
<1>5. ASSUME NEW u \in Threads \ {t}, Writing(u), Held(t).subs[sel[u]] # NoSub
      PROVE  c.subs[sel[u]] # NoSub
  <2>1. sel[u] \in Subs
    BY <1>5 DEF Writing, Inv, TypeOK
  <2> QED BY <1>3, <1>5, <2>1, NumbersAreNotNoSub
<1>6. detached \subseteq detached' /\ detached' \subseteq Threads
  BY DEF AddSubcounter, SubHolders, Inv, TypeOK
<1>7. sel' \in [Threads -> Subs \cup {NoSub}]
  BY <1>4 DEF Inv, TypeOK
<1> QED BY <1>1, <1>3, <1>4, <1>5, <1>6, <1>7, ChangeAndSave

LEMMA CheckDeletionInv ==
    ASSUME Inv, NEW t \in Threads, CheckDeletion(t)
    PROVE  Inv'
<1>1. /\ pc[t] \in Bodies /\ req[t].sub # NoSub /\ Goto(t, "drop")
      /\ UNCHANGED <<up, counters, file, req, tmp, sel, snap, size, resume, detached>>
  BY DEF CheckDeletion, Bodies, stored, local
<1>2. tmp' \in [Threads -> Int] /\ sel' \in [Threads -> Subs \cup {NoSub}]
  BY <1>1 DEF Inv, TypeOK
<1> QED BY <1>1, <1>2, ReadAndGo DEF Bodies

\* Whoever has fetched the dict of the subcounter that goes is detached.
LEMMA DropSubInv ==
    ASSUME Inv, NEW t \in Threads, DropSub(t)
    PROVE  Inv'
<1>1. pc[t] \in Bodies /\ req[t].sub \in Subs
  BY DEF DropSub, Bodies, Inv, TypeOK, Reliable
<1>2. Held(t) \in Counter
  BY <1>1, HeldType DEF Inv
<1> DEFINE c == [Held(t) EXCEPT !.subs[req[t].sub] = NoSub]
<1>3. c \in Counter /\ \A z \in Subs \ {req[t].sub} : c.subs[z] = Held(t).subs[z]
  BY <1>1, <1>2 DEF Counter
<1>4. /\ Change(t, c) /\ Goto(t, "deselect")
      /\ UNCHANGED <<up, file, req, tmp, sel, snap, size, resume>>
  BY DEF DropSub, local
<1> HIDE DEF c
<1>5. CASE t \in detached
  <2>1. detached' = detached /\ counters' = counters
    BY <1>4, <1>5 DEF DropSub, Change
  <2>2. tmp' \in [Threads -> Int] /\ sel' \in [Threads -> Subs \cup {NoSub}]
    BY <1>4 DEF Inv, TypeOK
  <2> QED BY <1>1, <1>4, <1>5, <2>1, <2>2, ReadAndGo DEF Bodies
<1>6. CASE t \notin detached
  <2>1. detached' = detached \cup SubHolders(t, Key(t), req[t].sub)
    BY <1>6 DEF DropSub
  <2>2. ASSUME NEW u \in Threads \ {t}, Writing(u), u \notin detached',
               req[u].key = req[t].key, Held(t).subs[sel[u]] # NoSub
        PROVE  c.subs[sel[u]] # NoSub
    <3>1. sel[u] \in Subs
      BY <2>2 DEF Writing, Inv, TypeOK
    <3>2. sel[u] # req[t].sub
      BY <2>1, <2>2 DEF SubHolders, Writing, Key
    <3> QED BY <1>3, <2>2, <3>1, <3>2
  <2>3. detached \subseteq detached' /\ detached' \subseteq Threads
    BY <2>1 DEF SubHolders, Inv, TypeOK
  <2>4. sel' \in [Threads -> Subs \cup {NoSub}]
    BY <1>4 DEF Inv, TypeOK
  <2> QED BY <1>1, <1>3, <1>4, <2>2, <2>3, <2>4, ChangeAndGo
<1> QED BY <1>5, <1>6

LEMMA TestSelectionInv ==
    ASSUME Inv, NEW t \in Threads, TestSelection(t)
    PROVE  Inv'
<1>1. /\ pc[t] \in Bodies
      /\ UNCHANGED <<up, counters, file, req, tmp, sel, snap, size, detached>>
      /\ tmp' \in [Threads -> Int] /\ sel' \in [Threads -> Subs \cup {NoSub}]
  BY DEF TestSelection, Bodies, stored, Inv, TypeOK
<1>2. CASE Goto(t, "clear") /\ UNCHANGED resume
  BY <1>1, <1>2, ReadAndGo DEF Bodies
<1>3. CASE SaveThen(t, "idle")
  BY <1>1, <1>3, ReadAndSave
<1> QED BY <1>2, <1>3 DEF TestSelection

LEMMA SelectSubcounterInv ==
    ASSUME Inv, NEW t \in Threads, SelectSubcounter(t)
    PROVE  Inv'
<1>1. pc[t] \in Bodies /\ req[t].sub \in Subs \cup {NoSub}
  BY DEF SelectSubcounter, Bodies, Inv, TypeOK
<1>2. Held(t) \in Counter
  BY <1>1, HeldType DEF Inv
<1> DEFINE c == [Held(t) EXCEPT !.active = req[t].sub]
<1>3. c \in Counter /\ c.subs = Held(t).subs
  BY <1>1, <1>2, WithActive
<1>4. /\ Change(t, c) /\ SaveThen(t, "idle")
      /\ UNCHANGED <<up, file, req, tmp, sel, snap, size, detached>>
  BY DEF SelectSubcounter
<1> HIDE DEF c
<1>5. sel' \in [Threads -> Subs \cup {NoSub}] /\ detached' \subseteq Threads
  BY <1>4 DEF Inv, TypeOK
<1> QED BY <1>1, <1>3, <1>4, <1>5, ChangeAndSave

LEMMA ClearActiveSubcounterInv ==
    ASSUME Inv, NEW t \in Threads, ClearActiveSubcounter(t)
    PROVE  Inv'
<1>1. pc[t] \in Bodies
  BY DEF ClearActiveSubcounter, Clearing, Bodies
<1>2. Held(t) \in Counter
  BY <1>1, HeldType DEF Inv
<1> DEFINE c == [Held(t) EXCEPT !.active = NoSub]
<1>3. c \in Counter /\ c.subs = Held(t).subs
  BY <1>2, WithActive
<1>4. /\ Change(t, c) /\ SaveThen(t, "idle")
      /\ UNCHANGED <<up, file, req, tmp, sel, snap, size, detached>>
  BY DEF ClearActiveSubcounter
<1> HIDE DEF c
<1>5. sel' \in [Threads -> Subs \cup {NoSub}] /\ detached' \subseteq Threads
  BY <1>4 DEF Inv, TypeOK
<1> QED BY <1>1, <1>3, <1>4, <1>5, ChangeAndSave

LEMMA CheckSelectionInv ==
    ASSUME Inv, NEW t \in Threads, CheckSelection(t)
    PROVE  Inv'
<1>1. /\ pc[t] \in Bodies /\ Goto(t, "choose")
      /\ UNCHANGED <<up, counters, file, req, tmp, sel, snap, size, resume, detached>>
  BY DEF CheckSelection, Bodies, stored, local
<1>2. tmp' \in [Threads -> Int] /\ sel' \in [Threads -> Subs \cup {NoSub}]
  BY <1>1 DEF Inv, TypeOK
<1> QED BY <1>1, <1>2, ReadAndGo DEF Bodies

\* A body that returns without a change.
LEMMA NoChangeInv ==
    ASSUME Inv, NEW t \in Threads, NoChange(t) \/ DropKeyError(t)
    PROVE  Inv'
<1>1. pc[t] # "idle" /\ Return(t) /\ UNCHANGED <<up, counters, file>>
  BY DEF NoChange, DropKeyError, stored
<1> QED BY <1>1, ReturnInv DEF Inv, TypeOK

LEMMA MutateInv ==
    ASSUME Inv, NEW t \in Threads, Mutate(t)
    PROVE  Inv'
  BY ReadValueInv, AddToValueInv, ReadSelectionInv, FetchSubInv, UnselectInv, ReadSubInv,
     AddToSubInv, AssignToInv, AddSubcounterInv, CheckDeletionInv, DropSubInv,
     TestSelectionInv, CheckSelectionInv, SelectSubcounterInv, ClearActiveSubcounterInv,
     NoChangeInv DEF Mutate
-----------------------------------------------------------------------------
(* The actions: _save, crashes and restarts.                               *)

LEMMA IterateCountersInv ==
    ASSUME Inv, NEW t \in Threads, IterateCounters(t)
    PROVE  Inv'
<1>1. /\ pc[t] # "idle" /\ "build" \in PCs \cap Saves
      /\ "build" \notin Bodies
  BY DEF IterateCounters, PCs, Saves, Bodies
<1>2. Goto(t, "build") /\ UNCHANGED <<up, counters, file, req, tmp, sel, snap, resume, detached>>
  BY DEF IterateCounters, stored
<1>3. /\ file' \in Image \cup {Missing, Torn}
      /\ snap' \in [Threads -> Image] /\ size' \in [Threads -> Nat]
  BY <1>2, KeysInUseCount DEF IterateCounters, Inv, TypeOK
<1> QED BY <1>1, <1>2, <1>3, StepInv DEF Bodies

LEMMA BuildPayloadInv ==
    ASSUME Inv, NEW t \in Threads, BuildPayload(t)
    PROVE  Inv'
<1>1. /\ pc[t] # "idle" /\ "open" \in PCs \cap Saves
      /\ "open" \notin Bodies
  BY DEF BuildPayload, PCs, Saves, Bodies
<1>2. Goto(t, "open") /\ UNCHANGED <<up, counters, file, req, tmp, sel, resume, detached>>
  BY DEF BuildPayload, stored
<1>3. /\ file' \in Image \cup {Missing, Torn}
      /\ snap' \in [Threads -> Image] /\ size' \in [Threads -> Nat]
  BY <1>2 DEF BuildPayload, Inv, TypeOK
<1> QED BY <1>1, <1>2, <1>3, StepInv DEF Bodies

LEMMA OpenFileInv ==
    ASSUME Inv, NEW t \in Threads, OpenFile(t)
    PROVE  Inv'
<1>1. /\ pc[t] # "idle" /\ "dump" \in PCs \cap Saves
      /\ "dump" \notin Bodies
  BY DEF OpenFile, PCs, Saves, Bodies
<1>2. Goto(t, "dump") /\ UNCHANGED <<up, counters, req, tmp, sel, resume, detached>>
  BY DEF OpenFile, local
<1>3. /\ file' \in Image \cup {Missing, Torn}
      /\ snap' \in [Threads -> Image] /\ size' \in [Threads -> Nat]
  BY DEF OpenFile, local, Inv, TypeOK
<1> QED BY <1>1, <1>2, <1>3, StepInv DEF Bodies

LEMMA DumpInv ==
    ASSUME Inv, NEW t \in Threads, Dump(t)
    PROVE  Inv'
<1>1. pc[t] = "dump" /\ UNCHANGED <<up, counters>> /\ file' \in Image \cup {Missing, Torn}
  BY TextType DEF Dump, Inv, TypeOK
<1>2. CASE Return(t)
  BY <1>1, <1>2, ReturnInv
<1>3. CASE /\ resume[t] = "body"
           /\ Goto(t, "body")
           /\ snap' = [snap EXCEPT ![t] = Empty]
           /\ size' = [size EXCEPT ![t] = 0]
           /\ resume' = [resume EXCEPT ![t] = "idle"]
           /\ UNCHANGED <<req, tmp, sel, detached>>
  <2>1. /\ pc' \in [Threads -> PCs] /\ pc'[t] = "body"
        /\ \A u \in Threads \ {t} : pc'[u] = pc[u]
    BY <1>3, GotoType DEF PCs, Inv
  <2>2. /\ TypeOK' /\ resume'[t] = "idle"
        /\ \A u \in Threads \ {t} : resume'[u] = resume[u]
    BY <1>1, <1>3, <2>1, EmptyIsImage DEF Inv, TypeOK
  <2>3. \A u \in Threads \ {t} : Reliable(u)'
    BY <1>1, <1>3, <2>1, <2>2, QuietStep
  <2>4. /\ <<req[t].op, req[t].key>> \in Uses[t]
        /\ t \notin detached => counters[req[t].key] # NoCounter
    BY <1>1, <1>3 DEF Inv, Reliable, Holding
  <2>5. Reliable(t)'
    BY <1>1, <1>3, <2>1, <2>2, <2>4 DEF Reliable, Holding, Writing
  <2> QED BY <2>2, <2>3, <2>5 DEF Inv
<1> QED BY <1>2, <1>3 DEF Dump, AfterSave

LEMMA SaveInv ==
    ASSUME Inv, NEW t \in Threads, Save(t)
    PROVE  Inv'
<1>1. ASSUME SizeChanged(t) PROVE Inv'
  <2>1. pc[t] # "idle" /\ Return(t) /\ UNCHANGED <<up, counters, file>>
    BY <1>1 DEF SizeChanged, stored
  <2> QED BY <2>1, ReturnInv DEF Inv, TypeOK
<1>2. ASSUME DumpRaises(t) \/ DumpFails(t) PROVE Inv'
  <2>1. pc[t] # "idle" /\ Return(t) /\ UNCHANGED <<up, counters>> /\ file' = Torn
    BY <1>2 DEF DumpRaises, DumpFails
  <2> QED BY <2>1, ReturnInv
<1> QED BY <1>1, <1>2, IterateCountersInv, BuildPayloadInv, OpenFileInv, DumpInv DEF Save

LEMMA CrashInv ==
    ASSUME Inv, Crash
    PROVE  Inv'
<1>1. TypeOK'
  <2>1. file' \in Image \cup {Missing, Torn} /\ counters' \in Image /\ up' \in BOOLEAN
    BY EmptyIsImage DEF Crash, Inv, TypeOK
  <2>2. /\ req' \in [Threads -> [op : Ops, key : Keys, sub : Subs \cup {NoSub}, n : Int]]
        /\ snap' \in [Threads -> Image]
    BY EmptyIsImage, NoReqType DEF Crash
  <2>3. pc' \in [Threads -> PCs] /\ resume' \in [Threads -> {"idle", "body"}]
    BY DEF Crash, PCs
  <2>4. /\ tmp' \in [Threads -> Int] /\ sel' \in [Threads -> Subs \cup {NoSub}]
        /\ size' \in [Threads -> Nat] /\ detached' \subseteq Threads
    BY DEF Crash
  <2> QED BY <2>1, <2>2, <2>3, <2>4 DEF TypeOK
<1>2. ASSUME NEW t \in Threads PROVE Reliable(t)'
  <2>1. pc'[t] = "idle" /\ resume'[t] = "idle"
    BY DEF Crash
  <2> QED BY <2>1 DEF Reliable, Holding, Writing, Bodies
<1> QED BY <1>1, <1>2 DEF Inv

\* While the bot is down no thread is inside handle().
Down == up \/ \A t \in Threads : pc[t] = "idle"

LEMMA ThreadsRunWhileUp ==
    ASSUME NEW t \in Threads, Begin(t) \/ Lookup(t) \/ Mutate(t) \/ Save(t)
    PROVE  up' = up /\ (up \/ pc[t] # "idle")
<1>1. CASE Begin(t)
  BY <1>1 DEF Begin, stored
<1>2. CASE Lookup(t)
  BY <1>2 DEF Lookup, Found, NotFound, Insert, Remove, RemoveKeyError, stored
<1>3. CASE Mutate(t)
  BY <1>3 DEF Mutate, ReadValue, AddToValue, ReadSelection, FetchSub, Unselect, ReadSub,
      AddToSub, AssignTo, AddSubcounter, CheckDeletion, DropSub, DropKeyError, TestSelection,
      CheckSelection, SelectSubcounter, ClearActiveSubcounter, Clearing, NoChange, stored
<1>4. CASE Save(t)
  BY <1>4 DEF Save, IterateCounters, BuildPayload, SizeChanged, OpenFile, Dump, DumpRaises,
      DumpFails, stored
<1> QED BY <1>1, <1>2, <1>3, <1>4

LEMMA DownInv ==
    ASSUME Down, [Next]_vars
    PROVE  Down'
<1>1. ASSUME NEW t \in Threads, Begin(t) \/ Lookup(t) \/ Mutate(t) \/ Save(t) PROVE Down'
  BY <1>1, ThreadsRunWhileUp DEF Down
<1>2. CASE Crash
  BY <1>2 DEF Crash, Down
<1>3. CASE Restart
  BY <1>3 DEF Restart, Down
<1>4. CASE UNCHANGED vars
  BY <1>4 DEF vars, Down
<1> QED BY <1>1, <1>2, <1>3, <1>4 DEF Next

LEMMA RestartInv ==
    ASSUME Inv, Down, Restart
    PROVE  Inv'
<1>1. counters' \in Image
  BY EmptyIsImage DEF Restart, Load, Inv, TypeOK
<1>2. TypeOK'
  BY <1>1 DEF Restart, local, Inv, TypeOK
<1>3. ASSUME NEW t \in Threads PROVE Reliable(t)'
  <2>1. pc[t] = "idle" /\ resume[t] # "body"
    BY NotResuming DEF Restart, Down, Saves
  <2>2. pc'[t] = "idle" /\ resume'[t] # "body"
    BY <2>1 DEF Restart, local
  <2> QED BY <2>2 DEF Reliable, Holding, Writing, Bodies
<1> QED BY <1>2, <1>3 DEF Inv
-----------------------------------------------------------------------------
(* The theorems.                                                           *)

LEMMA InitInv == Init => Inv /\ Down
<1> SUFFICES ASSUME Init PROVE Inv /\ Down
  OBVIOUS
<1>1. TypeOK
  BY EmptyIsImage, NoReqType DEF Init, TypeOK, PCs
<1>2. ASSUME NEW t \in Threads PROVE Reliable(t)
  BY DEF Init, Reliable, Holding, Writing, Bodies
<1> QED BY <1>1, <1>2 DEF Init, Inv, Down

\* Every step keeps the invariant.
LEMMA NextInv ==
    ASSUME Inv, Down, [Next]_vars
    PROVE  Inv'
<1>1. CASE UNCHANGED vars
  BY <1>1 DEF vars, Inv, TypeOK, Reliable, Holding, Writing, Own
<1> QED BY <1>1, BeginInv, LookupInv, MutateInv, SaveInv, CrashInv, RestartInv DEF Next

LEMMA Invariance ==
    Spec => []Inv
<1>1. Inv /\ Down /\ [Next]_vars => Inv' /\ Down'
  BY NextInv, DownInv
<1> QED BY InitInv, <1>1, PTL DEF Spec

\* Every variable keeps its shape.
THEOREM TypeCorrect ==
    Spec => []TypeOK
<1>1. Inv => TypeOK
  BY DEF Inv
<1>2. Spec => []Inv
  BY Invariance
<1> QED BY <1>1, <1>2, PTL

\* Between the read and the write of counter.value += amount
\* (counter_handler.py:101 and 122), nobody changes a counter that no other
\* thread's reactions name, whatever the others do to theirs.
THEOREM OwnReadIsCurrentHolds ==
    Spec => []OwnReadIsCurrent
<1>1. Inv => OwnReadIsCurrent
  BY DEF Inv, Reliable, Own, OwnReadIsCurrent, Key
<1>2. Spec => []Inv
  BY Invariance
<1> QED BY <1>1, <1>2, PTL

\* No handler takes in hand a subcounter that is not in its counter
\* (counter_handler.py:82-94), although the selection may dangle.
THEOREM WritesExistingSubHolds ==
    Spec => []WritesExistingSub
<1>1. ASSUME Inv, NEW t \in Threads, pc[t] \in {"read_sub", "add_sub", "assign"},
             sel[t] # NoSub, t \notin detached
      PROVE  Present(Key(t)) /\ counters[Key(t)].subs[sel[t]] # NoSub
  BY <1>1 DEF Inv, Reliable, Holding, Writing, Bodies, Present, Key
<1>2. Inv => WritesExistingSub
  BY <1>1 DEF WritesExistingSub
<1>3. Spec => []Inv
  BY Invariance
<1> QED BY <1>2, <1>3, PTL
-----------------------------------------------------------------------------
(* One thread: no counter's selection dangles.                             *)

OneThread == \E t : Threads = {t}

\* The selected subcounter of c exists.
Sound(c) == c.active = Selected(c)

\* The same for every counter of an image.
Consistent(m) == \A k \in Keys : m[k] # NoCounter => Sound(m[k])

\* A name that select_subcounter has tested is still there when it is selected.
StillChosen(t) ==
    pc[t] = "choose" /\ req[t].sub # NoSub => Held(t).subs[req[t].sub] # NoSub

\* t has dropped the selected subcounter and not yet the selection.
Dropping(t) == pc[t] = "clear" \/ (pc[t] = "deselect" /\ Held(t).active = req[t].sub)

\* The selections of the counters other than t's exist.
OthersSound(t) == \A k \in Keys \ {Key(t)} : counters[k] # NoCounter => Sound(counters[k])

Selections ==
    /\ detached = {}
    /\ Consistent(Load(file))
    /\ \A t \in Threads :
           /\ OthersSound(t)
           /\ Consistent(counters) \/ Dropping(t)
           /\ Consistent(snap[t])
           /\ StillChosen(t)
           /\ pc[t] \in {"open", "dump"} => snap[t] = counters

\* A counter of the image replaced by one whose selection exists.
LEMMA ConsistentChange ==
    ASSUME TypeOK, detached = {}, NEW t \in Threads, OthersSound(t),
           NEW c \in Counter, Change(t, c), Sound(c)
    PROVE  Consistent(counters')
<1>1. counters \in Image /\ Key(t) \in Keys
  BY DEF TypeOK, Key
<1>2. counters' = [counters EXCEPT ![Key(t)] = c]
  BY DEF Change
<1> QED BY <1>1, <1>2 DEF Consistent, OthersSound, Image

\* Nobody else holds anything.
LEMMA Alone ==
    ASSUME OneThread, NEW t \in Threads
    PROVE  Threads = {t} /\ \A k, s : Holders(t, k) = {} /\ SubHolders(t, k, s) = {}
  BY DEF OneThread, Holders, SubHolders

LEMMA ConsistentEmpty == Consistent(Empty)
  BY DEF Consistent, Empty

LEMMA HeldSelection ==
    ASSUME TypeOK, Consistent(counters), NEW t \in Threads, Held(t) \in Counter
    PROVE  Sound(Held(t))
<1>1. CASE t \in detached
  BY <1>1 DEF Held, Fresh, Sound, Selected
<1>2. CASE t \notin detached
  <2>1. Held(t) = counters[Key(t)] /\ Key(t) \in Keys
    BY <1>2 DEF Held, TypeOK, Key
  <2> QED BY <2>1, CountersAreNotNoCounter DEF Consistent
<1> QED BY <1>1, <1>2

\* What handlers do to a counter keeps its selection one that exists.
LEMMA SoundValue ==
    ASSUME NEW c \in Counter, Sound(c), NEW v \in Int
    PROVE  Sound([c EXCEPT !.value = v])
  BY DEF Counter, Sound, Selected

LEMMA SoundSub ==
    ASSUME NEW c \in Counter, Sound(c), NEW s \in Subs, NEW v \in Int
    PROVE  Sound([c EXCEPT !.subs[s] = v])
  BY NumbersAreNotNoSub DEF Counter, Sound, Selected

LEMMA SoundWithoutOther ==
    ASSUME NEW c \in Counter, Sound(c), NEW s \in Subs, c.active # s
    PROVE  Sound([c EXCEPT !.subs[s] = NoSub])
  BY DEF Counter, Sound, Selected

LEMMA SoundActive ==
    ASSUME NEW c \in Counter, NEW s \in Subs \cup {NoSub}, s # NoSub => c.subs[s] # NoSub
    PROVE  Sound([c EXCEPT !.active = s])
  BY DEF Counter, Sound, Selected

\* A step of the one thread that leaves the counters alone.
LEMMA QuietSelections ==
    ASSUME OneThread, TypeOK, Selections, NEW t \in Threads, UNCHANGED counters,
           detached' = {}, Consistent(counters),
           file' \in {file, Torn, snap[t]},
           snap'[t] \in {snap[t], Empty, counters},
           pc'[t] = "choose" => StillChosen(t)',
           pc'[t] \in {"open", "dump"} => snap'[t] = counters
    PROVE  Selections'
<1>1. Threads = {t}
  BY DEF OneThread
<1>2. Consistent(Load(file'))
  <2>1. Consistent(Load(Torn)) /\ Consistent(snap[t]) /\ Consistent(Load(file))
    BY ConsistentEmpty DEF Load, Selections
  <2>2. Load(snap[t]) = snap[t]
    BY ThreadsAssumption DEF Load, TypeOK
  <2> QED BY <2>1, <2>2
<1>3. Consistent(snap'[t]) /\ Consistent(counters')
  BY ConsistentEmpty DEF Selections
<1>4. StillChosen(t)'
  BY DEF StillChosen
<1>5. OthersSound(t)'
  BY <1>3 DEF OthersSound, Consistent
<1> QED BY <1>1, <1>2, <1>3, <1>4, <1>5 DEF Selections

\* A step of the one thread that changes the counter it holds.
LEMMA ChangeSelections ==
    ASSUME OneThread, TypeOK, Selections, NEW t \in Threads, UNCHANGED <<file, snap>>,
           detached' = {}, pc'[t] \notin {"choose", "open", "dump"}, Consistent(counters')
    PROVE  Selections'
<1>1. Threads = {t}
  BY DEF OneThread
<1>2. OthersSound(t)'
  BY DEF OthersSound, Consistent
<1> QED BY <1>1, <1>2 DEF Selections, StillChosen

\* Outside the end of delete_subcounter every selection exists.
LEMMA NotDropping ==
    ASSUME Selections, NEW t \in Threads, ~Dropping(t)
    PROVE  Consistent(counters) /\ detached = {}
  BY DEF Selections

LEMMA LookupSelections ==
    ASSUME OneThread, Inv, Selections, NEW t \in Threads, Begin(t) \/ Lookup(t)
    PROVE  Selections'
<1> USE DEF Inv
<1> DEFINE Elsewhere == pc'[t] \notin {"choose", "open", "dump"}
<1>0. /\ Consistent(counters) /\ detached = {} /\ \A k : Holders(t, k) = {}
  <2>1. ~Dropping(t)
    BY DEF Begin, Lookup, Found, NotFound, Insert, Remove, RemoveKeyError, Dropping
  <2> QED BY <2>1, NotDropping, Alone
<1>1. CASE Begin(t)
  <2>1. Elsewhere
    BY <1>1, GotoType DEF Begin, PCs
  <2> QED BY <1>0, <1>1, <2>1, QuietSelections DEF Begin, stored, local
<1>2. CASE Found(t)
  <2>1. Elsewhere /\ snap'[t] \in {snap[t], Empty} /\ detached' = {}
    BY <1>0, <1>2 DEF Found, Return, Goto, TypeOK, local
  <2> QED BY <1>0, <1>2, <2>1, QuietSelections DEF Found, stored
<1>3. CASE NotFound(t)
  <2>1. Elsewhere /\ snap'[t] \in {snap[t], Empty} /\ detached' = {}
    BY <1>0, <1>3 DEF NotFound, Return, Goto, TypeOK, local
  <2> QED BY <1>0, <1>3, <2>1, QuietSelections DEF NotFound, stored
<1>4. CASE Insert(t)
  <2>1. Elsewhere /\ detached' = {}
    BY <1>0, <1>4 DEF Insert, SaveThen, Goto, TypeOK
  <2>2. Consistent(counters')
    BY <1>0, <1>4 DEF Insert, Consistent, TypeOK, Image, Fresh, Sound, Selected
  <2> QED BY <1>4, <2>1, <2>2, ChangeSelections DEF Insert
<1>5. CASE Remove(t)
  <2>1. Elsewhere /\ detached' = {}
    BY <1>0, <1>5 DEF Remove, SaveThen, Goto, TypeOK
  <2>2. Consistent(counters')
    BY <1>0, <1>5 DEF Remove, Consistent, TypeOK, Image
  <2> QED BY <1>5, <2>1, <2>2, ChangeSelections DEF Remove
<1>6. CASE RemoveKeyError(t)
  <2>1. Elsewhere /\ snap'[t] \in {snap[t], Empty} /\ detached' = {}
    BY <1>0, <1>6 DEF RemoveKeyError, Return, Goto, TypeOK
  <2> QED BY <1>0, <1>6, <2>1, QuietSelections DEF RemoveKeyError, stored
<1> QED BY <1>1, <1>2, <1>3, <1>4, <1>5, <1>6 DEF Lookup

\* The end of delete_subcounter: the del, the test, and the assignment.
LEMMA DropSelections ==
    ASSUME OneThread, Inv, Selections, NEW t \in Threads,
           \/ DropSub(t)
           \/ TestSelection(t)
           \/ pc[t] = "clear" /\ ClearActiveSubcounter(t)
    PROVE  Selections'
<1> USE DEF Inv
<1>1. /\ TypeOK /\ Reliable(t) /\ detached = {} /\ OthersSound(t)
      /\ Threads = {t} /\ \A k, s : SubHolders(t, k, s) = {}
      /\ counters \in Image /\ Key(t) \in Keys
  BY Alone DEF Selections, TypeOK, Key
<1>2. pc[t] \in Bodies
  BY DEF DropSub, TestSelection, Bodies
<1>3. Held(t) \in Counter /\ Held(t) = counters[Key(t)]
  BY <1>1, <1>2, HeldType DEF Held
<1>4. CASE DropSub(t)
  <2> DEFINE c == [Held(t) EXCEPT !.subs[req[t].sub] = NoSub]
  <2>1. /\ pc[t] = "drop" /\ req[t].sub \in Subs /\ Sound(Held(t))
    <3>1. pc[t] = "drop" /\ req[t].sub \in Subs /\ ~Dropping(t)
      BY <1>1, <1>4 DEF DropSub, Reliable, Dropping, TypeOK
    <3> QED BY <1>3, <3>1, NotDropping, HeldSelection
  <2>2. counters' = [counters EXCEPT ![Key(t)] = c] /\ detached' = {}
    BY <1>1, <1>4 DEF DropSub, Change
  <2>3. pc'[t] = "deselect" /\ UNCHANGED <<file, snap, req>>
    BY <1>4 DEF DropSub, Goto, TypeOK, local
  <2>4. Held(t)' = c /\ Key(t)' = Key(t)
    BY <1>1, <2>2, <2>3 DEF Held, Key, Image
  <2>5. c.active = Held(t).active
    BY <1>3 DEF Counter
  <2>6. OthersSound(t)'
    BY <1>1, <2>2, <2>4 DEF OthersSound, Image
  <2>7. Consistent(counters') \/ Dropping(t)'
    <3>1. CASE Held(t).active = req[t].sub
      BY <2>3, <2>4, <2>5, <3>1 DEF Dropping
    <3>2. CASE Held(t).active # req[t].sub
      <4>1. Sound(c)
        BY <1>3, <2>1, <3>2, SoundWithoutOther
      <4> HIDE DEF c
      <4> QED BY <1>1, <2>2, <4>1 DEF Consistent, OthersSound, Image
    <3> QED BY <3>1, <3>2
  <2> HIDE DEF c
  <2> QED BY <1>1, <2>2, <2>3, <2>6, <2>7 DEF Selections, StillChosen
<1>5. CASE TestSelection(t)
  <2>1. UNCHANGED <<counters, file, snap, detached>>
    BY <1>5 DEF TestSelection, stored
  <2>2. pc[t] = "deselect"
    BY <1>5 DEF TestSelection
  <2>3. CASE Held(t).active = req[t].sub /\ Goto(t, "clear")
    <3>1. pc'[t] = "clear" /\ OthersSound(t)'
      BY <1>1, <1>5, <2>1, <2>3 DEF Goto, OthersSound, TestSelection, Key, TypeOK
    <3> QED BY <1>1, <2>1, <3>1 DEF Selections, StillChosen, Dropping
  <2>4. CASE Held(t).active # req[t].sub /\ SaveThen(t, "idle")
    <3>1. Consistent(counters)
      BY <2>2, <2>4, NotDropping DEF Dropping
    <3>2. pc'[t] = "save"
      BY <1>1, <2>4 DEF SaveThen, Goto, TypeOK
    <3> QED BY <1>1, <2>1, <3>1, <3>2, ChangeSelections
  <2> QED BY <1>5, <2>3, <2>4 DEF TestSelection
<1>6. CASE pc[t] = "clear" /\ ClearActiveSubcounter(t)
  <2> DEFINE c == [Held(t) EXCEPT !.active = NoSub]
  <2>1. c \in Counter /\ Sound(c)
    BY <1>3, WithActive, SoundActive
  <2>2. /\ Change(t, c) /\ UNCHANGED <<file, snap, detached>>
        /\ pc'[t] = "save"
    BY <1>1, <1>6 DEF ClearActiveSubcounter, SaveThen, Goto, TypeOK
  <2> HIDE DEF c
  <2>3. Consistent(counters')
    BY <1>1, <2>1, <2>2, ConsistentChange
  <2> QED BY <1>1, <2>2, <2>3, ChangeSelections
<1> QED BY <1>4, <1>5, <1>6

LEMMA MutateSelections ==
    ASSUME OneThread, Inv, Selections, NEW t \in Threads, Mutate(t)
    PROVE  Selections'
<1>1. CASE DropSub(t) \/ TestSelection(t) \/ (pc[t] = "clear" /\ ClearActiveSubcounter(t))
  BY <1>1, DropSelections
<1>2. CASE \/ ReadValue(t) \/ FetchSub(t) \/ ReadSub(t) \/ CheckDeletion(t)
           \/ ReadSelection(t) \/ NoChange(t) \/ DropKeyError(t)
           \/ AddToValue(t) \/ Unselect(t) \/ (pc[t] # "clear" /\ ClearActiveSubcounter(t))
           \/ AddToSub(t) \/ AssignTo(t) \/ AddSubcounter(t)
           \/ CheckSelection(t) \/ SelectSubcounter(t)
  <2> DEFINE Elsewhere == pc'[t] \notin {"choose", "open", "dump"}
  <2>1. pc[t] \in Bodies /\ ~Dropping(t)
    BY <1>2 DEF ReadValue, AddToValue, ReadSelection, FetchSub, Unselect, ReadSub,
           AddToSub, AssignTo, AddSubcounter, CheckDeletion, DropKeyError,
           CheckSelection, SelectSubcounter, ClearActiveSubcounter, Clearing,
           NoChange, Bodies, Dropping
  <2>2. /\ TypeOK /\ Reliable(t) /\ Consistent(counters) /\ OthersSound(t)
        /\ detached = {} /\ \A k, s : SubHolders(t, k, s) = {}
    BY <2>1, NotDropping, Alone DEF Inv, Selections
  <2>3. Held(t) \in Counter /\ Sound(Held(t))
    BY <2>1, <2>2, HeldType, HeldSelection
  <2>4. /\ req[t] \in [op : Ops, key : Keys, sub : Subs \cup {NoSub}, n : Int]
        /\ tmp[t] \in Int /\ sel[t] \in Subs \cup {NoSub}
        /\ Delta(t) \in Int
    BY <2>2 DEF TypeOK, Delta
  <2>5. ASSUME NEW c \in Counter, Change(t, c), Sound(c),
               UNCHANGED <<file, snap>>, detached' = {}, Elsewhere
        PROVE  Selections'
    BY <2>2, <2>5, ConsistentChange, ChangeSelections
  <2>6. ASSUME UNCHANGED <<counters, file>>, snap'[t] \in {snap[t], Empty},
               detached' = {}, Elsewhere
        PROVE  Selections'
    BY <2>2, <2>6, QuietSelections
  <2>7. CASE ReadValue(t) \/ FetchSub(t) \/ ReadSub(t) \/ CheckDeletion(t)
    <3>1. Elsewhere /\ UNCHANGED <<counters, file, snap, detached>>
      BY <2>2, <2>7 DEF ReadValue, FetchSub, ReadSub, CheckDeletion, Goto, TypeOK,
             stored, local
    <3> QED BY <2>2, <2>6, <3>1
  <2>8. CASE ReadSelection(t)
    <3>1. UNCHANGED <<counters, file, snap, detached>>
      BY <2>8 DEF ReadSelection, stored
    <3>2. Elsewhere
      BY <2>2, <2>8 DEF ReadSelection, NoneSelected, SaveThen, Goto, TypeOK
    <3> QED BY <2>2, <2>6, <3>1, <3>2
  <2>9. CASE NoChange(t) \/ DropKeyError(t)
    <3>1. Elsewhere /\ snap'[t] \in {snap[t], Empty} /\ detached' = {}
      BY <2>2, <2>9 DEF NoChange, DropKeyError, Return, Goto, TypeOK
    <3>2. UNCHANGED <<counters, file>>
      BY <2>9 DEF NoChange, DropKeyError, stored
    <3> QED BY <2>6, <3>1, <3>2
  <2>10. CASE AddToValue(t)
    <3> DEFINE c == [Held(t) EXCEPT !.value = tmp[t] + Delta(t)]
    <3>0. tmp[t] + Delta(t) \in Int
      BY <2>4
    <3>1. c \in Counter /\ Sound(c)
      BY <2>3, <3>0, WithValue, SoundValue
    <3>2. Change(t, c) /\ UNCHANGED <<file, snap>> /\ detached' = {} /\ Elsewhere
      BY <2>2, <2>10 DEF AddToValue, Goto, TypeOK, local
    <3> HIDE DEF c
    <3> QED BY <2>5, <3>1, <3>2
  <2>11. CASE Unselect(t) \/ ClearActiveSubcounter(t)
    <3> DEFINE c == [Held(t) EXCEPT !.active = NoSub]
    <3>1. c \in Counter /\ Sound(c)
      BY <2>3, WithActive, SoundActive
    <3>2. Change(t, c) /\ UNCHANGED <<file, snap>> /\ detached' = {}
      BY <2>2, <2>11 DEF Unselect, ClearActiveSubcounter
    <3>3. Elsewhere
      BY <2>2, <2>11 DEF Unselect, NoneSelected, ClearActiveSubcounter, SaveThen, Goto, TypeOK
    <3> HIDE DEF c
    <3> QED BY <2>5, <3>1, <3>2, <3>3
  <2>12. CASE AddToSub(t)
    <3> DEFINE c == [Held(t) EXCEPT !.subs[sel[t]] = tmp[t] + Delta(t)]
    <3>1. sel[t] \in Subs
      BY <2>2, <2>4, <2>12 DEF AddToSub, Reliable
    <3>0. tmp[t] + Delta(t) \in Int
      BY <2>4
    <3>2. c \in Counter /\ Sound(c)
      BY <2>3, <3>0, <3>1, WithSub, SoundSub
    <3>3. Change(t, c) /\ UNCHANGED <<file, snap>> /\ detached' = {} /\ Elsewhere
      BY <2>2, <2>12 DEF AddToSub, SaveThen, Goto, TypeOK
    <3> HIDE DEF c
    <3> QED BY <2>5, <3>2, <3>3
  <2>13. CASE AssignTo(t)
    <3>1. UNCHANGED <<file, snap>> /\ detached' = {} /\ Elsewhere
      BY <2>2, <2>13 DEF AssignTo, SaveThen, Goto, TypeOK
    <3>2. ASSUME sel[t] = NoSub, Change(t, [Held(t) EXCEPT !.value = req[t].n])
          PROVE  Selections'
      <4> DEFINE c == [Held(t) EXCEPT !.value = req[t].n]
      <4>1. c \in Counter /\ Sound(c)
        BY <2>3, <2>4, WithValue, SoundValue
      <4>2. Change(t, c)
        BY <3>2
      <4> HIDE DEF c
      <4> QED BY <2>5, <3>1, <4>1, <4>2
    <3>3. ASSUME sel[t] # NoSub, Change(t, [Held(t) EXCEPT !.subs[sel[t]] = req[t].n])
          PROVE  Selections'
      <4> DEFINE c == [Held(t) EXCEPT !.subs[sel[t]] = req[t].n]
      <4>0. sel[t] \in Subs /\ req[t].n \in Int
        BY <2>4, <3>3
      <4>1. c \in Counter /\ Sound(c)
        BY <2>3, <4>0, WithSub, SoundSub
      <4>2. Change(t, c)
        BY <3>3
      <4> HIDE DEF c
      <4> QED BY <2>5, <3>1, <4>1, <4>2
    <3> QED BY <2>13, <3>2, <3>3 DEF AssignTo, AssignNumber
  <2>14. CASE AddSubcounter(t)
    <3> DEFINE c == [Held(t) EXCEPT !.subs[req[t].sub] = 0]
    <3>0. req[t].sub \in Subs /\ 0 \in Int
      BY <2>4, <2>14 DEF AddSubcounter
    <3>1. c \in Counter /\ Sound(c)
      BY <2>3, <3>0, WithSub, SoundSub
    <3>2. Change(t, c) /\ UNCHANGED <<file, snap>> /\ detached' = {} /\ Elsewhere
      BY <2>2, <2>14 DEF AddSubcounter, SaveThen, Goto, TypeOK
    <3> HIDE DEF c
    <3> QED BY <2>5, <3>1, <3>2
  <2>15. CASE CheckSelection(t)
    <3>1. UNCHANGED <<counters, file, req, snap, detached>> /\ pc'[t] = "choose"
      BY <2>2, <2>15 DEF CheckSelection, stored, local, Goto, TypeOK
    <3>2. StillChosen(t)'
      BY <2>2, <2>15, <3>1 DEF CheckSelection, StillChosen, Held, Has, Key
    <3> QED BY <2>2, <3>1, <3>2, QuietSelections
  <2>16. CASE SelectSubcounter(t)
    <3> DEFINE c == [Held(t) EXCEPT !.active = req[t].sub]
    <3>1. req[t].sub # NoSub => Held(t).subs[req[t].sub] # NoSub
      BY <2>16 DEF SelectSubcounter, Selections, StillChosen
    <3>2. c \in Counter /\ Sound(c)
      BY <2>3, <2>4, <3>1, WithActive, SoundActive
    <3>3. Change(t, c) /\ UNCHANGED <<file, snap>> /\ detached' = {} /\ Elsewhere
      BY <2>2, <2>16 DEF SelectSubcounter, SaveThen, Goto, TypeOK
    <3> HIDE DEF c
    <3> QED BY <2>5, <3>2, <3>3
  <2> QED BY <1>2, <2>7, <2>8, <2>9, <2>10, <2>11, <2>12, <2>13, <2>14, <2>15, <2>16
<1> QED BY <1>1, <1>2 DEF Mutate

LEMMA SaveSelections ==
    ASSUME OneThread, Inv, Selections, NEW t \in Threads, Save(t)
    PROVE  Selections'
<1> USE DEF Inv
<1>0. Consistent(counters) /\ detached = {} /\ counters \in Image
  <2>1. ~Dropping(t)
    BY DEF Save, IterateCounters, BuildPayload, SizeChanged, OpenFile, Dump, DumpRaises,
           DumpFails, Dropping
  <2> QED BY <2>1, NotDropping DEF TypeOK
<1>1. ASSUME IterateCounters(t) \/ BuildPayload(t) \/ SizeChanged(t)
      PROVE  /\ pc'[t] \notin {"choose", "dump"} /\ UNCHANGED <<counters, file>>
             /\ snap'[t] \in {snap[t], Empty, counters} /\ detached' = {}
             /\ pc'[t] = "open" => snap'[t] = counters
  BY <1>0, <1>1 DEF IterateCounters, BuildPayload, SizeChanged, Return, Goto, TypeOK, stored
<1>2. ASSUME OpenFile(t)
      PROVE  /\ pc'[t] # "choose" /\ UNCHANGED counters /\ file' = Torn
             /\ snap' = snap /\ snap[t] = counters /\ detached' = {}
  BY <1>0, <1>2 DEF OpenFile, Goto, TypeOK, local, Selections
<1>3. ASSUME Dump(t)
      PROVE  /\ pc'[t] \notin {"choose", "open", "dump"} /\ counters' = counters
             /\ file' \in {snap[t], Torn} /\ snap'[t] \in {snap[t], Empty} /\ detached' = {}
  <2>1. pc[t] = "dump" /\ snap[t] = counters
    BY <1>3 DEF Dump, Selections
  <2>2. file' \in {snap[t], Torn}
    BY <1>0, <1>3, <2>1, TextOfMemory DEF Dump
  <2> QED BY <1>0, <1>3, <2>2 DEF Dump, AfterSave, Return, Goto, TypeOK
<1>4. ASSUME DumpRaises(t) \/ DumpFails(t)
      PROVE  /\ pc'[t] \notin {"choose", "open", "dump"} /\ counters' = counters
             /\ file' = Torn /\ snap'[t] = Empty /\ detached' = {}
  BY <1>0, <1>4 DEF DumpRaises, DumpFails, Return, Goto, TypeOK
<1> QED BY <1>0, <1>1, <1>2, <1>3, <1>4, QuietSelections DEF Save

LEMMA NextSelections ==
    ASSUME OneThread, Inv, Down, Selections, [Next]_vars
    PROVE  Selections'
<1>1. CASE Crash
  BY <1>1, ConsistentEmpty DEF Crash, Selections, StillChosen, OthersSound, Consistent, Empty
<1>2. CASE Restart
  <2>1. counters' = Load(file) /\ file' = file /\ snap' = snap /\ detached' = detached
    BY <1>2 DEF Restart, local
  <2>2. \A t \in Threads : pc'[t] = "idle"
    BY <1>2 DEF Restart, Down
  <2> QED BY <2>1, <2>2 DEF Selections, StillChosen, OthersSound, Consistent
<1>3. CASE UNCHANGED vars
  BY <1>3 DEF vars, Selections, StillChosen, OthersSound, Dropping, Held, Key
<1> QED BY <1>1, <1>2, <1>3, LookupSelections, MutateSelections, SaveSelections DEF Next
-----------------------------------------------------------------------------
(* One thread, writes that do not fail: what memory holds and the file does *)
(* not is one operation.                                                   *)

Saved == Load(file)

\* A subcounter taken away, and the selection with it.
WithoutSub(c, s) ==
    [c EXCEPT !.subs[s] = NoSub, !.active = IF @ = s THEN NoSub ELSE @]

\* What one operation may make of a counter c.
Added(c, n) ==
    IF c.active = NoSub THEN [c EXCEPT !.value = @ + n]
    ELSE [c EXCEPT !.value = @ + n, !.subs[c.active] = @ + n]

Assigned(c, n) ==
    IF c.active = NoSub THEN [c EXCEPT !.value = n]
    ELSE [c EXCEPT !.subs[c.active] = n]

OneChange(c, d) ==
    \/ \E n \in Ints : d = Added(c, n) \/ d = Added(c, -n) \/ d = Assigned(c, n)
    \/ d = Assigned(c, 0)
    \/ \E s \in Subs : d = [c EXCEPT !.subs[s] = 0]
    \/ \E s \in Subs : c.subs[s] # NoSub /\ d = WithoutSub(c, s)
    \/ \E s \in Subs \cup {NoSub} :
           (s # NoSub => c.subs[s] # NoSub) /\ d = [c EXCEPT !.active = s]

OneOperation(a, b) ==
    \E k \in Keys :
        \/ a[k] = NoCounter /\ b = [a EXCEPT ![k] = Fresh]
        \/ a[k] # NoCounter /\ b = [a EXCEPT ![k] = NoCounter]
        \/ a[k] # NoCounter /\ OneChange(a[k], b[k]) /\ b = [a EXCEPT ![k] = b[k]]

\* The value is added, the selected subcounter not yet.
HalfAdded(t) ==
    LET c == Saved[Key(t)]
    IN  /\ c # NoCounter
        /\ counters = [Saved EXCEPT ![Key(t)] = [c EXCEPT !.value = @ + Delta(t)]]

\* The subcounter is dropped, its selection not yet.
HalfDropped(t) ==
    LET c == Saved[Key(t)]
    IN  /\ c # NoCounter
        /\ req[t].sub \in Subs
        /\ c.subs[req[t].sub] # NoSub
        /\ counters = [Saved EXCEPT ![Key(t)] = [c EXCEPT !.subs[req[t].sub] = NoSub]]

\* Where t is in its operation, and what it has in its hands there.
Serial(t) ==
    /\ pc[t] # "idle" => req[t] \in Requests
    /\ pc[t] \in {"idle", "ensure", "insert", "remove", "body", "add", "assign", "choose",
                  "drop"} =>
           counters = Saved
    /\ pc[t] = "insert" => counters[Key(t)] = NoCounter
    /\ pc[t] \in {"add", "select", "read_sub", "add_sub"} => req[t].op \in Shifts
    /\ pc[t] = "fetch" =>
           \/ req[t].op \in Shifts /\ HalfAdded(t)
           \/ req[t].op \in Assigns /\ counters = Saved
    /\ pc[t] \in {"select", "read_sub", "add_sub"} => HalfAdded(t)
    /\ pc[t] \in {"fetch", "read_sub", "add_sub", "assign"} =>
           sel[t] = counters[Key(t)].active
    /\ pc[t] # "unselect"
    /\ pc[t] = "add_sub" => tmp[t] = counters[Key(t)].subs[sel[t]]
    /\ pc[t] = "assign" => req[t].op \in Assigns
    /\ pc[t] = "drop" => counters[Key(t)].subs[req[t].sub] # NoSub
    /\ pc[t] \in {"deselect", "clear"} => HalfDropped(t)
    /\ pc[t] = "clear" => counters[Key(t)].active = req[t].sub
    /\ pc[t] \in {"save", "build", "open"} => OneOperation(Saved, counters) \/ counters = Saved
    /\ pc[t] = "build" => size[t] = Cardinality(KeysInUse)
    /\ pc[t] \in {"open", "dump"} => snap[t] = counters
    /\ pc[t] = "dump" => file = Torn

InStep ==
    /\ detached = {}
    /\ up => \A t \in Threads : Serial(t)

LEMMA ImageLoads ==
    ASSUME NEW m \in Image
    PROVE  Load(m) = m
  BY ThreadsAssumption DEF Load

\* A step of the one thread into a place where memory and file agree.
LEMMA SavedStep ==
    ASSUME OneThread, InStep, NEW t \in Threads, detached' = {}, up' = TRUE,
           counters' = Saved',
           pc'[t] \in {"idle", "ensure", "body", "remove"},
           pc'[t] # "idle" => req'[t] \in Requests
    PROVE  InStep'
<1>1. Threads = {t}
  BY Alone
<1>2. Serial(t)'
  BY DEF Serial
<1> QED BY <1>1, <1>2 DEF InStep

\* A step of the one thread that ends the operation and goes on to _save.
LEMMA DoneStep ==
    ASSUME OneThread, InStep, NEW t \in Threads, detached' = {},
           UNCHANGED file, pc'[t] = "save", req'[t] \in Requests,
           OneOperation(Saved, counters') \/ counters' = Saved
    PROVE  InStep'
<1>1. Threads = {t} /\ Saved' = Saved
  BY Alone DEF Saved
<1>2. Serial(t)'
  BY <1>1 DEF Serial
<1> QED BY <1>1, <1>2 DEF InStep

LEMMA LookupInStep ==
    ASSUME OneThread, Inv, InStep, up, NEW t \in Threads, Begin(t) \/ Lookup(t)
    PROVE  InStep'
<1> USE DEF Inv
<1>1. /\ Threads = {t} /\ \A k : Holders(t, k) = {}
      /\ Serial(t) /\ detached = {} /\ counters \in Image /\ Key(t) \in Keys
  BY Alone DEF InStep, TypeOK, Key
<1>2. CASE Begin(t)
  <2>1. pc'[t] = "ensure" /\ req'[t] \in Requests
    BY <1>2 DEF Begin, Goto, TypeOK
  <2> QED BY <1>1, <1>2, <2>1, SavedStep DEF Begin, stored, Serial, Saved
<1>3. CASE Found(t)
  <2>1. pc[t] = "ensure" /\ UNCHANGED <<up, counters, file>>
    BY <1>3 DEF Found, stored
  <2>2. /\ pc'[t] \in {"idle", "remove", "body"} /\ detached' = {}
        /\ pc'[t] # "idle" => req' = req
    BY <1>1, <1>3 DEF Found, Return, Goto, TypeOK
  <2> QED BY <1>1, <2>1, <2>2, SavedStep DEF Serial, Saved
<1>4. CASE NotFound(t)
  <2>1. pc[t] = "ensure" /\ ~Present(Key(t)) /\ UNCHANGED <<up, counters, file>>
    BY <1>4 DEF NotFound, stored
  <2>2. CASE Return(t)
    <3>1. pc'[t] = "idle" /\ detached' = {}
      BY <1>1, <2>2 DEF Return, Goto, TypeOK
    <3> QED BY <1>1, <2>1, <3>1, SavedStep DEF Serial, Saved
  <2>3. CASE Goto(t, "insert") /\ UNCHANGED <<req, local, detached>>
    <3>1. pc'[t] = "insert"
      BY <2>3 DEF Goto, TypeOK
    <3>2. Serial(t)'
      BY <1>1, <2>1, <2>3, <3>1 DEF Serial, Saved, Present, Key
    <3> QED BY <1>1, <2>3, <3>2 DEF InStep
  <2> QED BY <1>4, <2>2, <2>3 DEF NotFound
<1>5. CASE Insert(t)
  <2>1. /\ counters' = [counters EXCEPT ![Key(t)] = Fresh] /\ counters[Key(t)] = NoCounter
        /\ counters = Saved /\ req[t] \in Requests
    BY <1>1, <1>5 DEF Insert, Serial
  <2>2. OneOperation(Saved, counters')
    BY <1>1, <2>1 DEF OneOperation
  <2>3. pc'[t] = "save" /\ detached' = {} /\ req' = req /\ file' = file
    BY <1>1, <1>5 DEF Insert, SaveThen, Goto, TypeOK
  <2> QED BY <2>1, <2>2, <2>3, DoneStep
<1>6. CASE Remove(t)
  <2>1. /\ counters' = [counters EXCEPT ![Key(t)] = NoCounter] /\ counters[Key(t)] # NoCounter
        /\ counters = Saved /\ req[t] \in Requests
    BY <1>1, <1>6 DEF Remove, Serial, Present
  <2>2. OneOperation(Saved, counters')
    BY <1>1, <2>1 DEF OneOperation
  <2>3. pc'[t] = "save" /\ detached' = {} /\ req' = req /\ file' = file
    BY <1>1, <1>6 DEF Remove, SaveThen, Goto, TypeOK
  <2> QED BY <2>1, <2>2, <2>3, DoneStep
<1>7. CASE RemoveKeyError(t)
  <2>1. /\ pc[t] = "remove" /\ UNCHANGED <<up, counters, file>>
        /\ pc'[t] = "idle" /\ detached' = {}
    BY <1>1, <1>7 DEF RemoveKeyError, Return, Goto, TypeOK, stored
  <2> QED BY <1>1, <2>1, SavedStep DEF Serial, Saved
<1> QED BY <1>2, <1>3, <1>4, <1>5, <1>6, <1>7 DEF Lookup

LEMMA SaveInStep ==
    ASSUME OneThread, "io_error" \notin Faults, Inv, InStep, up, NEW t \in Threads, Save(t)
    PROVE  InStep'
<1> USE DEF Inv
<1>1. /\ Threads = {t} /\ Serial(t) /\ detached = {} /\ counters \in Image
  BY Alone DEF InStep, TypeOK
<1>2. CASE IterateCounters(t)
  <2>1. pc[t] = "save" /\ pc'[t] = "build" /\ size'[t] = Cardinality(KeysInUse')
    BY <1>2 DEF IterateCounters, Goto, TypeOK, stored, KeysInUse, Present
  <2>2. Serial(t)'
    BY <1>1, <1>2, <2>1 DEF IterateCounters, Serial, Saved, stored
  <2> QED BY <1>1, <1>2, <2>2 DEF InStep, IterateCounters
<1>3. CASE BuildPayload(t)
  <2>1. pc[t] = "build" /\ pc'[t] = "open" /\ snap'[t] = counters'
    BY <1>3 DEF BuildPayload, Goto, TypeOK, stored
  <2>2. Serial(t)'
    BY <1>1, <1>3, <2>1 DEF BuildPayload, Serial, Saved, stored
  <2> QED BY <1>1, <1>3, <2>2 DEF InStep, BuildPayload
<1>4. CASE SizeChanged(t)
  BY <1>1, <1>4 DEF SizeChanged, Serial
<1>5. CASE OpenFile(t)
  <2>1. pc[t] = "open" /\ pc'[t] = "dump" /\ file' = Torn
    BY <1>5 DEF OpenFile, Goto, TypeOK
  <2>2. Serial(t)'
    BY <1>1, <1>5, <2>1 DEF OpenFile, Serial, local
  <2> QED BY <1>1, <1>5, <2>2 DEF InStep, OpenFile
<1>6. CASE Dump(t)
  <2>0. \A Live : Text(snap[t], Live) = counters /\ file = Torn
    BY <1>1, <1>6, TextOfMemory DEF Dump, Serial
  <2>1. file' = counters' /\ up' = TRUE
    BY <1>1, <1>6, <2>0 DEF Dump
  <2>2. counters' = Saved'
    BY <1>1, <1>6, <2>1, ImageLoads DEF Dump, Saved
  <2>3. /\ pc'[t] \in {"idle", "body"} /\ detached' = {}
        /\ pc'[t] # "idle" => req' = req
    BY <1>1, <1>6 DEF Dump, AfterSave, Return, Goto, TypeOK
  <2>4. req[t] \in Requests
    BY <1>1, <1>6 DEF Dump, Serial
  <2> QED BY <2>1, <2>2, <2>3, <2>4, SavedStep
<1>7. ~DumpRaises(t)
  BY <1>1 DEF DumpRaises, Serial
<1> QED BY <1>2, <1>3, <1>4, <1>5, <1>6, <1>7 DEF Save, DumpFails

\* A change of the held counter by one whole operation.
LEMMA OneChangeIsOperation ==
    ASSUME NEW k \in Keys, counters \in Image, counters = Saved, counters[k] # NoCounter,
           NEW d \in Counter, OneChange(counters[k], d),
           counters' = [counters EXCEPT ![k] = d]
    PROVE  OneOperation(Saved, counters')
<1>1. counters'[k] = d
  BY DEF Image
<1> QED BY <1>1 DEF OneOperation

\* increment and decrement: the counter, then its selected subcounter.
LEMMA ShiftInStep ==
    ASSUME OneThread, Inv, Selections, InStep, up, NEW t \in Threads,
           \/ ReadValue(t) \/ AddToValue(t)
           \/ req[t].op \in Shifts /\ (ReadSelection(t) \/ FetchSub(t))
           \/ ReadSub(t) \/ AddToSub(t)
    PROVE  InStep'
<1> USE DEF Inv
<1>1. /\ Threads = {t} /\ Serial(t) /\ detached = {} /\ counters \in Image /\ Saved \in Image
      /\ Key(t) \in Keys /\ Key(t) = req[t].key /\ Held(t) = counters[Key(t)]
      /\ tmp[t] \in Int /\ req[t].n \in Int /\ Delta(t) \in Int /\ sel[t] \in Subs \cup {NoSub}
  BY Alone, EmptyIsImage DEF InStep, TypeOK, Key, Held, Delta, Saved, Load
<1>2. pc[t] \in Bodies
  BY DEF ReadValue, AddToValue, ReadSelection, FetchSub, ReadSub, AddToSub, Bodies
<1>3. Held(t) \in Counter /\ Sound(Held(t)) /\ counters[Key(t)] # NoCounter
  <2>1. ~Dropping(t)
    BY DEF ReadValue, AddToValue, ReadSelection, FetchSub, ReadSub, AddToSub, Dropping
  <2> QED BY <1>1, <1>2, <2>1, NotDropping, HeldType, HeldSelection, CountersAreNotNoCounter
<1> DEFINE k == Key(t)
           c == Saved[k]
           half == [c EXCEPT !.value = @ + Delta(t)]
<1>4. HalfAdded(t) => /\ c \in Counter /\ c # NoCounter
                      /\ counters = [Saved EXCEPT ![k] = half]
                      /\ counters[k] = half /\ half \in Counter
                      /\ half.active = c.active /\ half.subs = c.subs
                      /\ half.value = c.value + Delta(t)
  <2> SUFFICES ASSUME HalfAdded(t)
               PROVE  /\ c \in Counter /\ c # NoCounter
                      /\ counters = [Saved EXCEPT ![k] = half]
                      /\ counters[k] = half /\ half \in Counter
                      /\ half.active = c.active /\ half.subs = c.subs
                      /\ half.value = c.value + Delta(t)
    OBVIOUS
  <2>1. c # NoCounter /\ counters = [Saved EXCEPT ![k] = half]
    BY DEF HalfAdded
  <2>2. c \in Counter
    BY <1>1, <2>1 DEF Image
  <2>3. counters[k] = half
    BY <1>1, <2>1 DEF Image
  <2>4. /\ half \in Counter /\ half.active = c.active /\ half.subs = c.subs
        /\ half.value = c.value + Delta(t)
    BY <1>1, <2>2 DEF Counter
  <2> QED BY <2>1, <2>2, <2>3, <2>4
<1>5. req[t].op \in Shifts /\ req[t] \in Requests =>
          \E n \in Ints : Delta(t) = n \/ Delta(t) = -n
  BY DEF Requests, Delta, Shifts, Plain, SubOps, Assigns
<1> HIDE DEF half, c, k
<1>6. ASSUME req[t].op \in Shifts, req[t] \in Requests, HalfAdded(t),
             NEW d \in Counter, d = Added(c, Delta(t)),
             counters' = [Saved EXCEPT ![k] = d]
      PROVE  OneOperation(Saved, counters')
  <2>1. OneChange(c, d)
    BY <1>5, <1>6 DEF OneChange
  <2>2. counters'[k] = d /\ k \in Keys
    BY <1>1, <1>6 DEF Image, k
  <2> QED BY <1>4, <1>6, <2>1, <2>2 DEF OneOperation, c
<1>7. CASE ReadValue(t)
  <2>1. pc[t] = "body" /\ pc'[t] = "add" /\ req[t].op \in Shifts
    BY <1>7 DEF ReadValue, Goto, TypeOK
  <2>2. Serial(t)'
    BY <1>1, <1>7, <2>1 DEF ReadValue, Serial, Saved, stored
  <2> QED BY <1>1, <1>7, <2>2 DEF InStep, ReadValue
<1>8. CASE AddToValue(t)
  <2>1. pc[t] = "add" /\ pc'[t] = "select" /\ req' = req /\ UNCHANGED <<up, file, detached>>
    BY <1>8 DEF AddToValue, Goto, TypeOK
  <2>2. tmp[t] = counters[k].value
    BY <1>1, <2>1 DEF Reliable, Own, k
  <2>3. counters' = [counters EXCEPT ![k] = [counters[k] EXCEPT !.value = tmp[t] + Delta(t)]]
    BY <1>1, <1>8 DEF AddToValue, Change, k
  <2>4. counters = Saved /\ req[t].op \in Shifts /\ req[t] \in Requests
    BY <1>1, <2>1 DEF Serial
  <2>5. counters' = [Saved EXCEPT ![k] = half]
    BY <2>2, <2>3, <2>4 DEF half, c
  <2>6. HalfAdded(t)'
    BY <1>3, <2>1, <2>4, <2>5 DEF HalfAdded, half, c, k, Saved, Key, Delta
  <2>7. Serial(t)'
    BY <2>1, <2>4, <2>6 DEF Serial
  <2> QED BY <1>1, <2>1, <2>7 DEF InStep
<1>9. CASE req[t].op \in Shifts /\ ReadSelection(t)
  <2>1. /\ pc[t] = "select" /\ req[t] \in Requests /\ HalfAdded(t)
        /\ UNCHANGED <<up, counters, file, req, detached>>
    BY <1>1, <1>9 DEF ReadSelection, Serial, Shifts, Assigns, stored
  <2>2. CASE Held(t).active = NoSub /\ NoneSelected(t)
    <3>1. pc'[t] = "save"
      BY <1>9, <2>2 DEF NoneSelected, SaveThen, Goto, TypeOK, Shifts, Assigns
    <3>2. half = Added(c, Delta(t))
      BY <1>1, <1>4, <2>1, <2>2 DEF Added, half, k
    <3>3. OneOperation(Saved, counters')
      BY <1>4, <1>6, <1>9, <2>1, <3>2
    <3> QED BY <1>1, <2>1, <3>1, <3>3, DoneStep
  <2>3. CASE sel' = [sel EXCEPT ![t] = Held(t).active] /\ Goto(t, "fetch")
    <3>1. pc'[t] = "fetch" /\ sel'[t] = counters[Key(t)].active
      BY <1>1, <2>3 DEF Goto, TypeOK
    <3>2. HalfAdded(t)' /\ Key(t)' = Key(t)
      BY <2>1 DEF HalfAdded, Saved, Key, Delta
    <3>3. Serial(t)'
      BY <1>9, <2>1, <3>1, <3>2 DEF Serial
    <3> QED BY <1>1, <2>1, <3>3 DEF InStep
  <2> QED BY <1>9, <2>2, <2>3 DEF ReadSelection
<1>11. CASE req[t].op \in Shifts /\ FetchSub(t)
  <2>1. /\ pc[t] = "fetch" /\ req[t] \in Requests /\ HalfAdded(t)
        /\ sel[t] = counters[Key(t)].active /\ sel[t] # NoSub
        /\ UNCHANGED <<up, counters, file, req, sel, tmp, detached>>
    BY <1>1, <1>11 DEF FetchSub, Serial, Reliable, Shifts, Assigns, stored, local
  <2>2. Held(t).subs[sel[t]] # NoSub
    BY <1>1, <1>3, <2>1 DEF Sound, Selected
  <2>3. pc'[t] = "read_sub"
    BY <1>1, <1>11, <2>2 DEF FetchSub, Lacks, Goto, TypeOK
  <2>4. HalfAdded(t)' /\ Key(t)' = Key(t)
    BY <2>1 DEF HalfAdded, Saved, Key, Delta
  <2>5. Serial(t)'
    BY <1>11, <2>1, <2>3, <2>4 DEF Serial
  <2> QED BY <1>1, <2>1, <2>5 DEF InStep
<1>12. CASE ReadSub(t)
  <2>1. /\ pc[t] = "read_sub" /\ req[t] \in Requests /\ HalfAdded(t) /\ req[t].op \in Shifts
        /\ sel[t] = counters[Key(t)].active
        /\ UNCHANGED <<up, counters, file, req, sel, detached>>
    BY <1>1, <1>12 DEF ReadSub, Serial, stored
  <2>2. pc'[t] = "add_sub" /\ tmp'[t] = counters[Key(t)].subs[sel[t]]
    BY <1>1, <1>12 DEF ReadSub, Goto, TypeOK
  <2>3. HalfAdded(t)' /\ Key(t)' = Key(t)
    BY <2>1 DEF HalfAdded, Saved, Key, Delta
  <2>4. Serial(t)'
    BY <2>1, <2>2, <2>3 DEF Serial
  <2> QED BY <1>1, <2>1, <2>4 DEF InStep
<1>10. CASE AddToSub(t)
  <2>1. /\ pc[t] = "add_sub" /\ req[t].op \in Shifts /\ req[t] \in Requests /\ HalfAdded(t)
        /\ sel[t] = counters[k].active /\ tmp[t] = counters[k].subs[sel[t]]
        /\ pc'[t] = "save" /\ UNCHANGED <<up, file, req, detached>>
    BY <1>1, <1>10 DEF AddToSub, Serial, SaveThen, Goto, TypeOK, k
  <2>2. sel[t] \in Subs /\ sel[t] # NoSub
    BY <1>1, <2>1 DEF Reliable
  <2> DEFINE d == [half EXCEPT !.subs[sel[t]] = tmp[t] + Delta(t)]
  <2>3. counters' = [counters EXCEPT ![k] = d]
    BY <1>1, <1>4, <1>10, <2>1 DEF AddToSub, Change, k
  <2>4. counters' = [Saved EXCEPT ![k] = d]
    BY <1>1, <1>4, <2>1, <2>3 DEF Image
  <2>5. d \in Counter
    <3>1. tmp[t] + Delta(t) \in Int \cup {NoSub}
      BY <1>1
    <3> QED BY <1>4, <2>1, <2>2, <3>1, WithSub
  <2>6. c.active = sel[t] /\ c.subs[sel[t]] = tmp[t]
    BY <1>4, <2>1
  <2>7. d = Added(c, Delta(t))
    BY <1>1, <1>4, <2>1, <2>2, <2>6 DEF Added, half, Counter
  <2> HIDE DEF d
  <2>8. OneOperation(Saved, counters')
    BY <1>6, <2>1, <2>4, <2>5, <2>7
  <2> QED BY <1>1, <2>1, <2>8, DoneStep
<1> QED BY <1>7, <1>8, <1>9, <1>10, <1>11, <1>12

\* The other actions change the counter in one step.
LEMMA AssignInStep ==
    ASSUME OneThread, Inv, Selections, InStep, up, NEW t \in Threads,
           \/ req[t].op \in Assigns /\ (ReadSelection(t) \/ FetchSub(t))
           \/ AssignTo(t) \/ AddSubcounter(t) \/ CheckDeletion(t)
           \/ CheckSelection(t) \/ SelectSubcounter(t)
           \/ pc[t] # "clear" /\ ClearActiveSubcounter(t)
           \/ NoChange(t)
    PROVE  InStep'
<1> USE DEF Inv
<1>1. /\ Threads = {t} /\ \A k, s : SubHolders(t, k, s) = {}
      /\ Serial(t) /\ detached = {} /\ counters \in Image
      /\ Key(t) \in Keys /\ Key(t) = req[t].key /\ Held(t) = counters[Key(t)]
      /\ req[t].n \in Int /\ req[t].sub \in Subs \cup {NoSub} /\ sel[t] \in Subs \cup {NoSub}
  BY Alone DEF InStep, TypeOK, Key, Held
<1>2. /\ pc[t] \in {"body", "select", "fetch", "assign", "choose"} /\ pc[t] \in Bodies
      /\ pc[t] \in {"select", "fetch"} => req[t].op \in Assigns
  BY DEF ReadSelection, FetchSub, AssignTo, AddSubcounter, CheckDeletion, CheckSelection,
         SelectSubcounter, ClearActiveSubcounter, Clearing, NoChange, Bodies
<1>3. counters = Saved /\ req[t] \in Requests /\ pc[t] # "select"
  BY <1>1, <1>2 DEF Serial, Shifts, Assigns
<1>4. Held(t) \in Counter /\ Sound(Held(t)) /\ counters[Key(t)] # NoCounter
  <2>1. ~Dropping(t)
    BY <1>2 DEF Dropping
  <2> QED BY <1>1, <1>2, <2>1, NotDropping, HeldType, HeldSelection, CountersAreNotNoCounter
<1>5. ASSUME NEW d \in Counter, OneChange(Held(t), d), Change(t, d),
             SaveThen(t, "idle"), UNCHANGED <<file, req>>, detached' = {}
      PROVE  InStep'
  <2>1. counters' = [counters EXCEPT ![Key(t)] = d]
    BY <1>1, <1>5 DEF Change
  <2>2. OneOperation(Saved, counters')
    BY <1>1, <1>3, <1>4, <1>5, <2>1, OneChangeIsOperation
  <2>3. pc'[t] = "save"
    BY <1>5 DEF SaveThen, Goto, TypeOK
  <2> QED BY <1>3, <1>5, <2>2, <2>3, DoneStep
<1>6. CASE req[t].op \in Assigns /\ ReadSelection(t)
  <2>1. UNCHANGED <<up, counters, file, req, detached>>
    BY <1>6 DEF ReadSelection, stored
  <2>2. pc'[t] \in {"fetch", "assign"} /\ sel'[t] = counters[Key(t)].active
    BY <1>1, <1>6 DEF ReadSelection, NoneSelected, Goto, TypeOK, Shifts, Assigns
  <2>3. Serial(t)'
    BY <1>3, <1>6, <2>1, <2>2 DEF Serial, Saved, Key
  <2> QED BY <1>1, <2>1, <2>3 DEF InStep
<1>14. CASE req[t].op \in Assigns /\ FetchSub(t)
  <2>1. /\ pc[t] = "fetch" /\ sel[t] = counters[Key(t)].active /\ sel[t] # NoSub
        /\ UNCHANGED <<up, counters, file, req, sel, detached>>
    BY <1>1, <1>14 DEF FetchSub, Serial, Reliable, stored, local
  <2>2. Held(t).subs[sel[t]] # NoSub
    BY <1>1, <1>4, <2>1 DEF Sound, Selected
  <2>3. pc'[t] = "assign"
    BY <1>1, <1>14, <2>2 DEF FetchSub, Lacks, Goto, TypeOK, Shifts, Assigns
  <2>4. Serial(t)'
    BY <1>3, <1>14, <2>1, <2>3 DEF Serial, Saved, Key
  <2> QED BY <1>1, <2>1, <2>4 DEF InStep
<1>7. CASE AssignTo(t)
  <2>1. /\ req[t].op \in Assigns /\ sel[t] = Held(t).active
        /\ SaveThen(t, "idle") /\ UNCHANGED <<file, req>> /\ detached' = {}
    BY <1>1, <1>7 DEF AssignTo, Serial
  <2>2. req[t].n \in Ints \/ req[t].n = 0
    BY <1>3, <2>1 DEF Requests, Assigns, Shifts, Plain, SubOps
  <2> DEFINE d == Assigned(Held(t), req[t].n)
  <2>3. Change(t, d)
    BY <1>7, <2>1 DEF AssignTo, AssignNumber, Assigned
  <2>4. d \in Counter
    BY <1>1, <1>4, <2>1, WithValue, WithSub DEF Assigned
  <2> HIDE DEF d
  <2>5. OneChange(Held(t), d)
    BY <2>2 DEF OneChange, d
  <2> QED BY <1>5, <2>1, <2>3, <2>4, <2>5
<1>8. CASE AddSubcounter(t)
  <2> DEFINE d == [Held(t) EXCEPT !.subs[req[t].sub] = 0]
  <2>1. /\ req[t].sub \in Subs /\ Change(t, d)
        /\ SaveThen(t, "idle") /\ UNCHANGED <<file, req>> /\ detached' = {}
    BY <1>1, <1>8 DEF AddSubcounter
  <2>2. d \in Counter
    <3>1. 0 \in Int \cup {NoSub}
      OBVIOUS
    <3> QED BY <1>4, <2>1, <3>1, WithSub
  <2>3. OneChange(Held(t), d)
    BY <2>1 DEF OneChange
  <2> HIDE DEF d
  <2> QED BY <1>5, <2>1, <2>2, <2>3
<1>9. CASE CheckDeletion(t)
  <2>1. /\ pc'[t] = "drop" /\ UNCHANGED <<up, counters, file, req, detached>>
        /\ counters[Key(t)].subs[req[t].sub] # NoSub
    BY <1>1, <1>9 DEF CheckDeletion, Has, Goto, TypeOK, stored, local
  <2>2. Serial(t)'
    BY <1>3, <2>1 DEF Serial, Saved, Key
  <2> QED BY <1>1, <2>1, <2>2 DEF InStep
<1>10. CASE CheckSelection(t)
  <2>1. pc[t] = "body" /\ pc'[t] = "choose"
    BY <1>10 DEF CheckSelection, Goto, TypeOK
  <2>2. Serial(t)'
    BY <1>1, <1>3, <1>10, <2>1 DEF CheckSelection, Serial, Saved, stored, local
  <2> QED BY <1>1, <1>10, <2>2 DEF InStep, CheckSelection
<1>11. CASE SelectSubcounter(t)
  <2> DEFINE d == [Held(t) EXCEPT !.active = req[t].sub]
  <2>1. /\ Change(t, d) /\ (req[t].sub # NoSub => Held(t).subs[req[t].sub] # NoSub)
        /\ SaveThen(t, "idle") /\ UNCHANGED <<file, req>> /\ detached' = {}
    BY <1>1, <1>11 DEF SelectSubcounter, Selections, StillChosen
  <2>2. d \in Counter
    BY <1>1, <1>4, WithActive
  <2>3. OneChange(Held(t), d)
    BY <1>1, <2>1 DEF OneChange
  <2> HIDE DEF d
  <2> QED BY <1>5, <2>1, <2>2, <2>3
<1>12. CASE pc[t] # "clear" /\ ClearActiveSubcounter(t)
  <2> DEFINE d == [Held(t) EXCEPT !.active = NoSub]
  <2>1. /\ Change(t, d)
        /\ SaveThen(t, "idle") /\ UNCHANGED <<file, req>> /\ detached' = {}
    BY <1>1, <1>12 DEF ClearActiveSubcounter
  <2>2. d \in Counter
    BY <1>4, WithActive
  <2>3. OneChange(Held(t), d)
    BY DEF OneChange
  <2> HIDE DEF d
  <2> QED BY <1>5, <2>1, <2>2, <2>3
<1>13. CASE NoChange(t)
  <2>1. /\ UNCHANGED <<up, counters, file>> /\ pc'[t] = "idle" /\ detached' = {}
    BY <1>1, <1>13 DEF NoChange, Return, Goto, TypeOK, stored
  <2> QED BY <1>3, <2>1, SavedStep DEF Saved
<1> QED BY <1>6, <1>7, <1>8, <1>9, <1>10, <1>11, <1>12, <1>13, <1>14

\* The end of delete_subcounter: between the del and _save, memory is not what
\* any operation makes of the file.
LEMMA DropInStep ==
    ASSUME OneThread, Inv, Selections, InStep, up, NEW t \in Threads,
           \/ DropSub(t) \/ DropKeyError(t) \/ TestSelection(t)
           \/ pc[t] = "clear" /\ ClearActiveSubcounter(t)
    PROVE  InStep'
<1> USE DEF Inv
<1>1. /\ Threads = {t} /\ \A k, s : SubHolders(t, k, s) = {}
      /\ Serial(t) /\ detached = {} /\ counters \in Image /\ Saved \in Image
      /\ Key(t) \in Keys /\ Key(t) = req[t].key /\ Held(t) = counters[Key(t)]
      /\ req[t] \in Requests
  BY Alone, EmptyIsImage DEF InStep, TypeOK, Key, Held, Serial, Saved, Load, DropSub,
     DropKeyError, TestSelection
<1> DEFINE k == Key(t)
           c == Saved[k]
           s == req[t].sub
           half == [c EXCEPT !.subs[s] = NoSub]
<1>2. HalfDropped(t) => /\ c \in Counter /\ c # NoCounter /\ s \in Subs /\ c.subs[s] # NoSub
                        /\ counters = [Saved EXCEPT ![k] = half]
                        /\ counters[k] = half /\ half \in Counter
                        /\ half.active = c.active
  <2> SUFFICES ASSUME HalfDropped(t)
               PROVE  /\ c \in Counter /\ c # NoCounter /\ s \in Subs /\ c.subs[s] # NoSub
                      /\ counters = [Saved EXCEPT ![k] = half]
                      /\ counters[k] = half /\ half \in Counter
                      /\ half.active = c.active
    OBVIOUS
  <2>1. /\ c # NoCounter /\ s \in Subs /\ c.subs[s] # NoSub
        /\ counters = [Saved EXCEPT ![k] = half]
    BY DEF HalfDropped
  <2>2. c \in Counter
    BY <1>1, <2>1 DEF Image
  <2>3. counters[k] = half
    BY <1>1, <2>1 DEF Image
  <2>4. half \in Counter /\ half.active = c.active
    BY <2>1, <2>2 DEF Counter
  <2> QED BY <2>1, <2>2, <2>3, <2>4
<1> HIDE DEF half, c, k, s
<1>3. ASSUME HalfDropped(t), counters' = [Saved EXCEPT ![k] = WithoutSub(c, s)]
      PROVE  OneOperation(Saved, counters')
  <2>1. OneChange(c, WithoutSub(c, s))
    BY <1>2, <1>3 DEF OneChange
  <2>2. counters'[k] = WithoutSub(c, s) /\ k \in Keys
    BY <1>1, <1>3 DEF Image, k
  <2> QED BY <1>2, <1>3, <2>1, <2>2 DEF OneOperation, c
<1>4. CASE DropSub(t)
  <2>1. /\ pc[t] = "drop" /\ s \in Subs /\ counters = Saved /\ counters[k].subs[s] # NoSub
        /\ counters[k] # NoCounter
    BY <1>1, <1>4 DEF DropSub, Serial, Reliable, Holding, Bodies, TypeOK, k, s
  <2>2. /\ pc'[t] = "deselect" /\ UNCHANGED <<up, file, req>> /\ detached' = {}
        /\ counters' = [counters EXCEPT ![k] = [counters[k] EXCEPT !.subs[s] = NoSub]]
    BY <1>1, <1>4 DEF DropSub, Change, Goto, TypeOK, k, s
  <2>3. HalfDropped(t)'
    BY <1>1, <2>1, <2>2 DEF HalfDropped, Saved, Key, k, s
  <2>4. Serial(t)'
    BY <1>1, <2>2, <2>3 DEF Serial
  <2> QED BY <1>1, <2>2, <2>4 DEF InStep
<1>5. CASE DropKeyError(t)
  BY <1>1, <1>5 DEF DropKeyError, Lacks, Serial
<1>6. CASE TestSelection(t)
  <2>1. /\ pc[t] = "deselect" /\ HalfDropped(t)
        /\ UNCHANGED <<up, counters, file, req, detached>>
    BY <1>1, <1>6 DEF TestSelection, Serial, stored
  <2>2. CASE Held(t).active = s /\ Goto(t, "clear")
    <3>1. pc'[t] = "clear" /\ HalfDropped(t)' /\ Key(t)' = Key(t)
      BY <2>1, <2>2 DEF HalfDropped, Saved, Key, Goto, TypeOK
    <3>2. Serial(t)'
      BY <1>1, <2>1, <2>2, <3>1 DEF Serial, s
    <3> QED BY <1>1, <2>1, <3>2 DEF InStep
  <2>3. CASE Held(t).active # s /\ SaveThen(t, "idle")
    <3>1. half = WithoutSub(c, s)
      BY <1>1, <1>2, <2>1, <2>3 DEF WithoutSub, half, k, Counter
    <3>2. OneOperation(Saved, counters')
      BY <1>2, <1>3, <2>1, <3>1
    <3>3. pc'[t] = "save"
      BY <2>3 DEF SaveThen, Goto, TypeOK
    <3> QED BY <1>1, <2>1, <3>2, <3>3, DoneStep
  <2> QED BY <1>6, <2>2, <2>3 DEF TestSelection, s
<1>7. CASE pc[t] = "clear" /\ ClearActiveSubcounter(t)
  <2>1. /\ HalfDropped(t) /\ counters[k].active = s /\ pc'[t] = "save"
        /\ UNCHANGED <<up, file, req, detached>>
        /\ counters' = [counters EXCEPT ![k] = [counters[k] EXCEPT !.active = NoSub]]
    BY <1>1, <1>7 DEF ClearActiveSubcounter, Change, Serial, SaveThen, Goto, TypeOK, k, s
  <2>2. [half EXCEPT !.active = NoSub] = WithoutSub(c, s)
    BY <1>2, <2>1 DEF WithoutSub, half, Counter
  <2>3. counters' = [Saved EXCEPT ![k] = WithoutSub(c, s)]
    BY <1>1, <1>2, <2>1, <2>2 DEF Image
  <2>4. OneOperation(Saved, counters')
    BY <1>3, <2>1, <2>3
  <2> QED BY <1>1, <2>1, <2>4, DoneStep
<1> QED BY <1>4, <1>5, <1>6, <1>7

NoIOError == "io_error" \notin Faults

LEMMA NextInStep ==
    ASSUME OneThread, NoIOError, Inv, Down, Selections, InStep, [Next]_vars
    PROVE  InStep'
<1>1. ASSUME NEW t \in Threads, Begin(t) \/ Lookup(t) \/ Mutate(t) \/ Save(t)
      PROVE  InStep'
  <2>1. up
    BY <1>1, ThreadsRunWhileUp DEF Down, Begin
  <2>2. ASSUME Mutate(t) PROVE InStep'
    <3>1. ~Unselect(t)
      BY <2>1 DEF Unselect, InStep, Serial
    <3>2. ReadSelection(t) \/ FetchSub(t) => req[t].op \in Shifts \cup Assigns
      BY <2>1 DEF ReadSelection, FetchSub, InStep, Serial
    <3> QED BY <2>1, <2>2, <3>1, <3>2, ShiftInStep, AssignInStep, DropInStep DEF Mutate
  <2> QED BY <1>1, <2>1, <2>2, LookupInStep, SaveInStep DEF NoIOError
<1>2. CASE Crash
  BY <1>2 DEF Crash, InStep
<1>3. CASE Restart
  <2>1. /\ counters' = Saved' /\ detached' = {}
        /\ \A t \in Threads : pc'[t] = "idle"
    BY <1>3 DEF Restart, Saved, InStep, Down
  <2> QED BY <2>1 DEF InStep, Serial
<1>4. CASE UNCHANGED vars
  <2>1. /\ UNCHANGED <<up, counters, file, pc, req, tmp, sel, snap, size, detached>>
        /\ Saved' = Saved /\ KeysInUse' = KeysInUse
    BY <1>4 DEF vars, Saved, KeysInUse, Present
  <2>2. ASSUME NEW t \in Threads, Serial(t) PROVE Serial(t)'
    <3>1. /\ HalfAdded(t)' <=> HalfAdded(t)
          /\ HalfDropped(t)' <=> HalfDropped(t)
          /\ Key(t)' = Key(t)
      BY <2>1 DEF HalfAdded, HalfDropped, Key, Delta
    <3> QED BY <2>1, <2>2, <3>1 DEF Serial
  <2> QED BY <2>1, <2>2 DEF InStep
<1> QED BY <1>1, <1>2, <1>3, <1>4 DEF Next

LEMMA InitSerial ==
    ASSUME Init
    PROVE  Selections /\ InStep
<1>1. counters = Saved /\ Saved = Empty
  BY DEF Init, Saved, Load
<1>2. Selections
  BY <1>1, ConsistentEmpty DEF Init, Selections, StillChosen, OthersSound, Consistent, Saved
<1>3. InStep
  BY <1>1 DEF Init, InStep, Serial
<1> QED BY <1>2, <1>3

LEMMA SelectionsInvariant ==
    ASSUME OneThread
    PROVE  Spec => [](Inv /\ Down /\ Selections)
<1>1. Init => Inv /\ Down /\ Selections
  BY InitInv, InitSerial
<1>2. Inv /\ Down /\ Selections /\ [Next]_vars => (Inv /\ Down /\ Selections)'
  BY NextInv, DownInv, NextSelections
<1> QED BY <1>1, <1>2, PTL DEF Spec

LEMMA InStepInvariant ==
    ASSUME OneThread, NoIOError
    PROVE  Spec => [](Inv /\ Down /\ Selections /\ InStep)
<1>1. Init => InStep
  BY InitSerial
<1>2. Inv /\ Down /\ Selections /\ InStep /\ [Next]_vars => InStep'
  BY NextInStep
<1>3. Spec => [](Inv /\ Down /\ Selections)
  BY SelectionsInvariant
<1> QED BY <1>1, <1>2, <1>3, PTL DEF Spec

\* With one thread, no counter in memory or in the file has a selection whose
\* subcounter is gone (counter_handler.py:86-94 and 287-310), whatever the
\* crashes and the writes that fail.
THEOREM SelectionExistsHolds ==
    ASSUME OneThread
    PROVE  Spec => []SelectionExists
<1>1. ASSUME Selections PROVE SelectionExists
  <2> PICK t \in Threads : Threads = {t}
    BY DEF OneThread
  <2> DEFINE Dropped == {Key(u) : u \in {v \in Threads : pc[v] \in {"deselect", "clear"}}}
  <2>1. ASSUME NEW k \in Keys \ Dropped, counters[k] # NoCounter
        PROVE  counters[k].active = Selected(counters[k])
    <3>1. CASE pc[t] \in {"deselect", "clear"}
      BY <1>1, <2>1, <3>1 DEF Selections, OthersSound, Sound
    <3>2. CASE pc[t] \notin {"deselect", "clear"}
      BY <1>1, <2>1, <3>2 DEF Selections, Dropping, Consistent, Sound
    <3> QED BY <3>1, <3>2
  <2>2. ASSUME file \notin {Missing, Torn}, NEW k \in Keys, file[k] # NoCounter
        PROVE  file[k].active = Selected(file[k])
    BY <1>1, <2>2 DEF Selections, Consistent, Sound, Load
  <2> QED BY <2>1, <2>2 DEF SelectionExists
<1>2. Spec => [](Inv /\ Down /\ Selections)
  BY SelectionsInvariant
<1> QED BY <1>1, <1>2, PTL

\* With one thread whose writes do not fail, the file holds what memory holds
\* whenever no handler runs: every action that changes a counter saves
\* (counter_handler.py:374-378), and a crash inside a write, which empties the
\* file, empties the memory of the next start.
THEOREM DurableWhenIdleHolds ==
    ASSUME OneThread, NoIOError
    PROVE  Spec => []DurableWhenIdle
<1>1. Inv /\ Down /\ Selections /\ InStep => DurableWhenIdle
  <2> SUFFICES ASSUME InStep, up, \A t \in Threads : pc[t] = "idle"
               PROVE  counters = Load(file)
    BY DEF DurableWhenIdle
  <2>1. \E t \in Threads : TRUE
    BY DEF OneThread
  <2> QED BY <2>1 DEF InStep, Serial, Saved
<1>2. Spec => [](Inv /\ Down /\ Selections /\ InStep)
  BY InStepInvariant
<1> QED BY <1>1, <1>2, PTL
-----------------------------------------------------------------------------
(* The refinement.                                                         *)

\* What is durable is what the file holds, and inside a write what it will.
LEMMA DurableValue ==
    ASSUME OneThread, InStep, Down
    PROVE  /\ (\A t \in Threads : pc[t] # "dump") => Durable = Saved
           /\ \A t \in Threads : pc[t] = "dump" => Durable = counters
<1>1. (\A t \in Threads : pc[t] # "dump") => Durable = Saved
  BY DEF Durable, Saved
<1>2. ASSUME NEW t \in Threads, pc[t] = "dump" PROVE Durable = counters
  <2>1. up /\ Serial(t)
    BY <1>2 DEF InStep, Down
  <2>2. (CHOOSE u \in Threads : pc[u] = "dump") = t
    BY <1>2 DEF OneThread
  <2> QED BY <1>2, <2>1, <2>2 DEF Serial, Durable
<1> QED BY <1>1, <1>2

\* One operation on what is durable is a step of DurableCounters.
LEMMA OperationIsDurable ==
    ASSUME OneOperation(Durable, Durable')
    PROVE  DC!Next
<1> PICK k \in Keys :
        \/ Durable[k] = NoCounter /\ Durable' = [Durable EXCEPT ![k] = Fresh]
        \/ Durable[k] # NoCounter /\ Durable' = [Durable EXCEPT ![k] = NoCounter]
        \/ /\ Durable[k] # NoCounter /\ OneChange(Durable[k], Durable'[k])
           /\ Durable' = [Durable EXCEPT ![k] = Durable'[k]]
  BY DEF OneOperation
<1> USE DEF DC!Exists, DC!Put
<1> DEFINE a == Durable
           b == Durable'
           c == a[k]
           d == b[k]
<1>1. CASE a[k] = NoCounter /\ b = [a EXCEPT ![k] = Fresh]
  <2>1. DC!Create(k)
    BY <1>1 DEF DC!Create, DC!Fresh, Fresh
  <2> QED BY <2>1 DEF DC!Next, DC!ChangeOne
<1>2. CASE a[k] # NoCounter /\ b = [a EXCEPT ![k] = NoCounter]
  <2>1. DC!Delete(k)
    BY <1>2 DEF DC!Delete
  <2> QED BY <2>1 DEF DC!Next, DC!ChangeOne
<1>3. CASE a[k] # NoCounter /\ OneChange(c, d) /\ b = [a EXCEPT ![k] = d]
  <2>1. ASSUME NEW n, d = Added(c, n) PROVE DC!Add(k, n)
    BY <1>3, <2>1 DEF DC!Add, Added
  <2>2. ASSUME NEW n, d = Assigned(c, n) PROVE DC!Assign(k, n)
    BY <1>3, <2>2 DEF DC!Assign, Assigned
  <2>3. ASSUME NEW s \in Subs, d = [c EXCEPT !.subs[s] = 0] PROVE DC!AddSub(k, s)
    BY <1>3, <2>3 DEF DC!AddSub
  <2>4. ASSUME NEW s \in Subs, c.subs[s] # NoSub, d = WithoutSub(c, s)
        PROVE  DC!RemoveSub(k, s)
    BY <1>3, <2>4 DEF DC!RemoveSub, WithoutSub
  <2>5. ASSUME NEW s \in Subs \cup {NoSub}, s # NoSub => c.subs[s] # NoSub,
               d = [c EXCEPT !.active = s]
        PROVE  DC!Select(k, s)
    BY <1>3, <2>5 DEF DC!Select
  <2> HIDE DEF a, b, c, d
  <2>6. DC!ChangeOne
    <3>1. CASE \E n \in Ints : d = Added(c, n)
      BY <2>1, <3>1 DEF DC!ChangeOne
    <3>2. CASE \E n \in Ints : d = Added(c, -n)
      BY <2>1, <3>2 DEF DC!ChangeOne
    <3>3. CASE \E n \in Ints : d = Assigned(c, n)
      BY <2>2, <3>3 DEF DC!ChangeOne
    <3>4. CASE d = Assigned(c, 0)
      BY <2>2, <3>4 DEF DC!ChangeOne
    <3>5. CASE \E s \in Subs : d = [c EXCEPT !.subs[s] = 0]
      BY <2>3, <3>5 DEF DC!ChangeOne
    <3>6. CASE \E s \in Subs : c.subs[s] # NoSub /\ d = WithoutSub(c, s)
      BY <2>4, <3>6 DEF DC!ChangeOne
    <3>7. CASE \E s \in Subs \cup {NoSub} :
                  (s # NoSub => c.subs[s] # NoSub) /\ d = [c EXCEPT !.active = s]
      BY <2>5, <3>7 DEF DC!ChangeOne
    <3> QED BY <1>3, <3>1, <3>2, <3>3, <3>4, <3>5, <3>6, <3>7 DEF OneChange
  <2> QED BY <2>6 DEF DC!Next
<1> QED BY <1>1, <1>2, <1>3

\* The truncation is the abstract operation, a crash before the write is
\* done the loss of all; the other steps leave what is durable alone.
LEMMA StepIsDurableStep ==
    ASSUME OneThread, NoIOError, Inv, Down, Selections, InStep, [Next]_vars, InStep', Down'
    PROVE  [DC!Next]_Durable
<1> USE DEF Inv
<1>1. ASSUME NEW t \in Threads, file' = file, pc[t] # "dump", pc'[t] # "dump"
      PROVE  Durable' = Durable
  BY <1>1 DEF OneThread, Durable
<1>2. ASSUME NEW t \in Threads, Begin(t) \/ Lookup(t) \/ Mutate(t)
      PROVE  Durable' = Durable
  <2>1. file' = file /\ pc[t] # "dump"
    BY <1>2 DEF Begin, Lookup, Found, NotFound, Insert, Remove, RemoveKeyError, stored,
        Mutate, ReadValue, AddToValue, ReadSelection, FetchSub, Unselect, ReadSub, AddToSub,
        AssignTo, AddSubcounter, CheckDeletion, DropSub, DropKeyError, TestSelection,
        CheckSelection, SelectSubcounter, ClearActiveSubcounter, Clearing, NoChange
  <2>2. pc'[t] # "dump"
    <3> USE DEF TypeOK, Goto, SaveThen, Return
    <3>1. CASE Begin(t)
      BY <3>1 DEF Begin
    <3>2. CASE Lookup(t)
      BY <3>2 DEF Lookup, Found, NotFound, Insert, Remove, RemoveKeyError
    <3>3. CASE Mutate(t)
      BY <3>3 DEF Mutate, ReadValue, AddToValue, ReadSelection, NoneSelected, FetchSub,
          Unselect, ReadSub, AddToSub, AssignTo, AddSubcounter, CheckDeletion, DropSub,
          DropKeyError, TestSelection, CheckSelection, SelectSubcounter,
          ClearActiveSubcounter, NoChange
    <3> QED BY <1>2, <3>1, <3>2, <3>3
  <2> QED BY <1>1, <2>1, <2>2
<1>3. ASSUME NEW t \in Threads, Save(t)
      PROVE  Durable' = Durable \/ DC!Next
  <2>1. up /\ Serial(t) /\ Threads = {t} /\ counters \in Image
    BY <1>3, ThreadsRunWhileUp, Alone DEF InStep, Down, TypeOK
  <2>2. CASE IterateCounters(t) \/ BuildPayload(t) \/ SizeChanged(t)
    <3>1. file' = file /\ pc[t] # "dump" /\ pc'[t] # "dump"
      BY <2>2 DEF IterateCounters, BuildPayload, SizeChanged, stored, Goto, Return, TypeOK
    <3> QED BY <1>1, <3>1
  <2>3. CASE OpenFile(t)
    <3>1. pc[t] = "open" /\ pc'[t] = "dump" /\ counters' = counters
      BY <2>3 DEF OpenFile, Goto, TypeOK
    <3>2. Durable = Saved
      BY <2>1, <3>1, DurableValue
    <3>3. Durable' = counters
      <4>1. Durable' = snap'[t]
        <5>1. (CHOOSE u \in Threads : pc'[u] = "dump") = t
          BY <2>1, <3>1
        <5> QED BY <2>1, <2>3, <3>1, <5>1 DEF OpenFile, Durable
      <4> QED BY <2>1, <2>3, <3>1, <4>1 DEF OpenFile, local, Serial
    <3> QED BY <2>1, <3>1, <3>2, <3>3, OperationIsDurable DEF Serial
  <2>4. CASE Dump(t)
    <3>0. \A Live : Text(snap[t], Live) = counters /\ file = Torn
      BY <2>1, <2>4, TextOfMemory DEF Dump, Serial
    <3>1. pc[t] = "dump" /\ counters' = counters /\ file' = counters
      BY <2>4, <3>0 DEF Dump
    <3>2. pc'[t] # "dump"
      BY <2>4 DEF Dump, AfterSave, Goto, Return, TypeOK
    <3>3. Durable = counters
      BY <3>1, DurableValue
    <3>4. Durable' = Load(file')
      BY <2>1, <3>2 DEF Durable
    <3> QED BY <2>1, <3>1, <3>3, <3>4, ImageLoads
  <2>5. ~DumpRaises(t)
    BY <2>1 DEF DumpRaises, Serial
  <2> QED BY <1>3, <2>2, <2>3, <2>4, <2>5 DEF Save, DumpFails, NoIOError
<1>4. ASSUME Crash
      PROVE  Durable' = Durable \/ DC!Next
  <2>1. Durable' = Load(file)
    BY <1>4 DEF Crash, Durable
  <2>2. CASE \A t \in Threads : pc[t] # "dump"
    BY <2>1, <2>2, DurableValue DEF Saved
  <2>3. ASSUME NEW t \in Threads, pc[t] = "dump" PROVE DC!Next
    <3>1. file = Torn
      BY <1>4, <2>3 DEF Crash, InStep, Serial
    <3>2. Durable' = Empty
      BY <2>1, <3>1 DEF Load
    <3> QED BY <3>2 DEF DC!Next, DC!LoseAll, DC!Empty, Empty
  <2> QED BY <2>2, <2>3
<1>5. CASE Restart \/ UNCHANGED vars
  BY <1>5 DEF Restart, vars, local, Durable
<1> QED BY <1>2, <1>3, <1>4, <1>5 DEF Next

\* With one thread whose writes do not fail, the handler, its file and its
\* crashes are whole operations on a persistent map, which a crash between the
\* truncation and the end of the write loses as a whole
\* (counter_handler.py:374-399).
THEOREM ImplementsDurableCountersHolds ==
    ASSUME OneThread, NoIOError
    PROVE  Spec => ImplementsDurableCounters
<1>1. Init => DC!Init
  BY ThreadsAssumption DEF Init, DC!Init, Durable, Load, DC!Empty, Empty
<1>2. /\ Inv /\ Down /\ Selections /\ InStep /\ [Next]_vars
      /\ (Inv /\ Down /\ Selections /\ InStep)'
      => [DC!Next]_Durable
  BY StepIsDurableStep
<1>3. Spec => [](Inv /\ Down /\ Selections /\ InStep)
  BY InStepInvariant
<1> QED BY <1>1, <1>2, <1>3, PTL DEF Spec, ImplementsDurableCounters, DC!Spec
=============================================================================
