-------------------------- MODULE StreamPetProofs --------------------------
(***************************************************************************)
(* Theorems about StreamPet: when every animation has a file of its own,    *)
(* each one taken from the queue is shown once and in its turn, whatever the *)
(* number of animations, their lengths and the length of the queue.         *)
(***************************************************************************)
EXTENDS StreamPet, SequenceTheorems, WellFoundedInduction, TLAPS

(* Induction over the natural numbers for a set instead of a predicate: the induction *)
(* theorems of the library take a predicate P(_), which the provers cannot instantiate. *)
NatLess == OpToRel(<, Nat)

LEMMA NatLessPairs ==
    ASSUME NEW m \in Nat, NEW n \in Nat, m < n
    PROVE  <<m, n>> \in NatLess
BY DEF NatLess, OpToRel

\* A set of numbers that is not empty has a least element.
LEMMA LeastElement ==
    ASSUME NEW T, T \subseteq Nat, T # {}
    PROVE  \E n \in T : \A m \in T : n <= m
<1>1. IsWellFoundedOn(NatLess, Nat)
  BY NatLessThanWellFounded DEF NatLess
<1>2. PICK n \in T : \A m \in T : ~ (<<m, n>> \in NatLess)
  BY <1>1, WFMin
<1>3. \A m \in T : ~ (m < n)
  BY <1>2, NatLessPairs
<1>4. \A m \in T : n <= m
  BY <1>3
<1> QED BY <1>4

\* A set with 0 that is closed under successor holds every number.
LEMMA InductionOverSet ==
    ASSUME NEW S, 0 \in S, \A n \in Nat : n \in S => n + 1 \in S
    PROVE  \A n \in Nat : n \in S
<1> DEFINE T == Nat \ S
<1> SUFFICES ASSUME T # {} PROVE FALSE
  OBVIOUS
<1>1. PICK n \in T : \A m \in T : n <= m
  BY LeastElement
<1>2. n # 0 /\ n - 1 \in Nat
  OBVIOUS
<1>3. n - 1 \notin T
  BY <1>1, <1>2
<1>4. n - 1 \in S
  BY <1>2, <1>3
<1>5. (n - 1) + 1 \in S
  BY <1>2, <1>4
<1> QED BY <1>1, <1>5
-----------------------------------------------------------------------------

\* No two animations share a file, and none has that of "idle".
OwnGifs ==
    /\ \A m, n \in Animations : Gif[m] = Gif[n] => m = n
    /\ \A n \in Animations : Gif[n] # IdleGif

\* The prepared animation is "idle", or a known item of the queue.
NextIsKnown ==
    \/ ~loading /\ next = Idle
    \/ loading /\ next \in Items /\ Known(next)

Inv == TypeOK /\ NextIsKnown /\ NothingLost /\ FrameInAnimation

\* load_gif finds the animation by its file (StreamPet.py:133-172).
LEMMA NameOfGif ==
    ASSUME OwnGifs, NEW n \in Animations
    PROVE  NameOf(Gif[n]) = n
<1> PICK i \in DOMAIN Order : Order[i] = n
  BY DEF Animations
<1> DEFINE First(k) == /\ Gif[Order[k]] = Gif[n]
                       /\ \A j \in DOMAIN Order : Gif[Order[j]] = Gif[n] => k <= j
<1>1. DOMAIN Order \subseteq Nat
  BY PetAssumption
<1>2. \A j \in DOMAIN Order : Gif[Order[j]] = Gif[n] => j = i
  BY PetAssumption DEF OwnGifs, Animations
<1>3. First(i)
  BY <1>1, <1>2
<1>4. \A k \in DOMAIN Order : First(k) => k = i
  BY <1>2
<1>5. (CHOOSE k \in DOMAIN Order : First(k)) = i
  BY <1>3, <1>4
<1>6. Gif[n] # IdleGif
  BY DEF OwnGifs
<1> QED BY <1>5, <1>6 DEF NameOf

\* The constants do not confuse "idle" with an animation.
LEMMA KnownNames ==
    /\ "idle" \in Names /\ Animations \subseteq Names
    /\ "idle" \notin Animations
    /\ \A n \in Names : Frames[n] \in Nat \ {0}
BY PetAssumption DEF Names

\* Init establishes the invariant.
LEMMA InitInv == Init => Inv
<1> SUFFICES ASSUME Init PROVE Inv
  OBVIOUS
<1>1. <<>> \in Seq(Items) /\ <<>> \o <<>> = <<>>
  BY EmptySeq, ConcatEmptySeq
<1>2. TypeOK /\ NextIsKnown
  BY <1>1, KnownNames DEF Init, TypeOK, NextIsKnown, Idle
<1>3. NothingLost /\ FrameInAnimation
  BY <1>1 DEF Init, NothingLost, Prepared, FrameInAnimation
<1> QED BY <1>2, <1>3 DEF Inv

\* _consume_next_from_queue prepares the item it takes, or "idle".
LEMMA ConsumePrepares ==
    ASSUME OwnGifs, TypeOK, queue # <<>>, ConsumeNext
    PROVE  /\ queue' \in Seq(Items)
           /\ due' \in Seq(Items)
           /\ next' \in [name : Names, data : Data \cup {NoData}]
           /\ loading' \in BOOLEAN
           /\ NextIsKnown'
           /\ due' = due \o Prepared'
<1> DEFINE item == Head(queue)
<1>1. item \in Items /\ queue' \in Seq(Items)
  BY HeadTailProperties DEF TypeOK, ConsumeNext
<1>2. CASE Known(item)
  <2>1. item.name \in Animations /\ item.name # "idle"
    BY <1>2, KnownNames DEF Known
  <2>2. NameOf(Gif[item.name]) = item.name
    BY <2>1, NameOfGif
  <2>3. next' = item /\ loading' = TRUE /\ due' = Append(due, item)
    BY <1>1, <1>2, <2>1, <2>2 DEF ConsumeNext, LoadGif, Play, Items
  <2>4. item.name \in Names /\ item.data \in Data
    BY <1>1, <2>1, KnownNames DEF Items
  <2>5. item \in [name : Names, data : Data \cup {NoData}]
    BY <1>1, <2>4 DEF Items
  <2>6. due' = due \o <<item>> /\ due' \in Seq(Items)
    BY <1>1, <2>3, AppendProperties, AppendIsConcat DEF TypeOK
  <2>7. Prepared' = <<item>>
    BY <2>3 DEF Prepared
  <2>8. NextIsKnown'
    BY <1>1, <1>2, <2>3 DEF NextIsKnown, Known
  <2> QED BY <1>1, <2>3, <2>5, <2>6, <2>7, <2>8
<1>3. CASE ~Known(item)
  <2>1. next' = Idle /\ loading' = FALSE /\ due' = due
    BY <1>3 DEF ConsumeNext, LoadIdle
  <2>2. due \o <<>> = due
    BY ConcatEmptySeq DEF TypeOK
  <2> QED BY <1>1, <2>1, <2>2, KnownNames DEF TypeOK, NextIsKnown, Idle, Prepared
<1> QED BY <1>2, <1>3

\* What was shown and what is prepared is what was taken, the switch included.
LEMMA SwitchInv ==
    ASSUME OwnGifs, Inv, Switch
    PROVE  Inv'
<1>1. shown' = due /\ shown' \in Seq(Items)
  <2>1. CASE loading
    <3>1. next.name # "idle" /\ next \in Items
      BY <2>1, KnownNames DEF Inv, NextIsKnown, Known
    <3>2. shown' = shown \o <<next>>
      BY <3>1, AppendIsConcat DEF Switch, Inv, TypeOK
    <3> QED BY <2>1, <3>2 DEF Inv, TypeOK, NothingLost, Prepared
  <2>2. CASE ~loading
    <3>1. next.name = "idle"
      BY <2>2 DEF Inv, NextIsKnown, Idle
    <3> QED BY <2>2, <3>1, ConcatEmptySeq DEF Switch, Inv, TypeOK, NothingLost, Prepared
  <2> QED BY <2>1, <2>2 DEF Inv, TypeOK
<1>2. /\ current' \in [name : Names, data : Data \cup {NoData}]
      /\ frame' \in Nat /\ asked' \in Nat /\ FrameInAnimation'
  BY DEF Switch, Inv, TypeOK, FrameInAnimation
<1>3. CASE queue = <<>> /\ LoadIdle /\ UNCHANGED <<queue, due>>
  <2>1. next' = Idle /\ loading' = FALSE /\ Prepared' = <<>>
    BY <1>3 DEF LoadIdle, Prepared
  <2>2. NothingLost'
    BY <1>1, <1>3, <2>1, ConcatEmptySeq DEF NothingLost
  <2>3. NextIsKnown' /\ next' \in [name : Names, data : Data \cup {NoData}]
    BY <2>1, KnownNames DEF NextIsKnown, Idle
  <2>4. TypeOK'
    BY <1>1, <1>2, <1>3, <2>1, <2>3 DEF Inv, TypeOK
  <2> QED BY <1>2, <2>2, <2>3, <2>4 DEF Inv
<1>4. CASE queue # <<>> /\ ConsumeNext
  <2>1. /\ queue' \in Seq(Items)
        /\ due' \in Seq(Items)
        /\ next' \in [name : Names, data : Data \cup {NoData}]
        /\ loading' \in BOOLEAN
        /\ NextIsKnown'
        /\ due' = due \o Prepared'
    BY <1>4, ConsumePrepares DEF Inv
  <2> QED BY <1>1, <1>2, <2>1 DEF Inv, TypeOK, NothingLost
<1> QED BY <1>3, <1>4 DEF Switch

\* The next animation is only prepared while none is.
LEMMA PrepareInv ==
    ASSUME OwnGifs, Inv, Prepare
    PROVE  Inv'
<1>1. /\ queue' \in Seq(Items)
      /\ due' \in Seq(Items)
      /\ next' \in [name : Names, data : Data \cup {NoData}]
      /\ loading' \in BOOLEAN
      /\ NextIsKnown'
      /\ due' = due \o Prepared'
  BY ConsumePrepares DEF Inv, Prepare
<1>2. shown = due
  BY ConcatEmptySeq DEF Inv, TypeOK, Prepare, NothingLost, Prepared
<1>3. frame' \in Nat /\ FrameInAnimation'
  BY KnownNames DEF Inv, TypeOK, Prepare, LastFrame, FrameInAnimation
<1> QED BY <1>1, <1>2, <1>3 DEF Inv, TypeOK, Prepare, NothingLost

\* Every step keeps the invariant.
LEMMA NextInv ==
    ASSUME OwnGifs, Inv, [Next]_vars
    PROVE  Inv'
<1>1. CASE AddAnimation
  <2>1. queue' \in Seq(Items) /\ asked' \in Nat
    BY <1>1, AppendProperties DEF AddAnimation, Inv, TypeOK
  <2>2. UNCHANGED <<current, frame, next, loading, due, shown>>
    BY <1>1 DEF AddAnimation
  <2>3. TypeOK'
    BY <2>1, <2>2 DEF Inv, TypeOK
  <2> QED BY <2>2, <2>3 DEF Inv, NextIsKnown, NothingLost, Prepared, FrameInAnimation
<1>2. CASE NextFrame
  <2>1. frame' \in Nat /\ FrameInAnimation'
    BY <1>2, KnownNames DEF Inv, TypeOK, NextFrame, LastFrame, FrameInAnimation
  <2> QED BY <1>2, <2>1 DEF NextFrame, Inv, TypeOK, NextIsKnown, NothingLost, Prepared
<1>3. CASE UNCHANGED vars
  BY <1>3 DEF vars, Inv, TypeOK, NextIsKnown, NothingLost, Prepared, FrameInAnimation
<1> QED BY <1>1, <1>2, <1>3, SwitchInv, PrepareInv DEF Next, Update

\* The invariant holds throughout.
LEMMA Invariance ==
    ASSUME OwnGifs
    PROVE  Spec => []Inv
<1>1. Inv /\ [Next]_vars => Inv'
  BY NextInv
<1> QED BY InitInv, <1>1, PTL DEF Spec

-----------------------------------------------------------------------------
\* What KnownOf computes, by induction over the length of the sequence.

Plays == {i \in Items : Known(i)}

\* How the known items up to n follow from those up to n - 1.
KnownStep(s, g, n) ==
    IF n = 0 THEN <<>>
    ELSE IF Known(s[n]) THEN Append(g[n - 1], s[n])
    ELSE g[n - 1]

\* The recursion has a solution, so KnownUpTo is one.
LEMMA KnownUpToUnfolds ==
    ASSUME NEW s \in Seq(Items)
    PROVE  KnownUpTo(s) = [n \in 0..Len(s) |-> KnownStep(s, KnownUpTo(s), n)]
<1> DEFINE Solves(g, m) == g = [n \in 0..m |-> KnownStep(s, g, n)]
           Solvable == {m \in Nat : \E g : Solves(g, m)}
<1>1. 0 \in Solvable
  <2> DEFINE g == [n \in 0..0 |-> <<>>]
  <2>1. Solves(g, 0)
    BY DEF KnownStep
  <2> QED BY <2>1
<1>2. ASSUME NEW m \in Nat, m \in Solvable
      PROVE  m + 1 \in Solvable
  <2>1. PICK g : Solves(g, m)
    BY <1>2
  <2> DEFINE h == [n \in 0..(m + 1) |-> IF n <= m THEN g[n] ELSE KnownStep(s, g, n)]
  <2>2. \A n \in 0..(m + 1) : KnownStep(s, h, n) = KnownStep(s, g, n)
    BY DEF KnownStep
  <2>3. \A n \in 0..m : g[n] = KnownStep(s, g, n)
    BY <2>1
  <2> HIDE DEF Solvable
  <2>4. \A n \in 0..(m + 1) : h[n] = KnownStep(s, h, n)
    BY <2>2, <2>3
  <2>5. h = [n \in 0..(m + 1) |-> KnownStep(s, h, n)]
    BY <2>4
  <2> HIDE DEF h
  <2>6. \E k : Solves(k, m + 1)
    BY <2>5
  <2> QED BY <2>6 DEF Solvable
<1> HIDE DEF Solvable
<1>3. Len(s) \in Solvable
  BY <1>1, <1>2, InductionOverSet, LenProperties
<1>4. \E g : Solves(g, Len(s))
  BY <1>3 DEF Solvable
<1>5. KnownUpTo(s) = CHOOSE g : Solves(g, Len(s))
  BY DEF KnownUpTo, KnownStep
<1> HIDE DEF Solves
<1>6. Solves(KnownUpTo(s), Len(s))
  BY <1>4, <1>5
<1> QED BY <1>6 DEF Solves

\* The known items are items, whatever part of the sequence is looked at.
LEMMA KnownUpToType ==
    ASSUME NEW s \in Seq(Items)
    PROVE  KnownUpTo(s) \in [0..Len(s) -> Seq(Plays)]
<1> DEFINE f == KnownUpTo(s)
           Good == {n \in Nat : n <= Len(s) => f[n] \in Seq(Plays)}
<1>1. \A n \in 0..Len(s) : f[n] = KnownStep(s, f, n)
  BY KnownUpToUnfolds
<1>2. f = [n \in 0..Len(s) |-> f[n]]
  BY KnownUpToUnfolds
<1> HIDE DEF f
<1>3. Len(s) \in Nat /\ \A n \in 1..Len(s) : s[n] \in Items
  BY LenProperties, ElementOfSeq
<1>4. 0 \in Good
  <2>1. f[0] = <<>>
    BY <1>1, <1>3 DEF KnownStep
  <2>2. <<>> \in Seq(Plays)
    BY EmptySeq
  <2> QED BY <2>1, <2>2
<1>5. ASSUME NEW n \in Nat, n \in Good
      PROVE  n + 1 \in Good
  <2> SUFFICES ASSUME n + 1 <= Len(s) PROVE f[n + 1] \in Seq(Plays)
    OBVIOUS
  <2>1. f[n] \in Seq(Plays)
    BY <1>3, <1>5
  <2>2. /\ n + 1 \in 0..Len(s) /\ n + 1 \in 1..Len(s)
        /\ n + 1 # 0 /\ (n + 1) - 1 = n
    BY <1>3
  <2>3. f[n + 1] = IF Known(s[n + 1]) THEN Append(f[n], s[n + 1]) ELSE f[n]
    BY <1>1, <2>2 DEF KnownStep
  <2>4. Known(s[n + 1]) => Append(f[n], s[n + 1]) \in Seq(Plays)
    BY <1>3, <2>1, <2>2, AppendProperties DEF Plays
  <2> QED BY <2>1, <2>3, <2>4
<1>6. \A n \in Nat : n \in Good
  <2> HIDE DEF Good
  <2> QED BY <1>4, <1>5, InductionOverSet
<1>7. \A n \in 0..Len(s) : f[n] \in Seq(Plays)
  BY <1>3, <1>6
<1> QED BY <1>2, <1>7 DEF f

LEMMA KnownOfType ==
    ASSUME NEW s \in Seq(Items)
    PROVE  KnownOf(s) \in Seq(Plays)
BY KnownUpToType, LenProperties DEF KnownOf

LEMMA KnownOfEmpty == KnownOf(<<>>) = <<>>
<1>1. <<>> \in Seq(Items) /\ Len(<<>>) = 0
  BY EmptySeq
<1>2. KnownUpTo(<<>>) = [n \in 0..0 |-> KnownStep(<<>>, KnownUpTo(<<>>), n)]
  BY <1>1, KnownUpToUnfolds
<1>3. KnownUpTo(<<>>)[0] = KnownStep(<<>>, KnownUpTo(<<>>), 0)
  BY <1>2
<1>4. KnownStep(<<>>, KnownUpTo(<<>>), 0) = <<>>
  BY DEF KnownStep
<1> QED BY <1>1, <1>3, <1>4 DEF KnownOf

\* Two sequences that agree up to n have the same known items up to n.
LEMMA KnownUpToAgrees ==
    ASSUME NEW s \in Seq(Items), NEW t \in Seq(Items), NEW k \in Nat,
           k <= Len(s), k <= Len(t), \A n \in 1..k : s[n] = t[n]
    PROVE  KnownUpTo(s)[k] = KnownUpTo(t)[k]
<1> DEFINE f == KnownUpTo(s)
           g == KnownUpTo(t)
           Same == {n \in Nat : n <= k => f[n] = g[n]}
<1>1. /\ \A n \in 0..Len(s) : f[n] = KnownStep(s, f, n)
      /\ \A n \in 0..Len(t) : g[n] = KnownStep(t, g, n)
  BY KnownUpToUnfolds
<1> HIDE DEF f, g
<1>2. Len(s) \in Nat /\ Len(t) \in Nat
  BY LenProperties
<1>3. 0 \in Same
  BY <1>1, <1>2 DEF KnownStep
<1>4. ASSUME NEW n \in Nat, n \in Same
      PROVE  n + 1 \in Same
  <2> SUFFICES ASSUME n + 1 <= k PROVE f[n + 1] = g[n + 1]
    OBVIOUS
  <2>1. f[n] = g[n]
    BY <1>4
  <2>2. /\ n + 1 \in 0..Len(s) /\ n + 1 \in 0..Len(t) /\ n + 1 \in 1..k
        /\ n + 1 # 0 /\ (n + 1) - 1 = n
    BY <1>2
  <2>3. s[n + 1] = t[n + 1]
    BY <2>2
  <2> QED BY <1>1, <2>1, <2>2, <2>3 DEF KnownStep
<1>5. \A n \in Nat : n \in Same
  <2> HIDE DEF Same
  <2> QED BY <1>3, <1>4, InductionOverSet
<1> QED BY <1>5 DEF f, g

\* An item added to the queue is one more to show, if it is known.
LEMMA KnownOfAppend ==
    ASSUME NEW s \in Seq(Items), NEW item \in Items
    PROVE  KnownOf(Append(s, item)) =
               IF Known(item) THEN Append(KnownOf(s), item) ELSE KnownOf(s)
<1> DEFINE t == Append(s, item)
<1>1. /\ t \in Seq(Items) /\ Len(t) = Len(s) + 1 /\ t[Len(s) + 1] = item
      /\ \A n \in 1..Len(s) : t[n] = s[n]
  BY AppendProperties
<1>2. Len(s) \in Nat
  BY LenProperties
<1> HIDE DEF t
<1>3. KnownUpTo(t)[Len(t)] = KnownStep(t, KnownUpTo(t), Len(t))
  BY <1>1, <1>2, KnownUpToUnfolds
<1>4. KnownUpTo(t)[Len(s)] = KnownOf(s)
  BY <1>1, <1>2, KnownUpToAgrees DEF KnownOf
<1>5. Len(t) # 0 /\ Len(t) - 1 = Len(s)
  BY <1>1, <1>2
<1>6. KnownOf(t) = IF Known(item) THEN Append(KnownOf(s), item) ELSE KnownOf(s)
  BY <1>1, <1>3, <1>4, <1>5 DEF KnownOf, KnownStep
<1> QED BY <1>6 DEF t

\* Concatenations of what is to be shown may be read either way.
LEMMA PlaysReassociate ==
    ASSUME NEW a \in Seq(Plays), NEW b \in Seq(Plays), NEW c \in Seq(Plays)
    PROVE  (a \o b) \o c = a \o (b \o c)
<1> HIDE DEF Plays
<1> QED BY ConcatAssociative

\* The item taken from the queue was the first to show, if it is known.
LEMMA KnownOfTail ==
    ASSUME NEW s \in Seq(Items), s # <<>>
    PROVE  KnownOf(s) = (IF Known(Head(s)) THEN <<Head(s)>> ELSE <<>>)
                            \o KnownOf(Tail(s))
<1> DEFINE t == Tail(s)
           first == IF Known(Head(s)) THEN <<Head(s)>> ELSE <<>>
           f == KnownUpTo(s)
           g == KnownUpTo(t)
           Shifted == {n \in Nat : n <= Len(t) => f[n + 1] = first \o g[n]}
<1>1. /\ t \in Seq(Items) /\ Len(s) = Len(t) + 1 /\ Len(t) \in Nat
      /\ Head(s) = s[1] /\ Head(s) \in Items
      /\ \A n \in 1..Len(t) : t[n] = s[n + 1] /\ t[n] \in Items
  BY HeadTailProperties, LenProperties, ElementOfSeq
<1>2. /\ \A n \in 0..Len(s) : f[n] = KnownStep(s, f, n)
      /\ \A n \in 0..Len(t) : g[n] = KnownStep(t, g, n)
      /\ \A n \in 0..Len(t) : g[n] \in Seq(Plays)
  BY <1>1, KnownUpToUnfolds, KnownUpToType
<1>3. first \in Seq(Plays) /\ first \o <<>> = first
  <2>1. Known(Head(s)) => <<Head(s)>> \in Seq(Plays)
    BY <1>1 DEF Plays
  <2>2. <<>> \in Seq(Plays)
    BY EmptySeq
  <2>3. first \in Seq(Plays)
    BY <2>1, <2>2
  <2> QED BY <2>3, ConcatEmptySeq
<1>4. f[1] = first
  <2> HIDE DEF f, t, first
  <2>0. 0 \in 0..Len(s) /\ 1 \in 0..Len(s) /\ 1 # 0 /\ 1 - 1 = 0
    BY <1>1
  <2>1. f[0] = <<>> /\ f[1] = IF Known(s[1]) THEN Append(<<>>, s[1]) ELSE <<>>
    BY <1>2, <2>0 DEF KnownStep
  <2>2. Append(<<>>, s[1]) = <<s[1]>>
    BY <1>1
  <2> QED BY <1>1, <2>1, <2>2 DEF first
<1> HIDE DEF t, first, f, g
<1>5. 0 \in Shifted
  <2>1. g[0] = <<>>
    BY <1>1, <1>2 DEF KnownStep
  <2> QED BY <1>3, <1>4, <2>1
<1>6. ASSUME NEW n \in Nat, n \in Shifted
      PROVE  n + 1 \in Shifted
  <2> SUFFICES ASSUME n + 1 <= Len(t)
               PROVE  f[n + 2] = first \o g[n + 1]
    BY <1>1
  <2>1. f[n + 1] = first \o g[n] /\ g[n] \in Seq(Plays)
    BY <1>1, <1>2, <1>6
  <2>2. /\ n + 2 \in 0..Len(s) /\ n + 1 \in 0..Len(t) /\ n + 1 \in 1..Len(t)
        /\ n + 2 # 0 /\ (n + 2) - 1 = n + 1
        /\ n + 1 # 0 /\ (n + 1) - 1 = n /\ (n + 1) + 1 = n + 2
    BY <1>1
  <2>3. t[n + 1] = s[n + 2] /\ t[n + 1] \in Items
    BY <1>1, <2>2
  <2>4. /\ f[n + 2] = IF Known(s[n + 2]) THEN Append(f[n + 1], s[n + 2]) ELSE f[n + 1]
        /\ g[n + 1] = IF Known(t[n + 1]) THEN Append(g[n], t[n + 1]) ELSE g[n]
    BY <1>2, <2>2 DEF KnownStep
  <2>5. Append(first \o g[n], t[n + 1]) = first \o Append(g[n], t[n + 1])
        \/ ~Known(t[n + 1])
    <3> SUFFICES ASSUME Known(t[n + 1])
                 PROVE  Append(first \o g[n], t[n + 1]) = first \o Append(g[n], t[n + 1])
      OBVIOUS
    <3>1. t[n + 1] \in Plays /\ <<t[n + 1]>> \in Seq(Plays)
      BY <2>3 DEF Plays
    <3>2. Append(g[n], t[n + 1]) = g[n] \o <<t[n + 1]>>
      BY <2>1, <3>1, AppendIsConcat
    <3>3. Append(first \o g[n], t[n + 1]) = (first \o g[n]) \o <<t[n + 1]>>
      BY <1>3, <2>1, <3>1, AppendIsConcat, ConcatProperties
    <3>4. (first \o g[n]) \o <<t[n + 1]>> = first \o (g[n] \o <<t[n + 1]>>)
      <4> DEFINE last == <<t[n + 1]>>
                 gn == g[n]
      <4>1. gn \in Seq(Plays) /\ last \in Seq(Plays)
        BY <2>1, <3>1
      <4> HIDE DEF last, gn
      <4>2. (first \o gn) \o last = first \o (gn \o last)
        BY <1>3, <4>1, PlaysReassociate
      <4> QED BY <4>2 DEF last, gn
    <3> QED BY <3>2, <3>3, <3>4
  <2> QED BY <2>1, <2>3, <2>4, <2>5
<1>7. \A n \in Nat : n \in Shifted
  <2> HIDE DEF Shifted
  <2> QED BY <1>5, <1>6, InductionOverSet
<1>8. f[Len(s)] = first \o g[Len(t)]
  BY <1>1, <1>7
<1> QED BY <1>8 DEF KnownOf, f, g, t, first
-----------------------------------------------------------------------------
\* Every variable keeps its shape.
THEOREM TypeCorrect ==
    ASSUME OwnGifs
    PROVE  Spec => []TypeOK
<1>1. Inv => TypeOK
  BY DEF Inv
<1>2. Spec => []Inv
  BY Invariance
<1> QED BY <1>1, <1>2, PTL

\* What the pet has taken from its queue it has shown, in that order and each
\* once, but for the one it has prepared (StreamPet.py:175-204 and 217-254).
THEOREM NothingLostHolds ==
    ASSUME OwnGifs
    PROVE  Spec => []NothingLost
<1>1. Inv => NothingLost
  BY DEF Inv
<1>2. Spec => []Inv
  BY Invariance
<1> QED BY <1>1, <1>2, PTL

\* The frame counter never leaves the animation (StreamPet.py:217-254).
THEOREM FrameInAnimationHolds ==
    ASSUME OwnGifs
    PROVE  Spec => []FrameInAnimation
<1>1. Inv => FrameInAnimation
  BY DEF Inv
<1>2. Spec => []Inv
  BY Invariance
<1> QED BY <1>1, <1>2, PTL

-----------------------------------------------------------------------------
\* What the playlist sees of the state.
Waiting == Prepared \o KnownOf(queue)

LEMMA KnownItemIsPlay ==
    ASSUME NEW item \in Items
    PROVE  Known(item) <=> item \in Plays
BY DEF Plays

\* The prepared animation is one the playlist knows.
LEMMA PreparedType ==
    ASSUME Inv
    PROVE  /\ Prepared \in Seq(Plays)
           /\ loading => Prepared = <<next>> /\ next \in Plays
           /\ ~loading => Prepared = <<>>
<1>1. CASE loading
  BY <1>1 DEF Inv, NextIsKnown, Prepared, Plays
<1>2. CASE ~loading
  BY <1>2, EmptySeq DEF Prepared
<1> QED BY <1>1, <1>2

\* _consume_next_from_queue prepares the first known item or, if the first
\* item is unknown, drops it: with nothing prepared before, what waits to be
\* shown is what the queue held.
LEMMA ConsumeKeepsWaiting ==
    ASSUME OwnGifs, TypeOK, queue # <<>>, ConsumeNext
    PROVE  Waiting' = KnownOf(queue)
<1> DEFINE item == Head(queue)
<1>1. item \in Items /\ queue' = Tail(queue)
  BY HeadTailProperties DEF TypeOK, ConsumeNext
<1>2. KnownOf(queue) = (IF Known(item) THEN <<item>> ELSE <<>>) \o KnownOf(queue')
  BY <1>1, KnownOfTail DEF TypeOK
<1>3. CASE Known(item)
  <2>1. item.name \in Animations /\ NameOf(Gif[item.name]) = item.name
    BY <1>3, NameOfGif DEF Known
  <2>2. item.name # "idle"
    BY <2>1, KnownNames
  <2>3. next' = item /\ loading' = TRUE
    BY <1>1, <1>3, <2>1, <2>2 DEF ConsumeNext, LoadGif, Play, Items
  <2> QED BY <1>2, <1>3, <2>3 DEF Waiting, Prepared
<1>4. CASE ~Known(item)
  BY <1>2, <1>4 DEF ConsumeNext, LoadIdle, Waiting, Prepared
<1> QED BY <1>3, <1>4

\* Asking for a configured animation puts it last in line, asking for another
\* one changes nothing a viewer sees (StreamPet.py:206-215).
LEMMA AddIsAsk ==
    ASSUME Inv, AddAnimation
    PROVE  \/ \E p \in Plays : Waiting' = Append(Waiting, p) /\ shown' = shown
           \/ Waiting' = Waiting /\ shown' = shown
<1>1. PICK item \in Items : queue' = Append(queue, item)
  BY DEF AddAnimation
<1>2. Prepared' = Prepared /\ shown' = shown
  BY DEF AddAnimation, Prepared
<1>3. KnownOf(queue') =
          IF Known(item) THEN Append(KnownOf(queue), item) ELSE KnownOf(queue)
  BY <1>1, KnownOfAppend DEF Inv, TypeOK
<1>4. CASE Known(item)
  <2>1. item \in Plays
    BY <1>4, KnownItemIsPlay
  <2>2. KnownOf(queue) \in Seq(Plays) /\ Prepared \in Seq(Plays)
    BY KnownOfType, PreparedType DEF Inv, TypeOK
  <2> DEFINE last == <<item>>
  <2>3. last \in Seq(Plays)
    BY <2>1
  <2>4. Append(KnownOf(queue), item) = KnownOf(queue) \o last
    BY <2>1, <2>2, AppendIsConcat
  <2>5. Append(Waiting, item) = Waiting \o last
    BY <2>1, <2>2, AppendIsConcat, ConcatProperties DEF Waiting
  <2> HIDE DEF last
  <2>6. Prepared \o (KnownOf(queue) \o last) = (Prepared \o KnownOf(queue)) \o last
    BY <2>2, <2>3, ConcatAssociative
  <2>7. Waiting' = Append(Waiting, item)
    BY <1>2, <1>3, <1>4, <2>4, <2>5, <2>6 DEF Waiting
  <2> QED BY <1>2, <2>1, <2>7
<1>5. CASE ~Known(item)
  BY <1>2, <1>3, <1>5 DEF Waiting
<1> QED BY <1>4, <1>5

\* The switch shows the first in line; if nothing is prepared it shows "idle",
\* which is no play (StreamPet.py:232-248).
LEMMA SwitchIsShow ==
    ASSUME OwnGifs, Inv, Switch
    PROVE  \/ /\ Waiting # <<>>
              /\ shown' = Append(shown, Head(Waiting))
              /\ Waiting' = Tail(Waiting)
           \/ Waiting' = Waiting /\ shown' = shown
<1>1. KnownOf(queue) \in Seq(Plays)
  BY KnownOfType DEF Inv, TypeOK
<1>2. Waiting' = KnownOf(queue)
  <2>1. CASE queue = <<>> /\ LoadIdle /\ UNCHANGED <<queue, due>>
    <3>1. Prepared' = <<>> /\ queue' = queue
      BY <2>1 DEF LoadIdle, Prepared
    <3> QED BY <1>1, <3>1, ConcatEmptySeq DEF Waiting
  <2>2. CASE queue # <<>> /\ ConsumeNext
    BY <2>2, ConsumeKeepsWaiting DEF Inv
  <2> QED BY <2>1, <2>2 DEF Switch
<1>3. CASE loading
  <2>1. next.name # "idle"
    BY <1>3, KnownNames DEF Inv, NextIsKnown, Known
  <2>2. shown' = Append(shown, next)
    BY <2>1 DEF Switch
  <2>3. Waiting = <<next>> \o KnownOf(queue) /\ next \in Plays
    BY <1>3, PreparedType DEF Waiting
  <2>4. Waiting # <<>> /\ Head(Waiting) = next /\ Tail(Waiting) = KnownOf(queue)
    BY <1>1, <2>3
  <2> QED BY <1>2, <2>2, <2>4
<1>4. CASE ~loading
  <2>1. shown' = shown
    BY <1>4 DEF Inv, NextIsKnown, Idle, Switch
  <2>2. Waiting = KnownOf(queue)
    BY <1>1, <1>4, PreparedType, ConcatEmptySeq DEF Waiting
  <2> QED BY <1>2, <2>1, <2>2
<1> QED BY <1>3, <1>4

\* Preparing an animation is not visible.
LEMMA PrepareIsInvisible ==
    ASSUME OwnGifs, Inv, Prepare
    PROVE  Waiting' = Waiting /\ shown' = shown
<1>1. Waiting' = KnownOf(queue) /\ shown' = shown
  BY ConsumeKeepsWaiting DEF Inv, Prepare
<1>2. KnownOf(queue) \in Seq(Plays)
  BY KnownOfType DEF Inv, TypeOK
<1>3. Waiting = KnownOf(queue)
  BY <1>2, PreparedType, ConcatEmptySeq DEF Prepare, Waiting
<1> QED BY <1>1, <1>3

\* Every step of the pet is a step of the playlist or invisible.
LEMMA StepIsPlaylistStep ==
    ASSUME OwnGifs, Inv, [Next]_vars
    PROVE  [PL!Next]_<<Waiting, shown>>
<1>1. CASE AddAnimation
  <2>1. ASSUME NEW p \in Plays, Waiting' = Append(Waiting, p), shown' = shown
        PROVE  PL!Next
    BY <2>1 DEF PL!Next, PL!Ask, Plays, Waiting
  <2> QED BY <1>1, <2>1, AddIsAsk
<1>2. CASE Switch
  <2>1. ASSUME Waiting # <<>>, shown' = Append(shown, Head(Waiting)),
               Waiting' = Tail(Waiting)
        PROVE  PL!Next
    BY <2>1 DEF PL!Next, PL!Show, Waiting
  <2> QED BY <1>2, <2>1, SwitchIsShow
<1>3. CASE Prepare
  BY <1>3, PrepareIsInvisible
<1>4. CASE NextFrame \/ UNCHANGED vars
  BY <1>4 DEF NextFrame, vars, Waiting, Prepared
<1> QED BY <1>1, <1>2, <1>3, <1>4 DEF Next, Update

\* The pet shows what is asked for, each ask once and in its turn: seen from
\* outside it is a playlist (StreamPet.py:175-254).
THEOREM ImplementsPlaylistHolds ==
    ASSUME OwnGifs
    PROVE  Spec => ImplementsPlaylist
<1>1. Init => PL!Init
  <2> SUFFICES ASSUME Init PROVE PL!Init
    OBVIOUS
  <2>1. Prepared = <<>> /\ KnownOf(queue) = <<>> /\ shown = <<>>
    BY KnownOfEmpty DEF Init, Prepared
  <2>2. <<>> \o <<>> = <<>>
    BY EmptySeq, ConcatEmptySeq
  <2> QED BY <2>1, <2>2 DEF PL!Init
<1>2. Inv /\ [Next]_vars => [PL!Next]_<<Waiting, shown>>
  BY StepIsPlaylistStep
<1>3. Spec => []Inv
  BY Invariance
<1> QED BY <1>1, <1>2, <1>3, PTL DEF Spec, ImplementsPlaylist, PL!Spec, Waiting
=============================================================================
