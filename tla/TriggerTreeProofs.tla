------------------------- MODULE TriggerTreeProofs -------------------------
(***************************************************************************)
(* What evaluate_when makes of a tree, for every tree that from_dict returns: *)
(*                                                                         *)
(*   - induction for sets of numbers, and of the elements of a well-founded   *)
(*     relation, since the theorems of the library take a predicate P(_),     *)
(*     which the provers cannot instantiate; and that a recursion along such  *)
(*     a relation has a solution;                                            *)
(*   - lemmas about one node, and then about the nodes of a tree T, given     *)
(*     the results V of its leaves: they are typed, the recursion has them    *)
(*     as its only solution (SolutionEvaluates), and a tree holds as it is    *)
(*     meant (NodesMean);                                                   *)
(*   - the theorems about TriggerEvaluation, which give T and V their values. *)
(*                                                                         *)
(* The first two parts name no variable of TriggerEvaluation and use nothing  *)
(* of its assumption; EventPipelineProofs rests on them too.                 *)
(***************************************************************************)
EXTENDS TriggerEvaluation, SequenceTheorems, WellFoundedInduction, TLAPS

NatLess == OpToRel(<, Nat)

LEMMA NatLessPairs ==
    ASSUME NEW m \in Nat, NEW n \in Nat, m < n
    PROVE  <<m, n>> \in NatLess
BY DEF NatLess, OpToRel

\* A set of numbers that is not empty has a least element.
LEMMA LeastElement ==
    ASSUME NEW T, T \subseteq Nat, T # {}
    PROVE  \E n \in T : \A m \in T : n <= m
<1>1. IsWellFoundedOn(NatLess, Nat)
  BY NatLessThanWellFounded DEF NatLess
<1>2. PICK n \in T : \A m \in T : ~ (<<m, n>> \in NatLess)
  BY <1>1, WFMin
<1>3. \A m \in T : ~ (m < n)
  BY <1>2, NatLessPairs
<1>4. \A m \in T : n <= m
  BY <1>3
<1> QED BY <1>4

\* A set with 0 that is closed under successor holds every number.
LEMMA InductionOverSet ==
    ASSUME NEW S, 0 \in S, \A n \in Nat : n \in S => n + 1 \in S
    PROVE  \A n \in Nat : n \in S
<1> DEFINE T == Nat \ S
<1> SUFFICES ASSUME T # {} PROVE FALSE
  OBVIOUS
<1>1. PICK n \in T : \A m \in T : n <= m
  BY LeastElement
<1>2. n # 0 /\ n - 1 \in Nat
  OBVIOUS
<1>3. n - 1 \notin T
  BY <1>1, <1>2
<1>4. n - 1 \in S
  BY <1>2, <1>3
<1>5. (n - 1) + 1 \in S
  BY <1>2, <1>4
<1> QED BY <1>1, <1>5
-----------------------------------------------------------------------------
\* Below[p] is what p is defined from, and no descent along Below goes on for ever:
\* every set of elements has one with nothing of the set below it.
Founded(D, Below) ==
    \A S \in SUBSET D : S # {} => \E p \in S : Below[p] \cap S = {}

\* What holds of an element whenever it holds of all below it holds of every one.
LEMMA FoundedInduction ==
    ASSUME NEW D, NEW Below, Founded(D, Below), NEW S,
           \A p \in D : (\A q \in Below[p] \cap D : q \in S) => p \in S
    PROVE  \A p \in D : p \in S
<1> SUFFICES ASSUME D \ S # {} PROVE FALSE
  OBVIOUS
<1>1. PICK p \in D \ S : Below[p] \cap (D \ S) = {}
  BY DEF Founded
<1> QED BY <1>1

\* Pairs whose first components are ordered so are founded as these are.
BelowFirst(D, Below, A) == [p \in D \X A |-> Below[p[1]] \X A]

LEMMA FoundedPairs ==
    ASSUME NEW D, NEW Below, Founded(D, Below), NEW A
    PROVE  Founded(D \X A, BelowFirst(D, Below, A))
<1> SUFFICES ASSUME NEW S \in SUBSET (D \X A), S # {}
             PROVE  \E p \in S : (Below[p[1]] \X A) \cap S = {}
  BY DEF Founded, BelowFirst
<1> DEFINE T == {p[1] : p \in S}
<1>1. T \in SUBSET D /\ T # {}
  OBVIOUS
<1>2. PICK n \in T : Below[n] \cap T = {}
  BY <1>1 DEF Founded
<1>3. PICK p \in S : p[1] = n
  BY <1>2
<1>4. (Below[n] \X A) \cap S = {}
  BY <1>2
<1> QED BY <1>3, <1>4

\* A recursive definition: B[<<p, F>>] is what it makes of p when F is what it makes
\* of everything, and depends on what F makes of the elements below p only.
Recursion(D, R, Below, B) ==
    /\ R # {}
    /\ Founded(D, Below)
    /\ \A p \in D : Below[p] \subseteq D
    /\ \A p \in D : \A F \in [D -> R] : B[<<p, F>>] \in R
    /\ \A p \in D : \A F, G \in [D -> R] :
           (\A q \in Below[p] : F[q] = G[q]) => B[<<p, F>>] = B[<<p, G>>]

\* It has a solution.
LEMMA FoundedRecursion ==
    ASSUME NEW D, NEW R, NEW Below, NEW B, Recursion(D, R, Below, B)
    PROVE  \E F \in [D -> R] : \A p \in D : F[p] = B[<<p, F>>]
<1> USE DEF Recursion
<1> PICK r0 \in R : TRUE
  OBVIOUS
<1> DEFINE Closed(C) == C \subseteq D /\ \A p \in C : Below[p] \subseteq C
           Solves(F, C) == F \in [D -> R] /\ Closed(C) /\ \A p \in C : F[p] = B[<<p, F>>]
           U == {p \in D : \E C, F : Solves(F, C) /\ p \in C}
           Value(p) == CHOOSE v : \E C, F : Solves(F, C) /\ p \in C /\ v = F[p]
           Y == [p \in D |-> IF p \in U THEN Value(p) ELSE r0]
<1>1. ASSUME NEW C1, NEW F1, Solves(F1, C1), NEW C2, NEW F2, Solves(F2, C2)
      PROVE  \A p \in C1 \cap C2 : F1[p] = F2[p]
  <2> DEFINE S == {p \in C1 \cap C2 : F1[p] # F2[p]}
  <2> SUFFICES ASSUME S # {} PROVE FALSE
    OBVIOUS
  <2>1. PICK p \in S : Below[p] \cap S = {}
    BY <1>1 DEF Founded
  <2>2. \A q \in Below[p] : F1[q] = F2[q]
    BY <1>1, <2>1
  <2>3. B[<<p, F1>>] = B[<<p, F2>>]
    BY <1>1, <2>2
  <2> QED BY <1>1, <2>3
<1>2. ASSUME NEW C, NEW F, Solves(F, C)
      PROVE  \A p \in C : p \in U /\ Y[p] = F[p]
  <2> SUFFICES ASSUME NEW p \in C PROVE p \in U /\ Y[p] = F[p]
    OBVIOUS
  <2>1. p \in U
    BY <1>2
  <2> HIDE DEF Solves
  <2>2. \E v : \E K, G : Solves(G, K) /\ p \in K /\ v = G[p]
    BY <1>2
  <2>3. PICK K, G : Solves(G, K) /\ p \in K /\ Value(p) = G[p]
    BY <2>2
  <2>4. Value(p) = F[p]
    BY <1>1, <1>2, <2>3
  <2>5. p \in D
    BY <2>1
  <2> HIDE DEF U, Value
  <2> QED BY <2>1, <2>4, <2>5
<1>3. Solves(Y, U)
  <2>1. ASSUME NEW p \in U
        PROVE  \E C, F : Solves(F, C) /\ p \in C
    BY <2>1
  <2>2. U \subseteq D
    OBVIOUS
  <2>3. \A p \in D : Y[p] = IF p \in U THEN Value(p) ELSE r0
    BY DEF Y
  <2>4. Y = [p \in D |-> Y[p]]
    OBVIOUS
  <2> HIDE DEF U, Y, Value
  <2>5. \A p \in U : Y[p] \in R /\ Below[p] \subseteq U
    <3> SUFFICES ASSUME NEW p \in U PROVE Y[p] \in R /\ Below[p] \subseteq U
      OBVIOUS
    <3>1. PICK C, F : Solves(F, C) /\ p \in C
      BY <2>1
    <3>2. \A q \in C : q \in U /\ Y[q] = F[q]
      <4> HIDE DEF Solves
      <4> QED BY <1>2, <3>1
    <3> QED BY <3>1, <3>2, <2>2
  <2>6. Y \in [D -> R]
    BY <2>3, <2>4, <2>5
  <2>7. \A p \in U : Y[p] = B[<<p, Y>>]
    <3> SUFFICES ASSUME NEW p \in U PROVE Y[p] = B[<<p, Y>>]
      OBVIOUS
    <3>1. PICK C, F : Solves(F, C) /\ p \in C
      BY <2>1
    <3>2. \A q \in C : q \in U /\ Y[q] = F[q]
      <4> HIDE DEF Solves
      <4> QED BY <1>2, <3>1
    <3>3. B[<<p, F>>] = B[<<p, Y>>]
      BY <3>1, <3>2, <2>6
    <3> QED BY <3>1, <3>2, <3>3
  <2> QED BY <2>2, <2>5, <2>6, <2>7
<1>4. U = D
  <2> SUFFICES ASSUME D \ U # {} PROVE FALSE
    OBVIOUS
  <2>1. PICK p \in D \ U : Below[p] \cap (D \ U) = {}
    BY DEF Founded
  <2>2. Below[p] \subseteq U
    BY <2>1
  <2> HIDE DEF U, Y
  <2> DEFINE G == [Y EXCEPT ![p] = B[<<p, Y>>]]
             C == U \cup {p}
  <2>3. G \in [D -> R] /\ Closed(C)
    BY <1>3, <2>1, <2>2
  <2>4. G[p] = B[<<p, Y>>] /\ \A q \in U : G[q] = Y[q]
    BY <1>3, <2>1
  <2>5. \A q \in C : B[<<q, G>>] = B[<<q, Y>>]
    BY <1>3, <2>1, <2>2, <2>3, <2>4
  <2>6. \A q \in C : G[q] = B[<<q, G>>]
    BY <1>3, <2>4, <2>5
  <2>7. Solves(G, C) /\ p \in C
    BY <2>3, <2>6
  <2> HIDE DEF G, C, Solves
  <2>8. p \in U
    BY <1>2, <2>7
  <2> QED BY <2>1, <2>8
<1> HIDE DEF U, Y, Value
<1> QED BY <1>3, <1>4
-----------------------------------------------------------------------------
(* Trigger trees: evaluate_when *)

\* What args may be, and what evaluating a node may return.
ArgsValues == Commands \cup {NoArgs}
Results == [holds : BOOLEAN, args : ArgsValues]
Evaluations == [Nodes \X ArgsValues -> Results]

\* The first n children, given what the first n - 1 make of the node.
ChildrenAt(kids, found, a, E, first, n) ==
    IF n = 0 THEN [holds |-> ~found, args |-> a, stop |-> FALSE]
    ELSE IF first[n - 1].stop THEN first[n - 1]
    ELSE Step(found, E[<<kids[n], first[n - 1].args>>])

ChildrenUpTo(kids, found, a, E) ==
    CHOOSE first : first = [n \in 0..Len(kids) |-> ChildrenAt(kids, found, a, E, first, n)]

Partial == [holds : BOOLEAN, args : ArgsValues, stop : BOOLEAN]

\* The recursion over the children has a solution.
LEMMA ChildrenUnfold ==
    ASSUME NEW kids \in Seq(Nodes), NEW found \in BOOLEAN, NEW a \in ArgsValues,
           NEW E \in Evaluations
    PROVE  LET first == ChildrenUpTo(kids, found, a, E)
           IN  /\ Children(kids, found, a, E) = first[Len(kids)]
               /\ first \in [0..Len(kids) -> Partial]
               /\ \A n \in 0..Len(kids) : first[n] = ChildrenAt(kids, found, a, E, first, n)
<1> DEFINE D == 0..Len(kids)
           Before == [n \in D |-> 0..(n - 1)]
           B == [x \in D \X [D -> Partial] |-> ChildrenAt(kids, found, a, E, x[2], x[1])]
           None == [holds |-> ~found, args |-> a, stop |-> FALSE]
<1>1. Len(kids) \in Nat /\ \A n \in 1..Len(kids) : kids[n] \in Nodes
  BY LenProperties, ElementOfSeq
<1>2. None \in Partial
  BY DEF Partial
<1>3. Founded(D, Before)
  <2> SUFFICES ASSUME NEW S \in SUBSET D, S # {}
               PROVE  \E p \in S : Before[p] \cap S = {}
    BY DEF Founded
  <2>1. S \subseteq Nat
    BY <1>1
  <2>2. PICK p \in S : \A m \in S : p <= m
    BY <2>1, LeastElement
  <2> QED BY <2>1, <2>2
<1>4. \A n \in D : Before[n] \subseteq D
  BY <1>1
<1>5. ASSUME NEW n \in D, NEW first \in [D -> Partial]
      PROVE  ChildrenAt(kids, found, a, E, first, n) \in Partial
  <2>1. CASE n = 0
    BY <1>2, <2>1 DEF ChildrenAt
  <2>2. CASE n # 0
    <3>1. n - 1 \in D /\ kids[n] \in Nodes
      BY <1>1, <2>2
    <3>2. first[n - 1] \in Partial
      BY <3>1
    <3>3. first[n - 1].args \in ArgsValues
      BY <3>2 DEF Partial
    <3>4. E[<<kids[n], first[n - 1].args>>] \in Results
      BY <3>1, <3>3 DEF Evaluations
    <3>5. \A r \in Results : Step(found, r) \in Partial
      BY DEF Results, Partial, Step
    <3> QED BY <2>2, <3>2, <3>4, <3>5 DEF ChildrenAt
  <2> QED BY <2>1, <2>2
<1>6. \A n \in D : \A first \in [D -> Partial] :
        B[<<n, first>>] = ChildrenAt(kids, found, a, E, first, n)
  OBVIOUS
<1>7. ASSUME NEW n \in D, NEW f \in [D -> Partial], NEW g \in [D -> Partial],
             \A q \in Before[n] : f[q] = g[q]
      PROVE  B[<<n, f>>] = B[<<n, g>>]
  <2>1. n # 0 => n - 1 \in Before[n]
    BY <1>1
  <2>2. n # 0 => f[n - 1] = g[n - 1]
    BY <1>7, <2>1
  <2>3. ChildrenAt(kids, found, a, E, f, n) = ChildrenAt(kids, found, a, E, g, n)
    BY <2>2 DEF ChildrenAt
  <2> HIDE DEF B
  <2> QED BY <1>6, <2>3
<1> HIDE DEF B, None, Before
<1>8. \E f \in [D -> Partial] : \A n \in D : f[n] = B[<<n, f>>]
  <2>1. \A n \in D : \A f \in [D -> Partial] : B[<<n, f>>] \in Partial
    BY <1>5, <1>6
  <2>2. \A n \in D : \A f, g \in [D -> Partial] :
           (\A q \in Before[n] : f[q] = g[q]) => B[<<n, f>>] = B[<<n, g>>]
    BY <1>7
  <2> HIDE DEF D
  <2>3. Recursion(D, Partial, Before, B)
    BY <1>2, <1>3, <1>4, <2>1, <2>2 DEF Recursion
  <2> QED BY <2>3, FoundedRecursion
<1>9. PICK f \in [D -> Partial] : \A n \in D : f[n] = ChildrenAt(kids, found, a, E, f, n)
  BY <1>6, <1>8
<1>10. f = [n \in 0..Len(kids) |-> ChildrenAt(kids, found, a, E, f, n)]
  BY <1>9
<1> DEFINE first == ChildrenUpTo(kids, found, a, E)
<1>11. first = [n \in 0..Len(kids) |-> ChildrenAt(kids, found, a, E, first, n)]
  BY <1>10 DEF ChildrenUpTo
<1>12. Children(kids, found, a, E) = first[Len(kids)]
  BY DEF Children, ChildrenUpTo, ChildrenAt
<1> HIDE DEF first
<1>13. \A n \in D : first[n] = ChildrenAt(kids, found, a, E, first, n)
  BY <1>11
<1>14. first \in [D -> Partial]
  <2> DEFINE Typed == {n \in Nat : n \in D => first[n] \in Partial}
  <2>1. 0 \in Typed
    BY <1>1, <1>2, <1>13 DEF ChildrenAt, None
  <2>2. ASSUME NEW n \in Nat, n \in Typed
        PROVE  n + 1 \in Typed
    <3> SUFFICES ASSUME n + 1 \in D PROVE first[n + 1] \in Partial
      OBVIOUS
    <3>1. n \in D /\ first[n] \in Partial /\ (n + 1) - 1 = n /\ n + 1 # 0
      BY <1>1, <2>2
    <3> DEFINE g == [m \in D |-> first[n]]
    <3>2. g \in [D -> Partial] /\ g[n] = first[n]
      BY <3>1
    <3>3. ChildrenAt(kids, found, a, E, g, n + 1) = ChildrenAt(kids, found, a, E, first, n + 1)
      <4> HIDE DEF g
      <4> QED BY <3>1, <3>2 DEF ChildrenAt
    <3> HIDE DEF g, D
    <3> QED BY <1>5, <1>13, <3>2, <3>3
  <2>3. \A n \in Nat : n \in Typed
    <3> HIDE DEF Typed
    <3> QED BY <2>1, <2>2, InductionOverSet
  <2>4. \A n \in D : first[n] \in Partial
    BY <1>1, <2>3
  <2> QED BY <1>11, <2>4
<1> QED BY <1>12, <1>13, <1>14 DEF first

\* Args that are there stay.
Grows(a, b) == a = b \/ a = NoArgs

\* What the children make of a node: args within W stay there and grow; and if an
\* "and" holds, each child held with args that are no more than those at the end.
LEMMA ChildrenLegal ==
    ASSUME NEW kids \in Seq(Nodes), NEW found \in BOOLEAN, NEW E \in Evaluations,
           NEW W \in SUBSET ArgsValues, NEW a \in W,
           \A k \in 1..Len(kids) : \A b \in W :
               E[<<kids[k], b>>].args \in W /\ Grows(b, E[<<kids[k], b>>].args)
    PROVE  LET r == Children(kids, found, a, E)
           IN  /\ r \in Partial /\ r.args \in W /\ Grows(a, r.args)
               /\ ~found /\ r.holds =>
                    \A k \in 1..Len(kids) : \E b \in W :
                        /\ E[<<kids[k], b>>].holds
                        /\ Grows(E[<<kids[k], b>>].args, r.args)
<1> DEFINE first == ChildrenUpTo(kids, found, a, E)
           Legal(n) == /\ first[n].args \in W /\ Grows(a, first[n].args)
                       /\ first[n].stop = (first[n].holds = found)
                       /\ ~found /\ first[n].holds =>
                            \A k \in 1..n : \E b \in W :
                                /\ E[<<kids[k], b>>].holds
                                /\ Grows(E[<<kids[k], b>>].args, first[n].args)
           S == {n \in Nat : n <= Len(kids) => Legal(n)}
<1>1. Len(kids) \in Nat /\ \A n \in 1..Len(kids) : kids[n] \in Nodes
  BY LenProperties, ElementOfSeq
<1>2. /\ Children(kids, found, a, E) = first[Len(kids)]
      /\ first \in [0..Len(kids) -> Partial]
      /\ \A n \in 0..Len(kids) : first[n] = ChildrenAt(kids, found, a, E, first, n)
  BY ChildrenUnfold
<1> HIDE DEF first
<1>3. Legal(0)
  <2>1. first[0] = [holds |-> ~found, args |-> a, stop |-> FALSE]
    BY <1>1, <1>2 DEF ChildrenAt
  <2>2. first[0].args = a /\ first[0].holds = ~found /\ first[0].stop = FALSE
    BY <2>1
  <2>3. first[0].stop = (first[0].holds = found)
    BY <2>2
  <2>4. ~(~found /\ first[0].holds /\ \E k \in 1..0 : TRUE)
    OBVIOUS
  <2> QED BY <2>2, <2>3, <2>4 DEF Grows
<1>4. ASSUME NEW n \in Nat, n + 1 <= Len(kids), Legal(n)
      PROVE  Legal(n + 1)
  <2>2. /\ n \in 0..Len(kids) /\ n + 1 \in 1..Len(kids) /\ n + 1 \in 0..Len(kids)
        /\ (n + 1) - 1 = n /\ n + 1 # 0 /\ kids[n + 1] \in Nodes
    BY <1>1, <1>4
  <2>3. CASE first[n].stop
    <3>1. first[n + 1] = first[n]
      BY <1>2, <2>2, <2>3 DEF ChildrenAt
    <3>2. first[n].holds \in BOOLEAN /\ (first[n].holds = found)
      BY <1>2, <1>4, <2>2, <2>3 DEF Partial
    <3> QED BY <1>4, <3>1, <3>2
  <2>4. CASE ~first[n].stop
    <3> DEFINE r == E[<<kids[n + 1], first[n].args>>]
    <3>1. first[n + 1] = [holds |-> r.holds, args |-> r.args, stop |-> r.holds = found]
      BY <1>2, <2>2, <2>4 DEF ChildrenAt, Step
    <3>2. r.args \in W /\ Grows(first[n].args, r.args) /\ first[n].args \in W
      BY <1>4, <2>2
    <3>3. Grows(a, r.args)
      BY <1>4, <3>2 DEF Grows
    <3>4. r.holds \in BOOLEAN
      BY <2>2, <3>2 DEF Evaluations, Results
    <3>5. ASSUME ~found, r.holds, NEW k \in 1..(n + 1)
          PROVE  \E b \in W : /\ E[<<kids[k], b>>].holds
                               /\ Grows(E[<<kids[k], b>>].args, r.args)
      <4>1. CASE k = n + 1
        BY <3>2, <3>5, <4>1 DEF Grows
      <4>2. CASE k # n + 1
        <5>1. k \in 1..n
          BY <4>2
        <5>2. first[n].holds
          <6>1. first[n].holds \in BOOLEAN
            BY <1>2, <2>2 DEF Partial
          <6> QED BY <1>4, <2>4, <3>5, <6>1
        <5>3. PICK b \in W : /\ E[<<kids[k], b>>].holds
                             /\ Grows(E[<<kids[k], b>>].args, first[n].args)
          BY <1>4, <3>5, <5>1, <5>2
        <5>4. Grows(E[<<kids[k], b>>].args, r.args)
          BY <3>2, <5>3 DEF Grows
        <5> QED BY <5>3, <5>4
      <4> QED BY <4>1, <4>2
    <3> HIDE DEF r
    <3>6. /\ first[n + 1].args = r.args /\ first[n + 1].holds = r.holds
          /\ first[n + 1].stop = (r.holds = found)
      BY <3>1, <3>4
    <3> QED BY <3>2, <3>3, <3>5, <3>6
  <2> QED BY <2>3, <2>4
<1>5. \A n \in Nat : n \in S
  <2> HIDE DEF Legal
  <2>1. 0 \in S /\ \A n \in Nat : n \in S => n + 1 \in S
    BY <1>1, <1>3, <1>4
  <2> HIDE DEF S
  <2> QED BY <2>1, InductionOverSet
<1>6. Legal(Len(kids))
  <2> HIDE DEF Legal
  <2> QED BY <1>1, <1>5
<1>7. first[Len(kids)] \in Partial
  BY <1>1, <1>2
<1> QED BY <1>2, <1>6, <1>7

\* The children's results are all that a node depends on.
LEMMA ChildrenAgree ==
    ASSUME NEW kids \in Seq(Nodes), NEW found \in BOOLEAN, NEW a \in ArgsValues,
           NEW E, NEW G \in Evaluations,
           \A k \in 1..Len(kids) : \A b \in ArgsValues :
               E[<<kids[k], b>>] = G[<<kids[k], b>>]
    PROVE  Children(kids, found, a, E) = Children(kids, found, a, G)
<1> DEFINE f == ChildrenUpTo(kids, found, a, E)
           g == ChildrenUpTo(kids, found, a, G)
           S == {n \in Nat : n <= Len(kids) => f[n] = g[n]}
<1>1. Len(kids) \in Nat
  BY LenProperties
<1>2. /\ Children(kids, found, a, G) = g[Len(kids)]
      /\ g \in [0..Len(kids) -> Partial]
      /\ \A n \in 0..Len(kids) : g[n] = ChildrenAt(kids, found, a, G, g, n)
  BY ChildrenUnfold
<1>3. Children(kids, found, a, E) = f[Len(kids)]
  BY DEF Children, ChildrenUpTo, ChildrenAt
<1>4. \A n \in 0..Len(kids) :
         ChildrenAt(kids, found, a, E, g, n) = ChildrenAt(kids, found, a, G, g, n)
  <2> HIDE DEF g
  <2> SUFFICES ASSUME NEW n \in 0..Len(kids), n # 0
               PROVE  ChildrenAt(kids, found, a, E, g, n) = ChildrenAt(kids, found, a, G, g, n)
    BY DEF ChildrenAt
  <2>1. n \in 1..Len(kids) /\ n - 1 \in 0..Len(kids)
    BY <1>1
  <2>2. g[n - 1].args \in ArgsValues
    BY <1>2, <2>1 DEF Partial
  <2>3. E[<<kids[n], g[n - 1].args>>] = G[<<kids[n], g[n - 1].args>>]
    BY <2>1, <2>2
  <2> QED BY <2>3 DEF ChildrenAt
<1>5. g = [n \in 0..Len(kids) |-> ChildrenAt(kids, found, a, E, g, n)]
  <2> HIDE DEF g
  <2> QED BY <1>2, <1>4
<1>6. f = [n \in 0..Len(kids) |-> ChildrenAt(kids, found, a, E, f, n)]
  <2> HIDE DEF g
  <2> QED BY <1>5 DEF ChildrenUpTo
<1> HIDE DEF f, g
<1>7. 0 \in S
  <2>1. 0 \in 0..Len(kids)
    BY <1>1
  <2>2. f[0] = ChildrenAt(kids, found, a, E, f, 0) /\ g[0] = ChildrenAt(kids, found, a, G, g, 0)
    BY <1>2, <1>6, <2>1
  <2>3. f[0] = g[0]
    BY <2>2 DEF ChildrenAt
  <2> QED BY <2>3
<1>8. ASSUME NEW n \in Nat, n \in S
      PROVE  n + 1 \in S
  <2> SUFFICES ASSUME n + 1 <= Len(kids) PROVE f[n + 1] = g[n + 1]
    OBVIOUS
  <2>1. /\ n + 1 \in 0..Len(kids) /\ (n + 1) - 1 = n /\ n + 1 # 0 /\ f[n] = g[n]
    BY <1>1, <1>8
  <2>2. /\ f[n + 1] = ChildrenAt(kids, found, a, E, f, n + 1)
        /\ g[n + 1] = ChildrenAt(kids, found, a, E, g, n + 1)
    BY <1>2, <1>4, <1>6, <2>1
  <2> QED BY <2>1, <2>2 DEF ChildrenAt
<1>9. \A n \in Nat : n \in S
  <2> HIDE DEF S
  <2> QED BY <1>7, <1>8, InductionOverSet
<1> QED BY <1>1, <1>2, <1>3, <1>9

\* The result of one node of T, given those of the leaves by node and args, V.
NodeResult(T, n, a, E, V) ==
    LET Value(leaf, b) == V[<<n, b>>] IN AtNode(T[n], a, E, Value)

\* E is what evaluate_when makes of every node, given the results of the leaves.
Evaluates(T, E, V) ==
    /\ E \in Evaluations
    /\ \A n \in Nodes : \A a \in ArgsValues : E[<<n, a>>] = NodeResult(T, n, a, E, V)

\* The node kinds, read as evaluate_when does.
LEMMA TreeKinds ==
    ASSUME NEW T, WellFormed(T), NEW n \in Nodes
    PROVE  \/ Normalized(T[n].kind) = "and" /\ T[n].kids \in Seq(Nodes)
           \/ Normalized(T[n].kind) = "or" /\ T[n].kids \in Seq(Nodes)
           \/ Normalized(T[n].kind) = "not" /\ T[n].kid \in Nodes \cup {NoNode}
           \/ Normalized(T[n].kind) = "leaf" /\ T[n].kind = "leaf"
<1>1. /\ Normalized(T[n].kind) \in {"and", "or", "not", "leaf"}
      /\ Normalized(T[n].kind) \in {"and", "or"} => T[n].kids \in Seq(Nodes)
      /\ Normalized(T[n].kind) = "not" => T[n].kid \in Nodes \cup {NoNode}
  BY DEF WellFormed
<1>2. Normalized(T[n].kind) = "leaf" => T[n].kind = "leaf"
  BY DEF Normalized
<1> QED BY <1>1, <1>2

\* The children of the nodes.
BelowOf(T) == [n \in Nodes |-> NodesBelow(T[n])]

LEMMA TreeFounded ==
    ASSUME NEW T, WellFormed(T)
    PROVE
    /\ Founded(Nodes, BelowOf(T))
    /\ \A n \in Nodes : BelowOf(T)[n] \subseteq Nodes
    /\ \A n \in Nodes : Normalized(T[n].kind) \in {"and", "or"} =>
            \A k \in 1..Len(T[n].kids) : T[n].kids[k] \in BelowOf(T)[n]
    /\ \A n \in Nodes : Normalized(T[n].kind) = "not" /\ T[n].kid # NoNode =>
            T[n].kid \in BelowOf(T)[n]
<1>1. \A S \in SUBSET Nodes : S # {} => \E n \in S : NodesBelow(T[n]) \cap S = {}
  BY DEF WellFormed
<1>2. Founded(Nodes, BelowOf(T))
  BY <1>1 DEF Founded, BelowOf
<1>3. ASSUME NEW n \in Nodes, Normalized(T[n].kind) \in {"and", "or"}
      PROVE  /\ BelowOf(T)[n] \subseteq Nodes
             /\ \A k \in 1..Len(T[n].kids) : T[n].kids[k] \in BelowOf(T)[n]
  <2>1. T[n].kids \in Seq(Nodes)
    BY <1>3, TreeKinds
  <2>2. /\ DOMAIN T[n].kids = 1..Len(T[n].kids)
        /\ \A k \in 1..Len(T[n].kids) : T[n].kids[k] \in Nodes
    BY <2>1, LenProperties, ElementOfSeq
  <2>3. BelowOf(T)[n] = {T[n].kids[k] : k \in DOMAIN T[n].kids}
    BY <1>3 DEF BelowOf, NodesBelow
  <2> QED BY <2>2, <2>3
<1>4. ASSUME NEW n \in Nodes, Normalized(T[n].kind) = "not"
      PROVE  BelowOf(T)[n] = {T[n].kid} \ {NoNode} /\ BelowOf(T)[n] \subseteq Nodes
  BY <1>4, TreeKinds DEF BelowOf, NodesBelow
<1>5. ASSUME NEW n \in Nodes, Normalized(T[n].kind) = "leaf"
      PROVE  BelowOf(T)[n] = {}
  BY <1>5 DEF BelowOf, NodesBelow
<1> QED BY <1>2, <1>3, <1>4, <1>5, TreeKinds

\* The result of one node is a result, and depends on those of its children.
LEMMA NodeResultType ==
    ASSUME NEW T, WellFormed(T), NEW V, \A n \in Nodes : T[n].kind = "leaf" => \A b \in ArgsValues : V[<<n, b>>] \in Results,
           NEW n \in Nodes, NEW a \in ArgsValues, NEW E \in Evaluations
    PROVE  NodeResult(T, n, a, E, V) \in Results
<1>1. \A r \in Partial : Without(r) \in Results
  BY DEF Partial, Results, Without
<1>2. ASSUME NEW kids \in Seq(Nodes), NEW found \in BOOLEAN
      PROVE  Children(kids, found, a, E) \in Partial
  <2>1. Len(kids) \in Nat
    BY LenProperties
  <2> QED BY <2>1, ChildrenUnfold
<1>3. CASE Normalized(T[n].kind) = "and"
  <2>1. NodeResult(T, n, a, E, V) = Without(Children(T[n].kids, FALSE, a, E))
    BY <1>3 DEF NodeResult, AtNode
  <2> QED BY <1>1, <1>2, <1>3, <2>1, TreeKinds
<1>4. CASE Normalized(T[n].kind) = "or"
  <2>1. NodeResult(T, n, a, E, V) = Without(Children(T[n].kids, TRUE, a, E))
    BY <1>4 DEF NodeResult, AtNode
  <2> QED BY <1>1, <1>2, <1>4, <2>1, TreeKinds
<1>5. CASE Normalized(T[n].kind) = "not"
  <2>1. T[n].kid # NoNode => E[<<T[n].kid, a>>] \in Results
    BY <1>5, TreeKinds DEF Evaluations
  <2>2. CASE T[n].kid = NoNode
    BY <1>5, <2>2 DEF NodeResult, AtNode, Results
  <2>3. CASE T[n].kid # NoNode
    <3>1. NodeResult(T, n, a, E, V) = [holds |-> ~E[<<T[n].kid, a>>].holds,
                                    args |-> E[<<T[n].kid, a>>].args]
      BY <1>5, <2>3 DEF NodeResult, AtNode
    <3> QED BY <2>1, <2>3, <3>1 DEF Results
  <2> QED BY <2>2, <2>3
<1>6. CASE Normalized(T[n].kind) = "leaf"
  <2>1. NodeResult(T, n, a, E, V) = V[<<n, a>>]
    BY <1>6 DEF NodeResult, AtNode
  <2> QED BY <1>6, <2>1, TreeKinds
<1> QED BY <1>3, <1>4, <1>5, <1>6, TreeKinds

LEMMA NodeResultAgrees ==
    ASSUME NEW T, WellFormed(T), NEW V, NEW n \in Nodes, NEW a \in ArgsValues,
           NEW E, NEW G \in Evaluations,
           \A m \in BelowOf(T)[n] : \A b \in ArgsValues : E[<<m, b>>] = G[<<m, b>>]
    PROVE  NodeResult(T, n, a, E, V) = NodeResult(T, n, a, G, V)
<1>1. CASE Normalized(T[n].kind) \in {"and", "or"}
  <2>1. T[n].kids \in Seq(Nodes)
    BY <1>1, TreeKinds
  <2>2. \A k \in 1..Len(T[n].kids) : \A b \in ArgsValues :
           E[<<T[n].kids[k], b>>] = G[<<T[n].kids[k], b>>]
    BY <1>1, TreeFounded
  <2>3. ASSUME NEW found \in BOOLEAN
        PROVE  Children(T[n].kids, found, a, E) = Children(T[n].kids, found, a, G)
    <3> DEFINE kids == T[n].kids
    <3>1. /\ kids \in Seq(Nodes)
          /\ \A k \in 1..Len(kids) : \A b \in ArgsValues : E[<<kids[k], b>>] = G[<<kids[k], b>>]
      BY <2>1, <2>2
    <3> HIDE DEF kids
    <3>2. Children(kids, found, a, E) = Children(kids, found, a, G)
      BY <3>1, ChildrenAgree
    <3> QED BY <3>2 DEF kids
  <2>4. /\ Children(T[n].kids, FALSE, a, E) = Children(T[n].kids, FALSE, a, G)
        /\ Children(T[n].kids, TRUE, a, E) = Children(T[n].kids, TRUE, a, G)
    BY <2>3
  <2> QED BY <1>1, <2>4 DEF NodeResult, AtNode
<1>2. CASE Normalized(T[n].kind) = "not"
  BY <1>2, TreeFounded DEF NodeResult, AtNode
<1>3. CASE Normalized(T[n].kind) = "leaf"
  BY <1>3 DEF NodeResult, AtNode
<1> QED BY <1>1, <1>2, <1>3, TreeKinds

\* The results of the leaves are results.
LeavesTyped(T, V) ==
    \A n \in Nodes : T[n].kind = "leaf" => \A b \in ArgsValues : V[<<n, b>>] \in Results

\* The recursion over the tree has a solution, and the one that is chosen is typed.
LEMMA Evaluable ==
    ASSUME NEW T, WellFormed(T), NEW V, LeavesTyped(T, V)
    PROVE  \E E : Evaluates(T, E, V)
<1> DEFINE D == Nodes \X ArgsValues
           Before == BelowFirst(Nodes, BelowOf(T), ArgsValues)
           B == [x \in D \X [D -> Results] |-> NodeResult(T, x[1][1], x[1][2], x[2], V)]
<1>1. Founded(D, Before)
  <2>1. Founded(Nodes, BelowOf(T))
    BY TreeFounded
  <2> QED BY <2>1, FoundedPairs
<1>2. \A p \in D : Before[p] = BelowOf(T)[p[1]] \X ArgsValues /\ Before[p] \subseteq D
  BY TreeFounded DEF BelowFirst
<1>3. \A p \in D : \A F \in [D -> Results] : B[<<p, F>>] = NodeResult(T, p[1], p[2], F, V)
  OBVIOUS
<1>4. \A p \in D : \A F \in [D -> Results] : NodeResult(T, p[1], p[2], F, V) \in Results
  BY NodeResultType DEF Evaluations, LeavesTyped
<1>5. ASSUME NEW p \in D, NEW F \in [D -> Results], NEW G \in [D -> Results],
             \A q \in Before[p] : F[q] = G[q]
      PROVE  NodeResult(T, p[1], p[2], F, V) = NodeResult(T, p[1], p[2], G, V)
  <2>1. \A m \in BelowOf(T)[p[1]] : \A b \in ArgsValues : F[<<m, b>>] = G[<<m, b>>]
    BY <1>2, <1>5
  <2> QED BY <2>1, NodeResultAgrees DEF Evaluations
<1>6. Results # {}
  <2>1. [holds |-> TRUE, args |-> NoArgs] \in Results
    BY DEF Results, ArgsValues
  <2> QED BY <2>1
<1>7. \E E \in [D -> Results] : \A p \in D : E[p] = B[<<p, E>>]
  <2> HIDE DEF B, Before
  <2>1. \A p \in D : \A F \in [D -> Results] : B[<<p, F>>] \in Results
    BY <1>3, <1>4
  <2>2. \A p \in D : \A F, G \in [D -> Results] :
           (\A q \in Before[p] : F[q] = G[q]) => B[<<p, F>>] = B[<<p, G>>]
    <3> SUFFICES ASSUME NEW p \in D, NEW F \in [D -> Results], NEW G \in [D -> Results],
                        \A q \in Before[p] : F[q] = G[q]
                 PROVE  B[<<p, F>>] = B[<<p, G>>]
      OBVIOUS
    <3>1. NodeResult(T, p[1], p[2], F, V) = NodeResult(T, p[1], p[2], G, V)
      BY <1>5
    <3> HIDE DEF D
    <3> QED BY <1>3, <3>1
  <2> HIDE DEF D
  <2>3. Recursion(D, Results, Before, B)
    BY <1>1, <1>2, <1>6, <2>1, <2>2 DEF Recursion
  <2> QED BY <2>3, FoundedRecursion
<1> HIDE DEF B
<1>8. PICK E \in [D -> Results] : \A p \in D : E[p] = NodeResult(T, p[1], p[2], E, V)
  BY <1>3, <1>7
<1>9. \A n \in Nodes : \A a \in ArgsValues : E[<<n, a>>] = NodeResult(T, n, a, E, V)
  BY <1>8
<1> QED BY <1>9 DEF Evaluates, Evaluations

LEMMA SolutionEvaluates ==
    ASSUME NEW T, WellFormed(T), NEW V, LeavesTyped(T, V),
           NEW G, G = [p \in Nodes \X ArgsValues |-> NodeResult(T, p[1], p[2], G, V)]
    PROVE  Evaluates(T, G, V)
<1>1. PICK E : Evaluates(T, E, V)
  BY Evaluable
<1>2. \A n \in Nodes : \A a \in ArgsValues : G[<<n, a>>] = NodeResult(T, n, a, G, V)
  <2> SUFFICES ASSUME NEW n \in Nodes, NEW a \in ArgsValues
               PROVE  G[<<n, a>>] = NodeResult(T, n, a, G, V)
    OBVIOUS
  <2>1. <<n, a>> \in Nodes \X ArgsValues /\ <<n, a>>[1] = n /\ <<n, a>>[2] = a
    OBVIOUS
  <2> QED BY <2>1
<1> DEFINE S == {n \in Nodes : \A a \in ArgsValues : G[<<n, a>>] = E[<<n, a>>]}
<1>3. ASSUME NEW n \in Nodes, \A m \in BelowOf(T)[n] \cap Nodes : m \in S
      PROVE  n \in S
  <2>1. \A m \in BelowOf(T)[n] : \A b \in ArgsValues : G[<<m, b>>] = E[<<m, b>>]
    BY <1>3, TreeFounded
  <2>2. \A a \in ArgsValues : NodeResult(T, n, a, G, V) = NodeResult(T, n, a, E, V)
    BY <1>1, <2>1, NodeResultAgrees DEF Evaluates
  <2> QED BY <1>1, <1>2, <2>2 DEF Evaluates
<1>4. \A n \in Nodes : n \in S
  <2> HIDE DEF S
  <2> QED BY <1>3, TreeFounded, FoundedInduction
<1>5. \A p \in Nodes \X ArgsValues : G[p] = E[p]
  <2>1. ASSUME NEW n \in Nodes, NEW a \in ArgsValues
        PROVE  G[<<n, a>>] = E[<<n, a>>]
    <3> HIDE DEF S
    <3>1. n \in S
      BY <1>4
    <3> QED BY <3>1 DEF S
  <2> SUFFICES ASSUME NEW p \in Nodes \X ArgsValues PROVE G[p] = E[p]
    OBVIOUS
  <2>2. p = <<p[1], p[2]>> /\ p[1] \in Nodes /\ p[2] \in ArgsValues
    OBVIOUS
  <2>3. G[<<p[1], p[2]>>] = E[<<p[1], p[2]>>]
    BY <2>1, <2>2
  <2> QED BY <2>2, <2>3
<1>6. E \in Evaluations
  BY <1>1 DEF Evaluates
<1>7. G \in Evaluations
  <2>1. \A p \in Nodes \X ArgsValues : G[p] \in Results
    BY <1>5, <1>6 DEF Evaluations
  <2>2. G = [p \in Nodes \X ArgsValues |-> G[p]]
    OBVIOUS
  <2> QED BY <2>1, <2>2 DEF Evaluations
<1> QED BY <1>2, <1>7 DEF Evaluates
-----------------------------------------------------------------------------
(* What a tree means *)

\* The children are evaluated to the truth that M gives them, whatever args of W they find.
KidsMean(kids, E, W, M) ==
    \A k \in 1..Len(kids) : \A b \in W :
        E[<<kids[k], b>>].args \in W /\ (E[<<kids[k], b>>].holds <=> M[kids[k]])

\* all() and any() are what their names say.
NodeMeans(kids, found, r, W, M) ==
    /\ r.args \in W
    /\ ~found => (r.holds <=> \A k \in 1..Len(kids) : M[kids[k]])
    /\ found => (r.holds <=> \E k \in 1..Len(kids) : M[kids[k]])

\* Then so they are, whatever was skipped.
LEMMA ChildrenMean ==
    ASSUME NEW kids \in Seq(Nodes), NEW found \in BOOLEAN, NEW E \in Evaluations,
           NEW W \in SUBSET ArgsValues, NEW a \in W, NEW M \in [Nodes -> BOOLEAN],
           KidsMean(kids, E, W, M)
    PROVE  NodeMeans(kids, found, Children(kids, found, a, E), W, M)
<1> DEFINE first == ChildrenUpTo(kids, found, a, E)
           Means(n) == /\ first[n].args \in W
                       /\ first[n].stop <=> (first[n].holds <=> found)
                       /\ ~found => (first[n].holds <=> \A k \in 1..n : M[kids[k]])
                       /\ found => (first[n].holds <=> \E k \in 1..n : M[kids[k]])
           S == {n \in Nat : n <= Len(kids) => Means(n)}
<1>1. Len(kids) \in Nat /\ \A n \in 1..Len(kids) : kids[n] \in Nodes
  BY LenProperties, ElementOfSeq
<1>2. /\ Children(kids, found, a, E) = first[Len(kids)]
      /\ first \in [0..Len(kids) -> Partial]
      /\ \A n \in 0..Len(kids) : first[n] = ChildrenAt(kids, found, a, E, first, n)
  BY ChildrenUnfold
<1> HIDE DEF first
<1>3. Means(0)
  <2>0. first[0] = ChildrenAt(kids, found, a, E, first, 0)
    BY <1>1, <1>2
  <2>1. first[0] = [holds |-> ~found, args |-> a, stop |-> FALSE]
    BY <2>0 DEF ChildrenAt
  <2>2. first[0].args = a /\ first[0].holds = ~found /\ first[0].stop = FALSE
    BY <2>1
  <2>3. 1..0 = {}
    OBVIOUS
  <2> QED BY <2>2, <2>3
<1>4. ASSUME NEW n \in Nat, n + 1 <= Len(kids), Means(n)
      PROVE  Means(n + 1)
  <2>1. /\ n \in 0..Len(kids) /\ n + 1 \in 1..Len(kids) /\ n + 1 \in 0..Len(kids)
        /\ (n + 1) - 1 = n /\ n + 1 # 0 /\ kids[n + 1] \in Nodes
        /\ 1..(n + 1) = 1..n \cup {n + 1}
    BY <1>1, <1>4
  <2>2. first[n].holds \in BOOLEAN /\ first[n].stop \in BOOLEAN
    BY <1>2, <2>1 DEF Partial
  <2>3. CASE first[n].stop
    <3>1. first[n + 1] = first[n]
      BY <1>2, <2>1, <2>3 DEF ChildrenAt
    <3>2. first[n].holds <=> found
      BY <1>4, <2>3
    <3>3. /\ ~found => \E k \in 1..n : ~M[kids[k]]
          /\ found => \E k \in 1..n : M[kids[k]]
      BY <1>4, <3>2
    <3> QED BY <1>4, <2>1, <2>3, <3>1, <3>2, <3>3
  <2>4. CASE ~first[n].stop
    <3> DEFINE r == E[<<kids[n + 1], first[n].args>>]
    <3>1. first[n + 1] = [holds |-> r.holds, args |-> r.args, stop |-> r.holds = found]
      BY <1>2, <2>1, <2>4 DEF ChildrenAt, Step
    <3>2. r.args \in W /\ (r.holds <=> M[kids[n + 1]]) /\ first[n].args \in ArgsValues
      BY <1>4, <2>1 DEF KidsMean
    <3>3. r.holds \in BOOLEAN
      BY <2>1, <3>2 DEF Evaluations, Results
    <3> HIDE DEF r
    <3>4. /\ first[n + 1].args = r.args /\ first[n + 1].holds = r.holds
          /\ first[n + 1].stop = (r.holds = found)
      BY <3>1, <3>3
    <3>5. first[n + 1].stop <=> (first[n + 1].holds <=> found)
      BY <3>3, <3>4
    <3>6. /\ ~found => \A k \in 1..n : M[kids[k]]
          /\ found => \A k \in 1..n : ~M[kids[k]]
      BY <1>4, <2>2, <2>4
    <3>7. /\ ~found => (r.holds <=> \A k \in 1..(n + 1) : M[kids[k]])
          /\ found => (r.holds <=> \E k \in 1..(n + 1) : M[kids[k]])
      BY <2>1, <3>2, <3>6
    <3> QED BY <3>2, <3>4, <3>5, <3>7
  <2> QED BY <2>3, <2>4
<1>5. \A n \in Nat : n \in S
  <2> HIDE DEF Means
  <2>1. 0 \in S /\ \A n \in Nat : n \in S => n + 1 \in S
    BY <1>1, <1>3, <1>4
  <2> HIDE DEF S
  <2> QED BY <2>1, InductionOverSet
<1>6. Means(Len(kids))
  <2> HIDE DEF Means
  <2> QED BY <1>1, <1>5
<1> QED BY <1>2, <1>6 DEF NodeMeans

\* M is the truth of the nodes of In, as a formula over their children's.
IsFormula(T, In, M) ==
    \A n \in In :
        LET kind == Normalized(T[n].kind)
        IN  /\ kind = "and" => (M[n] <=> \A k \in 1..Len(T[n].kids) : M[T[n].kids[k]])
            /\ kind = "or" => (M[n] <=> \E k \in 1..Len(T[n].kids) : M[T[n].kids[k]])
            /\ kind = "not" => (M[n] <=> T[n].kid # NoNode /\ ~M[T[n].kid])

\* If the leaves of In have the truth of M for all args of W, and leave args in W, so do all
\* nodes of In.
LEMMA NodesMean ==
    ASSUME NEW T, WellFormed(T), NEW V, NEW E, Evaluates(T, E, V),
           NEW W \in SUBSET ArgsValues, NEW M \in [Nodes -> BOOLEAN], NEW In \in SUBSET Nodes,
           \A n \in In : BelowOf(T)[n] \subseteq In,
           IsFormula(T, In, M),
           \A n \in In : T[n].kind = "leaf" => \A b \in W :
               V[<<n, b>>].args \in W /\ (V[<<n, b>>].holds <=> M[n])
    PROVE  \A n \in In : \A a \in W :
               E[<<n, a>>].args \in W /\ (E[<<n, a>>].holds <=> M[n])
<1> DEFINE Means(n) == \A a \in W : E[<<n, a>>].args \in W /\ (E[<<n, a>>].holds <=> M[n])
           S == {n \in Nodes : n \in In => Means(n)}
<1>1. E \in Evaluations
  BY DEF Evaluates
<1>2. ASSUME NEW n \in Nodes, \A m \in BelowOf(T)[n] \cap Nodes : m \in S
      PROVE  n \in S
  <2> SUFFICES ASSUME n \in In, NEW a \in W
               PROVE  E[<<n, a>>].args \in W /\ (E[<<n, a>>].holds <=> M[n])
    OBVIOUS
  <2>1. \A m \in BelowOf(T)[n] : m \in Nodes /\ Means(m)
    <3> HIDE DEF Means
    <3> QED BY <1>2, TreeFounded
  <2>2. a \in ArgsValues /\ E[<<n, a>>] = NodeResult(T, n, a, E, V)
    BY DEF Evaluates
  <2>3. ASSUME NEW found \in BOOLEAN, T[n].kids \in Seq(Nodes),
               Normalized(T[n].kind) \in {"and", "or"},
               E[<<n, a>>] = Without(Children(T[n].kids, found, a, E))
        PROVE  /\ E[<<n, a>>].args \in W
               /\ ~found => (E[<<n, a>>].holds <=> \A k \in 1..Len(T[n].kids) : M[T[n].kids[k]])
               /\ found => (E[<<n, a>>].holds <=> \E k \in 1..Len(T[n].kids) : M[T[n].kids[k]])
    <3> DEFINE kids == T[n].kids
               r == Children(kids, found, a, E)
    <3>0. kids \in Seq(Nodes)
      BY <2>3
    <3>1. \A k \in 1..Len(kids) : Means(kids[k])
      <4> HIDE DEF Means
      <4> QED BY <2>1, <2>3, TreeFounded
    <3>4. KidsMean(kids, E, W, M)
      BY <3>1 DEF KidsMean
    <3> HIDE DEF kids, Means
    <3>2. NodeMeans(kids, found, r, W, M)
      BY <1>1, <3>0, <3>4, ChildrenMean
    <3>3. E[<<n, a>>].args = r.args /\ E[<<n, a>>].holds = r.holds
      BY <2>3 DEF Without, kids
    <3> HIDE DEF r
    <3> QED BY <3>2, <3>3 DEF kids, NodeMeans
  <2>4. CASE Normalized(T[n].kind) = "and"
    <3>1. T[n].kids \in Seq(Nodes)
      BY <2>4, TreeKinds
    <3>2. E[<<n, a>>] = Without(Children(T[n].kids, FALSE, a, E))
      BY <2>2, <2>4 DEF NodeResult, AtNode
    <3>3. M[n] <=> \A k \in 1..Len(T[n].kids) : M[T[n].kids[k]]
      BY <2>4 DEF IsFormula
    <3> QED BY <2>3, <2>4, <3>1, <3>2, <3>3
  <2>5. CASE Normalized(T[n].kind) = "or"
    <3>1. T[n].kids \in Seq(Nodes)
      BY <2>5, TreeKinds
    <3>2. E[<<n, a>>] = Without(Children(T[n].kids, TRUE, a, E))
      BY <2>2, <2>5 DEF NodeResult, AtNode
    <3>3. M[n] <=> \E k \in 1..Len(T[n].kids) : M[T[n].kids[k]]
      BY <2>5 DEF IsFormula
    <3> QED BY <2>3, <2>5, <3>1, <3>2, <3>3
  <2>6. CASE Normalized(T[n].kind) = "not"
    <3>1. M[n] <=> T[n].kid # NoNode /\ ~M[T[n].kid]
      BY <2>6 DEF IsFormula
    <3>2. CASE T[n].kid = NoNode
      <4>1. E[<<n, a>>].args = a /\ E[<<n, a>>].holds = FALSE
        BY <2>2, <2>6, <3>2 DEF NodeResult, AtNode
      <4> QED BY <3>1, <3>2, <4>1
    <3>3. CASE T[n].kid # NoNode
      <4> DEFINE r == E[<<T[n].kid, a>>]
      <4>1. E[<<n, a>>] = [holds |-> ~r.holds, args |-> r.args]
        BY <2>2, <2>6, <3>3 DEF NodeResult, AtNode
      <4>2. r.args \in W /\ (r.holds <=> M[T[n].kid])
        BY <2>1, <2>6, <3>3, TreeFounded
      <4> HIDE DEF r
      <4>3. E[<<n, a>>].args = r.args /\ E[<<n, a>>].holds = ~r.holds
        BY <4>1
      <4> QED BY <3>1, <3>3, <4>2, <4>3
    <3> QED BY <3>2, <3>3
  <2>7. CASE Normalized(T[n].kind) = "leaf"
    <3>1. T[n].kind = "leaf" /\ E[<<n, a>>] = V[<<n, a>>]
      BY <2>2, <2>7, TreeKinds DEF NodeResult, AtNode
    <3> QED BY <3>1
  <2> QED BY <2>4, <2>5, <2>6, <2>7, TreeKinds
<1>3. \A n \in Nodes : n \in S
  <2> HIDE DEF S
  <2> QED BY <1>2, TreeFounded, FoundedInduction
<1> QED BY <1>3

\* The leaves below each node of T.
LeavesBy(T) == CHOOSE L : L = [n \in Nodes |-> LeavesAt(T[n], L)]

\* A node's leaves are itself or those of its children.
LEMMA LeavesUnfold ==
    ASSUME NEW T, WellFormed(T)
    PROVE  /\ \A n \in Nodes : LeavesBy(T)[n] = LeavesAt(T[n], LeavesBy(T))
           /\ \A root \in Nodes : Leaves(T, root) = LeavesBy(T)[root]
           /\ \A n \in Nodes : T[n].kind = "leaf" => T[n].leaf \in LeavesBy(T)[n]
           /\ \A n \in Nodes : \A m \in BelowOf(T)[n] : LeavesBy(T)[m] \subseteq LeavesBy(T)[n]
<1> DEFINE Sets == SUBSET {T[n].leaf : n \in Nodes}
           B == [x \in Nodes \X [Nodes -> Sets] |-> LeavesAt(T[x[1]], x[2])]
<1>1. \A n \in Nodes : \A L \in [Nodes -> Sets] : B[<<n, L>>] = LeavesAt(T[n], L)
  OBVIOUS
<1>2. \A n \in Nodes : BelowOf(T)[n] = NodesBelow(T[n]) /\ BelowOf(T)[n] \subseteq Nodes
  BY TreeFounded DEF BelowOf
<1>3. ASSUME NEW n \in Nodes, NEW L \in [Nodes -> Sets]
      PROVE  LeavesAt(T[n], L) \in Sets
  <2>1. UNION {L[m] : m \in NodesBelow(T[n])} \in Sets
    BY <1>2
  <2> QED BY <2>1 DEF LeavesAt
<1>4. ASSUME NEW n \in Nodes, NEW L \in [Nodes -> Sets], NEW K \in [Nodes -> Sets],
             \A m \in BelowOf(T)[n] : L[m] = K[m]
      PROVE  LeavesAt(T[n], L) = LeavesAt(T[n], K)
  <2>1. UNION {L[m] : m \in NodesBelow(T[n])} = UNION {K[m] : m \in NodesBelow(T[n])}
    BY <1>2, <1>4
  <2> QED BY <2>1 DEF LeavesAt
<1>5. \E L \in [Nodes -> Sets] : \A n \in Nodes : L[n] = B[<<n, L>>]
  <2> HIDE DEF B
  <2>1. /\ Sets # {} /\ Founded(Nodes, BelowOf(T))
        /\ \A n \in Nodes : BelowOf(T)[n] \subseteq Nodes
    BY TreeFounded
  <2> HIDE DEF Sets
  <2>2. \A n \in Nodes : \A L \in [Nodes -> Sets] : B[<<n, L>>] \in Sets
    BY <1>1, <1>3
  <2>3. \A n \in Nodes : \A L, K \in [Nodes -> Sets] :
           (\A m \in BelowOf(T)[n] : L[m] = K[m]) => B[<<n, L>>] = B[<<n, K>>]
    BY <1>1, <1>4
  <2>4. Recursion(Nodes, Sets, BelowOf(T), B)
    BY <2>1, <2>2, <2>3 DEF Recursion
  <2> QED BY <2>4, FoundedRecursion
<1> HIDE DEF B
<1>6. \E L : L = [n \in Nodes |-> LeavesAt(T[n], L)]
  BY <1>1, <1>5
<1>7. LeavesBy(T) = [n \in Nodes |-> LeavesAt(T[n], LeavesBy(T))]
  BY <1>6 DEF LeavesBy
<1>8. \A n \in Nodes : LeavesBy(T)[n] = LeavesAt(T[n], LeavesBy(T))
  BY <1>7
<1>9. ASSUME NEW root \in Nodes PROVE Leaves(T, root) = LeavesBy(T)[root]
  <2>1. root # NoNode
    BY DEF WellFormed
  <2> QED BY <2>1 DEF Leaves, LeavesBy
<1>10. ASSUME NEW n \in Nodes, T[n].kind = "leaf" PROVE T[n].leaf \in LeavesBy(T)[n]
  BY <1>8, <1>10 DEF LeavesAt, Normalized
<1>11. ASSUME NEW n \in Nodes, NEW m \in BelowOf(T)[n]
       PROVE  LeavesBy(T)[m] \subseteq LeavesBy(T)[n]
  <2>1. m \in NodesBelow(T[n])
    BY <1>2
  <2>2. Normalized(T[n].kind) # "leaf"
    BY <2>1 DEF NodesBelow
  <2>3. LeavesBy(T)[n] = UNION {LeavesBy(T)[k] : k \in NodesBelow(T[n])}
    BY <1>8, <2>2 DEF LeavesAt
  <2> QED BY <2>1, <2>3
<1> QED BY <1>8, <1>9, <1>10, <1>11
-----------------------------------------------------------------------------
(* TriggerEvaluation *)

\* The truth of each node.
MeaningBy(cmd) == CHOOSE M : M = [n \in Nodes |-> MeaningAt(n, cmd, M)]

\* The formula of a tree is one: each node has a truth, which is that of its leaf or
\* follows from its children's.
LEMMA MeaningUnfolds ==
    ASSUME tree \in Trees, plain \in BOOLEAN, NEW cmd
    PROVE  /\ MeaningBy(cmd) \in [Nodes -> BOOLEAN]
           /\ Meaning(cmd) = MeaningBy(cmd)[Root]
           /\ IsFormula(tree, Nodes, MeaningBy(cmd))
           /\ \A n \in Nodes : tree[n].kind = "leaf" =>
                  MeaningBy(cmd)[n] = Truth(tree[n].leaf, cmd)
<1> DEFINE B == [x \in Nodes \X [Nodes -> BOOLEAN] |-> MeaningAt(x[1], cmd, x[2])]
<1>1. \A n \in Nodes : \A M \in [Nodes -> BOOLEAN] : B[<<n, M>>] = MeaningAt(n, cmd, M)
  OBVIOUS
<1>2. WellFormed(tree)
  BY EvaluationAssumption
<1>3. ASSUME NEW n \in Nodes
      PROVE  /\ Normalized(tree[n].kind) = "and" <=> tree[n].kind \in {"and", "all"}
             /\ Normalized(tree[n].kind) = "or" <=> tree[n].kind \in {"or", "any"}
             /\ Normalized(tree[n].kind) = "not" <=> tree[n].kind = "not"
             /\ Normalized(tree[n].kind) = "leaf" <=> tree[n].kind = "leaf"
             /\ tree[n].kind \in {"and", "all", "or", "any", "not", "leaf"}
  <2>1. Normalized(tree[n].kind) \in {"and", "or", "not", "leaf"}
    BY <1>2, TreeKinds
  <2> QED BY <2>1 DEF Normalized
<1>4. ASSUME NEW n \in Nodes, tree[n].kind = "leaf"
      PROVE  Truth(tree[n].leaf, cmd) \in BOOLEAN
  <2> DEFINE leaf == tree[n].leaf
  <2>1. \/ \E c \in Commands : leaf = [type |-> "command", command |-> c]
        \/ leaf.type \in {"compare", "plain"}
    BY <1>4, EvaluationAssumption
  <2> HIDE DEF leaf
  <2>2. CASE leaf.type = "command"
    BY <2>2 DEF Truth, leaf
  <2>3. CASE leaf.type = "compare"
    BY <2>3 DEF Truth, leaf
  <2>4. CASE leaf.type = "plain"
    BY <2>4 DEF Truth, leaf
  <2> QED BY <2>1, <2>2, <2>3, <2>4
<1>5. ASSUME NEW n \in Nodes, tree[n].kind \in {"and", "all", "or", "any"}
      PROVE  /\ DOMAIN tree[n].kids = 1..Len(tree[n].kids)
             /\ \A k \in 1..Len(tree[n].kids) : tree[n].kids[k] \in BelowOf(tree)[n]
  <2>1. tree[n].kids \in Seq(Nodes)
    BY <1>2, <1>3, <1>5, TreeKinds
  <2> QED BY <1>2, <1>3, <1>5, <2>1, TreeFounded, LenProperties
<1>6. ASSUME NEW n \in Nodes, NEW M \in [Nodes -> BOOLEAN]
      PROVE  MeaningAt(n, cmd, M) \in BOOLEAN
  BY <1>3, <1>4 DEF MeaningAt
<1>7. ASSUME NEW n \in Nodes, NEW M \in [Nodes -> BOOLEAN], NEW K \in [Nodes -> BOOLEAN],
             \A m \in BelowOf(tree)[n] : M[m] = K[m]
      PROVE  MeaningAt(n, cmd, M) = MeaningAt(n, cmd, K)
  <2>1. CASE tree[n].kind \in {"and", "all", "or", "any"}
    <3>1. \A k \in DOMAIN tree[n].kids : M[tree[n].kids[k]] = K[tree[n].kids[k]]
      BY <1>5, <1>7, <2>1
    <3>2. CASE tree[n].kind \in {"and", "all"}
      BY <3>1, <3>2 DEF MeaningAt
    <3>3. CASE tree[n].kind \in {"or", "any"}
      BY <3>1, <3>3 DEF MeaningAt
    <3> QED BY <2>1, <3>2, <3>3
  <2>2. CASE tree[n].kind = "not"
    <3>1. tree[n].kid # NoNode => M[tree[n].kid] = K[tree[n].kid]
      BY <1>2, <1>3, <1>7, <2>2, TreeFounded
    <3> QED BY <2>2, <3>1 DEF MeaningAt
  <2>3. CASE tree[n].kind = "leaf"
    BY <2>3 DEF MeaningAt
  <2> QED BY <1>3, <2>1, <2>2, <2>3
<1>8. \E M \in [Nodes -> BOOLEAN] : \A n \in Nodes : M[n] = B[<<n, M>>]
  <2> HIDE DEF B
  <2>1. /\ Founded(Nodes, BelowOf(tree))
        /\ \A n \in Nodes : BelowOf(tree)[n] \subseteq Nodes
    BY <1>2, TreeFounded
  <2>2. \A n \in Nodes : \A M \in [Nodes -> BOOLEAN] : B[<<n, M>>] \in BOOLEAN
    BY <1>1, <1>6
  <2>3. \A n \in Nodes : \A M, K \in [Nodes -> BOOLEAN] :
           (\A m \in BelowOf(tree)[n] : M[m] = K[m]) => B[<<n, M>>] = B[<<n, K>>]
    BY <1>1, <1>7
  <2>4. Recursion(Nodes, BOOLEAN, BelowOf(tree), B)
    BY <2>1, <2>2, <2>3 DEF Recursion
  <2> QED BY <2>4, FoundedRecursion
<1> HIDE DEF B
<1>9. \E M : M = [n \in Nodes |-> MeaningAt(n, cmd, M)]
  BY <1>1, <1>8
<1> DEFINE M == MeaningBy(cmd)
<1>10. M = [n \in Nodes |-> MeaningAt(n, cmd, M)]
  BY <1>9 DEF MeaningBy
<1>11. Meaning(cmd) = M[Root]
  BY DEF Meaning, MeaningBy
<1> HIDE DEF M
<1>12. \A n \in Nodes : M[n] = MeaningAt(n, cmd, M)
  BY <1>10
<1>13. \A n \in Nodes : MeaningAt(n, cmd, M) \in BOOLEAN
  BY <1>3, <1>4 DEF MeaningAt
<1>14. M \in [Nodes -> BOOLEAN]
  BY <1>10, <1>12, <1>13
<1>15. ASSUME NEW n \in Nodes, tree[n].kind = "leaf" PROVE M[n] = Truth(tree[n].leaf, cmd)
  BY <1>12, <1>15 DEF MeaningAt
<1>16. IsFormula(tree, Nodes, M)
  <2> SUFFICES ASSUME NEW n \in Nodes
               PROVE  LET kind == Normalized(tree[n].kind)
                      IN  /\ kind = "and" =>
                                (M[n] <=> \A k \in 1..Len(tree[n].kids) : M[tree[n].kids[k]])
                          /\ kind = "or" =>
                                (M[n] <=> \E k \in 1..Len(tree[n].kids) : M[tree[n].kids[k]])
                          /\ kind = "not" => (M[n] <=> tree[n].kid # NoNode /\ ~M[tree[n].kid])
    BY DEF IsFormula
  <2>1. M[n] = MeaningAt(n, cmd, M)
    BY <1>12
  <2>2. ASSUME tree[n].kind \in {"and", "all"}
        PROVE  M[n] <=> \A k \in 1..Len(tree[n].kids) : M[tree[n].kids[k]]
    BY <1>5, <2>1, <2>2 DEF MeaningAt
  <2>3. ASSUME tree[n].kind \in {"or", "any"}
        PROVE  M[n] <=> \E k \in 1..Len(tree[n].kids) : M[tree[n].kids[k]]
    BY <1>5, <2>1, <2>3 DEF MeaningAt
  <2>4. ASSUME tree[n].kind = "not"
        PROVE  M[n] <=> tree[n].kid # NoNode /\ ~M[tree[n].kid]
    BY <2>1, <2>4 DEF MeaningAt
  <2> QED BY <1>3, <2>2, <2>3, <2>4
<1> QED BY <1>11, <1>14, <1>15, <1>16 DEF M

EvaluationType ==
    /\ tree \in Trees
    /\ message \in Message
    /\ plain \in BOOLEAN
    /\ payloadArgs \in ArgsValues
    /\ evaluated \in Seq(BOOLEAN)

\* What evaluate_when makes of the nodes of the tree, and of its leaves.
TreeResults ==
    CHOOSE E : E = [p \in Nodes \X (Commands \cup {NoArgs}) |->
        AtNode(tree[p[1]], p[2], E, MatchLeaf)]
LeafTable == [p \in Nodes \X ArgsValues |-> MatchLeaf(tree[p[1]].leaf, p[2])]

\* A leaf leaves args alone, or is a command leaf that sets them when there are none; and it
\* holds as it is meant, but for a compare leaf that finds other args.
LEMMA LeafTableMeans ==
    ASSUME EvaluationType, NEW n \in Nodes, tree[n].kind = "leaf", NEW a \in ArgsValues,
           NEW r, r = LeafTable[<<n, a>>]
    PROVE  /\ r \in Results
           /\ \/ r.args = a
              \/ /\ a = NoArgs /\ r.args \in message.starts
                 /\ tree[n].leaf = [type |-> "command", command |-> r.args]
           /\ \A cmd : tree[n].leaf.type # "compare" \/ a = cmd =>
                  (r.holds <=> Truth(tree[n].leaf, cmd))
<1> DEFINE leaf == tree[n].leaf
<1>1. r = MatchLeaf(leaf, a)
  BY DEF LeafTable
<1>2. \/ \E c \in Commands : leaf = [type |-> "command", command |-> c]
      \/ leaf.type \in {"compare", "plain"}
  BY EvaluationAssumption DEF EvaluationType
<1> HIDE DEF leaf
<1>3. ASSUME NEW c \in Commands, leaf = [type |-> "command", command |-> c]
      PROVE  /\ r \in Results
             /\ r.args = a \/ (a = NoArgs /\ r.args = c /\ c \in message.starts)
             /\ \A cmd : r.holds <=> Truth(leaf, cmd)
  <2>1. leaf.type = "command" /\ leaf.command = c
    BY <1>3
  <2>2. r = MatchCommand(leaf, message, a) /\ \A cmd : Truth(leaf, cmd) = (c \in message.starts)
    BY <1>1, <2>1 DEF MatchLeaf, Truth
  <2>3. CASE c \in message.starts
    <3> DEFINE d == IF a = NoArgs THEN c ELSE a
    <3>1. d \in ArgsValues /\ (d = a \/ (a = NoArgs /\ d = c))
      BY DEF ArgsValues
    <3>2. r = [holds |-> TRUE, args |-> d]
      BY <2>1, <2>2, <2>3 DEF MatchCommand, Inject
    <3> HIDE DEF d
    <3>3. r \in Results /\ r.holds = TRUE /\ r.args = d
      BY <3>1, <3>2 DEF Results
    <3>4. \A cmd : Truth(leaf, cmd) = TRUE
      BY <2>2, <2>3
    <3> QED BY <2>3, <3>1, <3>3, <3>4
  <2>4. CASE c \notin message.starts
    <3>1. r = [holds |-> FALSE, args |-> a]
      BY <2>1, <2>2, <2>4 DEF MatchCommand
    <3>2. r \in Results /\ r.holds = FALSE /\ r.args = a
      BY <3>1 DEF Results
    <3>3. \A cmd : ~Truth(leaf, cmd)
      <4>1. \A cmd : Truth(leaf, cmd) = (c \in message.starts)
        BY <2>2
      <4> QED BY <2>4, <4>1
    <3> QED BY <3>2, <3>3
  <2> QED BY <2>3, <2>4
<1>4. CASE leaf.type = "compare"
  <2>1. r = [holds |-> a # NoArgs /\ message.word[a] = leaf.word, args |-> a]
    BY <1>1, <1>4 DEF MatchLeaf, MatchCompare
  <2>2. \A cmd : Truth(leaf, cmd) = (cmd # NoArgs /\ message.word[cmd] = leaf.word)
    BY <1>4 DEF Truth
  <2>3. r \in Results /\ r.args = a /\ (r.holds <=> Truth(leaf, a))
    BY <2>1, <2>2 DEF Results
  <2> QED BY <1>4, <2>3 DEF leaf
<1>5. CASE leaf.type = "plain"
  <2>1. r = [holds |-> plain, args |-> a] /\ \A cmd : Truth(leaf, cmd) = plain
    BY <1>1, <1>5 DEF MatchLeaf, Truth
  <2>2. r \in Results /\ r.args = a /\ \A cmd : r.holds <=> Truth(leaf, cmd)
    BY <2>1 DEF Results, EvaluationType
  <2> QED BY <2>2 DEF leaf
<1>6. ASSUME NEW c \in Commands, leaf = [type |-> "command", command |-> c]
      PROVE  \/ r.args = a
             \/ /\ a = NoArgs /\ r.args \in message.starts
                /\ leaf = [type |-> "command", command |-> r.args]
  BY <1>3, <1>6
<1> QED BY <1>2, <1>3, <1>4, <1>5, <1>6 DEF leaf

LEMMA TreeEvaluates ==
    ASSUME EvaluationType
    PROVE  /\ WellFormed(tree)
           /\ Evaluates(tree, TreeResults, LeafTable)
           /\ EvaluateWhen(tree, Root, payloadArgs, MatchLeaf) = TreeResults[<<Root, payloadArgs>>]
<1> DEFINE V == LeafTable
           G == TreeResults
           At(p, E) == AtNode(tree[p[1]], p[2], E, MatchLeaf)
<1>1. ASSUME NEW p \in Nodes \X ArgsValues, NEW E
      PROVE  At(p, E) = NodeResult(tree, p[1], p[2], E, V)
  <2>1. V[<<p[1], p[2]>>] = MatchLeaf(tree[p[1]].leaf, p[2])
    BY DEF LeafTable
  <2> HIDE DEF V
  <2> QED BY <2>1 DEF AtNode, NodeResult
<1> HIDE DEF V
<1>2. \A E : [p \in Nodes \X ArgsValues |-> At(p, E)]
              = [p \in Nodes \X ArgsValues |-> NodeResult(tree, p[1], p[2], E, V)]
  <2> HIDE DEF At
  <2> QED BY <1>1
<1>3. WellFormed(tree) /\ LeavesTyped(tree, V)
  BY LeafTableMeans, EvaluationAssumption DEF LeavesTyped, V, EvaluationType
<1>4. PICK E : Evaluates(tree, E, V)
  BY <1>3, Evaluable
<1>5. E = [p \in Nodes \X ArgsValues |-> NodeResult(tree, p[1], p[2], E, V)]
  BY <1>4 DEF Evaluates, Evaluations
<1>6. E = [p \in Nodes \X ArgsValues |-> At(p, E)]
  BY <1>2, <1>5
<1>7. G = [p \in Nodes \X ArgsValues |-> At(p, G)]
  BY <1>6 DEF TreeResults, ArgsValues
<1>8. EvaluateWhen(tree, Root, payloadArgs, MatchLeaf) = G[<<Root, payloadArgs>>]
  <2>1. Root # NoNode
    BY <1>3, EvaluationAssumption DEF WellFormed
  <2> QED BY <2>1 DEF EvaluateWhen, TreeResults
<1> HIDE DEF G, At
<1>9. G = [p \in Nodes \X ArgsValues |-> NodeResult(tree, p[1], p[2], G, V)]
  BY <1>2, <1>7
<1>10. Evaluates(tree, G, V)
  BY <1>3, <1>9, SolutionEvaluates
<1> QED BY <1>3, <1>8, <1>10 DEF G, V

\* A tree evaluated with args leaves them alone; without, it leaves none or the command
\* of one of its leaves that the message begins with.
LEMMA ArgsOfLeaf ==
    ASSUME EvaluationType, NEW a \in ArgsValues
    PROVE  LET r == TreeResults[<<Root, a>>]
           IN  /\ r \in Results
               /\ \/ r.args = a
                  \/ /\ a = NoArgs /\ r.args \in message.starts
                     /\ [type |-> "command", command |-> r.args] \in Leaves(tree, Root)
<1> DEFINE Own(n) == {c \in ArgsValues : /\ c \in message.starts
                                         /\ [type |-> "command", command |-> c] \in LeavesBy(tree)[n]}
           Sets(n) == \A b \in ArgsValues :
                          LET c == TreeResults[<<n, b>>].args
                          IN  c = b \/ (b = NoArgs /\ c \in Own(n))
           S == {n \in Nodes : Sets(n)}
<1>1. WellFormed(tree) /\ Evaluates(tree, TreeResults, LeafTable) /\ Root \in Nodes
  BY TreeEvaluates, EvaluationAssumption
<1>2. /\ TreeResults \in Evaluations
      /\ \A n \in Nodes : \A b \in ArgsValues :
             TreeResults[<<n, b>>] = NodeResult(tree, n, b, TreeResults, LeafTable)
  BY <1>1 DEF Evaluates
<1>3. ASSUME NEW n \in Nodes, \A m \in BelowOf(tree)[n] \cap Nodes : m \in S
      PROVE  n \in S
  <2> SUFFICES ASSUME NEW b \in ArgsValues
               PROVE  LET c == TreeResults[<<n, b>>].args
                      IN  c = b \/ (b = NoArgs /\ c \in Own(n))
    OBVIOUS
  <2> DEFINE c == TreeResults[<<n, b>>].args
  <2>1. \A m \in BelowOf(tree)[n] : m \in Nodes /\ Sets(m)
    <3> HIDE DEF Sets
    <3> QED BY <1>1, <1>3, TreeFounded
  <2>2. \A m \in BelowOf(tree)[n] : Own(m) \subseteq Own(n)
    BY <1>1, LeavesUnfold
  <2> HIDE DEF Own
  <2>3. \A m \in BelowOf(tree)[n] : \A d \in ArgsValues :
           \/ TreeResults[<<m, d>>].args = d
           \/ d = NoArgs /\ TreeResults[<<m, d>>].args \in Own(n)
    BY <2>1, <2>2
  <2>4. ASSUME Normalized(tree[n].kind) \in {"and", "or"}, NEW found \in BOOLEAN,
               TreeResults[<<n, b>>] = Without(Children(tree[n].kids, found, b, TreeResults))
        PROVE  c = b \/ (b = NoArgs /\ c \in Own(n))
    <3> DEFINE kids == tree[n].kids
               W == IF b = NoArgs THEN Own(n) \cup {NoArgs} ELSE {b}
    <3>1. kids \in Seq(Nodes) /\ \A k \in 1..Len(kids) : kids[k] \in BelowOf(tree)[n]
      BY <1>1, <2>4, TreeKinds, TreeFounded
    <3>2. W \in SUBSET ArgsValues /\ b \in W
      BY DEF Own, ArgsValues
    <3>3. \A k \in 1..Len(kids) : \A d \in W :
             /\ TreeResults[<<kids[k], d>>].args \in W
             /\ Grows(d, TreeResults[<<kids[k], d>>].args)
      BY <2>3, <3>1, <3>2 DEF Grows
    <3>4. c = Children(kids, found, b, TreeResults).args
      BY <2>4 DEF Without
    <3> HIDE DEF kids, W, c
    <3>5. c \in W
      BY <1>2, <3>1, <3>2, <3>3, <3>4, ChildrenLegal
    <3> QED BY <3>5 DEF W
  <2>5. CASE Normalized(tree[n].kind) = "and"
    <3>1. TreeResults[<<n, b>>] = Without(Children(tree[n].kids, FALSE, b, TreeResults))
      BY <1>2, <2>5 DEF NodeResult, AtNode
    <3> QED BY <2>4, <2>5, <3>1
  <2>6. CASE Normalized(tree[n].kind) = "or"
    <3>1. TreeResults[<<n, b>>] = Without(Children(tree[n].kids, TRUE, b, TreeResults))
      BY <1>2, <2>6 DEF NodeResult, AtNode
    <3> QED BY <2>4, <2>6, <3>1
  <2>7. CASE Normalized(tree[n].kind) = "not"
    <3>0. TreeResults[<<n, b>>] = NodeResult(tree, n, b, TreeResults, LeafTable)
      BY <1>2
    <3>1. CASE tree[n].kid = NoNode
      <4>1. TreeResults[<<n, b>>] = [holds |-> FALSE, args |-> b]
        BY <2>7, <3>0, <3>1 DEF NodeResult, AtNode
      <4> QED BY <4>1
    <3>2. CASE tree[n].kid # NoNode
      <4> DEFINE r == TreeResults[<<tree[n].kid, b>>]
      <4>0. TreeResults[<<n, b>>] = [holds |-> ~r.holds, args |-> r.args]
        BY <2>7, <3>0, <3>2 DEF NodeResult, AtNode
      <4>1. c = r.args
        BY <4>0
      <4>2. tree[n].kid \in BelowOf(tree)[n]
        BY <1>1, <2>7, <3>2, TreeFounded
      <4> QED BY <2>3, <4>1, <4>2
    <3> QED BY <3>1, <3>2
  <2>8. CASE Normalized(tree[n].kind) = "leaf"
    <3>1. tree[n].kind = "leaf" /\ TreeResults[<<n, b>>] = LeafTable[<<n, b>>]
      BY <1>1, <1>2, <2>8, TreeKinds DEF NodeResult, AtNode
    <3>2. tree[n].leaf \in LeavesBy(tree)[n]
      BY <1>1, <3>1, LeavesUnfold
    <3>3. c \in ArgsValues
      <4>1. LeafTable[<<n, b>>] \in Results
        BY <3>1, LeafTableMeans
      <4> QED BY <3>1, <4>1 DEF Results
    <3>4. \/ c = b
          \/ /\ b = NoArgs /\ c \in message.starts
             /\ tree[n].leaf = [type |-> "command", command |-> c]
      BY <3>1, LeafTableMeans
    <3> HIDE DEF c
    <3>5. ASSUME c # b PROVE c \in Own(n)
      <4>1. c \in message.starts /\ [type |-> "command", command |-> c] \in LeavesBy(tree)[n]
        BY <3>2, <3>4, <3>5
      <4> QED BY <3>3, <4>1 DEF Own
    <3>6. c = b \/ (b = NoArgs /\ c \in Own(n))
      BY <3>4, <3>5
    <3> QED BY <3>6 DEF c
  <2> QED BY <1>1, <2>5, <2>6, <2>7, <2>8, TreeKinds
<1>4. \A n \in Nodes : n \in S
  <2> HIDE DEF S
  <2> QED BY <1>1, <1>3, TreeFounded, FoundedInduction
<1>5. Sets(Root)
  <2> HIDE DEF Sets
  <2> QED BY <1>1, <1>4
<1>6. Leaves(tree, Root) = LeavesBy(tree)[Root]
  BY <1>1, LeavesUnfold
<1>7. TreeResults[<<Root, a>>] \in Results
  BY <1>1, <1>2 DEF Evaluations
<1> QED BY <1>5, <1>6, <1>7

\* An evaluation leaves args alone, or is the first to set them: to the command of one of its
\* leaves, which the message begins with.
LEMMA EvaluateArgs ==
    ASSUME EvaluationType, Evaluate
    PROVE  /\ payloadArgs' \in ArgsValues
           /\ evaluated' \in Seq(BOOLEAN)
           /\ payloadArgs' # payloadArgs =>
                  /\ payloadArgs = NoArgs
                  /\ payloadArgs' \in message.starts
                  /\ [type |-> "command", command |-> payloadArgs'] \in Leaves(tree, Root)
<1> DEFINE r == TreeResults[<<Root, payloadArgs>>]
<1>1. EvaluateWhen(tree, Root, payloadArgs, MatchLeaf) = r
  BY TreeEvaluates
<1>2. /\ r \in Results
      /\ \/ r.args = payloadArgs
         \/ /\ payloadArgs = NoArgs /\ r.args \in message.starts
            /\ [type |-> "command", command |-> r.args] \in Leaves(tree, Root)
  BY ArgsOfLeaf DEF EvaluationType
<1> HIDE DEF r
<1>3. payloadArgs' = r.args /\ evaluated' = Append(evaluated, r.holds)
  BY <1>1 DEF Evaluate
<1>4. r.args \in ArgsValues /\ r.holds \in BOOLEAN
  BY <1>2 DEF Results
<1>5. evaluated' \in Seq(BOOLEAN)
  BY <1>3, <1>4, AppendProperties DEF EvaluationType
<1> QED BY <1>2, <1>3, <1>4, <1>5

\* The state is well typed.
THEOREM EvaluationTypeHolds == EvaluationSpec => []EvaluationType
<1>1. EvaluationInit => EvaluationType
  BY EvaluationAssumption, EmptySeq DEF EvaluationInit, EvaluationType, ArgsValues
<1>2. EvaluationType /\ [Evaluate]_evaluationVars => EvaluationType'
  <2>1. ASSUME EvaluationType, Evaluate PROVE EvaluationType'
    BY <2>1, EvaluateArgs DEF EvaluationType, Evaluate
  <2>2. ASSUME EvaluationType, UNCHANGED evaluationVars PROVE EvaluationType'
    BY <2>2 DEF EvaluationType, evaluationVars
  <2> QED BY <2>1, <2>2
<1> QED BY <1>1, <1>2, PTL DEF EvaluationSpec

\* Args are set at most once per event, by a command leaf of the tree that matches the message
\* (condition_match.py:20-21 and 61-69), in every tree and for every message.
THEOREM ArgsSetOnceHolds == EvaluationSpec => ArgsSetOnce
<1>1. ASSUME EvaluationType, [Evaluate]_evaluationVars
      PROVE  payloadArgs' # payloadArgs =>
                 /\ payloadArgs = NoArgs
                 /\ payloadArgs' \in message.starts
                 /\ [type |-> "command", command |-> payloadArgs'] \in Leaves(tree, Root)
  <2>1. CASE Evaluate
    BY <1>1, <2>1, EvaluateArgs
  <2>2. CASE UNCHANGED evaluationVars
    BY <2>2 DEF evaluationVars
  <2> QED BY <1>1, <2>1, <2>2
<1> QED BY <1>1, EvaluationTypeHolds, PTL DEF EvaluationSpec, ArgsSetOnce

\* The nodes below which no leaf compares.
NoCompareBelow == {n \in Nodes : \A leaf \in LeavesBy(tree)[n] : leaf.type # "compare"}

\* The tree holds as it is meant.
LEMMA RootMeans ==
    ASSUME EvaluationType, payloadArgs # NoArgs \/ ~CompareLeaves
    PROVE  TreeResults[<<Root, payloadArgs>>].holds <=> Meaning(payloadArgs)
<1> DEFINE M == MeaningBy(payloadArgs)
<1>1. /\ M \in [Nodes -> BOOLEAN] /\ Meaning(payloadArgs) = M[Root]
      /\ IsFormula(tree, Nodes, M)
      /\ \A n \in Nodes : tree[n].kind = "leaf" => M[n] = Truth(tree[n].leaf, payloadArgs)
  BY MeaningUnfolds DEF EvaluationType
<1> HIDE DEF M
<1>2. WellFormed(tree) /\ Evaluates(tree, TreeResults, LeafTable) /\ Root \in Nodes
  BY TreeEvaluates, EvaluationAssumption
<1>3. payloadArgs \in ArgsValues
  BY DEF EvaluationType
<1>4. ASSUME NEW n \in Nodes, tree[n].kind = "leaf", NEW b \in ArgsValues,
             tree[n].leaf.type # "compare" \/ b = payloadArgs
      PROVE  LeafTable[<<n, b>>].holds <=> M[n]
  BY <1>1, <1>4, LeafTableMeans
<1>5. CASE payloadArgs # NoArgs
  <2>1. {payloadArgs} \in SUBSET ArgsValues /\ payloadArgs \in {payloadArgs}
    BY <1>3
  <2>2. \A n \in Nodes : BelowOf(tree)[n] \subseteq Nodes
    BY <1>2, TreeFounded
  <2>3. ASSUME NEW n \in Nodes, tree[n].kind = "leaf"
        PROVE  \A b \in {payloadArgs} : /\ LeafTable[<<n, b>>].args \in {payloadArgs}
                                        /\ LeafTable[<<n, b>>].holds <=> M[n]
    <3>1. LeafTable[<<n, payloadArgs>>].args = payloadArgs
      BY <1>3, <1>5, <2>3, LeafTableMeans
    <3>2. LeafTable[<<n, payloadArgs>>].holds <=> M[n]
      BY <1>3, <1>4, <2>3
    <3> QED BY <3>1, <3>2
  <2> DEFINE W == {payloadArgs}
           In == Nodes
  <2>4. /\ W \in SUBSET ArgsValues /\ payloadArgs \in W
        /\ In \in SUBSET Nodes /\ Root \in In /\ IsFormula(tree, In, M)
        /\ \A n \in In : BelowOf(tree)[n] \subseteq In
    BY <1>1, <1>2, <2>1, <2>2
  <2>5. \A n \in In : tree[n].kind = "leaf" => \A b \in W :
              LeafTable[<<n, b>>].args \in W /\ (LeafTable[<<n, b>>].holds <=> M[n])
    BY <2>3
  <2> HIDE DEF W, In
  <2>6. TreeResults[<<Root, payloadArgs>>].holds <=> M[Root]
    BY <1>1, <1>2, <2>4, <2>5, NodesMean
  <2> QED BY <1>1, <2>6
<1>6. CASE ~CompareLeaves
  <2>1. NoCompareBelow \in SUBSET Nodes /\ Root \in NoCompareBelow
    BY <1>2, <1>6, LeavesUnfold DEF NoCompareBelow, CompareLeaves
  <2>2. \A n \in NoCompareBelow : BelowOf(tree)[n] \subseteq NoCompareBelow
    BY <1>2, LeavesUnfold, TreeFounded DEF NoCompareBelow
  <2>3. ASSUME NEW n \in NoCompareBelow, tree[n].kind = "leaf", NEW b \in ArgsValues
        PROVE  LeafTable[<<n, b>>].args \in ArgsValues /\ (LeafTable[<<n, b>>].holds <=> M[n])
    <3>1. n \in Nodes /\ tree[n].leaf.type # "compare"
      BY <1>2, <2>3, LeavesUnfold DEF NoCompareBelow
    <3>2. LeafTable[<<n, b>>].holds <=> M[n]
      BY <1>4, <2>3, <3>1
    <3>3. LeafTable[<<n, b>>] \in Results
      BY <2>3, <3>1, LeafTableMeans
    <3> QED BY <3>2, <3>3 DEF Results
  <2>4. IsFormula(tree, NoCompareBelow, M)
    BY <1>1, <2>1 DEF IsFormula
  <2>5. ArgsValues \in SUBSET ArgsValues
    OBVIOUS
  <2>6. TreeResults[<<Root, payloadArgs>>].holds <=> M[Root]
    BY <1>1, <1>2, <1>3, <2>1, <2>2, <2>3, <2>4, <2>5, NodesMean
  <2> QED BY <1>1, <2>6
<1> QED BY <1>5, <1>6

\* A tree holds exactly when the formula over its leaves does (expression/evaluator.py:47-109),
\* whatever the tree, the message and the leaves: neither the short circuit nor the order of the
\* children changes that, unless a compare leaf reads {args[0]} while another is still to set it.
THEOREM HoldsAsMeantHolds == EvaluationSpec => HoldsAsMeant
<1>1. ASSUME EvaluationType, Evaluate, payloadArgs # NoArgs \/ ~CompareLeaves
      PROVE  Last(evaluated') = Meaning(payloadArgs)
  <2> DEFINE r == TreeResults[<<Root, payloadArgs>>]
  <2>1. EvaluateWhen(tree, Root, payloadArgs, MatchLeaf) = r
    BY <1>1, TreeEvaluates
  <2>2. r.holds \in BOOLEAN
    BY <1>1, ArgsOfLeaf DEF EvaluationType, Results
  <2>3. r.holds <=> Meaning(payloadArgs)
    BY <1>1, RootMeans
  <2>4. Meaning(payloadArgs) \in BOOLEAN
    BY <1>1, MeaningUnfolds, EvaluationAssumption DEF EvaluationType
  <2> HIDE DEF r
  <2>5. evaluated' = Append(evaluated, r.holds)
    BY <1>1, <2>1 DEF Evaluate
  <2>6. Last(evaluated') = r.holds
    <3>1. evaluated \in Seq(BOOLEAN)
      BY <1>1 DEF EvaluationType
    <3>2. /\ Len(evaluated') = Len(evaluated) + 1
          /\ evaluated'[Len(evaluated) + 1] = r.holds
      BY <2>2, <2>5, <3>1, AppendProperties
    <3> QED BY <3>2 DEF Last
  <2> QED BY <2>2, <2>3, <2>4, <2>6
<1>2. ASSUME EvaluationType, [Evaluate]_evaluationVars, ~UNCHANGED evaluationVars
      PROVE  payloadArgs # NoArgs \/ ~CompareLeaves => Last(evaluated') = Meaning(payloadArgs)
  BY <1>1, <1>2
<1> QED BY <1>2, EvaluationTypeHolds, PTL DEF EvaluationSpec, HoldsAsMeant
=============================================================================
