----------------------------- MODULE MoneyProofs -----------------------------
(***************************************************************************)
(* Facts about the arithmetic of Money that the other proofs cite: shares   *)
(* in basis points, sums over a finite set, and what rows come to.          *)
(*                                                                          *)
(* A sum is a fold, that is a recursive function on the subsets of the set. *)
(* That there is such a function, and that its value does not depend on the *)
(* order, is shown here by induction on the size of the subsets, stated for *)
(* a set of numbers (InductiveSet).                                         *)
(***************************************************************************)
EXTENDS Money, FiniteSetTheorems, WellFoundedInduction, TLAPS

\* A ratio in basis points is a natural number.
LEMMA RatioIsNat == \A ratio \in 1..WholeBps : ratio \in Nat
BY DEF WholeBps

(* A share of an amount is a natural number no greater than the amount.     *)
LEMMA FloorBpsType ==
  ASSUME NEW a \in Nat, NEW b \in Nat
  PROVE  FloorBps(a, b) \in Nat
<1>1. a * b \in Nat  OBVIOUS
<1>2. \A n \in Nat : n \div WholeBps \in Nat  BY DEF WholeBps
<1>. QED  BY <1>1, <1>2 DEF FloorBps

\* A share of any amount is an integer.
LEMMA FloorBpsInt ==
  ASSUME NEW a \in Int, NEW b \in Nat
  PROVE  FloorBps(a, b) \in Int
<1>1. CASE a >= 0
  BY <1>1, FloorBpsType
<1>2. CASE ~(a >= 0)
  <2>1. -a * b \in Int  OBVIOUS
  <2>2. \A n \in Int : -(n \div WholeBps) \in Int  BY DEF WholeBps
  <2>. QED  BY <1>2, <2>1, <2>2 DEF FloorBps
<1>. QED  BY <1>1, <1>2

\* floorBps of a natural amount lies between nothing and the amount.
LEMMA FloorBpsBound ==
  ASSUME NEW a \in Nat, NEW b \in 0..WholeBps
  PROVE  FloorBps(a, b) <= a
<1>1. a * b \in Nat /\ a * b <= a * WholeBps  BY DEF WholeBps
<1>2. \A n \in Nat : n <= a * WholeBps => n \div WholeBps <= a  BY DEF WholeBps
<1>. QED  BY <1>1, <1>2 DEF FloorBps

\* The parts of a sum, each rounded down, are no more than the share of the sum.
LEMMA FloorBpsOfSum ==
  ASSUME NEW a \in Nat, NEW b \in Nat, NEW bps \in Nat
  PROVE  FloorBps(a, bps) + FloorBps(b, bps) <= FloorBps(a + b, bps)
<1>1. \A x, y \in Nat : x \div WholeBps + y \div WholeBps <= (x + y) \div WholeBps
  BY DEF WholeBps
<1>2. a * bps \in Nat /\ b * bps \in Nat /\ (a + b) * bps = a * bps + b * bps
  OBVIOUS
<1>. QED  BY <1>1, <1>2 DEF FloorBps

-----------------------------------------------------------------------------
(* Induction.                                                               *)

\* Induction over Nat, for a set of numbers rather than for a predicate.
LEMMA InductiveSet ==
  ASSUME NEW G \in SUBSET Nat, 0 \in G, \A n \in G : n + 1 \in G
  PROVE  G = Nat
<1>1. SUFFICES ASSUME Nat \ G # {} PROVE FALSE
  OBVIOUS
<1>2. PICK m \in Nat \ G : \A k \in Nat \ G : ~ (<<k, m>> \in OpToRel(<, Nat))
  BY <1>1, NatLessThanWellFounded, WFMin, Nat \ G \subseteq Nat
<1>3. \A k \in Nat \ G : ~ (k < m)
  BY <1>2 DEF OpToRel
<1>4. m # 0
  OBVIOUS
<1>5. m - 1 \in Nat /\ m - 1 < m
  BY <1>4
<1>6. m - 1 \in G
  BY <1>3, <1>5
<1>7. m \in G
  BY <1>5, <1>6
<1> QED
  BY <1>7

-----------------------------------------------------------------------------

\* The element a fold takes first, and the equation its iteration solves on a
\* family of sets.
First(s) == CHOOSE x \in s : TRUE

SumsOn(f, F, iter) ==
  iter = [s \in F |-> IF s = {} THEN 0 ELSE f[First(s)] + iter[s \ {First(s)}]]

UpTo(S, n) == {s \in SUBSET S : Cardinality(s) <= n}

\* Only the empty subset has no element.
LEMMA UpToZero ==
  ASSUME NEW S, IsFiniteSet(S)
  PROVE  UpTo(S, 0) = {{}}
<1>1. \A s \in UpTo(S, 0) : s = {}
  BY FS_Subset, FS_EmptySet, FS_CardinalityType DEF UpTo
<1>2. {} \in UpTo(S, 0)
  BY FS_EmptySet DEF UpTo
<1> QED
  BY <1>1, <1>2

\* Without its first element a subset is smaller by one.
LEMMA FirstLeft ==
  ASSUME NEW S, IsFiniteSet(S), NEW n \in Nat, NEW s \in UpTo(S, n + 1), s # {}
  PROVE  /\ First(s) \in s
         /\ s \ {First(s)} \in UpTo(S, n)
<1>1. First(s) \in s
  BY DEF First
<1>2. IsFiniteSet(s) /\ s \subseteq S /\ Cardinality(s) <= n + 1
  BY FS_Subset DEF UpTo
<1>3. /\ Cardinality(s \ {First(s)}) = Cardinality(s) - 1
      /\ Cardinality(s) \in Nat
  BY <1>1, <1>2, FS_RemoveElement, FS_CardinalityType
<1> QED
  BY <1>1, <1>2, <1>3 DEF UpTo

\* The equation has a solution on the subsets of a finite set.
LEMMA SumsExist ==
  ASSUME NEW f, NEW S, IsFiniteSet(S)
  PROVE  \E iter : SumsOn(f, SUBSET S, iter)
<1> DEFINE G == {n \in Nat : \E iter : SumsOn(f, UpTo(S, n), iter)}
<1>1. 0 \in G
  <2>1. UpTo(S, 0) = {{}}
    BY UpToZero
  <2>2. SumsOn(f, UpTo(S, 0), [s \in UpTo(S, 0) |-> 0])
    BY <2>1 DEF SumsOn
  <2> QED
    BY <2>2
<1>2. ASSUME NEW n \in G PROVE n + 1 \in G
  <2>1. n \in Nat /\ n + 1 \in Nat
    OBVIOUS
  <2>2. PICK g : SumsOn(f, UpTo(S, n), g)
    OBVIOUS
  <2> DEFINE h == [s \in UpTo(S, n + 1) |->
                     IF s = {} THEN 0 ELSE f[First(s)] + g[s \ {First(s)}]]
  <2>3. UpTo(S, n) \subseteq UpTo(S, n + 1)
    <3>1. ASSUME NEW s \in UpTo(S, n) PROVE s \in UpTo(S, n + 1)
      <4>1. IsFiniteSet(s) /\ Cardinality(s) <= n /\ s \subseteq S
        BY FS_Subset DEF UpTo
      <4>2. Cardinality(s) \in Nat
        BY <4>1, FS_CardinalityType
      <4> QED
        BY <4>1, <4>2, <2>1 DEF UpTo
    <3> QED
      BY <3>1
  <2>4. ASSUME NEW s \in UpTo(S, n) PROVE h[s] = g[s]
    <3>1. g[s] = IF s = {} THEN 0 ELSE f[First(s)] + g[s \ {First(s)}]
      BY <2>2 DEF SumsOn
    <3> QED
      BY <3>1, <2>3
  <2>5. ASSUME NEW s \in UpTo(S, n + 1), s # {}
        PROVE  g[s \ {First(s)}] = h[s \ {First(s)}]
    BY <2>1, <2>4, <2>5, FirstLeft
  <2>6. SumsOn(f, UpTo(S, n + 1), h)
    BY <2>5 DEF SumsOn
  <2> QED
    BY <2>1, <2>6
<1>3. G = Nat
  BY <1>1, <1>2, InductiveSet
<1>4. Cardinality(S) \in Nat
  BY FS_CardinalityType
<1>5. UpTo(S, Cardinality(S)) = SUBSET S
  BY FS_Subset DEF UpTo
<1>6. PICK iter : SumsOn(f, UpTo(S, Cardinality(S)), iter)
  BY <1>3, <1>4
<1>7. SumsOn(f, SUBSET S, iter)
  BY <1>5, <1>6
<1> QED
  BY <1>7

Iter(f, S) == CHOOSE iter : SumsOn(f, SUBSET S, iter)

\* A sum is the value of its recursive function at the whole set.
LEMMA SumIsIter ==
  ASSUME NEW f, NEW S
  PROVE  SumFunctionOnSet(f, S) = Iter(f, S)[S]
BY DEF SumFunctionOnSet, FoldFunctionOnSet, MapThenFoldSet, Iter, SumsOn, First

\* The recursive function a sum chooses is one.
LEMMA IterSums ==
  ASSUME NEW f, NEW S, IsFiniteSet(S)
  PROVE  SumsOn(f, SUBSET S, Iter(f, S))
BY SumsExist DEF Iter

-----------------------------------------------------------------------------

\* The iteration over a set gives each subset the sum of that subset.
LEMMA IterAgrees ==
  ASSUME NEW f, NEW S, IsFiniteSet(S), NEW T \in SUBSET S
  PROVE  Iter(f, S)[T] = Iter(f, T)[T]
<1> DEFINE G == {n \in Nat : \A s \in UpTo(T, n) :
                                Iter(f, S)[s] = Iter(f, T)[s]}
<1>1. IsFiniteSet(T)
  BY FS_Subset
<1>2. /\ SumsOn(f, SUBSET S, Iter(f, S))
      /\ SumsOn(f, SUBSET T, Iter(f, T))
  BY <1>1, IterSums
<1>3. ASSUME NEW s \in SUBSET T
      PROVE  /\ Iter(f, S)[s] = IF s = {} THEN 0
                  ELSE f[First(s)] + Iter(f, S)[s \ {First(s)}]
             /\ Iter(f, T)[s] = IF s = {} THEN 0
                  ELSE f[First(s)] + Iter(f, T)[s \ {First(s)}]
  BY <1>2, s \in SUBSET S DEF SumsOn
<1>4. 0 \in G
  BY <1>1, <1>3, UpToZero
<1>5. ASSUME NEW n \in G PROVE n + 1 \in G
  <2>1. ASSUME NEW s \in UpTo(T, n + 1)
        PROVE  Iter(f, S)[s] = Iter(f, T)[s]
    <3>1. s \in SUBSET T
      BY DEF UpTo
    <3>2. s # {} => s \ {First(s)} \in UpTo(T, n)
      BY <1>1, FirstLeft
    <3>3. s # {} => Iter(f, S)[s \ {First(s)}] = Iter(f, T)[s \ {First(s)}]
      BY <3>2
    <3> QED
      BY <1>3, <3>1, <3>3
  <2> QED
    BY <2>1
<1>6. G = Nat
  BY <1>4, <1>5, InductiveSet
<1> QED
  BY <1>1, <1>6, FS_CardinalityType DEF UpTo

-----------------------------------------------------------------------------
(* What the sum is.                                                         *)

\* The sum over no element.
LEMMA SumEmpty == ASSUME NEW f PROVE SumFunctionOnSet(f, {}) = 0
<1>1. SumsOn(f, SUBSET {}, Iter(f, {}))
  BY IterSums, FS_EmptySet
<1> QED
  BY <1>1, SumIsIter DEF SumsOn

\* The sum of the element the fold takes first and of the others.
LEMMA SumFirst ==
  ASSUME NEW f, NEW S, IsFiniteSet(S), S # {}
  PROVE  SumFunctionOnSet(f, S) =
           f[First(S)] + SumFunctionOnSet(f, S \ {First(S)})
<1> DEFINE h == Iter(f, S)
<1>0. SumsOn(f, SUBSET S, h) /\ S \in SUBSET S
  BY IterSums
<1> HIDE DEF h
<1>1. h[S] = f[First(S)] + h[S \ {First(S)}]
  BY <1>0 DEF SumsOn
<1>2. h[S \ {First(S)}] = Iter(f, S \ {First(S)})[S \ {First(S)}]
  BY IterAgrees DEF h
<1>3. SumFunctionOnSet(f, S) = h[S]
  BY SumIsIter DEF h
<1> QED
  BY <1>1, <1>2, <1>3, SumIsIter

\* Induction over the size of the set: the sum is a number.
LEMMA SumType ==
  ASSUME NEW f, NEW S, IsFiniteSet(S), \A x \in S : f[x] \in Int
  PROVE  SumFunctionOnSet(f, S) \in Int
<1> DEFINE G == {n \in Nat : \A s \in UpTo(S, n) : SumFunctionOnSet(f, s) \in Int}
<1>0. SumFunctionOnSet(f, {}) \in Int
  BY SumEmpty
<1>1. 0 \in G
  BY <1>0, UpToZero
<1>2. ASSUME NEW n \in G PROVE n + 1 \in G
  <2>1. ASSUME NEW s \in UpTo(S, n + 1), s # {}
        PROVE  SumFunctionOnSet(f, s) \in Int
    <3>1. First(s) \in s /\ s \ {First(s)} \in UpTo(S, n)
      BY <2>1, FirstLeft
    <3>2. IsFiniteSet(s) /\ s \subseteq S
      BY FS_Subset DEF UpTo
    <3> QED
      BY <2>1, <3>1, <3>2, SumFirst
  <2> QED
    BY <2>1, SumEmpty
<1>3. G = Nat
  BY <1>1, <1>2, InductiveSet
<1> QED
  BY <1>3, FS_CardinalityType DEF UpTo

\* Any element may be taken first.
LEMMA SumRemove ==
  ASSUME NEW f, NEW S, IsFiniteSet(S), \A x \in S : f[x] \in Int, NEW y \in S
  PROVE  SumFunctionOnSet(f, S) = f[y] + SumFunctionOnSet(f, S \ {y})
<1> DEFINE G == {n \in Nat : \A s \in UpTo(S, n) : \A x \in s :
                   SumFunctionOnSet(f, s) = f[x] + SumFunctionOnSet(f, s \ {x})}
<1>1. 0 \in G
  BY UpToZero
<1>2. ASSUME NEW n \in G PROVE n + 1 \in G
  <2>1. ASSUME NEW s \in UpTo(S, n + 1), NEW x \in s
        PROVE  SumFunctionOnSet(f, s) = f[x] + SumFunctionOnSet(f, s \ {x})
    <3> DEFINE c == First(s)
    <3>1. c \in s /\ s \ {c} \in UpTo(S, n) /\ n \in Nat
      BY FirstLeft
    <3>2. IsFiniteSet(s) /\ s \subseteq S /\ Cardinality(s) <= n + 1
      BY FS_Subset DEF UpTo
    <3>3. SumFunctionOnSet(f, s) = f[c] + SumFunctionOnSet(f, s \ {c})
      BY <3>1, <3>2, SumFirst
    <3>4. CASE x = c
      BY <3>3, <3>4
    <3>5. CASE x # c
      <4>1. s \ {x} \in UpTo(S, n)
        BY <3>1, <3>2, FS_RemoveElement, FS_CardinalityType DEF UpTo
      <4>2. SumFunctionOnSet(f, s \ {c}) =
              f[x] + SumFunctionOnSet(f, (s \ {c}) \ {x})
        BY <3>1, <3>5
      <4>3. SumFunctionOnSet(f, s \ {x}) =
              f[c] + SumFunctionOnSet(f, (s \ {x}) \ {c})
        BY <3>1, <3>5, <4>1
      <4>4. (s \ {c}) \ {x} = (s \ {x}) \ {c}
        OBVIOUS
      <4>5. SumFunctionOnSet(f, (s \ {x}) \ {c}) \in Int
        BY <3>2, SumType, FS_Subset
      <4>6. f[c] \in Int /\ f[x] \in Int
        BY <3>1, <3>2
      <4> HIDE DEF c
      <4> DEFINE a == SumFunctionOnSet(f, (s \ {x}) \ {c})
      <4>7. /\ SumFunctionOnSet(f, s) = f[c] + (f[x] + a)
            /\ SumFunctionOnSet(f, s \ {x}) = f[c] + a
            /\ a \in Int
        BY <3>3, <4>2, <4>3, <4>4, <4>5
      <4> HIDE DEF a
      <4> QED
        BY <4>6, <4>7
    <3> QED
      BY <3>4, <3>5
  <2> QED
    BY <2>1
<1>3. G = Nat
  BY <1>1, <1>2, InductiveSet
<1>4. S \in UpTo(S, Cardinality(S)) /\ Cardinality(S) \in G
  BY <1>3, FS_CardinalityType DEF UpTo
<1> QED
  BY <1>4

\* The sum over a set with one element more.
LEMMA SumAdd ==
  ASSUME NEW f, NEW S, IsFiniteSet(S), NEW y, y \notin S,
         \A x \in S \cup {y} : f[x] \in Int
  PROVE  SumFunctionOnSet(f, S \cup {y}) = f[y] + SumFunctionOnSet(f, S)
<1>1. IsFiniteSet(S \cup {y}) /\ (S \cup {y}) \ {y} = S
  BY FS_AddElement
<1> QED
  BY <1>1, SumRemove

\* Natural numbers sum to one, and none of them is more than the sum.
LEMMA SumNat ==
  ASSUME NEW f, NEW S, IsFiniteSet(S), \A x \in S : f[x] \in Nat
  PROVE  /\ SumFunctionOnSet(f, S) \in Nat
         /\ \A y \in S : f[y] <= SumFunctionOnSet(f, S)
<1> DEFINE G == {n \in Nat : \A s \in UpTo(S, n) : SumFunctionOnSet(f, s) \in Nat}
<1>0. SumFunctionOnSet(f, {}) \in Nat
  BY SumEmpty
<1>1. 0 \in G
  BY <1>0, UpToZero
<1>2. ASSUME NEW n \in G PROVE n + 1 \in G
  <2>1. ASSUME NEW s \in UpTo(S, n + 1), s # {}
        PROVE  SumFunctionOnSet(f, s) \in Nat
    <3>1. First(s) \in s /\ s \ {First(s)} \in UpTo(S, n)
      BY <2>1, FirstLeft
    <3>2. IsFiniteSet(s) /\ s \subseteq S
      BY FS_Subset DEF UpTo
    <3>3. SumFunctionOnSet(f, s \ {First(s)}) \in Nat /\ f[First(s)] \in Nat
      BY <3>1, <3>2
    <3>4. SumFunctionOnSet(f, s) = f[First(s)] + SumFunctionOnSet(f, s \ {First(s)})
      BY <2>1, <3>2, SumFirst
    <3> QED
      BY <3>3, <3>4
  <2>2. \A s \in UpTo(S, n + 1) : SumFunctionOnSet(f, s) \in Nat
    BY <1>0, <2>1
  <2>3. n + 1 \in Nat
    OBVIOUS
  <2> QED
    BY <2>2, <2>3
<1>3. G = Nat
  <2> HIDE DEF G
  <2>1. G \in SUBSET Nat
    BY DEF G
  <2> QED
    BY <1>1, <1>2, <2>1, InductiveSet
<1>4. \A T \in SUBSET S : SumFunctionOnSet(f, T) \in Nat
  <2>1. ASSUME NEW T \in SUBSET S PROVE SumFunctionOnSet(f, T) \in Nat
    <3>1. Cardinality(T) \in Nat /\ T \in UpTo(S, Cardinality(T))
      BY FS_Subset, FS_CardinalityType DEF UpTo
    <3> QED
      BY <1>3, <3>1
  <2> QED
    BY <2>1
<1>5. ASSUME NEW y \in S PROVE f[y] <= SumFunctionOnSet(f, S)
  <2>1. SumFunctionOnSet(f, S) = f[y] + SumFunctionOnSet(f, S \ {y})
    BY SumRemove
  <2>2. SumFunctionOnSet(f, S \ {y}) \in Nat /\ f[y] \in Nat
    BY <1>4
  <2> QED
    BY <2>1, <2>2
<1> QED
  BY <1>4, <1>5

\* Only what the function is on the set counts.
LEMMA SumSame ==
  ASSUME NEW f, NEW g, NEW S, IsFiniteSet(S), \A x \in S : f[x] = g[x]
  PROVE  SumFunctionOnSet(f, S) = SumFunctionOnSet(g, S)
<1> DEFINE G == {n \in Nat : \A s \in UpTo(S, n) :
                   SumFunctionOnSet(f, s) = SumFunctionOnSet(g, s)}
<1>1. 0 \in G
  BY SumEmpty, UpToZero
<1>2. ASSUME NEW n \in G PROVE n + 1 \in G
  <2>1. ASSUME NEW s \in UpTo(S, n + 1), s # {}
        PROVE  SumFunctionOnSet(f, s) = SumFunctionOnSet(g, s)
    <3>1. First(s) \in s /\ s \ {First(s)} \in UpTo(S, n)
      BY <2>1, FirstLeft
    <3>2. IsFiniteSet(s) /\ s \subseteq S
      BY FS_Subset DEF UpTo
    <3> QED
      BY <2>1, <3>1, <3>2, SumFirst
  <2> QED
    BY <2>1, SumEmpty
<1>3. G = Nat
  BY <1>1, <1>2, InductiveSet
<1> QED
  BY <1>3, FS_CardinalityType DEF UpTo

-----------------------------------------------------------------------------
(* What a set of ledger rows comes to.                                      *)

\* What rows come to is a sum over any set they are in.
LEMMA AmountIsSum ==
  ASSUME NEW S, NEW T \in SUBSET S, IsFiniteSet(T)
  PROVE  AmountOf(T) = SumFunctionOnSet([r \in S |-> r.amount], T)
<1>1. AmountOf(T) = SumFunctionOnSet([r \in T |-> r.amount], T)
  BY DEF AmountOf, SumFunction
<1>2. \A r \in T : [x \in T |-> x.amount][r] = [x \in S |-> x.amount][r]
  OBVIOUS
<1> QED
  BY <1>1, <1>2, SumSame

\* No rows come to nothing.
LEMMA AmountEmpty == AmountOf({}) = 0
<1>1. AmountOf({}) = SumFunctionOnSet([r \in {} |-> r.amount], {})
  BY DEF AmountOf, SumFunction
<1> QED
  BY <1>1, SumEmpty

\* Rows of whole amounts come to a whole amount.
LEMMA AmountType ==
  ASSUME NEW S, IsFiniteSet(S), \A r \in S : r.amount \in Int
  PROVE  AmountOf(S) \in Int
<1> DEFINE f == [r \in S |-> r.amount]
<1>1. AmountOf(S) = SumFunctionOnSet(f, S)
  BY AmountIsSum
<1>2. \A r \in S : f[r] \in Int
  OBVIOUS
<1> HIDE DEF f
<1> QED
  BY <1>1, <1>2, SumType

\* One row more.
LEMMA AmountAdd ==
  ASSUME NEW S, IsFiniteSet(S), NEW y, y \notin S,
         \A r \in S \cup {y} : r.amount \in Int
  PROVE  AmountOf(S \cup {y}) = y.amount + AmountOf(S)
<1> DEFINE f == [r \in S \cup {y} |-> r.amount]
<1>1. IsFiniteSet(S \cup {y})
  BY FS_AddElement
<1>2. /\ AmountOf(S) = SumFunctionOnSet(f, S)
      /\ AmountOf(S \cup {y}) = SumFunctionOnSet(f, S \cup {y})
  BY <1>1, AmountIsSum
<1>3. f[y] = y.amount /\ \A r \in S \cup {y} : f[r] \in Int
  OBVIOUS
<1> HIDE DEF f
<1> QED
  BY <1>2, <1>3, SumAdd

\* One row alone.
LEMMA AmountOne ==
  ASSUME NEW y, y.amount \in Int
  PROVE  AmountOf({y}) = y.amount
<1>1. AmountOf({} \cup {y}) = y.amount + AmountOf({})
  BY AmountAdd, FS_EmptySet
<1>2. {} \cup {y} = {y}
  OBVIOUS
<1> QED
  BY <1>1, <1>2, AmountEmpty

\* Rows of two sets that share none.
LEMMA AmountUnion ==
  ASSUME NEW S, NEW T, IsFiniteSet(S), IsFiniteSet(T), S \cap T = {},
         \A r \in S \cup T : r.amount \in Int
  PROVE  AmountOf(S \cup T) = AmountOf(S) + AmountOf(T)
<1> DEFINE G == {n \in Nat : \A t \in UpTo(T, n) :
                   AmountOf(S \cup t) = AmountOf(S) + AmountOf(t)}
<1>0. AmountOf(S) \in Int
  BY AmountType
<1>1. AmountOf(S \cup {}) = AmountOf(S) + AmountOf({})
  <2>1. AmountOf(S \cup {}) = AmountOf(S)
    <3>1. S \cup {} = S
      OBVIOUS
    <3> QED
      BY <3>1, Zenon
  <2> QED
    BY <1>0, <2>1, AmountEmpty
<1>4. 0 \in G
  BY <1>1, UpToZero
<1>2. ASSUME NEW n \in G PROVE n + 1 \in G
  <2>1. ASSUME NEW t \in UpTo(T, n + 1), t # {}
        PROVE  AmountOf(S \cup t) = AmountOf(S) + AmountOf(t)
    <3> DEFINE y == First(t)
               rest == t \ {y}
    <3>1. y \in t /\ rest \in UpTo(T, n) /\ t \subseteq T
      BY <2>1, FirstLeft DEF UpTo
    <3>2. IsFiniteSet(rest) /\ IsFiniteSet(S \cup rest)
      BY <3>1, FS_Subset, FS_Union
    <3>3. y \notin rest /\ y \notin S \cup rest
      BY <3>1
    <3>4. t = rest \cup {y} /\ S \cup t = (S \cup rest) \cup {y}
      BY <3>1
    <3>5. /\ AmountOf(rest \cup {y}) = y.amount + AmountOf(rest)
          /\ AmountOf((S \cup rest) \cup {y}) = y.amount + AmountOf(S \cup rest)
      <4> HIDE DEF y, rest
      <4> QED
        BY <3>1, <3>2, <3>3, <3>4, AmountAdd
    <3>6. AmountOf(S \cup rest) = AmountOf(S) + AmountOf(rest)
      BY <3>1
    <3>7. AmountOf(rest) \in Int /\ y.amount \in Int
      BY <3>1, <3>2, AmountType
    <3> DEFINE a == AmountOf(rest)
               b == AmountOf(S)
    <3>8. /\ AmountOf(t) = y.amount + a
          /\ AmountOf(S \cup t) = y.amount + (b + a)
          /\ a \in Int /\ b \in Int /\ y.amount \in Int
      <4> HIDE DEF y, rest
      <4> QED
        BY <1>0, <3>4, <3>5, <3>6, <3>7, Zenon
    <3> HIDE DEF a
    <3> QED
      BY <3>8
  <2>2. \A t \in UpTo(T, n + 1) : AmountOf(S \cup t) = AmountOf(S) + AmountOf(t)
    BY <1>1, <2>1, Zenon
  <2> QED
    BY <2>2
<1>3. G = Nat
  BY <1>2, <1>4, InductiveSet
<1> QED
  BY <1>3, FS_CardinalityType DEF UpTo

\* Whatever holds of nothing, and of two amounts only if of both together, holds
\* of the sum.
LEMMA AmountIn ==
  ASSUME NEW V \in SUBSET Int, 0 \in V, \A x, y \in V : x + y \in V,
         NEW S, IsFiniteSet(S), \A r \in S : r.amount \in V
  PROVE  AmountOf(S) \in V
<1> DEFINE G == {n \in Nat : \A s \in UpTo(S, n) : AmountOf(s) \in V}
<1>0. AmountOf({}) \in V
  BY AmountEmpty
<1>1. 0 \in G
  BY <1>0, UpToZero
<1>2. ASSUME NEW n \in G PROVE n + 1 \in G
  <2>1. ASSUME NEW s \in UpTo(S, n + 1), s # {}
        PROVE  AmountOf(s) \in V
    <3> DEFINE y == First(s)
               rest == s \ {y}
    <3>1. y \in s /\ rest \in UpTo(S, n) /\ s \subseteq S
      BY <2>1, FirstLeft DEF UpTo
    <3>2. IsFiniteSet(rest) /\ y \notin rest /\ s = rest \cup {y}
      BY <3>1, FS_Subset
    <3>3. AmountOf(rest) \in V /\ y.amount \in V
      BY <3>1
    <3> HIDE DEF y, rest
    <3>4. AmountOf(rest \cup {y}) = y.amount + AmountOf(rest)
      BY <3>1, <3>2, AmountAdd
    <3> QED
      BY <3>2, <3>3, <3>4
  <2>2. \A s \in UpTo(S, n + 1) : AmountOf(s) \in V
    BY <1>0, <2>1, Zenon
  <2> QED
    BY <2>2
<1>3. G = Nat
  BY <1>1, <1>2, InductiveSet
<1> QED
  BY <1>3, FS_CardinalityType DEF UpTo

\* Rows that are not negative come to no negative amount.
LEMMA AmountNat ==
  ASSUME NEW S, IsFiniteSet(S), \A r \in S : r.amount \in Nat
  PROVE  AmountOf(S) \in Nat
<1>1. Nat \subseteq Int /\ 0 \in Nat /\ \A x, y \in Nat : x + y \in Nat
  OBVIOUS
<1> QED
  BY <1>1, AmountIn

\* Rows that are not positive come to no positive amount.
LEMMA AmountNegative ==
  ASSUME NEW S, IsFiniteSet(S), \A r \in S : r.amount \in Int /\ r.amount <= 0
  PROVE  AmountOf(S) \in Int /\ AmountOf(S) <= 0
<1> DEFINE V == {x \in Int : x <= 0}
<1>1. V \subseteq Int /\ 0 \in V /\ \A x, y \in V : x + y \in V
  OBVIOUS
<1>2. \A r \in S : r.amount \in V
  OBVIOUS
<1> HIDE DEF V
<1>3. AmountOf(S) \in V
  BY <1>1, <1>2, AmountIn
<1> QED
  BY <1>3 DEF V

\* Fewer rows come to less where those left out are not negative.
LEMMA AmountSubset ==
  ASSUME NEW T, IsFiniteSet(T), NEW S \in SUBSET T,
         \A r \in T : r.amount \in Int, \A r \in T \ S : r.amount >= 0
  PROVE  AmountOf(S) <= AmountOf(T)
<1>1. IsFiniteSet(S) /\ IsFiniteSet(T \ S)
  BY FS_Subset
<1>2. AmountOf(S \cup (T \ S)) = AmountOf(S) + AmountOf(T \ S)
  BY <1>1, AmountUnion
<1>3. S \cup (T \ S) = T
  OBVIOUS
<1>4. AmountOf(S) \in Int /\ AmountOf(T \ S) \in Nat
  <2>1. \A r \in T \ S : r.amount \in Nat
    OBVIOUS
  <2> QED
    BY <1>1, <2>1, AmountType, AmountNat
<1>5. AmountOf(T) = AmountOf(S) + AmountOf(T \ S)
  BY <1>2, <1>3, Zenon
<1> QED
  BY <1>4, <1>5

-----------------------------------------------------------------------------
(* Sums and shares.                                                         *)

\* The image of a finite set is finite.
LEMMA FiniteImage ==
  ASSUME NEW S, IsFiniteSet(S), NEW f
  PROVE  IsFiniteSet({f[x] : x \in S})
<1> DEFINE T == {f[x] : x \in S}
           h == [x \in S |-> f[x]]
<1>1. h \in Surjection(S, T)
  BY DEF Surjection
<1> HIDE DEF h
<1> QED
  BY <1>1, FS_Surjection

\* One row at most for each part, worth its share of it: the rows come to no
\* more than the share of the whole.
LEMMA SharesOfParts ==
  ASSUME NEW O, IsFiniteSet(O), NEW f, \A o \in O : f[o] \in Nat,
         NEW bps \in Nat, NEW R,
         \A r \in R : r.order \in O /\ r.amount = FloorBps(f[r.order], bps),
         \A r, s \in R : r.order = s.order => r = s
  PROVE  /\ SumFunctionOnSet(f, O) \in Nat
         /\ AmountOf(R) <= FloorBps(SumFunctionOnSet(f, O), bps)
<1> DEFINE Of(s) == {r \in R : r.order \in s}
           Good(s) == /\ SumFunctionOnSet(f, s) \in Nat
                      /\ IsFiniteSet(Of(s)) /\ AmountOf(Of(s)) \in Nat
                      /\ AmountOf(Of(s)) <= FloorBps(SumFunctionOnSet(f, s), bps)
           G == {n \in Nat : \A s \in UpTo(O, n) : Good(s)}
<1>0. \A r \in R : r.amount \in Int
  <2>1. ASSUME NEW r \in R PROVE FloorBps(f[r.order], bps) \in Nat
    BY FloorBpsType
  <2> QED
    BY <2>1
<1>1. Good({})
  <2>1. Of({}) = {}
    OBVIOUS
  <2>2. FloorBps(0, bps) \in Nat
    BY FloorBpsType
  <2>3. AmountOf(Of({})) = 0 /\ IsFiniteSet(Of({}))
    BY <2>1, AmountEmpty, FS_EmptySet
  <2>4. SumFunctionOnSet(f, {}) = 0
    BY SumEmpty
  <2> HIDE DEF Of
  <2> QED
    BY <2>2, <2>3, <2>4
<1>2. 0 \in G
  BY <1>1, UpToZero
<1>3. ASSUME NEW n \in G PROVE n + 1 \in G
  <2>1. ASSUME NEW s \in UpTo(O, n + 1), s # {}
        PROVE  Good(s)
    <3> DEFINE y == First(s)
               rest == s \ {y}
               a == SumFunctionOnSet(f, rest)
               b == AmountOf(Of(rest))
    <3>1. y \in s /\ rest \in UpTo(O, n) /\ s \subseteq O /\ y \in O
      BY <2>1, FirstLeft DEF UpTo
    <3>2. Good(rest)
      BY <3>1
    <3>3. a \in Nat /\ b \in Nat /\ b <= FloorBps(a, bps) /\ IsFiniteSet(Of(rest))
      BY <3>2
    <3>4. SumFunctionOnSet(f, s) = f[y] + a /\ f[y] \in Nat
      BY <2>1, <3>1, FS_Subset, SumFirst
    <3>5. FloorBps(f[y], bps) \in Nat /\ FloorBps(a, bps) \in Nat
          /\ FloorBps(f[y] + a, bps) \in Nat
          /\ FloorBps(f[y], bps) + FloorBps(a, bps) <= FloorBps(f[y] + a, bps)
      <4> DEFINE c == f[y]
      <4>1. a \in Nat /\ c \in Nat /\ c + a \in Nat
        BY <3>3, <3>4
      <4> HIDE DEF a, c
      <4>2. /\ FloorBps(c, bps) \in Nat /\ FloorBps(a, bps) \in Nat
            /\ FloorBps(c + a, bps) \in Nat
        BY <4>1, FloorBpsType
      <4>3. FloorBps(c, bps) + FloorBps(a, bps) <= FloorBps(c + a, bps)
        BY <4>1, FloorBpsOfSum
      <4> QED
        BY <4>2, <4>3 DEF c
    <3>6. CASE \A r \in R : r.order # y
      <4>1. Of(s) = Of(rest)
        BY <3>6
      <4>2. AmountOf(Of(s)) = b /\ IsFiniteSet(Of(s))
        BY <3>3, <4>1, Zenon
      <4> HIDE DEF a, b, Of
      <4> QED
        BY <3>3, <3>4, <3>5, <4>2
    <3>7. ASSUME NEW x \in R, x.order = y
          PROVE  Good(s)
      <4>1. Of(s) = Of(rest) \cup {x} /\ x \notin Of(rest)
        BY <3>1, <3>7
      <4>2. x.amount = FloorBps(f[y], bps)
        BY <3>7
      <4>3. \A r \in Of(rest) \cup {x} : r.amount \in Int
        BY <1>0
      <4>4. AmountOf(Of(rest) \cup {x}) = x.amount + b
            /\ IsFiniteSet(Of(rest) \cup {x})
        <5> HIDE DEF Of
        <5> QED
          BY <3>3, <4>1, <4>3, AmountAdd, FS_AddElement
      <4>5. AmountOf(Of(s)) = x.amount + b /\ IsFiniteSet(Of(s))
        BY <4>1, <4>4, Zenon
      <4> HIDE DEF a, b, Of
      <4> QED
        BY <3>3, <3>4, <3>5, <4>2, <4>5
    <3> QED
      BY <3>6, <3>7
  <2>2. \A s \in UpTo(O, n + 1) : Good(s)
    <3> HIDE DEF Good
    <3> QED
      BY <1>1, <2>1, Zenon
  <2> HIDE DEF Good
  <2> QED
    BY <2>2
<1> HIDE DEF Good
<1>4. G = Nat
  BY <1>2, <1>3, InductiveSet
<1>5. Good(O)
  BY <1>4, FS_CardinalityType DEF UpTo
<1>6. Of(O) = R
  OBVIOUS
<1> QED
  BY <1>5, <1>6 DEF Good

\* Each debit has a credit of its own that it does not exceed: the credits come
\* to no less than the debits.
LEMMA DebitsCovered ==
  ASSUME NEW V, IsFiniteSet(V), NEW f,
         \A v \in V : /\ v.amount \in Int /\ f[v].amount \in Int
                      /\ f[v].amount + v.amount >= 0,
         \A v, w \in V : f[v] = f[w] => v = w
  PROVE  AmountOf({f[v] : v \in V}) + AmountOf(V) >= 0
<1> DEFINE Credits(s) == {f[v] : v \in s}
           Good(s) == /\ AmountOf(Credits(s)) \in Int /\ AmountOf(s) \in Int
                      /\ AmountOf(Credits(s)) + AmountOf(s) >= 0
           G == {n \in Nat : \A s \in UpTo(V, n) : Good(s)}
<1>1. Good({})
  <2>1. Credits({}) = {}
    OBVIOUS
  <2>2. AmountOf(Credits({})) = 0 /\ AmountOf({}) = 0
    BY <2>1, AmountEmpty, Zenon
  <2> HIDE DEF Credits
  <2> QED
    BY <2>2
<1>2. 0 \in G
  <2> HIDE DEF Good
  <2> QED
    BY <1>1, UpToZero
<1>3. ASSUME NEW n \in G PROVE n + 1 \in G
  <2>1. ASSUME NEW s \in UpTo(V, n + 1), s # {}
        PROVE  Good(s)
    <3> DEFINE y == First(s)
               rest == s \ {y}
               a == AmountOf(Credits(rest))
               b == AmountOf(rest)
    <3>1. y \in s /\ rest \in UpTo(V, n) /\ s \subseteq V /\ y \in V
      BY <2>1, FirstLeft DEF UpTo
    <3>2. a \in Int /\ b \in Int /\ a + b >= 0
      BY <3>1
    <3>3. IsFiniteSet(rest) /\ IsFiniteSet(Credits(rest))
      <4>1. IsFiniteSet(rest)
        BY <3>1, FS_Subset
      <4> HIDE DEF rest
      <4> QED
        BY <4>1, FiniteImage
    <3>4. /\ s = rest \cup {y} /\ y \notin rest
          /\ Credits(s) = Credits(rest) \cup {f[y]} /\ f[y] \notin Credits(rest)
      BY <3>1
    <3>5. AmountOf(rest \cup {y}) = y.amount + b
      <4>1. \A r \in rest \cup {y} : r.amount \in Int
        BY <3>1
      <4> HIDE DEF rest, y
      <4> QED
        BY <3>3, <3>4, <4>1, AmountAdd
    <3>6. AmountOf(Credits(rest) \cup {f[y]}) = f[y].amount + a
      <4>1. \A r \in Credits(rest) \cup {f[y]} : r.amount \in Int
        BY <3>1
      <4> HIDE DEF Credits, rest, y
      <4> QED
        BY <3>3, <3>4, <4>1, AmountAdd
    <3>7. /\ AmountOf(s) = y.amount + b
          /\ AmountOf(Credits(s)) = f[y].amount + a
      <4> HIDE DEF Credits, rest, y, a, b
      <4> QED
        BY <3>4, <3>5, <3>6, Zenon
    <3>8. y.amount \in Int /\ f[y].amount \in Int /\ f[y].amount + y.amount >= 0
      BY <3>1
    <3> HIDE DEF Credits, rest, y, a, b
    <3> QED
      BY <3>2, <3>7, <3>8
  <2>2. \A s \in UpTo(V, n + 1) : Good(s)
    <3> HIDE DEF Good
    <3> QED
      BY <1>1, <2>1, Zenon
  <2> HIDE DEF Good
  <2> QED
    BY <2>2
<1> HIDE DEF Good
<1>4. G = Nat
  BY <1>2, <1>3, InductiveSet
<1>5. Good(V)
  BY <1>4, FS_CardinalityType DEF UpTo
<1> QED
  BY <1>5 DEF Good

=============================================================================
