----------------------------- MODULE BaseLemmas -----------------------------
(***************************************************************************)
(* What the proofs of several components rest on: what the movements of    *)
(* the Stock entity preserve, and what is true of sums over finite sets.   *)
(*                                                                         *)
(* A sum is a fold, and folds are defined by recursion.  What they compute *)
(* is proved here from the fact that among the finite sets that refute a   *)
(* claim one is smallest: SumFunctionOnSet(f, S) counts the units of f.    *)
(***************************************************************************)
EXTENDS StockEntity, FiniteSetsExt, FiniteSetTheorems, TLAPS

-----------------------------------------------------------------------------
\* The row a movement of any number of units leaves behind.
LEMMA MovedRow ==
  ASSUME NEW s \in StockRow, NEW n \in Int
  PROVE  /\ Moved("reserve", s, n) =
              [total |-> s.total, available |-> s.available - n,
               reserved |-> s.reserved + n, sold |-> s.sold]
         /\ Moved("release", s, n) =
              [total |-> s.total, available |-> s.available + n,
               reserved |-> s.reserved - n, sold |-> s.sold]
         /\ Moved("confirm", s, n) =
              [total |-> s.total, available |-> s.available,
               reserved |-> s.reserved - n, sold |-> s.sold + n]
         /\ \A kind \in Kinds : Moved(kind, s, n) \in StockRow
<1>1. /\ Moved("reserve", s, n) =
           [total |-> s.total, available |-> s.available - n,
            reserved |-> s.reserved + n, sold |-> s.sold]
      /\ Moved("release", s, n) =
           [total |-> s.total, available |-> s.available + n,
            reserved |-> s.reserved - n, sold |-> s.sold]
      /\ Moved("confirm", s, n) =
           [total |-> s.total, available |-> s.available,
            reserved |-> s.reserved - n, sold |-> s.sold + n]
  BY DEF Moved, StockRow
<1>2. \A kind \in Kinds : Moved(kind, s, n) \in StockRow
  BY <1>1 DEF Kinds, StockRow
<1>3. QED
  BY <1>1, <1>2

\* A movement the entity allows keeps a row well-typed, valid and balanced
\* (reserve, restoreReserved and sell of the Stock entity).
LEMMA MovedIsValid ==
  ASSUME NEW s \in StockRow, NEW kind \in Kinds, NEW qty \in Int,
         Allowed(kind, s, qty)
  PROVE  /\ Moved(kind, s, qty) \in StockRow
         /\ Valid(s) /\ Balanced(s) =>
              Valid(Moved(kind, s, qty)) /\ Balanced(Moved(kind, s, qty))
<1> DEFINE new == Moved(kind, s, qty)
<1>1. /\ qty > 0
      /\ kind = "reserve" => qty <= s.available
      /\ kind # "reserve" => qty <= s.reserved
  BY DEF Allowed, Source
<1>2. CASE kind = "reserve"
  <2>1. new = [total |-> s.total, available |-> s.available - qty,
           reserved |-> s.reserved + qty, sold |-> s.sold]
    BY <1>2 DEF Moved, StockRow
  <2>2. QED
    BY <1>1, <1>2, <2>1 DEF StockRow, Valid, Balanced
<1>3. CASE kind = "release"
  <2>1. new = [total |-> s.total, available |-> s.available + qty,
           reserved |-> s.reserved - qty, sold |-> s.sold]
    BY <1>3 DEF Moved, StockRow
  <2>2. QED
    BY <1>1, <1>3, <2>1 DEF StockRow, Valid, Balanced
<1>4. CASE kind = "confirm"
  <2>1. new = [total |-> s.total, available |-> s.available,
           reserved |-> s.reserved - qty, sold |-> s.sold + qty]
    BY <1>4 DEF Moved, StockRow
  <2>2. QED
    BY <1>1, <1>4, <2>1 DEF StockRow, Valid, Balanced
<1>5. QED
  BY <1>2, <1>3, <1>4 DEF Kinds

-----------------------------------------------------------------------------
(***************************************************************************)
(* Sums of natural numbers over finite sets.                               *)
(***************************************************************************)
\* Of the subsets of a finite set that are counterexamples to something, one
\* is smallest: without any of its elements it is none.
LEMMA SmallestSubset ==
  ASSUME NEW S, IsFiniteSet(S), NEW bad \in SUBSET (SUBSET S), bad # {}
  PROVE  \E T \in bad : \A x \in T : T \ {x} \notin bad
<1>1. bad \subseteq FiniteSubsetsOf(S)
  BY FS_Subset DEF FiniteSubsetsOf
<1>2. PICK T \in bad : \A U \in bad : <<U, T>> \notin StrictSubsetOrdering(S)
  BY <1>1, FS_StrictSubsetOrderingWellFounded, WFMin
<1>3. ASSUME NEW x \in T
      PROVE  T \ {x} \notin bad
  BY <1>2, <1>3 DEF StrictSubsetOrdering
<1>4. QED
  BY <1>2, <1>3

\* The units f counts on S, one by one.
UnitsOf(f, S) == {u \in S \X Nat : u[2] \in 1..f[u[1]]}

\* Those of one element, and those of the others.
LEMMA UnitsOfOne ==
  ASSUME NEW f, NEW S, NEW x \in S, f[x] \in Nat
  PROVE  /\ UnitsOf(f, S) = UnitsOf(f, S \ {x}) \cup ({x} \X (1..f[x]))
         /\ UnitsOf(f, S \ {x}) \cap ({x} \X (1..f[x])) = {}
         /\ IsFiniteSet({x} \X (1..f[x]))
         /\ Cardinality({x} \X (1..f[x])) = f[x]
<1>1. IsFiniteSet({x} \X (1..f[x])) /\ Cardinality({x} \X (1..f[x])) = f[x]
  <2>1. IsFiniteSet({x}) /\ Cardinality({x}) = 1
    BY FS_Singleton
  <2>2. IsFiniteSet(1..f[x]) /\ Cardinality(1..f[x]) = f[x]
    <3>0. 1 \in Int /\ f[x] \in Int
      OBVIOUS
    <3>1. /\ IsFiniteSet(1..f[x])
          /\ Cardinality(1..f[x]) = IF 1 > f[x] THEN 0 ELSE f[x] - 1 + 1
      BY <3>0, FS_Interval, Zenon
    <3>2. (IF 1 > f[x] THEN 0 ELSE f[x] - 1 + 1) = f[x]
      OBVIOUS
    <3>3. QED
      BY <3>1, <3>2
  <2>3. /\ IsFiniteSet({x} \X (1..f[x]))
        /\ Cardinality({x} \X (1..f[x])) = Cardinality({x}) * Cardinality(1..f[x])
    BY <2>1, <2>2, FS_Product
  <2>4. 1 * f[x] = f[x]
    OBVIOUS
  <2>5. QED
    BY <2>1, <2>2, <2>3, <2>4
<1>2. UnitsOf(f, S) = UnitsOf(f, S \ {x}) \cup ({x} \X (1..f[x]))
  BY DEF UnitsOf
<1>3. UnitsOf(f, S \ {x}) \cap ({x} \X (1..f[x])) = {}
  BY DEF UnitsOf
<1>4. QED
  BY <1>1, <1>2, <1>3

\* They are finitely many, ...
LEMMA UnitsOfFinite ==
  ASSUME NEW f, NEW S, IsFiniteSet(S), \A x \in S : f[x] \in Nat
  PROVE  IsFiniteSet(UnitsOf(f, S))
<1> DEFINE bad == {T \in SUBSET S : ~IsFiniteSet(UnitsOf(f, T))}
<1>1. SUFFICES ASSUME bad # {} PROVE FALSE
  OBVIOUS
<1>2. PICK T \in bad : \A x \in T : T \ {x} \notin bad
  BY <1>1, SmallestSubset
<1>3. T # {}
  BY <1>2, FS_EmptySet DEF UnitsOf
<1>4. PICK x \in T : TRUE
  BY <1>3
<1>5. IsFiniteSet(UnitsOf(f, T \ {x}))
  BY <1>2, <1>4
<1>6. /\ UnitsOf(f, T) = UnitsOf(f, T \ {x}) \cup ({x} \X (1..f[x]))
      /\ IsFiniteSet({x} \X (1..f[x]))
  BY <1>4, UnitsOfOne
<1>7. IsFiniteSet(UnitsOf(f, T \ {x}) \cup ({x} \X (1..f[x])))
  BY <1>5, <1>6, FS_Union
<1>8. QED
  BY <1>2, <1>6, <1>7

\* ... as many as one element has, and the others.
LEMMA UnitsOfCount ==
  ASSUME NEW f, NEW S, IsFiniteSet(S), \A x \in S : f[x] \in Nat
  PROVE  /\ Cardinality(UnitsOf(f, S)) \in Nat
         /\ \A x \in S : Cardinality(UnitsOf(f, S)) = 
              f[x] + Cardinality(UnitsOf(f, S \ {x}))
<1>1. Cardinality(UnitsOf(f, S)) \in Nat
  BY UnitsOfFinite, FS_CardinalityType
<1>2. ASSUME NEW x \in S
      PROVE  Cardinality(UnitsOf(f, S)) = f[x] + Cardinality(UnitsOf(f, S \ {x}))
  <2>1. IsFiniteSet(UnitsOf(f, S \ {x}))
    BY UnitsOfFinite, FS_RemoveElement
  <2>2. Cardinality(UnitsOf(f, S \ {x})) \in Nat
    BY <2>1, FS_CardinalityType
  <2> DEFINE A == UnitsOf(f, S \ {x})
             B == {x} \X (1..f[x])
  <2>3. IsFiniteSet(B) /\ Cardinality(B) = f[x] /\ A \cap B = {} /\ UnitsOf(f, S) = A \cup B
    BY UnitsOfOne
  <2>4. Cardinality(A \cup B) = Cardinality(A) + Cardinality(B) - Cardinality(A \cap B)
    BY <2>1, <2>3, FS_Union
  <2>5. Cardinality(A \cap B) = 0
    BY <2>3, FS_EmptySet
  <2> HIDE DEF A, B
  <2>6. Cardinality(UnitsOf(f, S)) = f[x] + Cardinality(A)
    BY <2>2, <2>3, <2>4, <2>5 DEF A
  <2>7. QED
    BY <2>6 DEF A
<1>3. QED
  BY <1>1, <1>2

\* What SumFunctionOnSet recurses with exists (it counts the units) and is
\* unique (of two candidates, look at a smallest set they differ on).
LEMMA SumIsUnits ==
  ASSUME NEW f, NEW S, IsFiniteSet(S), \A x \in S : f[x] \in Nat
  PROVE  SumFunctionOnSet(f, S) = Cardinality(UnitsOf(f, S))
<1> DEFINE pick(s) == CHOOSE x \in s : TRUE
           step(h) == [s \in SUBSET S |-> IF s = {} THEN 0
                                          ELSE f[pick(s)] + h[s \ {pick(s)}]]
           g == [s \in SUBSET S |-> Cardinality(UnitsOf(f, s))]
<1>1. g = step(g)
  <2>1. ASSUME NEW s \in SUBSET S, s # {}
        PROVE  g[s] = f[pick(s)] + g[s \ {pick(s)}]
    <3>1. pick(s) \in s
      BY <2>1
    <3> HIDE DEF pick
    <3>2. IsFiniteSet(s) /\ \A x \in s : f[x] \in Nat
      BY FS_Subset
    <3>3. Cardinality(UnitsOf(f, s)) = f[pick(s)] + Cardinality(UnitsOf(f, s \ {pick(s)}))
      BY <3>1, <3>2, UnitsOfCount
    <3>4. QED
      BY <3>3
  <2>2. g[{}] = 0
    BY FS_EmptySet DEF UnitsOf
  <2> HIDE DEF g
  <2>3. g = [s \in SUBSET S |-> g[s]]
    BY DEF g
  <2>4. \A s \in SUBSET S : g[s] = step(g)[s]
    BY <2>1, <2>2
  <2>5. QED
    BY <2>3, <2>4
<1>2. ASSUME NEW h, h = step(h)
      PROVE  h = g
  <2> DEFINE bad == {s \in SUBSET S : h[s] # g[s]}
  <2>1. ASSUME bad # {}
        PROVE  FALSE
    <3>1. PICK s \in bad : \A x \in s : s \ {x} \notin bad
      BY <2>1, SmallestSubset
    <3> HIDE DEF g
    <3>2. h[s] = step(h)[s] /\ g[s] = step(g)[s]
      BY <1>1, <1>2
    <3>3. s # {}
      BY <3>1, <3>2
    <3>4. pick(s) \in s
      BY <3>3
    <3>5. h[s \ {pick(s)}] = g[s \ {pick(s)}]
      BY <3>1, <3>4
    <3>6. QED
      BY <3>1, <3>2, <3>5
  <2> HIDE DEF g
  <2>2. h = [s \in SUBSET S |-> h[s]]
    BY <1>2
  <2>3. g = [s \in SUBSET S |-> g[s]]
    BY DEF g
  <2>4. QED
    BY <2>1, <2>2, <2>3
<1> HIDE DEF g
<1>3. SumFunctionOnSet(f, S) = g[S]
  BY <1>1, <1>2 DEF SumFunctionOnSet, FoldFunctionOnSet, MapThenFoldSet
<1>4. QED
  BY <1>3 DEF g

-----------------------------------------------------------------------------
\* A sum of natural numbers is one, zero for no terms, and the term of any
\* element more than the sum of the others.
LEMMA SumNat ==
  ASSUME NEW f, NEW S, IsFiniteSet(S), \A x \in S : f[x] \in Nat
  PROVE  /\ SumFunctionOnSet(f, S) \in Nat
         /\ S = {} => SumFunctionOnSet(f, S) = 0
         /\ \A x \in S :
              SumFunctionOnSet(f, S) = f[x] + SumFunctionOnSet(f, S \ {x})
<1>1. SumFunctionOnSet(f, S) \in Nat
  BY SumIsUnits, UnitsOfCount
<1>2. ASSUME S = {} PROVE SumFunctionOnSet(f, S) = 0
  BY <1>2, SumIsUnits, FS_EmptySet DEF UnitsOf
<1>3. ASSUME NEW x \in S
      PROVE  SumFunctionOnSet(f, S) = f[x] + SumFunctionOnSet(f, S \ {x})
  <2>1. IsFiniteSet(S \ {x})
    BY FS_RemoveElement
  <2>2. SumFunctionOnSet(f, S \ {x}) = Cardinality(UnitsOf(f, S \ {x}))
    BY <2>1, SumIsUnits
  <2>3. QED
    BY <2>2, SumIsUnits, UnitsOfCount
<1>4. QED
  BY <1>1, <1>2, <1>3

\* It depends on the terms only.
LEMMA SumSame ==
  ASSUME NEW f, NEW g, NEW S, IsFiniteSet(S),
         \A x \in S : f[x] \in Nat /\ g[x] = f[x]
  PROVE  SumFunctionOnSet(g, S) = SumFunctionOnSet(f, S)
<1>1. UnitsOf(g, S) = UnitsOf(f, S)
  BY DEF UnitsOf
<1>2. QED
  BY <1>1, SumIsUnits

\* Two parts without common elements add up.
LEMMA SumParts ==
  ASSUME NEW f, NEW S, NEW T, IsFiniteSet(S), IsFiniteSet(T), S \cap T = {},
         \A x \in S \cup T : f[x] \in Nat
  PROVE  SumFunctionOnSet(f, S \cup T)
           = SumFunctionOnSet(f, S) + SumFunctionOnSet(f, T)
<1>1. UnitsOf(f, S \cup T) = UnitsOf(f, S) \cup UnitsOf(f, T)
  BY DEF UnitsOf
<1>2. UnitsOf(f, S) \cap UnitsOf(f, T) = {}
  BY DEF UnitsOf
<1>3. IsFiniteSet(UnitsOf(f, S)) /\ IsFiniteSet(UnitsOf(f, T))
  BY UnitsOfFinite
<1>4. /\ Cardinality(UnitsOf(f, S)) \in Nat
      /\ Cardinality(UnitsOf(f, T)) \in Nat
  BY <1>3, FS_CardinalityType
<1>5. Cardinality(UnitsOf(f, S) \cup UnitsOf(f, T))
        = Cardinality(UnitsOf(f, S)) + Cardinality(UnitsOf(f, T))
  <2>1. Cardinality(UnitsOf(f, S) \cup UnitsOf(f, T))
          = Cardinality(UnitsOf(f, S)) + Cardinality(UnitsOf(f, T))
              - Cardinality(UnitsOf(f, S) \cap UnitsOf(f, T))
    BY <1>3, FS_Union
  <2>2. Cardinality(UnitsOf(f, S) \cap UnitsOf(f, T)) = 0
    BY <1>2, FS_EmptySet
  <2>3. QED
    BY <1>4, <2>1, <2>2
<1>6. IsFiniteSet(S \cup T)
  BY FS_Union
<1>7. SumFunctionOnSet(f, S \cup T) = Cardinality(UnitsOf(f, S \cup T))
  BY <1>6, SumIsUnits
<1>8. /\ SumFunctionOnSet(f, S) = Cardinality(UnitsOf(f, S))
      /\ SumFunctionOnSet(f, T) = Cardinality(UnitsOf(f, T))
  BY SumIsUnits
<1>9. QED
  BY <1>1, <1>5, <1>7, <1>8

\* Smaller terms over fewer elements add up to a smaller sum.
LEMMA SumMonotone ==
  ASSUME NEW f, NEW g, NEW S, NEW T, IsFiniteSet(T), S \subseteq T,
         \A x \in T : g[x] \in Nat,
         \A x \in S : f[x] \in Nat /\ f[x] <= g[x]
  PROVE  SumFunctionOnSet(f, S) <= SumFunctionOnSet(g, T)
<1>1. IsFiniteSet(S)
  BY FS_Subset
<1>2. UnitsOf(f, S) \subseteq UnitsOf(g, T)
  BY DEF UnitsOf
<1>3. IsFiniteSet(UnitsOf(g, T))
  BY UnitsOfFinite
<1>4. Cardinality(UnitsOf(f, S)) <= Cardinality(UnitsOf(g, T))
  BY <1>2, <1>3, FS_Subset
<1>5. QED
  BY <1>1, <1>4, SumIsUnits

\* The largest of finitely many numbers: without it, look at a smallest set that
\* has none.
LEMMA MaxIsLargest ==
  ASSUME NEW S \in SUBSET Nat, IsFiniteSet(S), S # {}
  PROVE  Max(S) \in S /\ \A x \in S : x <= Max(S)
<1> DEFINE bad == {T \in SUBSET S : T # {} /\ \A m \in T : \E x \in T : x > m}
<1>1. bad = {}
  <2> SUFFICES ASSUME bad # {} PROVE FALSE
    OBVIOUS
  <2>1. PICK T \in bad : \A x \in T : T \ {x} \notin bad
    BY SmallestSubset
  <2>2. PICK y \in T : TRUE
    BY <2>1
  <2>3. T \ {y} # {}
    BY <2>1, <2>2
  <2>4. PICK m \in T \ {y} : \A x \in T \ {y} : ~(x > m)
    BY <2>1, <2>2, <2>3
  <2>5. m \in Nat /\ y \in Nat
    BY <2>1, <2>2, <2>4
  <2>6. CASE y > m
    <3>1. \A x \in T : ~(x > y)
      BY <2>1, <2>4, <2>5, <2>6
    <3>2. QED
      BY <2>1, <2>2, <3>1
  <2>7. CASE ~(y > m)
    BY <2>1, <2>4, <2>7
  <2>8. QED
    BY <2>6, <2>7
<1>2. \E m \in S : \A x \in S : m >= x
  BY <1>1
<1>3. QED
  BY <1>2 DEF Max
=============================================================================
