--------------------------- MODULE TallyTheorems ---------------------------
(* What the proofs need to know about sums. *)
EXTENDS Tally, FunctionTheorems, FiniteSetTheorems, WellFoundedInduction, TLAPS

\* The units of one index are as many as its value.
LEMMA UnitsOfOne ==
    ASSUME NEW x, NEW n \in Nat
    PROVE  /\ IsFiniteSet({x} \X (1 .. n))
           /\ Cardinality({x} \X (1 .. n)) = n
<1> DEFINE A == {x}
           B == 1 .. n
<1>1. IsFiniteSet(A) /\ Cardinality(A) = 1
  BY FS_Singleton
<1>2. IsFiniteSet(B) /\ Cardinality(B) = n
  BY FS_Interval
<1> HIDE DEF A, B
<1>3. IsFiniteSet(A \X B) /\ Cardinality(A \X B) = Cardinality(A) * Cardinality(B)
  BY <1>1, <1>2, FS_Product
<1>4. Cardinality(A \X B) = n
  BY <1>1, <1>2, <1>3
<1> QED BY <1>3, <1>4 DEF A, B

\* The units of a finite family form a finite set.
LEMMA UnitsFinite ==
    ASSUME NEW S, IsFiniteSet(S), NEW f, \A x \in S : f[x] \in Nat
    PROVE  IsFiniteSet(Units(f, S))
<1> DEFINE T == {{x} \X (1 .. f[x]) : x \in S}
           g == [x \in S |-> {x} \X (1 .. f[x])]
<1>1. g \in Surjection(S, T)
  BY DEF Surjection
<1>2. IsFiniteSet(T)
  BY <1>1, FS_Surjection
<1>3. \A t \in T : IsFiniteSet(t)
  <2> SUFFICES ASSUME NEW x \in S PROVE IsFiniteSet({x} \X (1 .. f[x]))
    OBVIOUS
  <2>1. f[x] \in Nat
    OBVIOUS
  <2> DEFINE n == f[x]
  <2> HIDE DEF n
  <2>2. IsFiniteSet({x} \X (1 .. n))
    BY <2>1, UnitsOfOne DEF n
  <2> QED BY <2>2 DEF n
<1> QED BY <1>2, <1>3, FS_UNION DEF Units

\* A sum is a natural number.
THEOREM TallyType ==
    ASSUME NEW S, IsFiniteSet(S), NEW f \in [S -> Nat]
    PROVE  Tally(f) \in Nat
BY UnitsFinite, FS_CardinalityType DEF Tally

\* One index can be split off a sum.
LEMMA TallySplit ==
    ASSUME NEW S, IsFiniteSet(S), NEW f \in [S -> Nat], NEW x \in S
    PROVE  /\ Cardinality(Units(f, S \ {x})) \in Nat
           /\ Tally(f) = Cardinality(Units(f, S \ {x})) + f[x]
<1> DEFINE Rest == Units(f, S \ {x})
           One == {x} \X (1 .. f[x])
<1>1. IsFiniteSet(Rest)
  <2>1. IsFiniteSet(S \ {x})
    BY FS_RemoveElement
  <2> QED BY <2>1, UnitsFinite
<1>2. IsFiniteSet(One) /\ Cardinality(One) = f[x]
  BY UnitsOfOne
<1>3. Units(f, S) = Rest \cup One
  BY DEF Units
<1>4. Rest \cap One = {}
  BY DEF Units
<1>5. Cardinality(Rest) \in Nat
  BY <1>1, FS_CardinalityType
<1>6. Tally(f) = Cardinality(Rest \cup One)
  BY <1>3 DEF Tally
<1> HIDE DEF Rest, One
<1>7. Cardinality(Rest \cup One)
         = Cardinality(Rest) + Cardinality(One) - Cardinality(Rest \cap One)
  BY <1>1, <1>2, FS_Union
<1>8. Cardinality(Rest \cap One) = 0
  BY <1>4, FS_EmptySet
<1>9. f[x] \in Nat
  OBVIOUS
<1>10. Tally(f) = Cardinality(Rest) + f[x]
  BY <1>2, <1>5, <1>6, <1>7, <1>8, <1>9
<1> QED BY <1>5, <1>10 DEF Rest

\* Two families that agree have the same units.
LEMMA UnitsEqual ==
    ASSUME NEW S, NEW f, NEW g, \A x \in S : f[x] = g[x]
    PROVE  Units(f, S) = Units(g, S)
BY DEF Units

\* Changing one value changes the sum by as much.
THEOREM TallyChange ==
    ASSUME NEW S, IsFiniteSet(S), NEW f \in [S -> Nat], NEW g \in [S -> Nat],
           NEW x \in S, \A y \in S \ {x} : g[y] = f[y]
    PROVE  Tally(g) = Tally(f) + g[x] - f[x]
<1>1. Units(f, S \ {x}) = Units(g, S \ {x})
  BY UnitsEqual
<1> QED BY <1>1, TallySplit

\* Changing two values changes the sum by both differences.
THEOREM TallyChangeTwo ==
    ASSUME NEW S, IsFiniteSet(S), NEW f \in [S -> Nat], NEW g \in [S -> Nat],
           NEW x \in S, NEW y \in S, x # y, \A z \in S \ {x, y} : g[z] = f[z]
    PROVE  Tally(g) = Tally(f) + (g[x] - f[x]) + (g[y] - f[y])
<1> DEFINE h == [f EXCEPT ![x] = g[x]]
<1>1. /\ h \in [S -> Nat] /\ h[x] = g[x] /\ h[y] = f[y]
      /\ \A z \in S \ {x} : h[z] = f[z]
      /\ \A z \in S \ {y} : g[z] = h[z]
  OBVIOUS
<1> HIDE DEF h
<1>2. Tally(h) = Tally(f) + h[x] - f[x]
  BY <1>1, TallyChange
<1>3. Tally(g) = Tally(h) + g[y] - h[y]
  BY <1>1, TallyChange
<1>4. /\ Tally(f) \in Nat /\ Tally(h) \in Nat /\ Tally(g) \in Nat
      /\ f[x] \in Nat /\ g[x] \in Nat /\ f[y] \in Nat /\ g[y] \in Nat
  BY <1>1, TallyType
<1> QED BY <1>1, <1>2, <1>3, <1>4

\* Adding an index adds its value.
THEOREM TallyExtend ==
    ASSUME NEW S, IsFiniteSet(S), NEW x, x \notin S,
           NEW f \in [S -> Nat], NEW g \in [S \cup {x} -> Nat],
           \A y \in S : g[y] = f[y]
    PROVE  Tally(g) = Tally(f) + g[x]
<1>1. IsFiniteSet(S \cup {x})
  BY FS_AddElement
<1>2. (S \cup {x}) \ {x} = S
  OBVIOUS
<1>3. Units(g, S) = Units(f, S)
  BY UnitsEqual
<1>4. Tally(g) = Cardinality(Units(g, S)) + g[x]
  BY <1>1, <1>2, TallySplit
<1>5. Tally(f) = Cardinality(Units(f, S))
  BY DEF Tally
<1> QED BY <1>3, <1>4, <1>5

\* A sum of zeros is zero.
THEOREM TallyZero ==
    ASSUME NEW f, \A x \in DOMAIN f : f[x] = 0
    PROVE  Tally(f) = 0
<1>1. \A x \in DOMAIN f : {x} \X (1 .. f[x]) = {}
  <2> SUFFICES ASSUME NEW x \in DOMAIN f PROVE {x} \X (1 .. f[x]) = {}
    OBVIOUS
  <2>1. 1 .. f[x] = {}
    OBVIOUS
  <2> QED BY <2>1
<1>2. Units(f, DOMAIN f) = {}
  BY <1>1 DEF Units
<1> QED BY <1>2, FS_EmptySet DEF Tally

\* A family with one value on a part of its indices, and zero elsewhere.
THEOREM TallyConstant ==
    ASSUME NEW S, IsFiniteSet(S), NEW P \in SUBSET S, NEW c \in Nat,
           NEW f, f = [x \in S |-> IF x \in P THEN c ELSE 0]
    PROVE  Tally(f) = Cardinality(P) * c
<1>1. Units(f, DOMAIN f) = P \X (1 .. c)
  BY DEF Units
<1>2. IsFiniteSet(P)
  BY FS_Subset
<1>3. IsFiniteSet(1 .. c) /\ Cardinality(1 .. c) = c
  BY FS_Interval
<1> DEFINE I == 1 .. c
<1> HIDE DEF I
<1>4. Cardinality(P \X I) = Cardinality(P) * Cardinality(I)
  BY <1>2, <1>3, FS_Product DEF I
<1> QED BY <1>1, <1>3, <1>4 DEF I, Tally

\* Smaller values have a smaller sum.
THEOREM TallyMonotone ==
    ASSUME NEW S, IsFiniteSet(S), NEW f \in [S -> Nat], NEW g \in [S -> Nat],
           \A x \in S : g[x] <= f[x]
    PROVE  Tally(g) <= Tally(f)
<1>1. Units(g, S) \subseteq Units(f, S)
  <2>1. \A x \in S : 1 .. g[x] \subseteq 1 .. f[x]
    OBVIOUS
  <2> QED
    BY <2>1 DEF Units
<1>2. IsFiniteSet(Units(f, S))
  BY UnitsFinite
<1> QED
  BY <1>1, <1>2, FS_Subset DEF Tally

\* Induction over a finite set, for a family of its subsets: a smallest subset
\* outside the family would be empty, or one element more than one within.
THEOREM SubsetInduction ==
    ASSUME NEW S, IsFiniteSet(S), NEW G, {} \in G,
           \A T \in SUBSET S : \A x \in S \ T : T \in G => T \cup {x} \in G
    PROVE  S \in G
<1> DEFINE Bad == (SUBSET S) \ G
<1> SUFFICES ASSUME Bad # {}
             PROVE  FALSE
  OBVIOUS
<1>1. IsWellFoundedOn(StrictSubsetOrdering(S), SUBSET S)
  BY FS_StrictSubsetOrderingWellFounded, FS_FiniteSubsetsOfFinite
<1>2. PICK T \in Bad : \A R \in Bad : ~(<<R, T>> \in StrictSubsetOrdering(S))
  <2>1. Bad \subseteq SUBSET S
    OBVIOUS
  <2> HIDE DEF Bad
  <2> QED
    BY <1>1, <2>1, WFMin
<1>3. PICK x \in T : TRUE
  BY <1>2
<1>4. <<T \ {x}, T>> \in StrictSubsetOrdering(S)
  BY <1>2, <1>3 DEF StrictSubsetOrdering
<1>5. T \ {x} \in G /\ T \ {x} \in SUBSET S /\ x \in S \ (T \ {x})
  BY <1>2, <1>3, <1>4
<1>6. (T \ {x}) \cup {x} = T
  BY <1>3
<1> QED
  BY <1>2, <1>5, <1>6

\* The units of one index more.
LEMMA UnitsExtend ==
    ASSUME NEW T, IsFiniteSet(T), NEW x, x \notin T, NEW f, \A y \in T \cup {x} : f[y] \in Nat
    PROVE  /\ Cardinality(Units(f, T)) \in Nat
           /\ Cardinality(Units(f, T \cup {x})) = Cardinality(Units(f, T)) + f[x]
<1> DEFINE One == {x} \X (1 .. f[x])
           Rest == Units(f, T)
<1>1. IsFiniteSet(Rest) /\ Cardinality(Rest) \in Nat
  BY UnitsFinite, FS_CardinalityType
<1>2. IsFiniteSet(One) /\ Cardinality(One) = f[x]
  BY UnitsOfOne
<1>3. Units(f, T \cup {x}) = Rest \cup One /\ Rest \cap One = {}
  BY DEF Units
<1> HIDE DEF One, Rest
<1>4. Cardinality(Rest \cup One) = Cardinality(Rest) + Cardinality(One) - Cardinality(Rest \cap One)
  BY <1>1, <1>2, FS_Union
<1>5. Cardinality(Rest \cap One) = 0
  BY <1>3, FS_EmptySet
<1>6. Cardinality(Rest \cup One) = Cardinality(Rest) + f[x]
  BY <1>1, <1>2, <1>4, <1>5
<1> QED
  BY <1>1, <1>3, <1>6 DEF Rest

\* What is counted in disjoint parts is counted once in the whole.
THEOREM TallyOfParts ==
    ASSUME NEW S, IsFiniteSet(S), NEW f \in [S -> Nat],
           NEW N, IsFiniteSet(N), NEW Part \in [N -> SUBSET S],
           \A m, n \in N : m # n => Part[m] \cap Part[n] = {}
    PROVE  Tally([n \in N |-> Tally([x \in Part[n] |-> f[x]])]) <= Tally(f)
<1> DEFINE g == [n \in N |-> Tally([x \in Part[n] |-> f[x]])]
           Whole(M) == UNION {Part[n] : n \in M}
           G == {M \in SUBSET N : Cardinality(Units(g, M)) = Cardinality(Units(f, Whole(M)))}
<1>1. \A n \in N : g[n] = Cardinality(Units(f, Part[n]))
  <2> SUFFICES ASSUME NEW n \in N
               PROVE  Tally([x \in Part[n] |-> f[x]]) = Cardinality(Units(f, Part[n]))
    OBVIOUS
  <2> DEFINE P == Part[n]
             h == [x \in P |-> f[x]]
  <2>1. DOMAIN h = P /\ \A x \in P : h[x] = f[x]
    OBVIOUS
  <2> HIDE DEF h, P
  <2>2. Units(h, P) = Units(f, P)
    BY <2>1, UnitsEqual
  <2> QED
    BY <2>1, <2>2 DEF Tally, h, P
<1>2. \A T \in SUBSET S : IsFiniteSet(Units(f, T)) /\ Cardinality(Units(f, T)) \in Nat
  BY FS_Subset, UnitsFinite, FS_CardinalityType
<1>3. \A n \in N : g[n] \in Nat
  BY <1>1, <1>2
<1>4. {} \in G
  <2>1. Units(g, {}) = {} /\ Units(f, Whole({})) = {}
    BY DEF Units
  <2> QED
    BY <2>1
<1>5. ASSUME NEW M \in SUBSET N, NEW n \in N \ M, M \in G
      PROVE  M \cup {n} \in G
  <2>1. IsFiniteSet(M)
    BY FS_Subset
  <2> DEFINE U == Whole(M)
             P == Part[n]
  <2>2. Whole(M \cup {n}) = U \cup P /\ U \cap P = {} /\ U \in SUBSET S /\ P \in SUBSET S
    OBVIOUS
  <2> HIDE DEF U, P
  <2>3. Units(f, U \cup P) = Units(f, U) \cup Units(f, P) /\ Units(f, U) \cap Units(f, P) = {}
    BY <2>2 DEF Units
  <2>4. Cardinality(Units(f, U) \cup Units(f, P))
           = Cardinality(Units(f, U)) + Cardinality(Units(f, P)) - Cardinality(Units(f, U) \cap Units(f, P))
    BY <1>2, <2>2, FS_Union
  <2>5. Cardinality(Units(f, U \cup P)) = Cardinality(Units(f, U)) + g[n]
    <3> DEFINE A == Units(f, U)
               B == Units(f, P)
               k == g[n]
    <3>1. Cardinality(A \cap B) = 0
      BY <2>3, FS_EmptySet
    <3>2. k = Cardinality(B)
      BY <1>1 DEF P
    <3>3. Cardinality(A) \in Nat /\ Cardinality(B) \in Nat
      BY <1>2, <2>2
    <3>4. Cardinality(A \cup B) = Cardinality(A) + Cardinality(B) - Cardinality(A \cap B)
      BY <2>4
    <3> HIDE DEF A, B, k
    <3>5. Cardinality(A \cup B) = Cardinality(A) + k
      BY <3>1, <3>2, <3>3, <3>4
    <3> QED
      BY <2>3, <3>5 DEF A, B, k
  <2>6. Cardinality(Units(g, M \cup {n})) = Cardinality(Units(g, M)) + g[n]
    <3> HIDE DEF g
    <3> QED
      BY <1>3, <2>1, UnitsExtend
  <2>7. Cardinality(Units(g, M)) = Cardinality(Units(f, U))
    BY <1>5 DEF U
  <2> QED
    BY <2>2, <2>5, <2>6, <2>7
<1>6. N \in G
  <2> HIDE DEF G
  <2> QED
    BY <1>4, <1>5, SubsetInduction
<1>7. Whole(N) \in SUBSET S
  OBVIOUS
<1>8. Tally(g) = Cardinality(Units(f, Whole(N)))
  BY <1>6 DEF Tally
<1> HIDE DEF Whole
<1>9. Units(f, Whole(N)) \subseteq Units(f, S)
  BY <1>7 DEF Units
<1> QED
  BY <1>2, <1>8, <1>9, FS_Subset DEF Tally
=============================================================================
