------------------------------- MODULE Sums ---------------------------------
(***************************************************************************)
(* Induction on numbers and on finite sets, in the form of a set that has  *)
(* every number or subset in it, and what it gives: the facts about sums   *)
(* over a finite set that the proofs of the other modules use.             *)
(***************************************************************************)
EXTENDS Integers, FiniteSets, Functions, FiniteSetTheorems, WellFoundedInduction, TLAPS

(* A set of numbers that is not empty has a least one.                     *)
LEMMA LeastNumber ==
    ASSUME NEW T, T \subseteq Nat, T # {}
    PROVE  \E n \in T : \A m \in T : n <= m
<1> DEFINE R == {xy \in Nat \X Nat : xy[1] < xy[2]}
<1>1. IsWellFoundedOn(R, Nat)  BY NatLessThanWellFounded DEF OpToRel
<1>2. PICK n \in T : \A y \in T : ~ (<<y, n>> \in R)  BY <1>1, WFMin, Zenon
<1>3. ASSUME NEW m \in T PROVE n <= m
    <2>1. ~(<<m, n>> \in R)  BY <1>2
    <2>2. m \in Nat /\ n \in Nat  OBVIOUS
    <2>3. ~(m < n)  BY <2>1, <2>2
    <2> QED BY <2>2, <2>3
<1> QED BY <1>3

(* A set that has 0, and with each number the next, has them all.          *)
LEMMA EveryNumber ==
    ASSUME NEW F, 0 \in F, \A n \in Nat : n \in F => n + 1 \in F
    PROVE  Nat \subseteq F
<1> SUFFICES ASSUME ~(Nat \subseteq F) PROVE FALSE
    OBVIOUS
<1> DEFINE bad == Nat \ F
<1>1. bad \subseteq Nat /\ bad # {}  OBVIOUS
<1>2. PICK n \in bad : \A m \in bad : n <= m  BY <1>1, LeastNumber, Zenon
<1>3. n \in Nat /\ n \notin F /\ n # 0  BY <1>2
<1>4. n - 1 \in Nat /\ ~(n <= n - 1) /\ (n - 1) + 1 = n  BY <1>3
<1>5. n - 1 \in F  BY <1>2, <1>4
<1> QED BY <1>3, <1>4, <1>5

(* A family that has the empty set, and with each set every larger one by  *)
(* an element of S, has S.                                                 *)
LEMMA EverySet ==
    ASSUME NEW S, IsFiniteSet(S), NEW F,
           {} \in F,
           \A T \in SUBSET S : T \in F => \A x \in S \ T : T \cup {x} \in F
    PROVE  S \in F
<1> SUFFICES ASSUME S \notin F PROVE FALSE
    OBVIOUS
<1> DEFINE bad == (SUBSET S) \ F
           R == StrictSubsetOrdering(S)
<1>1. IsWellFoundedOn(R, SUBSET S)
    BY FS_StrictSubsetOrderingWellFounded, FS_FiniteSubsetsOfFinite
<1>2. bad \subseteq SUBSET S /\ bad # {}  OBVIOUS
<1> HIDE DEF bad, R
<1>3. PICK T \in bad : \A U \in bad : ~(<<U, T>> \in R)
    BY <1>1, <1>2, WFMin, Zenon
<1>4. T \in SUBSET S /\ T \notin F  BY <1>3 DEF bad
<1>5. PICK x \in T : TRUE  BY <1>4
<1>6. <<T \ {x}, T>> \in R  BY <1>4, <1>5 DEF R, StrictSubsetOrdering
<1>7. T \ {x} \in F  BY <1>3, <1>4, <1>6 DEF bad
<1>8. T \ {x} \in SUBSET S /\ x \in S \ (T \ {x}) /\ (T \ {x}) \cup {x} = T  BY <1>4, <1>5
<1> QED BY <1>4, <1>7, <1>8
------------------------------------------------------------------------------
(* A sum takes an element out of its set and adds it to the sum of the     *)
(* rest.                                                                   *)
Element(s) == CHOOSE x \in s : TRUE
SumStep(g, it, s) == IF s = {} THEN 0 ELSE g[Element(s)] + it[s \ {Element(s)}]
IsSum(g, S, it) == it = [s \in SUBSET S |-> SumStep(g, it, s)]
Sum(g, S) == SumFunctionOnSet(g, S)

(* The function behind a sum.                                              *)
LEMMA SumMeans ==
    ASSUME NEW g, NEW S
    PROVE  Sum(g, S) = (CHOOSE it : IsSum(g, S, it))[S]
BY Zenon DEF IsSum, Sum, SumFunctionOnSet, FoldFunctionOnSet, MapThenFoldSet, SumStep, Element

(* There is one.                                                           *)
LEMMA SumExists ==
    ASSUME NEW g, NEW S, IsFiniteSet(S)
    PROVE  \E it : IsSum(g, S, it)
<1> DEFINE D(n) == {s \in SUBSET S : Cardinality(s) <= n}
           F == {n \in Nat : \E it : it = [s \in D(n) |-> SumStep(g, it, s)]}
<1>1. \A s \in SUBSET S : IsFiniteSet(s) /\ Cardinality(s) \in Nat /\ Cardinality(s) <= Cardinality(S)
    BY FS_Subset, FS_CardinalityType
<1>2. 0 \in F
    <2>1. \A s \in D(0) : s = {}  BY <1>1, FS_EmptySet
    <2> DEFINE it == [s \in D(0) |-> 0]
    <2>2. it = [s \in D(0) |-> SumStep(g, it, s)]  BY <2>1 DEF SumStep
    <2> HIDE DEF it
    <2> QED BY <2>2
<1>3. ASSUME NEW n \in Nat, n \in F PROVE n + 1 \in F
    <2>1. PICK it : it = [s \in D(n) |-> SumStep(g, it, s)]  BY <1>3
    <2> DEFINE jt == [s \in D(n + 1) |-> SumStep(g, it, s)]
    <2>2. D(n) \subseteq D(n + 1)  BY <1>1
    <2>3. \A s \in D(n + 1) : s # {} => s \ {Element(s)} \in D(n)
        <3> SUFFICES ASSUME NEW s \in D(n + 1), s # {} PROVE s \ {Element(s)} \in D(n)
            OBVIOUS
        <3>1. Element(s) \in s  BY DEF Element
        <3>2. s \in SUBSET S /\ Cardinality(s) <= n + 1  OBVIOUS
        <3>3. Cardinality(s \ {Element(s)}) = Cardinality(s) - 1  BY <1>1, <3>1, <3>2, FS_RemoveElement
        <3>4. Cardinality(s) - 1 <= n  BY <1>1, <3>2
        <3> QED BY <3>2, <3>3, <3>4
    <2> HIDE DEF D
    <2>4. \A s \in D(n) : it[s] = SumStep(g, it, s)  BY <2>1, Zenon
    <2>5. \A s \in D(n) : jt[s] = it[s]  BY <2>2, <2>4
    <2>6. \A s \in D(n + 1) : SumStep(g, it, s) = SumStep(g, jt, s)
        <3> HIDE DEF jt
        <3> QED BY <2>3, <2>5 DEF SumStep
    <2>7. jt = [s \in D(n + 1) |-> SumStep(g, jt, s)]  BY <2>6
    <2> HIDE DEF jt
    <2> QED BY <2>7
<1> HIDE DEF F
<1>4. Cardinality(S) \in F  BY <1>2, <1>3, EveryNumber, FS_CardinalityType
<1>5. D(Cardinality(S)) = SUBSET S  BY <1>1
<1> QED BY <1>4, <1>5 DEF F, IsSum

(* And no other.                                                           *)
LEMMA SumUnique ==
    ASSUME NEW g, NEW S, IsFiniteSet(S), NEW T \in SUBSET S,
           NEW it, IsSum(g, S, it), NEW jt, IsSum(g, T, jt)
    PROVE  it[T] = jt[T]
<1> SUFFICES ASSUME it[T] # jt[T] PROVE FALSE
    OBVIOUS
<1> DEFINE bad == {s \in SUBSET T : it[s] # jt[s]}
           sizes == {Cardinality(s) : s \in bad}
<1>1. \A s \in SUBSET T : IsFiniteSet(s) /\ Cardinality(s) \in Nat  BY FS_Subset, FS_CardinalityType
<1>2. sizes \subseteq Nat /\ sizes # {}
    <2>1. PICK s \in bad : TRUE  OBVIOUS
    <2>2. Cardinality(s) \in sizes  BY <2>1
    <2>3. sizes \subseteq Nat  BY <1>1
    <2> QED BY <2>2, <2>3
<1>3. PICK n \in sizes : \A m \in sizes : n <= m  BY <1>2, LeastNumber, Zenon
<1>4. PICK s \in bad : n = Cardinality(s)  BY <1>3
<1>5. \A r \in bad : n <= Cardinality(r)  BY <1>3
<1>6. it[s] = SumStep(g, it, s) /\ jt[s] = SumStep(g, jt, s)
    <2>1. s \in SUBSET S /\ s \in SUBSET T  BY <1>4
    <2> QED BY <2>1, Zenon DEF IsSum
<1>7. CASE s = {}  BY <1>4, <1>6, <1>7 DEF SumStep
<1>8. CASE s # {}
    <2> DEFINE r == s \ {Element(s)}
    <2>1. Element(s) \in s  BY <1>8 DEF Element
    <2>2. r \in SUBSET T /\ Cardinality(r) = n - 1  BY <1>1, <1>4, <2>1, FS_RemoveElement
    <2>3. r \notin bad
        <3>1. n \in Nat /\ ~(n <= n - 1)  BY <1>1, <1>4
        <3>2. ~(n <= Cardinality(r))  BY <2>2, <3>1
        <3> HIDE DEF bad
        <3> QED BY <1>5, <3>2
    <2>4. it[r] = jt[r]  BY <2>2, <2>3
    <2> QED BY <1>4, <1>6, <1>8, <2>4 DEF SumStep
<1> QED BY <1>7, <1>8

(* What is summed: nothing, or an element and the sum of the others.       *)
LEMMA SumEmpty ==
    ASSUME NEW g
    PROVE  Sum(g, {}) = 0
<1> DEFINE it == CHOOSE it : IsSum(g, {}, it)
<1>1. IsSum(g, {}, it)  BY SumExists, FS_EmptySet, Zenon
<1>2. Sum(g, {}) = it[{}]  BY SumMeans, Zenon
<1> HIDE DEF it
<1>3. {} \in SUBSET {}  OBVIOUS
<1>4. it[{}] = SumStep(g, it, {})  BY <1>1, <1>3, Zenon DEF IsSum
<1> QED BY <1>2, <1>4 DEF SumStep

LEMMA SumIs ==
    ASSUME NEW g, NEW S, IsFiniteSet(S)
    PROVE  \E it : IsSum(g, S, it) /\ Sum(g, S) = it[S]
<1> DEFINE kt == CHOOSE it : IsSum(g, S, it)
<1>1. IsSum(g, S, kt)  BY SumExists, Zenon
<1>2. Sum(g, S) = kt[S]  BY SumMeans, Zenon
<1> HIDE DEF kt
<1> QED BY <1>1, <1>2

LEMMA SumTaken ==
    ASSUME NEW g, NEW S, IsFiniteSet(S), S # {}
    PROVE  Sum(g, S) = g[Element(S)] + Sum(g, S \ {Element(S)})
<1> DEFINE T == S \ {Element(S)}
<1>1. T \in SUBSET S /\ IsFiniteSet(T)  BY FS_RemoveElement
<1> HIDE DEF T
<1>2. PICK it : IsSum(g, S, it) /\ Sum(g, S) = it[S]  BY SumIs, Zenon
<1>3. PICK jt : IsSum(g, T, jt) /\ Sum(g, T) = jt[T]  BY <1>1, SumIs, Zenon
<1>5. it[T] = jt[T]  BY <1>1, <1>2, <1>3, SumUnique
<1>6. S \in SUBSET S  OBVIOUS
<1>7. it[S] = SumStep(g, it, S)  BY <1>2, <1>6, Zenon DEF IsSum
<1>8. it[S] = g[Element(S)] + it[T]  BY <1>7 DEF SumStep, T
<1> QED BY <1>2, <1>3, <1>5, <1>8 DEF T

LEMMA SumType ==
    ASSUME NEW g, NEW S, IsFiniteSet(S), \A x \in S : g[x] \in Int
    PROVE  Sum(g, S) \in Int
<1> SUFFICES ASSUME Sum(g, S) \notin Int PROVE FALSE
    OBVIOUS
<1> DEFINE F == {n \in Nat : \A T \in SUBSET S : Cardinality(T) = n => Sum(g, T) \in Int}
<1>1. \A s \in SUBSET S : IsFiniteSet(s) /\ Cardinality(s) \in Nat  BY FS_Subset, FS_CardinalityType
<1>2. 0 \in F
    <2>1. \A T \in SUBSET S : Cardinality(T) = 0 => T = {}  BY <1>1, FS_EmptySet
    <2>2. Sum(g, {}) \in Int  BY SumEmpty
    <2> QED BY <2>1, <2>2
<1>3. ASSUME NEW n \in Nat, n \in F PROVE n + 1 \in F
    <2> SUFFICES ASSUME NEW T \in SUBSET S, Cardinality(T) = n + 1 PROVE Sum(g, T) \in Int
        OBVIOUS
    <2> DEFINE x == Element(T)
    <2>1. T # {} /\ IsFiniteSet(T)  BY <1>1, FS_EmptySet
    <2>2. x \in T  BY <2>1 DEF Element
    <2> HIDE DEF x
    <2>3. Cardinality(T \ {x}) = n /\ T \ {x} \in SUBSET S
        <3>1. Cardinality(T \ {x}) = Cardinality(T) - 1  BY <2>1, <2>2, FS_RemoveElement
        <3> QED BY <3>1
    <2>4. Sum(g, T \ {x}) \in Int  BY <1>3, <2>3
    <2>5. Sum(g, T) = g[x] + Sum(g, T \ {x})  BY <2>1, SumTaken, Zenon DEF x
    <2>6. g[x] \in Int  BY <2>2
    <2> QED BY <2>4, <2>5, <2>6
<1> HIDE DEF F
<1>4. Nat \subseteq F  BY <1>2, <1>3, EveryNumber
<1>5. Cardinality(S) \in F /\ S \in SUBSET S  BY <1>4, FS_CardinalityType
<1> QED BY <1>5 DEF F

(* Which element is taken out does not matter.                             *)
LEMMA SumWithout ==
    ASSUME NEW g, NEW S, IsFiniteSet(S), \A x \in S : g[x] \in Int, NEW x \in S
    PROVE  Sum(g, S) = g[x] + Sum(g, S \ {x})
<1> DEFINE F == {n \in Nat : \A T \in SUBSET S : Cardinality(T) = n =>
                    \A y \in T : Sum(g, T) = g[y] + Sum(g, T \ {y})}
<1>1. \A s \in SUBSET S : IsFiniteSet(s) /\ Cardinality(s) \in Nat  BY FS_Subset, FS_CardinalityType
<1>2. 0 \in F
    <2>1. \A T \in SUBSET S : Cardinality(T) = 0 => T = {}  BY <1>1, FS_EmptySet
    <2> QED BY <2>1
<1>3. ASSUME NEW n \in Nat, n \in F PROVE n + 1 \in F
    <2> SUFFICES ASSUME NEW T \in SUBSET S, Cardinality(T) = n + 1, NEW y \in T
                 PROVE  Sum(g, T) = g[y] + Sum(g, T \ {y})
        OBVIOUS
    <2> DEFINE e == Element(T)
    <2>1. e \in T  BY DEF Element
    <2>2. Sum(g, T) = g[e] + Sum(g, T \ {e})  BY <1>1, SumTaken
    <2> HIDE DEF e
    <2>3. CASE y = e  BY <2>2, <2>3
    <2>4. CASE y # e
        <3> DEFINE Te == T \ {e}
                   Ty == T \ {y}
                   R == (T \ {e}) \ {y}
        <3>1. Cardinality(Te) = n /\ Cardinality(Ty) = n
            <4>1. Cardinality(Te) = Cardinality(T) - 1  BY <1>1, <2>1, FS_RemoveElement
            <4>2. Cardinality(Ty) = Cardinality(T) - 1  BY <1>1, FS_RemoveElement
            <4> QED BY <4>1, <4>2
        <3>2. y \in Te /\ e \in Ty /\ R = Te \ {y} /\ R = Ty \ {e} /\ Te \in SUBSET S /\ Ty \in SUBSET S /\ R \in SUBSET S
            BY <2>1, <2>4
        <3> HIDE DEF Te, Ty, R
        <3>3. Sum(g, Te) = g[y] + Sum(g, R)  BY <1>3, <3>1, <3>2
        <3>4. Sum(g, Ty) = g[e] + Sum(g, R)  BY <1>3, <3>1, <3>2
        <3>5. Sum(g, R) \in Int /\ g[e] \in Int /\ g[y] \in Int  BY <1>1, <2>1, <3>2, SumType
        <3> QED BY <2>2, <3>3, <3>4, <3>5 DEF Te, Ty
    <2> QED BY <2>3, <2>4
<1> HIDE DEF F
<1>4. Cardinality(S) \in F /\ S \in SUBSET S  BY <1>2, <1>3, EveryNumber, FS_CardinalityType
<1> QED BY <1>4 DEF F

LEMMA SumWith ==
    ASSUME NEW g, NEW S, IsFiniteSet(S), NEW x, x \notin S, g[x] \in Int, \A y \in S : g[y] \in Int
    PROVE  Sum(g, S \cup {x}) = g[x] + Sum(g, S)
<1> DEFINE T == S \cup {x}
<1>1. IsFiniteSet(T) /\ x \in T /\ T \ {x} = S /\ \A y \in T : g[y] \in Int  BY FS_AddElement
<1> HIDE DEF T
<1>2. Sum(g, T) = g[x] + Sum(g, T \ {x})  BY <1>1, SumWithout
<1> QED BY <1>1, <1>2 DEF T

(* A sum grows with what is summed, ...                                    *)
LEMMA SumGrows ==
    ASSUME NEW g, NEW h, NEW S, IsFiniteSet(S),
           \A x \in S : g[x] \in Int /\ h[x] \in Int /\ g[x] <= h[x]
    PROVE  Sum(g, S) <= Sum(h, S)
<1> DEFINE F == {T \in SUBSET S : Sum(g, T) <= Sum(h, T)}
<1>1. {} \in F
    <2>1. Sum(g, {}) = 0 /\ Sum(h, {}) = 0  BY SumEmpty
    <2> QED BY <2>1
<1>2. ASSUME NEW T \in SUBSET S, T \in F, NEW x \in S \ T PROVE T \cup {x} \in F
    <2>1. IsFiniteSet(T)  BY FS_Subset
    <2>2. Sum(g, T \cup {x}) = g[x] + Sum(g, T)  BY <2>1, SumWith
    <2>3. Sum(h, T \cup {x}) = h[x] + Sum(h, T)  BY <2>1, SumWith
    <2>4. Sum(g, T) \in Int /\ Sum(h, T) \in Int  BY <2>1, SumType
    <2>5. g[x] \in Int /\ h[x] \in Int /\ g[x] <= h[x] /\ Sum(g, T) <= Sum(h, T)  BY <1>2
    <2>6. Sum(g, T \cup {x}) <= Sum(h, T \cup {x})  BY <2>2, <2>3, <2>4, <2>5
    <2> QED BY <2>6
<1> HIDE DEF F
<1>3. S \in F  BY <1>1, <1>2, EverySet
<1> QED BY <1>3 DEF F

LEMMA SumSame ==
    ASSUME NEW g, NEW h, NEW S, IsFiniteSet(S), \A x \in S : g[x] \in Int /\ g[x] = h[x]
    PROVE  Sum(g, S) = Sum(h, S)
<1>1. Sum(g, S) <= Sum(h, S)  BY SumGrows
<1>2. Sum(h, S) <= Sum(g, S)  BY SumGrows
<1>3. Sum(g, S) \in Int /\ Sum(h, S) \in Int  BY SumType
<1> QED BY <1>1, <1>2, <1>3

(* ... is linear in it, ...                                                *)
LEMMA SumPlus ==
    ASSUME NEW g, NEW h, NEW k, NEW S, IsFiniteSet(S),
           \A x \in S : g[x] \in Int /\ h[x] \in Int /\ k[x] = g[x] + h[x]
    PROVE  Sum(k, S) = Sum(g, S) + Sum(h, S)
<1> DEFINE F == {T \in SUBSET S : Sum(k, T) = Sum(g, T) + Sum(h, T)}
<1>1. {} \in F
    <2>1. Sum(g, {}) = 0 /\ Sum(h, {}) = 0 /\ Sum(k, {}) = 0  BY SumEmpty
    <2> QED BY <2>1
<1>2. ASSUME NEW T \in SUBSET S, T \in F, NEW x \in S \ T PROVE T \cup {x} \in F
    <2>1. IsFiniteSet(T) /\ \A y \in S : k[y] \in Int  BY FS_Subset
    <2>2. Sum(g, T \cup {x}) = g[x] + Sum(g, T)  BY <2>1, SumWith
    <2>3. Sum(h, T \cup {x}) = h[x] + Sum(h, T)  BY <2>1, SumWith
    <2>4. Sum(k, T \cup {x}) = k[x] + Sum(k, T)  BY <2>1, SumWith
    <2>5. Sum(g, T) \in Int /\ Sum(h, T) \in Int  BY <2>1, SumType
    <2>6. g[x] \in Int /\ h[x] \in Int /\ k[x] = g[x] + h[x] /\ Sum(k, T) = Sum(g, T) + Sum(h, T)  BY <1>2
    <2>7. Sum(k, T \cup {x}) = Sum(g, T \cup {x}) + Sum(h, T \cup {x})  BY <2>2, <2>3, <2>4, <2>5, <2>6
    <2> QED BY <2>7
<1> HIDE DEF F
<1>3. S \in F  BY <1>1, <1>2, EverySet
<1> QED BY <1>3 DEF F

(* ... is the sum of the sums of two parts, ...                            *)
LEMMA SumUnion ==
    ASSUME NEW g, NEW S, IsFiniteSet(S), NEW T, IsFiniteSet(T), S \cap T = {},
           \A x \in S \cup T : g[x] \in Int
    PROVE  Sum(g, S \cup T) = Sum(g, S) + Sum(g, T)
<1> DEFINE F == {U \in SUBSET T : Sum(g, S \cup U) = Sum(g, S) + Sum(g, U)}
<1>1. {} \in F
    <2>1. Sum(g, {}) = 0 /\ Sum(g, S) \in Int /\ S \cup {} = S  BY SumEmpty, SumType
    <2> QED BY <2>1
<1>2. ASSUME NEW U \in SUBSET T, U \in F, NEW x \in T \ U PROVE U \cup {x} \in F
    <2>1. IsFiniteSet(U) /\ IsFiniteSet(S \cup U)  BY FS_Subset, FS_Union
    <2>2. Sum(g, U \cup {x}) = g[x] + Sum(g, U)  BY <2>1, SumWith
    <2>3. x \notin S \cup U  OBVIOUS
    <2>4. Sum(g, (S \cup U) \cup {x}) = g[x] + Sum(g, S \cup U)  BY <2>1, <2>3, SumWith
    <2>5. Sum(g, S) \in Int /\ Sum(g, U) \in Int /\ g[x] \in Int  BY <2>1, SumType
    <2>6. Sum(g, S \cup U) = Sum(g, S) + Sum(g, U)  BY <1>2
    <2>7. (S \cup U) \cup {x} = S \cup (U \cup {x})  OBVIOUS
    <2>8. Sum(g, (S \cup U) \cup {x}) = Sum(g, S) + Sum(g, U \cup {x})
        <3> HIDE DEF F
        <3> QED BY <2>2, <2>4, <2>5, <2>6
    <2> QED BY <2>7, <2>8
<1> HIDE DEF F
<1>3. T \in F  BY <1>1, <1>2, EverySet
<1> QED BY <1>3 DEF F

(* ... and does not depend on the names of the elements.                   *)
LEMMA SumAlong ==
    ASSUME NEW S, IsFiniteSet(S), NEW T, NEW b \in Bijection(S, T),
           NEW g, NEW v, \A y \in T : v[y] \in Int, \A x \in S : g[x] = v[b[x]]
    PROVE  Sum(g, S) = Sum(v, T)
<1> DEFINE Image(U) == {b[x] : x \in U}
           F == {U \in SUBSET S : Sum(g, U) = Sum(v, Image(U))}
<1>0. /\ b \in [S -> T] /\ \A x, y \in S : b[x] = b[y] => x = y
      /\ \A y \in T : \E x \in S : b[x] = y
    BY DEF Bijection, Injection, Surjection, IsInjective
<1>1. {} \in F
    <2>1. Sum(g, {}) = 0 /\ Sum(v, {}) = 0 /\ Image({}) = {}  BY SumEmpty
    <2> QED BY <2>1
<1>2. ASSUME NEW U \in SUBSET S, U \in F, NEW x \in S \ U PROVE U \cup {x} \in F
    <2>1. IsFiniteSet(U)  BY FS_Subset
    <2>2. Image(U \cup {x}) = Image(U) \cup {b[x]}  OBVIOUS
    <2>3. b[x] \notin Image(U) /\ Image(U) \subseteq T /\ b[x] \in T  BY <1>0
    <2>4. IsFiniteSet(Image(U))
        <3> DEFINE c == [z \in U |-> b[z]]
        <3>1. c \in Surjection(U, Image(U))  BY DEF Surjection
        <3> HIDE DEF Image, c
        <3> QED BY <2>1, <3>1, FS_Surjection
    <2> HIDE DEF Image
    <2>5. Sum(v, Image(U) \cup {b[x]}) = v[b[x]] + Sum(v, Image(U))  BY <2>3, <2>4, SumWith
    <2>6. \A z \in S : g[z] \in Int  BY <1>0
    <2>7. Sum(g, U \cup {x}) = g[x] + Sum(g, U)  BY <2>1, <2>6, SumWith
    <2>8. Sum(g, U) = Sum(v, Image(U)) /\ g[x] = v[b[x]]  BY <1>2
    <2>9. Sum(g, U \cup {x}) = Sum(v, Image(U \cup {x}))  BY <2>2, <2>5, <2>7, <2>8
    <2> QED BY <2>9
<1>3. Image(S) = T  BY <1>0
<1> HIDE DEF F, Image
<1>4. S \in F  BY <1>1, <1>2, EverySet
<1> QED BY <1>3, <1>4 DEF F
==============================================================================
