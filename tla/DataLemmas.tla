------------------------------ MODULE DataLemmas ------------------------------
(***************************************************************************)
(* Facts about the data that the components compute with, which the proofs *)
(* need: finite sets and sums over them, vectors that elements are taken   *)
(* out of, vectors put one after the other, and codes that are read back   *)
(* from where they are written.                                            *)
(*                                                                         *)
(* An induction is made over a set that stands for its hypothesis          *)
(* (NatSetInduction, FiniteInduction), from the fact that every set of     *)
(* numbers has a least element.                                            *)
(***************************************************************************)
EXTENDS Lists, FiniteSetsExt, FiniteSetTheorems, WellFoundedInduction, SequenceTheorems, TLAPS

LEMMA LeastNatural ==
    ASSUME NEW T \in SUBSET Nat, T # {}
    PROVE  \E n \in T : \A k \in T : n <= k
<1>1. \E n \in T : \A k \in T : ~(<<k, n>> \in OpToRel(<, Nat))
    BY NatLessThanWellFounded, WFMin, Zenon
<1>2. PICK n \in T : \A k \in T : ~(<<k, n>> \in OpToRel(<, Nat))
    BY <1>1
<1>3. ASSUME NEW k \in T PROVE n <= k
    <2>1. ~(k < n)
        BY <1>2, Zenon DEF OpToRel
    <2> QED BY <2>1
<1> QED BY <1>3

\* Induction over the numbers for which a hypothesis holds.
LEMMA NatSetInduction ==
    ASSUME NEW T \in SUBSET Nat, 0 \in T, \A n \in T : n + 1 \in T
    PROVE  T = Nat
<1> SUFFICES ASSUME Nat \ T # {} PROVE FALSE
    OBVIOUS
<1>1. PICK n \in Nat \ T : \A k \in Nat \ T : n <= k
    BY LeastNatural
<1>2. n # 0 /\ n - 1 \in Nat /\ n - 1 \in T /\ (n - 1) + 1 = n
    BY <1>1
<1> QED BY <1>1, <1>2

\* Induction over the subsets, of a finite set, for which a hypothesis holds.
LEMMA FiniteInduction ==
    ASSUME NEW S, IsFiniteSet(S), NEW F \in SUBSET SUBSET S, {} \in F,
           \A T \in F : \A x \in S \ T : T \cup {x} \in F
    PROVE  S \in F
<1> DEFINE K == {n \in Nat : \A T \in SUBSET S : Cardinality(T) = n => T \in F}
<1>1. 0 \in K
    BY FS_EmptySet, FS_Subset
<1>2. ASSUME NEW n \in K PROVE n + 1 \in K
    <2> SUFFICES ASSUME NEW T \in SUBSET S, Cardinality(T) = n + 1 PROVE T \in F
        OBVIOUS
    <2>1. n \in Nat /\ n + 1 # 0
        OBVIOUS
    <2>2. IsFiniteSet(T)
        BY FS_Subset
    <2>3. PICK x \in T : TRUE
        BY <2>1, FS_EmptySet
    <2>4. Cardinality(T \ {x}) = Cardinality(T) - 1
        BY <2>2, <2>3, FS_RemoveElement
    <2>5. T \ {x} \in F
        BY <2>1, <2>4
    <2>6. (T \ {x}) \cup {x} = T
        BY <2>3
    <2> QED BY <2>3, <2>5, <2>6
<1>3. K = Nat
    <2>1. K \in SUBSET Nat
        OBVIOUS
    <2> HIDE DEF K
    <2> QED BY <1>1, <1>2, <2>1, NatSetInduction
<1>4. Cardinality(S) \in Nat
    BY FS_CardinalityType
<1> QED BY <1>3, <1>4

-----------------------------------------------------------------------------
(* Sums *)

Sum(g, S) == MapThenSumSet(LAMBDA x : g[x], S)

Pick(s) == CHOOSE x \in s : TRUE

\* h[s] is the sum over s, in the order in which Pick takes the elements.
IsSum(h, g, S) ==
    h = [s \in SUBSET S |-> IF s = {} THEN 0 ELSE g[Pick(s)] + h[s \ {Pick(s)}]]

LEMMA PickIn == \A s : s # {} => Pick(s) \in s
    BY Zenon DEF Pick

\* h counts each element of each part of S once.
Additive(h, g, S) ==
    \A T \in SUBSET S :
        h[T] \in Nat /\ \A x \in T : h[T \ {x}] \in Nat /\ h[T] = g[x] + h[T \ {x}]

LEMMA SumExists ==
    ASSUME NEW g, NEW S, IsFiniteSet(S)
    PROVE  \E h : IsSum(h, g, S)
<1> DEFINE D(n) == {s \in SUBSET S : Cardinality(s) <= n}
           Upto(h, n) == h = [s \in D(n) |-> IF s = {} THEN 0
                                             ELSE g[Pick(s)] + h[s \ {Pick(s)}]]
           K == {n \in Nat : \E h : Upto(h, n)}
<1>0. \A s \in SUBSET S : IsFiniteSet(s) /\ Cardinality(s) \in Nat
    BY FS_Subset, FS_CardinalityType
<1>1. 0 \in K
    <2>1. \A s \in D(0) : s = {}
        BY <1>0, FS_EmptySet
    <2>2. Upto([s \in D(0) |-> 0], 0)
        BY <2>1
    <2> QED BY <2>2
<1>2. ASSUME NEW n \in K PROVE n + 1 \in K
    <2>1. n \in Nat
        OBVIOUS
    <2>2. PICK h : Upto(h, n)
        OBVIOUS
    <2> DEFINE H == [s \in D(n + 1) |-> IF s = {} THEN 0
                                        ELSE g[Pick(s)] + h[s \ {Pick(s)}]]
    <2>3. \A s \in D(n) : s \in D(n + 1) /\ H[s] = h[s]
        <3>1. \A s \in D(n) : s \in D(n + 1)
            BY <2>1, <1>0
        <3>2. \A s \in D(n) : h[s] = IF s = {} THEN 0 ELSE g[Pick(s)] + h[s \ {Pick(s)}]
            BY <2>2
        <3> QED BY <3>1, <3>2
    <2>4. ASSUME NEW s \in D(n + 1), s # {} PROVE s \ {Pick(s)} \in D(n)
        <3>1. Cardinality(s \ {Pick(s)}) = Cardinality(s) - 1
            BY <2>4, <1>0, PickIn, FS_RemoveElement
        <3> QED BY <3>1, <2>1, <1>0
    <2>5. Upto(H, n + 1)
        <3>1. \A s \in D(n + 1) : s # {} => H[s \ {Pick(s)}] = h[s \ {Pick(s)}]
            BY <2>3, <2>4
        <3> HIDE DEF D
        <3> QED BY <3>1
    <2>6. n + 1 \in Nat /\ \E k : Upto(k, n + 1)
        <3> HIDE DEF Upto, H
        <3> QED BY <2>1, <2>5
    <2> QED BY <2>6
<1>3. K = Nat
    <2>1. K \in SUBSET Nat
        OBVIOUS
    <2> HIDE DEF K
    <2> QED BY <1>1, <1>2, <2>1, NatSetInduction
<1>4. PICK h : Upto(h, Cardinality(S))
    BY <1>0, <1>3
<1>5. D(Cardinality(S)) = SUBSET S
    BY <1>0, FS_Subset
<1>6. IsSum(h, g, S)
    BY <1>4, <1>5 DEF IsSum
<1> QED BY <1>6

LEMMA SumUnfold ==
    ASSUME NEW g, NEW S, IsFiniteSet(S)
    PROVE  \E h : IsSum(h, g, S) /\ Sum(g, S) = h[S]
<1> DEFINE iter == CHOOSE h : IsSum(h, g, S)
<1>1. IsSum(iter, g, S)
    BY SumExists, Zenon
<1>2. Sum(g, S) = iter[S]
    BY Zenon DEF Sum, MapThenSumSet, MapThenFoldSet, IsSum, Pick
<1> QED BY <1>1, <1>2

\* A sum is a number and does not depend on the order.
LEMMA SumOrder ==
    ASSUME NEW g, NEW S, IsFiniteSet(S), \A x \in S : g[x] \in Nat,
           NEW h, IsSum(h, g, S)
    PROVE  Additive(h, g, S)
<1> DEFINE Good(s) == /\ h[s] \in Nat
                      /\ \A x \in s : h[s \ {x}] \in Nat /\ h[s] = g[x] + h[s \ {x}]
           K == {n \in Nat : \A s \in SUBSET S : Cardinality(s) = n => Good(s)}
<1>0. \A s \in SUBSET S : IsFiniteSet(s) /\ Cardinality(s) \in Nat
    BY FS_Subset, FS_CardinalityType
<1>1. \A s \in SUBSET S : h[s] = IF s = {} THEN 0 ELSE g[Pick(s)] + h[s \ {Pick(s)}]
    BY DEF IsSum
<1>2. 0 \in K
    BY <1>0, <1>1, FS_EmptySet
<1>3. ASSUME NEW n \in K PROVE n + 1 \in K
    <2> SUFFICES ASSUME NEW s \in SUBSET S, Cardinality(s) = n + 1 PROVE Good(s)
        OBVIOUS
    <2>0. n \in Nat /\ n + 1 # 0
        OBVIOUS
    <2>1. n \in Nat /\ s # {}
        BY <2>0, FS_EmptySet
    <2> DEFINE c == Pick(s)
    <2>2. c \in s
        BY <2>1, PickIn
    <2>3. \A x \in s : Cardinality(s \ {x}) = n
        <3> SUFFICES ASSUME NEW x \in s PROVE Cardinality(s \ {x}) = n
            OBVIOUS
        <3>1. Cardinality(s \ {x}) = Cardinality(s) - 1
            BY <1>0, FS_RemoveElement
        <3> QED BY <3>1, <2>1
    <2>4. \A x \in s : Good(s \ {x})
        BY <2>3
    <2> HIDE DEF c
    <2>5. h[s] = g[c] + h[s \ {c}] /\ h[s] \in Nat
        <3>1. h[s \ {c}] \in Nat /\ g[c] \in Nat
            BY <2>2, <2>4
        <3>2. h[s] = g[c] + h[s \ {c}]
            BY <1>1, <2>1 DEF c
        <3> QED BY <3>1, <3>2
    <2>6. ASSUME NEW x \in s, x # c PROVE h[s] = g[x] + h[s \ {x}]
        <3>1. h[s \ {c}] = g[x] + h[(s \ {c}) \ {x}]
            BY <2>2, <2>4, <2>6
        <3>2. h[s \ {x}] = g[c] + h[(s \ {x}) \ {c}]
            BY <2>2, <2>4, <2>6
        <3>3. (s \ {x}) \ {c} = (s \ {c}) \ {x}
            OBVIOUS
        <3>4. h[(s \ {c}) \ {x}] \in Nat /\ g[x] \in Nat /\ g[c] \in Nat
            BY <2>2, <2>4, <2>6
        <3> HIDE DEF Good
        <3>5. h[s \ {x}] = g[c] + h[(s \ {c}) \ {x}]
            BY <3>2, <3>3
        <3>6. h[s] = g[c] + (g[x] + h[(s \ {c}) \ {x}])
            BY <2>5, <3>1
        <3> DEFINE a == h[(s \ {c}) \ {x}]
                   gx == g[x]
                   gc == g[c]
        <3>7. a \in Nat /\ gx \in Nat /\ gc \in Nat
            BY <3>4
        <3> HIDE DEF a, gx, gc
        <3>8. gc + (gx + a) = gx + (gc + a)
            BY <3>7
        <3> QED BY <3>5, <3>6, <3>8 DEF a, gx, gc
    <2>7. \A x \in s : h[s] = g[x] + h[s \ {x}]
        BY <2>5, <2>6
    <2>8. \A x \in s : h[s \ {x}] \in Nat
        BY <2>4
    <2> QED BY <2>5, <2>7, <2>8
<1>4. K = Nat
    <2>1. K \in SUBSET Nat
        OBVIOUS
    <2> HIDE DEF K
    <2> QED BY <1>2, <1>3, <2>1, NatSetInduction
<1>5. ASSUME NEW T \in SUBSET S PROVE Good(T)
    <2>1. Cardinality(T) \in K
        BY <1>0, <1>4
    <2> QED BY <2>1
<1> QED BY <1>5 DEF Additive

LEMMA SumEmpty == \A g : Sum(g, {}) = 0
<1> TAKE g
<1>1. PICK h : IsSum(h, g, {}) /\ Sum(g, {}) = h[{}]
    BY SumUnfold, FS_EmptySet
<1> QED BY <1>1 DEF IsSum

\* The sum over a part is the same whether it is taken of the part or of the whole.
LEMMA SumPart ==
    ASSUME NEW g, NEW S, IsFiniteSet(S), \A x \in S : g[x] \in Nat,
           NEW h, IsSum(h, g, S), NEW T \in SUBSET S
    PROVE  Sum(g, T) = h[T]
<1>1. IsFiniteSet(T)
    BY FS_Subset
<1>2. PICK k : IsSum(k, g, T) /\ Sum(g, T) = k[T]
    BY <1>1, SumUnfold
<1> DEFINE F == {s \in SUBSET T : h[s] = k[s]}
<1>3. {} \in F
    BY <1>2 DEF IsSum
<1>4. ASSUME NEW s \in F, NEW x \in T \ s PROVE s \cup {x} \in F
    <2>1. s \cup {x} \in SUBSET T /\ (s \cup {x}) \ {x} = s /\ x \in s \cup {x}
        OBVIOUS
    <2>2. h[s \cup {x}] = g[x] + h[s]
        <3> HIDE DEF F
        <3>1. \A t \in SUBSET S : \A y \in t : h[t] = g[y] + h[t \ {y}]
            <4>1. Additive(h, g, S)
                BY SumOrder
            <4> QED BY <4>1 DEF Additive
        <3>2. h[s \cup {x}] = g[x] + h[(s \cup {x}) \ {x}]
            BY <2>1, <3>1
        <3> QED BY <2>1, <3>2
    <2>3. k[s \cup {x}] = g[x] + k[s]
        <3> HIDE DEF F
        <3>1. \A t \in SUBSET T : \A y \in t : k[t] = g[y] + k[t \ {y}]
            <4>1. Additive(k, g, T)
                BY <1>1, <1>2, SumOrder
            <4> QED BY <4>1 DEF Additive
        <3>2. k[s \cup {x}] = g[x] + k[(s \cup {x}) \ {x}]
            BY <2>1, <3>1
        <3> QED BY <2>1, <3>2
    <2> QED BY <2>1, <2>2, <2>3
<1>5. T \in F
    <2>1. F \in SUBSET SUBSET T
        OBVIOUS
    <2> HIDE DEF F
    <2> QED BY <1>1, <1>3, <1>4, <2>1, FiniteInduction
<1> QED BY <1>2, <1>5

LEMMA SumType ==
    ASSUME NEW g, NEW S, IsFiniteSet(S), \A x \in S : g[x] \in Nat
    PROVE  Sum(g, S) \in Nat
<1>1. PICK h : IsSum(h, g, S) /\ Sum(g, S) = h[S]
    BY SumUnfold
<1> QED BY <1>1, SumOrder DEF Additive

LEMMA SumAdd ==
    ASSUME NEW g, NEW S, IsFiniteSet(S), \A y \in S : g[y] \in Nat,
           NEW x, x \notin S, g[x] \in Nat
    PROVE  Sum(g, S \cup {x}) = g[x] + Sum(g, S)
<1> DEFINE T == S \cup {x}
<1>1. IsFiniteSet(T) /\ S \in SUBSET T /\ \A y \in T : g[y] \in Nat
    BY FS_AddElement
<1>2. T \ {x} = S /\ x \in T
    OBVIOUS
<1> HIDE DEF T
<1>3. PICK h : IsSum(h, g, T) /\ Sum(g, T) = h[T]
    BY <1>1, SumUnfold
<1>4. Sum(g, S) = h[S]
    BY <1>1, <1>3, SumPart
<1>5. h[T] = g[x] + h[T \ {x}]
    <2>1. \A t \in SUBSET T : \A y \in t : h[t] = g[y] + h[t \ {y}]
        <3>1. Additive(h, g, T)
            BY <1>1, <1>3, SumOrder
        <3> QED BY <3>1 DEF Additive
    <2> QED BY <1>2, <2>1
<1> QED BY <1>2, <1>3, <1>4, <1>5 DEF T

LEMMA SumSubset ==
    ASSUME NEW g, NEW S, IsFiniteSet(S), \A x \in S : g[x] \in Nat, NEW T \in SUBSET S
    PROVE  Sum(g, T) <= Sum(g, S)
<1> DEFINE F == {s \in SUBSET (S \ T) : Sum(g, T) <= Sum(g, T \cup s)}
<1>0. \A s \in SUBSET S : IsFiniteSet(s) /\ Sum(g, s) \in Nat
    BY FS_Subset, SumType
<1>1. {} \in F
    BY <1>0
<1>2. ASSUME NEW s \in F, NEW x \in (S \ T) \ s PROVE s \cup {x} \in F
    <2>1. Sum(g, (T \cup s) \cup {x}) = g[x] + Sum(g, T \cup s)
        <3>1. T \cup s \in SUBSET S /\ x \notin T \cup s /\ x \in S
            OBVIOUS
        <3> HIDE DEF F
        <3> QED BY <1>0, <3>1, SumAdd
    <2>2. (T \cup s) \cup {x} = T \cup (s \cup {x})
        OBVIOUS
    <2>3. Sum(g, T) \in Nat /\ Sum(g, T \cup s) \in Nat /\ g[x] \in Nat
        BY <1>0
    <2>4. Sum(g, T) <= Sum(g, T \cup s)
        OBVIOUS
    <2>5. Sum(g, T) <= Sum(g, T \cup (s \cup {x}))
        <3> HIDE DEF F
        <3>1. Sum(g, T) <= g[x] + Sum(g, T \cup s)
            BY <2>3, <2>4
        <3> QED BY <2>1, <2>2, <3>1
    <2> QED BY <2>5
<1>3. S \ T \in F
    <2>1. IsFiniteSet(S \ T) /\ F \in SUBSET SUBSET (S \ T)
        BY <1>0
    <2> HIDE DEF F
    <2> QED BY <1>1, <1>2, <2>1, FiniteInduction
<1>4. T \cup (S \ T) = S
    OBVIOUS
<1> QED BY <1>3, <1>4

\* Renaming the elements, with their weights, may merge some but adds none.
LEMMA SumImage ==
    ASSUME NEW g, NEW S, IsFiniteSet(S), NEW r,
           \A x \in S : g[x] \in Nat /\ g[r[x]] = g[x]
    PROVE  Sum(g, {r[x] : x \in S}) <= Sum(g, S)
<1> DEFINE R(s) == {r[x] : x \in s}
           F == {s \in SUBSET S : IsFiniteSet(R(s)) /\ Sum(g, R(s)) <= Sum(g, s)}
<1>0. \A s \in SUBSET S : IsFiniteSet(s) /\ Sum(g, s) \in Nat
    BY FS_Subset, SumType
<1>1. {} \in F
    <2>1. R({}) = {}
        OBVIOUS
    <2> QED BY <1>0, <2>1, FS_EmptySet
<1>2. ASSUME NEW s \in F, NEW x \in S \ s PROVE s \cup {x} \in F
    <2>1. R(s \cup {x}) = R(s) \cup {r[x]}
        OBVIOUS
    <2>2. s \in SUBSET S /\ IsFiniteSet(R(s)) /\ Sum(g, R(s)) <= Sum(g, s)
        OBVIOUS
    <2>3. \A y \in R(s) : g[y] \in Nat
        BY <2>2
    <2> HIDE DEF R, F
    <2>4. Sum(g, s \cup {x}) = g[x] + Sum(g, s)
        BY <1>0, <2>2, SumAdd
    <2>5. IsFiniteSet(R(s) \cup {r[x]})
        BY <2>2, FS_AddElement
    <2>6. Sum(g, R(s) \cup {r[x]}) <= g[x] + Sum(g, s)
        <3>0. Sum(g, R(s)) \in Nat /\ Sum(g, s) \in Nat /\ g[x] \in Nat /\ g[r[x]] = g[x]
            BY <1>0, <2>2, <2>3, SumType
        <3>1. CASE r[x] \in R(s)
            <4>1. R(s) \cup {r[x]} = R(s)
                BY <3>1
            <4> QED BY <2>2, <3>0, <4>1
        <3>2. CASE r[x] \notin R(s)
            <4>1. Sum(g, R(s) \cup {r[x]}) = g[r[x]] + Sum(g, R(s))
                BY <2>2, <2>3, <3>0, <3>2, SumAdd
            <4> QED BY <2>2, <3>0, <4>1
        <3> QED BY <3>1, <3>2
    <2> QED BY <2>1, <2>2, <2>4, <2>5, <2>6 DEF F
<1>3. S \in F
    <2>1. F \in SUBSET SUBSET S
        OBVIOUS
    <2> HIDE DEF F
    <2> QED BY <1>1, <1>2, <2>1, FiniteInduction
<1> QED BY <1>3

-----------------------------------------------------------------------------
(* Vectors *)

IsRetained(f, seq, S) ==
    f = [n \in 0 .. Len(seq) |-> IF n = 0 THEN <<>>
                                 ELSE IF seq[n] \in S THEN Append(f[n - 1], seq[n])
                                 ELSE f[n - 1]]

IsFlattened(f, seqs) ==
    f = [n \in 0 .. Len(seqs) |-> IF n = 0 THEN <<>> ELSE f[n - 1] \o seqs[n]]

LEMMA RetainedUnfold ==
    ASSUME NEW seq, Len(seq) \in Nat, NEW S
    PROVE  \E f : IsRetained(f, seq, S) /\ Retained(seq, S) = f[Len(seq)]
<1> DEFINE Step(f, n) == IF n = 0 THEN <<>>
                         ELSE IF seq[n] \in S THEN Append(f[n - 1], seq[n])
                         ELSE f[n - 1]
           Upto(f, m) == f = [n \in 0 .. m |-> Step(f, n)]
           K == {m \in Nat : \E f : Upto(f, m)}
<1>1. 0 \in K
    <2>1. Upto([n \in 0 .. 0 |-> <<>>], 0)
        OBVIOUS
    <2> QED BY <2>1
<1>2. ASSUME NEW m \in K PROVE m + 1 \in K
    <2>1. m \in Nat
        OBVIOUS
    <2>2. PICK f : Upto(f, m)
        OBVIOUS
    <2> DEFINE g == [n \in 0 .. m + 1 |-> Step(f, n)]
    <2>3. \A n \in 0 .. m : n \in 0 .. m + 1 /\ g[n] = f[n]
        <3> HIDE DEF Step
        <3> QED BY <2>1, <2>2
    <2>4. \A n \in 0 .. m + 1 : Step(f, n) = Step(g, n)
        <3>1. \A n \in 0 .. m + 1 : n # 0 => n - 1 \in 0 .. m
            BY <2>1
        <3> HIDE DEF g
        <3> QED BY <2>3, <3>1
    <2>5. Upto(g, m + 1)
        <3> HIDE DEF Step
        <3> QED BY <2>4
    <2> HIDE DEF g, Upto
    <2>6. m + 1 \in Nat /\ \E k : Upto(k, m + 1)
        BY <2>1, <2>5
    <2> QED BY <2>6
<1>3. K = Nat
    <2>1. K \in SUBSET Nat
        OBVIOUS
    <2> HIDE DEF K
    <2> QED BY <1>1, <1>2, <2>1, NatSetInduction
<1>4. \E f : IsRetained(f, seq, S)
    BY <1>3 DEF IsRetained
<1>5. Retained(seq, S) = (CHOOSE f : IsRetained(f, seq, S))[Len(seq)]
    BY Zenon DEF Retained, IsRetained
<1> QED BY <1>4, <1>5, Zenon

LEMMA FlattenedUnfold ==
    ASSUME NEW seqs, Len(seqs) \in Nat
    PROVE  \E f : IsFlattened(f, seqs) /\ Flattened(seqs) = f[Len(seqs)]
<1> DEFINE Step(f, n) == IF n = 0 THEN <<>> ELSE f[n - 1] \o seqs[n]
           Upto(f, m) == f = [n \in 0 .. m |-> Step(f, n)]
           K == {m \in Nat : \E f : Upto(f, m)}
<1>1. 0 \in K
    <2>1. Upto([n \in 0 .. 0 |-> <<>>], 0)
        OBVIOUS
    <2> QED BY <2>1
<1>2. ASSUME NEW m \in K PROVE m + 1 \in K
    <2>1. m \in Nat
        OBVIOUS
    <2>2. PICK f : Upto(f, m)
        OBVIOUS
    <2> DEFINE g == [n \in 0 .. m + 1 |-> Step(f, n)]
    <2>3. \A n \in 0 .. m : n \in 0 .. m + 1 /\ g[n] = f[n]
        <3> HIDE DEF Step
        <3> QED BY <2>1, <2>2
    <2>4. \A n \in 0 .. m + 1 : Step(f, n) = Step(g, n)
        <3>1. \A n \in 0 .. m + 1 : n # 0 => n - 1 \in 0 .. m
            BY <2>1
        <3> HIDE DEF g
        <3> QED BY <2>3, <3>1
    <2>5. Upto(g, m + 1)
        <3> HIDE DEF Step
        <3> QED BY <2>4
    <2> HIDE DEF g, Upto
    <2>6. m + 1 \in Nat /\ \E k : Upto(k, m + 1)
        BY <2>1, <2>5
    <2> QED BY <2>6
<1>3. K = Nat
    <2>1. K \in SUBSET Nat
        OBVIOUS
    <2> HIDE DEF K
    <2> QED BY <1>1, <1>2, <2>1, NatSetInduction
<1>4. \E f : IsFlattened(f, seqs)
    BY <1>3 DEF IsFlattened
<1>5. Flattened(seqs) = (CHOOSE f : IsFlattened(f, seqs))[Len(seqs)]
    BY Zenon DEF Flattened, IsFlattened
<1> QED BY <1>4, <1>5, Zenon

\* A vector that elements are taken out of has elements of the same type.
LEMMA RetainedType ==
    ASSUME NEW T, NEW seq \in Seq(T), NEW S
    PROVE  Retained(seq, S) \in Seq(T)
<1>0. Len(seq) \in Nat /\ \A n \in 1 .. Len(seq) : seq[n] \in T
    OBVIOUS
<1>1. PICK f : IsRetained(f, seq, S) /\ Retained(seq, S) = f[Len(seq)]
    BY <1>0, RetainedUnfold
<1> DEFINE K == {m \in Nat : m <= Len(seq) => f[m] \in Seq(T)}
<1>2. 0 \in K
    BY <1>0, <1>1 DEF IsRetained
<1>3. ASSUME NEW m \in K PROVE m + 1 \in K
    <2> SUFFICES ASSUME m + 1 <= Len(seq) PROVE f[m + 1] \in Seq(T)
        OBVIOUS
    <2>1. m \in Nat /\ f[m] \in Seq(T) /\ seq[m + 1] \in T
        BY <1>0
    <2>2. f[m + 1] = IF seq[m + 1] \in S THEN Append(f[m], seq[m + 1]) ELSE f[m]
        <3>1. m + 1 \in 0 .. Len(seq) /\ m + 1 # 0 /\ (m + 1) - 1 = m
            BY <1>0, <2>1
        <3> QED BY <1>1, <3>1 DEF IsRetained
    <2> QED BY <2>1, <2>2
<1>4. K = Nat
    <2>1. K \in SUBSET Nat
        OBVIOUS
    <2> HIDE DEF K
    <2> QED BY <1>2, <1>3, <2>1, NatSetInduction
<1> QED BY <1>0, <1>1, <1>4

-----------------------------------------------------------------------------
(* Codes: sequences of bytes, or of fields, that stand for something *)

\* The code of u is told from that of v, whatever follows.
Apart(code, u, v, c, d) == code[u] \o c = code[v] \o d => u = v /\ c = d

\* What is written can be told from what follows it.
SelfDelimiting(code, X, T) == \A u, v \in X : \A c, d \in Seq(T) : Apart(code, u, v, c, d)

\* The code of each element of seq.
Coded(code, seq) == [i \in DOMAIN seq |-> code[seq[i]]]

LEMMA CodedType ==
    ASSUME NEW X, NEW Y, NEW code \in [X -> Y], NEW seq \in Seq(X)
    PROVE  Coded(code, seq) \in Seq(Y)
<1>1. DOMAIN seq = 1 .. Len(seq) /\ Len(seq) \in Nat /\ \A n \in 1 .. Len(seq) : code[seq[n]] \in Y
    OBVIOUS
<1>2. Coded(code, seq) = [i \in 1 .. Len(seq) |-> code[seq[i]]]
    BY <1>1 DEF Coded
<1> QED BY <1>1, <1>2

LEMMA CodedLen ==
    ASSUME NEW X, NEW Y, NEW code \in [X -> Y], NEW seq \in Seq(X)
    PROVE  Len(Coded(code, seq)) = Len(seq)
<1>1. DOMAIN seq = 1 .. Len(seq) /\ Len(seq) \in Nat /\ \A n \in 1 .. Len(seq) : code[seq[n]] \in Y
    OBVIOUS
<1>2. Coded(code, seq) = [i \in 1 .. Len(seq) |-> code[seq[i]]]
    BY <1>1 DEF Coded
<1> QED BY <1>1, <1>2

LEMMA CodedAt ==
    ASSUME NEW T, NEW X, NEW code \in [X -> Seq(T)], NEW seq \in Seq(X)
    PROVE  \A n \in 1 .. Len(seq) : Coded(code, seq)[n] = code[seq[n]] /\ seq[n] \in X
    BY DEF Coded

Beginnings(f, seqs, T) ==
    /\ f[0] = <<>>
    /\ \A n \in Nat : n < Len(seqs) => f[n + 1] = f[n] \o seqs[n + 1]
    /\ \A n \in 0 .. Len(seqs) : f[n] \in Seq(T)

LEMMA FlattenedPrefix ==
    ASSUME NEW T, NEW seqs \in Seq(Seq(T)), NEW f, IsFlattened(f, seqs)
    PROVE  Beginnings(f, seqs, T)
<1>0. Len(seqs) \in Nat /\ \A n \in 1 .. Len(seqs) : seqs[n] \in Seq(T)
    OBVIOUS
<1>1. f[0] = <<>>
    BY <1>0 DEF IsFlattened
<1>2. \A n \in Nat : n < Len(seqs) => f[n + 1] = f[n] \o seqs[n + 1]
    <2> TAKE n \in Nat
    <2>1. n < Len(seqs) => n + 1 \in 0 .. Len(seqs) /\ n + 1 # 0 /\ (n + 1) - 1 = n
        BY <1>0
    <2> QED BY <2>1 DEF IsFlattened
<1> DEFINE K == {n \in Nat : n <= Len(seqs) => f[n] \in Seq(T)}
<1>3. 0 \in K
    <2>1. <<>> \in Seq(T)
        OBVIOUS
    <2>2. f[0] \in Seq(T)
        BY <1>1, <2>1
    <2> QED BY <2>2
<1>4. ASSUME NEW n \in K PROVE n + 1 \in K
    <2> SUFFICES ASSUME n + 1 <= Len(seqs) PROVE f[n + 1] \in Seq(T)
        OBVIOUS
    <2>1. n \in Nat /\ n < Len(seqs) /\ f[n] \in Seq(T) /\ seqs[n + 1] \in Seq(T)
        BY <1>0
    <2>2. f[n + 1] = f[n] \o seqs[n + 1]
        BY <1>2, <2>1
    <2> QED BY <2>1, <2>2
<1>5. K = Nat
    <2>1. K \in SUBSET Nat
        OBVIOUS
    <2> HIDE DEF K
    <2> QED BY <1>3, <1>4, <2>1, NatSetInduction
<1>6. \A n \in 0 .. Len(seqs) : f[n] \in Seq(T)
    BY <1>0, <1>5
<1> QED BY <1>1, <1>2, <1>6 DEF Beginnings

LEMMA FlattenedType ==
    ASSUME NEW T, NEW seqs \in Seq(Seq(T))
    PROVE  Flattened(seqs) \in Seq(T)
<1>0. Len(seqs) \in Nat
    OBVIOUS
<1>1. PICK f : IsFlattened(f, seqs) /\ Flattened(seqs) = f[Len(seqs)]
    BY <1>0, FlattenedUnfold
<1>2. Beginnings(f, seqs, T)
    BY <1>1, FlattenedPrefix
<1> QED BY <1>0, <1>1, <1>2 DEF Beginnings

\* The first n elements can be told from what follows them.
PrefixTold(a, b, f, g, n, T) ==
    \A r, s \in Seq(T) :
        f[n] \o r = g[n] \o s => r = s /\ \A k \in 1 .. n : a[k] = b[k]

Regroups(i, j, k) == (i \o j) \o k = i \o (j \o k)

LEMMA AllRegroup == \A T : \A i, j, k \in Seq(T) : Regroups(i, j, k)
    BY ConcatAssociative DEF Regroups

LEMMA BeginningsTold ==
    ASSUME NEW T, NEW X, NEW code \in [X -> Seq(T)], SelfDelimiting(code, X, T),
           NEW a \in Seq(X), NEW b \in Seq(X),
           NEW f, NEW g, IsFlattened(f, Coded(code, a)), IsFlattened(g, Coded(code, b)),
           NEW n \in Nat, n <= Len(a), n <= Len(b)
    PROVE  PrefixTold(a, b, f, g, n, T)
<1> DEFINE ca == Coded(code, a)
           cb == Coded(code, b)
           K == {m \in Nat : m <= Len(a) /\ m <= Len(b) => PrefixTold(a, b, f, g, m, T)}
<1>0. Len(a) \in Nat /\ Len(b) \in Nat
    OBVIOUS
<1>1. ca \in Seq(Seq(T)) /\ Len(ca) = Len(a)
    <2>1. Coded(code, a) \in Seq(Seq(T))
        BY CodedType
    <2>2. Len(Coded(code, a)) = Len(a)
        BY CodedLen
    <2> QED BY <2>1, <2>2
<1>2. cb \in Seq(Seq(T)) /\ Len(cb) = Len(b)
    <2>1. Coded(code, b) \in Seq(Seq(T))
        BY CodedType
    <2>2. Len(Coded(code, b)) = Len(b)
        BY CodedLen
    <2> QED BY <2>1, <2>2
<1>3. Beginnings(f, ca, T) /\ Beginnings(g, cb, T)
    BY <1>1, <1>2, FlattenedPrefix
<1>4. /\ \A k \in 1 .. Len(a) : ca[k] = code[a[k]] /\ a[k] \in X
      /\ \A k \in 1 .. Len(b) : cb[k] = code[b[k]] /\ b[k] \in X
    BY CodedAt
<1> HIDE DEF ca, cb
<1>5. 0 \in K
    <2>1. f[0] = <<>> /\ g[0] = <<>>
        BY <1>3 DEF Beginnings
    <2>2. \A r \in Seq(T) : <<>> \o r = r
        BY ConcatEmptySeq
    <2>3. PrefixTold(a, b, f, g, 0, T)
        BY <2>1, <2>2 DEF PrefixTold
    <2> QED BY <2>3
<1>6. ASSUME NEW m \in K PROVE m + 1 \in K
    <2>0. m \in Nat
        OBVIOUS
    <2>1. ASSUME m + 1 <= Len(a), m + 1 <= Len(b) PROVE PrefixTold(a, b, f, g, m + 1, T)
        <3>0. m < Len(a) /\ m < Len(b) /\ m <= Len(a) /\ m <= Len(b)
            BY <1>0, <2>0, <2>1
        <3>1. PrefixTold(a, b, f, g, m, T)
            BY <3>0
        <3> HIDE DEF K
        <3>2. m + 1 \in 1 .. Len(a) /\ m + 1 \in 1 .. Len(b)
            BY <1>0, <2>0, <2>1
        <3>3. /\ ca[m + 1] = code[a[m + 1]] /\ a[m + 1] \in X
              /\ cb[m + 1] = code[b[m + 1]] /\ b[m + 1] \in X
            BY <1>4, <3>2
        <3>4. f[m + 1] = f[m] \o ca[m + 1] /\ g[m + 1] = g[m] \o cb[m + 1]
            BY <1>1, <1>2, <1>3, <2>0, <3>0 DEF Beginnings
        <3>5. f[m] \in Seq(T) /\ g[m] \in Seq(T)
            <4>1. m \in 0 .. Len(ca) /\ m \in 0 .. Len(cb)
                BY <1>0, <1>1, <1>2, <2>0, <3>0
            <4> QED BY <1>3, <4>1 DEF Beginnings
        <3>6. \A i, j \in Seq(T) : f[m] \o i = g[m] \o j => i = j /\ \A k \in 1 .. m : a[k] = b[k]
            BY <3>1, Zenon DEF PrefixTold
        <3> DEFINE x == a[m + 1]
                   y == b[m + 1]
                   cx == code[x]
                   cy == code[y]
                   fm == f[m]
                   gm == g[m]
        <3>7. /\ cx \in Seq(T) /\ cy \in Seq(T) /\ fm \in Seq(T) /\ gm \in Seq(T)
              /\ x \in X /\ y \in X
              /\ f[m + 1] = fm \o cx /\ g[m + 1] = gm \o cy
            BY <3>3, <3>4, <3>5
        <3>8. ASSUME NEW r \in Seq(T), NEW s \in Seq(T), f[m + 1] \o r = g[m + 1] \o s
              PROVE  r = s /\ \A k \in 1 .. m + 1 : a[k] = b[k]
            <4> HIDE DEF cx, cy, fm, gm, x, y
            <4>1. (fm \o cx) \o r = (gm \o cy) \o s
                BY <3>7, <3>8
            <4>2. /\ fm \o (cx \o r) = gm \o (cy \o s)
                  /\ cx \o r \in Seq(T) /\ cy \o s \in Seq(T)
                <5>0. Regroups(fm, cx, r) /\ Regroups(gm, cy, s)
                    BY <3>7, <3>8, AllRegroup, Zenon
                <5>1. fm \o (cx \o r) = gm \o (cy \o s)
                    BY <4>1, <5>0, Zenon DEF Regroups
                <5>2. cx \o r \in Seq(T) /\ cy \o s \in Seq(T)
                    BY <3>7, <3>8
                <5> QED BY <5>1, <5>2
            <4>3. cx \o r = cy \o s /\ \A k \in 1 .. m : a[k] = b[k]
                BY <3>6, <4>2 DEF fm, gm
            <4>4. code[x] \o r = code[y] \o s
                BY <4>3 DEF cx, cy
            <4>5. x = y /\ r = s
                <5>1. Apart(code, x, y, r, s)
                    BY <3>7, <3>8, Zenon DEF SelfDelimiting
                <5> QED BY <4>4, <5>1, Zenon DEF Apart
            <4>6. \A k \in 1 .. m + 1 : k \in 1 .. m \/ k = m + 1
                BY <2>0
            <4> QED BY <4>3, <4>5, <4>6 DEF x, y
        <3> QED BY <3>8 DEF PrefixTold
    <2>2. m + 1 \in Nat
        BY <2>0
    <2> QED BY <2>1, <2>2
<1>7. K = Nat
    <2>1. K \in SUBSET Nat
        OBVIOUS
    <2> HIDE DEF K
    <2> QED BY <1>5, <1>6, <2>1, NatSetInduction
<1> QED BY <1>7

ListsTold(code, a, b, T) ==
    \A r, s \in Seq(T) :
        Flattened(Coded(code, a)) \o r = Flattened(Coded(code, b)) \o s => a = b /\ r = s

\* Lists of as many elements are told from each other and from what follows them.
LEMMA FlattenedTold ==
    ASSUME NEW T, NEW X, NEW code \in [X -> Seq(T)], SelfDelimiting(code, X, T),
           NEW a \in Seq(X), NEW b \in Seq(X), Len(a) = Len(b)
    PROVE  ListsTold(code, a, b, T)
<1> SUFFICES ASSUME NEW r \in Seq(T), NEW s \in Seq(T),
                    Flattened(Coded(code, a)) \o r = Flattened(Coded(code, b)) \o s
             PROVE  a = b /\ r = s
    BY DEF ListsTold
<1>0. Len(a) \in Nat /\ Len(b) \in Nat
    OBVIOUS
<1>1. Len(Coded(code, a)) = Len(a)
    BY CodedLen
<1>2. Len(Coded(code, b)) = Len(b)
    BY CodedLen
<1>3. PICK f : IsFlattened(f, Coded(code, a)) /\ Flattened(Coded(code, a)) = f[Len(Coded(code, a))]
    BY <1>0, <1>1, FlattenedUnfold
<1>4. PICK g : IsFlattened(g, Coded(code, b)) /\ Flattened(Coded(code, b)) = g[Len(Coded(code, b))]
    BY <1>0, <1>2, FlattenedUnfold
<1> DEFINE n == Len(a)
<1>5. PrefixTold(a, b, f, g, n, T)
    <2>1. n \in Nat /\ n <= Len(a) /\ n <= Len(b)
        BY <1>0
    <2> HIDE DEF n
    <2>2. \A i \in Nat : i <= Len(a) /\ i <= Len(b) => PrefixTold(a, b, f, g, i, T)
        BY <1>3, <1>4, BeginningsTold
    <2> QED BY <2>1, <2>2
<1>6. f[Len(a)] \o r = g[Len(a)] \o s
    BY <1>1, <1>2, <1>3, <1>4
<1>7. r = s /\ \A k \in 1 .. Len(a) : a[k] = b[k]
    BY <1>5, <1>6, Zenon DEF PrefixTold
<1>8. a = b
    BY <1>7, SeqEqual
<1> QED BY <1>7, <1>8

Longer(g, n, m, T) == \E rest \in Seq(T) : rest # <<>> /\ g[m] = g[n] \o rest

\* What is joined later is something.
LEMMA Grows ==
    ASSUME NEW T, NEW seqs \in Seq(Seq(T)), NEW g, IsFlattened(g, seqs),
           \A k \in 1 .. Len(seqs) : seqs[k] # <<>>,
           NEW n \in Nat, n < Len(seqs)
    PROVE  Longer(g, n, Len(seqs), T)
<1> DEFINE More(m) == \E rest \in Seq(T) : rest # <<>> /\ g[m] = g[n] \o rest
           K == {k \in Nat : n + k + 1 <= Len(seqs) => More(n + k + 1)}
<1>0. Len(seqs) \in Nat /\ \A k \in 1 .. Len(seqs) : seqs[k] \in Seq(T)
    OBVIOUS
<1>1. Beginnings(g, seqs, T)
    BY FlattenedPrefix
<1>2. \A m \in Nat : m < Len(seqs) => /\ g[m + 1] = g[m] \o seqs[m + 1] /\ g[m] \in Seq(T)
                                      /\ seqs[m + 1] \in Seq(T) /\ seqs[m + 1] # <<>>
    <2> TAKE m \in Nat
    <2> SUFFICES ASSUME m < Len(seqs)
                 PROVE  /\ g[m + 1] = g[m] \o seqs[m + 1] /\ g[m] \in Seq(T)
                        /\ seqs[m + 1] \in Seq(T) /\ seqs[m + 1] # <<>>
        OBVIOUS
    <2>1. m \in 0 .. Len(seqs) /\ m + 1 \in 1 .. Len(seqs)
        BY <1>0
    <2>2. g[m + 1] = g[m] \o seqs[m + 1]
        BY <1>1 DEF Beginnings
    <2>3. g[m] \in Seq(T)
        BY <1>1, <2>1 DEF Beginnings
    <2> QED BY <1>0, <2>1, <2>2, <2>3
<1>3. 0 \in K
    <2>1. g[n + 1] = g[n] \o seqs[n + 1] /\ seqs[n + 1] \in Seq(T) /\ seqs[n + 1] # <<>>
        BY <1>2
    <2>2. More(n + 1)
        BY <2>1
    <2>3. n + 0 + 1 = n + 1
        OBVIOUS
    <2> HIDE DEF More
    <2> QED BY <2>2, <2>3
<1>4. ASSUME NEW k \in K PROVE k + 1 \in K
    <2>0. k \in Nat
        OBVIOUS
    <2> DEFINE m == n + k + 1
    <2>1. ASSUME m + 1 <= Len(seqs) PROVE More(m + 1)
        <3>0. m \in Nat /\ m < Len(seqs) /\ m <= Len(seqs)
            BY <1>0, <2>0, <2>1
        <3>1. More(m)
            BY <3>0
        <3> HIDE DEF m, K
        <3>2. PICK rest \in Seq(T) : rest # <<>> /\ g[m] = g[n] \o rest
            BY <3>1
        <3>3. g[m + 1] = g[m] \o seqs[m + 1] /\ seqs[m + 1] \in Seq(T)
            BY <1>2, <3>0
        <3>4. g[n] \in Seq(T)
            BY <1>2
        <3> DEFINE s == seqs[m + 1]
                   p == g[n]
        <3>5. s \in Seq(T) /\ p \in Seq(T) /\ g[m + 1] = (p \o rest) \o s
            BY <3>2, <3>3, <3>4
        <3> HIDE DEF s, p
        <3>6. Regroups(p, rest, s)
            BY <3>5, AllRegroup, Zenon
        <3>7. g[m + 1] = p \o (rest \o s)
            BY <3>5, <3>6 DEF Regroups
        <3>8. rest \o s \in Seq(T) /\ rest \o s # <<>>
            BY <3>2, <3>5, ConcatProperties, ConcatEqualIffEmpty
        <3> QED BY <3>7, <3>8 DEF p
    <2>2. n + (k + 1) + 1 = m + 1 /\ k + 1 \in Nat
        BY <2>0
    <2> HIDE DEF m, More
    <2> QED BY <2>1, <2>2
<1>5. K = Nat
    <2>1. K \in SUBSET Nat
        OBVIOUS
    <2> HIDE DEF K
    <2> QED BY <1>3, <1>4, <2>1, NatSetInduction
<1>6. More(Len(seqs))
    <2>1. Len(seqs) - n - 1 \in Nat /\ n + (Len(seqs) - n - 1) + 1 = Len(seqs)
        BY <1>0
    <2> DEFINE k == Len(seqs) - n - 1
    <2>2. k \in K /\ n + k + 1 = Len(seqs)
        BY <1>5, <2>1
    <2> HIDE DEF k, More
    <2> QED BY <1>0, <2>2
<1> QED BY <1>6 DEF Longer

\* A list is not the beginning of a longer one.
LEMMA NotShorter ==
    ASSUME NEW T, NEW X, NEW code \in [X -> Seq(T)], SelfDelimiting(code, X, T),
           \A x \in X : code[x] # <<>>,
           NEW a \in Seq(X), NEW b \in Seq(X), Flattened(Coded(code, a)) = Flattened(Coded(code, b))
    PROVE  ~(Len(a) < Len(b))
<1> SUFFICES ASSUME Len(a) < Len(b) PROVE FALSE
    OBVIOUS
<1>0. Len(a) \in Nat /\ Len(b) \in Nat /\ Len(a) <= Len(b)
    OBVIOUS
<1>1. Len(Coded(code, a)) = Len(a) /\ Coded(code, a) \in Seq(Seq(T))
    <2>1. Len(Coded(code, a)) = Len(a)
        BY CodedLen
    <2>2. Coded(code, a) \in Seq(Seq(T))
        BY CodedType
    <2> QED BY <2>1, <2>2
<1>2. Len(Coded(code, b)) = Len(b) /\ Coded(code, b) \in Seq(Seq(T))
    <2>1. Len(Coded(code, b)) = Len(b)
        BY CodedLen
    <2>2. Coded(code, b) \in Seq(Seq(T))
        BY CodedType
    <2> QED BY <2>1, <2>2
<1>3. PICK f : IsFlattened(f, Coded(code, a)) /\ Flattened(Coded(code, a)) = f[Len(Coded(code, a))]
    BY <1>0, <1>1, FlattenedUnfold
<1>4. PICK g : IsFlattened(g, Coded(code, b)) /\ Flattened(Coded(code, b)) = g[Len(Coded(code, b))]
    BY <1>0, <1>2, FlattenedUnfold
<1> DEFINE n == Len(a)
<1>5. PrefixTold(a, b, f, g, n, T)
    <2>1. n \in Nat /\ n <= Len(a) /\ n <= Len(b)
        BY <1>0
    <2> HIDE DEF n
    <2>2. \A i \in Nat : i <= Len(a) /\ i <= Len(b) => PrefixTold(a, b, f, g, i, T)
        BY <1>3, <1>4, BeginningsTold
    <2> QED BY <2>1, <2>2
<1>6. \A k \in 1 .. Len(Coded(code, b)) : Coded(code, b)[k] # <<>>
    <2>1. \A k \in 1 .. Len(b) : Coded(code, b)[k] = code[b[k]] /\ b[k] \in X
        BY CodedAt
    <2> QED BY <1>2, <2>1
<1> DEFINE cb == Coded(code, b)
<1>7. cb \in Seq(Seq(T)) /\ IsFlattened(g, cb) /\ Len(a) < Len(cb) /\ Len(cb) = Len(b)
      /\ \A k \in 1 .. Len(cb) : cb[k] # <<>>
    BY <1>2, <1>4, <1>6
<1> HIDE DEF cb
<1>8. PICK rest \in Seq(T) : rest # <<>> /\ g[Len(cb)] = g[Len(a)] \o rest
    <2>1. \A k \in 1 .. Len(cb) : cb[k] # <<>>
        BY <1>7
    <2>2. \A i \in Nat : i < Len(cb) => Longer(g, i, Len(cb), T)
        BY <1>7, <2>1, Grows
    <2> QED BY <1>0, <1>7, <2>2 DEF Longer
<1>9. f[Len(a)] = g[Len(a)] \o rest
    BY <1>1, <1>3, <1>4, <1>8 DEF cb
<1>10. f[Len(a)] \in Seq(T)
    <2>1. Beginnings(f, Coded(code, a), T)
        BY <1>1, <1>3, FlattenedPrefix
    <2>2. Len(a) \in 0 .. Len(Coded(code, a))
        BY <1>0, <1>1
    <2> QED BY <2>1, <2>2 DEF Beginnings
<1>11. f[Len(a)] \o <<>> = g[Len(a)] \o rest /\ <<>> \in Seq(T)
    BY <1>9, <1>10, ConcatEmptySeq
<1> QED BY <1>5, <1>8, <1>11, Zenon DEF PrefixTold

\* Lists whose elements are written as something are told from each other, whatever
\* their lengths.
LEMMA FlattenedOnce ==
    ASSUME NEW T, NEW X, NEW code \in [X -> Seq(T)], SelfDelimiting(code, X, T),
           \A x \in X : code[x] # <<>>,
           NEW a \in Seq(X), NEW b \in Seq(X), Flattened(Coded(code, a)) = Flattened(Coded(code, b))
    PROVE  a = b
<1>1. ~(Len(a) < Len(b))
    BY NotShorter
<1>2. ~(Len(b) < Len(a))
    BY NotShorter
<1>3. Len(a) = Len(b)
    BY <1>1, <1>2
<1>4. <<>> \in Seq(T) /\ Flattened(Coded(code, a)) \o <<>> = Flattened(Coded(code, b)) \o <<>>
    OBVIOUS
<1>5. ListsTold(code, a, b, T)
    BY <1>3, FlattenedTold
<1> QED BY <1>4, <1>5, Zenon DEF ListsTold
================================================================================
