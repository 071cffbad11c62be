----------------------------- MODULE Arithmetic -----------------------------
(***************************************************************************)
(* Facts about the arithmetic of the components: quotients, which round    *)
(* down, and sums.                                                         *)
(*                                                                         *)
(* SumFunctionOnSet, the community modules' sum of f[x] over the x of a    *)
(* finite set, is a fold: a recursive function on the subsets, which takes *)
(* out an element it CHOOSEs. What is proved about it "for every finite    *)
(* set" is proved by looking at a smallest set for which it would fail.    *)
(***************************************************************************)
EXTENDS Integers, FiniteSets, Functions, FiniteSetTheorems, WellFoundedInduction, TLAPS

-----------------------------------------------------------------------------
(* Quotients.                                                              *)

\* What fits into a that often is at most the quotient; what exceeds a if
\* taken once more is at least it.
LEMMA QuotientBounds ==
    ASSUME NEW a \in Nat, NEW b \in Nat, b > 0
    PROVE  /\ \A x \in Nat : x * b <= a => x <= a \div b
           /\ \A x \in Nat : a < (x + 1) * b => a \div b <= x
<1> DEFINE q == a \div b
<1>1. q \in Nat /\ b * q <= a /\ a < b * q + b
    BY Z3
<1> HIDE DEF q
<1>2. ASSUME NEW x \in Nat, x * b <= a PROVE x <= q
    <2> SUFFICES ASSUME x >= q + 1 PROVE FALSE
        BY <1>1
    <2>1. PICK k \in Nat : x = q + 1 + k
        <3>1. x - (q + 1) \in Nat /\ x = q + 1 + (x - (q + 1))
            BY <1>1
        <3> QED
            BY <3>1
    <2>2. k * b \in Nat /\ b * q \in Nat
        BY <1>1
    <2>3. x * b = b * q + b + k * b
        BY <1>1, <2>1
    <2> QED
        BY <1>1, <1>2, <2>2, <2>3
<1>3. ASSUME NEW x \in Nat, a < (x + 1) * b PROVE q <= x
    <2> SUFFICES ASSUME q >= x + 1 PROVE FALSE
        BY <1>1
    <2>1. PICK k \in Nat : q = x + 1 + k
        <3>1. q - (x + 1) \in Nat /\ q = x + 1 + (q - (x + 1))
            BY <1>1
        <3> QED
            BY <3>1
    <2>2. k * b \in Nat /\ (x + 1) * b \in Nat
        OBVIOUS
    <2>3. b * q = (x + 1) * b + k * b
        BY <2>1
    <2> QED
        BY <1>1, <1>3, <2>2, <2>3
<1> QED
    BY <1>2, <1>3 DEF q

\* A larger number has no smaller quotient.
LEMMA QuotientMonotone ==
    ASSUME NEW a \in Nat, NEW c \in Nat, NEW b \in Nat, b > 0, a <= c
    PROVE  a \div b \in Nat /\ c \div b \in Nat /\ a \div b <= c \div b
<1> DEFINE q == a \div b
<1>1. q \in Nat /\ b * q <= a
    BY Z3
<1>2. c \div b \in Nat
    BY Z3
<1> HIDE DEF q
<1>3. q * b <= c
    <2>1. b * q \in Nat /\ q * b = b * q
        BY <1>1
    <2> QED
        BY <1>1, <2>1
<1>4. q <= c \div b
    BY <1>1, <1>3, QuotientBounds
<1> QED
    BY <1>1, <1>2, <1>4 DEF q

-----------------------------------------------------------------------------
(* The recursion of a sum.                                                 *)

\* Among sets of subsets of a finite set there is always a smallest one.
LEMMA SmallestSet ==
    ASSUME NEW S, IsFiniteSet(S), NEW F, F \subseteq SUBSET S, F # {}
    PROVE  \E A \in F : \A B \in F : B \subseteq A => B = A
<1>1. IsWellFoundedOn(StrictSubsetOrdering(S), FiniteSubsetsOf(S))
    BY FS_StrictSubsetOrderingWellFounded
<1>2. F \subseteq FiniteSubsetsOf(S)
    BY FS_Subset DEF FiniteSubsetsOf
<1>3. \E A \in F : \A B \in F : <<B, A>> \notin StrictSubsetOrdering(S)
    BY <1>1, <1>2, WFMin
<1> QED
    BY <1>3 DEF StrictSubsetOrdering

Chosen(s) == CHOOSE x \in s : TRUE

\* The value at s, from the values of g at smaller sets.
SumStep(g, f, s) == IF s = {} THEN 0 ELSE f[Chosen(s)] + g[s \ {Chosen(s)}]

\* g sums f over every subset of D.
SumsOver(g, f, D) == g = [s \in SUBSET D |-> SumStep(g, f, s)]

LEMMA ChosenIn == ASSUME NEW s, s # {} PROVE Chosen(s) \in s
BY DEF Chosen

LEMMA SumIsChosen ==
    ASSUME NEW f, NEW D
    PROVE  SumFunctionOnSet(f, D) = (CHOOSE g : SumsOver(g, f, D))[D]
BY DEF SumFunctionOnSet, FoldFunctionOnSet, MapThenFoldSet, SumsOver, SumStep, Chosen

\* Two functions that sum f agree where both are defined.
LEMMA SumsAgree ==
    ASSUME NEW f, NEW D, NEW E, NEW g, NEW h, IsFiniteSet(D),
           SumsOver(g, f, D), SumsOver(h, f, E), NEW s, s \subseteq D, s \subseteq E
    PROVE  g[s] = h[s]
<1> DEFINE Bad == {t \in SUBSET (D \cap E) : g[t] # h[t]}
<1> SUFFICES ASSUME Bad # {} PROVE FALSE
    OBVIOUS
<1>0. IsFiniteSet(D \cap E)
    BY FS_Intersection
<1>1. PICK t \in Bad : \A u \in Bad : u \subseteq t => u = t
    <2>1. Bad \subseteq SUBSET (D \cap E)
        OBVIOUS
    <2> HIDE DEF Bad
    <2> QED
        BY <1>0, <2>1, SmallestSet
<1>2. g[t] = SumStep(g, f, t) /\ h[t] = SumStep(h, f, t)
    BY DEF SumsOver
<1>3. t # {}
    BY <1>2 DEF SumStep
<1>4. t \ {Chosen(t)} \notin Bad
    BY <1>1, <1>3, ChosenIn
<1>5. g[t \ {Chosen(t)}] = h[t \ {Chosen(t)}]
    BY <1>4
<1> QED
    BY <1>2, <1>3, <1>5 DEF SumStep

\* Over a finite set there is a function that sums f.
LEMMA SumsExist ==
    ASSUME NEW f, NEW S, IsFiniteSet(S)
    PROVE  \E g : SumsOver(g, f, S)
<1> DEFINE Bad == {T \in SUBSET S : ~ \E g : SumsOver(g, f, T)}
<1> SUFFICES ASSUME Bad # {} PROVE FALSE
    OBVIOUS
<1>1. PICK T \in Bad : \A U \in Bad : U \subseteq T => U = T
    <2>1. Bad \subseteq SUBSET S
        OBVIOUS
    <2> HIDE DEF Bad
    <2> QED
        BY <2>1, SmallestSet
<1> DEFINE of(U) == CHOOSE g : SumsOver(g, f, U)
           val(U) == of(U)[U]
           h == [s \in SUBSET T |->
                    IF s = T THEN (IF T = {} THEN 0 ELSE f[Chosen(T)] + val(T \ {Chosen(T)}))
                    ELSE val(s)]
<1>2. ASSUME NEW U \in SUBSET T, U # T PROVE SumsOver(of(U), f, U)
    <2>1. U \in SUBSET S /\ U \notin Bad
        BY <1>1, <1>2
    <2>2. \E g : SumsOver(g, f, U)
        BY <2>1
    <2> QED
        BY <2>2
<1>3. ASSUME NEW s \in SUBSET T PROVE h[s] = SumStep(h, f, s)
    <2>1. CASE s = {}
        <3>1. CASE T = {}
            BY <2>1, <3>1 DEF SumStep
        <3>2. CASE T # {}
            <4>1. SumsOver(of(s), f, s)
                BY <1>2, <2>1, <3>2
            <4>2. of(s)[s] = SumStep(of(s), f, s)
                BY <4>1 DEF SumsOver
            <4>3. h[s] = of(s)[s]
                BY <2>1, <3>2
            <4> QED
                BY <2>1, <4>2, <4>3 DEF SumStep
        <3> QED
            BY <3>1, <3>2
    <2>2. CASE s # {}
        <3> DEFINE r == s \ {Chosen(s)}
        <3>1. Chosen(s) \in s /\ r \in SUBSET T /\ r # T /\ r # s /\ r \subseteq s
            BY <2>2, ChosenIn
        <3>2. h[r] = val(r)
            BY <3>1
        <3>3. CASE s = T
            BY <2>2, <3>1, <3>2, <3>3 DEF SumStep
        <3>4. CASE s # T
            <4>1. SumsOver(of(s), f, s) /\ SumsOver(of(r), f, r)
                BY <1>2, <3>1, <3>4
            <4>2. of(s)[s] = SumStep(of(s), f, s)
                BY <4>1 DEF SumsOver
            <4>3. of(s)[s] = f[Chosen(s)] + of(s)[r]
                BY <4>2, <2>2 DEF SumStep
            <4>4. IsFiniteSet(s)
                BY FS_Subset
            <4>5. of(s)[r] = of(r)[r]
                <5> HIDE DEF of, r
                <5> QED
                    BY <3>1, <4>1, <4>4, SumsAgree
            <4>6. h[s] = of(s)[s]
                BY <3>4
            <4> QED
                BY <2>2, <3>2, <4>3, <4>5, <4>6 DEF SumStep
        <3> QED
            BY <3>3, <3>4
    <2> QED
        BY <2>1, <2>2
<1>4. h = [s \in SUBSET T |-> h[s]]
    OBVIOUS
<1> HIDE DEF h
<1>5. SumsOver(h, f, T)
    BY <1>3, <1>4 DEF SumsOver
<1> QED
    BY <1>5

-----------------------------------------------------------------------------
(* The sum.                                                                *)

\* Over a finite set the sum is what every summing function gives.
LEMMA SumIs ==
    ASSUME NEW f, NEW S, IsFiniteSet(S), NEW D, NEW g, SumsOver(g, f, D), S \subseteq D
    PROVE  SumFunctionOnSet(f, S) = g[S]
<1> DEFINE c == CHOOSE h : SumsOver(h, f, S)
<1>1. SumsOver(c, f, S)
    BY SumsExist
<1>2. SumFunctionOnSet(f, S) = c[S]
    BY SumIsChosen
<1> HIDE DEF c
<1> QED
    BY <1>1, <1>2, SumsAgree

LEMMA SumEmpty == ASSUME NEW f PROVE SumFunctionOnSet(f, {}) = 0
<1>1. IsFiniteSet({})
    BY FS_EmptySet
<1>2. PICK g : SumsOver(g, f, {})
    BY <1>1, SumsExist
<1>3. SumFunctionOnSet(f, {}) = g[{}]
    BY <1>1, <1>2, SumIs
<1>4. g[{}] = SumStep(g, f, {})
    BY <1>2 DEF SumsOver
<1> QED
    BY <1>3, <1>4 DEF SumStep

LEMMA SumFirst ==
    ASSUME NEW f, NEW S, IsFiniteSet(S), S # {}
    PROVE  SumFunctionOnSet(f, S) = f[Chosen(S)] + SumFunctionOnSet(f, S \ {Chosen(S)})
<1> DEFINE R == S \ {Chosen(S)}
<1>1. PICK g : SumsOver(g, f, S)
    BY SumsExist
<1>2. g[S] = SumStep(g, f, S)
    BY <1>1 DEF SumsOver
<1>3. g[S] = f[Chosen(S)] + g[R]
    BY <1>2 DEF SumStep
<1>4. IsFiniteSet(R) /\ R \subseteq S
    BY FS_Subset
<1>5. SumFunctionOnSet(f, S) = g[S]
    BY <1>1, SumIs
<1>6. SumFunctionOnSet(f, R) = g[R]
    BY <1>1, <1>4, SumIs
<1> QED
    BY <1>3, <1>5, <1>6

\* The sum of integers is an integer.
LEMMA SumInt ==
    ASSUME NEW f, NEW S, IsFiniteSet(S), \A x \in S : f[x] \in Int
    PROVE  SumFunctionOnSet(f, S) \in Int
<1> DEFINE Bad == {T \in SUBSET S : SumFunctionOnSet(f, T) \notin Int}
<1> SUFFICES ASSUME Bad # {} PROVE FALSE
    OBVIOUS
<1>1. PICK T \in Bad : \A U \in Bad : U \subseteq T => U = T
    <2>1. Bad \subseteq SUBSET S
        OBVIOUS
    <2> HIDE DEF Bad
    <2> QED
        BY <2>1, SmallestSet
<1>2. T \in SUBSET S /\ IsFiniteSet(T) /\ T # {}
    <2>1. SumFunctionOnSet(f, {}) \in Int
        BY SumEmpty
    <2> QED
        BY <2>1, FS_Subset
<1>3. Chosen(T) \in T
    BY <1>2, ChosenIn
<1>4. T \ {Chosen(T)} \notin Bad
    BY <1>1, <1>3
<1>5. SumFunctionOnSet(f, T \ {Chosen(T)}) \in Int
    BY <1>2, <1>4
<1>6. f[Chosen(T)] \in Int
    BY <1>2, <1>3
<1> QED
    BY <1>2, <1>5, <1>6, SumFirst

\* Any element may be taken out first.
LEMMA SumTake ==
    ASSUME NEW f, NEW S, IsFiniteSet(S), \A x \in S : f[x] \in Int, NEW y \in S
    PROVE  SumFunctionOnSet(f, S) = f[y] + SumFunctionOnSet(f, S \ {y})
<1> DEFINE Good(T) == \A z \in T : SumFunctionOnSet(f, T) = f[z] + SumFunctionOnSet(f, T \ {z})
           Bad == {T \in SUBSET S : ~Good(T)}
<1> SUFFICES ASSUME Bad # {} PROVE FALSE
    OBVIOUS
<1>1. PICK T \in Bad : \A U \in Bad : U \subseteq T => U = T
    <2>1. Bad \subseteq SUBSET S
        OBVIOUS
    <2> HIDE DEF Bad
    <2> QED
        BY <2>1, SmallestSet
<1>2. T \in SUBSET S /\ IsFiniteSet(T)
    BY FS_Subset
<1>3. PICK z \in T : SumFunctionOnSet(f, T) # f[z] + SumFunctionOnSet(f, T \ {z})
    OBVIOUS
<1> DEFINE x == Chosen(T)
           R == T \ {x, z}
<1>4. x \in T
    BY <1>3, ChosenIn
<1> HIDE DEF x
<1>5. SumFunctionOnSet(f, T) = f[x] + SumFunctionOnSet(f, T \ {x})
    BY <1>2, <1>3, SumFirst DEF x
<1>6. z # x
    BY <1>3, <1>5
<1>7. Good(T \ {x}) /\ Good(T \ {z})
    BY <1>1, <1>3, <1>4
<1>8. (T \ {x}) \ {z} = R /\ (T \ {z}) \ {x} = R
    OBVIOUS
<1>9. SumFunctionOnSet(f, T \ {x}) = f[z] + SumFunctionOnSet(f, R)
    BY <1>6, <1>7, <1>8
<1>10. SumFunctionOnSet(f, T \ {z}) = f[x] + SumFunctionOnSet(f, R)
    BY <1>4, <1>6, <1>7, <1>8
<1>11. f[x] \in Int /\ f[z] \in Int /\ SumFunctionOnSet(f, R) \in Int
    <2>1. IsFiniteSet(R) /\ \A w \in R : f[w] \in Int
        BY <1>2, FS_Subset
    <2> QED
        BY <1>2, <1>4, <2>1, SumInt
<1> HIDE DEF R
<1> QED
    BY <1>3, <1>5, <1>9, <1>10, <1>11

-----------------------------------------------------------------------------
(* Comparing sums.                                                         *)

\* The sum of two functions, taken pointwise.
LEMMA SumPlus ==
    ASSUME NEW f, NEW g, NEW h, NEW S, IsFiniteSet(S),
           \A x \in S : f[x] \in Int /\ g[x] \in Int /\ h[x] = f[x] + g[x]
    PROVE  SumFunctionOnSet(h, S) = SumFunctionOnSet(f, S) + SumFunctionOnSet(g, S)
<1> DEFINE F(T) == SumFunctionOnSet(f, T)
           G(T) == SumFunctionOnSet(g, T)
           H(T) == SumFunctionOnSet(h, T)
           Bad == {T \in SUBSET S : H(T) # F(T) + G(T)}
<1> SUFFICES ASSUME Bad # {} PROVE FALSE
    OBVIOUS
<1>1. PICK T \in Bad : \A U \in Bad : U \subseteq T => U = T
    <2>1. Bad \subseteq SUBSET S
        OBVIOUS
    <2> HIDE DEF Bad
    <2> QED
        BY <2>1, SmallestSet
<1>2. T \in SUBSET S /\ IsFiniteSet(T)
    BY FS_Subset
<1>3. PICK y : y \in T
    <2>1. H({}) = F({}) + G({})
        BY SumEmpty
    <2> QED
        BY <2>1
<1> DEFINE R == T \ {y}
<1>4. R \in SUBSET S /\ R \notin Bad /\ IsFiniteSet(R)
    BY <1>1, <1>2, <1>3, FS_Subset
<1>5. H(R) = F(R) + G(R)
    BY <1>4
<1>6. \A x \in T : f[x] \in Int /\ g[x] \in Int /\ h[x] \in Int
    BY <1>2
<1>7. F(T) = f[y] + F(R)
    BY <1>2, <1>3, <1>6, SumTake
<1>8. G(T) = g[y] + G(R)
    BY <1>2, <1>3, <1>6, SumTake
<1>9. H(T) = h[y] + H(R)
    BY <1>2, <1>3, <1>6, SumTake
<1>10. F(R) \in Int /\ G(R) \in Int
    BY <1>4, <1>6, SumInt
<1>11. H(T) # F(T) + G(T) /\ h[y] = f[y] + g[y] /\ f[y] \in Int /\ g[y] \in Int
    BY <1>2, <1>3, <1>6
<1> HIDE DEF F, G, H
<1> QED
    BY <1>5, <1>7, <1>8, <1>9, <1>10, <1>11

\* A function that is nowhere larger has no larger sum.
LEMMA SumBelow ==
    ASSUME NEW f, NEW g, NEW S, IsFiniteSet(S),
           \A x \in S : f[x] \in Int /\ g[x] \in Int /\ f[x] <= g[x]
    PROVE  SumFunctionOnSet(f, S) <= SumFunctionOnSet(g, S)
<1> DEFINE F(T) == SumFunctionOnSet(f, T)
           G(T) == SumFunctionOnSet(g, T)
           Bad == {T \in SUBSET S : ~(F(T) <= G(T))}
<1> SUFFICES ASSUME Bad # {} PROVE FALSE
    OBVIOUS
<1>1. PICK T \in Bad : \A U \in Bad : U \subseteq T => U = T
    <2>1. Bad \subseteq SUBSET S
        OBVIOUS
    <2> HIDE DEF Bad
    <2> QED
        BY <2>1, SmallestSet
<1>2. T \in SUBSET S /\ IsFiniteSet(T)
    BY FS_Subset
<1>3. PICK y : y \in T
    <2>1. F({}) = 0 /\ G({}) = 0
        BY SumEmpty
    <2> QED
        BY <2>1
<1> DEFINE R == T \ {y}
<1>4. R \in SUBSET S /\ R \notin Bad /\ IsFiniteSet(R)
    BY <1>1, <1>2, <1>3, FS_Subset
<1>5. F(R) <= G(R)
    BY <1>4
<1>6. \A x \in T : f[x] \in Int /\ g[x] \in Int
    BY <1>2
<1>7. F(T) = f[y] + F(R)
    BY <1>2, <1>3, <1>6, SumTake
<1>8. G(T) = g[y] + G(R)
    BY <1>2, <1>3, <1>6, SumTake
<1>9. F(R) \in Int /\ G(R) \in Int
    BY <1>4, <1>6, SumInt
<1>10. ~(F(T) <= G(T)) /\ f[y] <= g[y] /\ f[y] \in Int /\ g[y] \in Int
    BY <1>2, <1>3, <1>6
<1> HIDE DEF F, G
<1> QED
    BY <1>5, <1>7, <1>8, <1>9, <1>10

\* Only the values on the set count.
LEMMA SumSame ==
    ASSUME NEW f, NEW g, NEW S, IsFiniteSet(S),
           \A x \in S : f[x] \in Int /\ g[x] = f[x]
    PROVE  SumFunctionOnSet(f, S) = SumFunctionOnSet(g, S)
<1>1. SumFunctionOnSet(f, S) <= SumFunctionOnSet(g, S)
    BY SumBelow
<1>2. SumFunctionOnSet(g, S) <= SumFunctionOnSet(f, S)
    BY SumBelow
<1>3. SumFunctionOnSet(f, S) \in Int
    BY SumInt
<1>4. \A x \in S : g[x] \in Int
    OBVIOUS
<1>5. SumFunctionOnSet(g, S) \in Int
    BY <1>4, SumInt
<1> QED
    BY <1>1, <1>2, <1>3, <1>5

\* Zeros add up to zero.
LEMMA SumZero ==
    ASSUME NEW f, NEW S, IsFiniteSet(S), \A x \in S : f[x] = 0
    PROVE  SumFunctionOnSet(f, S) = 0
<1> DEFINE n == SumFunctionOnSet(f, S)
<1>1. n = n + n
    BY SumPlus
<1>2. n \in Int
    BY SumInt
<1> HIDE DEF n
<1>3. n = 0
    BY <1>1, <1>2
<1> QED
    BY <1>3 DEF n

\* The sum of naturals is a natural.
LEMMA SumNat ==
    ASSUME NEW f, NEW S, IsFiniteSet(S), \A x \in S : f[x] \in Nat
    PROVE  SumFunctionOnSet(f, S) \in Nat
<1> DEFINE z == [x \in S |-> 0]
<1>1. \A x \in S : z[x] = 0
    OBVIOUS
<1> HIDE DEF z
<1>2. SumFunctionOnSet(z, S) = 0
    BY <1>1, SumZero
<1>3. SumFunctionOnSet(z, S) <= SumFunctionOnSet(f, S)
    BY <1>1, SumBelow
<1>4. SumFunctionOnSet(f, S) \in Int
    BY SumInt
<1> QED
    BY <1>2, <1>3, <1>4

\* A subset and what is left of the set make up its sum.
LEMMA SumSplit ==
    ASSUME NEW f, NEW S, IsFiniteSet(S), \A x \in S : f[x] \in Int, NEW T, T \subseteq S
    PROVE  SumFunctionOnSet(f, S) = SumFunctionOnSet(f, T) + SumFunctionOnSet(f, S \ T)
<1> DEFINE F(U) == SumFunctionOnSet(f, U)
           Bad == {U \in SUBSET S : F(S) # F(U) + F(S \ U)}
<1> SUFFICES ASSUME Bad # {} PROVE FALSE
    OBVIOUS
<1>1. PICK U \in Bad : \A V \in Bad : V \subseteq U => V = U
    <2>1. Bad \subseteq SUBSET S
        OBVIOUS
    <2> HIDE DEF Bad
    <2> QED
        BY <2>1, SmallestSet
<1>2. \A V \in SUBSET S : IsFiniteSet(V) /\ F(V) \in Int
    <2> TAKE V \in SUBSET S
    <2>1. IsFiniteSet(V)
        BY FS_Subset
    <2> QED
        BY <2>1, SumInt
<1>3. PICK y : y \in U
    <2>1. F({}) = 0 /\ S \ {} = S /\ F(S) \in Int
        BY <1>2, SumEmpty
    <2> HIDE DEF F
    <2>2. F(S) = F({}) + F(S \ {})
        BY <2>1
    <2> QED
        BY <2>2
<1> DEFINE R == U \ {y}
           C == S \ U
<1>4. R \in SUBSET S /\ R \notin Bad /\ S \ R \in SUBSET S /\ C \in SUBSET S
    BY <1>1, <1>3
<1>5. F(S) = F(R) + F(S \ R)
    BY <1>4
<1>6. F(U) = f[y] + F(R)
    <2>1. IsFiniteSet(U) /\ \A x \in U : f[x] \in Int
        BY <1>2
    <2> QED
        BY <1>3, <2>1, SumTake
<1>7. F(S \ R) = f[y] + F(C)
    <2>1. y \in S \ R /\ (S \ R) \ {y} = C
        BY <1>3
    <2>2. IsFiniteSet(S \ R) /\ \A x \in S \ R : f[x] \in Int
        BY <1>2, <1>4
    <2> QED
        BY <2>1, <2>2, SumTake
<1>8. f[y] \in Int /\ F(R) \in Int /\ F(C) \in Int
    BY <1>2, <1>3, <1>4
<1>9. F(S) # F(U) + F(C)
    OBVIOUS
<1> HIDE DEF F, R, C
<1> QED
    BY <1>5, <1>6, <1>7, <1>8, <1>9

\* Of naturals, fewer do not add up to more.
LEMMA SumSubset ==
    ASSUME NEW f, NEW S, IsFiniteSet(S), \A x \in S : f[x] \in Nat, NEW T, T \subseteq S
    PROVE  SumFunctionOnSet(f, T) <= SumFunctionOnSet(f, S)
<1>1. SumFunctionOnSet(f, S) = SumFunctionOnSet(f, T) + SumFunctionOnSet(f, S \ T)
    BY SumSplit
<1>2. IsFiniteSet(T) /\ IsFiniteSet(S \ T)
    BY FS_Subset
<1>3. SumFunctionOnSet(f, T) \in Nat /\ SumFunctionOnSet(f, S \ T) \in Nat
    BY <1>2, SumNat
<1> DEFINE a == SumFunctionOnSet(f, T)
           b == SumFunctionOnSet(f, S \ T)
<1> HIDE DEF a, b
<1>4. a <= a + b
    BY <1>3 DEF a, b
<1> QED
    BY <1>1, <1>4 DEF a, b

\* A change at one point changes the sum by as much.
LEMMA SumChange ==
    ASSUME NEW f, NEW g, NEW S, IsFiniteSet(S), NEW y \in S, NEW d \in Int,
           \A x \in S : f[x] \in Int /\ g[x] = (IF x = y THEN f[x] + d ELSE f[x])
    PROVE  SumFunctionOnSet(g, S) = SumFunctionOnSet(f, S) + d
<1> DEFINE R == S \ {y}
           a == SumFunctionOnSet(f, R)
<1>1. IsFiniteSet(R) /\ R \subseteq S
    BY FS_Subset
<1>2. SumFunctionOnSet(f, S) = f[y] + a
    BY SumTake
<1>3. \A x \in S : g[x] \in Int
    OBVIOUS
<1>4. SumFunctionOnSet(g, S) = g[y] + SumFunctionOnSet(g, R)
    BY <1>3, SumTake
<1>5. SumFunctionOnSet(g, R) = a
    BY <1>1, SumSame
<1>6. a \in Int
    BY <1>1, SumInt
<1>7. f[y] \in Int /\ g[y] = f[y] + d
    OBVIOUS
<1> HIDE DEF a
<1> QED
    BY <1>2, <1>4, <1>5, <1>6, <1>7

\* A factor may be taken out of a sum.
LEMMA SumScale ==
    ASSUME NEW f, NEW g, NEW c \in Int, NEW S, IsFiniteSet(S),
           \A x \in S : f[x] \in Int /\ g[x] = c * f[x]
    PROVE  SumFunctionOnSet(g, S) = c * SumFunctionOnSet(f, S)
<1> DEFINE F(T) == SumFunctionOnSet(f, T)
           G(T) == SumFunctionOnSet(g, T)
           Bad == {T \in SUBSET S : G(T) # c * F(T)}
<1> SUFFICES ASSUME Bad # {} PROVE FALSE
    OBVIOUS
<1>1. PICK T \in Bad : \A U \in Bad : U \subseteq T => U = T
    <2>1. Bad \subseteq SUBSET S
        OBVIOUS
    <2> HIDE DEF Bad
    <2> QED
        BY <2>1, SmallestSet
<1>2. T \in SUBSET S /\ IsFiniteSet(T)
    BY FS_Subset
<1>3. PICK y : y \in T
    <2>1. F({}) = 0 /\ G({}) = 0
        BY SumEmpty
    <2>2. G({}) = c * F({})
        <3> HIDE DEF F, G
        <3> QED
            BY <2>1
    <2> QED
        BY <2>2
<1> DEFINE R == T \ {y}
<1>4. R \in SUBSET S /\ R \notin Bad /\ IsFiniteSet(R)
    BY <1>1, <1>2, <1>3, FS_Subset
<1>5. G(R) = c * F(R)
    BY <1>4
<1>6. \A x \in T : f[x] \in Int /\ g[x] \in Int
    BY <1>2
<1>7. F(T) = f[y] + F(R)
    BY <1>2, <1>3, <1>6, SumTake
<1>8. G(T) = g[y] + G(R)
    BY <1>2, <1>3, <1>6, SumTake
<1>9. F(R) \in Int
    BY <1>4, <1>6, SumInt
<1>10. G(T) # c * F(T) /\ g[y] = c * f[y] /\ f[y] \in Int
    BY <1>2, <1>3, <1>6
<1> HIDE DEF F, G
<1>11. c * (f[y] + F(R)) = c * f[y] + c * F(R)
    BY <1>9, <1>10
<1> QED
    BY <1>5, <1>7, <1>8, <1>10, <1>11

\* Equal values add up to so many times the value.
LEMMA SumConstant ==
    ASSUME NEW f, NEW c \in Int, NEW S, IsFiniteSet(S), \A x \in S : f[x] = c
    PROVE  SumFunctionOnSet(f, S) = c * Cardinality(S)
<1> DEFINE F(T) == SumFunctionOnSet(f, T)
           Bad == {T \in SUBSET S : F(T) # c * Cardinality(T)}
<1> SUFFICES ASSUME Bad # {} PROVE FALSE
    OBVIOUS
<1>1. PICK T \in Bad : \A U \in Bad : U \subseteq T => U = T
    <2>1. Bad \subseteq SUBSET S
        OBVIOUS
    <2> HIDE DEF Bad
    <2> QED
        BY <2>1, SmallestSet
<1>2. T \in SUBSET S /\ IsFiniteSet(T)
    BY FS_Subset
<1>3. PICK y : y \in T
    <2>1. F({}) = 0 /\ Cardinality({}) = 0
        BY SumEmpty, FS_EmptySet
    <2> QED
        BY <2>1
<1> DEFINE R == T \ {y}
           n == Cardinality(R)
<1>4. R \in SUBSET S /\ R \notin Bad /\ IsFiniteSet(R)
    BY <1>1, <1>2, <1>3, FS_Subset
<1>5. F(R) = c * n
    BY <1>4
<1>6. F(T) = c + F(R)
    BY <1>2, <1>3, SumTake
<1>7. n \in Nat /\ Cardinality(T) \in Nat /\ n = Cardinality(T) - 1
    BY <1>2, <1>3, <1>4, FS_CardinalityType, FS_RemoveElement
<1>8. F(T) # c * Cardinality(T)
    OBVIOUS
<1> HIDE DEF F, n
<1>9. Cardinality(T) = n + 1
    BY <1>7
<1>10. c * (n + 1) = c + c * n
    BY <1>7
<1> QED
    BY <1>5, <1>6, <1>8, <1>9, <1>10
-----------------------------------------------------------------------------
(* The largest value.                                                      *)

\* Finitely many integers and one more have a largest one among them.
LEMMA LargestValue ==
    ASSUME NEW f, NEW a \in Int, NEW S, IsFiniteSet(S), \A x \in S : f[x] \in Int
    PROVE  \E z \in {a} \cup {f[x] : x \in S} : \A y \in {a} \cup {f[x] : x \in S} : z >= y
<1> DEFINE V(T) == {a} \cup {f[x] : x \in T}
           Good(T) == \E z \in V(T) : \A y \in V(T) : z >= y
           Bad == {T \in SUBSET S : ~Good(T)}
<1> SUFFICES ASSUME Bad # {} PROVE FALSE
    OBVIOUS
<1>1. PICK T \in Bad : \A U \in Bad : U \subseteq T => U = T
    <2>1. Bad \subseteq SUBSET S
        OBVIOUS
    <2> HIDE DEF Bad
    <2> QED
        BY <2>1, SmallestSet
<1>2. T \in SUBSET S /\ ~Good(T)
    OBVIOUS
<1>3. PICK w : w \in T
    <2>1. SUFFICES ASSUME T = {} PROVE FALSE
        OBVIOUS
    <2>2. V(T) = {a}
        BY <2>1
    <2>3. a >= a
        OBVIOUS
    <2> QED
        BY <1>2, <2>2, <2>3
<1> DEFINE R == T \ {w}
<1>4. R \in SUBSET S /\ R \notin Bad
    BY <1>1, <1>3
<1>5. PICK z \in V(R) : \A y \in V(R) : z >= y
    BY <1>4
<1>6. V(T) = V(R) \cup {f[w]} /\ f[w] \in Int
    BY <1>2, <1>3
<1>7. \A y \in V(T) : y \in Int
    BY <1>2
<1>8. z \in Int /\ z \in V(T) /\ f[w] \in V(T)
    BY <1>5, <1>6, <1>7
<1> HIDE DEF V, R
<1>9. CASE z >= f[w]
    BY <1>2, <1>5, <1>6, <1>8, <1>9
<1>10. CASE ~(z >= f[w])
    <2>1. \A y \in V(T) : f[w] >= y
        BY <1>5, <1>6, <1>7, <1>8, <1>10
    <2> QED
        BY <1>2, <1>8, <2>1
<1> QED
    BY <1>9, <1>10

\* Amounts added to some of the terms.
LEMMA SumAdd ==
    ASSUME NEW f, NEW d, NEW g, NEW S, IsFiniteSet(S), NEW T, T \subseteq S,
           \A x \in S : f[x] \in Int, \A x \in T : d[x] \in Int,
           \A x \in S : g[x] = IF x \in T THEN f[x] + d[x] ELSE f[x]
    PROVE  SumFunctionOnSet(g, S) = SumFunctionOnSet(f, S) + SumFunctionOnSet(d, T)
<1> DEFINE h == [x \in S |-> IF x \in T THEN d[x] ELSE 0]
<1>1. \A x \in S : h[x] \in Int /\ g[x] = f[x] + h[x]
    OBVIOUS
<1>2. \A x \in T : d[x] \in Int /\ h[x] = d[x]
    OBVIOUS
<1>3. \A x \in S \ T : h[x] = 0
    OBVIOUS
<1>4. IsFiniteSet(T) /\ IsFiniteSet(S \ T)
    BY FS_Subset
<1> HIDE DEF h
<1>5. SumFunctionOnSet(g, S) = SumFunctionOnSet(f, S) + SumFunctionOnSet(h, S)
    BY <1>1, SumPlus
<1>6. SumFunctionOnSet(h, S) = SumFunctionOnSet(h, T) + SumFunctionOnSet(h, S \ T)
    BY <1>1, SumSplit
<1>7. SumFunctionOnSet(h, S \ T) = 0
    BY <1>3, <1>4, SumZero
<1>8. SumFunctionOnSet(h, T) = SumFunctionOnSet(d, T)
    BY <1>2, <1>4, SumSame
<1>9. SumFunctionOnSet(h, T) \in Int
    BY <1>2, <1>4, SumInt
<1> DEFINE a == SumFunctionOnSet(h, T)
           b == SumFunctionOnSet(h, S \ T)
<1> HIDE DEF a, b
<1>10. a \in Int /\ b = 0
    BY <1>7, <1>9 DEF a, b
<1>11. a + b = a
    BY <1>10
<1> QED
    BY <1>5, <1>6, <1>8, <1>11 DEF a, b

-----------------------------------------------------------------------------
(* An amount n spread over the parts p of a whole, each share f rounded     *)
(* down: what is spread is never more than n, and lacks less than one for   *)
(* each part.                                                               *)

LEMMA SharesBelow ==
    ASSUME NEW L, IsFiniteSet(L), NEW p, NEW f, NEW n \in Nat,
           \A l \in L : p[l] \in Nat /\ f[l] \in Nat,
           SumFunctionOnSet(p, L) > 0,
           \A l \in L : SumFunctionOnSet(p, L) * f[l] <= n * p[l]
    PROVE  SumFunctionOnSet(f, L) <= n
<1> DEFINE w == SumFunctionOnSet(p, L)
           a == SumFunctionOnSet(f, L)
           wf == [l \in L |-> w * f[l]]
           np == [l \in L |-> n * p[l]]
<1>1. w \in Nat /\ a \in Nat
    BY SumNat
<1> HIDE DEF w, a
<1>2. \A l \in L : wf[l] \in Int /\ np[l] \in Int /\ wf[l] <= np[l]
    BY <1>1 DEF w
<1>3. \A l \in L : f[l] \in Int /\ wf[l] = w * f[l] /\ p[l] \in Int /\ np[l] = n * p[l]
    OBVIOUS
<1>4. w \in Int /\ n \in Int
    BY <1>1
<1> HIDE DEF wf, np
<1>5. SumFunctionOnSet(wf, L) <= SumFunctionOnSet(np, L)
    BY <1>2, SumBelow
<1>6. SumFunctionOnSet(wf, L) = w * a
    BY <1>3, <1>4, SumScale DEF a
<1>7. SumFunctionOnSet(np, L) = n * w
    BY <1>3, <1>4, SumScale DEF w
<1>8. w * a <= n * w /\ w > 0
    BY <1>5, <1>6, <1>7 DEF w
<1>9. a <= n
    <2> SUFFICES ASSUME a >= n + 1 PROVE FALSE
        BY <1>1
    <2>1. w * a >= w * (n + 1)
        BY <1>1, Z3
    <2>2. w * (n + 1) = n * w + w
        BY <1>1
    <2>3. w * a \in Nat /\ n * w \in Nat
        BY <1>1
    <2> QED
        BY <1>1, <1>8, <2>1, <2>2, <2>3
<1> QED
    BY <1>9 DEF a

LEMMA SharesAbove ==
    ASSUME NEW L, IsFiniteSet(L), L # {}, NEW p, NEW f, NEW n \in Nat,
           \A l \in L : p[l] \in Nat /\ f[l] \in Nat,
           SumFunctionOnSet(p, L) > 0,
           \A l \in L : n * p[l] < SumFunctionOnSet(p, L) * (f[l] + 1)
    PROVE  n - SumFunctionOnSet(f, L) < Cardinality(L)
<1> DEFINE w == SumFunctionOnSet(p, L)
           a == SumFunctionOnSet(f, L)
           c == Cardinality(L)
           r == [l \in L |-> w - 1]
           wf == [l \in L |-> w * f[l]]
           sum == [l \in L |-> w * f[l] + (w - 1)]
           np == [l \in L |-> n * p[l]]
<1>1. w \in Nat /\ a \in Nat
    BY SumNat
<1>2. c \in Nat /\ c > 0
    BY FS_CardinalityType, FS_EmptySet
<1> HIDE DEF w, a, c
<1>3. w \in Int /\ n \in Int /\ w - 1 \in Int /\ w > 0
    BY <1>1 DEF w
<1>4. ASSUME NEW l \in L
      PROVE  /\ wf[l] \in Int /\ np[l] \in Int /\ r[l] \in Int
             /\ sum[l] = wf[l] + r[l] /\ sum[l] \in Int /\ np[l] <= sum[l]
    <2>1. n * p[l] \in Int /\ w * f[l] \in Int
        BY <1>1
    <2>2. n * p[l] < w * (f[l] + 1)
        BY DEF w
    <2>3. w * (f[l] + 1) = w * f[l] + w
        BY <1>1
    <2> QED
        BY <1>1, <2>1, <2>2, <2>3
<1>5. \A l \in L : f[l] \in Int /\ wf[l] = w * f[l] /\ p[l] \in Int /\ np[l] = n * p[l]
    OBVIOUS
<1>6. \A l \in L : r[l] = w - 1
    OBVIOUS
<1> HIDE DEF wf, np, r, sum
<1>7. SumFunctionOnSet(np, L) <= SumFunctionOnSet(sum, L)
    BY <1>4, SumBelow
<1>8. SumFunctionOnSet(sum, L) = SumFunctionOnSet(wf, L) + SumFunctionOnSet(r, L)
    BY <1>4, SumPlus
<1>9. SumFunctionOnSet(wf, L) = w * a
    BY <1>3, <1>5, SumScale DEF a
<1>10. SumFunctionOnSet(np, L) = n * w
    BY <1>3, <1>5, SumScale DEF w
<1>11. SumFunctionOnSet(r, L) = (w - 1) * c
    BY <1>3, <1>6, SumConstant DEF c
<1>12. n * w <= w * a + (w - 1) * c
    BY <1>7, <1>8, <1>9, <1>10, <1>11
<1>13. n - a < c
    <2> SUFFICES ASSUME n >= a + c PROVE FALSE
        BY <1>1, <1>2
    <2>1. w * n >= w * (a + c)
        BY <1>1, <1>2, Z3
    <2>2. /\ w * (a + c) = w * a + w * c /\ (w - 1) * c = w * c - c /\ n * w = w * n
          /\ w * a \in Nat /\ w * c \in Nat /\ w * n \in Nat
        BY <1>1, <1>2
    <2> QED
        BY <1>1, <1>2, <1>12, <2>1, <2>2
<1> QED
    BY <1>13 DEF a, c

\* A set of natural numbers has a least one.
LEMMA LeastNumber == ASSUME NEW S, S \subseteq Nat, S # {} PROVE \E x \in S : \A y \in S : x <= y
<1> DEFINE R == {ss \in Nat \X Nat : ss[1] < ss[2]}
<1>1. IsWellFoundedOn(R, Nat)
    BY NatLessThanWellFounded DEF OpToRel
<1>2. \A x, y \in Nat : <<y, x>> \in R <=> y < x
    OBVIOUS
<1> HIDE DEF R
<1>3. PICK x \in S : \A y \in S : <<y, x>> \notin R
    BY <1>1, WFMin
<1>4. \A y \in S : x <= y
    <2> TAKE y \in S
    <2>1. x \in Nat /\ y \in Nat
        OBVIOUS
    <2>2. ~(y < x)
        BY <1>2, <1>3, <2>1
    <2> QED
        BY <2>1, <2>2
<1> QED
    BY <1>4

-----------------------------------------------------------------------------
(* Sums of sums.                                                            *)

\* A sum over an image, as a sum over what it is the image of.
LEMMA SumImage ==
    ASSUME NEW T, IsFiniteSet(T), NEW h, \A x, y \in T : h[x] = h[y] => x = y,
           NEW f, NEW g, \A x \in T : f[h[x]] \in Int /\ g[x] = f[h[x]]
    PROVE  /\ IsFiniteSet({h[x] : x \in T})
           /\ SumFunctionOnSet(f, {h[x] : x \in T}) = SumFunctionOnSet(g, T)
<1> DEFINE Image(U) == {h[x] : x \in U}
           F(U) == SumFunctionOnSet(f, Image(U))
           G(U) == SumFunctionOnSet(g, U)
           Good(U) == IsFiniteSet(Image(U)) /\ F(U) = G(U)
           Bad == {U \in SUBSET T : ~Good(U)}
<1> SUFFICES ASSUME Bad # {} PROVE FALSE
    OBVIOUS
<1>1. PICK U \in Bad : \A V \in Bad : V \subseteq U => V = U
    <2>1. Bad \subseteq SUBSET T
        OBVIOUS
    <2> HIDE DEF Bad
    <2> QED
        BY <2>1, SmallestSet
<1>2. U \in SUBSET T /\ IsFiniteSet(U)
    BY FS_Subset
<1>3. PICK y : y \in U
    <2>1. Image({}) = {}
        OBVIOUS
    <2>2. IsFiniteSet(Image({})) /\ F({}) = 0 /\ G({}) = 0
        BY <2>1, SumEmpty, FS_EmptySet
    <2>3. Good({})
        <3> HIDE DEF F, G, Image
        <3> QED
            BY <2>2
    <2> HIDE DEF Good
    <2> QED
        BY <2>3
<1> DEFINE R == U \ {y}
<1>4. R \in SUBSET T /\ R \notin Bad /\ IsFiniteSet(R)
    BY <1>1, <1>2, <1>3, FS_Subset
<1>5. IsFiniteSet(Image(R)) /\ F(R) = G(R)
    BY <1>4
<1>6. Image(U) = Image(R) \cup {h[y]} /\ Image(U) \ {h[y]} = Image(R) /\ h[y] \in Image(U)
    BY <1>2, <1>3
<1> DEFINE V == Image(U)
           W == Image(R)
           z == h[y]
<1>7. IsFiniteSet(V)
    <2>1. IsFiniteSet(W) /\ V = W \cup {z}
        BY <1>5, <1>6
    <2> HIDE DEF V, W, z
    <2> QED
        BY <2>1, FS_AddElement
<1>8. \A x \in V : f[x] \in Int
    BY <1>2
<1>9. \A x \in U : g[x] \in Int /\ g[y] = f[h[y]]
    BY <1>2, <1>3
<1>10. F(U) = f[h[y]] + F(R)
    <2>1. z \in V /\ V \ {z} = W
        BY <1>6
    <2> HIDE DEF V, W, z
    <2>2. SumFunctionOnSet(f, V) = f[z] + SumFunctionOnSet(f, W)
        BY <1>7, <1>8, <2>1, SumTake
    <2> QED
        BY <2>2 DEF V, W, z
<1>11. G(U) = g[y] + G(R)
    BY <1>2, <1>3, <1>9, SumTake
<1>12. F(U) = G(U)
    BY <1>3, <1>5, <1>9, <1>10, <1>11
<1> HIDE DEF F, G, Image
<1> QED
    BY <1>7, <1>12

\* Disjoint parts X, on which f has the sums s.
Parts(I, X, f, s) ==
    /\ \A i \in I : IsFiniteSet(X[i])
    /\ \A i, j \in I : i # j => X[i] \cap X[j] = {}
    /\ \A i \in I : \A x \in X[i] : f[x] \in Int
    /\ \A i \in I : s[i] = SumFunctionOnSet(f, X[i])

\* A sum over disjoint parts.
LEMMA SumUnion ==
    ASSUME NEW I, IsFiniteSet(I), NEW X, NEW f, NEW s, Parts(I, X, f, s)
    PROVE  /\ IsFiniteSet(UNION {X[i] : i \in I})
           /\ SumFunctionOnSet(f, UNION {X[i] : i \in I}) = SumFunctionOnSet(s, I)
<1> USE DEF Parts
<1> DEFINE All(U) == UNION {X[i] : i \in U}
           F(U) == SumFunctionOnSet(f, All(U))
           G(U) == SumFunctionOnSet(s, U)
           Good(U) == IsFiniteSet(All(U)) /\ F(U) = G(U)
           Bad == {U \in SUBSET I : ~Good(U)}
<1> SUFFICES ASSUME Bad # {} PROVE FALSE
    OBVIOUS
<1>1. PICK U \in Bad : \A V \in Bad : V \subseteq U => V = U
    <2>1. Bad \subseteq SUBSET I
        OBVIOUS
    <2> HIDE DEF Bad
    <2> QED
        BY <2>1, SmallestSet
<1>2. U \in SUBSET I /\ IsFiniteSet(U)
    BY FS_Subset
<1>3. PICK y : y \in U
    <2>1. All({}) = {}
        OBVIOUS
    <2>2. IsFiniteSet(All({})) /\ F({}) = 0 /\ G({}) = 0
        BY <2>1, SumEmpty, FS_EmptySet
    <2>3. Good({})
        <3> HIDE DEF F, G, All
        <3> QED
            BY <2>2
    <2> HIDE DEF Good
    <2> QED
        BY <2>3
<1> DEFINE R == U \ {y}
<1>4. R \in SUBSET I /\ R \notin Bad /\ IsFiniteSet(R)
    <2>1. R \subseteq U /\ R # U /\ IsFiniteSet(R) /\ R \in SUBSET I
        BY <1>2, <1>3, FS_Subset
    <2> HIDE DEF Bad, R
    <2> QED
        BY <1>1, <2>1
<1>5. IsFiniteSet(All(R)) /\ F(R) = G(R)
    BY <1>4
<1>6. All(U) = All(R) \cup X[y] /\ All(U) \ X[y] = All(R) /\ X[y] \subseteq All(U)
    BY <1>2, <1>3
<1> DEFINE V == All(U)
           W == All(R)
           Y == X[y]
<1>7. IsFiniteSet(V)
    <2>1. IsFiniteSet(W) /\ IsFiniteSet(Y) /\ V = W \cup Y
        BY <1>2, <1>3, <1>5, <1>6
    <2> HIDE DEF V, W, Y
    <2> QED
        BY <2>1, FS_Union
<1>8. \A x \in V : f[x] \in Int
    BY <1>2
<1>9. \A i \in U : s[i] \in Int
    BY <1>2, SumInt
<1>10. F(U) = SumFunctionOnSet(f, X[y]) + F(R)
    <2>1. Y \subseteq V /\ V \ Y = W
        BY <1>6
    <2> HIDE DEF V, W, Y
    <2>2. SumFunctionOnSet(f, V) = SumFunctionOnSet(f, Y) + SumFunctionOnSet(f, W)
        BY <1>7, <1>8, <2>1, SumSplit
    <2> QED
        BY <2>2 DEF V, W, Y
<1>11. G(U) = s[y] + G(R)
    BY <1>2, <1>3, <1>9, SumTake
<1>12. F(U) = G(U)
    BY <1>2, <1>3, <1>5, <1>10, <1>11
<1> HIDE DEF F, G, All
<1> QED
    BY <1>7, <1>12

\* The rows of the table m, with the totals r, and its columns k, with c.
Table(A, L, m, r, k, c) ==
    /\ \A a \in A, l \in L : m[a][l] \in Int /\ k[l][a] = m[a][l]
    /\ \A a \in A : r[a] = SumFunctionOnSet(m[a], L)
    /\ \A l \in L : c[l] = SumFunctionOnSet(k[l], A)

\* A table adds up to the same by its rows and by its columns.
LEMMA SumSwap ==
    ASSUME NEW A, IsFiniteSet(A), NEW L, IsFiniteSet(L), NEW m, NEW r, NEW k, NEW c,
           Table(A, L, m, r, k, c)
    PROVE  SumFunctionOnSet(r, A) = SumFunctionOnSet(c, L)
<1> USE DEF Table
<1> DEFINE C(U) == [l \in L |-> SumFunctionOnSet(k[l], U)]
           F(U) == SumFunctionOnSet(r, U)
           G(U) == SumFunctionOnSet(C(U), L)
           Bad == {U \in SUBSET A : F(U) # G(U)}
<1>1. \A U \in SUBSET A : \A l \in L : C(U)[l] \in Int /\ C(U)[l] = SumFunctionOnSet(k[l], U)
    BY SumInt, FS_Subset
<1>2. Bad = {}
    <2> SUFFICES ASSUME Bad # {} PROVE FALSE
        OBVIOUS
    <2>1. PICK U \in Bad : \A V \in Bad : V \subseteq U => V = U
        <3>1. Bad \subseteq SUBSET A
            OBVIOUS
        <3> HIDE DEF Bad
        <3> QED
            BY <3>1, SmallestSet
    <2>2. U \in SUBSET A /\ IsFiniteSet(U)
        BY FS_Subset
    <2>3. PICK y : y \in U
        <3>1. \A l \in L : C({})[l] = 0
            BY SumEmpty
        <3>2. F({}) = 0 /\ G({}) = 0
            <4> HIDE DEF C
            <4> QED
                BY <3>1, SumEmpty, SumZero
        <3>3. F({}) = G({})
            <4> HIDE DEF F, G
            <4> QED
                BY <3>2
        <3> HIDE DEF F, G
        <3> QED
            BY <3>3
    <2> DEFINE R == U \ {y}
    <2>4. R \in SUBSET A /\ R \notin Bad /\ IsFiniteSet(R)
        BY <2>1, <2>2, <2>3, FS_Subset
    <2>5. F(R) = G(R)
        BY <2>4
    <2>6. \A a \in U : r[a] \in Int
        BY <2>2, SumInt
    <2>7. F(U) = r[y] + F(R)
        BY <2>2, <2>3, <2>6, SumTake
    <2>8. \A l \in L : C(U)[l] = m[y][l] + C(R)[l] /\ m[y][l] \in Int /\ C(R)[l] \in Int
        <3> SUFFICES ASSUME NEW l \in L
                     PROVE  C(U)[l] = m[y][l] + C(R)[l] /\ m[y][l] \in Int /\ C(R)[l] \in Int
            OBVIOUS
        <3>1. \A a \in U : k[l][a] \in Int
            BY <2>2
        <3>2. SumFunctionOnSet(k[l], U) = k[l][y] + SumFunctionOnSet(k[l], R)
            BY <2>2, <2>3, <3>1, SumTake
        <3>3. k[l][y] = m[y][l] /\ m[y][l] \in Int
            BY <2>2, <2>3
        <3> HIDE DEF C
        <3> QED
            BY <1>1, <2>2, <2>4, <3>2, <3>3
    <2>9. G(U) = SumFunctionOnSet(m[y], L) + G(R)
        <3> DEFINE p == C(U)
                   q == C(R)
                   row == m[y]
        <3>1. \A l \in L : row[l] \in Int /\ q[l] \in Int /\ p[l] = row[l] + q[l]
            BY <2>8
        <3> HIDE DEF p, q, row
        <3>2. SumFunctionOnSet(p, L) = SumFunctionOnSet(row, L) + SumFunctionOnSet(q, L)
            BY <3>1, SumPlus
        <3> QED
            BY <3>2 DEF p, q, row
    <2>10. F(U) = G(U)
        <3>1. r[y] = SumFunctionOnSet(m[y], L)
            BY <2>2, <2>3
        <3> HIDE DEF F, G
        <3> QED
            BY <2>5, <2>7, <2>9, <3>1
    <2> HIDE DEF F, G
    <2> QED
        BY <2>10
<1>3. F(A) = G(A)
    <2> HIDE DEF F, G
    <2> QED
        BY <1>2
<1>4. G(A) = SumFunctionOnSet(c, L)
    <2>1. \A l \in L : C(A)[l] \in Int /\ c[l] = C(A)[l]
        BY <1>1
    <2> HIDE DEF C
    <2> QED
        BY <2>1, SumSame
<1> HIDE DEF G
<1> QED
    BY <1>3, <1>4

LEMMA SumOne ==
    ASSUME NEW f, NEW y, f[y] \in Int
    PROVE  SumFunctionOnSet(f, {y}) = f[y]
<1>1. SumFunctionOnSet(f, {y}) = f[y] + SumFunctionOnSet(f, {y} \ {y})
    BY SumTake, FS_Singleton
<1>2. {y} \ {y} = {}
    OBVIOUS
<1> QED
    BY <1>1, <1>2, SumEmpty
=============================================================================
