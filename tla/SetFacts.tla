------------------------------- MODULE SetFacts -------------------------------
(* Facts about finite sets of numbers, and about the sums of what a function *)
(* has at their elements, that the proofs of several components cite.        *)
(* Induction over a finite set is by the well-foundedness of strict          *)
(* inclusion among its subsets.                                              *)
EXTENDS Integers, FiniteSets, Functions, FiniteSetTheorems, WellFoundedInduction, TLAPS

\* A set of numbers that is finite and not empty has a greatest one.
LEMMA Greatest ==
    ASSUME NEW S \in SUBSET Nat, IsFiniteSet(S), S # {}
    PROVE  \E m \in S : \A x \in S : x <= m
<1> DEFINE Above(x) == {y \in S : y > x}
           R == StrictSubsetOrdering(S)
           T == {Above(x) : x \in S}
<1>1. IsWellFoundedOn(R, SUBSET S)
    BY FS_StrictSubsetOrderingWellFounded, FS_FiniteSubsetsOfFinite, Zenon
<1>2. T \subseteq SUBSET S /\ T # {}
    OBVIOUS
<1> HIDE DEF R, T
<1>3. PICK A \in T : \A B \in T : ~(<<B, A>> \in R)
    BY <1>1, <1>2, WFMin, Zenon
<1>4. PICK m \in S : A = Above(m)
    BY DEF T
<1>5. ASSUME NEW x \in S, x > m PROVE FALSE
    <2>1. Above(x) \in T /\ Above(x) \in SUBSET S /\ A \in SUBSET S
        BY <1>2 DEF T
    <2>2. x \in A /\ x \notin Above(x)
        BY <1>4, <1>5
    <2>3. \A y \in S : y > x => y > m
        BY <1>5
    <2>4. Above(x) \subseteq A
        BY <1>4, <2>3
    <2> QED BY <1>3, <2>1, <2>2, <2>4 DEF R, StrictSubsetOrdering
<1> QED BY <1>5

-----------------------------------------------------------------------------
(* Sums                                                                     *)

\* A family of subsets of a finite set has one that contains no other.
LEMMA LeastSubset ==
    ASSUME NEW S, IsFiniteSet(S), NEW F \in SUBSET (SUBSET S), F # {}
    PROVE  \E A \in F : \A B \in SUBSET A : B \in F => B = A
<1> DEFINE R == StrictSubsetOrdering(S)
<1>1. IsWellFoundedOn(R, SUBSET S)
    BY FS_StrictSubsetOrderingWellFounded, FS_FiniteSubsetsOfFinite, Zenon
<1> HIDE DEF R
<1>2. PICK A \in F : \A B \in F : ~(<<B, A>> \in R)
    BY <1>1, WFMin, Zenon
<1>3. ASSUME NEW B \in SUBSET A, B \in F, B # A PROVE FALSE
    <2>1. A \in SUBSET S /\ B \in SUBSET S
        OBVIOUS
    <2> QED BY <1>2, <1>3, <2>1 DEF R, StrictSubsetOrdering
<1> QED BY <1>3

\* The element that a sum over a set takes first.
First(s) == CHOOSE x \in s : TRUE

\* g is the sum of f over every subset of T, taken element by element.
Adds(f, T, g) ==
    g = [s \in SUBSET T |-> IF s = {} THEN 0 ELSE f[First(s)] + g[s \ {First(s)}]]

\* What SumFunctionOnSet chooses.
LEMMA SumChooses ==
    ASSUME NEW f, NEW S
    PROVE  SumFunctionOnSet(f, S) = (CHOOSE g : Adds(f, S, g))[S]
BY DEF SumFunctionOnSet, FoldFunctionOnSet, MapThenFoldSet, Adds, First

\* What such a function has at a set.
LEMMA AddsAt ==
    ASSUME NEW f, NEW T, NEW g, Adds(f, T, g)
    PROVE  /\ \A s \in SUBSET T : s = {} => g[s] = 0
           /\ \A s \in SUBSET T : s # {} => g[s] = f[First(s)] + g[s \ {First(s)}]
<1> DEFINE at(s) == IF s = {} THEN 0 ELSE f[First(s)] + g[s \ {First(s)}]
<1>1. g = [s \in SUBSET T |-> at(s)]
    BY DEF Adds
<1> HIDE DEF at
<1>2. \A s \in SUBSET T : g[s] = at(s)
    BY <1>1
<1> QED BY <1>2 DEF at

\* Two such functions agree on every set they both have.
LEMMA AddsAgree ==
    ASSUME NEW f, NEW S, NEW T, IsFiniteSet(S), NEW g, NEW h, Adds(f, S, g), Adds(f, T, h)
    PROVE  \A U \in SUBSET S : U \subseteq T => g[U] = h[U]
<1> DEFINE F == {U \in SUBSET S : U \subseteq T /\ g[U] # h[U]}
<1>0. F \in SUBSET (SUBSET S)
    OBVIOUS
<1>1. ASSUME F # {} PROVE FALSE
    <2>1. PICK A \in F : \A B \in SUBSET A : B \in F => B = A
        <3> HIDE DEF F
        <3> QED BY <1>0, <1>1, LeastSubset
    <2>2. A \in SUBSET S /\ A \in SUBSET T /\ A # {}
        BY AddsAt
    <2>3. First(A) \in A
        BY <2>2 DEF First
    <2> DEFINE B == A \ {First(A)}
    <2>4. g[B] = h[B]
        BY <2>1, <2>3
    <2>5. g[A] = f[First(A)] + g[B] /\ h[A] = f[First(A)] + h[B]
        BY <2>2, AddsAt
    <2> QED BY <2>4, <2>5
<1> QED BY <1>1

\* Over a finite set there is one.
LEMMA AddsExists ==
    ASSUME NEW f, NEW S, IsFiniteSet(S)
    PROVE  \E g : Adds(f, S, g)
<1> DEFINE F == {T \in SUBSET S : ~ \E g : Adds(f, T, g)}
<1>0. F \in SUBSET (SUBSET S)
    OBVIOUS
<1>1. ASSUME F # {} PROVE FALSE
    <2>1. PICK A \in F : \A B \in SUBSET A : B \in F => B = A
        <3> HIDE DEF F
        <3> QED BY <1>0, <1>1, LeastSubset
    <2> DEFINE G(u) == CHOOSE g : Adds(f, u, g)
               sum(u) == IF u = {} THEN 0 ELSE f[First(u)] + G(u \ {First(u)})[u \ {First(u)}]
               g == [u \in SUBSET A |-> sum(u)]
    <2>2. \A u \in SUBSET A : u # A => Adds(f, u, G(u)) /\ IsFiniteSet(u)
        <3>1. \A u \in SUBSET A : u # A => \E k : Adds(f, u, k)
            BY <2>1
        <3>2. \A u \in SUBSET A : IsFiniteSet(u)
            BY FS_Subset, Zenon
        <3> QED BY <3>1, <3>2
    <2> HIDE DEF G
    <2>3. ASSUME NEW u \in SUBSET A, u # A PROVE G(u)[u] = sum(u)
        <3>1. CASE u = {}
            <4>1. PICK k : k = G(u)
                OBVIOUS
            <4>2. Adds(f, u, k) /\ u \in SUBSET u
                BY <2>2, <2>3, <4>1
            <4>3. k[u] = 0
                BY <3>1, <4>2, AddsAt
            <4> QED BY <3>1, <4>1, <4>3
        <3>2. CASE u # {}
            <4> DEFINE v == u \ {First(u)}
            <4>1. First(u) \in u
                BY <3>2 DEF First
            <4>2. v \in SUBSET A /\ v # A /\ v \subseteq u
                BY <2>3, <4>1
            <4>3. G(u)[u] = f[First(u)] + G(u)[v]
                BY <2>2, <2>3, <3>2, AddsAt
            <4>4. G(u)[v] = G(v)[v]
                <5>1. Adds(f, u, G(u)) /\ Adds(f, v, G(v)) /\ IsFiniteSet(v)
                    BY <2>2, <2>3, <4>2
                <5> HIDE DEF v
                <5> QED BY <4>2, <5>1, AddsAgree
            <4> QED BY <3>2, <4>3, <4>4
        <3> QED BY <3>1, <3>2
    <2>4. ASSUME NEW s \in SUBSET A
          PROVE  sum(s) = IF s = {} THEN 0 ELSE f[First(s)] + g[s \ {First(s)}]
        <3>1. CASE s = {}
            BY <3>1
        <3>2. CASE s # {}
            <4>1. First(s) \in s
                BY <3>2 DEF First
            <4>2. PICK v : v = s \ {First(s)}
                OBVIOUS
            <4>3. v \in SUBSET A /\ v # A
                BY <4>1, <4>2
            <4>4. g[v] = G(v)[v]
                BY <2>3, <4>3
            <4>5. sum(s) = f[First(s)] + G(v)[v]
                BY <3>2, <4>2
            <4> HIDE DEF sum, g
            <4> QED BY <3>2, <4>2, <4>4, <4>5
        <3> QED BY <3>1, <3>2
    <2> HIDE DEF sum
    <2>5. Adds(f, A, g)
        <3>1. g = [s \in SUBSET A |-> IF s = {} THEN 0 ELSE f[First(s)] + g[s \ {First(s)}]]
            BY <2>4
        <3> HIDE DEF g
        <3> QED BY <3>1 DEF Adds
    <2> QED BY <2>1, <2>5
<1> QED BY <1>1

\* The sum over a set is that of the element it takes first and of the rest.
LEMMA SumFirst ==
    ASSUME NEW f, NEW S, IsFiniteSet(S)
    PROVE  SumFunctionOnSet(f, S) =
               IF S = {} THEN 0 ELSE f[First(S)] + SumFunctionOnSet(f, S \ {First(S)})
<1>1. PICK g : g = CHOOSE k : Adds(f, S, k)
    OBVIOUS
<1>2. Adds(f, S, g) /\ SumFunctionOnSet(f, S) = g[S]
    BY <1>1, AddsExists, SumChooses
<1>3. /\ S = {} => g[S] = 0
      /\ S # {} => g[S] = f[First(S)] + g[S \ {First(S)}]
    BY <1>2, AddsAt
<1>4. PICK T : T = S \ {First(S)}
    OBVIOUS
<1>5. T \subseteq S /\ IsFiniteSet(T)
    <2>1. T \subseteq S
        BY <1>4
    <2> QED BY <2>1, FS_Subset, Zenon
<1>6. PICK h : h = CHOOSE k : Adds(f, T, k)
    OBVIOUS
<1>7. Adds(f, T, h) /\ SumFunctionOnSet(f, T) = h[T]
    BY <1>5, <1>6, AddsExists, SumChooses
<1>8. h[T] = g[T]
    <2>1. \A U \in SUBSET S : U \subseteq T => g[U] = h[U]
        BY <1>2, <1>7, AddsAgree
    <2> QED BY <1>5, <2>1
<1> QED BY <1>2, <1>3, <1>4, <1>7, <1>8

\* Over no element it is 0; over some, the first one's and that of the rest.
LEMMA SumSteps ==
    ASSUME NEW f, NEW S, IsFiniteSet(S), NEW U \in SUBSET S
    PROVE  /\ U = {} => SumFunctionOnSet(f, U) = 0
           /\ U # {} => /\ First(U) \in U
                        /\ SumFunctionOnSet(f, U) = f[First(U)] + SumFunctionOnSet(f, U \ {First(U)})
<1>1. IsFiniteSet(U)
    BY FS_Subset, Zenon
<1>2. U # {} => First(U) \in U
    BY DEF First
<1> QED BY <1>1, <1>2, SumFirst

LEMMA SumEmpty == \A f : SumFunctionOnSet(f, {}) = 0
BY FS_EmptySet, SumFirst

\* A sum of integers is one, and of naturals is one.
LEMMA SumInt ==
    ASSUME NEW f, NEW S, IsFiniteSet(S), \A x \in S : f[x] \in Int
    PROVE  \A U \in SUBSET S : SumFunctionOnSet(f, U) \in Int
<1> DEFINE F == {U \in SUBSET S : SumFunctionOnSet(f, U) \notin Int}
<1>0. F \in SUBSET (SUBSET S)
    OBVIOUS
<1>1. ASSUME F # {} PROVE FALSE
    <2>1. PICK A \in F : \A B \in SUBSET A : B \in F => B = A
        <3> HIDE DEF F
        <3> QED BY <1>0, <1>1, LeastSubset
    <2>2. A \in SUBSET S /\ A # {}
        BY SumEmpty
    <2>3. First(A) \in A /\ SumFunctionOnSet(f, A) = f[First(A)] + SumFunctionOnSet(f, A \ {First(A)})
        BY <2>2, SumSteps
    <2>4. SumFunctionOnSet(f, A \ {First(A)}) \in Int
        BY <2>1, <2>2, <2>3
    <2>5. f[First(A)] \in Int
        BY <2>2, <2>3
    <2> QED BY <2>3, <2>4, <2>5
<1> QED BY <1>1

LEMMA SumNat ==
    ASSUME NEW f, NEW S, IsFiniteSet(S), \A x \in S : f[x] \in Nat
    PROVE  \A U \in SUBSET S : SumFunctionOnSet(f, U) \in Nat
<1> DEFINE F == {U \in SUBSET S : SumFunctionOnSet(f, U) \notin Nat}
<1>0. F \in SUBSET (SUBSET S)
    OBVIOUS
<1>1. ASSUME F # {} PROVE FALSE
    <2>1. PICK A \in F : \A B \in SUBSET A : B \in F => B = A
        <3> HIDE DEF F
        <3> QED BY <1>0, <1>1, LeastSubset
    <2>2. A \in SUBSET S /\ A # {}
        BY SumEmpty
    <2>3. First(A) \in A /\ SumFunctionOnSet(f, A) = f[First(A)] + SumFunctionOnSet(f, A \ {First(A)})
        BY <2>2, SumSteps
    <2>4. SumFunctionOnSet(f, A \ {First(A)}) \in Nat
        BY <2>1, <2>2, <2>3
    <2>5. f[First(A)] \in Nat
        BY <2>2, <2>3
    <2> QED BY <2>3, <2>4, <2>5
<1> QED BY <1>1

\* Any element can be taken out first.
LEMMA SumRemove ==
    ASSUME NEW f, NEW S, IsFiniteSet(S), \A x \in S : f[x] \in Int
    PROVE  \A x \in S : SumFunctionOnSet(f, S) = f[x] + SumFunctionOnSet(f, S \ {x})
<1> DEFINE Apart(U) == \A x \in U : SumFunctionOnSet(f, U) = f[x] + SumFunctionOnSet(f, U \ {x})
           F == {U \in SUBSET S : ~ Apart(U)}
<1>0. F \in SUBSET (SUBSET S)
    OBVIOUS
<1>1. ASSUME F # {} PROVE FALSE
    <2>1. PICK A \in F : \A B \in SUBSET A : B \in F => B = A
        <3> HIDE DEF F
        <3> QED BY <1>0, <1>1, LeastSubset
    <2>2. PICK x \in A : SumFunctionOnSet(f, A) # f[x] + SumFunctionOnSet(f, A \ {x})
        OBVIOUS
    <2>3. PICK c : c = First(A)
        OBVIOUS
    <2>4. A \in SUBSET S /\ c \in A /\ SumFunctionOnSet(f, A) = f[c] + SumFunctionOnSet(f, A \ {c})
        BY <2>2, <2>3, SumSteps
    <2>5. x # c
        BY <2>2, <2>4
    <2>6. Apart(A \ {c}) /\ Apart(A \ {x})
        BY <2>1, <2>2, <2>4
    <2>7. PICK B : B = (A \ {c}) \ {x}
        OBVIOUS
    <2>8. SumFunctionOnSet(f, A \ {c}) = f[x] + SumFunctionOnSet(f, B)
        BY <2>2, <2>5, <2>6, <2>7
    <2>9. SumFunctionOnSet(f, A \ {x}) = f[c] + SumFunctionOnSet(f, B)
        <3>1. B = (A \ {x}) \ {c}
            BY <2>7
        <3> QED BY <2>4, <2>5, <2>6, <3>1
    <2>10. B \in SUBSET S
        BY <2>4, <2>7
    <2>11. SumFunctionOnSet(f, B) \in Int
        BY <2>10, SumInt
    <2>12. f[x] \in Int /\ f[c] \in Int
        BY <2>2, <2>4
    <2> HIDE DEF F, Apart
    <2> QED BY <2>2, <2>4, <2>8, <2>9, <2>11, <2>12
<1>2. Apart(S)
    BY <1>1
<1> QED BY <1>2

\* The sums of two functions that agree on the set are equal.
LEMMA SumAgrees ==
    ASSUME NEW f, NEW h, NEW S, IsFiniteSet(S), \A x \in S : f[x] = h[x]
    PROVE  SumFunctionOnSet(f, S) = SumFunctionOnSet(h, S)
<1> DEFINE F == {U \in SUBSET S : SumFunctionOnSet(f, U) # SumFunctionOnSet(h, U)}
<1>0. F \in SUBSET (SUBSET S)
    OBVIOUS
<1>1. ASSUME F # {} PROVE FALSE
    <2>1. PICK A \in F : \A B \in SUBSET A : B \in F => B = A
        <3> HIDE DEF F
        <3> QED BY <1>0, <1>1, LeastSubset
    <2>2. A \in SUBSET S /\ A # {}
        BY SumEmpty
    <2>3. /\ First(A) \in A
          /\ SumFunctionOnSet(f, A) = f[First(A)] + SumFunctionOnSet(f, A \ {First(A)})
          /\ SumFunctionOnSet(h, A) = h[First(A)] + SumFunctionOnSet(h, A \ {First(A)})
        BY <2>2, SumSteps
    <2>4. SumFunctionOnSet(f, A \ {First(A)}) = SumFunctionOnSet(h, A \ {First(A)})
        BY <2>1, <2>2, <2>3
    <2>5. f[First(A)] = h[First(A)]
        BY <2>2, <2>3
    <2> QED BY <2>3, <2>4, <2>5
<1>2. S \notin F
    BY <1>1
<1> QED BY <1>2

\* A sum is no more than that of a function that is nowhere less.
LEMMA SumAtMost ==
    ASSUME NEW f, NEW h, NEW S, IsFiniteSet(S),
           \A x \in S : f[x] \in Int /\ h[x] \in Int /\ f[x] <= h[x]
    PROVE  SumFunctionOnSet(f, S) <= SumFunctionOnSet(h, S)
<1> DEFINE F == {U \in SUBSET S : ~ (SumFunctionOnSet(f, U) <= SumFunctionOnSet(h, U))}
<1>0. F \in SUBSET (SUBSET S)
    OBVIOUS
<1>1. ASSUME F # {} PROVE FALSE
    <2>1. PICK A \in F : \A B \in SUBSET A : B \in F => B = A
        <3> HIDE DEF F
        <3> QED BY <1>0, <1>1, LeastSubset
    <2>2. A \in SUBSET S /\ A # {}
        BY SumEmpty
    <2>3. /\ First(A) \in A
          /\ SumFunctionOnSet(f, A) = f[First(A)] + SumFunctionOnSet(f, A \ {First(A)})
          /\ SumFunctionOnSet(h, A) = h[First(A)] + SumFunctionOnSet(h, A \ {First(A)})
        BY <2>2, SumSteps
    <2>4. PICK B : B = A \ {First(A)}
        OBVIOUS
    <2>5. SumFunctionOnSet(f, B) <= SumFunctionOnSet(h, B)
        BY <2>1, <2>2, <2>3, <2>4
    <2>6. B \in SUBSET S /\ First(A) \in S
        BY <2>2, <2>3, <2>4
    <2>7. SumFunctionOnSet(f, B) \in Int /\ SumFunctionOnSet(h, B) \in Int
        BY <2>6, SumInt
    <2>8. f[First(A)] \in Int /\ h[First(A)] \in Int /\ f[First(A)] <= h[First(A)]
        BY <2>6
    <2>9. SumFunctionOnSet(f, A) <= SumFunctionOnSet(h, A)
        BY <2>3, <2>4, <2>5, <2>7, <2>8
    <2> QED BY <2>9
<1>2. S \notin F
    BY <1>1
<1> QED BY <1>2

\* Where one element changes, the sum changes by as much.
LEMMA SumChange ==
    ASSUME NEW f, NEW h, NEW S, IsFiniteSet(S), NEW x \in S,
           \A y \in S : f[y] \in Int /\ h[y] \in Int, \A y \in S \ {x} : f[y] = h[y]
    PROVE  SumFunctionOnSet(h, S) = SumFunctionOnSet(f, S) - f[x] + h[x]
<1>1. SumFunctionOnSet(f, S) = f[x] + SumFunctionOnSet(f, S \ {x})
    BY SumRemove
<1>2. SumFunctionOnSet(h, S) = h[x] + SumFunctionOnSet(h, S \ {x})
    BY SumRemove
<1>3. IsFiniteSet(S \ {x})
    BY FS_RemoveElement, Zenon
<1>4. SumFunctionOnSet(f, S \ {x}) = SumFunctionOnSet(h, S \ {x})
    BY <1>3, SumAgrees
<1>5. SumFunctionOnSet(f, S \ {x}) \in Int
    BY SumInt
<1> QED BY <1>1, <1>2, <1>4, <1>5

\* With one more element, the sum has its value more.
LEMMA SumOneMore ==
    ASSUME NEW f, NEW S, IsFiniteSet(S), NEW x, x \notin S, \A y \in S \cup {x} : f[y] \in Int
    PROVE  SumFunctionOnSet(f, S \cup {x}) = f[x] + SumFunctionOnSet(f, S)
<1>1. IsFiniteSet(S \cup {x})
    BY FS_AddElement, Zenon
<1>2. SumFunctionOnSet(f, S \cup {x}) = f[x] + SumFunctionOnSet(f, (S \cup {x}) \ {x})
    BY <1>1, SumRemove
<1>3. (S \cup {x}) \ {x} = S
    OBVIOUS
<1> QED BY <1>2, <1>3

\* Sums over the whole domain of a function.
LEMMA TotalInt ==
    ASSUME NEW S, IsFiniteSet(S), NEW f \in [S -> Int]
    PROVE  SumFunction(f) \in Int
<1>1. S \in SUBSET S /\ \A x \in S : f[x] \in Int
    OBVIOUS
<1>2. SumFunctionOnSet(f, S) \in Int
    BY <1>1, SumInt
<1> QED BY <1>2 DEF SumFunction

LEMMA TotalChange ==
    ASSUME NEW S, IsFiniteSet(S), NEW f \in [S -> Int], NEW x \in S, NEW v \in Int
    PROVE  SumFunction([f EXCEPT ![x] = v]) = SumFunction(f) - f[x] + v
<1>1. PICK h : h = [f EXCEPT ![x] = v]
    OBVIOUS
<1>2. /\ \A y \in S : f[y] \in Int /\ h[y] \in Int
      /\ \A y \in S \ {x} : f[y] = h[y]
      /\ h[x] = v /\ DOMAIN h = S /\ DOMAIN f = S
    BY <1>1
<1>3. SumFunctionOnSet(h, S) = SumFunctionOnSet(f, S) - f[x] + h[x]
    BY <1>2, SumChange
<1> QED BY <1>1, <1>2, <1>3 DEF SumFunction

LEMMA TotalZero ==
    ASSUME NEW S, IsFiniteSet(S)
    PROVE  SumFunction([x \in S |-> 0]) = 0
<1>1. PICK f : f = [x \in S |-> 0]
    OBVIOUS
<1> DEFINE F == {U \in SUBSET S : SumFunctionOnSet(f, U) # 0}
<1>2. F \in SUBSET (SUBSET S)
    OBVIOUS
<1>3. ASSUME F # {} PROVE FALSE
    <2>1. PICK A \in F : \A B \in SUBSET A : B \in F => B = A
        <3> HIDE DEF F
        <3> QED BY <1>2, <1>3, LeastSubset
    <2>2. A \in SUBSET S /\ A # {}
        BY SumEmpty
    <2>3. First(A) \in A /\ SumFunctionOnSet(f, A) = f[First(A)] + SumFunctionOnSet(f, A \ {First(A)})
        BY <2>2, SumSteps
    <2>4. SumFunctionOnSet(f, A \ {First(A)}) = 0
        BY <2>1, <2>2, <2>3
    <2>5. f[First(A)] = 0
        BY <1>1, <2>2, <2>3
    <2> QED BY <2>3, <2>4, <2>5
<1>4. SumFunctionOnSet(f, S) = 0
    BY <1>3
<1>5. DOMAIN f = S
    BY <1>1
<1> QED BY <1>1, <1>4, <1>5 DEF SumFunction

-----------------------------------------------------------------------------
(* Steps                                                                    *)

\* What holds of 0, and of each next number up to n, holds of n.
LEMMA Climbed ==
    ASSUME NEW n \in Nat, NEW G \in SUBSET (0 .. n), 0 \in G,
           \A i \in G : i < n => i + 1 \in G
    PROVE  n \in G
<1>1. IsFiniteSet(G)
    <2>1. IsFiniteSet(0 .. n)
        BY FS_Interval
    <2> QED BY <2>1, FS_Subset, Zenon
<1>2. G \in SUBSET Nat /\ G # {}
    OBVIOUS
<1>3. PICK m \in G : \A x \in G : x <= m
    BY <1>1, <1>2, Greatest
<1>4. ~(m < n)
    BY <1>2, <1>3
<1>5. m = n
    BY <1>4
<1> QED BY <1>5
=============================================================================
