------------------------------ MODULE Counting ------------------------------
(***************************************************************************)
(* What the provers lack of naturals and of finite sets: the least of a    *)
(* set, sets of the same size, and the places of a strict order.           *)
(***************************************************************************)
EXTENDS FiniteSetTheorems, TLAPS

\* A set of naturals that is not empty has a least element.
LEMMA LeastExists ==
    ASSUME NEW S \in SUBSET Nat, S # {}
    PROVE  \E h \in S : \A g \in S : h <= g
<1> DEFINE R == OpToRel(<, Nat)
<1>1. IsWellFoundedOn(R, Nat)
    BY NatLessThanWellFounded
<1>2. \A x, y \in Nat : <<x, y>> \in R <=> x < y
    BY DEF OpToRel
<1> HIDE DEF R
<1>3. PICK x \in S : \A y \in S : ~(<<y, x>> \in R)
    BY <1>1, WFMin
<1>4. ASSUME NEW y \in S PROVE x <= y
    <2>1. x \in Nat /\ y \in Nat
        OBVIOUS
    <2>2. ~(y < x)
        BY <1>2, <1>3, <2>1
    <2> QED
        BY <2>1, <2>2
<1> QED
    BY <1>4

\* A set is as large as one whose members it has one for each.
LEMMA SameSize ==
    ASSUME NEW S, NEW T, IsFiniteSet(S), NEW f \in [S -> T],
           \A x, y \in S : f[x] = f[y] => x = y,
           \A t \in T : \E x \in S : f[x] = t
    PROVE  IsFiniteSet(T) /\ Cardinality(T) = Cardinality(S)
<1>1. f \in Injection(S, T) /\ f \in Surjection(S, T)
    BY DEF Injection, Surjection, IsInjective
<1>2. ExistsBijection(S, T)
    BY <1>1 DEF ExistsBijection, Bijection
<1> QED
    BY <1>2, FS_Bijection

\* The sizes of two sets without a common member add up.
LEMMA SizesAdd ==
    ASSUME NEW S, NEW T, IsFiniteSet(S), IsFiniteSet(T), S \cap T = {}
    PROVE  IsFiniteSet(S \cup T) /\ Cardinality(S \cup T) = Cardinality(S) + Cardinality(T)
<1>1. Cardinality(S) \in Nat /\ Cardinality(T) \in Nat /\ Cardinality(S \cap T) = 0
    BY FS_CardinalityType, FS_EmptySet
<1>2. IsFiniteSet(S \cup T) /\ Cardinality(S \cup T) = Cardinality(S) + Cardinality(T) - Cardinality(S \cap T)
    BY FS_Union
<1> QED
    BY <1>1, <1>2

\* Those of a set that fall into a class.
Class(S, class, d) == {x \in S : class[x] = d}

\* The members of each class, by numbers.
Numbered(T, S, class, D) ==
    \A x : x \in T <=> \E d \in D : \E n \in 1..Cardinality(Class(S, class, d)) : x = <<d, n>>

\* A finite set is as large as its classes together.
LEMMA ClassSizes ==
    ASSUME NEW S, IsFiniteSet(S), NEW D, NEW class \in [S -> D], NEW T, Numbered(T, S, class, D)
    PROVE  Cardinality(S) = Cardinality(T)
<1> DEFINE size(d) == Cardinality(Class(S, class, d))
           number == [d \in D |-> CHOOSE g \in Bijection(1..size(d), Class(S, class, d)) : TRUE]
           F == [x \in T |-> number[x[1]][x[2]]]
<1>1. ASSUME NEW d \in D
      PROVE  number[d] \in Bijection(1..size(d), Class(S, class, d))
    <2>1. Class(S, class, d) \in SUBSET S
        BY DEF Class
    <2>2. IsFiniteSet(Class(S, class, d))
        BY <2>1, FS_Subset
    <2>3. Bijection(1..size(d), Class(S, class, d)) # {}
        BY <2>2, FS_CardinalityType DEF ExistsBijection
    <2> QED
        BY <2>3
<1>2. ASSUME NEW d \in D
      PROVE  /\ \A n \in 1..size(d) : number[d][n] \in S /\ class[number[d][n]] = d
             /\ \A m, n \in 1..size(d) : number[d][m] = number[d][n] => m = n
             /\ \A x \in S : class[x] = d => \E n \in 1..size(d) : number[d][n] = x
    <2>1. number[d] \in [1..size(d) -> Class(S, class, d)]
        BY <1>1 DEF Bijection, Injection
    <2>2. \A m, n \in 1..size(d) : number[d][m] = number[d][n] => m = n
        <3>1. IsInjective(number[d]) /\ DOMAIN number[d] = 1..size(d)
            BY <1>1, <2>1 DEF Bijection, Injection
        <3> HIDE DEF number, size
        <3> QED
            BY <3>1 DEF IsInjective
    <2>3. \A x \in Class(S, class, d) : \E n \in 1..size(d) : number[d][n] = x
        BY <1>1 DEF Bijection, Surjection
    <2> HIDE DEF number, size
    <2> QED
        BY <2>1, <2>2, <2>3 DEF Class
<1>0. \A x : x \in T <=> \E d \in D : \E n \in 1..size(d) : x = <<d, n>>
    BY DEF Numbered
<1> HIDE DEF number, size
<1>3. \A x \in T : x[1] \in D /\ x[2] \in 1..size(x[1]) /\ x = <<x[1], x[2]>>
    BY <1>0
<1>4. \A d \in D : \A n \in 1..size(d) : <<d, n>> \in T
    BY <1>0
<1>5. F \in [T -> S]
    BY <1>2, <1>3
<1>6. ASSUME NEW x \in T, NEW y \in T, F[x] = F[y] PROVE x = y
    <2>1. number[x[1]][x[2]] = number[y[1]][y[2]]
        BY <1>6
    <2>2. x[1] = y[1]
        BY <1>2, <1>3, <2>1
    <2>3. x[2] = y[2]
        BY <1>2, <1>3, <2>1, <2>2
    <2> QED
        BY <1>3, <2>2, <2>3
<1>7. ASSUME NEW s \in S PROVE \E x \in T : F[x] = s
    <2>1. class[s] \in D
        OBVIOUS
    <2>2. PICK n \in 1..size(class[s]) : number[class[s]][n] = s
        BY <1>2, <2>1
    <2>3. <<class[s], n>> \in T
        BY <1>4, <2>1
    <2>4. F[<<class[s], n>>] = s
        BY <2>2, <2>3
    <2> QED
        BY <2>3, <2>4
<1>8. IsFiniteSet(T)
    <2>1. F \in Injection(T, S)
        <3> HIDE DEF F
        <3> QED
            BY <1>5, <1>6 DEF Injection, IsInjective
    <2> HIDE DEF F
    <2> QED
        BY <2>1, FS_Injection
<1>9. Cardinality(S) = Cardinality(T)
    <2> HIDE DEF F
    <2> QED
        BY <1>5, <1>6, <1>7, <1>8, SameSize
<1> QED
    BY <1>9

\* Those that a relation has before one of a set.
AheadOf(R, B, r) == {s \in R : <<s, r>> \in B}

\* In a strict total order the member that has n - 1 before it is there for
\* each place n, and who comes first has fewer before it.
LEMMA Places ==
    ASSUME NEW R, IsFiniteSet(R), NEW B,
           \A r \in R : <<r, r>> \notin B,
           \A r, s, t \in R : <<r, s>> \in B /\ <<s, t>> \in B => <<r, t>> \in B,
           \A r, s \in R : r = s \/ <<r, s>> \in B \/ <<s, r>> \in B
    PROVE  /\ Cardinality(R) \in Nat
           /\ \A r \in R : Cardinality(AheadOf(R, B, r)) + 1 \in 1..Cardinality(R)
           /\ \A n \in 1..Cardinality(R) : \E r \in R : Cardinality(AheadOf(R, B, r)) = n - 1
           /\ \A r, s \in R : <<r, s>> \in B => Cardinality(AheadOf(R, B, r)) < Cardinality(AheadOf(R, B, s))
<1> DEFINE N == Cardinality(R)
           place == [r \in R |-> Cardinality(AheadOf(R, B, r)) + 1]
<1>1. N \in Nat
    BY FS_CardinalityType
<1>2. ASSUME NEW S \in SUBSET R, NEW x \in R, NEW T \in SUBSET S, x \in S, x \notin T
      PROVE  Cardinality(T) \in Nat /\ Cardinality(S) \in Nat /\ Cardinality(T) < Cardinality(S)
    <2>1. IsFiniteSet(S)
        BY FS_Subset
    <2>2. IsFiniteSet(T) /\ Cardinality(T) <= Cardinality(S) /\ (Cardinality(S) = Cardinality(T) => S = T)
        BY <2>1, FS_Subset
    <2>3. Cardinality(T) \in Nat /\ Cardinality(S) \in Nat
        BY <2>1, <2>2, FS_CardinalityType
    <2>4. S # T
        BY <1>2
    <2> QED
        BY <2>2, <2>3, <2>4
<1>3. \A r \in R : Cardinality(AheadOf(R, B, r)) \in Nat /\ Cardinality(AheadOf(R, B, r)) < N
    BY <1>2 DEF AheadOf
<1>4. ASSUME NEW r \in R, NEW s \in R, <<r, s>> \in B
      PROVE  Cardinality(AheadOf(R, B, r)) < Cardinality(AheadOf(R, B, s))
    <2>1. AheadOf(R, B, r) \in SUBSET AheadOf(R, B, s)
        BY <1>4 DEF AheadOf
    <2>2. r \in AheadOf(R, B, s) /\ r \notin AheadOf(R, B, r) /\ AheadOf(R, B, s) \in SUBSET R
        BY <1>4 DEF AheadOf
    <2> QED
        BY <1>2, <2>1, <2>2
<1>5. \A r \in R : Cardinality(AheadOf(R, B, r)) + 1 \in 1..N
    <2> HIDE DEF N
    <2> QED
        BY <1>1, <1>3
<1>6. place \in Injection(R, 1..N)
    <2>1. ASSUME NEW r \in R, NEW s \in R, place[r] = place[s] PROVE r = s
        <3>1. Cardinality(AheadOf(R, B, r)) = Cardinality(AheadOf(R, B, s))
            BY <1>3, <2>1
        <3>2. <<r, s>> \notin B
            <4>1. <<r, s>> \in B => Cardinality(AheadOf(R, B, r)) < Cardinality(AheadOf(R, B, s))
                BY <1>4
            <4> QED
                BY <1>3, <3>1, <4>1
        <3>3. <<s, r>> \notin B
            <4>1. <<s, r>> \in B => Cardinality(AheadOf(R, B, s)) < Cardinality(AheadOf(R, B, r))
                BY <1>4
            <4> QED
                BY <1>3, <3>1, <4>1
        <3> QED
            BY <3>2, <3>3
    <2>2. place \in [R -> 1..N] /\ DOMAIN place = R
        BY <1>5
    <2> HIDE DEF place
    <2> QED
        BY <2>1, <2>2 DEF Injection, IsInjective
<1>7. IsFiniteSet(1..N) /\ Cardinality(1..N) = N
    <2> HIDE DEF N
    <2>1. 0 \in Int /\ 1 \in Int /\ N \in Int
        BY <1>1
    <2> QED
        BY <1>1, <2>1, FS_Interval
<1>8. place \in Surjection(R, 1..N)
    <2> HIDE DEF place
    <2> QED
        BY <1>6, <1>7, FS_Injection
<1>9. ASSUME NEW n \in 1..N PROVE \E r \in R : Cardinality(AheadOf(R, B, r)) = n - 1
    <2>1. PICK r \in R : place[r] = n
        BY <1>8 DEF Surjection
    <2>2. Cardinality(AheadOf(R, B, r)) + 1 = n
        BY <2>1
    <2> QED
        BY <1>3, <2>2
<1> QED
    BY <1>1, <1>4, <1>5, <1>9
=============================================================================
