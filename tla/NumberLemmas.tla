---------------------------- MODULE NumberLemmas ----------------------------
(* Induction and extremes without an operator parameter, from the theorem   *)
(* that the natural numbers are well-founded: the sets stand for predicates.*)
(* Then what the folds of the community modules add up: the sum over a      *)
(* finite set does not depend on the order in which CHOOSE takes it apart.  *)
EXTENDS Integers, FiniteSetTheorems, WellFoundedInduction, TLAPS

LEMMA LeastNatural ==
    ASSUME NEW S \in SUBSET Nat, S # {}
    PROVE  \E m \in S : \A n \in S : m <= n
<1> DEFINE less == {p \in Nat \X Nat : p[1] < p[2]}
<1>1. IsWellFoundedOn(less, Nat)
    BY NatLessThanWellFounded DEF OpToRel
<1> HIDE DEF less
<1>2. PICK m \in S : \A n \in S : <<n, m>> \notin less
    BY <1>1, WFMin
<1>3. \A n \in S : ~ (n < m)
    BY <1>2 DEF less
<1> QED
    BY <1>3

LEMMA NaturalInduction ==
    ASSUME NEW S, 0 \in S, \A n \in Nat : n \in S => n + 1 \in S
    PROVE  Nat \subseteq S
<1> SUFFICES ASSUME Nat \ S # {} PROVE FALSE
    OBVIOUS
<1>1. PICK m \in Nat \ S : \A n \in Nat \ S : m <= n
    BY LeastNatural
<1>2. m - 1 \in Nat /\ m - 1 \in S
    BY <1>1
<1>3. (m - 1) + 1 \in S
    BY <1>2
<1> QED
    BY <1>1, <1>3

(* The greatest of some numbers that have a bound                           *)
LEMMA GreatestNatural ==
    ASSUME NEW S \in SUBSET Nat, S # {}, NEW b \in Nat, \A n \in S : n <= b
    PROVE  \E m \in S : \A n \in S : n <= m
<1> DEFINE bounds == {c \in Nat : \A n \in S : n <= c}
<1>1. bounds # {} /\ bounds \in SUBSET Nat
    OBVIOUS
<1>2. PICK m \in bounds : \A c \in bounds : m <= c
    BY <1>1, LeastNatural
<1>3. m \in S
    <2> SUFFICES ASSUME m \notin S PROVE FALSE
        OBVIOUS
    <2>1. m \in Nat /\ \A n \in S : n \in Nat /\ n < m
        BY <1>2
    <2>2. PICK n \in S : n < m
        BY <2>1
    <2>3. m - 1 \in Nat /\ \A k \in S : k <= m - 1
        BY <2>1, <2>2
    <2>4. m - 1 \in bounds
        BY <2>3
    <2> QED
        BY <2>1, <2>4, <1>2
<1> QED
    BY <1>2, <1>3

(* Induction over the parts of a finite set; C stands for the predicate.    *)
LEMMA PartInduction ==
    ASSUME NEW S, IsFiniteSet(S), NEW C, {} \in C,
           \A T \in SUBSET S : T # {} /\ (\A x \in T : T \ {x} \in C) => T \in C
    PROVE  SUBSET S \subseteq C
<1> DEFINE N == {n \in Nat : \A T \in SUBSET S : Cardinality(T) = n => T \in C}
<1>1. \A T \in SUBSET S : IsFiniteSet(T) /\ Cardinality(T) \in Nat
    BY FS_Subset, FS_CardinalityType
<1>2. 0 \in N
    <2>1. \A T \in SUBSET S : Cardinality(T) = 0 => T = {}
        BY <1>1, FS_EmptySet
    <2> QED
        BY <2>1
<1>3. ASSUME NEW n \in Nat, n \in N PROVE n + 1 \in N
    <2> SUFFICES ASSUME NEW T \in SUBSET S, Cardinality(T) = n + 1 PROVE T \in C
        OBVIOUS
    <2>1. T # {}
        BY FS_EmptySet
    <2>2. ASSUME NEW x \in T PROVE T \ {x} \in C
        <3>1. Cardinality(T \ {x}) = Cardinality(T) - 1
            BY <1>1, FS_RemoveElement
        <3>2. T \ {x} \in SUBSET S /\ Cardinality(T \ {x}) = n
            BY <3>1
        <3> QED
            BY <1>3, <3>2
    <2> QED
        BY <2>1, <2>2
<1> HIDE DEF N
<1>4. Nat \subseteq N
    BY <1>2, <1>3, NaturalInduction
<1> QED
    BY <1>1, <1>4 DEF N

----------------------------------------------------------------------------
(* Sums over finite sets, in the order that CHOOSE makes of them            *)
Some(s) == CHOOSE x \in s : TRUE

AddedUp(F, g, s) == IF s = {} THEN 0 ELSE g[Some(s)] + F[s \ {Some(s)}]

AddsUp(F, g, S) == F = [s \in SUBSET S |-> AddedUp(F, g, s)]

SumOf(g, S) == (CHOOSE F : AddsUp(F, g, S))[S]

Numbers(g, S) == \A x \in S : g[x] \in Nat

LEMMA SomeMember ==
    ASSUME NEW s, s # {}
    PROVE  Some(s) \in s
BY DEF Some

LEMMA SumThere ==
    ASSUME NEW S, IsFiniteSet(S), NEW g
    PROVE  \E F : AddsUp(F, g, S)
<1> DEFINE Small(n) == {s \in SUBSET S : Cardinality(s) <= n}
           There(n) == \E F : F = [s \in Small(n) |-> AddedUp(F, g, s)]
           N == {n \in Nat : There(n)}
<1>1. \A T \in SUBSET S : IsFiniteSet(T) /\ Cardinality(T) \in Nat
    BY FS_Subset, FS_CardinalityType
<1>2. 0 \in N
    <2>1. Small(0) = {{}}
        BY <1>1, FS_EmptySet
    <2>2. PICK F : F = [s \in Small(0) |-> 0]
        OBVIOUS
    <2>3. F = [s \in Small(0) |-> AddedUp(F, g, s)]
        BY <2>1, <2>2 DEF AddedUp
    <2> QED
        BY <2>3
<1>3. ASSUME NEW n \in Nat, n \in N PROVE n + 1 \in N
    <2>1. PICK F : F = [s \in Small(n) |-> AddedUp(F, g, s)]
        BY <1>3
    <2>2. PICK H : H = [s \in Small(n + 1) |->
                          IF s \in Small(n) THEN F[s] ELSE AddedUp(F, g, s)]
        OBVIOUS
    <2>3. ASSUME NEW s \in Small(n + 1), s # {}
          PROVE  /\ s \ {Some(s)} \in Small(n)
                 /\ s \ {Some(s)} \in Small(n + 1)
        <3>1. s \in SUBSET S /\ Cardinality(s) <= n + 1 /\ Some(s) \in s
            BY <2>3, SomeMember
        <3>2. Cardinality(s \ {Some(s)}) = Cardinality(s) - 1
            BY <1>1, <3>1, FS_RemoveElement
        <3>3. s \ {Some(s)} \in SUBSET S /\ Cardinality(s \ {Some(s)}) <= n
            BY <1>1, <3>1, <3>2
        <3> QED
            BY <1>1, <3>3
    <2>4. ASSUME NEW s \in Small(n + 1) PROVE H[s] = AddedUp(H, g, s)
        <3>1. H[s] = AddedUp(F, g, s)
            BY <2>1, <2>2
        <3>2. CASE s = {}
            BY <3>1, <3>2 DEF AddedUp
        <3>3. CASE s # {}
            <4>1. H[s \ {Some(s)}] = F[s \ {Some(s)}]
                BY <2>2, <2>3, <3>3
            <4> QED
                BY <3>1, <4>1 DEF AddedUp
        <3> QED
            BY <3>2, <3>3
    <2>5. H = [s \in Small(n + 1) |-> AddedUp(H, g, s)]
        <3> HIDE DEF Small
        <3> QED
            BY <2>2, <2>4
    <2> QED
        BY <2>5
<1>4. Nat \subseteq N
    <2> HIDE DEF N
    <2> QED
        BY <1>2, <1>3, NaturalInduction
<1>5. PICK F : F = [s \in Small(Cardinality(S)) |-> AddedUp(F, g, s)]
    BY <1>1, <1>4
<1>6. Small(Cardinality(S)) = SUBSET S
    BY FS_Subset
<1> QED
    BY <1>5, <1>6 DEF AddsUp

LEMMA SumTyped ==
    ASSUME NEW S, IsFiniteSet(S), NEW g, Numbers(g, S), NEW F, AddsUp(F, g, S)
    PROVE  F[{}] = 0 /\ \A T \in SUBSET S : F[T] \in Nat
<1> DEFINE C == {T \in SUBSET S : F[T] \in Nat}
<1>1. F[{}] = 0
    BY DEF AddsUp, AddedUp
<1>2. {} \in C
    BY <1>1
<1>3. ASSUME NEW T \in SUBSET S, T # {}, \A x \in T : T \ {x} \in C PROVE T \in C
    <2>1. PICK c : c = Some(T)
        OBVIOUS
    <2>2. c \in T /\ F[T] = g[c] + F[T \ {c}]
        BY <1>3, <2>1, SomeMember DEF AddsUp, AddedUp
    <2>3. g[c] \in Nat /\ F[T \ {c}] \in Nat
        BY <1>3, <2>2 DEF Numbers
    <2> QED
        BY <2>2, <2>3
<1> HIDE DEF C
<1>4. SUBSET S \subseteq C
    BY <1>2, <1>3, PartInduction
<1> QED
    BY <1>1, <1>4 DEF C

(* Whatever is taken out first, the rest adds up to what is left.           *)
LEMMA SumSplits ==
    ASSUME NEW S, IsFiniteSet(S), NEW g, Numbers(g, S), NEW F, AddsUp(F, g, S)
    PROVE  \A T \in SUBSET S : \A x \in T : F[T] = g[x] + F[T \ {x}]
<1> DEFINE C == {T \in SUBSET S : \A x \in T : F[T] = g[x] + F[T \ {x}]}
<1>1. {} \in C
    OBVIOUS
<1>2. ASSUME NEW T \in SUBSET S, T # {}, \A x \in T : T \ {x} \in C PROVE T \in C
    <2>1. PICK c : c = Some(T)
        OBVIOUS
    <2>2. c \in T /\ F[T] = g[c] + F[T \ {c}]
        BY <1>2, <2>1, SomeMember DEF AddsUp, AddedUp
    <2>3. ASSUME NEW x \in T, x # c PROVE F[T] = g[x] + F[T \ {x}]
        <3>1. T \ {c} \in C /\ T \ {x} \in C /\ x \in T \ {c} /\ c \in T \ {x}
            BY <1>2, <2>2, <2>3
        <3>2. PICK U : U = (T \ {c}) \ {x} /\ U = (T \ {x}) \ {c}
            OBVIOUS
        <3>3. F[T \ {c}] = g[x] + F[U] /\ F[T \ {x}] = g[c] + F[U]
            BY <3>1, <3>2
        <3>4. U \in SUBSET S /\ g[x] \in Nat /\ g[c] \in Nat
            BY <2>2, <3>2 DEF Numbers
        <3>5. F[U] \in Nat
            BY <3>4, SumTyped
        <3> QED
            BY <2>2, <3>3, <3>4, <3>5
    <2> QED
        BY <2>2, <2>3
<1> HIDE DEF C
<1>3. SUBSET S \subseteq C
    BY <1>1, <1>2, PartInduction
<1> QED
    BY <1>3 DEF C

LEMMA SumsAgree ==
    ASSUME NEW S, NEW T, NEW g, NEW h, NEW F, NEW H, AddsUp(F, g, S), AddsUp(H, h, T),
           NEW U, U \subseteq S, U \subseteq T, IsFiniteSet(U), \A x \in U : g[x] = h[x]
    PROVE  F[U] = H[U]
<1> DEFINE C == {W \in SUBSET U : F[W] = H[W]}
<1>1. {} \in C
    BY DEF AddsUp, AddedUp
<1>2. ASSUME NEW W \in SUBSET U, W # {}, \A x \in W : W \ {x} \in C PROVE W \in C
    <2>1. PICK c : c = Some(W)
        OBVIOUS
    <2>2. c \in W /\ F[W] = g[c] + F[W \ {c}] /\ H[W] = h[c] + H[W \ {c}]
        BY <1>2, <2>1, SomeMember DEF AddsUp, AddedUp
    <2> QED
        BY <1>2, <2>2
<1> HIDE DEF C
<1>3. SUBSET U \subseteq C
    BY <1>1, <1>2, PartInduction
<1> QED
    BY <1>3 DEF C

LEMMA SumIs ==
    ASSUME NEW S, IsFiniteSet(S), NEW g
    PROVE  /\ \E F : AddsUp(F, g, S)
           /\ \A F : AddsUp(F, g, S) => SumOf(g, S) = F[S]
<1>1. \E F : AddsUp(F, g, S)
    BY SumThere
<1>2. PICK H : H = CHOOSE F : AddsUp(F, g, S)
    OBVIOUS
<1>3. AddsUp(H, g, S) /\ SumOf(g, S) = H[S]
    BY <1>1, <1>2 DEF SumOf
<1> QED
    BY <1>1, <1>3, SumsAgree

LEMMA SumSame ==
    ASSUME NEW S, IsFiniteSet(S), NEW g, NEW h, \A x \in S : g[x] = h[x]
    PROVE  SumOf(g, S) = SumOf(h, S)
<1>1. PICK F : AddsUp(F, g, S)
    BY SumThere
<1>2. PICK H : AddsUp(H, h, S)
    BY SumThere
<1>3. F[S] = H[S]
    BY <1>1, <1>2, SumsAgree
<1> QED
    BY <1>1, <1>2, <1>3, SumIs

LEMMA SumRest ==
    ASSUME NEW S, IsFiniteSet(S), NEW g, Numbers(g, S)
    PROVE  /\ S = {} => SumOf(g, S) = 0
           /\ SumOf(g, S) \in Nat
           /\ \A x \in S : SumOf(g, S) = g[x] + SumOf(g, S \ {x})
<1>1. PICK F : AddsUp(F, g, S)
    BY SumThere
<1>2. SumOf(g, S) = F[S]
    BY <1>1, SumIs
<1>3. ASSUME NEW x \in S PROVE SumOf(g, S \ {x}) = F[S \ {x}]
    <2>1. IsFiniteSet(S \ {x})
        BY FS_Subset
    <2>2. PICK H : AddsUp(H, g, S \ {x})
        BY <2>1, SumThere
    <2>3. SumOf(g, S \ {x}) = H[S \ {x}]
        BY <2>1, <2>2, SumIs
    <2>4. F[S \ {x}] = H[S \ {x}]
        BY <1>1, <2>1, <2>2, SumsAgree
    <2> QED
        BY <2>3, <2>4
<1>4. F[{}] = 0 /\ F[S] \in Nat /\ \A x \in S : F[S] = g[x] + F[S \ {x}]
    BY <1>1, SumTyped, SumSplits
<1> QED
    BY <1>2, <1>3, <1>4

(* The sum over two sets that share nothing                                 *)
LEMMA SumOfBoth ==
    ASSUME NEW A, NEW B, IsFiniteSet(A), IsFiniteSet(B), A \intersect B = {},
           NEW g, Numbers(g, A), Numbers(g, B)
    PROVE  SumOf(g, A \union B) = SumOf(g, A) + SumOf(g, B)
<1> DEFINE C == {T \in SUBSET B : SumOf(g, A \union T) = SumOf(g, A) + SumOf(g, T)}
<1>1. {} \in C
    <2>1. SumOf(g, {}) = 0 /\ SumOf(g, A) \in Nat /\ A \union {} = A
        BY SumRest, FS_EmptySet DEF Numbers
    <2> QED
        BY <2>1
<1>2. ASSUME NEW T \in SUBSET B, T # {}, \A x \in T : T \ {x} \in C PROVE T \in C
    <2>1. PICK x \in T : TRUE
        BY <1>2
    <2>2. IsFiniteSet(T) /\ IsFiniteSet(A \union T) /\ IsFiniteSet(T \ {x})
        BY FS_Subset, FS_Union
    <2>3. Numbers(g, T) /\ Numbers(g, A \union T) /\ Numbers(g, T \ {x})
        BY DEF Numbers
    <2>4. (A \union T) \ {x} = A \union (T \ {x})
        BY <2>1
    <2>5. /\ SumOf(g, T) = g[x] + SumOf(g, T \ {x})
          /\ SumOf(g, A \union T) = g[x] + SumOf(g, A \union (T \ {x}))
        BY <2>1, <2>2, <2>3, <2>4, SumRest
    <2>6. SumOf(g, A \union (T \ {x})) = SumOf(g, A) + SumOf(g, T \ {x})
        BY <1>2, <2>1
    <2>7. g[x] \in Nat /\ SumOf(g, A) \in Nat /\ SumOf(g, T \ {x}) \in Nat
        BY <2>1, <2>2, <2>3, SumRest DEF Numbers
    <2> QED
        BY <2>5, <2>6, <2>7
<1> HIDE DEF C
<1>3. SUBSET B \subseteq C
    BY <1>1, <1>2, PartInduction
<1> QED
    BY <1>3 DEF C

LEMMA ImageFinite ==
    ASSUME NEW S, IsFiniteSet(S), NEW f
    PROVE  IsFiniteSet({f[x] : x \in S})
<1>1. [x \in S |-> f[x]] \in Surjection(S, {f[x] : x \in S})
    BY DEF Surjection
<1> QED
    BY <1>1, FS_Surjection

(* The sum over rows that are named by keys, one each                       *)
LEMMA SumByKey ==
    ASSUME NEW K, IsFiniteSet(K), NEW f, \A j, k \in K : f[j] = f[k] => j = k,
           NEW g, \A k \in K : g[f[k]] \in Nat
    PROVE  SumOf(g, {f[k] : k \in K}) = SumOf([k \in K |-> g[f[k]]], K)
<1> DEFINE h == [k \in K |-> g[f[k]]]
           rows(T) == {f[k] : k \in T}
           C == {T \in SUBSET K : SumOf(g, rows(T)) = SumOf(h, T)}
<1>1. ASSUME NEW T \in SUBSET K
      PROVE  IsFiniteSet(T) /\ IsFiniteSet(rows(T)) /\ Numbers(g, rows(T)) /\ Numbers(h, T)
    <2>1. IsFiniteSet(T)
        BY FS_Subset
    <2>2. IsFiniteSet(rows(T))
        BY <2>1, ImageFinite
    <2> QED
        BY <2>1, <2>2 DEF Numbers
<1>2. {} \in C
    BY <1>1, SumRest
<1>3. ASSUME NEW T \in SUBSET K, T # {}, \A x \in T : T \ {x} \in C PROVE T \in C
    <2>1. PICK x \in T : TRUE
        BY <1>3
    <2>2. rows(T) \ {f[x]} = rows(T \ {x}) /\ f[x] \in rows(T)
        BY <2>1
    <2> HIDE DEF rows, h
    <2>3. /\ SumOf(g, rows(T)) = g[f[x]] + SumOf(g, rows(T \ {x}))
          /\ SumOf(h, T) = h[x] + SumOf(h, T \ {x})
        BY <1>1, <2>1, <2>2, SumRest
    <2>4. SumOf(g, rows(T \ {x})) = SumOf(h, T \ {x}) /\ h[x] = g[f[x]]
        BY <1>3, <2>1 DEF h
    <2> QED
        BY <2>3, <2>4
<1> HIDE DEF C
<1>4. SUBSET K \subseteq C
    BY <1>2, <1>3, PartInduction
<1> QED
    BY <1>4 DEF C

(* The sum of the sums of groups                                            *)
LEMMA SumOfGroups ==
    ASSUME NEW S, IsFiniteSet(S), NEW g, Numbers(g, S), NEW key, NEW K, IsFiniteSet(K)
    PROVE  SumOf([k \in K |-> SumOf(g, {i \in S : key[i] = k})], K)
             = SumOf(g, {i \in S : key[i] \in K})
<1> DEFINE group(T) == {i \in S : key[i] \in T}
           one(k) == {i \in S : key[i] = k}
           h == [k \in K |-> SumOf(g, one(k))]
           C == {T \in SUBSET K : SumOf(h, T) = SumOf(g, group(T))}
<1>1. ASSUME NEW T PROVE IsFiniteSet(group(T)) /\ Numbers(g, group(T))
    BY FS_Subset DEF Numbers
<1>2. ASSUME NEW k PROVE IsFiniteSet(one(k)) /\ Numbers(g, one(k)) /\ SumOf(g, one(k)) \in Nat
    <2>1. IsFiniteSet(one(k)) /\ Numbers(g, one(k))
        BY FS_Subset DEF Numbers
    <2> HIDE DEF one
    <2> QED
        BY <2>1, SumRest
<1>3. ASSUME NEW T \in SUBSET K PROVE IsFiniteSet(T) /\ Numbers(h, T)
    BY <1>2, FS_Subset DEF Numbers
<1>4. {} \in C
    <2>1. group({}) = {}
        OBVIOUS
    <2> HIDE DEF group, h
    <2> QED
        BY <1>1, <1>3, <2>1, SumRest
<1>5. ASSUME NEW T \in SUBSET K, T # {}, \A x \in T : T \ {x} \in C PROVE T \in C
    <2>1. PICK x \in T : TRUE
        BY <1>5
    <2>2. /\ group(T) = group(T \ {x}) \union one(x)
          /\ group(T \ {x}) \intersect one(x) = {}
        BY <2>1
    <2>3. h[x] = SumOf(g, one(x))
        BY <2>1
    <2> HIDE DEF group, one, h
    <2>4. SumOf(g, group(T)) = SumOf(g, group(T \ {x})) + SumOf(g, one(x))
        <3>1. PICK A, B : A = group(T \ {x}) /\ B = one(x)
            OBVIOUS
        <3>2. /\ IsFiniteSet(A) /\ Numbers(g, A) /\ IsFiniteSet(B) /\ Numbers(g, B)
              /\ A \intersect B = {} /\ group(T) = A \union B
            BY <1>1, <1>2, <2>2, <3>1
        <3> QED
            BY <3>1, <3>2, SumOfBoth
    <2>5. SumOf(h, T) = h[x] + SumOf(h, T \ {x})
        BY <1>3, <2>1, SumRest
    <2>6. SumOf(h, T \ {x}) = SumOf(g, group(T \ {x}))
        BY <1>5, <2>1
    <2>7. SumOf(g, one(x)) \in Nat /\ SumOf(g, group(T \ {x})) \in Nat
        BY <1>1, <1>2, SumRest
    <2> QED
        BY <2>3, <2>4, <2>5, <2>6, <2>7
<1> HIDE DEF C
<1>6. SUBSET K \subseteq C
    BY <1>4, <1>5, PartInduction
<1> QED
    BY <1>6 DEF C
=============================================================================
