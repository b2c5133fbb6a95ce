----------------------------- MODULE DataLemmas -----------------------------
(***************************************************************************)
(* Facts about the operators that the models compute sums and flattened    *)
(* sequences with (SumFunction, FlattenSeq), by induction over their data. *)
(* Induction is the least-number principle here: a set of numbers that are *)
(* counterexamples has a least element.                                    *)
(***************************************************************************)
EXTENDS Integers, Sequences, SequencesExt, FiniteSetTheorems, SequenceTheorems, TLAPS

LEMMA LeastNumber ==
    ASSUME NEW T, T \subseteq Nat, T # {}
    PROVE  \E n \in T : \A m \in T : n <= m
  <1>1. IsWellFoundedOn(OpToRel(<, Nat), Nat)
    BY NatLessThanWellFounded
  <1>2. PICK n \in T : \A m \in T : ~ (<<m, n>> \in OpToRel(<, Nat))
    BY <1>1, WFMin
  <1>3. \A m \in T : ~(m < n)
    BY <1>2 DEF OpToRel
  <1> QED
    BY <1>3

LEMMA Induction ==
    ASSUME NEW T, 0 \in T, \A n \in Nat : n \in T => n + 1 \in T
    PROVE  Nat \subseteq T
  <1> SUFFICES ASSUME Nat \ T # {} PROVE FALSE
    OBVIOUS
  <1>1. PICK n \in Nat \ T : \A m \in Nat \ T : n <= m
    BY LeastNumber
  <1>2. n - 1 \in Nat /\ n - 1 \in T
    BY <1>1
  <1>3. n - 1 + 1 \in T
    BY <1>2
  <1> QED
    BY <1>1, <1>3

-----------------------------------------------------------------------------
(***************************************************************************)
(* Sums                                                                    *)
(***************************************************************************)
(* it is the function by which SumFunctionOnSet adds up f on the subsets of *)
(* S, taking out an arbitrary element at a time.                           *)
Adds(it, f, S) ==
    it = [s \in SUBSET S |->
            IF s = {} THEN 0
            ELSE LET x == CHOOSE x \in s : TRUE IN f[x] + it[s \ {x}]]

LEMMA AddsStep ==
    ASSUME NEW S, NEW f, NEW it, Adds(it, f, S), NEW s \in SUBSET S, s # {}
    PROVE  \E x \in s : it[s] = f[x] + it[s \ {x}]
  <1> DEFINE x == CHOOSE x \in s : TRUE
  <1>1. x \in s
    OBVIOUS
  <1>2. it[s] = f[x] + it[s \ {x}]
    BY DEF Adds
  <1> QED
    BY <1>1, <1>2

(* It can be computed, set by set in the order of their sizes.             *)
LEMMA AddsExists ==
    ASSUME NEW S, IsFiniteSet(S), NEW f, \A x \in S : f[x] \in Int
    PROVE  \E it : Adds(it, f, S)
  <1> DEFINE c(s) == CHOOSE x \in s : TRUE
             Eq(it, s) == it[s] = IF s = {} THEN 0 ELSE f[c(s)] + it[s \ {c(s)}]
             T == {n \in Nat : \E it \in [SUBSET S -> Int] :
                      \A s \in SUBSET S : Cardinality(s) <= n => Eq(it, s)}
  <1>1. \A s \in SUBSET S : /\ IsFiniteSet(s) /\ Cardinality(s) \in Nat
                            /\ Cardinality(s) = 0 <=> s = {}
                            /\ Cardinality(s) <= Cardinality(S)
    BY FS_Subset, FS_CardinalityType, FS_EmptySet
  <1>2. \A s \in SUBSET S : s # {} => /\ c(s) \in s /\ s \ {c(s)} \in SUBSET S
                                      /\ Cardinality(s \ {c(s)}) = Cardinality(s) - 1
    BY <1>1, FS_RemoveElement
  <1>3. 0 \in T
    <2>1. [s \in SUBSET S |-> 0] \in [SUBSET S -> Int]
      OBVIOUS
    <2>2. \A s \in SUBSET S : Cardinality(s) <= 0 => Eq([r \in SUBSET S |-> 0], s)
      BY <1>1
    <2> QED
      BY <2>1, <2>2
  <1>4. ASSUME NEW n \in T PROVE n + 1 \in T
    <2>1. PICK it \in [SUBSET S -> Int] :
             \A s \in SUBSET S : Cardinality(s) <= n => Eq(it, s)
      OBVIOUS
    <2> DEFINE more == [s \in SUBSET S |-> IF Cardinality(s) <= n THEN it[s]
                                           ELSE f[c(s)] + it[s \ {c(s)}]]
    <2> HIDE DEF c
    <2>2. more \in [SUBSET S -> Int]
      <3> SUFFICES ASSUME NEW s \in SUBSET S, ~(Cardinality(s) <= n)
                   PROVE  f[c(s)] + it[s \ {c(s)}] \in Int
        OBVIOUS
      <3>1. s # {} /\ n \in Nat
        BY <1>1
      <3> QED
        BY <1>2, <3>1
    <2>3. ASSUME NEW s \in SUBSET S, Cardinality(s) <= n + 1
          PROVE  Eq(more, s)
      <3>1. n \in Nat
        OBVIOUS
      <3>2. CASE s = {}
        BY <1>1, <2>1, <3>1, <3>2
      <3>3. CASE s # {}
        <4>1. more[s \ {c(s)}] = it[s \ {c(s)}]
          BY <1>1, <1>2, <2>3, <3>1, <3>3
        <4>2. more[s] = f[c(s)] + it[s \ {c(s)}]
          BY <2>1, <3>3
        <4> QED
          BY <3>3, <4>1, <4>2
      <3> QED
        BY <3>2, <3>3
    <2> HIDE DEF more
    <2>4. n + 1 \in Nat
      OBVIOUS
    <2> QED
      BY <2>2, <2>3, <2>4
  <1> HIDE DEF T
  <1>5. Nat \subseteq T
    BY <1>3, <1>4, Induction
  <1>6. Cardinality(S) \in T
    BY <1>1, <1>5
  <1>7. PICK it \in [SUBSET S -> Int] :
           \A s \in SUBSET S : Cardinality(s) <= Cardinality(S) => Eq(it, s)
    BY <1>6 DEF T
  <1>8. \A s \in SUBSET S : Eq(it, s)
    BY <1>1, <1>7
  <1>9. Adds(it, f, S)
    BY <1>8 DEF Adds
  <1> QED
    BY <1>9

LEMMA AddsUnique ==
    ASSUME NEW S, IsFiniteSet(S), NEW f, NEW it, Adds(it, f, S),
           NEW R, IsFiniteSet(R), NEW g, NEW jt, Adds(jt, g, R),
           NEW s \in SUBSET (S \cap R), \A x \in s : f[x] = g[x]
    PROVE  it[s] = jt[s]
  <1> DEFINE T == {n \in Nat : \A r \in SUBSET s :
                      Cardinality(r) = n => it[r] = jt[r]}
  <1>1. \A r \in SUBSET s : /\ IsFiniteSet(r) /\ Cardinality(r) \in Nat
                            /\ Cardinality(r) = 0 <=> r = {}
                            /\ r \in SUBSET S /\ r \in SUBSET R
    BY FS_Subset, FS_CardinalityType, FS_EmptySet
  <1>2. it[{}] = 0 /\ jt[{}] = 0
    <2>1. {} \in SUBSET S /\ {} \in SUBSET R
      OBVIOUS
    <2> QED
      BY <2>1 DEF Adds
  <1>3. 0 \in T
    BY <1>1, <1>2
  <1>4. ASSUME NEW n \in T PROVE n + 1 \in T
    <2> SUFFICES ASSUME NEW r \in SUBSET s, Cardinality(r) = n + 1
                 PROVE  it[r] = jt[r]
      OBVIOUS
    <2> DEFINE x == CHOOSE x \in r : TRUE
    <2>1. r # {} /\ n \in Nat
      BY <1>1
    <2>2. x \in r
      BY <2>1
    <2>3. it[r] = f[x] + it[r \ {x}] /\ jt[r] = g[x] + jt[r \ {x}]
      BY <1>1, <2>1 DEF Adds
    <2> HIDE DEF x
    <2>4. Cardinality(r \ {x}) = n
      <3>1. IsFiniteSet(r)
        BY <1>1
      <3>2. Cardinality(r \ {x}) = Cardinality(r) - 1
        BY <3>1, <2>2, FS_RemoveElement
      <3> QED
        BY <3>2, <2>1
    <2>5. it[r \ {x}] = jt[r \ {x}]
      BY <2>4
    <2> QED
      BY <2>2, <2>3, <2>5
  <1> HIDE DEF T
  <1>5. Nat \subseteq T
    BY <1>3, <1>4, Induction
  <1>6. Cardinality(s) \in T
    BY <1>1, <1>5
  <1> QED
    BY <1>6 DEF T

LEMMA AddsType ==
    ASSUME NEW S, IsFiniteSet(S), NEW f, \A x \in S : f[x] \in Int,
           NEW it, Adds(it, f, S), NEW s \in SUBSET S
    PROVE  it[s] \in Int
  <1> DEFINE T == {n \in Nat : \A r \in SUBSET S : Cardinality(r) = n => it[r] \in Int}
  <1>1. \A r \in SUBSET S : /\ IsFiniteSet(r) /\ Cardinality(r) \in Nat
                            /\ Cardinality(r) = 0 <=> r = {}
                            /\ \A x \in r : /\ r \ {x} \in SUBSET S
                                            /\ Cardinality(r \ {x}) = Cardinality(r) - 1
    BY FS_Subset, FS_CardinalityType, FS_EmptySet, FS_RemoveElement
  <1>2. 0 \in T
    <2>1. {} \in SUBSET S
      OBVIOUS
    <2>2. it[{}] = 0
      BY <2>1 DEF Adds
    <2>3. \A r \in SUBSET S : Cardinality(r) = 0 => r = {}
      BY <1>1
    <2> QED
      BY <2>2, <2>3
  <1>3. ASSUME NEW n \in T PROVE n + 1 \in T
    <2> SUFFICES ASSUME NEW r \in SUBSET S, Cardinality(r) = n + 1
                 PROVE  it[r] \in Int
      OBVIOUS
    <2>1. n \in Nat /\ r # {}
      BY <1>1
    <2>2. PICK y \in r : it[r] = f[y] + it[r \ {y}]
      BY <2>1, AddsStep
    <2>3. it[r \ {y}] \in Int
      BY <1>1, <2>1
    <2> QED
      BY <2>2, <2>3
  <1> HIDE DEF T
  <1>4. Nat \subseteq T
    BY <1>2, <1>3, Induction
  <1>5. Cardinality(s) \in T
    BY <1>1, <1>4
  <1> QED
    BY <1>5 DEF T

(* The order in which the elements are taken out does not matter.          *)
LEMMA AddsAny ==
    ASSUME NEW S, IsFiniteSet(S), NEW f, \A x \in S : f[x] \in Int,
           NEW it, Adds(it, f, S), NEW s \in SUBSET S, NEW z \in s
    PROVE  it[s] = f[z] + it[s \ {z}]
  <1> DEFINE Good(r) == it[r] \in Int /\ \A x \in r : it[r] = f[x] + it[r \ {x}]
             T == {n \in Nat : \A r \in SUBSET S : Cardinality(r) = n => Good(r)}
  <1>1. \A r \in SUBSET S : /\ IsFiniteSet(r) /\ Cardinality(r) \in Nat
                            /\ Cardinality(r) = 0 <=> r = {}
                            /\ \A x \in r : /\ r \ {x} \in SUBSET S
                                            /\ Cardinality(r \ {x}) = Cardinality(r) - 1
    BY FS_Subset, FS_CardinalityType, FS_EmptySet, FS_RemoveElement
  <1>2. 0 \in T
    <2>1. {} \in SUBSET S
      OBVIOUS
    <2>2. it[{}] = 0
      BY <2>1 DEF Adds
    <2>3. \A r \in SUBSET S : Cardinality(r) = 0 => r = {}
      BY <1>1
    <2>4. Good({})
      BY <2>2
    <2> QED
      BY <2>3, <2>4, Zenon
  <1>3. ASSUME NEW n \in T PROVE n + 1 \in T
    <2> SUFFICES ASSUME NEW r \in SUBSET S, Cardinality(r) = n + 1
                 PROVE  Good(r)
      OBVIOUS
    <2>1. n \in Nat /\ r # {}
      BY <1>1
    <2>2. PICK y \in r : it[r] = f[y] + it[r \ {y}]
      BY <2>1, AddsStep
    <2>3. ASSUME NEW x \in r PROVE Good(r \ {x})
      <3>1. r \ {x} \in SUBSET S /\ Cardinality(r \ {x}) = n
        BY <1>1, <2>1
      <3>2. \A q \in SUBSET S : Cardinality(q) = n => Good(q)
        OBVIOUS
      <3> HIDE DEF Good
      <3> QED
        BY <3>1, <3>2
    <2>4. it[r] \in Int
      BY AddsType
    <2>5. ASSUME NEW x \in r, x # y PROVE it[r] = f[x] + it[r \ {x}]
      <3>1. it[r \ {y}] = f[x] + it[(r \ {y}) \ {x}]
        BY <2>3, <2>5
      <3>2. it[r \ {x}] = f[y] + it[(r \ {x}) \ {y}]
        BY <2>3, <2>5
      <3>3. (r \ {y}) \ {x} = (r \ {x}) \ {y}
        OBVIOUS
      <3>4. f[x] \in Int /\ f[y] \in Int /\ it[(r \ {x}) \ {y}] \in Int
        BY AddsType
      <3>5. \A a, b, c \in Int : a + (b + c) = b + (a + c)
        OBVIOUS
      <3>6. it[r] = f[y] + (f[x] + it[(r \ {x}) \ {y}])
        BY <2>2, <3>1, <3>3, Zenon
      <3>7. it[r] = f[x] + (f[y] + it[(r \ {x}) \ {y}])
        BY <3>4, <3>5, <3>6, Zenon
      <3> QED
        BY <3>2, <3>7, Zenon
    <2> QED
      BY <2>2, <2>4, <2>5
  <1> HIDE DEF T
  <1>4. Nat \subseteq T
    BY <1>2, <1>3, Induction
  <1>5. Cardinality(s) \in T
    BY <1>1, <1>4
  <1> QED
    BY <1>5 DEF T

LEMMA SumAdds ==
    ASSUME NEW S, IsFiniteSet(S), NEW f, \A x \in S : f[x] \in Int
    PROVE  \E it : Adds(it, f, S) /\ SumFunctionOnSet(f, S) = it[S]
  <1>1. \E it : Adds(it, f, S)
    BY AddsExists
  <1>2. Adds(CHOOSE it : Adds(it, f, S), f, S)
    BY <1>1
  <1>3. SumFunctionOnSet(f, S) = (CHOOSE it : Adds(it, f, S))[S]
    BY DEF SumFunctionOnSet, FoldFunctionOnSet, MapThenFoldSet, Adds
  <1> QED
    BY <1>2, <1>3

LEMMA SumEmpty ==
    ASSUME NEW f
    PROVE  SumFunctionOnSet(f, {}) = 0
  <1>1. IsFiniteSet({})
    BY FS_EmptySet
  <1>2. PICK it : Adds(it, f, {}) /\ SumFunctionOnSet(f, {}) = it[{}]
    BY <1>1, SumAdds
  <1>3. {} \in SUBSET {}
    OBVIOUS
  <1> QED
    BY <1>2, <1>3 DEF Adds

LEMMA SumType ==
    ASSUME NEW S, IsFiniteSet(S), NEW f, \A x \in S : f[x] \in Int
    PROVE  SumFunctionOnSet(f, S) \in Int
  <1>1. PICK it : Adds(it, f, S) /\ SumFunctionOnSet(f, S) = it[S]
    BY SumAdds
  <1> QED
    BY <1>1, AddsType

(* Only the values on the set matter.                                      *)
LEMMA SumAgree ==
    ASSUME NEW S, IsFiniteSet(S), NEW f, \A x \in S : f[x] \in Int,
           NEW g, \A x \in S : g[x] = f[x]
    PROVE  SumFunctionOnSet(g, S) = SumFunctionOnSet(f, S)
  <1>1. PICK it : Adds(it, f, S) /\ SumFunctionOnSet(f, S) = it[S]
    BY SumAdds
  <1>2. \A x \in S : g[x] \in Int
    OBVIOUS
  <1>3. PICK jt : Adds(jt, g, S) /\ SumFunctionOnSet(g, S) = jt[S]
    BY <1>2, SumAdds
  <1>4. jt[S] = it[S]
    <2>1. S \in SUBSET (S \cap S)
      OBVIOUS
    <2> QED
      BY <1>1, <1>3, <2>1, AddsUnique
  <1> QED
    BY <1>1, <1>3, <1>4

(* Any element can be taken out of a sum.                                  *)
LEMMA SumTake ==
    ASSUME NEW S, IsFiniteSet(S), NEW f, \A x \in S : f[x] \in Int, NEW x \in S
    PROVE  SumFunctionOnSet(f, S) = f[x] + SumFunctionOnSet(f, S \ {x})
  <1>1. PICK it : Adds(it, f, S) /\ SumFunctionOnSet(f, S) = it[S]
    BY SumAdds
  <1>2. IsFiniteSet(S \ {x}) /\ \A y \in S \ {x} : f[y] \in Int
    BY FS_RemoveElement
  <1>3. PICK jt : Adds(jt, f, S \ {x}) /\ SumFunctionOnSet(f, S \ {x}) = jt[S \ {x}]
    BY <1>2, SumAdds
  <1>4. it[S] = f[x] + it[S \ {x}]
    <2>1. ASSUME NEW s \in SUBSET S, NEW y \in s
          PROVE  it[s] = f[y] + it[s \ {y}]
      BY <1>1, AddsAny
    <2> QED
      BY <2>1
  <1>5. it[S \ {x}] = jt[S \ {x}]
    <2>1. S \ {x} \in SUBSET (S \cap (S \ {x}))
      OBVIOUS
    <2> QED
      BY <1>1, <1>2, <1>3, <2>1, AddsUnique
  <1> QED
    BY <1>1, <1>3, <1>4, <1>5

(* A sum changes by as much as the one value that changes.                 *)
LEMMA SumChange ==
    ASSUME NEW S, IsFiniteSet(S), NEW f, \A x \in S : f[x] \in Int,
           NEW g, NEW x \in S, g[x] \in Int, \A y \in S \ {x} : g[y] = f[y]
    PROVE  SumFunctionOnSet(g, S) = SumFunctionOnSet(f, S) - f[x] + g[x]
  <1>1. IsFiniteSet(S \ {x}) /\ \A y \in S : g[y] \in Int
    BY FS_RemoveElement
  <1>2. SumFunctionOnSet(f, S) = f[x] + SumFunctionOnSet(f, S \ {x})
    BY SumTake
  <1>3. SumFunctionOnSet(g, S) = g[x] + SumFunctionOnSet(g, S \ {x})
    BY <1>1, SumTake
  <1>4. SumFunctionOnSet(g, S \ {x}) = SumFunctionOnSet(f, S \ {x})
    BY <1>1, SumAgree
  <1>5. SumFunctionOnSet(f, S \ {x}) \in Int
    BY <1>1, SumType
  <1> QED
    BY <1>1, <1>2, <1>3, <1>4, <1>5

(* A sum of no negative values is at least any of them.                    *)
LEMMA SumNonnegative ==
    ASSUME NEW S, IsFiniteSet(S), NEW f, \A x \in S : f[x] \in Nat
    PROVE  /\ SumFunctionOnSet(f, S) \in Nat
           /\ \A x \in S : f[x] <= SumFunctionOnSet(f, S)
  <1> DEFINE T == {n \in Nat : \A s \in SUBSET S :
                      Cardinality(s) = n => SumFunctionOnSet(f, s) \in Nat}
  <1>1. \A r \in SUBSET S : /\ IsFiniteSet(r) /\ Cardinality(r) \in Nat
                            /\ Cardinality(r) = 0 <=> r = {}
                            /\ \A x \in r : /\ r \ {x} \in SUBSET S
                                            /\ Cardinality(r \ {x}) = Cardinality(r) - 1
    BY FS_Subset, FS_CardinalityType, FS_EmptySet, FS_RemoveElement
  <1>2. 0 \in T
    BY <1>1, SumEmpty
  <1>3. ASSUME NEW n \in T PROVE n + 1 \in T
    <2> SUFFICES ASSUME NEW s \in SUBSET S, Cardinality(s) = n + 1
                 PROVE  SumFunctionOnSet(f, s) \in Nat
      OBVIOUS
    <2>1. PICK x \in s : TRUE
      BY <1>1
    <2>2. SumFunctionOnSet(f, s \ {x}) \in Nat
      BY <1>1, <2>1
    <2>3. IsFiniteSet(s) /\ \A y \in s : f[y] \in Int
      BY <1>1
    <2>4. SumFunctionOnSet(f, s) = f[x] + SumFunctionOnSet(f, s \ {x})
      BY <2>3, <2>1, SumTake
    <2> QED
      BY <2>1, <2>2, <2>4
  <1> HIDE DEF T
  <1>4. Nat \subseteq T
    BY <1>2, <1>3, Induction
  <1>5. \A s \in SUBSET S : SumFunctionOnSet(f, s) \in Nat
    BY <1>1, <1>4 DEF T
  <1>6. ASSUME NEW x \in S PROVE f[x] <= SumFunctionOnSet(f, S)
    <2>1. SumFunctionOnSet(f, S) = f[x] + SumFunctionOnSet(f, S \ {x})
      BY SumTake
    <2>2. SumFunctionOnSet(f, S \ {x}) \in Nat
      BY <1>5
    <2> QED
      BY <2>1, <2>2
  <1> QED
    BY <1>5, <1>6

(* Nothing but zeros.                                                      *)
LEMMA SumZero ==
    ASSUME NEW S, IsFiniteSet(S), NEW f, \A x \in S : f[x] = 0
    PROVE  SumFunctionOnSet(f, S) = 0
  <1> DEFINE T == {n \in Nat : \A s \in SUBSET S :
                      Cardinality(s) = n => SumFunctionOnSet(f, s) = 0}
  <1>1. \A r \in SUBSET S : /\ IsFiniteSet(r) /\ Cardinality(r) \in Nat
                            /\ Cardinality(r) = 0 <=> r = {}
                            /\ \A x \in r : /\ r \ {x} \in SUBSET S
                                            /\ Cardinality(r \ {x}) = Cardinality(r) - 1
    BY FS_Subset, FS_CardinalityType, FS_EmptySet, FS_RemoveElement
  <1>2. 0 \in T
    BY <1>1, SumEmpty
  <1>3. ASSUME NEW n \in Nat, n \in T PROVE n + 1 \in T
    <2> SUFFICES ASSUME NEW s \in SUBSET S, Cardinality(s) = n + 1
                 PROVE  SumFunctionOnSet(f, s) = 0
      OBVIOUS
    <2>1. PICK x \in s : TRUE
      BY <1>1
    <2>2. SumFunctionOnSet(f, s \ {x}) = 0
      BY <1>1, <1>3, <2>1
    <2>3. IsFiniteSet(s) /\ \A y \in s : f[y] \in Int
      BY <1>1
    <2>4. SumFunctionOnSet(f, s) = f[x] + SumFunctionOnSet(f, s \ {x})
      BY <2>3, <2>1, SumTake
    <2> QED
      BY <2>1, <2>2, <2>4
  <1> HIDE DEF T
  <1>4. Nat \subseteq T
    BY <1>2, <1>3, Induction
  <1> QED
    BY <1>1, <1>4 DEF T
-----------------------------------------------------------------------------
(***************************************************************************)
(* Sums of sequences                                                       *)
(***************************************************************************)
LEMMA SumSeqEmpty == SumFunction(<< >>) = 0
  <1>1. DOMAIN << >> = {}
    OBVIOUS
  <1> QED
    BY <1>1, SumEmpty DEF SumFunction

LEMMA SumAppend ==
    ASSUME NEW s \in Seq(Int), NEW e \in Int
    PROVE  SumFunction(Append(s, e)) = SumFunction(s) + e
  <1> DEFINE n == Len(s)  t == Append(s, e)
  <1>1. /\ n \in Nat /\ DOMAIN s = 1 .. n /\ DOMAIN t = 1 .. n + 1
        /\ \A i \in 1 .. n : s[i] \in Int /\ t[i] = s[i]
        /\ t[n + 1] = e
    OBVIOUS
  <1> HIDE DEF n, t
  <1>2. /\ IsFiniteSet(1 .. n + 1) /\ IsFiniteSet(1 .. n)
        /\ (1 .. n + 1) \ {n + 1} = 1 .. n /\ n + 1 \in 1 .. n + 1
    <2>1. n \in Int /\ n + 1 \in Int /\ 1 \in Int
      BY <1>1
    <2>2. IsFiniteSet(1 .. n + 1) /\ IsFiniteSet(1 .. n)
      BY <2>1, FS_Interval
    <2>3. (1 .. n + 1) \ {n + 1} = 1 .. n /\ n + 1 \in 1 .. n + 1
      BY <1>1
    <2> QED
      BY <2>2, <2>3
  <1>3. \A i \in 1 .. n + 1 : t[i] \in Int
    BY <1>1
  <1>4. SumFunctionOnSet(t, 1 .. n + 1)
           = t[n + 1] + SumFunctionOnSet(t, (1 .. n + 1) \ {n + 1})
    BY <1>2, <1>3, SumTake, Zenon
  <1>5. SumFunctionOnSet(t, 1 .. n) = SumFunctionOnSet(s, 1 .. n)
    BY <1>1, <1>2, SumAgree
  <1>6. SumFunctionOnSet(s, 1 .. n) \in Int
    BY <1>1, <1>2, SumType
  <1>7. SumFunction(t) = SumFunctionOnSet(t, 1 .. n + 1)
    BY <1>1 DEF SumFunction
  <1>8. SumFunction(s) = SumFunctionOnSet(s, 1 .. n)
    BY <1>1 DEF SumFunction
  <1>9. SumFunction(t) = e + SumFunction(s)
    BY <1>1, <1>2, <1>4, <1>5, <1>7, <1>8, Zenon
  <1>10. SumFunction(t) = SumFunction(s) + e
    BY <1>6, <1>8, <1>9
  <1> QED
    BY <1>10 DEF t

LEMMA SumSeqType ==
    ASSUME NEW s \in Seq(Int)
    PROVE  SumFunction(s) \in Int
  <1>1. IsFiniteSet(DOMAIN s) /\ \A i \in DOMAIN s : s[i] \in Int
    BY FS_Interval
  <1> QED
    BY <1>1, SumType DEF SumFunction

LEMMA TailOfAppend ==
    ASSUME NEW S, NEW s \in Seq(S), NEW e \in S, s # << >>
    PROVE  Tail(Append(s, e)) = Append(Tail(s), e)
  OBVIOUS

(* The end of a sequence and the rest, and a sequence of one element.      *)
LEMMA AppendFacts ==
    ASSUME NEW S, NEW s \in Seq(S), NEW e \in S
    PROVE  /\ Append(s, e) \in Seq(S) /\ Append(s, e) # << >>
           /\ Len(s) \in Nat /\ Len(Append(s, e)) = Len(s) + 1
           /\ Append(s, e)[Len(s) + 1] = e
           /\ \A i \in 1 .. Len(s) : Append(s, e)[i] = s[i]
  OBVIOUS

LEMMA LastOut ==
    ASSUME NEW S, NEW s \in Seq(S), s # << >>
    PROVE  \E r \in Seq(S), e \in S : s = Append(r, e) /\ Len(r) = Len(s) - 1
  <1>1. PICK r \in Seq(S), e \in S : s = Append(r, e)
    BY SequenceEmptyOrAppend
  <1> QED
    BY <1>1

LEMMA Associativity ==
    \A S : \A a, b, c \in Seq(S) : (a \o b) \o c = a \o (b \o c)
  <1> SUFFICES ASSUME NEW S, NEW a \in Seq(S), NEW b \in Seq(S), NEW c \in Seq(S)
               PROVE  (a \o b) \o c = a \o (b \o c)
    OBVIOUS
  <1> QED
    BY ConcatAssociative

LEMMA OneElement ==
    ASSUME NEW S, NEW s \in Seq(S), Len(s) = 1
    PROVE  /\ s[1] \in S /\ s = Append(<< >>, s[1])
           /\ Head(s) = s[1] /\ Tail(s) = << >>
  <1>1. s[1] \in S
    BY ElementOfSeq
  <1>2. s = Append(<< >>, s[1])
    <2>1. Len(Append(<< >>, s[1])) = 1 /\ Append(<< >>, s[1])[1] = s[1]
      OBVIOUS
    <2>2. Append(<< >>, s[1]) \in Seq(S)
      BY <1>1
    <2> QED
      BY <1>1, <2>1, <2>2, SeqEqual
  <1>3. /\ Head(Append(<< >>, s[1])) = s[1]
        /\ Tail(Append(<< >>, s[1])) = << >>
    OBVIOUS
  <1> QED
    BY <1>1, <1>2, <1>3, Zenon

LEMMA SumTail ==
    ASSUME NEW s \in Seq(Int), s # << >>
    PROVE  SumFunction(s) = Head(s) + SumFunction(Tail(s))
  <1> DEFINE T == {n \in Nat : \A t \in Seq(Int) : Len(t) = n + 1 =>
                      SumFunction(t) = Head(t) + SumFunction(Tail(t))}
  <1>1. ASSUME NEW t \in Seq(Int), t # << >>
        PROVE  \E r \in Seq(Int), e \in Int : t = Append(r, e) /\ Len(r) = Len(t) - 1
    BY <1>1, LastOut, Zenon
  <1>2. 0 \in T
    <2> SUFFICES ASSUME NEW t \in Seq(Int), Len(t) = 1
                 PROVE  SumFunction(t) = Head(t) + SumFunction(Tail(t))
      OBVIOUS
    <2>1. PICK e \in Int : t = Append(<< >>, e)
      BY OneElement
    <2>2. Head(t) = e /\ Tail(t) = << >> /\ << >> \in Seq(Int)
      BY <2>1
    <2>3. SumFunction(t) = SumFunction(<< >>) + e
      BY <2>1, <2>2, SumAppend
    <2>4. SumFunction(<< >>) = 0
      BY SumSeqEmpty
    <2>5. Head(t) + 0 = 0 + e
      BY <2>2
    <2> QED
      BY <2>2, <2>3, <2>4, <2>5, Zenon
  <1>3. ASSUME NEW n \in T PROVE n + 1 \in T
    <2> SUFFICES ASSUME NEW t \in Seq(Int), Len(t) = n + 2
                 PROVE  SumFunction(t) = Head(t) + SumFunction(Tail(t))
      OBVIOUS
    <2>1. t # << >> /\ n \in Nat
      OBVIOUS
    <2>2. PICK r \in Seq(Int), e \in Int : t = Append(r, e) /\ Len(r) = Len(t) - 1
      BY <1>1, <2>1
    <2>3. /\ r # << >> /\ Len(r) = n + 1 /\ Head(t) = Head(r) /\ Head(r) \in Int
          /\ Tail(r) \in Seq(Int)
      BY <2>1, <2>2
    <2>4. Tail(t) = Append(Tail(r), e)
      BY <2>2, <2>3, TailOfAppend
    <2>5. SumFunction(r) = Head(r) + SumFunction(Tail(r))
      BY <2>3
    <2> HIDE DEF T
    <2>6. SumFunction(t) = SumFunction(r) + e
      BY <2>2, SumAppend
    <2>7. SumFunction(Tail(t)) = SumFunction(Tail(r)) + e
      BY <2>3, <2>4, SumAppend
    <2>8. SumFunction(Tail(r)) \in Int
      BY <2>3, SumSeqType
    <2> QED
      BY <2>3, <2>5, <2>6, <2>7, <2>8
  <1> HIDE DEF T
  <1>4. Nat \subseteq T
    BY <1>2, <1>3, Induction
  <1>5. Len(s) - 1 \in T
    BY <1>4
  <1> QED
    BY <1>5 DEF T

-----------------------------------------------------------------------------
(***************************************************************************)
(* Flattened sequences                                                     *)
(***************************************************************************)
(* What joining the members of Q, which are sequences, has to fulfil.       *)
Joinable(Q) ==
    /\ << >> \in Q
    /\ \A a, b \in Q : a \o b \in Q
    /\ \A a \in Q : << >> \o a = a /\ a \o << >> = a
    /\ \A a, b, c \in Q : (a \o b) \o c = a \o (b \o c)

LEMMA SeqJoinable ==
    ASSUME NEW S
    PROVE  Joinable(Seq(S))
  <1>1. << >> \in Seq(S)
    OBVIOUS
  <1>2. \A a, b \in Seq(S) : a \o b \in Seq(S)
    BY ConcatProperties
  <1>3. \A a \in Seq(S) : << >> \o a = a /\ a \o << >> = a
    BY ConcatEmptySeq
  <1>4. \A a, b, c \in Seq(S) : (a \o b) \o c = a \o (b \o c)
    BY Associativity
  <1> QED
    BY <1>1, <1>2, <1>3, <1>4 DEF Joinable

(* fl is the function by which FlattenSeq joins the sequences ss.          *)
Joins(fl, ss) ==
    fl = [i \in 1 .. Len(ss) |-> IF i = 1 THEN ss[i] ELSE fl[i - 1] \o ss[i]]

LEMMA JoinsExists ==
    ASSUME NEW Q, Joinable(Q), NEW ss \in Seq(Q)
    PROVE  \E fl \in [1 .. Len(ss) -> Q] : Joins(fl, ss)
  <1> DEFINE Eq(fl, i) == fl[i] = IF i = 1 THEN ss[i] ELSE fl[i - 1] \o ss[i]
             T == {n \in Nat : \E fl \in [1 .. Len(ss) -> Q] :
                      \A i \in 1 .. Len(ss) : i <= n => Eq(fl, i)}
  <1>1. 0 \in T
    <2>1. ss \in [1 .. Len(ss) -> Q]
      OBVIOUS
    <2>2. \A i \in 1 .. Len(ss) : ~(i <= 0)
      OBVIOUS
    <2> QED
      BY <2>1, <2>2
  <1>2. ASSUME NEW n \in T PROVE n + 1 \in T
    <2>1. PICK fl \in [1 .. Len(ss) -> Q] :
             \A i \in 1 .. Len(ss) : i <= n => Eq(fl, i)
      OBVIOUS
    <2> DEFINE gl == [i \in 1 .. Len(ss) |-> IF i <= n THEN fl[i]
                        ELSE IF i = 1 THEN ss[i] ELSE fl[i - 1] \o ss[i]]
    <2>2. gl \in [1 .. Len(ss) -> Q]
      <3>1. ASSUME NEW i \in 1 .. Len(ss)
            PROVE  gl[i] \in Q
        <4>1. fl[i] \in Q /\ ss[i] \in Q
          BY ElementOfSeq
        <4>2. ASSUME i # 1 PROVE fl[i - 1] \o ss[i] \in Q
          <5>1. i - 1 \in 1 .. Len(ss)
            BY <4>2
          <5>2. fl[i - 1] \in Q
            BY <5>1
          <5> QED
            BY <4>1, <5>2 DEF Joinable
        <4> QED
          BY <4>1, <4>2, Zenon
      <3> QED
        BY <3>1
    <2>3. ASSUME NEW i \in 1 .. Len(ss), i <= n + 1
          PROVE  Eq(gl, i)
      <3>1. CASE i <= n
        <4>1. gl[i] = fl[i] /\ (i # 1 => gl[i - 1] = fl[i - 1])
          BY <3>1
        <4> QED
          BY <2>1, <3>1, <4>1, Zenon
      <3>2. CASE ~(i <= n)
        <4>1. i # 1 => gl[i - 1] = fl[i - 1]
          BY <2>3
        <4>2. gl[i] = IF i = 1 THEN ss[i] ELSE fl[i - 1] \o ss[i]
          BY <3>2
        <4> QED
          BY <4>1, <4>2, Zenon
      <3> QED
        BY <3>1, <3>2
    <2> HIDE DEF gl
    <2>4. \A i \in 1 .. Len(ss) : i <= n + 1 => Eq(gl, i)
      BY <2>3
    <2>5. n + 1 \in Nat
      OBVIOUS
    <2> HIDE DEF Eq
    <2> QED
      BY <2>2, <2>4, <2>5
  <1> HIDE DEF T
  <1>3. Nat \subseteq T
    BY <1>1, <1>2, Induction
  <1>4. Len(ss) \in T
    BY <1>3
  <1>5. PICK fl \in [1 .. Len(ss) -> Q] :
           \A i \in 1 .. Len(ss) : i <= Len(ss) => Eq(fl, i)
    BY <1>4 DEF T
  <1>6. fl = [i \in 1 .. Len(ss) |-> fl[i]]
    OBVIOUS
  <1>7. \A i \in 1 .. Len(ss) : i <= Len(ss)
    OBVIOUS
  <1>8. fl = [i \in 1 .. Len(ss) |-> IF i = 1 THEN ss[i] ELSE fl[i - 1] \o ss[i]]
    BY <1>5, <1>6, <1>7, Zenon
  <1> QED
    BY <1>8 DEF Joins

LEMMA JoinsAt ==
    ASSUME NEW ss, NEW fl, Joins(fl, ss), NEW i \in 1 .. Len(ss)
    PROVE  fl[i] = IF i = 1 THEN ss[i] ELSE fl[i - 1] \o ss[i]
  <1> DEFINE V(k) == IF k = 1 THEN ss[k] ELSE fl[k - 1] \o ss[k]
  <1>1. fl = [k \in 1 .. Len(ss) |-> V(k)]
    BY DEF Joins
  <1> HIDE DEF V
  <1>2. fl[i] = V(i)
    BY <1>1
  <1> QED
    BY <1>2 DEF V

LEMMA JoinsUnique ==
    ASSUME NEW Q, Joinable(Q), NEW ss \in Seq(Q), NEW tt \in Seq(Q),
           NEW fl, Joins(fl, ss), NEW gl, Joins(gl, tt),
           NEW n \in Nat, n <= Len(ss), n <= Len(tt),
           \A i \in 1 .. n : ss[i] = tt[i], n # 0
    PROVE  fl[n] = gl[n]
  <1> DEFINE T == {k \in Nat : k + 1 <= n => fl[k + 1] = gl[k + 1]}
  <1>1. /\ \A i \in 1 .. n : fl[i] = IF i = 1 THEN ss[i] ELSE fl[i - 1] \o ss[i]
        /\ \A i \in 1 .. n : gl[i] = IF i = 1 THEN tt[i] ELSE gl[i - 1] \o tt[i]
    <2>1. \A i \in 1 .. n : i \in 1 .. Len(ss) /\ i \in 1 .. Len(tt)
      OBVIOUS
    <2> QED
      BY <2>1, JoinsAt
  <1>2. 0 \in T
    BY <1>1
  <1>3. ASSUME NEW k \in T PROVE k + 1 \in T
    BY <1>1
  <1> HIDE DEF T
  <1>4. Nat \subseteq T
    BY <1>2, <1>3, Induction
  <1>5. n - 1 \in T
    BY <1>4
  <1> QED
    BY <1>5 DEF T

LEMMA FlattenJoins ==
    ASSUME NEW Q, Joinable(Q), NEW ss \in Seq(Q), ss # << >>
    PROVE  \E fl : Joins(fl, ss) /\ FlattenSeq(ss) = fl[Len(ss)]
  <1>1. Joins(CHOOSE fl : Joins(fl, ss), ss)
    BY JoinsExists
  <1>2. FlattenSeq(ss) = (CHOOSE fl : Joins(fl, ss))[Len(ss)]
    BY DEF FlattenSeq, Joins
  <1> QED
    BY <1>1, <1>2

LEMMA FlattenEmpty == FlattenSeq(<< >>) = << >>
  BY DEF FlattenSeq

LEMMA FlattenType ==
    ASSUME NEW Q, Joinable(Q), NEW ss \in Seq(Q)
    PROVE  FlattenSeq(ss) \in Q
  <1>1. CASE ss = << >>
    BY <1>1, FlattenEmpty DEF Joinable
  <1>2. CASE ss # << >>
    <2>1. PICK fl : Joins(fl, ss) /\ FlattenSeq(ss) = fl[Len(ss)]
      BY <1>2, FlattenJoins
    <2>2. PICK gl \in [1 .. Len(ss) -> Q] : Joins(gl, ss)
      BY JoinsExists
    <2>3. Len(ss) \in Nat /\ Len(ss) # 0
      BY <1>2
    <2>4. fl[Len(ss)] = gl[Len(ss)]
      BY <2>1, <2>2, <2>3, JoinsUnique
    <2>5. gl[Len(ss)] \in Q
      <3>1. Len(ss) \in 1 .. Len(ss)
        BY <2>3
      <3> HIDE DEF Joins
      <3> QED
        BY <3>1, Zenon
    <2> QED
      BY <2>1, <2>4, <2>5, Zenon
  <1> QED
    BY <1>1, <1>2

LEMMA FlattenAppend ==
    ASSUME NEW Q, Joinable(Q), NEW ss \in Seq(Q), NEW e \in Q
    PROVE  FlattenSeq(Append(ss, e)) = FlattenSeq(ss) \o e
  <1> DEFINE tt == Append(ss, e)
  <1>1. /\ tt \in Seq(Q) /\ tt # << >> /\ Len(tt) = Len(ss) + 1
        /\ tt[Len(ss) + 1] = e /\ \A i \in 1 .. Len(ss) : tt[i] = ss[i]
        /\ Len(ss) \in Nat
    BY AppendFacts
  <1> HIDE DEF tt
  <1>2. PICK gl : Joins(gl, tt) /\ FlattenSeq(tt) = gl[Len(tt)]
    BY <1>1, FlattenJoins
  <1>3. CASE ss = << >>
    <2>1. gl[Len(tt)] = e
      BY <1>1, <1>2, <1>3 DEF Joins
    <2> QED
      <3>1. FlattenSeq(ss) \o e = << >> \o e
        BY <1>3, FlattenEmpty, Zenon
      <3>2. << >> \o e = e
        BY DEF Joinable
      <3> QED
        BY <1>2, <2>1, <3>1, <3>2, Zenon DEF tt
  <1>4. CASE ss # << >>
    <2>1. PICK fl : Joins(fl, ss) /\ FlattenSeq(ss) = fl[Len(ss)]
      BY <1>4, FlattenJoins
    <2>2. Len(ss) # 0 /\ Len(ss) <= Len(tt)
      BY <1>1, <1>4
    <2>3. fl[Len(ss)] = gl[Len(ss)]
      <3>1. Len(ss) <= Len(ss)
        BY <1>1
      <3>2. \A i \in 1 .. Len(ss) : ss[i] = tt[i]
        BY <1>1
      <3> QED
        BY <1>1, <1>2, <2>1, <2>2, <3>1, <3>2, JoinsUnique
    <2>4. gl[Len(tt)] = gl[Len(ss)] \o e
      <3>1. PICK k \in 1 .. Len(tt) : k = Len(tt) /\ k # 1 /\ k - 1 = Len(ss)
        BY <1>1, <2>2
      <3>2. gl[k] = IF k = 1 THEN tt[k] ELSE gl[k - 1] \o tt[k]
        BY <1>2, JoinsAt
      <3>3. gl[Len(tt)] = gl[Len(ss)] \o tt[Len(tt)]
        BY <3>1, <3>2, Zenon
      <3> QED
        BY <1>1, <3>3, Zenon
    <2> QED
      BY <1>2, <2>1, <2>3, <2>4 DEF tt
  <1> QED
    BY <1>3, <1>4

LEMMA FlattenCons ==
    ASSUME NEW Q, Joinable(Q), NEW ss \in Seq(Q), ss # << >>
    PROVE  FlattenSeq(ss) = Head(ss) \o FlattenSeq(Tail(ss))
  <1> DEFINE T == {n \in Nat : \A tt \in Seq(Q) : Len(tt) = n + 1 =>
                      FlattenSeq(tt) = Head(tt) \o FlattenSeq(Tail(tt))}
  <1>1. ASSUME NEW tt \in Seq(Q), tt # << >>
        PROVE  \E rr \in Seq(Q), e \in Q :
                  tt = Append(rr, e) /\ Len(rr) = Len(tt) - 1
    BY <1>1, LastOut, Zenon
  <1>2. 0 \in T
    <2> SUFFICES ASSUME NEW tt \in Seq(Q), Len(tt) = 1
                 PROVE  FlattenSeq(tt) = Head(tt) \o FlattenSeq(Tail(tt))
      OBVIOUS
    <2>1. PICK e \in Q : tt = Append(<< >>, e) /\ Head(tt) = e /\ Tail(tt) = << >>
      BY OneElement
    <2>2. << >> \in Seq(Q)
      OBVIOUS
    <2>3. FlattenSeq(tt) = << >> \o e
      BY <2>1, <2>2, FlattenAppend, FlattenEmpty
    <2>4. << >> \o e = e \o << >>
      BY DEF Joinable
    <2> QED
      BY <2>1, <2>3, <2>4, FlattenEmpty, Zenon
  <1>3. ASSUME NEW n \in T PROVE n + 1 \in T
    <2> SUFFICES ASSUME NEW tt \in Seq(Q), Len(tt) = n + 2
                 PROVE  FlattenSeq(tt) = Head(tt) \o FlattenSeq(Tail(tt))
      OBVIOUS
    <2>1. tt # << >> /\ n \in Nat
      OBVIOUS
    <2>2. PICK rr \in Seq(Q), e \in Q :
             tt = Append(rr, e) /\ Len(rr) = Len(tt) - 1
      BY <1>1, <2>1
    <2>3. /\ rr # << >> /\ Len(rr) = n + 1 /\ Head(tt) = Head(rr) /\ Head(rr) \in Q
          /\ Tail(rr) \in Seq(Q)
      BY <2>1, <2>2
    <2>4. Tail(tt) = Append(Tail(rr), e)
      BY <2>2, <2>3, TailOfAppend
    <2>5. FlattenSeq(rr) = Head(rr) \o FlattenSeq(Tail(rr))
      BY <2>3
    <2> HIDE DEF T
    <2>6. FlattenSeq(tt) = FlattenSeq(rr) \o e
      BY <2>2, FlattenAppend
    <2>7. FlattenSeq(Tail(tt)) = FlattenSeq(Tail(rr)) \o e
      BY <2>3, <2>4, FlattenAppend
    <2>8. FlattenSeq(Tail(rr)) \in Q
      BY <2>3, FlattenType
    <2>9. (Head(rr) \o FlattenSeq(Tail(rr))) \o e = Head(rr) \o (FlattenSeq(Tail(rr)) \o e)
      <3>1. \A a, b, c \in Q : (a \o b) \o c = a \o (b \o c)
        BY DEF Joinable
      <3> QED
        BY <2>3, <2>8, <3>1, Zenon
    <2> QED
      BY <2>3, <2>5, <2>6, <2>7, <2>9
  <1> HIDE DEF T
  <1>4. Nat \subseteq T
    BY <1>2, <1>3, Induction
  <1>5. Len(ss) - 1 \in T
    BY <1>4
  <1> QED
    BY <1>5 DEF T
-----------------------------------------------------------------------------
(***************************************************************************)
(* Loops                                                                   *)
(***************************************************************************)
(* The states of a loop of L turns, which step leads from one to the next. *)
Turns(t, D, start, step, L) ==
    /\ t \in [0 .. L -> D]
    /\ \A k \in 0 .. L : t[k] = IF k = 0 THEN start ELSE step[t[k - 1]]

LEMMA TurnsExist ==
    ASSUME NEW D, NEW start \in D, NEW step, \A d \in D : step[d] \in D, NEW L \in Nat
    PROVE  \E t : Turns(t, D, start, step, L)
  <1> DEFINE V(t, k) == IF k = 0 THEN start ELSE step[t[k - 1]]
             T == {n \in Nat : \E t \in [0 .. L -> D] :
                      \A k \in 0 .. L : k <= n => t[k] = V(t, k)}
  <1>1. 0 \in T
    <2>1. [k \in 0 .. L |-> start] \in [0 .. L -> D]
      OBVIOUS
    <2>2. \A k \in 0 .. L : k <= 0 => [j \in 0 .. L |-> start][k] = start /\ k = 0
      OBVIOUS
    <2> QED
      BY <2>1, <2>2
  <1>2. ASSUME NEW n \in T PROVE n + 1 \in T
    <2>1. PICK t \in [0 .. L -> D] : \A k \in 0 .. L : k <= n => t[k] = V(t, k)
      OBVIOUS
    <2> DEFINE u == [k \in 0 .. L |-> IF k <= n THEN t[k] ELSE step[t[k - 1]]]
    <2>2. n \in Nat
      OBVIOUS
    <2>3. u \in [0 .. L -> D]
      <3> SUFFICES ASSUME NEW k \in 0 .. L, ~(k <= n) PROVE step[t[k - 1]] \in D
        OBVIOUS
      <3>1. k - 1 \in 0 .. L
        BY <2>2
      <3> QED
        BY <3>1
    <2>4. ASSUME NEW k \in 0 .. L, k <= n + 1 PROVE u[k] = V(u, k)
      <3>1. CASE k <= n
        <4>1. u[k] = t[k] /\ (k # 0 => u[k - 1] = t[k - 1])
          BY <3>1
        <4> QED
          BY <2>1, <3>1, <4>1
      <3>2. CASE ~(k <= n)
        BY <2>2, <2>4, <3>2
      <3> QED
        BY <3>1, <3>2
    <2> HIDE DEF u, V
    <2> QED
      BY <2>2, <2>3, <2>4
  <1> HIDE DEF T
  <1>3. L \in T
    BY <1>1, <1>2, Induction
  <1>4. PICK t \in [0 .. L -> D] : \A k \in 0 .. L : k <= L => t[k] = V(t, k)
    BY <1>3 DEF T
  <1>5. Turns(t, D, start, step, L)
    BY <1>4 DEF Turns
  <1> QED
    BY <1>5

(* The two parts of a concatenation.                                       *)
LEMMA ConcatParts ==
    ASSUME NEW S, NEW s \in Seq(S), NEW t \in Seq(S)
    PROVE  /\ SubSeq(s \o t, 1, Len(s)) = s
           /\ SubSeq(s \o t, Len(s) + 1, Len(s \o t)) = t
           /\ Len(s \o t) = Len(s) + Len(t) /\ Len(s) \in Nat /\ Len(t) \in Nat
  <1> DEFINE c == s \o t
             u == SubSeq(c, 1, Len(s))  v == SubSeq(c, Len(s) + 1, Len(c))
  <1>1. /\ c \in Seq(S) /\ Len(c) = Len(s) + Len(t)
        /\ Len(s) \in Nat /\ Len(t) \in Nat
        /\ \A i \in 1 .. Len(s) : c[i] = s[i]
        /\ \A i \in 1 .. Len(t) : c[Len(s) + i] = t[i]
    OBVIOUS
  <1> HIDE DEF c
  <1>2. u \in Seq(S) /\ Len(u) = Len(s) /\ \A i \in 1 .. Len(s) : u[i] = s[i]
    BY <1>1
  <1>3. v \in Seq(S) /\ Len(v) = Len(t) /\ \A i \in 1 .. Len(t) : v[i] = t[i]
    BY <1>1
  <1> HIDE DEF u, v
  <1>4. u = s /\ v = t
    BY <1>2, <1>3, SeqEqual
  <1> QED
    BY <1>1, <1>4 DEF u, v, c
=============================================================================
