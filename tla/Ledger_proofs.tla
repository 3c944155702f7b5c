---------------------------- MODULE Ledger_proofs ----------------------------
(***************************************************************************)
(* The lemmas the queries have in common, for ledgers of any length: the   *)
(* lists the store hands out, the row used for a transaction, and sums.    *)
(* The order in which Go walks a map does not show in a sum, and the sums  *)
(* of the parts of a ledger make the sum of the whole.                     *)
(*                                                                         *)
(* The sums rest on one principle: in a finite set, what holds of a subset *)
(* whenever it holds of all smaller ones holds of the whole.               *)
(***************************************************************************)
EXTENDS Reconcile, Cashflow, Fees_proofs, FiniteSetTheorems, WellFoundedInduction

-----------------------------------------------------------------------------
(***************************************************************************)
(* Induction over the subsets of a finite set.                             *)
(***************************************************************************)
\* A family that contains a set as soon as it contains its proper subsets
\* contains every subset of a finite set.
LEMMA SubsetInduction ==
    ASSUME NEW S, IsFiniteSet(S), NEW G,
           \A T \in SUBSET S : (\A U \in SUBSET T : U # T => U \in G) => T \in G
    PROVE  \A T \in SUBSET S : T \in G
<1> DEFINE Bad == {T \in SUBSET S : T \notin G}
<1> SUFFICES ASSUME Bad # {} PROVE FALSE
  OBVIOUS
<1>1. IsWellFoundedOn(StrictSubsetOrdering(S), FiniteSubsetsOf(S))
  BY FS_StrictSubsetOrderingWellFounded
<1>2. Bad \subseteq FiniteSubsetsOf(S)
  BY FS_FiniteSubsetsOfFinite
<1>3. PICK T \in Bad : \A U \in Bad : <<U, T>> \notin StrictSubsetOrdering(S)
  <2> HIDE DEF Bad
  <2>q. QED BY <1>1, <1>2, WFMin
<1>4. ASSUME NEW U \in SUBSET T, U # T
      PROVE  U \in G
  <2>1. U \in SUBSET S /\ T \in SUBSET S
    BY <1>3
  <2>2. <<U, T>> \in StrictSubsetOrdering(S)
    BY <1>4, <2>1 DEF StrictSubsetOrdering
  <2>q. QED BY <1>3, <2>1, <2>2
<1>q. QED BY <1>3, <1>4

\* A family that contains the empty set, and with a set every set that has one
\* element more, contains every subset of a finite set.
LEMMA ElementInduction ==
    ASSUME NEW S, IsFiniteSet(S), NEW G, {} \in G,
           \A T \in SUBSET S : \A x \in S \ T : T \in G => T \cup {x} \in G
    PROVE  \A T \in SUBSET S : T \in G
<1>1. ASSUME NEW T \in SUBSET S, \A U \in SUBSET T : U # T => U \in G
      PROVE  T \in G
  <2>1. CASE T = {}
    BY <2>1
  <2>2. CASE T # {}
    <3>1. PICK x : x \in T
      BY <2>2
    <3>2. T \ {x} \in G
      BY <1>1, <3>1
    <3>3. (T \ {x}) \cup {x} \in G
      BY <3>1, <3>2
    <3>4. (T \ {x}) \cup {x} = T
      BY <3>1
    <3>q. QED BY <3>3, <3>4
  <2>q. QED BY <2>1, <2>2
<1>q. QED BY <1>1, SubsetInduction

-----------------------------------------------------------------------------
(***************************************************************************)
(* Rows in a sequence.                                                     *)
(***************************************************************************)
\* A finite set laid out as a sequence: all of it, once, and nothing else.
LEMMA Listing ==
    ASSUME NEW S, IsFiniteSet(S)
    PROVE  /\ SeqExt!SetToSeq(S) \in Seq(S)
           /\ \A x \in S : \E i \in DOMAIN SeqExt!SetToSeq(S) : SeqExt!SetToSeq(S)[i] = x
           /\ \A i, j \in DOMAIN SeqExt!SetToSeq(S) :
                 SeqExt!SetToSeq(S)[i] = SeqExt!SetToSeq(S)[j] => i = j
<1> DEFINE n == Cardinality(S)
           f == SeqExt!SetToSeq(S)
<1>1. n \in Nat /\ ExistsBijection(1 .. n, S)
  BY FS_CardinalityType
<1>2. \E g \in [1 .. n -> S] : \A a, b \in DOMAIN g : g[a] = g[b] => a = b
  BY <1>1 DEF ExistsBijection, Bijection, Injection, IsInjective
<1>3. f \in [1 .. n -> S] /\ \A a, b \in DOMAIN f : f[a] = f[b] => a = b
  <2>1. SeqExt!Cardinality(S) = n
    BY DEF SeqExt!Cardinality, Cardinality
  <2>2. f = CHOOSE g \in [1 .. n -> S] : \A a, b \in DOMAIN g : g[a] = g[b] => a = b
    BY <2>1 DEF SeqExt!SetToSeq, SeqExt!IsInjective
  <2> HIDE DEF f, n
  <2>q. QED BY <1>2, <2>2
<1> HIDE DEF f
<1>4. f \in Injection(1 .. n, S)
  BY <1>3 DEF Injection, IsInjective
<1>5. Cardinality(1 .. n) = n
  BY <1>1, FS_Interval
<1>6. f \in Surjection(1 .. n, S)
  BY <1>4, <1>5, FS_Injection
<1>7. f \in Seq(S)
  BY <1>1, <1>3
<1>q. QED BY <1>3, <1>6, <1>7 DEF f, Surjection

\* A set of positions that is not empty has a first one.
LEMMA FirstPosition ==
    ASSUME NEW n \in Nat, NEW S \in SUBSET (1 .. n), S # {}
    PROVE  \E i \in S : \A j \in S : i <= j
<1> DEFINE R == {p \in Nat \X Nat : p[1] < p[2]}
<1>1. IsWellFoundedOn(R, Nat)
  BY NatLessThanWellFounded DEF OpToRel
<1>2. S \subseteq Nat
  OBVIOUS
<1> HIDE DEF R
<1>3. PICK i \in S : \A j \in S : <<j, i>> \notin R
  BY <1>1, <1>2, WFMin
<1>4. \A j \in S : ~(j < i)
  BY <1>2, <1>3 DEF R
<1>q. QED BY <1>2, <1>4

\* The row used for a transaction is the first one that matches, and it has
\* one exactly when one matches.
LEMMA UsedRowSpec ==
    ASSUME NEW R, NEW rows \in Seq(R), NEW t
    PROVE  /\ UsedRow(t, rows) # NoRow <=> \E i \in DOMAIN rows : Matches(t, rows[i])
           /\ UsedRow(t, rows) # NoRow =>
                 /\ UsedRow(t, rows) \in DOMAIN rows
                 /\ Matches(t, rows[UsedRow(t, rows)])
                 /\ \A j \in DOMAIN rows : Matches(t, rows[j]) => UsedRow(t, rows) <= j
<1> DEFINE matching == {i \in DOMAIN rows : Matches(t, rows[i])}
<1>1. matching \in SUBSET (1 .. Len(rows)) /\ Len(rows) \in Nat
  OBVIOUS
<1>2. UsedRow(t, rows) = IF matching = {} THEN NoRow
                         ELSE CHOOSE i \in matching : \A j \in matching : i <= j
  BY DEF UsedRow
<1> HIDE DEF matching
<1>3. CASE matching = {}
  BY <1>2, <1>3 DEF matching
<1>4. CASE matching # {}
  <2>1. \E i \in matching : \A j \in matching : i <= j
    BY <1>1, <1>4, FirstPosition
  <2>2. UsedRow(t, rows) \in matching /\ \A j \in matching : UsedRow(t, rows) <= j
    BY <1>2, <1>4, <2>1
  <2>3. UsedRow(t, rows) # NoRow
    BY <1>1, <2>2 DEF NoRow
  <2>q. QED BY <1>4, <2>2, <2>3 DEF matching
<1>q. QED BY <1>3, <1>4

-----------------------------------------------------------------------------
(***************************************************************************)
(* Sums of integers over finite sets.                                      *)
(***************************************************************************)
First(S) == CHOOSE x \in S : TRUE

\* The sum over T, from the sums h over smaller sets.
SumStep(f, h, T) == IF T = {} THEN 0 ELSE f[First(T)] + h[T \ {First(T)}]

\* What the fold computes for every subset of S.
PartialSums(f, S) == CHOOSE h : h = [T \in SUBSET S |-> SumStep(f, h, T)]

\* The sum of f over S.
Plain(f, S) == Fun!SumFunctionOnSet(f, S)

LEMMA PlainIsPartial ==
    ASSUME NEW f, NEW S
    PROVE  Plain(f, S) = PartialSums(f, S)[S]
BY DEF Plain, Fun!SumFunctionOnSet, Fun!FoldFunctionOnSet, Fun!MapThenFoldSet, PartialSums, SumStep, First

LEMMA FirstIsIn ==
    ASSUME NEW S, S # {}
    PROVE  First(S) \in S
BY DEF First

\* The recursion that defines the sum has a solution.
LEMMA PartialSumsExist ==
    ASSUME NEW f, NEW S, IsFiniteSet(S)
    PROVE  \E h : h = [T \in SUBSET S |-> SumStep(f, h, T)]
<1> DEFINE Step(h, T) == SumStep(f, h, T)
           UpTo(n) == {T \in SUBSET S : Cardinality(T) <= n}
           G == {V \in SUBSET S : \E h : \A T \in UpTo(Cardinality(V)) : h[T] = Step(h, T)}
<1>1. \A T \in SUBSET S : IsFiniteSet(T) /\ Cardinality(T) \in Nat
  BY FS_Subset, FS_CardinalityType
<1>2. \A T \in SUBSET S : T # {} => /\ T \ {First(T)} \in SUBSET S
                                    /\ Cardinality(T \ {First(T)}) = Cardinality(T) - 1
  BY <1>1, FirstIsIn, FS_RemoveElement
<1>3. {} \in G
  <2>1. \A T \in UpTo(Cardinality({})) : T = {}
    BY <1>1, FS_EmptySet
  <2>2. \A T \in UpTo(Cardinality({})) : [T2 \in SUBSET S |-> 0][T] = 0
    OBVIOUS
  <2>q. QED BY <2>1, <2>2 DEF SumStep
<1>4. ASSUME NEW V \in SUBSET S, NEW x \in S \ V, V \in G
      PROVE  V \cup {x} \in G
  <2> DEFINE n == Cardinality(V)
  <2>1. n \in Nat /\ Cardinality(V \cup {x}) = n + 1
    BY <1>1, FS_AddElement
  <2>2. PICK h : \A T \in UpTo(n) : h[T] = Step(h, T)
    BY <1>4
  <2> DEFINE g == [T \in SUBSET S |-> IF Cardinality(T) <= n THEN h[T] ELSE Step(h, T)]
  <2>3. ASSUME NEW T \in UpTo(n + 1)
        PROVE  g[T] = Step(g, T)
    <3>1. T \in SUBSET S /\ g[T] = Step(h, T)
      BY <2>2
    <3>2. T # {} => g[T \ {First(T)}] = h[T \ {First(T)}]
      BY <1>1, <1>2, <2>1, <2>3
    <3>q. QED BY <3>1, <3>2 DEF SumStep
  <2> HIDE DEF g, n, UpTo
  <2>4. \E g2 : \A T \in UpTo(Cardinality(V \cup {x})) : g2[T] = Step(g2, T)
    BY <2>1, <2>3
  <2>q. QED BY <2>4
<1>5. S \in G
  <2> HIDE DEF G
  <2>q. QED BY <1>3, <1>4, ElementInduction
<1>6. PICK h : \A T \in UpTo(Cardinality(S)) : h[T] = Step(h, T)
  BY <1>5
<1>7. \A T \in SUBSET S : T \in UpTo(Cardinality(S))
  BY FS_Subset
<1> DEFINE g == [T \in SUBSET S |-> h[T]]
<1>8. \A T \in SUBSET S : g[T] = Step(g, T)
  BY <1>2, <1>6, <1>7 DEF SumStep
<1>9. g = [T \in SUBSET S |-> Step(g, T)]
  BY <1>8
<1>q. QED BY <1>9

LEMMA PartialSumsSpec ==
    ASSUME NEW f, NEW S, IsFiniteSet(S), NEW T \in SUBSET S
    PROVE  PartialSums(f, S)[T] = SumStep(f, PartialSums(f, S), T)
<1> DEFINE p == PartialSums(f, S)
           Solves(h) == h = [V \in SUBSET S |-> SumStep(f, h, V)]
<1>1. Solves(p)
  <2>1. \E h : Solves(h)
    BY PartialSumsExist, Zenon
  <2>2. p = CHOOSE h : Solves(h)
    BY DEF PartialSums
  <2> HIDE DEF Solves, p
  <2>q. QED BY <2>1, <2>2
<1> HIDE DEF p
<1>2. p[T] = SumStep(f, p, T)
  BY <1>1
<1>q. QED BY <1>2 DEF p

\* The sum over a part is a partial sum of the whole.
LEMMA PlainOfPart ==
    ASSUME NEW f, NEW S, IsFiniteSet(S), NEW V \in SUBSET S
    PROVE  Plain(f, V) = PartialSums(f, S)[V]
<1> DEFINE G == {T \in SUBSET V : PartialSums(f, V)[T] = PartialSums(f, S)[T]}
<1>1. IsFiniteSet(V)
  BY FS_Subset
<1>2. ASSUME NEW T \in SUBSET V, \A U \in SUBSET T : U # T => U \in G
      PROVE  T \in G
  <2>1. /\ PartialSums(f, V)[T] = SumStep(f, PartialSums(f, V), T)
        /\ PartialSums(f, S)[T] = SumStep(f, PartialSums(f, S), T)
    <3>1. T \in SUBSET V /\ T \in SUBSET S
      BY <1>2
    <3>q. QED BY <1>1, <3>1, PartialSumsSpec
  <2>2. T # {} => T \ {First(T)} \in SUBSET T /\ T \ {First(T)} # T
    BY FirstIsIn
  <2>q. QED BY <1>2, <2>1, <2>2 DEF SumStep
<1>3. V \in G
  <2> HIDE DEF G
  <2>q. QED BY <1>1, <1>2, SubsetInduction
<1>q. QED BY <1>3, PlainIsPartial

\* A sum is the first term and the sum of the rest.
LEMMA PlainFirst ==
    ASSUME NEW f, NEW S, IsFiniteSet(S)
    PROVE  /\ Plain(f, {}) = 0
           /\ S # {} => Plain(f, S) = f[First(S)] + Plain(f, S \ {First(S)})
<1>1. Plain(f, {}) = 0
  <2>1. {} \in SUBSET {} /\ IsFiniteSet({})
    BY FS_EmptySet
  <2>2. PartialSums(f, {})[{}] = 0
    BY <2>1, PartialSumsSpec DEF SumStep
  <2>q. QED BY <2>2, PlainIsPartial
<1>2. ASSUME S # {}
      PROVE  Plain(f, S) = f[First(S)] + Plain(f, S \ {First(S)})
  <2>1. S \in SUBSET S /\ S \ {First(S)} \in SUBSET S
    OBVIOUS
  <2>2. /\ Plain(f, S) = PartialSums(f, S)[S]
        /\ Plain(f, S \ {First(S)}) = PartialSums(f, S)[S \ {First(S)}]
    BY <2>1, PlainOfPart
  <2>3. PartialSums(f, S)[S] = f[First(S)] + PartialSums(f, S)[S \ {First(S)}]
    <3>1. PartialSums(f, S)[S] = SumStep(f, PartialSums(f, S), S)
      BY <2>1, PartialSumsSpec
    <3>q. QED BY <1>2, <3>1 DEF SumStep
  <2>q. QED BY <2>2, <2>3
<1>q. QED BY <1>1, <1>2

\* A sum of integers is an integer.
LEMMA PlainType ==
    ASSUME NEW f, NEW S, IsFiniteSet(S), \A x \in S : f[x] \in Int
    PROVE  Plain(f, S) \in Int
<1> DEFINE G == {T \in SUBSET S : Plain(f, T) \in Int}
<1>1. ASSUME NEW T \in SUBSET S, \A U \in SUBSET T : U # T => U \in G
      PROVE  T \in G
  <2>1. IsFiniteSet(T)
    BY FS_Subset
  <2>2. CASE T = {}
    BY <2>1, <2>2, PlainFirst
  <2>3. CASE T # {}
    <3>1. First(T) \in T /\ T \ {First(T)} \in SUBSET T /\ T \ {First(T)} # T
      BY <2>3, FirstIsIn
    <3>2. Plain(f, T \ {First(T)}) \in Int
      BY <1>1, <3>1
    <3>q. QED BY <2>1, <2>3, <3>1, <3>2, PlainFirst
  <2>q. QED BY <2>2, <2>3
<1>2. S \in G
  <2> HIDE DEF G
  <2>q. QED BY <1>1, SubsetInduction
<1>q. QED BY <1>2

\* Any element may be taken first.
LEMMA PlainRemove ==
    ASSUME NEW f, NEW S, IsFiniteSet(S), \A x \in S : f[x] \in Int, NEW x \in S
    PROVE  Plain(f, S) = f[x] + Plain(f, S \ {x})
<1> DEFINE G == {T \in SUBSET S : \A y \in T : Plain(f, T) = f[y] + Plain(f, T \ {y})}
<1>1. ASSUME NEW T \in SUBSET S, \A U \in SUBSET T : U # T => U \in G, NEW y \in T
      PROVE  Plain(f, T) = f[y] + Plain(f, T \ {y})
  <2> DEFINE z == First(T)
  <2>1. z \in T
    BY FirstIsIn
  <2>2. \A U \in SUBSET T : IsFiniteSet(U) /\ Plain(f, U) \in Int
    <3>1. \A U \in SUBSET T : IsFiniteSet(U)
      BY FS_Subset
    <3>2. ASSUME NEW U \in SUBSET T PROVE Plain(f, U) \in Int
      BY <3>1, PlainType
    <3>q. QED BY <3>1, <3>2
  <2>3. Plain(f, T) = f[z] + Plain(f, T \ {z})
    BY <2>2, PlainFirst
  <2> HIDE DEF z
  <2>4. CASE y = z
    BY <2>3, <2>4
  <2>5. CASE y # z
    <3>1. /\ T \ {z} \in G /\ y \in T \ {z}
          /\ T \ {y} \in G /\ z \in T \ {y}
      BY <1>1, <2>1, <2>5
    <3>2. /\ Plain(f, T \ {z}) = f[y] + Plain(f, (T \ {z}) \ {y})
          /\ Plain(f, T \ {y}) = f[z] + Plain(f, (T \ {y}) \ {z})
      BY <3>1
    <3>3. (T \ {z}) \ {y} = (T \ {y}) \ {z}
      OBVIOUS
    <3> DEFINE c == Plain(f, (T \ {y}) \ {z})
    <3>4. f[y] \in Int /\ f[z] \in Int /\ c \in Int
      BY <2>1, <2>2
    <3>5. Plain(f, T) = f[z] + (f[y] + c) /\ Plain(f, T \ {y}) = f[z] + c
      BY <2>3, <3>2, <3>3
    <3> HIDE DEF c
    <3>q. QED BY <3>4, <3>5
  <2>q. QED BY <2>4, <2>5
<1>2. \A T \in SUBSET S : (\A U \in SUBSET T : U # T => U \in G) => T \in G
  BY <1>1
<1>3. S \in G
  <2> HIDE DEF G
  <2>q. QED BY <1>2, SubsetInduction
<1>q. QED BY <1>3

\* One element more adds its term.
LEMMA PlainAdd ==
    ASSUME NEW f, NEW S, IsFiniteSet(S), NEW x, x \notin S,
           \A y \in S \cup {x} : f[y] \in Int
    PROVE  Plain(f, S \cup {x}) = Plain(f, S) + f[x]
<1>1. IsFiniteSet(S \cup {x})
  BY FS_AddElement
<1>2. Plain(f, S \cup {x}) = f[x] + Plain(f, (S \cup {x}) \ {x})
  BY <1>1, PlainRemove
<1>3. Plain(f, (S \cup {x}) \ {x}) = Plain(f, S)
  <2>1. (S \cup {x}) \ {x} = S
    OBVIOUS
  <2>q. QED BY <2>1, Zenon
<1>4. Plain(f, S) \in Int /\ f[x] \in Int
  BY PlainType
<1>q. QED BY <1>2, <1>3, <1>4

\* Sums of equal terms are equal.
LEMMA PlainSame ==
    ASSUME NEW f, NEW g, NEW S, IsFiniteSet(S), \A x \in S : f[x] \in Int /\ g[x] = f[x]
    PROVE  Plain(g, S) = Plain(f, S)
<1> DEFINE G == {T \in SUBSET S : Plain(g, T) = Plain(f, T)}
<1>1. {} \in G
  BY FS_EmptySet, PlainFirst
<1>2. ASSUME NEW T \in SUBSET S, NEW x \in S \ T, T \in G
      PROVE  T \cup {x} \in G
  <2>1. IsFiniteSet(T)
    BY FS_Subset
  <2>2. /\ Plain(f, T \cup {x}) = Plain(f, T) + f[x]
        /\ Plain(g, T \cup {x}) = Plain(g, T) + g[x]
    BY <2>1, PlainAdd
  <2>q. QED BY <1>2, <2>2
<1>3. S \in G
  <2> HIDE DEF G
  <2>q. QED BY <1>1, <1>2, ElementInduction
<1>q. QED BY <1>3

\* The sum over two sets that share nothing is the sum of their sums.
LEMMA PlainUnion ==
    ASSUME NEW f, NEW S, NEW V, IsFiniteSet(S), IsFiniteSet(V), S \cap V = {},
           \A x \in S \cup V : f[x] \in Int
    PROVE  Plain(f, S \cup V) = Plain(f, S) + Plain(f, V)
<1> DEFINE G == {T \in SUBSET V : Plain(f, S \cup T) = Plain(f, S) + Plain(f, T)}
<1>1. {} \in G
  <2>1. Plain(f, S \cup {}) = Plain(f, S)
    <3>1. S \cup {} = S
      OBVIOUS
    <3>q. QED BY <3>1, Zenon
  <2>2. Plain(f, {}) = 0 /\ Plain(f, S) \in Int
    BY FS_EmptySet, PlainFirst, PlainType
  <2>q. QED BY <2>1, <2>2
<1>2. ASSUME NEW T \in SUBSET V, NEW x \in V \ T, T \in G
      PROVE  T \cup {x} \in G
  <2>1. IsFiniteSet(T) /\ IsFiniteSet(S \cup T) /\ x \notin S \cup T
    BY FS_Subset, FS_Union
  <2>2. Plain(f, (S \cup T) \cup {x}) = Plain(f, S \cup T) + f[x]
    BY <2>1, PlainAdd
  <2>3. Plain(f, T \cup {x}) = Plain(f, T) + f[x]
    BY <2>1, PlainAdd
  <2>4. Plain(f, S \cup (T \cup {x})) = Plain(f, (S \cup T) \cup {x})
    <3>1. S \cup (T \cup {x}) = (S \cup T) \cup {x}
      OBVIOUS
    <3>q. QED BY <3>1, Zenon
  <2>5. Plain(f, S) \in Int /\ Plain(f, T) \in Int /\ f[x] \in Int
    BY <2>1, PlainType
  <2>6. Plain(f, S \cup T) = Plain(f, S) + Plain(f, T)
    BY <1>2
  <2>7. Plain(f, S \cup (T \cup {x})) = Plain(f, S) + Plain(f, T \cup {x})
    BY <2>2, <2>3, <2>4, <2>5, <2>6
  <2>q. QED BY <2>7
<1>3. V \in G
  <2> HIDE DEF G
  <2>q. QED BY <1>1, <1>2, ElementInduction
<1>q. QED BY <1>3

\* The sum of sums, term by term.
LEMMA PlainPlus ==
    ASSUME NEW f, NEW g, NEW h, NEW S, IsFiniteSet(S),
           \A x \in S : f[x] \in Int /\ g[x] \in Int /\ h[x] = f[x] + g[x]
    PROVE  Plain(h, S) = Plain(f, S) + Plain(g, S)
<1> DEFINE G == {T \in SUBSET S : Plain(h, T) = Plain(f, T) + Plain(g, T)}
<1>1. {} \in G
  <2>1. Plain(f, {}) = 0 /\ Plain(g, {}) = 0 /\ Plain(h, {}) = 0
    BY FS_EmptySet, PlainFirst
  <2>q. QED BY <2>1
<1>2. ASSUME NEW T \in SUBSET S, NEW x \in S \ T, T \in G
      PROVE  T \cup {x} \in G
  <2>1. IsFiniteSet(T)
    BY FS_Subset
  <2>2. /\ Plain(f, T \cup {x}) = Plain(f, T) + f[x]
        /\ Plain(g, T \cup {x}) = Plain(g, T) + g[x]
        /\ Plain(h, T \cup {x}) = Plain(h, T) + h[x]
    BY <2>1, PlainAdd
  <2>3. Plain(f, T) \in Int /\ Plain(g, T) \in Int
    BY <2>1, PlainType
  <2>q. QED BY <1>2, <2>2, <2>3
<1>3. S \in G
  <2> HIDE DEF G
  <2>q. QED BY <1>1, <1>2, ElementInduction
<1>q. QED BY <1>3

\* The terms of f over S are those of g under other names.
Renamed(name, f, g, S) ==
    /\ \A x, y \in S : name[x] = name[y] => x = y
    /\ \A x \in S : f[x] \in Int /\ g[name[x]] = f[x]

\* Terms may be summed under other names.
LEMMA PlainRenamed ==
    ASSUME NEW S, IsFiniteSet(S), NEW name, NEW f, NEW g, Renamed(name, f, g, S)
    PROVE  /\ IsFiniteSet({name[x] : x \in S})
           /\ Plain(g, {name[x] : x \in S}) = Plain(f, S)
<1> DEFINE Image(T) == {name[x] : x \in T}
           G == {T \in SUBSET S : IsFiniteSet(Image(T)) /\ Plain(g, Image(T)) = Plain(f, T)}
<1>r. /\ \A x, y \in S : name[x] = name[y] => x = y
      /\ \A x \in S : f[x] \in Int /\ g[name[x]] = f[x]
  BY DEF Renamed
<1>1. {} \in G
  <2>1. IsFiniteSet(Image({})) /\ Plain(g, Image({})) = 0
    <3>1. Image({}) = {}
      OBVIOUS
    <3>2. IsFiniteSet({}) /\ Plain(g, {}) = 0
      BY FS_EmptySet, PlainFirst
    <3> HIDE DEF Image
    <3>q. QED BY <3>1, <3>2, Zenon
  <2>2. Plain(f, {}) = 0
    BY FS_EmptySet, PlainFirst
  <2>q. QED BY <2>1, <2>2
<1>2. ASSUME NEW T \in SUBSET S, NEW x \in S \ T, T \in G
      PROVE  T \cup {x} \in G
  <2>1. IsFiniteSet(T) /\ IsFiniteSet(Image(T)) /\ Plain(g, Image(T)) = Plain(f, T)
    BY <1>2, FS_Subset
  <2>2. Image(T \cup {x}) = Image(T) \cup {name[x]}
    OBVIOUS
  <2>3. name[x] \notin Image(T)
    BY <1>r
  <2>4. \A y \in Image(T) \cup {name[x]} : g[y] \in Int
    BY <1>r
  <2> HIDE DEF Image
  <2>5. /\ IsFiniteSet(Image(T) \cup {name[x]})
        /\ Plain(g, Image(T) \cup {name[x]}) = Plain(g, Image(T)) + g[name[x]]
    BY <2>1, <2>3, <2>4, PlainAdd, FS_AddElement
  <2>6. Plain(f, T \cup {x}) = Plain(f, T) + f[x]
    BY <1>r, <2>1, PlainAdd
  <2>7. /\ IsFiniteSet(Image(T \cup {x}))
        /\ Plain(g, Image(T \cup {x})) = Plain(g, Image(T)) + g[name[x]]
    BY <2>2, <2>5, Zenon
  <2>8. Plain(g, Image(T \cup {x})) = Plain(f, T \cup {x})
    BY <1>r, <2>1, <2>6, <2>7
  <2>q. QED BY <2>7, <2>8
<1>3. S \in G
  <2> HIDE DEF G
  <2>q. QED BY <1>1, <1>2, ElementInduction
<1>q. QED BY <1>3

\* Terms may be summed further along.
LEMMA PlainShifted ==
    ASSUME NEW n \in Nat, NEW S, IsFiniteSet(S), S \subseteq Int,
           NEW f, NEW g, \A i \in S : f[i] \in Int /\ g[n + i] = f[i]
    PROVE  /\ IsFiniteSet({n + i : i \in S})
           /\ Plain(g, {n + i : i \in S}) = Plain(f, S)
<1>n. PICK name : name = [i \in S |-> n + i]
  OBVIOUS
<1>1. \A i \in S : name[i] = n + i
  BY <1>n
<1>2. Renamed(name, f, g, S)
  BY <1>1 DEF Renamed
<1>3. {name[i] : i \in S} = {n + i : i \in S}
  BY <1>1
<1>4. IsFiniteSet({name[i] : i \in S}) /\ Plain(g, {name[i] : i \in S}) = Plain(f, S)
  BY <1>2, PlainRenamed
<1>q. QED BY <1>3, <1>4, Zenon

\* A sum of naturals is a natural.
LEMMA PlainNat ==
    ASSUME NEW f, NEW S, IsFiniteSet(S), \A x \in S : f[x] \in Nat
    PROVE  Plain(f, S) \in Nat
<1> DEFINE G == {T \in SUBSET S : Plain(f, T) \in Nat}
<1>1. {} \in G
  <2>1. Plain(f, {}) = 0
    BY PlainFirst
  <2>q. QED BY <2>1
<1>2. ASSUME NEW T \in SUBSET S, NEW x \in S \ T, T \in G
      PROVE  T \cup {x} \in G
  <2>1. IsFiniteSet(T) /\ \A y \in T \cup {x} : f[y] \in Int
    BY FS_Subset
  <2>2. Plain(f, T \cup {x}) = Plain(f, T) + f[x]
    BY <2>1, PlainAdd
  <2>3. Plain(f, T) \in Nat /\ f[x] \in Nat
    BY <1>2
  <2>q. QED BY <2>2, <2>3
<1>3. S \in G
  <2> HIDE DEF G
  <2>q. QED BY <1>1, <1>2, ElementInduction
<1>q. QED BY <1>3

\* Smaller terms over a part make a smaller sum.
LEMMA PlainWithin ==
    ASSUME NEW S, IsFiniteSet(S), NEW B \in SUBSET S,
           NEW f, NEW g, \A x \in S : g[x] \in Nat, \A x \in B : f[x] \in 0 .. g[x]
    PROVE  Plain(f, B) \in 0 .. Plain(g, S)
<1>h. PICK h : h = [x \in B |-> g[x] - f[x]]
  OBVIOUS
<1>1. IsFiniteSet(B) /\ IsFiniteSet(S \ B)
  BY FS_Subset
<1>2. \A x \in B : /\ f[x] \in Nat /\ h[x] \in Nat
                   /\ f[x] \in Int /\ h[x] \in Int /\ g[x] = f[x] + h[x]
  BY <1>h
<1>3. Plain(g, B) = Plain(f, B) + Plain(h, B)
  BY <1>1, <1>2, PlainPlus
<1>4. Plain(f, B) \in Nat /\ Plain(h, B) \in Nat /\ Plain(g, S \ B) \in Nat
  BY <1>1, <1>2, PlainNat
<1>5. Plain(g, S) = Plain(g, B) + Plain(g, S \ B)
  <2>1. B \cup (S \ B) = S /\ B \cap (S \ B) = {}
    OBVIOUS
  <2>2. \A x \in B \cup (S \ B) : g[x] \in Int
    OBVIOUS
  <2>3. Plain(g, B \cup (S \ B)) = Plain(g, B) + Plain(g, S \ B)
    BY <1>1, <2>1, <2>2, PlainUnion
  <2>q. QED BY <2>1, <2>3, Zenon
<1>q. QED BY <1>3, <1>4, <1>5

\* A set is laid out in parts that share nothing.
Parts(part, D, S) ==
    /\ \A x : x \in S <=> \E d \in D : x \in part[d]
    /\ \A c, d \in D : c # d => part[c] \cap part[d] = {}

\* The sums over the parts of a set add up to the sum over the whole.
LEMMA PlainParts ==
    ASSUME NEW S, IsFiniteSet(S), NEW D, IsFiniteSet(D), NEW part, Parts(part, D, S),
           NEW f, \A x \in S : f[x] \in Int,
           NEW g, \A d \in D : g[d] = Plain(f, part[d])
    PROVE  Plain(g, D) = Plain(f, S)
<1> DEFINE Over(T) == {x \in S : \E d \in T : x \in part[d]}
           G == {T \in SUBSET D : Plain(g, T) = Plain(f, Over(T))}
<1>0. \A d \in D : part[d] \subseteq S
  BY DEF Parts
<1>1. {} \in G
  <2>1. Plain(f, Over({})) = Plain(f, {})
    <3>1. Over({}) = {}
      OBVIOUS
    <3> HIDE DEF Over
    <3>q. QED BY <3>1, Zenon
  <2>2. Plain(f, {}) = 0 /\ Plain(g, {}) = 0
    BY FS_EmptySet, PlainFirst
  <2>q. QED BY <2>1, <2>2
<1>2. ASSUME NEW T \in SUBSET D, NEW d \in D \ T, T \in G
      PROVE  T \cup {d} \in G
  <2>1. IsFiniteSet(Over(T)) /\ IsFiniteSet(part[d]) /\ IsFiniteSet(T)
    BY <1>0, FS_Subset
  <2>2. Plain(f, Over(T \cup {d})) = Plain(f, Over(T) \cup part[d])
    <3>1. Over(T \cup {d}) = Over(T) \cup part[d]
      BY <1>0
    <3> HIDE DEF Over
    <3>q. QED BY <3>1, Zenon
  <2>3. Plain(f, Over(T) \cup part[d]) = Plain(f, Over(T)) + Plain(f, part[d])
    <3>1. Over(T) \cap part[d] = {}
      BY DEF Parts
    <3>2. \A x \in Over(T) \cup part[d] : f[x] \in Int
      BY <1>0
    <3> HIDE DEF Over
    <3>q. QED BY <2>1, <3>1, <3>2, PlainUnion
  <2>4. \A c \in D : g[c] \in Int
    BY <1>0, FS_Subset, PlainType
  <2>5. Plain(g, T \cup {d}) = Plain(g, T) + g[d]
    BY <2>1, <2>4, PlainAdd
  <2>6. Plain(g, T) = Plain(f, Over(T)) /\ g[d] = Plain(f, part[d])
    BY <1>2
  <2> HIDE DEF Over
  <2>7. Plain(g, T \cup {d}) = Plain(f, Over(T \cup {d}))
    BY <2>2, <2>3, <2>5, <2>6, Zenon
  <2>q. QED BY <2>7
<1>3. D \in G
  <2> HIDE DEF G
  <2>q. QED BY <1>1, <1>2, ElementInduction
<1>4. Over(D) = S
  BY DEF Parts
<1>5. Plain(g, D) = Plain(f, Over(D))
  BY <1>3
<1> HIDE DEF Over
<1>q. QED BY <1>4, <1>5, Zenon

-----------------------------------------------------------------------------
(***************************************************************************)
(* The same in 64 bits.                                                    *)
(***************************************************************************)
\* What is wrapped already stays.
LEMMA WrapTwice ==
    ASSUME NEW x \in Int
    PROVE  Wrap(Wrap(x)) = Wrap(x) /\ Wrap(x) \in Int
<1>1. Wrap(x) \in Int64
  BY WrapRange
<1>2. Wrap(x) \in Int
  BY <1>1, HalfRangeAssumption DEF Int64
<1>q. QED BY <1>1, <1>2, WrapExact

\* A sum that wraps at every addition, or only at the end, is the same: terms
\* that wrap to the same have the same sum.
LEMMA SumSame ==
    ASSUME NEW S, IsFiniteSet(S), NEW f, NEW g,
           \A x \in S : f[x] \in Int /\ g[x] \in Int /\ Wrap(g[x]) = Wrap(f[x])
    PROVE  Sum(g, S) = Sum(f, S)
<1> DEFINE G == {T \in SUBSET S : Wrap(Plain(g, T)) = Wrap(Plain(f, T))}
<1>1. {} \in G
  <2>1. Plain(f, {}) = 0 /\ Plain(g, {}) = 0
    BY FS_EmptySet, PlainFirst
  <2>q. QED BY <2>1
<1>2. ASSUME NEW T \in SUBSET S, NEW x \in S \ T, T \in G
      PROVE  T \cup {x} \in G
  <2>1. IsFiniteSet(T)
    BY FS_Subset
  <2>2. /\ Plain(f, T \cup {x}) = Plain(f, T) + f[x]
        /\ Plain(g, T \cup {x}) = Plain(g, T) + g[x]
    BY <2>1, PlainAdd
  <2>3. Plain(f, T) \in Int /\ Plain(g, T) \in Int /\ f[x] \in Int /\ g[x] \in Int
    BY <2>1, PlainType
  <2>4. /\ Wrap(Plain(f, T) + f[x]) = Wrap(Wrap(Plain(f, T)) + Wrap(f[x]))
        /\ Wrap(Plain(g, T) + g[x]) = Wrap(Wrap(Plain(g, T)) + Wrap(g[x]))
    BY <2>3, WrapPlus
  <2>5. Wrap(Plain(g, T)) = Wrap(Plain(f, T)) /\ Wrap(g[x]) = Wrap(f[x])
    BY <1>2
  <2>6. Wrap(Plain(g, T \cup {x})) = Wrap(Plain(f, T \cup {x}))
    BY <2>2, <2>4, <2>5, Zenon
  <2>q. QED BY <2>6
<1>3. S \in G
  <2> HIDE DEF G
  <2>q. QED BY <1>1, <1>2, ElementInduction
<1>q. QED BY <1>3 DEF Sum, Plain

\* A sum is of 64 bits.
LEMMA SumType ==
    ASSUME NEW S, IsFiniteSet(S), NEW f, \A x \in S : f[x] \in Int
    PROVE  Sum(f, S) \in Int64 /\ Sum(f, S) \in Int
<1>1. Plain(f, S) \in Int
  BY PlainType
<1>2. Wrap(Plain(f, S)) \in Int64 /\ Wrap(Plain(f, S)) \in Int
  BY <1>1, WrapRange, WrapTwice
<1>q. QED BY <1>2 DEF Sum, Plain

\* The wrapped sums of the parts make the wrapped sum of the whole.
LEMMA SumParts ==
    ASSUME NEW S, IsFiniteSet(S), NEW D, IsFiniteSet(D), NEW part, Parts(part, D, S),
           NEW f, \A x \in S : f[x] \in Int,
           NEW g, \A d \in D : g[d] = Sum(f, part[d])
    PROVE  Sum(g, D) = Sum(f, S)
<1> DEFINE h == [d \in D |-> Plain(f, part[d])]
<1>1. ASSUME NEW d \in D
      PROVE  h[d] \in Int /\ g[d] \in Int /\ Wrap(g[d]) = Wrap(h[d])
  <2>1. part[d] \subseteq S
    BY DEF Parts
  <2>2. IsFiniteSet(part[d])
    BY <2>1, FS_Subset
  <2>3. h[d] \in Int
    BY <2>1, <2>2, PlainType
  <2>4. g[d] = Wrap(h[d])
    BY DEF Sum, Plain
  <2> HIDE DEF h
  <2>q. QED BY <2>3, <2>4, WrapTwice
<1>2. \A d \in D : h[d] = Plain(f, part[d])
  OBVIOUS
<1> HIDE DEF h
<1>3. Sum(g, D) = Sum(h, D)
  BY <1>1, SumSame
<1>4. Plain(h, D) = Plain(f, S)
  BY <1>2, PlainParts
<1>5. Sum(h, D) = Sum(f, S)
  BY <1>4, Zenon DEF Sum, Plain
<1>q. QED BY <1>3, <1>5

\* The wrapped sum of sums, term by term.
LEMMA SumPlus ==
    ASSUME NEW S, IsFiniteSet(S), NEW f, NEW g, NEW h,
           \A x \in S : /\ f[x] \in Int /\ g[x] \in Int /\ h[x] \in Int
                       /\ Wrap(h[x]) = Wrap(f[x] + g[x])
    PROVE  Sum(h, S) = Wrap(Sum(f, S) + Sum(g, S))
<1> DEFINE k == [x \in S |-> f[x] + g[x]]
<1>1. \A x \in S : k[x] \in Int /\ h[x] \in Int /\ Wrap(h[x]) = Wrap(k[x]) /\ k[x] = f[x] + g[x]
  OBVIOUS
<1> HIDE DEF k
<1>2. Sum(h, S) = Sum(k, S)
  BY <1>1, SumSame
<1>3. Plain(k, S) = Plain(f, S) + Plain(g, S)
  BY <1>1, PlainPlus
<1>4. Plain(f, S) \in Int /\ Plain(g, S) \in Int
  BY PlainType
<1>5. Wrap(Plain(f, S) + Plain(g, S)) = Wrap(Wrap(Plain(f, S)) + Wrap(Plain(g, S)))
  BY <1>4, WrapPlus
<1>q. QED BY <1>2, <1>3, <1>5, Zenon DEF Sum, Plain

-----------------------------------------------------------------------------
(***************************************************************************)
(* The sums of the queries.                                                *)
(***************************************************************************)
LEMMA FiniteAcquirers == IsFiniteSet(Acquirers)
<1>1. Acquirers = (({} \cup {Thai}) \cup {Global}) \cup {Prompt}
  BY DEF Acquirers
<1>2. IsFiniteSet((({} \cup {Thai}) \cup {Global}) \cup {Prompt})
  BY FS_EmptySet, FS_AddElement
<1>q. QED BY <1>1, <1>2, Zenon

\* The total printed below the acquirers is the sum over the rows chosen,
\* since every row is of one of the acquirers (query/service.go,
\* ExpectedCashByAcquirer and FeesByAcquirer).
LEMMA TotalOfRows ==
    ASSUME NEW rows, NEW chosen, NEW column, IsFiniteSet(chosen), chosen \subseteq DOMAIN rows,
           \A i \in chosen : rows[i].Acquirer \in Acquirers /\ rows[i][column] \in Int
    PROVE  Total(ByAcquirer(rows, chosen, column))
             = Sum([i \in DOMAIN rows |-> rows[i][column]], chosen)
<1> DEFINE f == [i \in DOMAIN rows |-> rows[i][column]]
           part == [a \in Acquirers |-> {i \in chosen : rows[i].Acquirer = a}]
           g == ByAcquirer(rows, chosen, column)
<1>1. \A x \in chosen : f[x] \in Int
  OBVIOUS
<1>2. \A a \in Acquirers : g[a] = Sum(f, part[a])
  BY DEF ByAcquirer
<1>3. Parts(part, Acquirers, chosen)
  BY DEF Parts
<1> HIDE DEF f, part, g
<1>4. Sum(g, Acquirers) = Sum(f, chosen)
  BY <1>1, <1>2, <1>3, FiniteAcquirers, SumParts
<1>q. QED BY <1>4 DEF Total, f, g

\* The cash of two lists, one behind the other, is the cash of both
\* (query/service.go, ExpectedCashByAcquirer).
LEMMA CashOfBoth ==
    ASSUME NEW R, NEW rows \in Seq(R), NEW more \in Seq(R), \A s \in R : s.NetMinor \in Int,
           NEW day, NEW a \in Acquirers
    PROVE  /\ ExpectedCashByAcquirer(rows, day)[a] \in Int
           /\ ExpectedCashByAcquirer(more, day)[a] \in Int
           /\ ExpectedCashByAcquirer(rows \o more, day)[a]
                = Wrap(ExpectedCashByAcquirer(rows, day)[a] + ExpectedCashByAcquirer(more, day)[a])
<1> DEFINE Of(list) == {i \in {j \in DOMAIN list : Payday(list[j]) = day} : list[i].Acquirer = a}
           Net(list) == [i \in DOMAIN list |-> list[i]["NetMinor"]]
<1>0. ASSUME NEW list
      PROVE  ExpectedCashByAcquirer(list, day)[a] = Sum(Net(list), Of(list))
  BY DEF ExpectedCashByAcquirer, ByAcquirer
<1>b. PICK both, n : both = rows \o more /\ n = Len(rows)
  OBVIOUS
<1>1. /\ both \in Seq(R) /\ n \in Nat
      /\ DOMAIN rows = 1 .. n /\ DOMAIN more = 1 .. Len(more) /\ Len(more) \in Nat
      /\ DOMAIN both = 1 .. n + Len(more)
      /\ \A i \in DOMAIN rows : both[i] = rows[i]
      /\ \A i \in DOMAIN more : both[n + i] = more[i]
  BY <1>b
<1>2. ASSUME NEW list \in Seq(R)
      PROVE  /\ IsFiniteSet(Of(list)) /\ Of(list) \subseteq DOMAIN list
             /\ \A i \in DOMAIN list : Net(list)[i] = list[i].NetMinor /\ Net(list)[i] \in Int
  <2>1. DOMAIN list = 1 .. Len(list) /\ Len(list) \in Nat
    OBVIOUS
  <2>2. IsFiniteSet(DOMAIN list)
    BY <2>1, FS_Interval
  <2>q. QED BY <2>2, FS_Subset
<1>v. PICK V, T, U, f, g, h :
        /\ V = Of(rows) /\ T = Of(more) /\ U = {n + i : i \in T}
        /\ f = Net(rows) /\ g = Net(more) /\ h = Net(both)
  OBVIOUS
<1>3. /\ IsFiniteSet(V) /\ IsFiniteSet(T) /\ V \subseteq DOMAIN rows /\ T \subseteq DOMAIN more
      /\ \A i \in V : f[i] \in Int /\ h[i] = f[i]
      /\ \A i \in T : g[i] \in Int /\ h[n + i] = g[i]
      /\ \A i \in DOMAIN both : h[i] \in Int
  <2>1. /\ IsFiniteSet(V) /\ IsFiniteSet(T) /\ V \subseteq DOMAIN rows /\ T \subseteq DOMAIN more
        /\ \A i \in DOMAIN rows : f[i] = rows[i].NetMinor /\ f[i] \in Int
        /\ \A i \in DOMAIN more : g[i] = more[i].NetMinor /\ g[i] \in Int
        /\ \A i \in DOMAIN both : h[i] = both[i].NetMinor /\ h[i] \in Int
    BY <1>1, <1>2, <1>v
  <2> HIDE DEF Of, Net
  <2>2. /\ \A i \in DOMAIN rows : i \in DOMAIN both
        /\ \A i \in DOMAIN more : n + i \in DOMAIN both
    BY <1>1
  <2>3. \A i \in V : f[i] \in Int /\ h[i] = f[i]
    BY <1>1, <2>1, <2>2
  <2>4. \A i \in T : g[i] \in Int /\ h[n + i] = g[i]
    <3> SUFFICES ASSUME NEW i \in T PROVE g[i] \in Int /\ h[n + i] = g[i]
      OBVIOUS
    <3>1. i \in DOMAIN more
      BY <2>1
    <3>2. h[n + i] = both[n + i].NetMinor /\ both[n + i] = more[i] /\ g[i] = more[i].NetMinor
      BY <1>1, <2>1, <2>2, <3>1
    <3>q. QED BY <2>1, <3>1, <3>2
  <2>q. QED BY <2>1, <2>3, <2>4
<1>4. Of(both) = V \cup U
  <2>1. \A i : i \in Of(both) <=> i \in DOMAIN both /\ Payday(both[i]) = day /\ both[i].Acquirer = a
    OBVIOUS
  <2>2. \A i : i \in V <=> i \in DOMAIN rows /\ Payday(rows[i]) = day /\ rows[i].Acquirer = a
    BY <1>v
  <2>3. \A i : i \in T <=> i \in DOMAIN more /\ Payday(more[i]) = day /\ more[i].Acquirer = a
    BY <1>v
  <2>4. \A i : i \in U <=> \E j \in T : i = n + j
    BY <1>v
  <2> HIDE DEF Of, Net
  <2>5. ASSUME NEW i \in DOMAIN both PROVE i \in Of(both) <=> i \in V \cup U
    <3>1. CASE i \in DOMAIN rows
      <4>1. i \notin U
        BY <1>1, <1>3, <2>4, <3>1
      <4>q. QED BY <1>1, <2>1, <2>2, <3>1, <4>1
    <3>2. CASE i \notin DOMAIN rows
      <4>1. PICK j : j = i - n
        OBVIOUS
      <4>2. j \in DOMAIN more /\ i = n + j
        BY <1>1, <3>2, <4>1
      <4>3. i \in U <=> j \in T
        BY <1>1, <1>3, <2>4, <4>2
      <4>4. both[i] = more[j]
        BY <1>1, <4>2
      <4>q. QED BY <2>1, <2>2, <2>3, <3>2, <4>2, <4>3, <4>4
    <3>q. QED BY <3>1, <3>2
  <2>6. \A i \in V \cup U : i \in DOMAIN both
    BY <1>1, <1>3, <2>4
  <2>q. QED BY <2>1, <2>5, <2>6
<1>5. V \cap U = {} /\ \A i \in V \cup U : h[i] \in Int
  <2>1. \A i \in U : i \in DOMAIN both /\ i \notin DOMAIN rows
    BY <1>1, <1>3, <1>v
  <2>2. \A i \in V : i \in DOMAIN both
    BY <1>1, <1>3
  <2>q. QED BY <1>3, <2>1, <2>2
<1> HIDE DEF Of, Net
<1>6. IsFiniteSet(U) /\ Plain(h, U) = Plain(g, T)
  <2>1. T \subseteq Int /\ \A i \in T : g[i] \in Int /\ h[n + i] = g[i]
    BY <1>1, <1>3
  <2>2. IsFiniteSet({n + i : i \in T}) /\ Plain(h, {n + i : i \in T}) = Plain(g, T)
    BY <1>1, <1>3, <2>1, PlainShifted
  <2>q. QED BY <1>v, <2>2, Zenon
<1>7. Plain(h, V) = Plain(f, V)
  BY <1>3, PlainSame
<1>8. Plain(h, V \cup U) = Plain(h, V) + Plain(h, U)
  BY <1>3, <1>5, <1>6, PlainUnion
<1>9. Plain(f, V) \in Int /\ Plain(g, T) \in Int
  BY <1>3, PlainType
<1>10. Wrap(Plain(f, V) + Plain(g, T)) = Wrap(Wrap(Plain(f, V)) + Wrap(Plain(g, T)))
  BY <1>9, WrapPlus
<1>11. Sum(h, Of(both)) = Wrap(Sum(f, V) + Sum(g, T))
  <2>1. Sum(h, Of(both)) = Wrap(Plain(f, V) + Plain(g, T))
    BY <1>4, <1>6, <1>7, <1>8, Zenon DEF Sum, Plain
  <2>q. QED BY <1>10, <2>1, Zenon DEF Sum, Plain
<1>12. Sum(f, V) \in Int /\ Sum(g, T) \in Int
  BY <1>3, SumType
<1>13. /\ ExpectedCashByAcquirer(rows, day)[a] = Sum(f, V)
       /\ ExpectedCashByAcquirer(more, day)[a] = Sum(g, T)
       /\ ExpectedCashByAcquirer(both, day)[a] = Sum(h, Of(both))
  BY <1>0, <1>v, Zenon
<1>14. ExpectedCashByAcquirer(both, day)[a]
         = Wrap(ExpectedCashByAcquirer(rows, day)[a] + ExpectedCashByAcquirer(more, day)[a])
  BY <1>11, <1>13, Zenon
<1>q. QED BY <1>b, <1>12, <1>13, <1>14

\* A month that begins before some later month ends.
LEMMA MonthEnds ==
    ASSUME NEW month \in Int, \E n \in MonthStarts : n > month
    PROVE  MonthEnd(month) \in Int
<1> DEFINE Later == {k \in Nat : month + 1 + k \in MonthStarts}
           R == {p \in Nat \X Nat : p[1] < p[2]}
<1>1. PICK n \in MonthStarts : n > month
  OBVIOUS
<1>2. n \in Int /\ n - month - 1 \in Later
  BY <1>1, MonthsAssumption
<1>3. IsWellFoundedOn(R, Nat)
  BY NatLessThanWellFounded DEF OpToRel
<1>4. PICK k \in Later : \A j \in Later : <<j, k>> \notin R
  <2> HIDE DEF R
  <2>1. Later \subseteq Nat /\ Later # {}
    BY <1>2
  <2> HIDE DEF Later
  <2>q. QED BY <1>3, <2>1, WFMin
<1>5. ASSUME NEW j \in Later
      PROVE  k <= j
  <2>1. j \in Nat /\ k \in Nat /\ <<j, k>> \notin R
    BY <1>4
  <2>2. ~(j < k)
    BY <2>1
  <2>q. QED BY <2>1, <2>2
<1> DEFINE e == month + 1 + k
<1>6. e \in MonthStarts /\ e > month
  BY <1>4
<1>7. ASSUME NEW m \in MonthStarts, m > month
      PROVE  e <= m
  <2>1. m \in Int /\ m - month - 1 \in Nat
    BY <1>7, MonthsAssumption
  <2>2. m - month - 1 \in Later
    BY <2>1
  <2>q. QED BY <1>5, <2>1, <2>2
<1> HIDE DEF e
<1>8. MonthEnd(month) \in MonthStarts
  BY <1>6, <1>7 DEF MonthEnd
<1>q. QED BY <1>8, MonthsAssumption

\* The fees of a month and the cash of its days, each added up over the
\* acquirers by its own query, make the gross amounts of the rows paid out in
\* that month (query/service.go, ExpectedCashByAcquirer and FeesByAcquirer).
LEMMA MonthBalances ==
    ASSUME NEW rows, IsFiniteSet(DOMAIN rows),
           \A i \in DOMAIN rows :
              /\ rows[i].Acquirer \in Acquirers /\ rows[i].SettlementDate \in Int
              /\ rows[i].GrossMinor \in Int /\ rows[i].FeeMinor \in Int
              /\ rows[i].NetMinor \in Int /\ Balances(rows[i]),
           NEW month \in Int, MonthEnd(month) \in Int
    PROVE  LET days == month .. MonthEnd(month) - 1
               paid == {i \in DOMAIN rows : Payday(rows[i]) \in days}
           IN  Wrap(Total(FeesByAcquirer(rows, month))
                    + Sum([d \in days |-> Total(ExpectedCashByAcquirer(rows, d))], days))
                 = Sum([i \in paid |-> rows[i].GrossMinor], paid)
<1> DEFINE days == month .. MonthEnd(month) - 1
           paid == {i \in DOMAIN rows : Payday(rows[i]) \in days}
           on(d) == {i \in DOMAIN rows : Payday(rows[i]) = d}
           gross == [i \in paid |-> rows[i].GrossMinor]
           fee == [i \in DOMAIN rows |-> rows[i]["FeeMinor"]]
           net == [i \in DOMAIN rows |-> rows[i]["NetMinor"]]
           cash == [d \in days |-> Total(ExpectedCashByAcquirer(rows, d))]
           part == [d \in days |-> on(d)]
<1>1. \A i \in DOMAIN rows : Payday(rows[i]) \in Int
  BY DEF Payday, BangkokMidnight
<1>2. IsFiniteSet(days) /\ IsFiniteSet(paid) /\ \A d : IsFiniteSet(on(d))
  BY FS_Interval, FS_Subset
<1>3. \A i \in paid : gross[i] \in Int /\ fee[i] \in Int /\ net[i] \in Int
  OBVIOUS
<1>4. \A i \in paid : Wrap(gross[i]) = Wrap(fee[i] + net[i])
  <2> SUFFICES ASSUME NEW i \in paid PROVE Wrap(gross[i]) = Wrap(fee[i] + net[i])
    OBVIOUS
  <2>1. Wrap(gross[i] - fee[i]) = net[i] /\ gross[i] - fee[i] \in Int
    BY DEF Balances
  <2>2. gross[i] = fee[i] + (gross[i] - fee[i])
    BY <1>3
  <2> HIDE DEF gross, fee, net, paid
  <2>3. Wrap(fee[i] + (gross[i] - fee[i])) = Wrap(fee[i] + Wrap(gross[i] - fee[i]))
    BY <1>3, <2>1, WrapPlus
  <2>q. QED BY <2>1, <2>2, <2>3, Zenon
<1>5. Total(FeesByAcquirer(rows, month)) = Sum(fee, paid)
  <2>1. {i \in DOMAIN rows : InMonth(Payday(rows[i]), month)} = paid
    BY <1>1 DEF InMonth
  <2>2. FeesByAcquirer(rows, month) = ByAcquirer(rows, paid, "FeeMinor")
    BY <2>1, Zenon DEF FeesByAcquirer
  <2>3. \A i \in paid : rows[i].Acquirer \in Acquirers /\ rows[i]["FeeMinor"] \in Int
    OBVIOUS
  <2>4. paid \subseteq DOMAIN rows
    OBVIOUS
  <2> HIDE DEF paid
  <2>q. QED BY <1>2, <2>2, <2>3, <2>4, TotalOfRows
<1>6. ASSUME NEW d \in days
      PROVE  cash[d] = Sum(net, on(d))
  <2>1. cash[d] = Total(ByAcquirer(rows, on(d), "NetMinor"))
    BY DEF ExpectedCashByAcquirer
  <2>2. \A i \in on(d) : rows[i].Acquirer \in Acquirers /\ rows[i]["NetMinor"] \in Int
    OBVIOUS
  <2>3. on(d) \subseteq DOMAIN rows
    OBVIOUS
  <2> HIDE DEF on, cash
  <2>q. QED BY <1>2, <2>1, <2>2, <2>3, TotalOfRows
<1>7. Parts(part, days, paid)
  BY DEF Parts
<1>8. \A d \in days : cash[d] = Sum(net, part[d])
  BY <1>6
<1> HIDE DEF gross, fee, net, cash, part, paid, days
<1>9. Sum(cash, days) = Sum(net, paid)
  BY <1>2, <1>3, <1>7, <1>8, SumParts
<1>10. \A i \in paid : fee[i] + net[i] \in Int
  BY <1>3
<1>11. Sum(gross, paid) = Wrap(Sum(fee, paid) + Sum(net, paid))
  BY <1>2, <1>3, <1>4, SumPlus
<1>12. Wrap(Total(FeesByAcquirer(rows, month)) + Sum(cash, days)) = Sum(gross, paid)
  BY <1>5, <1>9, <1>11, Zenon
<1>q. QED BY <1>12 DEF gross, cash, paid, days
=============================================================================
