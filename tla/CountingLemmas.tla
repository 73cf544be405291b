--------------------------- MODULE CountingLemmas ---------------------------
(***************************************************************************)
(* Facts about naturals, cardinalities, sums and sequences that the proofs *)
(* of several modules rest on.                                             *)
(***************************************************************************)
EXTENDS Integers, Sequences, FiniteSets, Functions, FiniteSetTheorems, SequenceTheorems, TLAPS

(* A part of a finite interval is finite and no larger. *)
LEMMA PartOfInterval ==
  ASSUME NEW n \in Nat, NEW D \in SUBSET (1 .. n)
  PROVE  IsFiniteSet(D) /\ Cardinality(D) \in 0 .. n
<1>1. IsFiniteSet(1 .. n) /\ Cardinality(1 .. n) = n
  BY FS_Interval
<1>2. IsFiniteSet(D) /\ Cardinality(D) <= n
  BY <1>1, FS_Subset
<1>3. Cardinality(D) \in Nat
  BY <1>2, FS_CardinalityType
<1> QED BY <1>2, <1>3

(* A set of positions closed downwards is an interval, the one its         *)
(* cardinality says.                                                       *)
LEMMA DownSetIsInterval ==
  ASSUME NEW n \in Nat, NEW D \in SUBSET (1 .. n),
         \A i, j \in 1 .. n : i <= j /\ j \in D => i \in D
  PROVE  /\ Cardinality(D) \in 0 .. n
         /\ D = 1 .. Cardinality(D)
<1>1. IsFiniteSet(D) /\ Cardinality(D) \in 0 .. n
  BY PartOfInterval
<1>2. ASSUME NEW i \in D PROVE i <= Cardinality(D)
  <2>1. (1 .. i) \in SUBSET D
    OBVIOUS
  <2>2. Cardinality(1 .. i) = i
    BY FS_Interval
  <2> QED BY <1>1, <2>1, <2>2, FS_Subset
<1>3. D \in SUBSET (1 .. Cardinality(D))
  BY <1>1, <1>2
<1>4. IsFiniteSet(1 .. Cardinality(D)) /\ Cardinality(1 .. Cardinality(D)) = Cardinality(D)
  BY <1>1, FS_Interval
<1>5. D = 1 .. Cardinality(D)
  BY <1>3, <1>4, FS_Subset
<1> QED BY <1>1, <1>5

(* A non-empty set of naturals has a least element. *)
LEMMA LeastNatural ==
  ASSUME NEW T \in SUBSET Nat, T # {}
  PROVE  \E m \in T : \A k \in T : m <= k
<1>1. PICK t \in T : TRUE
  OBVIOUS
<1> DEFINE D == {i \in 1 .. t : \A k \in 0 .. (i - 1) : k \notin T}
<1>2. Cardinality(D) \in 0 .. t /\ D = 1 .. Cardinality(D)
  <2>1. D \in SUBSET (1 .. t) /\ t \in Nat
    OBVIOUS
  <2>2. \A i, j \in 1 .. t : i <= j /\ j \in D => i \in D
    OBVIOUS
  <2> HIDE DEF D
  <2> QED BY <2>1, <2>2, DownSetIsInterval
<1> DEFINE c == Cardinality(D)
<1>3. \A k \in T : c <= k
  <2> SUFFICES ASSUME NEW k \in T, k < c PROVE FALSE
    BY <1>2
  <2>1. c \in D
    BY <1>2
  <2> QED BY <2>1, <1>2
<1>4. c \in T
  <2> SUFFICES ASSUME c \notin T PROVE FALSE
    OBVIOUS
  <2>1. c + 1 \in 1 .. t
    BY <1>1, <1>2, <1>3
  <2>2. ASSUME NEW k \in 0 .. ((c + 1) - 1) PROVE k \notin T
    <3> HIDE DEF D
    <3>1. c \in Nat /\ k \in Nat /\ k <= c
      BY <1>2
    <3>2. k < c \/ k = c
      BY <3>1
    <3> QED BY <3>1, <3>2, <1>3
  <2>3. c + 1 \in D
    BY <2>1, <2>2
  <2> HIDE DEF D
  <2>4. c + 1 \in 1 .. c
    BY <2>3, <1>2
  <2> QED BY <2>4, <1>2
<1> QED BY <1>3, <1>4

(* An injection of 1..n into 0..n-1 takes every value. *)
LEMMA InjectionIsOnto ==
  ASSUME NEW n \in Nat, NEW f \in [1 .. n -> 0 .. (n - 1)],
         \A i, j \in 1 .. n : f[i] = f[j] => i = j
  PROVE  \A r \in 0 .. (n - 1) : \E k \in 1 .. n : f[k] = r
<1> SUFFICES ASSUME NEW r \in 0 .. (n - 1), \A k \in 1 .. n : f[k] # r
             PROVE  FALSE
  OBVIOUS
<1> DEFINE S == 0 .. (n - 1)
           T == S \ {r}
<1>1. IsFiniteSet(S) /\ Cardinality(S) = n
  BY FS_Interval
<1>2. IsFiniteSet(T) /\ Cardinality(T) = n - 1
  <2>1. r \in S
    OBVIOUS
  <2> HIDE DEF S
  <2>2. IsFiniteSet(T)
    BY <1>1, FS_RemoveElement
  <2>3. Cardinality(T) = IF r \in S THEN Cardinality(S) - 1 ELSE Cardinality(S)
    BY <1>1, FS_RemoveElement
  <2> QED BY <1>1, <2>1, <2>2, <2>3
<1>3. IsFiniteSet(1 .. n) /\ Cardinality(1 .. n) = n
  BY FS_Interval
<1>4. f \in [1 .. n -> T]
  OBVIOUS
<1>5. \E x, y \in 1 .. n : x # y /\ f[x] = f[y]
  <2>1. Cardinality(T) < Cardinality(1 .. n)
    BY <1>2, <1>3
  <2> HIDE DEF T
  <2> QED BY <1>2, <1>3, <1>4, <2>1, FS_PigeonHole
<1> QED BY <1>5

(* Sets in bijection have the same cardinality. *)
LEMMA SameCardinality ==
  ASSUME NEW S, NEW T, IsFiniteSet(S), NEW f \in [S -> T],
         \A x, y \in S : f[x] = f[y] => x = y,
         \A t \in T : \E x \in S : f[x] = t
  PROVE  IsFiniteSet(T) /\ Cardinality(T) = Cardinality(S)
<1>1. f \in Bijection(S, T)
  BY DEF Bijection, Injection, Surjection, IsInjective
<1>2. ExistsBijection(S, T)
  BY <1>1 DEF ExistsBijection
<1> QED BY <1>2, FS_Bijection

-------------------------------------------------------------------------------
(* How often a value is in a list. *)
Occurrences(seq, x) == Cardinality({k \in DOMAIN seq : seq[k] = x})

(* Occurrences of a value in a list are counted by a natural number. *)
LEMMA OccurrencesType ==
  ASSUME NEW S, NEW seq \in Seq(S), NEW x
  PROVE  /\ IsFiniteSet({k \in DOMAIN seq : seq[k] = x})
         /\ Occurrences(seq, x) \in Nat
<1> DEFINE D == {k \in DOMAIN seq : seq[k] = x}
<1>1. D \in SUBSET (1 .. Len(seq)) /\ Len(seq) \in Nat
  BY LenProperties
<1>2. IsFiniteSet(D) /\ Cardinality(D) \in 0 .. Len(seq)
  <2> HIDE DEF D
  <2> QED BY <1>1, PartOfInterval
<1> QED BY <1>1, <1>2 DEF Occurrences

(* Concatenation adds up. *)
LEMMA ConcatAddsOccurrences ==
  ASSUME NEW R, NEW s \in Seq(R), NEW t \in Seq(R), NEW e
  PROVE  Occurrences(s \o t, e) = Occurrences(s, e) + Occurrences(t, e)
<1> DEFINE m == Len(s)
           S == {k \in DOMAIN s : s[k] = e}
           T == {k \in DOMAIN t : t[k] = e}
           U == {k \in DOMAIN (s \o t) : (s \o t)[k] = e /\ k > m}
           f == [k \in T |-> k + m]
<1>1. /\ m \in Nat /\ Len(t) \in Nat
      /\ DOMAIN s = 1 .. m /\ DOMAIN t = 1 .. Len(t)
      /\ DOMAIN (s \o t) = 1 .. (m + Len(t))
      /\ \A k \in 1 .. (m + Len(t)) :
           (s \o t)[k] = IF k <= m THEN s[k] ELSE t[k - m]
  BY ConcatProperties, LenProperties
<1>2. {k \in DOMAIN (s \o t) : (s \o t)[k] = e} = S \cup U
  BY <1>1
<1>3. S \cap U = {}
  BY <1>1
<1>4. IsFiniteSet(S) /\ IsFiniteSet(T) /\ Cardinality(S) \in Nat /\ Cardinality(T) \in Nat
  BY OccurrencesType DEF Occurrences
<1>5. f \in [T -> U]
  BY <1>1
<1>6. \A x, y \in T : f[x] = f[y] => x = y
  BY <1>1
<1>7. \A u \in U : \E x \in T : f[x] = u
  <2> SUFFICES ASSUME NEW u \in U PROVE \E x \in T : x + m = u
    OBVIOUS
  <2>1. u - m \in 1 .. Len(t) /\ t[u - m] = e /\ (u - m) + m = u
    BY <1>1
  <2> QED BY <1>1, <2>1
<1> HIDE DEF S, T, U, f, m
<1>8. IsFiniteSet(U) /\ Cardinality(U) = Cardinality(T)
  BY <1>4, <1>5, <1>6, <1>7, SameCardinality
<1>9. Cardinality(S \cup U) = Cardinality(S) + Cardinality(U) - Cardinality(S \cap U)
  BY <1>4, <1>8, FS_Union
<1>10. Cardinality(S \cap U) = 0
  BY <1>3, FS_EmptySet
<1>11. Cardinality(S \cup U) = Cardinality(S) + Cardinality(T)
  BY <1>4, <1>8, <1>9, <1>10
<1> QED BY <1>2, <1>11 DEF S, T, Occurrences

(* Appending and taking the head away change one count by one. *)
LEMMA SingletonOccurrences ==
  ASSUME NEW x, NEW e
  PROVE  Occurrences(<<x>>, e) = IF x = e THEN 1 ELSE 0
<1>1. DOMAIN <<x>> = {1} /\ <<x>>[1] = x
  OBVIOUS
<1>2. CASE x = e
  <2>1. {k \in DOMAIN <<x>> : <<x>>[k] = e} = {1}
    BY <1>1, <1>2
  <2> QED BY <1>2, <2>1, FS_Singleton DEF Occurrences
<1>3. CASE x # e
  <2>1. {k \in DOMAIN <<x>> : <<x>>[k] = e} = {}
    BY <1>1, <1>3
  <2> QED BY <1>3, <2>1, FS_EmptySet DEF Occurrences
<1> QED BY <1>2, <1>3

LEMMA AppendOccurrences ==
  ASSUME NEW R, NEW seq \in Seq(R), NEW x \in R, NEW e
  PROVE  Occurrences(Append(seq, x), e) = Occurrences(seq, e) + (IF x = e THEN 1 ELSE 0)
<1> DEFINE last == <<x>>
<1>1. Append(seq, x) = seq \o last
  BY AppendIsConcat
<1>2. last \in Seq(R)
  OBVIOUS
<1>3. Occurrences(last, e) = IF x = e THEN 1 ELSE 0
  BY SingletonOccurrences
<1> HIDE DEF last
<1>4. Occurrences(seq \o last, e) = Occurrences(seq, e) + Occurrences(last, e)
  BY <1>2, ConcatAddsOccurrences, Zenon
<1> QED BY <1>1, <1>3, <1>4

LEMMA TailOccurrences ==
  ASSUME NEW R, NEW seq \in Seq(R), seq # <<>>, NEW e
  PROVE  Occurrences(seq, e) = Occurrences(Tail(seq), e) + (IF Head(seq) = e THEN 1 ELSE 0)
<1> DEFINE first == <<Head(seq)>>
           rest == Tail(seq)
<1>1. seq = first \o rest /\ first \in Seq(R) /\ rest \in Seq(R)
  BY HeadTailProperties
<1>2. Occurrences(first, e) = IF Head(seq) = e THEN 1 ELSE 0
  BY SingletonOccurrences
<1> HIDE DEF first, rest
<1>3. Occurrences(first \o rest, e) = Occurrences(first, e) + Occurrences(rest, e)
  BY <1>1, ConcatAddsOccurrences, Zenon
<1>4. Occurrences(rest, e) \in Nat
  BY <1>1, OccurrencesType, Zenon
<1>5. Occurrences(seq, e) = Occurrences(first, e) + Occurrences(rest, e)
  BY <1>1, <1>3
<1>6. Occurrences(first, e) \in {0, 1}
  BY <1>2
<1>7. Occurrences(seq, e) = Occurrences(rest, e) + Occurrences(first, e)
  BY <1>4, <1>5, <1>6
<1> QED BY <1>2, <1>7 DEF rest

-------------------------------------------------------------------------------
(* The sum of a function on a set is how many cells its columns have. *)
Cells(fun, s) == {c \in s \X Nat : 1 <= c[2] /\ c[2] <= fun[c[1]]}

(* A column has as many cells as its height. *)
LEMMA CellsOfOne ==
  ASSUME NEW fun, NEW x, fun[x] \in Nat
  PROVE  IsFiniteSet(Cells(fun, {x})) /\ Cardinality(Cells(fun, {x})) = fun[x]
<1>1. PICK n, u, cells, f :
        /\ n = fun[x] /\ u = 1 .. n /\ cells = Cells(fun, {x}) /\ f = [i \in u |-> <<x, i>>]
  OBVIOUS
<1>2. f \in [u -> cells]
  BY <1>1 DEF Cells
<1>3. \A i, j \in u : f[i] = f[j] => i = j
  BY <1>1
<1>4. \A c \in cells : \E i \in u : f[i] = c
  BY <1>1 DEF Cells
<1>5. IsFiniteSet(u) /\ Cardinality(u) = n
  <2>1. n \in Nat /\ 1 \in Int
    BY <1>1
  <2>2. IsFiniteSet(1 .. n) /\ Cardinality(1 .. n) = n
    BY <2>1, FS_Interval
  <2> QED BY <1>1, <2>2
<1>6. IsFiniteSet(cells) /\ Cardinality(cells) = Cardinality(u)
  BY <1>2, <1>3, <1>4, <1>5, SameCardinality
<1> QED BY <1>1, <1>5, <1>6

(* One column and the others have no cell in common. *)
LEMMA CellsSplit ==
  ASSUME NEW fun, NEW s, NEW x \in s
  PROVE  /\ Cells(fun, s) = Cells(fun, {x}) \cup Cells(fun, s \ {x})
         /\ Cells(fun, {x}) \cap Cells(fun, s \ {x}) = {}
BY DEF Cells

(* Induction on the size of a finite set, as a fact about a set of sets. *)
LEMMA SmallestSet ==
  ASSUME NEW B, B # {}, \A s \in B : IsFiniteSet(s)
  PROVE  \E s \in B : \A x \in s : s \ {x} \notin B
<1> DEFINE T == {n \in Nat : \E s \in B : Cardinality(s) = n}
<1>1. \A s \in B : Cardinality(s) \in T
  BY FS_CardinalityType
<1>2. PICK n \in T : \A k \in T : n <= k
  <2>1. T \in SUBSET Nat /\ T # {}
    BY <1>1
  <2> HIDE DEF T
  <2> QED BY <2>1, LeastNatural
<1>3. PICK s \in B : Cardinality(s) = n
  BY <1>2
<1>4. ASSUME NEW x \in s, s \ {x} \in B PROVE FALSE
  <2>1. IsFiniteSet(s) /\ n \in Nat
    BY <1>3
  <2>2. Cardinality(s \ {x}) = n - 1
    BY <1>3, <2>1, FS_RemoveElement
  <2>3. n <= n - 1
    BY <1>1, <1>2, <1>4, <2>2
  <2> QED BY <2>1, <2>3
<1> QED BY <1>3, <1>4

(* Finitely many columns have finitely many cells. *)
LEMMA CellsAreFinite ==
  ASSUME NEW S, IsFiniteSet(S), NEW fun, \A x \in S : fun[x] \in Nat
  PROVE  IsFiniteSet(Cells(fun, S)) /\ Cardinality(Cells(fun, S)) \in Nat
<1> DEFINE B == {s \in SUBSET S : ~ IsFiniteSet(Cells(fun, s))}
<1>1. B = {}
  <2> SUFFICES ASSUME B # {} PROVE FALSE
    OBVIOUS
  <2>1. \A s \in B : IsFiniteSet(s)
    BY FS_Subset
  <2>2. PICK s \in B : \A x \in s : s \ {x} \notin B
    <3> HIDE DEF B
    <3> QED BY <2>1, SmallestSet
  <2>3. s # {}
    <3>1. Cells(fun, {}) = {}
      BY DEF Cells
    <3> QED BY <2>2, <3>1, FS_EmptySet
  <2>4. PICK x \in s : TRUE
    BY <2>3
  <2>5. IsFiniteSet(Cells(fun, s \ {x})) /\ IsFiniteSet(Cells(fun, {x}))
    BY <2>2, <2>4, CellsOfOne
  <2>6. Cells(fun, s) = Cells(fun, {x}) \cup Cells(fun, s \ {x})
    BY <2>4 DEF Cells
  <2>7. IsFiniteSet(Cells(fun, s))
    BY <2>5, <2>6, FS_Union
  <2> QED BY <2>2, <2>7
<1> QED BY <1>1, FS_CardinalityType

(* The cells are those of one column and those of the others. *)
LEMMA CellsAddUp ==
  ASSUME NEW S, IsFiniteSet(S), NEW fun, \A x \in S : fun[x] \in Nat, NEW x \in S
  PROVE  Cardinality(Cells(fun, S)) = fun[x] + Cardinality(Cells(fun, S \ {x}))
<1>1. IsFiniteSet(S \ {x})
  BY FS_RemoveElement
<1>2. /\ IsFiniteSet(Cells(fun, S \ {x})) /\ Cardinality(Cells(fun, S \ {x})) \in Nat
      /\ IsFiniteSet(Cells(fun, {x})) /\ Cardinality(Cells(fun, {x})) = fun[x]
  BY <1>1, CellsAreFinite, CellsOfOne
<1>3. /\ Cells(fun, S) = Cells(fun, {x}) \cup Cells(fun, S \ {x})
      /\ Cardinality(Cells(fun, {x}) \cap Cells(fun, S \ {x})) = 0
  BY CellsSplit, FS_EmptySet
<1> PICK a, b : a = Cells(fun, {x}) /\ b = Cells(fun, S \ {x})
  OBVIOUS
<1>4. Cardinality(a \cup b) = Cardinality(a) + Cardinality(b) - Cardinality(a \cap b)
  BY <1>2, FS_Union
<1> QED BY <1>2, <1>3, <1>4

(* The fold that SumFunctionOnSet is counts the cells: so does some        *)
(* function on the subsets of S satisfy the fold's recursion, and a        *)
(* smallest subset on which the two differ cannot be.                      *)
LEMMA SumIsCount ==
  ASSUME NEW S, IsFiniteSet(S), NEW fun, \A x \in S : fun[x] \in Nat
  PROVE  SumFunctionOnSet(fun, S) = Cardinality(Cells(fun, S))
<1> DEFINE Any(s) == CHOOSE x \in s : TRUE
           Step(it, s) == IF s = {} THEN 0 ELSE fun[Any(s)] + it[s \ {Any(s)}]
           iter == CHOOSE it : it = [s \in SUBSET S |-> Step(it, s)]
           g == [s \in SUBSET S |-> Cardinality(Cells(fun, s))]
<1>1. SumFunctionOnSet(fun, S) = iter[S]
  BY DEF SumFunctionOnSet, FoldFunctionOnSet, MapThenFoldSet
<1>2. \A s : s # {} => Any(s) \in s
  OBVIOUS
<1>3. \A s \in SUBSET S : s # {} => Cardinality(Cells(fun, s)) = fun[Any(s)] + Cardinality(Cells(fun, s \ {Any(s)}))
  <2> HIDE DEF Any
  <2> TAKE s \in SUBSET S
  <2>1. IsFiniteSet(s)
    BY FS_Subset
  <2> QED BY <1>2, <2>1, CellsAddUp
<1>4. Cardinality(Cells(fun, {})) = 0
  <2>1. Cells(fun, {}) = {}
    BY DEF Cells
  <2> QED BY <2>1, FS_EmptySet
<1> HIDE DEF Any
<1>5. g = [s \in SUBSET S |-> Step(g, s)]
  <2>1. \A s \in SUBSET S : Cardinality(Cells(fun, s)) = Step(g, s)
    BY <1>3, <1>4
  <2> QED BY <2>1
<1>6. iter = [s \in SUBSET S |-> Step(iter, s)]
  <2> HIDE DEF g, Step
  <2> QED BY <1>5
<1>7. \A s \in SUBSET S : iter[s] = Step(iter, s)
  <2> HIDE DEF iter, Step
  <2> QED BY <1>6
<1> HIDE DEF iter, g
<1> DEFINE B == {s \in SUBSET S : iter[s] # Cardinality(Cells(fun, s))}
<1>8. B = {}
  <2> SUFFICES ASSUME B # {} PROVE FALSE
    OBVIOUS
  <2>1. \A s \in B : IsFiniteSet(s)
    BY FS_Subset
  <2>2. PICK s \in B : \A x \in s : s \ {x} \notin B
    <3> HIDE DEF B
    <3> QED BY <2>1, SmallestSet
  <2>3. s # {}
    BY <1>4, <1>7, <2>2
  <2>4. s \ {Any(s)} \notin B /\ s \ {Any(s)} \in SUBSET S /\ s \in SUBSET S
    BY <1>2, <2>2, <2>3
  <2>5. iter[s] = fun[Any(s)] + iter[s \ {Any(s)}]
    BY <1>7, <2>3, <2>4
  <2>6. iter[s \ {Any(s)}] = Cardinality(Cells(fun, s \ {Any(s)}))
    BY <2>4
  <2> QED BY <1>3, <2>2, <2>3, <2>4, <2>5, <2>6
<1> QED BY <1>1, <1>8

(* A sum of naturals is a natural, and 0 when all of them are. *)
LEMMA SumType ==
  ASSUME NEW S, IsFiniteSet(S), NEW fun, \A x \in S : fun[x] \in Nat
  PROVE  /\ SumFunctionOnSet(fun, S) \in Nat
         /\ (\A x \in S : fun[x] = 0) => SumFunctionOnSet(fun, S) = 0
<1>1. SumFunctionOnSet(fun, S) = Cardinality(Cells(fun, S)) /\ Cardinality(Cells(fun, S)) \in Nat
  BY SumIsCount, CellsAreFinite
<1>2. (\A x \in S : fun[x] = 0) => Cells(fun, S) = {}
  BY DEF Cells
<1> QED BY <1>1, <1>2, FS_EmptySet

(* A sum is one of its terms and the sum of the others. *)
LEMMA SumSplits ==
  ASSUME NEW S, IsFiniteSet(S), NEW fun, \A x \in S : fun[x] \in Nat, NEW x \in S
  PROVE  SumFunctionOnSet(fun, S) = fun[x] + SumFunctionOnSet(fun, S \ {x})
<1>1. IsFiniteSet(S \ {x})
  BY FS_RemoveElement
<1>2. SumFunctionOnSet(fun, S \ {x}) = Cardinality(Cells(fun, S \ {x}))
  BY <1>1, SumIsCount
<1>3. SumFunctionOnSet(fun, S) = Cardinality(Cells(fun, S))
  BY SumIsCount
<1> QED BY <1>2, <1>3, CellsAddUp

(* Larger terms, or more of them, give no smaller sum. *)
LEMMA SumGrows ==
  ASSUME NEW T, IsFiniteSet(T), NEW S \in SUBSET T, NEW fun, NEW gun,
         \A x \in T : gun[x] \in Nat, \A x \in S : fun[x] \in Nat /\ fun[x] <= gun[x]
  PROVE  SumFunctionOnSet(fun, S) <= SumFunctionOnSet(gun, T)
<1>1. IsFiniteSet(S)
  BY FS_Subset
<1>2. SumFunctionOnSet(fun, S) = Cardinality(Cells(fun, S))
  BY <1>1, SumIsCount
<1>3. SumFunctionOnSet(gun, T) = Cardinality(Cells(gun, T)) /\ IsFiniteSet(Cells(gun, T))
  BY SumIsCount, CellsAreFinite
<1>4. Cells(fun, S) \subseteq Cells(gun, T)
  BY DEF Cells
<1> QED BY <1>2, <1>3, <1>4, FS_Subset

(* The sum depends on the terms alone. *)
LEMMA SumSame ==
  ASSUME NEW S, IsFiniteSet(S), NEW fun, NEW gun, \A x \in S : gun[x] \in Nat,
         \A x \in S : fun[x] = gun[x]
  PROVE  SumFunctionOnSet(fun, S) = SumFunctionOnSet(gun, S)
<1>1. Cells(fun, S) = Cells(gun, S)
  BY DEF Cells
<1>2. SumFunctionOnSet(fun, S) = Cardinality(Cells(fun, S))
  BY SumIsCount
<1>3. SumFunctionOnSet(gun, S) = Cardinality(Cells(gun, S))
  BY SumIsCount
<1> QED BY <1>1, <1>2, <1>3

(* A term that changes changes the sum by as much. *)
LEMMA SumChanges ==
  ASSUME NEW S, IsFiniteSet(S), NEW fun, \A x \in S : fun[x] \in Nat,
         NEW x \in S, NEW k \in Nat, NEW gun,
         gun[x] = fun[x] + k, \A y \in S \ {x} : gun[y] = fun[y]
  PROVE  SumFunctionOnSet(gun, S) = SumFunctionOnSet(fun, S) + k
<1>1. /\ gun[x] = fun[x] + k /\ \A y \in S : y # x => gun[y] = fun[y]
      /\ fun[x] \in Nat
  OBVIOUS
<1>2. \A y \in S : gun[y] \in Nat
  BY <1>1
<1>3. IsFiniteSet(S \ {x})
  BY FS_RemoveElement
<1>4. SumFunctionOnSet(gun, S \ {x}) = SumFunctionOnSet(fun, S \ {x})
  BY <1>1, <1>3, SumSame
<1>5. SumFunctionOnSet(fun, S \ {x}) \in Nat
  BY <1>3, SumType
<1>6. SumFunctionOnSet(fun, S) = fun[x] + SumFunctionOnSet(fun, S \ {x})
  BY SumSplits
<1>7. SumFunctionOnSet(gun, S) = gun[x] + SumFunctionOnSet(gun, S \ {x})
  BY <1>2, SumSplits
<1> QED BY <1>1, <1>4, <1>5, <1>6, <1>7

(* The sum on two disjoint sets is the sum on their union. *)
LEMMA SumOfUnion ==
  ASSUME NEW S, IsFiniteSet(S), NEW T, IsFiniteSet(T), S \cap T = {},
         NEW fun, \A x \in S \cup T : fun[x] \in Nat
  PROVE  SumFunctionOnSet(fun, S \cup T) = SumFunctionOnSet(fun, S) + SumFunctionOnSet(fun, T)
<1>1. IsFiniteSet(S \cup T)
  BY FS_Union
<1>2. SumFunctionOnSet(fun, S) = Cardinality(Cells(fun, S)) /\ IsFiniteSet(Cells(fun, S))
  BY SumIsCount, CellsAreFinite
<1>3. SumFunctionOnSet(fun, T) = Cardinality(Cells(fun, T)) /\ IsFiniteSet(Cells(fun, T))
  BY SumIsCount, CellsAreFinite
<1>4. SumFunctionOnSet(fun, S \cup T) = Cardinality(Cells(fun, S \cup T))
  BY <1>1, SumIsCount
<1> PICK a, b : a = Cells(fun, S) /\ b = Cells(fun, T)
  OBVIOUS
<1>5. Cells(fun, S \cup T) = a \cup b /\ a \cap b = {}
  BY DEF Cells
<1>6. Cardinality(a \cup b) = Cardinality(a) + Cardinality(b) - Cardinality(a \cap b)
  BY <1>2, <1>3, FS_Union
<1>7. Cardinality(a) \in Nat /\ Cardinality(b) \in Nat /\ Cardinality(a \cap b) = 0
  BY <1>2, <1>3, <1>5, FS_EmptySet, FS_CardinalityType
<1>8. Cardinality(a \cup b) = Cardinality(a) + Cardinality(b)
  BY <1>6, <1>7
<1>9. Cardinality(Cells(fun, S \cup T)) = Cardinality(a \cup b)
  BY <1>5
<1>10. SumFunctionOnSet(fun, S) = Cardinality(a) /\ SumFunctionOnSet(fun, T) = Cardinality(b)
  BY <1>2, <1>3
<1> QED BY <1>4, <1>8, <1>9, <1>10

(* A finite set of naturals has a greatest element. *)
LEMMA GreatestNatural ==
  ASSUME NEW S \in SUBSET Nat, IsFiniteSet(S), S # {}
  PROVE  \E m \in S : \A k \in S : k <= m
<1> DEFINE B == {s \in SUBSET S : s # {} /\ \A m \in s : \E k \in s : ~ (k <= m)}
<1>1. B = {}
  <2> SUFFICES ASSUME B # {} PROVE FALSE
    OBVIOUS
  <2>1. \A s \in B : IsFiniteSet(s)
    BY FS_Subset
  <2>2. PICK s \in B : \A x \in s : s \ {x} \notin B
    <3> HIDE DEF B
    <3> QED BY <2>1, SmallestSet
  <2>3. PICK x \in s : TRUE
    BY <2>2
  <2>4. PICK r : r = s \ {x}
    OBVIOUS
  <2>5. r \notin B /\ r \in SUBSET S /\ \A k \in s : k = x \/ k \in r
    BY <2>2, <2>3, <2>4
  <2>6. x \in Nat /\ \A k \in s : k \in Nat
    BY <2>2, <2>3
  <2>7. CASE r = {}
    <3>1. \A k \in s : k <= x
      BY <2>5, <2>6, <2>7
    <3> QED BY <2>2, <2>3, <3>1
  <2>8. CASE r # {}
    <3>1. PICK m \in r : \A k \in r : k <= m
      BY <2>5, <2>8
    <3>2. m \in Nat /\ m \in s /\ \A k \in r : k \in Nat
      BY <2>4, <2>6
    <3>3. CASE m <= x
      <4>1. \A k \in r : k <= x
        BY <2>6, <3>1, <3>2, <3>3
      <4>2. \A k \in s : k <= x
        BY <2>5, <2>6, <4>1
      <4> QED BY <2>2, <2>3, <4>2
    <3>4. CASE ~ (m <= x)
      <4>1. \A k \in s : k <= m
        BY <2>5, <2>6, <3>1, <3>2, <3>4
      <4> QED BY <2>2, <3>2, <4>1
    <3> QED BY <3>3, <3>4
  <2> QED BY <2>7, <2>8
<1> QED BY <1>1

(* Products of naturals. *)
LEMMA ProductGrows ==
  ASSUME NEW a \in Nat, NEW b \in Nat, NEW c \in Nat, a <= b
  PROVE  a * c <= b * c /\ c * a <= c * b /\ a * c \in Nat /\ b * c \in Nat
<1>1. b * c = a * c + (b - a) * c /\ c * b = c * a + c * (b - a)
  OBVIOUS
<1>2. (b - a) * c \in Nat /\ c * (b - a) \in Nat /\ a * c \in Nat /\ b * c \in Nat /\ c * a \in Nat
  OBVIOUS
<1> QED BY <1>1, <1>2

LEMMA ProductPositive ==
  ASSUME NEW a \in Nat, NEW b \in Nat, a > 0, b > 0
  PROVE  a * b > 0 /\ 0 * b = 0
OBVIOUS

-------------------------------------------------------------------------------
(* Append, element by element. *)
LEMMA AppendElements ==
  ASSUME NEW S, NEW seq \in Seq(S), NEW e \in S, NEW n \in Nat, Len(seq) = n
  PROVE  /\ Append(seq, e) \in Seq(S) /\ Len(Append(seq, e)) = n + 1
         /\ Append(seq, e)[n + 1] = e
         /\ \A i \in 1 .. n : Append(seq, e)[i] = seq[i]
OBVIOUS

(* What is appended joins the elements; what the tail drops is the head.   *)
LEMMA RangeOfAppend ==
  ASSUME NEW S, NEW s \in Seq(S), NEW x \in S
  PROVE  {Append(s, x)[i] : i \in DOMAIN Append(s, x)} = {s[i] : i \in DOMAIN s} \cup {x}
<1>1. /\ DOMAIN s = 1 .. Len(s) /\ Len(s) \in Nat
      /\ DOMAIN Append(s, x) = 1 .. (Len(s) + 1)
      /\ Append(s, x)[Len(s) + 1] = x
      /\ \A i \in 1 .. Len(s) : Append(s, x)[i] = s[i]
  OBVIOUS
<1>2. 1 .. (Len(s) + 1) = (1 .. Len(s)) \cup {Len(s) + 1}
  BY <1>1
<1> QED BY <1>1, <1>2

LEMMA RangeOfTail ==
  ASSUME NEW S, NEW s \in Seq(S), s # <<>>
  PROVE  {s[i] : i \in DOMAIN s} = {Tail(s)[i] : i \in DOMAIN Tail(s)} \cup {Head(s)}
<1>1. /\ DOMAIN s = 1 .. Len(s) /\ Len(s) \in Nat \ {0} /\ Head(s) = s[1]
      /\ DOMAIN Tail(s) = 1 .. (Len(s) - 1)
      /\ \A i \in 1 .. (Len(s) - 1) : Tail(s)[i] = s[i + 1]
  OBVIOUS
<1>2. ASSUME NEW i \in 1 .. Len(s), i # 1
      PROVE  i - 1 \in 1 .. (Len(s) - 1) /\ Tail(s)[i - 1] = s[i]
  BY <1>1, <1>2
<1>3. ASSUME NEW i \in 1 .. (Len(s) - 1)
      PROVE  i + 1 \in 1 .. Len(s) /\ Tail(s)[i] = s[i + 1]
  BY <1>1
<1>4. 1 \in 1 .. Len(s)
  BY <1>1
<1>5. {s[i] : i \in 1 .. Len(s)} = {Tail(s)[i] : i \in 1 .. (Len(s) - 1)} \cup {s[1]}
  BY <1>2, <1>3, <1>4
<1> QED BY <1>1, <1>5

LEMMA AppendToTuples ==
  ASSUME NEW x, NEW y, NEW z
  PROVE  Append(<<x>>, y) = <<x, y>> /\ Append(<<x, y>>, z) = <<x, y, z>>
<1>0. PICK S : x \in S /\ y \in S /\ z \in S
  <2>1. x \in {x, y, z} /\ y \in {x, y, z} /\ z \in {x, y, z}
    OBVIOUS
  <2> QED BY <2>1
<1>1. PICK a, b : a = <<x>> /\ b = <<x, y>>
  OBVIOUS
<1>2. a \in Seq(S) /\ Len(a) = 1 /\ a[1] = x
  BY <1>0, <1>1
<1>3. b \in Seq(S) /\ Len(b) = 2 /\ b[1] = x /\ b[2] = y
  BY <1>0, <1>1
<1>4. PICK c, d : c = Append(a, y) /\ d = Append(b, z)
  OBVIOUS
<1>5. c \in Seq(S) /\ Len(c) = 2 /\ c[1] = x /\ c[2] = y
  <2>1. PICK n \in Nat : n = 1
    OBVIOUS
  <2>2. /\ Append(a, y) \in Seq(S) /\ Len(Append(a, y)) = n + 1
        /\ Append(a, y)[n + 1] = y
        /\ \A i \in 1 .. n : Append(a, y)[i] = a[i]
    <3>1. Len(a) = n
      BY <1>2, <2>1
    <3> QED BY <1>0, <1>2, <3>1, AppendElements
  <2>3. n + 1 = 2 /\ 1 \in 1 .. n
    BY <2>1
  <2> QED BY <1>2, <1>4, <2>2, <2>3
<1>6. d \in Seq(S) /\ Len(d) = 3 /\ d[1] = x /\ d[2] = y /\ d[3] = z
  <2>1. PICK n \in Nat : n = 2
    OBVIOUS
  <2>2. /\ Append(b, z) \in Seq(S) /\ Len(Append(b, z)) = n + 1
        /\ Append(b, z)[n + 1] = z
        /\ \A i \in 1 .. n : Append(b, z)[i] = b[i]
    <3>1. Len(b) = n
      BY <1>3, <2>1
    <3> QED BY <1>0, <1>3, <3>1, AppendElements
  <2>3. n + 1 = 3 /\ 1 \in 1 .. n /\ 2 \in 1 .. n
    BY <2>1
  <2> QED BY <1>3, <1>4, <2>2, <2>3
<1>7. c = <<x, y>>
  BY <1>5
<1>8. d = <<x, y, z>>
  BY <1>6
<1> QED BY <1>1, <1>4, <1>7, <1>8

LEMMA TuplesAreNotEmpty ==
  ASSUME NEW x, NEW y
  PROVE  <<x>> # <<>> /\ <<x, y>> # <<>>
OBVIOUS

(* What follows a sequence follows it. *)
LEMMA ConcatSecond ==
  ASSUME NEW S, NEW s \in Seq(S), NEW t \in Seq(S), NEW m \in Nat, NEW c \in Nat,
         Len(s) = m, Len(t) = c, NEW i \in 1 .. c
  PROVE  (s \o t)[m + i] = t[i]
<1>1. m + i \in 1 .. (m + c) /\ ~ (m + i <= m) /\ (m + i) - m = i
  OBVIOUS
<1> QED BY <1>1
===============================================================================
