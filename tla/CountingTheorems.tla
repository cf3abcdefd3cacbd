-------------------------- MODULE CountingTheorems --------------------------
(***************************************************************************)
(* Facts about counts and sums over finite sets that the other proof       *)
(* modules need.  SumFunctionOnSet is a function on the subsets of a set,  *)
(* defined by recursion; that there is such a function, and what it adds   *)
(* up to, is shown by induction.  The principles of induction are stated   *)
(* for sets, so that no operator has to be passed to them.                 *)
(***************************************************************************)
EXTENDS Integers, Functions, FiniteSetTheorems, TLAPS

\* A finite set of numbers has a least one: its initial segments are finite sets,
\* which strict inclusion orders well.
LEMMA LeastExists ==
  ASSUME NEW C, C \subseteq Nat, IsFiniteSet(C), C # {}
  PROVE  \E i \in C : \A j \in C : i <= j
<1> DEFINE UpTo(i) == {j \in C : j <= i}
           T == {UpTo(i) : i \in C}
           R == StrictSubsetOrdering(C)
           F == FiniteSubsetsOf(C)
<1>1. IsWellFoundedOn(R, F)
  BY FS_StrictSubsetOrderingWellFounded
<1>2. T \subseteq F
  BY FS_Subset DEF FiniteSubsetsOf
<1>3. T # {}
  OBVIOUS
<1>4. PICK X \in T : \A Y \in T : <<Y, X>> \notin R
  <2> HIDE DEF T, R, F
  <2> QED BY <1>1, <1>2, <1>3, WFMin
<1>5. PICK i \in C : X = UpTo(i)
  OBVIOUS
<1>6. ASSUME NEW j \in C, j < i PROVE FALSE
  <2>1. i \in Nat /\ j \in Nat
    OBVIOUS
  <2>2. \A k \in UpTo(j) : k \in UpTo(i)
    <3> SUFFICES ASSUME NEW k \in C, k <= j PROVE k <= i
      OBVIOUS
    <3>1. k \in Nat
      OBVIOUS
    <3> HIDE DEF T, R, F
    <3> QED BY <1>6, <2>1, <3>1
  <2>3. i \in UpTo(i)
    BY <2>1
  <2>4. i \notin UpTo(j)
    BY <1>6, <2>1
  <2>5. <<UpTo(j), X>> \in R
    BY <2>2, <2>3, <2>4, <1>5 DEF StrictSubsetOrdering
  <2> QED BY <1>4, <2>5
<1>7. \A j \in C : i <= j
  <2> SUFFICES ASSUME NEW j \in C PROVE i <= j
    OBVIOUS
  <2>1. i \in Nat /\ j \in Nat
    OBVIOUS
  <2> QED BY <1>6, <2>1
<1> QED BY <1>7

\* Two sets without a common element.
LEMMA DisjointCount ==
  ASSUME NEW A, NEW B, IsFiniteSet(A), IsFiniteSet(B), A \cap B = {}
  PROVE  Cardinality(A \cup B) = Cardinality(A) + Cardinality(B)
<1>1. Cardinality(A \cup B) = Cardinality(A) + Cardinality(B) - Cardinality(A \cap B)
  BY FS_Union
<1>2. Cardinality(A \cap B) = 0
  BY FS_EmptySet
<1>3. Cardinality(A) \in Nat /\ Cardinality(B) \in Nat
  BY FS_CardinalityType
<1> QED
  BY <1>1, <1>2, <1>3

\* What the library's theorems say of a finite set.
LEMMA CountType == ASSUME NEW S, IsFiniteSet(S) PROVE Cardinality(S) \in Nat
BY FS_CardinalityType

\* A part of a finite set is finite, and no larger.
LEMMA SubsetCount ==
  ASSUME NEW S, IsFiniteSet(S), NEW T, T \subseteq S
  PROVE  IsFiniteSet(T) /\ Cardinality(T) <= Cardinality(S)
BY FS_Subset

\* One element more counts one more.
LEMMA AddOne ==
  ASSUME NEW S, IsFiniteSet(S), NEW x
  PROVE  /\ IsFiniteSet(S \cup {x})
         /\ x \notin S => Cardinality(S \cup {x}) = Cardinality(S) + 1
BY FS_AddElement

\* Nothing counts zero.
LEMMA EmptyCount == IsFiniteSet({}) /\ Cardinality({}) = 0
BY FS_EmptySet

\* The first n numbers are finitely many.
LEMMA IntervalIsFinite == ASSUME NEW n \in Nat PROVE IsFiniteSet(1..n)
BY FS_Interval

-----------------------------------------------------------------------------
(* Induction.                                                              *)

\* A set of numbers that has 0, and with each number the next, has them all.
LEMMA SetInduction ==
  ASSUME NEW T, 0 \in T, \A n \in Nat : n \in T => n + 1 \in T
  PROVE  \A n \in Nat : n \in T
<1> SUFFICES ASSUME NEW n \in Nat, n \notin T PROVE FALSE
  OBVIOUS
<1> DEFINE C == {j \in 0..n : j \notin T}
<1>1. IsFiniteSet(C)
  <2>1. IsFiniteSet(0..n)
    BY FS_Interval
  <2> QED BY <2>1, FS_Subset
<1>2. n \in C /\ C \subseteq Nat
  OBVIOUS
<1>3. PICK i \in C : \A j \in C : i <= j
  <2> HIDE DEF C
  <2> QED BY <1>1, <1>2, LeastExists
<1>4. i # 0 /\ i \in 0..n /\ i \notin T
  OBVIOUS
<1>5. i - 1 \in Nat /\ i - 1 \in 0..n /\ i - 1 \notin C
  BY <1>3, <1>4
<1>6. i - 1 \in T
  BY <1>5
<1>7. (i - 1) + 1 \in T
  BY <1>5, <1>6
<1> QED BY <1>4, <1>7

\* A family of subsets of a finite set that has a set whenever it has all of its
\* proper subsets, has them all.
LEMMA SubsetInduction ==
  ASSUME NEW D, IsFiniteSet(D), NEW G,
         \A s \in SUBSET D : (\A t \in SUBSET s : t # s => t \in G) => s \in G
  PROVE  \A s \in SUBSET D : s \in G
<1> DEFINE R == StrictSubsetOrdering(D)
           F == FiniteSubsetsOf(D)
           T == (SUBSET D) \ G
<1> SUFFICES ASSUME T # {} PROVE FALSE
  OBVIOUS
<1>1. IsWellFoundedOn(R, F)
  BY FS_StrictSubsetOrderingWellFounded
<1>2. T \subseteq F
  BY FS_Subset DEF FiniteSubsetsOf
<1>3. PICK s \in T : \A t \in T : <<t, s>> \notin R
  <2> HIDE DEF T, R, F
  <2> QED BY <1>1, <1>2, WFMin
<1>4. s \subseteq D /\ s \notin G
  OBVIOUS
<1>5. PICK t \in SUBSET s : t # s /\ t \notin G
  BY <1>4
<1>6. <<t, s>> \in R
  BY <1>4, <1>5 DEF StrictSubsetOrdering
<1> QED BY <1>3, <1>4, <1>5, <1>6

\* The element that a fold takes out of a set first.
Pick(s) == CHOOSE x \in s : TRUE

\* Something is picked from every set that has something.
LEMMA PickIsElement == ASSUME NEW s, s # {} PROVE Pick(s) \in s
BY DEF Pick

\* For a family of subsets it is enough to have {}, and each set that it has without
\* its first element.
LEMMA PickInduction ==
  ASSUME NEW D, IsFiniteSet(D), NEW G, {} \in G,
         \A s \in SUBSET D : s # {} /\ s \ {Pick(s)} \in G => s \in G
  PROVE  \A s \in SUBSET D : s \in G
<1>1. ASSUME NEW s \in SUBSET D, \A t \in SUBSET s : t # s => t \in G
      PROVE  s \in G
  <2>1. CASE s # {}
    <3>1. s \ {Pick(s)} \in SUBSET s /\ s \ {Pick(s)} # s
      BY <2>1, PickIsElement
    <3> QED BY <1>1, <2>1, <3>1
  <2> QED BY <2>1
<1> QED BY <1>1, SubsetInduction

-----------------------------------------------------------------------------
(* Sums.                                                                   *)

\* it maps each subset of D to the sum of f over it.
Sums(f, D, it) ==
  it = [s \in SUBSET D |-> IF s = {} THEN 0 ELSE f[Pick(s)] + it[s \ {Pick(s)}]]

\* There is such a function: it is built for larger and larger subsets.
LEMMA SumsExist ==
  ASSUME NEW D, IsFiniteSet(D), NEW f
  PROVE  \E it : Sums(f, D, it)
<1> DEFINE Next(g) == [s \in SUBSET D |-> IF s = {} THEN 0 ELSE f[Pick(s)] + g[s \ {Pick(s)}]]
           Upto(n) == {s \in SUBSET D : Cardinality(s) <= n}
           T == {n \in Nat : \E g : \A s \in Upto(n) : g[s] = Next(g)[s]}
<1>0. \A s \in SUBSET D : IsFiniteSet(s) /\ Cardinality(s) \in Nat
  BY FS_Subset, FS_CardinalityType
<1>1. 0 \in T
  <2> DEFINE g == [s \in SUBSET D |-> 0]
  <2>1. \A s \in Upto(0) : s = {}
    BY <1>0, FS_EmptySet
  <2>2. \A s \in Upto(0) : g[s] = Next(g)[s]
    BY <2>1
  <2> QED BY <2>2
<1>2. ASSUME NEW n \in Nat, n \in T PROVE n + 1 \in T
  <2>1. PICK g : \A s \in Upto(n) : g[s] = Next(g)[s]
    BY <1>2
  <2> DEFINE h == Next(g)
  <2>2. ASSUME NEW s \in Upto(n + 1) PROVE h[s] = Next(h)[s]
    <3>1. CASE s = {}
      BY <3>1
    <3>2. CASE s # {}
      <4> DEFINE t == s \ {Pick(s)}
      <4>1. Pick(s) \in s
        BY <3>2, PickIsElement
      <4>2. t \in SUBSET D /\ Cardinality(t) = Cardinality(s) - 1
        BY <1>0, <4>1, FS_RemoveElement
      <4>3. t \in Upto(n)
        BY <1>0, <4>2
      <4>4. h[t] = g[t]
        BY <2>1, <4>3
      <4> QED BY <3>2, <4>2, <4>4
    <3> QED BY <3>1, <3>2
  <2>3. \E a : \A s \in Upto(n + 1) : a[s] = Next(a)[s]
    <3> HIDE DEF h, Next, Upto
    <3> QED BY <2>2
  <2>4. n + 1 \in Nat
    OBVIOUS
  <2> HIDE DEF Next, Upto
  <2> QED BY <2>3, <2>4
<1>3. Cardinality(D) \in T
  <2> HIDE DEF T
  <2> QED BY <1>0, <1>1, <1>2, SetInduction
<1>4. PICK g : \A s \in Upto(Cardinality(D)) : g[s] = Next(g)[s]
  BY <1>3
<1>5. \A s \in SUBSET D : s \in Upto(Cardinality(D))
  BY FS_Subset
<1> DEFINE it == [s \in SUBSET D |-> g[s]]
<1>6. \A s \in SUBSET D : s # {} => it[s \ {Pick(s)}] = g[s \ {Pick(s)}]
  OBVIOUS
<1>7. it = Next(it)
  BY <1>4, <1>5, <1>6
<1> QED BY <1>7 DEF Sums

\* SumFunctionOnSet is the value of such a function.
LEMMA SumIsDefined ==
  ASSUME NEW D, IsFiniteSet(D), NEW f
  PROVE  \E it : Sums(f, D, it) /\ SumFunctionOnSet(f, D) = it[D]
<1> DEFINE it == CHOOSE a : Sums(f, D, a)
<1>1. Sums(f, D, it)
  BY SumsExist
<1>2. SumFunctionOnSet(f, D) = it[D]
  BY DEF SumFunctionOnSet, FoldFunctionOnSet, MapThenFoldSet, Sums, Pick
<1> QED BY <1>1, <1>2
\* The sum over a subset does not depend on the set it is taken in.
LEMMA SumOnSubsets ==
  ASSUME NEW D, IsFiniteSet(D), NEW f
  PROVE  \E it : Sums(f, D, it) /\ \A s \in SUBSET D : SumFunctionOnSet(f, s) = it[s]
<1>1. PICK it : Sums(f, D, it)
  BY SumsExist
<1>2. ASSUME NEW s \in SUBSET D PROVE SumFunctionOnSet(f, s) = it[s]
  <2>0. IsFiniteSet(s)
    BY FS_Subset
  <2>1. PICK own : Sums(f, s, own) /\ SumFunctionOnSet(f, s) = own[s]
    BY <2>0, SumIsDefined
  <2> DEFINE G == {t \in SUBSET s : own[t] = it[t]}
  <2>2. {} \in G
    BY <1>1, <2>1 DEF Sums
  <2>3. ASSUME NEW t \in SUBSET s, t # {}, t \ {Pick(t)} \in G PROVE t \in G
    <3>1. own[t] = f[Pick(t)] + own[t \ {Pick(t)}]
      BY <2>1, <2>3 DEF Sums
    <3>2. it[t] = f[Pick(t)] + it[t \ {Pick(t)}]
      <4>1. t \in SUBSET D
        OBVIOUS
      <4> QED BY <1>1, <2>3, <4>1 DEF Sums
    <3> QED BY <2>3, <3>1, <3>2
  <2>4. \A t \in SUBSET s : t \in G
    <3> HIDE DEF G
    <3> QED BY <2>0, <2>2, <2>3, PickInduction
  <2> QED BY <2>1, <2>4
<1> QED BY <1>1, <1>2

\* The sum over nothing is zero.
LEMMA SumEmpty == ASSUME NEW f PROVE SumFunctionOnSet(f, {}) = 0
<1>1. IsFiniteSet({})
  BY FS_EmptySet
<1>2. PICK it : Sums(f, {}, it) /\ SumFunctionOnSet(f, {}) = it[{}]
  BY <1>1, SumIsDefined
<1> QED BY <1>2 DEF Sums

\* The first element is added to the sum of the others.
LEMMA SumUnfolds ==
  ASSUME NEW D, IsFiniteSet(D), NEW f, NEW s \in SUBSET D, s # {}
  PROVE  SumFunctionOnSet(f, s) = f[Pick(s)] + SumFunctionOnSet(f, s \ {Pick(s)})
<1>1. PICK it : Sums(f, D, it) /\ \A t \in SUBSET D : SumFunctionOnSet(f, t) = it[t]
  BY SumOnSubsets
<1>2. s \ {Pick(s)} \in SUBSET D
  OBVIOUS
<1>3. it[s] = f[Pick(s)] + it[s \ {Pick(s)}]
  BY <1>1 DEF Sums
<1> QED BY <1>1, <1>2, <1>3

\* A sum of integers is one, and one of natural numbers is natural.
LEMMA SumType ==
  ASSUME NEW D, IsFiniteSet(D), NEW f, \A x \in D : f[x] \in Int
  PROVE  /\ SumFunctionOnSet(f, D) \in Int
         /\ (\A x \in D : f[x] \in Nat) => SumFunctionOnSet(f, D) \in Nat
<1> DEFINE G == {s \in SUBSET D : /\ SumFunctionOnSet(f, s) \in Int
                                  /\ (\A x \in D : f[x] \in Nat) => SumFunctionOnSet(f, s) \in Nat}
<1>1. {} \in G
  BY SumEmpty
<1>2. ASSUME NEW s \in SUBSET D, s # {}, s \ {Pick(s)} \in G PROVE s \in G
  <2>1. SumFunctionOnSet(f, s) = f[Pick(s)] + SumFunctionOnSet(f, s \ {Pick(s)})
    BY <1>2, SumUnfolds
  <2>2. Pick(s) \in D
    BY <1>2, PickIsElement
  <2> QED BY <1>2, <2>1, <2>2
<1>3. D \in G
  <2> HIDE DEF G
  <2> QED BY <1>1, <1>2, PickInduction
<1> QED BY <1>3

\* The sum of sums.
LEMMA SumPlus ==
  ASSUME NEW D, IsFiniteSet(D), NEW f, NEW g, NEW h,
         \A x \in D : f[x] \in Int /\ g[x] \in Int /\ h[x] = f[x] + g[x]
  PROVE  SumFunctionOnSet(h, D) = SumFunctionOnSet(f, D) + SumFunctionOnSet(g, D)
<1> DEFINE G == {s \in SUBSET D : SumFunctionOnSet(h, s)
                                    = SumFunctionOnSet(f, s) + SumFunctionOnSet(g, s)}
<1>1. {} \in G
  BY SumEmpty
<1>2. ASSUME NEW s \in SUBSET D, s # {}, s \ {Pick(s)} \in G PROVE s \in G
  <2> DEFINE t == s \ {Pick(s)}
  <2>1. /\ SumFunctionOnSet(f, s) = f[Pick(s)] + SumFunctionOnSet(f, t)
        /\ SumFunctionOnSet(g, s) = g[Pick(s)] + SumFunctionOnSet(g, t)
        /\ SumFunctionOnSet(h, s) = h[Pick(s)] + SumFunctionOnSet(h, t)
    BY <1>2, SumUnfolds
  <2>2. Pick(s) \in D
    BY <1>2, PickIsElement
  <2>3. IsFiniteSet(t) /\ \A x \in t : f[x] \in Int /\ g[x] \in Int
    BY FS_Subset
  <2>4. SumFunctionOnSet(f, t) \in Int /\ SumFunctionOnSet(g, t) \in Int
    BY <2>3, SumType
  <2>5. SumFunctionOnSet(h, t) = SumFunctionOnSet(f, t) + SumFunctionOnSet(g, t)
    BY <1>2
  <2> QED BY <2>1, <2>2, <2>4, <2>5
<1>3. D \in G
  <2> HIDE DEF G
  <2> QED BY <1>1, <1>2, PickInduction
<1> QED BY <1>3

\* A sum of zeros and ones counts the ones.
LEMMA SumOfBits ==
  ASSUME NEW D, IsFiniteSet(D), NEW f, \A x \in D : f[x] \in {0, 1}
  PROVE  SumFunctionOnSet(f, D) = Cardinality({x \in D : f[x] = 1})
<1> DEFINE Ones(s) == {x \in s : f[x] = 1}
           G == {s \in SUBSET D : SumFunctionOnSet(f, s) = Cardinality(Ones(s))}
<1>1. {} \in G
  <2>1. Ones({}) = {}
    OBVIOUS
  <2> QED BY <2>1, SumEmpty, FS_EmptySet
<1>2. ASSUME NEW s \in SUBSET D, s # {}, s \ {Pick(s)} \in G PROVE s \in G
  <2> DEFINE p == Pick(s)
             t == s \ {p}
  <2>1. SumFunctionOnSet(f, s) = f[p] + SumFunctionOnSet(f, t)
    BY <1>2, SumUnfolds
  <2>2. p \in s
    BY <1>2, PickIsElement
  <2>3. IsFiniteSet(Ones(t)) /\ Cardinality(Ones(t)) \in Nat
    BY FS_Subset, FS_CardinalityType
  <2>4. SumFunctionOnSet(f, t) = Cardinality(Ones(t))
    BY <1>2
  <2>5. CASE f[p] = 1
    <3>1. Ones(s) = Ones(t) \cup {p} /\ p \notin Ones(t)
      BY <2>2, <2>5
    <3>2. Cardinality(Ones(s)) = Cardinality(Ones(t)) + 1
      <4> HIDE DEF Ones, p, t
      <4> QED BY <2>3, <3>1, FS_AddElement
    <3> QED BY <2>1, <2>3, <2>4, <2>5, <3>2
  <2>6. CASE f[p] = 0
    <3>1. Ones(s) = Ones(t)
      BY <2>2, <2>6
    <3>2. Cardinality(Ones(s)) = Cardinality(Ones(t))
      BY <3>1
    <3> QED BY <2>1, <2>3, <2>4, <2>6, <3>2
  <2> QED BY <2>2, <2>5, <2>6
<1>3. D \in G
  <2> HIDE DEF G
  <2> QED BY <1>1, <1>2, PickInduction
<1> QED BY <1>3

\* Any element can be taken out of the sum.
LEMMA SumWithout ==
  ASSUME NEW D, IsFiniteSet(D), NEW f, \A x \in D : f[x] \in Int, NEW x \in D
  PROVE  SumFunctionOnSet(f, D) = f[x] + SumFunctionOnSet(f, D \ {x})
<1> DEFINE G == {s \in SUBSET D :
                   \A y \in s : SumFunctionOnSet(f, s) = f[y] + SumFunctionOnSet(f, s \ {y})}
<1>1. ASSUME NEW s \in SUBSET D, \A t \in SUBSET s : t # s => t \in G
      PROVE  s \in G
  <2> SUFFICES ASSUME NEW y \in s
               PROVE  SumFunctionOnSet(f, s) = f[y] + SumFunctionOnSet(f, s \ {y})
    OBVIOUS
  <2> DEFINE p == Pick(s)
  <2>1. p \in s
    BY PickIsElement
  <2>2. SumFunctionOnSet(f, s) = f[p] + SumFunctionOnSet(f, s \ {p})
    BY SumUnfolds
  <2>3. CASE y # p
    <3>1. y \in s \ {p} /\ p \in s \ {y} /\ s \ {p} \in G /\ s \ {y} \in G
      BY <1>1, <2>1, <2>3
    <3>2. SumFunctionOnSet(f, s \ {p}) = f[y] + SumFunctionOnSet(f, (s \ {p}) \ {y})
      BY <3>1
    <3>3. SumFunctionOnSet(f, s \ {y}) = f[p] + SumFunctionOnSet(f, (s \ {y}) \ {p})
      BY <3>1
    <3>4. (s \ {p}) \ {y} = (s \ {y}) \ {p}
      OBVIOUS
    <3>5. IsFiniteSet((s \ {y}) \ {p}) /\ \A z \in (s \ {y}) \ {p} : f[z] \in Int
      BY FS_Subset
    <3>6. SumFunctionOnSet(f, (s \ {y}) \ {p}) \in Int
      BY <3>5, SumType
    <3>7. f[p] \in Int /\ f[y] \in Int
      BY <2>1
    <3> DEFINE rest == SumFunctionOnSet(f, (s \ {y}) \ {p})
    <3>8. SumFunctionOnSet(f, s) = f[p] + (f[y] + rest)
      BY <2>2, <3>2, <3>4
    <3> HIDE DEF rest, p
    <3> QED BY <3>3, <3>6, <3>7, <3>8 DEF rest
  <2> QED BY <2>2, <2>3
<1>2. D \in G
  <2> HIDE DEF G
  <2> QED BY <1>1, SubsetInduction
<1> QED BY <1>2

\* Equal summands, equal sums.
LEMMA SumSame ==
  ASSUME NEW D, IsFiniteSet(D), NEW f, NEW g, \A x \in D : f[x] = g[x]
  PROVE  SumFunctionOnSet(f, D) = SumFunctionOnSet(g, D)
<1> DEFINE G == {s \in SUBSET D : SumFunctionOnSet(f, s) = SumFunctionOnSet(g, s)}
<1>1. {} \in G
  BY SumEmpty
<1>2. ASSUME NEW s \in SUBSET D, s # {}, s \ {Pick(s)} \in G PROVE s \in G
  <2>1. /\ SumFunctionOnSet(f, s) = f[Pick(s)] + SumFunctionOnSet(f, s \ {Pick(s)})
        /\ SumFunctionOnSet(g, s) = g[Pick(s)] + SumFunctionOnSet(g, s \ {Pick(s)})
    BY <1>2, SumUnfolds
  <2>2. Pick(s) \in D
    BY <1>2, PickIsElement
  <2> QED BY <1>2, <2>1, <2>2
<1>3. D \in G
  <2> HIDE DEF G
  <2> QED BY <1>1, <1>2, PickInduction
<1> QED BY <1>3

\* Where one summand changes, the sum changes by as much.
LEMMA SumOneChange ==
  ASSUME NEW D, IsFiniteSet(D), NEW f, NEW g, NEW x \in D,
         \A y \in D : f[y] \in Nat /\ g[y] \in Nat,
         \A y \in D \ {x} : f[y] = g[y]
  PROVE  /\ SumFunctionOnSet(f, D) \in Nat /\ SumFunctionOnSet(g, D) \in Nat
         /\ SumFunctionOnSet(g, D) = SumFunctionOnSet(f, D) - f[x] + g[x]
         /\ f[x] <= SumFunctionOnSet(f, D)
<1>1. IsFiniteSet(D \ {x})
  BY FS_Subset
<1>2. \A y \in D : f[y] \in Int /\ g[y] \in Int
  OBVIOUS
<1>3. /\ SumFunctionOnSet(f, D) = f[x] + SumFunctionOnSet(f, D \ {x})
      /\ SumFunctionOnSet(g, D) = g[x] + SumFunctionOnSet(g, D \ {x})
  BY <1>2, SumWithout
<1>4. SumFunctionOnSet(f, D \ {x}) = SumFunctionOnSet(g, D \ {x})
  BY <1>1, SumSame
<1>5. SumFunctionOnSet(f, D \ {x}) \in Nat
  <2>1. \A y \in D \ {x} : f[y] \in Int /\ f[y] \in Nat
    OBVIOUS
  <2> QED BY <1>1, <2>1, SumType
<1> QED BY <1>3, <1>4, <1>5

\* A sum falls apart into those over a subset and over the rest.
LEMMA SumSplit ==
  ASSUME NEW D, IsFiniteSet(D), NEW S, S \subseteq D, NEW f, \A x \in D : f[x] \in Nat
  PROVE  /\ SumFunctionOnSet(f, S) \in Nat /\ SumFunctionOnSet(f, D \ S) \in Nat
         /\ SumFunctionOnSet(f, D) = SumFunctionOnSet(f, S) + SumFunctionOnSet(f, D \ S)
<1> DEFINE Both(t) == SumFunctionOnSet(f, S \cap t) + SumFunctionOnSet(f, t \ S)
           G == {t \in SUBSET D : SumFunctionOnSet(f, t) = Both(t)}
<1>0. \A t \in SUBSET D : IsFiniteSet(t) /\ SumFunctionOnSet(f, t) \in Nat
  <2> SUFFICES ASSUME NEW t \in SUBSET D
               PROVE  IsFiniteSet(t) /\ SumFunctionOnSet(f, t) \in Nat
    OBVIOUS
  <2>1. IsFiniteSet(t) /\ \A x \in t : f[x] \in Int /\ f[x] \in Nat
    BY FS_Subset
  <2> QED BY <2>1, SumType
<1>1. {} \in G
  <2>1. S \cap {} = {} /\ {} \ S = {} /\ SumFunctionOnSet(f, {}) = 0
    BY SumEmpty
  <2> QED BY <2>1
<1>2. ASSUME NEW s \in SUBSET D, s # {}, s \ {Pick(s)} \in G PROVE s \in G
  <2> DEFINE p == Pick(s)
             t == s \ {p}
  <2>1. p \in s /\ f[p] \in Nat
    BY <1>2, PickIsElement
  <2>2. SumFunctionOnSet(f, s) = f[p] + SumFunctionOnSet(f, t)
    BY <1>2, SumUnfolds
  <2>3. SumFunctionOnSet(f, t) = Both(t)
    BY <1>2
  <2>4. /\ SumFunctionOnSet(f, S \cap t) \in Nat /\ SumFunctionOnSet(f, t \ S) \in Nat
        /\ IsFiniteSet(S \cap s) /\ IsFiniteSet(s \ S)
        /\ \A x \in s : f[x] \in Int
    BY <1>0
  <2>5. CASE p \in S
    <3>1. p \in S \cap s /\ (S \cap s) \ {p} = S \cap t /\ s \ S = t \ S
      BY <2>1, <2>5
    <3> HIDE DEF p, t
    <3>2. SumFunctionOnSet(f, S \cap s) = f[p] + SumFunctionOnSet(f, S \cap t)
      BY <2>4, <3>1, SumWithout
    <3>3. SumFunctionOnSet(f, s \ S) = SumFunctionOnSet(f, t \ S)
      BY <3>1
    <3> QED BY <2>1, <2>2, <2>3, <2>4, <3>2, <3>3
  <2>6. CASE p \notin S
    <3>1. p \in s \ S /\ (s \ S) \ {p} = t \ S /\ S \cap s = S \cap t
      BY <2>1, <2>6
    <3> HIDE DEF p, t
    <3>2. SumFunctionOnSet(f, s \ S) = f[p] + SumFunctionOnSet(f, t \ S)
      BY <2>4, <3>1, SumWithout
    <3>3. SumFunctionOnSet(f, S \cap s) = SumFunctionOnSet(f, S \cap t)
      BY <3>1
    <3> QED BY <2>1, <2>2, <2>3, <2>4, <3>2, <3>3
  <2> QED BY <2>5, <2>6
<1>3. D \in G
  <2> HIDE DEF G
  <2> QED BY <1>1, <1>2, PickInduction
<1>4. S \cap D = S
  OBVIOUS
<1> QED BY <1>0, <1>3, <1>4

\* Summands that are zero can be left out.
LEMMA SumOfRest ==
  ASSUME NEW D, IsFiniteSet(D), NEW S, S \subseteq D, NEW f, \A x \in D : f[x] \in Nat,
         \A x \in D \ S : f[x] = 0
  PROVE  SumFunctionOnSet(f, D) = SumFunctionOnSet(f, S)
<1>1. IsFiniteSet(D \ S)
  BY FS_Subset
<1>2. {x \in D \ S : f[x] = 1} = {}
  OBVIOUS
<1>3. SumFunctionOnSet(f, D \ S) = 0
  BY <1>1, <1>2, SumOfBits, FS_EmptySet
<1> QED BY <1>3, SumSplit

\* The pairs of each element with the members of its set are as many as those members.
LEMMA CountPairs ==
  ASSUME NEW D, IsFiniteSet(D), NEW F, \A x \in D : IsFiniteSet(F[x])
  PROVE  Cardinality(UNION {{x} \X F[x] : x \in D})
           = SumFunctionOnSet([x \in D |-> Cardinality(F[x])], D)
<1> DEFINE f == [x \in D |-> Cardinality(F[x])]
           Pairs(s) == UNION {{x} \X F[x] : x \in s}
           G == {s \in SUBSET D : /\ IsFiniteSet(Pairs(s))
                                  /\ Cardinality(Pairs(s)) = SumFunctionOnSet(f, s)}
<1>1. {} \in G
  <2>1. Pairs({}) = {}
    OBVIOUS
  <2>2. IsFiniteSet(Pairs({})) /\ Cardinality(Pairs({})) = 0
    BY <2>1, FS_EmptySet
  <2>3. SumFunctionOnSet(f, {}) = 0
    BY SumEmpty
  <2> QED BY <2>2, <2>3
<1>2. ASSUME NEW s \in SUBSET D, s # {}, s \ {Pick(s)} \in G PROVE s \in G
  <2> DEFINE p == Pick(s)
             t == s \ {p}
             new == {p} \X F[p]
  <2>1. p \in s /\ p \in D
    BY <1>2, PickIsElement
  <2>2. SumFunctionOnSet(f, s) = f[p] + SumFunctionOnSet(f, t)
    BY <1>2, SumUnfolds
  <2>3. /\ IsFiniteSet(Pairs(t)) /\ Cardinality(Pairs(t)) \in Nat
        /\ Cardinality(Pairs(t)) = SumFunctionOnSet(f, t)
    BY <1>2, FS_CardinalityType
  <2>4. IsFiniteSet(new) /\ Cardinality(new) = f[p]
    <3>1. IsFiniteSet(F[p]) /\ Cardinality(F[p]) \in Nat
      BY <2>1, FS_CardinalityType
    <3>2. IsFiniteSet({p}) /\ Cardinality({p}) = 1
      BY FS_Singleton
    <3>3. IsFiniteSet(new) /\ Cardinality(new) = Cardinality({p}) * Cardinality(F[p])
      <4> HIDE DEF p
      <4> QED BY <3>1, <3>2, FS_Product
    <3>4. f[p] = Cardinality(F[p])
      BY <2>1
    <3> QED BY <3>1, <3>2, <3>3, <3>4
  <2>5. Pairs(s) = Pairs(t) \cup new /\ Pairs(t) \cap new = {}
    <3>1. \A x \in t : x # p
      OBVIOUS
    <3>2. s = t \cup {p}
      BY <2>1
    <3> HIDE DEF p, t
    <3>3. Pairs(s) = Pairs(t) \cup new
      BY <3>2
    <3>4. ASSUME NEW y \in Pairs(t) \cap new PROVE FALSE
      <4>1. y[1] = p
        BY <3>4
      <4>2. PICK x \in t : y \in {x} \X F[x]
        BY <3>4
      <4>3. y[1] = x
        BY <4>2
      <4> QED BY <3>1, <4>1, <4>2, <4>3
    <3> QED BY <3>3, <3>4
  <2> HIDE DEF new, Pairs, p
  <2>6. Cardinality(Pairs(t) \cup new) = Cardinality(Pairs(t)) + Cardinality(new)
    BY <2>3, <2>4, <2>5, DisjointCount
  <2>7. IsFiniteSet(Pairs(t) \cup new)
    BY <2>3, <2>4, FS_Union
  <2>8. Cardinality(new) \in Nat
    BY <2>4, FS_CardinalityType
  <2>9. IsFiniteSet(Pairs(s)) /\ Cardinality(Pairs(s)) = SumFunctionOnSet(f, s)
    BY <2>2, <2>3, <2>4, <2>5, <2>6, <2>7, <2>8
  <2> QED BY <2>9 DEF Pairs
<1>3. D \in G
  <2> HIDE DEF G
  <2> QED BY <1>1, <1>2, PickInduction
<1> QED BY <1>3

=============================================================================
