-------------------------------- MODULE Sums --------------------------------
(***************************************************************************)
(* The sum of a function's values, and how it follows a change of one of   *)
(* them.  The library computes it by choosing one element after the other; *)
(* the lemmas show that the choice does not matter.  The last one is about *)
(* functions defined by recursion, as sums are.                            *)
(***************************************************************************)
EXTENDS Functions, FiniteSetTheorems, Integers, TLAPS

-----------------------------------------------------------------------------
(* The recursive function behind the sum.                                  *)

\* What the fold takes first from a set, and the sum of s from that of the rest.
First(s) == CHOOSE x \in s : TRUE
FirstAndRest(g, f, s) == IF s = {} THEN 0 ELSE f[First(s)] + g[s \ {First(s)}]

\* g holds the sums of f over the subsets of S.
Summing(g, f, S) == g = [s \in SUBSET S |-> FirstAndRest(g, f, s)]
Sums(f, S) == CHOOSE g : Summing(g, f, S)

LEMMA SumIsLast ==
  ASSUME NEW S, NEW f \in [S -> Int]
  PROVE  SumFunction(f) = Sums(f, S)[S]
BY DEF SumFunction, SumFunctionOnSet, FoldFunctionOnSet, MapThenFoldSet,
       Sums, Summing, FirstAndRest, First

LEMMA FirstIn == ASSUME NEW s, s # {} PROVE First(s) \in s
BY DEF First

\* A set of subsets of a finite set that has {}, and every other one whose rest
\* it has, has them all.
LEMMA RestInduction ==
  ASSUME NEW S, IsFiniteSet(S), NEW Good, {} \in Good,
         \A s \in SUBSET S : s # {} /\ s \ {First(s)} \in Good => s \in Good
  PROVE  \A s \in SUBSET S : s \in Good
<1> DEFINE Bad == {s \in SUBSET S : s \notin Good}
<1> SUFFICES ASSUME Bad # {} PROVE FALSE
  OBVIOUS
<1>1. Bad \subseteq FiniteSubsetsOf(S)
  BY FS_FiniteSubsetsOfFinite
<1>2. PICK s \in Bad : \A t \in Bad : ~(<<t, s>> \in StrictSubsetOrdering(S))
  BY <1>1, FS_StrictSubsetOrderingWellFounded, WFMin
<1>3. s # {} /\ s \ {First(s)} \in SUBSET S /\ s \ {First(s)} # s
  BY FirstIn
<1>4. s \ {First(s)} \notin Bad
  BY <1>2, <1>3 DEF StrictSubsetOrdering
<1> QED
  BY <1>3, <1>4

\* A set of naturals that has 0, and every successor, has them all.
LEMMA SuccessorInduction ==
  ASSUME NEW Good, 0 \in Good, \A n \in Nat : n \in Good => n + 1 \in Good
  PROVE  \A n \in Nat : n \in Good
<1> SUFFICES ASSUME NEW m \in Nat, m \notin Good PROVE FALSE
  OBVIOUS
<1> DEFINE Bad == {n \in 0..m : n \notin Good}
           Upto(n) == 1..n
           Segments == {Upto(n) : n \in Bad}
<1>1. Segments \subseteq FiniteSubsetsOf(0..m) /\ Segments # {}
  <2>1. IsFiniteSet(0..m) /\ m \in Bad
    BY FS_Interval
  <2>2. FiniteSubsetsOf(0..m) = SUBSET (0..m)
    BY <2>1, FS_FiniteSubsetsOfFinite
  <2>3. \A n \in Bad : Upto(n) \in SUBSET (0..m)
    OBVIOUS
  <2> QED
    BY <2>1, <2>2, <2>3
<1>2. PICK t \in Segments : \A u \in Segments : ~(<<u, t>> \in StrictSubsetOrdering(0..m))
  BY <1>1, FS_StrictSubsetOrderingWellFounded, WFMin
<1>3. PICK n \in Bad : t = Upto(n)
  BY <1>2
<1>4. n # 0 /\ n - 1 \in 0..m /\ (n - 1) + 1 = n /\ n \in Upto(n) /\ n \notin Upto(n - 1)
  <2>1. n \in Nat /\ n <= m /\ n # 0
    BY <1>3
  <2> QED
    BY <2>1
<1>5. n - 1 \in Bad
  BY <1>3, <1>4
<1>6. <<Upto(n - 1), Upto(n)>> \in StrictSubsetOrdering(0..m)
  BY <1>3, <1>4 DEF StrictSubsetOrdering
<1> QED
  BY <1>2, <1>3, <1>5, <1>6

\* The sums exist: they are found for sets of more and more elements.
LEMMA SumsExist ==
  ASSUME NEW S, IsFiniteSet(S), NEW f \in [S -> Int]
  PROVE  \E g \in [SUBSET S -> Int] : Summing(g, f, S)
<1> DEFINE UpTo(n) == {g \in [SUBSET S -> Int] :
                         \A s \in SUBSET S : Cardinality(s) <= n => g[s] = FirstAndRest(g, f, s)}
           Good == {n \in Nat : UpTo(n) # {}}
<1>0. \A s \in SUBSET S : IsFiniteSet(s) /\ Cardinality(s) \in Nat
  BY FS_Subset, FS_CardinalityType
<1>1. 0 \in Good
  <2>1. [s \in SUBSET S |-> 0] \in UpTo(0)
    BY <1>0, FS_EmptySet DEF FirstAndRest
  <2> QED
    BY <2>1
<1>2. ASSUME NEW n \in Nat, n \in Good PROVE n + 1 \in Good
  <2>1. PICK g \in UpTo(n) : TRUE
    BY <1>2
  <2> DEFINE h == [s \in SUBSET S |-> FirstAndRest(g, f, s)]
  <2>2. \A s \in SUBSET S : FirstAndRest(g, f, s) \in Int
    <3> SUFFICES ASSUME NEW s \in SUBSET S, s # {} PROVE f[First(s)] + g[s \ {First(s)}] \in Int
      BY DEF FirstAndRest
    <3> QED
      BY <2>1, FirstIn
  <2>3. h \in [SUBSET S -> Int]
    BY <2>2
  <2>4. ASSUME NEW s \in SUBSET S, Cardinality(s) <= n + 1
        PROVE  h[s] = FirstAndRest(h, f, s)
    <3>1. CASE s = {}
      BY <3>1 DEF FirstAndRest
    <3>2. CASE s # {}
      <4>1. First(s) \in s /\ s \ {First(s)} \in SUBSET S
        BY <3>2, FirstIn
      <4>2. Cardinality(s \ {First(s)}) = Cardinality(s) - 1
        BY <1>0, <4>1, FS_RemoveElement
      <4>3. Cardinality(s \ {First(s)}) <= n
        BY <1>0, <2>4, <4>1, <4>2
      <4>4. g[s \ {First(s)}] = FirstAndRest(g, f, s \ {First(s)})
        BY <2>1, <4>1, <4>3
      <4> QED
        BY <3>2, <4>1, <4>4 DEF FirstAndRest
    <3> QED
      BY <3>1, <3>2
  <2> HIDE DEF h
  <2>5. h \in UpTo(n + 1)
    BY <2>3, <2>4
  <2> QED
    BY <2>5
<1>3. Cardinality(S) \in Good
  <2> HIDE DEF Good
  <2> QED
    BY <1>0, <1>1, <1>2, SuccessorInduction
<1>4. PICK g \in UpTo(Cardinality(S)) : TRUE
  BY <1>3
<1>5. \A s \in SUBSET S : Cardinality(s) <= Cardinality(S)
  BY FS_Subset
<1>6. \A s \in SUBSET S : g[s] = FirstAndRest(g, f, s)
  BY <1>4, <1>5
<1> QED
  BY <1>4, <1>6 DEF Summing

\* What the fold computes for every subset.
LEMMA SumsFacts ==
  ASSUME NEW S, IsFiniteSet(S), NEW f \in [S -> Int]
  PROVE  /\ \A s \in SUBSET S : Sums(f, S)[s] = FirstAndRest(Sums(f, S), f, s)
         /\ \A s \in SUBSET S : Sums(f, S)[s] \in Int
<1> DEFINE G == Sums(f, S)
           Good == {s \in SUBSET S : G[s] \in Int}
<1>1. Summing(G, f, S)
  BY SumsExist DEF Sums
<1> HIDE DEF G
<1>2. \A s \in SUBSET S : G[s] = FirstAndRest(G, f, s)
  BY <1>1 DEF Summing
<1>3. {} \in Good
  BY <1>2 DEF FirstAndRest
<1>4. \A s \in SUBSET S : s # {} /\ s \ {First(s)} \in Good => s \in Good
  BY <1>2, FirstIn DEF FirstAndRest
<1>5. \A s \in SUBSET S : s \in Good
  <2> HIDE DEF Good
  <2> QED
    BY <1>3, <1>4, RestInduction
<1> QED
  BY <1>2, <1>5 DEF G

-----------------------------------------------------------------------------
(* What the other proofs use.                                              *)

LEMMA SumType ==
  ASSUME NEW S, IsFiniteSet(S), NEW f \in [S -> Int]
  PROVE  SumFunction(f) \in Int
BY SumIsLast, SumsFacts

\* A sum of zeros is zero.
LEMMA SumZero ==
  ASSUME NEW S, IsFiniteSet(S), NEW f \in [S -> Int], \A x \in S : f[x] = 0
  PROVE  SumFunction(f) = 0
<1> DEFINE G == Sums(f, S)
           Good == {s \in SUBSET S : G[s] = 0}
<1>1. \A s \in SUBSET S : G[s] = FirstAndRest(G, f, s)
  BY SumsFacts
<1> HIDE DEF G
<1>2. {} \in Good
  BY <1>1 DEF FirstAndRest
<1>3. \A s \in SUBSET S : s # {} /\ s \ {First(s)} \in Good => s \in Good
  BY <1>1, FirstIn DEF FirstAndRest
<1>4. \A s \in SUBSET S : s \in Good
  <2> HIDE DEF Good
  <2> QED
    BY <1>2, <1>3, RestInduction
<1> QED
  BY <1>4, SumIsLast DEF G

\* A sum of no larger values is no larger.
LEMMA SumAtMost ==
  ASSUME NEW S, IsFiniteSet(S), NEW f \in [S -> Int], NEW h \in [S -> Int],
         \A x \in S : f[x] <= h[x]
  PROVE  SumFunction(f) <= SumFunction(h)
<1> DEFINE F == Sums(f, S)
           H == Sums(h, S)
           Good == {s \in SUBSET S : F[s] <= H[s]}
<1>1. \A s \in SUBSET S : F[s] = FirstAndRest(F, f, s) /\ F[s] \in Int
  BY SumsFacts
<1>2. \A s \in SUBSET S : H[s] = FirstAndRest(H, h, s) /\ H[s] \in Int
  BY SumsFacts
<1> HIDE DEF F, H
<1>3. {} \in Good
  <2>1. F[{}] = 0 /\ H[{}] = 0
    BY <1>1, <1>2 DEF FirstAndRest
  <2> QED
    BY <2>1
<1>4. ASSUME NEW s \in SUBSET S, s # {}, s \ {First(s)} \in Good PROVE s \in Good
  <2> DEFINE p == First(s)
             rest == s \ {First(s)}
  <2>1. p \in S /\ rest \in SUBSET S
    BY <1>4, FirstIn
  <2>2. F[s] = f[p] + F[rest] /\ H[s] = h[p] + H[rest] /\ F[rest] <= H[rest]
    BY <1>1, <1>2, <1>4 DEF FirstAndRest
  <2>3. F[rest] \in Int /\ H[rest] \in Int /\ f[p] \in Int /\ h[p] \in Int /\ f[p] <= h[p]
    BY <1>1, <1>2, <2>1
  <2> HIDE DEF p, rest
  <2>4. F[s] <= H[s]
    BY <2>2, <2>3
  <2> QED
    BY <2>4
<1>5. \A s \in SUBSET S : s \in Good
  <2> HIDE DEF Good
  <2> QED
    BY <1>3, <1>4, RestInduction
<1> QED
  BY <1>5, SumIsLast DEF F, H

\* When one value changes, the sum changes by as much.
LEMMA SumChange ==
  ASSUME NEW S, IsFiniteSet(S), NEW f \in [S -> Int], NEW h \in [S -> Int],
         NEW x \in S, \A y \in S \ {x} : h[y] = f[y]
  PROVE  SumFunction(h) = SumFunction(f) + (h[x] - f[x])
<1> DEFINE F == Sums(f, S)
           H == Sums(h, S)
           Good == {s \in SUBSET S : H[s] = F[s] + (IF x \in s THEN h[x] - f[x] ELSE 0)}
<1>1. \A s \in SUBSET S : F[s] = FirstAndRest(F, f, s) /\ F[s] \in Int
  BY SumsFacts
<1>2. \A s \in SUBSET S : H[s] = FirstAndRest(H, h, s) /\ H[s] \in Int
  BY SumsFacts
<1> HIDE DEF F, H
<1>3. {} \in Good
  <2>1. F[{}] = 0 /\ H[{}] = 0
    BY <1>1, <1>2 DEF FirstAndRest
  <2> QED
    BY <2>1
<1>4. ASSUME NEW s \in SUBSET S, s # {}, s \ {First(s)} \in Good PROVE s \in Good
  <2> DEFINE p == First(s)
             rest == s \ {First(s)}
  <2>1. p \in s /\ p \in S /\ rest \in SUBSET S
    BY <1>4, FirstIn
  <2>2. /\ F[s] = f[p] + F[rest] /\ H[s] = h[p] + H[rest]
        /\ H[rest] = F[rest] + (IF x \in rest THEN h[x] - f[x] ELSE 0)
    BY <1>1, <1>2, <1>4 DEF FirstAndRest
  <2>3. /\ x \in s <=> x \in rest \/ x = p
        /\ x = p => x \notin rest
    BY <2>1
  <2>4. F[rest] \in Int /\ f[p] \in Int /\ h[p] \in Int /\ f[x] \in Int /\ h[x] \in Int
    BY <1>1, <2>1
  <2>5. p # x => h[p] = f[p]
    BY <2>1
  <2> HIDE DEF p, rest
  <2>6. H[s] = F[s] + (IF x \in s THEN h[x] - f[x] ELSE 0)
    BY <2>2, <2>3, <2>4, <2>5
  <2> QED
    BY <2>6
<1>5. \A s \in SUBSET S : s \in Good
  <2> HIDE DEF Good
  <2> QED
    BY <1>3, <1>4, RestInduction
<1> QED
  BY <1>5, SumIsLast DEF F, H

\* The order in which a sum is made does not matter.
LEMMA SumPick ==
  ASSUME NEW S, IsFiniteSet(S), NEW f \in [S -> Int]
  PROVE  \A s \in SUBSET S : \A x \in s : Sums(f, S)[s] = f[x] + Sums(f, S)[s \ {x}]
<1> DEFINE G == Sums(f, S)
           Fine(s) == \A x \in s : G[s] = f[x] + G[s \ {x}]
           Bad == {s \in SUBSET S : ~Fine(s)}
<1>1. /\ \A s \in SUBSET S : G[s] = FirstAndRest(G, f, s)
      /\ \A s \in SUBSET S : G[s] \in Int
  BY SumsFacts
<1> SUFFICES \A s \in SUBSET S : Fine(s)
  OBVIOUS
<1> HIDE DEF G
<1> SUFFICES ASSUME Bad # {} PROVE FALSE
  OBVIOUS
<1>2. Bad \subseteq FiniteSubsetsOf(S)
  BY FS_FiniteSubsetsOfFinite
<1>3. PICK s \in Bad : \A t \in Bad : ~(<<t, s>> \in StrictSubsetOrdering(S))
  <2> HIDE DEF Bad
  <2> QED
    BY <1>2, FS_StrictSubsetOrderingWellFounded, WFMin
<1>4. PICK x \in s : G[s] # f[x] + G[s \ {x}]
  BY <1>3
<1> DEFINE y == First(s)
<1>5. y \in s /\ G[s] = f[y] + G[s \ {y}]
  BY <1>1, <1>3, <1>4, FirstIn DEF FirstAndRest
<1> HIDE DEF y
<1>6. x # y
  BY <1>4, <1>5
<1>7. ASSUME NEW z \in s PROVE Fine(s \ {z})
  <2>1. s \ {z} \in SUBSET S /\ s \ {z} # s
    BY <1>3
  <2>2. <<s \ {z}, s>> \in StrictSubsetOrdering(S)
    BY <1>3, <2>1 DEF StrictSubsetOrdering
  <2> QED
    BY <1>3, <2>1, <2>2
<1>8. G[s \ {y}] = f[x] + G[(s \ {y}) \ {x}] /\ G[s \ {x}] = f[y] + G[(s \ {x}) \ {y}]
  BY <1>4, <1>5, <1>6, <1>7
<1>9. (s \ {y}) \ {x} = (s \ {x}) \ {y}
  OBVIOUS
<1>10. PICK c \in Int : c = G[(s \ {x}) \ {y}]
  BY <1>1, <1>3
<1>11. G[s \ {y}] = f[x] + c /\ G[s \ {x}] = f[y] + c
  BY <1>8, <1>9, <1>10
<1>12. f[x] \in Int /\ f[y] \in Int
  BY <1>3, <1>4, <1>5
<1>13. f[y] + (f[x] + c) = f[x] + (f[y] + c)
  BY <1>10, <1>12
<1> QED
  BY <1>4, <1>5, <1>11, <1>13

\* A function with one more element in its domain adds its value there.
LEMMA SumInsert ==
  ASSUME NEW S, NEW T, IsFiniteSet(T), NEW x \in T, S = T \ {x},
         NEW f \in [S -> Int], NEW h \in [T -> Int], \A y \in S : h[y] = f[y]
  PROVE  SumFunction(h) = SumFunction(f) + h[x]
<1> DEFINE F == Sums(f, S)
           H == Sums(h, T)
           Good == {s \in SUBSET S : H[s] = F[s]}
<1>0. IsFiniteSet(S) /\ S \in SUBSET T /\ T \in SUBSET T /\ T \ {x} = S
  BY FS_RemoveElement
<1>1. \A s \in SUBSET S : F[s] = FirstAndRest(F, f, s) /\ F[s] \in Int
  BY <1>0, SumsFacts
<1>2. \A s \in SUBSET T : H[s] = FirstAndRest(H, h, s) /\ H[s] \in Int
  BY <1>0, SumsFacts
<1>3. H[T] = h[x] + H[S]
  BY <1>0, SumPick
<1> HIDE DEF F, H
<1>4. {} \in Good
  BY <1>1, <1>2 DEF FirstAndRest
<1>5. ASSUME NEW s \in SUBSET S, s # {}, s \ {First(s)} \in Good PROVE s \in Good
  <2>1. First(s) \in s
    BY <1>5, FirstIn
  <2>2. F[s] = f[First(s)] + F[s \ {First(s)}] /\ H[s] = h[First(s)] + H[s \ {First(s)}]
    BY <1>1, <1>2, <1>5 DEF FirstAndRest
  <2> QED
    BY <1>5, <2>1, <2>2
<1>6. S \in Good
  <2> HIDE DEF Good
  <2> QED
    BY <1>0, <1>4, <1>5, RestInduction
<1>7. SumFunction(f) = F[S] /\ SumFunction(h) = H[T]
  BY <1>0, SumIsLast DEF F, H
<1>8. h[x] \in Int /\ F[S] \in Int /\ H[S] = F[S]
  BY <1>0, <1>1, <1>6
<1> QED
  BY <1>3, <1>7, <1>8

\* What is zero may be left out of a sum.
LEMMA SumRestrict ==
  ASSUME NEW S, IsFiniteSet(S), NEW T \in SUBSET S, NEW f \in [S -> Int], NEW h \in [T -> Int],
         \A x \in T : h[x] = f[x], \A x \in S \ T : f[x] = 0
  PROVE  SumFunction(f) = SumFunction(h)
<1> DEFINE F == Sums(f, S)
           H == Sums(h, T)
           Good == {s \in SUBSET S : F[s] = H[s \cap T]}
<1>0. IsFiniteSet(T) /\ S \cap T = T
  BY FS_Subset
<1>1. \A s \in SUBSET S : F[s] = FirstAndRest(F, f, s) /\ F[s] \in Int
  BY SumsFacts
<1>2. /\ \A s \in SUBSET T : H[s] = FirstAndRest(H, h, s) /\ H[s] \in Int
      /\ \A s \in SUBSET T : \A x \in s : H[s] = h[x] + H[s \ {x}]
  BY <1>0, SumsFacts, SumPick
<1>3. SumFunction(f) = F[S] /\ SumFunction(h) = H[T]
  BY <1>0, SumIsLast
<1> HIDE DEF F, H
<1>4. {} \in Good
  <2>1. {} \cap T = {} /\ {} \in SUBSET S /\ {} \in SUBSET T
    OBVIOUS
  <2> QED
    BY <1>1, <1>2, <2>1 DEF FirstAndRest
<1>5. ASSUME NEW s \in SUBSET S, s # {}, s \ {First(s)} \in Good PROVE s \in Good
  <2> DEFINE p == First(s)
             rest == s \ {p}
  <2>1. p \in s /\ p \in S /\ rest \in SUBSET S
    BY <1>5, FirstIn
  <2>2. F[s] = f[p] + F[rest] /\ F[rest] = H[rest \cap T]
    BY <1>1, <1>5 DEF FirstAndRest
  <2> HIDE DEF p
  <2>3. p \in T => s \cap T \in SUBSET T /\ p \in s \cap T /\ (s \cap T) \ {p} = rest \cap T
    BY <2>1
  <2>4. p \notin T => s \cap T = rest \cap T /\ f[p] = 0
    BY <2>1
  <2>5. H[rest \cap T] \in Int
    BY <1>2
  <2> HIDE DEF rest
  <2>6. p \in T => H[s \cap T] = f[p] + H[rest \cap T]
    BY <1>2, <2>3
  <2>7. F[s] = H[s \cap T]
    <3>1. CASE p \in T
      BY <2>2, <2>6, <3>1
    <3>2. CASE p \notin T
      <4>1. PICK c \in Int : c = H[rest \cap T]
        BY <2>5
      <4>2. H[s \cap T] = c
        BY <2>4, <3>2, <4>1
      <4>3. F[s] = 0 + c
        BY <2>2, <2>4, <3>2, <4>1
      <4> QED
        BY <4>1, <4>2, <4>3
    <3> QED
      BY <3>1, <3>2
  <2> QED
    BY <2>7
<1>6. S \in Good
  <2> HIDE DEF Good
  <2> QED
    BY <1>4, <1>5, RestInduction
<1> QED
  BY <1>0, <1>3, <1>6

\* What is defined by recursion along 1..N exists.
Recursive(g, N, V, base, step) ==
  g \in [0..N -> V] /\ g[0] = base /\ \A n \in 1..N : g[n] = step[<<n, g[n - 1]>>]

LEMMA Recursion ==
  ASSUME NEW N \in Nat, NEW V, NEW base \in V, NEW step \in [(1..N) \X V -> V]
  PROVE  \E g : Recursive(g, N, V, base, step)
<1> DEFINE UpTo(m) == {g \in [0..N -> V] : g[0] = base /\ \A n \in 1..m : g[n] = step[<<n, g[n - 1]>>]}
           Good == {m \in Nat : m <= N => UpTo(m) # {}}
<1>1. 0 \in Good
  <2>1. [n \in 0..N |-> base] \in UpTo(0)
    OBVIOUS
  <2> QED
    BY <2>1
<1>2. ASSUME NEW m \in Nat, m \in Good PROVE m + 1 \in Good
  <2> SUFFICES ASSUME m + 1 <= N PROVE UpTo(m + 1) # {}
    OBVIOUS
  <2>1. PICK g \in UpTo(m) : TRUE
    BY <1>2
  <2>2. g \in [0..N -> V] /\ g[m] \in V /\ m + 1 \in 1..N
    BY <2>1
  <2> DEFINE v == step[<<m + 1, g[m]>>]
             h == [g EXCEPT ![m + 1] = v]
  <2>3. v \in V
    BY <2>2
  <2> HIDE DEF v
  <2>4. h \in [0..N -> V] /\ h[m + 1] = v /\ \A n \in 0..m : h[n] = g[n]
    BY <2>2, <2>3
  <2> HIDE DEF h
  <2>5. h[0] = base
    BY <2>1, <2>4
  <2>6. ASSUME NEW n \in 1..(m + 1) PROVE h[n] = step[<<n, h[n - 1]>>]
    <3>1. CASE n = m + 1
      BY <2>4, <3>1 DEF v
    <3>2. CASE n # m + 1
      <4>1. n \in 1..m /\ n - 1 \in 0..m /\ n \in 0..m
        BY <3>2
      <4> QED
        BY <2>1, <2>4, <4>1
    <3> QED
      BY <3>1, <3>2
  <2>7. h \in UpTo(m + 1)
    BY <2>4, <2>5, <2>6
  <2> QED
    BY <2>7
<1>3. N \in Good
  <2> HIDE DEF Good
  <2> QED
    BY <1>1, <1>2, SuccessorInduction
<1> QED
  BY <1>3 DEF Recursive
=============================================================================
