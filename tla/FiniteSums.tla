----------------------------- MODULE FiniteSums -----------------------------
(***************************************************************************)
(* What the sums of the community modules add up to.  SumFunctionOnSet is  *)
(* a fold, looked up in a table that a CHOOSE defines: that there is such  *)
(* a table, and what it holds, is shown by induction over the sizes of     *)
(* sets and over sets, each time by way of a minimal counterexample.       *)
(***************************************************************************)
EXTENDS Naturals, FiniteSetsExt, Functions, FiniteSetTheorems, TLAPS

\* Of any subsets of a finite set one is minimal: what induction over the elements of a
\* set comes down to.
LEMMA Minimal ==
  ASSUME NEW S, IsFiniteSet(S), NEW T, T \subseteq SUBSET S, T # {}
  PROVE  \E m \in T : \A u \in T : u \subseteq m => u = m
  <1>1. T \subseteq FiniteSubsetsOf(S)
    BY FS_FiniteSubsetsOfFinite
  <1>2. \E m \in T : \A u \in T : ~(<<u, m>> \in StrictSubsetOrdering(S))
    BY <1>1, FS_StrictSubsetOrderingWellFounded, WFMin
  <1>3. PICK m \in T : \A u \in T : ~(<<u, m>> \in StrictSubsetOrdering(S))
    BY <1>2
  <1>4. QED BY <1>3 DEF StrictSubsetOrdering

\* So does a set of numbers have a least one.
LEMMA LeastNumber ==
  ASSUME NEW B, B \subseteq Nat, B # {}
  PROVE  \E n \in B : \A k \in B : n <= k
  <1>1. PICK b : b \in B
    OBVIOUS
  <1>2. PICK I : I = 1..b
    OBVIOUS
  <1> DEFINE T == {u \in SUBSET I : \E k \in B : k <= b /\ u = 1..k}
  <1>3. IsFiniteSet(I) /\ T \subseteq SUBSET I /\ I \in T
    BY <1>1, <1>2, FS_Interval
  <1>4. PICK m \in T : \A u \in T : u \subseteq m => u = m
    <2> HIDE DEF T
    <2>1. QED BY <1>3, Minimal
  <1>5. PICK n \in B : n <= b /\ m = 1..n
    BY <1>4
  <1>6. ASSUME NEW k \in B, ~(n <= k)
        PROVE  FALSE
    <2>1. k \in Nat /\ n \in Nat /\ k < n /\ k <= b
      BY <1>1, <1>5, <1>6
    <2>2. (1..k) \subseteq m /\ n \in m /\ n \notin 1..k
      BY <1>5, <2>1
    <2>3. (1..k) \in T
      BY <1>1, <1>2, <2>1
    <2>4. QED BY <1>4, <2>2, <2>3
  <1>7. QED BY <1>6

\* Numbers below a bound have a greatest one, which Max is.
LEMMA MaxIs ==
  ASSUME NEW N \in Nat, NEW S, S \subseteq 0..N, S # {}
  PROVE  Max(S) \in S /\ \A x \in S : x <= Max(S)
  <1> DEFINE B == {k \in Nat : N - k \in S}
  <1>1. B # {}
    <2>1. PICK x \in S : TRUE
      OBVIOUS
    <2>2. N - x \in Nat /\ N - (N - x) = x
      BY <2>1
    <2>3. QED BY <2>1, <2>2
  <1>2. PICK n \in B : \A k \in B : n <= k
    <2>1. B \subseteq Nat
      OBVIOUS
    <2> HIDE DEF B
    <2>2. QED BY <1>1, <2>1, LeastNumber
  <1>3. ASSUME NEW x \in S
        PROVE  x <= N - n
    <2>1. N - x \in Nat /\ N - (N - x) = x
      BY <1>3
    <2>2. n <= N - x
      BY <1>2, <1>3, <2>1
    <2>3. QED BY <1>2, <1>3, <2>2
  <1>4. N - n \in S /\ \A x \in S : N - n >= x
    BY <1>2, <1>3
  <1>5. \A x \in S : x \in Nat
    OBVIOUS
  <1>6. QED BY <1>4, <1>5 DEF Max

\* The element a fold takes next, the recursion of a sum and the table it fills.
Chosen(s) == CHOOSE x \in s : TRUE
Body(f, it, s) == IF s = {} THEN 0 ELSE f[Chosen(s)] + it[s \ {Chosen(s)}]
Sums(f, S, it) == it = [s \in SUBSET S |-> Body(f, it, s)]
Fold(f, S) == CHOOSE it : Sums(f, S, it)

\* SumFunctionOnSet looks its result up in such a table.
LEMMA SumUnfolds ==
  ASSUME NEW f, NEW S
  PROVE  SumFunctionOnSet(f, S) = Fold(f, S)[S]
  BY Zenon DEF SumFunctionOnSet, FoldFunctionOnSet, MapThenFoldSet, Fold, Sums, Body, Chosen

\* A fold takes elements of its set.
LEMMA ChosenIn ==
  ASSUME NEW s, s # {}
  PROVE  Chosen(s) \in s
  BY DEF Chosen

\* A table that is right for all sets of at most n elements.
SumsTo(f, S, it, n) ==
  /\ it = [s \in SUBSET S |-> it[s]]
  /\ \A s \in SUBSET S : Cardinality(s) <= n => it[s] = Body(f, it, s)

\* It can be extended to sets of one more.
LEMMA SumsGrow ==
  ASSUME NEW f, NEW S, IsFiniteSet(S), NEW n \in Nat, NEW it, SumsTo(f, S, it, n)
  PROVE  \E jt : SumsTo(f, S, jt, n + 1)
  <1> DEFINE jt == [s \in SUBSET S |-> Body(f, it, s)]
  <1>1. ASSUME NEW s \in SUBSET S, Cardinality(s) <= n + 1
        PROVE  jt[s] = Body(f, jt, s)
    <2>1. CASE s = {}
      BY <2>1 DEF Body
    <2>2. CASE s # {}
      <3> DEFINE u == s \ {Chosen(s)}
      <3>1. u \in SUBSET S /\ IsFiniteSet(s) /\ Chosen(s) \in s
        BY <2>2, ChosenIn, FS_Subset
      <3>2. Cardinality(u) = Cardinality(s) - 1 /\ Cardinality(s) \in Nat
        BY <3>1, FS_RemoveElement, FS_CardinalityType
      <3>3. it[u] = Body(f, it, u)
        <4>1. Cardinality(u) <= n
          BY <1>1, <3>2
        <4> HIDE DEF u
        <4>2. QED BY <3>1, <4>1 DEF SumsTo
      <3>4. jt[u] = Body(f, it, u)
        BY <3>1
      <3>5. jt[s] = Body(f, it, s)
        OBVIOUS
      <3> HIDE DEF jt
      <3>6. QED BY <2>2, <3>3, <3>4, <3>5 DEF Body
    <2>3. QED BY <2>1, <2>2
  <1>2. jt = [s \in SUBSET S |-> jt[s]]
    OBVIOUS
  <1> HIDE DEF jt
  <1>3. SumsTo(f, S, jt, n + 1)
    BY <1>1, <1>2 DEF SumsTo
  <1>4. QED BY <1>3

\* So there is one for all of them.
LEMMA SumsExist ==
  ASSUME NEW f, NEW S, IsFiniteSet(S)
  PROVE  Sums(f, S, Fold(f, S))
  <1> DEFINE N == Cardinality(S)
             ok(n) == \E it : SumsTo(f, S, it, n)
  <1>1. ok(0)
    <2> DEFINE it == [s \in SUBSET S |-> 0]
    <2>1. \A s \in SUBSET S : Cardinality(s) <= 0 => s = {}
      BY FS_Subset, FS_EmptySet, FS_CardinalityType
    <2>2. SumsTo(f, S, it, 0)
      BY <2>1 DEF SumsTo, Body
    <2>3. QED BY <2>2
  <1>2. \A n \in Nat : ok(n) => ok(n + 1)
    BY SumsGrow
  <1> HIDE DEF ok
  <1>3. ok(N)
    <2>1. N \in Nat
      BY FS_CardinalityType
    <2> DEFINE Bad == {n \in Nat : ~ok(n)}
    <2>2. SUFFICES ASSUME N \in Bad
                   PROVE  FALSE
      BY <2>1
    <2>3. PICK n \in Bad : \A k \in Bad : n <= k
      <3>1. Bad \subseteq Nat /\ Bad # {}
        BY <2>2
      <3> HIDE DEF Bad
      <3>2. QED BY <3>1, LeastNumber
    <2>4. n # 0
      BY <1>1
    <2>5. n - 1 \in Nat /\ (n - 1) + 1 = n /\ ~(n <= n - 1)
      BY <2>4
    <2>6. QED BY <1>2, <2>3, <2>5
  <1>4. PICK it : SumsTo(f, S, it, N)
    BY <1>3 DEF ok
  <1>5. \A s \in SUBSET S : Cardinality(s) <= N
    BY FS_Subset
  <1>6. Sums(f, S, it)
    BY <1>4, <1>5 DEF SumsTo, Sums
  <1>7. QED BY <1>6 DEF Fold

\* The tables of two sets agree where both have entries.
LEMMA SumsAgree ==
  ASSUME NEW f, NEW S, IsFiniteSet(S), NEW T \in SUBSET S
  PROVE  Fold(f, S)[T] = Fold(f, T)[T]
  <1> DEFINE a == Fold(f, S)
             b == Fold(f, T)
             Bad == {u \in SUBSET T : a[u] # b[u]}
  <1>1. /\ \A u \in SUBSET T : a[u] = Body(f, a, u)
        /\ \A u \in SUBSET T : b[u] = Body(f, b, u)
    <2>1. IsFiniteSet(T) /\ Sums(f, S, a) /\ Sums(f, T, b)
      BY SumsExist, FS_Subset
    <2> HIDE DEF a, b
    <2>2. QED BY <2>1 DEF Sums
  <1> HIDE DEF a, b
  <1>2. SUFFICES Bad = {}
    BY DEF a, b
  <1>3. SUFFICES ASSUME Bad # {}
                 PROVE  FALSE
    OBVIOUS
  <1>4. PICK m \in Bad : \A u \in Bad : u \subseteq m => u = m
    <2>1. IsFiniteSet(T) /\ Bad \subseteq SUBSET T
      BY FS_Subset
    <2> HIDE DEF Bad
    <2>2. QED BY <1>3, <2>1, Minimal
  <1>5. CASE m = {}
    BY <1>1, <1>4, <1>5 DEF Body
  <1>6. CASE m # {}
    <2>1. Chosen(m) \in m
      BY <1>6, ChosenIn
    <2>2. m \ {Chosen(m)} \notin Bad
      BY <1>4, <2>1
    <2>3. a[m \ {Chosen(m)}] = b[m \ {Chosen(m)}]
      BY <1>4, <2>2
    <2>4. QED BY <1>1, <1>4, <1>6, <2>3 DEF Body
  <1>7. QED BY <1>5, <1>6

\* A sum is that of the chosen element and the rest.
LEMMA SumChosen ==
  ASSUME NEW f, NEW S, IsFiniteSet(S), S # {}
  PROVE  SumFunctionOnSet(f, S) = f[Chosen(S)] + SumFunctionOnSet(f, S \ {Chosen(S)})
  <1> DEFINE u == S \ {Chosen(S)}
  <1>1. Fold(f, S)[S] = Body(f, Fold(f, S), S)
    <2>1. PICK it : it = Fold(f, S) /\ Sums(f, S, it)
      BY SumsExist
    <2>2. it[S] = Body(f, it, S)
      BY <2>1 DEF Sums
    <2>3. QED BY <2>1, <2>2
  <1>2. Fold(f, S)[u] = Fold(f, u)[u]
    BY SumsAgree
  <1>3. QED BY <1>1, <1>2, SumUnfolds DEF Body

\* The sum over nothing.
LEMMA SumEmpty ==
  ASSUME NEW f
  PROVE  SumFunctionOnSet(f, {}) = 0
  <1>1. Sums(f, {}, Fold(f, {}))
    BY SumsExist, FS_EmptySet
  <1>2. Fold(f, {})[{}] = Body(f, Fold(f, {}), {})
    BY <1>1 DEF Sums
  <1>3. QED BY <1>2, SumUnfolds DEF Body

\* The sum of numbers is a number.
LEMMA SumNat ==
  ASSUME NEW f, NEW S, IsFiniteSet(S), \A x \in S : f[x] \in Nat
  PROVE  SumFunctionOnSet(f, S) \in Nat
  <1> DEFINE Bad == {T \in SUBSET S : SumFunctionOnSet(f, T) \notin Nat}
  <1>1. SUFFICES ASSUME Bad # {}
                 PROVE  FALSE
    OBVIOUS
  <1>2. PICK m \in Bad : \A u \in Bad : u \subseteq m => u = m
    <2>1. Bad \subseteq SUBSET S
      OBVIOUS
    <2> HIDE DEF Bad
    <2>2. QED BY <1>1, <2>1, Minimal
  <1>3. m # {}
    <2>1. SumFunctionOnSet(f, {}) \in Nat
      BY SumEmpty
    <2>2. QED BY <1>2, <2>1
  <1>4. Chosen(m) \in m /\ IsFiniteSet(m)
    BY <1>2, <1>3, ChosenIn, FS_Subset
  <1>5. SumFunctionOnSet(f, m \ {Chosen(m)}) \in Nat
    BY <1>2, <1>4
  <1>6. SumFunctionOnSet(f, m) = f[Chosen(m)] + SumFunctionOnSet(f, m \ {Chosen(m)})
    BY <1>3, <1>4, SumChosen
  <1>7. f[Chosen(m)] \in Nat
    BY <1>2, <1>4
  <1>8. QED BY <1>2, <1>5, <1>6, <1>7

\* Any element may be taken out of a sum.
LEMMA SumTakes ==
  ASSUME NEW f, NEW S, IsFiniteSet(S), \A y \in S : f[y] \in Nat, NEW x \in S
  PROVE  SumFunctionOnSet(f, S) = f[x] + SumFunctionOnSet(f, S \ {x})
  <1> DEFINE Bad == {T \in SUBSET S : \E y \in T :
                       SumFunctionOnSet(f, T) # f[y] + SumFunctionOnSet(f, T \ {y})}
  <1>1. SUFFICES ASSUME Bad # {}
                 PROVE  FALSE
    OBVIOUS
  <1>2. PICK m \in Bad : \A u \in Bad : u \subseteq m => u = m
    <2>1. Bad \subseteq SUBSET S
      OBVIOUS
    <2> HIDE DEF Bad
    <2>2. QED BY <1>1, <2>1, Minimal
  <1>3. PICK y \in m : SumFunctionOnSet(f, m) # f[y] + SumFunctionOnSet(f, m \ {y})
    BY <1>2
  <1>4. PICK c : c = Chosen(m)
    OBVIOUS
  <1>5. c \in m /\ IsFiniteSet(m) /\ m \subseteq S
    BY <1>2, <1>3, <1>4, ChosenIn, FS_Subset
  <1>6. SumFunctionOnSet(f, m) = f[c] + SumFunctionOnSet(f, m \ {c})
    BY <1>3, <1>4, <1>5, SumChosen
  <1>7. c # y
    BY <1>3, <1>6
  <1>8. SumFunctionOnSet(f, m \ {c}) = f[y] + SumFunctionOnSet(f, (m \ {c}) \ {y})
    <2>1. m \ {c} \notin Bad /\ m \ {c} \in SUBSET S /\ y \in m \ {c}
      BY <1>2, <1>3, <1>5, <1>7
    <2>2. QED BY <2>1
  <1>9. SumFunctionOnSet(f, m \ {y}) = f[c] + SumFunctionOnSet(f, (m \ {y}) \ {c})
    <2>1. m \ {y} \notin Bad /\ m \ {y} \in SUBSET S /\ c \in m \ {y}
      BY <1>2, <1>3, <1>5, <1>7
    <2>2. QED BY <2>1
  <1>10. (m \ {y}) \ {c} = (m \ {c}) \ {y}
    OBVIOUS
  <1>11. /\ f[c] \in Nat /\ f[y] \in Nat
         /\ SumFunctionOnSet(f, (m \ {c}) \ {y}) \in Nat
    <2>1. IsFiniteSet((m \ {c}) \ {y}) /\ (m \ {c}) \ {y} \subseteq S
      BY <1>5, FS_Subset
    <2>2. QED BY <1>3, <1>5, <2>1, SumNat
  <1>12. QED BY <1>3, <1>6, <1>8, <1>9, <1>10, <1>11

\* A sum depends on what is summed only.
LEMMA SumSame ==
  ASSUME NEW f, NEW g, NEW S, IsFiniteSet(S), \A x \in S : f[x] = g[x]
  PROVE  SumFunctionOnSet(f, S) = SumFunctionOnSet(g, S)
  <1> DEFINE Bad == {T \in SUBSET S : SumFunctionOnSet(f, T) # SumFunctionOnSet(g, T)}
  <1>1. SUFFICES ASSUME Bad # {}
                 PROVE  FALSE
    OBVIOUS
  <1>2. PICK m \in Bad : \A u \in Bad : u \subseteq m => u = m
    <2>1. Bad \subseteq SUBSET S
      OBVIOUS
    <2> HIDE DEF Bad
    <2>2. QED BY <1>1, <2>1, Minimal
  <1>3. m # {}
    BY <1>2, SumEmpty
  <1>4. Chosen(m) \in m /\ IsFiniteSet(m)
    BY <1>2, <1>3, ChosenIn, FS_Subset
  <1>5. SumFunctionOnSet(f, m \ {Chosen(m)}) = SumFunctionOnSet(g, m \ {Chosen(m)})
    BY <1>2, <1>4
  <1>6. /\ SumFunctionOnSet(f, m) = f[Chosen(m)] + SumFunctionOnSet(f, m \ {Chosen(m)})
        /\ SumFunctionOnSet(g, m) = g[Chosen(m)] + SumFunctionOnSet(g, m \ {Chosen(m)})
    BY <1>3, <1>4, SumChosen
  <1>7. f[Chosen(m)] = g[Chosen(m)]
    BY <1>2, <1>4
  <1>8. QED BY <1>2, <1>5, <1>6, <1>7

\* The sum over two sets that have no element in common.
LEMMA SumUnion ==
  ASSUME NEW f, NEW S, NEW T, IsFiniteSet(S), IsFiniteSet(T), S \cap T = {},
         \A x \in S \cup T : f[x] \in Nat
  PROVE  SumFunctionOnSet(f, S \cup T) = SumFunctionOnSet(f, S) + SumFunctionOnSet(f, T)
  <1> DEFINE Bad == {U \in SUBSET T :
                       SumFunctionOnSet(f, S \cup U)
                         # SumFunctionOnSet(f, S) + SumFunctionOnSet(f, U)}
  <1>1. SUFFICES ASSUME Bad # {}
                 PROVE  FALSE
    OBVIOUS
  <1>2. PICK m \in Bad : \A u \in Bad : u \subseteq m => u = m
    <2>1. Bad \subseteq SUBSET T
      OBVIOUS
    <2> HIDE DEF Bad
    <2>2. QED BY <1>1, <2>1, Minimal
  <1>3. SumFunctionOnSet(f, S) \in Nat
    BY SumNat
  <1>4. m # {}
    <2>1. S \cup {} = S
      OBVIOUS
    <2>2. SumFunctionOnSet(f, S \cup {}) = SumFunctionOnSet(f, S) + SumFunctionOnSet(f, {})
      BY <1>3, <2>1, SumEmpty
    <2>3. QED BY <1>2, <2>2
  <1>5. PICK x : x \in m
    BY <1>4
  <1>6. IsFiniteSet(m) /\ IsFiniteSet(S \cup m) /\ IsFiniteSet(m \ {x})
    BY <1>2, FS_Subset, FS_Union
  <1>7. SumFunctionOnSet(f, m) = f[x] + SumFunctionOnSet(f, m \ {x})
    BY <1>2, <1>5, <1>6, SumTakes
  <1>8. SumFunctionOnSet(f, S \cup m) = f[x] + SumFunctionOnSet(f, S \cup (m \ {x}))
    <2>1. (S \cup m) \ {x} = S \cup (m \ {x}) /\ x \in S \cup m
      BY <1>2, <1>5
    <2>2. \A y \in S \cup m : f[y] \in Nat
      BY <1>2
    <2>3. QED BY <1>6, <2>1, <2>2, SumTakes
  <1>9. SumFunctionOnSet(f, S \cup (m \ {x}))
          = SumFunctionOnSet(f, S) + SumFunctionOnSet(f, m \ {x})
    BY <1>2, <1>5
  <1>10. f[x] \in Nat /\ SumFunctionOnSet(f, m \ {x}) \in Nat
    BY <1>2, <1>5, <1>6, SumNat
  <1>11. QED BY <1>2, <1>3, <1>7, <1>8, <1>9, <1>10

\* A sum with a condition is one of terms that are 0 where it fails.
LEMMA SumWithin ==
  ASSUME NEW f, NEW g, NEW S, NEW T, IsFiniteSet(S), T \subseteq S,
         \A x \in T : f[x] = g[x] /\ g[x] \in Nat,
         \A x \in S \ T : g[x] = 0
  PROVE  SumFunctionOnSet(f, T) = SumFunctionOnSet(g, S)
  <1>1. IsFiniteSet(T) /\ IsFiniteSet(S \ T) /\ T \cup (S \ T) = S /\ T \cap (S \ T) = {}
    BY FS_Subset
  <1>2. SumFunctionOnSet(f, T) = SumFunctionOnSet(g, T) /\ SumFunctionOnSet(g, T) \in Nat
    BY <1>1, SumSame, SumNat
  <1>3. SumFunctionOnSet(g, S) = SumFunctionOnSet(g, T) + SumFunctionOnSet(g, S \ T)
    <2>1. \A x \in T \cup (S \ T) : g[x] \in Nat
      OBVIOUS
    <2>2. PICK U : U = S \ T
      OBVIOUS
    <2>3. QED BY <1>1, <2>1, <2>2, SumUnion
  <1>4. SumFunctionOnSet(g, S \ T) = 0
    <2> DEFINE Bad == {U \in SUBSET (S \ T) : SumFunctionOnSet(g, U) # 0}
    <2>1. SUFFICES ASSUME Bad # {}
                   PROVE  FALSE
      OBVIOUS
    <2>2. PICK m \in Bad : \A u \in Bad : u \subseteq m => u = m
      <3>1. Bad \subseteq SUBSET (S \ T)
        OBVIOUS
      <3>2. PICK U : U = S \ T
        OBVIOUS
      <3> HIDE DEF Bad
      <3>3. QED BY <1>1, <2>1, <3>1, <3>2, Minimal
    <2>3. m # {}
      BY <2>2, SumEmpty
    <2>4. Chosen(m) \in m /\ IsFiniteSet(m)
      BY <1>1, <2>2, <2>3, ChosenIn, FS_Subset
    <2>5. SumFunctionOnSet(g, m \ {Chosen(m)}) = 0
      BY <2>2, <2>4
    <2>6. SumFunctionOnSet(g, m) = g[Chosen(m)] + SumFunctionOnSet(g, m \ {Chosen(m)})
      BY <2>3, <2>4, SumChosen
    <2>7. g[Chosen(m)] = 0
      BY <2>2, <2>4
    <2>8. QED BY <2>2, <2>5, <2>6, <2>7
  <1>5. QED BY <1>2, <1>3, <1>4

\* Two sums that differ in one term.
LEMMA SumDiffers ==
  ASSUME NEW f, NEW g, NEW S, IsFiniteSet(S), \A x \in S : f[x] \in Nat /\ g[x] \in Nat,
         NEW y \in S, \A x \in S : x # y => f[x] = g[x]
  PROVE  SumFunctionOnSet(f, S) + g[y] = SumFunctionOnSet(g, S) + f[y]
  <1>1. IsFiniteSet(S \ {y})
    BY FS_Subset
  <1>2. SumFunctionOnSet(f, S \ {y}) = SumFunctionOnSet(g, S \ {y})
    BY <1>1, SumSame
  <1>3. /\ SumFunctionOnSet(f, S) = f[y] + SumFunctionOnSet(f, S \ {y})
        /\ SumFunctionOnSet(g, S) = g[y] + SumFunctionOnSet(g, S \ {y})
    BY SumTakes
  <1>4. SumFunctionOnSet(g, S \ {y}) \in Nat
    BY <1>1, SumNat
  <1>5. QED BY <1>2, <1>3, <1>4
=============================================================================
