------------------------------- MODULE FiniteSums -------------------------------
(***************************************************************************)
(* Sums over finite sets, as the models take them with SumFunctionOnSet,   *)
(* and the induction their proofs need. The weights are a function, so     *)
(* that a lemma can be cited for any summand; what holds of all numbers or *)
(* of all subsets is shown by collecting those it holds of in a set.       *)
(***************************************************************************)
EXTENDS Integers, FiniteSetsExt, FiniteSetTheorems, TLAPS

-------------------------------------------------------------------------------
\* A set of numbers that is not empty has a least one.
LEMMA LeastNumber ==
  ASSUME NEW S, S \subseteq Nat, S # {}
  PROVE  \E n \in S : \A k \in S : n <= k
  <1>1. \E n \in S : \A k \in S : ~(<<k, n>> \in OpToRel(<, Nat))
    BY NatLessThanWellFounded, WFMin
  <1>2. PICK n \in S : \A k \in S : ~(<<k, n>> \in OpToRel(<, Nat))
    BY <1>1
  <1>3. ASSUME NEW k \in S PROVE n <= k
    <2>1. k \in Nat /\ n \in Nat
      BY <1>3
    <2>2. k < n => <<k, n>> \in OpToRel(<, Nat)
      BY <2>1 DEF OpToRel
    <2>3. ~(k < n)
      BY <1>2, <2>2
    <2> QED BY <2>1, <2>3
  <1> QED BY <1>3

\* A set of numbers that has 0 and every successor has all of them.
LEMMA NatSetInduction ==
  ASSUME NEW P \in SUBSET Nat, 0 \in P, \A n \in P : n + 1 \in P
  PROVE  P = Nat
  <1> SUFFICES ASSUME Nat \ P # {} PROVE FALSE
    OBVIOUS
  <1>1. PICK n \in Nat \ P : \A k \in Nat \ P : n <= k
    <2> DEFINE Q == Nat \ P
    <2>1. Q \subseteq Nat /\ Q # {}
      OBVIOUS
    <2> HIDE DEF Q
    <2>2. \E n \in Q : \A k \in Q : n <= k
      BY <2>1, LeastNumber
    <2> QED BY <2>2 DEF Q
  <1>2. n # 0 /\ n - 1 \in Nat /\ ~(n <= n - 1)
    BY <1>1
  <1>3. n - 1 \in P /\ (n - 1) + 1 = n
    BY <1>1, <1>2
  <1> QED BY <1>1, <1>3

LEMMA OneLess ==
  ASSUME NEW T, IsFiniteSet(T), NEW x \in T
  PROVE  /\ IsFiniteSet(T \ {x}) /\ Cardinality(T) \in Nat /\ Cardinality(T) # 0
         /\ Cardinality(T \ {x}) = Cardinality(T) - 1
  BY FS_RemoveElement, FS_CardinalityType, FS_EmptySet

\* A set of subsets that has the empty one and is closed under adding an element
\* has every finite subset.
LEMMA SubsetInduction ==
  ASSUME NEW S, IsFiniteSet(S), NEW P \in SUBSET SUBSET S, {} \in P,
         \A T \in P : \A x \in S \ T : T \cup {x} \in P
  PROVE  P = SUBSET S
  <1> DEFINE G == {n \in Nat : \A T \in SUBSET S : Cardinality(T) = n => T \in P}
  <1>1. \A T \in SUBSET S : IsFiniteSet(T) /\ Cardinality(T) \in Nat
    BY FS_Subset, FS_CardinalityType
  <1>2. 0 \in G
    BY <1>1, FS_EmptySet
  <1>3. ASSUME NEW n \in G PROVE n + 1 \in G
    <2> SUFFICES ASSUME NEW T \in SUBSET S, Cardinality(T) = n + 1 PROVE T \in P
      OBVIOUS
    <2>1. PICK x \in T : TRUE
      BY FS_EmptySet, n + 1 # 0
    <2>2. Cardinality(T \ {x}) = n
      BY <1>1, <2>1, FS_RemoveElement
    <2>3. T \ {x} \in P /\ x \in S \ (T \ {x}) /\ T = (T \ {x}) \cup {x}
      BY <2>1, <2>2
    <2> QED BY <2>3
  <1>4. G = Nat
    <2> HIDE DEF G
    <2> QED BY <1>2, <1>3, NatSetInduction DEF G
  <1> QED BY <1>1, <1>4

LEMMA ImageIsFinite ==
  ASSUME NEW S, IsFiniteSet(S), NEW f
  PROVE  IsFiniteSet({f[x] : x \in S})
  <1> DEFINE T == {f[x] : x \in S}
             g == [x \in S |-> f[x]]
  <1>1. g \in [S -> T] /\ \A t \in T : \E x \in S : g[x] = t
    OBVIOUS
  <1>2. g \in Surjection(S, T)
    BY <1>1 DEF Surjection
  <1> HIDE DEF g, T
  <1>3. IsFiniteSet(T)
    BY <1>2, FS_Surjection
  <1> QED BY <1>3 DEF T

-------------------------------------------------------------------------------
(* A table filled one number after the other, with values in D. *)

Iterated(f, N, base, step) ==
  f = [n \in 0..N |-> IF n = 0 THEN base ELSE step[n][f[n - 1]]]

LEMMA IterationExists ==
  ASSUME NEW N \in Nat, NEW D, NEW base \in D, NEW step \in [1..N -> [D -> D]]
  PROVE  \E f \in [0..N -> D] : Iterated(f, N, base, step)
  <1> DEFINE G == {m \in Nat : m <= N => \E f \in [0..m -> D] : Iterated(f, m, base, step)}
  <1>1. 0 \in G
    <2> DEFINE f == [n \in 0..0 |-> base]
    <2>1. f \in [0..0 -> D] /\ Iterated(f, 0, base, step)
      BY DEF Iterated
    <2> QED BY <2>1
  <1>2. ASSUME NEW m \in G PROVE m + 1 \in G
    <2> SUFFICES ASSUME m + 1 <= N PROVE \E f \in [0..m + 1 -> D] : Iterated(f, m + 1, base, step)
      OBVIOUS
    <2>1. PICK f \in [0..m -> D] : Iterated(f, m, base, step)
      OBVIOUS
    <2>2. step[m + 1] \in [D -> D] /\ f[m] \in D
      BY m + 1 \in 1..N
    <2> DEFINE g == [n \in 0..m + 1 |-> IF n = m + 1 THEN step[m + 1][f[m]] ELSE f[n]]
    <2>3. step[m + 1][f[m]] \in D
      BY <2>2
    <2>4. g \in [0..m + 1 -> D]
      BY <2>3
    <2>5. ASSUME NEW n \in 0..m + 1 PROVE g[n] = IF n = 0 THEN base ELSE step[n][g[n - 1]]
      <3>1. CASE n = m + 1
        BY <3>1
      <3>2. CASE n \in 0..m
        <4>1. g[n] = f[n] /\ (n # 0 => g[n - 1] = f[n - 1])
          BY <3>2
        <4>2. f[n] = IF n = 0 THEN base ELSE step[n][f[n - 1]]
          BY <2>1, <3>2 DEF Iterated
        <4> QED BY <4>1, <4>2
      <3> QED BY <3>1, <3>2
    <2>6. Iterated(g, m + 1, base, step)
      <3>1. DOMAIN g = 0..m + 1
        OBVIOUS
      <3> HIDE DEF g
      <3> QED BY <2>4, <2>5, <3>1 DEF Iterated
    <2> QED BY <2>4, <2>6
  <1>3. G = Nat
    <2> HIDE DEF G
    <2> QED BY <1>1, <1>2, NatSetInduction DEF G
  <1> QED BY <1>3

LEMMA IterationStays ==
  ASSUME NEW N \in Nat, NEW D, NEW f, f[0] \in D,
         \A n \in 1..N : f[n - 1] \in D => f[n] \in D
  PROVE  \A n \in 0..N : f[n] \in D
  <1> DEFINE G == {m \in Nat : m <= N => f[m] \in D}
  <1>1. 0 \in G
    OBVIOUS
  <1>2. ASSUME NEW m \in G PROVE m + 1 \in G
    <2>1. CASE m + 1 <= N
      <3>1. m + 1 \in 1..N /\ (m + 1) - 1 = m /\ f[m] \in D
        BY <2>1
      <3> QED BY <3>1
    <2>2. CASE ~(m + 1 <= N)
      BY <2>2
    <2> QED BY <2>1, <2>2
  <1>3. G = Nat
    <2> HIDE DEF G
    <2> QED BY <1>1, <1>2, NatSetInduction DEF G
  <1> QED BY <1>3

-------------------------------------------------------------------------------
(* Least and greatest elements, as Min and Max choose them. *)

LEMMA MinOfNumbers ==
  ASSUME NEW S, S \subseteq Nat, S # {}
  PROVE  Min(S) \in S /\ \A y \in S : Min(S) <= y
  BY LeastNumber DEF Min

-------------------------------------------------------------------------------
(* What a sum stands for: the value at S of a table on the subsets. *)

Pick(s) == CHOOSE x \in s : TRUE

Entries(g, w, D) ==
  [s \in D |-> IF s = {} THEN 0 ELSE w[Pick(s)] + g[s \ {Pick(s)}]]

Table(g, w, S) == g = Entries(g, w, SUBSET S)

LEMMA SumIsTabulated ==
  ASSUME NEW w, NEW S
  PROVE  SumFunctionOnSet(w, S) = (CHOOSE g : Table(g, w, S))[S]
  BY DEF SumFunctionOnSet, FoldFunctionOnSet, MapThenFoldSet, Table, Entries, Pick

\* A table exists: it is extended from the subsets of at most n elements to those
\* of at most n + 1.
LEMMA TableExists ==
  ASSUME NEW w, NEW S, IsFiniteSet(S)
  PROVE  \E g : Table(g, w, S)
  <1> DEFINE Small(n) == {s \in SUBSET S : Cardinality(s) <= n}
             G == {n \in Nat : \E g : g = Entries(g, w, Small(n))}
  <1>1. \A T \in SUBSET S : IsFiniteSet(T) /\ Cardinality(T) \in Nat
                            /\ Cardinality(T) <= Cardinality(S)
    BY FS_Subset, FS_CardinalityType
  <1>2. 0 \in G
    <2>1. Small(0) = {{}}
      BY <1>1, FS_EmptySet
    <2>2. [s \in Small(0) |-> 0] = Entries([s \in Small(0) |-> 0], w, Small(0))
      BY <2>1 DEF Entries
    <2> QED BY <2>2
  <1>3. ASSUME NEW n \in G PROVE n + 1 \in G
    <2>1. PICK g : g = Entries(g, w, Small(n))
      OBVIOUS
    <2> DEFINE h == Entries(g, w, Small(n + 1))
    <2>2. \A s \in Small(n + 1) : s # {} => s \ {Pick(s)} \in Small(n)
      <3> SUFFICES ASSUME NEW s \in Small(n + 1), s # {} PROVE s \ {Pick(s)} \in Small(n)
        OBVIOUS
      <3>1. Pick(s) \in s
        BY DEF Pick
      <3>2. Cardinality(s \ {Pick(s)}) = Cardinality(s) - 1
        BY <1>1, <3>1, FS_RemoveElement
      <3> QED BY <1>1, <3>2
    <2>3. Small(n) \subseteq Small(n + 1)
      BY <1>1
    <2>4. \A s \in Small(n) : h[s] = g[s]
      <3> SUFFICES ASSUME NEW s \in Small(n) PROVE h[s] = g[s]
        OBVIOUS
      <3> HIDE DEF Small
      <3>1. h[s] = IF s = {} THEN 0 ELSE w[Pick(s)] + g[s \ {Pick(s)}]
        BY <2>3 DEF Entries
      <3>2. Entries(g, w, Small(n))[s] = IF s = {} THEN 0 ELSE w[Pick(s)] + g[s \ {Pick(s)}]
        BY DEF Entries
      <3> QED BY <2>1, <3>1, <3>2
    <2>5. h = Entries(h, w, Small(n + 1))
      <3> HIDE DEF Small
      <3>1. \A s \in Small(n + 1) : s # {} => h[s \ {Pick(s)}] = g[s \ {Pick(s)}]
        <4> SUFFICES ASSUME NEW s \in Small(n + 1), s # {}
                     PROVE  h[s \ {Pick(s)}] = g[s \ {Pick(s)}]
          OBVIOUS
        <4> HIDE DEF h
        <4>1. s \ {Pick(s)} \in Small(n)
          BY <2>2
        <4> QED BY <2>4, <4>1
      <3> QED BY <3>1 DEF Entries
    <2>6. \E f : f = Entries(f, w, Small(n + 1))
      BY <2>5
    <2> HIDE DEF Small
    <2> QED BY <2>6, n + 1 \in Nat
  <1>4. G = Nat
    <2> HIDE DEF G
    <2> QED BY <1>2, <1>3, NatSetInduction DEF G
  <1>5. Cardinality(S) \in G /\ Small(Cardinality(S)) = SUBSET S
    BY <1>1, <1>4
  <1> QED BY <1>5 DEF Table

LEMMA TableUnique ==
  ASSUME NEW w, NEW S, IsFiniteSet(S), NEW g, NEW h, Table(g, w, S),
         NEW T \in SUBSET S, Table(h, w, T)
  PROVE  h[T] = g[T]
  <1> DEFINE G == {n \in Nat : \A s \in SUBSET T : Cardinality(s) = n => h[s] = g[s]}
  <1>1. \A s \in SUBSET T : IsFiniteSet(s) /\ Cardinality(s) \in Nat
    BY FS_Subset, FS_CardinalityType
  <1>2. \A s \in SUBSET T :
          /\ g[s] = IF s = {} THEN 0 ELSE w[Pick(s)] + g[s \ {Pick(s)}]
          /\ h[s] = IF s = {} THEN 0 ELSE w[Pick(s)] + h[s \ {Pick(s)}]
    <2> SUFFICES ASSUME NEW s \in SUBSET T
                 PROVE  /\ g[s] = IF s = {} THEN 0 ELSE w[Pick(s)] + g[s \ {Pick(s)}]
                        /\ h[s] = IF s = {} THEN 0 ELSE w[Pick(s)] + h[s \ {Pick(s)}]
      OBVIOUS
    <2>1. g[s] = Entries(g, w, SUBSET S)[s] /\ h[s] = Entries(h, w, SUBSET T)[s]
      BY DEF Table
    <2>2. s \in SUBSET S
      OBVIOUS
    <2> QED BY <2>1, <2>2 DEF Entries
  <1>3. 0 \in G
    BY <1>1, <1>2, FS_EmptySet
  <1>4. ASSUME NEW n \in G PROVE n + 1 \in G
    <2> SUFFICES ASSUME NEW s \in SUBSET T, Cardinality(s) = n + 1 PROVE h[s] = g[s]
      OBVIOUS
    <2>1. s # {} /\ Pick(s) \in s
      <3>1. s # {}
        BY FS_EmptySet, n + 1 # 0
      <3> QED BY <3>1 DEF Pick
    <2>2. Cardinality(s \ {Pick(s)}) = n
      <3>1. n \in Nat
        OBVIOUS
      <3>2. Cardinality(s \ {Pick(s)}) = Cardinality(s) - 1
        BY <1>1, <2>1, OneLess
      <3> QED BY <3>1, <3>2
    <2>3. h[s \ {Pick(s)}] = g[s \ {Pick(s)}]
      BY <2>2
    <2>4. h[s] = w[Pick(s)] + h[s \ {Pick(s)}] /\ g[s] = w[Pick(s)] + g[s \ {Pick(s)}]
      BY <1>2, <2>1
    <2> QED BY <2>3, <2>4
  <1>5. G = Nat
    <2> HIDE DEF G
    <2> QED BY <1>3, <1>4, NatSetInduction DEF G
  <1> QED BY <1>1, <1>5

LEMMA SumIsTable ==
  ASSUME NEW w, NEW S, IsFiniteSet(S)
  PROVE  \E g : Table(g, w, S) /\ SumFunctionOnSet(w, S) = g[S]
  <1> DEFINE g == CHOOSE g : Table(g, w, S)
  <1>1. Table(g, w, S)
    BY TableExists
  <1>2. SumFunctionOnSet(w, S) = g[S]
    BY SumIsTabulated
  <1> HIDE DEF g
  <1> QED BY <1>1, <1>2

LEMMA SumEmpty == ASSUME NEW w PROVE SumFunctionOnSet(w, {}) = 0
  <1>1. PICK g : Table(g, w, {}) /\ SumFunctionOnSet(w, {}) = g[{}]
    BY SumIsTable, FS_EmptySet
  <1>2. g[{}] = Entries(g, w, SUBSET {})[{}]
    BY <1>1 DEF Table
  <1> QED BY <1>1, <1>2 DEF Entries

\* The recursive equation, at the element the fold takes first.
LEMMA SumPicks ==
  ASSUME NEW w, NEW S, IsFiniteSet(S), S # {}
  PROVE  /\ Pick(S) \in S
         /\ SumFunctionOnSet(w, S) = w[Pick(S)] + SumFunctionOnSet(w, S \ {Pick(S)})
  <1> DEFINE T == S \ {Pick(S)}
  <1>1. Pick(S) \in S
    BY DEF Pick
  <1>2. IsFiniteSet(T) /\ T \in SUBSET S
    BY <1>1, OneLess
  <1>3. PICK g : Table(g, w, S) /\ SumFunctionOnSet(w, S) = g[S]
    BY SumIsTable
  <1>4. PICK h : Table(h, w, T) /\ SumFunctionOnSet(w, T) = h[T]
    BY <1>2, SumIsTable
  <1>5. h[T] = g[T]
    BY <1>2, <1>3, <1>4, TableUnique
  <1>6. g[S] = Entries(g, w, SUBSET S)[S]
    BY <1>3 DEF Table
  <1>7. g[S] = w[Pick(S)] + g[T]
    BY <1>6 DEF Entries
  <1> QED BY <1>1, <1>3, <1>4, <1>5, <1>7

-------------------------------------------------------------------------------
(* The order in which a sum is taken does not matter. *)

\* One induction gives the type of a sum and the equation for any element.
LEMMA SumTakesAny ==
  ASSUME NEW S, IsFiniteSet(S), NEW w, \A x \in S : w[x] \in Int, NEW T \in SUBSET S
  PROVE  /\ SumFunctionOnSet(w, T) \in Int
         /\ \A x \in T : SumFunctionOnSet(w, T) = w[x] + SumFunctionOnSet(w, T \ {x})
  <1> DEFINE Holds(U) == /\ SumFunctionOnSet(w, U) \in Int
                         /\ \A x \in U : SumFunctionOnSet(w, U) = w[x] + SumFunctionOnSet(w, U \ {x})
             G == {n \in Nat : \A U \in SUBSET S : Cardinality(U) <= n => Holds(U)}
  <1>1. \A U \in SUBSET S : IsFiniteSet(U) /\ Cardinality(U) \in Nat
    BY FS_Subset, FS_CardinalityType
  <1>2. 0 \in G
    <2> SUFFICES ASSUME NEW U \in SUBSET S, Cardinality(U) <= 0 PROVE Holds(U)
      OBVIOUS
    <2>1. U = {}
      BY <1>1, FS_EmptySet
    <2> QED BY <2>1, SumEmpty
  <1>3. ASSUME NEW n \in G PROVE n + 1 \in G
    <2>0. n \in Nat /\ \A U \in SUBSET S : Cardinality(U) <= n => Holds(U)
      OBVIOUS
    <2> HIDE DEF G
    <2> SUFFICES ASSUME NEW U \in SUBSET S, Cardinality(U) <= n + 1 PROVE Holds(U)
      BY <2>0 DEF G
    <2>1. CASE U = {}
      BY <2>1, SumEmpty
    <2>2. CASE U # {}
      <3> DEFINE p == Pick(U)
      <3>1. p \in U /\ SumFunctionOnSet(w, U) = w[p] + SumFunctionOnSet(w, U \ {p})
        BY <1>1, <2>2, SumPicks
      <3> HIDE DEF p
      <3>2. \A x \in U : U \ {x} \in SUBSET S /\ Holds(U \ {x}) /\ w[x] \in Int
        <4> SUFFICES ASSUME NEW x \in U PROVE U \ {x} \in SUBSET S /\ Holds(U \ {x})
          OBVIOUS
        <4>1. Cardinality(U \ {x}) <= n
          BY <1>1, <2>0, OneLess
        <4> HIDE DEF Holds
        <4> QED BY <2>0, <4>1
      <3>3. SumFunctionOnSet(w, U) \in Int
        BY <3>1, <3>2
      <3>4. ASSUME NEW x \in U PROVE SumFunctionOnSet(w, U) = w[x] + SumFunctionOnSet(w, U \ {x})
        <4>1. CASE x = p
          BY <3>1, <4>1
        <4>2. CASE x # p
          <5> DEFINE V == U \ {x, p}
          <5>1. V = (U \ {p}) \ {x} /\ V = (U \ {x}) \ {p}
            OBVIOUS
          <5>2. Holds(U \ {p}) /\ Holds(U \ {x})
            BY <3>1, <3>2
          <5>3. SumFunctionOnSet(w, U \ {p}) = w[x] + SumFunctionOnSet(w, V)
            BY <4>2, <5>1, <5>2
          <5>4. SumFunctionOnSet(w, U \ {x}) = w[p] + SumFunctionOnSet(w, V)
            BY <3>1, <4>2, <5>1, <5>2
          <5>5. V \in SUBSET S /\ Cardinality(V) <= n
            <6>1. Cardinality(U \ {x}) <= n /\ IsFiniteSet(U \ {x}) /\ p \in U \ {x}
              BY <1>1, <2>0, <3>1, <4>2, OneLess
            <6>2. Cardinality(V) = Cardinality(U \ {x}) - 1 /\ Cardinality(U \ {x}) \in Nat
              BY <5>1, <6>1, OneLess
            <6> QED BY <2>0, <6>1, <6>2
          <5>6. SumFunctionOnSet(w, V) \in Int
            BY <2>0, <5>5
          <5> HIDE DEF V
          <5> QED BY <3>1, <3>2, <5>3, <5>4, <5>6
        <4> QED BY <4>1, <4>2
      <3> QED BY <3>3, <3>4
    <2> QED BY <2>1, <2>2
  <1>4. G = Nat
    <2> HIDE DEF G
    <2> QED BY <1>2, <1>3, NatSetInduction DEF G
  <1>5. Cardinality(T) \in Nat /\ Cardinality(T) <= Cardinality(T)
    BY <1>1
  <1>6. Holds(T)
    <2>1. Cardinality(T) \in G
      BY <1>4, <1>5
    <2> HIDE DEF Holds
    <2> QED BY <1>5, <2>1
  <1> QED BY <1>6

LEMMA SumIsInt ==
  ASSUME NEW S, IsFiniteSet(S), NEW w, \A x \in S : w[x] \in Int
  PROVE  SumFunctionOnSet(w, S) \in Int
  BY SumTakesAny

LEMMA SumAdds ==
  ASSUME NEW S, IsFiniteSet(S), NEW x, x \notin S, NEW w,
         \A y \in S \cup {x} : w[y] \in Int
  PROVE  SumFunctionOnSet(w, S \cup {x}) = SumFunctionOnSet(w, S) + w[x]
  <1>1. IsFiniteSet(S \cup {x}) /\ (S \cup {x}) \ {x} = S
    BY FS_AddElement
  <1>2. SumFunctionOnSet(w, S \cup {x}) = w[x] + SumFunctionOnSet(w, S)
    BY <1>1, SumTakesAny
  <1>3. SumFunctionOnSet(w, S) \in Int /\ w[x] \in Int
    BY SumIsInt
  <1> QED BY <1>2, <1>3

LEMMA SumRemoves ==
  ASSUME NEW S, IsFiniteSet(S), NEW x \in S, NEW w, \A y \in S : w[y] \in Int
  PROVE  SumFunctionOnSet(w, S) = SumFunctionOnSet(w, S \ {x}) + w[x]
  <1>1. SumFunctionOnSet(w, S) = w[x] + SumFunctionOnSet(w, S \ {x})
    BY SumTakesAny
  <1>2. SumFunctionOnSet(w, S \ {x}) \in Int /\ w[x] \in Int
    BY SumTakesAny
  <1> QED BY <1>1, <1>2

LEMMA SumMonotone ==
  ASSUME NEW S, IsFiniteSet(S), NEW w, NEW v,
         \A x \in S : w[x] \in Int /\ v[x] \in Int /\ w[x] <= v[x]
  PROVE  SumFunctionOnSet(w, S) <= SumFunctionOnSet(v, S)
  <1> DEFINE P == {T \in SUBSET S : SumFunctionOnSet(w, T) <= SumFunctionOnSet(v, T)}
  <1>1. {} \in P
    BY SumEmpty
  <1>2. ASSUME NEW T \in P, NEW x \in S \ T PROVE T \cup {x} \in P
    <2>1. IsFiniteSet(T) /\ x \notin T
      BY FS_Subset
    <2>2. /\ SumFunctionOnSet(w, T \cup {x}) = SumFunctionOnSet(w, T) + w[x]
          /\ SumFunctionOnSet(v, T \cup {x}) = SumFunctionOnSet(v, T) + v[x]
      BY <2>1, SumAdds
    <2>3. SumFunctionOnSet(w, T) \in Int /\ SumFunctionOnSet(v, T) \in Int
      BY <2>1, SumIsInt
    <2> QED BY <2>2, <2>3
  <1>3. P = SUBSET S
    <2>1. P \in SUBSET SUBSET S
      OBVIOUS
    <2> HIDE DEF P
    <2> QED BY <1>1, <1>2, <2>1, SubsetInduction
  <1>4. S \in P
    BY <1>3
  <1> QED BY <1>4

LEMMA SumSame ==
  ASSUME NEW S, IsFiniteSet(S), NEW w, NEW v,
         \A x \in S : w[x] \in Int /\ w[x] = v[x]
  PROVE  SumFunctionOnSet(w, S) = SumFunctionOnSet(v, S)
  <1>1. SumFunctionOnSet(w, S) <= SumFunctionOnSet(v, S) /\ SumFunctionOnSet(v, S) <= SumFunctionOnSet(w, S)
    BY SumMonotone
  <1>2. SumFunctionOnSet(w, S) \in Int /\ SumFunctionOnSet(v, S) \in Int
    BY SumIsInt
  <1> QED BY <1>1, <1>2

\* Elements without weight may be left out.
LEMMA SumDropsZeros ==
  ASSUME NEW S, IsFiniteSet(S), NEW T \in SUBSET S, NEW w,
         \A x \in S : w[x] \in Int, \A x \in S \ T : w[x] = 0
  PROVE  SumFunctionOnSet(w, T) = SumFunctionOnSet(w, S)
  <1> DEFINE R == S \ T
             P == {U \in SUBSET R : SumFunctionOnSet(w, T \cup U) = SumFunctionOnSet(w, T)}
  <1>1. {} \in P
    OBVIOUS
  <1>2. ASSUME NEW U \in P, NEW x \in R \ U PROVE U \cup {x} \in P
    <2>1. IsFiniteSet(T \cup U) /\ x \notin T \cup U /\ T \cup (U \cup {x}) = (T \cup U) \cup {x}
      BY FS_Subset
    <2>2. SumFunctionOnSet(w, T \cup (U \cup {x})) = SumFunctionOnSet(w, T \cup U) + w[x]
      BY <2>1, SumAdds
    <2>3. SumFunctionOnSet(w, T \cup U) \in Int /\ w[x] = 0
      BY <2>1, SumIsInt
    <2> QED BY <2>2, <2>3
  <1>3. IsFiniteSet(R) /\ T \cup R = S
    BY FS_Subset
  <1>4. P = SUBSET R
    <2>1. P \in SUBSET SUBSET R
      OBVIOUS
    <2> HIDE DEF P, R
    <2> QED BY <1>1, <1>2, <1>3, <2>1, SubsetInduction
  <1>5. R \in P
    BY <1>4
  <1> QED BY <1>3, <1>5

LEMMA SumIsNat ==
  ASSUME NEW S, IsFiniteSet(S), NEW w, \A x \in S : w[x] \in Nat
  PROVE  SumFunctionOnSet(w, S) \in Nat
  <1> DEFINE zero == [x \in S |-> 0]
  <1>1. SumFunctionOnSet(zero, {}) = SumFunctionOnSet(zero, S)
    BY SumDropsZeros
  <1>2. SumFunctionOnSet(zero, S) <= SumFunctionOnSet(w, S)
    <2>1. \A x \in S : zero[x] \in Int /\ w[x] \in Int /\ zero[x] <= w[x]
      OBVIOUS
    <2> HIDE DEF zero
    <2> QED BY <2>1, SumMonotone
  <1>3. SumFunctionOnSet(w, S) \in Int
    BY SumIsInt
  <1> QED BY <1>1, <1>2, <1>3, SumEmpty

\* Changing one weight changes the sum by as much.
LEMMA SumChanges ==
  ASSUME NEW S, IsFiniteSet(S), NEW x \in S, NEW w, NEW v,
         \A y \in S : w[y] \in Int /\ v[y] \in Int,
         \A y \in S \ {x} : v[y] = w[y]
  PROVE  SumFunctionOnSet(v, S) = SumFunctionOnSet(w, S) + v[x] - w[x]
  <1>1. /\ SumFunctionOnSet(w, S) = SumFunctionOnSet(w, S \ {x}) + w[x]
        /\ SumFunctionOnSet(v, S) = SumFunctionOnSet(v, S \ {x}) + v[x]
    BY SumRemoves
  <1>2. IsFiniteSet(S \ {x})
    BY FS_RemoveElement
  <1>3. SumFunctionOnSet(v, S \ {x}) = SumFunctionOnSet(w, S \ {x}) /\ SumFunctionOnSet(w, S \ {x}) \in Int
    BY <1>2, SumSame, SumIsInt
  <1> QED BY <1>1, <1>3

\* A finite set that is not empty has an element of the greatest weight.
LEMMA GreatestWeight ==
  ASSUME NEW S, IsFiniteSet(S), S # {}, NEW w, \A x \in S : w[x] \in Int
  PROVE  \E x \in S : \A y \in S : w[y] <= w[x]
  <1> DEFINE P == {T \in SUBSET S : T # {} => \E x \in T : \A y \in T : w[y] <= w[x]}
  <1>1. {} \in P
    OBVIOUS
  <1>2. ASSUME NEW T \in P, NEW z \in S \ T PROVE T \cup {z} \in P
    <2>1. CASE T = {}
      BY <2>1
    <2>2. CASE T # {}
      <3>1. PICK x \in T : \A y \in T : w[y] <= w[x]
        BY <2>2
      <3>2. \E u \in T \cup {z} : \A y \in T \cup {z} : w[y] <= w[u]
        <4>1. CASE w[z] <= w[x]
          BY <3>1, <4>1
        <4>2. CASE w[x] <= w[z]
          BY <3>1, <4>2
        <4> QED BY <4>1, <4>2
      <3> QED BY <3>2
    <2> QED BY <2>1, <2>2
  <1>3. P = SUBSET S
    <2>1. P \in SUBSET SUBSET S
      OBVIOUS
    <2> HIDE DEF P
    <2> QED BY <1>1, <1>2, <2>1, SubsetInduction
  <1>4. S \in P
    BY <1>3
  <1> QED BY <1>4
LEMMA MaxOfFinite ==
  ASSUME NEW S, IsFiniteSet(S), S # {}, \A x \in S : x \in Int
  PROVE  Max(S) \in S /\ \A y \in S : y <= Max(S)
  <1> DEFINE w == [x \in S |-> x]
  <1>1. \A x \in S : w[x] \in Int /\ w[x] = x
    OBVIOUS
  <1> HIDE DEF w
  <1>2. PICK x \in S : \A y \in S : w[y] <= w[x]
    BY <1>1, GreatestWeight
  <1>3. \A y \in S : x >= y
    BY <1>1, <1>2
  <1>4. Max(S) \in S /\ \A y \in S : Max(S) >= y
    BY <1>3 DEF Max
  <1> QED BY <1>4
================================================================================
