---------------------------- MODULE SumTheorems ----------------------------
(* What the proofs about money need of SumFunctionOnSet, the sum of f[x]    *)
(* over the elements x of a finite set.  Balances, holds and entries are    *)
(* such sums, and every entry of the ledger changes a few of their terms.   *)
EXTENDS Integers, Functions, FiniteSetTheorems, TLAPS

---------------------------------------------------------------------------
(* Induction over the subsets of a finite set, stated for a set F of them. *)

(* If F has every subset of S all of whose proper subsets it has, it has    *)
(* all of them: there is no smallest exception.                             *)
LEMMA SubsetInduction ==
  ASSUME NEW S, IsFiniteSet(S), NEW F,
         \A T \in SUBSET S : (\A U \in SUBSET T : U # T => U \in F) => T \in F
  PROVE  \A T \in SUBSET S : T \in F
<1> DEFINE X == {T \in SUBSET S : T \notin F}
           R == StrictSubsetOrdering(S)
<1>1. SUFFICES ASSUME X # {} PROVE FALSE
  OBVIOUS
<1>2. X \subseteq FiniteSubsetsOf(S) /\ IsWellFoundedOn(R, FiniteSubsetsOf(S))
  BY FS_FiniteSubsetsOfFinite, FS_StrictSubsetOrderingWellFounded
<1>3. PICK T \in X : \A U \in X : <<U, T>> \notin R
  <2> HIDE DEF X, R
  <2>. QED
    BY <1>1, <1>2, WFMin
<1>4. \A U \in SUBSET T : U # T => U \in F
  <2> SUFFICES ASSUME NEW U \in SUBSET T, U # T, U \notin F PROVE FALSE
    OBVIOUS
  <2>1. <<U, T>> \in R
    BY DEF StrictSubsetOrdering
  <2>. QED
    BY <1>3, <2>1
<1>. QED
  BY <1>4

---------------------------------------------------------------------------
(* The recursive function behind the fold *)

Pick(s) == CHOOSE x \in s : TRUE

(* g gives the sums of f over all subsets of S, one element at a time.      *)
SumsUp(f, S, g) ==
  g = [s \in SUBSET S |-> IF s = {} THEN 0 ELSE f[Pick(s)] + g[s \ {Pick(s)}]]

(* The equation on the subsets of at most n elements only.                  *)
SumsUpTo(f, S, n, g) ==
  \A s \in SUBSET S : Cardinality(s) <= n =>
    g[s] = IF s = {} THEN 0 ELSE f[Pick(s)] + g[s \ {Pick(s)}]

(* Taking the chosen element out makes a set smaller by one.                *)
LEMMA PickFacts ==
  ASSUME NEW s, IsFiniteSet(s), s # {}
  PROVE  /\ Pick(s) \in s /\ IsFiniteSet(s \ {Pick(s)})
         /\ Cardinality(s) \in Nat \ {0}
         /\ Cardinality(s \ {Pick(s)}) = Cardinality(s) - 1
<1>1. Pick(s) \in s
  BY DEF Pick
<1>2. Cardinality(s) \in Nat /\ Cardinality(s) # 0
  BY FS_CardinalityType, FS_EmptySet
<1>. QED
  BY <1>1, <1>2, FS_RemoveElement

(* There are sums for sets of any size ...                                  *)
LEMMA SumsUpToExist ==
  ASSUME NEW f, NEW S, IsFiniteSet(S), NEW n \in Nat
  PROVE  \E g : SumsUpTo(f, S, n, g)
<1> DEFINE Bad == {m \in Nat : ~ \E g : SumsUpTo(f, S, m, g)}
<1>1. SUFFICES ASSUME Bad # {} PROVE FALSE
  OBVIOUS
<1>2. PICK m \in Bad : \A k \in Bad : <<k, m>> \notin OpToRel(<, Nat)
  <2>1. Bad \subseteq Nat
    OBVIOUS
  <2> HIDE DEF Bad
  <2>. QED
    BY <1>1, <2>1, NatLessThanWellFounded, WFMin
<1>3. \A s \in SUBSET S : IsFiniteSet(s) /\ Cardinality(s) \in Nat
  BY FS_Subset, FS_CardinalityType
<1>4. m # 0
  <2>1. SumsUpTo(f, S, 0, [s \in SUBSET S |-> 0])
    <3>1. \A s \in SUBSET S : Cardinality(s) <= 0 => s = {}
      BY <1>3, FS_EmptySet
    <3>. QED
      BY <3>1 DEF SumsUpTo
  <2>. QED
    BY <2>1
<1>5. m - 1 \in Nat /\ m - 1 \notin Bad
  <2>1. m - 1 \in Nat /\ m - 1 < m
    BY <1>4
  <2>2. <<m - 1, m>> \in OpToRel(<, Nat)
    BY <2>1 DEF OpToRel
  <2>. QED
    BY <1>2, <2>1, <2>2
<1>6. PICK g : SumsUpTo(f, S, m - 1, g)
  BY <1>5
<1> DEFINE h == [s \in SUBSET S |-> IF Cardinality(s) <= m - 1 THEN g[s]
                                     ELSE f[Pick(s)] + g[s \ {Pick(s)}]]
<1>7. SumsUpTo(f, S, m, h)
  <2> SUFFICES ASSUME NEW s \in SUBSET S, Cardinality(s) <= m
               PROVE  h[s] = IF s = {} THEN 0 ELSE f[Pick(s)] + h[s \ {Pick(s)}]
    BY DEF SumsUpTo
  <2>1. CASE s = {}
    <3>1. Cardinality(s) <= m - 1
      BY <1>5, <2>1, FS_EmptySet
    <3>. QED
      BY <1>6, <2>1, <3>1 DEF SumsUpTo
  <2>2. CASE s # {}
    <3>1. /\ s \ {Pick(s)} \in SUBSET S
          /\ Cardinality(s \ {Pick(s)}) <= m - 1
      BY <1>3, <2>2, PickFacts
    <3>2. h[s \ {Pick(s)}] = g[s \ {Pick(s)}]
      BY <3>1
    <3>3. h[s] = f[Pick(s)] + g[s \ {Pick(s)}]
      BY <1>6, <2>2 DEF SumsUpTo
    <3>. QED
      BY <2>2, <3>2, <3>3
  <2>. QED
    BY <2>1, <2>2
<1>. QED
  BY <1>7

(* ... and so there are for all subsets.                                    *)
LEMMA SumsUpExist ==
  ASSUME NEW f, NEW S, IsFiniteSet(S)
  PROVE  \E g : SumsUp(f, S, g)
<1>1. \A s \in SUBSET S : Cardinality(s) <= Cardinality(S)
  BY FS_Subset
<1>2. PICK g : SumsUpTo(f, S, Cardinality(S), g)
  BY SumsUpToExist, FS_CardinalityType
<1> DEFINE h == [s \in SUBSET S |-> g[s]]
<1>3. \A s \in SUBSET S : s \ {Pick(s)} \in SUBSET S
  OBVIOUS
<1>4. h = [s \in SUBSET S |-> IF s = {} THEN 0 ELSE f[Pick(s)] + h[s \ {Pick(s)}]]
  BY <1>1, <1>2, <1>3 DEF SumsUpTo
<1>. QED
  BY <1>4 DEF SumsUp

(* Sums up to different sets agree on the subsets of both.                  *)
LEMMA SumsUpUnique ==
  ASSUME NEW f, NEW S, NEW T \in SUBSET S, IsFiniteSet(S), NEW g, NEW h,
         SumsUp(f, S, g), SumsUp(f, T, h)
  PROVE  \A s \in SUBSET T : g[s] = h[s]
<1> DEFINE F == {s \in SUBSET T : g[s] = h[s]}
<1>1. IsFiniteSet(T)
  BY FS_Subset
<1>2. \A s \in SUBSET S : g[s] = IF s = {} THEN 0 ELSE f[Pick(s)] + g[s \ {Pick(s)}]
  BY DEF SumsUp
<1>3. \A s \in SUBSET T : h[s] = IF s = {} THEN 0 ELSE f[Pick(s)] + h[s \ {Pick(s)}]
  BY DEF SumsUp
<1>4. ASSUME NEW s \in SUBSET T, \A U \in SUBSET s : U # s => U \in F
      PROVE  s \in F
  <2>1. CASE s = {}
    BY <1>2, <1>3, <2>1
  <2>2. CASE s # {}
    <3>1. Pick(s) \in s
      BY <2>2 DEF Pick
    <3>2. g[s \ {Pick(s)}] = h[s \ {Pick(s)}]
      BY <1>4, <3>1
    <3>. QED
      BY <1>2, <1>3, <2>2, <3>2
  <2>. QED
    BY <2>1, <2>2
<1>5. \A s \in SUBSET T : s \in F
  <2> HIDE DEF F
  <2>. QED
    BY <1>1, <1>4, SubsetInduction
<1>. QED
  BY <1>5

(* The equation of SumFunctionOnSet: the empty sum, and one term more.      *)
LEMMA SumEquation ==
  ASSUME NEW f, NEW S, IsFiniteSet(S)
  PROVE  SumFunctionOnSet(f, S) =
           IF S = {} THEN 0 ELSE f[Pick(S)] + SumFunctionOnSet(f, S \ {Pick(S)})
<1> DEFINE T == S \ {Pick(S)}
           g == CHOOSE g : SumsUp(f, S, g)
           h == CHOOSE h : SumsUp(f, T, h)
<1>1. IsFiniteSet(T) /\ T \in SUBSET S
  BY FS_Subset
<1>2. SumsUp(f, S, g) /\ SumsUp(f, T, h)
  BY <1>1, SumsUpExist
<1>3. SumFunctionOnSet(f, S) = g[S] /\ SumFunctionOnSet(f, T) = h[T]
  BY DEF SumFunctionOnSet, FoldFunctionOnSet, MapThenFoldSet, SumsUp, Pick
<1>4. g[T] = h[T]
  <2> HIDE DEF g, h, T
  <2>. QED
    BY <1>1, <1>2, SumsUpUnique
<1>5. g[S] = IF S = {} THEN 0 ELSE f[Pick(S)] + g[T]
  <2> HIDE DEF g
  <2>. QED
    BY <1>2 DEF SumsUp
<1>. QED
  BY <1>3, <1>4, <1>5

---------------------------------------------------------------------------
(* What the other proofs use *)

(* The sum over nothing.                                                    *)
LEMMA SumEmpty ==
  ASSUME NEW f
  PROVE  SumFunctionOnSet(f, {}) = 0
BY SumEquation, FS_EmptySet

(* A sum of integers is an integer.                                         *)
LEMMA SumType ==
  ASSUME NEW f, NEW S, IsFiniteSet(S), \A x \in S : f[x] \in Int
  PROVE  SumFunctionOnSet(f, S) \in Int
<1> DEFINE F == {T \in SUBSET S : SumFunctionOnSet(f, T) \in Int}
<1>1. ASSUME NEW T \in SUBSET S, \A U \in SUBSET T : U # T => U \in F
      PROVE  T \in F
  <2>1. IsFiniteSet(T)
    BY FS_Subset
  <2>2. CASE T = {}
    BY <2>2, SumEmpty
  <2>3. CASE T # {}
    <3>1. Pick(T) \in T /\ f[Pick(T)] \in Int
      BY <2>1, <2>3, PickFacts
    <3>2. SumFunctionOnSet(f, T \ {Pick(T)}) \in Int
      BY <1>1, <3>1
    <3>. QED
      BY <2>1, <2>3, <3>1, <3>2, SumEquation
  <2>. QED
    BY <2>2, <2>3
<1>2. \A T \in SUBSET S : T \in F
  <2> HIDE DEF F
  <2>. QED
    BY <1>1, SubsetInduction
<1>. QED
  BY <1>2

(* A sum is given by the terms at the elements of its set.                  *)
LEMMA SumSame ==
  ASSUME NEW f, NEW g, NEW S, IsFiniteSet(S), \A x \in S : f[x] = g[x]
  PROVE  SumFunctionOnSet(f, S) = SumFunctionOnSet(g, S)
<1> DEFINE F == {T \in SUBSET S : SumFunctionOnSet(f, T) = SumFunctionOnSet(g, T)}
<1>1. ASSUME NEW T \in SUBSET S, \A U \in SUBSET T : U # T => U \in F
      PROVE  T \in F
  <2>1. IsFiniteSet(T)
    BY FS_Subset
  <2>2. CASE T = {}
    BY <2>2, SumEmpty
  <2>3. CASE T # {}
    <3>1. Pick(T) \in T
      BY <2>1, <2>3, PickFacts
    <3>2. SumFunctionOnSet(f, T \ {Pick(T)}) = SumFunctionOnSet(g, T \ {Pick(T)})
      BY <1>1, <3>1
    <3>. QED
      BY <2>1, <2>3, <3>1, <3>2, SumEquation
  <2>. QED
    BY <2>2, <2>3
<1>2. \A T \in SUBSET S : T \in F
  <2> HIDE DEF F
  <2>. QED
    BY <1>1, SubsetInduction
<1>. QED
  BY <1>2

(* Any element may be taken out, not only the chosen one.                   *)
LEMMA SumTakeOut ==
  ASSUME NEW f, NEW S, IsFiniteSet(S), \A x \in S : f[x] \in Int, NEW a \in S
  PROVE  SumFunctionOnSet(f, S) = f[a] + SumFunctionOnSet(f, S \ {a})
<1> DEFINE F == {T \in SUBSET S : \A x \in T :
                   SumFunctionOnSet(f, T) = f[x] + SumFunctionOnSet(f, T \ {x})}
<1>1. ASSUME NEW T \in SUBSET S, \A U \in SUBSET T : U # T => U \in F
      PROVE  T \in F
  <2> SUFFICES ASSUME NEW x \in T
               PROVE  SumFunctionOnSet(f, T) = f[x] + SumFunctionOnSet(f, T \ {x})
    OBVIOUS
  <2> DEFINE p == Pick(T)
  <2>1. IsFiniteSet(T) /\ p \in T
    BY FS_Subset, PickFacts
  <2>2. SumFunctionOnSet(f, T) = f[p] + SumFunctionOnSet(f, T \ {p})
    BY <2>1, SumEquation
  <2>3. CASE x = p
    BY <2>2, <2>3
  <2>4. CASE x # p
    <3> HIDE DEF p
    <3>1. T \ {p} \in F /\ T \ {x} \in F
      <4> HIDE DEF F
      <4>. QED
        BY <1>1, <2>1
    <3>2. SumFunctionOnSet(f, T \ {p}) = f[x] + SumFunctionOnSet(f, (T \ {p}) \ {x})
      BY <2>4, <3>1
    <3>3. SumFunctionOnSet(f, T \ {x}) = f[p] + SumFunctionOnSet(f, (T \ {x}) \ {p})
      BY <2>1, <2>4, <3>1
    <3>4. SumFunctionOnSet(f, (T \ {p}) \ {x}) = SumFunctionOnSet(f, (T \ {x}) \ {p})
      <4>1. (T \ {p}) \ {x} = (T \ {x}) \ {p}
        OBVIOUS
      <4>. QED
        BY <4>1, Zenon
    <3>5. IsFiniteSet((T \ {x}) \ {p}) /\ (T \ {x}) \ {p} \subseteq S
      BY <2>1, FS_Subset
    <3>6. SumFunctionOnSet(f, (T \ {x}) \ {p}) \in Int
      BY <3>5, SumType
    <3>7. f[p] \in Int /\ f[x] \in Int
      BY <2>1
    <3>. QED
      BY <2>2, <3>2, <3>3, <3>4, <3>6, <3>7
  <2>. QED
    BY <2>3, <2>4
<1>2. \A T \in SUBSET S : T \in F
  <2> HIDE DEF F
  <2>. QED
    BY <1>1, SubsetInduction
<1>. QED
  BY <1>2

(* One more term, the others as they were.                                  *)
LEMMA SumInsert ==
  ASSUME NEW f, NEW g, NEW S, IsFiniteSet(S), NEW a, a \notin S,
         \A x \in S : f[x] \in Int /\ g[x] = f[x], g[a] \in Int
  PROVE  SumFunctionOnSet(g, S \cup {a}) = SumFunctionOnSet(f, S) + g[a]
<1>1. IsFiniteSet(S \cup {a}) /\ (S \cup {a}) \ {a} = S
  BY FS_AddElement
<1>2. SumFunctionOnSet(g, S \cup {a}) = g[a] + SumFunctionOnSet(g, S)
  BY <1>1, SumTakeOut
<1>3. SumFunctionOnSet(g, S) = SumFunctionOnSet(f, S)
  BY SumSame
<1>4. SumFunctionOnSet(f, S) \in Int
  BY SumType
<1>. QED
  BY <1>2, <1>3, <1>4

(* One term less, the others as they were.                                  *)
LEMMA SumRemove ==
  ASSUME NEW f, NEW g, NEW S, IsFiniteSet(S), NEW a \in S,
         \A x \in S : f[x] \in Int, \A x \in S \ {a} : g[x] = f[x]
  PROVE  SumFunctionOnSet(g, S \ {a}) = SumFunctionOnSet(f, S) - f[a]
<1>1. SumFunctionOnSet(f, S) = f[a] + SumFunctionOnSet(f, S \ {a})
  BY SumTakeOut
<1>2. IsFiniteSet(S \ {a})
  BY FS_Subset
<1>3. SumFunctionOnSet(g, S \ {a}) = SumFunctionOnSet(f, S \ {a})
  BY <1>2, SumSame
<1>4. SumFunctionOnSet(f, S \ {a}) \in Int
  BY <1>2, SumType
<1>. QED
  BY <1>1, <1>3, <1>4

(* The sum over two disjoint sets.                                          *)
LEMMA SumDisjoint ==
  ASSUME NEW f, NEW S, NEW T, IsFiniteSet(S), IsFiniteSet(T), S \cap T = {},
         \A x \in S \cup T : f[x] \in Int
  PROVE  SumFunctionOnSet(f, S \cup T) = SumFunctionOnSet(f, S) + SumFunctionOnSet(f, T)
<1> DEFINE F == {U \in SUBSET T :
                   SumFunctionOnSet(f, S \cup U) = SumFunctionOnSet(f, S) + SumFunctionOnSet(f, U)}
<1>1. ASSUME NEW U \in SUBSET T, \A V \in SUBSET U : V # U => V \in F
      PROVE  U \in F
  <2>1. IsFiniteSet(U) /\ IsFiniteSet(S \cup U)
    BY FS_Subset, FS_Union
  <2>2. SumFunctionOnSet(f, S) \in Int
    BY SumType
  <2>3. CASE U = {}
    BY <2>2, <2>3, SumEmpty
  <2>4. CASE U # {}
    <3>1. PICK u \in U : TRUE
      BY <2>4
    <3>2. U \ {u} \in F
      <4> HIDE DEF F
      <4>. QED
        BY <1>1, <3>1
    <3>3. SumFunctionOnSet(f, U) = f[u] + SumFunctionOnSet(f, U \ {u})
      BY <2>1, <3>1, SumTakeOut
    <3>4. SumFunctionOnSet(f, S \cup U) = f[u] + SumFunctionOnSet(f, (S \cup U) \ {u})
      BY <2>1, <3>1, SumTakeOut
    <3>5. SumFunctionOnSet(f, (S \cup U) \ {u}) = SumFunctionOnSet(f, S \cup (U \ {u}))
      <4>1. (S \cup U) \ {u} = S \cup (U \ {u})
        BY <3>1
      <4>. QED
        BY <4>1, Zenon
    <3>6. IsFiniteSet(U \ {u}) /\ \A x \in U \ {u} : f[x] \in Int
      BY <2>1, FS_Subset
    <3>7. SumFunctionOnSet(f, U \ {u}) \in Int
      BY <3>6, SumType
    <3>. QED
      BY <2>2, <3>1, <3>2, <3>3, <3>4, <3>5, <3>7
  <2>. QED
    BY <2>3, <2>4
<1>2. \A U \in SUBSET T : U \in F
  <2> HIDE DEF F
  <2>. QED
    BY <1>1, SubsetInduction
<1>. QED
  BY <1>2

(* The sum of sums of terms.                                                *)
LEMMA SumPlus ==
  ASSUME NEW f, NEW g, NEW h, NEW S, IsFiniteSet(S),
         \A x \in S : f[x] \in Int /\ g[x] \in Int /\ h[x] = f[x] + g[x]
  PROVE  SumFunctionOnSet(h, S) = SumFunctionOnSet(f, S) + SumFunctionOnSet(g, S)
<1> DEFINE F == {U \in SUBSET S :
                   SumFunctionOnSet(h, U) = SumFunctionOnSet(f, U) + SumFunctionOnSet(g, U)}
<1>1. ASSUME NEW U \in SUBSET S, \A V \in SUBSET U : V # U => V \in F
      PROVE  U \in F
  <2>1. CASE U = {}
    BY <2>1, SumEmpty
  <2>2. CASE U # {}
    <3>1. PICK u \in U : TRUE
      BY <2>2
    <3>2. U \ {u} \in F
      <4> HIDE DEF F
      <4>. QED
        BY <1>1, <3>1
    <3>3. IsFiniteSet(U) /\ IsFiniteSet(U \ {u})
      BY FS_Subset
    <3>4. \A x \in U : h[x] \in Int /\ f[x] \in Int /\ g[x] \in Int
      OBVIOUS
    <3>5. /\ SumFunctionOnSet(h, U) = h[u] + SumFunctionOnSet(h, U \ {u})
          /\ SumFunctionOnSet(f, U) = f[u] + SumFunctionOnSet(f, U \ {u})
          /\ SumFunctionOnSet(g, U) = g[u] + SumFunctionOnSet(g, U \ {u})
      BY <3>1, <3>3, <3>4, SumTakeOut
    <3>6. SumFunctionOnSet(f, U \ {u}) \in Int /\ SumFunctionOnSet(g, U \ {u}) \in Int
      BY <3>3, <3>4, SumType
    <3>. QED
      BY <3>1, <3>2, <3>4, <3>5, <3>6
  <2>. QED
    BY <2>1, <2>2
<1>2. \A U \in SUBSET S : U \in F
  <2> HIDE DEF F
  <2>. QED
    BY <1>1, SubsetInduction
<1>. QED
  BY <1>2

(* The sum over groups of the sums over each group: h[a] is the sum of f    *)
(* over the elements of I whose key is a.                                   *)
LEMMA SumGrouped ==
  ASSUME NEW f, NEW h, NEW key, NEW I, NEW S, IsFiniteSet(I), IsFiniteSet(S),
         \A i \in I : f[i] \in Int,
         \A a \in S : h[a] = SumFunctionOnSet(f, {i \in I : key[i] = a})
  PROVE  SumFunctionOnSet(h, S) = SumFunctionOnSet(f, {i \in I : key[i] \in S})
<1> DEFINE In(U) == {i \in I : key[i] \in U}
           F == {U \in SUBSET S : SumFunctionOnSet(h, U) = SumFunctionOnSet(f, In(U))}
<1>1. \A U : IsFiniteSet(In(U)) /\ \A i \in In(U) : f[i] \in Int
  BY FS_Subset
<1>2. \A a \in S : h[a] \in Int
  <2> SUFFICES ASSUME NEW a \in S PROVE h[a] \in Int
    OBVIOUS
  <2>1. IsFiniteSet({i \in I : key[i] = a})
    BY FS_Subset
  <2>2. SumFunctionOnSet(f, {i \in I : key[i] = a}) \in Int
    BY <2>1, SumType
  <2>. QED
    BY <2>2
<1>3. ASSUME NEW U \in SUBSET S, \A V \in SUBSET U : V # U => V \in F
      PROVE  U \in F
  <2>1. CASE U = {}
    <3>1. In(U) = {}
      BY <2>1
    <3>2. SumFunctionOnSet(f, In(U)) = SumFunctionOnSet(f, {})
      BY <3>1, Zenon
    <3>. QED
      BY <2>1, <3>2, SumEmpty
  <2>2. CASE U # {}
    <3>1. PICK u \in U : TRUE
      BY <2>2
    <3>2. U \ {u} \in F
      <4> HIDE DEF F
      <4>. QED
        BY <1>3, <3>1
    <3>3. IsFiniteSet(U) /\ \A x \in U : h[x] \in Int
      BY <1>2, FS_Subset
    <3>4. SumFunctionOnSet(h, U) = h[u] + SumFunctionOnSet(h, U \ {u})
      BY <3>1, <3>3, SumTakeOut
    <3> DEFINE V == U \ {u}
               Here == {i \in I : key[i] = u}
    <3>5. In(U) = In(V) \cup Here /\ In(V) \cap Here = {}
      BY <3>1
    <3>6. IsFiniteSet(Here) /\ IsFiniteSet(In(V)) /\ Here \subseteq I /\ In(V) \subseteq I
      BY FS_Subset
    <3>7. h[u] = SumFunctionOnSet(f, Here)
      BY <3>1
    <3>8. SumFunctionOnSet(h, V) = SumFunctionOnSet(f, In(V))
      BY <3>2
    <3>9. SumFunctionOnSet(f, In(U)) = SumFunctionOnSet(f, In(V) \cup Here)
      BY <3>5, Zenon
    <3> HIDE DEF In, Here
    <3>10. SumFunctionOnSet(f, In(V) \cup Here) =
             SumFunctionOnSet(f, In(V)) + SumFunctionOnSet(f, Here)
      BY <3>5, <3>6, SumDisjoint
    <3>11. SumFunctionOnSet(f, In(V)) \in Int /\ SumFunctionOnSet(f, Here) \in Int
      BY <3>6, SumType
    <3>. QED
      BY <3>4, <3>7, <3>8, <3>9, <3>10, <3>11
  <2>. QED
    BY <2>1, <2>2
<1>4. \A U \in SUBSET S : U \in F
  <2> HIDE DEF F
  <2>. QED
    BY <1>3, SubsetInduction
<1>. QED
  BY <1>4

(* The term of one element may appear, disappear or change, the others stay *)
(* as they were.                                                            *)
LEMMA SumReplace ==
  ASSUME NEW f, NEW g, NEW S, NEW T, NEW a, IsFiniteSet(S), S \ {a} = T \ {a},
         \A x \in S \ {a} : g[x] = f[x],
         \A x \in S : f[x] \in Int, \A x \in T : g[x] \in Int
  PROVE  SumFunctionOnSet(g, T) = SumFunctionOnSet(f, S)
            - (IF a \in S THEN f[a] ELSE 0) + (IF a \in T THEN g[a] ELSE 0)
<1> DEFINE R == S \ {a}
<1>1. IsFiniteSet(R) /\ \A x \in R : f[x] \in Int /\ g[x] = f[x]
  BY FS_Subset
<1>2. SumFunctionOnSet(f, R) \in Int /\ SumFunctionOnSet(f, S) \in Int
  BY <1>1, SumType
<1>3. SumFunctionOnSet(f, R) = SumFunctionOnSet(f, S) - (IF a \in S THEN f[a] ELSE 0)
  <2>1. CASE a \in S
    BY <1>2, <2>1, SumRemove
  <2>2. CASE a \notin S
    <3>1. R = S
      BY <2>2
    <3>2. SumFunctionOnSet(f, R) = SumFunctionOnSet(f, S)
      BY <3>1, Zenon
    <3>. QED
      BY <1>2, <2>2, <3>2
  <2>. QED
    BY <2>1, <2>2
<1>4. SumFunctionOnSet(g, T) = SumFunctionOnSet(f, R) + (IF a \in T THEN g[a] ELSE 0)
  <2>1. CASE a \in T
    <3>1. T = R \cup {a} /\ a \notin R
      BY <2>1
    <3>2. SumFunctionOnSet(g, T) = SumFunctionOnSet(g, R \cup {a})
      BY <3>1, Zenon
    <3>3. g[a] \in Int
      BY <2>1
    <3>4. SumFunctionOnSet(g, R \cup {a}) = SumFunctionOnSet(f, R) + g[a]
      <4> HIDE DEF R
      <4>. QED
        BY <1>1, <3>1, <3>3, SumInsert
    <3>. QED
      BY <2>1, <3>2, <3>4
  <2>2. CASE a \notin T
    <3>1. T = R
      BY <2>2
    <3>2. SumFunctionOnSet(g, T) = SumFunctionOnSet(g, R)
      BY <3>1, Zenon
    <3>3. SumFunctionOnSet(g, R) = SumFunctionOnSet(f, R)
      BY <1>1, SumSame
    <3>. QED
      BY <1>2, <2>2, <3>2, <3>3
  <2>. QED
    BY <2>1, <2>2
<1>. QED
  BY <1>3, <1>4
=============================================================================
