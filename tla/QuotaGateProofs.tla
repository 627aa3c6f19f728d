------------------------- MODULE QuotaGateProofs -------------------------
(***************************************************************************)
(* Why the quota check, although it reads one row of the table and reads   *)
(* it before the upstream call, lets the model of that row pass a tenant's *)
(* quota by a bounded amount only (OvershootIsBounded).                    *)
(*                                                                         *)
(* Take the key (tenant, date, model) of the row the check reads.  What    *)
(* the key's recorders booked is in that row (FirstOn) or in rows inserted *)
(* beside it (Elsewhere).  The second kind are few: a row beside the first *)
(* comes from a recorder that looked the key up before the first row was   *)
(* there, and it was open then (RowsApart).  The first kind are what the   *)
(* row held when a check last let a request pass, which left room for an   *)
(* estimate, and what requests open at that time have added (Covered):     *)
(* requests admitted later move the two sets on.  A run of                 *)
(* ProcessUsageDeadLetter books dead letters only (LettersDead), which the *)
(* bound does not count, and a crash only ends requests.                   *)
(***************************************************************************)
EXTENDS QuotaGate, UsageRecorderProofs

(* Sums over finite sets.                                                  *)

\* Induction, the way it can be cited: a set of naturals has a least element.
LEMMA LeastOfNat ==
    ASSUME NEW T, T \subseteq Nat, T # {}
    PROVE  \E n \in T : \A m \in T : n <= m
<1>1. PICK n \in T : \A m \in T : ~(<<m, n>> \in OpToRel(<, Nat))
  BY NatLessThanWellFounded, WFMin
<1>2. ASSUME NEW m \in T
      PROVE  n <= m
  <2>1. m \in Nat /\ n \in Nat
    OBVIOUS
  <2>2. <<m, n>> \in OpToRel(<, Nat) <=> m < n
    BY <2>1 DEF OpToRel
  <2>3. ~(<<m, n>> \in OpToRel(<, Nat))
    BY <1>1
  <2>4. ~(m < n)
    BY <2>2, <2>3
  <2>5. QED
    BY <2>1, <2>4
<1>3. QED
  BY <1>2

\* Of some finite sets, one has the fewest elements.
LEMMA FewestElements ==
    ASSUME NEW S, IsFiniteSet(S), NEW Bad, Bad \subseteq SUBSET S, Bad # {}
    PROVE  \E T \in Bad : \A U \in Bad : Cardinality(T) <= Cardinality(U)
<1> DEFINE Sizes == {Cardinality(U) : U \in Bad}
<1>1. \A U \in Bad : Cardinality(U) \in Nat
  BY FS_Subset, FS_CardinalityType
<1>2. Sizes \subseteq Nat /\ Sizes # {}
  BY <1>1
<1>3. PICK n \in Sizes : \A m \in Sizes : n <= m
  <2> HIDE DEF Sizes
  <2>1. QED
    BY <1>2, LeastOfNat
<1>4. PICK T \in Bad : n = Cardinality(T)
  BY <1>3
<1>5. QED
  BY <1>3, <1>4

\* A set grows from the empty one, element by element.
LEMMA GrownByAdding ==
    ASSUME NEW S, IsFiniteSet(S), NEW Good, {} \in Good,
           \A T \in SUBSET S : \A x \in S \ T : T \in Good => T \cup {x} \in Good
    PROVE  SUBSET S \subseteq Good
<1> SUFFICES ASSUME NEW T0 \in SUBSET S, T0 \notin Good PROVE FALSE
  OBVIOUS
<1> DEFINE Bad == {T \in SUBSET S : T \notin Good}
<1>1. PICK T \in Bad : \A U \in Bad : Cardinality(T) <= Cardinality(U)
  <2>1. Bad \subseteq SUBSET S /\ Bad # {}
    OBVIOUS
  <2> HIDE DEF Bad
  <2>2. QED
    BY <2>1, FewestElements
<1>2. PICK x \in T : TRUE
  BY <1>1
<1>3. T \in SUBSET S /\ T \ {x} \in SUBSET S /\ x \in S \ (T \ {x}) /\ T = (T \ {x}) \cup {x}
  BY <1>2
<1>4. T \ {x} \in Good
  <2>1. IsFiniteSet(T) /\ Cardinality(T) \in Nat /\ Cardinality(T \ {x}) = Cardinality(T) - 1
    BY <1>2, <1>3, FS_Subset, FS_CardinalityType, FS_RemoveElement
  <2>2. ~(Cardinality(T) <= Cardinality(T \ {x}))
    BY <2>1
  <2>3. T \ {x} \notin Bad
    BY <1>1, <2>2
  <2>4. QED
    BY <1>3, <2>3
<1>5. (T \ {x}) \cup {x} \in Good
  BY <1>3, <1>4
<1>6. QED
  BY <1>1, <1>3, <1>5

\* The element that a fold takes next.
Next1(s) == CHOOSE x \in s : TRUE

\* f adds up c over the subsets of S that have at most n elements.
Tallies(f, c, S, n) ==
    f = [s \in {u \in SUBSET S : Cardinality(u) <= n} |->
            IF s = {} THEN 0 ELSE c[Next1(s)] + f[s \ {Next1(s)}]]

\* What a fold takes next is in the set, and a smaller set is left.
LEMMA NextLess ==
    ASSUME NEW S, IsFiniteSet(S), NEW s \in SUBSET S, s # {}
    PROVE  /\ Next1(s) \in s /\ s \ {Next1(s)} \in SUBSET S
           /\ Cardinality(s) \in Nat \ {0}
           /\ Cardinality(s \ {Next1(s)}) = Cardinality(s) - 1
<1>1. Next1(s) \in s
  BY DEF Next1
<1>2. IsFiniteSet(s)
  BY FS_Subset
<1>3. Cardinality(s) \in Nat /\ Cardinality(s) # 0
  BY <1>2, FS_CardinalityType, FS_EmptySet
<1>4. Cardinality(s \ {Next1(s)}) = Cardinality(s) - 1
  BY <1>1, <1>2, FS_RemoveElement
<1>5. QED
  BY <1>1, <1>3, <1>4

\* Such tallies exist.
LEMMA SomeTally ==
    ASSUME NEW S, IsFiniteSet(S), NEW c, NEW N \in Nat
    PROVE  \E f : Tallies(f, c, S, N)
<1> DEFINE Missing == {n \in 0 .. N : ~ \E f : Tallies(f, c, S, n)}
<1>1. Missing = {}
  <2> SUFFICES ASSUME Missing # {} PROVE FALSE
    OBVIOUS
  <2>1. PICK n \in Missing : \A m \in Missing : n <= m
    <3>1. Missing \subseteq Nat
      OBVIOUS
    <3> HIDE DEF Missing
    <3>2. QED
      BY <3>1, LeastOfNat
  <2>2. n \in 0 .. N /\ ~ \E f : Tallies(f, c, S, n)
    OBVIOUS
  <2> DEFINE D(m) == {u \in SUBSET S : Cardinality(u) <= m}
  <2>3. n # 0
    <3> SUFFICES ASSUME n = 0 PROVE FALSE
      OBVIOUS
    <3> DEFINE f == [s \in D(0) |-> 0]
    <3>1. \A s \in D(0) : s = {}
      <4> SUFFICES ASSUME NEW s \in D(0), s # {} PROVE FALSE
        OBVIOUS
      <4>1. Cardinality(s) \in Nat \ {0} /\ Cardinality(s) <= 0
        BY NextLess
      <4>2. QED
        BY <4>1
    <3>2. f = [s \in D(0) |-> IF s = {} THEN 0 ELSE c[Next1(s)] + f[s \ {Next1(s)}]]
      BY <3>1
    <3>3. Tallies(f, c, S, 0)
      <4> HIDE DEF f
      <4>1. QED
        BY <3>2 DEF Tallies
    <3>4. QED
      BY <2>2, <3>3
  <2>4. n - 1 \in 0 .. N /\ n - 1 \notin Missing /\ n \in Nat
    BY <2>1, <2>2, <2>3
  <2>5. PICK f : Tallies(f, c, S, n - 1)
    BY <2>4
  <2> DEFINE g == [s \in D(n) |-> IF Cardinality(s) <= n - 1 THEN f[s]
                                  ELSE c[Next1(s)] + f[s \ {Next1(s)}]]
  <2>6. \A s \in D(n - 1) : f[s] = IF s = {} THEN 0 ELSE c[Next1(s)] + f[s \ {Next1(s)}]
    BY <2>5 DEF Tallies
  <2>7. ASSUME NEW s \in D(n)
        PROVE  g[s] = IF s = {} THEN 0 ELSE c[Next1(s)] + g[s \ {Next1(s)}]
    <3>1. CASE s = {}
      <4>1. Cardinality(s) = 0 /\ 0 <= n - 1
        BY <2>2, <2>3, <2>4, <3>1, FS_EmptySet
      <4>2. s \in D(n - 1)
        BY <4>1
      <4>3. f[s] = 0
        BY <2>6, <3>1, <4>2
      <4>4. QED
        BY <3>1, <4>1, <4>3
    <3>2. CASE s # {}
      <4> DEFINE rest == s \ {Next1(s)}
      <4>1. /\ s \in SUBSET S /\ rest \in SUBSET S /\ Cardinality(s) \in Nat
            /\ Cardinality(rest) = Cardinality(s) - 1 /\ Cardinality(s) <= n
        BY <3>2, NextLess
      <4>2. rest \in D(n) /\ Cardinality(rest) <= n - 1
        BY <2>4, <4>1
      <4>3. g[rest] = f[rest]
        <5> HIDE DEF rest
        <5>1. QED
          BY <4>2
      <4>4. g[s] = c[Next1(s)] + f[rest]
        <5>1. CASE Cardinality(s) <= n - 1
          <6>1. s \in D(n - 1) /\ g[s] = f[s]
            BY <4>1, <5>1
          <6>2. QED
            BY <2>6, <3>2, <6>1
        <5>2. CASE ~(Cardinality(s) <= n - 1)
          BY <5>2
        <5>3. QED
          BY <5>1, <5>2
      <4>5. QED
        BY <3>2, <4>3, <4>4
    <3>3. QED
      BY <3>1, <3>2
  <2>8. g = [s \in D(n) |-> IF s = {} THEN 0 ELSE c[Next1(s)] + g[s \ {Next1(s)}]]
    <3>1. g = [s \in D(n) |-> g[s]]
      OBVIOUS
    <3> HIDE DEF g, D
    <3>2. QED
      BY <2>7, <3>1, Zenon
  <2>9. Tallies(g, c, S, n)
    <3> HIDE DEF g
    <3>1. QED
      BY <2>8 DEF Tallies
  <2>10. QED
    BY <2>2, <2>9
<1>2. N \in 0 .. N
  OBVIOUS
<1>3. QED
  BY <1>1, <1>2

\* The fold of the community modules, for all subsets of S.
Folds(f, c, S) ==
    f = [s \in SUBSET S |-> IF s = {} THEN 0 ELSE c[Next1(s)] + f[s \ {Next1(s)}]]

\* The sum is what some fold over the subsets gives.
LEMMA SumIsFold ==
    ASSUME NEW S, IsFiniteSet(S), NEW c
    PROVE  \E f : Folds(f, c, S) /\ SumFunctionOnSet(c, S) = f[S]
<1> DEFINE Fits(f) == f = [s \in SUBSET S |-> IF s = {} THEN 0
                     ELSE c[CHOOSE x \in s : TRUE] + f[s \ {CHOOSE x \in s : TRUE}]]
<1>1. SumFunctionOnSet(c, S) = (CHOOSE f : Fits(f))[S]
  BY DEF SumFunctionOnSet, FoldFunctionOnSet, MapThenFoldSet
<1>2. ASSUME NEW f
      PROVE  Fits(f) <=> Folds(f, c, S)
  BY DEF Folds, Next1
<1>3. {u \in SUBSET S : Cardinality(u) <= Cardinality(S)} = SUBSET S
  BY FS_Subset, Zenon
<1>4. PICK g : Tallies(g, c, S, Cardinality(S))
  BY SomeTally, FS_CardinalityType
<1>5. Folds(g, c, S)
  BY <1>3, <1>4 DEF Folds, Tallies
<1> HIDE DEF Fits
<1>6. Fits(CHOOSE f : Fits(f))
  BY <1>2, <1>5
<1>7. QED
  BY <1>1, <1>2, <1>6

\* The fold over a subset is that over the whole, restricted.
LEMMA FoldsAgree ==
    ASSUME NEW S, IsFiniteSet(S), NEW T \in SUBSET S, NEW c, NEW f, NEW g,
           Folds(f, c, S), Folds(g, c, T)
    PROVE  f[T] = g[T]
<1> DEFINE Differ == {u \in SUBSET T : f[u] # g[u]}
<1>1. Differ = {}
  <2> SUFFICES ASSUME Differ # {} PROVE FALSE
    OBVIOUS
  <2>1. PICK u \in Differ : \A v \in Differ : Cardinality(u) <= Cardinality(v)
    <3>1. IsFiniteSet(T) /\ Differ \subseteq SUBSET T
      BY FS_Subset
    <3> HIDE DEF Differ
    <3>2. QED
      BY <3>1, FewestElements
  <2>2. u \in SUBSET T /\ u \in SUBSET S /\ f[u] # g[u]
    OBVIOUS
  <2>3. /\ f[u] = IF u = {} THEN 0 ELSE c[Next1(u)] + f[u \ {Next1(u)}]
        /\ g[u] = IF u = {} THEN 0 ELSE c[Next1(u)] + g[u \ {Next1(u)}]
    BY <2>2 DEF Folds
  <2>4. u # {}
    BY <2>2, <2>3
  <2> DEFINE rest == u \ {Next1(u)}
  <2>5. rest \in SUBSET T /\ Cardinality(u) \in Nat /\ Cardinality(rest) = Cardinality(u) - 1
    BY <2>2, <2>4, NextLess
  <2>6. ~(Cardinality(u) <= Cardinality(rest))
    BY <2>5
  <2>7. rest \notin Differ
    BY <2>1, <2>6
  <2>8. f[rest] = g[rest]
    BY <2>5, <2>7
  <2>9. QED
    BY <2>2, <2>3, <2>4, <2>8
<1>2. QED
  BY <1>1

\* The recursion of the sum.
LEMMA SumStep ==
    ASSUME NEW S, IsFiniteSet(S), NEW c
    PROVE  SumFunctionOnSet(c, S)
           = IF S = {} THEN 0 ELSE c[Next1(S)] + SumFunctionOnSet(c, S \ {Next1(S)})
<1>1. PICK f : Folds(f, c, S) /\ SumFunctionOnSet(c, S) = f[S]
  BY SumIsFold
<1>2. f[S] = IF S = {} THEN 0 ELSE c[Next1(S)] + f[S \ {Next1(S)}]
  BY <1>1 DEF Folds
<1> DEFINE rest == S \ {Next1(S)}
<1>3. rest \in SUBSET S /\ IsFiniteSet(rest)
  BY FS_Subset
<1> HIDE DEF rest
<1>4. PICK g : Folds(g, c, rest) /\ SumFunctionOnSet(c, rest) = g[rest]
  BY <1>3, SumIsFold
<1>5. f[rest] = g[rest]
  BY <1>1, <1>3, <1>4, FoldsAgree
<1>6. QED
  BY <1>1, <1>2, <1>4, <1>5 DEF rest

\* c is a number at every element of S.
Costs(c, S) == \A x \in S : c[x] \in Nat

\* A sum of numbers is a number.
LEMMA SumTyped ==
    ASSUME NEW S, IsFiniteSet(S), NEW c, Costs(c, S)
    PROVE  SumFunctionOnSet(c, S) \in Nat
<1> DEFINE Bad == {u \in SUBSET S : SumFunctionOnSet(c, u) \notin Nat}
<1>1. Bad = {}
  <2> SUFFICES ASSUME Bad # {} PROVE FALSE
    OBVIOUS
  <2>1. PICK u \in Bad : \A v \in Bad : Cardinality(u) <= Cardinality(v)
    <3>1. Bad \subseteq SUBSET S
      OBVIOUS
    <3> HIDE DEF Bad
    <3>2. QED
      BY <3>1, FewestElements
  <2>2. u \in SUBSET S /\ SumFunctionOnSet(c, u) \notin Nat /\ IsFiniteSet(u)
    BY FS_Subset
  <2> DEFINE rest == u \ {Next1(u)}
  <2>3. SumFunctionOnSet(c, u) = IF u = {} THEN 0 ELSE c[Next1(u)] + SumFunctionOnSet(c, rest)
    BY <2>2, SumStep
  <2>4. u # {}
    BY <2>2, <2>3
  <2>5. /\ Next1(u) \in u /\ rest \in SUBSET S /\ Cardinality(u) \in Nat
        /\ Cardinality(rest) = Cardinality(u) - 1
    BY <2>2, <2>4, NextLess
  <2>6. ~(Cardinality(u) <= Cardinality(rest))
    BY <2>5
  <2>7. SumFunctionOnSet(c, rest) \in Nat
    BY <2>1, <2>5, <2>6
  <2>8. c[Next1(u)] \in Nat
    BY <2>2, <2>5 DEF Costs
  <2>9. QED
    BY <2>2, <2>3, <2>4, <2>7, <2>8
<1>2. QED
  BY <1>1

\* Any element may be taken first.
LEMMA SumTakes ==
    ASSUME NEW S, IsFiniteSet(S), NEW c, Costs(c, S), NEW e \in S
    PROVE  SumFunctionOnSet(c, S) = c[e] + SumFunctionOnSet(c, S \ {e})
<1> DEFINE Bad == {u \in SUBSET S : \E x \in u :
                      SumFunctionOnSet(c, u) # c[x] + SumFunctionOnSet(c, u \ {x})}
<1>1. Bad = {}
  <2> SUFFICES ASSUME Bad # {} PROVE FALSE
    OBVIOUS
  <2>1. PICK u \in Bad : \A v \in Bad : Cardinality(u) <= Cardinality(v)
    <3>1. Bad \subseteq SUBSET S
      OBVIOUS
    <3> HIDE DEF Bad
    <3>2. QED
      BY <3>1, FewestElements
  <2>2. u \in SUBSET S /\ IsFiniteSet(u)
    BY FS_Subset
  <2>3. PICK x \in u : SumFunctionOnSet(c, u) # c[x] + SumFunctionOnSet(c, u \ {x})
    BY <2>1
  <2> DEFINE y == Next1(u)
             ux == u \ {x}
             uy == u \ {y}
             both == u \ {x, y}
  <2>4. SumFunctionOnSet(c, u) = c[y] + SumFunctionOnSet(c, uy)
    BY <2>2, <2>3, SumStep
  <2>5. x # y
    BY <2>3, <2>4
  <2>6. y \in u /\ Cardinality(u) \in Nat /\ Cardinality(uy) = Cardinality(u) - 1
    BY <2>2, <2>3, NextLess
  <2>7. Cardinality(ux) = Cardinality(u) - 1
    BY <2>2, FS_RemoveElement
  <2>8. /\ ux \in SUBSET S /\ uy \in SUBSET S /\ both \in SUBSET S
        /\ x \in uy /\ y \in ux /\ uy \ {x} = both /\ ux \ {y} = both
    BY <2>2, <2>5, <2>6
  <2>9. ux \notin Bad /\ uy \notin Bad
    <3>1. ~(Cardinality(u) <= Cardinality(ux)) /\ ~(Cardinality(u) <= Cardinality(uy))
      BY <2>6, <2>7
    <3>2. QED
      BY <2>1, <3>1
  <2>10. SumFunctionOnSet(c, uy) = c[x] + SumFunctionOnSet(c, both)
    BY <2>8, <2>9
  <2>11. SumFunctionOnSet(c, ux) = c[y] + SumFunctionOnSet(c, both)
    BY <2>8, <2>9
  <2>12. c[x] \in Nat /\ c[y] \in Nat /\ SumFunctionOnSet(c, both) \in Nat
    <3>1. Costs(c, both) /\ IsFiniteSet(both)
      BY <2>8, FS_Subset DEF Costs
    <3>2. SumFunctionOnSet(c, both) \in Nat
      BY <3>1, SumTyped
    <3>3. QED
      BY <2>2, <2>6, <3>2 DEF Costs
  <2> HIDE DEF ux, uy, both, y
  <2>13. c[y] + (c[x] + SumFunctionOnSet(c, both)) = c[x] + (c[y] + SumFunctionOnSet(c, both))
    BY <2>12
  <2>14. QED
    BY <2>3, <2>4, <2>10, <2>11, <2>13 DEF ux
<1>2. S \notin Bad
  BY <1>1
<1>3. QED
  BY <1>2

\* One element more.
LEMMA SumAdds ==
    ASSUME NEW S, IsFiniteSet(S), NEW c, NEW e, e \notin S, Costs(c, S \cup {e})
    PROVE  SumFunctionOnSet(c, S \cup {e}) = c[e] + SumFunctionOnSet(c, S)
<1> DEFINE T == S \cup {e}
<1>1. IsFiniteSet(T) /\ e \in T /\ T \ {e} = S
  BY FS_AddElement
<1> HIDE DEF T
<1>2. SumFunctionOnSet(c, T) = c[e] + SumFunctionOnSet(c, T \ {e})
  BY <1>1, SumTakes DEF T
<1>3. QED
  BY <1>1, <1>2 DEF T

\* None.
LEMMA SumOfNone ==
    ASSUME NEW c
    PROVE  SumFunctionOnSet(c, {}) = 0
  BY FS_EmptySet, SumStep

\* A larger set costs no less, nor do larger costs.
LEMMA SumGrows ==
    ASSUME NEW S, IsFiniteSet(S), NEW c, NEW d, Costs(c, S), Costs(d, S),
           NEW A \in SUBSET S, \A x \in A : c[x] <= d[x]
    PROVE  SumFunctionOnSet(c, A) <= SumFunctionOnSet(d, S)
<1> DEFINE Good == {T \in SUBSET S :
                SumFunctionOnSet(c, T \cap A) <= SumFunctionOnSet(d, T)}
<1>1. {} \in Good
  <2>1. {} \cap A = {}
    OBVIOUS
  <2>2. QED
    BY <2>1, SumOfNone
<1>2. ASSUME NEW T \in SUBSET S, NEW x \in S \ T, T \in Good
      PROVE  T \cup {x} \in Good
  <2> DEFINE TA == T \cap A
             more == T \cup {x}
  <2>1. /\ IsFiniteSet(T) /\ IsFiniteSet(TA) /\ x \notin TA /\ x \in S
        /\ TA \in SUBSET S /\ more \in SUBSET S
    BY FS_Subset
  <2>2. /\ Costs(c, TA) /\ Costs(d, T) /\ Costs(c, TA \cup {x}) /\ Costs(d, T \cup {x})
        /\ c[x] \in Nat /\ d[x] \in Nat
    BY <2>1 DEF Costs
  <2>3. /\ SumFunctionOnSet(c, TA) \in Nat /\ SumFunctionOnSet(d, T) \in Nat
        /\ SumFunctionOnSet(c, TA) <= SumFunctionOnSet(d, T)
    BY <1>2, <2>1, <2>2, SumTyped
  <2>4. SumFunctionOnSet(d, more) = d[x] + SumFunctionOnSet(d, T)
    BY <2>1, <2>2, SumAdds
  <2>5. CASE x \in A
    <3>1. more \cap A = TA \cup {x} /\ c[x] <= d[x]
      BY <2>5
    <3> HIDE DEF TA, more
    <3>2. SumFunctionOnSet(c, TA \cup {x}) = c[x] + SumFunctionOnSet(c, TA)
      BY <2>1, <2>2, SumAdds
    <3>3. c[x] + SumFunctionOnSet(c, TA) <= d[x] + SumFunctionOnSet(d, T)
      BY <2>2, <2>3, <3>1
    <3>4. SumFunctionOnSet(c, more \cap A) = c[x] + SumFunctionOnSet(c, TA)
      BY <3>1, <3>2, Zenon
    <3>5. SumFunctionOnSet(c, more \cap A) <= SumFunctionOnSet(d, more)
      BY <2>4, <3>3, <3>4, Zenon
    <3>6. QED
      BY <2>1, <3>5 DEF more
  <2>6. CASE x \notin A
    <3>1. more \cap A = TA
      BY <2>6
    <3> HIDE DEF TA, more
    <3>2. SumFunctionOnSet(c, more \cap A) <= SumFunctionOnSet(d, more)
      BY <2>2, <2>3, <2>4, <3>1
    <3>3. QED
      BY <2>1, <3>2 DEF more
  <2>7. QED
    BY <2>5, <2>6
<1> HIDE DEF Good
<1>3. SUBSET S \subseteq Good
  BY <1>1, <1>2, GrownByAdding
<1>4. S \in Good
  BY <1>3
<1>5. S \cap A = A
  OBVIOUS
<1>6. QED
  BY <1>4, <1>5 DEF Good

\* Two sets together cost no more than each of them.
LEMMA SumOfUnion ==
    ASSUME NEW S, IsFiniteSet(S), NEW c, Costs(c, S), NEW A \in SUBSET S, NEW B \in SUBSET S
    PROVE  SumFunctionOnSet(c, A \cup B) <= SumFunctionOnSet(c, A) + SumFunctionOnSet(c, B)
<1> DEFINE Good == {T \in SUBSET S :
                SumFunctionOnSet(c, A \cup T) <= SumFunctionOnSet(c, A) + SumFunctionOnSet(c, T)}
<1>1. IsFiniteSet(A) /\ SumFunctionOnSet(c, A) \in Nat
  <2>1. IsFiniteSet(A) /\ Costs(c, A)
    BY FS_Subset DEF Costs
  <2>2. QED
    BY <2>1, SumTyped
<1>2. {} \in Good
  <2>1. A \cup {} = A
    OBVIOUS
  <2>2. QED
    BY <1>1, <2>1, SumOfNone
<1>3. ASSUME NEW T \in SUBSET S, NEW x \in S \ T, T \in Good
      PROVE  T \cup {x} \in Good
  <2> DEFINE AT == A \cup T
             more == T \cup {x}
  <2>1. /\ IsFiniteSet(T) /\ IsFiniteSet(AT) /\ AT \in SUBSET S /\ more \in SUBSET S
        /\ x \in S /\ x \notin T
    BY FS_Subset
  <2>2. /\ Costs(c, AT) /\ Costs(c, T) /\ Costs(c, AT \cup {x}) /\ Costs(c, T \cup {x})
        /\ c[x] \in Nat
    BY <2>1 DEF Costs
  <2>3. /\ SumFunctionOnSet(c, AT) \in Nat /\ SumFunctionOnSet(c, T) \in Nat
        /\ SumFunctionOnSet(c, AT) <= SumFunctionOnSet(c, A) + SumFunctionOnSet(c, T)
    BY <1>3, <2>1, <2>2, SumTyped
  <2>4. SumFunctionOnSet(c, more) = c[x] + SumFunctionOnSet(c, T)
    BY <2>1, <2>2, SumAdds
  <2>5. SumFunctionOnSet(c, A \cup more) <= c[x] + SumFunctionOnSet(c, AT)
    <3>1. CASE x \in A
      <4>1. A \cup more = AT
        BY <3>1
      <4> HIDE DEF AT, more
      <4>2. SumFunctionOnSet(c, AT) <= c[x] + SumFunctionOnSet(c, AT)
        BY <2>2, <2>3
      <4>3. QED
        BY <4>1, <4>2, Zenon
    <3>2. CASE x \notin A
      <4>1. A \cup more = AT \cup {x} /\ x \notin AT
        BY <2>1, <3>2
      <4> HIDE DEF AT, more
      <4>2. SumFunctionOnSet(c, AT \cup {x}) = c[x] + SumFunctionOnSet(c, AT)
        BY <2>1, <2>2, <4>1, SumAdds
      <4>3. SumFunctionOnSet(c, AT \cup {x}) <= c[x] + SumFunctionOnSet(c, AT)
        BY <2>2, <2>3, <4>2
      <4>4. QED
        BY <4>1, <4>3, Zenon
    <3>3. QED
      BY <3>1, <3>2
  <2>6. SumFunctionOnSet(c, A \cup more) \in Nat
    <3>1. IsFiniteSet(A \cup more) /\ Costs(c, A \cup more)
      BY <1>1, <2>1, FS_Subset DEF Costs
    <3> HIDE DEF more
    <3>2. QED
      BY <3>1, SumTyped
  <2> HIDE DEF AT, more
  <2>7. SumFunctionOnSet(c, A \cup more) <= SumFunctionOnSet(c, A) + SumFunctionOnSet(c, more)
    BY <1>1, <2>2, <2>3, <2>4, <2>5, <2>6
  <2>8. QED
    BY <2>1, <2>7 DEF more
<1> HIDE DEF Good
<1>4. SUBSET S \subseteq Good
  BY <1>2, <1>3, GrownByAdding
<1>5. B \in Good
  BY <1>4
<1>6. QED
  BY <1>5 DEF Good

\* A few elements cost no more than their number times the highest cost.
LEMMA SumOfFew ==
    ASSUME NEW S, IsFiniteSet(S), NEW c, Costs(c, S), NEW M \in Nat, \A x \in S : c[x] <= M
    PROVE  SumFunctionOnSet(c, S) <= Cardinality(S) * M
<1> DEFINE Good == {T \in SUBSET S : SumFunctionOnSet(c, T) <= Cardinality(T) * M}
<1>1. {} \in Good
  BY FS_EmptySet, SumOfNone
<1>2. ASSUME NEW T \in SUBSET S, NEW x \in S \ T, T \in Good
      PROVE  T \cup {x} \in Good
  <2> DEFINE more == T \cup {x}
  <2>1. IsFiniteSet(T) /\ more \in SUBSET S /\ x \in S /\ x \notin T
    BY FS_Subset
  <2>2. Costs(c, T) /\ Costs(c, T \cup {x}) /\ c[x] \in Nat /\ c[x] <= M
    BY <2>1 DEF Costs
  <2>3. Cardinality(T) \in Nat /\ Cardinality(more) = Cardinality(T) + 1
    BY <2>1, FS_CardinalityType, FS_AddElement
  <2>4. SumFunctionOnSet(c, T) \in Nat /\ SumFunctionOnSet(c, T) <= Cardinality(T) * M
    BY <1>2, <2>1, <2>2, SumTyped
  <2>5. SumFunctionOnSet(c, more) = c[x] + SumFunctionOnSet(c, T)
    BY <2>1, <2>2, SumAdds
  <2> HIDE DEF more
  <2>6. (Cardinality(T) + 1) * M = Cardinality(T) * M + M /\ Cardinality(T) * M \in Nat
    BY <2>3
  <2>7. SumFunctionOnSet(c, more) <= Cardinality(more) * M
    BY <2>2, <2>3, <2>4, <2>5, <2>6
  <2>8. QED
    BY <2>1, <2>7 DEF more
<1> HIDE DEF Good
<1>3. SUBSET S \subseteq Good
  BY <1>1, <1>2, GrownByAdding
<1>4. S \in Good
  BY <1>3
<1>5. QED
  BY <1>4 DEF Good

-------------------------------------------------------------------------------
(* The rows of a key.                                                      *)

\* What an UPDATE does, row by row.
LEMMA UpdatedRows ==
    ASSUME NEW table \in Seq(UsageTrack), NEW key \in Key, NEW r \in Response,
           NEW i \in DOMAIN table
    PROVE  LET new == Update(table, key, r) IN
           /\ DOMAIN new = DOMAIN table
           /\ new[i].key = table[i].key
           /\ \A s \in Response \ {r} : new[i].added[s] = table[i].added[s]
           /\ table[i].key # key => new[i].added[r] = table[i].added[r]
           /\ table[i].key = key => new[i].added[r] = table[i].added[r] + 1
           /\ \A s \in Response : table[i].added[s] \in Nat
<1>1. table[i] \in UsageTrack
  OBVIOUS
<1>2. table[i].added \in [Response -> Nat]
  BY <1>1 DEF UsageTrack
<1>3. DOMAIN Update(table, key, r) = DOMAIN table
  BY DEF Update
<1>4. CASE table[i].key = key
  BY <1>2, <1>3, <1>4 DEF Update
<1>5. CASE table[i].key # key
  BY <1>2, <1>3, <1>5 DEF Update
<1>6. QED
  BY <1>4, <1>5

\* What an INSERT does: the rows there are, and one more after them.
RowAdded(old, new, key, r, last) ==
    /\ last \in Nat /\ \A i \in DOMAIN old : new[i] = old[i] /\ i < last
    /\ DOMAIN new = DOMAIN old \cup {last} /\ last \notin DOMAIN old
    /\ new[last].key = key /\ new[last].added[r] = 1
    /\ \A s \in Response \ {r} : new[last].added[s] = 0

LEMMA InsertedRows ==
    ASSUME NEW table \in Seq(UsageTrack), NEW key \in Key, NEW r \in Response,
           NEW new, new = Insert(table, key, r)
    PROVE  \E last : RowAdded(table, new, key, r, last)
<1> DEFINE last == Len(table) + 1
           row == [key |-> key, added |-> [q \in Response |-> IF q = r THEN 1 ELSE 0]]
<1>1. /\ row \in UsageTrack /\ row.key = key /\ row.added[r] = 1
      /\ \A s \in Response \ {r} : row.added[s] = 0
  BY DEF UsageTrack
<1>2. new = Append(table, row)
  BY DEF Insert
<1> HIDE DEF row
<1>3. (\A i \in 1 .. Len(table) : new[i] = table[i]) /\ new[last] = row
  BY <1>1, <1>2
<1>4. /\ DOMAIN table = 1 .. Len(table) /\ Len(table) \in Nat
      /\ DOMAIN new = 1 .. last
  BY <1>1, <1>2
<1>5. /\ DOMAIN new = DOMAIN table \cup {last} /\ last \notin DOMAIN table
      /\ last \in Nat /\ \A i \in DOMAIN table : i < last
  BY <1>4
<1>6. \A i \in DOMAIN table : new[i] = table[i]
  BY <1>3, <1>4
<1> HIDE DEF last
<1>7. RowAdded(table, new, key, r, last)
  BY <1>1, <1>3, <1>5, <1>6 DEF RowAdded
<1>8. QED
  BY <1>7

\* Responses in any row of a key, and in the first of them.
BookedOn(table, key) ==
    {s \in Response : \E i \in Matching(table, key) : table[i].added[s] > 0}

FirstOn(table, key) ==
    {s \in Response : /\ Matching(table, key) # {}
                      /\ table[Min(Matching(table, key))].added[s] > 0}

\* Min, on numbers, is what its name says.
LEMMA MinIsLeast ==
    ASSUME NEW M, M \subseteq Nat, M # {}
    PROVE  Min(M) \in M /\ \A m \in M : Min(M) <= m
<1>1. \E n \in M : \A m \in M : n <= m
  BY LeastOfNat
<1>2. QED
  BY <1>1 DEF Min

\* Rows have indices; the first row of a key is one of its rows.
LEMMA RowIndices ==
    ASSUME NEW table \in Seq(UsageTrack), NEW key
    PROVE  /\ Matching(table, key) \subseteq DOMAIN table /\ DOMAIN table \subseteq Nat
           /\ Matching(table, key) # {} =>
                /\ Min(Matching(table, key)) \in Matching(table, key)
                /\ \A i \in Matching(table, key) : Min(Matching(table, key)) <= i
<1>1. DOMAIN table \subseteq Nat /\ Matching(table, key) \subseteq DOMAIN table
  BY DEF Matching
<1>2. QED
  BY <1>1, MinIsLeast

\* An UPDATE books r in all rows of its key, the first one with them.
LEMMA UpdateOn ==
    ASSUME NEW table \in Seq(UsageTrack), NEW k \in Key, NEW r \in Response, NEW key,
           NEW new, new = Update(table, k, r), Matching(table, k) # {}
    PROVE  /\ Matching(new, key) = Matching(table, key)
           /\ key = k => /\ FirstOn(new, key) = FirstOn(table, key) \cup {r}
                         /\ BookedOn(new, key) = BookedOn(table, key) \cup {r}
           /\ key # k => /\ FirstOn(new, key) = FirstOn(table, key)
                         /\ BookedOn(new, key) = BookedOn(table, key)
<1> DEFINE R == Matching(table, key)
           m == Min(R)
<1>1. \A i \in DOMAIN table :
        /\ \A s \in Response \ {r} : new[i].added[s] = table[i].added[s]
        /\ table[i].key # k => new[i].added[r] = table[i].added[r]
        /\ table[i].key = k => new[i].added[r] = table[i].added[r] + 1
        /\ \A s \in Response : table[i].added[s] \in Nat
  BY UpdatedRows
<1>2. Matching(new, key) = R
  BY UpdateMatches
<1>3. R \subseteq DOMAIN table /\ (R # {} => m \in R)
  BY RowIndices
<1>4. \A i \in R : table[i].key = key
  BY DEF Matching
<1>5. ASSUME key = k
      PROVE  /\ FirstOn(new, key) = FirstOn(table, key) \cup {r}
             /\ BookedOn(new, key) = BookedOn(table, key) \cup {r}
  <2>1. R # {}
    BY <1>5
  <2>2. ASSUME NEW i \in R, NEW s \in Response
        PROVE  new[i].added[s] > 0 <=> table[i].added[s] > 0 \/ s = r
    <3>1. i \in DOMAIN table /\ table[i].key = k
      BY <1>3, <1>4, <1>5
    <3>2. table[i].added[s] \in Nat
      BY <1>1, <3>1
    <3>3. CASE s = r
      BY <1>1, <3>1, <3>2, <3>3
    <3>4. CASE s # r
      BY <1>1, <3>1, <3>4
    <3>5. QED
      BY <3>3, <3>4
  <2> HIDE DEF R, m
  <2>3. FirstOn(new, key) = FirstOn(table, key) \cup {r}
    BY <1>2, <1>3, <2>1, <2>2 DEF FirstOn, R, m
  <2>4. BookedOn(new, key) = BookedOn(table, key) \cup {r}
    <3>1. BookedOn(new, key) = {s \in Response : \E i \in R : new[i].added[s] > 0}
      BY <1>2 DEF BookedOn
    <3>2. BookedOn(table, key) = {s \in Response : \E i \in R : table[i].added[s] > 0}
      BY DEF BookedOn, R
    <3>3. QED
      BY <2>1, <2>2, <3>1, <3>2
  <2>5. QED
    BY <2>3, <2>4
<1>6. ASSUME key # k
      PROVE  /\ FirstOn(new, key) = FirstOn(table, key)
             /\ BookedOn(new, key) = BookedOn(table, key)
  <2>1. ASSUME NEW i \in R, NEW s \in Response
        PROVE  new[i].added[s] = table[i].added[s]
    BY <1>1, <1>3, <1>4, <1>6
  <2>2. FirstOn(new, key) = FirstOn(table, key)
    BY <1>2, <1>3, <2>1 DEF FirstOn
  <2>3. BookedOn(new, key) = BookedOn(table, key)
    BY <1>2, <2>1 DEF BookedOn
  <2>4. QED
    BY <2>2, <2>3
<1>7. QED
  BY <1>2, <1>5, <1>6

\* An INSERT adds a row after all others: it is the first of its key or not its first.
LEMMA InsertOn ==
    ASSUME NEW table \in Seq(UsageTrack), NEW k \in Key, NEW r \in Response, NEW key,
           NEW new, new = Insert(table, k, r)
    PROVE  /\ key = k =>
                /\ Matching(new, key) # {}
                /\ BookedOn(new, key) = BookedOn(table, key) \cup {r}
                /\ Matching(table, key) = {} => FirstOn(new, key) = {r}
                /\ Matching(table, key) # {} => FirstOn(new, key) = FirstOn(table, key)
           /\ key # k =>
                /\ Matching(new, key) = Matching(table, key)
                /\ FirstOn(new, key) = FirstOn(table, key)
                /\ BookedOn(new, key) = BookedOn(table, key)
<1> DEFINE R == Matching(table, key)
           Q == Matching(new, key)
<1>1. PICK last : RowAdded(table, new, k, r, last)
  BY InsertedRows
<1>2. /\ \A i \in DOMAIN table : new[i] = table[i] /\ i < last
      /\ DOMAIN new = DOMAIN table \cup {last} /\ last \notin DOMAIN table /\ last \in Nat
      /\ new[last].key = k /\ new[last].added[r] = 1
      /\ \A s \in Response \ {r} : new[last].added[s] = 0
  BY <1>1 DEF RowAdded
<1>3. new \in Seq(UsageTrack)
  BY InsertCredits
<1>4. ASSUME NEW s \in Response
      PROVE  new[last].added[s] > 0 <=> s = r
  <2>1. CASE s = r
    BY <1>2, <2>1
  <2>2. CASE s # r
    BY <1>2, <2>2
  <2>3. QED
    BY <2>1, <2>2
<1>5. R \subseteq DOMAIN table
  BY RowIndices
<1>6. (key = k => Q = R \cup {last}) /\ (key # k => Q = R)
  BY <1>2 DEF Matching
<1>7. ASSUME key = k
      PROVE  BookedOn(new, key) = BookedOn(table, key) \cup {r}
  <2>1. ASSUME NEW s \in Response, s = r \/ \E i \in R : table[i].added[s] > 0
        PROVE  \E i \in Q : new[i].added[s] > 0
    <3>1. CASE s = r
      BY <1>4, <1>6, <1>7, <3>1
    <3>2. ASSUME NEW i \in R, table[i].added[s] > 0
          PROVE  \E j \in Q : new[j].added[s] > 0
      <4>1. i \in Q /\ new[i] = table[i]
        BY <1>2, <1>5, <1>6, <1>7
      <4>2. QED
        BY <3>2, <4>1
    <3>3. QED
      BY <2>1, <3>1, <3>2
  <2>2. ASSUME NEW s \in Response, NEW i \in Q, new[i].added[s] > 0, s # r
        PROVE  \E j \in R : table[j].added[s] > 0
    <3>1. i # last
      BY <1>4, <2>2
    <3>2. i \in R /\ new[i] = table[i]
      BY <1>2, <1>5, <1>6, <1>7, <3>1
    <3>3. QED
      BY <2>2, <3>2
  <2> HIDE DEF Q, R
  <2>3. QED
    BY <2>1, <2>2 DEF BookedOn, Q, R
<1>8. ASSUME R # {}, R \subseteq Q, Q \subseteq R \cup {last}
      PROVE  FirstOn(new, key) = FirstOn(table, key)
  <2>1. /\ Min(R) \in R /\ \A i \in R : Min(R) <= i
        /\ Min(Q) \in Q /\ \A i \in Q : Min(Q) <= i
    BY <1>3, <1>8, RowIndices
  <2>2. R \subseteq Nat /\ Q \subseteq Nat
    BY <1>3, RowIndices
  <2> HIDE DEF R, Q
  <2>3. Min(Q) # last
    BY <1>2, <1>5, <1>8, <2>1, <2>2
  <2>4. Min(Q) = Min(R)
    <3>1. Min(Q) \in R
      BY <1>8, <2>1, <2>3
    <3>2. Min(R) <= Min(Q) /\ Min(Q) <= Min(R)
      BY <1>8, <2>1, <3>1
    <3>3. Min(R) \in Nat /\ Min(Q) \in Nat
      BY <2>1, <2>2
    <3>4. \A a, b \in Nat : a <= b /\ b <= a => a = b
      OBVIOUS
    <3>5. QED
      BY <3>2, <3>3, <3>4, Zenon
  <2>5. new[Min(Q)] = table[Min(R)]
    BY <1>2, <1>5, <2>1, <2>4
  <2>6. Q # {}
    BY <1>8
  <2>7. QED
    BY <1>8, <2>5, <2>6 DEF FirstOn, R, Q
<1>9. ASSUME key = k, R = {}
      PROVE  FirstOn(new, key) = {r}
  <2>1. Q = {last}
    BY <1>6, <1>9
  <2>2. Min(Q) \in Q
    BY <1>3, <2>1, RowIndices
  <2>3. Min(Q) = last
    BY <2>1, <2>2
  <2> HIDE DEF R, Q
  <2>4. QED
    BY <1>4, <2>1, <2>3 DEF FirstOn, Q
<1>10. ASSUME key # k
       PROVE  /\ FirstOn(new, key) = FirstOn(table, key)
              /\ BookedOn(new, key) = BookedOn(table, key)
  <2>1. \A i \in R : new[i] = table[i]
    BY <1>2, <1>5
  <2>2. BookedOn(new, key) = BookedOn(table, key)
    BY <1>6, <1>10, <2>1 DEF BookedOn
  <2>3. CASE R # {}
    BY <1>6, <1>8, <1>10, <2>2, <2>3
  <2>4. CASE R = {}
    BY <1>6, <1>10, <2>2, <2>4 DEF FirstOn
  <2>5. QED
    BY <2>3, <2>4
<1>11. QED
  BY <1>6, <1>7, <1>8, <1>9, <1>10

-------------------------------------------------------------------------------
(* Types, the clock, dead letters and the steps that touch the table.      *)

QuotaTypes ==
    /\ TypeOK
    /\ reqPc \in [Response -> {"idle", "quota", "tenant", "upstream", "done", "died"}]
    /\ reqDay \in [Response -> Nat] /\ seen \in [Response -> Nat]

\* No row, recorder or run is ahead of the clock.
Calendar ==
    /\ \A i \in DOMAIN rows : rows[i].key.date <= today
    /\ \A r \in Response : recDay[r] <= today
    /\ \A p \in Run : runDay[p] <= today

\* Only responses whose recorder gave up are in the file or in a run's hands.
Dead == {r \in Response : pc[r] = "dead"}

LettersDead == log \subseteq Dead /\ \A p \in Run : todo[p] \subseteq Dead /\ kept[p] \subseteq Dead

\* The key's tenant and date have no row before the first of the key itself.
Leads(key) ==
    \A i \in DOMAIN rows :
        rows[i].key.tenant = key.tenant /\ rows[i].key.date = key.date =>
            \E j \in Matching(rows, key) : j <= i

\* What a row counts for each response, and the responses it counts.
Counted(row) == [r \in Response |-> row.added[r] * Cost[r]]
InRow(row) == {s \in Response : row.added[s] > 0}

\* The counted tokens are numbers, and no less than what the counted responses cost.
LEMMA CostsAreNumbers ==
    ASSUME NEW row \in UsageTrack
    PROVE  /\ Costs(Cost, Response) /\ Costs(Counted(row), Response)
           /\ InRow(row) \in SUBSET Response
           /\ \A x \in InRow(row) : Cost[x] <= Counted(row)[x]
<1>1. Cost \in [Response -> Nat] /\ row.added \in [Response -> Nat]
  BY QuotaConstantsOK DEF UsageTrack
<1>2. \A r \in Response : row.added[r] \in Nat /\ Cost[r] \in Nat
  BY <1>1
<1>3. \A a, b \in Nat : a * b \in Nat /\ (a > 0 => b <= a * b)
  <2> SUFFICES ASSUME NEW a \in Nat, NEW b \in Nat PROVE a * b \in Nat /\ (a > 0 => b <= a * b)
    OBVIOUS
  <2>1. CASE a = 0
    BY <2>1
  <2>2. CASE a > 0
    <3>1. a * b = (a - 1) * b + b /\ a - 1 \in Nat
      BY <2>2
    <3>2. (a - 1) * b \in Nat
      BY <3>1
    <3>3. QED
      BY <3>1, <3>2
  <2>3. QED
    BY <2>1, <2>2
<1>4. Costs(Cost, Response) /\ Costs(Counted(row), Response)
  BY <1>2, <1>3 DEF Costs, Counted
<1>5. ASSUME NEW x \in InRow(row)
      PROVE  Cost[x] <= Counted(row)[x]
  BY <1>2, <1>3 DEF InRow, Counted
<1>6. QED
  BY <1>4, <1>5 DEF InRow

\* One row counts at least what the responses in it cost.
LEMMA RowIsEnough ==
    ASSUME IsFiniteSet(Response), NEW row \in UsageTrack
    PROVE  TotalTokens(row) \in Nat /\ Consumed(InRow(row)) <= TotalTokens(row)
<1>1. /\ Costs(Cost, Response) /\ Costs(Counted(row), Response)
      /\ InRow(row) \in SUBSET Response
      /\ \A x \in InRow(row) : Cost[x] <= Counted(row)[x]
  BY CostsAreNumbers
<1>2. SumFunctionOnSet(Cost, InRow(row)) <= SumFunctionOnSet(Counted(row), Response)
  BY <1>1, SumGrows
<1>3. SumFunctionOnSet(Counted(row), Response) \in Nat
  BY <1>1, SumTyped
<1>4. QED
  BY <1>2, <1>3 DEF Consumed, TotalTokens, Counted

\* What checkQuota reads is no less than what the responses cost that are in the first
\* row of the key that leads.
LEMMA SeenIsEnough ==
    ASSUME IsFiniteSet(Response), rows \in Seq(UsageTrack), NEW key \in Key
    PROVE  /\ FirstUsage(key.tenant, key.date) \in Nat
           /\ Leads(key) => Consumed(FirstOn(rows, key)) <= FirstUsage(key.tenant, key.date)
<1> DEFINE D == DayRows(key.tenant, key.date)
           M == Matching(rows, key)
           F == FirstOn(rows, key)
<1>1. FirstUsage(key.tenant, key.date) = IF D = {} THEN 0 ELSE TotalTokens(rows[Min(D)])
  BY DEF FirstUsage
<1>2. M \subseteq D /\ D \subseteq DOMAIN rows /\ DOMAIN rows \subseteq Nat
  BY DEF Matching, DayRows
<1>3. CASE D = {}
  <2>1. F = {}
    BY <1>2, <1>3 DEF FirstOn
  <2>2. Consumed(F) = 0
    BY <2>1, SumOfNone DEF Consumed
  <2>3. QED
    BY <1>1, <1>3, <2>2
<1>4. CASE D # {}
  <2>1. Min(D) \in D /\ \A i \in D : Min(D) <= i
    BY <1>2, <1>4, MinIsLeast
  <2>2. rows[Min(D)] \in UsageTrack
    BY <1>2, <2>1
  <2>3. TotalTokens(rows[Min(D)]) \in Nat
    BY <2>2, RowIsEnough
  <2>4. ASSUME Leads(key)
        PROVE  Consumed(F) <= TotalTokens(rows[Min(D)])
    <3>1. PICK j \in M : j <= Min(D)
      BY <1>2, <2>1, <2>4 DEF Leads, DayRows
    <3>2. Min(M) \in M /\ \A i \in M : Min(M) <= i
      BY <1>2, <3>1, MinIsLeast
    <3>3. /\ Min(D) <= Min(M) /\ Min(M) <= j /\ j <= Min(D)
          /\ Min(D) \in Nat /\ Min(M) \in Nat /\ j \in Nat
      BY <1>2, <2>1, <3>1, <3>2
    <3>4. \A a, b, c \in Nat : a <= b /\ b <= c /\ c <= a => a = b
      OBVIOUS
    <3> HIDE DEF D, M
    <3>5. Min(D) = Min(M)
      BY <3>3, <3>4, Zenon
    <3>6. F = InRow(rows[Min(D)])
      BY <3>1, <3>5 DEF FirstOn, InRow, M
    <3>7. QED
      BY <2>2, <3>6, RowIsEnough
  <2>5. QED
    BY <1>1, <1>4, <2>3, <2>4
<1>5. QED
  BY <1>3, <1>4

\* What a recorder's step may do: take the date, give up or retry, look up in vain, update,
\* or insert.
RecorderMoves(r) ==
    /\ pc[r] \in {"start", "update", "insert", "deadletter"} /\ today' = today
    /\ runDay' = runDay
    /\ \A s \in Response \ {r} : pc'[s] = pc[s] /\ recDay'[s] = recDay[s]
    /\ \/ rows' = rows /\ pc[r] = "start" /\ pc'[r] = "update" /\ recDay'[r] = today
       \/ /\ recDay'[r] = recDay[r] /\ rows' = rows
          /\ pc'[r] \notin {"update", "insert"}
       \/ /\ recDay'[r] = recDay[r] /\ rows' = rows /\ Matching(rows, KeyFor(r, recDay[r])) = {}
          /\ pc[r] = "update" /\ pc'[r] = "insert"
       \/ /\ recDay'[r] = recDay[r] /\ Matching(rows, KeyFor(r, recDay[r])) # {}
          /\ pc[r] = "update" /\ pc'[r] \notin {"update", "insert"}
          /\ rows' = Update(rows, KeyFor(r, recDay[r]), r)
       \/ /\ recDay'[r] = recDay[r] /\ pc[r] = "insert" /\ pc'[r] \notin {"update", "insert"}
          /\ rows' = Insert(rows, KeyFor(r, recDay[r]), r)

\* `continue` and the dead letter leave the other recorders alone.
LEMMA NextAttemptMoves ==
    ASSUME TypeOK, NEW r \in Response, NextAttempt(r)
    PROVE  /\ pc'[r] \notin {"update", "insert"}
           /\ \A s \in Response \ {r} : pc'[s] = pc[s]
<1>1. pc' = [pc EXCEPT ![r] = "deadletter"] \/ pc' = [pc EXCEPT ![r] = "start"]
  BY NextAttemptType
<1>2. pc = [q \in Response |-> pc[q]]
  BY DEF TypeOK
<1>3. QED
  BY <1>1, <1>2

\* Every step of a recorder is one of these.
LEMMA RecorderKinds ==
    ASSUME TypeOK, NEW r \in Response, Recorder(r)
    PROVE  RecorderMoves(r)
<1> DEFINE key == KeyFor(r, recDay[r])
<1>1. pc = [q \in Response |-> pc[q]] /\ recDay = [q \in Response |-> recDay[q]]
  BY DEF TypeOK
<1>2. CASE BeginAttempt(r)
  BY <1>1, <1>2 DEF BeginAttempt, RecorderMoves, dbVars, runVars
<1>3. CASE UpdateUsage(r)
  <2>1. pc[r] = "update" /\ today' = today /\ recDay' = recDay /\ runDay' = runDay
    BY <1>3 DEF UpdateUsage, runVars
  <2>2. CASE /\ Matching(rows, key) # {} /\ rows' = Update(rows, key, r)
             /\ pc' = [pc EXCEPT ![r] = "recorded"]
    BY <1>1, <2>1, <2>2 DEF RecorderMoves
  <2>3. CASE Matching(rows, key) # {} /\ rows' = Update(rows, key, r) /\ NextAttempt(r)
    BY <2>1, <2>3, NextAttemptMoves DEF RecorderMoves
  <2>4. CASE Matching(rows, key) = {} /\ rows' = rows /\ pc' = [pc EXCEPT ![r] = "insert"]
    BY <1>1, <2>1, <2>4 DEF RecorderMoves
  <2>5. CASE NextAttempt(r) /\ rows' = rows
    BY <2>1, <2>5, NextAttemptMoves DEF RecorderMoves
  <2>6. QED
    BY <1>3, <2>2, <2>3, <2>4, <2>5 DEF UpdateUsage, Apply
<1>4. CASE CreateUsage(r)
  <2>1. pc[r] = "insert" /\ today' = today /\ recDay' = recDay /\ runDay' = runDay
    BY <1>4 DEF CreateUsage, runVars
  <2>2. CASE rows' = Insert(rows, key, r) /\ pc' = [pc EXCEPT ![r] = "recorded"]
    BY <1>1, <2>1, <2>2 DEF RecorderMoves
  <2>3. CASE rows' = Insert(rows, key, r) /\ NextAttempt(r)
    BY <2>1, <2>3, NextAttemptMoves DEF RecorderMoves
  <2>4. CASE NextAttempt(r) /\ rows' = rows
    BY <2>1, <2>4, NextAttemptMoves DEF RecorderMoves
  <2>5. QED
    BY <1>4, <2>2, <2>3, <2>4 DEF CreateUsage, Apply
<1>5. CASE writeUsageDeadLetter(r)
  <2>1. /\ pc[r] = "deadletter" /\ today' = today /\ rows' = rows /\ recDay' = recDay
        /\ runDay' = runDay
        /\ pc' = [pc EXCEPT ![r] = "dead"] \/ pc' = [pc EXCEPT ![r] = "lost"]
    BY <1>5 DEF writeUsageDeadLetter, dbVars, runVars
  <2>2. QED
    BY <1>1, <2>1 DEF RecorderMoves
<1>6. QED
  BY <1>2, <1>3, <1>4, <1>5 DEF Recorder

\* What a run's step may do: take the date, or book one of its lines where there is a row.
ReplayMoves(p) ==
    /\ pc' = pc /\ recDay' = recDay /\ today' = today
    /\ \A q \in Run : runDay'[q] \in {runDay[q], today}
    /\ \/ rows' = rows
       \/ \E r \in todo[p] : LET key == KeyFor(r, runDay[p]) IN
            Matching(rows, key) # {} /\ rows' = Update(rows, key, r)

LEMMA ReplayKinds ==
    ASSUME TypeOK, NEW p \in Run, Reprocess(p)
    PROVE  ReplayMoves(p)
<1>1. runDay = [q \in Run |-> runDay[q]]
  BY DEF TypeOK
<1>2. CASE ReadLog(p) \/ NextLine(p)
  BY <1>1, <1>2 DEF ReadLog, NextLine, ReplayMoves, dbVars, recVars
<1>3. CASE ReplayLine(p)
  <2>1. PICK r \in todo[p] : ReplayLine(p)!2!(r)
    BY <1>3 DEF ReplayLine
  <2>2. pc' = pc /\ recDay' = recDay /\ today' = today /\ runDay' = runDay
    BY <1>3 DEF ReplayLine, recVars
  <2>3. \/ rows' = rows
        \/ /\ Matching(rows, KeyFor(r, runDay[p])) # {}
           /\ rows' = Update(rows, KeyFor(r, runDay[p]), r)
    BY <2>1 DEF Apply
  <2>4. QED
    BY <2>2, <2>3 DEF ReplayMoves
<1>4. CASE TruncateLog(p) \/ RewriteLog(p)
  BY <1>4 DEF TruncateLog, RewriteLog, ReplayMoves, dbVars, recVars
<1>5. QED
  BY <1>2, <1>3, <1>4 DEF Reprocess

\* To the recorder, every step is one of its own.
LEMMA UsageSteps ==
    ASSUME [QuotaNext]_allVars
    PROVE  [Next]_vars
<1>1. ASSUME NEW r \in Response, Authenticate(r) \/ ReadUsage(r) \/ AdmitOrDeny(r) \/ UpstreamFails(r)
      PROVE  vars' = vars
  BY <1>1 DEF Authenticate, ReadUsage, AdmitOrDeny, UpstreamFails, vars, dbVars, recVars, runVars, fileVars
<1>2. ASSUME NEW r \in Response, UpstreamAnswers(r)
      PROVE  [Next]_vars
  <2>1. vars' = vars \/ recordUsage(r)
    BY <1>2 DEF UpstreamAnswers, vars, dbVars, recVars, runVars, fileVars
  <2>2. QED
    BY <2>1 DEF Next
<1>3. ASSUME NEW r \in Response, EstimateStreamUsage(r)
      PROVE  Next
  BY <1>3 DEF EstimateStreamUsage, Next
<1>4. ASSUME NEW r \in Response, Recorder(r)
      PROVE  Next
  BY <1>4 DEF Next
<1>5. ASSUME NEW p \in Run, Reprocess(p)
      PROVE  Next
  BY <1>5 DEF Next
<1>6. CASE Crash \/ Midnight \/ DbDown \/ DbUp
  BY <1>6 DEF Next
<1>7. CASE UNCHANGED allVars
  BY <1>7 DEF allVars
<1>8. QED
  BY <1>1, <1>2, <1>3, <1>4, <1>5, <1>6, <1>7 DEF QuotaNext, Handler

\* Types are preserved.
LEMMA QuotaTypesStep ==
    ASSUME IsFiniteSet(Response), QuotaTypes, [QuotaNext]_allVars
    PROVE  QuotaTypes'
<1> DEFINE Labels == {"idle", "quota", "tenant", "upstream", "done", "died"}
           Typed == /\ reqPc \in [Response -> Labels] /\ seen \in [Response -> Nat]
                    /\ reqDay \in [Response -> Nat]
<1>1. TypeOK'
  BY UsageSteps, TypeNext DEF QuotaTypes
<1>2. /\ reqPc \in [Response -> Labels] /\ seen \in [Response -> Nat]
      /\ reqDay \in [Response -> Nat] /\ today \in Nat
  BY DEF QuotaTypes, TypeOK
<1>3. ASSUME NEW r \in Response, ReadUsage(r)
      PROVE  Typed'
  <2>1. reqPc' \in [Response -> Labels]
    BY <1>2, <1>3 DEF ReadUsage, Answer, GoTo
  <2>2. KeyFor(r, reqDay[r]) \in Key /\ rows \in Seq(UsageTrack)
    BY <1>2, KeyForType DEF QuotaTypes, TypeOK
  <2>3. KeyFor(r, reqDay[r]).tenant = TenantOf[r] /\ KeyFor(r, reqDay[r]).date = reqDay[r]
    BY DEF KeyFor
  <2>4. FirstUsage(TenantOf[r], reqDay[r]) \in Nat
    BY <2>2, <2>3, SeenIsEnough
  <2>5. /\ seen' = seen \/ seen' = [seen EXCEPT ![r] = FirstUsage(TenantOf[r], reqDay[r])]
        /\ reqDay' = reqDay
    BY <1>3 DEF ReadUsage
  <2>6. QED
    BY <1>2, <2>1, <2>4, <2>5
<1>4. ASSUME NEW r \in Response,
             Authenticate(r) \/ AdmitOrDeny(r) \/ UpstreamAnswers(r) \/ UpstreamFails(r)
      PROVE  Typed'
  BY <1>2, <1>4 DEF Authenticate, AdmitOrDeny, UpstreamAnswers, UpstreamFails, Answer, GoTo
<1>5. ASSUME HandlersDie
      PROVE  Typed'
  BY <1>2, <1>5 DEF HandlersDie
<1>6. ASSUME UNCHANGED reqVars
      PROVE  Typed'
  BY <1>2, <1>6 DEF reqVars
<1>7. \/ \E r \in Response :
          Authenticate(r) \/ AdmitOrDeny(r) \/ UpstreamAnswers(r) \/ UpstreamFails(r)
      \/ \E r \in Response : ReadUsage(r)
      \/ HandlersDie
      \/ UNCHANGED reqVars
  BY DEF QuotaNext, Handler, allVars, EstimateStreamUsage
<1> HIDE DEF Labels, Typed
<1>8. Typed'
  BY <1>3, <1>4, <1>5, <1>6, <1>7
<1>9. QED
  BY <1>1, <1>8 DEF QuotaTypes, Labels, Typed

\* The table changes only at a recorder's or a run's statement, the clock at midnight.
LEMMA RowSteps ==
    ASSUME [QuotaNext]_allVars
    PROVE  \/ rows' = rows /\ today' = today /\ recDay' = recDay /\ runDay' = runDay
           \/ \E r \in Response : Recorder(r) /\ UNCHANGED reqVars
           \/ \E p \in Run : Reprocess(p) /\ UNCHANGED reqVars
           \/ Midnight /\ UNCHANGED reqVars
<1> DEFINE Still == rows' = rows /\ today' = today /\ recDay' = recDay /\ runDay' = runDay
<1>1. ASSUME NEW r \in Response, Authenticate(r) \/ ReadUsage(r) \/ AdmitOrDeny(r)
                                 \/ UpstreamAnswers(r) \/ UpstreamFails(r)
      PROVE  Still
  BY <1>1 DEF Authenticate, ReadUsage, AdmitOrDeny, UpstreamAnswers, UpstreamFails,
              recordUsage, vars, dbVars, recVars, runVars
<1>2. ASSUME Crash PROVE Still
  BY <1>2 DEF Crash, Die, dbVars
<1>3. ASSUME DbDown \/ DbUp \/ UNCHANGED allVars
      PROVE  Still
  BY <1>3 DEF DbDown, DbUp, allVars, vars, dbVars, recVars, runVars
<1>4. QED
  BY <1>1, <1>2, <1>3 DEF QuotaNext, Handler, EstimateStreamUsage

\* Rows stay where they are and keep their keys; a new one has a date the clock has seen.
LEMMA RowsGrow ==
    ASSUME QuotaTypes, Calendar, [QuotaNext]_allVars
    PROVE  /\ \A i \in DOMAIN rows : i \in DOMAIN rows' /\ rows'[i].key = rows[i].key
           /\ \A i \in DOMAIN rows' \ DOMAIN rows :
                i \in Nat /\ rows'[i].key.date <= today /\ \A j \in DOMAIN rows : j < i
<1> DEFINE Grow == /\ \A i \in DOMAIN rows : i \in DOMAIN rows' /\ rows'[i].key = rows[i].key
                   /\ \A i \in DOMAIN rows' \ DOMAIN rows :
                        i \in Nat /\ rows'[i].key.date <= today /\ \A j \in DOMAIN rows : j < i
<1>1. /\ TypeOK /\ rows \in Seq(UsageTrack)
      /\ \A r \in Response : recDay[r] \in Nat
      /\ \A p \in Run : runDay[p] \in Nat /\ todo[p] \subseteq Response
  BY DEF QuotaTypes, TypeOK
<1>2. CASE rows' = rows
  BY <1>2
<1>3. ASSUME NEW r \in Response, NEW day \in Nat, rows' = Update(rows, KeyFor(r, day), r)
      PROVE  Grow
  <2>1. KeyFor(r, day) \in Key
    BY KeyForType
  <2>2. DOMAIN rows' = DOMAIN rows
    BY <1>3 DEF Update
  <2>3. \A i \in DOMAIN rows : rows'[i].key = rows[i].key
    BY <1>1, <1>3, <2>1, UpdatedRows
  <2>4. QED
    BY <2>2, <2>3
<1>4. ASSUME NEW r \in Response, rows' = Insert(rows, KeyFor(r, recDay[r]), r)
      PROVE  Grow
  <2>1. KeyFor(r, recDay[r]) \in Key
    BY <1>1, KeyForType
  <2>2. PICK last : RowAdded(rows, rows', KeyFor(r, recDay[r]), r, last)
    BY <1>1, <1>4, <2>1, InsertedRows
  <2>3. /\ DOMAIN rows' = DOMAIN rows \cup {last}
        /\ \A i \in DOMAIN rows : rows'[i] = rows[i] /\ i < last
        /\ last \in Nat /\ rows'[last].key.date = recDay[r]
    BY <2>2 DEF RowAdded, KeyFor
  <2>4. QED
    BY <2>3 DEF Calendar
<1>5. ASSUME NEW r \in Response, Recorder(r)
      PROVE  Grow
  <2>1. RecorderMoves(r) /\ recDay[r] \in Nat
    BY <1>1, <1>5, RecorderKinds
  <2>2. QED
    BY <1>2, <1>3, <1>4, <2>1 DEF RecorderMoves
<1>6. ASSUME NEW p \in Run, Reprocess(p)
      PROVE  Grow
  <2>1. ReplayMoves(p)
    BY <1>1, <1>6, ReplayKinds
  <2>2. QED
    BY <1>1, <1>2, <1>3, <2>1 DEF ReplayMoves
<1>7. CASE Midnight
  BY <1>2, <1>7 DEF Midnight
<1>8. QED
  BY <1>2, <1>5, <1>6, <1>7, RowSteps

\* Nobody books ahead of the clock.
LEMMA CalendarStep ==
    ASSUME QuotaTypes, Calendar, [QuotaNext]_allVars
    PROVE  Calendar'
<1>1. /\ TypeOK /\ rows \in Seq(UsageTrack) /\ today \in Nat
      /\ \A r \in Response : recDay[r] \in Nat
      /\ \A p \in Run : runDay[p] \in Nat
  BY DEF QuotaTypes, TypeOK
<1>2. \A i \in DOMAIN rows : rows[i].key.date \in Nat
  <2> SUFFICES ASSUME NEW i \in DOMAIN rows PROVE rows[i].key.date \in Nat
    OBVIOUS
  <2>1. rows[i] \in UsageTrack
    BY <1>1
  <2>2. QED
    BY <2>1 DEF UsageTrack, Key
<1>3. \A i \in DOMAIN rows' : rows'[i].key.date <= today
  <2>1. \A i \in DOMAIN rows : rows[i].key.date <= today
    BY DEF Calendar
  <2>2. QED
    BY <2>1, RowsGrow
<1>4. ASSUME today' = today, \A r \in Response : recDay'[r] \in {recDay[r], today},
             \A p \in Run : runDay'[p] \in {runDay[p], today}
      PROVE  Calendar'
  <2>1. today <= today
    BY <1>1
  <2>2. (\A r \in Response : recDay[r] <= today) /\ (\A p \in Run : runDay[p] <= today)
    BY DEF Calendar
  <2>3. (\A r \in Response : recDay'[r] <= today) /\ (\A p \in Run : runDay'[p] <= today)
    BY <1>4, <2>1, <2>2
  <2>4. QED
    BY <1>3, <1>4, <2>3 DEF Calendar
<1>5. ASSUME NEW r \in Response, Recorder(r)
      PROVE  Calendar'
  <2>1. RecorderMoves(r)
    BY <1>1, <1>5, RecorderKinds
  <2>2. \A s \in Response : recDay'[s] \in {recDay[s], today}
    BY <2>1 DEF RecorderMoves
  <2>3. QED
    BY <1>4, <2>1, <2>2 DEF RecorderMoves
<1>6. ASSUME NEW p \in Run, Reprocess(p)
      PROVE  Calendar'
  <2>1. ReplayMoves(p)
    BY <1>1, <1>6, ReplayKinds
  <2>2. QED
    BY <1>4, <2>1 DEF ReplayMoves
<1>7. CASE Midnight
  <2>1. today' = today + 1 /\ rows' = rows /\ recDay' = recDay /\ runDay' = runDay
    BY <1>7 DEF Midnight, recVars, runVars
  <2>2. QED
    BY <1>1, <1>2, <2>1 DEF Calendar
<1>8. QED
  BY <1>4, <1>5, <1>6, <1>7, RowSteps

\* Dead stays dead, and the file and the runs hold nothing else.
LEMMA LettersStep ==
    ASSUME TypeOK, LettersDead, [Next]_vars
    PROVE  Dead \subseteq Dead' /\ LettersDead'
<1>1. /\ pc = [q \in Response |-> pc[q]] /\ todo = [p \in Run |-> todo[p]]
      /\ kept = [p \in Run |-> kept[p]]
  BY DEF TypeOK
<1>2. Dead \subseteq Dead'
  <2> SUFFICES ASSUME NEW r \in Response, pc[r] = "dead" PROVE pc'[r] = "dead"
    BY DEF Dead
  <2> USE DEF recVars, vars
  <2>1. ASSUME NEW s \in Response, recordUsage(s) \/ Recorder(s) PROVE pc'[r] = "dead"
    BY <1>1, <2>1 DEF recordUsage, Recorder, BeginAttempt, UpdateUsage, CreateUsage,
                      writeUsageDeadLetter, NextAttempt
  <2>2. ASSUME NEW p \in Run, Reprocess(p) PROVE pc' = pc
    BY <2>2 DEF Reprocess, ReadLog, NextLine, ReplayLine, TruncateLog, RewriteLog
  <2>3. CASE Crash
    BY <2>3 DEF Crash, Die, InFlight
  <2>4. QED
    BY <2>1, <2>2, <2>3 DEF Next, Midnight, DbDown, DbUp
<1> SUFFICES LettersDead'
  BY <1>2
<1>3. ASSUME log' \subseteq Dead', \A p \in Run : todo'[p] \subseteq Dead' /\ kept'[p] \subseteq Dead'
      PROVE  LettersDead'
  BY <1>3 DEF LettersDead
<1>4. ASSUME log' = log, todo' = todo, kept' = kept PROVE LettersDead'
  BY <1>2, <1>4 DEF LettersDead
<1> USE DEF runVars, fileVars
<1>5. ASSUME NEW r \in Response,
             recordUsage(r) \/ BeginAttempt(r) \/ UpdateUsage(r) \/ CreateUsage(r)
      PROVE  LettersDead'
  BY <1>4, <1>5 DEF recordUsage, BeginAttempt, UpdateUsage, CreateUsage
<1>6. ASSUME NEW r \in Response, writeUsageDeadLetter(r) PROVE LettersDead'
  <2>1. todo' = todo /\ kept' = kept
    BY <1>6 DEF writeUsageDeadLetter
  <2>2. log' \subseteq Dead'
    <3>1. CASE log' = log
      BY <1>2, <3>1 DEF LettersDead
    <3>2. CASE log' = log \cup {r} /\ pc' = [pc EXCEPT ![r] = "dead"]
      BY <1>1, <1>2, <3>2 DEF LettersDead, Dead
    <3>3. QED
      BY <1>6, <3>1, <3>2 DEF writeUsageDeadLetter
  <2>3. QED
    BY <1>2, <2>1, <2>2 DEF LettersDead
<1>7. ASSUME NEW p \in Run, ReadLog(p) \/ NextLine(p) PROVE LettersDead'
  <2>1. log' = log /\ \A q \in Run : /\ todo'[q] \in {todo[q], log}
                                     /\ kept'[q] \in {kept[q], {}}
    BY <1>1, <1>7 DEF ReadLog, NextLine
  <2>2. QED
    BY <1>2, <1>3, <2>1 DEF LettersDead
<1>8. ASSUME NEW p \in Run, ReplayLine(p) PROVE LettersDead'
  <2>1. PICK r \in todo[p] : ReplayLine(p)!2!(r)
    BY <1>8 DEF ReplayLine
  <2>2. log' = log
    BY <1>8 DEF ReplayLine
  <2>3. \A q \in Run : todo'[q] \subseteq todo[q]
    BY <1>1, <2>1
  <2>4. kept' = kept \/ kept' = [kept EXCEPT ![p] = @ \cup {r}]
    BY <2>1
  <2>5. \A q \in Run : kept'[q] \subseteq kept[q] \cup Dead
    BY <1>1, <2>4 DEF LettersDead
  <2>6. QED
    BY <1>2, <1>3, <2>2, <2>3, <2>5 DEF LettersDead
<1>9. ASSUME NEW p \in Run, TruncateLog(p) \/ RewriteLog(p) PROVE LettersDead'
  <2>1. todo' = todo /\ kept' = kept
    BY <1>9 DEF TruncateLog, RewriteLog
  <2>2. log' \subseteq log \cup kept[p]
    BY <1>9 DEF TruncateLog, RewriteLog
  <2>3. QED
    BY <1>2, <1>3, <2>1, <2>2 DEF LettersDead
<1>10. CASE Crash
  BY <1>4, <1>10 DEF Crash, Die
<1>11. CASE Midnight \/ DbDown \/ DbUp \/ UNCHANGED vars
  BY <1>4, <1>11 DEF Midnight, DbDown, DbUp, vars
<1>12. QED
  BY <1>5, <1>6, <1>7, <1>8, <1>9, <1>10, <1>11 DEF Next, Recorder, Reprocess

\* A key that leads after a step has led before it.
LEMMA LeadStays ==
    ASSUME QuotaTypes, Calendar, [QuotaNext]_allVars, NEW key, Leads(key)'
    PROVE  Leads(key)
<1> SUFFICES ASSUME NEW i \in DOMAIN rows,
                    rows[i].key.tenant = key.tenant, rows[i].key.date = key.date
             PROVE  \E j \in Matching(rows, key) : j <= i
  BY DEF Leads
<1>1. i \in DOMAIN rows' /\ rows'[i].key = rows[i].key
  BY RowsGrow
<1>2. PICK j \in Matching(rows', key) : j <= i
  BY <1>1 DEF Leads
<1>3. j \in DOMAIN rows' /\ rows'[j].key = key
  BY <1>2 DEF Matching
<1>4. j \in DOMAIN rows
  <2> SUFFICES ASSUME j \notin DOMAIN rows PROVE FALSE
    OBVIOUS
  <2>1. j \in Nat /\ i < j
    BY <1>3, RowsGrow
  <2>2. i \in Nat
    BY DEF QuotaTypes, TypeOK
  <2>3. QED
    BY <1>2, <2>1, <2>2
<1>5. rows[j].key = key
  BY <1>3, <1>4, RowsGrow
<1>6. QED
  BY <1>2, <1>4, <1>5 DEF Matching

-------------------------------------------------------------------------------
(* Why the overshoot is bounded.                                           *)

\* Recorders about to insert a row of a key, those that hold its date, requests the check
\* let pass or will whatever the key holds, and those whose tokens may still reach its rows.
Inserting(key) == {r \in Response : pc[r] = "insert" /\ KeyFor(r, recDay[r]) = key}

Dated(key) == {r \in Response : pc[r] \in {"update", "insert"} /\ KeyFor(r, recDay[r]) = key}

Admitted(t) ==
    {r \in Response : /\ TenantOf[r] = t
                      /\ \/ reqPc[r] = "upstream" \/ r \in InFlight
                         \/ reqPc[r] = "tenant" /\ ~WouldExceed(r)}

\* Requests about to be checked against a day that is over.
Stale(t) == {r \in Response : TenantOf[r] = t /\ reqPc[r] = "quota" /\ reqDay[r] # today}

Reach(key) ==
    IF key.date = today THEN Admitted(key.tenant) \cup Stale(key.tenant) ELSE Dated(key)

\* At most MaxOpen requests are open.
OpenBounded == Cardinality(Open) <= MaxOpen

\* The first row holds, or will, what it held when a check last let a request pass,
\* MaxOpen responses more, and dead letters.
Covered(key) ==
    Leads(key) =>
        \E F, O \in SUBSET Response :
            /\ Cardinality(O) <= MaxOpen
            /\ F # {} => Consumed(F) + MinEstimate <= QuotaDaily[key.tenant]
            /\ FirstOn(rows, key) \cup Reach(key) \subseteq F \cup O \cup Dead

\* Once a key has a row nobody starts to insert another one: those that will were open
\* when the first was inserted.
Elsewhere(key) == (BookedOn(rows, key) \ FirstOn(rows, key)) \ Dead

RowsApart(key) ==
    Matching(rows, key) # {} => Cardinality(Elsewhere(key) \cup Inserting(key)) <= MaxOpen - 1

\* A tenant with tokens on its account has a quota that admits some request.
Tokens(key) == (BookedOn(rows, key) \ Dead) \cup Admitted(key.tenant)

Affordable(key) == Tokens(key) # {} => MinEstimate <= QuotaDaily[key.tenant]

Bounded(key) == Covered(key) /\ RowsApart(key) /\ Affordable(key)

OvershootInv ==
    /\ QuotaTypes /\ Calendar /\ LettersDead /\ OpenBounded
    /\ \A key \in Key : Bounded(key)

\* A step after which no response can reach a row it could not reach before, but for
\* the dead.
LEMMA NothingNew ==
    ASSUME NEW key, Leads(key)' => Leads(key), Dead \subseteq Dead',
           FirstOn(rows, key)' \cup Reach(key)' \subseteq FirstOn(rows, key) \cup Reach(key) \cup Dead',
           Tokens(key)' \subseteq Tokens(key)
    PROVE  /\ Covered(key) => Covered(key)'
           /\ Affordable(key) => Affordable(key)'
<1>1. ASSUME Covered(key), Leads(key)' PROVE Covered(key)'
  <2>1. PICK F \in SUBSET Response, O \in SUBSET Response :
          /\ Cardinality(O) <= MaxOpen
          /\ F # {} => Consumed(F) + MinEstimate <= QuotaDaily[key.tenant]
          /\ FirstOn(rows, key) \cup Reach(key) \subseteq F \cup O \cup Dead
    BY <1>1 DEF Covered
  <2>2. FirstOn(rows, key)' \cup Reach(key)' \subseteq F \cup O \cup Dead'
    BY <2>1
  <2>3. QED
    BY <2>1, <2>2 DEF Covered, MinEstimate, estimatedTokens, Consumed
<1>2. ASSUME Affordable(key) PROVE Affordable(key)'
  BY <1>2 DEF Affordable, MinEstimate, estimatedTokens
<1>3. QED
  BY <1>1, <1>2 DEF Covered

\* No more rows to come beside the first, or one fewer than requests are open.
LEMMA NoMoreRows ==
    ASSUME IsFiniteSet(Response), NEW key, RowsApart(key), MaxOpen \in Int,
           \/ Matching(rows', key) = {}
           \/ /\ Matching(rows, key) # {}
              /\ Elsewhere(key)' \cup Inserting(key)' \subseteq Elsewhere(key) \cup Inserting(key)
           \/ \E r \in Open : OpenBounded /\ Elsewhere(key)' \cup Inserting(key)' \subseteq Open \ {r}
    PROVE  RowsApart(key)'
<1> DEFINE old == Elsewhere(key) \cup Inserting(key)
           new == Elsewhere(key)' \cup Inserting(key)'
<1>1. /\ IsFiniteSet(old) /\ IsFiniteSet(Open)
      /\ Cardinality(old) \in Nat /\ Cardinality(Open) \in Nat
  <2>1. old \subseteq Response /\ Open \subseteq Response
    BY DEF Elsewhere, Inserting, BookedOn, Open, InFlight
  <2> HIDE DEF old
  <2>2. QED
    BY <2>1, FS_Subset, FS_CardinalityType
<1>2. ASSUME Matching(rows, key) # {}, new \subseteq old
      PROVE  RowsApart(key)'
  <2>1. Cardinality(old) <= MaxOpen - 1
    BY <1>2 DEF RowsApart
  <2> HIDE DEF old, new
  <2>2. IsFiniteSet(new) /\ Cardinality(new) <= Cardinality(old)
    BY <1>1, <1>2, FS_Subset
  <2>3. Cardinality(new) \in Nat
    BY <2>2, FS_CardinalityType
  <2>4. Cardinality(new) <= MaxOpen - 1
    BY <1>1, <2>1, <2>2, <2>3
  <2>5. QED
    BY <2>4 DEF RowsApart, new
<1>3. ASSUME NEW r \in Open, OpenBounded, new \subseteq Open \ {r}
      PROVE  RowsApart(key)'
  <2> DEFINE others == Open \ {r}
  <2>1. IsFiniteSet(others) /\ Cardinality(others) = Cardinality(Open) - 1
    BY <1>1, FS_RemoveElement
  <2> HIDE DEF new, others
  <2>2. IsFiniteSet(new) /\ Cardinality(new) <= Cardinality(others)
    BY <1>3, <2>1, FS_Subset DEF others
  <2>3. Cardinality(new) \in Nat
    BY <2>2, FS_CardinalityType
  <2>4. Cardinality(new) <= MaxOpen - 1
    BY <1>1, <1>3, <2>1, <2>2, <2>3 DEF OpenBounded
  <2>5. QED
    BY <2>4 DEF RowsApart, new
<1>4. CASE Matching(rows', key) = {}
  BY <1>4 DEF RowsApart
<1>5. QED
  BY <1>2, <1>3, <1>4

\* Every part of the invariant about one key, after a step that books nothing and starts
\* nothing.
LEMMA QuietStep ==
    ASSUME IsFiniteSet(Response), OvershootInv, NEW key \in Key, rows' = rows,
           Dead \subseteq Dead', Reach(key)' \subseteq Reach(key),
           Admitted(key.tenant)' \subseteq Admitted(key.tenant),
           Inserting(key)' \subseteq Inserting(key)
    PROVE  Bounded(key)'
<1>1. /\ FirstOn(rows, key)' = FirstOn(rows, key) /\ BookedOn(rows, key)' = BookedOn(rows, key)
      /\ Leads(key)' = Leads(key)
  BY DEF Leads
<1>2. Elsewhere(key)' \subseteq Elsewhere(key) /\ Tokens(key)' \subseteq Tokens(key)
  BY <1>1 DEF Elsewhere, Tokens
<1>3. Covered(key) /\ RowsApart(key) /\ Affordable(key) /\ MaxOpen \in Int
  BY QuotaConstantsOK DEF OvershootInv, Bounded
<1>4. Covered(key)' /\ Affordable(key)'
  BY <1>1, <1>2, <1>3, NothingNew
<1>5. \/ Matching(rows', key) = {}
      \/ /\ Matching(rows, key) # {}
         /\ Elsewhere(key)' \cup Inserting(key)' \subseteq Elsewhere(key) \cup Inserting(key)
  BY <1>2
<1>6. RowsApart(key)'
  BY <1>3, <1>5, NoMoreRows
<1>7. QED
  BY <1>4, <1>6 DEF Bounded

\* What one request does leaves the others where they are.
LEMMA OthersStay ==
    ASSUME QuotaTypes, NEW r \in Response,
           Authenticate(r) \/ ReadUsage(r) \/ AdmitOrDeny(r) \/ UpstreamAnswers(r) \/ UpstreamFails(r)
    PROVE  /\ rows' = rows /\ today' = today /\ recDay' = recDay
           /\ \A s \in Response \ {r} : /\ reqPc'[s] = reqPc[s] /\ pc'[s] = pc[s]
                                        /\ seen'[s] = seen[s] /\ reqDay'[s] = reqDay[s]
           /\ reqPc'[r] \in {"quota", "tenant", "upstream", "done"}
           /\ reqPc'[r] = "quota" =>
                /\ reqPc[r] = "idle" /\ Cardinality(Open) < MaxOpen /\ reqDay'[r] = today
           /\ reqPc'[r] = "tenant" =>
                /\ reqPc[r] = "quota" /\ seen'[r] = FirstUsage(TenantOf[r], reqDay[r])
           /\ reqPc'[r] = "upstream" =>
                /\ reqPc[r] = "tenant" /\ ~WouldExceed(r) /\ seen'[r] = seen[r]
           /\ pc'[r] = pc[r] \/ (reqPc[r] = "upstream" /\ pc[r] = "idle" /\ pc'[r] = "start")
<1>1. /\ reqPc \in [Response -> {"idle", "quota", "tenant", "upstream", "done", "died"}]
      /\ seen \in [Response -> Nat] /\ reqDay \in [Response -> Nat]
      /\ pc = [q \in Response |-> pc[q]]
  BY DEF QuotaTypes, TypeOK
<1>2. CASE Authenticate(r)
  <2>1. UNCHANGED <<rows, today, recDay, pc, seen>>
    BY <1>2 DEF Authenticate, vars, dbVars, recVars
  <2>2. /\ Cardinality(Open) < MaxOpen /\ reqPc[r] = "idle"
        /\ \/ /\ reqPc' = [reqPc EXCEPT ![r] = "quota"]
              /\ reqDay' = [reqDay EXCEPT ![r] = today]
           \/ reqPc' = [reqPc EXCEPT ![r] = "done"] /\ reqDay' = reqDay
    BY <1>2 DEF Authenticate, GoTo, Answer
  <2>3. QED
    BY <1>1, <2>1, <2>2
<1>3. CASE ReadUsage(r)
  <2>1. UNCHANGED <<rows, today, recDay, pc, reqDay>> /\ reqPc[r] = "quota"
    BY <1>3 DEF ReadUsage, vars, dbVars, recVars
  <2>2. \/ /\ reqPc' = [reqPc EXCEPT ![r] = "tenant"]
           /\ seen' = [seen EXCEPT ![r] = FirstUsage(TenantOf[r], reqDay[r])]
        \/ reqPc' = [reqPc EXCEPT ![r] = "done"] /\ seen' = seen
    BY <1>3 DEF ReadUsage, GoTo, Answer
  <2>3. QED
    BY <1>1, <2>1, <2>2
<1>4. CASE AdmitOrDeny(r)
  <2>1. UNCHANGED <<rows, today, recDay, pc, seen, reqDay>> /\ reqPc[r] = "tenant"
    BY <1>4 DEF AdmitOrDeny, vars, dbVars, recVars
  <2>2. \/ reqPc' = [reqPc EXCEPT ![r] = "upstream"] /\ ~WouldExceed(r)
        \/ reqPc' = [reqPc EXCEPT ![r] = "done"]
    BY <1>4 DEF AdmitOrDeny, GoTo, Answer
  <2>3. QED
    BY <1>1, <2>1, <2>2
<1>5. CASE UpstreamAnswers(r)
  <2>1. UNCHANGED <<rows, today, recDay, seen, reqDay>> /\ reqPc[r] = "upstream"
    BY <1>5 DEF UpstreamAnswers, recordUsage, vars, dbVars, recVars
  <2>2. reqPc' = [reqPc EXCEPT ![r] = "done"]
    BY <1>5 DEF UpstreamAnswers, Answer
  <2>3. pc' = pc \/ (pc[r] = "idle" /\ pc' = [pc EXCEPT ![r] = "start"])
    BY <1>5 DEF UpstreamAnswers, recordUsage, vars, recVars
  <2>4. QED
    BY <1>1, <2>1, <2>2, <2>3
<1>6. CASE UpstreamFails(r)
  <2>1. UNCHANGED <<rows, today, recDay, pc, seen, reqDay>> /\ reqPc[r] = "upstream"
    BY <1>6 DEF UpstreamFails, vars, dbVars, recVars
  <2>2. reqPc' = [reqPc EXCEPT ![r] = "done"]
    BY <1>6 DEF UpstreamFails, Answer
  <2>3. QED
    BY <1>1, <2>1, <2>2
<1>7. QED
  BY <1>2, <1>3, <1>4, <1>5, <1>6

\* A crash, in whatever handler it starts, ends every request and every recorder.
LEMMA NoneLeft ==
    ASSUME QuotaTypes, Crash, HandlersDie
    PROVE  /\ rows' = rows /\ today' = today /\ recDay' = recDay
           /\ \A s \in Response : /\ reqPc'[s] \notin {"quota", "tenant", "upstream"}
                                  /\ pc'[s] \notin {"start", "update", "insert", "deadletter"}
<1>1. /\ \A s \in Response : pc'[s] = IF s \in InFlight THEN "crashed" ELSE pc[s]
      /\ \A s \in Response : reqPc'[s] = IF s \in Open /\ reqPc[s] # "done" THEN "died" ELSE reqPc[s]
      /\ rows' = rows /\ today' = today /\ recDay' = recDay
  BY DEF Crash, HandlersDie, Die, dbVars
<1>2. QED
  BY <1>1 DEF Open, InFlight

\* Only Authenticate opens a request, below the bound.
LEMMA OpenStep ==
    ASSUME IsFiniteSet(Response), QuotaTypes, OpenBounded, [QuotaNext]_allVars
    PROVE  OpenBounded'
<1>1. IsFiniteSet(Open) /\ Cardinality(Open) \in Nat /\ Cardinality(Open) <= MaxOpen /\ MaxOpen \in Nat
  <2>1. Open \subseteq Response
    BY DEF Open, InFlight
  <2>2. QED
    BY <2>1, FS_Subset, FS_CardinalityType, QuotaConstantsOK DEF OpenBounded
<1>2. ASSUME Open' \subseteq Open
      PROVE  OpenBounded'
  <2>1. Cardinality(Open') \in Nat /\ Cardinality(Open') <= Cardinality(Open)
    BY <1>1, <1>2, FS_Subset, FS_CardinalityType
  <2>2. QED
    BY <1>1, <2>1 DEF OpenBounded
<1>3. ASSUME NEW r \in Response, Open' \subseteq Open \cup {r}, Cardinality(Open) < MaxOpen
      PROVE  OpenBounded'
  <2> DEFINE more == Open \cup {r}
  <2>1. IsFiniteSet(more) /\ Cardinality(more) <= Cardinality(Open) + 1 /\ Cardinality(more) \in Nat
    <3>1. IsFiniteSet(more) /\ Cardinality(more) \in {Cardinality(Open), Cardinality(Open) + 1}
      BY <1>1, FS_AddElement
    <3> HIDE DEF more
    <3>2. QED
      BY <1>1, <3>1
  <2> HIDE DEF more
  <2>2. Cardinality(Open') \in Nat /\ Cardinality(Open') <= Cardinality(more)
    BY <1>3, <2>1, FS_Subset, FS_CardinalityType DEF more
  <2>3. Cardinality(Open') <= MaxOpen
    BY <1>1, <1>3, <2>1, <2>2
  <2>4. QED
    BY <2>3 DEF OpenBounded
<1>4. ASSUME NEW r \in Response,
             Authenticate(r) \/ ReadUsage(r) \/ AdmitOrDeny(r) \/ UpstreamAnswers(r) \/ UpstreamFails(r)
      PROVE  OpenBounded'
  <2>1. CASE reqPc'[r] = "quota"
    <3>1. Cardinality(Open) < MaxOpen
      BY <1>4, <2>1, OthersStay
    <3>2. \A s \in Response \ {r} : reqPc'[s] = reqPc[s] /\ pc'[s] = pc[s]
      BY <1>4, OthersStay
    <3>3. Open' \subseteq Open \cup {r}
      BY <3>2 DEF Open, InFlight
    <3>4. QED
      BY <1>3, <3>1, <3>3
  <2>2. CASE reqPc'[r] # "quota"
    <3>1. /\ \A s \in Response \ {r} : reqPc'[s] = reqPc[s] /\ pc'[s] = pc[s]
          /\ reqPc'[r] \in {"tenant", "upstream"} => reqPc[r] \in {"quota", "tenant"}
          /\ pc'[r] = pc[r] \/ reqPc[r] = "upstream"
      BY <1>4, OthersStay
    <3>2. Open' \subseteq Open
      BY <2>2, <3>1 DEF Open, InFlight
    <3>3. QED
      BY <1>2, <3>2
  <2>3. QED
    BY <2>1, <2>2
<1>5. ASSUME Crash, HandlersDie
      PROVE  OpenBounded'
  <2>1. Open' \subseteq Open
    BY <1>5, NoneLeft DEF Open, InFlight
  <2>2. QED
    BY <1>2, <2>1
<1>6. ASSUME NEW r \in Response, Recorder(r), UNCHANGED reqVars
      PROVE  OpenBounded'
  <2>1. RecorderMoves(r)
    BY <1>6, RecorderKinds DEF QuotaTypes
  <2>2. Open' \subseteq Open
    BY <1>6, <2>1 DEF RecorderMoves, Open, InFlight, reqVars
  <2>3. QED
    BY <1>2, <2>2
<1>7. ASSUME pc' = pc, reqPc' = reqPc
      PROVE  OpenBounded'
  BY <1>2, <1>7 DEF Open, InFlight
<1>8. CASE (Midnight \/ DbDown \/ DbUp) /\ UNCHANGED reqVars
  BY <1>7, <1>8 DEF Midnight, DbDown, DbUp, recVars, reqVars
<1>9. ASSUME NEW p \in Run, Reprocess(p), UNCHANGED reqVars
      PROVE  OpenBounded'
  <2>1. pc' = pc
    BY <1>9, ReplayKinds DEF QuotaTypes, ReplayMoves
  <2>2. QED
    BY <1>7, <1>9, <2>1 DEF reqVars
<1>10. CASE UNCHANGED allVars
  BY <1>7, <1>10 DEF allVars, vars, recVars, reqVars
<1>11. QED
  BY <1>4, <1>5, <1>6, <1>8, <1>9, <1>10 DEF QuotaNext, Handler, EstimateStreamUsage

\* The estimate of the smallest request is a number no larger than the others.
LEMMA LeastEstimate ==
    ASSUME NEW r \in Response
    PROVE  /\ MinEstimate \in Nat /\ MinEstimate <= estimatedTokens(r)
           /\ estimatedTokens(r) \in Nat
<1> DEFINE All == {estimatedTokens(s) : s \in Response}
<1>1. \A s \in Response : estimatedTokens(s) \in Nat
  BY QuotaConstantsOK DEF estimatedTokens
<1>2. All \subseteq Nat /\ estimatedTokens(r) \in All /\ MinEstimate = Min(All)
  BY <1>1 DEF MinEstimate
<1> HIDE DEF All
<1>3. Min(All) \in All /\ Min(All) <= estimatedTokens(r)
  BY <1>2, MinIsLeast
<1>4. QED
  BY <1>1, <1>2, <1>3

\* The handler's steps, but for the read that lets a request pass.
LEMMA HandlerStep ==
    ASSUME IsFiniteSet(Response), OvershootInv, Dead \subseteq Dead', NEW key \in Key,
           NEW r \in Response,
           Authenticate(r) \/ ReadUsage(r) \/ AdmitOrDeny(r) \/ UpstreamAnswers(r) \/ UpstreamFails(r),
           reqPc'[r] = "tenant" => key.tenant # TenantOf[r] \/ WouldExceed(r)'
    PROVE  Bounded(key)'
<1> DEFINE t == key.tenant
<1>1. QuotaTypes
  BY DEF OvershootInv
<1>2. rows' = rows /\ today' = today
  BY <1>1, OthersStay
<1>3. /\ recDay' = recDay
      /\ \A s \in Response \ {r} : /\ reqPc'[s] = reqPc[s] /\ pc'[s] = pc[s]
                                   /\ seen'[s] = seen[s] /\ reqDay'[s] = reqDay[s]
      /\ reqPc'[r] = "quota" => reqDay'[r] = today
      /\ reqPc'[r] = "upstream" => reqPc[r] = "tenant" /\ ~WouldExceed(r)
      /\ pc'[r] = pc[r] \/ (reqPc[r] = "upstream" /\ pc[r] = "idle" /\ pc'[r] = "start")
  BY <1>1, OthersStay
<1>4. Inserting(key)' \subseteq Inserting(key) /\ Dated(key)' \subseteq Dated(key)
  BY <1>3 DEF Inserting, Dated
<1>5. ASSUME NEW s \in Admitted(t)'
      PROVE  s \in Admitted(t)
  <2>1. /\ s \in Response /\ TenantOf[s] = t
        /\ \/ reqPc'[s] = "upstream" \/ s \in InFlight'
           \/ reqPc'[s] = "tenant" /\ ~WouldExceed(s)'
    BY DEF Admitted
  <2>2. CASE s = r
    <3>1. CASE reqPc'[r] = "upstream"
      BY <1>3, <2>1, <2>2, <3>1 DEF Admitted
    <3>2. CASE r \in InFlight'
      <4>1. r \in InFlight \/ reqPc[r] = "upstream"
        BY <1>3, <3>2 DEF InFlight
      <4>2. QED
        BY <2>1, <2>2, <4>1 DEF Admitted
    <3>3. QED
      BY <2>1, <2>2, <3>1, <3>2
  <2>3. CASE s # r
    <3>1. reqPc'[s] = reqPc[s] /\ pc'[s] = pc[s] /\ seen'[s] = seen[s]
      BY <1>3, <2>1, <2>3
    <3>2. s \in InFlight' <=> s \in InFlight
      BY <3>1 DEF InFlight
    <3>3. WouldExceed(s)' <=> WouldExceed(s)
      BY <3>1 DEF WouldExceed, estimatedTokens
    <3>4. QED
      BY <2>1, <3>1, <3>2, <3>3 DEF Admitted
  <2>4. QED
    BY <2>2, <2>3
<1>6. Stale(t)' \subseteq Stale(t)
  BY <1>2, <1>3 DEF Stale
<1>7. Reach(key)' \subseteq Reach(key)
  BY <1>2, <1>4, <1>5, <1>6 DEF Reach
<1>8. QED
  BY <1>2, <1>4, <1>5, <1>7, QuietStep

\* A read that lets a request pass: what it found in the first row leaves room for one
\* estimate, and all other responses that can reach the row belong to open requests.
LEMMA PassStep ==
    ASSUME IsFiniteSet(Response), OvershootInv, OpenBounded', Dead \subseteq Dead',
           NEW key \in Key, NEW r \in Response, TenantOf[r] = key.tenant,
           ReadUsage(r), reqPc'[r] = "tenant", ~WouldExceed(r)'
    PROVE  Bounded(key)'
<1> DEFINE t == key.tenant
<1>1. QuotaTypes /\ t \in Tenant /\ QuotaDaily[t] \in Nat /\ MaxOpen \in Int
  BY QuotaConstantsOK DEF OvershootInv, Key
<1>2. rows \in Seq(UsageTrack) /\ today \in Nat /\ reqDay[r] \in Nat
  BY <1>1 DEF QuotaTypes, TypeOK
<1>3. /\ rows' = rows /\ today' = today /\ recDay' = recDay
      /\ \A s \in Response \ {r} : /\ reqPc'[s] = reqPc[s] /\ pc'[s] = pc[s]
                                   /\ seen'[s] = seen[s] /\ reqDay'[s] = reqDay[s]
      /\ reqPc[r] = "quota" /\ seen'[r] = FirstUsage(t, reqDay[r])
      /\ pc'[r] = pc[r]
  BY <1>1, OthersStay
<1>4. Inserting(key)' \subseteq Inserting(key) /\ Dated(key)' \subseteq Dated(key)
  BY <1>3 DEF Inserting, Dated
<1>5. /\ FirstOn(rows, key)' = FirstOn(rows, key) /\ BookedOn(rows, key)' = BookedOn(rows, key)
      /\ Leads(key)' = Leads(key) /\ Elsewhere(key)' \subseteq Elsewhere(key)
  BY <1>3 DEF Elsewhere, Leads
<1>6. FirstUsage(t, reqDay[r]) + estimatedTokens(r) <= QuotaDaily[t] /\ FirstUsage(t, reqDay[r]) \in Nat
  <2>1. FirstUsage(t, reqDay[r]) \in Nat
    <3>1. KeyFor(r, reqDay[r]) \in Key /\ KeyFor(r, reqDay[r]).tenant = t /\ KeyFor(r, reqDay[r]).date = reqDay[r]
      BY <1>2, KeyForType DEF KeyFor
    <3>2. QED
      BY <1>2, <3>1, SeenIsEnough
  <2>2. ~(seen'[r] + estimatedTokens(r) > QuotaDaily[t])
    BY DEF WouldExceed, estimatedTokens
  <2>3. QED
    BY <1>1, <1>3, <2>1, <2>2, LeastEstimate
<1>7. MinEstimate <= QuotaDaily[t]
  BY <1>1, <1>6, LeastEstimate
<1>8. Affordable(key)'
  BY <1>7 DEF Affordable, MinEstimate, estimatedTokens
<1>9. RowsApart(key)'
  <2>1. \/ Matching(rows', key) = {}
        \/ /\ Matching(rows, key) # {}
           /\ Elsewhere(key)' \cup Inserting(key)' \subseteq Elsewhere(key) \cup Inserting(key)
    BY <1>3, <1>4, <1>5
  <2>2. QED
    BY <1>1, <2>1, NoMoreRows DEF OvershootInv, Bounded
<1>10. Covered(key)'
  <2>1. ASSUME key.date = today, reqDay[r] = today, Leads(key)
        PROVE  Covered(key)'
    <3> DEFINE F == FirstOn(rows, key)
    <3>1. Consumed(F) <= FirstUsage(t, reqDay[r])
      BY <1>2, <2>1, SeenIsEnough
    <3>2. F \in SUBSET Response /\ Open' \in SUBSET Response
      BY DEF FirstOn, Open, InFlight
    <3>3. Consumed(F) \in Nat
      <4>1. IsFiniteSet(F) /\ Costs(Cost, F)
        BY <3>2, FS_Subset, QuotaConstantsOK DEF Costs
      <4> HIDE DEF F
      <4>2. QED
        BY <4>1, SumTyped DEF Consumed
    <3>4. Consumed(F) + MinEstimate <= QuotaDaily[t]
      <4> HIDE DEF F, t
      <4>1. QED
        BY <1>1, <1>6, <3>1, <3>3, LeastEstimate
    <3>5. Admitted(t)' \subseteq Open' /\ Stale(t)' \subseteq Open'
      BY DEF Admitted, Stale, Open
    <3>6. FirstOn(rows, key)' \cup Reach(key)' \subseteq F \cup Open' \cup Dead'
      BY <1>3, <1>5, <2>1, <3>5 DEF Reach
    <3> HIDE DEF F
    <3>7. QED
      BY <3>2, <3>4, <3>6 DEF Covered, OpenBounded, MinEstimate, estimatedTokens, Consumed
  <2>2. ASSUME key.date # today \/ reqDay[r] # today, Leads(key)
        PROVE  Covered(key)'
    <3>1. Reach(key)' \subseteq Reach(key)
      <4>1. CASE key.date # today
        BY <1>3, <1>4, <4>1 DEF Reach
      <4>2. CASE key.date = today /\ reqDay[r] # today
        <5>1. r \in Stale(t)
          BY <1>3, <4>2 DEF Stale
        <5>2. Stale(t)' \subseteq Stale(t)
          BY <1>3, <5>1 DEF Stale
        <5>3. Admitted(t)' \subseteq Admitted(t) \cup {r}
          BY <1>3 DEF Admitted, InFlight, WouldExceed, estimatedTokens
        <5>4. QED
          BY <1>3, <4>2, <5>1, <5>2, <5>3 DEF Reach
      <4>3. QED
        BY <2>2, <4>1, <4>2
    <3>2. Covered(key)
      BY DEF OvershootInv, Bounded
    <3>3. PICK F \in SUBSET Response, O \in SUBSET Response :
            /\ Cardinality(O) <= MaxOpen
            /\ F # {} => Consumed(F) + MinEstimate <= QuotaDaily[t]
            /\ FirstOn(rows, key) \cup Reach(key) \subseteq F \cup O \cup Dead
      BY <2>2, <3>2 DEF Covered
    <3>4. FirstOn(rows, key)' \cup Reach(key)' \subseteq F \cup O \cup Dead'
      BY <1>5, <3>1, <3>3
    <3>5. QED
      BY <3>3, <3>4 DEF Covered, MinEstimate, estimatedTokens, Consumed
  <2>3. CASE ~Leads(key)
    BY <1>5, <2>3 DEF Covered
  <2>4. QED
    BY <2>1, <2>2, <2>3
<1>11. QED
  BY <1>8, <1>9, <1>10 DEF Bounded

\* A recorder's step: what it books was about to be, in the first row of its key or in
\* one more beside it.
LEMMA RecorderStep ==
    ASSUME IsFiniteSet(Response), OvershootInv, Dead \subseteq Dead',
           NEW key \in Key, Leads(key)' => Leads(key),
           NEW r \in Response, Recorder(r), UNCHANGED reqVars
    PROVE  Bounded(key)'
<1> DEFINE k == KeyFor(r, recDay[r])
           t == key.tenant
<1>1. /\ TypeOK /\ rows \in Seq(UsageTrack) /\ k \in Key
      /\ OpenBounded /\ MaxOpen \in Int
      /\ Covered(key) /\ RowsApart(key) /\ Affordable(key)
  BY KeyForType, QuotaConstantsOK DEF OvershootInv, Bounded, QuotaTypes, TypeOK
<1>2. RecorderMoves(r)
  BY <1>1, RecorderKinds
<1>3. /\ pc[r] \in {"start", "update", "insert", "deadletter"} /\ today' = today
      /\ \A s \in Response \ {r} : pc'[s] = pc[s] /\ recDay'[s] = recDay[s]
  BY <1>2 DEF RecorderMoves
<1>4. /\ reqPc' = reqPc /\ seen' = seen /\ reqDay' = reqDay /\ Stale(t)' = Stale(t)
  BY <1>3 DEF reqVars, Stale
<1>5. Admitted(t)' \subseteq Admitted(t)
  <2>1. InFlight' \subseteq InFlight
    BY <1>3 DEF InFlight
  <2>2. \A s \in Response : WouldExceed(s)' <=> WouldExceed(s)
    BY <1>4 DEF WouldExceed, estimatedTokens
  <2>3. QED
    BY <1>4, <2>1, <2>2 DEF Admitted
<1>6. /\ r \in Open /\ k.tenant = TenantOf[r] /\ k.date = recDay[r]
      /\ key = k => r \in Admitted(t)
  BY <1>3 DEF Admitted, Open, InFlight, KeyFor
<1>7. \A s \in Response \ {r} : KeyFor(s, recDay'[s]) = KeyFor(s, recDay[s])
  BY <1>3
<1>8. ASSUME rows' = rows, Inserting(key)' \subseteq Inserting(key), Reach(key)' \subseteq Reach(key)
      PROVE  Bounded(key)'
  BY <1>5, <1>8, QuietStep
<1>9. CASE rows' = rows /\ pc[r] = "start" /\ pc'[r] = "update" /\ recDay'[r] = today
  <2>1. Inserting(key)' \subseteq Inserting(key)
    BY <1>3, <1>7, <1>9 DEF Inserting
  <2>2. Reach(key)' \subseteq Reach(key)
    <3>1. CASE key.date = today
      BY <1>3, <1>4, <1>5, <3>1 DEF Reach
    <3>2. CASE key.date # today
      <4>1. KeyFor(r, recDay'[r]) # key
        BY <1>9, <3>2 DEF KeyFor
      <4>2. Dated(key)' \subseteq Dated(key)
        BY <1>3, <1>7, <4>1 DEF Dated
      <4>3. QED
        BY <1>3, <3>2, <4>2 DEF Reach
    <3>3. QED
      BY <3>1, <3>2
  <2>3. QED
    BY <1>8, <1>9, <2>1, <2>2
<1>10. ASSUME recDay'[r] = recDay[r], pc'[r] \in {"update", "insert"} => pc[r] = "update"
       PROVE  Dated(key)' \subseteq Dated(key) /\ Reach(key)' \subseteq Reach(key)
  <2>1. Dated(key)' \subseteq Dated(key)
    BY <1>3, <1>7, <1>10 DEF Dated
  <2>2. QED
    BY <1>3, <1>4, <1>5, <2>1 DEF Reach
<1>11. CASE recDay'[r] = recDay[r] /\ rows' = rows /\ pc'[r] \notin {"update", "insert"}
  <2>1. Inserting(key)' \subseteq Inserting(key)
    BY <1>3, <1>7, <1>11 DEF Inserting
  <2>2. QED
    BY <1>8, <1>10, <1>11, <2>1
<1>12. CASE /\ recDay'[r] = recDay[r] /\ rows' = rows /\ Matching(rows, k) = {}
            /\ pc[r] = "update" /\ pc'[r] = "insert"
  <2>1. Reach(key)' \subseteq Reach(key)
    BY <1>10, <1>12
  <2>2. CASE key = k
    <3>1. /\ FirstOn(rows, key)' = FirstOn(rows, key) /\ BookedOn(rows, key)' = BookedOn(rows, key)
          /\ Matching(rows', key) = {}
      BY <1>12, <2>2
    <3>2. Tokens(key)' \subseteq Tokens(key)
      BY <1>5, <3>1 DEF Tokens
    <3>3. Covered(key)' /\ Affordable(key)'
      BY <1>1, <2>1, <3>1, <3>2, NothingNew
    <3>4. RowsApart(key)'
      BY <3>1 DEF RowsApart
    <3>5. QED
      BY <3>3, <3>4 DEF Bounded
  <2>3. CASE key # k
    <3>1. Inserting(key)' \subseteq Inserting(key)
      BY <1>3, <1>7, <1>12, <2>3 DEF Inserting
    <3>2. QED
      BY <1>8, <1>12, <2>1, <3>1
  <2>4. QED
    BY <2>2, <2>3
<1>13. CASE /\ recDay'[r] = recDay[r] /\ Matching(rows, k) # {}
            /\ pc[r] = "update" /\ pc'[r] \notin {"update", "insert"}
            /\ rows' = Update(rows, k, r)
  <2>1. /\ Matching(rows', key) = Matching(rows, key)
        /\ key = k => /\ FirstOn(rows', key) = FirstOn(rows, key) \cup {r}
                      /\ BookedOn(rows', key) = BookedOn(rows, key) \cup {r}
        /\ key # k => /\ FirstOn(rows', key) = FirstOn(rows, key)
                      /\ BookedOn(rows', key) = BookedOn(rows, key)
    BY <1>1, <1>13, UpdateOn
  <2>2. Inserting(key)' \subseteq Inserting(key)
    BY <1>3, <1>7, <1>13 DEF Inserting
  <2>3. Elsewhere(key)' \subseteq Elsewhere(key)
    BY <2>1 DEF Elsewhere
  <2>4. Reach(key)' \subseteq Reach(key)
    BY <1>10, <1>13
  <2>5. key = k => r \in Reach(key)
    BY <1>6, <1>13 DEF Reach, Dated
  <2>6. FirstOn(rows, key)' \cup Reach(key)' \subseteq FirstOn(rows, key) \cup Reach(key) \cup Dead'
    BY <2>1, <2>4, <2>5
  <2>7. Tokens(key)' \subseteq Tokens(key)
    BY <1>5, <1>6, <2>1 DEF Tokens
  <2>8. Covered(key)' /\ Affordable(key)'
    BY <1>1, <2>6, <2>7, NothingNew
  <2>9. \/ Matching(rows', key) = {}
        \/ /\ Matching(rows, key) # {}
           /\ Elsewhere(key)' \cup Inserting(key)' \subseteq Elsewhere(key) \cup Inserting(key)
    BY <2>1, <2>2, <2>3
  <2>10. RowsApart(key)'
    BY <1>1, <2>9, NoMoreRows
  <2>11. QED
    BY <2>8, <2>10 DEF Bounded
<1>14. CASE /\ recDay'[r] = recDay[r] /\ pc[r] = "insert" /\ pc'[r] \notin {"update", "insert"}
            /\ rows' = Insert(rows, k, r)
  <2>1. /\ key = k =>
             /\ Matching(rows', key) # {}
             /\ BookedOn(rows', key) = BookedOn(rows, key) \cup {r}
             /\ Matching(rows, key) = {} => FirstOn(rows', key) = {r}
             /\ Matching(rows, key) # {} => FirstOn(rows', key) = FirstOn(rows, key)
        /\ key # k =>
             /\ Matching(rows', key) = Matching(rows, key)
             /\ FirstOn(rows', key) = FirstOn(rows, key)
             /\ BookedOn(rows', key) = BookedOn(rows, key)
    BY <1>1, <1>14, InsertOn
  <2>2. Inserting(key)' \subseteq Inserting(key) \ {r}
    BY <1>3, <1>7, <1>14 DEF Inserting
  <2>3. Reach(key)' \subseteq Reach(key)
    BY <1>10, <1>14
  <2>4. key = k => r \in Reach(key) /\ r \in Inserting(key)
    BY <1>6, <1>14 DEF Reach, Dated, Inserting
  <2>5. FirstOn(rows, key)' \cup Reach(key)' \subseteq FirstOn(rows, key) \cup Reach(key) \cup Dead'
    BY <2>1, <2>3, <2>4
  <2>6. Tokens(key)' \subseteq Tokens(key)
    BY <1>5, <1>6, <2>1 DEF Tokens
  <2>7. Covered(key)' /\ Affordable(key)'
    BY <1>1, <2>5, <2>6, NothingNew
  <2>8. CASE key = k /\ Matching(rows, key) = {}
    <3>1. Elsewhere(key)' = {}
      <4>1. BookedOn(rows, key) = {}
        BY <2>8 DEF BookedOn
      <4>2. QED
        BY <2>1, <2>8, <4>1 DEF Elsewhere
    <3>2. Inserting(key) \subseteq Open
      BY DEF Inserting, Open, InFlight
    <3>3. Elsewhere(key)' \cup Inserting(key)' \subseteq Open \ {r}
      BY <2>2, <3>1, <3>2
    <3>4. RowsApart(key)'
      BY <1>1, <1>6, <3>3, NoMoreRows
    <3>5. QED
      BY <2>7, <3>4 DEF Bounded
  <2>9. CASE key # k \/ Matching(rows, key) # {}
    <3>1. Elsewhere(key)' \cup Inserting(key)' \subseteq Elsewhere(key) \cup Inserting(key)
      BY <2>1, <2>2, <2>4, <2>9 DEF Elsewhere
    <3>2. \/ Matching(rows', key) = {}
          \/ /\ Matching(rows, key) # {}
             /\ Elsewhere(key)' \cup Inserting(key)' \subseteq Elsewhere(key) \cup Inserting(key)
      BY <2>1, <2>9, <3>1
    <3>3. RowsApart(key)'
      BY <1>1, <3>2, NoMoreRows
    <3>4. QED
      BY <2>7, <3>3 DEF Bounded
  <2>10. QED
    BY <2>8, <2>9
<1>15. QED
  BY <1>2, <1>9, <1>11, <1>12, <1>13, <1>14 DEF RecorderMoves

\* A run's step: it books dead letters, in rows there are.
LEMMA ReplayStep ==
    ASSUME IsFiniteSet(Response), OvershootInv, Dead \subseteq Dead',
           NEW key \in Key, Leads(key)' => Leads(key),
           NEW p \in Run, Reprocess(p), UNCHANGED reqVars
    PROVE  Bounded(key)'
<1>1. /\ TypeOK /\ rows \in Seq(UsageTrack) /\ MaxOpen \in Int
      /\ runDay[p] \in Nat /\ todo[p] \subseteq Response /\ todo[p] \subseteq Dead
      /\ Covered(key) /\ RowsApart(key) /\ Affordable(key)
  BY QuotaConstantsOK DEF OvershootInv, Bounded, QuotaTypes, TypeOK, LettersDead
<1>2. ReplayMoves(p)
  BY <1>1, ReplayKinds
<1>3. /\ pc' = pc /\ recDay' = recDay /\ today' = today
      /\ reqPc' = reqPc /\ seen' = seen /\ reqDay' = reqDay
  BY <1>2 DEF ReplayMoves, reqVars
<1>4. /\ Inserting(key)' = Inserting(key) /\ Dated(key)' = Dated(key) /\ Dead' = Dead
      /\ Admitted(key.tenant)' \subseteq Admitted(key.tenant)
      /\ Stale(key.tenant)' = Stale(key.tenant)
  BY <1>3 DEF Inserting, Dated, Dead, Admitted, Stale, InFlight, WouldExceed, estimatedTokens
<1>5. Reach(key)' \subseteq Reach(key)
  BY <1>3, <1>4 DEF Reach
<1>6. CASE rows' = rows
  BY <1>4, <1>5, <1>6, QuietStep
<1>7. ASSUME NEW r \in todo[p], Matching(rows, KeyFor(r, runDay[p])) # {},
             rows' = Update(rows, KeyFor(r, runDay[p]), r)
      PROVE  Bounded(key)'
  <2> DEFINE k == KeyFor(r, runDay[p])
  <2>1. r \in Response /\ k \in Key /\ r \in Dead
    BY <1>1, KeyForType
  <2>2. /\ Matching(rows', key) = Matching(rows, key)
        /\ key = k => /\ FirstOn(rows', key) = FirstOn(rows, key) \cup {r}
                      /\ BookedOn(rows', key) = BookedOn(rows, key) \cup {r}
        /\ key # k => /\ FirstOn(rows', key) = FirstOn(rows, key)
                      /\ BookedOn(rows', key) = BookedOn(rows, key)
    BY <1>1, <1>7, <2>1, UpdateOn
  <2> HIDE DEF k
  <2>3. /\ FirstOn(rows, key) \subseteq FirstOn(rows', key)
        /\ FirstOn(rows', key) \subseteq FirstOn(rows, key) \cup Dead
        /\ BookedOn(rows', key) \subseteq BookedOn(rows, key) \cup Dead
    BY <2>1, <2>2
  <2>4. Elsewhere(key)' \subseteq Elsewhere(key) /\ Tokens(key)' \subseteq Tokens(key)
    BY <1>4, <2>3 DEF Elsewhere, Tokens
  <2>5. FirstOn(rows, key)' \cup Reach(key)' \subseteq FirstOn(rows, key) \cup Reach(key) \cup Dead'
    BY <1>4, <1>5, <2>3
  <2>6. Covered(key)' /\ Affordable(key)'
    BY <1>1, <2>4, <2>5, NothingNew
  <2>7. \/ Matching(rows', key) = {}
        \/ /\ Matching(rows, key) # {}
           /\ Elsewhere(key)' \cup Inserting(key)' \subseteq Elsewhere(key) \cup Inserting(key)
    BY <1>4, <2>2, <2>4
  <2>8. RowsApart(key)'
    BY <1>1, <2>7, NoMoreRows
  <2>9. QED
    BY <2>6, <2>8 DEF Bounded
<1>8. QED
  BY <1>2, <1>6, <1>7 DEF ReplayMoves

\* Midnight: the new day has no row yet, and only open requests can give it one.
LEMMA MidnightStep ==
    ASSUME IsFiniteSet(Response), OvershootInv, NEW key \in Key, Midnight, UNCHANGED reqVars
    PROVE  Bounded(key)'
<1>1. /\ rows \in Seq(UsageTrack) /\ today \in Nat
      /\ Calendar /\ OpenBounded /\ MaxOpen \in Int
      /\ Covered(key) /\ RowsApart(key) /\ Affordable(key)
  BY QuotaConstantsOK DEF OvershootInv, Bounded, QuotaTypes, TypeOK
<1>2. rows' = rows /\ today' = today + 1 /\ pc' = pc /\ recDay' = recDay /\ reqPc' = reqPc /\ seen' = seen
  BY DEF Midnight, recVars, reqVars
<1>3. /\ FirstOn(rows, key)' = FirstOn(rows, key) /\ BookedOn(rows, key)' = BookedOn(rows, key)
      /\ Leads(key)' = Leads(key) /\ Dead' = Dead
      /\ Inserting(key)' = Inserting(key) /\ Dated(key)' = Dated(key)
      /\ Matching(rows', key) = Matching(rows, key)
  BY <1>2 DEF Leads, Inserting, Dated, Dead
<1>4. Admitted(key.tenant)' \subseteq Admitted(key.tenant)
  BY <1>2 DEF Admitted, InFlight, WouldExceed, estimatedTokens
<1>5. Elsewhere(key)' = Elsewhere(key) /\ Tokens(key)' \subseteq Tokens(key)
  BY <1>3, <1>4 DEF Elsewhere, Tokens
<1>6. Affordable(key)'
  BY <1>1, <1>5 DEF Affordable, MinEstimate, estimatedTokens
<1>7. RowsApart(key)'
  BY <1>1, <1>3, <1>5 DEF RowsApart
<1>8. CASE key.date # today + 1
  <2>1. Dated(key) \subseteq Admitted(key.tenant)
    BY DEF Dated, Admitted, InFlight, KeyFor
  <2>2. Reach(key)' \subseteq Reach(key)
    BY <1>2, <1>3, <1>8, <2>1 DEF Reach
  <2>3. Covered(key)'
    BY <1>1, <1>3, <1>5, <2>2, NothingNew
  <2>4. QED
    BY <1>6, <1>7, <2>3 DEF Bounded
<1>9. CASE key.date = today + 1
  <2>1. Matching(rows, key) = {}
    <3> SUFFICES ASSUME NEW i \in DOMAIN rows, rows[i].key = key PROVE FALSE
      BY DEF Matching
    <3>1. rows[i].key.date <= today
      BY <1>1 DEF Calendar
    <3>2. QED
      BY <1>1, <1>9, <3>1
  <2>2. FirstOn(rows, key)' = {}
    BY <1>3, <2>1 DEF FirstOn
  <2>3. Reach(key)' \subseteq Open
    BY <1>2, <1>4, <1>9 DEF Reach, Admitted, Stale, Open
  <2>4. Open \in SUBSET Response /\ Cardinality(Open) <= MaxOpen
    BY <1>1 DEF Open, InFlight, OpenBounded
  <2>5. Covered(key)'
    BY <2>2, <2>3, <2>4 DEF Covered
  <2>6. QED
    BY <1>6, <1>7, <2>5 DEF Bounded
<1>10. QED
  BY <1>8, <1>9

\* Every step preserves the invariant.
LEMMA OvershootStep ==
    ASSUME IsFiniteSet(Response), OvershootInv, [QuotaNext]_allVars
    PROVE  OvershootInv'
<1>1. QuotaTypes' /\ Calendar' /\ OpenBounded' /\ LettersDead' /\ Dead \subseteq Dead'
  BY QuotaTypesStep, CalendarStep, OpenStep, LettersStep, UsageSteps DEF OvershootInv, QuotaTypes
<1>2. ASSUME NEW key \in Key
      PROVE  Bounded(key)'
  <2>1. ASSUME NEW r \in Response,
               Authenticate(r) \/ ReadUsage(r) \/ AdmitOrDeny(r) \/ UpstreamAnswers(r) \/ UpstreamFails(r)
        PROVE  Bounded(key)'
    <3>1. CASE reqPc'[r] = "tenant" => key.tenant # TenantOf[r] \/ WouldExceed(r)'
      BY <1>1, <2>1, <3>1, HandlerStep
    <3>2. CASE reqPc'[r] = "tenant" /\ key.tenant = TenantOf[r] /\ ~WouldExceed(r)'
      <4>1. reqPc[r] = "quota"
        BY <2>1, <3>2, OthersStay DEF OvershootInv
      <4>2. ReadUsage(r)
        BY <2>1, <4>1 DEF Authenticate, AdmitOrDeny, UpstreamAnswers, UpstreamFails
      <4>3. QED
        BY <1>1, <3>2, <4>2, PassStep
    <3>3. QED
      BY <3>1, <3>2
  <2>2. ASSUME Crash, HandlersDie
        PROVE  Bounded(key)'
    <3>1. /\ rows' = rows /\ today' = today
          /\ \A s \in Response : /\ reqPc'[s] \notin {"quota", "tenant", "upstream"}
                                 /\ pc'[s] \notin {"start", "update", "insert", "deadletter"}
      BY <2>2, NoneLeft DEF OvershootInv
    <3>2. /\ Admitted(key.tenant)' \subseteq Admitted(key.tenant)
          /\ Inserting(key)' \subseteq Inserting(key) /\ Dated(key)' \subseteq Dated(key)
          /\ Stale(key.tenant)' = {}
      BY <3>1 DEF Admitted, Inserting, Dated, Stale, InFlight
    <3>3. Reach(key)' \subseteq Reach(key)
      BY <3>1, <3>2 DEF Reach
    <3>4. QED
      BY <1>1, <3>1, <3>2, <3>3, QuietStep
  <2>3. ASSUME rows' = rows, today' = today, pc' = pc, recDay' = recDay, reqPc' = reqPc,
               seen' = seen, reqDay' = reqDay
        PROVE  Bounded(key)'
    <3>1. /\ Admitted(key.tenant)' \subseteq Admitted(key.tenant)
          /\ Inserting(key)' \subseteq Inserting(key) /\ Dated(key)' \subseteq Dated(key)
          /\ Stale(key.tenant)' = Stale(key.tenant)
      BY <2>3 DEF Admitted, Inserting, Dated, Stale, InFlight, WouldExceed, estimatedTokens
    <3>2. Reach(key)' \subseteq Reach(key)
      BY <2>3, <3>1 DEF Reach
    <3>3. QED
      BY <1>1, <2>3, <3>1, <3>2, QuietStep
  <2>4. CASE (DbDown \/ DbUp) /\ UNCHANGED reqVars
    BY <2>3, <2>4 DEF DbDown, DbUp, recVars, reqVars
  <2>5. CASE UNCHANGED allVars
    BY <2>3, <2>5 DEF allVars, vars, dbVars, recVars, reqVars
  <2>6. Leads(key)' => Leads(key)
    BY LeadStays DEF OvershootInv
  <2>7. ASSUME NEW r \in Response, Recorder(r), UNCHANGED reqVars PROVE Bounded(key)'
    BY <1>1, <2>6, <2>7, RecorderStep
  <2>8. ASSUME NEW p \in Run, Reprocess(p), UNCHANGED reqVars PROVE Bounded(key)'
    BY <1>1, <2>6, <2>8, ReplayStep
  <2>9. CASE Midnight /\ UNCHANGED reqVars
    BY <2>9, MidnightStep
  <2>10. QED
    BY <2>1, <2>2, <2>4, <2>5, <2>7, <2>8, <2>9 DEF QuotaNext, Handler, EstimateStreamUsage
<1>3. QED
  BY <1>1, <1>2 DEF OvershootInv

\* Nothing is booked or open at first.
LEMMA OvershootStart ==
    ASSUME IsFiniteSet(Response), QuotaInit
    PROVE  OvershootInv
<1>1. /\ TypeOK /\ rows = <<>> /\ today = 0 /\ pc = [r \in Response |-> "idle"]
      /\ recDay = [r \in Response |-> 0] /\ reqPc = [r \in Response |-> "idle"]
      /\ seen = [r \in Response |-> 0] /\ reqDay = [r \in Response |-> 0]
      /\ log = {} /\ todo = [p \in Run |-> {}] /\ kept = [p \in Run |-> {}]
      /\ runDay = [p \in Run |-> 0]
  BY TypeInit DEF QuotaInit, Init
<1>2. QuotaTypes /\ LettersDead
  BY <1>1 DEF QuotaTypes, LettersDead
<1>3. Calendar
  BY <1>1 DEF Calendar
<1>4. InFlight = {} /\ Open = {}
  BY <1>1 DEF InFlight, Open
<1>5. OpenBounded
  BY <1>4, FS_EmptySet, QuotaConstantsOK DEF OpenBounded
<1>6. ASSUME NEW key \in Key
      PROVE  Bounded(key)
  <2>1. Matching(rows, key) = {} /\ FirstOn(rows, key) = {} /\ BookedOn(rows, key) = {}
    BY <1>1 DEF Matching, FirstOn, BookedOn
  <2>2. /\ Admitted(key.tenant) = {} /\ Stale(key.tenant) = {}
        /\ Inserting(key) = {} /\ Dated(key) = {}
    BY <1>1, <1>4 DEF Admitted, Stale, Inserting, Dated
  <2>3. Reach(key) = {} /\ Tokens(key) = {}
    BY <2>1, <2>2 DEF Reach, Tokens
  <2>4. {} \in SUBSET Response /\ Cardinality({}) <= MaxOpen
    BY FS_EmptySet, QuotaConstantsOK
  <2>5. Covered(key)
    BY <2>1, <2>3, <2>4 DEF Covered
  <2>6. QED
    BY <2>1, <2>3, <2>5 DEF Bounded, RowsApart, Affordable
<1>7. QED
  BY <1>2, <1>3, <1>5, <1>6 DEF OvershootInv

\* The highest cost is a number no smaller than any.
LEMMA HighestCost ==
    ASSUME IsFiniteSet(Response), Response # {}
    PROVE  MaxCost \in Nat /\ \A r \in Response : Cost[r] \in Nat /\ Cost[r] <= MaxCost
<1> DEFINE All == {Cost[r] : r \in Response}
           Topped == {T \in SUBSET Response :
                        T # {} => \E m \in T : \A x \in T : Cost[x] <= Cost[m]}
<1>1. \A r \in Response : Cost[r] \in Nat
  BY QuotaConstantsOK
<1>2. {} \in Topped
  OBVIOUS
<1>3. ASSUME NEW T \in SUBSET Response, NEW x \in Response \ T, T \in Topped
      PROVE  T \cup {x} \in Topped
  <2>1. CASE T = {}
    BY <1>1, <2>1
  <2>2. CASE T # {}
    <3>1. PICK m \in T : \A y \in T : Cost[y] <= Cost[m]
      BY <1>3, <2>2
    <3>2. CASE Cost[m] <= Cost[x]
      <4>1. \A y \in T \cup {x} : Cost[y] <= Cost[x]
        BY <1>1, <3>1, <3>2
      <4>2. QED
        BY <4>1
    <3>3. CASE ~(Cost[m] <= Cost[x])
      <4>1. \A y \in T \cup {x} : Cost[y] <= Cost[m]
        BY <1>1, <3>1, <3>3
      <4>2. QED
        BY <4>1
    <3>4. QED
      BY <3>2, <3>3
  <2>3. QED
    BY <2>1, <2>2
<1>4. Response \in Topped
  <2> HIDE DEF Topped
  <2>1. SUBSET Response \subseteq Topped
    BY <1>2, <1>3, GrownByAdding
  <2>2. QED
    BY <2>1
<1>5. PICK m \in Response : \A x \in Response : Cost[x] <= Cost[m]
  BY <1>4
<1>6. /\ \E c \in All : \A d \in All : c >= d
      /\ All \subseteq Nat /\ \A r \in Response : Cost[r] \in All
      /\ MaxCost = Max(All)
  BY <1>1, <1>5 DEF MaxCost
<1> HIDE DEF All
<1>7. Max(All) \in All /\ \A d \in All : Max(All) >= d
  BY <1>6 DEF Max
<1>8. QED
  BY <1>1, <1>6, <1>7

\* A few responses cost no more than their number times the highest cost.
LEMMA FewCost ==
    ASSUME IsFiniteSet(Response), Response # {}, NEW S \in SUBSET Response, NEW n \in Nat,
           Cardinality(S) <= n
    PROVE  Consumed(S) \in Nat /\ Consumed(S) <= n * MaxCost
<1>1. /\ MaxCost \in Nat /\ IsFiniteSet(S) /\ Costs(Cost, S)
      /\ \A r \in S : Cost[r] <= MaxCost
  BY HighestCost, FS_Subset DEF Costs
<1>2. Consumed(S) \in Nat /\ Consumed(S) <= Cardinality(S) * MaxCost
  BY <1>1, SumTyped, SumOfFew DEF Consumed
<1>3. Cardinality(S) \in Nat /\ Cardinality(S) * MaxCost \in Nat
  BY <1>1, FS_CardinalityType
<1>4. Cardinality(S) * MaxCost <= n * MaxCost
  <2>1. \A a, b, c \in Nat : a <= b => a * c <= b * c
    <3> SUFFICES ASSUME NEW a \in Nat, NEW b \in Nat, NEW c \in Nat, a <= b PROVE a * c <= b * c
      OBVIOUS
    <3>1. b * c = a * c + (b - a) * c /\ (b - a) \in Nat
      OBVIOUS
    <3>2. (b - a) * c \in Nat /\ a * c \in Nat
      BY <3>1
    <3>3. QED
      BY <3>1, <3>2
  <2>2. QED
    BY <1>1, <1>3, <2>1
<1>5. n * MaxCost \in Nat
  BY <1>1
<1>6. QED
  BY <1>2, <1>3, <1>4, <1>5

\* Three parts, each within its bound.
LEMMA ThreeParts ==
    ASSUME NEW b \in Nat, NEW f \in Nat, NEW o \in Nat, NEW e \in Nat, b <= f + o + e,
           NEW left \in Int, NEW x \in Nat, NEW y \in Nat, f <= left, o <= x, e <= y
    PROVE  b <= left + (x + y)
  OBVIOUS

\* The three groups the checked row's tokens come from, added up.
LEMMA OvershootFollows ==
    ASSUME IsFiniteSet(Response), OvershootInv
    PROVE  OvershootBounded
<1> SUFFICES ASSUME NEW t \in Tenant, NEW day \in 0 .. MaxDay,
                    DayRows(t, day) # {}, CheckedTokens(t, day) # {}
             PROVE  Consumed(CheckedTokens(t, day))
                      <= QuotaDaily[t] - MinEstimate + (2 * MaxOpen - 1) * MaxCost
  BY DEF OvershootBounded
<1> DEFINE key == rows[Min(DayRows(t, day))].key
           B == CheckedTokens(t, day)
           E == Elsewhere(key)
<1>1. /\ key \in Key /\ key.tenant = t /\ Leads(key)
      /\ B = BookedOn(rows, key) \ Dead /\ Matching(rows, key) # {}
  <2>1. rows \in Seq(UsageTrack)
    BY DEF OvershootInv, QuotaTypes, TypeOK
  <2>2. /\ Min(DayRows(t, day)) \in DayRows(t, day)
        /\ \A i \in DayRows(t, day) : Min(DayRows(t, day)) <= i
    <3>1. DayRows(t, day) \subseteq Nat
      BY <2>1 DEF DayRows
    <3>2. QED
      BY <3>1, MinIsLeast
  <2>3. Min(DayRows(t, day)) \in DOMAIN rows /\ key.tenant = t /\ key.date = day
    BY <2>2 DEF DayRows
  <2>4. rows[Min(DayRows(t, day))] \in UsageTrack
    BY <2>1, <2>3
  <2>5. key \in Key
    BY <2>4 DEF UsageTrack
  <2>6. Min(DayRows(t, day)) \in Matching(rows, key)
    BY <2>3 DEF Matching
  <2>7. Leads(key)
    BY <2>2, <2>3, <2>6 DEF Leads, DayRows
  <2>8. B = BookedOn(rows, key) \ Dead
    BY DEF CheckedTokens, BookedOn, Dead
  <2>9. QED
    BY <2>3, <2>5, <2>6, <2>7, <2>8
<1> HIDE DEF key
<1>2. /\ QuotaDaily[t] \in Nat /\ MaxOpen \in Nat
      /\ Covered(key) /\ RowsApart(key) /\ Affordable(key)
  BY <1>1, QuotaConstantsOK DEF OvershootInv, Bounded
<1>3. B \in SUBSET Response /\ Response # {} /\ B # {}
  BY <1>1 DEF BookedOn
<1>4. MaxCost \in Nat /\ Costs(Cost, Response)
  BY <1>3, HighestCost DEF Costs
<1>5. MinEstimate \in Nat /\ MinEstimate <= QuotaDaily[t]
  BY <1>1, <1>2, <1>3, LeastEstimate DEF Affordable, Tokens
<1>6. PICK F \in SUBSET Response, O \in SUBSET Response :
        /\ Cardinality(O) <= MaxOpen
        /\ F # {} => Consumed(F) + MinEstimate <= QuotaDaily[t]
        /\ FirstOn(rows, key) \cup Reach(key) \subseteq F \cup O \cup Dead
  BY <1>1, <1>2 DEF Covered
<1>7. E \in SUBSET Response /\ Cardinality(E) \in Nat /\ Cardinality(E) <= MaxOpen - 1
  <2> DEFINE all == E \cup Inserting(key)
  <2>1. all \in SUBSET Response /\ E \subseteq all
    BY DEF Elsewhere, BookedOn, Inserting
  <2>2. Cardinality(all) <= MaxOpen - 1
    BY <1>1, <1>2 DEF RowsApart
  <2> HIDE DEF all, E
  <2>3. IsFiniteSet(all) /\ IsFiniteSet(E) /\ Cardinality(E) <= Cardinality(all)
    BY <2>1, FS_Subset
  <2>4. Cardinality(all) \in Nat /\ Cardinality(E) \in Nat
    BY <2>3, FS_CardinalityType
  <2>5. QED
    BY <1>2, <2>1, <2>2, <2>3, <2>4
<1>8. MaxOpen - 1 \in Nat
  <2> HIDE DEF E
  <2>1. QED
    BY <1>2, <1>7
<1>9. Consumed(O) \in Nat /\ Consumed(O) <= MaxOpen * MaxCost
  BY <1>2, <1>3, <1>6, FewCost
<1>10. Consumed(E) \in Nat /\ Consumed(E) <= (MaxOpen - 1) * MaxCost
  <2> HIDE DEF E
  <2>1. QED
    BY <1>3, <1>7, <1>8, FewCost
<1>11. Consumed(F) \in Nat /\ Consumed(F) <= QuotaDaily[t] - MinEstimate
  <2>1. CASE F = {}
    <3>1. Consumed(F) = 0
      BY <2>1, SumOfNone DEF Consumed
    <3>2. QED
      BY <1>2, <1>5, <3>1
  <2>2. CASE F # {}
    <3>1. IsFiniteSet(F) /\ Costs(Cost, F)
      BY <1>4, FS_Subset DEF Costs
    <3>2. Consumed(F) \in Nat
      BY <3>1, SumTyped DEF Consumed
    <3>3. QED
      BY <1>2, <1>5, <1>6, <2>2, <3>2
  <2>3. QED
    BY <2>1, <2>2
<1>12. Consumed(B) \in Nat /\ Consumed(B) <= Consumed(F) + Consumed(O) + Consumed(E)
  <2> DEFINE two == F \cup O
             three == (F \cup O) \cup E
  <2>1. two \in SUBSET Response /\ three \in SUBSET Response
    BY <1>7
  <2>2. B \in SUBSET three
    BY <1>1, <1>6 DEF Elsewhere
  <2>3. \A T \in SUBSET Response : IsFiniteSet(T) /\ Costs(Cost, T) /\ Consumed(T) \in Nat
    <3>1. \A T \in SUBSET Response : IsFiniteSet(T) /\ Costs(Cost, T)
      BY <1>4, FS_Subset DEF Costs
    <3>2. QED
      BY <3>1, SumTyped DEF Consumed
  <2> HIDE DEF B, E
  <2>4. Consumed(two) <= Consumed(F) + Consumed(O)
    BY <1>4, SumOfUnion DEF Consumed
  <2> HIDE DEF two
  <2>5. Consumed(two \cup E) <= Consumed(two) + Consumed(E)
    BY <1>4, <1>7, <2>1, SumOfUnion DEF Consumed
  <2>6. three = two \cup E
    BY DEF two
  <2> HIDE DEF three
  <2>7. Consumed(B) <= Consumed(three)
    <3>1. \A x \in B : Cost[x] <= Cost[x]
      <4>1. \A x \in B : Cost[x] \in Nat
        BY <1>3, HighestCost
      <4>2. \A a \in Nat : a <= a
        OBVIOUS
      <4>3. QED
        BY <4>1, <4>2, Zenon
    <3>2. QED
      BY <2>1, <2>2, <2>3, <3>1, SumGrows DEF Consumed
  <2>8. Consumed(three) <= Consumed(two) + Consumed(E)
    BY <2>5, <2>6, Zenon
  <2>9. /\ Consumed(B) \in Nat /\ Consumed(three) \in Nat /\ Consumed(two) \in Nat
        /\ Consumed(F) \in Nat /\ Consumed(O) \in Nat /\ Consumed(E) \in Nat
    BY <1>3, <1>7, <2>1, <2>3
  <2>10. QED
    BY <2>4, <2>7, <2>8, <2>9
<1>13. MaxOpen * MaxCost + (MaxOpen - 1) * MaxCost = (2 * MaxOpen - 1) * MaxCost
  BY <1>2, <1>4
<1> HIDE DEF B, E
<1>14. MaxOpen * MaxCost \in Nat /\ (MaxOpen - 1) * MaxCost \in Nat
  BY <1>2, <1>4, <1>8
<1>15. Consumed(B) <= (QuotaDaily[t] - MinEstimate) + (MaxOpen * MaxCost + (MaxOpen - 1) * MaxCost)
  <2>1. QuotaDaily[t] - MinEstimate \in Int
    BY <1>2, <1>5
  <2>2. QED
    BY <1>9, <1>10, <1>11, <1>12, <1>14, <2>1, ThreeParts
<1>16. QED
  BY <1>13, <1>15, Zenon DEF B

\* The check before the upstream call is best effort, and misses by no more than this:
\* whatever the tenants, models, quotas, costs and number of requests, through outages,
\* lost acknowledgements, dead letters and their replays, crashes and midnights, with
\* MaxOpen requests open at once the model whose row the check reads passes its tenant's
\* quota, less an estimate, by at most 2 * MaxOpen - 1 of the dearest responses.  Other
\* models of the tenant have no such bound: the run quota_models.
THEOREM OvershootIsBounded ==
    ASSUME IsFiniteSet(Response)
    PROVE  QuotaSpec => []OvershootBounded
<1>1. QuotaInit => OvershootInv
  BY OvershootStart
<1>2. OvershootInv /\ [QuotaNext]_allVars => OvershootInv'
  BY OvershootStep
<1>3. OvershootInv => OvershootBounded
  BY OvershootFollows
<1>4. QED
  BY <1>1, <1>2, <1>3, PTL DEF QuotaSpec

=============================================================================
