--------------------------- MODULE TrackerCallsProofs ---------------------------
(***************************************************************************)
(* Proofs about TrackerCalls, for any users, tokens, market caps, polls    *)
(* and number of calls.  The ledger balances because a rise is credited    *)
(* against the row as it is when the price arrives, and because no call is *)
(* registered in the place of another: the ids of the jobs under way are   *)
(* those of no call yet.  The sum that the property speaks of is a fold,   *)
(* whose equations are derived here from the least element of a set of     *)
(* numbers, which needs no induction rule.                                 *)
(***************************************************************************)
EXTENDS TrackerCalls, FiniteSetTheorems, WellFoundedInduction, TLAPS

------------------------------------------------------------------------------
(* Sums of points *)

\* A set of natural numbers that is not empty has a least element.
LEMMA Least ==
    ASSUME NEW T \in SUBSET Nat, T # {}
    PROVE  \E n \in T : \A m \in T : n <= m
<1> DEFINE R == OpToRel(<, Nat)
<1>1. IsWellFoundedOn(R, Nat)
  BY NatLessThanWellFounded
<1>2. \A x, y \in Nat : x < y => <<x, y>> \in R
  BY DEF OpToRel
<1> HIDE DEF R
<1>3. \E n \in T : \A m \in T : ~ (<<m, n>> \in R)
  BY <1>1, WFMin
<1>4. PICK n \in T : \A m \in T : ~ (<<m, n>> \in R)
  BY <1>3
<1>5. ASSUME NEW m \in T PROVE n <= m
  <2>1. m \in Nat /\ n \in Nat /\ ~(m < n)
    BY <1>2, <1>4
  <2> QED BY <2>1
<1> QED BY <1>5

\* The points of the calls S of a table c, and the element the fold takes first.
Total(c, S) == MapThenSumSet(LAMBDA i : c[i].points, S)
First(s) == CHOOSE x \in s : TRUE

\* The step of the fold, and the sums f of the subsets of S that it forms.
Plus(f, s, c) == IF s = {} THEN 0 ELSE c[First(s)].points + f[s \ {First(s)}]
IsFold(f, S, c) == f = [s \in SUBSET S |-> Plus(f, s, c)]
Sums(f, S, c) == \A s \in SUBSET S : f[s] = Plus(f, s, c)

\* Taking the first element leaves one less.
LEMMA FirstRemoved ==
    ASSUME NEW S, IsFiniteSet(S), S # {}
    PROVE  /\ First(S) \in S /\ IsFiniteSet(S \ {First(S)}) /\ Cardinality(S) \in Nat
           /\ Cardinality(S \ {First(S)}) = Cardinality(S) - 1
<1>1. First(S) \in S
  BY DEF First
<1> QED BY <1>1, FS_RemoveElement, FS_CardinalityType

\* There are such sums, so that the fold's recursive definition defines one.
LEMMA SumsExist ==
    ASSUME NEW S, IsFiniteSet(S), NEW c
    PROVE  \E f : IsFold(f, S, c)
<1> DEFINE Good(n) == \E f : \A s \in SUBSET S : Cardinality(s) <= n => f[s] = Plus(f, s, c)
           Bad == {n \in Nat : ~ Good(n)}
<1>0. ASSUME NEW s \in SUBSET S
      PROVE  /\ IsFiniteSet(s) /\ Cardinality(s) \in Nat /\ Cardinality(s) <= Cardinality(S)
             /\ Cardinality(S) \in Nat
  BY FS_Subset, FS_CardinalityType
<1>z. \A s \in SUBSET S : Cardinality(s) = 0 => s = {}
  BY <1>0, FS_EmptySet
<1>1. Bad = {}
  <2> SUFFICES ASSUME Bad # {} PROVE FALSE
    OBVIOUS
  <2>1. PICK n \in Bad : \A m \in Bad : n <= m
    <3> HIDE DEF Bad
    <3>1. Bad \in SUBSET Nat BY DEF Bad
    <3> QED BY <3>1, Least
  <2>2. n # 0
    <3>1. Good(0)
      <4> DEFINE f == [s \in SUBSET S |-> 0]
      <4>1. \A s \in SUBSET S : Cardinality(s) <= 0 => f[s] = Plus(f, s, c)
        BY <1>0, <1>z DEF Plus
      <4> QED BY <4>1
    <3> QED BY <2>1, <3>1
  <2>3. Good(n - 1)
    <3>1. n \in Nat /\ n - 1 \in Nat /\ ~(n <= n - 1)
      BY <2>2
    <3>2. n - 1 \notin Bad
      BY <2>1, <3>1
    <3> HIDE DEF Good
    <3> QED BY <3>1, <3>2
  <2>4. PICK f : \A s \in SUBSET S : Cardinality(s) <= n - 1 => f[s] = Plus(f, s, c)
    BY <2>3
  <2> DEFINE g == [s \in SUBSET S |-> Plus(f, s, c)]
  <2>5. ASSUME NEW s \in SUBSET S, Cardinality(s) <= n PROVE g[s] = Plus(g, s, c)
    <3>1. CASE s = {}
      BY <3>1 DEF Plus
    <3>2. CASE s # {}
      <4> DEFINE r == s \ {First(s)}
      <4>1. r \in SUBSET S /\ Cardinality(r) <= n - 1
        BY <1>0, <2>1, <2>5, <3>2, FirstRemoved
      <4>2. g[r] = f[r]
        BY <2>4, <4>1
      <4> QED BY <3>2, <4>2 DEF Plus
    <3> QED BY <3>1, <3>2
  <2>6. Good(n)
    <3> HIDE DEF g
    <3> QED BY <2>5
  <2> QED BY <2>1, <2>6
<1>2. Good(Cardinality(S))
  BY <1>1, FS_CardinalityType
<1>3. PICK f : \A s \in SUBSET S : f[s] = Plus(f, s, c)
  BY <1>0, <1>2
<1> DEFINE g == [s \in SUBSET S |-> Plus(f, s, c)]
<1>4. \A s \in SUBSET S : Plus(f, s, c) = Plus(g, s, c)
  <2> TAKE s \in SUBSET S
  <2>1. s \ {First(s)} \in SUBSET S
    OBVIOUS
  <2>2. g[s \ {First(s)}] = f[s \ {First(s)}]
    BY <1>3, <2>1
  <2> QED BY <2>2 DEF Plus
<1>5. g = [s \in SUBSET S |-> Plus(g, s, c)]
  BY <1>4
<1> HIDE DEF g
<1> QED BY <1>5 DEF IsFold

\* A total is such a sum.
LEMMA TotalIsSum ==
    ASSUME NEW S, IsFiniteSet(S), NEW c
    PROVE  \E f : Sums(f, S, c) /\ Total(c, S) = f[S]
<1> DEFINE f == CHOOSE f : IsFold(f, S, c)
<1>1. IsFold(f, S, c)
  BY SumsExist
<1>2. Total(c, S) = f[S]
  BY DEF Total, MapThenSumSet, MapThenFoldSet, First, IsFold, Plus
<1> HIDE DEF f
<1>3. Sums(f, S, c)
  BY <1>1 DEF IsFold, Sums
<1> QED BY <1>2, <1>3

\* Sums of a set do not depend on the larger set they were formed in.
LEMMA SumsUnique ==
    ASSUME NEW S, IsFiniteSet(S), NEW T, S \subseteq T, NEW c, NEW f, NEW g,
           Sums(f, S, c), Sums(g, T, c)
    PROVE  f[S] = g[S]
<1> DEFINE Bad == {n \in Nat : \E s \in SUBSET S : Cardinality(s) = n /\ f[s] # g[s]}
<1>0. ASSUME NEW s \in SUBSET S PROVE IsFiniteSet(s) /\ Cardinality(s) \in Nat
  BY FS_Subset, FS_CardinalityType
<1>1. Bad = {}
  <2> SUFFICES ASSUME Bad # {} PROVE FALSE
    OBVIOUS
  <2>1. PICK n \in Bad : \A m \in Bad : n <= m
    <3> HIDE DEF Bad
    <3>1. Bad \in SUBSET Nat BY DEF Bad
    <3> QED BY <3>1, Least
  <2>2. PICK s \in SUBSET S : Cardinality(s) = n /\ f[s] # g[s]
    BY <2>1
  <2>3. s # {}
    BY <2>2 DEF Sums, Plus
  <2> DEFINE r == s \ {First(s)}
  <2>4. r \in SUBSET S /\ Cardinality(r) \in Nat /\ Cardinality(r) < n
    BY <1>0, <2>1, <2>2, <2>3, FirstRemoved
  <2>5. f[r] = g[r]
    <3> HIDE DEF r
    <3>1. n \in Nat /\ ~(n <= Cardinality(r))
      BY <2>1, <2>4
    <3>2. Cardinality(r) \notin Bad
      BY <2>1, <3>1
    <3> QED BY <2>4, <3>2
  <2>6. f[s] = c[First(s)].points + f[r] /\ g[s] = c[First(s)].points + g[r]
    BY <2>3 DEF Sums, Plus
  <2> QED BY <2>2, <2>5, <2>6
<1> QED BY <1>0, <1>1

\* Sums are numbers, and any element may be taken first.
LEMMA SumsRemove ==
    ASSUME NEW S, IsFiniteSet(S), NEW c, \A i \in S : c[i].points \in Int, NEW f, Sums(f, S, c)
    PROVE  /\ f[S] \in Int
           /\ \A x \in S : f[S] = c[x].points + f[S \ {x}]
<1> DEFINE Nice(s) == f[s] \in Int /\ \A x \in s : f[s] = c[x].points + f[s \ {x}]
           Bad == {n \in Nat : \E s \in SUBSET S : Cardinality(s) = n /\ ~Nice(s)}
<1>0. ASSUME NEW s \in SUBSET S PROVE IsFiniteSet(s) /\ Cardinality(s) \in Nat
  BY FS_Subset, FS_CardinalityType
<1>1. Bad = {}
  <2> SUFFICES ASSUME Bad # {} PROVE FALSE
    OBVIOUS
  <2>1. PICK n \in Bad : \A m \in Bad : n <= m
    <3> HIDE DEF Bad
    <3>1. Bad \in SUBSET Nat BY DEF Bad
    <3> QED BY <3>1, Least
  <2>2. PICK s \in SUBSET S : Cardinality(s) = n /\ ~Nice(s)
    BY <2>1
  <2>3. s # {}
    <3>1. f[{}] = 0
      BY DEF Sums, Plus
    <3>2. Nice({})
      BY <3>1
    <3> HIDE DEF Nice
    <3> QED BY <2>2, <3>2
  <2>4. ASSUME NEW r \in SUBSET S, Cardinality(r) < n PROVE Nice(r)
    <3>1. n \in Nat /\ Cardinality(r) \in Nat /\ ~(n <= Cardinality(r))
      BY <1>0, <2>1, <2>4
    <3>2. Cardinality(r) \notin Bad
      BY <2>1, <3>1
    <3> HIDE DEF Nice
    <3> QED BY <3>1, <3>2
  <2>5. ASSUME NEW x \in s PROVE s \ {x} \in SUBSET S /\ Cardinality(s \ {x}) < n
    <3>1. IsFiniteSet(s) /\ n \in Nat
      BY <1>0, <2>1
    <3>2. Cardinality(s \ {x}) = Cardinality(s) - 1
      BY <3>1, FS_RemoveElement
    <3> QED BY <2>2, <3>1, <3>2
  <2> DEFINE y == First(s)
  <2>6. y \in s /\ f[s] = c[y].points + f[s \ {y}] /\ c[y].points \in Int
    BY <2>3 DEF Sums, Plus, First
  <2> HIDE DEF y
  <2>7. Nice(s \ {y})
    <3> HIDE DEF Nice
    <3> QED BY <2>4, <2>5, <2>6
  <2>8. f[s] \in Int
    BY <2>6, <2>7
  <2>9. ASSUME NEW x \in s, x # y PROVE f[s] = c[x].points + f[s \ {x}]
    <3>1. Nice(s \ {x})
      <4> HIDE DEF Nice
      <4> QED BY <2>4, <2>5
    <3>2. f[s \ {y}] = c[x].points + f[(s \ {y}) \ {x}]
      BY <2>7, <2>9
    <3>3. f[s \ {x}] = c[y].points + f[(s \ {x}) \ {y}] /\ f[s \ {x}] \in Int
      BY <2>6, <2>9, <3>1
    <3>4. (s \ {y}) \ {x} = (s \ {x}) \ {y}
      OBVIOUS
    <3>5. Nice((s \ {x}) \ {y})
      <4>1. (s \ {x}) \ {y} \in SUBSET S /\ Cardinality((s \ {x}) \ {y}) < n
        <5>1. IsFiniteSet(s \ {x}) /\ Cardinality(s \ {x}) \in Nat /\ y \in s \ {x}
          BY <1>0, <2>5, <2>6, <2>9
        <5>2. Cardinality((s \ {x}) \ {y}) = Cardinality(s \ {x}) - 1
          BY <5>1, FS_RemoveElement
        <5>3. n \in Nat
          BY <2>1
        <5> QED BY <2>5, <5>1, <5>2, <5>3
      <4> HIDE DEF Nice
      <4> QED BY <2>4, <4>1
    <3>6. c[x].points \in Int /\ c[y].points \in Int /\ f[(s \ {x}) \ {y}] \in Int
      BY <2>6, <3>5
    <3>7. PICK a, b, d, e : /\ a = c[x].points /\ b = c[y].points
                             /\ d = f[(s \ {x}) \ {y}] /\ e = f[s \ {x}]
      OBVIOUS
    <3>8. f[s] = b + (a + d) /\ e = b + d /\ {a, b, d} \subseteq Int
      BY <2>6, <3>2, <3>3, <3>4, <3>6, <3>7
    <3>9. f[s] = a + e
      BY <3>8
    <3> QED BY <3>7, <3>9
  <2> QED BY <2>2, <2>6, <2>8, <2>9
<1>2. Cardinality(S) \notin Bad
  BY <1>1
<1> QED BY <1>0, <1>2

\* No calls have no points.
LEMMA TotalEmpty ==
    ASSUME NEW c
    PROVE  Total(c, {}) = 0
<1>1. PICK f : Sums(f, {}, c) /\ Total(c, {}) = f[{}]
  BY FS_EmptySet, TotalIsSum
<1> QED BY <1>1 DEF Sums, Plus

\* A total is a number, and any call may be taken out of it.
LEMMA TotalRemove ==
    ASSUME NEW S, IsFiniteSet(S), NEW c, \A i \in S : c[i].points \in Int
    PROVE  /\ Total(c, S) \in Int
           /\ \A x \in S : Total(c, S) = c[x].points + Total(c, S \ {x})
<1>1. PICK f : Sums(f, S, c) /\ Total(c, S) = f[S]
  BY TotalIsSum
<1>2. ASSUME NEW x \in S PROVE Total(c, S \ {x}) = f[S \ {x}]
  <2>1. IsFiniteSet(S \ {x}) /\ S \ {x} \subseteq S
    BY FS_Subset
  <2>2. PICK g : Sums(g, S \ {x}, c) /\ Total(c, S \ {x}) = g[S \ {x}]
    BY <2>1, TotalIsSum
  <2> QED BY <1>1, <2>1, <2>2, SumsUnique
<1>3. f[S] \in Int /\ \A x \in S : f[S] = c[x].points + f[S \ {x}]
  <2>1. Sums(f, S, c)
    BY <1>1
  <2>2. f[S] \in Int
    BY <2>1, SumsRemove
  <2>3. ASSUME NEW x \in S PROVE f[S] = c[x].points + f[S \ {x}]
    BY <2>1, SumsRemove
  <2> QED BY <2>2, <2>3
<1> QED BY <1>1, <1>2, <1>3

\* A total depends on the points only.
LEMMA TotalAgrees ==
    ASSUME NEW S, IsFiniteSet(S), NEW c, NEW d, \A i \in S : c[i].points = d[i].points
    PROVE  Total(c, S) = Total(d, S)
<1>1. PICK f : Sums(f, S, c) /\ Total(c, S) = f[S]
  BY TotalIsSum
<1>2. PICK g : Sums(g, S, d) /\ Total(d, S) = g[S]
  BY TotalIsSum
<1>3. \A s \in SUBSET S : s # {} => First(s) \in S
  BY DEF First
<1>4. Sums(f, S, d)
  BY <1>1, <1>3 DEF Sums, Plus
<1> QED BY <1>1, <1>2, <1>4, SumsUnique

------------------------------------------------------------------------------
(* The points of a user's calls *)

Call == [user : User, at : Mcap, ath : Mcap, points : -1..5, finalized : BOOLEAN]

\* A table of the calls of the jobs up to n.
Table(c, n) == /\ n \in Nat /\ DOMAIN c \subseteq 1..n
               /\ \A i \in DOMAIN c : c[i] \in Call

Owned(c, u) == {i \in DOMAIN c : c[i].user = u}

\* A user's calls are finitely many and have numbers of points.
LEMMA OwnedFacts ==
    ASSUME NEW c, NEW n, Table(c, n), NEW u
    PROVE  /\ IsFiniteSet(Owned(c, u)) /\ Awarded(c, u) = Total(c, Owned(c, u))
           /\ \A i \in Owned(c, u) : c[i].points \in Int
           /\ Awarded(c, u) \in Int
<1>1. IsFiniteSet(1..n)
  BY FS_Interval DEF Table
<1>2. Owned(c, u) \subseteq 1..n
  BY DEF Owned, Table
<1>3. IsFiniteSet(Owned(c, u))
  BY <1>1, <1>2, FS_Subset
<1>4. Awarded(c, u) = Total(c, Owned(c, u))
  BY DEF Awarded, Total, Owned
<1>5. ASSUME NEW i \in Owned(c, u) PROVE c[i].points \in Int
  <2>1. c[i].points \in -1..5
    BY DEF Owned, Table, Call
  <2> QED BY <2>1
<1> QED BY <1>3, <1>4, <1>5, TotalRemove

\* Rows that keep their user and their points keep the user's sum.
LEMMA AwardedSame ==
    ASSUME NEW c, NEW n, Table(c, n), NEW d, Table(d, n), DOMAIN d = DOMAIN c,
           \A i \in DOMAIN c : d[i].user = c[i].user /\ d[i].points = c[i].points, NEW u
    PROVE  Awarded(d, u) = Awarded(c, u)
<1>1. Owned(d, u) = Owned(c, u)
  BY DEF Owned
<1>2. IsFiniteSet(Owned(c, u)) /\ \A i \in Owned(c, u) : d[i].points = c[i].points
  <2>1. IsFiniteSet(Owned(c, u))
    BY OwnedFacts
  <2> QED BY <2>1 DEF Owned
<1>3. Total(d, Owned(c, u)) = Total(c, Owned(c, u))
  BY <1>2, TotalAgrees
<1> QED BY <1>1, <1>3, OwnedFacts

\* A new row without points changes no sum.
LEMMA AwardedPut ==
    ASSUME NEW c, NEW n, Table(c, n), NEW j, j \notin DOMAIN c, NEW row, row.points = 0,
           Table(Put(c, j, row), n), NEW u
    PROVE  Awarded(Put(c, j, row), u) = Awarded(c, u)
<1> DEFINE d == Put(c, j, row)
<1>1. /\ DOMAIN d = DOMAIN c \cup {j} /\ d[j] = row
      /\ \A i \in DOMAIN c : d[i] = c[i]
  BY DEF Put
<1> HIDE DEF d
<1>2. Total(d, Owned(c, u)) = Total(c, Owned(c, u))
  BY <1>1, OwnedFacts, TotalAgrees DEF Owned
<1>3. CASE row.user = u
  <2>1. Owned(d, u) \ {j} = Owned(c, u) /\ j \in Owned(d, u)
    BY <1>1, <1>3 DEF Owned
  <2>2. Total(d, Owned(d, u)) = 0 + Total(d, Owned(c, u))
    BY <1>1, <2>1, OwnedFacts, TotalRemove DEF d
  <2>3. Awarded(c, u) \in Int /\ Awarded(c, u) = Total(c, Owned(c, u))
    BY OwnedFacts
  <2>4. Awarded(d, u) = Total(d, Owned(d, u))
    BY OwnedFacts DEF d
  <2>5. Awarded(d, u) = Awarded(c, u)
    BY <1>2, <2>2, <2>3, <2>4
  <2> QED BY <2>5 DEF d
<1>4. CASE row.user # u
  <2>1. Owned(d, u) = Owned(c, u)
    BY <1>1, <1>4 DEF Owned
  <2>2. Awarded(d, u) = Awarded(c, u)
    BY <1>2, <2>1, OwnedFacts DEF d
  <2> QED BY <2>2 DEF d
<1> QED BY <1>3, <1>4

\* A row whose points change moves the sum of its user by the difference.
LEMMA AwardedChanged ==
    ASSUME NEW c, NEW n, Table(c, n), NEW d, Table(d, n), DOMAIN d = DOMAIN c,
           NEW j \in DOMAIN c, d[j].user = c[j].user, \A i \in DOMAIN c \ {j} : d[i] = c[i],
           NEW u
    PROVE  Awarded(d, u) = Awarded(c, u) +
               IF c[j].user = u THEN d[j].points - c[j].points ELSE 0
<1>1. Owned(d, u) = Owned(c, u)
  BY DEF Owned
<1>2. CASE c[j].user = u
  <2> DEFINE rest == Owned(c, u) \ {j}
  <2>1. IsFiniteSet(rest) /\ j \in Owned(c, u) /\ rest = Owned(d, u) \ {j}
    <3>1. IsFiniteSet(Owned(c, u))
      BY OwnedFacts
    <3>2. IsFiniteSet(rest) /\ rest = Owned(d, u) \ {j}
      BY <1>1, <3>1, FS_Subset
    <3>3. j \in Owned(c, u)
      BY <1>2 DEF Owned
    <3> QED BY <3>2, <3>3
  <2>2. \A i \in rest : d[i].points = c[i].points
    BY DEF Owned
  <2>3. Total(d, rest) = Total(c, rest)
    BY <2>1, <2>2, TotalAgrees
  <2>4. Total(c, Owned(c, u)) = c[j].points + Total(c, rest)
    BY <2>1, OwnedFacts, TotalRemove
  <2>5. Total(d, Owned(d, u)) = d[j].points + Total(d, rest)
    BY <1>1, <2>1, OwnedFacts, TotalRemove
  <2>6. \A i \in rest : c[i].points \in Int
    BY OwnedFacts
  <2>7. Total(c, rest) \in Int
    BY <2>1, <2>6, TotalRemove
  <2>8. c[j].points \in Int /\ d[j].points \in Int
    BY <1>1, <2>1, OwnedFacts
  <2>9. Awarded(c, u) = Total(c, Owned(c, u)) /\ Awarded(d, u) = Total(d, Owned(d, u))
    BY OwnedFacts
  <2> HIDE DEF rest
  <2> QED BY <1>2, <2>3, <2>4, <2>5, <2>7, <2>8, <2>9
<1>3. CASE c[j].user # u
  <2>1. \A i \in Owned(c, u) : d[i].points = c[i].points
    BY <1>3 DEF Owned
  <2>2. Total(d, Owned(c, u)) = Total(c, Owned(c, u))
    BY <2>1, OwnedFacts, TotalAgrees
  <2> QED BY <1>1, <1>3, <2>2, OwnedFacts
<1> QED BY <1>2, <1>3

\* A table without calls awards nothing.
LEMMA AwardedNothing ==
    ASSUME NEW u
    PROVE  Awarded(<<>>, u) = 0
<1>1. Owned(<<>>, u) = {}
  BY DEF Owned
<1>2. Awarded(<<>>, u) = Total(<<>>, Owned(<<>>, u))
  BY DEF Awarded, Total, Owned
<1> QED BY <1>1, <1>2, TotalEmpty

------------------------------------------------------------------------------
(* Rises and final calls *)

\* Points are between -1 and 5.
LEMMA CalcPointsType ==
    ASSUME NEW at \in Mcap, NEW ath \in Mcap
    PROVE  CalcPoints(at, ath) \in -1..5
<1>1. at \in Nat /\ ath \in Nat
  BY TrackerAssumption
<1> QED BY <1>1 DEF CalcPoints

\* A price raises one call's high, of a call that is not final, or none.
LEMMA WithAthFacts ==
    ASSUME NEW c, NEW n, Table(c, n), NEW i, NEW m \in Mcap
    PROVE  LET d == WithAth(c, i, m) IN
           /\ Table(d, n) /\ DOMAIN d = DOMAIN c
           /\ ~Raised(c, i, m) => d = c
           /\ Raised(c, i, m) =>
                  /\ i \in DOMAIN c /\ ~c[i].finalized /\ \A k \in DOMAIN c \ {i} : d[k] = c[k]
                  /\ d[i].user = c[i].user /\ d[i].ath = m /\ m >= c[i].ath
                  /\ d[i].points = CalcPoints(c[i].at, m)
<1>1. CASE ~Raised(c, i, m)
  BY <1>1 DEF WithAth
<1>2. CASE Raised(c, i, m)
  <2> DEFINE p == CalcPoints(c[i].at, m)
             row == [c[i] EXCEPT !.ath = m, !.points = p]
             d == WithAth(c, i, m)
  <2>1. i \in DOMAIN c /\ ~c[i].finalized /\ m > c[i].ath /\ c[i] \in Call
    BY <1>2 DEF Raised, Table
  <2>2. p \in -1..5
    BY <2>1, CalcPointsType DEF Call
  <2> HIDE DEF p
  <2>3. d = [c EXCEPT ![i] = row]
    BY <1>2, <2>1 DEF WithAth, p
  <2>4. row \in Call /\ row.user = c[i].user /\ row.ath = m /\ row.points = p
    BY <2>1, <2>2 DEF Call
  <2> HIDE DEF row, d
  <2>5. DOMAIN d = DOMAIN c /\ d[i] = row /\ \A k \in DOMAIN c \ {i} : d[k] = c[k]
    BY <2>1, <2>3
  <2>6. Table(d, n)
    BY <2>4, <2>5 DEF Table
  <2>7. m >= c[i].ath
    <3>1. m \in Nat /\ c[i].ath \in Nat
      BY <2>1, TrackerAssumption DEF Call
    <3> QED BY <2>1, <3>1
  <2> QED BY <1>2, <2>1, <2>4, <2>5, <2>6, <2>7 DEF d, p
<1> QED BY <1>1, <1>2

\* Finalizing changes nothing else, and nothing of a call that is final.
LEMMA FinalizeFacts ==
    ASSUME NEW c, NEW n, Table(c, n), NEW S
    PROVE  LET d == Finalize(c, S) IN
           /\ Table(d, n) /\ DOMAIN d = DOMAIN c
           /\ \A k \in DOMAIN c :
                  /\ d[k].user = c[k].user /\ d[k].points = c[k].points
                  /\ d[k].ath = c[k].ath
                  /\ c[k].finalized => d[k] = c[k]
<1> DEFINE d == Finalize(c, S)
<1>1. DOMAIN d = DOMAIN c
  BY DEF Finalize
<1>2. ASSUME NEW k \in DOMAIN c
      PROVE  /\ d[k] \in Call /\ d[k].user = c[k].user /\ d[k].points = c[k].points
             /\ d[k].ath = c[k].ath
             /\ c[k].finalized => d[k] = c[k]
  <2>1. c[k] \in Call
    BY DEF Table
  <2>2. d[k] = c[k] \/ d[k] = [c[k] EXCEPT !.finalized = TRUE]
    BY DEF Finalize
  <2> QED BY <2>1, <2>2 DEF Call
<1>3. Table(d, n)
  BY <1>1, <1>2 DEF Table
<1> QED BY <1>1, <1>2, <1>3

Activation == [on : 0..jobs, rest : SUBSET (1..jobs)]

\* The loop leaves a poll at a call of its snapshot or idle.
LEMMA RunLoopFacts ==
    ASSUME jobs \in Nat, poll \in [Poller -> Activation], NEW p \in Poller, NEW c,
           NEW todo \in SUBSET (1..jobs), RunLoop(p, c, todo)
    PROVE  /\ poll' \in [Poller -> Activation]
           /\ \E S : calls' = Finalize(c, S)
<1> DEFINE young == todo \ old
           next == IF young = {} THEN 0 ELSE Min(young)
           passed == {i \in todo : next = 0 \/ i < next}
<1>0. young \subseteq 1..jobs /\ 1..jobs \subseteq Nat /\ 1..jobs \subseteq 0..jobs
  <2>1. young \subseteq 1..jobs
    OBVIOUS
  <2>2. 1..jobs \subseteq Nat /\ 1..jobs \subseteq 0..jobs
    OBVIOUS
  <2> QED BY <2>1, <2>2
<1> HIDE DEF young
<1>1. next \in 0..jobs
  <2>1. CASE young = {}
    BY <2>1
  <2>2. CASE young # {}
    <3>1. young \in SUBSET Nat
      BY <1>0
    <3>2. \E x \in young : \A y \in young : x <= y
      BY <2>2, <3>1, Least
    <3>3. Min(young) \in young
      BY <3>2 DEF Min
    <3> QED BY <1>0, <2>2, <3>3
  <2> QED BY <2>1, <2>2
<1>2. /\ calls' = Finalize(c, passed)
      /\ poll' = [poll EXCEPT ![p] = [on |-> next, rest |-> todo \ (passed \cup {next})]]
  BY DEF RunLoop, young
<1> HIDE DEF next
<1>3. [on |-> next, rest |-> todo \ (passed \cup {next})] \in Activation
  BY <1>1 DEF Activation
<1> QED BY <1>2, <1>3

------------------------------------------------------------------------------
(* The invariant *)

JobInv == /\ jobs \in 0..MaxJobs /\ DOMAIN job \subseteq 1..jobs
          /\ \A j \in DOMAIN job :
                 job[j] \in [stage : {"timer", "fetch"}, user : User, token : Token]
          /\ pending \in [Token -> 0..jobs]
          /\ offered \subseteq Token /\ busy \in {0} \cup DOMAIN job
          /\ blocked \subseteq User

TableInv == Table(calls, jobs) /\ old \subseteq 1..jobs
PointsInv == points \in [User -> Int] /\ wiped \in [User -> Int]
PollInv == poll \in [Poller -> Activation]

\* The calls that jobs under way will register are not in the table yet.
NewInv == DOMAIN job \cap DOMAIN calls = {}

IInv == JobInv /\ TableInv /\ PointsInv /\ PollInv /\ NewInv /\ LedgerBalances

\* The invariant holds at first.
LEMMA InitInv == Init => IInv
<1> SUFFICES ASSUME Init PROVE IInv
  OBVIOUS
<1>1. Table(calls, jobs)
  BY DEF Init, Table
<1>2. LedgerBalances
  BY AwardedNothing DEF Init, LedgerBalances
<1>3. JobInv /\ PointsInv /\ NewInv /\ old \subseteq 1..jobs
  BY TrackerAssumption DEF Init, JobInv, PointsInv, NewInv
<1>4. PollInv
  BY DEF Init, PollInv, Activation
<1> QED BY <1>1, <1>2, <1>3, <1>4 DEF IInv, TableInv

\* A job more leaves room for what is known of the others.
LEMMA JobsGrow ==
    ASSUME IInv, jobs' \in Nat, jobs <= jobs', UNCHANGED <<calls, old, points, wiped, poll>>
    PROVE  TableInv' /\ PointsInv' /\ PollInv' /\ LedgerBalances'
<1>1. jobs \in Nat /\ 1..jobs \subseteq 1..jobs' /\ 0..jobs \subseteq 0..jobs'
  BY DEF IInv, JobInv
<1>2. TableInv'
  BY <1>1 DEF IInv, TableInv, Table
<1>3. PollInv'
  <2>1. Activation \subseteq Activation'
    BY <1>1 DEF Activation
  <2> QED BY <2>1 DEF IInv, PollInv
<1> QED BY <1>2, <1>3 DEF IInv, PointsInv, LedgerBalances

\* A new job keeps the invariant.
LEMMA NewJobInv ==
    ASSUME IInv, NEW stage \in {"timer", "fetch"}, NEW u \in User, NEW t \in Token,
           NewJob(stage, u, t), pending' \in [Token -> 0..jobs'], busy' \in {0, jobs + 1}
    PROVE  IInv'
<1>1. jobs \in Nat /\ jobs' = jobs + 1 /\ jobs' \in 0..MaxJobs /\ MaxJobs \in Nat
  BY TrackerAssumption DEF NewJob, IInv, JobInv
<1>2. /\ DOMAIN job' = DOMAIN job \cup {jobs + 1}
      /\ \A j \in DOMAIN job' :
             job'[j] \in [stage : {"timer", "fetch"}, user : User, token : Token]
  BY DEF NewJob, Put, IInv, JobInv
<1>3. jobs + 1 \notin 1..jobs /\ 1..(jobs + 1) = 1..jobs \cup {jobs + 1}
  BY <1>1
<1>4. JobInv'
  BY <1>1, <1>2, <1>3 DEF JobInv, IInv, NewJob
<1>5. NewInv'
  BY <1>2, <1>3 DEF NewInv, IInv, TableInv, Table, NewJob
<1>6. TableInv' /\ PointsInv' /\ PollInv' /\ LedgerBalances'
  BY <1>1, JobsGrow DEF NewJob
<1> QED BY <1>4, <1>5, <1>6 DEF IInv

\* The commands and timers that register nothing keep it.
LEMMA BotInv ==
    ASSUME IInv,
           \/ \E u \in User, t \in Token : AutoMessage(u, t) \/ ButtonMessage(u, t)
           \/ \E u \in User, t \in Token, command \in BOOLEAN : CallNow(u, t, command)
           \/ \E j \in DOMAIN job : TimerFires(j)
           \/ \E t \in Token : CancelCall(t)
           \/ \E u \in User : SetBlocked(u)
    PROVE  IInv'
<1>0. jobs \in Nat /\ 0..jobs \subseteq 0..(jobs + 1) /\ jobs + 1 \in 0..(jobs + 1)
  BY DEF IInv, JobInv
<1>1. ASSUME NEW u \in User, NEW t \in Token, AutoMessage(u, t) PROVE IInv'
  <2>1. NewJob("timer", u, t) /\ busy' \in {0, jobs + 1} /\ jobs' = jobs + 1
    BY <1>1 DEF AutoMessage, NewJob
  <2>2. pending' \in [Token -> 0..jobs']
    BY <1>0, <1>1, <2>1 DEF AutoMessage, IInv, JobInv
  <2> QED BY <2>1, <2>2, NewJobInv
<1>2. ASSUME NEW u \in User, NEW t \in Token, ButtonMessage(u, t) PROVE IInv'
  <2>1. TableInv' /\ PointsInv' /\ PollInv' /\ LedgerBalances'
    BY <1>0, <1>2, JobsGrow DEF ButtonMessage
  <2> QED BY <1>2, <2>1 DEF ButtonMessage, IInv, JobInv, NewInv
<1>3. ASSUME NEW u \in User, NEW t \in Token, NEW command \in BOOLEAN,
             CallNow(u, t, command)
      PROVE  IInv'
  <2>1. NewJob("fetch", u, t) /\ busy' \in {0, jobs + 1} /\ jobs' = jobs + 1
    BY <1>3 DEF CallNow, NewJob
  <2>2. pending' \in [Token -> 0..jobs']
    BY <1>0, <1>3, <2>1 DEF CallNow, IInv, JobInv
  <2> QED BY <2>1, <2>2, NewJobInv
<1>4. ASSUME NEW j \in DOMAIN job, TimerFires(j) PROVE IInv'
  <2>1. TableInv' /\ PointsInv' /\ PollInv' /\ LedgerBalances'
    BY <1>0, <1>4, JobsGrow DEF TimerFires
  <2>2. job' = [job EXCEPT ![j].stage = "fetch"] /\ DOMAIN job' = DOMAIN job
    BY <1>4 DEF TimerFires
  <2>3. pending' \in [Token -> 0..jobs]
    BY <1>0, <1>4 DEF TimerFires, IInv, JobInv
  <2>4. JobInv'
    BY <1>4, <2>2, <2>3 DEF TimerFires, IInv, JobInv
  <2> QED BY <1>4, <2>1, <2>2, <2>4 DEF TimerFires, IInv, NewInv
<1>5. ASSUME NEW t \in Token, CancelCall(t) PROVE IInv'
  <2>1. TableInv' /\ PointsInv' /\ PollInv' /\ LedgerBalances'
    BY <1>0, <1>5, JobsGrow DEF CancelCall
  <2>2. DOMAIN job' \subseteq DOMAIN job /\ \A j \in DOMAIN job' : job'[j] = job[j]
    BY <1>5 DEF CancelCall, Drop
  <2>3. pending' \in [Token -> 0..jobs]
    BY <1>0, <1>5 DEF CancelCall, IInv, JobInv
  <2>4. JobInv'
    BY <1>5, <2>2, <2>3 DEF CancelCall, IInv, JobInv
  <2> QED BY <1>5, <2>1, <2>2, <2>4 DEF CancelCall, IInv, NewInv
<1>6. ASSUME NEW u \in User, SetBlocked(u) PROVE IInv'
  <2>1. TableInv' /\ PointsInv' /\ PollInv' /\ LedgerBalances'
    BY <1>0, <1>6, JobsGrow DEF SetBlocked
  <2> QED BY <1>6, <2>1 DEF SetBlocked, IInv, JobInv, NewInv
<1> QED BY <1>1, <1>2, <1>3, <1>4, <1>5, <1>6

\* So does a registration: the row it adds is new and has no points.
LEMMA RegisterInv ==
    ASSUME IInv, NEW j \in DOMAIN job, Register(j)
    PROVE  IInv' /\ \A i \in DOMAIN calls : i \in DOMAIN calls' /\ calls'[i] = calls[i]
<1>1. /\ job' = Drop(job, {j}) /\ DOMAIN job' = DOMAIN job \ {j}
      /\ \A i \in DOMAIN job' : job'[i] = job[i]
  BY DEF Register, Drop
<1>2. JobInv'
  BY <1>1 DEF Register, IInv, JobInv
<1>3. CASE UNCHANGED calls
  BY <1>1, <1>2, <1>3 DEF Register, IInv, TableInv, PointsInv, PollInv, Activation, NewInv,
                          LedgerBalances
<1>4. ASSUME NEW m \in Mcap, NEW row,
             row = [user |-> job[j].user, at |-> m, ath |-> m, points |-> 0,
                    finalized |-> FALSE],
             calls' = Put(calls, j, row)
      PROVE  IInv' /\ \A i \in DOMAIN calls : i \in DOMAIN calls' /\ calls'[i] = calls[i]
  <2>1. j \notin DOMAIN calls /\ j \in 1..jobs /\ row \in Call /\ row.points = 0
    BY <1>4 DEF IInv, NewInv, JobInv, Call
  <2>2. /\ DOMAIN calls' = DOMAIN calls \cup {j} /\ calls'[j] = row
        /\ \A i \in DOMAIN calls : calls'[i] = calls[i]
    BY <1>4, <2>1 DEF Put
  <2>3. Table(calls', jobs)
    BY <2>1, <2>2 DEF IInv, TableInv, Table
  <2>4. \A u : Awarded(calls', u) = Awarded(calls, u)
    BY <1>4, <2>1, <2>3, AwardedPut DEF IInv, TableInv
  <2>5. LedgerBalances'
    BY <2>4 DEF IInv, LedgerBalances, Register
  <2>6. TableInv' /\ PointsInv' /\ PollInv'
    BY <2>3 DEF IInv, TableInv, PointsInv, PollInv, Activation, Register
  <2>7. NewInv'
    BY <1>1, <2>2 DEF IInv, NewInv
  <2> QED BY <1>2, <2>2, <2>5, <2>6, <2>7 DEF IInv
<1> QED BY <1>3, <1>4 DEF Register

\* Wiping moves what the calls were awarded to the account of wiped calls.
LEMMA WipeInv ==
    ASSUME IInv, Wipe
    PROVE  IInv' /\ DOMAIN calls' = {}
<1>1. /\ calls' = <<>> /\ UNCHANGED <<botVars, old, points, poll>>
      /\ wiped' = [u \in User |-> wiped[u] + Awarded(calls, u)]
  BY DEF Wipe
<1>2. \A u : Awarded(calls, u) \in Int
  BY OwnedFacts DEF IInv, TableInv
<1>3. LedgerBalances'
  <2>1. ASSUME NEW u \in User PROVE points'[u] = Awarded(calls', u) + wiped'[u]
    <3>1. points[u] = Awarded(calls, u) + wiped[u] /\ wiped[u] \in Int
      BY DEF IInv, PointsInv, LedgerBalances
    <3>2. Awarded(calls', u) = 0
      BY <1>1, AwardedNothing
    <3> QED BY <1>1, <1>2, <3>1, <3>2
  <2> QED BY <2>1 DEF LedgerBalances
<1>4. PointsInv'
  BY <1>1, <1>2 DEF IInv, PointsInv
<1>5. TableInv' /\ PollInv' /\ JobInv' /\ NewInv' /\ DOMAIN calls' = {}
  BY <1>1 DEF IInv, TableInv, Table, PollInv, Activation, JobInv, NewInv, botVars
<1> QED BY <1>3, <1>4, <1>5 DEF IInv

\* What the loop of a poll leaves, on a table c that is the present one or has one
\* call's high raised.
LEMMA LoopInv ==
    ASSUME IInv, NEW p \in Poller, NEW c, Table(c, jobs), DOMAIN c = DOMAIN calls,
           NEW todo \in SUBSET (1..jobs), RunLoop(p, c, todo),
           UNCHANGED <<botVars, old, wiped>>, points' \in [User -> Int],
           \A u \in User : points'[u] = Awarded(c, u) + wiped[u]
    PROVE  IInv'
<1>1. poll' \in [Poller -> Activation] /\ \E S : calls' = Finalize(c, S)
  BY RunLoopFacts DEF IInv, JobInv, PollInv
<1>2. PICK S : calls' = Finalize(c, S)
  BY <1>1
<1>3. /\ Table(calls', jobs) /\ DOMAIN calls' = DOMAIN c
      /\ \A k \in DOMAIN c : calls'[k].user = c[k].user /\ calls'[k].points = c[k].points
  BY <1>2, FinalizeFacts
<1>4. \A u : Awarded(calls', u) = Awarded(c, u)
  BY <1>3, AwardedSame
<1>5. LedgerBalances'
  BY <1>4 DEF LedgerBalances
<1>6. JobInv' /\ NewInv' /\ PointsInv' /\ TableInv'
  BY <1>3 DEF IInv, JobInv, NewInv, PointsInv, TableInv, botVars
<1>7. PollInv'
  BY <1>1 DEF PollInv, Activation, botVars
<1> QED BY <1>5, <1>6, <1>7 DEF IInv

\* The interval of a poll keeps the invariant.
LEMMA PollStartInv ==
    ASSUME IInv, NEW p \in Poller, PollStart(p)
    PROVE  IInv'
<1>1. Active \in SUBSET (1..jobs)
  BY DEF Active, IInv, TableInv, Table
<1>2. points' \in [User -> Int] /\ \A u \in User : points'[u] = Awarded(calls, u) + wiped[u]
  BY DEF PollStart, IInv, PointsInv, LedgerBalances
<1> QED BY <1>1, <1>2, LoopInv DEF PollStart, IInv, TableInv

\* A rise is credited to its caller, no more and no less.
LEMMA CreditBalances ==
    ASSUME IInv, NEW i, NEW m \in Mcap
    PROVE  /\ Credit(calls, i, m) \in [User -> Int]
           /\ \A u \in User :
                  Credit(calls, i, m)[u] = Awarded(WithAth(calls, i, m), u) + wiped[u]
<1> DEFINE c == WithAth(calls, i, m)
<1>0. Table(calls, jobs) /\ points \in [User -> Int] /\ wiped \in [User -> Int]
  BY DEF IInv, TableInv, PointsInv
<1>1. CASE ~Raised(calls, i, m)
  BY <1>1 DEF Credit, WithAth, IInv, PointsInv, LedgerBalances
<1>2. CASE Raised(calls, i, m)
  <2>1. /\ Table(c, jobs) /\ DOMAIN c = DOMAIN calls /\ i \in DOMAIN calls
        /\ \A k \in DOMAIN calls \ {i} : c[k] = calls[k]
        /\ c[i].user = calls[i].user /\ c[i].points = CalcPoints(calls[i].at, m)
    BY <1>0, <1>2, WithAthFacts
  <2> HIDE DEF c
  <2>2. calls[i] \in Call /\ c[i] \in Call
    BY <1>0, <2>1 DEF Table
  <2>3. PICK v, new, old1 : v = calls[i].user /\ new = c[i].points /\ old1 = calls[i].points
    OBVIOUS
  <2>4. v \in User /\ new \in Int /\ old1 \in Int
    <3>1. new \in -1..5 /\ old1 \in -1..5 /\ v \in User
      BY <2>2, <2>3 DEF Call
    <3> QED BY <3>1
  <2>5. Credit(calls, i, m) = [points EXCEPT ![v] = @ + new - old1]
    BY <1>2, <2>1, <2>3 DEF Credit
  <2>6. ASSUME NEW u \in User
        PROVE  Credit(calls, i, m)[u] = Awarded(c, u) + wiped[u]
    <3>1. Awarded(c, u) = Awarded(calls, u) + IF v = u THEN new - old1 ELSE 0
      BY <1>0, <2>1, <2>3, AwardedChanged
    <3>2. /\ points[u] = Awarded(calls, u) + wiped[u]
          /\ Awarded(calls, u) \in Int /\ wiped[u] \in Int
      BY <1>0, OwnedFacts DEF IInv, LedgerBalances
    <3>3. CASE v = u
      <4>1. Credit(calls, i, m)[u] = points[u] + new - old1
        BY <1>0, <2>5, <3>3
      <4> QED BY <2>4, <3>1, <3>2, <3>3, <4>1
    <3>4. CASE v # u
      <4>1. Credit(calls, i, m)[u] = points[u]
        BY <1>0, <2>5, <3>4
      <4> QED BY <3>1, <3>2, <3>4, <4>1
    <3> QED BY <3>3, <3>4
  <2>7. Credit(calls, i, m) \in [User -> Int]
    BY <1>0, <2>4, <2>5
  <2> QED BY <2>6, <2>7 DEF c
<1> QED BY <1>1, <1>2

\* The answer of the price service keeps the invariant.
LEMMA PollAnswerInv ==
    ASSUME IInv, NEW p \in Poller, PollAnswer(p)
    PROVE  IInv'
<1>1. poll[p].rest \in SUBSET (1..jobs)
  BY DEF IInv, PollInv, Activation
<1>2. UNCHANGED <<botVars, old, wiped>>
  BY DEF PollAnswer
<1>3. ASSUME NEW m \in Mcap, RunLoop(p, WithAth(calls, poll[p].on, m), poll[p].rest),
             points' = Credit(calls, poll[p].on, m)
      PROVE  IInv'
  <2>1. PICK c : c = WithAth(calls, poll[p].on, m)
    OBVIOUS
  <2>2. Table(c, jobs) /\ DOMAIN c = DOMAIN calls
    BY <2>1, WithAthFacts DEF IInv, TableInv
  <2>3. points' \in [User -> Int] /\ \A u \in User : points'[u] = Awarded(c, u) + wiped[u]
    BY <1>3, <2>1, CreditBalances
  <2> QED BY <1>1, <1>2, <1>3, <2>1, <2>2, <2>3, LoopInv
<1>4. ASSUME RunLoop(p, calls, poll[p].rest), UNCHANGED points
      PROVE  IInv'
  <2>1. points' \in [User -> Int] /\ \A u \in User : points'[u] = Awarded(calls, u) + wiped[u]
    BY <1>4 DEF IInv, PointsInv, LedgerBalances
  <2> QED BY <1>1, <1>2, <1>4, <2>1, LoopInv DEF IInv, TableInv
<1> QED BY <1>3, <1>4 DEF PollAnswer

\* Every step keeps the invariant.
LEMMA StepInv == IInv /\ [Next]_vars => IInv'
<1> SUFFICES ASSUME IInv, [Next]_vars PROVE IInv'
  OBVIOUS
<1>1. ASSUME NEW i \in DOMAIN calls, Age(i) PROVE IInv'
  BY <1>1 DEF Age, IInv, JobInv, TableInv, Table, PointsInv, PollInv, Activation, NewInv,
              LedgerBalances, botVars
<1>2. CASE UNCHANGED vars
  BY <1>2 DEF vars, IInv, JobInv, TableInv, PointsInv, PollInv, Activation, NewInv,
              LedgerBalances, botVars
<1> QED BY <1>1, <1>2, BotInv, RegisterInv, WipeInv, PollStartInv, PollAnswerInv DEF Next

------------------------------------------------------------------------------
(* The theorems *)

\* The calls table, the registrations under way and the points agree in every state.
THEOREM CallsInvariant == Spec => []IInv
  BY InitInv, StepInv, PTL DEF Spec

\* Every variable keeps to its type.
THEOREM CallsTypeOK == Spec => []TypeOK
<1>1. IInv => TypeOK
  BY DEF IInv, JobInv, TableInv, Table, Call, PointsInv, PollInv, Activation, TypeOK
<1> QED BY <1>1, CallsInvariant, PTL

\* users.points is the sum of what the user's calls were awarded: overlapping polls,
\* late prices and wipes lose no point and credit none twice.
THEOREM CallsLedgerBalances == Spec => []LedgerBalances
<1>1. IInv => LedgerBalances
  BY DEF IInv
<1> QED BY <1>1, CallsInvariant, PTL


------------------------------------------------------------------------------
(* All-time highs *)

\* What a step may make of the rows of the table d, next to those of c.
Higher(c, d) == \A i \in DOMAIN c \cap DOMAIN d :
                    /\ d[i].ath >= c[i].ath
                    /\ c[i].finalized => d[i] = c[i]

\* Rows that stay as they are keep their highs.
LEMMA HigherSame ==
    ASSUME IInv, NEW d, \A i \in DOMAIN calls \cap DOMAIN d : d[i] = calls[i]
    PROVE  Higher(calls, d)
<1>1. ASSUME NEW i \in DOMAIN calls PROVE calls[i].ath \in Nat
  <2>1. calls[i].ath \in Mcap
    BY DEF IInv, TableInv, Table, Call
  <2> QED BY <2>1, TrackerAssumption
<1> QED BY <1>1 DEF Higher

\* A rise and the finalizing that follows it keep the highs.
LEMMA HigherLoop ==
    ASSUME IInv, NEW i, NEW m \in Mcap, NEW S
    PROVE  Higher(calls, Finalize(WithAth(calls, i, m), S))
<1> DEFINE c == WithAth(calls, i, m)
           d == Finalize(c, S)
<1>1. /\ Table(c, jobs) /\ DOMAIN c = DOMAIN calls
      /\ ~Raised(calls, i, m) => c = calls
      /\ Raised(calls, i, m) =>
             /\ i \in DOMAIN calls /\ ~calls[i].finalized
             /\ \A k \in DOMAIN calls \ {i} : c[k] = calls[k]
             /\ c[i].ath >= calls[i].ath
  BY WithAthFacts DEF IInv, TableInv
<1> HIDE DEF c
<1>2. \A k \in DOMAIN c : d[k].ath = c[k].ath /\ (c[k].finalized => d[k] = c[k])
  BY <1>1, FinalizeFacts
<1>3. DOMAIN d = DOMAIN c
  BY <1>1, FinalizeFacts
<1> HIDE DEF d
<1>4. ASSUME NEW k \in DOMAIN calls PROVE calls[k].ath \in Nat
  <2>1. calls[k].ath \in Mcap
    BY DEF IInv, TableInv, Table, Call
  <2> QED BY <2>1, TrackerAssumption
<1>5. Higher(calls, d)
  BY <1>1, <1>2, <1>3, <1>4 DEF Higher
<1> QED BY <1>5 DEF c, d

\* So do the loop of a poll that starts, and that of a poll without a price.
LEMMA HigherFinalize ==
    ASSUME IInv, NEW S
    PROVE  Higher(calls, Finalize(calls, S))
<1>1. \A k \in DOMAIN calls : /\ Finalize(calls, S)[k].ath = calls[k].ath
                              /\ calls[k].finalized => Finalize(calls, S)[k] = calls[k]
  BY FinalizeFacts DEF IInv, TableInv
<1>2. ASSUME NEW k \in DOMAIN calls PROVE calls[k].ath \in Nat
  <2>1. calls[k].ath \in Mcap
    BY DEF IInv, TableInv, Table, Call
  <2> QED BY <2>1, TrackerAssumption
<1> QED BY <1>1, <1>2 DEF Higher

\* Every step keeps the highs.
LEMMA StepHigher == IInv /\ [Next]_vars => Higher(calls, calls')
<1> SUFFICES ASSUME IInv, [Next]_vars PROVE Higher(calls, calls')
  OBVIOUS
<1>1. CASE UNCHANGED calls
  BY <1>1, HigherSame
<1>2. ASSUME NEW j \in DOMAIN job, Register(j) PROVE Higher(calls, calls')
  BY <1>2, RegisterInv, HigherSame
<1>3. CASE Wipe
  BY <1>3, WipeInv, HigherSame
<1>4. ASSUME NEW p \in Poller, PollStart(p) PROVE Higher(calls, calls')
  BY <1>4, HigherFinalize DEF PollStart, RunLoop
<1>5. ASSUME NEW p \in Poller, PollAnswer(p) PROVE Higher(calls, calls')
  <2>1. CASE RunLoop(p, calls, poll[p].rest)
    BY <2>1, HigherFinalize DEF RunLoop
  <2>2. ASSUME NEW m \in Mcap, RunLoop(p, WithAth(calls, poll[p].on, m), poll[p].rest)
        PROVE  Higher(calls, calls')
    <3>1. \E S : calls' = Finalize(WithAth(calls, poll[p].on, m), S)
      BY <2>2 DEF RunLoop
    <3> QED BY <3>1, HigherLoop
  <2> QED BY <1>5, <2>1, <2>2 DEF PollAnswer
<1> QED BY <1>1, <1>2, <1>3, <1>4, <1>5
        DEF Next, vars, AutoMessage, ButtonMessage, CallNow, NewJob, TimerFires, CancelCall,
            SetBlocked, Age

\* An all-time high never falls and that of a final call never moves: a price that
\* was asked for before the call was finalized finds the row as it is now.
THEOREM CallsHighsStand == Spec => HighsStand
<1>1. IInv /\ [Next]_vars =>
          [\A i \in DOMAIN calls \cap DOMAIN calls' :
               /\ calls'[i].ath >= calls[i].ath
               /\ calls[i].finalized => calls'[i] = calls[i]]_vars
  BY StepHigher DEF Higher
<1> QED BY <1>1, CallsInvariant, PTL DEF Spec, HighsStand

====
