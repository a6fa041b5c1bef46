---------------------------- MODULE SearchProofs ----------------------------
(***************************************************************************)
(* Proofs about a search among any number of candidates, nodes and pushes. *)
(* The snapshot tables behave as in SnapshotIndex whatever searches are    *)
(* made, so its theorems hold here too.                                    *)
(***************************************************************************)
EXTENDS Search, SnapshotIndexProofs, FiniteSetTheorems

USE SearchAssumption DEF SearchAssumption

\* Searching never writes: the tables go through the behaviours of
\* SnapshotIndex.
THEOREM SearchOnlyReads == SearchSpec => Spec
<1>1. SearchInit => Init
  BY DEF SearchInit
<1>2. [SearchNext]_<<vars, searchVars>> => [Next]_vars
  BY DEF SearchNext, Searching, KeywordQuery, VectorQuery, JoinSnapshots, Rank, QueryFails
<1> QED
  BY <1>1, <1>2, PTL DEF SearchSpec, Spec

\* A set of natural numbers has a least member.
LEMMA LeastMember ==
  ASSUME NEW T, T \subseteq Nat, T # {}
  PROVE  \E x \in T : \A y \in T : x <= y
<1> DEFINE R == OpToRel(<, Nat)
<1>1. IsWellFoundedOn(R, Nat)
  BY NatLessThanWellFounded
<1> HIDE DEF R
<1>2. PICK x \in T : \A y \in T : ~(<<y, x>> \in R)
  BY <1>1, WFMin
<1> USE DEF R
<1>3. \A y \in T : ~(y < x)
  BY <1>2 DEF OpToRel
<1> QED
  BY <1>3

\* A listing is a sequence without repetitions.
LEMMA ListingIsSequence ==
  ASSUME NEW S, NEW n \in Nat, NEW f \in Listings(n, S)
  PROVE  f \in Seq(S) /\ Len(f) = n /\ DOMAIN f = 1..n /\ IsInjective(f)
BY DEF Listings, Injection

\* Every variable of a search keeps its type.
THEOREM SearchTypeCorrect == SearchSpec => []SearchTypeOK
<1> USE DEF searchVars
<1>1. SearchInit /\ TypeOK => SearchTypeOK
  BY DEF SearchInit, SearchTypeOK
<1>2. SearchTypeOK /\ TypeOK' /\ [SearchNext]_<<vars, searchVars>> => SearchTypeOK'
  <2> SUFFICES ASSUME SearchTypeOK, TypeOK', [SearchNext]_<<vars, searchVars>>
               PROVE  SearchTypeOK'
    OBVIOUS
  <2> USE DEF SearchTypeOK
  <2>1. ASSUME NEW asked \in Asked, NEW semantic \in BOOLEAN, KeywordQuery(asked, semantic)
        PROVE  SearchTypeOK'
    <3>1. limit' \in 1..MaxLimit
      BY <2>1 DEF KeywordQuery
    <3>2. IsFiniteSet(FTS5Search) /\ FTS5Search \subseteq Candidates
      BY FS_Subset DEF FTS5Search
    <3>3. Cardinality(FTS5Search) \in Nat
      BY <3>2, FS_CardinalityType
    <3>4. PICK n \in 0..Least(3 * limit', Cardinality(FTS5Search)) :
             bm25' \in Listings(n, FTS5Search)
      BY <2>1 DEF KeywordQuery
    <3>5. n \in Nat
      BY <3>1, <3>3, <3>4 DEF Least
    <3>6. bm25' \in Seq(Candidates)
      BY <3>2, <3>4, <3>5, ListingIsSequence
    <3> QED
      BY <2>1, <3>1, <3>6 DEF KeywordQuery
  <2>2. ASSUME VectorQuery PROVE SearchTypeOK'
    <3>1. IsFiniteSet(VecRows)
      <4>1. IsFiniteSet(Candidates \X Pushes)
        BY FS_Product
      <4> QED
        BY <4>1, FS_Subset DEF VecRows
    <3>2. Least(2 * limit, Cardinality(VecRows)) \in Nat
      BY <3>1, FS_CardinalityType DEF Least
    <3>3. ASSUME NEW rows \in Listings(Least(2 * limit, Cardinality(VecRows)), VecRows),
                 near' = [i \in DOMAIN rows |-> rows[i][1]]
          PROVE  near' \in Seq(Candidates)
      <4>1. rows \in Seq(VecRows)
        BY <3>2, <3>3, ListingIsSequence
      <4>2. \A r \in VecRows : r[1] \in Candidates
        BY DEF VecRows
      <4>3. \A i \in 1..Len(rows) : rows[i][1] \in Candidates
        BY <4>1, <4>2
      <4>4. Len(rows) \in Nat /\ DOMAIN rows = 1..Len(rows)
        BY <4>1
      <4> HIDE DEF VecRows
      <4> QED
        BY <3>3, <4>3, <4>4
    <3>4. near' \in Seq(Candidates)
      BY <2>2, <3>3 DEF VectorQuery
    <3> QED
      BY <2>2, <3>4 DEF VectorQuery
  <2>3. ASSUME JoinSnapshots PROVE SearchTypeOK'
    BY <2>3 DEF JoinSnapshots
  <2>4. ASSUME Rank PROVE SearchTypeOK'
    <3>1. Hits \in Seq(Candidates) /\ DOMAIN Hits = 1..Len(Hits) /\ Len(Hits) \in Nat
      BY DEF Hits
    <3>2. IsFiniteSet(Pointers) /\ Pointers \subseteq DOMAIN Hits
      <4>1. IsFiniteSet(1..Len(Hits))
        BY <3>1, FS_Interval
      <4> QED
        BY <3>1, <4>1, FS_Subset DEF Pointers, AllIDs
    <3>3. Cardinality(Pointers) \in Nat
      BY <3>2, FS_CardinalityType
    <3>4. PICK order \in Listings(Cardinality(Pointers), Pointers) :
             answer' = [i \in 1..Least(limit, Len(order)) |-> Hits[order[i]]]
      BY <2>4 DEF Rank
    <3>5. order \in Seq(Pointers)
      BY <3>3, <3>4, ListingIsSequence
    <3>6. Least(limit, Len(order)) \in Nat /\ Least(limit, Len(order)) <= Len(order)
      BY <3>5 DEF Least
    <3>7. answer' \in Seq(Candidates)
      <4>1. \A i \in 1..Least(limit, Len(order)) : order[i] \in Pointers
        BY <3>5, <3>6
      <4>2. \A i \in Pointers : Hits[i] \in Candidates
        BY <3>1, <3>2
      <4> DEFINE m == Least(limit, Len(order))
      <4>3. m \in Nat /\ \A i \in 1..m : Hits[order[i]] \in Candidates
        BY <3>6, <4>1, <4>2
      <4>4. answer' = [i \in 1..m |-> Hits[order[i]]]
        BY <3>4
      <4> HIDE DEF m
      <4>5. answer' \in [1..m -> Candidates]
        BY <4>3, <4>4
      <4> QED
        BY <4>3, <4>5
    <3> QED
      BY <2>4, <3>7 DEF Rank
  <2>5. CASE QueryFails
    BY <2>5 DEF QueryFails
  <2>6. CASE UNCHANGED searchVars
    BY <2>6
  <2> QED
    BY <2>1, <2>2, <2>3, <2>4, <2>5, <2>6 DEF SearchNext, Searching
<1>3. SearchSpec => []TypeOK
  BY SearchOnlyReads, TypeCorrect, PTL
<1> QED
  BY <1>1, <1>2, <1>3, PTL DEF SearchSpec

\* The look-up only tells of hits.
LEMMA HitsCorrect == SearchSpec => []HitsInv
<1> USE DEF searchVars
<1>1. SearchInit => HitsInv
  BY DEF SearchInit, HitsInv, Known
<1>2. HitsInv /\ SearchTypeOK /\ [SearchNext]_<<vars, searchVars>> => HitsInv'
  <2> SUFFICES ASSUME HitsInv, SearchTypeOK, [SearchNext]_<<vars, searchVars>> PROVE HitsInv'
    OBVIOUS
  <2>1. ASSUME NEW asked \in Asked, NEW semantic \in BOOLEAN, KeywordQuery(asked, semantic)
        PROVE  HitsInv'
    BY <2>1 DEF KeywordQuery, HitsInv, Known
  <2>2. CASE VectorQuery
    BY <2>2 DEF VectorQuery, HitsInv, Known
  <2>3. CASE JoinSnapshots
    <3>1. Known' \subseteq Range(Hits)
      BY <2>3 DEF JoinSnapshots, Known
    <3>2. Hits' = Hits
      BY <2>3 DEF JoinSnapshots, Hits
    <3> QED
      BY <2>3, <3>1, <3>2 DEF JoinSnapshots, HitsInv
  <2>4. CASE Rank \/ QueryFails \/ UNCHANGED searchVars
    <3>1. Hits' = Hits /\ Known' = Known
      BY <2>4 DEF Rank, QueryFails, Hits, Known
    <3>2. step' \in {"new", "vec", "join"} => step' = step
      BY <2>4 DEF Rank, QueryFails
    <3> QED
      BY <3>1, <3>2 DEF HitsInv
  <2> QED
    BY <2>1, <2>2, <2>3, <2>4 DEF SearchNext, Searching
<1> QED
  BY <1>1, <1>2, SearchTypeCorrect, PTL DEF SearchSpec

\* There is one pointer for each candidate known.
LEMMA OnePointerEach ==
  ASSUME SearchTypeOK, HitsInv
  PROVE  /\ Hits \in Seq(Candidates) /\ Pointers \subseteq DOMAIN Hits
         /\ IsFiniteSet(Pointers) /\ Cardinality(Pointers) \in Nat
         /\ \A p, q \in Pointers : Hits[p] = Hits[q] => p = q
         /\ \A c \in Known : \E p \in Pointers : Hits[p] = c
         /\ \A p \in Pointers : Hits[p] \in Known
         /\ Cardinality(Known) = Cardinality(Pointers)
<1>1. Hits \in Seq(Candidates) /\ DOMAIN Hits = 1..Len(Hits) /\ Len(Hits) \in Nat
  BY DEF Hits, SearchTypeOK
<1>2. IsFiniteSet(1..Len(Hits))
  BY <1>1, FS_Interval
<1>3. IsFiniteSet(Pointers) /\ Pointers \subseteq 1..Len(Hits)
  BY <1>1, <1>2, FS_Subset DEF Pointers, AllIDs
<1>4. Cardinality(Pointers) \in Nat
  BY <1>3, FS_CardinalityType
<1>5. \A p, q \in Pointers : Hits[p] = Hits[q] => p = q
  <2>1. \A p, q \in Pointers : p < q => Hits[p] # Hits[q]
    BY <1>3 DEF Pointers, AllIDs
  <2> QED
    BY <1>3, <2>1
<1>6. ASSUME NEW c \in Known PROVE \E p \in Pointers : Hits[p] = c
  <2> DEFINE T == {i \in DOMAIN Hits : Hits[i] = c}
  <2>1. T # {} /\ T \subseteq Nat
    BY <1>1, <1>6 DEF HitsInv, Range
  <2> HIDE DEF T
  <2>2. PICK p \in T : \A i \in T : p <= i
    BY <2>1, LeastMember
  <2>3. p \in DOMAIN Hits /\ Hits[p] = c /\ \A j \in 1..(p - 1) : Hits[j] # c
    BY <1>1, <2>2 DEF T
  <2>4. info[c] # None
    BY <1>6 DEF Known
  <2> QED
    BY <2>3, <2>4 DEF Pointers, AllIDs
<1>7. \A p \in Pointers : Hits[p] \in Known
  BY <1>1, <1>3 DEF Pointers, Known
<1>8. Cardinality(Known) = Cardinality(Pointers)
  <2> DEFINE f == [p \in Pointers |-> Hits[p]]
  <2>1. f \in Injection(Pointers, Known)
    BY <1>5, <1>7 DEF Injection, IsInjective
  <2>2. f \in Surjection(Pointers, Known)
    BY <1>6, <1>7 DEF Surjection
  <2>3. ExistsBijection(Pointers, Known)
    BY <2>1, <2>2 DEF ExistsBijection, Bijection
  <2> QED
    BY <1>3, <2>3, FS_Bijection
<1> QED
  BY <1>1, <1>3, <1>4, <1>5, <1>6, <1>7, <1>8

\* What the last step of a search answers with: the first pointers of an
\* order in which every pointer has its place.
LEMMA RankEffect ==
  ASSUME SearchTypeOK, HitsInv, Rank
  PROVE  \E order \in [1..Cardinality(Pointers) -> Pointers] :
            /\ \A i, j \in DOMAIN order : order[i] = order[j] => i = j
            /\ \A p \in Pointers : \E i \in DOMAIN order : order[i] = p
            /\ \A i, j \in DOMAIN order : Better(Hits[order[i]], Hits[order[j]]) => i < j
            /\ answer' = [i \in 1..Least(limit, Cardinality(Pointers)) |-> Hits[order[i]]]
<1> DEFINE n == Cardinality(Pointers)
<1>1. n \in Nat /\ IsFiniteSet(Pointers)
  BY OnePointerEach
<1>2. PICK order \in Listings(n, Pointers) :
         /\ \A i, j \in DOMAIN order : Better(Hits[order[i]], Hits[order[j]]) => i < j
         /\ answer' = [i \in 1..Least(limit, Len(order)) |-> Hits[order[i]]]
  BY DEF Rank
<1>3. order \in Injection(1..n, Pointers)
  BY <1>2 DEF Listings
<1>4. Len(order) = n /\ IsInjective(order) /\ order \in [1..n -> Pointers]
  BY <1>1, <1>2, <1>3, ListingIsSequence DEF Injection
<1>5. IsFiniteSet(1..n) /\ Cardinality(1..n) = n
  BY <1>1, FS_Interval
<1>6. order \in Surjection(1..n, Pointers)
  BY <1>1, <1>3, <1>5, FS_Injection
<1>7. \A p \in Pointers : \E i \in DOMAIN order : order[i] = p
  BY <1>4, <1>6 DEF Surjection
<1> QED
  BY <1>2, <1>4, <1>7 DEF IsInjective

\* An answer fills the limit and names each candidate once.
THEOREM FullCorrect == SearchSpec => []AnswerIsFull
<1> USE DEF searchVars
<1>1. SearchInit => AnswerIsFull
  BY DEF SearchInit, AnswerIsFull
<1>2. AnswerIsFull /\ SearchTypeOK /\ HitsInv /\ [SearchNext]_<<vars, searchVars>>
        => AnswerIsFull'
  <2> SUFFICES ASSUME AnswerIsFull, SearchTypeOK, HitsInv, [SearchNext]_<<vars, searchVars>>,
                      step' = "done"
               PROVE  AnswerIsFull'
    BY DEF AnswerIsFull
  <2>1. CASE Rank
    <3> DEFINE n == Cardinality(Pointers)
               m == Least(limit, n)
    <3>1. PICK order \in [1..n -> Pointers] :
             /\ \A i, j \in DOMAIN order : order[i] = order[j] => i = j
             /\ answer' = [i \in 1..m |-> Hits[order[i]]]
      BY <2>1, RankEffect
    <3>2. n \in Nat /\ m \in Nat /\ m <= n /\ Cardinality(Known) = n
      BY OnePointerEach DEF Least, SearchTypeOK
    <3>3. Known' = Known /\ limit' = limit
      BY <2>1 DEF Rank, Known
    <3> HIDE DEF n, m
    <3>4. \A i \in 1..m : i \in 1..n /\ order[i] \in Pointers
      BY <3>1, <3>2
    <3>5. IsInjective(answer')
      <4>1. \A i, j \in 1..m : Hits[order[i]] = Hits[order[j]] => i = j
        BY <3>1, <3>4, OnePointerEach
      <4> QED
        BY <3>1, <4>1 DEF IsInjective
    <3>6. Range(answer') \subseteq Known
      <4>1. \A i \in 1..m : Hits[order[i]] \in Known
        BY <3>4, OnePointerEach
      <4> QED
        BY <3>1, <4>1 DEF Range
    <3>7. Len(answer') = m
      BY <3>1, <3>2
    <3> QED
      BY <3>2, <3>3, <3>5, <3>6, <3>7 DEF AnswerIsFull, m
  <2>2. CASE UNCHANGED searchVars
    BY <2>2 DEF AnswerIsFull, Known
  <2> QED
    BY <2>1, <2>2
       DEF SearchNext, Searching, KeywordQuery, VectorQuery, JoinSnapshots, QueryFails
<1> QED
  BY <1>1, <1>2, SearchTypeCorrect, HitsCorrect, PTL DEF SearchSpec

-----------------------------------------------------------------------------
(* The order of the answer.                                                *)

\* The rank of a candidate is its last position among the hits, or 0.
LEMMA RankIsLast ==
  ASSUME NEW hits \in Seq(Candidates), NEW c
  PROVE  /\ RankIn(hits, c) \in 0..Len(hits)
         /\ \A i \in DOMAIN hits : hits[i] = c => i <= RankIn(hits, c)
         /\ RankIn(hits, c) = 0 \/ hits[RankIn(hits, c)] = c
<1> DEFINE P(r) == /\ \A i \in DOMAIN hits : hits[i] = c => i <= r
                   /\ r = 0 \/ hits[r] = c
           T == {i \in DOMAIN hits : hits[i] = c}
           U == {k \in Nat : \E i \in T : k = Len(hits) - i}
<1>1. DOMAIN hits = 1..Len(hits) /\ Len(hits) \in Nat
  OBVIOUS
<1>2. \E r \in 0..Len(hits) : P(r)
  <2>1. CASE T = {}
    BY <1>1, <2>1
  <2>2. CASE T # {}
    <3>1. U # {} /\ U \subseteq Nat
      BY <1>1, <2>2
    <3> HIDE DEF U
    <3>2. PICK k \in U : \A l \in U : k <= l
      BY <3>1, LeastMember
    <3> USE DEF U
    <3>3. PICK r \in T : k = Len(hits) - r
      BY <3>2
    <3>4. \A i \in T : i <= r
      BY <1>1, <3>2, <3>3
    <3> QED
      BY <1>1, <3>3, <3>4
  <2> QED
    BY <2>1, <2>2
<1>3. RankIn(hits, c) = CHOOSE r \in 0..Len(hits) : P(r)
  BY DEF RankIn
<1> HIDE DEF P
<1>4. RankIn(hits, c) \in 0..Len(hits) /\ P(RankIn(hits, c))
  BY <1>2, <1>3
<1> QED
  BY <1>4 DEF P

\* A candidate ahead of another has the better rank.
LEMMA AheadRanksBetter ==
  ASSUME NEW hits \in Seq(Candidates), NEW c, NEW d, Ahead(hits, c, d)
  PROVE  /\ d \in Range(hits) => 0 < RankIn(hits, c) /\ RankIn(hits, c) < RankIn(hits, d)
         /\ d \notin Range(hits) => RankIn(hits, d) = 0
         /\ RankIn(hits, c) \in Nat /\ RankIn(hits, d) \in Nat
<1> DEFINE r == RankIn(hits, c)
           s == RankIn(hits, d)
<1>1. /\ r \in 0..Len(hits) /\ \A i \in DOMAIN hits : hits[i] = c => i <= r
      /\ r = 0 \/ hits[r] = c
  BY RankIsLast
<1>2. /\ s \in 0..Len(hits) /\ \A i \in DOMAIN hits : hits[i] = d => i <= s
      /\ s = 0 \/ hits[s] = d
  BY RankIsLast
<1> HIDE DEF r, s
<1>3. DOMAIN hits = 1..Len(hits) /\ Len(hits) \in Nat
  OBVIOUS
<1>4. ASSUME d \in Range(hits) PROVE 0 < r /\ r < s
  <2>1. s \in DOMAIN hits /\ hits[s] = d
    BY <1>2, <1>3, <1>4 DEF Range
  <2>2. c \in Range(hits) /\ \A i \in DOMAIN hits : hits[i] = c => i < s
    BY <2>1 DEF Ahead
  <2> QED
    BY <1>1, <1>3, <2>2 DEF Range
<1>5. d \notin Range(hits) => s = 0
  BY <1>2, <1>3 DEF Range
<1> QED
  BY <1>1, <1>2, <1>3, <1>4, <1>5 DEF r, s

\* A product of positive numbers is positive.
LEMMA PositiveProduct ==
  ASSUME NEW x \in Nat, NEW y \in Nat, 0 < x, 0 < y
  PROVE  x * y \in Nat /\ 0 < x * y
OBVIOUS

\* A candidate that both rankings put ahead has the higher fused score.
LEMMA FusionIsMonotone ==
  ASSUME NEW b \in Nat, NEW v \in Nat, NEW b2 \in Nat, NEW v2 \in Nat,
         b2 = 0 \/ (0 < b /\ b < b2), v2 = 0 \/ (0 < v /\ v < v2), b2 # 0 \/ v2 # 0
  PROVE  LET s == rrfScore(b, v)
             u == rrfScore(b2, v2)
         IN  s[1] * u[2] > u[1] * s[2]
<1> DEFINE B == K + b  V == K + v  X == K + b2  Y == K + v2
<1>0. B \in Nat /\ V \in Nat /\ X \in Nat /\ Y \in Nat
  OBVIOUS
<1>1. CASE b2 # 0 /\ v2 # 0
  <2>1. rrfScore(b, v) = <<V + B, B * V>> /\ rrfScore(b2, v2) = <<Y + X, X * Y>>
    BY <1>1 DEF rrfScore
  <2>2. 0 < B /\ 0 < V /\ B < X /\ V < Y
    BY <1>1
  <2> HIDE DEF B, V, X, Y
  <2>3. PICK i \in Nat : X = B + i /\ 0 < i
    BY <1>0, <2>2
  <2>4. PICK j \in Nat : Y = V + j /\ 0 < j
    BY <1>0, <2>2
  <2>5. /\ B * X \in Nat /\ 0 < B * X /\ V * Y \in Nat /\ 0 < V * Y
    BY <1>0, <2>2, PositiveProduct
  <2>6. 0 < (B * X) * j /\ 0 < (V * Y) * i
    BY <2>3, <2>4, <2>5, PositiveProduct
  <2>7. (V + B) * (X * Y) - (Y + X) * (B * V) = (B * X) * j + (V * Y) * i
    BY <1>0, <2>3, <2>4
  <2>8. (V + B) * (X * Y) > (Y + X) * (B * V)
    BY <1>0, <2>3, <2>4, <2>5, <2>6, <2>7
  <2> QED
    BY <2>1, <2>8
<1>2. CASE b2 # 0 /\ v2 = 0
  <2>1. rrfScore(b2, v2) = <<1, X>> /\ 0 < B /\ B < X
    BY <1>0, <1>2 DEF rrfScore
  <2>2. CASE v = 0
    <3>1. rrfScore(b, v) = <<1, B>>
      BY <1>0, <1>2, <2>2 DEF rrfScore
    <3> QED
      BY <1>0, <2>1, <3>1
  <2>3. CASE v # 0
    <3>1. rrfScore(b, v) = <<V + B, B * V>> /\ 0 < V
      BY <1>0, <1>2, <2>3 DEF rrfScore
    <3> HIDE DEF B, V, X, Y
    <3>2. PICK i \in Nat : X = B + i /\ 0 < i
      BY <1>0, <2>1
    <3>3. 0 < V * i /\ 0 < B * X
      BY <1>0, <2>1, <3>1, <3>2, PositiveProduct
    <3>4. (V + B) * X - B * V = V * i + B * X
      BY <1>0, <3>2
    <3>5. (V + B) * X > 1 * (B * V)
      BY <1>0, <3>2, <3>3, <3>4
    <3> QED
      BY <2>1, <3>1, <3>5
  <2> QED
    BY <2>2, <2>3
<1>3. CASE b2 = 0 /\ v2 # 0
  <2>1. rrfScore(b2, v2) = <<1, Y>> /\ 0 < V /\ V < Y
    BY <1>0, <1>3 DEF rrfScore
  <2>2. CASE b = 0
    <3>1. rrfScore(b, v) = <<1, V>>
      BY <1>0, <1>3, <2>2 DEF rrfScore
    <3> QED
      BY <1>0, <2>1, <3>1
  <2>3. CASE b # 0
    <3>1. rrfScore(b, v) = <<V + B, B * V>> /\ 0 < B
      BY <1>0, <1>3, <2>3 DEF rrfScore
    <3> HIDE DEF B, V, X, Y
    <3>2. PICK j \in Nat : Y = V + j /\ 0 < j
      BY <1>0, <2>1
    <3>3. 0 < B * j /\ 0 < V * Y
      BY <1>0, <2>1, <3>1, <3>2, PositiveProduct
    <3>4. (V + B) * Y - B * V = B * j + V * Y
      BY <1>0, <3>2
    <3>5. (V + B) * Y > 1 * (B * V)
      BY <1>0, <3>2, <3>3, <3>4
    <3> QED
      BY <2>1, <3>1, <3>5
  <2> QED
    BY <2>2, <2>3
<1> QED
  BY <1>1, <1>2, <1>3

\* The final sort prefers a candidate that both rankings put ahead.
LEMMA AheadIsBetter ==
  ASSUME SearchTypeOK, HitsInv, NEW c \in Known, NEW d \in Known,
         Ahead(bm25, c, d), Ahead(near, c, d)
  PROVE  Better(c, d)
<1> DEFINE b == RankIn(bm25, c)  v == RankIn(near, c)
           b2 == RankIn(bm25, d) v2 == RankIn(near, d)
<1>1. bm25 \in Seq(Candidates) /\ near \in Seq(Candidates)
  BY DEF SearchTypeOK
<1>2. d \in Range(bm25) \/ d \in Range(near)
  <2>1. PICK i \in DOMAIN Hits : Hits[i] = d
    BY DEF HitsInv, Range
  <2>2. CASE i <= Len(bm25)
    <3>1. i \in DOMAIN bm25 /\ bm25[i] = d
      BY <1>1, <2>1, <2>2 DEF Hits
    <3> QED
      BY <3>1 DEF Range
  <2>3. CASE ~(i <= Len(bm25))
    <3>1. i - Len(bm25) \in DOMAIN near /\ near[i - Len(bm25)] = d
      BY <1>1, <2>1, <2>3 DEF Hits
    <3> QED
      BY <3>1 DEF Range
  <2> QED
    BY <1>1, <2>1, <2>2, <2>3 DEF Hits
<1>3. /\ b \in Nat /\ b2 \in Nat
      /\ d \in Range(bm25) => 0 < b /\ b < b2
      /\ d \notin Range(bm25) => b2 = 0
  BY <1>1, AheadRanksBetter
<1>4. /\ v \in Nat /\ v2 \in Nat
      /\ d \in Range(near) => 0 < v /\ v < v2
      /\ d \notin Range(near) => v2 = 0
  BY <1>1, AheadRanksBetter
<1> HIDE DEF b, v, b2, v2
<1>5. CASE near # <<>>
  <2>1. LET s == rrfScore(b, v)
            u == rrfScore(b2, v2)
        IN  s[1] * u[2] > u[1] * s[2]
    BY <1>2, <1>3, <1>4, FusionIsMonotone
  <2> QED
    BY <1>5, <2>1 DEF Better, b, v, b2, v2
<1>6. CASE near = <<>>
  <2>1. d \in Range(bm25)
    BY <1>2, <1>6 DEF Range
  <2> QED
    BY <1>3, <1>6, <2>1 DEF Better, b, b2
<1> QED
  BY <1>5, <1>6

\* An order on which both rankings agree is the order of the answer.
THEOREM RankedCorrect == SearchSpec => []AnswerIsRanked
<1> USE DEF searchVars
<1>1. SearchInit => AnswerIsRanked
  BY DEF SearchInit, AnswerIsRanked
<1>2. AnswerIsRanked /\ SearchTypeOK /\ HitsInv /\ [SearchNext]_<<vars, searchVars>>
        => AnswerIsRanked'
  <2> SUFFICES ASSUME AnswerIsRanked, SearchTypeOK, HitsInv, [SearchNext]_<<vars, searchVars>>,
                      step' = "done"
               PROVE  AnswerIsRanked'
    BY DEF AnswerIsRanked
  <2>1. CASE Rank
    <3> SUFFICES ASSUME NEW c \in Known, NEW d \in Known,
                        Ahead(bm25, c, d), Ahead(near, c, d),
                        NEW j \in DOMAIN answer', answer'[j] = d
                 PROVE  \E i \in 1..(j - 1) : answer'[i] = c
      BY <2>1 DEF Rank, AnswerIsRanked, Known, Ahead
    <3> DEFINE n == Cardinality(Pointers)
               m == Least(limit, n)
    <3>1. PICK order \in [1..n -> Pointers] :
             /\ \A p \in Pointers : \E i \in DOMAIN order : order[i] = p
             /\ \A i, k \in DOMAIN order : Better(Hits[order[i]], Hits[order[k]]) => i < k
             /\ answer' = [i \in 1..m |-> Hits[order[i]]]
      BY <2>1, RankEffect
    <3>2. n \in Nat /\ m \in Nat /\ m <= n
      BY OnePointerEach DEF Least, SearchTypeOK
    <3> HIDE DEF n, m
    <3>3. PICK p \in Pointers : Hits[p] = c
      BY OnePointerEach
    <3>4. PICK i \in 1..n : order[i] = p
      BY <3>1
    <3>5. j \in 1..m /\ Hits[order[j]] = d
      BY <3>1
    <3>6. i < j
      BY <3>1, <3>2, <3>3, <3>4, <3>5, AheadIsBetter
    <3>7. i \in 1..(j - 1) /\ answer'[i] = c
      BY <3>1, <3>2, <3>3, <3>4, <3>5, <3>6
    <3> QED
      BY <3>7
  <2>2. CASE UNCHANGED searchVars
    BY <2>2 DEF AnswerIsRanked, Known, Ahead
  <2> QED
    BY <2>1, <2>2
       DEF SearchNext, Searching, KeywordQuery, VectorQuery, JoinSnapshots, QueryFails
<1> QED
  BY <1>1, <1>2, SearchTypeCorrect, HitsCorrect, PTL DEF SearchSpec
=============================================================================
