------------------------------- MODULE Search -------------------------------
(***************************************************************************)
(* search_talent while pushes and revocations go on: a keyword query, a    *)
(* nearest-neighbour query when the caller gave a vector, the look-up of   *)
(* the hits in the snapshot cache, and their ranking, by reciprocal rank   *)
(* fusion when both queries were made.  Sources:                           *)
(* internal/service/search.go, internal/store/repo/search.go and           *)
(* handleSearchTalent of internal/mcp/server.go.                           *)
(*                                                                         *)
(* Each query is a step of its own, with the tables of SnapshotIndex       *)
(* changing in between.  A search writes nothing, so one search stands for *)
(* any number of them.                                                     *)
(*                                                                         *)
(* Abstractions.  What matches, how well and how near are the database's:  *)
(* any hits in any order, which also covers ties.  A score is the exact    *)
(* fraction; for ranks up to 300 two unequal ones are further apart than   *)
(* the rounding of the code's float64.                                     *)
(***************************************************************************)
EXTENDS SnapshotIndex, Integers, Sequences, Functions

CONSTANTS
    DefaultLimit, \* 20
    MaxLimit,     \* 100
    Asked,        \* the limits callers ask for
    K             \* of the fusion, 60

ASSUME SearchAssumption ==
    /\ MaxLimit \in Nat /\ DefaultLimit \in 1..MaxLimit
    /\ Asked \subseteq Int
    /\ K \in Nat
    /\ IsFiniteSet(Candidates) /\ IsFiniteSet(Pushes)

VARIABLES
    step,     \* what the search does next
    limit,
    bm25,     \* candidates of the keyword hits, best first
    near,     \* candidates of the vector hits, nearest first
    info,     \* the node whose snapshot of each candidate was found, or None
    answer    \* the candidates answered with, best first

searchVars == <<step, limit, bm25, near, info, answer>>

SearchInit ==
    /\ Init
    /\ step = "new" /\ limit = DefaultLimit
    /\ bm25 = <<>> /\ near = <<>> /\ answer = <<>>
    /\ info = [c \in Candidates |-> None]

Least(a, b) == IF a < b THEN a ELSE b

\* The ways to list n members of S.
Listings(n, S) == Injection(1..n, S)

-----------------------------------------------------------------------------
(* The queries.                                                            *)

\* Slip: the limit is taken as asked.
KeywordQuery_Unclamped(asked, semantic) ==
    /\ step = "new"
    /\ limit' = asked
    /\ \E n \in 0..Least(3 * limit', Cardinality(FTS5Search)) :
          bm25' \in Listings(n, FTS5Search)
    /\ step' = IF semantic THEN "vec" ELSE "join"
    /\ UNCHANGED <<near, info, answer, vars>>

\* A limit out of range is replaced by the default; FTS5Search lists at most
\* three times as many matches, and none when the query has no usable word
\* or is refused.  Without a query vector the vector query is left out.
KeywordQuery(asked, semantic) ==
    /\ step = "new"
    /\ limit' = IF asked \in 1..MaxLimit THEN asked ELSE DefaultLimit
    /\ \E n \in 0..Least(3 * limit', Cardinality(FTS5Search)) :
          bm25' \in Listings(n, FTS5Search)
    /\ step' = IF semantic THEN "vec" ELSE "join"
    /\ UNCHANGED <<near, info, answer, vars>>

\* The rows of candidate_vec: a candidate has one for each push that brought
\* an embedding.
VecRows == {r \in Candidates \X Pushes : r[2] \in vecs[r[1]]}

\* The 2 * limit nearest rows; a failed query is logged and the search goes
\* on with the keyword hits.
VectorQuery ==
    /\ step = "vec" /\ step' = "join"
    /\ \/ \E rows \in Listings(Least(2 * limit, Cardinality(VecRows)), VecRows) :
             near' = [i \in DOMAIN rows |-> rows[i][1]]
       \/ UNCHANGED near
    /\ UNCHANGED <<limit, bm25, info, answer, vars>>

Hits == bm25 \o near

\* SnapshotsByCandidateIDs: of the nodes that cache a candidate, whichever
\* the query returns last.
Cached(c) == {n \in Nodes : snapshots[n][c] # None}

JoinSnapshots ==
    /\ step = "join" /\ step' = "rank"
    /\ info' \in [Candidates -> Nodes \cup {None}]
    /\ \A c \in Candidates :
          IF c \in Range(Hits) /\ Cached(c) # {} THEN info'[c] \in Cached(c)
                                                 ELSE info'[c] = None
    /\ UNCHANGED <<limit, bm25, near, answer, vars>>

\* A keyword query or a look-up that fails while its rows are read.
QueryFails ==
    /\ step \in {"new", "join"} /\ step' = "failed"
    /\ UNCHANGED <<limit, bm25, near, info, answer, vars>>

-----------------------------------------------------------------------------
(* The ranking.                                                            *)

\* Slip: ranks from 0, the rank of a candidate that is no hit.
RankIn_FromZero(hits, c) ==
    CHOOSE r \in 0..Len(hits) :
        /\ \A i \in DOMAIN hits : hits[i] = c => i - 1 <= r
        /\ r = 0 \/ hits[r + 1] = c

\* bm25Rank and vecRank: 1 for the best, 0 for no hit, and the worst
\* position of a candidate that was hit more than once.
RankIn(hits, c) ==
    CHOOSE r \in 0..Len(hits) :
        /\ \A i \in DOMAIN hits : hits[i] = c => i <= r
        /\ r = 0 \/ hits[r] = c

\* rrfScore, as numerator and denominator.
rrfScore(b, v) ==
    LET part(r) == IF r > 0 THEN <<1, K + r>> ELSE <<0, 1>>
        p == part(b)  q == part(v)
    IN <<p[1] * q[2] + q[1] * p[2], p[2] * q[2]>>

\* The comparison of the final sort: by fused score, or by BM25 when there
\* are no vector hits to fuse with.
Better(c, d) ==
    IF near # <<>>
    THEN LET s == rrfScore(RankIn(bm25, c), RankIn(near, c))
             t == rrfScore(RankIn(bm25, d), RankIn(near, d))
         IN s[1] * t[2] > t[1] * s[2]
    ELSE RankIn(bm25, c) < RankIn(bm25, d)

\* Slip: seen is not looked at.
AllIDs_Repeated == DOMAIN Hits

\* allIDs, as positions among the hits: the first of each candidate.
AllIDs == {i \in DOMAIN Hits : \A j \in 1..(i - 1) : Hits[j] # Hits[i]}

Pointers == {i \in AllIDs : info[Hits[i]] # None}

\* The sort is not stable: any order it allows.
Rank ==
    /\ step = "rank" /\ step' = "done"
    /\ \E order \in Listings(Cardinality(Pointers), Pointers) :
          /\ \A i, j \in DOMAIN order : Better(Hits[order[i]], Hits[order[j]]) => i < j
          /\ answer' = [i \in 1..Least(limit, Len(order)) |-> Hits[order[i]]]
    /\ UNCHANGED <<limit, bm25, near, info, vars>>

-----------------------------------------------------------------------------
Searching ==
    \/ \E asked \in Asked, semantic \in BOOLEAN : KeywordQuery(asked, semantic)
    \/ VectorQuery \/ JoinSnapshots \/ Rank \/ QueryFails

SearchNext == Searching \/ (Next /\ UNCHANGED searchVars)

SearchSpec == SearchInit /\ [][SearchNext]_<<vars, searchVars>>

-----------------------------------------------------------------------------
(* Properties.                                                             *)

\* Every variable has its type.
SearchTypeOK ==
    /\ TypeOK
    /\ step \in {"new", "vec", "join", "rank", "done", "failed"}
    /\ limit \in 1..MaxLimit
    /\ bm25 \in Seq(Candidates) /\ near \in Seq(Candidates) /\ answer \in Seq(Candidates)
    /\ info \in [Candidates -> Nodes \cup {None}]

Known == {c \in Candidates : info[c] # None}

\* c is ahead of d in the ranking, every time either of them is hit.
Ahead(hits, c, d) ==
    \A j \in DOMAIN hits : hits[j] = d =>
        /\ c \in Range(hits)
        /\ \A i \in DOMAIN hits : hits[i] = c => i < j

\* Both rankings agree on c before d: the answer does too, and cuts d off
\* before c.  Repeated vector hits, hits of one query only and the cut at
\* the limit do not turn an agreed order round.
AnswerIsRanked ==
    step = "done" =>
        \A c, d \in Known :
            Ahead(bm25, c, d) /\ Ahead(near, c, d) =>
                \A j \in DOMAIN answer : answer[j] = d =>
                    \E i \in 1..(j - 1) : answer[i] = c

\* The answer fills the limit as far as there are hits that are cached, and
\* names each candidate once, though a candidate may be hit by both queries
\* and by each of its embeddings.
AnswerIsFull ==
    step = "done" =>
        /\ Len(answer) = Least(limit, Cardinality(Known))
        /\ IsInjective(answer) /\ Range(answer) \subseteq Known

\* What SearchProofs adds to them: nothing is known before the look-up, and
\* then only of hits.
HitsInv ==
    /\ step \in {"new", "vec", "join"} => Known = {}
    /\ Known \subseteq Range(Hits)
=============================================================================
