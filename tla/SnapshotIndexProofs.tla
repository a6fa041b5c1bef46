------------------------ MODULE SnapshotIndexProofs ------------------------
(***************************************************************************)
(* Proofs that the properties of SnapshotIndex hold for every set of       *)
(* nodes, candidates and pushes.  The invariant IInv adds to them which    *)
(* push a row may name (RowsInv) and what a push under way may rely on     *)
(* (PushesInv).                                                            *)
(***************************************************************************)
EXTENDS SnapshotIndex, TLAPS

USE SnapshotIndexAssumption DEF SnapshotIndexAssumption

\* The inductive invariant holds initially.
LEMMA InitIInv == Init => IInv
<1> SUFFICES ASSUME Init PROVE IInv
  OBVIOUS
<1> USE DEF Init
<1>1. TypeOK
  BY DEF TypeOK, Steps
<1>2. RowsInv /\ CachedIsVerified /\ IndexIsBacked
  BY DEF RowsInv, CachedIsVerified, IndexIsBacked, Indexed
<1>3. PushesInv
  BY DEF PushesInv, Underway
<1>4. RevocationHolds /\ CachedIsSearchable /\ IndexIsFresh
  BY DEF RevocationHolds, CachedIsSearchable, Readable, IndexIsFresh, FTS5Search
<1> QED
  BY <1>1, <1>2, <1>3, <1>4 DEF IInv

\* Receiving a push preserves the inductive invariant.
LEMMA ReceiveIInv ==
  ASSUME IInv, NEW p \in Pushes, NEW n \in Nodes, NEW c \in Candidates,
         NEW sig \in Signatures, NEW fit \in BOOLEAN, Receive(p, n, c, sig, fit)
  PROVE  IInv'
<1> USE DEF IInv, tables, Goto
<1>1. /\ pc[p] = "new" /\ UNCHANGED <<tables, racing, cut, mixed, faults>>
      /\ \/ /\ n \in active /\ (n \in Keyed => sig = "valid")
            /\ pc' = [pc EXCEPT ![p] = "upsert"]
            /\ from' = [from EXCEPT ![p] = n]
            /\ about' = [about EXCEPT ![p] = c]
            /\ signed' = IF n \in Keyed /\ sig = "valid" THEN signed \cup {p} ELSE signed
         \/ pc' = [pc EXCEPT ![p] = "refused"] /\ UNCHANGED <<from, about, signed>>
  BY DEF Receive, Acceptable
<1>2. TypeOK'
  <2>1. pc' \in [Pushes -> Steps]
    BY <1>1 DEF TypeOK, Steps
  <2>2. from' \in [Pushes -> Nodes \cup {None}]
    BY <1>1 DEF TypeOK
  <2>3. about' \in [Pushes -> Candidates \cup {None}]
    BY <1>1 DEF TypeOK
  <2> QED
    BY <1>1, <2>1, <2>2, <2>3 DEF TypeOK
<1>3. RowsInv'
  BY <1>1 DEF RowsInv, TypeOK, Indexed
<1>4. PushesInv'
  BY <1>1 DEF PushesInv, TypeOK, Underway
<1>5. RevocationHolds' /\ IndexIsBacked'
  BY <1>1 DEF RevocationHolds, IndexIsBacked, TypeOK, Indexed, RowsInv
<1>6. CachedIsSearchable'
  <2>1. \A q \in Pushes : pc[q] = "fts" => pc'[q] = "fts" /\ about'[q] = about[q]
    BY <1>1 DEF TypeOK
  <2> QED
    BY <1>1, <2>1 DEF CachedIsSearchable, Readable, SearchTalent, FTS5Search
<1>7. CachedIsVerified'
  BY <1>1 DEF CachedIsVerified, TypeOK, Indexed, RowsInv
<1>8. IndexIsFresh'
  <2>1. \A q \in Pushes : pc[q] = "fts" => pc'[q] = "fts" /\ about'[q] = about[q]
    BY <1>1 DEF TypeOK
  <2>2. \A d \in FTS5Search : fts[d] \in Pushes /\ from'[fts[d]] = from[fts[d]]
    BY <1>1 DEF RowsInv, Indexed, FTS5Search, TypeOK
  <2> QED
    BY <1>1, <2>1, <2>2 DEF IndexIsFresh, FTS5Search
<1> QED
  BY <1>2, <1>3, <1>4, <1>5, <1>6, <1>7, <1>8

\* Writing the snapshot, the index rows and the ping preserves it.
LEMMA WriteIInv ==
  ASSUME IInv, NEW p \in Pushes,
         \/ UpsertSnapshot(p) \/ ReplaceFTS5Row(p)
         \/ UpsertVec0Embedding(p) \/ UpdateNodePing(p)
  PROVE  IInv'
<1> USE DEF IInv, Goto
<1> DEFINE n == from[p]
           c == about[p]
<1>0. pc[p] \in Underway => n \in Nodes /\ c \in Candidates
  BY DEF PushesInv
<1>1. CASE UpsertSnapshot(p)
  <2>1. /\ pc[p] = "upsert" /\ n \in Nodes /\ c \in Candidates
        /\ pc' = [pc EXCEPT ![p] = "fts"]
        /\ snapshots' = [snapshots EXCEPT ![n][c] = p]
        /\ mixed' = IF Mixes(p) THEN mixed \cup {c} ELSE mixed \ {c}
        /\ UNCHANGED <<active, pinged, fts, vecs, from, about, signed, racing, cut, faults>>
    BY <1>0, <1>1 DEF UpsertSnapshot, Overtake, Underway
  <2>2. /\ snapshots'[n][c] = p
        /\ \A m \in Nodes, d \in Candidates :
              <<m, d>> # <<n, c>> => snapshots'[m][d] = snapshots[m][d]
    BY <2>1 DEF TypeOK
  <2>3. p # None /\ (n \in active \/ p \in racing) /\ (n \in Keyed => p \in signed)
    BY <2>1 DEF PushesInv, Underway
  <2> HIDE DEF n, c
  <2>4. TypeOK'
    BY <2>1 DEF TypeOK, Steps
  <2>5. RowsInv'
    BY <2>1, <2>2, <2>3 DEF RowsInv, TypeOK, Indexed, n, c
  <2>6. PushesInv'
    <3>1. \A q \in Pushes \ {p} : about[q] = c /\ pc[q] = "fts" => c \in mixed'
      BY <2>1 DEF Mixes, c
    <3> QED
      BY <2>1, <2>2, <2>3, <3>1 DEF PushesInv, TypeOK, Underway, n, c
  <2>7. RevocationHolds'
    BY <2>1, <2>2, <2>3 DEF RevocationHolds
  <2>8. IndexIsBacked'
    BY <2>1, <2>2, <2>3 DEF IndexIsBacked, Indexed, RowsInv
  <2>9. CachedIsSearchable'
    <3>1. \A q \in Pushes : pc[q] = "fts" => pc'[q] = "fts"
      BY <2>1 DEF TypeOK
    <3>2. pc'[p] = "fts" /\ about'[p] = c
      BY <2>1 DEF TypeOK, c
    <3> QED
      BY <2>1, <2>2, <3>1, <3>2 DEF CachedIsSearchable, Readable, SearchTalent, FTS5Search
  <2>10. CachedIsVerified'
    BY <2>1, <2>2, <2>3 DEF CachedIsVerified, Indexed
  <2>11. IndexIsFresh'
    <3>1. pc'[p] = "fts" /\ about'[p] = c /\ \A q \in Pushes : pc[q] = "fts" => pc'[q] = "fts"
      BY <2>1 DEF TypeOK, c
    <3>2. \A d \in FTS5Search \ {c} : /\ d \in mixed <=> d \in mixed'
                                     /\ fts[d] \in Pushes /\ from[fts[d]] \in Nodes
      BY <2>1 DEF RowsInv, Indexed, FTS5Search, TypeOK
    <3> QED
      BY <2>1, <2>2, <3>1, <3>2 DEF IndexIsFresh, FTS5Search
  <2> QED
    BY <2>4, <2>5, <2>6, <2>7, <2>8, <2>9, <2>10, <2>11
<1>2. CASE ReplaceFTS5Row(p)
  <2>1. /\ pc[p] = "fts" /\ n \in Nodes /\ c \in Candidates
        /\ pc' = [pc EXCEPT ![p] = "vec"]
        /\ fts' = [fts EXCEPT ![c] = p]
        /\ cut' = cut \ {c}
        /\ UNCHANGED <<active, pinged, snapshots, vecs, from, about, signed, racing, mixed, faults>>
    BY <1>0, <1>2 DEF ReplaceFTS5Row, Underway
  <2>2. /\ p \in racing \/ snapshots[n][c] # None
        /\ n \in Keyed => p \in signed
    BY <2>1 DEF PushesInv, Underway
  <2>3. \A d \in Candidates : \A q \in Indexed(d)' : q \in Indexed(d) \/ (q = p /\ d = c)
    BY <2>1 DEF Indexed, TypeOK
  <2> HIDE DEF n, c
  <2>4. TypeOK'
    BY <2>1 DEF TypeOK, Steps
  <2>5. RowsInv'
    BY <2>1, <2>3 DEF RowsInv, TypeOK, n, c
  <2>6. PushesInv'
    BY <2>1 DEF PushesInv, TypeOK, Underway
  <2>7. RevocationHolds'
    BY <2>1 DEF RevocationHolds
  <2>8. IndexIsBacked'
    BY <2>1, <2>2, <2>3 DEF IndexIsBacked, n
  <2>9. CachedIsSearchable'
    <3>1. /\ \A d \in Candidates : fts'[d] = fts[d] \/ d = c
          /\ fts'[c] # None
      BY <2>1 DEF TypeOK
    <3>2. \A q \in Pushes : pc[q] = "fts" => pc'[q] = "fts" \/ about[q] = c
      BY <2>1 DEF TypeOK, c
    <3> QED
      BY <2>1, <3>1, <3>2 DEF CachedIsSearchable, Readable, SearchTalent, FTS5Search
  <2>10. CachedIsVerified'
    BY <2>1, <2>2, <2>3 DEF CachedIsVerified, n
  <2>11. IndexIsFresh'
    <3>1. fts'[c] = p /\ \A d \in Candidates : fts'[d] = fts[d] \/ d = c
      BY <2>1 DEF TypeOK
    <3>2. \A q \in Pushes : pc[q] = "fts" => pc'[q] = "fts" \/ about[q] = c
      BY <2>1 DEF TypeOK, c
    <3>3. p \in racing \/ c \in mixed \/ snapshots[n][c] = p
      BY <2>1 DEF PushesInv, n, c
    <3> QED
      BY <2>1, <3>1, <3>2, <3>3 DEF IndexIsFresh, FTS5Search, n
  <2> QED
    BY <2>4, <2>5, <2>6, <2>7, <2>8, <2>9, <2>10, <2>11
<1>3. CASE UpsertVec0Embedding(p)
  <2>1. /\ pc[p] = "vec" /\ n \in Nodes /\ c \in Candidates
        /\ pc' = [pc EXCEPT ![p] = "ping"]
        /\ UNCHANGED <<active, pinged, snapshots, fts, from, about, signed, racing, cut, mixed, faults>>
        /\ vecs' = [vecs EXCEPT ![c] = @ \cup {p}] \/ UNCHANGED vecs
    BY <1>0, <1>3 DEF UpsertVec0Embedding, Underway
  <2>2. /\ p \in racing \/ snapshots[n][c] # None
        /\ n \in Keyed => p \in signed
    BY <2>1 DEF PushesInv, Underway
  <2>3. \A d \in Candidates : \A q \in Indexed(d)' : q \in Indexed(d) \/ (q = p /\ d = c)
    BY <2>1 DEF Indexed, TypeOK
  <2> HIDE DEF n, c
  <2>4. TypeOK'
    <3>1. vecs' \in [Candidates -> SUBSET Pushes]
      BY <2>1 DEF TypeOK
    <3> QED
      BY <2>1, <3>1 DEF TypeOK, Steps
  <2>5. RowsInv'
    BY <2>1, <2>3 DEF RowsInv, TypeOK, n, c
  <2>6. PushesInv'
    BY <2>1 DEF PushesInv, TypeOK, Underway
  <2>7. RevocationHolds'
    BY <2>1 DEF RevocationHolds
  <2>8. IndexIsBacked'
    BY <2>1, <2>2, <2>3 DEF IndexIsBacked, n
  <2>9. CachedIsSearchable'
    <3>1. \A q \in Pushes : pc[q] = "fts" => pc'[q] = "fts"
      BY <2>1 DEF TypeOK
    <3> QED
      BY <2>1, <3>1 DEF CachedIsSearchable, Readable, SearchTalent, FTS5Search
  <2>10. CachedIsVerified'
    BY <2>1, <2>2, <2>3 DEF CachedIsVerified, n
  <2>11. IndexIsFresh'
    <3>1. \A q \in Pushes : pc[q] = "fts" => pc'[q] = "fts"
      BY <2>1 DEF TypeOK
    <3> QED
      BY <2>1, <3>1 DEF IndexIsFresh, FTS5Search
  <2> QED
    BY <2>4, <2>5, <2>6, <2>7, <2>8, <2>9, <2>10, <2>11
<1>4. CASE UpdateNodePing(p)
  <2>1. /\ pc[p] = "ping" /\ n \in Nodes
        /\ pc' = [pc EXCEPT ![p] = "done"]
        /\ pinged' = pinged \cup {n}
        /\ UNCHANGED <<active, snapshots, fts, vecs, from, about, signed, racing, cut, mixed, faults>>
    BY <1>0, <1>4 DEF UpdateNodePing, Underway
  <2> HIDE DEF n, c
  <2>2. TypeOK'
    BY <2>1 DEF TypeOK, Steps
  <2>3. RowsInv' /\ PushesInv'
    BY <2>1 DEF RowsInv, PushesInv, TypeOK, Underway, Indexed
  <2>4. \A q \in Pushes : pc[q] = "fts" => pc'[q] = "fts"
    BY <2>1 DEF TypeOK
  <2>5. CachedIsSearchable' /\ IndexIsFresh'
    BY <2>1, <2>4 DEF CachedIsSearchable, IndexIsFresh, Readable, SearchTalent, FTS5Search
  <2>6. RevocationHolds' /\ IndexIsBacked' /\ CachedIsVerified'
    BY <2>1 DEF RevocationHolds, IndexIsBacked, CachedIsVerified, Indexed
  <2> QED
    BY <2>2, <2>3, <2>5, <2>6
<1> QED
  BY <1>1, <1>2, <1>3, <1>4

\* A failed statement and a push cut short preserve it.
LEMMA FaultIInv ==
  ASSUME IInv, NEW p \in Pushes, StatementFails(p) \/ Abort(p)
  PROVE  IInv'
<1> USE DEF IInv, tables
<1>1. /\ pc[p] \in Underway
      /\ \/ pc' = [pc EXCEPT ![p] = "aborted"]
         \/ pc' = [pc EXCEPT ![p] = "refused"]
         \/ pc[p] = "fts" /\ pc' = [pc EXCEPT ![p] = "vec"]
         \/ pc[p] = "vec" /\ pc' = [pc EXCEPT ![p] = "ping"]
         \/ pc' = [pc EXCEPT ![p] = "done"]
      /\ faults < MaxFaults /\ faults' = faults + 1
      /\ UNCHANGED <<tables, from, about, signed, racing, cut, mixed>>
  BY DEF StatementFails, Abort, Fault, Goto, Underway
<1>2. faults' \in 0..MaxFaults /\ faults' # 0
  BY <1>1 DEF TypeOK
<1>3. TypeOK'
  BY <1>1, <1>2 DEF TypeOK, Steps
<1>4. RowsInv'
  BY <1>1 DEF RowsInv, TypeOK, Indexed, Underway
<1>5. PushesInv'
  BY <1>1 DEF PushesInv, TypeOK, Underway
<1>6. /\ RevocationHolds' /\ IndexIsBacked' /\ CachedIsSearchable' /\ IndexIsFresh'
      /\ CachedIsVerified'
  BY <1>1, <1>2 DEF RevocationHolds, IndexIsBacked, CachedIsSearchable, IndexIsFresh,
                    CachedIsVerified, Indexed
<1> QED
  BY <1>3, <1>4, <1>5, <1>6

\* Revoking a node preserves it.
LEMMA RevokeIInv ==
  ASSUME IInv, NEW n \in Nodes, RevokeNode(n) \/ RevokeNodeUnindexed(n)
  PROVE  IInv'
<1> USE DEF IInv
<1>1. /\ active' = active \ {n}
      /\ racing' = racing \cup {p \in Pushes : from[p] = n /\ pc[p] \in Underway}
      /\ cut' = cut \cup CandidatesOf(n)
      /\ UNCHANGED <<pinged, pc, from, about, signed, mixed>>
      /\ snapshots' = [snapshots EXCEPT ![n] = [c \in Candidates |-> None]]
  BY DEF RevokeNode, RevokeNodeUnindexed, Withdraw, push
<1>2. /\ \A c \in Candidates : snapshots'[n][c] = None
      /\ \A m \in Nodes \ {n}, c \in Candidates : snapshots'[m][c] = snapshots[m][c]
      /\ snapshots' \in [Nodes -> [Candidates -> Pushes \cup {None}]]
  BY <1>1 DEF TypeOK
<1>3. \/ /\ fts' = [c \in Candidates |-> IF c \in CandidatesOf(n) THEN None ELSE fts[c]]
         /\ vecs' = [c \in Candidates |-> IF c \in CandidatesOf(n) THEN {} ELSE vecs[c]]
         /\ UNCHANGED faults
      \/ UNCHANGED <<fts, vecs>> /\ faults' \in 0..MaxFaults /\ faults' # 0
  BY DEF RevokeNode, RevokeNodeUnindexed, Fault, TypeOK
<1>4. \A c \in Candidates :
         /\ \A q \in Indexed(c)' : q \in Indexed(c)
         /\ faults' = 0 /\ c \in CandidatesOf(n) => Indexed(c)' = {}
         /\ c \notin CandidatesOf(n) => fts'[c] = fts[c]
  BY <1>3 DEF Indexed
<1>5. faults' = 0 => faults = 0
  BY <1>3
<1>6. TypeOK'
  <2>1. fts' \in [Candidates -> Pushes \cup {None}] /\ vecs' \in [Candidates -> SUBSET Pushes]
    BY <1>3 DEF TypeOK
  <2>2. faults' \in 0..MaxFaults
    BY <1>3 DEF TypeOK
  <2> QED
    BY <1>1, <1>2, <2>1, <2>2 DEF TypeOK, CandidatesOf
<1>7. RowsInv'
  BY <1>1, <1>2, <1>4 DEF RowsInv
<1>8. PushesInv'
  BY <1>1, <1>2 DEF PushesInv, Underway
<1>9. RevocationHolds'
  BY <1>1, <1>2 DEF RevocationHolds
<1>10. IndexIsBacked'
  <2> SUFFICES ASSUME faults' = 0, NEW c \in Candidates, NEW p \in Indexed(c)'
               PROVE  p \in racing' \/ snapshots'[from'[p]][c] # None
    BY DEF IndexIsBacked
  <2>1. /\ p \in Indexed(c) /\ c \notin CandidatesOf(n) /\ from[p] \in Nodes
        /\ p \in racing \/ snapshots[from[p]][c] # None
    BY <1>4, <1>5 DEF IndexIsBacked, RowsInv
  <2>2. snapshots[n][c] = None
    BY <2>1 DEF CandidatesOf
  <2> QED
    BY <1>1, <1>2, <2>1, <2>2
<1>11. CachedIsSearchable'
  <2> SUFFICES ASSUME faults' = 0, NEW c \in Readable'
               PROVE  \/ c \in SearchTalent(FALSE)' \cup cut'
                      \/ \E p \in Pushes : about'[p] = c /\ pc'[p] = "fts"
    BY DEF CachedIsSearchable
  <2>1. c \in Readable
    BY <1>2 DEF Readable
  <2>2. \/ fts[c] # None \/ c \in cut
        \/ \E p \in Pushes : about[p] = c /\ pc[p] = "fts"
    BY <1>5, <2>1 DEF CachedIsSearchable, SearchTalent, FTS5Search
  <2>3. c \in cut' \/ fts'[c] = fts[c]
    BY <1>1, <1>4, <2>1 DEF Readable
  <2> QED
    BY <1>1, <2>2, <2>3 DEF SearchTalent, FTS5Search, Readable
<1>12. CachedIsVerified'
  BY <1>1, <1>2, <1>4 DEF CachedIsVerified
<1>13. IndexIsFresh'
  <2> SUFFICES ASSUME faults' = 0, NEW c \in FTS5Search', c \notin mixed
               PROVE  \/ snapshots'[from[fts'[c]]][c] = fts'[c] \/ fts'[c] \in racing'
                      \/ \E p \in Pushes : about[p] = c /\ pc[p] = "fts"
    BY <1>1 DEF IndexIsFresh
  <2>1. /\ c \in FTS5Search /\ fts'[c] = fts[c] /\ fts[c] \in Indexed(c)
        /\ c \notin CandidatesOf(n)
    BY <1>3 DEF FTS5Search, Indexed
  <2>2. fts[c] # None /\ from[fts[c]] \in Nodes /\ snapshots[n][c] = None
    BY <2>1 DEF RowsInv, FTS5Search, CandidatesOf
  <2>3. \/ snapshots[from[fts[c]]][c] = fts[c] \/ fts[c] \in racing
        \/ \E p \in Pushes : about[p] = c /\ pc[p] = "fts"
    BY <1>5, <2>1 DEF IndexIsFresh
  <2>4. snapshots'[from[fts[c]]][c] = snapshots[from[fts[c]]][c]
    BY <1>2, <2>1, <2>2 DEF FTS5Search
  <2> QED
    BY <1>1, <2>1, <2>3, <2>4
<1> QED
  BY <1>6, <1>7, <1>8, <1>9, <1>10, <1>11, <1>12, <1>13

\* The inductive invariant holds throughout.
THEOREM SnapshotIndexInvariant == Spec => []IInv
<1>1. IInv /\ UNCHANGED vars => IInv'
  BY DEF IInv, TypeOK, RowsInv, PushesInv, RevocationHolds, IndexIsBacked, CachedIsSearchable,
         IndexIsFresh, CachedIsVerified, Indexed, Readable, SearchTalent, FTS5Search, vars, tables, push
<1>2. IInv /\ [Next]_vars => IInv'
  BY <1>1, ReceiveIInv, WriteIInv, FaultIInv, RevokeIInv DEF Next
<1> QED
  BY InitIInv, <1>2, PTL DEF Spec

\* A revoked node's cache holds nothing but pushes its revocation overtook.
THEOREM RevocationCorrect == Spec => []RevocationHolds
<1>1. IInv => RevocationHolds
  BY DEF IInv
<1> QED
  BY SnapshotIndexInvariant, <1>1, PTL

\* Every variable keeps its type.
THEOREM TypeCorrect == Spec => []TypeOK
<1>1. IInv => TypeOK
  BY DEF IInv
<1> QED
  BY SnapshotIndexInvariant, <1>1, PTL

\* Index rows have a snapshot behind them.
THEOREM BackedCorrect == Spec => []IndexIsBacked
<1>1. IInv => IndexIsBacked
  BY DEF IInv
<1> QED
  BY SnapshotIndexInvariant, <1>1, PTL

\* Cached candidates can be found.
THEOREM SearchableCorrect == Spec => []CachedIsSearchable
<1>1. IInv => CachedIsSearchable
  BY DEF IInv
<1> QED
  BY SnapshotIndexInvariant, <1>1, PTL

\* What the keyword index holds of a candidate is what is cached of it.
THEOREM FreshCorrect == Spec => []IndexIsFresh
<1>1. IInv => IndexIsFresh
  BY DEF IInv
<1> QED
  BY SnapshotIndexInvariant, <1>1, PTL

\* What is served of a node with a public key was signed with that key.
THEOREM VerifiedCorrect == Spec => []CachedIsVerified
<1>1. IInv => CachedIsVerified
  BY DEF IInv
<1> QED
  BY SnapshotIndexInvariant, <1>1, PTL

-----------------------------------------------------------------------------
(* Revocation and the indexes.                                             *)

\* Every step keeps the index rows of revoked nodes to overtaken pushes.
LEMMA IndexRevocationStep ==
  ASSUME IInv, RevocationHoldsInIndex, [Next]_vars
  PROVE  RevocationHoldsInIndex'
<1> SUFFICES ASSUME faults' = 0, NEW c \in Candidates, NEW q \in Indexed(c)'
             PROVE  (from[q] \in active \/ q \in racing)'
  BY DEF RevocationHoldsInIndex
<1> USE DEF tables, push
<1>t. TypeOK /\ RowsInv /\ PushesInv /\ IndexIsBacked
  BY DEF IInv
<1>0. \A p \in Indexed(c) : faults = 0 => from[p] \in active \/ p \in racing
  BY DEF RevocationHoldsInIndex
<1>1. ASSUME NEW p \in Pushes, NEW n \in Nodes, NEW d \in Candidates,
             NEW sig \in Signatures, NEW fit \in BOOLEAN, Receive(p, n, d, sig, fit)
      PROVE  (from[q] \in active \/ q \in racing)'
  <2>1. /\ pc[p] = "new" /\ UNCHANGED <<fts, vecs, active, racing, faults>>
        /\ from' = [from EXCEPT ![p] = n] \/ UNCHANGED from
    BY <1>1 DEF Receive
  <2>2. q \in Indexed(c)
    BY <2>1 DEF Indexed
  <2>3. q \in Pushes /\ q # p
    BY <1>t, <2>1, <2>2 DEF RowsInv, Indexed, TypeOK
  <2>4. from'[q] = from[q]
    BY <1>t, <2>1, <2>3 DEF TypeOK
  <2> QED
    BY <1>0, <2>1, <2>2, <2>4
<1>2. ASSUME NEW p \in Pushes, ReplaceFTS5Row(p) \/ UpsertVec0Embedding(p)
      PROVE  (from[q] \in active \/ q \in racing)'
  <2>1. /\ pc[p] \in {"fts", "vec"} /\ UNCHANGED <<from, active, racing, faults>>
        /\ q \in Indexed(c) \cup {p}
    BY <1>2, <1>t DEF ReplaceFTS5Row, UpsertVec0Embedding, Indexed, TypeOK
  <2>2. from[p] \in active \/ p \in racing
    BY <1>t, <2>1 DEF PushesInv, Underway
  <2> QED
    BY <1>0, <2>1, <2>2
<1>3. ASSUME NEW n \in Nodes, RevokeNode(n)
      PROVE  (from[q] \in active \/ q \in racing)'
  <2>1. /\ q \in Indexed(c) /\ c \notin CandidatesOf(n)
        /\ active' = active \ {n} /\ racing \subseteq racing' /\ UNCHANGED <<from, faults>>
    BY <1>3 DEF RevokeNode, Withdraw, Indexed
  <2>2. q \in racing \/ from[q] # n
    BY <1>t, <2>1 DEF IndexIsBacked, CandidatesOf
  <2> QED
    BY <1>0, <2>1, <2>2
<1>4. CASE UNCHANGED <<fts, vecs, from, active, racing, faults>>
  BY <1>0, <1>4 DEF Indexed
<1>5. ASSUME Fault PROVE FALSE
  BY <1>5, <1>t DEF Fault, TypeOK
<1> QED
  BY <1>1, <1>2, <1>3, <1>4, <1>5
     DEF Next, vars, UpsertSnapshot, UpdateNodePing, StatementFails, Abort,
         RevokeNodeUnindexed

\* Revocation holds in the indexes as it does in the cache.
THEOREM IndexRevocationCorrect == Spec => []RevocationHoldsInIndex
<1>1. Init => RevocationHoldsInIndex
  BY DEF Init, RevocationHoldsInIndex, Indexed
<1> QED
  BY <1>1, IndexRevocationStep, SnapshotIndexInvariant, PTL DEF Spec

\* The data of a revoked node is all gone as long as no push of that node was
\* under way when it was revoked: the finding of snapshot_revoked has this
\* one cause, whatever the other nodes do.
THEOREM RevokedDataCause ==
  Spec => [](faults = 0 =>
               \A n \in Nodes \ active :
                  (\A p \in racing : from[p] # n) =>
                  \A c \in Candidates :
                     /\ snapshots[n][c] = None
                     /\ \A p \in Indexed(c) : from[p] # n)
<1>1. IInv /\ RevocationHoldsInIndex =>
        (faults = 0 =>
           \A n \in Nodes \ active :
              (\A p \in racing : from[p] # n) =>
              \A c \in Candidates :
                 /\ snapshots[n][c] = None
                 /\ \A p \in Indexed(c) : from[p] # n)
  BY DEF IInv, RowsInv, RevocationHolds, RevocationHoldsInIndex
<1> QED
  BY <1>1, SnapshotIndexInvariant, IndexRevocationCorrect, PTL

\* In particular RevokedDataGone holds of every run of the program in which
\* no push was overtaken by a revocation.
THEOREM RevokedDataGoneUnlessRaced == Spec => [](racing = {} => RevokedDataGone)
<1>1. IInv /\ RevocationHoldsInIndex => (racing = {} => RevokedDataGone)
  BY DEF IInv, RevocationHolds, RevocationHoldsInIndex, RevokedDataGone
<1> QED
  BY <1>1, SnapshotIndexInvariant, IndexRevocationCorrect, PTL
=============================================================================
