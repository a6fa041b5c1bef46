---------------------------- MODULE SnapshotIndex ----------------------------
(***************************************************************************)
(* The snapshot cache and its two indexes: an edge node pushes a           *)
(* candidate's snapshot, which is cached per (node, candidate) and then    *)
(* indexed per candidate for keyword (FTS5) and vector (vec0) search; the  *)
(* node's owner may revoke it at any time.  Sources:                       *)
(* internal/service/ingest.go, internal/httpapi/handler/{ingest,webui}.go  *)
(* and internal/store/repo/{snapshots,nodes,search}.go.                    *)
(*                                                                         *)
(* A push is not a transaction: each of its statements is a step, and      *)
(* other pushes and revocations run in between.                            *)
(*                                                                         *)
(* Abstractions.  A payload, its signature and its embedding are named by  *)
(* the push that carried them.  Search.tla has the ranking; here is which  *)
(* rows a search can see.                                                  *)
(***************************************************************************)
EXTENDS Naturals, FiniteSets

CONSTANTS
    Nodes,       \* approved nodes
    Keyed,       \* those with a public_key
    Candidates,
    Pushes,      \* POST /ingest/snapshot requests that may be made
    MaxFaults,   \* bound: failed statements and requests cut short
    None

ASSUME SnapshotIndexAssumption ==
    /\ Keyed \subseteq Nodes
    /\ None \notin Nodes \cup Candidates \cup Pushes
    /\ MaxFaults \in Nat

VARIABLES
    active,    \* nodes with is_active = 1
    pinged,    \* nodes with a last_ping_timestamp
    snapshots, \* the push cached for (node, candidate), or None
    fts,       \* the push whose payload is snapshots_fts' row of a candidate
    vecs,      \* the pushes with a row of candidate_vec, per candidate
    pc,        \* of each push
    from,      \* its node
    about,     \* its candidate
    signed,    \* pushes whose signature verifies under their node's key
    \* auxiliary
    racing,    \* pushes under way when their node was revoked
    cut,       \* candidates whose index rows a revocation removed
    mixed,     \* candidates cached by one push between another's two writes
    faults

tables == <<active, pinged, snapshots, fts, vecs>>
push   == <<pc, from, about, signed>>
vars   == <<tables, push, racing, cut, mixed, faults>>

Steps      == {"new", "upsert", "fts", "vec", "ping", "done", "refused", "aborted"}
Underway   == {"upsert", "fts", "vec", "ping"}
Signatures == {"none", "valid", "wrong"}

Init ==
    /\ active = Nodes /\ pinged = {}
    /\ snapshots = [n \in Nodes |-> [c \in Candidates |-> None]]
    /\ fts = [c \in Candidates |-> None]
    /\ vecs = [c \in Candidates |-> {}]
    /\ pc = [p \in Pushes |-> "new"]
    /\ from = [p \in Pushes |-> None]
    /\ about = [p \in Pushes |-> None]
    /\ signed = {} /\ racing = {} /\ cut = {} /\ mixed = {} /\ faults = 0

-----------------------------------------------------------------------------
(* A push, Process of IngestService.                                       *)

Goto(p, step) == pc' = [pc EXCEPT ![p] = step]

\* Slip: is_active is not looked at.
Acceptable_Revoked(n, sig, fit) == fit /\ (n \in Keyed => sig = "valid")

\* Slip: a signature is verified only when there is one.
Acceptable_Unsigned(n, sig, fit) ==
    n \in active /\ fit /\ (n \in Keyed => sig # "wrong")

\* The node is active, the payload's size, the embedding's dimension and the
\* signature's encoding are right (fit), and the signature of a node with a
\* public key verifies.
Acceptable(n, sig, fit) ==
    n \in active /\ fit /\ (n \in Keyed => sig = "valid")

\* Snapshot and Process up to the first write.
Receive(p, n, c, sig, fit) ==
    /\ pc[p] = "new"
    /\ \/ /\ Acceptable(n, sig, fit)
          /\ Goto(p, "upsert")
          /\ from' = [from EXCEPT ![p] = n]
          /\ about' = [about EXCEPT ![p] = c]
          /\ signed' = IF n \in Keyed /\ sig = "valid" THEN signed \cup {p} ELSE signed
       \/ /\ ~Acceptable(n, sig, fit)
          /\ Goto(p, "refused")
          /\ UNCHANGED <<from, about, signed>>
    /\ UNCHANGED <<tables, racing, cut, mixed, faults>>

\* A push that caches a candidate between another's snapshot and index row
\* may leave the two apart; the next push that runs alone mends them.
Mixes(p) == \E q \in Pushes \ {p} : about[q] = about[p] /\ pc[q] = "fts"

Overtake(p) == mixed' = IF Mixes(p) THEN mixed \cup {about[p]} ELSE mixed \ {about[p]}

\* Slip: ON CONFLICT DO NOTHING.
UpsertSnapshot_KeepsOld(p) ==
    /\ pc[p] = "upsert" /\ Goto(p, "fts") /\ Overtake(p)
    /\ snapshots' = [snapshots EXCEPT ![from[p]][about[p]] = IF @ = None THEN p ELSE @]
    /\ UNCHANGED <<active, pinged, fts, vecs, from, about, signed, racing, cut, faults>>

UpsertSnapshot(p) ==
    /\ pc[p] = "upsert" /\ Goto(p, "fts") /\ Overtake(p)
    /\ snapshots' = [snapshots EXCEPT ![from[p]][about[p]] = p]
    /\ UNCHANGED <<active, pinged, fts, vecs, from, about, signed, racing, cut, faults>>

\* Slip: the transaction commits after its DELETE.
ReplaceFTS5Row_DeleteOnly(p) ==
    /\ pc[p] = "fts" /\ Goto(p, "vec")
    /\ fts' = [fts EXCEPT ![about[p]] = None]
    /\ UNCHANGED <<active, pinged, snapshots, vecs, from, about, signed, racing, cut, mixed, faults>>

\* Slip: the node's id where the candidate's belongs; candidate_fts has no
\* foreign key that would refuse it.
ReplaceFTS5Row_Node(p) ==
    /\ pc[p] = "fts" /\ Goto(p, "vec")
    /\ fts' = [c \in DOMAIN fts \cup {from[p]} |-> IF c = from[p] THEN p ELSE fts[c]]
    /\ UNCHANGED <<active, pinged, snapshots, vecs, from, about, signed, racing, cut, mixed, faults>>

\* One transaction: DELETE, then INSERT.
ReplaceFTS5Row(p) ==
    /\ pc[p] = "fts" /\ Goto(p, "vec")
    /\ fts' = [fts EXCEPT ![about[p]] = p]
    /\ cut' = cut \ {about[p]}
    /\ UNCHANGED <<active, pinged, snapshots, vecs, from, about, signed, racing, mixed, faults>>

\* The embedding is optional.  candidate_vec has no key to conflict on, so
\* INSERT OR REPLACE always adds a row.
UpsertVec0Embedding(p) ==
    /\ pc[p] = "vec" /\ Goto(p, "ping")
    /\ \/ vecs' = [vecs EXCEPT ![about[p]] = @ \cup {p}]
       \/ UNCHANGED vecs
    /\ UNCHANGED <<active, pinged, snapshots, fts, from, about, signed, racing, cut, mixed, faults>>

UpdateNodePing(p) ==
    /\ pc[p] = "ping" /\ Goto(p, "done")
    /\ pinged' = pinged \cup {from[p]}
    /\ UNCHANGED <<active, snapshots, fts, vecs, from, about, signed, racing, cut, mixed, faults>>

-----------------------------------------------------------------------------
(* Revocation.                                                             *)

CandidatesOf(n) == {c \in Candidates : snapshots[n][c] # None}

\* Everything RevokeNode changes but the index rows.
Withdraw(n) ==
    /\ active' = active \ {n}
    /\ snapshots' = [snapshots EXCEPT ![n] = [c \in Candidates |-> None]]
    /\ racing' = racing \cup {p \in Pushes : from[p] = n /\ pc[p] \in Underway}
    /\ cut' = cut \cup CandidatesOf(n)
    /\ UNCHANGED <<pinged, push, mixed>>

\* Slip: the keyword index is forgotten.
RevokeNode_NoFTS(n) ==
    /\ Withdraw(n)
    /\ vecs' = [c \in Candidates |-> IF c \in CandidatesOf(n) THEN {} ELSE vecs[c]]
    /\ UNCHANGED <<fts, faults>>

\* One transaction, of the node's owner; a revoked node may be revoked again.
\* The index rows of the node's candidates go, whichever node's they are.
RevokeNode(n) ==
    /\ Withdraw(n)
    /\ fts' = [c \in Candidates |-> IF c \in CandidatesOf(n) THEN None ELSE fts[c]]
    /\ vecs' = [c \in Candidates |-> IF c \in CandidatesOf(n) THEN {} ELSE vecs[c]]
    /\ UNCHANGED faults

-----------------------------------------------------------------------------
(* Faults.                                                                 *)

Fault == faults < MaxFaults /\ faults' = faults + 1

\* A failed index write or ping is logged and the push goes on; a failed
\* upsert ends it.
StatementFails(p) ==
    /\ Fault
    /\ \/ pc[p] = "upsert" /\ Goto(p, "refused")
       \/ pc[p] = "fts" /\ Goto(p, "vec")
       \/ pc[p] = "vec" /\ Goto(p, "ping")
       \/ pc[p] = "ping" /\ Goto(p, "done")
    /\ UNCHANGED <<tables, from, about, signed, racing, cut, mixed>>

\* The process dies under the push.
Abort(p) ==
    /\ Fault
    /\ pc[p] \in Underway /\ Goto(p, "aborted")
    /\ UNCHANGED <<tables, from, about, signed, racing, cut, mixed>>

\* RevokeNode does not look at the errors of its index DELETEs.
RevokeNodeUnindexed(n) ==
    /\ Fault
    /\ Withdraw(n)
    /\ UNCHANGED <<fts, vecs>>

-----------------------------------------------------------------------------
Next ==
    \/ \E p \in Pushes :
          \/ \E n \in Nodes, c \in Candidates, sig \in Signatures, fit \in BOOLEAN :
                Receive(p, n, c, sig, fit)
          \/ UpsertSnapshot(p) \/ ReplaceFTS5Row(p)
          \/ UpsertVec0Embedding(p) \/ UpdateNodePing(p)
          \/ StatementFails(p) \/ Abort(p)
    \/ \E n \in Nodes : RevokeNode(n) \/ RevokeNodeUnindexed(n)

Spec == Init /\ [][Next]_vars

-----------------------------------------------------------------------------
(* What the readers see.                                                   *)

\* get_talent_profile and /fed/profile read the cache.
Readable == {c \in Candidates : \E n \in Nodes : snapshots[n][c] # None}

\* A full-text query can hit the candidates with a row; /fed/search answers
\* with them as they are.
FTS5Search == {c \in Candidates : fts[c] # None}

\* The pushes behind a candidate's index rows.
Indexed(c) == ({fts[c]} \ {None}) \cup vecs[c]

Vec0Search == {c \in Candidates : vecs[c] # {}}

\* search_talent, with a query vector (semantic) or without: hits without a
\* snapshot that SnapshotsByCandidateIDs returns are dropped.
SearchTalent(semantic) ==
    (FTS5Search \cup (IF semantic THEN Vec0Search ELSE {})) \cap Readable

-----------------------------------------------------------------------------
(* Properties.                                                             *)

\* Every variable has its type.
TypeOK ==
    /\ active \subseteq Nodes /\ pinged \subseteq Nodes
    /\ snapshots \in [Nodes -> [Candidates -> Pushes \cup {None}]]
    /\ fts \in [Candidates -> Pushes \cup {None}]
    /\ vecs \in [Candidates -> SUBSET Pushes]
    /\ pc \in [Pushes -> Steps]
    /\ from \in [Pushes -> Nodes \cup {None}]
    /\ about \in [Pushes -> Candidates \cup {None}]
    /\ signed \subseteq Pushes /\ racing \subseteq Pushes /\ cut \subseteq Candidates
    /\ mixed \subseteq Candidates
    /\ faults \in 0..MaxFaults

\* What RevokeNode removed stays removed, but for pushes that were already
\* past Process's is_active check when it committed: no push begun later
\* gets into the cache of a revoked node.
RevocationHolds ==
    \A n \in Nodes \ active, c \in Candidates : snapshots[n][c] \in racing \cup {None}

\* Without faults, an index row always has the snapshot of its push's node
\* and candidate behind it, unless that push raced a revocation: /fed/search,
\* which does not join with snapshots, names no candidate that is gone.
IndexIsBacked ==
    faults = 0 =>
        \A c \in Candidates : \A p \in Indexed(c) :
            p \in racing \/ snapshots[from[p]][c] # None

\* Without faults, revocation holds in the indexes too: a row of a push from
\* a revoked node was written by a push that the revocation overtook, never
\* left behind by one that was already through.
RevocationHoldsInIndex ==
    faults = 0 =>
        \A c \in Candidates : \A p \in Indexed(c) : from[p] \in active \/ p \in racing

\* Without faults, a cached candidate that keyword search cannot find is
\* about to be indexed, or another node's revocation took its index row.
CachedIsSearchable ==
    faults = 0 =>
        \A c \in Readable :
            \/ c \in SearchTalent(FALSE) \cup cut
            \/ \E p \in Pushes : about[p] = c /\ pc[p] = "fts"

\* Without faults, keyword search finds a candidate by what is cached of it
\* now, not by an earlier push: the row is about to be replaced, or its push
\* raced a revocation, or two pushes mixed their writes and none has run
\* alone since.
IndexIsFresh ==
    faults = 0 =>
        \A c \in FTS5Search \ mixed :
            \/ snapshots[from[fts[c]]][c] = fts[c] \/ fts[c] \in racing
            \/ \E p \in Pushes : about[p] = c /\ pc[p] = "fts"

\* Whatever can be read or found of a node with a public key was signed with
\* that key, through races, failed statements and crashes.
CachedIsVerified ==
    /\ \A n \in Keyed, c \in Candidates :
          snapshots[n][c] # None => snapshots[n][c] \in signed
    /\ \A c \in Candidates : \A p \in Indexed(c) :
          from[p] \in Keyed => p \in signed

\* A revoked node with no push under way has no data in the cache and none
\* in the indexes (without faults).
RevokedDataGone ==
    faults = 0 =>
        \A n \in Nodes \ active :
            (\A p \in Pushes : from[p] = n => pc[p] \notin Underway)
            => \A c \in Candidates :
                  /\ snapshots[n][c] = None
                  /\ \A p \in Indexed(c) : from[p] # n

-----------------------------------------------------------------------------
(* The inductive invariant behind the properties above; see                *)
(* SnapshotIndexProofs.                                                    *)

\* A row names a push that has begun, under the node and the candidate that
\* it is about.
RowsInv ==
    /\ \A n \in Nodes, c \in Candidates : LET p == snapshots[n][c]
       IN p # None => pc[p] # "new" /\ from[p] = n /\ about[p] = c
    /\ \A c \in Candidates : \A p \in Indexed(c) :
          pc[p] # "new" /\ from[p] \in Nodes /\ about[p] = c

\* What a push under way may rely on: its node was active when it began, and
\* its snapshot is there once written, unless a revocation overtook it.
PushesInv ==
    \A p \in Pushes :
        /\ pc[p] \in Underway =>
              /\ from[p] \in Nodes /\ about[p] \in Candidates
              /\ from[p] \in active \/ p \in racing
              /\ from[p] \in Keyed => p \in signed
        /\ pc[p] \in Underway \ {"upsert"} =>
              p \in racing \/ snapshots[from[p]][about[p]] # None
        /\ pc[p] = "fts" =>
              \/ p \in racing \/ about[p] \in mixed
              \/ snapshots[from[p]][about[p]] = p

IInv ==
    /\ TypeOK /\ RowsInv /\ PushesInv
    /\ RevocationHolds /\ IndexIsBacked /\ CachedIsSearchable /\ IndexIsFresh
    /\ CachedIsVerified
=============================================================================
