----------------------------- MODULE Federation -----------------------------
(***************************************************************************)
(* The federation peers and the database connections they share with the   *)
(* rest of the process: peers register and read, the admin approves and    *)
(* revokes them, the sync worker pulls from the active ones, the outbox    *)
(* worker drains.  Sources: internal/federation/{handler,repo,sync,        *)
(* discovery}.go, internal/httpapi/handler/admin.go,                       *)
(* internal/store/store.go and internal/outbox/outbox.go.                  *)
(*                                                                         *)
(* A statement takes a connection of the pool and gives it back, in one    *)
(* step; it waits while none is free.  Only syncOnce keeps one from step   *)
(* to step, because it works inside its loop over open rows.               *)
(*                                                                         *)
(* Abstractions.  Bodies are signed by whoever sends them, so a request's  *)
(* signature always verifies.  The key a registration is stored with is    *)
(* the public_key its body names: no code compares it with the key in the  *)
(* header that the signature was verified with, and a registration may     *)
(* name any key of Claims.  A peer's endpoint, its last_seen_at, the audit *)
(* log and the contents of what is served and synced are left out.         *)
(***************************************************************************)
EXTENDS Naturals, FiniteSets

CONSTANTS
    Ids,       \* ids of federated_instances ("fed_" and a name)
    Keys,      \* public keys
    Claims,    \* the <<id, key>> pairs that registrations name
    Requests,  \* requests on the federation port that may be made
    PoolSize,  \* SetMaxOpenConns
    None

ASSUME FederationAssumption ==
    /\ Claims \subseteq Ids \X Keys
    /\ PoolSize \in Nat \ {0}
    /\ None \notin Ids \cup Keys

VARIABLES
    \* federated_instances and federated_snapshots
    key,      \* instance_key of each id, None when there is no row
    active,   \* ids with is_active = 1
    revoked,  \* ids with a revoked_at
    synced,   \* ids with rows in federated_snapshots
    \* requests on the federation port
    pc,
    id,       \* the id a registration names
    from,     \* the key a registration names, or that signed a read
    trusted,  \* whether it came with the join secret
    \* the sync worker: its rows still to do and where it is in syncPeer
    todo, at,
    \* the outbox worker: "idle", or "due" when its next drain must run
    drain,
    held,     \* connections held from step to step
    \* auxiliary
    blessed,  \* keys with the operator's trust, by secret or approval
    unaware,  \* registrations that go on without knowing their id is active:
              \* their SELECT came too early, or failed
    overtaken \* reads past fedAuth when their key was revoked

tables   == <<key, active, revoked, synced>>
requests == <<pc, id, from, trusted>>
syncer   == <<todo, at>>
aux      == <<blessed, unaware, overtaken>>
vars     == <<tables, requests, syncer, drain, held, aux>>

Init ==
    /\ key = [i \in Ids |-> None]
    /\ active = {} /\ revoked = {} /\ synced = {}
    /\ pc = [h \in Requests |-> "new"]
    /\ id = [h \in Requests |-> None]
    /\ from = [h \in Requests |-> None]
    /\ trusted = [h \in Requests |-> FALSE]
    /\ todo = {} /\ at = "idle"
    /\ drain = "idle" /\ held = 0
    /\ blessed = {} /\ unaware = {} /\ overtaken = {}

\* A statement can run: the pool has a connection for it.
Connection == held < PoolSize

-----------------------------------------------------------------------------
(* Requests.  register and handshake differ in their answers only.         *)

Goto(h, step) == pc' = [pc EXCEPT ![h] = step]

\* Slip: the key is decoded from the body's instance_name.
Register_NameForKey(h, i, k, secret) ==
    /\ pc[h] = "new" /\ Goto(h, "select")
    /\ id' = [id EXCEPT ![h] = i]
    /\ from' = [from EXCEPT ![h] = i]
    /\ trusted' = [trusted EXCEPT ![h] = secret]
    /\ UNCHANGED <<tables, syncer, drain, held, aux>>

\* A registration of <<i, k>>, with the join secret or without.
Register(h, i, k, secret) ==
    /\ pc[h] = "new" /\ Goto(h, "select")
    /\ id' = [id EXCEPT ![h] = i]
    /\ from' = [from EXCEPT ![h] = k]
    /\ trusted' = [trusted EXCEPT ![h] = secret]
    /\ UNCHANGED <<tables, syncer, drain, held, aux>>

\* Slip: the row is looked up, but not its is_active.
SelectExisting_Found(h) ==
    /\ pc[h] = "select" /\ Connection
    /\ Goto(h, "insert")
    /\ UNCHANGED <<tables, id, from, trusted, syncer, drain, held, aux>>

\* SELECT is_active ... WHERE id = ?
SelectExisting(h) ==
    /\ pc[h] = "select" /\ Connection
    /\ Goto(h, IF id[h] \in active THEN "refused" ELSE "insert")
    /\ UNCHANGED <<tables, id, from, trusted, syncer, drain, held, aux>>

\* The registrations of i between their SELECT and their INSERT.
Selected(i) == {h \in Requests : pc[h] = "insert" /\ id[h] = i}

\* Slip: only the id is looked at.
Replaced_ById(i, k) == {i}

\* The rows INSERT OR REPLACE deletes: the one with its id and the one with
\* its instance_key, which is unique.
Replaced(i, k) == {j \in Ids : j = i \/ key[j] = k}

\* The statement fails, and nobody looks, when it would leave rows of
\* federated_snapshots without their peer.
InsertOrReplace(h) ==
    /\ pc[h] = "insert" /\ Connection /\ Goto(h, "done")
    /\ LET i == id[h]  k == from[h]  gone == Replaced(i, k)
       IN \/ /\ (gone \ {i}) \cap synced = {}
             /\ key' = [j \in Ids |-> IF j = i THEN k ELSE IF j \in gone THEN None ELSE key[j]]
             /\ active' = (active \ gone) \cup (IF trusted[h] THEN {i} ELSE {})
             /\ revoked' = revoked \ gone
             /\ blessed' = IF trusted[h] THEN blessed \cup {k} ELSE blessed
             /\ unaware' = IF trusted[h] THEN unaware \cup Selected(i) ELSE unaware
             /\ UNCHANGED overtaken
          \/ /\ (gone \ {i}) \cap synced # {}
             /\ UNCHANGED <<key, active, revoked, aux>>
    /\ UNCHANGED <<synced, id, from, trusted, syncer, drain, held>>

\* Any other endpoint with a signature by key k.
Read(h, k) ==
    /\ pc[h] = "new" /\ Goto(h, "auth")
    /\ from' = [from EXCEPT ![h] = k]
    /\ UNCHANGED <<tables, id, trusted, syncer, drain, held, aux>>

\* Slip: the row is found, and its is_active not looked at.
FedAuth_Known(h) ==
    /\ pc[h] = "auth" /\ Connection
    /\ Goto(h, IF \E i \in Ids \ revoked : key[i] = from[h] THEN "serve" ELSE "refused")
    /\ UNCHANGED <<tables, id, from, trusted, syncer, drain, held, aux>>

\* fedAuth: SELECT is_active ... WHERE instance_key = ? AND revoked_at IS NULL
FedAuth(h) ==
    /\ pc[h] = "auth" /\ Connection
    /\ Goto(h, IF \E i \in active \ revoked : key[i] = from[h] THEN "serve" ELSE "refused")
    /\ UNCHANGED <<tables, id, from, trusted, syncer, drain, held, aux>>

\* The endpoint's own statement.
Serve(h) ==
    /\ pc[h] = "serve" /\ Connection /\ Goto(h, "done")
    /\ UNCHANGED <<tables, id, from, trusted, syncer, drain, held, aux>>

\* A statement fails.  register looks at no error: it takes a failed SELECT
\* for no row, and a failed INSERT for done.  The others answer with an error.
StatementFails(h) ==
    /\ Connection
    /\ \/ pc[h] = "select" /\ Goto(h, "insert") /\ unaware' = unaware \cup {h}
       \/ pc[h] = "insert" /\ Goto(h, "done") /\ UNCHANGED unaware
       \/ pc[h] \in {"auth", "serve"} /\ Goto(h, "refused") /\ UNCHANGED unaware
    /\ UNCHANGED <<tables, id, from, trusted, syncer, drain, held, blessed, overtaken>>

-----------------------------------------------------------------------------
(* The admin panel.                                                        *)

ApproveFederatedInstance(i) ==
    /\ Connection /\ key[i] # None
    /\ active' = active \cup {i} /\ revoked' = revoked \ {i}
    /\ blessed' = blessed \cup {key[i]}
    /\ unaware' = unaware \cup Selected(i)
    /\ UNCHANGED <<key, synced, requests, syncer, drain, held, overtaken>>

\* The reads by key k that fedAuth has let in and that are still to be served.
LetIn(k) == {h \in Requests : pc[h] = "serve" /\ from[h] = k}

\* Slip: revoked_at without is_active.
RevokeFederatedInstance_StillActive(i) ==
    /\ Connection /\ key[i] # None
    /\ revoked' = revoked \cup {i}
    /\ blessed' = blessed \ {key[i]}
    /\ overtaken' = overtaken \cup LetIn(key[i])
    /\ UNCHANGED <<key, active, synced, requests, syncer, drain, held, unaware>>

RevokeFederatedInstance(i) ==
    /\ Connection /\ key[i] # None
    /\ active' = active \ {i} /\ revoked' = revoked \cup {i}
    /\ blessed' = blessed \ {key[i]}
    /\ overtaken' = overtaken \cup LetIn(key[i])
    /\ UNCHANGED <<key, synced, requests, syncer, drain, held, unaware>>

-----------------------------------------------------------------------------
(* The sync worker.                                                        *)

\* The ticker fires and syncOnce queries the active peers.  With none, the
\* rows close at once.
SyncOnce ==
    /\ at = "idle" /\ Connection /\ todo = {}
    /\ todo' = active
    /\ \/ active # {} /\ held' = held + 1 /\ at' = "since"
       \/ active = {} /\ UNCHANGED <<held, at>>
    /\ UNCHANGED <<tables, requests, drain, aux>>

\* syncPeer: lastSyncFor, the first statement of each peer.
LastSyncFor ==
    /\ at = "since" /\ Connection
    /\ at' = "fetch"
    /\ UNCHANGED <<tables, requests, todo, drain, held, aux>>

\* The peer is done; after the last one the rows are exhausted and close.
NextPeer(i) ==
    /\ todo' = todo \ {i}
    /\ \/ todo # {i} /\ at' = "since" /\ UNCHANGED held
       \/ todo = {i} /\ at' = "idle" /\ held' = held - 1

\* SignedGet fails, or its answer does not parse.
FetchFails(i) ==
    /\ at = "fetch" /\ i \in todo
    /\ NextPeer(i)
    /\ UNCHANGED <<tables, requests, drain, aux>>

\* The peer's snapshots are stored; the last statement sets last_seen_at.
\* The foreign key refuses a row whose peer is gone.  A row's id is made from
\* the candidate's alone, so it may displace the rows of other peers (over).
StoreSnapshots(i) ==
    /\ at = "fetch" /\ i \in todo /\ Connection
    /\ \/ UNCHANGED synced
       \/ /\ key[i] # None
          /\ \E over \in SUBSET (Ids \ {i}) : synced' = (synced \ over) \cup {i}
    /\ NextPeer(i)
    /\ UNCHANGED <<key, active, revoked, requests, drain, aux>>

-----------------------------------------------------------------------------
(* The outbox worker, as far as the pool is concerned.                     *)

DrainDue ==
    /\ drain = "idle"
    /\ drain' = "due"
    /\ UNCHANGED <<tables, requests, syncer, held, aux>>

\* drain's query, whose rows are read to the end before anything else.
Drain ==
    /\ drain = "due" /\ Connection
    /\ drain' = "idle"
    /\ UNCHANGED <<tables, requests, syncer, held, aux>>

-----------------------------------------------------------------------------
Answer(h) == SelectExisting(h) \/ InsertOrReplace(h) \/ FedAuth(h) \/ Serve(h)

Sync == LastSyncFor \/ \E i \in Ids : FetchFails(i) \/ StoreSnapshots(i)

Next ==
    \/ \E h \in Requests :
          \/ \E c \in Claims, secret \in BOOLEAN : Register(h, c[1], c[2], secret)
          \/ \E k \in Keys : Read(h, k)
          \/ Answer(h) \/ StatementFails(h)
    \/ \E i \in Ids : ApproveFederatedInstance(i) \/ RevokeFederatedInstance(i)
    \/ SyncOnce \/ Sync
    \/ DrainDue \/ Drain

Spec == Init /\ [][Next]_vars

\* Goroutines that can run do run and a fetch ends within its timeout.
Fairness ==
    /\ \A h \in Requests : WF_vars(Answer(h))
    /\ WF_vars(Sync)
    /\ WF_vars(Drain)

FairSpec == Spec /\ Fairness

-----------------------------------------------------------------------------
(* Properties.                                                             *)

\* Every variable has its type; the pool is never overdrawn.
TypeOK ==
    /\ key \in [Ids -> Keys \cup {None}]
    /\ active \subseteq Ids /\ revoked \subseteq Ids /\ synced \subseteq Ids
    /\ pc \in [Requests -> {"new", "select", "insert", "auth", "serve", "done", "refused"}]
    /\ id \in [Requests -> Ids \cup {None}]
    /\ from \in [Requests -> Keys \cup {None}]
    /\ trusted \in [Requests -> BOOLEAN]
    /\ todo \subseteq Ids /\ at \in {"idle", "since", "fetch"}
    /\ drain \in {"idle", "due"}
    /\ held \in 0..PoolSize
    /\ blessed \subseteq Keys /\ unaware \subseteq Requests /\ overtaken \subseteq Requests

\* Trust comes from the join secret or the admin and ends with the admin's
\* revocation: whatever registrations, renamings and revocations do to each
\* other's rows between their statements, a peer that fedAuth would let in
\* or syncOnce would pull from has a key with standing trust.
TrustIsEstablished ==
    \A i \in active : i \notin revoked /\ key[i] \in blessed

\* What fedAuth lets a request in on still holds when the request is served:
\* its key has the operator's trust, unless the admin revoked that key while
\* the request was between the two statements.  No read begun after a
\* revocation is served, however registrations replace the rows meanwhile.
ServedIsTrusted ==
    \A h \in Requests : pc[h] = "serve" => from[h] \in blessed \/ h \in overtaken

\* No instance_key stands in two rows, and peers with synced snapshots exist.
PeersAreConsistent ==
    /\ \A i, j \in Ids : key[i] = key[j] /\ key[i] # None => i = j
    /\ \A i \in synced : key[i] # None

\* Only an admin's revocation takes an active peer's row away.
ActivePeersAreKept ==
    [][\A i \in active : /\ key'[i] = key[i]
                         /\ i \in active' \/ i \in revoked']_vars

\* ActivePeersAreKept fails in two ways only.  Besides the admin's
\* revocation, an active peer's row is taken away by a registration of its
\* own id whose look came before the peer was active, or failed, or by a
\* registration of another id that names the peer's key, whoever sent it, and
\* then only while nothing of the peer is synced.
ActivePeersAreGuarded ==
    [][\A i \in active :
          \/ key'[i] = key[i] /\ (i \in active' \/ i \in revoked')
          \/ \E h \in Requests :
                /\ pc[h] = "insert" /\ pc'[h] = "done"
                /\ \/ id[h] = i /\ h \in unaware
                   \/ id[h] # i /\ from[h] = key[i] /\ i \notin synced]_vars

\* The sync worker holds the last connection and wants another.
Stuck == at = "since" /\ ~Connection

\* Once that has happened nothing of the database ever changes again: no
\* request gets past its next statement, no drain that is due runs, and the
\* sync worker keeps its connection.
StuckForGood ==
    [][Stuck =>
         /\ Stuck' /\ UNCHANGED <<tables, syncer, held>>
         /\ \A h \in Requests : pc[h] # "new" => pc'[h] = pc[h]
         /\ drain = "due" => drain' = "due"]_vars

\* With a single connection, as store.go opens the database, the sync worker
\* is stuck from the moment it finds an active peer, and has never fetched
\* anything.
OneConnectionIsStuck ==
    PoolSize = 1 => (at # "idle" => Stuck) /\ synced = {}

\* When the outbox worker is due to drain, it drains.
OutboxDrains == drain = "due" ~> drain = "idle"

-----------------------------------------------------------------------------
(* The inductive invariant behind the safety properties; see               *)
(* FederationProofs.                                                       *)

\* A registration in progress has an id and a key.
RequestsInv ==
    \A h \in Requests : pc[h] \in {"select", "insert"} => id[h] \in Ids /\ from[h] \in Keys

\* The sync worker holds one connection for as long as it has peers to do.
SyncInv ==
    /\ at = "idle" <=> todo = {}
    /\ held = IF todo = {} THEN 0 ELSE 1

\* For ActivePeersAreGuarded: a registration about to write over an active
\* peer does not know of it.
UnawareInv == \A h \in Requests : pc[h] = "insert" /\ id[h] \in active => h \in unaware

IInv ==
    /\ TypeOK /\ RequestsInv /\ SyncInv
    /\ TrustIsEstablished /\ PeersAreConsistent /\ ServedIsTrusted
=============================================================================
