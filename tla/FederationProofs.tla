-------------------------- MODULE FederationProofs --------------------------
(***************************************************************************)
(* Proofs that the safety properties of Federation hold for every set of   *)
(* peers, keys and requests and every size of the pool.  TrustIsEstablished *)
(* needs PeersAreConsistent (revoking a peer ends the trust in its key, so *)
(* no other row may have it); ServedIsTrusted needs TrustIsEstablished     *)
(* (fedAuth looks at the active rows, not at trust).                       *)
(***************************************************************************)
EXTENDS Federation, TLAPS

USE FederationAssumption DEF FederationAssumption

\* The inductive invariant holds initially.
LEMMA InitIInv == Init => IInv
BY DEF Init, IInv, TypeOK, RequestsInv, SyncInv, TrustIsEstablished, PeersAreConsistent,
       ServedIsTrusted

\* Every step of a request preserves it.
LEMMA RequestIInv ==
  ASSUME IInv, NEW h \in Requests,
         \/ \E c \in Claims, secret \in BOOLEAN : Register(h, c[1], c[2], secret)
         \/ \E k \in Keys : Read(h, k)
         \/ Answer(h) \/ StatementFails(h)
  PROVE  IInv'
<1> USE DEF IInv, tables, syncer, aux, Goto
<1>1. ASSUME NEW c \in Claims, NEW secret \in BOOLEAN, Register(h, c[1], c[2], secret)
      PROVE  IInv'
  <2>1. c[1] \in Ids /\ c[2] \in Keys
    OBVIOUS
  <2> USE <1>1, <2>1 DEF Register
  <2>2. TypeOK' /\ RequestsInv' /\ ServedIsTrusted'
    BY DEF TypeOK, RequestsInv, ServedIsTrusted
  <2>3. SyncInv' /\ TrustIsEstablished' /\ PeersAreConsistent'
    BY DEF SyncInv, TrustIsEstablished, PeersAreConsistent
  <2> QED
    BY <2>2, <2>3
<1>2. ASSUME NEW k \in Keys, Read(h, k) PROVE IInv'
  <2> USE <1>2 DEF Read
  <2>1. TypeOK' /\ RequestsInv' /\ ServedIsTrusted'
    BY DEF TypeOK, RequestsInv, ServedIsTrusted
  <2>2. SyncInv' /\ TrustIsEstablished' /\ PeersAreConsistent'
    BY DEF SyncInv, TrustIsEstablished, PeersAreConsistent
  <2> QED
    BY <2>1, <2>2
<1>3. CASE SelectExisting(h) \/ FedAuth(h) \/ Serve(h) \/ StatementFails(h)
  <2>1. /\ \/ pc[h] = "select" /\ pc' = [pc EXCEPT ![h] = "insert"]
           \/ pc' = [pc EXCEPT ![h] = "serve"] /\ from[h] \in blessed
           \/ pc' = [pc EXCEPT ![h] = "refused"]
           \/ pc' = [pc EXCEPT ![h] = "done"]
        /\ UNCHANGED <<tables, id, from, trusted, syncer, drain, held, blessed, overtaken>>
        /\ unaware' \subseteq Requests
    BY <1>3 DEF SelectExisting, FedAuth, Serve, StatementFails, TypeOK, TrustIsEstablished
  <2>2. TypeOK'
    BY <2>1 DEF TypeOK
  <2>3. RequestsInv'
    BY <2>1 DEF RequestsInv, TypeOK
  <2>4. SyncInv' /\ TrustIsEstablished' /\ PeersAreConsistent'
    BY <2>1 DEF SyncInv, TrustIsEstablished, PeersAreConsistent
  <2>5. ServedIsTrusted'
    BY <2>1 DEF ServedIsTrusted, TypeOK
  <2> QED
    BY <2>2, <2>3, <2>4, <2>5
<1>4. CASE InsertOrReplace(h)
  <2> DEFINE i == id[h]
             k == from[h]
             gone == Replaced(i, k)
  <2>1. /\ i \in Ids /\ k \in Keys /\ gone \subseteq Ids /\ i \in gone
        /\ pc' = [pc EXCEPT ![h] = "done"]
        /\ UNCHANGED <<synced, id, from, trusted, syncer, drain, held>>
    BY <1>4 DEF InsertOrReplace, RequestsInv, Replaced
  <2>2. RequestsInv' /\ SyncInv'
    BY <2>1 DEF RequestsInv, SyncInv, TypeOK
  <2>3. CASE (gone \ {i}) \cap synced = {}
    <3>1. /\ key' = [j \in Ids |-> IF j = i THEN k ELSE IF j \in gone THEN None ELSE key[j]]
          /\ active' = (active \ gone) \cup (IF trusted[h] THEN {i} ELSE {})
          /\ revoked' = revoked \ gone
          /\ blessed' = IF trusted[h] THEN blessed \cup {k} ELSE blessed
          /\ unaware' \subseteq Requests /\ UNCHANGED overtaken
      BY <1>4, <2>3 DEF InsertOrReplace, Selected, TypeOK
    <3>2. \A j \in Ids : j \in gone <=> j = i \/ key[j] = k
      BY DEF Replaced
    <3> HIDE DEF i, k, gone
    <3>3. TypeOK'
      BY <2>1, <3>1 DEF TypeOK
    <3>4. TrustIsEstablished'
      BY <2>1, <3>1, <3>2 DEF TrustIsEstablished, TypeOK
    <3>5. PeersAreConsistent'
      BY <2>1, <2>3, <3>1, <3>2 DEF PeersAreConsistent, TypeOK
    <3>6. ServedIsTrusted'
      BY <2>1, <3>1 DEF ServedIsTrusted, TypeOK
    <3> QED
      BY <2>2, <3>3, <3>4, <3>5, <3>6
  <2>4. CASE (gone \ {i}) \cap synced # {}
    <3>1. UNCHANGED <<key, active, revoked, aux>>
      BY <1>4, <2>4 DEF InsertOrReplace
    <3>2. TypeOK' /\ TrustIsEstablished' /\ PeersAreConsistent' /\ ServedIsTrusted'
      BY <2>1, <3>1 DEF TypeOK, TrustIsEstablished, PeersAreConsistent, ServedIsTrusted
    <3> QED
      BY <2>2, <3>2
  <2> QED
    BY <2>3, <2>4
<1> QED
  BY <1>1, <1>2, <1>3, <1>4 DEF Answer

\* The admin's decisions preserve it.
LEMMA AdminIInv ==
  ASSUME IInv, NEW i \in Ids,
         ApproveFederatedInstance(i) \/ RevokeFederatedInstance(i)
  PROVE  IInv'
<1> USE DEF IInv, requests, syncer
<1>1. /\ key[i] \in Keys
      /\ UNCHANGED <<key, synced, requests, syncer, drain, held>>
      /\ \/ /\ active' = active \cup {i} /\ revoked' = revoked \ {i}
            /\ blessed' = blessed \cup {key[i]} /\ UNCHANGED overtaken
         \/ /\ active' = active \ {i} /\ revoked' = revoked \cup {i}
            /\ blessed' = blessed \ {key[i]} /\ overtaken' = overtaken \cup LetIn(key[i])
      /\ unaware' \subseteq Requests /\ overtaken' \subseteq Requests
  BY DEF ApproveFederatedInstance, RevokeFederatedInstance, Selected, LetIn, TypeOK
<1>2. TypeOK' /\ RequestsInv' /\ SyncInv' /\ PeersAreConsistent'
  BY <1>1 DEF TypeOK, RequestsInv, SyncInv, PeersAreConsistent
<1>3. TrustIsEstablished'
  BY <1>1 DEF TrustIsEstablished, PeersAreConsistent, TypeOK
<1>4. ServedIsTrusted'
  BY <1>1 DEF ServedIsTrusted, LetIn
<1> QED
  BY <1>2, <1>3, <1>4

\* The two workers preserve it.
LEMMA WorkersIInv ==
  ASSUME IInv, SyncOnce \/ Sync \/ DrainDue \/ Drain
  PROVE  IInv'
<1> USE DEF IInv, tables, requests, syncer, aux
<1>1. CASE SyncOnce \/ LastSyncFor \/ DrainDue \/ Drain
  <2>1. UNCHANGED <<tables, requests, aux>>
    BY <1>1 DEF SyncOnce, LastSyncFor, DrainDue, Drain
  <2>2. SyncInv' /\ todo' \subseteq Ids /\ at' \in {"idle", "since", "fetch"}
    BY <1>1 DEF SyncOnce, LastSyncFor, DrainDue, Drain, SyncInv, TypeOK
  <2>3. drain' \in {"idle", "due"}
    BY <1>1 DEF SyncOnce, LastSyncFor, DrainDue, Drain, TypeOK
  <2>4. held' \in 0..PoolSize
    BY <2>2 DEF SyncInv
  <2> QED
    BY <2>1, <2>2, <2>3, <2>4
       DEF TypeOK, RequestsInv, TrustIsEstablished, PeersAreConsistent, ServedIsTrusted
<1>2. ASSUME NEW i \in Ids, FetchFails(i) \/ StoreSnapshots(i) PROVE IInv'
  <2>1. /\ at = "fetch" /\ i \in todo /\ NextPeer(i)
        /\ UNCHANGED <<key, active, revoked, requests, drain, aux>>
        /\ synced' \subseteq Ids
        /\ \A j \in synced' : j \in synced \/ key[j] # None
    BY <1>2 DEF FetchFails, StoreSnapshots, TypeOK
  <2>2. SyncInv' /\ todo' \subseteq Ids /\ at' \in {"idle", "since", "fetch"}
    BY <2>1 DEF NextPeer, SyncInv, TypeOK
  <2>3. held' \in 0..PoolSize
    BY <2>2 DEF SyncInv
  <2>4. PeersAreConsistent'
    BY <2>1 DEF PeersAreConsistent
  <2> QED
    BY <2>1, <2>2, <2>3, <2>4 DEF TypeOK, RequestsInv, TrustIsEstablished, ServedIsTrusted
<1> QED
  BY <1>1, <1>2 DEF Sync

\* The inductive invariant holds throughout.
THEOREM FederationInvariant == Spec => []IInv
<1>1. IInv /\ UNCHANGED vars => IInv'
  BY DEF IInv, TypeOK, RequestsInv, SyncInv, TrustIsEstablished, PeersAreConsistent,
         ServedIsTrusted, vars, tables, requests, syncer, aux
<1>2. IInv /\ [Next]_vars => IInv'
  BY <1>1, RequestIInv, AdminIInv, WorkersIInv DEF Next
<1> QED
  BY InitIInv, <1>2, PTL DEF Spec

\* Every variable keeps its type.
THEOREM TypeCorrect == Spec => []TypeOK
<1>1. IInv => TypeOK
  BY DEF IInv
<1> QED
  BY FederationInvariant, <1>1, PTL

\* Active peers have standing trust, by the join secret or the admin.
THEOREM TrustCorrect == Spec => []TrustIsEstablished
<1>1. IInv => TrustIsEstablished
  BY DEF IInv
<1> QED
  BY FederationInvariant, <1>1, PTL

\* A request is served on standing trust, or on trust that was revoked after
\* fedAuth had looked.
THEOREM ServedCorrect == Spec => []ServedIsTrusted
<1>1. IInv => ServedIsTrusted
  BY DEF IInv
<1> QED
  BY FederationInvariant, <1>1, PTL

\* Keys are unique and synced snapshots have their peer.
THEOREM PeersCorrect == Spec => []PeersAreConsistent
<1>1. IInv => PeersAreConsistent
  BY DEF IInv
<1> QED
  BY FederationInvariant, <1>1, PTL

-----------------------------------------------------------------------------
(* What takes an active peer away.                                         *)

\* A registration that is about to write over an active peer does not know it.
LEMMA UnawareStep ==
  ASSUME IInv, UnawareInv, [Next]_vars
  PROVE  UnawareInv'
<1> USE DEF UnawareInv, tables, requests, syncer, aux, Goto
<1>t. TypeOK
  BY DEF IInv
<1>1. CASE UNCHANGED <<pc, id, active, unaware>>
  BY <1>1
<1>2. ASSUME NEW h \in Requests, NEW i, NEW k, NEW secret, Register(h, i, k, secret)
      PROVE  UnawareInv'
  BY <1>2, <1>t DEF Register, TypeOK
<1>3. ASSUME NEW h \in Requests, NEW k, Read(h, k) PROVE UnawareInv'
  BY <1>3, <1>t DEF Read, TypeOK
<1>4. ASSUME NEW h \in Requests, SelectExisting(h) PROVE UnawareInv'
  BY <1>4, <1>t DEF SelectExisting, TypeOK
<1>5. ASSUME NEW h \in Requests, FedAuth(h) \/ Serve(h) PROVE UnawareInv'
  BY <1>5, <1>t DEF FedAuth, Serve, TypeOK
<1>6. ASSUME NEW h \in Requests, InsertOrReplace(h) PROVE UnawareInv'
  <2>1. /\ UNCHANGED id /\ pc' = [pc EXCEPT ![h] = "done"]
        /\ \/ active' \subseteq active /\ unaware \subseteq unaware'
           \/ active' \subseteq active \cup {id[h]} /\ unaware' = unaware \cup Selected(id[h])
    BY <1>6 DEF InsertOrReplace
  <2> QED
    BY <1>t, <2>1 DEF Selected, TypeOK
<1>7. ASSUME NEW i \in Ids, ApproveFederatedInstance(i) PROVE UnawareInv'
  BY <1>7 DEF ApproveFederatedInstance, Selected
<1>8. ASSUME NEW i \in Ids, RevokeFederatedInstance(i) PROVE UnawareInv'
  BY <1>8 DEF RevokeFederatedInstance
<1>9. ASSUME NEW h \in Requests, StatementFails(h) PROVE UnawareInv'
  BY <1>9, <1>t DEF StatementFails, TypeOK
<1> QED
  BY <1>1, <1>2, <1>3, <1>4, <1>5, <1>6, <1>7, <1>8, <1>9
     DEF Next, vars, Answer, SyncOnce, Sync, LastSyncFor, FetchFails, StoreSnapshots,
         DrainDue, Drain

\* An active peer is taken away by the admin, by a registration of its id that
\* looked before the peer was active or failed to look, or by a registration of
\* another id that names the peer's key: the finding of federation_overwrite has
\* no other cause.
THEOREM OverwriteCause == Spec => ActivePeersAreGuarded
<1> DEFINE Guarded ==
      \A i \in active :
         \/ key'[i] = key[i] /\ (i \in active' \/ i \in revoked')
         \/ \E h \in Requests :
               /\ pc[h] = "insert" /\ pc'[h] = "done"
               /\ \/ id[h] = i /\ h \in unaware
                  \/ id[h] # i /\ from[h] = key[i] /\ i \notin synced
<1>1. Init => UnawareInv
  BY DEF Init, UnawareInv
<1>2. Spec => []UnawareInv
  BY <1>1, UnawareStep, FederationInvariant, PTL DEF Spec
<1>3. IInv /\ UnawareInv /\ [Next]_vars => Guarded \/ UNCHANGED vars
  <2> DEFINE Kept(i) == key'[i] = key[i] /\ (i \in active' \/ i \in revoked')
             Taken(i) == \E h \in Requests :
                            /\ pc[h] = "insert" /\ pc'[h] = "done"
                            /\ \/ id[h] = i /\ h \in unaware
                               \/ id[h] # i /\ from[h] = key[i] /\ i \notin synced
  <2> SUFFICES ASSUME IInv, UnawareInv, Next, NEW i \in active
               PROVE  Kept(i) \/ Taken(i)
    OBVIOUS
  <2>1. CASE UNCHANGED <<key, active>>
    BY <2>1
  <2>2. ASSUME NEW j \in Ids, ApproveFederatedInstance(j) \/ RevokeFederatedInstance(j)
        PROVE  Kept(i)
    BY <2>2 DEF ApproveFederatedInstance, RevokeFederatedInstance
  <2>3. ASSUME NEW h \in Requests, InsertOrReplace(h) PROVE Kept(i) \/ Taken(i)
    <3>1. /\ pc[h] = "insert" /\ pc'[h] = "done" /\ i \in Ids
      BY <2>3 DEF InsertOrReplace, Goto, IInv, TypeOK
    <3>2. CASE i \notin Replaced(id[h], from[h])
      <4>1. i # id[h]
        BY <3>1, <3>2 DEF Replaced
      <4> QED
        BY <2>3, <3>1, <3>2, <4>1 DEF InsertOrReplace, aux
    <3>3. CASE i = id[h]
      BY <3>1, <3>3 DEF UnawareInv
    <3>4. CASE i # id[h] /\ i \in Replaced(id[h], from[h])
      <4>1. from[h] = key[i]
        BY <3>4 DEF Replaced
      <4> QED
        BY <2>3, <3>1, <3>4, <4>1 DEF InsertOrReplace, aux
    <3> QED
      BY <3>2, <3>3, <3>4
  <2> QED
    BY <2>1, <2>2, <2>3
       DEF Next, tables, Answer, Register, Read, SelectExisting, FedAuth, Serve, StatementFails, SyncOnce, Sync,
           LastSyncFor, FetchFails, StoreSnapshots, DrainDue, Drain
<1> QED
  BY <1>2, <1>3, FederationInvariant, PTL DEF Spec, ActivePeersAreGuarded

-----------------------------------------------------------------------------
(* The pool.                                                               *)

\* The sync worker stuck without a connection is never freed, and with it
\* stand the requests, the admin, and the outbox worker.
THEOREM StuckIsForGood == Spec => StuckForGood
<1> DEFINE Stays == Stuck =>
                      /\ Stuck' /\ UNCHANGED <<tables, syncer, held>>
                      /\ \A h \in Requests : pc[h] # "new" => pc'[h] = pc[h]
                      /\ drain = "due" => drain' = "due"
<1>1. IInv /\ [Next]_vars => Stays \/ UNCHANGED vars
  <2> SUFFICES ASSUME IInv, Next, Stuck PROVE Stays
    OBVIOUS
  <2> USE DEF Stuck, Connection, tables, requests, syncer, aux, Goto
  <2>1. ASSUME NEW h \in Requests, NEW i, NEW k, NEW secret, Register(h, i, k, secret)
        PROVE  Stays
    BY <2>1 DEF Register, IInv, TypeOK
  <2>2. ASSUME NEW h \in Requests, NEW k, Read(h, k) PROVE Stays
    BY <2>2 DEF Read, IInv, TypeOK
  <2>3. CASE DrainDue
    BY <2>3 DEF DrainDue
  <2> QED
    BY <2>1, <2>2, <2>3
       DEF Next, Answer, StatementFails, SelectExisting, InsertOrReplace, FedAuth, Serve,
           ApproveFederatedInstance, RevokeFederatedInstance, SyncOnce, Sync, LastSyncFor,
           FetchFails, StoreSnapshots, Drain
<1> QED
  BY <1>1, FederationInvariant, PTL DEF Spec, StuckForGood

\* With one connection, every sync that finds an active peer ends there.
THEOREM OneConnectionSync == Spec => []OneConnectionIsStuck
<1> DEFINE Dry == PoolSize = 1 => at # "fetch" /\ synced = {}
<1>1. Init => Dry
  BY DEF Init
<1>2. IInv /\ Dry /\ [Next]_vars => Dry'
  <2> SUFFICES ASSUME IInv, PoolSize = 1, at # "fetch", synced = {}, [Next]_vars
               PROVE  at' # "fetch" /\ synced' = {}
    OBVIOUS
  <2>1. ~LastSyncFor
    BY DEF LastSyncFor, Connection, IInv, SyncInv
  <2>2. CASE UNCHANGED <<at, synced>>
    BY <2>2
  <2>3. CASE SyncOnce
    BY <2>3 DEF SyncOnce, tables
  <2> QED
    BY <2>1, <2>2, <2>3
       DEF Next, vars, tables, requests, syncer, Answer, Register, Read, SelectExisting,
           InsertOrReplace, FedAuth, Serve, StatementFails, ApproveFederatedInstance,
           RevokeFederatedInstance, Sync, FetchFails, StoreSnapshots, DrainDue, Drain
<1>3. IInv /\ Dry => OneConnectionIsStuck
  BY DEF OneConnectionIsStuck, Stuck, Connection, IInv, SyncInv, TypeOK
<1> QED
  BY <1>1, <1>2, <1>3, FederationInvariant, PTL DEF Spec
=============================================================================
