# HireBridge in TLA+

HireBridge is one Go process with one SQLite file. Edge nodes (JobOps, LivingCV)
push signed candidate snapshots to it, recruiters' agents search them over MCP
and ask for introductions, and instances federate with each other. This
directory models the parts of it in which several actors work on shared state:
TLC checks them on small instances, TLAPS proves their safety properties for
every size.

## The system

| Component | State | Operations | Hard because |
|---|---|---|---|
| Introduction outbox (`internal/outbox`, `repo/intros.go`) | `introduction_requests`; the worker's batch; a wake channel of capacity 1 | queue and nudge (MCP handler), drain, POST, mark | handler against worker, crash between POST and UPDATE, timeouts with late acceptance, retries, shutdown that does not wait |
| Device flow (`internal/auth`, `handler/auth.go`, `repo/{devices,tokens,api_tokens}.go`) | `device_sessions`, `magic_tokens`, `api_tokens`, owner and secret of `nodes` | start, send link, callback, web approval, poll, API key, logout | callback, approval and poll of one session run at once, statement by statement; expiry; requests cut short; sign-ins handed on from token to token |
| Ingest, indexes, revocation (`service/ingest.go`, `repo/{snapshots,nodes}.go`) | `snapshots`, `snapshots_fts`, `candidate_vec`, `is_active` | push (four writes, no transaction), revoke (one transaction) | a revocation between two writes of a push; index errors that are only logged |
| Search (`service/search.go`, `repo/search.go`) | none | keyword and vector search, profile | three queries with pushes and revocations between them, on a cache and two indexes that may disagree; repeated hits; ranks and limits at their edges |
| MCP server (`internal/mcp`) | none | `search_talent`, `get_talent_profile`, `request_introduction` | hands work to the outbox |
| Federation peers (`federation/{handler,repo}.go`, `handler/admin.go`) | `federated_instances` | handshake, register, signed reads, approve, revoke | check-then-replace in two statements, INSERT OR REPLACE on two unique columns, ignored errors |
| Federation sync (`federation/{sync,client}.go`) | `federated_snapshots` | pull from every active peer | works inside a loop over open rows |
| Connection pool (`store/store.go`) | one connection | every statement | everybody waits for whoever holds it |
| Life cycle (`cmd/hirebridge/main.go`) | | start, signal, exit | does not wait for the workers |
| Admin sign-in (`middleware/admin.go`, `handler/admin.go`) | pending links and sessions, two in-memory maps with expiry | login, callback, guarded action, logout, two reapers | links presented twice, expiry against reapers, check then act, restart |
| Rate limiter (`middleware/ratelimit.go`) | in-memory windows per key | `Allow`, reaper | window boundaries, two keys asked in turn, restart |
| Token middleware (`middleware/auth.go`) | `api_tokens` | look-up before the handler | the token may be revoked before the handler acts |
| Web pages, mailer, discovery, configuration, signatures, migrations, routing, scripts | | | no shared state of their own |

What makes each correct: an introduction ends, in one state, after a bounded
number of POSTs, and none waits needlessly; a node and its tokens belong to who
approved the session, a link works once, and the secret the client got is the
one on file; nobody holds a token who did not open a link;
revoked data is gone, unverified data never gets in, and what is cached can be
found as it is now; an answer is full, without repetition and in the order both
rankings agree on; the operator's door opens once per mailed link and for nobody
whose session has ended; the limiter neither admits too many nor refuses too
early; a peer is active only by the operator's will, and nobody
waits for ever.

`PROJECT.json` lists the components with what is modelled of each, the
source lines of every definition, and the hazards, each with the line where it
bites and the properties that watch over it.

## The modules

| Module | Models | Checked by | Proved in |
|---|---|---|---|
| `IntroQueue` | abstract life cycle of an introduction | as the property `ImplementsQueue` | |
| `Outbox` | worker, MCP handler, inboxes, crashes, clock | `MCOutbox` | `OutboxProofs` |
| `DeviceGrant` | abstract promise about sessions, owners and tokens | as the property `ImplementsGrant` | |
| `DeviceFlow` | magic links, device grant, polling | `MCDeviceFlow` | `DeviceFlowProofs` |
| `SnapshotIndex` | ingest, indexes, revocation, what readers see | `MCSnapshotIndex` | `SnapshotIndexProofs` |
| `Search` | `search_talent` on top of `SnapshotIndex` | `MCSearch` | `SearchProofs` |
| `Quota` | what callers of the limiter may rely on | as the property `ImplementsQuota` | |
| `RateLimiter` | windows, reaper, restart | through `MCAdminAuth` | `RateLimiterProofs` |
| `AdminAuth` | operator's sign-in and sessions, with `RateLimiter` behind its handlers | `MCAdminAuth` | `AdminAuthProofs` |
| `Federation` | peers, admin, sync worker, outbox worker on one pool | `MCFederation` | `FederationProofs` |

In all of them a step is one statement or one transaction, one channel operation
or one HTTP round trip, because that is where goroutines interleave: the pool
serialises statements, not requests. A definition with a suffix after `_`
(`Due_NoBackoff`) stands just before the definition it is a variant of and is a
plausible slip in that code; no specification uses it. Each property is known to
fail when such a slip replaces the definition.

**Outbox.** `status`, `attempts`, `wait`, `publisher` are the columns of
`introduction_requests` (`wait` is `next_attempt_at` as the time left, so the
clock needs no bound); `node` the part of `nodes` that `ResolveDeliveryTarget`
reads; `wake` the channel; `unwoken` the handlers between INSERT and send; `pc`,
`batch`, `cur`, `seen`, `outcome` the locals of `Run`, `drain` and `processOne`.
`seen` is the `Attempts` that the drain's query copied and `scheduleOrFail`
decides on. `late` and `inbox` are outside the process. `posts` and `faults`
count for the properties. The rows of `nodes` and `snapshots` change under the
worker as `DeviceFlow` and `SnapshotIndex` let them, reduced to
`Approve` and `RevokeNode`.

**DeviceFlow.** Every HTTP request is a process with its own `pc`, session, user
and link. A generated token or secret is named by the request that made it, so
"the secret on file is the one the client got" is `secret[s] = h`. Expiry is an
action for each session and link, taken only while some statement would still
look at it (a pending session, an unused link). Being signed in is holding a token
that was not revoked (`SignedIn`); approvals and API keys look it up in one step
and act in the next, and `Logout` may come in between. `aborted` are the requests
that a failed statement or a crash ended. Inserting a fresh `api_tokens` row commutes with all other
statements and shares a step with the UPDATE that follows. A poll's answer
(`Respond`) is a step of its own after its last commit: a poll that dies in
between has rotated the node's secret and told nobody. `node_token_hash` is
written by the code and read by none of it, and is left out.

`DeviceGrant` is the same service without requests, links and secrets: a session
is approved once by a user known to own an address, used up once, its node bound
once. Under the mapping, `known` is who opened a link (the users of the links that
let a request in) and `issued` the pairs of user and node that tokens were made
for. A second poll that slips past `ConsumeDeviceSession`, a callback racing a poll
and a request that died half-way map to stutters or to a repeated `IssueForNode`.

**SnapshotIndex.** A push goes through its check, `UpsertSnapshot`,
`ReplaceFTS5Row`, `UpsertVec0Embedding`, `UpdateNodePing`; `RevokeNode` is one
step. Rows name the push they came from. `racing` (pushes under way when their
node was revoked) and `cut` (candidates whose index rows a revocation took)
exist for the properties only, as does `mixed` (candidates that one push cached
between the two writes of another; a push that runs alone takes the candidate out
again). `Readable`, `FTS5Search`, `Vec0Search` and `SearchTalent` say which
candidates the readers can see.

**Search.** Extends `SnapshotIndex` by one search, whose keyword query, vector
query, look-up and ranking are steps between those of pushes and revocations; as
a search writes nothing, one stands for any number. `bm25` and `near` are the hits
of the two queries (candidates, best first, any that the database might return),
`info` the look-up, `answer` the pointers. Scores are exact fractions (`rrfScore`)
and the sort may return any order that its comparison allows. With ranks up to
3 * 100 two different fractions differ by far more than float64 rounds.

**RateLimiter and Quota.** An entry of the map is `held`, `count` and `resetIn`
(the ticks until `resetAt`, -1 after it). `weight` says for which ticks an
admitted call still lies within one window length of now and `answer` what a call
was told; they are what `Quota` is about. `Quota` knows no windows: it admits only
while fewer than twice the limit (one more limit per restart) weigh on a key, and
refuses only while at least the limit does.

**AdminAuth.** Extends `RateLimiter` by the handlers that call it (`LoginSubmit`,
`RequestMagicLink` with its two keys) and by what the operator's login leads to:
a link in `pending`, the mail, the callback that takes it out, the session, and the
requests that `RequireAdmin` lets in. A step is one mutex section. A link is named
by its login and a session by its callback. Clients present whatever they can know
(`Known`), as a link and as a cookie alike: mailed links, cookies, and tokens that
nobody made; what `Consume` and `Valid` answer decides. `closed` (sessions signed out, expired
or lost with the process) exists for the properties only.

**Federation.** `register` and `handshake` are SELECT, then INSERT OR REPLACE
with its two conflicts and the foreign key of `federated_snapshots`. The row gets
the `public_key` that the body names. The code verifies the signature with the key
of a header and never compares the two, so a registration may name any key,
whoever signed it. `held`
counts connections kept across steps; only `syncOnce` keeps one. Storing one
peer's snapshots is one step. A statement of a request may fail (`StatementFails`): `register` takes a
failed SELECT for "no such peer" and ignores a failed INSERT, the other routes
answer with an error. `blessed` is the set of keys with the operator's
trust (join secret or approval, until the revocation) and exists for
`TrustIsEstablished`; `overtaken`, the reads past `fedAuth` when their key was
revoked, exists for `ServedIsTrusted`; `unaware`, the registrations whose look at the table failed
or came before their id was made active, exists for `ActivePeersAreGuarded`.

## The runs

| Run | Expects | Shows |
|---|---|---|
| `outbox_safety` | pass | copies never stale, at most one repeated POST per fault, no lost wake-up, only due rows sent, implements `IntroQueue` |
| `outbox_liveness` | pass | every queued introduction settles |
| `outbox_malformed` | violation | not with an endpoint no request can be built for |
| `deviceflow_safety` | pass | first approver owns node and tokens, links work once, approvals are final, tokens go back to an opened link, a session is not used up for nothing, only a callback or a second poll cut short before its answer may cost the client its secret; implements `DeviceGrant` |
| `deviceflow_secret` | violation | the granted client's secret may not be the node's |
| `snapshot_safety` | pass | revocation, index and cache agree, in content too, but for named races; only verified data |
| `snapshot_revoked` | violation | a push that overlaps the revocation restores the data |
| `search` | pass | answers are full, without repetition, in the order both rankings agree on |
| `access` | pass | limiter keeps `Quota`'s promise; one session per link; ended sessions stay out, others are kept; whatever tokens are presented, entry only through the operator's mailbox |
| `federation_pool` | pass | trust and keys are consistent; nobody is served without trust, unless a revocation overtook the request; an active peer's row falls only to a registration that did not know of it or to one that names its key |
| `federation_stuck` | violation | with the one connection of `store.Open` everybody waits for ever, once a peer is active |
| `federation_overwrite` | violation | an active peer's row can be replaced by a registration that looked earlier |

The five violations are disagreements between the code and what its README,
comments or tests say; `findings` in `PROJECT.json` quotes both sides. For each of
them a theorem states the cause and excludes every other (see "The causes of the
violations").

Bounds. *Outbox*: two requests suffice for a batch with a next row, a nudge
during a drain and two rows at different attempts; two (safety) or three
(liveness) attempts reach the last back-off and the give-up; batches of two hold
everything, as `NoLostWakeup` asks, and batches of one make rows wait for the
next drain; one fault covers each crash, shutdown or failed statement at every
point. *DeviceFlow*: three requests are a callback, a poll and a competitor of
either kind; two users, links and sessions (one with a node, one without) tell
identities apart; one abort. *SnapshotIndex*: two nodes (one with a key), two
candidates, three pushes: two on one pair and one elsewhere, or one on each side
of a revocation. *Search*: three candidates are the fewest that a limit of two
cuts; three pushes give a candidate repeated vector hits beside another's; one
node, since other nodes only change which snapshot of a candidate is found (two
nodes with two candidates, ten million states, were also checked once); the
limits 0 and 1 are out of and in range. `DefaultLimit` and `MaxLimit` are 20 and
100 in the code. *AdminAuth*: four requests are a login, two callbacks and an
action or a logout, or a login, a callback and two requests on its session, or
calls on both sides of a window's end and a restart; limits of 1, 2 and 1 and a
window of one tick let a key be refused, reopened and forgotten within them.
*Federation*: two ids and two keys, which registrations combine
freely, and three requests: a registration, one racing it and a read. `PoolSize` is
1 in the code (`store.go:30`), and the two violating runs use it. `federation_pool`
checks safety only and uses 2: its behaviours include those of a pool of one, where
the sync worker never reaches its stores, and those in which the stores meet the
registrations. The proofs hold for every `PoolSize`. Nothing is claimed of the
liveness of a larger pool.
Symmetry is used in safety runs only, on identities nothing orders.

`CHECK_DEADLOCK FALSE` stands where the number of requests or pushes is bounded
and the behaviour ends with the last of them, and in the two `PoolSize = 1`
runs, one of which is about getting stuck. `Outbox` never stops (it polls), nor
does `Federation` with two connections, and there deadlock is checked.

Fairness. *Outbox*: `WF(Work)`: the goroutine runs, its ticker fires and an HTTP
call returns within the client's timeout; `WF(Exit)`: `main` gives the servers
ten seconds and returns; `WF(Restart)`: the unit has `Restart=always`
(`deploy/oci/systemd.service`); `WF(Tick)`: time passes. No fairness makes an
inbox accept, a node be approved or a fault happen. *Federation* (run
`federation_stuck`): each request, the sync worker and the drain proceed when they can (`database/sql`
serves waiters in order), a fetch ends within its timeout; nothing makes peers
register or the sync ticker fire.

## The proofs

All theorems hold for every value of the constants that the module's named
assumption admits (natural bounds, nonempty back-offs, `None` a fresh value).
Each module has an inductive invariant `IInv`, one lemma per group of actions
that shows it preserved, and theorems that read the properties off it.

* `OutboxProofs`: `IInv` is `TypeOK`, `ControlInv` (which locals are meaningful
  at which `pc`; a worker about to say "delivered" has an accepted request; a
  process that is not running has cost a fault), `HeldRowsAreCurrent`,
  `LedgerInv` (status against attempts) and `PostsInv`. `PostsBounded` alone is
  not inductive: the step that counts an attempt must know that the POST was not
  counted before, hence the balance `Paid`: POSTs are covered by attempts, faults
  and at most one POST whose outcome the row does not show yet, and a process that
  is stopping has already paid for the POST it may lose. On it rest
  `TypeCorrect`, `HeldRowsCorrect`, `PostsCorrect`, `OnlyDueRowsCorrect`,
  `NoLostWakeupCorrect` (with the lemma that a batch with room for every row
  holds all due ones) and `OutboxImplementsQueue`, where each step maps to a step
  of `IntroQueue` or to a stutter; fresh copies are what makes `scheduleOrFail`
  and the wide WHERE of `MarkIntroUndeliverable` legal there. `ReportsTrue` and
  `ReportsFinal` are proved of `IntroQueue` and carried over by the refinement: what
  the table says of an introduction is true and stays.
* `DeviceFlowProofs`: `IInv` adds `TablesInv` (exactly approved and consumed
  sessions have an approver, a request's link is used up) and `RequestsInv` (a
  request that may write to the node acts for the approver, and one that waits to
  approve or to get a key for a user who opened a link: this carries
  `TokensAreEarned` through chains of sign-ins). On it rest `TypeCorrect`,
  `OwnerCorrect`, `LinksCorrect`, `TokensCorrect`, `GrantCorrect`,
  `ApprovalCorrect` and `FlowImplementsGrant`. In the last, each statement maps to a
  step of `DeviceGrant` or to a stutter; `RequestsInv` is needed there because the
  statements after the poll's look write for the user that the look returned, and
  must be shown to write for the approver. `OwnershipCorrect` carries
  `OwnershipIsFinal` over from `DeviceGrant`.
* `SnapshotIndexProofs`: `IInv` adds `RowsInv` (a row names a push about its node
  and candidate) and `PushesInv` (a push under way belongs to an active node or
  raced; its snapshot is there once written, unless it raced, and is its own until
  its index row is written, unless pushes mixed). On it rest `TypeCorrect`,
  `RevocationCorrect`, `IndexRevocationCorrect`, `BackedCorrect`,
  `SearchableCorrect`, `FreshCorrect`, `VerifiedCorrect`.
* `SearchProofs`: `SearchOnlyReads` shows that `SearchSpec` implements the
  specification of `SnapshotIndex`, so all of the above holds while searches run.
  `FullCorrect` rests on a bijection between known candidates and their first hits (`OnePointerEach`).
  `RankedCorrect` rests on two facts: a candidate ahead of another wherever either
  is hit has the better rank, even when repeated hits overwrite ranks
  (`AheadRanksBetter`), and the fused score is monotone in both ranks, with 0 for
  "no hit" the worst (`FusionIsMonotone`, by multiplying the fractions out).
* `RateLimiterProofs`: the inductive part is `WindowsInv`. `AdmissionsBounded` is
  not inductive because a window may open at any time; `WindowsInv` says what the
  entry knows: its count lies between the calls admitted after its first tick and
  those admitted since it, and all recent calls are at most that count plus one
  limit for the window before and one per restart. On it rest
  `AdmissionsCorrect` and `LimiterImplementsQuota` (a refusal means a full count,
  and each counted call still weighs).
* `AdminAuthProofs`: `IInv` adds `LinksInv` (a link in the map or the mailbox
  belongs to an admitted login), `SessionsInv` (an accepted callback's link was
  mailed and is gone from the map, which is why a second callback cannot be
  accepted) and `RequestsInv`. `EntryCorrect` follows the chain from the request to
  its session, from the session to its link and from the link to its login; each
  part of it is one of these invariants, which hold because `Consume` and `Valid`
  refuse what is not in their maps. `LimiterUsed` shows that the handlers behave
  towards the limiter as `RateLimiter` specifies, so `LimitsCorrect` and
  `QuotaCorrect` follow from its theorems by implication alone.
* `FederationProofs`: `IInv` adds `RequestsInv` and `SyncInv` (the sync worker
  holds one connection exactly while it has peers left). `TrustIsEstablished`
  needs `PeersAreConsistent`: revoking a peer ends the trust in its key, so no
  other row may hold that key. `ServedIsTrusted` needs `TrustIsEstablished`:
  `fedAuth` looks at rows, not at trust. On it rest `TypeCorrect`,
  `TrustCorrect`, `ServedCorrect`, `PeersCorrect`.

The causes of the violations. Each of the five violated properties fails in the
named ways only, and that is proved for all sizes:

* `SecretCause` (`deviceflow_secret`): the secret of the one granted poll is on
  file, or the one on file was made for the same session and approver by a request
  whose client never hears it: a callback, or a second poll that rotated it and was
  cut short before its answer. The strengthening `SecretInv` says that a secret on
  file comes from a poll or a callback of that session that made its last commit,
  and that a poll about to answer has put one there.
* `RevokedDataCause`, `RevokedDataGoneUnlessRaced` (`snapshot_revoked`): a revoked
  node without a push that its revocation overtook has nothing left in the cache or
  in the indexes, whatever the other nodes do.
* `OverwriteCause` (`federation_overwrite`): besides the admin, only a registration
  that is `unaware`, or one of another id that names the peer's key, takes an active
  peer's row, the latter only while nothing of the peer is synced. `UnawareInv` says that a registration about to write over an active
  peer is unaware.
* `StuckIsForGood`, `OneConnectionSync` (`federation_stuck`): a sync worker that
  waits with the last connection in its hands waits for ever, and all statements
  with it; with one connection it does so at the first active peer and never stores
  anything. They are the safety half of the violated `OutboxDrains`.
* `MalformedCause` (`outbox_malformed`): an introduction to an owner with only
  malformed endpoints is never sent and never counted. `MalformedInv` adds that
  such a row has no POST out and is held by the worker only to be given up.

`StuckForGood`, `OneConnectionIsStuck`, `MalformedIsNeverCounted`, the
`Reports...` properties, `OwnershipIsFinal` and the two `RevokedData...` theorems
are stated by theorems only; they speak of the configurations of the violating
runs, or follow from a refinement that a run checks.

Only model-checked: what needs fairness (`Settles`, and the violated
`OutboxDrains`), which is out of the prover's reach. The five violated
properties have counterexamples; what holds in their place is proved.

## Not modelled

* Rendering, mail, configuration, logging, cryptography, migrations, routing and
  scripts: no shared state, or pure I/O. Of the two JavaScript files, `redoc.js`
  is the vendored, minified bundle of the API documentation viewer, and
  `theme.js` keeps the colour scheme in the browser; neither is part of what the
  server does. The program is its Go code.
* Payloads, last errors, audit log entries, `last_used_at`, `last_seen_at` and
  timestamps other than expiry and back-off: no property depends on them.
* Token scopes: `RequireScope` compares two strings of one request, which needs
  no second actor to go wrong.
* The sync cursor (`since`, `limit`) and what `federated_snapshots` holds. With
  the one connection of `store.Open` the sync worker never gets past
  `lastSyncFor` once a peer is active (`federation_stuck`), so the program as it
  is never advances a cursor; and no document says which snapshots must arrive.
* Peer discovery sends this instance's registration and ignores the answer; the
  receiving side is `Register` of `Federation`.

## Plan

Done, in this order: the outbox with its abstract queue, the device flow, ingest
with revocation, the federation peers on the connection pool, search on top of
ingest, the operator's sign-in with the rate limiter and its abstract quota, the
abstract device grant, the proofs of every safety property of these modules, and
of the cause of each violation.

Left:

1. Composition of `SnapshotIndex` and `Outbox`: an introduction for a candidate
   whose node is being revoked.
2. The sync cursor, once the sync worker can reach it.
