------------------------------- MODULE Outbox -------------------------------
(***************************************************************************)
(* The introduction outbox: the MCP tool request_introduction queues a row *)
(* of introduction_requests, and one worker goroutine drains the table,    *)
(* POSTs each due row to the LivingCV inbox of the candidate's owner and   *)
(* records the outcome.  Sources: internal/outbox/outbox.go,               *)
(* internal/store/repo/{intros,nodes}.go, internal/mcp/server.go and the   *)
(* process life cycle of cmd/hirebridge/main.go.                           *)
(*                                                                         *)
(* One action per database call, channel operation or HTTP round trip, so  *)
(* the handlers, the worker, the inboxes, the clock and the crashes        *)
(* interleave as they do in the running program.                           *)
(*                                                                         *)
(* Abstractions.  Rows are numbered in the order of created_at and nodes   *)
(* likewise.  next_attempt_at is kept as the delay that is left (wait),    *)
(* with 0 for NULL and for a time already past, which the query treats     *)
(* alike; so the clock needs no bound.  The payload, its signature and     *)
(* last_error are left out: no property here tells them apart.             *)
(***************************************************************************)
EXTENDS Naturals, Sequences, FiniteSets

CONSTANTS
    NumRequests,  \* bound: introduction requests ever made
    MaxAttempts,  \* Config.MaxAttempts
    Backoffs,     \* Config.Backoffs, a nonempty sequence of delays
    BatchSize,    \* Config.BatchSize
    Nodes,        \* ids of the nodes table, in the order of created_at
    Owner,        \* Owner[n]: the user node n is bound to when approved
    LivingCV,     \* the nodes with node_type = 'LivingCV'
    Endpoint,     \* Endpoint[n]: "ok", "malformed" or "" (endpoint_url)
    MaxFaults     \* bound: crashes, shutdowns and failed database calls

ASSUME OutboxAssumption ==
    /\ NumRequests \in Nat
    /\ MaxAttempts \in Nat \ {0}
    /\ Backoffs \in Seq(Nat) /\ Len(Backoffs) > 0
    /\ BatchSize \in Nat \ {0}
    /\ Nodes \subseteq Nat \ {0}
    /\ LivingCV \subseteq Nodes
    /\ MaxFaults \in Nat

Requests == 1..NumRequests
NoRow == 0
NoNode == 0

VARIABLES
    \* introduction_requests
    status,     \* "absent" before the row is inserted
    attempts,
    wait,       \* next_attempt_at - now, not below 0
    publisher,  \* node_id: the node whose snapshot was asked about
    \* nodes
    node,       \* "pending" (no user, no secret), "live" or "revoked"
    \* the process
    up,         \* "running", "stopping" (ctx cancelled) or "down"
    wake,       \* Worker.wake holds its one token
    unwoken,    \* rows whose handler has inserted but not yet nudged wake
    \* the worker goroutine
    pc,         \* "idle", "query", "loop", "wait", "mark" or "gone"
    batch,      \* rows of the current drain not yet taken up
    cur,        \* the row processOne works on
    seen,       \* Attempts as the drain query read it, per row
    outcome,    \* how processOne ends: "delivered", "error", "undeliverable"
    \* the network and the inboxes (outside the process)
    late,       \* rows with a POST nobody waits for any more
    inbox,      \* rows an inbox has accepted
    \* auxiliary
    posts,      \* POSTs sent per row
    faults      \* crashes, shutdowns and database errors so far

rowVars    == <<status, attempts, wait, publisher>>
procVars   == <<up, wake, unwoken>>
workerVars == <<pc, batch, cur, seen, outcome>>
netVars    == <<late, inbox>>
vars == <<rowVars, node, procVars, workerVars, netVars, posts, faults>>

Pending  == {"queued", "retrying"}
Terminal == {"delivered", "failed", "undeliverable"}
Outcomes == {"delivered", "error", "undeliverable"}

\* seen outside a drain, when the local copies of the rows are gone.
Unread == [r \in Requests |-> 0]

\* The row in processOne's hands, and every row the worker still holds a
\* copy of.
Current == {cur} \ {NoRow}
Held    == batch \cup Current

-----------------------------------------------------------------------------
Init ==
    /\ status    = [r \in Requests |-> "absent"]
    /\ attempts  = [r \in Requests |-> 0]
    /\ wait      = [r \in Requests |-> 0]
    /\ publisher = [r \in Requests |-> NoNode]
    /\ node      = [n \in Nodes |-> "pending"]
    /\ up = "running" /\ wake = FALSE /\ unwoken = {}
    /\ pc = "idle" /\ batch = {} /\ cur = NoRow
    /\ seen = Unread /\ outcome = "none"
    /\ late = {} /\ inbox = {}
    /\ posts = [r \in Requests |-> 0] /\ faults = 0

-----------------------------------------------------------------------------
(* The nodes table, as the device flow and the owner's revocation change   *)
(* it under the worker's feet.                                             *)

Approve(n) ==
    /\ up # "down" /\ node[n] = "pending"
    /\ node' = [node EXCEPT ![n] = "live"]
    /\ UNCHANGED <<rowVars, procVars, workerVars, netVars, posts, faults>>

RevokeNode(n) ==
    /\ up # "down" /\ node[n] = "live"
    /\ node' = [node EXCEPT ![n] = "revoked"]
    /\ UNCHANGED <<rowVars, procVars, workerVars, netVars, posts, faults>>

Targets(n) ==
    {m \in LivingCV : /\ Owner[m] = Owner[n]
                      /\ node[m] = "live"
                      /\ Endpoint[m] # ""}

\* t is what the lookup publisher -> its user -> the user's newest live
\* LivingCV node returns for publisher n.
ResolveDeliveryTarget(n, t) ==
    IF node[n] = "pending" \/ Targets(n) = {}
    THEN t = NoNode
    ELSE t \in Targets(n) /\ \A m \in Targets(n) : m <= t

-----------------------------------------------------------------------------
(* request_introduction.                                                   *)

\* A snapshot of the candidate was found under node n (n has been approved;
\* it may have been revoked since), and the row is inserted.
InsertIntroductionRequest(r, n) ==
    /\ up # "down" /\ status[r] = "absent"
    /\ \A q \in 1..(r - 1) : status[q] # "absent"
    /\ node[n] # "pending"
    /\ status' = [status EXCEPT ![r] = "queued"]
    /\ publisher' = [publisher EXCEPT ![r] = n]
    /\ unwoken' = unwoken \cup {r}
    /\ UNCHANGED <<attempts, wait, node, up, wake, workerVars, netVars, posts, faults>>

\* Slip: a channel without its one slot drops the nudge of a busy worker.
NudgeWorker_Unbuffered(r) ==
    /\ up # "down" /\ r \in unwoken
    /\ unwoken' = unwoken \ {r}
    /\ wake' = (wake \/ pc = "idle")
    /\ UNCHANGED <<rowVars, node, up, workerVars, netVars, posts, faults>>

\* The handler's non-blocking send on the channel of capacity 1.
NudgeWorker(r) ==
    /\ up # "down" /\ r \in unwoken
    /\ unwoken' = unwoken \ {r}
    /\ wake' = TRUE
    /\ UNCHANGED <<rowVars, node, up, workerVars, netVars, posts, faults>>

-----------------------------------------------------------------------------
(* The worker goroutine.  After ctx is cancelled select may still take the *)
(* ticker or the wake case, so neither is guarded by it.                   *)

\* Slip: the worker is only driven by wake.
Poll_NoTicker ==
    /\ pc = "idle" /\ wake
    /\ pc' = "query"
    /\ UNCHANGED <<rowVars, node, procVars, batch, cur, seen, outcome, netVars, posts, faults>>

\* case <-ticker.C
Poll ==
    /\ pc = "idle"
    /\ pc' = "query"
    /\ UNCHANGED <<rowVars, node, procVars, batch, cur, seen, outcome, netVars, posts, faults>>

\* case <-w.wake
TakeWake ==
    /\ pc = "idle" /\ wake
    /\ wake' = FALSE
    /\ pc' = "query"
    /\ UNCHANGED <<rowVars, node, up, unwoken, batch, cur, seen, outcome, netVars, posts, faults>>

\* case <-ctx.Done()
StopRun ==
    /\ pc = "idle" /\ up = "stopping"
    /\ pc' = "gone"
    /\ UNCHANGED <<rowVars, node, procVars, batch, cur, seen, outcome, netVars, posts, faults>>

\* Slips: a WHERE without its status list, or without next_attempt_at.
Due_AnyStatus  == {r \in Requests : status[r] # "absent" /\ wait[r] = 0}
Due_NoBackoff  == {r \in Requests : status[r] \in Pending}

Due == {r \in Requests : status[r] \in Pending /\ wait[r] = 0}

\* ORDER BY created_at LIMIT BatchSize: the oldest BatchSize of the due rows.
PendingIntroductionRequests ==
    {r \in Due : Cardinality({q \in Due : q < r}) < BatchSize}

\* ORDER BY created_at: the next row of the batch.
Oldest(r, rows) == r \in rows /\ \A q \in rows : r <= q

\* Slip: attempts missing from the SELECT.
LoadBatch_NoAttempts ==
    /\ pc = "query"
    /\ batch' = PendingIntroductionRequests
    /\ pc' = "loop"
    /\ UNCHANGED <<rowVars, node, procVars, cur, seen, outcome, netVars, posts, faults>>

\* The one SELECT of drain, which copies attempts along with the rows.
LoadBatch ==
    /\ pc = "query"
    /\ batch' = PendingIntroductionRequests
    /\ seen' = attempts
    /\ pc' = "loop"
    /\ UNCHANGED <<rowVars, node, procVars, cur, outcome, netVars, posts, faults>>

\* The loop of drain ends, with the batch done or ctx cancelled.
EndDrain ==
    /\ pc = "loop"
    /\ batch = {} \/ up = "stopping"
    /\ batch' = {} /\ seen' = Unread /\ pc' = "idle"
    /\ UNCHANGED <<rowVars, node, procVars, cur, outcome, netVars, posts, faults>>

\* processOne up to HTTP.Do: resolve the target, then give up on a row that
\* has none, return early on an endpoint no request can be built for (the
\* row is left as it was), or send the POST.
StartOne ==
    /\ pc = "loop" /\ up = "running"
    /\ \E r \in batch, t \in Nodes \cup {NoNode} :
          /\ Oldest(r, batch)
          /\ ResolveDeliveryTarget(publisher[r], t)
          /\ batch' = batch \ {r}
          /\ \/ /\ t = NoNode
                /\ pc' = "mark" /\ cur' = r /\ outcome' = "undeliverable"
                /\ UNCHANGED posts
             \/ /\ t # NoNode /\ Endpoint[t] = "malformed"
                /\ UNCHANGED <<pc, cur, outcome, posts>>
             \/ /\ t # NoNode /\ Endpoint[t] # "malformed"
                /\ pc' = "wait" /\ cur' = r
                /\ posts' = [posts EXCEPT ![r] = @ + 1]
                /\ UNCHANGED outcome
    /\ UNCHANGED <<rowVars, node, procVars, seen, netVars, faults>>

Returned(o) ==
    /\ pc = "wait"
    /\ pc' = "mark" /\ outcome' = o
    /\ UNCHANGED <<rowVars, node, procVars, batch, cur, seen, posts, faults>>

\* The inbox accepts the request and its 2xx arrives in time.
PostAccepted == Returned("delivered") /\ inbox' = inbox \cup {cur} /\ UNCHANGED late

\* A connection error or an answer outside 200..299.
PostRefused == Returned("error") /\ UNCHANGED netVars

\* HTTPTimeout or the cancelled ctx ends the call; the inbox may still get
\* to the request.
PostTimeout == Returned("error") /\ late' = late \cup {cur} /\ UNCHANGED inbox

LateAccept(r) ==
    /\ r \in late
    /\ late' = late \ {r} /\ inbox' = inbox \cup {r}
    /\ UNCHANGED <<rowVars, node, procVars, workerVars, posts, faults>>

-----------------------------------------------------------------------------
(* The four UPDATEs.  Each changes nothing when its WHERE misses the row.  *)

MarkRow(r, from, st, att, nxt) ==
    IF status[r] \in from
    THEN /\ status' = [status EXCEPT ![r] = st]
         /\ attempts' = [attempts EXCEPT ![r] = att]
         /\ wait' = [wait EXCEPT ![r] = nxt]
    ELSE UNCHANGED <<status, attempts, wait>>

MarkIntroDelivered(r) == MarkRow(r, Pending, "delivered", attempts[r], 0)

\* Slip: attempts=attempts+1 missing from the SET.
MarkIntroRetrying_NoBump(r, delay) ==
    MarkRow(r, Pending, "retrying", attempts[r], delay)

MarkIntroRetrying(r, delay) ==
    MarkRow(r, Pending, "retrying", attempts[r] + 1, delay)

MarkIntroFailed(r) == MarkRow(r, Pending, "failed", attempts[r] + 1, 0)

\* This WHERE admits a delivered row too.
MarkIntroUndeliverable(r) ==
    MarkRow(r, Pending \cup {"delivered"}, "undeliverable", attempts[r], 0)

Delay(k) == Backoffs[IF k <= Len(Backoffs) THEN k ELSE Len(Backoffs)]

\* Slip: > for >=.
scheduleOrFail_OneMore(r) ==
    IF seen[r] + 1 > MaxAttempts
    THEN MarkIntroFailed(r)
    ELSE MarkIntroRetrying(r, Delay(seen[r] + 1))

\* Decides on the attempts the drain query read, not on the row's own.
scheduleOrFail(r) ==
    IF seen[r] + 1 >= MaxAttempts
    THEN MarkIntroFailed(r)
    ELSE MarkIntroRetrying(r, Delay(seen[r] + 1))

ProcessedOne ==
    /\ pc = "mark"
    /\ pc' = "loop" /\ cur' = NoRow /\ outcome' = "none"
    /\ UNCHANGED <<publisher, node, procVars, batch, seen, netVars, posts>>

\* processOne from HTTP.Do's return, or the missing target, to its end.
FinishOne ==
    /\ ProcessedOne
    /\ CASE outcome = "delivered"     -> MarkIntroDelivered(cur)
         [] outcome = "error"         -> scheduleOrFail(cur)
         [] outcome = "undeliverable" -> MarkIntroUndeliverable(cur)
    /\ UNCHANGED faults

-----------------------------------------------------------------------------
(* Faults and the clock.                                                   *)

Fault == faults < MaxFaults /\ faults' = faults + 1

\* An UPDATE that returns an error is only logged.
MarkError ==
    /\ ProcessedOne /\ Fault
    /\ UNCHANGED <<status, attempts, wait>>

\* So is a SELECT that does: the drain query's ends the drain, the target
\* lookup's skips the row.
QueryError ==
    /\ Fault
    /\ \/ /\ pc = "query"
          /\ pc' = "idle" /\ UNCHANGED batch
       \/ /\ pc = "loop" /\ up = "running"
          /\ \E r \in batch : Oldest(r, batch) /\ batch' = batch \ {r}
          /\ UNCHANGED pc
    /\ UNCHANGED <<rowVars, node, procVars, cur, seen, outcome, netVars, posts>>

\* SIGINT or SIGTERM cancels ctx.
Signal ==
    /\ up = "running" /\ Fault
    /\ up' = "stopping"
    /\ UNCHANGED <<rowVars, node, wake, unwoken, workerVars, netVars, posts>>

\* The process ends: everything but the database and the network is lost.
Die ==
    /\ up' = "down" /\ wake' = FALSE /\ unwoken' = {}
    /\ pc' = "gone" /\ batch' = {} /\ cur' = NoRow
    /\ seen' = Unread /\ outcome' = "none"
    /\ late' = late \cup (IF pc = "wait" THEN {cur} ELSE {})
    /\ UNCHANGED <<rowVars, node, inbox, posts>>

\* main returns without waiting for the worker.
Exit == up = "stopping" /\ Die /\ UNCHANGED faults

Crash == up = "running" /\ Fault /\ Die

Restart ==
    /\ up = "down"
    /\ up' = "running" /\ pc' = "idle"
    /\ UNCHANGED <<rowVars, node, wake, unwoken, batch, cur, seen, outcome, netVars, posts, faults>>

Tick ==
    /\ \E r \in Requests : wait[r] > 0
    /\ wait' = [r \in Requests |-> IF wait[r] > 0 THEN wait[r] - 1 ELSE 0]
    /\ UNCHANGED <<status, attempts, publisher, node, procVars, workerVars, netVars, posts, faults>>

-----------------------------------------------------------------------------
Handlers ==
    \/ \E r \in Requests, n \in Nodes : InsertIntroductionRequest(r, n)
    \/ \E r \in Requests : NudgeWorker(r)

Work ==
    \/ Poll \/ TakeWake \/ StopRun \/ LoadBatch \/ EndDrain \/ StartOne
    \/ PostAccepted \/ PostRefused \/ PostTimeout \/ FinishOne

Next ==
    \/ \E n \in Nodes : Approve(n) \/ RevokeNode(n)
    \/ Handlers
    \/ Work
    \/ \E r \in Requests : LateAccept(r)
    \/ MarkError \/ QueryError
    \/ Signal \/ Exit \/ Crash \/ Restart
    \/ Tick

Spec == Init /\ [][Next]_vars

\* Goroutines that can run do run, the ticker fires, time passes, an HTTP
\* call returns within its timeout, and the service manager brings a stopped
\* process back.  Nothing makes a client ask, a node be approved or revoked,
\* a late request arrive or a fault happen.
Fairness ==
    /\ WF_vars(Work)
    /\ WF_vars(Exit) /\ WF_vars(Restart)
    /\ WF_vars(Tick)

FairSpec == Spec /\ Fairness

-----------------------------------------------------------------------------
(* Properties.                                                             *)

RowsType ==
    /\ status \in [Requests -> {"absent"} \cup Pending \cup Terminal]
    /\ attempts \in [Requests -> 0..MaxAttempts]
    /\ wait \in [Requests -> Nat]
    /\ publisher \in [Requests -> Nodes \cup {NoNode}]

WorkerType ==
    /\ pc \in {"idle", "query", "loop", "wait", "mark", "gone"}
    /\ batch \subseteq Requests
    /\ cur \in Requests \cup {NoRow}
    /\ seen \in [Requests -> 0..MaxAttempts]
    /\ outcome \in Outcomes \cup {"none"}

\* Every variable has its type; in particular the attempts column never
\* exceeds Config.MaxAttempts.
TypeOK ==
    /\ RowsType
    /\ posts \in [Requests -> Nat]
    /\ WorkerType
    /\ node \in [Nodes -> {"pending", "live", "revoked"}]
    /\ up \in {"running", "stopping", "down"}
    /\ wake \in BOOLEAN
    /\ unwoken \subseteq Requests
    /\ late \subseteq Requests /\ inbox \subseteq Requests
    /\ faults \in 0..MaxFaults

\* The copies drain works on are never stale: a row the worker holds is
\* still pending, due and as often attempted as when it was read, although
\* handlers, the clock, revocations and crashes ran in between.  This is
\* what scheduleOrFail and the wide WHERE of MarkIntroUndeliverable rely on.
HeldRowsAreCurrent ==
    \A r \in Held : /\ status[r] \in Pending
                    /\ wait[r] = 0
                    /\ seen[r] = attempts[r]

\* A crash, a shutdown or a failed database call repeats at most one POST:
\* over its life a request is sent at most MaxAttempts + faults times.
PostsBounded ==
    \A r \in Requests :
        /\ posts[r] <= MaxAttempts + faults
        /\ status[r] = "failed" => attempts[r] = MaxAttempts

\* A wake-up is never lost: with no fault so far and room for every row in
\* one batch, a queued row is on its way without waiting for the ticker.
NoLostWakeup ==
    faults = 0 /\ NumRequests <= BatchSize
    /\ (\A n \in Nodes : Endpoint[n] # "malformed")
    => \A r \in Requests :
          status[r] = "queued" => r \in unwoken \cup Held \/ wake \/ pc = "query"

\* A POST is only sent for a row that is pending and past its back-off, so
\* never again after the row was delivered, failed or given up.
OnlyDueRowsPosted ==
    [][\A r \in Requests :
          posts'[r] # posts[r] => status[r] \in Pending /\ wait[r] = 0]_vars

\* The owner of node n has no LivingCV node but ones with an endpoint_url no
\* request can be built for, or with none.
OnlyMalformed(n) ==
    \A m \in LivingCV : Owner[m] = Owner[n] => Endpoint[m] \in {"malformed", ""}

NeverCounted(r) ==
    /\ posts[r] = 0 /\ attempts[r] = 0 /\ r \notin inbox
    /\ status[r] \in {"queued", "undeliverable"}

Doomed(r) == publisher[r] # NoNode /\ OnlyMalformed(publisher[r])

\* What processOne's early return costs: an introduction to such an owner is
\* never sent and no attempt is ever counted, so its attempts can never run
\* out.  It stays queued unless the owner's nodes all go away.
MalformedIsNeverCounted == \A r \in Requests : Doomed(r) => NeverCounted(r)

-----------------------------------------------------------------------------
(* The inductive invariant behind the properties above; see OutboxProofs.  *)

\* What the program counters say about the rest of the state.
ControlInv ==
    /\ cur # NoRow <=> pc \in {"wait", "mark"}
    /\ cur \notin batch
    /\ pc \in {"idle", "query", "gone"} => batch = {}
    /\ pc = "mark" => outcome \in Outcomes
    /\ pc = "mark" /\ outcome = "delivered" => cur \in inbox
    /\ up = "down" => pc = "gone"
    /\ up = "running" => pc # "gone"
    /\ up # "running" => faults > 0

\* How status and attempts go together, and that nothing happens to a row
\* before it is inserted.
LedgerInv ==
    \A r \in Requests :
        /\ status[r] # "failed" => attempts[r] < MaxAttempts
        /\ status[r] = "failed" => attempts[r] = MaxAttempts
        /\ status[r] \in {"absent", "queued"} => attempts[r] = 0 /\ wait[r] = 0
        /\ status[r] = "absent" => r \notin late \cup inbox

\* A POST whose outcome the row does not show yet, or shows as delivered.
Uncounted(r) ==
    \/ status[r] = "delivered"
    \/ r = cur /\ (pc = "wait" \/ (pc = "mark" /\ outcome # "undeliverable"))

\* Every POST is paid for by an attempt or a fault; a process that is about
\* to stop has paid for the one it may still lose.
Paid(r) ==
    posts[r] + (IF up = "stopping" THEN 1 ELSE 0)
      <= attempts[r] + faults + (IF Uncounted(r) THEN 1 ELSE 0)

PostsInv == \A r \in Requests : Paid(r)

IInv == TypeOK /\ ControlInv /\ HeldRowsAreCurrent /\ LedgerInv /\ PostsInv

\* For MalformedIsNeverCounted: a doomed row has no POST out, and comes into
\* processOne's hands only to be given up.
MalformedInv ==
    \A r \in Requests :
        /\ publisher[r] = NoNode => status[r] = "absent"
        /\ status[r] = "absent" => posts[r] = 0
        /\ Doomed(r) => /\ NeverCounted(r) /\ r \notin late
                        /\ r = cur => pc = "mark" /\ outcome = "undeliverable"

-----------------------------------------------------------------------------
Intro == INSTANCE IntroQueue WITH status <- status, attempts <- attempts, inbox <- inbox

\* The worker, with all its interleavings and crashes, implements the
\* life cycle queued -> retrying -> delivered | failed | undeliverable.
ImplementsQueue == Intro!Spec

\* Every queued introduction reaches a terminal status.
Settles ==
    \A r \in Requests : status[r] = "queued" ~> status[r] \in Terminal
=============================================================================
