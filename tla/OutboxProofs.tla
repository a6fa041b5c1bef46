---------------------------- MODULE OutboxProofs ----------------------------
(***************************************************************************)
(* Proofs, for every number of requests, nodes, attempts and faults and    *)
(* every batch size and back-off schedule, of the properties of Outbox     *)
(* that do not involve fairness.                                           *)
(***************************************************************************)
EXTENDS Outbox, FiniteSetTheorems, TLAPS

USE OutboxAssumption DEF OutboxAssumption

\* The program starts in a state of the inductive invariant.
LEMMA InitIInv == Init => IInv
<1> SUFFICES ASSUME Init PROVE IInv
  OBVIOUS
<1> USE DEF Init, NoRow, NoNode, Unread
<1>1. TypeOK
  <2>1. RowsType
    BY DEF RowsType
  <2>2. WorkerType
    BY DEF WorkerType
  <2>3. wake \in BOOLEAN
    BY Zenon
  <2> QED
    BY <2>1, <2>2, <2>3 DEF TypeOK
<1>2. ControlInv
  BY DEF ControlInv
<1>3. HeldRowsAreCurrent
  BY DEF HeldRowsAreCurrent, Held, Current
<1>4. LedgerInv
  BY DEF LedgerInv
<1>5. PostsInv
  BY DEF PostsInv, Paid, Uncounted
<1> QED
  BY <1>1, <1>2, <1>3, <1>4, <1>5 DEF IInv

\* A delay of the schedule is a natural number.
LEMMA DelayType == \A k \in Nat \ {0} : Delay(k) \in Nat
  BY DEF Delay

\* Steps of the handlers, of the nodes' owners and of the network preserve
\* the inductive invariant.
LEMMA EnvironmentIInv ==
  ASSUME IInv,
         \/ \E n \in Nodes : Approve(n) \/ RevokeNode(n)
         \/ Handlers
         \/ \E r \in Requests : LateAccept(r)
         \/ Tick
  PROVE  IInv'
<1> USE DEF IInv, rowVars, procVars, workerVars, netVars
<1>1. ASSUME NEW n \in Nodes, Approve(n) \/ RevokeNode(n) PROVE IInv'
  <2> USE <1>1 DEF Approve, RevokeNode
  <2>1. TypeOK'
    BY DEF TypeOK, RowsType, WorkerType
  <2>2. ControlInv' /\ HeldRowsAreCurrent' /\ LedgerInv' /\ PostsInv'
    BY DEF ControlInv, HeldRowsAreCurrent, Held, Current, LedgerInv, PostsInv, Paid, Uncounted
  <2> QED
    BY <2>1, <2>2
<1>2. ASSUME NEW r \in Requests, NEW n \in Nodes, InsertIntroductionRequest(r, n)
      PROVE  IInv'
  <2> USE <1>2 DEF InsertIntroductionRequest
  <2>1. TypeOK'
    BY DEF TypeOK, RowsType, WorkerType, Pending
  <2>2. ControlInv'
    BY DEF ControlInv
  <2>3. HeldRowsAreCurrent'
    BY DEF HeldRowsAreCurrent, Held, Current, TypeOK, RowsType, WorkerType, Pending
  <2>4. LedgerInv'
    BY DEF LedgerInv, TypeOK, RowsType, WorkerType
  <2>5. PostsInv'
    BY DEF PostsInv, Paid, Uncounted, TypeOK, RowsType, WorkerType
  <2> QED
    BY <2>1, <2>2, <2>3, <2>4, <2>5
<1>3. ASSUME NEW r \in Requests, NudgeWorker(r) PROVE IInv'
  <2> USE <1>3 DEF NudgeWorker
  <2>1. TypeOK'
    BY DEF TypeOK, RowsType, WorkerType
  <2>2. ControlInv' /\ HeldRowsAreCurrent' /\ LedgerInv' /\ PostsInv'
    BY DEF ControlInv, HeldRowsAreCurrent, Held, Current, LedgerInv, PostsInv, Paid, Uncounted
  <2> QED
    BY <2>1, <2>2
<1>4. ASSUME NEW r \in Requests, LateAccept(r) PROVE IInv'
  <2> USE <1>4 DEF LateAccept
  <2>1. TypeOK'
    BY DEF TypeOK, RowsType, WorkerType
  <2>2. ControlInv' /\ HeldRowsAreCurrent' /\ PostsInv'
    BY DEF ControlInv, HeldRowsAreCurrent, Held, Current, PostsInv, Paid, Uncounted
  <2>3. LedgerInv'
    BY DEF LedgerInv
  <2> QED
    BY <2>1, <2>2, <2>3
<1>5. CASE Tick
  <2> USE <1>5 DEF Tick
  <2>1. TypeOK'
    <3>1. wait' \in [Requests -> Nat]
      BY DEF TypeOK, RowsType
    <3> QED
      BY <3>1 DEF TypeOK, RowsType, WorkerType
  <2>2. HeldRowsAreCurrent'
    BY DEF HeldRowsAreCurrent, Held, Current, TypeOK, RowsType, WorkerType
  <2>3. LedgerInv'
    BY DEF LedgerInv, TypeOK, RowsType, WorkerType
  <2>4. ControlInv' /\ PostsInv'
    BY DEF ControlInv, PostsInv, Paid, Uncounted
  <2> QED
    BY <2>1, <2>2, <2>3, <2>4
<1> QED
  BY <1>1, <1>2, <1>3, <1>4, <1>5 DEF Handlers

\* The steps of the worker that touch no row preserve the inductive
\* invariant.
LEMMA WorkerIInv ==
  ASSUME IInv,
         \/ Poll \/ TakeWake \/ StopRun \/ LoadBatch \/ EndDrain \/ StartOne
         \/ PostAccepted \/ PostRefused \/ PostTimeout
  PROVE  IInv'
<1> USE DEF IInv, rowVars, procVars, workerVars, netVars
<1>1. CASE Poll \/ TakeWake \/ StopRun
  <2> USE <1>1 DEF Poll, TakeWake, StopRun
  <2>1. TypeOK'
    BY DEF TypeOK, RowsType, WorkerType
  <2>2. ControlInv'
    BY DEF ControlInv
  <2>3. HeldRowsAreCurrent' /\ LedgerInv' /\ PostsInv'
    BY DEF ControlInv, HeldRowsAreCurrent, Held, Current, LedgerInv, PostsInv, Paid, Uncounted
  <2> QED
    BY <2>1, <2>2, <2>3
<1>2. CASE LoadBatch
  <2> USE <1>2 DEF LoadBatch, PendingIntroductionRequests, Due
  <2>1. TypeOK'
    BY DEF TypeOK, RowsType, WorkerType
  <2>2. ControlInv'
    BY DEF ControlInv, NoRow, Requests
  <2>3. HeldRowsAreCurrent'
    BY DEF ControlInv, HeldRowsAreCurrent, Held, Current
  <2>4. LedgerInv' /\ PostsInv'
    BY DEF LedgerInv, PostsInv, Paid, Uncounted
  <2> QED
    BY <2>1, <2>2, <2>3, <2>4
<1>3. CASE EndDrain
  <2> USE <1>3 DEF EndDrain
  <2>1. TypeOK'
    BY DEF TypeOK, RowsType, WorkerType, Unread
  <2>2. ControlInv'
    BY DEF ControlInv
  <2>3. HeldRowsAreCurrent'
    BY DEF ControlInv, HeldRowsAreCurrent, Held, Current
  <2>4. LedgerInv' /\ PostsInv'
    BY DEF LedgerInv, PostsInv, Paid, Uncounted
  <2> QED
    BY <2>1, <2>2, <2>3, <2>4
<1>4. CASE StartOne
  <2>1. PICK r \in batch :
          /\ batch' = batch \ {r}
          /\ \/ /\ pc' = "mark" /\ cur' = r /\ outcome' = "undeliverable"
                /\ UNCHANGED posts
             \/ UNCHANGED <<pc, cur, outcome, posts>>
             \/ /\ pc' = "wait" /\ cur' = r
                /\ posts' = [posts EXCEPT ![r] = @ + 1]
                /\ UNCHANGED outcome
    BY <1>4 DEF StartOne
  <2>2. /\ pc = "loop" /\ up = "running"
        /\ UNCHANGED <<rowVars, node, procVars, seen, netVars, faults>>
    BY <1>4 DEF StartOne
  <2>3. r \in Requests /\ cur = NoRow /\ status[r] \in Pending
    BY <2>1, <2>2 DEF TypeOK, RowsType, WorkerType, ControlInv, HeldRowsAreCurrent, Held
  <2> USE <2>1, <2>2, <2>3
  <2>4. TypeOK'
    <3>1. RowsType'
      BY DEF TypeOK, RowsType
    <3>2. WorkerType'
      BY DEF TypeOK, WorkerType, Outcomes
    <3>3. posts' \in [Requests -> Nat]
      BY DEF TypeOK
    <3> QED
      BY <3>1, <3>2, <3>3 DEF TypeOK
  <2>5. ControlInv'
    BY DEF ControlInv, NoRow, Requests, Outcomes
  <2>6. HeldRowsAreCurrent'
    BY DEF HeldRowsAreCurrent, Held, Current
  <2>7. LedgerInv'
    BY DEF LedgerInv
  <2>8. PostsInv'
    <3> SUFFICES ASSUME NEW q \in Requests PROVE Paid(q)'
      BY DEF PostsInv
    <3>1. Paid(q) /\ posts[q] \in Nat /\ attempts[q] \in Nat /\ faults \in Nat
      BY DEF PostsInv, TypeOK, RowsType
    <3>2. CASE q # r
      BY <3>1, <3>2 DEF Paid, Uncounted, TypeOK, NoRow, Requests
    <3>3. CASE q = r
      BY <3>1, <3>3 DEF Paid, Uncounted, TypeOK, Pending, NoRow, Requests
    <3> QED
      BY <3>2, <3>3
  <2> QED
    BY <2>4, <2>5, <2>6, <2>7, <2>8
<1>5. CASE PostAccepted \/ PostRefused \/ PostTimeout
  <2> USE <1>5 DEF PostAccepted, PostRefused, PostTimeout, Returned
  <2>1. cur \in Requests /\ status[cur] # "absent"
    BY DEF ControlInv, TypeOK, RowsType, WorkerType, HeldRowsAreCurrent, Held, Current, Pending
  <2>2. TypeOK'
    BY <2>1 DEF TypeOK, RowsType, WorkerType, Outcomes
  <2>3. ControlInv'
    BY DEF ControlInv, Outcomes
  <2>4. HeldRowsAreCurrent'
    BY DEF HeldRowsAreCurrent, Held, Current
  <2>5. LedgerInv'
    BY <2>1 DEF LedgerInv
  <2>6. PostsInv'
    BY DEF PostsInv, Paid, Uncounted
  <2> QED
    BY <2>2, <2>3, <2>4, <2>5, <2>6
<1> QED
  BY <1>1, <1>2, <1>3, <1>4, <1>5

\* What FinishOne does to the row in hand.  The two facts that make it so
\* are that the row is still pending, so every WHERE matches, and that the
\* attempts drain read are still the row's attempts.
LEMMA FinishOneEffect ==
  ASSUME IInv, FinishOne
  PROVE  /\ cur \in Requests /\ status[cur] \in Pending
         /\ \E st \in {"retrying"} \cup Terminal, a \in 0..MaxAttempts, d \in Nat :
              /\ status' = [status EXCEPT ![cur] = st]
              /\ attempts' = [attempts EXCEPT ![cur] = a]
              /\ wait' = [wait EXCEPT ![cur] = d]
              /\ \/ /\ st = "delivered" /\ a = attempts[cur]
                    /\ outcome = "delivered" /\ cur \in inbox
                 \/ /\ st = "failed" /\ a = attempts[cur] + 1
                    /\ outcome = "error" /\ a = MaxAttempts
                 \/ /\ st = "retrying" /\ a = attempts[cur] + 1
                    /\ outcome = "error" /\ a < MaxAttempts
                 \/ /\ st = "undeliverable" /\ a = attempts[cur]
                    /\ outcome = "undeliverable"
<1> USE DEF IInv
<1>1. pc = "mark" /\ cur \in Requests /\ cur # NoRow /\ outcome \in Outcomes
  BY DEF FinishOne, ProcessedOne, ControlInv, TypeOK, WorkerType
<1>2. status[cur] \in Pending /\ seen[cur] = attempts[cur]
  BY <1>1 DEF HeldRowsAreCurrent, Held, Current
<1>3. attempts[cur] \in 0..MaxAttempts /\ attempts[cur] < MaxAttempts
  BY <1>1, <1>2 DEF LedgerInv, TypeOK, RowsType, Pending
<1> DEFINE Set(st, a, d) == /\ status' = [status EXCEPT ![cur] = st]
                            /\ attempts' = [attempts EXCEPT ![cur] = a]
                            /\ wait' = [wait EXCEPT ![cur] = d]
<1>4. CASE outcome = "delivered"
  <2>1. Set("delivered", attempts[cur], 0) /\ cur \in inbox
    BY <1>1, <1>2, <1>4 DEF FinishOne, MarkIntroDelivered, MarkRow, ControlInv
  <2> QED
    BY <1>1, <1>2, <1>3, <1>4, <2>1 DEF Terminal
<1>5. CASE outcome = "error"
  <2>1. scheduleOrFail(cur)
    BY <1>5 DEF FinishOne
  <2>2. CASE attempts[cur] + 1 >= MaxAttempts
    <3>1. Set("failed", attempts[cur] + 1, 0)
      BY <1>1, <1>2, <2>1, <2>2 DEF scheduleOrFail, MarkIntroFailed, MarkRow
    <3>2. attempts[cur] + 1 \in 0..MaxAttempts /\ attempts[cur] + 1 = MaxAttempts
      BY <1>3, <2>2
    <3> QED
      BY <1>1, <1>2, <1>5, <3>1, <3>2 DEF Terminal
  <2>3. CASE ~(attempts[cur] + 1 >= MaxAttempts)
    <3>1. Delay(seen[cur] + 1) \in Nat
      BY <1>2, <1>3, DelayType
    <3>2. Set("retrying", attempts[cur] + 1, Delay(seen[cur] + 1))
      BY <1>1, <1>2, <2>1, <2>3 DEF scheduleOrFail, MarkIntroRetrying, MarkRow
    <3>3. attempts[cur] + 1 \in 0..MaxAttempts /\ attempts[cur] + 1 < MaxAttempts
      BY <1>3, <2>3
    <3> QED
      BY <1>1, <1>2, <1>5, <3>1, <3>2, <3>3
  <2> QED
    BY <2>2, <2>3
<1>6. CASE outcome = "undeliverable"
  <2>1. Set("undeliverable", attempts[cur], 0)
    BY <1>1, <1>2, <1>6 DEF FinishOne, MarkIntroUndeliverable, MarkRow
  <2> QED
    BY <1>1, <1>2, <1>3, <1>6, <2>1 DEF Terminal
<1> QED
  BY <1>1, <1>4, <1>5, <1>6 DEF Outcomes

\* Recording an outcome preserves the inductive invariant.
LEMMA FinishOneIInv ==
  ASSUME IInv, FinishOne
  PROVE  IInv'
<1> USE DEF IInv
<1>1. /\ pc = "mark" /\ pc' = "loop" /\ cur' = NoRow /\ outcome' = "none"
      /\ UNCHANGED <<publisher, node, procVars, batch, seen, netVars, posts, faults>>
  BY DEF FinishOne, ProcessedOne
<1>2. cur \in Requests /\ status[cur] \in Pending
  BY FinishOneEffect
<1>3. cur \notin batch /\ cur # NoRow
  BY <1>1 DEF ControlInv
<1>4. attempts[cur] \in Nat /\ attempts[cur] < MaxAttempts
  BY <1>2 DEF LedgerInv, TypeOK, RowsType, Pending
<1>5. PICK st \in {"retrying"} \cup Terminal, a \in 0..MaxAttempts, d \in Nat :
        /\ status' = [status EXCEPT ![cur] = st]
        /\ attempts' = [attempts EXCEPT ![cur] = a]
        /\ wait' = [wait EXCEPT ![cur] = d]
        /\ \/ /\ st = "delivered" /\ a = attempts[cur]
              /\ outcome = "delivered" /\ cur \in inbox
           \/ /\ st = "failed" /\ a = attempts[cur] + 1
              /\ outcome = "error" /\ a = MaxAttempts
           \/ /\ st = "retrying" /\ a = attempts[cur] + 1
              /\ outcome = "error" /\ a < MaxAttempts
           \/ /\ st = "undeliverable" /\ a = attempts[cur]
              /\ outcome = "undeliverable"
  BY FinishOneEffect
<1> USE <1>1, <1>2, <1>3, <1>4, <1>5 DEF procVars, netVars
<1>6. TypeOK'
  <2>1. RowsType'
    <3>1. status' \in [Requests -> {"absent"} \cup Pending \cup Terminal]
      BY DEF TypeOK, RowsType, Pending
    <3>2. attempts' \in [Requests -> 0..MaxAttempts]
      BY DEF TypeOK, RowsType
    <3>3. wait' \in [Requests -> Nat]
      BY DEF TypeOK, RowsType
    <3> QED
      BY <3>1, <3>2, <3>3 DEF TypeOK, RowsType
  <2>2. WorkerType'
    BY DEF TypeOK, WorkerType
  <2> QED
    BY <2>1, <2>2 DEF TypeOK
<1>7. ControlInv'
  BY DEF ControlInv, NoRow, Requests, TypeOK, WorkerType
<1>8. HeldRowsAreCurrent'
  BY DEF HeldRowsAreCurrent, Held, Current, TypeOK, RowsType, WorkerType
<1>9. LedgerInv'
  BY DEF LedgerInv, TypeOK, RowsType, Pending, Terminal
<1>10. PostsInv'
  <2> SUFFICES ASSUME NEW r \in Requests PROVE Paid(r)'
    BY DEF PostsInv
  <2>1. Paid(r) /\ posts[r] \in Nat /\ attempts[r] \in Nat /\ faults \in Nat
    BY DEF PostsInv, TypeOK, RowsType
  <2>2. CASE r # cur
    <3>1. status'[r] = status[r] /\ attempts'[r] = attempts[r]
      BY <2>2 DEF TypeOK, RowsType
    <3> QED
      BY <2>1, <2>2, <3>1 DEF Paid, Uncounted, NoRow, Requests
  <2>3. CASE r = cur
    <3>1. status'[r] = st /\ attempts'[r] = a
      BY <2>3 DEF TypeOK, RowsType
    <3>2. status[r] # "delivered"
      BY <2>3 DEF Pending
    <3>3. Uncounted(r) <=> outcome # "undeliverable"
      BY <2>3, <3>2 DEF Uncounted
    <3>4. Uncounted(r)' <=> st = "delivered"
      BY <3>1 DEF Uncounted
    <3>5. \/ a = attempts[r] /\ (Uncounted(r)' <=> Uncounted(r))
          \/ a = attempts[r] + 1 /\ ~Uncounted(r)'
      BY <2>3, <3>3, <3>4
    <3>6. posts'[r] = posts[r] /\ up' = up /\ faults' = faults
      OBVIOUS
    <3> QED
      BY ONLY <2>1, <3>1, <3>5, <3>6 DEF Paid
  <2> QED
    BY <2>2, <2>3
<1> QED
  BY <1>6, <1>7, <1>8, <1>9, <1>10

\* Failed database calls, signals, exits, crashes and restarts preserve the
\* inductive invariant.
LEMMA FaultIInv ==
  ASSUME IInv, MarkError \/ QueryError \/ Signal \/ Exit \/ Crash \/ Restart
  PROVE  IInv'
<1> USE DEF IInv, rowVars, procVars, workerVars, netVars
<1>1. CASE MarkError
  <2> USE <1>1 DEF MarkError, ProcessedOne, Fault
  <2>1. TypeOK'
    BY DEF TypeOK, RowsType, WorkerType
  <2>2. ControlInv'
    BY DEF ControlInv, NoRow, Requests, TypeOK, RowsType, WorkerType
  <2>3. HeldRowsAreCurrent'
    BY DEF HeldRowsAreCurrent, Held, Current
  <2>4. LedgerInv'
    BY DEF LedgerInv
  <2>5. PostsInv'
    <3> SUFFICES ASSUME NEW r \in Requests PROVE Paid(r)'
      BY DEF PostsInv
    <3>1. Paid(r) /\ posts[r] \in Nat /\ attempts[r] \in Nat /\ faults \in Nat
      BY DEF PostsInv, TypeOK, RowsType
    <3> QED
      BY <3>1 DEF Paid, Uncounted
  <2> QED
    BY <2>1, <2>2, <2>3, <2>4, <2>5
<1>2. CASE QueryError
  <2> USE <1>2 DEF QueryError, Fault
  <2>1. TypeOK'
    BY DEF TypeOK, RowsType, WorkerType
  <2>2. ControlInv'
    BY DEF ControlInv, TypeOK, RowsType, WorkerType
  <2>3. HeldRowsAreCurrent'
    BY DEF HeldRowsAreCurrent, Held, Current, ControlInv
  <2>4. LedgerInv'
    BY DEF LedgerInv
  <2>5. PostsInv'
    <3> SUFFICES ASSUME NEW r \in Requests PROVE Paid(r)'
      BY DEF PostsInv
    <3>1. Paid(r) /\ posts[r] \in Nat /\ attempts[r] \in Nat /\ faults \in Nat
      BY DEF PostsInv, TypeOK, RowsType
    <3>2. /\ faults' = faults + 1 /\ pc \notin {"wait", "mark"} /\ pc' \notin {"wait", "mark"}
          /\ UNCHANGED <<status, attempts, up, posts>>
      OBVIOUS
    <3> HIDE <1>2 DEF QueryError, IInv
    <3> QED
      BY <3>1, <3>2 DEF Paid, Uncounted
  <2> QED
    BY <2>1, <2>2, <2>3, <2>4, <2>5
<1>3. CASE Signal
  <2> USE <1>3 DEF Signal, Fault
  <2>1. TypeOK'
    BY DEF TypeOK, RowsType, WorkerType
  <2>2. ControlInv'
    BY DEF ControlInv, TypeOK, RowsType, WorkerType
  <2>3. HeldRowsAreCurrent' /\ LedgerInv'
    BY DEF HeldRowsAreCurrent, Held, Current, LedgerInv
  <2>4. PostsInv'
    <3> SUFFICES ASSUME NEW r \in Requests PROVE Paid(r)'
      BY DEF PostsInv
    <3>1. Paid(r) /\ posts[r] \in Nat /\ attempts[r] \in Nat /\ faults \in Nat
      BY DEF PostsInv, TypeOK, RowsType
    <3> QED
      BY <3>1 DEF Paid, Uncounted
  <2> QED
    BY <2>1, <2>2, <2>3, <2>4
<1>4. CASE Exit \/ Crash
  <2> USE <1>4 DEF Exit, Crash, Fault, Die
  <2>1. pc = "wait" => cur \in Requests /\ status[cur] # "absent"
    BY DEF ControlInv, TypeOK, RowsType, WorkerType, HeldRowsAreCurrent, Held, Current, Pending
  <2>2. TypeOK'
    <3>1. RowsType' /\ WorkerType'
      BY DEF TypeOK, RowsType, WorkerType, Unread
    <3>2. wake' \in BOOLEAN
      BY Zenon
    <3> QED
      BY <2>1, <3>1, <3>2 DEF TypeOK
  <2>3. ControlInv'
    BY DEF ControlInv, TypeOK, RowsType, WorkerType
  <2>4. HeldRowsAreCurrent'
    BY DEF HeldRowsAreCurrent, Held, Current
  <2>5. LedgerInv'
    BY <2>1 DEF LedgerInv
  <2>6. PostsInv'
    <3> SUFFICES ASSUME NEW r \in Requests PROVE Paid(r)'
      BY DEF PostsInv
    <3>1. Paid(r) /\ posts[r] \in Nat /\ attempts[r] \in Nat /\ faults \in Nat
      BY DEF PostsInv, TypeOK, RowsType
    <3> QED
      BY <3>1 DEF Paid, Uncounted
  <2> QED
    BY <2>2, <2>3, <2>4, <2>5, <2>6
<1>5. CASE Restart
  <2> USE <1>5 DEF Restart
  <2>1. TypeOK'
    BY DEF TypeOK, RowsType, WorkerType
  <2>2. ControlInv'
    BY DEF ControlInv
  <2>3. HeldRowsAreCurrent' /\ LedgerInv'
    BY DEF HeldRowsAreCurrent, Held, Current, LedgerInv
  <2>4. PostsInv'
    BY DEF PostsInv, Paid, Uncounted, ControlInv
  <2> QED
    BY <2>1, <2>2, <2>3, <2>4
<1> QED
  BY <1>1, <1>2, <1>3, <1>4, <1>5

\* A step that changes nothing preserves the inductive invariant.
LEMMA StutterIInv == IInv /\ UNCHANGED vars => IInv'
  BY DEF IInv, TypeOK, RowsType, WorkerType, ControlInv, HeldRowsAreCurrent, Held, Current, LedgerInv,
         PostsInv, Paid, Uncounted, vars, rowVars, procVars, workerVars, netVars

\* The inductive invariant holds throughout.
THEOREM OutboxInvariant == Spec => []IInv
<1>1. IInv /\ [Next]_vars => IInv'
  BY EnvironmentIInv, WorkerIInv, FinishOneIInv, FaultIInv, StutterIInv DEF Next, Work
<1> QED
  BY InitIInv, <1>1, PTL DEF Spec

\* The state of the outbox is always well typed; the attempts column never
\* exceeds Config.MaxAttempts.
THEOREM TypeCorrect == Spec => []TypeOK
<1>1. IInv => TypeOK
  BY DEF IInv
<1> QED
  BY OutboxInvariant, <1>1, PTL

\* The rows drain holds copies of are never stale.
THEOREM HeldRowsCorrect == Spec => []HeldRowsAreCurrent
<1>1. IInv => HeldRowsAreCurrent
  BY DEF IInv
<1> QED
  BY OutboxInvariant, <1>1, PTL

\* A request is POSTed at most MaxAttempts + faults times, and is failed
\* only after exactly MaxAttempts recorded attempts.
THEOREM PostsCorrect == Spec => []PostsBounded
<1>1. IInv => PostsBounded
  <2> SUFFICES ASSUME IInv, NEW r \in Requests
               PROVE  /\ posts[r] <= MaxAttempts + faults
                      /\ status[r] = "failed" => attempts[r] = MaxAttempts
    BY DEF PostsBounded
  <2>1. /\ posts[r] \in Nat /\ attempts[r] \in Nat /\ faults \in Nat
        /\ status[r] # "failed" => attempts[r] < MaxAttempts
        /\ status[r] = "failed" => attempts[r] = MaxAttempts
    BY DEF IInv, TypeOK, RowsType, WorkerType, LedgerInv
  <2>2. Uncounted(r) => status[r] # "failed"
    BY DEF Uncounted, IInv, ControlInv, HeldRowsAreCurrent, Held, Current, Pending
  <2>3. posts[r] <= attempts[r] + faults + (IF Uncounted(r) THEN 1 ELSE 0)
    BY <2>1 DEF IInv, PostsInv, Paid
  <2> QED
    BY <2>1, <2>2, <2>3
<1> QED
  BY OutboxInvariant, <1>1, PTL

\* A POST is only ever sent for a row that is pending and past its back-off.
THEOREM OnlyDueRowsCorrect == Spec => OnlyDueRowsPosted
<1> DEFINE Good == \A r \in Requests :
                     posts'[r] # posts[r] => status[r] \in Pending /\ wait[r] = 0
<1>1. IInv /\ [Next]_vars => Good \/ UNCHANGED vars
  <2> SUFFICES ASSUME IInv, Next, NEW r \in Requests, posts'[r] # posts[r]
               PROVE  status[r] \in Pending /\ wait[r] = 0
    OBVIOUS
  <2>1. StartOne
    BY DEF Next, Handlers, Work, Approve, RevokeNode, InsertIntroductionRequest,
           NudgeWorker, Poll, TakeWake, StopRun, LoadBatch, EndDrain, PostAccepted,
           PostRefused, PostTimeout, Returned, FinishOne, ProcessedOne, LateAccept,
           MarkError, QueryError, Signal, Exit, Crash, Die, Restart, Tick
  <2>2. r \in batch
    BY <2>1 DEF StartOne, IInv, TypeOK
  <2> QED
    BY <2>2 DEF IInv, HeldRowsAreCurrent, Held
<1> QED
  BY OutboxInvariant, <1>1, PTL DEF Spec, OnlyDueRowsPosted

\* With room for every row, the drain query leaves no due row behind.
LEMMA BatchHoldsAllDue ==
  ASSUME NumRequests <= BatchSize
  PROVE  PendingIntroductionRequests = Due
<1> SUFFICES ASSUME NEW r \in Due
             PROVE  Cardinality({q \in Due : q < r}) < BatchSize
  BY DEF PendingIntroductionRequests
<1> DEFINE Older == {q \in Due : q < r}
           Below == 1..(r - 1)
<1>1. r \in 1..NumRequests /\ r - 1 \in Int /\ 1 \in Int
  BY DEF Due, Requests
<1>2. IsFiniteSet(Below) /\ Cardinality(Below) = IF 1 > r - 1 THEN 0 ELSE r - 1 - 1 + 1
  BY <1>1, FS_Interval, Zenon
<1>3. Older \in SUBSET Below
  BY <1>1 DEF Due, Requests
<1>4. IsFiniteSet(Older) /\ Cardinality(Older) <= Cardinality(Below)
  BY <1>2, <1>3, FS_Subset, Zenon
<1>5. Cardinality(Older) \in Nat
  BY <1>4, FS_CardinalityType, Zenon
<1> HIDE DEF Older, Below
<1>6. Cardinality(Older) < BatchSize
  BY <1>1, <1>2, <1>4, <1>5
<1> QED
  BY <1>6 DEF Older

\* No wake-up is lost: without faults and with room for every row in one
\* batch, a queued row never has to wait for the ticker.
THEOREM NoLostWakeupCorrect == Spec => []NoLostWakeup
<1>1. Init => NoLostWakeup
  BY DEF Init, NoLostWakeup
<1>2. IInv /\ NoLostWakeup /\ [Next]_vars => NoLostWakeup'
  <2> SUFFICES ASSUME IInv, NoLostWakeup, [Next]_vars,
                      faults' = 0, NumRequests <= BatchSize,
                      \A n \in Nodes : Endpoint[n] # "malformed",
                      NEW r \in Requests, status'[r] = "queued"
               PROVE  (r \in unwoken \cup Held \/ wake \/ pc = "query")'
    BY DEF NoLostWakeup
  <2> USE DEF rowVars, procVars, workerVars, netVars
  <2>1. faults = 0 /\ ~(MarkError \/ QueryError \/ Signal \/ Crash)
    <3>1. faults \in Nat
      BY DEF IInv, TypeOK
    <3>2. ~(MarkError \/ QueryError \/ Signal \/ Crash)
      BY <3>1 DEF MarkError, QueryError, Signal, Crash, Fault
    <3>3. faults' = faults
      BY <3>2 DEF Next, Handlers, Work, Approve, RevokeNode, InsertIntroductionRequest,
           NudgeWorker, Poll, TakeWake, StopRun, LoadBatch, EndDrain, StartOne, PostAccepted,
           PostRefused, PostTimeout, Returned, FinishOne, LateAccept, Exit, Restart, Tick, vars
    <3> QED
      BY <3>2, <3>3
  <2>2. up = "running" /\ ~Exit /\ ~Restart /\ ~StopRun
    <3>1. up = "running"
      BY <2>1 DEF IInv, TypeOK, ControlInv
    <3> QED
      BY <3>1 DEF Exit, Restart, StopRun
  <2>3. status[r] = "queued" => r \in unwoken \cup Held \/ wake \/ pc = "query"
    BY <2>1 DEF NoLostWakeup
  <2>4. CASE UNCHANGED vars
    BY <2>3, <2>4 DEF vars, Held, Current
  <2>5. CASE \E n \in Nodes : Approve(n) \/ RevokeNode(n)
    BY <2>3, <2>5 DEF Approve, RevokeNode, Held, Current
  <2>6. ASSUME NEW q \in Requests, NEW n \in Nodes, InsertIntroductionRequest(q, n)
        PROVE  (r \in unwoken \cup Held \/ wake \/ pc = "query")'
    BY <2>3, <2>6 DEF InsertIntroductionRequest, Held, Current, IInv, TypeOK, RowsType
  <2>7. ASSUME NEW q \in Requests, NudgeWorker(q)
        PROVE  (r \in unwoken \cup Held \/ wake \/ pc = "query")'
    BY <2>7 DEF NudgeWorker
  <2>8. CASE Poll \/ TakeWake
    BY <2>8 DEF Poll, TakeWake
  <2>9. CASE LoadBatch
    <3>1. status[r] = "queued" /\ wait[r] = 0
      BY <2>9 DEF LoadBatch, IInv, LedgerInv
    <3>2. r \in Due
      BY <3>1 DEF Due, Pending
    <3> QED
      BY <2>9, <3>2, BatchHoldsAllDue DEF LoadBatch, Held
  <2>10. CASE EndDrain
    BY <2>2, <2>3, <2>10 DEF EndDrain, Held, Current, IInv, ControlInv
  <2>11. CASE StartOne
    <3>1. PICK q \in batch : batch' = batch \ {q} /\ cur' = q
      BY <2>11 DEF StartOne, NoNode
    <3> QED
      BY <2>3, <2>11, <3>1 DEF StartOne, Held, Current, IInv, TypeOK, WorkerType,
         ControlInv, NoRow, Requests
  <2>12. CASE PostAccepted \/ PostRefused \/ PostTimeout
    BY <2>3, <2>12 DEF PostAccepted, PostRefused, PostTimeout, Returned, Held, Current
  <2>13. CASE FinishOne
    <3>1. cur \in Requests /\ r # cur /\ status[r] = "queued"
      <4>1. cur \in Requests
        BY <2>13, FinishOneEffect
      <4>2. PICK st \in {"retrying"} \cup Terminal : status' = [status EXCEPT ![cur] = st]
        BY <2>13, FinishOneEffect
      <4>3. st # "queued"
        BY <4>2 DEF Terminal
      <4> QED
        BY <4>1, <4>2, <4>3 DEF IInv, TypeOK, RowsType
    <3> QED
      BY <2>3, <2>13, <3>1 DEF FinishOne, ProcessedOne, Held, Current
  <2>14. ASSUME NEW q \in Requests, LateAccept(q)
         PROVE  (r \in unwoken \cup Held \/ wake \/ pc = "query")'
    BY <2>3, <2>14 DEF LateAccept, Held, Current
  <2>15. CASE Tick
    BY <2>3, <2>15 DEF Tick, Held, Current
  <2> QED
    BY <2>1, <2>2, <2>4, <2>5, <2>6, <2>7, <2>8, <2>9, <2>10, <2>11, <2>12, <2>13,
       <2>14, <2>15 DEF Next, Handlers, Work
<1> QED
  BY OutboxInvariant, <1>1, <1>2, PTL DEF Spec

\* The worker implements the abstract queue: the life cycle of a request is
\* queued -> retrying -> delivered | failed | undeliverable, terminal
\* statuses are final, and delivered is only said of an accepted request.
THEOREM OutboxImplementsQueue == Spec => ImplementsQueue
<1>1. Init => Intro!Init
  BY DEF Init, Intro!Init
<1>2. IInv /\ [Next]_vars => [Intro!Next]_(Intro!vars)
  <2> SUFFICES ASSUME IInv, [Next]_vars PROVE Intro!Next \/ UNCHANGED Intro!vars
    OBVIOUS
  <2> USE DEF rowVars, procVars, workerVars, netVars, Intro!vars
  <2>1. ASSUME NEW r \in Requests, NEW n \in Nodes, InsertIntroductionRequest(r, n)
        PROVE  Intro!Enqueue(r)
    BY <2>1 DEF InsertIntroductionRequest, Intro!Enqueue, Intro!Move
  <2>2. ASSUME NEW r \in Requests, LateAccept(r)
        PROVE  Intro!Accept(r)
    BY <2>2 DEF LateAccept, Intro!Accept, IInv, LedgerInv
  <2>3. CASE PostAccepted
    <3>1. cur \in Requests /\ status[cur] # "absent"
      BY <2>3 DEF PostAccepted, Returned, IInv, ControlInv, TypeOK, WorkerType,
         HeldRowsAreCurrent, Held, Current, Pending
    <3>2. Intro!Accept(cur)
      BY <2>3, <3>1 DEF PostAccepted, Returned, Intro!Accept
    <3> QED
      BY <3>1, <3>2 DEF Intro!Next
  <2>4. CASE FinishOne
    <3>1. cur \in Requests /\ status[cur] \in Intro!Pending /\ UNCHANGED inbox
      BY <2>4, FinishOneEffect DEF FinishOne, ProcessedOne, Pending, Intro!Pending
    <3>2. attempts = [attempts EXCEPT ![cur] = attempts[cur]]
      BY <3>1 DEF IInv, TypeOK, RowsType
    <3>3. PICK st \in {"retrying"} \cup Terminal, a \in 0..MaxAttempts, d \in Nat :
            /\ status' = [status EXCEPT ![cur] = st]
            /\ attempts' = [attempts EXCEPT ![cur] = a]
            /\ \/ st = "delivered" /\ a = attempts[cur] /\ cur \in inbox
               \/ st = "failed" /\ a = attempts[cur] + 1 /\ a = MaxAttempts
               \/ st = "retrying" /\ a = attempts[cur] + 1 /\ a < MaxAttempts
               \/ st = "undeliverable" /\ a = attempts[cur]
      BY <2>4, FinishOneEffect
    <3>4. Intro!Deliver(cur) \/ Intro!Fail(cur) \/ Intro!Retry(cur) \/ Intro!GiveUp(cur)
      BY <3>1, <3>2, <3>3
         DEF Intro!Deliver, Intro!Fail, Intro!Retry, Intro!GiveUp, Intro!Move
    <3> QED
      BY <3>1, <3>4 DEF Intro!Next
  <2>5. CASE \/ UNCHANGED vars
             \/ \E n \in Nodes : Approve(n) \/ RevokeNode(n)
             \/ \E r \in Requests : NudgeWorker(r)
             \/ Poll \/ TakeWake \/ StopRun \/ LoadBatch \/ EndDrain \/ StartOne
             \/ PostRefused \/ PostTimeout
             \/ MarkError \/ QueryError \/ Signal \/ Exit \/ Crash \/ Restart \/ Tick
    BY <2>5 DEF vars, Approve, RevokeNode, NudgeWorker, Poll, TakeWake, StopRun, LoadBatch,
       EndDrain, StartOne, PostRefused, PostTimeout, Returned, MarkError, ProcessedOne,
       QueryError, Signal, Exit, Crash, Die, Restart, Tick
  <2> QED
    BY <2>1, <2>2, <2>3, <2>4, <2>5 DEF Next, Handlers, Work, Intro!Next
<1> QED
  BY OutboxInvariant, <1>1, <1>2, PTL DEF Spec, ImplementsQueue, Intro!Spec

-----------------------------------------------------------------------------
(* What the abstract queue guarantees holds of the worker.                 *)

\* In the abstract queue a status column of the right type stays so, and what
\* it reports is true.
LEMMA QueueReports ==
  Intro!Spec => [](/\ status \in [Requests -> {"absent"} \cup Pending \cup Terminal]
                   /\ attempts \in [Requests -> Nat]
                   /\ Intro!ReportsAreTrue)
<1> DEFINE Inv == /\ status \in [Requests -> {"absent"} \cup Pending \cup Terminal]
                  /\ attempts \in [Requests -> Nat]
                  /\ Intro!ReportsAreTrue
<1> USE DEF Intro!ReportsAreTrue
<1>1. Intro!Init => Inv
  BY DEF Intro!Init
<1>2. Inv /\ [Intro!Next]_(Intro!vars) => Inv'
  <2> SUFFICES ASSUME Inv, [Intro!Next]_(Intro!vars) PROVE Inv'
    OBVIOUS
  <2>1. CASE UNCHANGED Intro!vars
    BY <2>1 DEF Intro!vars
  <2>2. ASSUME NEW r \in Requests, Intro!Enqueue(r) \/ Intro!GiveUp(r) PROVE Inv'
    BY <2>2 DEF Intro!Enqueue, Intro!GiveUp, Intro!Move, Intro!Pending, Pending, Terminal
  <2>3. ASSUME NEW r \in Requests, Intro!Retry(r) PROVE Inv'
    BY <2>3 DEF Intro!Retry, Intro!Move, Intro!Pending, Pending, Terminal
  <2>4. ASSUME NEW r \in Requests, Intro!Fail(r) PROVE Inv'
    BY <2>4 DEF Intro!Fail, Intro!Move, Intro!Pending, Pending, Terminal
  <2>5. ASSUME NEW r \in Requests, Intro!Accept(r) PROVE Inv'
    BY <2>5 DEF Intro!Accept
  <2>6. ASSUME NEW r \in Requests, Intro!Deliver(r) PROVE Inv'
    BY <2>6 DEF Intro!Deliver, Intro!Move, Intro!Pending, Pending, Terminal
  <2> QED
    BY <2>1, <2>2, <2>3, <2>4, <2>5, <2>6 DEF Intro!Next
<1> QED
  BY <1>1, <1>2, PTL DEF Intro!Spec

\* Whatever the worker, its crashes and late answers do, a request reported
\* delivered was accepted by an inbox and one reported failed was tried
\* MaxAttempts times.
THEOREM ReportsTrue == Spec => []Intro!ReportsAreTrue
<1>1. Intro!Spec => []Intro!ReportsAreTrue
  BY QueueReports, PTL
<1> QED
  BY <1>1, OutboxImplementsQueue, PTL DEF ImplementsQueue

\* A terminal status is final in the table, although the WHERE of
\* MarkIntroUndeliverable would let a delivered row be overwritten.
THEOREM ReportsFinal == Spec => Intro!ReportsAreFinal
<1> DEFINE Final == \A r \in Requests :
                       /\ status[r] \in {"delivered", "failed", "undeliverable"} =>
                             status'[r] = status[r]
                       /\ attempts'[r] >= attempts[r]
           Typed == /\ status \in [Requests -> {"absent"} \cup Pending \cup Terminal]
                    /\ attempts \in [Requests -> Nat]
<1>1. Typed /\ [Intro!Next]_(Intro!vars) => Final \/ UNCHANGED Intro!vars
  <2> SUFFICES ASSUME Typed, NEW r \in Requests,
                      \/ Intro!Enqueue(r) \/ Intro!Retry(r) \/ Intro!Fail(r)
                      \/ Intro!Accept(r) \/ Intro!Deliver(r) \/ Intro!GiveUp(r)
               PROVE  Final
    BY DEF Intro!Next
  <2>1. CASE Intro!Retry(r) \/ Intro!Fail(r)
    BY <2>1 DEF Intro!Retry, Intro!Fail, Intro!Move, Intro!Pending
  <2>2. CASE Intro!Enqueue(r) \/ Intro!Deliver(r) \/ Intro!GiveUp(r) \/ Intro!Accept(r)
    BY <2>2 DEF Intro!Enqueue, Intro!Deliver, Intro!GiveUp, Intro!Accept, Intro!Move,
                Intro!Pending
  <2> QED
    BY <2>1, <2>2
<1>2. Intro!Spec => []Typed
  BY QueueReports, PTL
<1>3. Intro!Spec => Intro!ReportsAreFinal
  BY <1>1, <1>2, PTL DEF Intro!Spec, Intro!ReportsAreFinal
<1> QED
  BY <1>3, OutboxImplementsQueue, PTL DEF ImplementsQueue

-----------------------------------------------------------------------------
(* Introductions to an owner whose endpoints are all malformed.            *)

\* No such row is ever sent.
LEMMA DoomedIsNotSent ==
  ASSUME NEW r \in Requests, Doomed(r), NEW t \in Nodes \cup {NoNode},
         ResolveDeliveryTarget(publisher[r], t)
  PROVE  t = NoNode \/ Endpoint[t] = "malformed"
BY DEF Doomed, OnlyMalformed, ResolveDeliveryTarget, Targets

\* Every step preserves MalformedInv.
LEMMA MalformedStep ==
  ASSUME IInv, MalformedInv, [Next]_vars
  PROVE  MalformedInv'
<1> DEFINE Safe(r) == /\ publisher[r] = NoNode => status[r] = "absent"
                      /\ status[r] = "absent" => posts[r] = 0
                      /\ Doomed(r) => /\ NeverCounted(r) /\ r \notin late
                                      /\ r = cur => pc = "mark" /\ outcome = "undeliverable"
<1> SUFFICES ASSUME NEW r \in Requests PROVE Safe(r)'
  BY DEF MalformedInv
<1>0. Safe(r)
  BY DEF MalformedInv
<1>t. /\ status \in [Requests -> {"absent"} \cup Pending \cup Terminal]
      /\ publisher \in [Requests -> Nodes \cup {NoNode}]
      /\ posts \in [Requests -> Nat]
  BY DEF IInv, TypeOK, RowsType
<1> USE DEF rowVars, procVars, workerVars, netVars, Doomed, NeverCounted
<1>1. CASE UNCHANGED <<status, attempts, publisher, posts, inbox, late, cur, pc, outcome>>
  BY <1>0, <1>1
<1>2. ASSUME NEW q \in Requests, NEW n \in Nodes, InsertIntroductionRequest(q, n)
      PROVE  Safe(r)'
  <2>1. n # NoNode
    BY DEF NoNode
  <2>2. CASE q # r
    BY <1>0, <1>2, <1>t, <2>2 DEF InsertIntroductionRequest
  <2>3. CASE q = r
    <3>1. /\ status[r] = "absent" /\ posts[r] = 0 /\ attempts[r] = 0
          /\ r \notin late \cup inbox
      BY <1>0, <1>2, <2>3 DEF InsertIntroductionRequest, IInv, LedgerInv
    <3>2. r # cur
      BY <3>1 DEF IInv, HeldRowsAreCurrent, Held, Current, Pending, NoRow, Requests
    <3> QED
      BY <1>2, <1>t, <2>1, <2>3, <3>1, <3>2 DEF InsertIntroductionRequest
  <2> QED
    BY <2>2, <2>3
<1>3. CASE Poll \/ TakeWake \/ StopRun \/ LoadBatch \/ EndDrain \/ QueryError
  <2>1. /\ UNCHANGED <<status, attempts, publisher, posts, inbox, late, cur, outcome>>
        /\ pc # "mark"
    BY <1>3 DEF Poll, TakeWake, StopRun, LoadBatch, EndDrain, QueryError
  <2> QED
    BY <1>0, <2>1
<1>4. CASE StartOne
  <2>1. UNCHANGED <<status, attempts, publisher, inbox, late>> /\ pc = "loop"
    BY <1>4 DEF StartOne
  <2>2. PICK q \in batch, t \in Nodes \cup {NoNode} :
           /\ ResolveDeliveryTarget(publisher[q], t)
           /\ \/ t = NoNode /\ pc' = "mark" /\ cur' = q /\ outcome' = "undeliverable"
                 /\ UNCHANGED posts
              \/ t # NoNode /\ Endpoint[t] = "malformed" /\ UNCHANGED <<pc, cur, outcome, posts>>
              \/ /\ t # NoNode /\ Endpoint[t] # "malformed" /\ cur' = q
                 /\ posts' = [posts EXCEPT ![q] = @ + 1]
    BY <1>4 DEF StartOne
  <2>3. q \in Requests /\ status[q] # "absent"
    BY DEF IInv, TypeOK, WorkerType, HeldRowsAreCurrent, Held, Pending
  <2>4. Doomed(q) => t = NoNode \/ Endpoint[t] = "malformed"
    BY <2>2, <2>3, DoomedIsNotSent
  <2>5. CASE q # r
    BY <1>0, <1>t, <2>1, <2>2, <2>3, <2>5
  <2>6. CASE q = r
    BY <1>0, <1>t, <2>1, <2>2, <2>3, <2>4, <2>6
  <2> QED
    BY <2>5, <2>6
<1>5. CASE PostAccepted \/ PostRefused \/ PostTimeout
  <2>1. /\ pc = "wait" /\ UNCHANGED <<status, attempts, publisher, posts, cur>>
        /\ late' \subseteq late \cup {cur} /\ inbox' \subseteq inbox \cup {cur}
    BY <1>5 DEF PostAccepted, PostRefused, PostTimeout, Returned
  <2>2. Doomed(r) => r # cur
    BY <1>0, <2>1
  <2> QED
    BY <1>0, <2>1, <2>2
<1>6. CASE FinishOne
  <2>1. /\ cur \in Requests /\ cur' = NoRow /\ status[cur] # "absent"
        /\ UNCHANGED <<publisher, posts, inbox, late>>
    BY <1>6, FinishOneEffect DEF FinishOne, ProcessedOne, Pending
  <2>2. PICK st \in {"retrying"} \cup Terminal, a \in 0..MaxAttempts, d \in Nat :
           /\ status' = [status EXCEPT ![cur] = st]
           /\ attempts' = [attempts EXCEPT ![cur] = a]
           /\ outcome = "undeliverable" => st = "undeliverable" /\ a = attempts[cur]
    BY <1>6, FinishOneEffect
  <2>3. st # "absent" /\ r # NoRow
    BY <2>2 DEF Terminal, Requests, NoRow
  <2>4. attempts \in [Requests -> 0..MaxAttempts]
    BY DEF IInv, TypeOK, RowsType
  <2>5. CASE cur # r
    BY <1>0, <1>t, <2>1, <2>2, <2>3, <2>4, <2>5
  <2>6. CASE cur = r
    BY <1>0, <1>t, <2>1, <2>2, <2>3, <2>4, <2>6
  <2> QED
    BY <2>5, <2>6
<1>7. ASSUME NEW q \in Requests, LateAccept(q) PROVE Safe(r)'
  BY <1>0, <1>7 DEF LateAccept
<1>8. CASE MarkError
  <2>1. r # NoRow
    BY DEF Requests, NoRow
  <2> QED
    BY <1>0, <1>8, <2>1 DEF MarkError, ProcessedOne
<1>9. CASE Exit \/ Crash
  <2>1. /\ UNCHANGED <<status, attempts, publisher, posts, inbox>> /\ cur' = NoRow
        /\ late' = late \cup (IF pc = "wait" THEN {cur} ELSE {})
    BY <1>9 DEF Exit, Crash, Die
  <2>2. r # NoRow
    BY DEF Requests, NoRow
  <2> QED
    BY <1>0, <2>1, <2>2
<1>10. CASE Restart
  <2>1. /\ UNCHANGED <<status, attempts, publisher, posts, inbox, late, cur, outcome>>
        /\ pc = "gone"
    BY <1>10 DEF Restart, IInv, ControlInv
  <2> QED
    BY <1>0, <2>1
<1> QED
  BY <1>1, <1>2, <1>3, <1>4, <1>5, <1>6, <1>7, <1>8, <1>9, <1>10
     DEF Next, Handlers, Work, vars, Approve, RevokeNode, NudgeWorker, Signal, Tick

\* An introduction to an owner whose only endpoints are malformed is never
\* sent and never counted, whatever faults and revocations happen: this is
\* why the run outbox_malformed finds it queued for ever.
THEOREM MalformedCause == Spec => []MalformedIsNeverCounted
<1>1. Init => MalformedInv
  BY DEF Init, MalformedInv, Doomed, NoNode
<1>2. Spec => []MalformedInv
  BY <1>1, MalformedStep, OutboxInvariant, PTL DEF Spec
<1>3. MalformedInv => MalformedIsNeverCounted
  BY DEF MalformedInv, MalformedIsNeverCounted
<1> QED
  BY <1>2, <1>3, PTL
=============================================================================
