----------------------------- MODULE IntroQueue -----------------------------
(***************************************************************************)
(* What the introduction queue promises to its users, without the worker,  *)
(* the polling, the wake channel or the crashes: a request is accepted     *)
(* once, fails at most MaxAttempts times, and ends in exactly one of       *)
(* delivered, failed and undeliverable, where it stays for good.           *)
(* Delivered is only ever reported of a request some inbox has accepted.   *)
(* Outbox.tla is shown to implement this specification.                    *)
(***************************************************************************)
EXTENDS Naturals

CONSTANTS Requests,     \* ids of introduction requests
          MaxAttempts   \* failed attempts after which a request is given up

VARIABLES status,       \* the status column of introduction_requests
          attempts,     \* the attempts column
          inbox         \* requests an inbox has accepted (answered 2xx for)

vars == <<status, attempts, inbox>>

Pending == {"queued", "retrying"}

Init ==
    /\ status = [r \in Requests |-> "absent"]
    /\ attempts = [r \in Requests |-> 0]
    /\ inbox = {}

Move(r, from, to) ==
    /\ status[r] \in from
    /\ status' = [status EXCEPT ![r] = to]

Enqueue(r) == Move(r, {"absent"}, "queued") /\ UNCHANGED <<attempts, inbox>>

Retry(r) ==
    /\ attempts[r] + 1 < MaxAttempts
    /\ Move(r, Pending, "retrying")
    /\ attempts' = [attempts EXCEPT ![r] = @ + 1]
    /\ UNCHANGED inbox

Fail(r) ==
    /\ attempts[r] + 1 = MaxAttempts
    /\ Move(r, Pending, "failed")
    /\ attempts' = [attempts EXCEPT ![r] = @ + 1]
    /\ UNCHANGED inbox

\* An inbox may accept a request at any time after it was enqueued, even
\* after the queue has given the request up: a POST can outlive its timeout.
Accept(r) ==
    /\ status[r] # "absent"
    /\ inbox' = inbox \cup {r}
    /\ UNCHANGED <<status, attempts>>

Deliver(r) ==
    /\ r \in inbox
    /\ Move(r, Pending, "delivered")
    /\ UNCHANGED <<attempts, inbox>>

GiveUp(r) == Move(r, Pending, "undeliverable") /\ UNCHANGED <<attempts, inbox>>

Next == \E r \in Requests : \/ Enqueue(r) \/ Retry(r) \/ Fail(r)
                            \/ Accept(r) \/ Deliver(r) \/ GiveUp(r)

Spec == Init /\ [][Next]_vars

-----------------------------------------------------------------------------
(* What follows for whoever reads the status column.                       *)

\* A request reported delivered has been accepted by an inbox, and one
\* reported failed has used up its attempts.
ReportsAreTrue ==
    \A r \in Requests : /\ status[r] = "delivered" => r \in inbox
                        /\ status[r] = "failed" => attempts[r] = MaxAttempts

\* A terminal status is never taken back, and attempts never go down.
ReportsAreFinal ==
    [][\A r \in Requests :
          /\ status[r] \in {"delivered", "failed", "undeliverable"} => status'[r] = status[r]
          /\ attempts'[r] >= attempts[r]]_vars
=============================================================================
