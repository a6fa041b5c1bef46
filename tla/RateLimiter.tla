---------------------------- MODULE RateLimiter ----------------------------
(***************************************************************************)
(* The fixed-window rate limiter of internal/httpapi/middleware/           *)
(* ratelimit.go: one map of entries behind a mutex, which request handlers *)
(* ask (Allow) and a goroutine cleans every five minutes (reapLoop).  Both *)
(* hold the mutex throughout, so each is one step.  It is a component:     *)
(* AdminAuth.tla has the handlers that call it.                            *)
(*                                                                         *)
(* Time.  now.After(resetAt) only needs the time left, so resetAt is kept  *)
(* as the ticks until it, and -1 once now is after it: the clock needs no  *)
(* bound.  The entry is in force at resetAt itself.                        *)
(***************************************************************************)
EXTENDS Integers, FiniteSets

CONSTANTS
    Keys,         \* of the map: a prefix and a client address or an e-mail
    Calls,        \* calls of Allow, by the request that makes them
    Limit,        \* maxReqs that the handlers pass for a key
    Window,       \* the duration they pass, in ticks
    MaxRestarts   \* bound: restarts of the process

ASSUME RateLimiterAssumption ==
    /\ IsFiniteSet(Calls)
    /\ Limit \in [Keys -> Nat \ {0}]
    /\ Window \in Nat
    /\ MaxRestarts \in Nat

VARIABLES
    held,      \* keys with an entry in the map
    count,     \* its count
    resetIn,   \* its resetAt
    \* auxiliary
    weight,    \* ticks for which an admitted call still lies within a window
               \* length of now; -1 if it does not, or was never admitted
    answer,    \* what Allow told a call
    restarts

entries     == <<held, count, resetIn>>
limiterVars == <<entries, weight, answer, restarts>>

Forgotten == /\ held' = {}
             /\ count' = [k \in Keys |-> 0]
             /\ resetIn' = [k \in Keys |-> -1]

LimiterInit ==
    /\ held = {}
    /\ count = [k \in Keys |-> 0]
    /\ resetIn = [k \in Keys |-> -1]
    /\ weight = [k \in Keys |-> [c \in Calls |-> -1]]
    /\ answer = [k \in Keys |-> [c \in Calls |-> "none"]]
    /\ restarts = 0

-----------------------------------------------------------------------------
\* Slip: an entry is over only when the reaper has removed it.
InForce_Held(k) == k \in held

\* ok and not now.After(e.resetAt).
InForce(k) == k \in held /\ resetIn[k] >= 0

Open(k) ==
    /\ held' = held \cup {k}
    /\ count' = [count EXCEPT ![k] = 1]
    /\ resetIn' = [resetIn EXCEPT ![k] = Window]

Allow(c, k, said) ==
    /\ answer[k][c] = "none"
    /\ answer' = [answer EXCEPT ![k][c] = said]
    /\ \/ /\ said = "admitted" /\ ~InForce(k)
          /\ Open(k)
          /\ weight' = [weight EXCEPT ![k][c] = Window]
       \/ /\ said = "refused" /\ InForce(k) /\ count[k] >= Limit[k]
          /\ UNCHANGED <<entries, weight>>
       \/ /\ said = "admitted" /\ InForce(k) /\ count[k] < Limit[k]
          /\ count' = [count EXCEPT ![k] = @ + 1]
          /\ weight' = [weight EXCEPT ![k][c] = Window]
          /\ UNCHANGED <<held, resetIn>>
    /\ UNCHANGED restarts

\* Slip: the reaper empties the map.
ReapEntries_All ==
    /\ held # {}
    /\ held' = {}
    /\ UNCHANGED <<count, resetIn, weight, answer, restarts>>

\* One tick of reapLoop.
ReapEntries ==
    /\ \E k \in held : ~InForce(k)
    /\ held' = {k \in held : InForce(k)}
    /\ UNCHANGED <<count, resetIn, weight, answer, restarts>>

\* Time passes.
Tick ==
    /\ \E k \in Keys : resetIn[k] >= 0 \/ \E c \in Calls : weight[k][c] >= 0
    /\ resetIn' = [k \in Keys |-> IF resetIn[k] >= 0 THEN resetIn[k] - 1 ELSE -1]
    /\ weight' = [k \in Keys |-> [c \in Calls |->
                     IF weight[k][c] >= 0 THEN weight[k][c] - 1 ELSE -1]]
    /\ UNCHANGED <<held, count, answer, restarts>>

\* The process dies and is started again: NewRateLimiter makes an empty map.
LimiterRestart ==
    /\ restarts < MaxRestarts
    /\ restarts' = restarts + 1
    /\ Forgotten
    /\ UNCHANGED <<weight, answer>>

LimiterNext ==
    \/ \E c \in Calls, k \in Keys, said \in {"admitted", "refused"} : Allow(c, k, said)
    \/ ReapEntries \/ Tick \/ LimiterRestart

LimiterSpec == LimiterInit /\ [][LimiterNext]_limiterVars

-----------------------------------------------------------------------------
(* Properties.                                                             *)

LimiterTypeOK ==
    /\ held \subseteq Keys
    /\ count \in [Keys -> Nat]
    /\ resetIn \in [Keys -> -1..Window]
    /\ weight \in [Keys -> [Calls -> -1..Window]]
    /\ answer \in [Keys -> [Calls -> {"none", "admitted", "refused"}]]
    /\ restarts \in 0..MaxRestarts

\* Calls admitted within the last window length.
Recent(k) == {c \in Calls : weight[k][c] >= 0}

\* Over any stretch of time as long as a window, aligned with the limiter's
\* own windows or not, Allow admits at most twice the limit of a key, and
\* one limit more for every restart that emptied the map.
AdmissionsBounded ==
    \A k \in Keys : Cardinality(Recent(k)) <= (2 + restarts) * Limit[k]

Promise == INSTANCE Quota WITH
    Keys <- Keys, Calls <- Calls, Limit <- Limit, Window <- Window,
    weight <- weight, answer <- answer, restarts <- restarts

\* Callers cannot tell the limiter from Quota: windows and reaper stay
\* hidden, nobody is admitted beyond the promised bound, and nobody is
\* refused while fewer than the limit were admitted within a window length.
ImplementsQuota == Promise!Spec

-----------------------------------------------------------------------------
(* The inductive invariant; see AdminAuthProofs.                           *)

\* Admitted since the tick in which the window in force was opened, and
\* after that tick.
Counted(k) == {c \in Calls : weight[k][c] >= resetIn[k]}
Later(k)   == {c \in Calls : weight[k][c] > resetIn[k]}

\* An entry counts the calls admitted in its window (a restart may have let
\* in others in the tick of its opening), and the windows before it have
\* left at most one limit, and one for each restart, within reach.
WindowsInv ==
    \A k \in Keys :
        /\ InForce(k) =>
              /\ Cardinality(Later(k)) <= count[k] /\ count[k] <= Cardinality(Counted(k))
              /\ count[k] <= Limit[k]
              /\ Cardinality(Recent(k)) <= count[k] + (1 + restarts) * Limit[k]
        /\ ~InForce(k) => Cardinality(Recent(k)) <= (1 + restarts) * Limit[k]
        /\ \A c \in Calls : answer[k][c] = "none" => weight[k][c] = -1
=============================================================================
