------------------------------- MODULE Quota -------------------------------
(***************************************************************************)
(* What a rate limiter promises to its callers, without windows, counters, *)
(* locks or the reaper.  An admitted call weighs on its key for one window *)
(* length.  A call is admitted only while fewer than twice the limit weigh *)
(* on the key (one limit more for every restart of the process), and       *)
(* refused only while at least the limit does.  RateLimiter.tla, and       *)
(* AdminAuth.tla around it, are shown to implement this specification.     *)
(***************************************************************************)
EXTENDS Integers, FiniteSets

CONSTANTS Keys, Calls,
          Limit,     \* of each key
          Window     \* window length, in ticks

VARIABLES weight,    \* ticks that call c still weighs on key k; -1 if not at all
          answer,    \* what call c was told for key k
          restarts   \* of the process, so far

vars == <<weight, answer, restarts>>

Init ==
    /\ weight = [k \in Keys |-> [c \in Calls |-> -1]]
    /\ answer = [k \in Keys |-> [c \in Calls |-> "none"]]
    /\ restarts = 0

Weighing(k) == {c \in Calls : weight[k][c] >= 0}

Answer(c, k, said) ==
    /\ answer[k][c] = "none"
    /\ answer' = [answer EXCEPT ![k][c] = said]

Admit(c, k) ==
    /\ Cardinality(Weighing(k)) < (2 + restarts) * Limit[k]
    /\ Answer(c, k, "admitted")
    /\ weight' = [weight EXCEPT ![k][c] = Window]
    /\ UNCHANGED restarts

Refuse(c, k) ==
    /\ Cardinality(Weighing(k)) >= Limit[k]
    /\ Answer(c, k, "refused")
    /\ UNCHANGED <<weight, restarts>>

Pass ==
    /\ weight' = [k \in Keys |-> [c \in Calls |->
                    IF weight[k][c] >= 0 THEN weight[k][c] - 1 ELSE -1]]
    /\ UNCHANGED <<answer, restarts>>

Restart == restarts' = restarts + 1 /\ UNCHANGED <<weight, answer>>

Next == (\E c \in Calls, k \in Keys : Admit(c, k) \/ Refuse(c, k)) \/ Pass \/ Restart

Spec == Init /\ [][Next]_vars
=============================================================================
