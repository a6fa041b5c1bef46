-------------------------- MODULE AdminAuthProofs --------------------------
(***************************************************************************)
(* Proofs, for any number of requests, addresses and restarts, of the      *)
(* safety properties of the operator's sign-in, and that the handlers use  *)
(* the limiter as RateLimiter specifies it.                                *)
(***************************************************************************)
EXTENDS AdminAuth, RateLimiterProofs

USE AdminAuthAssumption DEF AdminAuthAssumption, Requests

\* The program starts in a state of the inductive invariant.
LEMMA InitIInv == Init => IInv
<1> SUFFICES ASSUME Init PROVE IInv
  OBVIOUS
<1>1. TypeOK /\ WindowsInv
  BY LimiterInitIInv DEF Init, TypeOK, LimiterIInv, Steps, Kinds
<1>2. LinksInv /\ SessionsInv /\ RequestsInv
  BY DEF Init, LinksInv, SessionsInv, RequestsInv, Accepted, Entered
<1>3. OneSessionPerLink /\ SessionsAreKept
  BY DEF Init, OneSessionPerLink, SessionsAreKept, Accepted
<1> QED
  BY <1>1, <1>2, <1>3 DEF IInv

\* Every step is a step of the limiter or leaves it alone.
LEMMA StepIsLimiterStep ==
  ASSUME IInv, [Next]_vars
  PROVE  [LimiterNext]_limiterVars
<1>1. ASSUME NEW h \in Requests, NEW k \in AdminKeys, NEW matched \in BOOLEAN,
             LoginSubmit(h, k, matched)
      PROVE  LimiterNext
  BY <1>1 DEF LoginSubmit, LimiterNext
<1>2. ASSUME NEW h \in Requests, NEW i \in IpKeys, NEW e \in EmailKeys,
             RequestMagicLink(h, i, e)
      PROVE  LimiterNext
  BY <1>2 DEF RequestMagicLink, LimiterNext
<1>3. ASSUME NEW h \in Requests, AllowEmail(h) PROVE LimiterNext
  <2>1. key[h] \in Keys
    BY <1>3 DEF AllowEmail, IInv, RequestsInv
  <2> QED
    BY <1>3, <2>1 DEF AllowEmail, LimiterNext
<1>4. ASSUME NEW h \in Requests,
             \/ \E l \in Known : Callback(h, l)
             \/ \E s \in Known, k \in {"action", "logout"} : RequireAdmin(h, s, k)
             \/ SendLink(h) \/ NewToken(h) \/ Act(h) \/ Logout(h)
             \/ LinkLapses(h) \/ SessionLapses(h) \/ ReapLinks \/ ReapSessions
      PROVE  UNCHANGED limiterVars
  BY <1>4 DEF Callback, RequireAdmin, SendLink, NewToken, Act, Logout, LinkLapses,
              SessionLapses, ReapLinks, ReapSessions
<1>5. CASE ReapLinks \/ ReapSessions
  BY <1>5 DEF ReapLinks, ReapSessions
<1>6. CASE Restart
  BY <1>6 DEF Restart, LimiterNext
<1>7. CASE ReapEntries \/ Tick
  BY <1>7 DEF LimiterNext
<1>8. CASE UNCHANGED vars
  BY <1>8 DEF vars
<1> QED
  BY <1>1, <1>2, <1>3, <1>4, <1>5, <1>6, <1>7, <1>8 DEF Next, Step

\* The limiter's own invariant is preserved, and what it has answered stands.
LEMMA LimiterKept ==
  ASSUME IInv, [Next]_vars
  PROVE  /\ LimiterTypeOK' /\ WindowsInv'
         /\ \A l \in Requests : Admitted(l) => Admitted(l)'
<1>1. [LimiterNext]_limiterVars
  BY StepIsLimiterStep
<1>2. LimiterIInv
  BY DEF IInv, TypeOK, LimiterIInv
<1>3. LimiterTypeOK' /\ WindowsInv'
  BY <1>1, <1>2, LimiterStep DEF LimiterIInv
<1>4. ASSUME NEW l \in Calls, NEW k \in AdminKeys, answer[k][l] = "admitted"
      PROVE  answer'[k][l] = "admitted"
  <2>1. ASSUME NEW c \in Calls, NEW j \in Keys, NEW said \in {"admitted", "refused"},
               Allow(c, j, said)
        PROVE  answer'[k][l] = "admitted"
    <3>1. answer[j][c] = "none" /\ answer' = [answer EXCEPT ![j][c] = said]
      BY <2>1 DEF Allow
    <3>2. answer \in [Keys -> [Calls -> {"none", "admitted", "refused"}]] /\ k \in Keys
      BY <1>2 DEF LimiterIInv, LimiterTypeOK
    <3>3. ~(j = k /\ c = l)
      BY <1>4, <3>1
    <3> QED
      BY <1>4, <3>1, <3>2, <3>3
  <2>2. CASE UNCHANGED answer
    BY <1>4, <2>2
  <2> QED
    BY <1>1, <2>1, <2>2 DEF LimiterNext, limiterVars, ReapEntries, Tick, LimiterRestart
<1> QED
  BY <1>3, <1>4 DEF Admitted

\* The requests behind the limiter preserve the inductive invariant.
LEMMA LimitedIInv ==
  ASSUME IInv, [Next]_vars, NEW h \in Requests,
         \/ \E k \in AdminKeys, matched \in BOOLEAN : LoginSubmit(h, k, matched)
         \/ \E i \in IpKeys, e \in EmailKeys : RequestMagicLink(h, i, e)
         \/ AllowEmail(h)
  PROVE  IInv'
<1> USE DEF IInv, adminVars
<1>l. /\ LimiterTypeOK' /\ WindowsInv'
      /\ \A l \in Requests : Admitted(l) => Admitted(l)'
  BY LimiterKept
<1>1. ASSUME NEW k \in AdminKeys, NEW matched \in BOOLEAN, LoginSubmit(h, k, matched)
      PROVE  IInv'
  <2> USE <1>1 DEF LoginSubmit, Begin
  <2>1. TypeOK'
    BY <1>l DEF TypeOK, Steps, Kinds
  <2>2. pc'[h] = "mail" => Admitted(h)'
    BY DEF Allow, Admitted, TypeOK, LimiterTypeOK
  <2>3. LinksInv'
    BY <1>l, <2>2 DEF LinksInv, TypeOK
  <2>4. SessionsInv' /\ RequestsInv' /\ OneSessionPerLink' /\ SessionsAreKept'
    BY DEF SessionsInv, RequestsInv, OneSessionPerLink, SessionsAreKept, Accepted, Entered, TypeOK
  <2> QED
    BY <1>l, <2>1, <2>3, <2>4
<1>2. ASSUME NEW i \in IpKeys, NEW e \in EmailKeys, RequestMagicLink(h, i, e)
      PROVE  IInv'
  <2> USE <1>2 DEF RequestMagicLink, Begin
  <2>1. TypeOK'
    BY <1>l DEF TypeOK, Steps, Kinds
  <2>2. LinksInv'
    BY <1>l DEF LinksInv, TypeOK
  <2>3. SessionsInv' /\ RequestsInv' /\ OneSessionPerLink' /\ SessionsAreKept'
    BY DEF SessionsInv, RequestsInv, OneSessionPerLink, SessionsAreKept, Accepted, Entered, TypeOK
  <2> QED
    BY <1>l, <2>1, <2>2, <2>3
<1>3. ASSUME AllowEmail(h) PROVE IInv'
  <2> USE <1>3 DEF AllowEmail, Goto
  <2>1. TypeOK'
    BY <1>l DEF TypeOK, Steps, Kinds
  <2>2. LinksInv'
    BY <1>l DEF LinksInv, TypeOK
  <2>3. SessionsInv' /\ RequestsInv' /\ OneSessionPerLink' /\ SessionsAreKept'
    BY DEF SessionsInv, RequestsInv, OneSessionPerLink, SessionsAreKept, Accepted, Entered, TypeOK
  <2> QED
    BY <1>l, <2>1, <2>2, <2>3
<1> QED
  BY <1>1, <1>2, <1>3

\* Sending a link and exchanging it for a session preserve the inductive
\* invariant.
LEMMA LinksIInv ==
  ASSUME IInv, [Next]_vars, NEW h \in Requests,
         SendLink(h) \/ NewToken(h) \/ \E l \in Known : Callback(h, l)
  PROVE  IInv'
<1> USE DEF IInv
<1>l. /\ LimiterTypeOK' /\ WindowsInv'
      /\ \A l \in Requests : Admitted(l) => Admitted(l)'
  BY LimiterKept
<1>1. CASE SendLink(h)
  <2> USE <1>1 DEF SendLink, Goto
  <2>1. TypeOK'
    BY <1>l DEF TypeOK, Steps, Kinds
  <2>2. LinksInv'
    BY <1>l DEF LinksInv, TypeOK
  <2>3. SessionsInv'
    BY DEF SessionsInv, LinksInv, Accepted, TypeOK
  <2>4. RequestsInv' /\ OneSessionPerLink' /\ SessionsAreKept'
    BY DEF LinksInv, RequestsInv, OneSessionPerLink, SessionsAreKept, Accepted, Entered, TypeOK
  <2> QED
    BY <1>l, <2>1, <2>2, <2>3, <2>4
<1>2. CASE NewToken(h)
  <2> USE <1>2 DEF NewToken, Goto
  <2>1. TypeOK'
    BY <1>l DEF TypeOK, Steps, Kinds
  <2>2. LinksInv'
    BY <1>l DEF LinksInv, SessionsInv, TypeOK
  <2>3. \A g \in Requests : Accepted(g)' => Accepted(g)
    BY DEF Accepted, SessionsInv, TypeOK
  <2>4. SessionsInv'
    BY <2>3 DEF SessionsInv, TypeOK
  <2>5. RequestsInv' /\ OneSessionPerLink' /\ SessionsAreKept'
    BY <2>3 DEF SessionsInv, RequestsInv, OneSessionPerLink, SessionsAreKept, Entered, TypeOK
  <2> QED
    BY <1>l, <2>1, <2>2, <2>4, <2>5
<1>3. ASSUME NEW l \in Known, Callback(h, l) PROVE IInv'
  <2>0. Consumable(l) => l \in mailed
    BY DEF Known, Consumable, LinksInv, TypeOK
  <2> USE <1>3 DEF Callback, Begin, Consume
  <2>1. TypeOK'
    BY <1>l, <2>0 DEF TypeOK, Steps, Kinds
  <2>2. LinksInv'
    BY <1>l DEF LinksInv, TypeOK
  <2>3. /\ \A g \in Requests \ {h} : /\ Accepted(g)' <=> Accepted(g)
                                     /\ via'[g] = via[g]
        /\ Accepted(h)' => via'[h] = l /\ Consumable(l)
    BY DEF Accepted, SessionsInv, RequestsInv, TypeOK
  <2>4. SessionsInv'
    BY <2>0, <2>3 DEF SessionsInv, RequestsInv, TypeOK
  <2>5. OneSessionPerLink'
    BY <2>3 DEF OneSessionPerLink, SessionsInv, Consumable
  <2>6. RequestsInv' /\ SessionsAreKept'
    BY DEF RequestsInv, SessionsAreKept, Entered, TypeOK
  <2> QED
    BY <1>l, <2>1, <2>2, <2>4, <2>5, <2>6
<1> QED
  BY <1>1, <1>2, <1>3

\* Requests on a session preserve the inductive invariant.
LEMMA EntryIInv ==
  ASSUME IInv, [Next]_vars, NEW h \in Requests,
         \/ \E s \in Known, k \in {"action", "logout"} : RequireAdmin(h, s, k)
         \/ Act(h) \/ Logout(h)
  PROVE  IInv'
<1> USE DEF IInv
<1>l. /\ LimiterTypeOK' /\ WindowsInv'
      /\ \A l \in Requests : Admitted(l) => Admitted(l)'
  BY LimiterKept
<1>1. ASSUME NEW s \in Known, NEW k \in {"action", "logout"}, RequireAdmin(h, s, k)
      PROVE  IInv'
  <2> USE <1>1 DEF RequireAdmin, Begin, Valid
  <2>0. Valid(s) \/ s \notin sessions \/ s \in closed
    BY DEF SessionsInv
  <2>1. TypeOK'
    BY <1>l DEF TypeOK, Steps, Kinds
  <2>2. LinksInv'
    BY <1>l DEF LinksInv, TypeOK
  <2>3. /\ sessions' \cup closed' = sessions \cup closed
        /\ \A g \in Requests : /\ Accepted(g)' <=> Accepted(g)
                               /\ Accepted(g) => via'[g] = via[g]
    <3>1. sessions' \cup closed' = sessions \cup closed
      BY <2>0
    <3> QED
      BY <3>1 DEF Accepted, SessionsInv, RequestsInv, TypeOK
  <2>4. SessionsInv'
    BY <2>3 DEF SessionsInv, RequestsInv, TypeOK
  <2>5. OneSessionPerLink' /\ SessionsAreKept'
    BY <2>3 DEF OneSessionPerLink, SessionsAreKept, TypeOK
  <2>6. RequestsInv'
    BY <2>0, <2>3 DEF RequestsInv, Entered, TypeOK
  <2> QED
    BY <1>l, <2>1, <2>2, <2>4, <2>5, <2>6
<1>2. CASE Act(h)
  <2> USE <1>2 DEF Act, Goto, adminVars
  <2>1. TypeOK'
    BY <1>l DEF TypeOK, Steps, Kinds
  <2>2. LinksInv' /\ RequestsInv' /\ SessionsAreKept'
    BY <1>l DEF LinksInv, RequestsInv, SessionsAreKept, Entered, TypeOK
  <2>3. SessionsInv' /\ OneSessionPerLink'
    BY DEF SessionsInv, OneSessionPerLink, Accepted, TypeOK
  <2> QED
    BY <1>l, <2>1, <2>2, <2>3
<1>3. CASE Logout(h)
  <2> USE <1>3 DEF Logout, Goto
  <2>0. via[h] \in sessions \cup closed
    BY DEF RequestsInv, Entered
  <2>1. TypeOK'
    BY <1>l, <2>0 DEF TypeOK, Steps, Kinds
  <2>2. LinksInv'
    BY <1>l DEF LinksInv, TypeOK
  <2>3. /\ sessions' \cup closed' = sessions \cup closed
        /\ \A g \in Requests : Accepted(g)' <=> Accepted(g)
    <3>1. sessions' \cup closed' = sessions \cup closed
      BY <2>0
    <3> QED
      BY <3>1 DEF Accepted, RequestsInv, TypeOK
  <2>4. SessionsInv'
    BY <2>0, <2>3 DEF SessionsInv, TypeOK
  <2>5. RequestsInv' /\ OneSessionPerLink' /\ SessionsAreKept'
    BY <2>3 DEF RequestsInv, OneSessionPerLink, SessionsAreKept, Entered, TypeOK
  <2> QED
    BY <1>l, <2>1, <2>2, <2>4, <2>5
<1> QED
  BY <1>1, <1>2, <1>3

\* Time, the reapers and a restart preserve the inductive invariant.
LEMMA EnvironmentIInv ==
  ASSUME IInv, [Next]_vars,
         \/ \E h \in Requests : LinkLapses(h) \/ SessionLapses(h)
         \/ (ReapEntries \/ Tick) /\ UNCHANGED <<adminVars, reqVars>>
         \/ ReapLinks \/ ReapSessions \/ Restart \/ UNCHANGED vars
  PROVE  IInv'
<1> USE DEF IInv, adminVars, reqVars
<1>l. /\ LimiterTypeOK' /\ WindowsInv'
      /\ \A l \in Requests : Admitted(l) => Admitted(l)'
  BY LimiterKept
<1>1. ASSUME NEW h \in Requests, SessionLapses(h) PROVE IInv'
  <2> USE <1>1 DEF SessionLapses
  <2>1. TypeOK' /\ LinksInv'
    BY <1>l DEF TypeOK, LinksInv
  <2>2. SessionsInv' /\ RequestsInv'
    BY DEF SessionsInv, RequestsInv, Accepted, Entered, TypeOK
  <2>3. OneSessionPerLink' /\ SessionsAreKept'
    BY DEF OneSessionPerLink, SessionsAreKept, Accepted, TypeOK
  <2> QED
    BY <1>l, <2>1, <2>2, <2>3
<1>2. CASE (\E h \in Requests : LinkLapses(h)) \/ ReapLinks
  <2> USE <1>2 DEF LinkLapses, ReapLinks
  <2>1. TypeOK' /\ LinksInv'
    BY <1>l DEF TypeOK, LinksInv
  <2>2. SessionsInv' /\ RequestsInv' /\ OneSessionPerLink' /\ SessionsAreKept'
    BY DEF SessionsInv, RequestsInv, OneSessionPerLink, SessionsAreKept, Accepted, Entered
  <2> QED
    BY <1>l, <2>1, <2>2
<1>3. CASE ReapSessions
  <2> USE <1>3 DEF ReapSessions
  <2>1. TypeOK' /\ LinksInv'
    BY <1>l DEF TypeOK, LinksInv
  <2>2. sessions' \cup closed' = sessions \cup closed
    BY DEF SessionsInv
  <2>3. SessionsInv' /\ RequestsInv'
    BY <2>2 DEF SessionsInv, RequestsInv, Accepted, Entered
  <2>4. OneSessionPerLink' /\ SessionsAreKept'
    BY <2>2 DEF OneSessionPerLink, SessionsAreKept, Accepted
  <2> QED
    BY <1>l, <2>1, <2>3, <2>4
<1>4. CASE Restart
  <2> USE <1>4 DEF Restart, Busy
  <2>1. TypeOK'
    BY <1>l DEF TypeOK, Steps
  <2>2. LinksInv'
    BY <1>l DEF LinksInv, TypeOK
  <2>3. sessions' \cup closed' = sessions \cup closed
    OBVIOUS
  <2>4. SessionsInv' /\ RequestsInv'
    BY <2>3 DEF SessionsInv, RequestsInv, Accepted, Entered, TypeOK
  <2>5. OneSessionPerLink' /\ SessionsAreKept'
    BY <2>3 DEF OneSessionPerLink, SessionsAreKept, Accepted, TypeOK
  <2> QED
    BY <1>l, <2>1, <2>2, <2>4, <2>5
<1>5. CASE UNCHANGED <<adminVars, reqVars>>
  <2> USE <1>5
  <2>1. TypeOK' /\ LinksInv'
    BY <1>l DEF TypeOK, LinksInv
  <2>2. SessionsInv' /\ RequestsInv' /\ OneSessionPerLink' /\ SessionsAreKept'
    BY DEF SessionsInv, RequestsInv, OneSessionPerLink, SessionsAreKept, Accepted, Entered
  <2> QED
    BY <1>l, <2>1, <2>2
<1> QED
  BY <1>1, <1>2, <1>3, <1>4, <1>5 DEF vars

\* The inductive invariant of sign-in and limiter, for any number of requests.
THEOREM AdminAuthInvariant == Spec => []IInv
<1>1. IInv /\ [Next]_vars => IInv'
  <2> SUFFICES ASSUME IInv, [Next]_vars PROVE IInv'
    OBVIOUS
  <2>1. ASSUME NEW h \in Requests, Step(h) PROVE IInv'
    BY <2>1, LimitedIInv, LinksIInv, EntryIInv DEF Step
  <2> QED
    BY <2>1, EnvironmentIInv DEF Next
<1> QED
  BY <1>1, InitIInv, PTL DEF Spec

\* Every variable keeps its type.
THEOREM TypeCorrect == Spec => []TypeOK
  BY AdminAuthInvariant, PTL DEF IInv

\* A mailed link opens at most one session.
THEOREM LinksCorrect == Spec => []OneSessionPerLink
  BY AdminAuthInvariant, PTL DEF IInv

\* A session stays until it is signed out, expires or the process ends.
THEOREM SessionsCorrect == Spec => []SessionsAreKept
  BY AdminAuthInvariant, PTL DEF IInv

\* Whatever tokens are presented, whoever is let in owes it to a link in the
\* operator's mailbox and to a login within its limit.
THEOREM EntryCorrect == Spec => []EntryIsEarned
<1>1. IInv => EntryIsEarned
  <2> SUFFICES ASSUME IInv, NEW h \in Requests, Entered(h)
               PROVE  \E s \in Requests, l \in mailed :
                          /\ via[h] = s /\ kind[s] = "callback"
                          /\ via[s] = l /\ kind[l] = "login" /\ Admitted(l)
    BY DEF EntryIsEarned
  <2>1. PICK s \in Requests : via[h] = s /\ s \in sessions \cup closed
    BY DEF IInv, RequestsInv, TypeOK
  <2>2. kind[s] = "callback" /\ via[s] \in mailed
    BY <2>1 DEF IInv, SessionsInv, Accepted
  <2>3. kind[via[s]] = "login" /\ Admitted(via[s])
    BY <2>2 DEF IInv, LinksInv
  <2> QED
    BY <2>1, <2>2, <2>3
<1> QED
  BY <1>1, AdminAuthInvariant, PTL

\* No request is let in on a session that has ended.
THEOREM EndedSessionsCorrect == Spec => EndedSessionsStayOut
<1>1. IInv /\ [Next]_vars =>
        [\A h \in Requests : ~Entered(h) /\ Entered(h)' => via'[h] \notin closed]_vars
  <2> SUFFICES ASSUME IInv, Next, NEW h \in Requests, ~Entered(h), Entered(h)'
               PROVE  via'[h] \notin closed
    OBVIOUS
  <2>1. \E s \in Known, k \in {"action", "logout"} : RequireAdmin(h, s, k)
    <3>1. pc[h] # pc'[h] \/ kind[h] # kind'[h]
      BY DEF Entered
    <3>2. CASE UNCHANGED <<pc, kind>>
      BY <3>1, <3>2
    <3>3. CASE Restart
      BY <3>3 DEF Restart, Busy, Entered, IInv, TypeOK
    <3>4. ASSUME NEW g \in Requests,
                 \/ \E k \in AdminKeys, matched \in BOOLEAN : LoginSubmit(g, k, matched)
                 \/ \E i \in IpKeys, e \in EmailKeys : RequestMagicLink(g, i, e)
                 \/ \E l \in Known : Callback(g, l)
                 \/ SendLink(g) \/ AllowEmail(g) \/ NewToken(g) \/ Act(g) \/ Logout(g)
          PROVE  FALSE
      BY <3>4 DEF LoginSubmit, RequestMagicLink, Callback, SendLink, AllowEmail, NewToken, Act,
         Logout, Begin, Goto, Entered, IInv, TypeOK, LinksInv, SessionsInv, RequestsInv
    <3>5. ASSUME NEW g \in Requests, NEW s \in Known, NEW k \in {"action", "logout"},
                 RequireAdmin(g, s, k)
          PROVE  g = h
      BY <3>1, <3>5 DEF RequireAdmin, Begin, IInv, TypeOK
    <3> QED
      BY <3>2, <3>3, <3>4, <3>5 DEF Next, Step, LinkLapses, SessionLapses, ReapLinks,
         ReapSessions, reqVars
  <2> QED
    BY <2>1 DEF IInv, RequireAdmin, Begin, Valid, SessionsInv, Entered, TypeOK
<1> QED
  BY <1>1, AdminAuthInvariant, PTL DEF Spec, EndedSessionsStayOut

\* The handlers use the limiter as it is specified: hiding sign-in, sessions
\* and mail leaves a behaviour of RateLimiter.
THEOREM LimiterUsed == Spec => LimiterSpec
<1>1. Init => LimiterInit
  BY DEF Init
<1>2. IInv /\ [Next]_vars => [LimiterNext]_limiterVars
  BY StepIsLimiterStep
<1> QED
  BY <1>1, <1>2, AdminAuthInvariant, PTL DEF Spec, LimiterSpec

\* The limiter's bound holds of the whole.
THEOREM LimitsCorrect == Spec => []AdmissionsBounded
  BY LimiterUsed, AdmissionsCorrect, PTL

\* The clients see no more of the limiter than Quota says.
THEOREM QuotaCorrect == Spec => ImplementsQuota
  BY LimiterUsed, LimiterImplementsQuota, PTL
=============================================================================
