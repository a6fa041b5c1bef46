-------------------------- MODULE DeviceFlowProofs --------------------------
(***************************************************************************)
(* Proofs, for any number of sessions, users, links, requests and failing  *)
(* requests, of the safety properties of DeviceFlow.                       *)
(***************************************************************************)
EXTENDS DeviceFlow, TLAPS

USE DeviceFlowAssumption DEF DeviceFlowAssumption

\* The program starts in a state of the inductive invariant.
LEMMA InitIInv == Init => IInv
<1> SUFFICES ASSUME Init PROVE IInv
  OBVIOUS
<1>1. TypeOK
  BY DEF Init, TypeOK, Statuses, Steps, Kinds, NoLink
<1>2. TablesInv
  BY DEF Init, TablesInv, NoLink
<1>3. RequestsInv
  BY DEF Init, RequestsInv, Busy
<1>4. OwnerIsApprover /\ LinksAreSingleUse /\ TokensAreEarned /\ ConsumedIsGranted
  BY DEF Init, OwnerIsApprover, LinksAreSingleUse, TokensAreEarned, ConsumedIsGranted
<1> QED
  BY <1>1, <1>2, <1>3, <1>4 DEF IInv

\* New sessions, new links and the passing of time preserve the inductive
\* invariant.
LEMMA EnvironmentIInv ==
  ASSUME IInv,
         \/ \E s \in Sessions : InsertDeviceSession(s) \/ SessionLapses(s) \/ IntervalPasses(s)
         \/ \E m \in Links, u \in Users, s \in Sessions \cup {None} : RequestMagicLink(m, u, s)
         \/ \E m \in Links : LinkLapses(m)
         \/ \E t \in tokens : Logout(t)
  PROVE  IInv'
<1> USE DEF IInv, sessionVars, nodeVars, linkVars, tokenVars, reqVars
<1>1. ASSUME NEW s \in Sessions, InsertDeviceSession(s) PROVE IInv'
  <2> USE <1>1 DEF InsertDeviceSession
  <2>1. TypeOK'
    BY DEF TypeOK, Statuses
  <2>2. TablesInv'
    BY DEF TablesInv, TypeOK
  <2>3. RequestsInv' /\ OwnerIsApprover' /\ LinksAreSingleUse' /\ TokensAreEarned'
    BY DEF RequestsInv, Busy, OwnerIsApprover, LinksAreSingleUse, TokensAreEarned, Verified
  <2>4. ConsumedIsGranted'
    BY DEF ConsumedIsGranted, TypeOK
  <2> QED
    BY <2>1, <2>2, <2>3, <2>4
<1>2. ASSUME NEW s \in Sessions, SessionLapses(s) \/ IntervalPasses(s) PROVE IInv'
  <2> USE <1>2 DEF SessionLapses, IntervalPasses
  <2>1. TypeOK'
    BY DEF TypeOK
  <2>2. /\ TablesInv' /\ RequestsInv' /\ OwnerIsApprover' /\ LinksAreSingleUse'
        /\ TokensAreEarned' /\ ConsumedIsGranted'
    BY DEF TablesInv, RequestsInv, Busy, OwnerIsApprover, LinksAreSingleUse,
           TokensAreEarned, Verified, ConsumedIsGranted
  <2> QED
    BY <2>1, <2>2
<1>3. ASSUME NEW m \in Links, NEW u \in Users, NEW s \in Sessions \cup {None},
             RequestMagicLink(m, u, s)
      PROVE  IInv'
  <2> USE <1>3 DEF RequestMagicLink
  <2>1. TypeOK'
    BY DEF TypeOK
  <2>2. TablesInv'
    BY DEF TablesInv, TypeOK
  <2>3. \A v : Verified(v) => Verified(v)'
    BY DEF Verified, TypeOK
  <2>4. RequestsInv' /\ TokensAreEarned'
    BY <2>3 DEF RequestsInv, Busy, TokensAreEarned
  <2>5. OwnerIsApprover' /\ LinksAreSingleUse' /\ ConsumedIsGranted'
    BY DEF OwnerIsApprover, LinksAreSingleUse, ConsumedIsGranted
  <2> QED
    BY <2>1, <2>2, <2>4, <2>5
<1>4. ASSUME NEW m \in Links, LinkLapses(m) PROVE IInv'
  <2> USE <1>4 DEF LinkLapses
  <2>1. TypeOK'
    BY DEF TypeOK
  <2>2. /\ TablesInv' /\ RequestsInv' /\ OwnerIsApprover' /\ LinksAreSingleUse'
        /\ TokensAreEarned' /\ ConsumedIsGranted'
    BY DEF TablesInv, RequestsInv, Busy, OwnerIsApprover, LinksAreSingleUse,
           TokensAreEarned, Verified, ConsumedIsGranted
  <2> QED
    BY <2>1, <2>2
<1>5. ASSUME NEW t \in tokens, Logout(t) PROVE IInv'
  <2> USE <1>5 DEF Logout
  <2>1. TypeOK'
    BY DEF TypeOK
  <2>2. /\ TablesInv' /\ RequestsInv' /\ OwnerIsApprover' /\ LinksAreSingleUse'
        /\ TokensAreEarned' /\ ConsumedIsGranted'
    BY DEF TablesInv, RequestsInv, Busy, OwnerIsApprover, LinksAreSingleUse,
           TokensAreEarned, Verified, ConsumedIsGranted
  <2> QED
    BY <2>1, <2>2
<1> QED
  BY <1>1, <1>2, <1>3, <1>4, <1>5

\* The step by which a request begins preserves the inductive invariant.
LEMMA BeginIInv ==
  ASSUME IInv, NEW h \in Requests,
         \/ \E m \in Links : ConsumeMagicToken(h, m)
         \/ \E s \in Sessions, u \in Users : StartApproval(h, s, u)
         \/ \E u \in Users : StartKey(h, u)
         \/ \E s \in Sessions : Poll(h, s)
  PROVE  IInv'
<1> USE DEF IInv, sessionVars, nodeVars, linkVars, tokenVars, reqVars, Become
<1>0. pc[h] = "new" => h \notin aborted
  BY DEF RequestsInv
<1>1. ASSUME NEW m \in Links, ConsumeMagicToken(h, m) PROVE IInv'
  <2> DEFINE u == link[m].user
             s == link[m].session
  <2>1. /\ pc[h] = "new" /\ link[m].state = "sent"
        /\ u \in Users /\ s \in Sessions \cup {None}
        /\ link' = [link EXCEPT ![m].state = "used"]
        /\ via' = [via EXCEPT ![h] = m]
        /\ UNCHANGED <<sessionVars, nodeVars, dead, revoked, aborted>>
    BY <1>1 DEF ConsumeMagicToken, Usable, TypeOK, TablesInv
  <2>2. \/ /\ s = None /\ tokens' = tokens \cup {Token(u, None, h)}
           /\ Become(h, "done", "login", None, u)
        \/ s # None /\ Become(h, "approve", "callback", s, u) /\ UNCHANGED tokens
    BY <1>1 DEF ConsumeMagicToken
  <2> HIDE DEF u, s
  <2>3. TypeOK'
    <3>1. tokens' \subseteq [user: Users \cup {None}, node: Sessions \cup {None}, by: Requests]
      BY <2>1, <2>2 DEF TypeOK, Token
    <3>2. link' \in [Links -> [state: {"unsent", "sent", "used"},
                               user: Users \cup {None}, session: Sessions \cup {None}]]
      BY <2>1 DEF TypeOK
    <3>3. pc' \in [Requests -> Steps] /\ kind' \in [Requests -> Kinds]
      BY <2>2 DEF TypeOK, Steps, Kinds
    <3>4. sess' \in [Requests -> Sessions \cup {None}]
      BY <2>1, <2>2 DEF TypeOK
    <3>5. usr' \in [Requests -> Users \cup {None}]
      BY <2>1, <2>2 DEF TypeOK
    <3>6. via' \in [Requests -> Links \cup {None}]
      BY <2>1 DEF TypeOK
    <3>7. revoked' \subseteq tokens'
      BY <2>1, <2>2 DEF TypeOK
    <3> QED
      BY <2>1, <3>1, <3>2, <3>3, <3>4, <3>5, <3>6, <3>7 DEF TypeOK
  <2>4. TablesInv'
    BY <2>1 DEF TablesInv, TypeOK
  <2>8. \A v : Verified(v) \/ v = u => Verified(v)'
    BY <2>1 DEF Verified, TypeOK, u
  <2>5. RequestsInv'
    BY <2>1, <2>2, <2>8 DEF RequestsInv, Busy, TypeOK
  <2>9. TokensAreEarned'
    BY <2>1, <2>2, <2>8 DEF TokensAreEarned, Token
  <2>10. ConsumedIsGranted'
    BY <1>0, <2>1, <2>2 DEF ConsumedIsGranted, TypeOK
  <2>6. OwnerIsApprover'
    BY <2>1, <2>2 DEF OwnerIsApprover, Token
  <2>7. LinksAreSingleUse'
    <3>1. \A g \in Requests : via[g] # m
      BY <2>1 DEF TablesInv, TypeOK
    <3> QED
      BY <2>1, <3>1 DEF LinksAreSingleUse, TypeOK
  <2> QED
    BY <2>3, <2>4, <2>5, <2>6, <2>7, <2>9, <2>10
<1>2. ASSUME NEW s \in Sessions, NEW u \in Users, StartApproval(h, s, u) PROVE IInv'
  <2> USE <1>2 DEF StartApproval
  <2>1. TypeOK'
    BY DEF TypeOK, Steps, Kinds
  <2>2. RequestsInv'
    BY DEF RequestsInv, Busy, TypeOK, SignedIn, TokensAreEarned, Verified
  <2>3. TablesInv' /\ OwnerIsApprover' /\ LinksAreSingleUse' /\ TokensAreEarned'
    BY DEF TablesInv, OwnerIsApprover, LinksAreSingleUse, TokensAreEarned, Verified
  <2>4. ConsumedIsGranted'
    BY <1>0 DEF ConsumedIsGranted, TypeOK
  <2> QED
    BY <2>1, <2>2, <2>3, <2>4
<1>4. ASSUME NEW u \in Users, StartKey(h, u) PROVE IInv'
  <2> USE <1>4 DEF StartKey
  <2>1. TypeOK'
    BY DEF TypeOK, Steps, Kinds
  <2>2. RequestsInv'
    BY DEF RequestsInv, Busy, TypeOK, SignedIn, TokensAreEarned, Verified
  <2>3. TablesInv' /\ OwnerIsApprover' /\ LinksAreSingleUse' /\ TokensAreEarned'
    BY DEF TablesInv, OwnerIsApprover, LinksAreSingleUse, TokensAreEarned, Verified
  <2>4. ConsumedIsGranted'
    BY <1>0 DEF ConsumedIsGranted, TypeOK
  <2> QED
    BY <2>1, <2>2, <2>3, <2>4
<1>3. ASSUME NEW s \in Sessions, Poll(h, s) PROVE IInv'
  <2>1. /\ pc[h] = "new" /\ polled' \subseteq Sessions
        /\ UNCHANGED <<status, approver, lapsed, nodeVars, linkVars, tokenVars, via, aborted>>
        /\ \/ Become(h, "failed", "poll", s, None)
           \/ status[s] = "approved" /\ Become(h, "consume", "poll", s, None)
    BY <1>3 DEF Poll, TypeOK
  <2> USE <2>1
  <2>2. TypeOK'
    <3>1. /\ pc' \in [Requests -> Steps] /\ kind' \in [Requests -> Kinds]
          /\ sess' \in [Requests -> Sessions \cup {None}]
          /\ usr' \in [Requests -> Users \cup {None}]
      BY DEF TypeOK, Steps, Kinds
    <3> QED
      BY <3>1 DEF TypeOK
  <2>3. RequestsInv'
    BY DEF RequestsInv, Busy, TypeOK, Verified
  <2>4. TablesInv' /\ OwnerIsApprover' /\ LinksAreSingleUse' /\ TokensAreEarned'
    BY DEF TablesInv, OwnerIsApprover, LinksAreSingleUse, TokensAreEarned, Verified
  <2>5. ConsumedIsGranted'
    BY <1>0 DEF ConsumedIsGranted, TypeOK
  <2> QED
    BY <2>2, <2>3, <2>4, <2>5
<1> QED
  BY <1>1, <1>2, <1>3, <1>4

\* Every later step of a request preserves the inductive invariant.
LEMMA ContinueIInv ==
  ASSUME IInv, NEW h \in Requests,
         \/ GenerateAPIKey(h)
         \/ ApproveDeviceSession(h) \/ ConsumeDeviceSession(h)
         \/ MintTokens(h) \/ SetNodeUser(h) \/ RotateNodeIntroSecret(h)
         \/ Respond(h) \/ Abort(h)
  PROVE  IInv'
<1> USE DEF IInv, sessionVars, nodeVars, linkVars, tokenVars, reqVars, Goto, Become
<1> DEFINE s == sess[h]
<1>0. Busy(h) /\ pc[h] # "key" => s \in Sessions /\ pc[h] # "new"
  BY DEF RequestsInv, Busy, TypeOK
<1>1. CASE ApproveDeviceSession(h)
  <2>1. /\ pc[h] = "approve" /\ s \in Sessions /\ usr[h] \in Users
        /\ UNCHANGED <<lapsed, polled, nodeVars, linkVars, tokenVars, aborted>>
        /\ UNCHANGED <<kind, sess, usr, via>>
    BY <1>0, <1>1 DEF ApproveDeviceSession, Busy, RequestsInv, TypeOK
  <2>2. CASE Approvable(s)
    <3>1. /\ approver[s] = None
          /\ status' = [status EXCEPT ![s] = "approved"]
          /\ approver' = [approver EXCEPT ![s] = usr[h]]
          /\ pc' = [pc EXCEPT ![h] = IF kind[h] = "callback" THEN "mint" ELSE "done"]
      BY <1>1, <2>1, <2>2 DEF ApproveDeviceSession, Approvable, TablesInv
    <3> USE <2>1, <3>1
    <3>2. TypeOK'
      BY DEF TypeOK, Statuses, Steps
    <3>3. TablesInv'
      BY DEF TablesInv, TypeOK
    <3>4. RequestsInv'
      BY DEF RequestsInv, Busy, TypeOK, Verified
    <3>5. OwnerIsApprover'
      BY DEF OwnerIsApprover, TypeOK
    <3>6. LinksAreSingleUse'
      BY DEF LinksAreSingleUse
    <3>7. TokensAreEarned'
      BY DEF TokensAreEarned, Verified, RequestsInv, TypeOK
    <3>8. ConsumedIsGranted'
      BY DEF ConsumedIsGranted, TypeOK
    <3> QED
      BY <3>2, <3>3, <3>4, <3>5, <3>6, <3>7, <3>8
  <2>3. CASE ~Approvable(s)
    <3>1. pc' = [pc EXCEPT ![h] = "failed"] /\ UNCHANGED <<status, approver>>
      BY <1>1, <2>3 DEF ApproveDeviceSession
    <3> USE <2>1, <3>1
    <3>2. TypeOK'
      BY DEF TypeOK, Steps
    <3>3. RequestsInv'
      BY DEF RequestsInv, Busy, TypeOK, Verified
    <3>4. TablesInv' /\ OwnerIsApprover' /\ LinksAreSingleUse' /\ TokensAreEarned'
      BY DEF TablesInv, OwnerIsApprover, LinksAreSingleUse, TokensAreEarned, Verified
    <3>5. ConsumedIsGranted'
      BY DEF ConsumedIsGranted, TypeOK
    <3> QED
      BY <3>2, <3>3, <3>4, <3>5
  <2> QED
    BY <2>2, <2>3
<1>2. CASE ConsumeDeviceSession(h)
  <2>1. /\ pc[h] = "consume" /\ s \in Sessions
        /\ status' = [status EXCEPT ![s] = IF @ = "approved" THEN "consumed" ELSE @]
        /\ polled' \subseteq Sessions
        /\ Become(h, IF approver[s] = None THEN "failed" ELSE "mint", "poll", s, approver[s])
        /\ UNCHANGED <<approver, lapsed, nodeVars, linkVars, tokenVars, via, aborted>>
    BY <1>0, <1>2 DEF ConsumeDeviceSession, Busy, TypeOK
  <2> USE <2>1
  <2>2. TypeOK'
    BY DEF TypeOK, Statuses, Steps, Kinds
  <2>3. TablesInv'
    BY DEF TablesInv, TypeOK
  <2>4. RequestsInv'
    BY DEF RequestsInv, Busy, TypeOK, Verified
  <2>5. OwnerIsApprover' /\ LinksAreSingleUse' /\ TokensAreEarned'
    BY DEF OwnerIsApprover, LinksAreSingleUse, TokensAreEarned, Verified
  <2>6. ConsumedIsGranted'
    <3>1. status[s] = "approved" => approver[s] # None
      BY DEF TablesInv
    <3> QED
      BY <3>1 DEF ConsumedIsGranted, TypeOK
  <2> QED
    BY <2>2, <2>3, <2>4, <2>5, <2>6
<1>3. CASE MintTokens(h)
  <2>1. /\ pc[h] = "mint" /\ s \in Sessions
        /\ usr[h] = approver[s] /\ usr[h] \in Users
        /\ UNCHANGED <<sessionVars, nodeVars, linkVars, revoked, aborted>>
        /\ UNCHANGED <<kind, sess, usr, via>>
    BY <1>0, <1>3 DEF MintTokens, Busy, RequestsInv, TypeOK
  <2>2. \/ /\ s \in NodeSessions
           /\ tokens' = tokens \cup {Token(usr[h], None, h), Token(usr[h], s, h)}
           /\ pc' = [pc EXCEPT ![h] = "own"]
        \/ /\ tokens' = tokens \cup {Token(usr[h], None, h)}
           /\ pc' = [pc EXCEPT ![h] = Committed(h)]
    BY <1>3 DEF MintTokens
  <2> HIDE DEF s
  <2> USE <2>1, <2>2
  <2>3. TypeOK'
    <3>1. tokens' \subseteq [user: Users \cup {None}, node: Sessions \cup {None}, by: Requests]
      BY DEF TypeOK, Token
    <3>2. pc' \in [Requests -> Steps]
      BY DEF TypeOK, Steps, Committed
    <3> QED
      BY <3>1, <3>2 DEF TypeOK
  <2>4. RequestsInv'
    BY DEF RequestsInv, Busy, TypeOK, Verified, Committed, s
  <2>5. OwnerIsApprover'
    BY DEF OwnerIsApprover, Token
  <2>6. TablesInv' /\ LinksAreSingleUse'
    BY DEF TablesInv, LinksAreSingleUse
  <2>7. TokensAreEarned'
    BY DEF TokensAreEarned, Verified, Token
  <2>8. ConsumedIsGranted'
    BY DEF ConsumedIsGranted, TypeOK, Committed
  <2> QED
    BY <2>3, <2>4, <2>5, <2>6, <2>7, <2>8
<1>4. CASE SetNodeUser(h)
  <2>1. /\ pc[h] = "own" /\ s \in Sessions
        /\ usr[h] = approver[s] /\ usr[h] \in Users
    BY <1>0, <1>4 DEF SetNodeUser, Busy, RequestsInv, TypeOK
  <2> USE <1>4, <2>1 DEF SetNodeUser
  <2>2. TypeOK'
    BY DEF TypeOK, Steps
  <2>3. RequestsInv'
    BY DEF RequestsInv, Busy, TypeOK, Verified
  <2>4. OwnerIsApprover'
    BY DEF OwnerIsApprover, TypeOK
  <2>5. TablesInv' /\ LinksAreSingleUse' /\ TokensAreEarned'
    BY DEF TablesInv, LinksAreSingleUse, TokensAreEarned, Verified
  <2>6. ConsumedIsGranted'
    BY DEF ConsumedIsGranted, TypeOK
  <2> QED
    BY <2>2, <2>3, <2>4, <2>5, <2>6
<1>5. CASE RotateNodeIntroSecret(h)
  <2> USE <1>5 DEF RotateNodeIntroSecret, Committed
  <2>1. TypeOK'
    BY <1>0 DEF TypeOK, Steps, Busy
  <2>2. RequestsInv'
    BY DEF RequestsInv, Busy, TypeOK, Verified
  <2>3. TablesInv' /\ OwnerIsApprover' /\ LinksAreSingleUse' /\ TokensAreEarned'
    BY DEF TablesInv, OwnerIsApprover, LinksAreSingleUse, TokensAreEarned, Verified
  <2>4. ConsumedIsGranted'
    BY DEF ConsumedIsGranted, TypeOK
  <2> QED
    BY <2>1, <2>2, <2>3, <2>4
<1>6. CASE Abort(h)
  <2> USE <1>6 DEF Abort
  <2>1. TypeOK'
    BY DEF TypeOK, Steps
  <2>2. RequestsInv'
    BY DEF RequestsInv, Busy, TypeOK, Verified
  <2>3. TablesInv' /\ OwnerIsApprover' /\ LinksAreSingleUse' /\ TokensAreEarned'
    BY DEF TablesInv, OwnerIsApprover, LinksAreSingleUse, TokensAreEarned, Verified
  <2>4. ConsumedIsGranted'
    BY DEF ConsumedIsGranted, TypeOK
  <2> QED
    BY <2>1, <2>2, <2>3, <2>4
<1>7. CASE GenerateAPIKey(h)
  <2>1. /\ pc[h] = "key" /\ usr[h] \in Users /\ Verified(usr[h])
        /\ tokens' = tokens \cup {Token(usr[h], None, h)}
        /\ pc' = [pc EXCEPT ![h] = "done"]
        /\ UNCHANGED <<sessionVars, nodeVars, linkVars, revoked, aborted>>
        /\ UNCHANGED <<kind, sess, usr, via>>
    BY <1>7 DEF GenerateAPIKey, RequestsInv, TypeOK
  <2> HIDE DEF s
  <2> USE <2>1
  <2>2. TypeOK'
    <3>1. tokens' \subseteq [user: Users \cup {None}, node: Sessions \cup {None}, by: Requests]
      BY DEF TypeOK, Token
    <3>2. pc' \in [Requests -> Steps]
      BY DEF TypeOK, Steps
    <3> QED
      BY <3>1, <3>2 DEF TypeOK
  <2>3. RequestsInv'
    BY DEF RequestsInv, Busy, TypeOK, Verified
  <2>4. OwnerIsApprover'
    BY DEF OwnerIsApprover, Token
  <2>5. TablesInv' /\ LinksAreSingleUse'
    BY DEF TablesInv, LinksAreSingleUse
  <2>6. TokensAreEarned'
    BY DEF TokensAreEarned, Verified, Token
  <2>7. ConsumedIsGranted'
    BY DEF ConsumedIsGranted, TypeOK
  <2> QED
    BY <2>2, <2>3, <2>4, <2>5, <2>6, <2>7
<1>8. CASE Respond(h)
  <2> USE <1>8 DEF Respond
  <2>1. TypeOK'
    BY DEF TypeOK, Steps
  <2>2. RequestsInv'
    BY DEF RequestsInv, Busy, TypeOK, Verified
  <2>3. TablesInv' /\ OwnerIsApprover' /\ LinksAreSingleUse' /\ TokensAreEarned'
    BY DEF TablesInv, OwnerIsApprover, LinksAreSingleUse, TokensAreEarned, Verified
  <2>4. ConsumedIsGranted'
    BY DEF ConsumedIsGranted, TypeOK
  <2> QED
    BY <2>1, <2>2, <2>3, <2>4
<1> QED
  BY <1>1, <1>2, <1>3, <1>4, <1>5, <1>6, <1>7, <1>8

\* The inductive invariant holds throughout.
THEOREM DeviceFlowInvariant == Spec => []IInv
<1>1. IInv /\ UNCHANGED vars => IInv'
  BY DEF IInv, TypeOK, TablesInv, RequestsInv, Busy, OwnerIsApprover, LinksAreSingleUse,
         TokensAreEarned, Verified, ConsumedIsGranted, vars, sessionVars, nodeVars, linkVars, tokenVars, reqVars
<1>2. IInv /\ [Next]_vars => IInv'
  BY <1>1, EnvironmentIInv, BeginIInv, ContinueIInv DEF Next, Step
<1> QED
  BY InitIInv, <1>2, PTL DEF Spec

\* Every variable keeps its type.
THEOREM TypeCorrect == Spec => []TypeOK
<1>1. IInv => TypeOK
  BY DEF IInv
<1> QED
  BY DeviceFlowInvariant, <1>1, PTL

\* Tokens and approvals go back to an opened link.
THEOREM TokensCorrect == Spec => []TokensAreEarned
<1>1. IInv => TokensAreEarned
  BY DEF IInv
<1> QED
  BY DeviceFlowInvariant, <1>1, PTL

\* A session is used up by a poll that answers or fails half-way.
THEOREM GrantCorrect == Spec => []ConsumedIsGranted
<1>1. IInv => ConsumedIsGranted
  BY DEF IInv
<1> QED
  BY DeviceFlowInvariant, <1>1, PTL

\* A node and its tokens belong to the user who approved its session.
THEOREM OwnerCorrect == Spec => []OwnerIsApprover
<1>1. IInv => OwnerIsApprover
  BY DEF IInv
<1> QED
  BY DeviceFlowInvariant, <1>1, PTL

\* A magic link lets in at most one request.
THEOREM LinksCorrect == Spec => []LinksAreSingleUse
<1>1. IInv => LinksAreSingleUse
  BY DEF IInv
<1> QED
  BY DeviceFlowInvariant, <1>1, PTL

\* The first approval of a session is final.
THEOREM ApprovalCorrect == Spec => ApprovalIsFinal
<1> DEFINE Final == \A s \in Sessions :
                       /\ approver[s] # None => approver'[s] = approver[s]
                       /\ status[s] = "consumed" => status'[s] = "consumed"
<1>1. IInv /\ [Next]_vars => Final \/ UNCHANGED vars
  <2> SUFFICES ASSUME IInv, Next PROVE Final
    OBVIOUS
  <2> USE DEF sessionVars
  <2>1. CASE UNCHANGED <<status, approver>>
    BY <2>1
  <2>2. ASSUME NEW s \in Sessions, InsertDeviceSession(s) PROVE Final
    BY <2>2 DEF InsertDeviceSession, IInv, TypeOK
  <2>3. ASSUME NEW h \in Requests, ApproveDeviceSession(h) PROVE Final
    BY <2>3 DEF ApproveDeviceSession, Approvable, IInv, TypeOK, TablesInv
  <2>4. ASSUME NEW h \in Requests, ConsumeDeviceSession(h) PROVE Final
    BY <2>4 DEF ConsumeDeviceSession, IInv, TypeOK
  <2> QED
    BY <2>1, <2>2, <2>3, <2>4
       DEF Next, Step, SessionLapses, IntervalPasses, RequestMagicLink, LinkLapses,
           ConsumeMagicToken, StartApproval, Poll, MintTokens, SetNodeUser,
           RotateNodeIntroSecret, Respond, Abort, StartKey, GenerateAPIKey, Logout
<1> QED
  BY DeviceFlowInvariant, <1>1, PTL DEF Spec, ApprovalIsFinal

-----------------------------------------------------------------------------
(* Whose secret a node holds.                                              *)

\* Every step preserves it.
LEMMA SecretStep ==
  ASSUME IInv, SecretInv, [Next]_vars
  PROVE  SecretInv'
<1> USE DEF SecretInv, sessionVars, nodeVars, linkVars, tokenVars, reqVars
<1>t. TypeOK /\ RequestsInv /\ TablesInv
  BY DEF IInv
<1>1. CASE UNCHANGED <<secret, approver, pc, kind, sess, usr, aborted>>
  BY <1>1
<1>2. ASSUME NEW h \in Requests, pc[h] = "new", UNCHANGED <<secret, approver, aborted>>,
             NEW at, NEW k, NEW s, NEW u, Become(h, at, k, s, u),
             <<at, k>> \in {<<"done", "login">>, <<"approve", "callback">>,
                            <<"approve", "approval">>, <<"key", "key">>,
                            <<"consume", "poll">>, <<"failed", "poll">>}
      PROVE  SecretInv'
  <2>1. \A s1 \in Sessions : secret[s1] # h
    BY <1>2, <1>t DEF RequestsInv, TypeOK
  <2> QED
    BY <1>2, <1>t, <2>1 DEF Become, TypeOK
<1>3. ASSUME NEW h \in Requests,
             \/ \E m \in Links : ConsumeMagicToken(h, m)
             \/ \E s \in Sessions, u \in Users : StartApproval(h, s, u)
             \/ \E u \in Users : StartKey(h, u)
             \/ \E s \in Sessions : Poll(h, s)
      PROVE  SecretInv'
  BY <1>2, <1>3 DEF ConsumeMagicToken, StartApproval, StartKey, Poll
<1>4. ASSUME NEW h \in Requests, GenerateAPIKey(h) PROVE SecretInv'
  BY <1>4, <1>t DEF GenerateAPIKey, Goto, TypeOK, RequestsInv
<1>5. ASSUME NEW h \in Requests, ApproveDeviceSession(h) PROVE SecretInv'
  <2>1. CASE Approvable(sess[h])
    <3>1. /\ sess[h] \in Sessions /\ approver[sess[h]] = None
          /\ approver' = [approver EXCEPT ![sess[h]] = usr[h]]
          /\ pc[h] = "approve"
          /\ pc' = [pc EXCEPT ![h] = IF kind[h] = "callback" THEN "mint" ELSE "done"]
          /\ UNCHANGED <<secret, kind, sess, usr, aborted>>
      BY <1>5, <1>t, <2>1
         DEF ApproveDeviceSession, Approvable, Goto, RequestsInv, Busy, TablesInv, TypeOK
    <3>2. secret[sess[h]] = None
      BY <1>t, <3>1 DEF TypeOK
    <3> QED
      BY <1>t, <3>1, <3>2 DEF TypeOK, RequestsInv
  <2>2. CASE ~Approvable(sess[h])
    <3>1. /\ pc[h] = "approve" /\ pc' = [pc EXCEPT ![h] = "failed"]
          /\ UNCHANGED <<approver, secret, kind, sess, usr, aborted>>
      BY <1>5, <2>2 DEF ApproveDeviceSession, Goto
    <3> QED
      BY <1>t, <3>1 DEF TypeOK, RequestsInv
  <2> QED
    BY <2>1, <2>2
<1>6. ASSUME NEW h \in Requests, ConsumeDeviceSession(h) PROVE SecretInv'
  <2>1. \A s \in Sessions : secret[s] # h
    BY <1>6, <1>t DEF ConsumeDeviceSession, RequestsInv, TypeOK
  <2> QED
    BY <1>6, <1>t, <2>1 DEF ConsumeDeviceSession, Become, TypeOK
<1>7. ASSUME NEW h \in Requests, MintTokens(h) PROVE SecretInv'
  BY <1>7, <1>t DEF MintTokens, Committed, Goto, TypeOK, RequestsInv
<1>8. ASSUME NEW h \in Requests, SetNodeUser(h) PROVE SecretInv'
  BY <1>8, <1>t DEF SetNodeUser, Goto, TypeOK, RequestsInv
<1>9. ASSUME NEW h \in Requests, RotateNodeIntroSecret(h) PROVE SecretInv'
  <2>1. /\ sess[h] \in Sessions /\ kind[h] \in {"poll", "callback"}
        /\ usr[h] = approver[sess[h]] /\ usr[h] # None
    BY <1>9, <1>t DEF RotateNodeIntroSecret, RequestsInv, Busy, TypeOK
  <2> QED
    BY <1>9, <1>t, <2>1 DEF RotateNodeIntroSecret, Committed, Goto, TypeOK, RequestsInv
<1>10. ASSUME NEW h \in Requests, Respond(h) \/ Abort(h) PROVE SecretInv'
  BY <1>10, <1>t DEF Respond, Abort, Goto, TypeOK, RequestsInv
<1> QED
  BY <1>1, <1>3, <1>4, <1>5, <1>6, <1>7, <1>8, <1>9, <1>10
     DEF Next, Step, vars, InsertDeviceSession, SessionLapses, IntervalPasses,
         RequestMagicLink, LinkLapses, Logout

\* The one granted poll holds the node's secret, or the node holds that of a
\* request of the session's approver whose client never hears it: a callback,
\* or a second poll cut short between its commit and its answer.  The finding
\* of deviceflow_secret has these two causes, for any number of requests,
\* failures and retries.
THEOREM SecretCause == Spec => []SecretLostToUnheard
<1>1. Init => SecretInv
  BY DEF Init, SecretInv
<1>2. Spec => []SecretInv
  BY <1>1, SecretStep, DeviceFlowInvariant, PTL DEF Spec
<1>3. IInv /\ SecretInv => SecretLostToUnheard
  <2> SUFFICES ASSUME IInv, SecretInv, NEW h \in Requests, OnlyGrant(h),
                      secret[sess[h]] # h
               PROVE  \E g \in Requests :
                          /\ secret[sess[h]] = g
                          /\ sess[g] = sess[h] /\ usr[g] = approver[sess[h]]
                          /\ kind[g] = "callback" \/ (kind[g] = "poll" /\ g \in aborted)
    BY DEF SecretLostToUnheard
  <2>1. sess[h] \in Sessions /\ Granted(h) /\ sess[h] \in NodeSessions
    BY DEF OnlyGrant
  <2>2. secret[sess[h]] \in Requests \ {h}
    BY <2>1 DEF SecretInv, Granted, IInv, TypeOK
  <2> USE <2>2
  <2> WITNESS secret[sess[h]] \in Requests
  <2> QED
    BY <2>1 DEF SecretInv, OnlyGrant, Granted, Busy
<1> QED
  BY <1>2, <1>3, DeviceFlowInvariant, PTL

-----------------------------------------------------------------------------
(* DeviceFlow implements DeviceGrant.                                      *)

Known  == {u \in Users : Verified(u)}
Issued == {<<t.user, t.node>> : t \in tokens}

\* What a step does to the state of DeviceGrant when it touches neither
\* links nor tokens, and when it only adds tokens.
LEMMA MappedState ==
  ASSUME TRUE
  PROVE  /\ UNCHANGED link => UNCHANGED Known
         /\ UNCHANGED tokens => UNCHANGED Issued
         /\ \A u, h : tokens' = tokens \cup {Token(u, None, h)} =>
               Issued' = Issued \cup {<<u, None>>}
         /\ \A u, s, h : tokens' = tokens \cup {Token(u, None, h), Token(u, s, h)} =>
               Issued' = Issued \cup {<<u, None>>, <<u, s>>}
<1>1. UNCHANGED link => UNCHANGED Known
  BY DEF Known, Verified
<1>2. UNCHANGED tokens => UNCHANGED Issued
  BY DEF Issued
<1>0. /\ \A x : x \in Issued <=> \E t \in tokens : x = <<t.user, t.node>>
      /\ \A x : x \in Issued' <=> \E t \in tokens' : x = <<t.user, t.node>>
      /\ \A u, s, h : Token(u, s, h).user = u /\ Token(u, s, h).node = s
  BY DEF Issued, Token
<1>3. ASSUME NEW u, NEW h, tokens' = tokens \cup {Token(u, None, h)}
      PROVE  Issued' = Issued \cup {<<u, None>>}
  BY <1>0, <1>3
<1>4. ASSUME NEW u, NEW s, NEW h, tokens' = tokens \cup {Token(u, None, h), Token(u, s, h)}
      PROVE  Issued' = Issued \cup {<<u, None>>, <<u, s>>}
  BY <1>0, <1>4
<1> QED
  BY <1>1, <1>2, <1>3, <1>4

\* Sending a link changes nothing of DeviceGrant; opening one makes its user
\* known.
LEMMA MappedLinks ==
  ASSUME IInv, NEW m \in Links
  PROVE  /\ \A u \in Users : \A s : RequestMagicLink(m, u, s) => UNCHANGED Known
         /\ \A h \in Requests : ConsumeMagicToken(h, m) =>
               link[m].user \in Users /\ Known' = Known \cup {link[m].user}
<1> USE DEF IInv, TypeOK, TablesInv
<1>1. ASSUME NEW u \in Users, NEW s, RequestMagicLink(m, u, s) PROVE UNCHANGED Known
  BY <1>1 DEF RequestMagicLink, Known, Verified
<1>2. ASSUME NEW h \in Requests, ConsumeMagicToken(h, m)
      PROVE  link[m].user \in Users /\ Known' = Known \cup {link[m].user}
  <2>1. link[m].user \in Users /\ link' = [link EXCEPT ![m].state = "used"]
    BY <1>2 DEF ConsumeMagicToken, Usable
  <2> QED
    BY <2>1 DEF Known, Verified
<1> QED
  BY <1>1, <1>2

\* A step of DeviceFlow is a step of DeviceGrant, or leaves it alone.
LEMMA GrantStep ==
  ASSUME IInv, [Next]_vars
  PROVE  [Grant!Next]_(Grant!vars)
<1> USE DEF sessionVars, nodeVars, linkVars, tokenVars, reqVars
<1> DEFINE Same == UNCHANGED <<Known, status, approver, owner, Issued>>
           Abstract == [Grant!Next]_(Grant!vars)
<1>s. Same => Abstract
  BY DEF Same, Grant!vars, Known, Issued
<1>n. /\ \A s \in Sessions : Grant!Start(s) \/ Grant!Consume(s) \/ Grant!IssueForNode(s)
                              \/ Grant!Bind(s) => Grant!Next
      /\ \A u \in Users : Grant!Verify(u) \/ Grant!Issue(u) => Grant!Next
      /\ \A s \in Sessions, u \in Users : Grant!Approve(s, u) => Grant!Next
  BY DEF Grant!Next
<1>1. CASE UNCHANGED <<link, status, approver, owner, tokens>>
  BY <1>1, <1>s, MappedState
<1>2. ASSUME NEW s \in Sessions, InsertDeviceSession(s) PROVE Abstract
  <2>1. UNCHANGED <<Known, approver, owner, Issued>>
    BY <1>2, MappedState DEF InsertDeviceSession
  <2>2. Grant!Start(s)
    BY <1>2, <2>1 DEF InsertDeviceSession, Grant!Start, Known, Issued
  <2> QED
    BY <2>2, <1>n
<1>3. ASSUME NEW m \in Links, NEW u \in Users, NEW s \in Sessions \cup {None},
             RequestMagicLink(m, u, s)
      PROVE  Abstract
  BY <1>3, <1>s, MappedState, MappedLinks DEF RequestMagicLink
<1>4. ASSUME NEW h \in Requests, NEW m \in Links, ConsumeMagicToken(h, m) PROVE Abstract
  <2>1. /\ link[m].user \in Users /\ Known' = Known \cup {link[m].user}
        /\ UNCHANGED <<status, approver, owner>>
    BY <1>4, MappedLinks DEF ConsumeMagicToken
  <2>2. Issued' \in {Issued, Issued \cup {<<link[m].user, None>>}}
    BY <1>4, MappedState DEF ConsumeMagicToken
  <2>3. PICK u \in Users : u = link[m].user
    BY <2>1
  <2>4. Grant!Verify(u)
    BY <2>1, <2>2, <2>3 DEF Grant!Verify, Known, Issued
  <2> QED
    BY <2>4, <1>n
<1>5. ASSUME NEW h \in Requests, GenerateAPIKey(h) PROVE Abstract
  <2>1. /\ usr[h] \in Known /\ Issued' = Issued \cup {<<usr[h], None>>}
        /\ UNCHANGED <<Known, status, approver, owner>>
    BY <1>5, MappedState DEF GenerateAPIKey, Known, IInv, RequestsInv, TypeOK
  <2>2. PICK u \in Users : u = usr[h]
    BY <2>1 DEF Known
  <2>3. Grant!Issue(u)
    BY <2>1, <2>2 DEF Grant!Issue, Known, Issued
  <2> QED
    BY <2>3, <1>n
<1>6. ASSUME NEW h \in Requests, ApproveDeviceSession(h) PROVE Abstract
  <2>1. sess[h] \in Sessions /\ usr[h] \in Known /\ UNCHANGED <<Known, owner, Issued>>
    BY <1>6, MappedState DEF ApproveDeviceSession, Known, IInv, RequestsInv, Busy, TypeOK
  <2>2. CASE Approvable(sess[h])
    <3>1. Grant!Approve(sess[h], usr[h]) /\ usr[h] \in Users
      BY <1>6, <2>1, <2>2 DEF ApproveDeviceSession, Approvable, Grant!Approve, Known, Issued
    <3> QED
      BY <2>1, <3>1, <1>n
  <2>3. CASE ~Approvable(sess[h])
    BY <1>6, <1>s, <2>1, <2>3 DEF ApproveDeviceSession
  <2> QED
    BY <2>2, <2>3
<1>7. ASSUME NEW h \in Requests, ConsumeDeviceSession(h) PROVE Abstract
  <2>1. /\ sess[h] \in Sessions /\ UNCHANGED <<Known, approver, owner, Issued>>
        /\ status' = [status EXCEPT ![sess[h]] = IF @ = "approved" THEN "consumed" ELSE @]
    BY <1>7, MappedState DEF ConsumeDeviceSession, IInv, RequestsInv, Busy, TypeOK
  <2>2. CASE status[sess[h]] = "approved"
    <3>1. Grant!Consume(sess[h])
      BY <2>1, <2>2 DEF Grant!Consume, Known, Issued
    <3> QED
      BY <2>1, <3>1, <1>n
  <2>3. CASE status[sess[h]] # "approved"
    <3>1. UNCHANGED status
      BY <2>1, <2>3 DEF IInv, TypeOK
    <3> QED
      BY <1>s, <2>1, <3>1
  <2> QED
    BY <2>2, <2>3
<1>8. ASSUME NEW h \in Requests, MintTokens(h) PROVE Abstract
  <2>1. /\ sess[h] \in Sessions /\ UNCHANGED <<Known, status, approver, owner>>
        /\ usr[h] = approver[sess[h]] /\ usr[h] \in Users
    BY <1>8, MappedState DEF MintTokens, IInv, RequestsInv, Busy, TypeOK
  <2>2. CASE sess[h] \in NodeSessions
    <3>1. Issued' = Issued \cup {<<usr[h], None>>, <<usr[h], sess[h]>>}
      BY <1>8, <2>2, MappedState DEF MintTokens
    <3>2. PICK s \in Sessions : s = sess[h]
      BY <2>1
    <3>3. Grant!IssueForNode(s)
      BY <2>1, <3>1, <3>2 DEF Grant!IssueForNode, Known, Issued
    <3> QED
      BY <3>3, <1>n
  <2>3. CASE sess[h] \notin NodeSessions
    <3>1. Issued' = Issued \cup {<<usr[h], None>>}
      BY <1>8, <2>3, MappedState DEF MintTokens
    <3>2. usr[h] \in Known
      BY <2>1 DEF Known, IInv, TokensAreEarned
    <3>3. PICK u \in Users : u = usr[h]
      BY <2>1
    <3>4. Grant!Issue(u)
      BY <2>1, <3>1, <3>2, <3>3 DEF Grant!Issue, Known, Issued
    <3> QED
      BY <3>4, <1>n
  <2> QED
    BY <2>2, <2>3
<1>9. ASSUME NEW h \in Requests, SetNodeUser(h) PROVE Abstract
  <2>1. /\ sess[h] \in Sessions /\ UNCHANGED <<Known, status, approver, Issued>>
        /\ usr[h] = approver[sess[h]] /\ usr[h] # None
        /\ owner' = [owner EXCEPT ![sess[h]] = IF @ = None THEN usr[h] ELSE @]
    BY <1>9, MappedState DEF SetNodeUser, IInv, RequestsInv, Busy, TypeOK
  <2>2. CASE owner[sess[h]] = None
    <3>1. Grant!Bind(sess[h])
      BY <2>1, <2>2 DEF Grant!Bind, Known, Issued
    <3> QED
      BY <2>1, <3>1, <1>n
  <2>3. CASE owner[sess[h]] # None
    <3>1. UNCHANGED owner
      BY <2>1, <2>3 DEF IInv, TypeOK
    <3> QED
      BY <1>s, <2>1, <3>1
  <2> QED
    BY <2>2, <2>3
<1> QED
  BY <1>1, <1>2, <1>3, <1>4, <1>5, <1>6, <1>7, <1>8, <1>9
     DEF Next, Step, vars, SessionLapses, IntervalPasses, LinkLapses, Logout,
         StartApproval, StartKey, Poll, RotateNodeIntroSecret, Respond, Abort

\* The whole flow, with its races and its failing requests, is an
\* implementation of DeviceGrant.
THEOREM FlowImplementsGrant == Spec => ImplementsGrant
<1>1. Init => Grant!Init
  <2> SUFFICES ASSUME Init PROVE Grant!Init
    OBVIOUS
  <2>1. Known = {} /\ Issued = {}
    BY DEF Init, Known, Issued, Verified, NoLink
  <2> QED
    BY <2>1 DEF Init, Grant!Init, Known, Issued
<1> QED
  BY <1>1, GrantStep, DeviceFlowInvariant, PTL DEF Spec, ImplementsGrant, Grant!Spec

\* In DeviceGrant a session not yet approved has no approver.
LEMMA GrantShape ==
  Grant!Spec => [](/\ status \in [Sessions -> Statuses] /\ DOMAIN approver = Sessions
                   /\ DOMAIN owner = Sessions
                   /\ \A s \in Sessions : status[s] = "pending" => approver[s] = None
                   /\ \A s \in Sessions : status[s] = "absent" => approver[s] = None)
<1> DEFINE Shape == /\ status \in [Sessions -> Statuses] /\ DOMAIN approver = Sessions
                    /\ DOMAIN owner = Sessions
                    /\ \A s \in Sessions : status[s] = "pending" => approver[s] = None
                    /\ \A s \in Sessions : status[s] = "absent" => approver[s] = None
<1>1. Grant!Init => Shape
  BY DEF Grant!Init, Statuses
<1>2. Shape /\ [Grant!Next]_(Grant!vars) => Shape'
  <2> SUFFICES ASSUME Shape, [Grant!Next]_(Grant!vars) PROVE Shape'
    OBVIOUS
  <2>1. CASE UNCHANGED <<status, approver, owner>>
    BY <2>1
  <2>2. ASSUME NEW s \in Sessions, Grant!Start(s) PROVE Shape'
    BY <2>2 DEF Grant!Start, Statuses
  <2>3. ASSUME NEW s \in Sessions, Grant!Consume(s) PROVE Shape'
    BY <2>3 DEF Grant!Consume, Statuses
  <2>4. ASSUME NEW s \in Sessions, Grant!Bind(s) PROVE Shape'
    BY <2>4 DEF Grant!Bind
  <2>5. ASSUME NEW s \in Sessions, NEW u \in Users, Grant!Approve(s, u) PROVE Shape'
    <3>1. /\ status' = [status EXCEPT ![s] = "approved"]
          /\ approver' = [approver EXCEPT ![s] = u] /\ UNCHANGED owner
      BY <2>5 DEF Grant!Approve
    <3> QED
      BY <3>1 DEF Statuses
  <2> QED
    BY <2>1, <2>2, <2>3, <2>4, <2>5
       DEF Grant!Next, Grant!vars, Grant!IssueForNode, Grant!Verify, Grant!Issue
<1> QED
  BY <1>1, <1>2, PTL DEF Grant!Spec

\* Nodes, approvals and tokens never change hands, in DeviceGrant and so in
\* the flow that implements it.
THEOREM OwnershipCorrect == Spec => Grant!OwnershipIsFinal
<1> DEFINE Shape == /\ status \in [Sessions -> Statuses] /\ DOMAIN approver = Sessions
                    /\ DOMAIN owner = Sessions
                    /\ \A s \in Sessions : status[s] = "pending" => approver[s] = None
                    /\ \A s \in Sessions : status[s] = "absent" => approver[s] = None
           Final == /\ \A s \in Sessions :
                          /\ owner[s] # None => owner'[s] = owner[s]
                          /\ approver[s] # None => approver'[s] = approver[s]
                    /\ {<<t.user, t.node>> : t \in tokens}
                         \subseteq {<<t.user, t.node>> : t \in tokens}'
<1>1. Shape /\ [Grant!Next]_(Grant!vars) => Final \/ UNCHANGED Grant!vars
  <2> SUFFICES ASSUME Shape, Grant!Next PROVE Final
    OBVIOUS
  <2>1. ASSUME UNCHANGED <<owner, approver>>, Issued \subseteq Issued' PROVE Final
    BY <2>1 DEF Issued
  <2>2. ASSUME NEW s \in Sessions, Grant!Start(s) \/ Grant!Consume(s) PROVE Final
    BY <2>1, <2>2 DEF Grant!Start, Grant!Consume, Issued
  <2>3. ASSUME NEW s \in Sessions, Grant!IssueForNode(s) PROVE Final
    BY <2>1, <2>3 DEF Grant!IssueForNode, Issued
  <2>4. ASSUME NEW u \in Users, Grant!Verify(u) \/ Grant!Issue(u) PROVE Final
    BY <2>1, <2>4 DEF Grant!Verify, Grant!Issue, Issued
  <2>5. ASSUME NEW s \in Sessions, Grant!Bind(s) PROVE Final
    BY <2>5 DEF Grant!Bind
  <2>6. ASSUME NEW s \in Sessions, NEW u \in Users, Grant!Approve(s, u) PROVE Final
    BY <2>6 DEF Grant!Approve
  <2> QED
    BY <2>2, <2>3, <2>4, <2>5, <2>6 DEF Grant!Next
<1>2. Grant!Spec => Grant!OwnershipIsFinal
  BY <1>1, GrantShape, PTL DEF Grant!Spec, Grant!OwnershipIsFinal
<1> QED
  BY <1>2, FlowImplementsGrant, PTL DEF ImplementsGrant
=============================================================================
