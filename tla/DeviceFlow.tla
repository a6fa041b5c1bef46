----------------------------- MODULE DeviceFlow -----------------------------
(***************************************************************************)
(* Passwordless sign-in and the device authorization grant: magic links,   *)
(* the callback that approves a device, approval from the web page and the *)
(* device's polling.  Sources: internal/auth/service.go, the handlers of   *)
(* internal/httpapi/handler/auth.go and the tables in                      *)
(* internal/store/repo/{devices,tokens,api_tokens,nodes}.go.               *)
(*                                                                         *)
(* Every HTTP request is a process of its own.  A statement (or a          *)
(* transaction) is one step, so requests interleave between statements, as *)
(* the single connection of the pool lets them.  Inserting a fresh row of  *)
(* api_tokens commutes with every other statement, so it shares a step     *)
(* with the UPDATE that follows it.  A poll's answer is a step after its   *)
(* last commit, because it may never be given; what the other requests     *)
(* show their user holds no secret, and shares a step with their last      *)
(* statement.                                                              *)
(*                                                                         *)
(* Abstractions.  A generated secret or token is named by the request that *)
(* generated it: no two requests generate the same one.  Codes, links and  *)
(* e-mail addresses are identities.  A session's node row has the          *)
(* session's name; its node_token_hash is written and never looked at, and *)
(* left out.                                                               *)
(***************************************************************************)
EXTENDS Naturals, FiniteSets

CONSTANTS
    Sessions,     \* device sessions that may be started
    NodeSessions, \* those started with node_type and endpoint_url
    Users,        \* users, by e-mail address
    Links,        \* magic links that may be sent
    Requests,     \* HTTP requests that may be made
    MaxAborts,    \* bound: requests that fail half-way (database error, crash)
    None          \* SQL NULL

ASSUME DeviceFlowAssumption ==
    /\ NodeSessions \subseteq Sessions
    /\ None \notin Sessions \cup Users \cup Links \cup Requests
    /\ MaxAborts \in Nat

VARIABLES
    \* device_sessions
    status,    \* "absent", "pending", "approved" or "consumed"
    approver,  \* user_id
    lapsed,    \* sessions past expires_at
    polled,    \* sessions with last_poll_at less than poll_interval ago
    \* nodes
    owner,     \* user_id
    secret,    \* intro_secret, by the request that made it
    \* magic_tokens
    link,      \* [state, user, session] of each link
    dead,      \* links past expires_at
    \* api_tokens: [user, node, by]
    tokens,
    revoked,   \* those with revoked_at
    \* the requests in progress
    pc, kind, sess, usr,
    via,       \* the link a request was let in by
    aborted    \* the requests that failed half-way

sessionVars == <<status, approver, lapsed, polled>>
nodeVars    == <<owner, secret>>
linkVars    == <<link, dead>>
tokenVars   == <<tokens, revoked>>
reqVars     == <<pc, kind, sess, usr, via>>
vars == <<sessionVars, nodeVars, linkVars, tokenVars, reqVars, aborted>>

Statuses == {"absent", "pending", "approved", "consumed"}
Steps    == {"new", "approve", "key", "consume", "mint", "own", "rotate", "answer", "done", "failed"}
Kinds    == {"none", "login", "callback", "approval", "key", "poll"}
NoLink   == [state |-> "unsent", user |-> None, session |-> None]

Init ==
    /\ status = [s \in Sessions |-> "absent"]
    /\ approver = [s \in Sessions |-> None]
    /\ lapsed = {} /\ polled = {}
    /\ owner = [s \in Sessions |-> None]
    /\ secret = [s \in Sessions |-> None]
    /\ link = [m \in Links |-> NoLink] /\ dead = {}
    /\ tokens = {} /\ revoked = {}
    /\ pc = [h \in Requests |-> "new"]
    /\ kind = [h \in Requests |-> "none"]
    /\ sess = [h \in Requests |-> None]
    /\ usr = [h \in Requests |-> None]
    /\ via = [h \in Requests |-> None]
    /\ aborted = {}

-----------------------------------------------------------------------------
(* Starting a flow, sending a link, time.                                  *)

\* InitDevice -> InitiateDeviceFlow -> InsertDeviceSession.
InsertDeviceSession(s) ==
    /\ status[s] = "absent"
    /\ status' = [status EXCEPT ![s] = "pending"]
    /\ UNCHANGED <<approver, lapsed, polled, nodeVars, linkVars, tokenVars, reqVars, aborted>>

\* Slip: InsertMagicToken is given no user, which its column allows.
RequestMagicLink_NoUser(m, u, s) ==
    /\ link[m].state = "unsent"
    /\ s # None => status[s] # "absent"
    /\ link' = [link EXCEPT ![m] = [state |-> "sent", user |-> None, session |-> s]]
    /\ UNCHANGED <<sessionVars, nodeVars, dead, tokenVars, reqVars, aborted>>

\* The link remembers the session of the user code, whatever the session's
\* state; an unknown code, or none, makes a plain sign-in link.
RequestMagicLink(m, u, s) ==
    /\ link[m].state = "unsent"
    /\ s # None => status[s] # "absent"
    /\ link' = [link EXCEPT ![m] = [state |-> "sent", user |-> u, session |-> s]]
    /\ UNCHANGED <<sessionVars, nodeVars, dead, tokenVars, reqVars, aborted>>

\* Time matters while something still looks at it: the expiry of a pending
\* session or an unused link, the poll interval of a pending session.
SessionLapses(s) ==
    /\ status[s] = "pending" /\ s \notin lapsed
    /\ lapsed' = lapsed \cup {s}
    /\ UNCHANGED <<status, approver, polled, nodeVars, linkVars, tokenVars, reqVars, aborted>>

LinkLapses(m) ==
    /\ link[m].state = "sent" /\ m \notin dead
    /\ dead' = dead \cup {m}
    /\ UNCHANGED <<sessionVars, nodeVars, link, tokenVars, reqVars, aborted>>

IntervalPasses(s) ==
    /\ s \in polled /\ status[s] = "pending"
    /\ polled' = polled \ {s}
    /\ UNCHANGED <<status, approver, lapsed, nodeVars, linkVars, tokenVars, reqVars, aborted>>

-----------------------------------------------------------------------------
(* Requests.                                                               *)

\* Request h comes to step `at`, as a request of kind k by or for user u on
\* session s.
Become(h, at, k, s, u) ==
    /\ pc' = [pc EXCEPT ![h] = at]
    /\ kind' = [kind EXCEPT ![h] = k]
    /\ sess' = [sess EXCEPT ![h] = s]
    /\ usr' = [usr EXCEPT ![h] = u]

Goto(h, at) ==
    /\ pc' = [pc EXCEPT ![h] = at]
    /\ UNCHANGED <<kind, sess, usr, via>>

Token(u, n, h) == [user |-> u, node |-> n, by |-> h]

\* Slip: WHERE without used_at IS NULL.
Usable_Replayed(m) == link[m].state # "unsent" /\ m \notin dead

\* Callback: ConsumeMagicToken, one transaction.
Usable(m) == link[m].state = "sent" /\ m \notin dead

ConsumeMagicToken(h, m) ==
    /\ pc[h] = "new" /\ Usable(m)
    /\ link' = [link EXCEPT ![m].state = "used"]
    /\ LET u == link[m].user  s == link[m].session
       IN \/ /\ s = None
             /\ tokens' = tokens \cup {Token(u, None, h)}
             /\ Become(h, "done", "login", None, u)
          \/ /\ s # None
             /\ Become(h, "approve", "callback", s, u)
             /\ UNCHANGED tokens
    /\ via' = [via EXCEPT ![h] = m]
    /\ UNCHANGED <<sessionVars, nodeVars, dead, revoked, aborted>>

\* Slip: what OptionalAuth lets through is taken for signed in.
SignedIn_Optional(u) == TRUE

\* OptionalAuth, APITokenByHash: the cookie or the bearer is a token of u
\* that was not revoked.
SignedIn(u) == \E t \in tokens \ revoked : t.user = u

\* The web page's approval of a code by the signed-in user u.
StartApproval(h, s, u) ==
    /\ pc[h] = "new" /\ status[s] # "absent" /\ SignedIn(u)
    /\ Become(h, "approve", "approval", s, u)
    /\ UNCHANGED <<sessionVars, nodeVars, linkVars, tokenVars, via, aborted>>

\* GenerateAPIKey for the signed-in user u: the middleware's look-up, then
\* the INSERT; the token may be revoked in between.
StartKey(h, u) ==
    /\ pc[h] = "new" /\ SignedIn(u)
    /\ Become(h, "key", "key", None, u)
    /\ UNCHANGED <<sessionVars, nodeVars, linkVars, tokenVars, via, aborted>>

GenerateAPIKey(h) ==
    /\ pc[h] = "key"
    /\ tokens' = tokens \cup {Token(usr[h], None, h)}
    /\ Goto(h, "done")
    /\ UNCHANGED <<sessionVars, nodeVars, linkVars, revoked, aborted>>

\* Logout: RevokeAPIToken of the token it is called with.
Logout(t) ==
    /\ revoked' = revoked \cup {t}
    /\ UNCHANGED <<sessionVars, nodeVars, linkVars, tokens, reqVars, aborted>>

\* Slips: WHERE without status='pending', or with the pair of statuses a
\* session in progress can have.
Approvable_AnyStatus(s)  == status[s] # "absent" /\ s \notin lapsed
Approvable_Unconsumed(s) == status[s] \in {"pending", "approved"} /\ s \notin lapsed

\* UPDATE ... WHERE status='pending' AND expires_at >= now.
Approvable(s) == status[s] = "pending" /\ s \notin lapsed

ApproveDeviceSession(h) ==
    /\ pc[h] = "approve"
    /\ LET s == sess[h]
       IN \/ /\ Approvable(s)
             /\ status' = [status EXCEPT ![s] = "approved"]
             /\ approver' = [approver EXCEPT ![s] = usr[h]]
             /\ Goto(h, IF kind[h] = "callback" THEN "mint" ELSE "done")
          \/ /\ ~Approvable(s)
             /\ Goto(h, "failed")
             /\ UNCHANGED <<status, approver>>
    /\ UNCHANGED <<lapsed, polled, nodeVars, linkVars, tokenVars, aborted>>

\* PollToken's look-up and, for a pending session, handlePollPending: an
\* expired session and a client that polls too soon are only told so, any
\* other poll is stamped.
Poll(h, s) ==
    /\ pc[h] = "new"
    /\ \/ /\ status[s] = "pending"
          /\ polled' = IF s \in lapsed THEN polled ELSE polled \cup {s}
          /\ Become(h, "failed", "poll", s, None)
       \/ /\ status[s] = "approved"
          /\ Become(h, "consume", "poll", s, None)
          /\ UNCHANGED polled
       \/ /\ status[s] \in {"absent", "consumed"}
          /\ Become(h, "failed", "poll", s, None)
          /\ UNCHANGED polled
    /\ UNCHANGED <<status, approver, lapsed, nodeVars, linkVars, tokenVars, via, aborted>>

\* Slip: the row is read back after the commit, WHERE status='approved'.
ConsumeDeviceSession_Reread(h) ==
    /\ pc[h] = "consume"
    /\ LET s == sess[h]
       IN /\ status' = [status EXCEPT ![s] = IF @ = "approved" THEN "consumed" ELSE @]
          /\ polled' = IF status[s] = "approved" THEN polled \cup {s} ELSE polled
          /\ Become(h, "failed", "poll", s, None)
    /\ UNCHANGED <<approver, lapsed, nodeVars, linkVars, tokenVars, via, aborted>>

\* ConsumeDeviceSession, one transaction.  It does not look at how many rows
\* its UPDATE changed, and goes on with the user of the row it then reads.
ConsumeDeviceSession(h) ==
    /\ pc[h] = "consume"
    /\ LET s == sess[h]
       IN /\ status' = [status EXCEPT ![s] = IF @ = "approved" THEN "consumed" ELSE @]
          /\ polled' = IF status[s] = "approved" THEN polled \cup {s} ELSE polled
          /\ Become(h, IF approver[s] = None THEN "failed" ELSE "mint", "poll", s, approver[s])
    /\ UNCHANGED <<approver, lapsed, nodeVars, linkVars, tokenVars, via, aborted>>

\* Where a request is once its last statement has committed.
Committed(h) == IF kind[h] = "poll" THEN "answer" ELSE "done"

\* The user's token, then for a session with a node the node's token.
MintTokens(h) ==
    /\ pc[h] = "mint"
    /\ LET s == sess[h]
       IN IF s \in NodeSessions
          THEN /\ tokens' = tokens \cup {Token(usr[h], None, h), Token(usr[h], s, h)}
               /\ Goto(h, "own")
          ELSE /\ tokens' = tokens \cup {Token(usr[h], None, h)}
               /\ Goto(h, Committed(h))
    /\ UNCHANGED <<sessionVars, nodeVars, linkVars, revoked, aborted>>

\* Slip: a node that has its owner is taken for one that has its secret too.
SetNodeUser_Owned(h) ==
    /\ pc[h] = "own"
    /\ owner' = [owner EXCEPT ![sess[h]] = IF @ = None THEN usr[h] ELSE @]
    /\ Goto(h, IF owner[sess[h]] = None THEN "rotate" ELSE Committed(h))
    /\ UNCHANGED <<sessionVars, secret, linkVars, tokenVars, aborted>>

\* UPDATE ... WHERE user_id IS NULL.
SetNodeUser(h) ==
    /\ pc[h] = "own"
    /\ owner' = [owner EXCEPT ![sess[h]] = IF @ = None THEN usr[h] ELSE @]
    /\ Goto(h, "rotate")
    /\ UNCHANGED <<sessionVars, secret, linkVars, tokenVars, aborted>>

\* The last statement.
RotateNodeIntroSecret(h) ==
    /\ pc[h] = "rotate"
    /\ secret' = [secret EXCEPT ![sess[h]] = h]
    /\ Goto(h, Committed(h))
    /\ UNCHANGED <<sessionVars, owner, linkVars, tokenVars, aborted>>

\* The poll's client gets its token and, for a node, the secret.
Respond(h) ==
    /\ pc[h] = "answer"
    /\ Goto(h, "done")
    /\ UNCHANGED <<sessionVars, nodeVars, linkVars, tokenVars, aborted>>

\* A statement of the request fails, or the process dies under it, before a
\* statement or before the answer: what the earlier statements did stays
\* done.
Abort(h) ==
    /\ Cardinality(aborted) < MaxAborts
    /\ pc[h] \notin {"new", "done", "failed"}
    /\ aborted' = aborted \cup {h}
    /\ Goto(h, "failed")
    /\ UNCHANGED <<sessionVars, nodeVars, linkVars, tokenVars>>

Step(h) ==
    \/ \E m \in Links : ConsumeMagicToken(h, m)
    \/ \E s \in Sessions, u \in Users : StartApproval(h, s, u)
    \/ \E u \in Users : StartKey(h, u)
    \/ \E s \in Sessions : Poll(h, s)
    \/ GenerateAPIKey(h)
    \/ ApproveDeviceSession(h) \/ ConsumeDeviceSession(h)
    \/ MintTokens(h) \/ SetNodeUser(h) \/ RotateNodeIntroSecret(h)
    \/ Respond(h) \/ Abort(h)

Next ==
    \/ \E s \in Sessions : InsertDeviceSession(s) \/ SessionLapses(s) \/ IntervalPasses(s)
    \/ \E m \in Links, u \in Users, s \in Sessions \cup {None} : RequestMagicLink(m, u, s)
    \/ \E m \in Links : LinkLapses(m)
    \/ \E t \in tokens : Logout(t)
    \/ \E h \in Requests : Step(h)

Spec == Init /\ [][Next]_vars

-----------------------------------------------------------------------------
(* Properties.                                                             *)

\* Every variable has its type; a link that was sent is some user's.
TypeOK ==
    /\ status \in [Sessions -> Statuses]
    /\ approver \in [Sessions -> Users \cup {None}]
    /\ lapsed \subseteq Sessions /\ polled \subseteq Sessions
    /\ owner \in [Sessions -> Users \cup {None}]
    /\ secret \in [Sessions -> Requests \cup {None}]
    /\ link \in [Links -> [state: {"unsent", "sent", "used"},
                           user: Users \cup {None}, session: Sessions \cup {None}]]
    /\ \A m \in Links : link[m].state # "unsent" => link[m].user \in Users
    /\ dead \subseteq Links
    /\ tokens \subseteq [user: Users \cup {None}, node: Sessions \cup {None}, by: Requests]
    /\ revoked \subseteq tokens
    /\ pc \in [Requests -> Steps]
    /\ kind \in [Requests -> Kinds]
    /\ sess \in [Requests -> Sessions \cup {None}]
    /\ usr \in [Requests -> Users \cup {None}]
    /\ via \in [Requests -> Links \cup {None}]
    /\ aborted \subseteq Requests

\* Whoever approved a session first owns its node, and every node token ever
\* issued for it: racing callbacks, approvals and polls, of other users too,
\* never bind a node or a token to somebody else.
OwnerIsApprover ==
    /\ \A s \in Sessions : owner[s] \in {None, approver[s]}
    /\ \A t \in tokens : t.node # None => t.user = approver[t.node] /\ t.user # None

\* An approval is final: no later request changes the approver, and a
\* consumed session is never approved again.
ApprovalIsFinal ==
    [][\A s \in Sessions :
          /\ approver[s] # None => approver'[s] = approver[s]
          /\ status[s] = "consumed" => status'[s] = "consumed"]_vars

\* A magic link lets in one request, however many present it at once.
LinksAreSingleUse ==
    \A g, h \in Requests : via[g] = via[h] /\ via[g] # None => g = h

Granted(h) == kind[h] = "poll" /\ pc[h] = "done"
Busy(h)    == pc[h] \notin {"new", "done", "failed"}

\* Somebody opened a link sent to the address of u.
Verified(u) == \E m \in Links : link[m].state = "used" /\ link[m].user = u

\* Nobody holds a token, and nobody approved a device, who did not first
\* open a link sent to their address: however approvals, keys and polls
\* hand sign-ins on, the chain begins at the mail box.
TokensAreEarned ==
    /\ \A t \in tokens : Verified(t.user)
    /\ \A s \in Sessions : approver[s] # None => Verified(approver[s])

\* A session is used up only by a poll that goes on to answer with its
\* tokens, unless a statement of that very poll fails.
ConsumedIsGranted ==
    \A s \in Sessions : status[s] = "consumed" =>
        \E h \in Requests :
            /\ kind[h] = "poll" /\ sess[h] = s
            /\ pc[h] \in {"mint", "own", "rotate", "answer", "done"} \/ h \in aborted

\* Everything has come to rest around the session's node and h is the one
\* poll that was granted.
OnlyGrant(h) ==
    /\ Granted(h) /\ sess[h] \in NodeSessions
    /\ \A g \in Requests \ {h} : sess[g] = sess[h] => ~Busy(g) /\ ~Granted(g)

\* What a client holds and what the node row holds once everything has come
\* to rest: with one poll granted, its intro_secret is the node's.
SecretAgreement ==
    \A h \in Requests : OnlyGrant(h) => secret[sess[h]] = h

\* SecretAgreement fails in two ways only.  When the secret of the one
\* granted poll is not the node's, the node's is that of a callback, whose
\* page shows nobody a secret, or of a second poll that rotated it and was
\* cut short before its answer; either acted on this session for its
\* approver.  Requests that failed before their rotation are never the cause,
\* and the node is never left without a secret.
SecretLostToUnheard ==
    \A h \in Requests : OnlyGrant(h) =>
        \/ secret[sess[h]] = h
        \/ \E g \in Requests :
              /\ secret[sess[h]] = g
              /\ sess[g] = sess[h] /\ usr[g] = approver[sess[h]]
              /\ kind[g] = "callback" \/ (kind[g] = "poll" /\ g \in aborted)

-----------------------------------------------------------------------------
(* The abstract specification.                                             *)

\* Requests, links and secrets are hidden; who opened a link is known, and
\* a token is whom and which node it was issued for.
Grant == INSTANCE DeviceGrant WITH
    known  <- {u \in Users : Verified(u)},
    issued <- {<<t.user, t.node>> : t \in tokens}

\* The flow of links, callbacks, approvals and polls, step by step and with
\* requests failing anywhere in between, is an implementation of DeviceGrant.
ImplementsGrant == Grant!Spec

-----------------------------------------------------------------------------
(* The inductive invariant behind the properties above; see                *)
(* DeviceFlowProofs.                                                       *)

\* Exactly the approved and consumed sessions have an approver, and a request
\* let in by a link has used it up.
TablesInv ==
    /\ \A s \in Sessions :
          status[s] \in {"approved", "consumed"} <=> approver[s] # None
    /\ \A h \in Requests : via[h] # None => link[via[h]].state = "used"

\* What a request in progress knows: a session and, once it may write to
\* the node, the session's approver; a request not yet begun came by no link, and
\* one that failed half-way stays so.
RequestsInv ==
    \A h \in Requests :
        /\ Busy(h) /\ pc[h] # "key" => sess[h] # None
        /\ pc[h] \in {"approve", "key"} => usr[h] # None /\ Verified(usr[h])
        /\ pc[h] \in {"mint", "own", "rotate"} =>
              usr[h] = approver[sess[h]] /\ usr[h] # None
        /\ pc[h] \in {"own", "rotate"} => sess[h] \in NodeSessions
        /\ pc[h] = "new" => via[h] = None
        /\ h \in aborted => pc[h] = "failed"

IInv ==
    /\ TypeOK /\ TablesInv /\ RequestsInv
    /\ OwnerIsApprover /\ LinksAreSingleUse /\ TokensAreEarned /\ ConsumedIsGranted

\* For SecretLostToUnheard: where a node's secret can come from; a poll about
\* to answer with a node has put one there; which requests do what.
SecretInv ==
    /\ \A s \in Sessions : secret[s] # None =>
          LET g == secret[s]
          IN /\ pc[g] \in {"answer", "done"} \/ g \in aborted
             /\ sess[g] = s /\ usr[g] = approver[s] /\ usr[g] # None
             /\ kind[g] \in {"poll", "callback"}
    /\ \A h \in Requests :
          /\ kind[h] = "poll" /\ pc[h] \in {"answer", "done"} /\ sess[h] \in NodeSessions =>
                secret[sess[h]] # None
          /\ pc[h] = "approve" => kind[h] \in {"callback", "approval"}
          /\ pc[h] = "key" => kind[h] = "key"
          /\ pc[h] = "answer" => kind[h] = "poll"
          /\ pc[h] \in {"mint", "own", "rotate"} => kind[h] \in {"poll", "callback"}
=============================================================================
