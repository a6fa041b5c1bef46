----------------------------- MODULE AdminAuth -----------------------------
(***************************************************************************)
(* Who gets through the door: the operator's sign-in by mailed link, the   *)
(* sessions that follow from it and the requests they let in, together     *)
(* with the rate limiter, which the operator's login and the users' magic  *)
(* link requests share.  Sources: internal/httpapi/middleware/admin.go,    *)
(* the handlers LoginSubmit, Callback, Logout and the peer actions of      *)
(* internal/httpapi/handler/admin.go, RequestMagicLink of                  *)
(* internal/httpapi/handler/auth.go, and RateLimiter.tla.                  *)
(*                                                                         *)
(* Every HTTP request is a process.  A step is what it does under one      *)
(* mutex; all of this state is in memory and is lost with the process.     *)
(*                                                                         *)
(* Abstractions.  A link token is named by the login that made it and a    *)
(* session token by the callback that did: 32 random bytes do not repeat.  *)
(* Putting a fresh token into the pending map is no other request's        *)
(* business until its mail is out, so it shares a step with the mail.  A   *)
(* client presents, as a link or as a cookie, any token it can know: one   *)
(* that was mailed, one that was set as a cookie, or anything else (None), *)
(* which is no token of the program's, for the same reason.                *)
(***************************************************************************)
EXTENDS RateLimiter

CONSTANTS
    AdminKeys,   \* "admin-login:" + address
    IpKeys,      \* "ip:" + address
    EmailKeys    \* "email:" + address

Requests == Calls
None     == "none"   \* no token, or one that nobody made

ASSUME AdminAuthAssumption ==
    /\ AdminKeys \cup IpKeys \cup EmailKeys \subseteq Keys
    /\ None \notin Calls

VARIABLES
    pending,   \* tokens in AdminPendingLinks
    overdue,   \* links past their expiry
    sessions,  \* tokens in AdminSessions
    stale,     \* sessions past their expiry
    pc, kind,  \* of each request
    key,       \* the e-mail key that a magic link request has yet to ask for
    mailed,    \* logins whose link reached the operator's mailbox
    via,       \* the link or the session that a request was let in with
    closed     \* auxiliary: sessions signed out, expired or lost

adminVars == <<pending, overdue, sessions, stale, mailed, closed>>
reqVars   == <<pc, kind, key, via>>
vars      == <<limiterVars, adminVars, reqVars>>

Steps == {"new", "mail", "email", "session", "act", "done", "failed"}
Kinds == {"none", "login", "magic", "callback", "action", "logout"}
Busy(h) == pc[h] \notin {"new", "done", "failed"}

Init ==
    /\ LimiterInit
    /\ pending = {} /\ overdue = {} /\ sessions = {} /\ stale = {}
    /\ mailed = {} /\ closed = {}
    /\ pc = [h \in Requests |-> "new"]
    /\ kind = [h \in Requests |-> "none"]
    /\ key = [h \in Requests |-> None]
    /\ via = [h \in Requests |-> None]

Goto(h, at) == pc' = [pc EXCEPT ![h] = at] /\ UNCHANGED <<kind, key, via>>

\* A new request of kind k comes to step `at`.
Begin(h, k, at) ==
    /\ pc[h] = "new"
    /\ pc' = [pc EXCEPT ![h] = at]
    /\ kind' = [kind EXCEPT ![h] = k]

-----------------------------------------------------------------------------
(* The two handlers behind the limiter.                                    *)

\* The address is the operator's or not (matched); only then is there a
\* link, but the answer is the same.
LoginSubmit(h, k, matched) ==
    /\ \/ /\ Allow(h, k, "refused") /\ Begin(h, "login", "failed")
       \/ /\ Allow(h, k, "admitted")
          /\ Begin(h, "login", IF matched THEN "mail" ELSE "done")
    /\ UNCHANGED <<key, via, adminVars>>

\* Pending.Put, then SendLink, whose error is only logged.
SendLink(h) ==
    /\ pc[h] = "mail" /\ Goto(h, "done")
    /\ pending' = pending \cup {h}
    /\ \/ mailed' = mailed \cup {h}
       \/ UNCHANGED mailed
    /\ UNCHANGED <<limiterVars, overdue, sessions, stale, closed>>

\* Slip: the client's key is asked for twice.
RequestMagicLink_Twice(h, i, e) ==
    /\ \/ /\ Allow(h, i, "refused") /\ Begin(h, "magic", "failed")
          /\ UNCHANGED key
       \/ /\ Allow(h, i, "admitted") /\ Begin(h, "magic", "email")
          /\ key' = [key EXCEPT ![h] = i]
    /\ UNCHANGED <<via, adminVars>>

\* The address of the client is asked for first; the e-mail address is not
\* asked for when that is refused.
RequestMagicLink(h, i, e) ==
    /\ \/ /\ Allow(h, i, "refused") /\ Begin(h, "magic", "failed")
          /\ UNCHANGED key
       \/ /\ Allow(h, i, "admitted") /\ Begin(h, "magic", "email")
          /\ key' = [key EXCEPT ![h] = e]
    /\ UNCHANGED <<via, adminVars>>

\* Then Svc.RequestMagicLink makes the link, which is DeviceFlow's.
AllowEmail(h) ==
    /\ pc[h] = "email"
    /\ \/ Allow(h, key[h], "refused") /\ Goto(h, "failed")
       \/ Allow(h, key[h], "admitted") /\ Goto(h, "done")
    /\ UNCHANGED adminVars

-----------------------------------------------------------------------------
(* Links become sessions.                                                  *)

\* What a client can present: a mailed link, a session's cookie, or neither.
Known ==
    mailed \cup {s \in Requests : kind[s] = "callback" /\ pc[s] = "done"} \cup {None}

\* Slip: a valid link is not deleted, the reaper will see to it.
Consume_Kept(l) == UNCHANGED pending

\* AdminPendingLinks.Consume deletes the link, valid or not.
Consume(l) == pending' = pending \ {l}

\* Slip: the handler does not look at what Consume answers.
Consumable_Unchecked(l) == TRUE

\* What Consume answers: the link was there and has not expired.
Consumable(l) == l \in pending \ overdue

Callback(h, l) ==
    /\ Consume(l)
    /\ Begin(h, "callback", IF Consumable(l) THEN "session" ELSE "failed")
    /\ via' = IF Consumable(l) THEN [via EXCEPT ![h] = l] ELSE via
    /\ UNCHANGED <<limiterVars, key, overdue, sessions, stale, mailed, closed>>

\* Sessions.NewToken and the cookie; or the random source fails.
NewToken(h) ==
    /\ pc[h] = "session"
    /\ \/ Goto(h, "done") /\ sessions' = sessions \cup {h}
       \/ Goto(h, "failed") /\ UNCHANGED sessions
    /\ UNCHANGED <<limiterVars, pending, overdue, stale, mailed, closed>>

-----------------------------------------------------------------------------
(* Sessions let requests in.                                               *)

\* Slip: a session is valid as long as the reaper has not removed it.
Valid_Present(s) == s \in sessions

Valid(s) == s \in sessions \ stale

\* RequireAdmin, before the panel, a peer's approval or revocation
\* (action) and logout alike.  An expired token is deleted.
RequireAdmin(h, s, k) ==
    /\ Begin(h, k, IF Valid(s) THEN "act" ELSE "failed")
    /\ sessions' = IF Valid(s) THEN sessions ELSE sessions \ {s}
    /\ via' = IF Valid(s) THEN [via EXCEPT ![h] = s] ELSE via
    /\ UNCHANGED <<limiterVars, key, pending, overdue, stale, mailed, closed>>

\* Panel, ApprovePeer and RevokePeer work on the peers, which are
\* Federation's.
Act(h) ==
    /\ pc[h] = "act" /\ kind[h] = "action"
    /\ Goto(h, "done")
    /\ UNCHANGED <<limiterVars, adminVars>>

Logout(h) ==
    /\ pc[h] = "act" /\ kind[h] = "logout"
    /\ Goto(h, "done")
    /\ sessions' = sessions \ {via[h]}
    /\ closed' = closed \cup {via[h]}
    /\ UNCHANGED <<limiterVars, pending, overdue, stale, mailed>>

-----------------------------------------------------------------------------
(* Time, reapers, restart.                                                 *)

LinkLapses(l) ==
    /\ l \in pending \ overdue
    /\ overdue' = overdue \cup {l}
    /\ UNCHANGED <<limiterVars, pending, sessions, stale, mailed, closed, reqVars>>

SessionLapses(s) ==
    /\ s \in sessions \ stale
    /\ stale' = stale \cup {s}
    /\ closed' = closed \cup {s}
    /\ UNCHANGED <<limiterVars, pending, overdue, sessions, mailed, reqVars>>

ReapLinks ==
    /\ pending \cap overdue # {}
    /\ pending' = pending \ overdue
    /\ UNCHANGED <<limiterVars, overdue, sessions, stale, mailed, closed, reqVars>>

\* Slip: the reaper's comparison is turned round.
ReapSessions_Fresh ==
    /\ sessions \ stale # {}
    /\ sessions' = sessions \cap stale
    /\ UNCHANGED <<limiterVars, pending, overdue, stale, mailed, closed, reqVars>>

ReapSessions ==
    /\ sessions \cap stale # {}
    /\ sessions' = sessions \ stale
    /\ UNCHANGED <<limiterVars, pending, overdue, stale, mailed, closed, reqVars>>

\* The process ends under its requests and is started again.
Restart ==
    /\ LimiterRestart
    /\ pending' = {} /\ sessions' = {}
    /\ closed' = closed \cup sessions
    /\ pc' = [h \in Requests |-> IF Busy(h) THEN "failed" ELSE pc[h]]
    /\ UNCHANGED <<overdue, stale, mailed, kind, key, via>>

-----------------------------------------------------------------------------
Step(h) ==
    \/ \E k \in AdminKeys, matched \in BOOLEAN : LoginSubmit(h, k, matched)
    \/ \E i \in IpKeys, e \in EmailKeys : RequestMagicLink(h, i, e)
    \/ \E l \in Known : Callback(h, l)
    \/ \E s \in Known, k \in {"action", "logout"} : RequireAdmin(h, s, k)
    \/ SendLink(h) \/ AllowEmail(h) \/ NewToken(h) \/ Act(h) \/ Logout(h)

Next ==
    \/ \E h \in Requests : Step(h) \/ LinkLapses(h) \/ SessionLapses(h)
    \/ (ReapEntries \/ Tick) /\ UNCHANGED <<adminVars, reqVars>>
    \/ ReapLinks \/ ReapSessions \/ Restart

Spec == Init /\ [][Next]_vars

-----------------------------------------------------------------------------
(* Properties.                                                             *)

\* Every variable has its type.
TypeOK ==
    /\ LimiterTypeOK
    /\ pending \subseteq Requests /\ overdue \subseteq Requests
    /\ sessions \subseteq Requests /\ stale \subseteq Requests
    /\ mailed \subseteq Requests /\ closed \subseteq Requests
    /\ pc \in [Requests -> Steps]
    /\ kind \in [Requests -> Kinds]
    /\ key \in [Requests -> EmailKeys \cup {None}]
    /\ via \in [Requests -> Requests \cup {None}]

\* Callbacks whose link was accepted.
Accepted(h) == kind[h] = "callback" /\ (pc[h] = "session" \/ h \in sessions \cup closed)

\* A mailed link opens one session, however many callbacks present it at
\* once, across its expiry, the reaper and restarts: README.md calls the
\* links single-use.
OneSessionPerLink ==
    \A g, h \in Requests : Accepted(g) /\ Accepted(h) /\ via[g] = via[h] => g = h

\* Requests that a session let in.
Entered(h) == kind[h] \in {"action", "logout"} /\ pc[h] \in {"act", "done"}

Admitted(l) == \E k \in AdminKeys : answer[k][l] = "admitted"

\* Whatever tokens clients present, as links and as cookies, made up, used
\* up, expired or forgotten by a restart: a request is let in only on a
\* session that was opened with a link mailed to the operator, for a login
\* that the limiter admitted.  No path leads to a peer action without the
\* mailbox.
EntryIsEarned ==
    \A h \in Requests : Entered(h) =>
        \E s \in Requests, l \in mailed :
            /\ via[h] = s /\ kind[s] = "callback"
            /\ via[s] = l /\ kind[l] = "login" /\ Admitted(l)

\* Once a session is signed out, has expired, or its process is gone, it
\* lets in no further request; one that is past the check goes on.
EndedSessionsStayOut ==
    [][\A h \in Requests : ~Entered(h) /\ Entered(h)' => via'[h] \notin closed]_vars

\* Nobody but its owner, the clock and a restart ends a session: until then
\* it is not lost.
SessionsAreKept ==
    \A h \in Requests :
        kind[h] = "callback" /\ pc[h] = "done" => h \in sessions \cup closed

-----------------------------------------------------------------------------
(* The inductive invariant behind the properties above; see                *)
(* AdminAuthProofs.                                                        *)

\* A link belongs to a login that the limiter admitted, and is in the map or
\* the mailbox only once that login has been answered.
LinksInv ==
    /\ \A h \in Requests : pc[h] = "mail" => kind[h] = "login" /\ Admitted(h)
    /\ \A l \in mailed \cup pending : pc[l] = "done" /\ kind[l] = "login"
    /\ \A l \in mailed : Admitted(l)

\* An accepted callback's link was mailed and is gone from the map; whoever
\* has finished has, or had, a session.
SessionsInv ==
    /\ \A h \in Requests : pc[h] = "session" => kind[h] = "callback" /\ h \notin sessions \cup closed
    /\ \A h \in sessions \cup closed : kind[h] = "callback" /\ pc[h] = "done"
    /\ \A h \in Requests : Accepted(h) => via[h] \in mailed \ pending
    /\ stale \subseteq closed /\ sessions \cap closed \subseteq stale

\* What a request in progress knows.
RequestsInv ==
    \A h \in Requests :
        /\ pc[h] = "new" => kind[h] = "none"
        /\ pc[h] = "email" => kind[h] = "magic" /\ key[h] \in EmailKeys
        /\ pc[h] = "act" => kind[h] \in {"action", "logout"}
        /\ Entered(h) => via[h] \in sessions \cup closed

IInv ==
    /\ TypeOK /\ WindowsInv /\ LinksInv /\ SessionsInv /\ RequestsInv
    /\ OneSessionPerLink /\ SessionsAreKept
=============================================================================
