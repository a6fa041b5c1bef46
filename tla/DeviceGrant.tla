----------------------------- MODULE DeviceGrant -----------------------------
(***************************************************************************)
(* What the sign-in service promises of device sessions and tokens, with   *)
(* no requests, links, retries or half-done work in sight: a session is    *)
(* approved once, by a user known to own an address; it is used up once;   *)
(* its node is bound once, to that user; and a token is issued to a known  *)
(* user, a node's token only to the approver of the node's session.        *)
(* DeviceFlow implements it.                                               *)
(***************************************************************************)
CONSTANTS Sessions, Users, None

VARIABLES
    known,    \* the users who have proved that they own their address
    status,   \* "absent", "pending", "approved" or "consumed"
    approver, \* the user who approved a session, or None
    owner,    \* the user a session's node is bound to, or None
    issued    \* the tokens: <<user, the session of the node, or None>>

vars == <<known, status, approver, owner, issued>>

Init ==
    /\ known = {}
    /\ status = [s \in Sessions |-> "absent"]
    /\ approver = [s \in Sessions |-> None]
    /\ owner = [s \in Sessions |-> None]
    /\ issued = {}

Start(s) ==
    /\ status[s] = "absent"
    /\ status' = [status EXCEPT ![s] = "pending"]
    /\ UNCHANGED <<known, approver, owner, issued>>

\* The user proves to own the address, and may be signed in at once.
Verify(u) ==
    /\ known' = known \cup {u}
    /\ issued' \in {issued, issued \cup {<<u, None>>}}
    /\ UNCHANGED <<status, approver, owner>>

Approve(s, u) ==
    /\ status[s] = "pending" /\ u \in known
    /\ status' = [status EXCEPT ![s] = "approved"]
    /\ approver' = [approver EXCEPT ![s] = u]
    /\ UNCHANGED <<known, owner, issued>>

Consume(s) ==
    /\ status[s] = "approved"
    /\ status' = [status EXCEPT ![s] = "consumed"]
    /\ UNCHANGED <<known, approver, owner, issued>>

Issue(u) ==
    /\ u \in known
    /\ issued' = issued \cup {<<u, None>>}
    /\ UNCHANGED <<known, status, approver, owner>>

\* The approver's own token and the node's, together.
IssueForNode(s) ==
    /\ approver[s] # None
    /\ issued' = issued \cup {<<approver[s], None>>, <<approver[s], s>>}
    /\ UNCHANGED <<known, status, approver, owner>>

Bind(s) ==
    /\ owner[s] = None /\ approver[s] # None
    /\ owner' = [owner EXCEPT ![s] = approver[s]]
    /\ UNCHANGED <<known, status, approver, issued>>

Next ==
    \/ \E s \in Sessions : Start(s) \/ Consume(s) \/ IssueForNode(s) \/ Bind(s)
    \/ \E u \in Users : Verify(u) \/ Issue(u)
    \/ \E s \in Sessions, u \in Users : Approve(s, u)

Spec == Init /\ [][Next]_vars

-----------------------------------------------------------------------------
(* What follows for the owner of a node.                                   *)

\* A node that is bound, and a session that is approved, stay with their
\* user for good, and a token once issued is never somebody else's.
OwnershipIsFinal ==
    [][/\ \A s \in Sessions :
             /\ owner[s] # None => owner'[s] = owner[s]
             /\ approver[s] # None => approver'[s] = approver[s]
       /\ issued \subseteq issued']_vars
=============================================================================
