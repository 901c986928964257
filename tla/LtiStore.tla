------------------------------- MODULE LtiStore -------------------------------
(***************************************************************************)
(* Launches from the learning platform, the sessions they open, deep       *)
(* linking and roster synchronisation (hosted/lti-authentication.ts,       *)
(* persistence/d1-lti-authentication-repository.ts and d1-lti-nrps-        *)
(* repository.ts, and the routes above them).                              *)
(*                                                                         *)
(* A state and a session token are random, so each is named by the request *)
(* that makes it.  A platform's subject and the user derived from it are   *)
(* one value.  The platform's token is taken as verified: one that is not  *)
(* only ends the request.                                                  *)
(***************************************************************************)
EXTENDS HostedRequests

CONSTANT Rosters    \* what the platform may have as roster: course |-> member |-> status

-----------------------------------------------------------------------------
(* Login and launch *)

\* States that are consumed or expired are deleted when the next login begins.
Login(r) ==
    LET live == {s \in DOMAIN db.states : ~db.states[s].consumed /\ ~db.states[s].expired}
    IN  /\ Query(r, "login")
        /\ db' = [db EXCEPT !.states =
                     With([s \in live |-> @[s]], r, [consumed |-> FALSE, expired |-> FALSE])]
        /\ Done(r, r)

Usable(s) == s \in DOMAIN db.states /\ ~db.states[s].consumed /\ ~db.states[s].expired

FindState(r) ==
    /\ Query(r, "findState")
    /\ IF Usable(request[r].state) THEN Continue(r, "consumeState") ELSE Refuse(r, "LTI_LOGIN_STATE_INVALID")
    /\ UNCHANGED db

AfterState(r) == IF request[r].role = "learner" THEN "findLaunchAssignment" ELSE "findIdentity"

\* Mutant: the update is not conditional on the state being unconsumed.
ConsumeAgain(r) ==
    LET s == request[r].state
    IN  /\ Query(r, "consumeState")
        /\ IF s \in DOMAIN db.states
           THEN Continue(r, AfterState(r)) /\ db' = [db EXCEPT !.states[s].consumed = TRUE]
           ELSE Refuse(r, "LTI_LOGIN_STATE_INVALID") /\ UNCHANGED db

\* Of the requests that read an unconsumed state, the update lets one pass.
ConsumeState(r) ==
    LET s == request[r].state
    IN  /\ Query(r, "consumeState")
        /\ IF Usable(s)
           THEN Continue(r, AfterState(r)) /\ db' = [db EXCEPT !.states[s].consumed = TRUE]
           ELSE Refuse(r, "LTI_LOGIN_STATE_INVALID") /\ UNCHANGED db

\* The assignment must be of the course the learner comes from, closed or not.
FindLaunchAssignment(r) ==
    LET q == request[r]
    IN  /\ Query(r, "findLaunchAssignment")
        /\ IF q.assignment \in DOMAIN db.assignments /\ db.assignments[q.assignment].context = q.context
           THEN Continue(r, "findIdentity")
           ELSE Refuse(r, "LTI_ASSIGNMENT_ACCESS_DENIED")
        /\ UNCHANGED db

FindIdentity(r) ==
    LET user == request[r].subject
    IN  /\ Query(r, "findIdentity")
        /\ IF user \in DOMAIN db.accounts /\ db.accounts[user].status # "active"
           THEN Refuse(r, "LTI_IDENTITY_DISABLED")
           ELSE Keep(r, "provisionUser", [known |-> user \in DOMAIN db.accounts])
        /\ UNCHANGED db

\* INSERT OR IGNORE: an account that exists keeps its status and gains the role, also one
\* that an administrator took from it.
WithRole(accounts, users, role) ==
    LET gift == [role |-> role, after |-> Len(db.accessCommands)]
    IN  Merged([u \in users |->
                   IF u \in DOMAIN accounts
                   THEN [accounts[u] EXCEPT !.roles = @ \union {role}, !.gifts = @ \union {gift}]
                   ELSE [status |-> "active", roles |-> {role}, origin |-> "lti",
                         gifts |-> {gift}]], accounts)

Enrolled(r, assignments) ==
    IF request[r].role = "learner"
    THEN [assignments EXCEPT ![request[r].assignment].learners = @ \union {request[r].subject}]
    ELSE assignments

\* One batch in the code for a known identity and one for a new one, to the same effect.
ProvisionUser(r) ==
    LET q == request[r]
    IN  /\ Query(r, "provisionUser")
        /\ db' = [db EXCEPT !.accounts = WithRole(@, {q.subject}, q.role),
                            !.assignments = Enrolled(r, @)]
        /\ Continue(r, "createSession")

\* Finished sessions are deleted when the next one begins.
CreateSession(r) ==
    LET q == request[r]
        session == [user |-> q.subject, role |-> q.role, type |-> q.type, context |-> q.context,
                    assignment |-> q.assignment, revoked |-> FALSE, expired |-> FALSE,
                    response |-> << >>]
        live == {t \in DOMAIN db.sessions : OpenSession(t)}
    IN  /\ Query(r, "createSession")
        /\ db' = [db EXCEPT !.sessions = With([t \in live |-> @[t]], r, session)]
        /\ Done(r, r)

Logout(r) ==
    LET t == request[r].session
    IN  /\ Query(r, "logout")
        /\ db' = IF t \in DOMAIN db.sessions THEN [db EXCEPT !.sessions[t].revoked = TRUE] ELSE db
        /\ Done(r, Null)

-----------------------------------------------------------------------------
(* Deep linking: the one selection of a session, signed once *)

\* A finished selection answers the same selection with the response it was given.
ReplaySelection(r) ==
    LET response == db.sessions[request[r].session].response
    IN  IF response[1].selection = request[r].selection
        THEN Done(r, response[1])
        ELSE Refuse(r, "LTI_DEEP_LINK_COMPLETED")

IsComplete(t) == db.sessions[t].response # << >>

FindSelection(r) ==
    LET t == request[r].session
    IN  /\ Query(r, "findSelection")
        /\ CASE ~ActiveContext(t) -> Refuse(r, "LTI_SESSION_REQUIRED")
             [] ActiveContext(t) /\ IsComplete(t) -> ReplaySelection(r)
             [] OTHER -> Continue(r, IF request[r].selection = Null
                                     THEN "findPending" ELSE "findLinkAssignment")
        /\ UNCHANGED db

FindLinkAssignment(r) ==
    LET a == request[r].selection
    IN  /\ Query(r, "findLinkAssignment")
        /\ IF /\ a \in DOMAIN db.assignments
              /\ db.assignments[a].closedBy = Null
              /\ db.assignments[a].context = seen[r].caller.context
           THEN Continue(r, "findPending")
           ELSE Refuse(r, "LTI_ASSIGNMENT_ACCESS_DENIED")
        /\ UNCHANGED db

FindPending(r) ==
    LET t == request[r].session
    IN  /\ Query(r, "findPending")
        /\ CASE ~ActiveContext(t) -> Refuse(r, "LTI_LOGIN_STATE_INVALID")
             [] ActiveContext(t) /\ IsComplete(t) -> ReplaySelection(r)
             [] OTHER -> Continue(r, "completeLink")
        /\ UNCHANGED db

\* The signed response is stored with the selection, once; a second one looks at the first.
CompleteLink(r) ==
    LET t == request[r].session
        response == [selection |-> request[r].selection, signed |-> r]
    IN  /\ Query(r, "completeLink")
        /\ IF OpenSession(t) /\ ~IsComplete(t)
           THEN /\ db' = [db EXCEPT !.sessions[t].response = <<response>>]
                /\ Done(r, response)
           ELSE Continue(r, "findConcurrentLink") /\ UNCHANGED db

FindConcurrentLink(r) ==
    LET t == request[r].session
    IN  /\ Query(r, "findConcurrentLink")
        /\ IF ActiveContext(t) /\ IsComplete(t)
           THEN ReplaySelection(r)
           ELSE Refuse(r, "LTI_LOGIN_STATE_INVALID")
        /\ UNCHANGED db

-----------------------------------------------------------------------------
(* Roster synchronisation *)

StoredSync(r, snapshot) ==
    [context |-> seen[r].context, snapshot |-> snapshot, by |-> seen[r].caller.user]

\* A stored synchronisation is answered without asking the platform again.
FindSync(r) ==
    LET q == request[r]
        context == seen[r].caller.context
    IN  /\ Query(r, "findSync")
        /\ CASE ~ActiveContext(q.session) -> Refuse(r, "LTI_SESSION_REQUIRED")
             [] ActiveContext(q.session) /\ q.sync \notin DOMAIN db.syncs ->
                    Keep(r, "fetchRoster", [context |-> context])
             [] OTHER -> IF /\ db.syncs[q.sync].context = context
                            /\ db.syncs[q.sync].by = seen[r].caller.user
                         THEN Done(r, db.syncs[q.sync].snapshot)
                         ELSE Refuse(r, "LTI_NRPS_SYNC_CONFLICT")
        /\ UNCHANGED db

\* Page after page from the platform, whatever roster it has by then.
FetchRoster(r) ==
    /\ Query(r, "fetchRoster")
    /\ \E roster \in Rosters : Keep(r, "findSameSync", [snapshot |-> roster[seen[r].context]])
    /\ UNCHANGED db

FindSameSync(r) ==
    LET q == request[r]
    IN  /\ Query(r, "findSameSync")
        /\ CASE q.sync \notin DOMAIN db.syncs -> Continue(r, "synchronize")
             [] q.sync \in DOMAIN db.syncs /\ db.syncs[q.sync] = StoredSync(r, seen[r].snapshot) ->
                    Done(r, seen[r].snapshot)
             [] OTHER -> Refuse(r, "LTI_NRPS_SYNC_CONFLICT")
        /\ UNCHANGED db

\* Mutant: members the snapshot no longer has keep the status they had.
MembersKept(r, members) ==
    LET snapshot == seen[r].snapshot
    IN  Merged([m \in {[context |-> seen[r].context, user |-> u] : u \in DOMAIN snapshot} |->
                   [status |-> snapshot[m.user], sync |-> request[r].sync]], members)

\* The snapshot's members as it has them, and those of the course it omits inactive.
Members(r, members) ==
    LET snapshot == seen[r].snapshot
        context == seen[r].context
        there == {[context |-> context, user |-> u] : u \in DOMAIN snapshot}
        known == {m \in DOMAIN members : m.context = context}
    IN  Merged([m \in there \union known |->
                   [status |-> IF m.user \in DOMAIN snapshot THEN snapshot[m.user] ELSE "inactive",
                    sync |-> request[r].sync]], members)

\* The synchronisation's identifier is the key of the first row of the batch.
Synchronize(r) ==
    LET q == request[r]
        snapshot == seen[r].snapshot
    IN  /\ Query(r, "synchronize")
        /\ IF q.sync \in DOMAIN db.syncs
           THEN Refuse(r, "LTI_NRPS_STORAGE_FAILED") /\ UNCHANGED db
           ELSE /\ db' = [db EXCEPT !.syncs = With(@, q.sync, StoredSync(r, snapshot)),
                                    !.accounts = WithRole(@, DOMAIN snapshot, "learner"),
                                    !.members = Members(r, @)]
                /\ Done(r, snapshot)

Launch(r) ==
    \/ Login(r)
    \/ FindState(r)
    \/ ConsumeState(r)
    \/ FindLaunchAssignment(r)
    \/ FindIdentity(r)
    \/ ProvisionUser(r)
    \/ CreateSession(r)
    \/ Logout(r)

Link(r) ==
    \/ FindSelection(r)
    \/ FindLinkAssignment(r)
    \/ FindPending(r)
    \/ CompleteLink(r)
    \/ FindConcurrentLink(r)

SyncRoster(r) ==
    \/ FindSync(r)
    \/ FetchRoster(r)
    \/ FindSameSync(r)
    \/ Synchronize(r)

=============================================================================
