----------------------------- MODULE AccessStore -----------------------------
(***************************************************************************)
(* The administrators' command that provisions a user, replaces the roles, *)
(* disables or reactivates (persistence/d1-application-access-repository   *)
(* .ts).  db.accounts maps a user to a status and roles; db.accessCommands *)
(* is the audit, in the order the commands were stored.  An account also   *)
(* has a history that only properties read: the roles that launches and    *)
(* rosters gave it, each with how many commands were stored by then (the   *)
(* rows of application_role_assignments have assigned_at_utc).             *)
(***************************************************************************)
EXTENDS HostedRequests

AccessCommand(r) ==
    [command |-> request[r].command, user |-> request[r].user, status |-> request[r].status,
     roles |-> request[r].roles, by |-> seen[r].caller.user]

StoredAccess(command) ==
    {i \in DOMAIN db.accessCommands : db.accessCommands[i].command = command}

\* A stored command is replayed to the administrator who gave it, with the content it had.
ReplayAccess(r, i) ==
    IF db.accessCommands[i] = AccessCommand(r)
    THEN Done(r, AccessCommand(r))
    ELSE Refuse(r, "ACCESS_COMMAND_CONFLICT")

FindAccessCommand(r) ==
    /\ Query(r, "findAccessCommand")
    /\ \/ StoredAccess(request[r].command) = {} /\ Continue(r, "findUser")
       \/ \E i \in StoredAccess(request[r].command) : ReplayAccess(r, i)
    /\ UNCHANGED db

\* Administrators keep their own access.  The check is about the caller's account only.
FindUser(r) ==
    LET q == request[r]
        givesUp == q.status # "active" \/ "administrator" \notin q.roles
    IN  /\ Query(r, "findUser")
        /\ IF q.user = seen[r].caller.user /\ givesUp
           THEN Refuse(r, "SELF_ADMINISTRATION_FORBIDDEN")
           ELSE Keep(r, "storeAccess", [known |-> q.user \in DOMAIN db.accounts])
        /\ UNCHANGED db

\* Mutant: the batch adds the new roles without deleting the old ones.
GrantedOnTop(r, accounts) ==
    LET q == request[r]
    IN  IF q.user \in DOMAIN accounts
        THEN [accounts EXCEPT ![q.user].status = q.status, ![q.user].roles = @ \union q.roles]
        ELSE With(accounts, q.user, [status |-> q.status, roles |-> q.roles,
                                      origin |-> "administrator", gifts |-> {}])

Granted(r, accounts) ==
    LET q == request[r]
    IN  IF q.user \in DOMAIN accounts
        THEN [accounts EXCEPT ![q.user].status = q.status, ![q.user].roles = q.roles]
        ELSE With(accounts, q.user, [status |-> q.status, roles |-> q.roles,
                                      origin |-> "administrator", gifts |-> {}])

\* The batch fails when the command is stored already, or when it meant to insert the user
\* and another request did.  A driver may report that failure or throw it: a report is
\* followed by a second look for the command.
StoreAccess(r) ==
    LET q == request[r]
        rejected == \/ StoredAccess(q.command) # {}
                    \/ seen[r].known # (q.user \in DOMAIN db.accounts)
    IN  /\ Query(r, "storeAccess")
        /\ \/ /\ ~rejected
              /\ db' = [db EXCEPT !.accounts = Granted(r, @),
                                  !.accessCommands = Append(@, AccessCommand(r))]
              /\ Done(r, AccessCommand(r))
           \/ /\ rejected
              /\ Continue(r, "findConcurrentAccess") \/ Refuse(r, "DATABASE_ERROR")
              /\ UNCHANGED db

FindConcurrentAccess(r) ==
    /\ Query(r, "findConcurrentAccess")
    /\ \/ StoredAccess(request[r].command) = {} /\ Refuse(r, "ACCESS_STORAGE_FAILED")
       \/ \E i \in StoredAccess(request[r].command) : ReplayAccess(r, i)
    /\ UNCHANGED db

Administer(r) ==
    \/ FindAccessCommand(r)
    \/ FindUser(r)
    \/ StoreAccess(r)
    \/ FindConcurrentAccess(r)

=============================================================================
