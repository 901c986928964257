--------------------------- MODULE HostedRequests ---------------------------
(***************************************************************************)
(* The requests the hosted worker (sites/worker.ts) has in flight at one   *)
(* time, and how each of them finds out who is calling.                    *)
(*                                                                         *)
(* A handler is a chain of database queries with other requests between    *)
(* any two of them: at[r] is the query that request r makes next, seen[r]  *)
(* what it has read and kept, answer[r] its reply.  One action is one      *)
(* query.  A query of columns that never change is made together with the  *)
(* next one.  A batch of statements is one transaction of the database.    *)
(* A request that dies, loses its database or is cut off between two       *)
(* queries is one that never takes its next step; a client that repeats a  *)
(* command after a lost reply is a second request with the same command.   *)
(***************************************************************************)
EXTENDS Naturals, Sequences, FiniteSets

CONSTANTS
    Null,           \* no session, no command, no value
    Bootstrap,      \* the users whose address the deployment allows to bootstrap
    Traffic         \* name |-> [requests |-> ..., tables |-> ...]

VARIABLES
    request,        \* name |-> what the request asks for, fixed
    at,             \* name |-> its next query
    seen,           \* name |-> what it has read
    answer,         \* name |-> its reply
    db              \* the tables of the D1 database

platform == <<request, at, seen, answer, db>>

\* A table with a row put in under key, in the place of one that was there; and several.
With(table, key, row) ==
    [k \in DOMAIN table \union {key} |-> IF k = key THEN row ELSE table[k]]
Merged(rows, table) ==
    [k \in DOMAIN table \union DOMAIN rows |-> IF k \in DOMAIN rows THEN rows[k] ELSE table[k]]

InFlight == DOMAIN request

Query(r, name) == at[r] = name /\ answer[r].status = "pending"

Keep(r, next, facts) ==
    /\ at' = [at EXCEPT ![r] = next]
    /\ seen' = [seen EXCEPT ![r] = Merged(facts, @)]
    /\ UNCHANGED <<request, answer>>

Continue(r, next) == Keep(r, next, << >>)

Reply(r, reply) ==
    /\ answer' = [answer EXCEPT ![r] = reply]
    /\ at' = [at EXCEPT ![r] = "answered"]
    /\ seen' = [seen EXCEPT ![r] = << >>]
    /\ UNCHANGED request

Done(r, result) == Reply(r, [status |-> "done", result |-> result])

Refuse(r, code) == Reply(r, [status |-> "refused", code |-> code])

-----------------------------------------------------------------------------
(* Who is calling *)

\* The roles a route admits; the routes of the learning platform check their session themselves.
AllowedRoles(kind) ==
    CASE kind \in {"import", "publish", "publishPosted", "retire"} -> {"scenario-author", "administrator"}
      [] kind = "administer" -> {"administrator"}
      [] kind \in {"create", "close", "release", "moderate"} -> {"instructor", "administrator"}
      [] kind = "start" -> {"learner", "instructor", "administrator"}
      [] kind = "rate" -> {"instructor", "rater", "administrator"}
      [] kind \in {"sync", "link"} -> {"instructor"}

FirstQuery(kind) ==
    CASE kind = "import" -> "saveDraft"
      [] kind = "publish" -> "findDraft"
      [] kind = "publishPosted" -> "saveDraft"
      [] kind = "retire" -> "findRetirement"
      [] kind = "administer" -> "findAccessCommand"
      [] kind = "create" -> "findContent"
      [] kind \in {"close", "release"} -> "findAssignment"
      [] kind = "start" -> "findAssignment"
      [] kind \in {"rate", "moderate"} -> "findRun"
      [] kind = "sync" -> "findSync"
      [] kind = "link" -> "findSelection"

\* A session is open until it is revoked or expires.  It identifies its user while that user
\* is active and still holds its role; the service contexts of it do not ask for the role.
OpenSession(token) ==
    /\ token \in DOMAIN db.sessions
    /\ ~db.sessions[token].revoked
    /\ ~db.sessions[token].expired

ActiveContext(token) ==
    OpenSession(token) /\ db.accounts[db.sessions[token].user].status = "active"

ActiveSession(token) ==
    ActiveContext(token) /\ db.sessions[token].role \in db.accounts[db.sessions[token].user].roles

\* A deep-linking launch may choose one assignment and nothing else, and a roster is
\* synchronised from a resource link.
LaunchServes(kind, token) ==
    token = Null \/ (kind = "link") = (db.sessions[token].type = "deep-linking")

\* The caller, if the request has one: the session first, then the verified address.
Callers(r) ==
    LET q == request[r]
    IN  IF q.session # Null
        THEN {[user |-> db.sessions[t].user, roles |-> {db.sessions[t].role}, session |-> t,
               context |-> db.sessions[t].context, assignment |-> db.sessions[t].assignment] :
                  t \in {t \in {q.session} : ActiveSession(t)}}
        ELSE {[user |-> u, roles |-> db.accounts[u].roles, session |-> Null,
               context |-> Null, assignment |-> Null] :
                  u \in {u \in {q.by} \cap DOMAIN db.accounts :
                             /\ db.accounts[u].status = "active"
                             /\ db.accounts[u].roles # {}}}

Authenticate(r) ==
    /\ at[r] \in {"authenticate", "authenticateAgain"}
    /\ answer[r].status = "pending"
    /\ \/ /\ Callers(r) = {}
          /\ IF /\ at[r] = "authenticate"
                /\ request[r].session = Null
                /\ request[r].by \in Bootstrap
             THEN Continue(r, "findBootstrapUser")
             ELSE Refuse(r, "APPLICATION_ACCESS_NOT_PROVISIONED")
       \/ \E caller \in Callers(r) :
             IF \/ caller.roles \cap AllowedRoles(request[r].kind) = {}
                \/ ~LaunchServes(request[r].kind, caller.session)
             THEN Refuse(r, "APPLICATION_ROLE_REQUIRED")
             ELSE Keep(r, FirstQuery(request[r].kind), [caller |-> caller])
    /\ UNCHANGED db

BootstrapRoles == {"administrator", "instructor", "scenario-author"}

FindBootstrapUser(r) ==
    /\ Query(r, "findBootstrapUser")
    /\ Keep(r, "provision", [known |-> request[r].by \in DOMAIN db.accounts])
    /\ UNCHANGED db

\* INSERT OR IGNORE: the roles are added to those the user has.  An administrator gives one
\* address another identifier than bootstrapping does, so a batch that meant to insert the
\* user fails when an administrator was first: its roles then name no user.
ProvisionBootstrapAdministrator(r) ==
    LET user == request[r].by
        exists == user \in DOMAIN db.accounts
        account == [status |-> "active", roles |-> BootstrapRoles, origin |-> "bootstrap",
                    gifts |-> {}]
        promoted == [db.accounts[user] EXCEPT !.roles = @ \union BootstrapRoles]
    IN  /\ Query(r, "provision")
        /\ IF exists /\ ~seen[r].known /\ db.accounts[user].origin # "bootstrap"
           THEN Refuse(r, "BOOTSTRAP_FAILED") /\ UNCHANGED db
           ELSE /\ Continue(r, "authenticateAgain")
                /\ db' = [db EXCEPT !.accounts =
                             IF exists THEN [@ EXCEPT ![user] = promoted]
                             ELSE With(@, user, account)]

Identify(r) ==
    \/ Authenticate(r)
    \/ FindBootstrapUser(r)
    \/ ProvisionBootstrapAdministrator(r)

=============================================================================
