---------------------------- MODULE HostedPlatform ----------------------------
(***************************************************************************)
(* The hosted platform: the stores of packs, assignments, access and       *)
(* launches behind one worker and one database, with several requests in   *)
(* flight.  A behaviour plays one entry of Traffic, a situation of the     *)
(* database and the requests that meet in it.  No request has to finish:   *)
(* the worker may be stopped after any query.                              *)
(***************************************************************************)
EXTENDS AssignmentStore, AccessStore, LtiStore

Answered(r) == answer[r].status = "done"

StartsAt(q) ==
    CASE q.kind = "login" -> "login"
      [] q.kind = "launch" -> "findState"
      [] q.kind = "logout" -> "logout"
      [] OTHER -> "authenticate"

PlatformInit ==
    \E batch \in DOMAIN Traffic :
        /\ request = Traffic[batch].requests
        /\ db = Traffic[batch].tables
        /\ at = [r \in DOMAIN Traffic[batch].requests |-> StartsAt(Traffic[batch].requests[r])]
        /\ seen = [r \in DOMAIN Traffic[batch].requests |-> << >>]
        /\ answer = [r \in DOMAIN Traffic[batch].requests |-> [status |-> "pending"]]

\* The learner's last command completes the run (GenericRun).
CompleteRun(run) ==
    /\ ~db.runs[run].completed
    /\ db' = [db EXCEPT !.runs[run].completed = TRUE]
    /\ UNCHANGED <<request, at, seen, answer>>

\* Only states that are still waiting and sessions that are still open are worth expiring.
StateExpires(s) ==
    /\ Usable(s)
    /\ db' = [db EXCEPT !.states[s].expired = TRUE]
    /\ UNCHANGED <<request, at, seen, answer>>

SessionExpires(t) ==
    /\ OpenSession(t)
    /\ db' = [db EXCEPT !.sessions[t].expired = TRUE]
    /\ UNCHANGED <<request, at, seen, answer>>

PlatformNext ==
    \/ \E r \in InFlight :
           \/ Identify(r)
           \/ ManagePacks(r)
           \/ CreateAssignment(r)
           \/ RunAssignment(r)
           \/ Review(r)
           \/ Administer(r)
           \/ Launch(r)
           \/ Link(r)
           \/ SyncRoster(r)
    \/ \E run \in DOMAIN db.runs : CompleteRun(run)
    \/ \E s \in DOMAIN db.states : StateExpires(s)
    \/ \E t \in DOMAIN db.sessions : SessionExpires(t)

PlatformSpec == PlatformInit /\ [][PlatformNext]_platform

-----------------------------------------------------------------------------
(* What the tables hold and what is asked of them, to begin with and always *)

HasColumns(table, names) == \A k \in DOMAIN table : names \subseteq DOMAIN table[k]

\* Every row has its columns, and one that names another finds it.
TablesAreSound ==
    /\ {"accounts", "accessCommands", "packs", "assignments", "runs", "ratings", "moderations",
        "states", "sessions", "members", "syncs"} \subseteq DOMAIN db
    /\ HasColumns(db.packs, {"status", "content", "retiredBy"})
    /\ HasColumns(db.assignments, {"command", "pack", "content", "context", "by", "learners",
                                   "raters", "closedBy", "releasedBy"})
    /\ HasColumns(db.runs, {"command", "assignment", "learner", "content", "completed"})
    /\ HasColumns(db.states, {"consumed", "expired"})
    /\ HasColumns(db.sessions, {"revoked", "expired", "response"})
    /\ IsFiniteSet(db.ratings) /\ IsFiniteSet(db.moderations)
    /\ db.accessCommands \in Seq({db.accessCommands[i] : i \in DOMAIN db.accessCommands})
    /\ \A p \in DOMAIN db.packs :
           /\ db.packs[p].status \in Mutable \union {"published", "retired"}
           /\ db.packs[p].status # "retired" => db.packs[p].retiredBy = Null
    /\ \A run \in DOMAIN db.runs : db.runs[run].assignment \in DOMAIN db.assignments
    /\ \A row \in db.ratings \union db.moderations : row.run \in DOMAIN db.runs
    /\ \A m \in DOMAIN db.members : db.members[m].sync \in DOMAIN db.syncs
    /\ \A t \in DOMAIN db.sessions :
           db.sessions[t].response # << >> =>
               db.sessions[t].response = <<db.sessions[t].response[1]>>

\* Accounts have their columns, commands are about accounts, and the history of gifts does
\* not run ahead of the commands.
AccountsAreSound ==
    /\ HasColumns(db.accounts, {"status", "roles", "origin", "gifts"})
    /\ \A i \in DOMAIN db.accessCommands : db.accessCommands[i].user \in DOMAIN db.accounts
    /\ \A u \in DOMAIN db.accounts : \A gift \in db.accounts[u].gifts :
           gift.after \in 0..Len(db.accessCommands)

\* The state a login is going to make and the session a launch is going to open have names
\* of their own.
NamesAreNew ==
    \A t \in (DOMAIN db.states \union DOMAIN db.sessions) \intersect InFlight :
        answer[t].status # "pending"

\* Requests are of the kinds the worker has routes for, and commands have identifiers.
RequestsAreSound ==
    \A r \in InFlight :
        /\ request[r].kind \in
               {"import", "publish", "publishPosted", "retire", "administer", "create", "close",
                "release", "start", "rate", "moderate", "login", "launch", "logout", "link", "sync"}
        /\ request[r].kind \in {"retire", "close", "release"} => request[r].command # Null
        /\ request[r].kind \in {"rate", "moderate"} => request[r].expected \in Nat

-----------------------------------------------------------------------------
(* Safety *)

\* What a success answer says stays true: nobody is told that something was stored which
\* another request's write then undid or had kept out.  Drafts are the exception.
AnswerStands(r) ==
    LET q == request[r]
        result == answer[r].result
    IN  CASE q.kind \in {"publish", "publishPosted"} ->
               /\ PackStatus(q.pack) \in {"published", "retired"}
               /\ db.packs[q.pack].content = result
          [] q.kind = "retire" -> db.packs[q.pack].retiredBy = q.command
          [] q.kind = "administer" -> \E i \in DOMAIN db.accessCommands : db.accessCommands[i] = result
          [] q.kind = "create" ->
               /\ db.assignments[q.assignment].command = q.command
               /\ db.assignments[q.assignment].content = result
          [] q.kind = "close" -> db.assignments[q.assignment].closedBy = q.command
          [] q.kind = "release" -> db.assignments[q.assignment].releasedBy = q.command
          [] q.kind = "start" -> db.runs[q.run].command = q.command /\ db.runs[q.run].learner = result
          [] q.kind \in {"rate", "moderate"} -> result \in db[Table(r)]
          [] q.kind = "link" -> \A t \in {q.session} \cap DOMAIN db.sessions : db.sessions[t].response = <<result>>
          [] q.kind = "sync" -> db.syncs[q.sync].snapshot = result
          [] OTHER -> TRUE

AnswersStand == \A r \in InFlight : Answered(r) => AnswerStands(r)

\* Runs are started only from published content, and the pack a service loads for a run is
\* the one the run was created from: every later request reads it again from the store.
\* Its learner is on the roster, so that findForRun never turns a stored run away.
RunsPlayAssignedContent ==
    \A run \in DOMAIN db.runs :
        LET a == db.assignments[db.runs[run].assignment]
        IN  /\ PackStatus(a.pack) \in {"published", "retired"}
            /\ db.packs[a.pack].content = db.runs[run].content
            /\ a.content = db.runs[run].content
            /\ db.runs[run].learner \in a.learners

\* The revisions of a criterion are numbered from one without a gap or a repetition, however
\* many raters based theirs on the same one, and a moderation names stored ratings of its
\* own criterion.
RevisionsAreNumbered ==
    /\ \A table \in {"ratings", "moderations"} : \A row \in db[table] :
           LET rows == RevisionsOf(table, row.run, row.criterion)
           IN  /\ {x.revision : x \in rows} = 1 .. Cardinality(rows)
               /\ db.runs[row.run].completed
    /\ \A row \in db.moderations : \A source \in row.sources :
           \E x \in RevisionsOf("ratings", row.run, row.criterion) : x.command = source

\* The stored command i is the last for its user.
IsLastFor(user, i) ==
    /\ db.accessCommands[i].user = user
    /\ \A j \in DOMAIN db.accessCommands : j > i => db.accessCommands[j].user # user

\* The roles that launches and rosters gave a user since the command i was stored.
GivenSince(user, i) ==
    {gift.role : gift \in {gift \in db.accounts[user].gifts : gift.after >= i}}

\* The last command stored for a user sets the status and the roles.  What the user may
\* beyond it came later, by a launch or a roster, or is what a bootstrap address is given:
\* of the roles the user had before, none outlives the command.  (The code lets a launch or
\* a roster give again what an administrator has just taken.)
AccessIsAsCommanded ==
    \A u \in DOMAIN db.accounts : \A i \in DOMAIN db.accessCommands :
        LET last == db.accessCommands[i]
            account == db.accounts[u]
            extra == IF u \in Bootstrap THEN BootstrapRoles ELSE {}
        IN  IsLastFor(u, i) =>
                /\ account.status = last.status
                /\ last.roles \subseteq account.roles
                /\ account.roles \subseteq last.roles \union extra \union GivenSince(u, i)

\* A role that was given without a command stays until a later command withholds it ...
GiftsAreKept ==
    \A u \in DOMAIN db.accounts : \A gift \in db.accounts[u].gifts :
        \/ gift.role \in db.accounts[u].roles
        \/ \E i \in DOMAIN db.accessCommands : i > gift.after /\ IsLastFor(u, i)

\* ... and was a launch's own, of a launch that is past its state and its assignment, or a
\* learner's who is in a stored roster.
GiftsAreEarned ==
    \A u \in DOMAIN db.accounts : \A gift \in db.accounts[u].gifts :
        \/ \E r \in InFlight :
               /\ request[r].kind = "launch"
               /\ request[r].subject = u /\ request[r].role = gift.role
               /\ at[r] = "createSession" \/ Answered(r)
        \/ /\ gift.role = "learner"
           /\ \E s \in DOMAIN db.syncs : u \in DOMAIN db.syncs[s].snapshot

\* One login opens at most one session, whoever presents its state again, ...
OneSessionPerLogin ==
    \A r, s \in InFlight :
        /\ request[r].kind = "launch" /\ Answered(r)
        /\ request[s].kind = "launch" /\ Answered(s)
        /\ request[r].state = request[s].state
        => r = s

\* ... and the learner it lets in is on the roster of the assignment and was given the
\* role, which a command may have taken again since (the session then identifies nobody).
SessionsAreEarned ==
    /\ OneSessionPerLogin
    /\ GiftsAreKept /\ GiftsAreEarned
    /\ \A t \in DOMAIN db.sessions :
           LET session == db.sessions[t]
           IN  session.role = "learner" =>
                   /\ session.user \in db.assignments[session.assignment].learners
                   /\ \E gift \in db.accounts[session.user].gifts : gift.role = "learner"

\* The members of a course are one snapshot of it, the last that was stored: never the
\* union of two.
MembersAreOneSnapshot ==
    \A m \in DOMAIN db.members :
        LET sync == db.members[m].sync
            snapshot == db.syncs[sync].snapshot
        IN  /\ \A n \in DOMAIN db.members : n.context = m.context => db.members[n].sync = sync
            /\ db.members[m].status = (IF m.user \in DOMAIN snapshot THEN snapshot[m.user] ELSE "inactive")

-----------------------------------------------------------------------------
(* What no step does *)

\* What was decided once stays as it was decided, by one command.  Published content never
\* changes and only retires; an assignment keeps its content and its learners, is closed once
\* and releases its feedback once; a session keeps the selection it returned to the platform.
DecisionsAreFinal ==
    [][/\ \A p \in {p \in DOMAIN db.packs : db.packs[p].status \notin Mutable} :
              LET now == db.packs[p]
                  then == db'.packs[p]
              IN  /\ then.content = now.content
                  /\ then.status \in {now.status, "retired"}
                  /\ now.retiredBy # Null => then.retiredBy = now.retiredBy
       /\ \A a \in DOMAIN db.assignments :
              LET now == db.assignments[a]
                  then == db'.assignments[a]
              IN  /\ then.content = now.content
                  /\ now.learners \subseteq then.learners
                  /\ now.closedBy # Null => then.closedBy = now.closedBy
                  /\ now.releasedBy # Null => then.releasedBy = now.releasedBy
       /\ \A t \in DOMAIN db.sessions \cap DOMAIN db'.sessions :
              db.sessions[t].response # << >> => db'.sessions[t].response = db.sessions[t].response]_platform

=============================================================================
