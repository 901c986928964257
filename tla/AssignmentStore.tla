--------------------------- MODULE AssignmentStore ---------------------------
(***************************************************************************)
(* Assignments, the runs started from them, ratings and moderation         *)
(* (persistence/d1-assignment-repository.ts and the routes above it).      *)
(* Dates are left out: an assignment that is not open yet or has ended is  *)
(* refused the way a closed one is, which tells the clock from nothing     *)
(* else.  A run is created by the event store (RunEventStore) and played   *)
(* by its service (GenericRun): here it is the row its first event makes,  *)
(* and whether it is completed.                                            *)
(***************************************************************************)
EXTENDS ScenarioPackStore, FiniteSetsExt

IsCreated(a) == a \in DOMAIN db.assignments

\* Everything a launched session asks for lies in its own course, and a launched learner's
\* in the one assignment of the launch.
InCourse(caller, a) ==
    \/ caller.session = Null
    \/ /\ caller.context = db.assignments[a].context
       /\ "learner" \in caller.roles => caller.assignment = a

\* The staff's scope of one assignment; raters are admitted where they rate.
InScope(caller, a, ratersToo) ==
    \/ "administrator" \in caller.roles
    \/ "instructor" \in caller.roles /\ db.assignments[a].by = caller.user
    \/ ratersToo /\ "rater" \in caller.roles /\ caller.user \in db.assignments[a].raters

Holds(user, role) ==
    /\ user \in DOMAIN db.accounts
    /\ db.accounts[user].status = "active"
    /\ role \in db.accounts[user].roles

-----------------------------------------------------------------------------
(* Creating an assignment *)

\* The experience of the assignment is derived from the published content.
FindContent(r) ==
    LET p == request[r].pack
    IN  /\ Query(r, "findContent")
        /\ IF PackStatus(p) = "published"
           THEN Keep(r, "findActiveMembers", [content |-> db.packs[p].content])
           ELSE Refuse(r, "INVALID_ASSIGNMENT")
        /\ UNCHANGED db

ActiveMembers(context) ==
    {m.user : m \in {m \in DOMAIN db.members : m.context = context /\ db.members[m].status = "active"}}

\* A launched instructor selects among the members its course had when last synchronised.
FindActiveMembers(r) ==
    LET session == seen[r].caller.session
    IN  /\ Query(r, "findActiveMembers")
        /\ IF /\ session # Null
              /\ request[r].learners # {}
              /\ ActiveContext(session) =>
                     ~(request[r].learners \subseteq ActiveMembers(db.sessions[session].context))
           THEN Refuse(r, "LEARNER_NOT_PROVISIONED")
           ELSE Continue(r, "findSameAssignment")
        /\ UNCHANGED db

IsSameAssignment(r, a) ==
    LET q == request[r]
        stored == db.assignments[a]
    IN  /\ stored.command = q.command
        /\ stored.pack = q.pack
        /\ stored.content = seen[r].content
        /\ stored.context = seen[r].caller.context
        /\ stored.by = seen[r].caller.user
        /\ stored.learners = q.learners
        /\ stored.raters = q.raters

FindSameAssignment(r) ==
    LET a == request[r].assignment
    IN  /\ Query(r, "findSameAssignment")
        /\ CASE ~IsCreated(a) -> Continue(r, "findCreation")
             [] IsCreated(a) /\ IsSameAssignment(r, a) -> Done(r, seen[r].content)
             [] OTHER -> Refuse(r, "ASSIGNMENT_CONFLICT")
        /\ UNCHANGED db

CreatedBy(command) == {a \in DOMAIN db.assignments : db.assignments[a].command = command}

FindCreation(r) ==
    /\ Query(r, "findCreation")
    /\ IF CreatedBy(request[r].command) = {}
       THEN Continue(r, "findParticipants")
       ELSE Refuse(r, "ASSIGNMENT_CONFLICT")
    /\ UNCHANGED db

\* One query per participant in the code.
FindParticipants(r) ==
    LET q == request[r]
    IN  /\ Query(r, "findParticipants")
        /\ IF /\ \A u \in q.learners : Holds(u, "learner")
              /\ \A u \in q.raters : Holds(u, "rater")
           THEN Continue(r, "insertAssignment")
           ELSE Refuse(r, "NOT_PROVISIONED")
        /\ UNCHANGED db

\* A rejected batch is reported as it is, with no second look at the command.
InsertAssignment(r) ==
    LET q == request[r]
        row == [command |-> q.command, pack |-> q.pack, content |-> seen[r].content,
                context |-> seen[r].caller.context, by |-> seen[r].caller.user,
                learners |-> q.learners, raters |-> q.raters,
                closedBy |-> Null, releasedBy |-> Null]
    IN  /\ Query(r, "insertAssignment")
        /\ IF ~IsCreated(q.assignment) /\ CreatedBy(q.command) = {}
           THEN /\ db' = [db EXCEPT !.assignments = With(@, q.assignment, row)]
                /\ Done(r, seen[r].content)
           ELSE Refuse(r, "ASSIGNMENT_STORAGE_FAILED") /\ UNCHANGED db

-----------------------------------------------------------------------------
(* Closing it, releasing its feedback, starting a run from it *)

IsClosed(a) == db.assignments[a].closedBy # Null

AfterAssignment(r, a) ==
    LET q == request[r]
    IN  CASE q.kind = "close" ->
               (CASE ~IsClosed(a) -> Continue(r, "findClosure")
                  [] db.assignments[a].closedBy = q.command -> Done(r, q.command)
                  [] OTHER -> Refuse(r, "ASSIGNMENT_ALREADY_CLOSED"))
          [] q.kind = "release" ->
               (CASE db.assignments[a].releasedBy = Null -> Continue(r, "release")
                  [] db.assignments[a].releasedBy = q.command -> Done(r, q.command)
                  [] OTHER -> Refuse(r, "FEEDBACK_ALREADY_RELEASED"))
          [] q.kind = "start" ->
               (CASE q.learner \notin db.assignments[a].learners -> Refuse(r, "INVALID_ASSIGNMENT")
                  [] q.learner \in db.assignments[a].learners /\ IsClosed(a) -> Refuse(r, "ASSIGNMENT_CLOSED")
                  [] OTHER -> Continue(r, "findRunContent"))

\* A learner starts a run of their own; staff start one in their scope.
FindAssignment(r) ==
    LET a == request[r].assignment
        caller == seen[r].caller
        asLearner == request[r].kind = "start" /\ "learner" \in caller.roles
    IN  /\ Query(r, "findAssignment")
        /\ IF /\ IsCreated(a)
              /\ InCourse(caller, a)
              /\ IF asLearner THEN request[r].learner = caller.user ELSE InScope(caller, a, FALSE)
           THEN AfterAssignment(r, a)
           ELSE Refuse(r, "RUN_ACCESS_DENIED")
        /\ UNCHANGED db

ClosedBy(command) == {a \in DOMAIN db.assignments : db.assignments[a].closedBy = command}

FindClosure(r) ==
    /\ Query(r, "findClosure")
    /\ IF ClosedBy(request[r].command) \subseteq {request[r].assignment}
       THEN Continue(r, "close")
       ELSE Refuse(r, "ASSIGNMENT_CONFLICT")
    /\ UNCHANGED db

\* The command is unique over all assignments; an update of no row looks again at who closed.
Close(r) ==
    LET q == request[r]
    IN  /\ Query(r, "close")
        /\ CASE IsClosed(q.assignment) -> Continue(r, "findConcurrentClosure") /\ UNCHANGED db
             [] ~IsClosed(q.assignment) /\ ClosedBy(q.command) # {} ->
                    Refuse(r, "ASSIGNMENT_STORAGE_FAILED") /\ UNCHANGED db
             [] OTHER -> /\ db' = [db EXCEPT !.assignments[q.assignment].closedBy = q.command]
                         /\ Done(r, q.command)

FindConcurrentClosure(r) ==
    /\ Query(r, "findConcurrentClosure")
    /\ IF db.assignments[request[r].assignment].closedBy = request[r].command
       THEN Done(r, request[r].command)
       ELSE Refuse(r, "ASSIGNMENT_ALREADY_CLOSED")
    /\ UNCHANGED db

\* Mutant: the update does not ask whether the feedback is still withheld.
ReleaseAgain(r) ==
    LET q == request[r]
    IN  /\ Query(r, "release")
        /\ db' = [db EXCEPT !.assignments[q.assignment].releasedBy = q.command]
        /\ Done(r, q.command)

\* Unlike Close, an update of no row fails, though the same command may have released it.
Release(r) ==
    LET q == request[r]
    IN  /\ Query(r, "release")
        /\ IF /\ db.assignments[q.assignment].releasedBy = Null
              /\ \A a \in DOMAIN db.assignments : db.assignments[a].releasedBy # q.command
           THEN /\ db' = [db EXCEPT !.assignments[q.assignment].releasedBy = q.command]
                /\ Done(r, q.command)
           ELSE Refuse(r, "ASSIGNMENT_STORAGE_FAILED") /\ UNCHANGED db

\* The published content must still be the one the assignment was made for.
FindRunContent(r) ==
    LET a == db.assignments[request[r].assignment]
    IN  /\ Query(r, "findRunContent")
        /\ IF PackStatus(a.pack) = "published" /\ db.packs[a.pack].content = a.content
           THEN Keep(r, "createRun", [content |-> db.packs[a.pack].content])
           ELSE Refuse(r, "PACK_CONTRACT_MISMATCH")
        /\ UNCHANGED db

\* The event store refuses a second first event of a run and replays a command it has.
CreateRun(r) ==
    LET q == request[r]
        row == [command |-> q.command, assignment |-> q.assignment, learner |-> q.learner,
                content |-> seen[r].content, completed |-> FALSE]
    IN  /\ Query(r, "createRun")
        /\ CASE q.run \notin DOMAIN db.runs ->
                    /\ db' = [db EXCEPT !.runs = With(@, q.run, row)]
                    /\ Done(r, q.learner)
             [] q.run \in DOMAIN db.runs /\ [db.runs[q.run] EXCEPT !.completed = FALSE] = row ->
                    Done(r, q.learner) /\ UNCHANGED db
             [] OTHER -> Refuse(r, "RUN_ALREADY_EXISTS") /\ UNCHANGED db

-----------------------------------------------------------------------------
(* Ratings and moderation: numbered revisions of one criterion of one run *)

Table(r) == IF request[r].kind = "rate" THEN "ratings" ELSE "moderations"

Revision(r) ==
    LET q == request[r]
    IN  [command |-> q.command, run |-> q.run, criterion |-> q.criterion, level |-> q.level,
         sources |-> q.sources, revision |-> q.expected + 1, by |-> seen[r].caller.user]

RevisionsOf(table, run, criterion) ==
    {row \in db[table] : row.run = run /\ row.criterion = criterion}

LatestRevision(table, run, criterion) ==
    Max({0} \union {row.revision : row \in RevisionsOf(table, run, criterion)})

\* Completed runs only; a run and its assignment stay linked, and completed.
FindRun(r) ==
    LET q == request[r]
        caller == seen[r].caller
    IN  /\ Query(r, "findRun")
        /\ IF /\ q.run \in DOMAIN db.runs
              /\ InCourse(caller, db.runs[q.run].assignment)
              /\ InScope(caller, db.runs[q.run].assignment, q.kind = "rate")
              /\ db.runs[q.run].completed
           THEN Continue(r, "findRevision")
           ELSE Refuse(r, "RUN_ACCESS_DENIED")
        /\ UNCHANGED db

\* A command that is stored already is replayed when it asks for exactly what is stored.
ReplayRevision(r, stored) ==
    IF stored = Revision(r) THEN Done(r, stored) ELSE Refuse(r, "REVISION_CONFLICT")

FindRevision(r) ==
    LET stored == {row \in db[Table(r)] : row.command = request[r].command}
    IN  /\ Query(r, "findRevision")
        /\ \/ /\ stored = {}
              /\ Continue(r, IF request[r].kind = "rate" THEN "readLatest" ELSE "findSources")
           \/ \E row \in stored : ReplayRevision(r, row)
        /\ UNCHANGED db

FindSources(r) ==
    LET q == request[r]
    IN  /\ Query(r, "findSources")
        /\ IF q.sources \subseteq {row.command : row \in RevisionsOf("ratings", q.run, q.criterion)}
           THEN Continue(r, "readLatest")
           ELSE Refuse(r, "INVALID_MODERATION")
        /\ UNCHANGED db

ReadLatest(r) ==
    LET q == request[r]
    IN  /\ Query(r, "readLatest")
        /\ IF LatestRevision(Table(r), q.run, q.criterion) = q.expected
           THEN Continue(r, "insertRevision")
           ELSE Refuse(r, "REVISION_CONFLICT")
        /\ UNCHANGED db

\* Mutant: no unique index over run, criterion and revision.
InsertAnyRevision(r) ==
    /\ Query(r, "insertRevision")
    /\ \/ /\ \A row \in db[Table(r)] : row.command # request[r].command
          /\ db' = [db EXCEPT ![Table(r)] = @ \union {Revision(r)}]
          /\ Done(r, Revision(r))
       \/ Continue(r, "findConcurrentRevision") /\ UNCHANGED db

\* The command is the key of a revision, and its number is unique for its criterion.  Any
\* failure of the insert, thrown or reported, leads to a second look for the command: it may
\* have been stored all the same.
InsertRevision(r) ==
    LET q == request[r]
        rejected == \/ \E row \in db[Table(r)] : row.command = q.command
                    \/ \E row \in RevisionsOf(Table(r), q.run, q.criterion) : row.revision = q.expected + 1
    IN  /\ Query(r, "insertRevision")
        /\ \/ /\ ~rejected
              /\ db' = [db EXCEPT ![Table(r)] = @ \union {Revision(r)}]
              /\ Done(r, Revision(r)) \/ Continue(r, "findConcurrentRevision")
           \/ Continue(r, "findConcurrentRevision") /\ UNCHANGED db

\* Without the command, the reread of the latest revision only chooses the error.
FindConcurrentRevision(r) ==
    LET stored == {row \in db[Table(r)] : row.command = request[r].command}
    IN  /\ Query(r, "findConcurrentRevision")
        /\ \/ stored = {} /\ Refuse(r, "REVISION_CONFLICT")
           \/ \E row \in stored : ReplayRevision(r, row)
        /\ UNCHANGED db

CreateAssignment(r) ==
    \/ FindContent(r)
    \/ FindActiveMembers(r)
    \/ FindSameAssignment(r)
    \/ FindCreation(r)
    \/ FindParticipants(r)
    \/ InsertAssignment(r)

RunAssignment(r) ==
    \/ FindAssignment(r)
    \/ FindClosure(r)
    \/ Close(r)
    \/ FindConcurrentClosure(r)
    \/ Release(r)
    \/ FindRunContent(r)
    \/ CreateRun(r)

Review(r) ==
    \/ FindRun(r)
    \/ FindRevision(r)
    \/ FindSources(r)
    \/ ReadLatest(r)
    \/ InsertRevision(r)
    \/ FindConcurrentRevision(r)

=============================================================================
