------------------------ MODULE HostedPlatformProofs ------------------------
(***************************************************************************)
(* Proofs about HostedPlatform, for whatever requests meet in whatever     *)
(* sound tables: what was decided once is final, answers stand, a run      *)
(* plays what its assignment was made for, revisions are numbered, the     *)
(* members of a course are one snapshot, and one login opens one session.  *)
(***************************************************************************)
EXTENDS HostedPlatform, FiniteSetTheorems, TLAPS

-----------------------------------------------------------------------------
(* Operators *)

LEMMA WithRow ==
    ASSUME NEW table, NEW key, NEW row
    PROVE  /\ DOMAIN With(table, key, row) = DOMAIN table \union {key}
           /\ With(table, key, row)[key] = row
           /\ \A k \in DOMAIN table : k # key => With(table, key, row)[k] = table[k]
BY DEF With

LEMMA MergedRows ==
    ASSUME NEW rows, NEW table
    PROVE  /\ DOMAIN Merged(rows, table) = DOMAIN table \union DOMAIN rows
           /\ \A k \in DOMAIN rows : Merged(rows, table)[k] = rows[k]
           /\ \A k \in DOMAIN table : k \notin DOMAIN rows => Merged(rows, table)[k] = table[k]
BY DEF Merged

LEMMA ContentKept ==
    ASSUME NEW content, NEW table
    PROVE  Merged([content |-> content], table).content = content
BY DEF Merged

LEMMA MaxOfInitial ==
    ASSUME NEW n \in Nat
    PROVE  Max({0} \union 1..n) = n
<1>1. n \in {0} \union 1..n /\ \A y \in {0} \union 1..n : n >= y  OBVIOUS
<1>2. \A x \in {0} \union 1..n : (\A y \in {0} \union 1..n : x >= y) => x = n  BY <1>1
<1> QED BY <1>1, <1>2 DEF Max

\* A sequence, whatever its elements are.
IsSequence(s) == s \in Seq({s[i] : i \in DOMAIN s})

LEMMA AppendKeeps ==
    ASSUME NEW s, IsSequence(s), NEW e
    PROVE  LET t == Append(s, e)
           IN  /\ IsSequence(t)
               /\ \A i \in DOMAIN s : i \in DOMAIN t /\ t[i] = s[i]
               /\ \E i \in DOMAIN t : t[i] = e
<1> DEFINE S == {s[i] : i \in DOMAIN s}
           t == Append(s, e)
<1>1. s \in Seq(S)  BY DEF IsSequence
<1> HIDE DEF S
<1>2. /\ Len(t) = Len(s) + 1 /\ Len(s) \in Nat
      /\ DOMAIN s = 1..Len(s) /\ DOMAIN t = 1..Len(t)
      /\ \A i \in 1..Len(s) : t[i] = s[i]
      /\ t[Len(s) + 1] = e
  BY <1>1
<1>3. t \in Seq({t[i] : i \in DOMAIN t})
  BY <1>1, <1>2
<1> QED BY <1>2, <1>3 DEF IsSequence

-----------------------------------------------------------------------------
(* How a request moves *)

\* The requests' bookkeeping has an entry for each.
IsKept == DOMAIN at = InFlight /\ DOMAIN seen = InFlight /\ DOMAIN answer = InFlight

\* Request r makes a step: the others stay where they are.
Moves(r) ==
    /\ request' = request
    /\ DOMAIN at' = DOMAIN at /\ DOMAIN seen' = DOMAIN seen /\ DOMAIN answer' = DOMAIN answer
    /\ \A s \in InFlight \ {r} : at'[s] = at[s] /\ seen'[s] = seen[s] /\ answer'[s] = answer[s]

\* To its next query, or to its answer.
Goes(r, next, facts) ==
    at'[r] = next /\ seen'[r] = Merged(facts, seen[r]) /\ answer'[r] = answer[r]
IsDone(r, result) == answer'[r] = [status |-> "done", result |-> result]
IsRefused(r) == answer'[r].status = "refused"

LEMMA Kept ==
    ASSUME IsKept, NEW r \in InFlight, NEW next, NEW facts, Keep(r, next, facts)
    PROVE  Moves(r) /\ Goes(r, next, facts)
BY DEF IsKept, Keep, Moves, Goes, InFlight

LEMMA Continued ==
    ASSUME IsKept, NEW r \in InFlight, NEW next, Continue(r, next)
    PROVE  Moves(r) /\ Goes(r, next, << >>)
BY Kept DEF Continue

LEMMA Finished ==
    ASSUME IsKept, NEW r \in InFlight, NEW result, Done(r, result)
    PROVE  Moves(r) /\ IsDone(r, result)
BY DEF IsKept, Done, Reply, Moves, IsDone, InFlight

LEMMA Refused ==
    ASSUME IsKept, NEW r \in InFlight, NEW code, Refuse(r, code)
    PROVE  Moves(r) /\ IsRefused(r)
BY DEF IsKept, Refuse, Reply, Moves, IsRefused, InFlight

-----------------------------------------------------------------------------
(* What is true of every request *)

\* The queries of each kind of request.
IsOnRoute(kind, query) ==
    \/ kind = "login" /\ query = "login"
    \/ kind = "logout" /\ query = "logout"
    \/ kind = "launch" /\ query \in {"findState", "consumeState", "findLaunchAssignment",
                                    "findIdentity", "provisionUser", "createSession"}
    \/ kind \notin {"login", "logout", "launch"}
       /\ query \in {"authenticate", "authenticateAgain", "findBootstrapUser", "provision"}
    \/ kind \in {"import", "publishPosted"} /\ query = "saveDraft"
    \/ kind = "publish" /\ query = "findDraft"
    \/ kind \in {"publish", "publishPosted"} /\ query \in {"findPublishable", "publish"}
    \/ kind = "retire" /\ query \in {"findRetirement", "findRetirable", "retire"}
    \/ kind = "administer" /\ query \in {"findAccessCommand", "findUser", "storeAccess",
                                        "findConcurrentAccess"}
    \/ kind = "create" /\ query \in {"findContent", "findActiveMembers", "findSameAssignment",
                                    "findCreation", "findParticipants", "insertAssignment"}
    \/ kind \in {"close", "release", "start"} /\ query = "findAssignment"
    \/ kind = "close" /\ query \in {"findClosure", "close", "findConcurrentClosure"}
    \/ kind = "release" /\ query = "release"
    \/ kind = "start" /\ query \in {"findRunContent", "createRun"}
    \/ kind \in {"rate", "moderate"}
       /\ query \in {"findRun", "findRevision", "readLatest", "insertRevision",
                     "findConcurrentRevision"}
    \/ kind = "moderate" /\ query = "findSources"
    \/ kind = "link" /\ query \in {"findSelection", "findLinkAssignment", "findPending",
                                  "completeLink", "findConcurrentLink"}
    \/ kind = "sync" /\ query \in {"findSync", "fetchRoster", "findSameSync", "synchronize"}

\* A pack whose content is settled.
IsSettled(pack, content) ==
    PackStatus(pack) \in {"published", "retired"} /\ db.packs[pack].content = content

SourcesStored(q) ==
    q.sources \subseteq {row.command : row \in RevisionsOf("ratings", q.run, q.criterion)}

\* What a request has found out on its way, and what still holds when it gets further.
KnowsAssignment(r) ==
    LET q == request[r]
        a == db.assignments[q.assignment]
    IN  /\ at[r] \in {"findClosure", "close", "findConcurrentClosure", "release", "findRunContent",
                       "createRun"} => IsCreated(q.assignment)
        /\ at[r] \in {"findRunContent", "createRun"} => q.learner \in a.learners
        /\ at[r] = "createRun" => seen[r].content = a.content /\ IsSettled(a.pack, a.content)

KnowsRun(r) ==
    LET q == request[r]
    IN  /\ at[r] \in {"findRevision", "findSources", "readLatest", "insertRevision",
                       "findConcurrentRevision"} =>
               q.run \in DOMAIN db.runs /\ db.runs[q.run].completed
        /\ at[r] \in {"readLatest", "insertRevision"} /\ q.kind # "rate" => SourcesStored(q)
        /\ at[r] = "insertRevision" =>
               \/ q.expected = 0
               \/ \E row \in RevisionsOf(Table(r), q.run, q.criterion) : row.revision = q.expected

\* A finished selection was of a session that was there.
LinkIsSettled(r) ==
    request[r].kind = "link" /\ request[r].session \in InFlight =>
        answer[request[r].session].status # "pending"

\* What a success was about is in the tables.
RowIsThere(r) ==
    LET q == request[r]
    IN  /\ q.kind \in {"publish", "publishPosted", "retire"} => q.pack \in DOMAIN db.packs
        /\ q.kind \in {"create", "close", "release"} => IsCreated(q.assignment)
        /\ q.kind = "start" => q.run \in DOMAIN db.runs
        /\ q.kind = "sync" => q.sync \in DOMAIN db.syncs

RequestInvariant(r) ==
    /\ answer[r].status \in {"pending", "done", "refused"}
    /\ answer[r].status = "pending" =>
           IsOnRoute(request[r].kind, at[r]) /\ KnowsAssignment(r) /\ KnowsRun(r)
    /\ Answered(r) => RowIsThere(r) /\ AnswerStands(r) /\ LinkIsSettled(r)

TablesInvariant ==
    TablesAreSound /\ RunsPlayAssignedContent /\ RevisionsAreNumbered /\ MembersAreOneSnapshot

PlatformInvariant ==
    /\ IsKept /\ RequestsAreSound /\ NamesAreNew
    /\ TablesInvariant
    /\ \A r \in InFlight : RequestInvariant(r)

-----------------------------------------------------------------------------
(* What a step may do to the tables *)

PacksGrow ==
    \A p \in DOMAIN db.packs :
        /\ p \in DOMAIN db'.packs
        /\ db.packs[p].status \notin Mutable =>
               /\ db'.packs[p].content = db.packs[p].content
               /\ db'.packs[p].status \in {db.packs[p].status, "retired"}
               /\ db.packs[p].retiredBy # Null => db'.packs[p].retiredBy = db.packs[p].retiredBy

AssignmentsGrow ==
    \A a \in DOMAIN db.assignments :
        LET now == db.assignments[a]
            then == db'.assignments[a]
        IN  /\ a \in DOMAIN db'.assignments
            /\ then.command = now.command /\ then.pack = now.pack /\ then.content = now.content
            /\ now.learners \subseteq then.learners
            /\ now.closedBy # Null => then.closedBy = now.closedBy
            /\ now.releasedBy # Null => then.releasedBy = now.releasedBy

RunsGrow ==
    \A run \in DOMAIN db.runs :
        LET now == db.runs[run]
            then == db'.runs[run]
        IN  /\ run \in DOMAIN db'.runs
            /\ then.command = now.command /\ then.assignment = now.assignment
            /\ then.learner = now.learner /\ then.content = now.content
            /\ now.completed => then.completed

RevisionsGrow == db.ratings \subseteq db'.ratings /\ db.moderations \subseteq db'.moderations

AuditGrows ==
    \A i \in DOMAIN db.accessCommands :
        i \in DOMAIN db'.accessCommands /\ db'.accessCommands[i] = db.accessCommands[i]

\* Sessions come and go; one that comes is the answer of its launch.
SessionsChange ==
    \A t \in DOMAIN db'.sessions :
        \/ /\ t \in DOMAIN db.sessions
           /\ db.sessions[t].response # << >> =>
                  db'.sessions[t].response = db.sessions[t].response
        \/ /\ t \notin DOMAIN db.sessions
           /\ t \in InFlight /\ answer[t].status = "pending" /\ answer'[t].status # "pending"

\* No state becomes usable again; one that comes is the answer of its login.
StatesChange ==
    \A s \in DOMAIN db'.states :
        \/ s \in DOMAIN db.states /\ (Usable(s)' => Usable(s))
        \/ s \in InFlight /\ answer[s].status = "pending" /\ answer'[s].status # "pending"

SyncsGrow ==
    \A s \in DOMAIN db.syncs : s \in DOMAIN db'.syncs /\ db'.syncs[s] = db.syncs[s]

Grows ==
    /\ PacksGrow /\ AssignmentsGrow /\ RunsGrow /\ RevisionsGrow /\ AuditGrows
    /\ StatesChange /\ SessionsChange /\ SyncsGrow

LEMMA StatesUnmoved ==
    ASSUME db'.states = db.states
    PROVE  StatesChange
BY DEF StatesChange, Usable

\* No step takes back what a request was told or has found out.
LEMMA RequestStays ==
    ASSUME PlatformInvariant, Grows, request' = request, NEW r \in InFlight,
           at'[r] = at[r], seen'[r] = seen[r], answer'[r] = answer[r],
           \A s \in InFlight : answer[s].status # "pending" => answer'[s].status # "pending"
    PROVE  RequestInvariant(r)'
<1>1. RequestInvariant(r) /\ TablesAreSound /\ InFlight' = InFlight
  BY DEF PlatformInvariant, TablesInvariant, InFlight
<1>2. ASSUME KnowsAssignment(r) PROVE KnowsAssignment(r)'
  BY <1>2 DEF KnowsAssignment, IsCreated, IsSettled, PackStatus, Grows, PacksGrow, AssignmentsGrow,
              Mutable
<1>3. ASSUME KnowsRun(r) PROVE KnowsRun(r)'
  <2>1. \A run, criterion :
           /\ RevisionsOf("ratings", run, criterion) \subseteq RevisionsOf("ratings", run, criterion)'
           /\ RevisionsOf("moderations", run, criterion)
                  \subseteq RevisionsOf("moderations", run, criterion)'
    BY DEF RevisionsOf, Grows, RevisionsGrow
  <2>2. Table(r)' = Table(r) /\ Table(r) \in {"ratings", "moderations"}  BY DEF Table
  <2> QED BY <1>3, <2>1, <2>2 DEF KnowsRun, SourcesStored, Grows, RunsGrow
<1>4. ASSUME RowIsThere(r), AnswerStands(r), LinkIsSettled(r) PROVE AnswerStands(r)'
  <2> DEFINE q == request[r]
             result == answer[r].result
  <2>0. /\ request'[r] = q /\ answer'[r].result = result
        /\ Table(r)' = Table(r) /\ Table(r) \in {"ratings", "moderations"}
    BY DEF Table
  <2>1. CASE q.kind \in {"publish", "publishPosted"}
    BY <1>4, <2>0, <2>1 DEF AnswerStands, PackStatus, Grows, PacksGrow, Mutable
  <2>2. CASE q.kind = "retire"
    <3>1. q.command # Null /\ q.pack \in DOMAIN db.packs /\ db.packs[q.pack].retiredBy = q.command
      BY <1>4, <2>2 DEF AnswerStands, RowIsThere, PlatformInvariant, RequestsAreSound
    <3>2. db.packs[q.pack].status = "retired"
      BY <1>1, <3>1 DEF TablesAreSound
    <3>3. db'.packs[q.pack].retiredBy = q.command
      BY <3>1, <3>2 DEF Grows, PacksGrow, Mutable
    <3> QED BY <2>0, <2>2, <3>3 DEF AnswerStands
  <2>3. CASE q.kind = "administer"
    BY <1>4, <2>0, <2>3 DEF AnswerStands, Grows, AuditGrows
  <2>4. CASE q.kind \in {"create", "close", "release"}
    BY <1>4, <2>0, <2>4
       DEF AnswerStands, RowIsThere, IsCreated, Grows, AssignmentsGrow, RequestsAreSound,
           PlatformInvariant
  <2>5. CASE q.kind = "start"
    BY <1>4, <2>0, <2>5 DEF AnswerStands, RowIsThere, Grows, RunsGrow
  <2>6. CASE q.kind \in {"rate", "moderate"}
    BY <1>4, <2>0, <2>6 DEF AnswerStands, Grows, RevisionsGrow
  <2>7. CASE q.kind = "link"
    <3>1. \A t \in DOMAIN db'.sessions : t = q.session =>
             t \in DOMAIN db.sessions /\ (db.sessions[t].response # << >> =>
                  db'.sessions[t].response = db.sessions[t].response)
      BY <1>4, <2>7 DEF LinkIsSettled, Grows, SessionsChange
    <3>2. \A t \in DOMAIN db.sessions : t = q.session => db.sessions[t].response = <<result>>
      BY <1>4, <2>7 DEF AnswerStands
    <3>3. <<result>> # << >>  OBVIOUS
    <3> QED BY <2>0, <2>7, <3>1, <3>2, <3>3 DEF AnswerStands
  <2>8. CASE q.kind = "sync"
    BY <1>4, <2>0, <2>8 DEF AnswerStands, RowIsThere, Grows, SyncsGrow
  <2>9. CASE q.kind \notin {"publish", "publishPosted", "retire", "administer", "create", "close",
                           "release", "start", "rate", "moderate", "link", "sync"}
    BY <2>0, <2>9 DEF AnswerStands
  <2> QED BY <2>1, <2>2, <2>3, <2>4, <2>5, <2>6, <2>7, <2>8, <2>9
<1>5. ASSUME LinkIsSettled(r) PROVE LinkIsSettled(r)'
  BY <1>1, <1>5 DEF LinkIsSettled
<1>6. ASSUME RowIsThere(r) PROVE RowIsThere(r)'
  BY <1>6 DEF RowIsThere, IsCreated, Grows, PacksGrow, AssignmentsGrow, RunsGrow, SyncsGrow
<1> QED BY <1>1, <1>2, <1>3, <1>4, <1>5, <1>6 DEF RequestInvariant, Answered

-----------------------------------------------------------------------------
(* Steps that read *)

LEMMA ReadingKeepsTables ==
    ASSUME PlatformInvariant, UNCHANGED db
    PROVE  Grows /\ TablesInvariant'
<1>1. Grows
  BY StatesUnmoved DEF Grows, PacksGrow, AssignmentsGrow, RunsGrow, RevisionsGrow, AuditGrows, SessionsChange,
         SyncsGrow
<1>2. TablesAreSound'
  BY DEF PlatformInvariant, TablesInvariant, TablesAreSound, HasColumns
<1>3. RunsPlayAssignedContent'
  BY DEF PlatformInvariant, TablesInvariant, RunsPlayAssignedContent, PackStatus
<1>4. RevisionsAreNumbered'
  BY DEF PlatformInvariant, TablesInvariant, RevisionsAreNumbered, RevisionsOf
<1>5. MembersAreOneSnapshot'
  BY DEF PlatformInvariant, TablesInvariant, MembersAreOneSnapshot
<1> QED BY <1>1, <1>2, <1>3, <1>4, <1>5 DEF TablesInvariant

LEMMA AtQuery ==
    ASSUME PlatformInvariant, NEW r \in InFlight, answer[r].status = "pending"
    PROVE  /\ IsKept /\ IsOnRoute(request[r].kind, at[r]) /\ KnowsAssignment(r) /\ KnowsRun(r)
BY DEF PlatformInvariant, RequestInvariant

\* A request that goes on, ...
LEMMA GoesOn ==
    ASSUME PlatformInvariant, NEW r \in InFlight, answer[r].status = "pending",
           NEW next, NEW facts, Moves(r), Goes(r, next, facts), IsOnRoute(request[r].kind, next),
           KnowsAssignment(r)', KnowsRun(r)'
    PROVE  RequestInvariant(r)'
BY DEF Moves, Goes, RequestInvariant, Answered

\* ... to a query that goes by no assignment and no run, ...
LEMMA GoesAhead ==
    ASSUME PlatformInvariant, NEW r \in InFlight, answer[r].status = "pending",
           NEW next, NEW facts, Moves(r), Goes(r, next, facts), IsOnRoute(request[r].kind, next),
           next \notin {"findClosure", "close", "findConcurrentClosure", "release",
                        "findRunContent", "createRun", "findRevision", "findSources", "readLatest",
                        "insertRevision", "findConcurrentRevision"}
    PROVE  RequestInvariant(r)'
<1>1. KnowsAssignment(r)' /\ KnowsRun(r)'
  BY DEF Goes, KnowsAssignment, KnowsRun
<1> QED BY <1>1, GoesOn

\* ... is told of a success, ...
LEMMA SuccessIsSound ==
    ASSUME NEW r \in InFlight, NEW result, IsDone(r, result),
           RowIsThere(r)', AnswerStands(r)', LinkIsSettled(r)'
    PROVE  RequestInvariant(r)'
BY DEF IsDone, RequestInvariant, Answered

\* ... or is refused, which promises nothing.
LEMMA RefusalIsSound ==
    ASSUME NEW r \in InFlight, IsRefused(r)
    PROVE  RequestInvariant(r)'
BY DEF IsRefused, RequestInvariant, Answered

LEMMA FindBootstrapUserStep ==
    ASSUME PlatformInvariant, NEW r \in InFlight, FindBootstrapUser(r)
    PROVE  UNCHANGED db /\ Moves(r) /\ RequestInvariant(r)'
BY AtQuery, Kept, Continued, Refused, GoesAhead, RefusalIsSound
   DEF FindBootstrapUser, Query, IsOnRoute

LEMMA FindDraftStep ==
    ASSUME PlatformInvariant, NEW r \in InFlight, FindDraft(r)
    PROVE  UNCHANGED db /\ Moves(r) /\ RequestInvariant(r)'
BY AtQuery, Kept, Continued, Refused, GoesAhead, RefusalIsSound
   DEF FindDraft, Query, IsOnRoute

LEMMA FindPublishableStep ==
    ASSUME PlatformInvariant, NEW r \in InFlight, FindPublishable(r)
    PROVE  UNCHANGED db /\ Moves(r) /\ RequestInvariant(r)'
BY AtQuery, Kept, Continued, Refused, GoesAhead, RefusalIsSound
   DEF FindPublishable, Query, IsOnRoute

LEMMA FindRetirableStep ==
    ASSUME PlatformInvariant, NEW r \in InFlight, FindRetirable(r)
    PROVE  UNCHANGED db /\ Moves(r) /\ RequestInvariant(r)'
BY AtQuery, Kept, Continued, Refused, GoesAhead, RefusalIsSound
   DEF FindRetirable, Query, IsOnRoute

LEMMA FindContentStep ==
    ASSUME PlatformInvariant, NEW r \in InFlight, FindContent(r)
    PROVE  UNCHANGED db /\ Moves(r) /\ RequestInvariant(r)'
BY AtQuery, Kept, Continued, Refused, GoesAhead, RefusalIsSound
   DEF FindContent, Query, IsOnRoute

LEMMA FindActiveMembersStep ==
    ASSUME PlatformInvariant, NEW r \in InFlight, FindActiveMembers(r)
    PROVE  UNCHANGED db /\ Moves(r) /\ RequestInvariant(r)'
BY AtQuery, Kept, Continued, Refused, GoesAhead, RefusalIsSound
   DEF FindActiveMembers, Query, IsOnRoute

LEMMA FindCreationStep ==
    ASSUME PlatformInvariant, NEW r \in InFlight, FindCreation(r)
    PROVE  UNCHANGED db /\ Moves(r) /\ RequestInvariant(r)'
BY AtQuery, Kept, Continued, Refused, GoesAhead, RefusalIsSound
   DEF FindCreation, Query, IsOnRoute

LEMMA FindParticipantsStep ==
    ASSUME PlatformInvariant, NEW r \in InFlight, FindParticipants(r)
    PROVE  UNCHANGED db /\ Moves(r) /\ RequestInvariant(r)'
BY AtQuery, Kept, Continued, Refused, GoesAhead, RefusalIsSound
   DEF FindParticipants, Query, IsOnRoute

LEMMA FindUserStep ==
    ASSUME PlatformInvariant, NEW r \in InFlight, FindUser(r)
    PROVE  UNCHANGED db /\ Moves(r) /\ RequestInvariant(r)'
BY AtQuery, Kept, Continued, Refused, GoesAhead, RefusalIsSound
   DEF FindUser, Query, IsOnRoute

LEMMA FindStateStep ==
    ASSUME PlatformInvariant, NEW r \in InFlight, FindState(r)
    PROVE  UNCHANGED db /\ Moves(r) /\ RequestInvariant(r)'
BY AtQuery, Kept, Continued, Refused, GoesAhead, RefusalIsSound
   DEF FindState, Query, IsOnRoute

LEMMA FindLaunchAssignmentStep ==
    ASSUME PlatformInvariant, NEW r \in InFlight, FindLaunchAssignment(r)
    PROVE  UNCHANGED db /\ Moves(r) /\ RequestInvariant(r)'
BY AtQuery, Kept, Continued, Refused, GoesAhead, RefusalIsSound
   DEF FindLaunchAssignment, Query, IsOnRoute

LEMMA FindIdentityStep ==
    ASSUME PlatformInvariant, NEW r \in InFlight, FindIdentity(r)
    PROVE  UNCHANGED db /\ Moves(r) /\ RequestInvariant(r)'
BY AtQuery, Kept, Continued, Refused, GoesAhead, RefusalIsSound
   DEF FindIdentity, Query, IsOnRoute

LEMMA FindLinkAssignmentStep ==
    ASSUME PlatformInvariant, NEW r \in InFlight, FindLinkAssignment(r)
    PROVE  UNCHANGED db /\ Moves(r) /\ RequestInvariant(r)'
BY AtQuery, Kept, Continued, Refused, GoesAhead, RefusalIsSound
   DEF FindLinkAssignment, Query, IsOnRoute

LEMMA FetchRosterStep ==
    ASSUME PlatformInvariant, NEW r \in InFlight, FetchRoster(r)
    PROVE  UNCHANGED db /\ Moves(r) /\ RequestInvariant(r)'
BY AtQuery, Kept, Continued, Refused, GoesAhead, RefusalIsSound
   DEF FetchRoster, Query, IsOnRoute

\* The first query behind the door is one of the request's own.
LEMMA FirstQueryIsOnRoute ==
    ASSUME NEW kind \in {"import", "publish", "publishPosted", "retire", "administer", "create",
                         "close", "release", "start", "rate", "moderate", "link", "sync"}
    PROVE  /\ IsOnRoute(kind, FirstQuery(kind))
           /\ FirstQuery(kind) \notin {"findClosure", "close", "findConcurrentClosure", "release",
                  "findRunContent", "createRun", "findRevision", "findSources", "readLatest",
                  "insertRevision", "findConcurrentRevision"}
BY DEF IsOnRoute, FirstQuery

LEMMA AuthenticateStep ==
    ASSUME PlatformInvariant, NEW r \in InFlight, Authenticate(r)
    PROVE  UNCHANGED db /\ Moves(r) /\ RequestInvariant(r)'
<1>1. /\ IsKept /\ answer[r].status = "pending" /\ UNCHANGED db
      /\ at[r] \in {"authenticate", "authenticateAgain"}
  BY DEF PlatformInvariant, Authenticate
<1>2. request[r].kind \in {"import", "publish", "publishPosted", "retire", "administer", "create",
                         "close", "release", "start", "rate", "moderate", "link", "sync"}
  BY <1>1, AtQuery DEF IsOnRoute, PlatformInvariant, RequestsAreSound
<1>3. CASE Continue(r, "findBootstrapUser")
  BY <1>1, <1>2, <1>3, Continued, GoesAhead DEF IsOnRoute
<1>4. ASSUME NEW code, Refuse(r, code) PROVE Moves(r) /\ RequestInvariant(r)'
  BY <1>1, <1>4, Refused, RefusalIsSound
<1>5. ASSUME NEW facts, Keep(r, FirstQuery(request[r].kind), facts)
      PROVE  Moves(r) /\ RequestInvariant(r)'
  BY <1>1, <1>2, <1>5, Kept, FirstQueryIsOnRoute, GoesAhead
<1> QED BY <1>1, <1>3, <1>4, <1>5 DEF Authenticate

\* Elsewhere on its way a request need not know an assignment, or a run.
LEMMA NoAssignmentAhead ==
    ASSUME NEW r \in InFlight, NEW next, NEW facts, Goes(r, next, facts),
           next \notin {"findClosure", "close", "findConcurrentClosure", "release",
                        "findRunContent", "createRun"}
    PROVE  KnowsAssignment(r)'
BY DEF Goes, KnowsAssignment

LEMMA NoRunAhead ==
    ASSUME NEW r \in InFlight, NEW next, NEW facts, Goes(r, next, facts),
           next \notin {"findRevision", "findSources", "readLatest", "insertRevision",
                        "findConcurrentRevision"}
    PROVE  KnowsRun(r)'
BY DEF Goes, KnowsRun

LEMMA FindRetirementStep ==
    ASSUME PlatformInvariant, NEW r \in InFlight, FindRetirement(r)
    PROVE  UNCHANGED db /\ Moves(r) /\ RequestInvariant(r)'
<1> DEFINE q == request[r]
           bound == {p \in DOMAIN db.packs : db.packs[p].retiredBy = q.command}
<1>1. /\ IsKept /\ answer[r].status = "pending" /\ UNCHANGED db /\ at[r] = "findRetirement"
      /\ q.kind = "retire"
  BY AtQuery DEF FindRetirement, Query, IsOnRoute
<1>2. ASSUME bound = {q.pack}, Done(r, q.command) PROVE Moves(r) /\ RequestInvariant(r)'
  <2>1. Moves(r) /\ IsDone(r, q.command) /\ request' = request
    BY <1>1, <1>2, Finished DEF Moves
  <2>2. q.pack \in DOMAIN db.packs /\ db.packs[q.pack].retiredBy = q.command  BY <1>2
  <2>3. RowIsThere(r)' /\ LinkIsSettled(r)'
    BY <1>1, <2>1, <2>2 DEF RowIsThere, LinkIsSettled
  <2>4. AnswerStands(r)'
    BY <1>1, <2>1, <2>2 DEF AnswerStands
  <2> QED BY <2>1, <2>3, <2>4, SuccessIsSound
<1>3. ASSUME Continue(r, "findRetirable") PROVE Moves(r) /\ RequestInvariant(r)'
  BY <1>1, <1>3, Continued, GoesAhead DEF IsOnRoute
<1>4. ASSUME NEW code, Refuse(r, code) PROVE Moves(r) /\ RequestInvariant(r)'
  BY <1>1, <1>4, Refused, RefusalIsSound
<1> QED BY <1>1, <1>2, <1>3, <1>4 DEF FindRetirement

LEMMA FindSameAssignmentStep ==
    ASSUME PlatformInvariant, NEW r \in InFlight, FindSameAssignment(r)
    PROVE  UNCHANGED db /\ Moves(r) /\ RequestInvariant(r)'
<1> DEFINE q == request[r]
<1>1. /\ IsKept /\ answer[r].status = "pending" /\ UNCHANGED db /\ at[r] = "findSameAssignment"
      /\ q.kind = "create"
  BY AtQuery DEF FindSameAssignment, Query, IsOnRoute
<1>2. ASSUME IsCreated(q.assignment), IsSameAssignment(r, q.assignment), Done(r, seen[r].content)
      PROVE  Moves(r) /\ RequestInvariant(r)'
  <2>1. Moves(r) /\ IsDone(r, seen[r].content) /\ request' = request
    BY <1>1, <1>2, Finished DEF Moves
  <2>2. /\ db.assignments[q.assignment].command = q.command
        /\ db.assignments[q.assignment].content = seen[r].content
    BY <1>2 DEF IsSameAssignment
  <2>3. RowIsThere(r)' /\ LinkIsSettled(r)'
    BY <1>1, <1>2, <2>1 DEF RowIsThere, LinkIsSettled, IsCreated
  <2>4. AnswerStands(r)'
    BY <1>1, <2>1, <2>2 DEF AnswerStands, IsDone
  <2> QED BY <2>1, <2>3, <2>4, SuccessIsSound
<1>3. ASSUME Continue(r, "findCreation") PROVE Moves(r) /\ RequestInvariant(r)'
  BY <1>1, <1>3, Continued, GoesAhead DEF IsOnRoute
<1>4. ASSUME NEW code, Refuse(r, code) PROVE Moves(r) /\ RequestInvariant(r)'
  BY <1>1, <1>4, Refused, RefusalIsSound
<1> QED BY <1>1, <1>2, <1>3, <1>4 DEF FindSameAssignment

LEMMA FindAssignmentStep ==
    ASSUME PlatformInvariant, NEW r \in InFlight, FindAssignment(r)
    PROVE  UNCHANGED db /\ Moves(r) /\ RequestInvariant(r)'
<1> DEFINE q == request[r]
           a == q.assignment
<1>1. /\ IsKept /\ answer[r].status = "pending" /\ UNCHANGED db /\ at[r] = "findAssignment"
      /\ q.kind \in {"close", "release", "start"}
      /\ q.kind \in {"close", "release"} => q.command # Null
  BY AtQuery DEF FindAssignment, Query, IsOnRoute, PlatformInvariant, RequestsAreSound
<1>2. ASSUME NEW code, Refuse(r, code) PROVE Moves(r) /\ RequestInvariant(r)'
  BY <1>1, <1>2, Refused, RefusalIsSound
<1>3. ASSUME IsCreated(a), NEW next, Continue(r, next), IsOnRoute(q.kind, next),
             next \in {"findClosure", "release", "findRunContent"},
             next = "findRunContent" => q.learner \in db.assignments[a].learners
      PROVE  Moves(r) /\ RequestInvariant(r)'
  <2>1. Moves(r) /\ Goes(r, next, << >>) /\ request' = request
    BY <1>1, <1>3, Continued DEF Moves
  <2>2. KnowsRun(r)'  BY <1>3, <2>1, NoRunAhead
  <2>3. KnowsAssignment(r)'  BY <1>1, <1>3, <2>1 DEF KnowsAssignment, Goes, IsCreated
  <2> QED BY <1>1, <1>3, <2>1, <2>2, <2>3, GoesOn
<1>4. ASSUME IsCreated(a), Done(r, q.command),
             \/ q.kind = "close" /\ db.assignments[a].closedBy = q.command
             \/ q.kind = "release" /\ db.assignments[a].releasedBy = q.command
      PROVE  Moves(r) /\ RequestInvariant(r)'
  <2>1. Moves(r) /\ IsDone(r, q.command) /\ request' = request
    BY <1>1, <1>4, Finished DEF Moves
  <2>2. RowIsThere(r)' /\ LinkIsSettled(r)' /\ AnswerStands(r)'
    BY <1>1, <1>4, <2>1 DEF RowIsThere, LinkIsSettled, AnswerStands, IsCreated
  <2> QED BY <2>1, <2>2, SuccessIsSound
<1>5. ASSUME IsCreated(a), AfterAssignment(r, a) PROVE Moves(r) /\ RequestInvariant(r)'
  <2>1. CASE q.kind = "close"
    <3>1. \/ Continue(r, "findClosure")
          \/ db.assignments[a].closedBy = q.command /\ Done(r, q.command)
          \/ Refuse(r, "ASSIGNMENT_ALREADY_CLOSED")
      BY <1>1, <1>5, <2>1 DEF AfterAssignment, IsClosed
    <3>2. IsOnRoute(q.kind, "findClosure")  BY <2>1 DEF IsOnRoute
    <3>3. CASE Continue(r, "findClosure")  BY <1>3, <1>5, <3>2, <3>3
    <3>4. CASE db.assignments[a].closedBy = q.command /\ Done(r, q.command)
      BY <1>4, <1>5, <2>1, <3>4
    <3> QED BY <1>2, <3>1, <3>3, <3>4
  <2>2. CASE q.kind = "release"
    <3>1. \/ Continue(r, "release")
          \/ db.assignments[a].releasedBy = q.command /\ Done(r, q.command)
          \/ Refuse(r, "FEEDBACK_ALREADY_RELEASED")
      BY <1>1, <1>5, <2>2 DEF AfterAssignment
    <3>2. IsOnRoute(q.kind, "release")  BY <2>2 DEF IsOnRoute
    <3>3. CASE Continue(r, "release")  BY <1>3, <1>5, <3>2, <3>3
    <3>4. CASE db.assignments[a].releasedBy = q.command /\ Done(r, q.command)
      BY <1>4, <1>5, <2>2, <3>4
    <3> QED BY <1>2, <3>1, <3>3, <3>4
  <2>3. CASE q.kind = "start"
    BY <1>1, <1>2, <1>3, <1>5, <2>3 DEF AfterAssignment, IsOnRoute
  <2> QED BY <1>1, <2>1, <2>2, <2>3
<1>6. \/ IsCreated(a) /\ AfterAssignment(r, a)
      \/ Refuse(r, "RUN_ACCESS_DENIED")
  BY DEF FindAssignment
<1> QED BY <1>1, <1>2, <1>5, <1>6

LEMMA FindClosureStep ==
    ASSUME PlatformInvariant, NEW r \in InFlight, FindClosure(r)
    PROVE  UNCHANGED db /\ Moves(r) /\ RequestInvariant(r)'
<1>1. /\ IsKept /\ answer[r].status = "pending" /\ UNCHANGED db /\ at[r] = "findClosure"
      /\ request[r].kind = "close" /\ IsCreated(request[r].assignment)
  BY AtQuery DEF FindClosure, Query, IsOnRoute, KnowsAssignment
<1>2. ASSUME NEW code, Refuse(r, code) PROVE Moves(r) /\ RequestInvariant(r)'
  BY <1>1, <1>2, Refused, RefusalIsSound
<1>3. ASSUME Continue(r, "close") PROVE Moves(r) /\ RequestInvariant(r)'
  <2>1. Moves(r) /\ Goes(r, "close", << >>) /\ request' = request
    BY <1>1, <1>3, Continued DEF Moves
  <2>2. KnowsRun(r)'  BY <2>1, NoRunAhead
  <2>3. KnowsAssignment(r)'  BY <1>1, <2>1 DEF KnowsAssignment, Goes, IsCreated
  <2> QED BY <1>1, <2>1, <2>2, <2>3, GoesOn DEF IsOnRoute
<1> QED BY <1>1, <1>2, <1>3 DEF FindClosure

LEMMA FindConcurrentClosureStep ==
    ASSUME PlatformInvariant, NEW r \in InFlight, FindConcurrentClosure(r)
    PROVE  UNCHANGED db /\ Moves(r) /\ RequestInvariant(r)'
<1> DEFINE q == request[r]
<1>1. /\ IsKept /\ answer[r].status = "pending" /\ UNCHANGED db /\ at[r] = "findConcurrentClosure"
      /\ q.kind = "close" /\ IsCreated(q.assignment)
  BY AtQuery DEF FindConcurrentClosure, Query, IsOnRoute, KnowsAssignment
<1>2. ASSUME NEW code, Refuse(r, code) PROVE Moves(r) /\ RequestInvariant(r)'
  BY <1>1, <1>2, Refused, RefusalIsSound
<1>3. ASSUME db.assignments[q.assignment].closedBy = q.command, Done(r, q.command)
      PROVE Moves(r) /\ RequestInvariant(r)'
  <2>1. Moves(r) /\ IsDone(r, q.command) /\ request' = request
    BY <1>1, <1>3, Finished DEF Moves
  <2>2. RowIsThere(r)' /\ LinkIsSettled(r)' /\ AnswerStands(r)'
    BY <1>1, <1>3, <2>1 DEF RowIsThere, LinkIsSettled, AnswerStands, IsCreated
  <2> QED BY <2>1, <2>2, SuccessIsSound
<1> QED BY <1>1, <1>2, <1>3 DEF FindConcurrentClosure

LEMMA FindRunContentStep ==
    ASSUME PlatformInvariant, NEW r \in InFlight, FindRunContent(r)
    PROVE  UNCHANGED db /\ Moves(r) /\ RequestInvariant(r)'
<1> DEFINE q == request[r]
           a == db.assignments[q.assignment]
           facts == [content |-> db.packs[a.pack].content]
<1>1. /\ IsKept /\ answer[r].status = "pending" /\ UNCHANGED db /\ at[r] = "findRunContent"
      /\ q.kind = "start" /\ IsCreated(q.assignment) /\ q.learner \in a.learners
  BY AtQuery DEF FindRunContent, Query, IsOnRoute, KnowsAssignment
<1>2. ASSUME NEW code, Refuse(r, code) PROVE Moves(r) /\ RequestInvariant(r)'
  BY <1>1, <1>2, Refused, RefusalIsSound
<1>3. ASSUME PackStatus(a.pack) = "published", db.packs[a.pack].content = a.content,
             Keep(r, "createRun", facts)
      PROVE  Moves(r) /\ RequestInvariant(r)'
  <2>1. Moves(r) /\ Goes(r, "createRun", facts) /\ request' = request
    BY <1>1, <1>3, Kept DEF Moves
  <2>2. KnowsRun(r)'  BY <2>1, NoRunAhead
  <2>3. seen'[r].content = a.content
    BY <1>3, <2>1, ContentKept DEF Goes
  <2>4. KnowsAssignment(r)'
    BY <1>1, <1>3, <2>1, <2>3 DEF KnowsAssignment, Goes, IsCreated, IsSettled, PackStatus
  <2> QED BY <1>1, <2>1, <2>2, <2>4, GoesOn DEF IsOnRoute
<1> QED BY <1>1, <1>2, <1>3 DEF FindRunContent

LEMMA FindRunStep ==
    ASSUME PlatformInvariant, NEW r \in InFlight, FindRun(r)
    PROVE  UNCHANGED db /\ Moves(r) /\ RequestInvariant(r)'
<1> DEFINE q == request[r]
<1>1. /\ IsKept /\ answer[r].status = "pending" /\ UNCHANGED db /\ at[r] = "findRun"
      /\ q.kind \in {"rate", "moderate"}
  BY AtQuery DEF FindRun, Query, IsOnRoute
<1>2. ASSUME NEW code, Refuse(r, code) PROVE Moves(r) /\ RequestInvariant(r)'
  BY <1>1, <1>2, Refused, RefusalIsSound
<1>3. ASSUME q.run \in DOMAIN db.runs, db.runs[q.run].completed, Continue(r, "findRevision")
      PROVE  Moves(r) /\ RequestInvariant(r)'
  <2>1. Moves(r) /\ Goes(r, "findRevision", << >>) /\ request' = request
    BY <1>1, <1>3, Continued DEF Moves
  <2>2. KnowsAssignment(r)'  BY <2>1, NoAssignmentAhead
  <2>3. KnowsRun(r)'  BY <1>1, <1>3, <2>1 DEF KnowsRun, Goes
  <2> QED BY <1>1, <2>1, <2>2, <2>3, GoesOn DEF IsOnRoute
<1> QED BY <1>1, <1>2, <1>3 DEF FindRun

\* Going on in a review, with what has been found out of the run and the sources.
LEMMA ReviewGoesOn ==
    ASSUME PlatformInvariant, NEW r \in InFlight, answer[r].status = "pending", UNCHANGED db,
           NEW next \in {"findSources", "readLatest", "insertRevision", "findConcurrentRevision"},
           Continue(r, next),
           at[r] \in {"findRevision", "findSources", "readLatest", "insertRevision"},
           request[r].kind \in {"rate", "moderate"},
           next = "findSources" => request[r].kind = "moderate",
           next \in {"readLatest", "insertRevision"} /\ request[r].kind # "rate" =>
               SourcesStored(request[r]),
           next = "insertRevision" =>
               \/ request[r].expected = 0
               \/ \E row \in RevisionsOf(Table(r), request[r].run, request[r].criterion) :
                      row.revision = request[r].expected
    PROVE  Moves(r) /\ RequestInvariant(r)'
<1>1. Moves(r) /\ Goes(r, next, << >>) /\ request' = request
  BY AtQuery, Continued DEF Moves
<1>2. KnowsAssignment(r)'  BY <1>1, NoAssignmentAhead
<1>3. IsOnRoute(request[r].kind, next)  BY DEF IsOnRoute
<1>4. request[r].run \in DOMAIN db.runs /\ db.runs[request[r].run].completed
  BY AtQuery DEF KnowsRun
<1>5. /\ SourcesStored(request[r]) <=> SourcesStored(request[r])'
      /\ RevisionsOf(Table(r), request[r].run, request[r].criterion)'
            = RevisionsOf(Table(r), request[r].run, request[r].criterion)
  BY <1>1 DEF SourcesStored, RevisionsOf, Table
<1>6. KnowsRun(r)'  BY <1>1, <1>4, <1>5 DEF KnowsRun, Goes
<1> QED BY <1>1, <1>2, <1>3, <1>6, GoesOn

LEMMA ReplayRevisionIsSound ==
    ASSUME PlatformInvariant, NEW r \in InFlight, answer[r].status = "pending", UNCHANGED db,
           request[r].kind \in {"rate", "moderate"}, NEW row \in db[Table(r)],
           ReplayRevision(r, row)
    PROVE  Moves(r) /\ RequestInvariant(r)'
<1>1. IsKept  BY DEF PlatformInvariant
<1>2. ASSUME NEW code, Refuse(r, code) PROVE Moves(r) /\ RequestInvariant(r)'
  BY <1>1, <1>2, Refused, RefusalIsSound
<1>3. ASSUME Done(r, row) PROVE Moves(r) /\ RequestInvariant(r)'
  <2>1. Moves(r) /\ IsDone(r, row) /\ request' = request
    BY <1>1, <1>3, Finished DEF Moves
  <2>2. RowIsThere(r)' /\ LinkIsSettled(r)'
    BY <2>1 DEF RowIsThere, LinkIsSettled
  <2>3. Table(r)' = Table(r)  BY <2>1 DEF Table
  <2>4. AnswerStands(r)'
    BY <2>1, <2>3 DEF AnswerStands, IsDone
  <2> QED BY <2>1, <2>2, <2>4, SuccessIsSound
<1> QED BY <1>2, <1>3 DEF ReplayRevision

LEMMA FindRevisionStep ==
    ASSUME PlatformInvariant, NEW r \in InFlight, FindRevision(r)
    PROVE  UNCHANGED db /\ Moves(r) /\ RequestInvariant(r)'
<1>1. /\ answer[r].status = "pending" /\ UNCHANGED db /\ at[r] = "findRevision"
      /\ request[r].kind \in {"rate", "moderate"}
  BY AtQuery DEF FindRevision, Query, IsOnRoute
<1>2. CASE Continue(r, IF request[r].kind = "rate" THEN "readLatest" ELSE "findSources")
  BY <1>1, <1>2, ReviewGoesOn
<1>3. CASE \E row \in db[Table(r)] : ReplayRevision(r, row)
  BY <1>1, <1>3, ReplayRevisionIsSound
<1> QED BY <1>1, <1>2, <1>3 DEF FindRevision

LEMMA FindSourcesStep ==
    ASSUME PlatformInvariant, NEW r \in InFlight, FindSources(r)
    PROVE  UNCHANGED db /\ Moves(r) /\ RequestInvariant(r)'
<1>1. /\ IsKept /\ answer[r].status = "pending" /\ UNCHANGED db /\ at[r] = "findSources"
      /\ request[r].kind = "moderate"
  BY AtQuery DEF FindSources, Query, IsOnRoute
<1>2. ASSUME NEW code, Refuse(r, code) PROVE Moves(r) /\ RequestInvariant(r)'
  BY <1>1, <1>2, Refused, RefusalIsSound
<1>3. ASSUME SourcesStored(request[r]), Continue(r, "readLatest")
      PROVE  Moves(r) /\ RequestInvariant(r)'
  BY <1>1, <1>3, ReviewGoesOn
<1> QED BY <1>1, <1>2, <1>3 DEF FindSources, SourcesStored

\* The latest revision is the number of them: none, or one that is stored.
LEMMA LatestIsStored ==
    ASSUME PlatformInvariant, NEW table \in {"ratings", "moderations"}, NEW run, NEW criterion
    PROVE  LET latest == LatestRevision(table, run, criterion)
               rows == RevisionsOf(table, run, criterion)
           IN  /\ IsFiniteSet(rows) /\ latest = Cardinality(rows) /\ latest \in Nat
               /\ {row.revision : row \in rows} = 1..latest
               /\ latest = 0 \/ \E row \in rows : row.revision = latest
<1> DEFINE rows == RevisionsOf(table, run, criterion)
           revisions == {row.revision : row \in rows}
<1>1. IsFiniteSet(db[table]) /\ rows \subseteq db[table]
  BY DEF PlatformInvariant, TablesInvariant, TablesAreSound, RevisionsOf
<1>2. IsFiniteSet(rows) /\ Cardinality(rows) \in Nat
  BY <1>1, FS_Subset, FS_CardinalityType
<1>3. revisions = 1..Cardinality(rows)
  <2>1. CASE rows = {}
    BY <2>1, FS_EmptySet
  <2>2. ASSUME NEW row \in rows PROVE revisions = 1..Cardinality(rows)
    <3>1. row \in db[table] /\ row.run = run /\ row.criterion = criterion
      BY DEF RevisionsOf
    <3> QED BY <3>1 DEF PlatformInvariant, TablesInvariant, RevisionsAreNumbered
  <2> QED BY <2>1, <2>2
<1> DEFINE n == Cardinality(rows)
<1>4. LatestRevision(table, run, criterion) = Max({0} \union revisions)
  BY DEF LatestRevision
<1>5. n \in Nat /\ LatestRevision(table, run, criterion) = n
  BY <1>2, <1>3, <1>4, MaxOfInitial
<1>6. n = 0 \/ n \in revisions
  BY <1>3, <1>5
<1> QED BY <1>2, <1>3, <1>5, <1>6

LEMMA ReadLatestStep ==
    ASSUME PlatformInvariant, NEW r \in InFlight, ReadLatest(r)
    PROVE  UNCHANGED db /\ Moves(r) /\ RequestInvariant(r)'
<1> DEFINE q == request[r]
<1>1. /\ IsKept /\ answer[r].status = "pending" /\ UNCHANGED db /\ at[r] = "readLatest"
      /\ q.kind \in {"rate", "moderate"} /\ (q.kind # "rate" => SourcesStored(q))
  BY AtQuery DEF ReadLatest, Query, IsOnRoute, KnowsRun
<1>2. ASSUME NEW code, Refuse(r, code) PROVE Moves(r) /\ RequestInvariant(r)'
  BY <1>1, <1>2, Refused, RefusalIsSound
<1>3. ASSUME LatestRevision(Table(r), q.run, q.criterion) = q.expected, Continue(r, "insertRevision")
      PROVE  Moves(r) /\ RequestInvariant(r)'
  <2>1. Table(r) \in {"ratings", "moderations"}  BY DEF Table
  <2>2. \/ q.expected = 0
        \/ \E row \in RevisionsOf(Table(r), q.run, q.criterion) : row.revision = q.expected
    BY <1>3, <2>1, LatestIsStored
  <2> QED BY <1>1, <1>3, <2>2, ReviewGoesOn
<1> QED BY <1>1, <1>2, <1>3 DEF ReadLatest

LEMMA FindConcurrentRevisionStep ==
    ASSUME PlatformInvariant, NEW r \in InFlight, FindConcurrentRevision(r)
    PROVE  UNCHANGED db /\ Moves(r) /\ RequestInvariant(r)'
<1>1. /\ IsKept /\ answer[r].status = "pending" /\ UNCHANGED db
      /\ at[r] = "findConcurrentRevision" /\ request[r].kind \in {"rate", "moderate"}
  BY AtQuery DEF FindConcurrentRevision, Query, IsOnRoute
<1>2. ASSUME NEW code, Refuse(r, code) PROVE Moves(r) /\ RequestInvariant(r)'
  BY <1>1, <1>2, Refused, RefusalIsSound
<1>3. CASE \E row \in db[Table(r)] : ReplayRevision(r, row)
  BY <1>1, <1>3, ReplayRevisionIsSound
<1> QED BY <1>1, <1>2, <1>3 DEF FindConcurrentRevision

LEMMA ReplayAccessIsSound ==
    ASSUME PlatformInvariant, NEW r \in InFlight, answer[r].status = "pending", UNCHANGED db,
           request[r].kind = "administer", NEW i \in DOMAIN db.accessCommands, ReplayAccess(r, i)
    PROVE  Moves(r) /\ RequestInvariant(r)'
<1>1. IsKept  BY DEF PlatformInvariant
<1>2. ASSUME NEW code, Refuse(r, code) PROVE Moves(r) /\ RequestInvariant(r)'
  BY <1>1, <1>2, Refused, RefusalIsSound
<1>3. ASSUME db.accessCommands[i] = AccessCommand(r), Done(r, AccessCommand(r))
      PROVE  Moves(r) /\ RequestInvariant(r)'
  <2>1. Moves(r) /\ IsDone(r, db.accessCommands[i]) /\ request' = request
    BY <1>1, <1>3, Finished DEF Moves
  <2>2. RowIsThere(r)' /\ LinkIsSettled(r)'
    BY <2>1 DEF RowIsThere, LinkIsSettled
  <2>3. AnswerStands(r)'
    BY <2>1 DEF AnswerStands, IsDone
  <2> QED BY <2>1, <2>2, <2>3, SuccessIsSound
<1> QED BY <1>2, <1>3 DEF ReplayAccess

LEMMA FindAccessCommandStep ==
    ASSUME PlatformInvariant, NEW r \in InFlight, FindAccessCommand(r)
    PROVE  UNCHANGED db /\ Moves(r) /\ RequestInvariant(r)'
<1>1. /\ IsKept /\ answer[r].status = "pending" /\ UNCHANGED db /\ at[r] = "findAccessCommand"
      /\ request[r].kind = "administer"
  BY AtQuery DEF FindAccessCommand, Query, IsOnRoute
<1>2. CASE Continue(r, "findUser")
  BY <1>1, <1>2, Continued, GoesAhead DEF IsOnRoute
<1>3. CASE \E i \in DOMAIN db.accessCommands : ReplayAccess(r, i)
  BY <1>1, <1>3, ReplayAccessIsSound
<1> QED BY <1>1, <1>2, <1>3 DEF FindAccessCommand, StoredAccess

LEMMA FindConcurrentAccessStep ==
    ASSUME PlatformInvariant, NEW r \in InFlight, FindConcurrentAccess(r)
    PROVE  UNCHANGED db /\ Moves(r) /\ RequestInvariant(r)'
<1>1. /\ IsKept /\ answer[r].status = "pending" /\ UNCHANGED db /\ at[r] = "findConcurrentAccess"
      /\ request[r].kind = "administer"
  BY AtQuery DEF FindConcurrentAccess, Query, IsOnRoute
<1>2. ASSUME NEW code, Refuse(r, code) PROVE Moves(r) /\ RequestInvariant(r)'
  BY <1>1, <1>2, Refused, RefusalIsSound
<1>3. CASE \E i \in DOMAIN db.accessCommands : ReplayAccess(r, i)
  BY <1>1, <1>3, ReplayAccessIsSound
<1> QED BY <1>1, <1>2, <1>3 DEF FindConcurrentAccess, StoredAccess

LEMMA ReplaySelectionIsSound ==
    ASSUME PlatformInvariant, NEW r \in InFlight, answer[r].status = "pending", UNCHANGED db,
           request[r].kind = "link", ActiveContext(request[r].session),
           IsComplete(request[r].session), ReplaySelection(r)
    PROVE  Moves(r) /\ RequestInvariant(r)'
<1> DEFINE t == request[r].session
           response == db.sessions[t].response
<1>1. IsKept  BY DEF PlatformInvariant
<1>2. ASSUME NEW code, Refuse(r, code) PROVE Moves(r) /\ RequestInvariant(r)'
  BY <1>1, <1>2, Refused, RefusalIsSound
<1>3. ASSUME Done(r, response[1]) PROVE Moves(r) /\ RequestInvariant(r)'
  <2>1. Moves(r) /\ IsDone(r, response[1]) /\ request' = request
    BY <1>1, <1>3, Finished DEF Moves
  <2>2. t \in DOMAIN db.sessions /\ response = <<response[1]>>
    BY DEF ActiveContext, OpenSession, IsComplete, PlatformInvariant, TablesInvariant,
           TablesAreSound
  <2>3. t \in InFlight => t # r /\ answer[t].status # "pending"
    BY <2>2 DEF PlatformInvariant, NamesAreNew
  <2>4. RowIsThere(r)' /\ LinkIsSettled(r)'
    BY <2>1, <2>3 DEF RowIsThere, LinkIsSettled, Moves, InFlight
  <2>5. AnswerStands(r)'
    BY <2>1, <2>2 DEF AnswerStands, IsDone
  <2> QED BY <2>1, <2>4, <2>5, SuccessIsSound
<1> QED BY <1>2, <1>3 DEF ReplaySelection

LEMMA FindSelectionStep ==
    ASSUME PlatformInvariant, NEW r \in InFlight, FindSelection(r)
    PROVE  UNCHANGED db /\ Moves(r) /\ RequestInvariant(r)'
<1> DEFINE t == request[r].session
<1>1. /\ IsKept /\ answer[r].status = "pending" /\ UNCHANGED db /\ at[r] = "findSelection"
      /\ request[r].kind = "link"
  BY AtQuery DEF FindSelection, Query, IsOnRoute
<1>2. ASSUME NEW code, Refuse(r, code) PROVE Moves(r) /\ RequestInvariant(r)'
  BY <1>1, <1>2, Refused, RefusalIsSound
<1>3. ASSUME NEW next \in {"findPending", "findLinkAssignment"}, Continue(r, next)
      PROVE  Moves(r) /\ RequestInvariant(r)'
  BY <1>1, <1>3, Continued, GoesAhead DEF IsOnRoute
<1>4. CASE ActiveContext(t) /\ IsComplete(t) /\ ReplaySelection(r)
  BY <1>1, <1>4, ReplaySelectionIsSound
<1> QED BY <1>1, <1>2, <1>3, <1>4 DEF FindSelection

LEMMA FindPendingStep ==
    ASSUME PlatformInvariant, NEW r \in InFlight, FindPending(r)
    PROVE  UNCHANGED db /\ Moves(r) /\ RequestInvariant(r)'
<1> DEFINE t == request[r].session
<1>1. /\ IsKept /\ answer[r].status = "pending" /\ UNCHANGED db /\ at[r] = "findPending"
      /\ request[r].kind = "link"
  BY AtQuery DEF FindPending, Query, IsOnRoute
<1>2. ASSUME NEW code, Refuse(r, code) PROVE Moves(r) /\ RequestInvariant(r)'
  BY <1>1, <1>2, Refused, RefusalIsSound
<1>3. CASE Continue(r, "completeLink")
  BY <1>1, <1>3, Continued, GoesAhead DEF IsOnRoute
<1>4. CASE ActiveContext(t) /\ IsComplete(t) /\ ReplaySelection(r)
  BY <1>1, <1>4, ReplaySelectionIsSound
<1> QED BY <1>1, <1>2, <1>3, <1>4 DEF FindPending

LEMMA FindConcurrentLinkStep ==
    ASSUME PlatformInvariant, NEW r \in InFlight, FindConcurrentLink(r)
    PROVE  UNCHANGED db /\ Moves(r) /\ RequestInvariant(r)'
<1> DEFINE t == request[r].session
<1>1. /\ IsKept /\ answer[r].status = "pending" /\ UNCHANGED db /\ at[r] = "findConcurrentLink"
      /\ request[r].kind = "link"
  BY AtQuery DEF FindConcurrentLink, Query, IsOnRoute
<1>2. ASSUME NEW code, Refuse(r, code) PROVE Moves(r) /\ RequestInvariant(r)'
  BY <1>1, <1>2, Refused, RefusalIsSound
<1>3. CASE ActiveContext(t) /\ IsComplete(t) /\ ReplaySelection(r)
  BY <1>1, <1>3, ReplaySelectionIsSound
<1> QED BY <1>1, <1>2, <1>3 DEF FindConcurrentLink

\* A synchronisation that is stored is answered with the snapshot it has.
LEMMA StoredSyncIsSound ==
    ASSUME PlatformInvariant, NEW r \in InFlight, answer[r].status = "pending", UNCHANGED db,
           request[r].kind = "sync", request[r].sync \in DOMAIN db.syncs,
           NEW snapshot, snapshot = db.syncs[request[r].sync].snapshot, Done(r, snapshot)
    PROVE  Moves(r) /\ RequestInvariant(r)'
<1>1. Moves(r) /\ IsDone(r, snapshot) /\ request' = request
  BY AtQuery, Finished DEF Moves
<1>2. RowIsThere(r)' /\ LinkIsSettled(r)'
  BY <1>1 DEF RowIsThere, LinkIsSettled
<1>3. AnswerStands(r)'
  BY <1>1 DEF AnswerStands, IsDone
<1> QED BY <1>1, <1>2, <1>3, SuccessIsSound

LEMMA FindSyncStep ==
    ASSUME PlatformInvariant, NEW r \in InFlight, FindSync(r)
    PROVE  UNCHANGED db /\ Moves(r) /\ RequestInvariant(r)'
<1> DEFINE q == request[r]
<1>1. /\ IsKept /\ answer[r].status = "pending" /\ UNCHANGED db /\ at[r] = "findSync"
      /\ q.kind = "sync"
  BY AtQuery DEF FindSync, Query, IsOnRoute
<1>2. ASSUME NEW code, Refuse(r, code) PROVE Moves(r) /\ RequestInvariant(r)'
  BY <1>1, <1>2, Refused, RefusalIsSound
<1>3. ASSUME NEW facts, Keep(r, "fetchRoster", facts) PROVE Moves(r) /\ RequestInvariant(r)'
  BY <1>1, <1>3, Kept, GoesAhead DEF IsOnRoute
<1>4. CASE q.sync \in DOMAIN db.syncs /\ Done(r, db.syncs[q.sync].snapshot)
  BY <1>1, <1>4, StoredSyncIsSound
<1> QED BY <1>1, <1>2, <1>3, <1>4 DEF FindSync

LEMMA FindSameSyncStep ==
    ASSUME PlatformInvariant, NEW r \in InFlight, FindSameSync(r)
    PROVE  UNCHANGED db /\ Moves(r) /\ RequestInvariant(r)'
<1> DEFINE q == request[r]
<1>1. /\ IsKept /\ answer[r].status = "pending" /\ UNCHANGED db /\ at[r] = "findSameSync"
      /\ q.kind = "sync"
  BY AtQuery DEF FindSameSync, Query, IsOnRoute
<1>2. ASSUME NEW code, Refuse(r, code) PROVE Moves(r) /\ RequestInvariant(r)'
  BY <1>1, <1>2, Refused, RefusalIsSound
<1>3. CASE Continue(r, "synchronize")
  BY <1>1, <1>3, Continued, GoesAhead DEF IsOnRoute
<1>4. ASSUME q.sync \in DOMAIN db.syncs, db.syncs[q.sync] = StoredSync(r, seen[r].snapshot),
             Done(r, seen[r].snapshot)
      PROVE  Moves(r) /\ RequestInvariant(r)'
  <2>1. db.syncs[q.sync].snapshot = seen[r].snapshot  BY <1>4 DEF StoredSync
  <2> QED BY <1>1, <1>4, <2>1, StoredSyncIsSound
<1> QED BY <1>1, <1>2, <1>3, <1>4 DEF FindSameSync

-----------------------------------------------------------------------------
(* Steps that write *)

\* A step that changes the named tables and no other.
Changes(names) ==
    DOMAIN db' = DOMAIN db /\ \A name \in DOMAIN db \ names : db'[name] = db[name]

\* Revisions stay numbered and members one snapshot when nothing of theirs is written.
LEMMA RevisionsUnmoved ==
    ASSUME TablesAreSound, RevisionsAreNumbered, RunsGrow, db'.ratings = db.ratings,
           db'.moderations = db.moderations
    PROVE  RevisionsAreNumbered'
<1>1. \A table \in {"ratings", "moderations"} : db'[table] = db[table]
  OBVIOUS
<1>2. \A table \in {"ratings", "moderations"} : \A run, criterion :
          RevisionsOf(table, run, criterion)' = RevisionsOf(table, run, criterion)
  BY <1>1 DEF RevisionsOf
<1>3. ASSUME NEW table \in {"ratings", "moderations"}, NEW row \in db'[table]
      PROVE  LET rows == RevisionsOf(table, row.run, row.criterion)'
             IN  /\ {x.revision : x \in rows} = 1 .. Cardinality(rows)
                 /\ db'.runs[row.run].completed
  <2>1. row \in db[table] /\ row.run \in DOMAIN db.runs
    BY <1>1, <1>3 DEF TablesAreSound
  <2>2. RevisionsOf(table, row.run, row.criterion)' = RevisionsOf(table, row.run, row.criterion)
    BY <1>2
  <2>3. LET rows == RevisionsOf(table, row.run, row.criterion)
        IN  /\ {x.revision : x \in rows} = 1 .. Cardinality(rows)
            /\ db.runs[row.run].completed
    BY <2>1 DEF RevisionsAreNumbered
  <2>4. db'.runs[row.run].completed
    BY <2>1, <2>3 DEF RunsGrow
  <2> QED BY <2>2, <2>3, <2>4
<1>4. \A row \in db'.moderations : \A source \in row.sources :
          \E x \in RevisionsOf("ratings", row.run, row.criterion)' : x.command = source
  BY <1>2 DEF RevisionsAreNumbered
<1> QED BY <1>3, <1>4 DEF RevisionsAreNumbered

LEMMA MembersUnmoved ==
    ASSUME MembersAreOneSnapshot, db'.members = db.members, db'.syncs = db.syncs
    PROVE  MembersAreOneSnapshot'
BY DEF MembersAreOneSnapshot

\* A run plays what it played when packs and assignments only grow.
PlaysAssigned(run) ==
    LET a == db.assignments[db.runs[run].assignment]
    IN  IsSettled(a.pack, a.content) /\ db.runs[run].content = a.content
        /\ db.runs[run].learner \in a.learners

LEMMA RunsAllPlay ==
    ASSUME \A run \in DOMAIN db'.runs : PlaysAssigned(run)'
    PROVE  RunsPlayAssignedContent'
BY DEF RunsPlayAssignedContent, PlaysAssigned, IsSettled

LEMMA RunsPlayOn ==
    ASSUME TablesAreSound, RunsPlayAssignedContent, PacksGrow, AssignmentsGrow,
           NEW run \in DOMAIN db.runs, RunsGrow
    PROVE  PlaysAssigned(run)'
<1> DEFINE was == db.runs[run]
           a == db.assignments[was.assignment]
<1>1. /\ was.assignment \in DOMAIN db.assignments /\ PackStatus(a.pack) \in {"published", "retired"}
      /\ db.packs[a.pack].content = was.content /\ a.content = was.content
      /\ was.learner \in a.learners
  BY DEF TablesAreSound, RunsPlayAssignedContent
<1>2. a.pack \in DOMAIN db.packs /\ db.packs[a.pack].status \in {"published", "retired"}
  BY <1>1 DEF PackStatus
<1>3. /\ a.pack \in DOMAIN db'.packs /\ db'.packs[a.pack].content = was.content
      /\ db'.packs[a.pack].status \in {"published", "retired"}
  BY <1>1, <1>2 DEF PacksGrow, Mutable
<1>4. /\ db'.runs[run].assignment = was.assignment /\ db'.runs[run].learner = was.learner
      /\ db'.runs[run].content = was.content
  BY DEF RunsGrow
<1>5. /\ db'.assignments[was.assignment].pack = a.pack
      /\ db'.assignments[was.assignment].content = a.content
      /\ a.learners \subseteq db'.assignments[was.assignment].learners
  BY <1>1 DEF AssignmentsGrow
<1> QED BY <1>1, <1>3, <1>4, <1>5 DEF PackStatus, PlaysAssigned, IsSettled

\* Packs: a draft may become anything, what is settled stays settled.
LEMMA PacksWritten ==
    ASSUME PlatformInvariant, Changes({"packs"}), PacksGrow,
           HasColumns(db'.packs, {"status", "content", "retiredBy"}),
           \A p \in DOMAIN db'.packs :
               /\ db'.packs[p].status \in Mutable \union {"published", "retired"}
               /\ db'.packs[p].status # "retired" => db'.packs[p].retiredBy = Null
    PROVE  Grows /\ TablesInvariant'
<1>1. TablesAreSound /\ RunsPlayAssignedContent /\ RevisionsAreNumbered /\ MembersAreOneSnapshot
  BY DEF PlatformInvariant, TablesInvariant
<1>2. /\ db'.accounts = db.accounts /\ db'.accessCommands = db.accessCommands
      /\ db'.assignments = db.assignments /\ db'.runs = db.runs /\ db'.ratings = db.ratings
      /\ db'.moderations = db.moderations /\ db'.states = db.states
      /\ db'.sessions = db.sessions /\ db'.members = db.members /\ db'.syncs = db.syncs
      /\ DOMAIN db' = DOMAIN db
  BY <1>1 DEF Changes, TablesAreSound
<1>3. Grows
  BY <1>2, StatesUnmoved DEF Grows, AssignmentsGrow, RunsGrow, RevisionsGrow, AuditGrows, SessionsChange, SyncsGrow
<1>4. TablesAreSound'
  BY <1>1, <1>2 DEF TablesAreSound, HasColumns
<1>5. \A run \in DOMAIN db'.runs : PlaysAssigned(run)'
  BY <1>1, <1>2, <1>3, RunsPlayOn DEF Grows
<1>6. RevisionsAreNumbered' /\ MembersAreOneSnapshot'
  BY <1>1, <1>2, <1>3, RevisionsUnmoved, MembersUnmoved DEF Grows
<1> QED BY <1>3, <1>4, <1>5, <1>6, RunsAllPlay DEF TablesInvariant

\* Assignments (and accounts) keep what runs rest on.
LEMMA AssignmentsWritten ==
    ASSUME PlatformInvariant, Changes({"accounts", "assignments"}), AssignmentsGrow,
           HasColumns(db'.assignments, {"command", "pack", "content", "context", "by", "learners",
                                        "raters", "closedBy", "releasedBy"})
    PROVE  Grows /\ TablesInvariant'
<1>1. TablesAreSound /\ RunsPlayAssignedContent /\ RevisionsAreNumbered /\ MembersAreOneSnapshot
  BY DEF PlatformInvariant, TablesInvariant
<1>2. /\ db'.packs = db.packs /\ db'.accessCommands = db.accessCommands
      /\ db'.runs = db.runs /\ db'.ratings = db.ratings
      /\ db'.moderations = db.moderations /\ db'.states = db.states
      /\ db'.sessions = db.sessions /\ db'.members = db.members /\ db'.syncs = db.syncs
      /\ DOMAIN db' = DOMAIN db
  BY <1>1 DEF Changes, TablesAreSound
<1>3. Grows
  BY <1>2, StatesUnmoved DEF Grows, PacksGrow, RunsGrow, RevisionsGrow, AuditGrows, SessionsChange, SyncsGrow
<1>4. TablesAreSound'
  BY <1>1, <1>2 DEF TablesAreSound, HasColumns, AssignmentsGrow
<1>5. \A run \in DOMAIN db'.runs : PlaysAssigned(run)'
  BY <1>1, <1>2, <1>3, RunsPlayOn DEF Grows
<1>6. RevisionsAreNumbered' /\ MembersAreOneSnapshot'
  BY <1>1, <1>2, <1>3, RevisionsUnmoved, MembersUnmoved DEF Grows
<1> QED BY <1>3, <1>4, <1>5, <1>6, RunsAllPlay DEF TablesInvariant

\* Runs are added with the content of their assignment, and completed.
LEMMA RunsWritten ==
    ASSUME PlatformInvariant, Changes({"runs"}), RunsGrow,
           HasColumns(db'.runs, {"command", "assignment", "learner", "content", "completed"}),
           \A run \in DOMAIN db'.runs \ DOMAIN db.runs :
               LET a == db.assignments[db'.runs[run].assignment]
               IN  /\ IsCreated(db'.runs[run].assignment)
                   /\ IsSettled(a.pack, a.content) /\ db'.runs[run].content = a.content
                   /\ db'.runs[run].learner \in a.learners
    PROVE  Grows /\ TablesInvariant'
<1>1. TablesAreSound /\ RunsPlayAssignedContent /\ RevisionsAreNumbered /\ MembersAreOneSnapshot
  BY DEF PlatformInvariant, TablesInvariant
<1>2. /\ db'.packs = db.packs /\ db'.accessCommands = db.accessCommands
      /\ db'.assignments = db.assignments /\ db'.ratings = db.ratings
      /\ db'.moderations = db.moderations /\ db'.states = db.states
      /\ db'.sessions = db.sessions /\ db'.members = db.members /\ db'.syncs = db.syncs
      /\ DOMAIN db' = DOMAIN db
  BY <1>1 DEF Changes, TablesAreSound
<1>3. Grows
  BY <1>2, StatesUnmoved DEF Grows, PacksGrow, AssignmentsGrow, RevisionsGrow, AuditGrows, SessionsChange, SyncsGrow
<1>4. TablesAreSound'
  BY <1>1, <1>2 DEF TablesAreSound, HasColumns, RunsGrow, IsCreated
<1>5. \A run \in DOMAIN db'.runs : PlaysAssigned(run)'
  <2>1. ASSUME NEW run \in DOMAIN db'.runs \ DOMAIN db.runs PROVE PlaysAssigned(run)'
    BY <1>2, <2>1 DEF PackStatus, IsSettled, PlaysAssigned
  <2> QED BY <1>1, <1>3, <2>1, RunsPlayOn DEF Grows
<1>6. MembersAreOneSnapshot'
  BY <1>1, <1>2, MembersUnmoved
<1>7. RevisionsAreNumbered'
  BY <1>1, <1>2, <1>3, RevisionsUnmoved DEF Grows
<1> QED BY <1>3, <1>4, <1>5, <1>6, <1>7, RunsAllPlay DEF TablesInvariant

\* Accounts and the audit of their commands, states and sessions are nothing a run rests on.
LEMMA AccessWritten ==
    ASSUME PlatformInvariant, Changes({"accounts", "accessCommands", "states", "sessions"}),
           AuditGrows, IsSequence(db'.accessCommands), StatesChange, SessionsChange,
           HasColumns(db'.states, {"consumed", "expired"}),
           HasColumns(db'.sessions, {"revoked", "expired", "response"}),
           \A t \in DOMAIN db'.sessions :
               db'.sessions[t].response # << >> =>
                   db'.sessions[t].response = <<db'.sessions[t].response[1]>>
    PROVE  Grows /\ TablesInvariant'
<1>1. TablesAreSound /\ RunsPlayAssignedContent /\ RevisionsAreNumbered /\ MembersAreOneSnapshot
  BY DEF PlatformInvariant, TablesInvariant
<1>2. /\ db'.packs = db.packs /\ db'.assignments = db.assignments
      /\ db'.runs = db.runs /\ db'.ratings = db.ratings /\ db'.moderations = db.moderations
      /\ db'.members = db.members /\ db'.syncs = db.syncs
      /\ DOMAIN db' = DOMAIN db
  BY <1>1 DEF Changes, TablesAreSound
<1>3. Grows
  BY <1>2, StatesUnmoved DEF Grows, PacksGrow, AssignmentsGrow, RunsGrow, RevisionsGrow, SyncsGrow
<1>4. TablesAreSound'
  BY <1>1, <1>2 DEF TablesAreSound, HasColumns, IsSequence
<1>5. \A run \in DOMAIN db'.runs : PlaysAssigned(run)'
  BY <1>1, <1>2, <1>3, RunsPlayOn DEF Grows
<1>6. RevisionsAreNumbered' /\ MembersAreOneSnapshot'
  BY <1>1, <1>2, <1>3, RevisionsUnmoved, MembersUnmoved DEF Grows
<1> QED BY <1>3, <1>4, <1>5, <1>6, RunsAllPlay DEF TablesInvariant

\* Nothing written: the tables are what they were.
LEMMA NothingWritten ==
    ASSUME PlatformInvariant, NEW r \in InFlight, UNCHANGED db, Moves(r) /\ RequestInvariant(r)'
    PROVE  Moves(r) /\ Grows /\ TablesInvariant' /\ RequestInvariant(r)'
BY ReadingKeepsTables

LEMMA RefusedStep ==
    ASSUME PlatformInvariant, NEW r \in InFlight, NEW code, Refuse(r, code), UNCHANGED db
    PROVE  Moves(r) /\ Grows /\ TablesInvariant' /\ RequestInvariant(r)'
BY Refused, RefusalIsSound, NothingWritten DEF PlatformInvariant

LEMMA TableSet ==
    ASSUME PlatformInvariant,
           NEW name \in {"accounts", "accessCommands", "packs", "assignments", "runs", "ratings",
                         "moderations", "states", "sessions", "members", "syncs"},
           NEW table, db' = [db EXCEPT ![name] = table]
    PROVE  db'[name] = table /\ Changes({name})
BY DEF Changes, PlatformInvariant, TablesInvariant, TablesAreSound

\* Only accounts, or only the states of logins.
StateColumns == {"consumed", "expired"}

LEMMA IdentityWritten ==
    ASSUME PlatformInvariant, Changes({"accounts", "states"}), StatesChange,
           HasColumns(db'.states, StateColumns)
    PROVE  Grows /\ TablesInvariant'
<1>1. /\ db'.accessCommands = db.accessCommands /\ db'.sessions = db.sessions
      /\ Changes({"accounts", "accessCommands", "states", "sessions"})
  BY DEF Changes, PlatformInvariant, TablesInvariant, TablesAreSound
<1>2. /\ AuditGrows /\ IsSequence(db'.accessCommands) /\ SessionsChange
      /\ HasColumns(db'.sessions, {"revoked", "expired", "response"})
      /\ \A t \in DOMAIN db'.sessions :
             db'.sessions[t].response # << >> =>
                 db'.sessions[t].response = <<db'.sessions[t].response[1]>>
  BY <1>1 DEF AuditGrows, IsSequence, SessionsChange, PlatformInvariant, TablesInvariant,
              TablesAreSound
<1> QED BY <1>1, <1>2, AccessWritten DEF StateColumns

LEMMA ProvisionBootstrapAdministratorStep ==
    ASSUME PlatformInvariant, NEW r \in InFlight, ProvisionBootstrapAdministrator(r)
    PROVE  Moves(r) /\ Grows /\ TablesInvariant' /\ RequestInvariant(r)'
<1>1. /\ IsKept /\ answer[r].status = "pending" /\ at[r] = "provision"
      /\ request[r].kind \notin {"login", "logout", "launch"}
  BY AtQuery DEF ProvisionBootstrapAdministrator, Query, IsOnRoute
<1>2. ASSUME NEW table, db' = [db EXCEPT !.accounts = table] PROVE Grows /\ TablesInvariant'
  <2>1. Changes({"accounts"})  BY <1>2, TableSet
  <2>2. db'.states = db.states /\ Changes({"accounts", "states"})
    BY <2>1 DEF Changes, PlatformInvariant, TablesInvariant, TablesAreSound
  <2>3. HasColumns(db'.states, StateColumns)
    BY <2>2 DEF StateColumns, PlatformInvariant, TablesInvariant, TablesAreSound
  <2> QED BY <2>2, <2>3, StatesUnmoved, IdentityWritten
<1>3. ASSUME Continue(r, "authenticateAgain") PROVE Moves(r) /\ RequestInvariant(r)'
  BY <1>1, <1>3, Continued, GoesAhead DEF IsOnRoute
<1>4. \/ Refuse(r, "BOOTSTRAP_FAILED") /\ UNCHANGED db
      \/ /\ Continue(r, "authenticateAgain")
         /\ \E table : db' = [db EXCEPT !.accounts = table]
  BY DEF ProvisionBootstrapAdministrator
<1> QED BY <1>2, <1>3, <1>4, RefusedStep

LEMMA SaveDraftStep ==
    ASSUME PlatformInvariant, NEW r \in InFlight, SaveDraft(r)
    PROVE  Moves(r) /\ Grows /\ TablesInvariant' /\ RequestInvariant(r)'
<1> DEFINE q == request[r]
           row == [status |-> "draft", content |-> q.content, retiredBy |-> Null]
<1>1. /\ IsKept /\ answer[r].status = "pending" /\ at[r] = "saveDraft"
      /\ q.kind \in {"import", "publishPosted"}
  BY AtQuery DEF SaveDraft, Query, IsOnRoute
<1>2. ASSUME PackStatus(q.pack) \in Mutable \union {"absent"},
             db' = [db EXCEPT !.packs = With(@, q.pack, row)]
      PROVE  Grows /\ TablesInvariant'
  <2>0. /\ {"status", "content", "retiredBy"} \subseteq DOMAIN row
        /\ row.status = "draft" /\ row.retiredBy = Null
    OBVIOUS
  <2> HIDE DEF row
  <2>1. db'.packs = With(db.packs, q.pack, row) /\ Changes({"packs"})
    BY <1>2, TableSet
  <2>2. /\ DOMAIN db'.packs = DOMAIN db.packs \union {q.pack}
        /\ db'.packs[q.pack] = row
        /\ \A p \in DOMAIN db.packs : p # q.pack => db'.packs[p] = db.packs[p]
    BY <2>1 DEF With
  <2>3. q.pack \in DOMAIN db.packs => db.packs[q.pack].status \in Mutable
    BY <1>2 DEF PackStatus, PlatformInvariant, TablesInvariant, TablesAreSound, Mutable
  <2>4. PacksGrow  BY <2>2, <2>3 DEF PacksGrow
  <2>5. /\ HasColumns(db'.packs, {"status", "content", "retiredBy"})
        /\ \A p \in DOMAIN db'.packs :
               /\ db'.packs[p].status \in Mutable \union {"published", "retired"}
               /\ db'.packs[p].status # "retired" => db'.packs[p].retiredBy = Null
    BY <2>0, <2>2 DEF PlatformInvariant, TablesInvariant, TablesAreSound, HasColumns, Mutable
  <2> QED BY <2>1, <2>4, <2>5, PacksWritten
<1>3. ASSUME q.kind # "import", Continue(r, "findPublishable") PROVE Moves(r) /\ RequestInvariant(r)'
  BY <1>1, <1>3, Continued, GoesAhead DEF IsOnRoute
<1>4. ASSUME q.kind = "import", Done(r, q.content) PROVE Moves(r) /\ RequestInvariant(r)'
  <2>1. Moves(r) /\ IsDone(r, q.content) /\ request' = request
    BY <1>1, <1>4, Finished DEF Moves
  <2>2. RowIsThere(r)' /\ LinkIsSettled(r)' /\ AnswerStands(r)'
    BY <1>4, <2>1 DEF RowIsThere, LinkIsSettled, AnswerStands
  <2> QED BY <2>1, <2>2, SuccessIsSound
<1> QED BY <1>2, <1>3, <1>4, RefusedStep DEF SaveDraft

\* One pack that stands in the table is written over.
LEMMA PackWritten ==
    ASSUME PlatformInvariant, NEW p \in DOMAIN db.packs,
           NEW row, row = db'.packs[p],
           db' = [db EXCEPT !.packs[p] = row],
           {"status", "content", "retiredBy"} \subseteq DOMAIN row,
           row.status \in {"published", "retired"},
           row.status # "retired" => row.retiredBy = Null,
           \/ db.packs[p].status \in Mutable
           \/ db.packs[p].status = "published" /\ row.content = db.packs[p].content
               /\ row.status = "retired"
    PROVE  Grows /\ TablesInvariant' /\ p \in DOMAIN db'.packs
<1>1. TablesAreSound  BY DEF PlatformInvariant, TablesInvariant
<1>2. db'.packs = [db.packs EXCEPT ![p] = row] /\ Changes({"packs"})
  BY <1>1 DEF TablesAreSound, Changes
<1>3. /\ DOMAIN db'.packs = DOMAIN db.packs
      /\ \A o \in DOMAIN db.packs : o # p => db'.packs[o] = db.packs[o]
  BY <1>2
<1>4. db.packs[p].status # "retired" /\ db.packs[p].retiredBy = Null
  BY <1>1 DEF TablesAreSound, Mutable
<1>5. PacksGrow
  BY <1>3, <1>4 DEF PacksGrow
<1>6. /\ HasColumns(db'.packs, {"status", "content", "retiredBy"})
      /\ \A o \in DOMAIN db'.packs :
               /\ db'.packs[o].status \in Mutable \union {"published", "retired"}
               /\ db'.packs[o].status # "retired" => db'.packs[o].retiredBy = Null
  BY <1>1, <1>3 DEF TablesAreSound, HasColumns
<1> QED BY <1>2, <1>3, <1>5, <1>6, PacksWritten

LEMMA PublishStep ==
    ASSUME PlatformInvariant, NEW r \in InFlight, Publish(r)
    PROVE  Moves(r) /\ Grows /\ TablesInvariant' /\ RequestInvariant(r)'
<1> DEFINE q == request[r]
           p == q.pack
           content == seen[r].content
<1>1. /\ IsKept /\ answer[r].status = "pending" /\ at[r] = "publish"
      /\ q.kind \in {"publish", "publishPosted"}
  BY AtQuery DEF Publish, Query, IsOnRoute
<1>2. ASSUME PackStatus(p) \in Mutable, Done(r, content),
             db' = [db EXCEPT !.packs[p] = [@ EXCEPT !.status = "published", !.content = seen[r].content]]
      PROVE  Moves(r) /\ Grows /\ TablesInvariant' /\ RequestInvariant(r)'
  <2>1. p \in DOMAIN db.packs /\ db.packs[p].status \in Mutable
    BY <1>2 DEF PackStatus, Mutable
  <2> DEFINE row == [db.packs[p] EXCEPT !.status = "published", !.content = content]
  <2>2. {"status", "content", "retiredBy"} \subseteq DOMAIN db.packs[p]
        /\ db.packs[p].retiredBy = Null /\ "packs" \in DOMAIN db
    BY <2>1 DEF PlatformInvariant, TablesInvariant, TablesAreSound, HasColumns, Mutable
  <2>3. /\ {"status", "content", "retiredBy"} \subseteq DOMAIN row
        /\ row.status = "published" /\ row.content = content /\ row.retiredBy = Null
    BY <2>2
  <2>4. db' = [db EXCEPT !.packs[p] = row]
    BY <1>2
  <2> HIDE DEF row
  <2>5. db'.packs[p] = row
    BY <2>1, <2>2, <2>4
  <2>6. Grows /\ TablesInvariant' /\ p \in DOMAIN db'.packs
    BY <2>1, <2>3, <2>4, <2>5, PackWritten
  <2>7. Moves(r) /\ IsDone(r, content) /\ request' = request
    BY <1>1, <1>2, Finished DEF Moves
  <2>8. RowIsThere(r)' /\ LinkIsSettled(r)'
    BY <1>1, <2>6, <2>7 DEF RowIsThere, LinkIsSettled
  <2>9. AnswerStands(r)'
    BY <1>1, <2>3, <2>5, <2>6, <2>7 DEF AnswerStands, IsDone, PackStatus
  <2> QED BY <2>6, <2>7, <2>8, <2>9, SuccessIsSound
<1> QED BY <1>2, RefusedStep DEF Publish

LEMMA RetireStep ==
    ASSUME PlatformInvariant, NEW r \in InFlight, Retire(r)
    PROVE  Moves(r) /\ Grows /\ TablesInvariant' /\ RequestInvariant(r)'
<1> DEFINE q == request[r]
           p == q.pack
<1>1. /\ IsKept /\ answer[r].status = "pending" /\ at[r] = "retire" /\ q.kind = "retire"
  BY AtQuery DEF Retire, Query, IsOnRoute
<1>2. ASSUME PackStatus(p) = "published", Done(r, q.command),
             db' = [db EXCEPT !.packs[p] = [@ EXCEPT !.status = "retired", !.retiredBy = q.command]]
      PROVE  Moves(r) /\ Grows /\ TablesInvariant' /\ RequestInvariant(r)'
  <2>1. p \in DOMAIN db.packs /\ db.packs[p].status = "published"
    BY <1>2 DEF PackStatus
  <2> DEFINE row == [db.packs[p] EXCEPT !.status = "retired", !.retiredBy = q.command]
  <2>2. {"status", "content", "retiredBy"} \subseteq DOMAIN db.packs[p] /\ "packs" \in DOMAIN db
    BY <2>1 DEF PlatformInvariant, TablesInvariant, TablesAreSound, HasColumns
  <2>3. /\ {"status", "content", "retiredBy"} \subseteq DOMAIN row
        /\ row.status = "retired" /\ row.content = db.packs[p].content
        /\ row.retiredBy = q.command
    BY <2>2
  <2>4. db' = [db EXCEPT !.packs[p] = row]
    BY <1>2
  <2> HIDE DEF row
  <2>5. db'.packs[p] = row
    BY <2>1, <2>2, <2>4
  <2>6. Grows /\ TablesInvariant' /\ p \in DOMAIN db'.packs
    BY <2>1, <2>3, <2>4, <2>5, PackWritten
  <2>7. Moves(r) /\ IsDone(r, q.command) /\ request' = request
    BY <1>1, <1>2, Finished DEF Moves
  <2>8. RowIsThere(r)' /\ LinkIsSettled(r)'
    BY <1>1, <2>6, <2>7 DEF RowIsThere, LinkIsSettled
  <2>9. AnswerStands(r)'
    BY <1>1, <2>3, <2>5, <2>7 DEF AnswerStands, IsDone
  <2> QED BY <2>6, <2>7, <2>8, <2>9, SuccessIsSound
<1> QED BY <1>2, RefusedStep DEF Retire

AssignmentColumns ==
    {"command", "pack", "content", "context", "by", "learners", "raters", "closedBy", "releasedBy"}

LEMMA InsertAssignmentStep ==
    ASSUME PlatformInvariant, NEW r \in InFlight, InsertAssignment(r)
    PROVE  Moves(r) /\ Grows /\ TablesInvariant' /\ RequestInvariant(r)'
<1> DEFINE q == request[r]
           row == [command |-> q.command, pack |-> q.pack, content |-> seen[r].content,
                   context |-> seen[r].caller.context, by |-> seen[r].caller.user,
                   learners |-> q.learners, raters |-> q.raters,
                   closedBy |-> Null, releasedBy |-> Null]
<1>1. /\ IsKept /\ answer[r].status = "pending" /\ at[r] = "insertAssignment"
      /\ q.kind = "create"
  BY AtQuery DEF InsertAssignment, Query, IsOnRoute
<1>2. ASSUME ~IsCreated(q.assignment), Done(r, seen[r].content),
             db' = [db EXCEPT !.assignments = With(@, q.assignment, row)]
      PROVE  Moves(r) /\ Grows /\ TablesInvariant' /\ RequestInvariant(r)'
  <2>1. /\ AssignmentColumns \subseteq DOMAIN row
        /\ row.command = q.command /\ row.content = seen[r].content
    BY DEF AssignmentColumns
  <2> HIDE DEF row
  <2>2. db'.assignments = With(db.assignments, q.assignment, row) /\ Changes({"assignments"})
    BY <1>2, TableSet
  <2>3. /\ DOMAIN db'.assignments = DOMAIN db.assignments \union {q.assignment}
        /\ db'.assignments[q.assignment] = row
        /\ \A a \in DOMAIN db.assignments : db'.assignments[a] = db.assignments[a]
    BY <1>2, <2>2 DEF With, IsCreated
  <2>4. AssignmentsGrow /\ Changes({"accounts", "assignments"})
    BY <2>2, <2>3 DEF AssignmentsGrow, Changes
  <2>5. HasColumns(db'.assignments, AssignmentColumns)
    BY <2>1, <2>3 DEF PlatformInvariant, TablesInvariant, TablesAreSound, HasColumns,
                      AssignmentColumns
  <2>6. Grows /\ TablesInvariant'
    BY <2>4, <2>5, AssignmentsWritten DEF AssignmentColumns
  <2>7. Moves(r) /\ IsDone(r, seen[r].content) /\ request' = request
    BY <1>1, <1>2, Finished DEF Moves
  <2>8. RowIsThere(r)' /\ LinkIsSettled(r)'
    BY <1>1, <2>3, <2>7 DEF RowIsThere, LinkIsSettled, IsCreated
  <2>9. AnswerStands(r)'
    BY <1>1, <2>1, <2>3, <2>7 DEF AnswerStands, IsDone
  <2> QED BY <2>6, <2>7, <2>8, <2>9, SuccessIsSound
<1> QED BY <1>2, RefusedStep DEF InsertAssignment

\* One assignment that stands in the table is closed or released.
LEMMA AssignmentWritten ==
    ASSUME PlatformInvariant, NEW a \in DOMAIN db.assignments,
           NEW column \in {"closedBy", "releasedBy"}, NEW command,
           db.assignments[a][column] = Null,
           db' = [db EXCEPT !.assignments[a] = [@ EXCEPT ![column] = command]]
    PROVE  /\ Grows /\ TablesInvariant'
           /\ a \in DOMAIN db'.assignments /\ db'.assignments[a][column] = command
<1> DEFINE row == [db.assignments[a] EXCEPT ![column] = command]
<1>1. /\ "assignments" \in DOMAIN db /\ HasColumns(db.assignments, AssignmentColumns)
      /\ AssignmentColumns \subseteq DOMAIN db.assignments[a]
  BY DEF PlatformInvariant, TablesInvariant, TablesAreSound, HasColumns, AssignmentColumns
<1>2. /\ DOMAIN row = DOMAIN db.assignments[a] /\ row[column] = command
      /\ \A name \in DOMAIN row : name # column => row[name] = db.assignments[a][name]
  BY <1>1 DEF AssignmentColumns
<1>3. db' = [db EXCEPT !.assignments[a] = row]
  OBVIOUS
<1> HIDE DEF row
<1>4. db'.assignments = [db.assignments EXCEPT ![a] = row] /\ Changes({"assignments"})
  BY <1>1, <1>3 DEF Changes
<1>5. /\ DOMAIN db'.assignments = DOMAIN db.assignments /\ db'.assignments[a] = row
      /\ \A o \in DOMAIN db.assignments : o # a => db'.assignments[o] = db.assignments[o]
  BY <1>4
<1>6. /\ row.command = db.assignments[a].command /\ row.pack = db.assignments[a].pack
      /\ row.content = db.assignments[a].content /\ row.learners = db.assignments[a].learners
      /\ db.assignments[a].closedBy # Null => row.closedBy = db.assignments[a].closedBy
      /\ db.assignments[a].releasedBy # Null => row.releasedBy = db.assignments[a].releasedBy
  BY <1>1, <1>2 DEF AssignmentColumns
<1>7. AssignmentsGrow /\ Changes({"accounts", "assignments"})
  BY <1>4, <1>5, <1>6 DEF AssignmentsGrow, Changes
<1>8. HasColumns(db'.assignments, AssignmentColumns)
  BY <1>1, <1>2, <1>5 DEF HasColumns
<1> QED BY <1>2, <1>5, <1>7, <1>8, AssignmentsWritten DEF AssignmentColumns

LEMMA CloseStep ==
    ASSUME PlatformInvariant, NEW r \in InFlight, Close(r)
    PROVE  Moves(r) /\ Grows /\ TablesInvariant' /\ RequestInvariant(r)'
<1> DEFINE q == request[r]
           a == q.assignment
<1>1. /\ IsKept /\ answer[r].status = "pending" /\ at[r] = "close"
      /\ q.kind = "close" /\ IsCreated(a)
  BY AtQuery DEF Close, Query, IsOnRoute, KnowsAssignment
<1>2. \/ Continue(r, "findConcurrentClosure") /\ UNCHANGED db
      \/ Refuse(r, "ASSIGNMENT_STORAGE_FAILED") /\ UNCHANGED db
      \/ /\ ~IsClosed(a) /\ Done(r, q.command)
         /\ db' = [db EXCEPT !.assignments[a].closedBy = q.command]
  BY DEF Close
<1>3. ASSUME Continue(r, "findConcurrentClosure"), UNCHANGED db
      PROVE  Moves(r) /\ Grows /\ TablesInvariant' /\ RequestInvariant(r)'
  <2>1. Moves(r) /\ Goes(r, "findConcurrentClosure", << >>) /\ request' = request
    BY <1>1, <1>3, Continued DEF Moves
  <2>2. KnowsRun(r)'  BY <2>1, NoRunAhead
  <2>3. KnowsAssignment(r)'  BY <1>1, <1>3, <2>1 DEF KnowsAssignment, Goes, IsCreated
  <2>4. RequestInvariant(r)'  BY <1>1, <2>1, <2>2, <2>3, GoesOn DEF IsOnRoute
  <2> QED BY <1>3, <2>1, <2>4, NothingWritten
<1>4. ASSUME ~IsClosed(a), Done(r, q.command),
             db' = [db EXCEPT !.assignments[a].closedBy = q.command]
      PROVE  Moves(r) /\ Grows /\ TablesInvariant' /\ RequestInvariant(r)'
  <2>1. db.assignments[a]["closedBy"] = Null /\ a \in DOMAIN db.assignments
    BY <1>1, <1>4 DEF IsClosed, IsCreated
  <2>2. db' = [db EXCEPT !.assignments[a] = [@ EXCEPT !["closedBy"] = q.command]]
    BY <1>4
  <2>3. /\ Grows /\ TablesInvariant'
        /\ a \in DOMAIN db'.assignments /\ db'.assignments[a].closedBy = q.command
    BY <2>1, <2>2, AssignmentWritten
  <2>4. Moves(r) /\ IsDone(r, q.command) /\ request' = request
    BY <1>1, <1>4, Finished DEF Moves
  <2>5. RowIsThere(r)' /\ LinkIsSettled(r)' /\ AnswerStands(r)'
    BY <1>1, <2>3, <2>4 DEF RowIsThere, LinkIsSettled, AnswerStands, IsCreated
  <2> QED BY <2>3, <2>4, <2>5, SuccessIsSound
<1> QED BY <1>2, <1>3, <1>4, RefusedStep

LEMMA ReleaseStep ==
    ASSUME PlatformInvariant, NEW r \in InFlight, Release(r)
    PROVE  Moves(r) /\ Grows /\ TablesInvariant' /\ RequestInvariant(r)'
<1> DEFINE q == request[r]
           a == q.assignment
<1>1. /\ IsKept /\ answer[r].status = "pending" /\ at[r] = "release"
      /\ q.kind = "release" /\ IsCreated(a)
  BY AtQuery DEF Release, Query, IsOnRoute, KnowsAssignment
<1>2. ASSUME db.assignments[a].releasedBy = Null, Done(r, q.command),
             db' = [db EXCEPT !.assignments[a].releasedBy = q.command]
      PROVE  Moves(r) /\ Grows /\ TablesInvariant' /\ RequestInvariant(r)'
  <2>1. db.assignments[a]["releasedBy"] = Null /\ a \in DOMAIN db.assignments
    BY <1>1, <1>2 DEF IsCreated
  <2>2. db' = [db EXCEPT !.assignments[a] = [@ EXCEPT !["releasedBy"] = q.command]]
    BY <1>2
  <2>3. /\ Grows /\ TablesInvariant'
        /\ a \in DOMAIN db'.assignments /\ db'.assignments[a].releasedBy = q.command
    BY <2>1, <2>2, AssignmentWritten
  <2>4. Moves(r) /\ IsDone(r, q.command) /\ request' = request
    BY <1>1, <1>2, Finished DEF Moves
  <2>5. RowIsThere(r)' /\ LinkIsSettled(r)' /\ AnswerStands(r)'
    BY <1>1, <2>3, <2>4 DEF RowIsThere, LinkIsSettled, AnswerStands, IsCreated
  <2> QED BY <2>3, <2>4, <2>5, SuccessIsSound
<1> QED BY <1>2, RefusedStep DEF Release

RunColumns == {"command", "assignment", "learner", "content", "completed"}

LEMMA CreateRunStep ==
    ASSUME PlatformInvariant, NEW r \in InFlight, CreateRun(r)
    PROVE  Moves(r) /\ Grows /\ TablesInvariant' /\ RequestInvariant(r)'
<1> DEFINE q == request[r]
           row == [command |-> q.command, assignment |-> q.assignment, learner |-> q.learner,
                   content |-> seen[r].content, completed |-> FALSE]
           a == db.assignments[q.assignment]
<1>1. /\ IsKept /\ answer[r].status = "pending" /\ at[r] = "createRun" /\ q.kind = "start"
      /\ IsCreated(q.assignment) /\ q.learner \in a.learners
      /\ seen[r].content = a.content /\ IsSettled(a.pack, a.content)
  BY AtQuery DEF CreateRun, Query, IsOnRoute, KnowsAssignment
<1>2. \/ /\ q.run \notin DOMAIN db.runs /\ Done(r, q.learner)
         /\ db' = [db EXCEPT !.runs = With(@, q.run, row)]
      \/ /\ q.run \in DOMAIN db.runs /\ [db.runs[q.run] EXCEPT !.completed = FALSE] = row
         /\ Done(r, q.learner) /\ UNCHANGED db
      \/ Refuse(r, "RUN_ALREADY_EXISTS") /\ UNCHANGED db
  BY DEF CreateRun
<1>3. ASSUME q.run \notin DOMAIN db.runs, Done(r, q.learner),
             db' = [db EXCEPT !.runs = With(@, q.run, row)]
      PROVE  Moves(r) /\ Grows /\ TablesInvariant' /\ RequestInvariant(r)'
  <2>1. /\ RunColumns \subseteq DOMAIN row /\ row.command = q.command
        /\ row.assignment = q.assignment /\ row.learner = q.learner /\ row.content = a.content
    BY <1>1 DEF RunColumns
  <2> HIDE DEF row
  <2>2. db'.runs = With(db.runs, q.run, row) /\ Changes({"runs"})
    BY <1>3, TableSet
  <2>3. /\ DOMAIN db'.runs = DOMAIN db.runs \union {q.run} /\ db'.runs[q.run] = row
        /\ \A run \in DOMAIN db.runs : db'.runs[run] = db.runs[run]
    BY <1>3, <2>2 DEF With
  <2>4. RunsGrow  BY <2>3 DEF RunsGrow
  <2>5. HasColumns(db'.runs, RunColumns)
    BY <2>1, <2>3 DEF PlatformInvariant, TablesInvariant, TablesAreSound, HasColumns, RunColumns
  <2>6. Grows /\ TablesInvariant'
    BY <1>1, <2>1, <2>2, <2>3, <2>4, <2>5, RunsWritten DEF RunColumns
  <2>7. Moves(r) /\ IsDone(r, q.learner) /\ request' = request
    BY <1>1, <1>3, Finished DEF Moves
  <2>8. RowIsThere(r)' /\ LinkIsSettled(r)' /\ AnswerStands(r)'
    BY <1>1, <2>1, <2>3, <2>7 DEF RowIsThere, LinkIsSettled, AnswerStands, IsDone
  <2> QED BY <2>6, <2>7, <2>8, SuccessIsSound
<1>4. ASSUME q.run \in DOMAIN db.runs, [db.runs[q.run] EXCEPT !.completed = FALSE] = row,
             Done(r, q.learner), UNCHANGED db
      PROVE  Moves(r) /\ Grows /\ TablesInvariant' /\ RequestInvariant(r)'
  <2>1. RunColumns \subseteq DOMAIN db.runs[q.run]
    BY <1>4 DEF RunColumns, PlatformInvariant, TablesInvariant, TablesAreSound, HasColumns
  <2> DEFINE stored == db.runs[q.run]
  <2>2. \A name \in RunColumns \ {"completed"} : stored[name] = row[name]
    <3>1. \A name \in DOMAIN stored \ {"completed"} :
              stored[name] = [stored EXCEPT !.completed = FALSE][name]
      OBVIOUS
    <3> QED BY <1>4, <2>1, <3>1
  <2>3. stored.command = q.command /\ stored.learner = q.learner
    BY <2>2 DEF RunColumns
  <2>4. Moves(r) /\ IsDone(r, q.learner) /\ request' = request
    BY <1>1, <1>4, Finished DEF Moves
  <2>5. RowIsThere(r)' /\ LinkIsSettled(r)' /\ AnswerStands(r)'
    BY <1>1, <1>4, <2>3, <2>4 DEF RowIsThere, LinkIsSettled, AnswerStands, IsDone
  <2> QED BY <1>4, <2>4, <2>5, SuccessIsSound, NothingWritten
<1> QED BY <1>2, <1>3, <1>4, RefusedStep

LEMMA CompleteRunStep ==
    ASSUME PlatformInvariant, NEW run \in DOMAIN db.runs, CompleteRun(run)
    PROVE  Grows /\ TablesInvariant'
<1> DEFINE row == [db.runs[run] EXCEPT !.completed = TRUE]
<1>1. HasColumns(db.runs, RunColumns) /\ RunColumns \subseteq DOMAIN db.runs[run]
      /\ "runs" \in DOMAIN db
  BY DEF PlatformInvariant, TablesInvariant, TablesAreSound, HasColumns, RunColumns
<1>2. /\ DOMAIN row = DOMAIN db.runs[run] /\ row.completed
      /\ row.command = db.runs[run].command /\ row.assignment = db.runs[run].assignment
      /\ row.learner = db.runs[run].learner /\ row.content = db.runs[run].content
  BY <1>1 DEF RunColumns
<1>3. db' = [db EXCEPT !.runs[run] = row]
  BY DEF CompleteRun
<1> HIDE DEF row
<1>4. db'.runs = [db.runs EXCEPT ![run] = row] /\ Changes({"runs"})
  BY <1>1, <1>3 DEF Changes
<1>5. /\ DOMAIN db'.runs = DOMAIN db.runs /\ db'.runs[run] = row
      /\ \A o \in DOMAIN db.runs : o # run => db'.runs[o] = db.runs[o]
  BY <1>4
<1>6. RunsGrow  BY <1>2, <1>5 DEF RunsGrow
<1>7. HasColumns(db'.runs, RunColumns)  BY <1>1, <1>2, <1>5 DEF HasColumns
<1> QED BY <1>4, <1>5, <1>6, <1>7, RunsWritten DEF RunColumns

\* A success of a kind that promises nothing about a row.
LEMMA PlainSuccessIsSound ==
    ASSUME PlatformInvariant, NEW r \in InFlight, NEW result, Done(r, result),
           request[r].kind \in {"import", "login", "launch", "logout"}
    PROVE  Moves(r) /\ IsDone(r, result) /\ RequestInvariant(r)'
<1>1. Moves(r) /\ IsDone(r, result) /\ request' = request
  BY Finished DEF Moves, PlatformInvariant
<1>2. RowIsThere(r)' /\ LinkIsSettled(r)' /\ AnswerStands(r)'
  BY <1>1 DEF RowIsThere, LinkIsSettled, AnswerStands
<1> QED BY <1>1, <1>2, SuccessIsSound

SessionColumns == {"revoked", "expired", "response"}

\* Only sessions, each with the response it had or a first one.
LEMMA SessionsWritten ==
    ASSUME PlatformInvariant, Changes({"sessions"}), SessionsChange,
           HasColumns(db'.sessions, SessionColumns),
           \A t \in DOMAIN db'.sessions :
               \/ t \in DOMAIN db.sessions /\ db'.sessions[t].response = db.sessions[t].response
               \/ db'.sessions[t].response = << >>
               \/ \E response : db'.sessions[t].response = <<response>>
    PROVE  Grows /\ TablesInvariant'
<1>1. /\ db'.accessCommands = db.accessCommands /\ db'.states = db.states
      /\ Changes({"accounts", "accessCommands", "states", "sessions"})
  BY DEF Changes, PlatformInvariant, TablesInvariant, TablesAreSound
<1>2. /\ AuditGrows /\ IsSequence(db'.accessCommands) /\ StatesChange
      /\ HasColumns(db'.states, {"consumed", "expired"})
  BY <1>1, StatesUnmoved DEF AuditGrows, IsSequence, PlatformInvariant, TablesInvariant, TablesAreSound
<1>3. ASSUME NEW t \in DOMAIN db'.sessions, db'.sessions[t].response # << >>
      PROVE  db'.sessions[t].response = <<db'.sessions[t].response[1]>>
  BY <1>3 DEF PlatformInvariant, TablesInvariant, TablesAreSound
<1> QED BY <1>1, <1>2, <1>3, AccessWritten DEF SessionColumns

LEMMA LoginStep ==
    ASSUME PlatformInvariant, NEW r \in InFlight, Login(r)
    PROVE  Moves(r) /\ Grows /\ TablesInvariant' /\ RequestInvariant(r)'
<1> DEFINE live == {s \in DOMAIN db.states : ~db.states[s].consumed /\ ~db.states[s].expired}
           kept == [s \in live |-> db.states[s]]
           fresh == [consumed |-> FALSE, expired |-> FALSE]
<1>1. answer[r].status = "pending" /\ request[r].kind = "login"
  BY AtQuery DEF Login, Query, IsOnRoute
<1>2. Moves(r) /\ IsDone(r, r) /\ RequestInvariant(r)'
  BY <1>1, PlainSuccessIsSound DEF Login
<1>3. /\ DOMAIN kept \subseteq DOMAIN db.states
      /\ \A s \in DOMAIN kept : kept[s] = db.states[s]
      /\ StateColumns \subseteq DOMAIN fresh
  BY DEF StateColumns
<1>4. db' = [db EXCEPT !.states = With(kept, r, fresh)]
  BY DEF Login
<1> HIDE DEF kept, fresh
<1>5. db'.states = With(kept, r, fresh) /\ Changes({"states"})
  BY <1>4, TableSet
<1>6. /\ DOMAIN db'.states = DOMAIN kept \union {r} /\ db'.states[r] = fresh
      /\ \A s \in DOMAIN kept : s # r => db'.states[s] = kept[s]
  BY <1>5 DEF With
<1>7. StatesChange
  BY <1>1, <1>2, <1>3, <1>6 DEF StatesChange, IsDone, Usable
<1>8. HasColumns(db'.states, StateColumns) /\ Changes({"accounts", "states"})
  BY <1>3, <1>5, <1>6
     DEF PlatformInvariant, TablesInvariant, TablesAreSound, HasColumns, StateColumns, Changes
<1> QED BY <1>2, <1>7, <1>8, IdentityWritten

\* One state that is waiting is consumed or expires.
LEMMA StateWritten ==
    ASSUME PlatformInvariant, NEW s \in DOMAIN db.states, NEW column \in StateColumns,
           Usable(s), db' = [db EXCEPT !.states[s] = [@ EXCEPT ![column] = TRUE]]
    PROVE  Grows /\ TablesInvariant' /\ ~Usable(s)'
<1> DEFINE row == [db.states[s] EXCEPT ![column] = TRUE]
<1>1. /\ "states" \in DOMAIN db /\ HasColumns(db.states, StateColumns)
      /\ StateColumns \subseteq DOMAIN db.states[s]
  BY DEF PlatformInvariant, TablesInvariant, TablesAreSound, HasColumns, StateColumns
<1>2. DOMAIN row = DOMAIN db.states[s] /\ row[column] = TRUE
  BY <1>1
<1>3. db' = [db EXCEPT !.states[s] = row]
  OBVIOUS
<1> HIDE DEF row
<1>4. db'.states = [db.states EXCEPT ![s] = row] /\ Changes({"accounts", "states"})
  BY <1>1, <1>3 DEF Changes
<1>5. /\ DOMAIN db'.states = DOMAIN db.states /\ db'.states[s] = row
      /\ \A o \in DOMAIN db.states : o # s => db'.states[o] = db.states[o]
  BY <1>4
<1>6. StatesChange /\ HasColumns(db'.states, StateColumns)
  BY <1>1, <1>2, <1>5 DEF StatesChange, HasColumns, Usable
<1>7. ~Usable(s)'
  BY <1>2, <1>5 DEF Usable, StateColumns
<1> QED BY <1>4, <1>6, <1>7, IdentityWritten

LEMMA ConsumeStateStep ==
    ASSUME PlatformInvariant, NEW r \in InFlight, ConsumeState(r)
    PROVE  /\ Moves(r) /\ Grows /\ TablesInvariant' /\ RequestInvariant(r)'
           /\ IsRefused(r) \/ (Usable(request[r].state) /\ ~Usable(request[r].state)')
<1>0. PICK s : s = request[r].state
  OBVIOUS
<1>1. /\ IsKept /\ answer[r].status = "pending" /\ request[r].kind = "launch"
      /\ at[r] = "consumeState"
  BY AtQuery DEF ConsumeState, Query, IsOnRoute
<1>2. ASSUME Continue(r, AfterState(r)) PROVE Moves(r) /\ RequestInvariant(r)'
  <2>1. AfterState(r) \in {"findLaunchAssignment", "findIdentity"}  BY DEF AfterState
  <2> QED BY <1>1, <1>2, <2>1, Continued, GoesAhead DEF IsOnRoute
<1>3. ASSUME Usable(s), Continue(r, AfterState(r)), db' = [db EXCEPT !.states[s].consumed = TRUE]
      PROVE  /\ Moves(r) /\ Grows /\ TablesInvariant' /\ RequestInvariant(r)'
             /\ Usable(request[r].state) /\ ~Usable(request[r].state)'
  <2>1. db' = [db EXCEPT !.states[s] = [@ EXCEPT !["consumed"] = TRUE]] /\ s \in DOMAIN db.states
    BY <1>3 DEF Usable
  <2>2. "consumed" \in StateColumns
    BY DEF StateColumns
  <2>3. Grows /\ TablesInvariant' /\ ~Usable(s)'
    BY <1>3, <2>1, <2>2, StateWritten
  <2>4. request'[r].state = s
    BY <1>0, <1>2, <1>3 DEF Moves
  <2>5. Usable(request[r].state) /\ ~Usable(request[r].state)'
    BY <1>0, <1>3, <2>3, <2>4 DEF Usable
  <2> QED BY <1>2, <1>3, <2>3, <2>5
<1>4. \/ Usable(s) /\ Continue(r, AfterState(r)) /\ db' = [db EXCEPT !.states[s].consumed = TRUE]
      \/ Refuse(r, "LTI_LOGIN_STATE_INVALID") /\ UNCHANGED db
  BY <1>0 DEF ConsumeState
<1>5. CASE Usable(s) /\ Continue(r, AfterState(r)) /\ db' = [db EXCEPT !.states[s].consumed = TRUE]
  BY <1>3, <1>5
<1>6. CASE Refuse(r, "LTI_LOGIN_STATE_INVALID") /\ UNCHANGED db
  <2>1. Moves(r) /\ Grows /\ TablesInvariant' /\ RequestInvariant(r)'
    BY <1>6, RefusedStep
  <2>2. IsRefused(r)
    BY <1>1, <1>6, Refused
  <2> QED BY <2>1, <2>2
<1> QED BY <1>4, <1>5, <1>6

LEMMA ProvisionUserStep ==
    ASSUME PlatformInvariant, NEW r \in InFlight, ProvisionUser(r)
    PROVE  Moves(r) /\ Grows /\ TablesInvariant' /\ RequestInvariant(r)'
<1>1. /\ IsKept /\ answer[r].status = "pending" /\ request[r].kind = "launch"
      /\ at[r] = "provisionUser"
  BY AtQuery DEF ProvisionUser, Query, IsOnRoute
<1>2. Moves(r) /\ RequestInvariant(r)'
  BY <1>1, Continued, GoesAhead DEF ProvisionUser, IsOnRoute
<1>3. /\ {"accounts", "assignments"} \subseteq DOMAIN db
      /\ HasColumns(db.assignments, AssignmentColumns)
  BY DEF PlatformInvariant, TablesInvariant, TablesAreSound, AssignmentColumns
<1>4. PICK table : db' = [db EXCEPT !.accounts = table, !.assignments = Enrolled(r, @)]
  BY DEF ProvisionUser
<1>5. db'.assignments = Enrolled(r, db.assignments) /\ Changes({"accounts", "assignments"})
  BY <1>3, <1>4 DEF Changes
<1>6. CASE request[r].role = "learner"
  <2> DEFINE e == request[r].assignment
             row == [db.assignments[e] EXCEPT !.learners = @ \union {request[r].subject}]
  <2>1. e \in DOMAIN db.assignments =>
            /\ DOMAIN row = DOMAIN db.assignments[e]
            /\ db.assignments[e].learners \subseteq row.learners
            /\ \A name \in DOMAIN row : name # "learners" => row[name] = db.assignments[e][name]
    BY <1>3 DEF HasColumns, AssignmentColumns
  <2>2. db'.assignments = [db.assignments EXCEPT ![e] = row]
    BY <1>5, <1>6 DEF Enrolled
  <2> HIDE DEF row, e
  <2>3. /\ DOMAIN db'.assignments = DOMAIN db.assignments
        /\ e \in DOMAIN db.assignments => db'.assignments[e] = row
        /\ \A o \in DOMAIN db.assignments : o # e => db'.assignments[o] = db.assignments[o]
    BY <2>2
  <2>4. e \in DOMAIN db.assignments =>
            /\ row.command = db.assignments[e].command /\ row.pack = db.assignments[e].pack
            /\ row.content = db.assignments[e].content
            /\ row.closedBy = db.assignments[e].closedBy
            /\ row.releasedBy = db.assignments[e].releasedBy
    BY <1>3, <2>1 DEF HasColumns, AssignmentColumns
  <2>5. AssignmentsGrow
    BY <2>1, <2>3, <2>4 DEF AssignmentsGrow
  <2>6. HasColumns(db'.assignments, AssignmentColumns)
    BY <1>3, <2>1, <2>3 DEF HasColumns
  <2> QED BY <1>2, <1>5, <2>5, <2>6, AssignmentsWritten DEF AssignmentColumns
<1>7. CASE request[r].role # "learner"
  <2>1. db'.assignments = db.assignments  BY <1>5, <1>7 DEF Enrolled
  <2>2. AssignmentsGrow /\ HasColumns(db'.assignments, AssignmentColumns)
    BY <1>3, <2>1 DEF AssignmentsGrow
  <2> QED BY <1>2, <1>5, <2>2, AssignmentsWritten DEF AssignmentColumns
<1> QED BY <1>6, <1>7

LEMMA CreateSessionStep ==
    ASSUME PlatformInvariant, NEW r \in InFlight, CreateSession(r)
    PROVE  Moves(r) /\ Grows /\ TablesInvariant' /\ RequestInvariant(r)'
<1> DEFINE q == request[r]
           session == [user |-> q.subject, role |-> q.role, type |-> q.type,
                       context |-> q.context, assignment |-> q.assignment, revoked |-> FALSE,
                       expired |-> FALSE, response |-> << >>]
           live == {t \in DOMAIN db.sessions : OpenSession(t)}
           kept == [t \in live |-> db.sessions[t]]
<1>1. answer[r].status = "pending" /\ q.kind = "launch"
  BY AtQuery DEF CreateSession, Query, IsOnRoute
<1>2. Moves(r) /\ IsDone(r, r) /\ RequestInvariant(r)'
  BY <1>1, PlainSuccessIsSound DEF CreateSession
<1>3. r \notin DOMAIN db.sessions
  BY <1>1 DEF PlatformInvariant, NamesAreNew
<1>4. db' = [db EXCEPT !.sessions = With(kept, r, session)]
  BY DEF CreateSession
<1>5. SessionColumns \subseteq DOMAIN session /\ session.response = << >>
  BY DEF SessionColumns
<1>6. /\ DOMAIN kept \subseteq DOMAIN db.sessions
      /\ \A t \in DOMAIN kept : kept[t] = db.sessions[t]
  OBVIOUS
<1> HIDE DEF session, kept
<1>7. db'.sessions = With(kept, r, session) /\ Changes({"sessions"})
  BY <1>4, TableSet
<1>8. /\ DOMAIN db'.sessions = DOMAIN kept \union {r} /\ db'.sessions[r] = session
      /\ \A t \in DOMAIN kept : t # r => db'.sessions[t] = kept[t]
  BY <1>7 DEF With
<1>9. SessionsChange
  BY <1>1, <1>2, <1>3, <1>6, <1>8 DEF SessionsChange, IsDone
<1>10. /\ HasColumns(db'.sessions, SessionColumns)
       /\ \A t \in DOMAIN db'.sessions :
              \/ t \in DOMAIN db.sessions /\ db'.sessions[t].response = db.sessions[t].response
              \/ db'.sessions[t].response = << >>
  BY <1>3, <1>5, <1>6, <1>8
     DEF PlatformInvariant, TablesInvariant, TablesAreSound, HasColumns, SessionColumns
<1> QED BY <1>2, <1>7, <1>9, <1>10, SessionsWritten

\* One session that stands in the table is written over in a column other than its response,
\* or in its response while that is empty.
LEMMA SessionWritten ==
    ASSUME PlatformInvariant, NEW t \in DOMAIN db.sessions, NEW column \in SessionColumns,
           NEW value, db' = [db EXCEPT !.sessions[t] = [@ EXCEPT ![column] = value]],
           column = "response" =>
               db.sessions[t].response = << >> /\ \E response : value = <<response>>
    PROVE  /\ Grows /\ TablesInvariant'
           /\ DOMAIN db'.sessions = DOMAIN db.sessions /\ db'.sessions[t][column] = value
<1> DEFINE row == [db.sessions[t] EXCEPT ![column] = value]
<1>1. /\ "sessions" \in DOMAIN db /\ HasColumns(db.sessions, SessionColumns)
      /\ SessionColumns \subseteq DOMAIN db.sessions[t]
  BY DEF PlatformInvariant, TablesInvariant, TablesAreSound, HasColumns, SessionColumns
<1>2. /\ DOMAIN row = DOMAIN db.sessions[t] /\ row[column] = value
      /\ \A name \in DOMAIN row : name # column => row[name] = db.sessions[t][name]
  BY <1>1
<1>3. db' = [db EXCEPT !.sessions[t] = row]
  OBVIOUS
<1> HIDE DEF row
<1>4. db'.sessions = [db.sessions EXCEPT ![t] = row] /\ Changes({"sessions"})
  BY <1>1, <1>3 DEF Changes
<1>5. /\ DOMAIN db'.sessions = DOMAIN db.sessions /\ db'.sessions[t] = row
      /\ \A o \in DOMAIN db.sessions : o # t => db'.sessions[o] = db.sessions[o]
  BY <1>4
<1>6. \/ row.response = db.sessions[t].response
      \/ db.sessions[t].response = << >> /\ \E response : row.response = <<response>>
  BY <1>1, <1>2 DEF SessionColumns
<1>7. SessionsChange /\ HasColumns(db'.sessions, SessionColumns)
  BY <1>1, <1>2, <1>5, <1>6 DEF SessionsChange, HasColumns
<1> QED BY <1>2, <1>4, <1>5, <1>6, <1>7, SessionsWritten

LEMMA LogoutStep ==
    ASSUME PlatformInvariant, NEW r \in InFlight, Logout(r)
    PROVE  Moves(r) /\ Grows /\ TablesInvariant' /\ RequestInvariant(r)'
<1> DEFINE t == request[r].session
<1>1. answer[r].status = "pending" /\ request[r].kind = "logout"
  BY AtQuery DEF Logout, Query, IsOnRoute
<1>2. Moves(r) /\ RequestInvariant(r)'
  BY <1>1, PlainSuccessIsSound DEF Logout
<1>3. CASE t \in DOMAIN db.sessions
  <2>1. db' = [db EXCEPT !.sessions[t] = [@ EXCEPT !["revoked"] = TRUE]]
    BY <1>3 DEF Logout
  <2> QED BY <1>2, <1>3, <2>1, SessionWritten DEF SessionColumns
<1>4. CASE t \notin DOMAIN db.sessions
  BY <1>2, <1>4, NothingWritten DEF Logout
<1> QED BY <1>3, <1>4

LEMMA CompleteLinkStep ==
    ASSUME PlatformInvariant, NEW r \in InFlight, CompleteLink(r)
    PROVE  Moves(r) /\ Grows /\ TablesInvariant' /\ RequestInvariant(r)'
<1> DEFINE t == request[r].session
           response == [selection |-> request[r].selection, signed |-> r]
<1>1. /\ IsKept /\ answer[r].status = "pending" /\ at[r] = "completeLink"
      /\ request[r].kind = "link"
  BY AtQuery DEF CompleteLink, Query, IsOnRoute
<1>2. ASSUME Continue(r, "findConcurrentLink") PROVE Moves(r) /\ RequestInvariant(r)'
  BY <1>1, <1>2, Continued, GoesAhead DEF IsOnRoute
<1>3. ASSUME OpenSession(t), ~IsComplete(t), Done(r, response),
             db' = [db EXCEPT !.sessions[t].response = <<response>>]
      PROVE  Moves(r) /\ Grows /\ TablesInvariant' /\ RequestInvariant(r)'
  <2> HIDE DEF response
  <2>1. t \in DOMAIN db.sessions /\ db.sessions[t].response = << >>
    BY <1>3 DEF OpenSession, IsComplete
  <2>2. db' = [db EXCEPT !.sessions[t] = [@ EXCEPT !["response"] = <<response>>]]
    BY <1>3
  <2>3. /\ Grows /\ TablesInvariant'
        /\ db'.sessions[t].response = <<response>>
    BY <2>1, <2>2, SessionWritten DEF SessionColumns
  <2>4. Moves(r) /\ IsDone(r, response) /\ request' = request
    BY <1>1, <1>3, Finished DEF Moves
  <2>5. t \in InFlight => t # r /\ answer[t].status # "pending"
    BY <1>1, <2>1 DEF PlatformInvariant, NamesAreNew
  <2>6. RowIsThere(r)' /\ LinkIsSettled(r)'
    BY <1>1, <2>4, <2>5 DEF RowIsThere, LinkIsSettled, Moves, InFlight
  <2>7. AnswerStands(r)'
    BY <1>1, <2>3, <2>4 DEF AnswerStands, IsDone
  <2> QED BY <2>3, <2>4, <2>6, <2>7, SuccessIsSound
<1> QED BY <1>2, <1>3, NothingWritten DEF CompleteLink

LEMMA ExpiryStep ==
    ASSUME PlatformInvariant
    PROVE  /\ \A s \in DOMAIN db.states : StateExpires(s) => Grows /\ TablesInvariant'
           /\ \A t \in DOMAIN db.sessions : SessionExpires(t) => Grows /\ TablesInvariant'
<1>1. ASSUME NEW s \in DOMAIN db.states, StateExpires(s) PROVE Grows /\ TablesInvariant'
  <2>1. db' = [db EXCEPT !.states[s] = [@ EXCEPT !["expired"] = TRUE]] /\ Usable(s)
    BY <1>1 DEF StateExpires
  <2> QED BY <2>1, StateWritten DEF StateColumns
<1>2. ASSUME NEW t \in DOMAIN db.sessions, SessionExpires(t) PROVE Grows /\ TablesInvariant'
  <2>1. db' = [db EXCEPT !.sessions[t] = [@ EXCEPT !["expired"] = TRUE]]
    BY <1>2 DEF SessionExpires
  <2> QED BY <2>1, SessionWritten DEF SessionColumns
<1> QED BY <1>1, <1>2

LEMMA StoreAccessStep ==
    ASSUME PlatformInvariant, NEW r \in InFlight, StoreAccess(r)
    PROVE  Moves(r) /\ Grows /\ TablesInvariant' /\ RequestInvariant(r)'
<1> DEFINE command == AccessCommand(r)
<1>1. /\ IsKept /\ answer[r].status = "pending" /\ at[r] = "storeAccess"
      /\ request[r].kind = "administer"
  BY AtQuery DEF StoreAccess, Query, IsOnRoute
<1>2. ASSUME Continue(r, "findConcurrentAccess") PROVE Moves(r) /\ RequestInvariant(r)'
  BY <1>1, <1>2, Continued, GoesAhead DEF IsOnRoute
<1>3. ASSUME Done(r, command),
             db' = [db EXCEPT !.accounts = Granted(r, @),
                              !.accessCommands = Append(@, command)]
      PROVE  Moves(r) /\ Grows /\ TablesInvariant' /\ RequestInvariant(r)'
  <2> HIDE DEF command
  <2>1. /\ {"accounts", "accessCommands"} \subseteq DOMAIN db
        /\ IsSequence(db.accessCommands)
    BY DEF PlatformInvariant, TablesInvariant, TablesAreSound, IsSequence
  <2>2. /\ db'.accessCommands = Append(db.accessCommands, command)
        /\ Changes({"accounts", "accessCommands"})
    BY <1>3, <2>1 DEF Changes
  <2>3. /\ IsSequence(db'.accessCommands)
        /\ \A i \in DOMAIN db.accessCommands :
               i \in DOMAIN db'.accessCommands /\ db'.accessCommands[i] = db.accessCommands[i]
        /\ \E i \in DOMAIN db'.accessCommands : db'.accessCommands[i] = command
    BY <2>1, <2>2, AppendKeeps
  <2>4. /\ db'.sessions = db.sessions /\ db'.states = db.states
        /\ Changes({"accounts", "accessCommands", "states", "sessions"})
    BY <2>2 DEF Changes, PlatformInvariant, TablesInvariant, TablesAreSound
  <2>5. /\ AuditGrows /\ StatesChange /\ SessionsChange
        /\ HasColumns(db'.states, {"consumed", "expired"})
        /\ HasColumns(db'.sessions, {"revoked", "expired", "response"})
        /\ \A t \in DOMAIN db'.sessions :
               db'.sessions[t].response # << >> =>
                   db'.sessions[t].response = <<db'.sessions[t].response[1]>>
    BY <2>3, <2>4, StatesUnmoved DEF AuditGrows, SessionsChange, PlatformInvariant, TablesInvariant,
                      TablesAreSound
  <2>6. Grows /\ TablesInvariant'
    BY <2>3, <2>4, <2>5, AccessWritten
  <2>7. Moves(r) /\ IsDone(r, command) /\ request' = request
    BY <1>1, <1>3, Finished DEF Moves
  <2>8. RowIsThere(r)' /\ LinkIsSettled(r)' /\ AnswerStands(r)'
    BY <1>1, <2>3, <2>7 DEF RowIsThere, LinkIsSettled, AnswerStands, IsDone
  <2> QED BY <2>6, <2>7, <2>8, SuccessIsSound
<1> QED BY <1>2, <1>3, NothingWritten, RefusedStep DEF StoreAccess

\* One more revision of a criterion, with the number after the latest.
LEMMA RevisionWritten ==
    ASSUME PlatformInvariant, NEW table \in {"ratings", "moderations"}, NEW row,
           db' = [db EXCEPT ![table] = @ \union {row}],
           row.run \in DOMAIN db.runs, db.runs[row.run].completed,
           row.revision = LatestRevision(table, row.run, row.criterion) + 1,
           table = "moderations" =>
               row.sources \subseteq
                   {x.command : x \in RevisionsOf("ratings", row.run, row.criterion)}
    PROVE  Grows /\ TablesInvariant'
<1>1. TablesAreSound /\ RunsPlayAssignedContent /\ RevisionsAreNumbered /\ MembersAreOneSnapshot
  BY DEF PlatformInvariant, TablesInvariant
<1>2. db'[table] = db[table] \union {row} /\ Changes({table})
  BY TableSet
<1>3. /\ db'.packs = db.packs /\ db'.accessCommands = db.accessCommands
      /\ db'.assignments = db.assignments /\ db'.runs = db.runs /\ db'.states = db.states
      /\ db'.sessions = db.sessions /\ db'.members = db.members /\ db'.syncs = db.syncs
      /\ DOMAIN db' = DOMAIN db
      /\ \A other \in {"ratings", "moderations"} : other # table => db'[other] = db[other]
  BY <1>1, <1>2 DEF Changes, TablesAreSound
<1>4. Grows
  BY <1>2, <1>3, StatesUnmoved DEF Grows, PacksGrow, AssignmentsGrow, RunsGrow, RevisionsGrow, AuditGrows,
                    SessionsChange, SyncsGrow
<1>5. TablesAreSound'
  <2>1. IsFiniteSet(db'.ratings) /\ IsFiniteSet(db'.moderations)
    BY <1>1, <1>2, <1>3, FS_AddElement DEF TablesAreSound
  <2>2. \A x \in db'.ratings \union db'.moderations : x.run \in DOMAIN db.runs
    BY <1>1, <1>2, <1>3 DEF TablesAreSound
  <2> QED BY <1>1, <1>3, <2>1, <2>2 DEF TablesAreSound, HasColumns
<1>6. RunsPlayAssignedContent'
  BY <1>1, <1>3, <1>4, RunsPlayOn, RunsAllPlay DEF Grows
<1>7. MembersAreOneSnapshot'
  BY <1>1, <1>3, MembersUnmoved
<1>8. RevisionsAreNumbered'
  <2> DEFINE rows == RevisionsOf(table, row.run, row.criterion)
             n == LatestRevision(table, row.run, row.criterion)
  <2>1. /\ IsFiniteSet(rows) /\ n = Cardinality(rows) /\ n \in Nat
        /\ {x.revision : x \in rows} = 1..n
    BY LatestIsStored
  <2>2. ASSUME NEW other \in {"ratings", "moderations"}, NEW run, NEW criterion,
               other # table \/ run # row.run \/ criterion # row.criterion
        PROVE  RevisionsOf(other, run, criterion)' = RevisionsOf(other, run, criterion)
    BY <1>2, <1>3, <2>2 DEF RevisionsOf
  <2>3. RevisionsOf(table, row.run, row.criterion)' = rows \union {row}
    BY <1>2 DEF RevisionsOf
  <2>4. LET now == rows \union {row}
        IN  {x.revision : x \in now} = 1..Cardinality(now)
    <3>1. row \notin rows /\ n + 1 \notin 1..n
      BY <2>1
    <3>2. Cardinality(rows \union {row}) = n + 1
      BY <2>1, <3>1, FS_AddElement
    <3>3. {x.revision : x \in rows \union {row}} = {x.revision : x \in rows} \union {n + 1}
      OBVIOUS
    <3>4. 1..n \union {n + 1} = 1..(n + 1)
      BY <2>1
    <3> QED BY <2>1, <3>2, <3>3, <3>4
  <2>5. ASSUME NEW other \in {"ratings", "moderations"}, NEW x \in db'[other]
        PROVE  /\ LET all == RevisionsOf(other, x.run, x.criterion)'
                  IN  {y.revision : y \in all} = 1 .. Cardinality(all)
               /\ db'.runs[x.run].completed
    <3>1. CASE other = table /\ x.run = row.run /\ x.criterion = row.criterion
      BY <1>3, <2>3, <2>4, <3>1
    <3>2. CASE other # table \/ x.run # row.run \/ x.criterion # row.criterion
      <4>1. x \in db[other]
        BY <1>2, <1>3, <3>2
      <4>2. RevisionsOf(other, x.run, x.criterion)' = RevisionsOf(other, x.run, x.criterion)
        BY <2>2, <3>2
      <4> QED BY <1>1, <1>3, <4>1, <4>2 DEF RevisionsAreNumbered
    <3> QED BY <3>1, <3>2
  <2>6. ASSUME NEW x \in db'.moderations, NEW source \in x.sources
        PROVE  \E y \in RevisionsOf("ratings", x.run, x.criterion)' : y.command = source
    <3>1. RevisionsOf("ratings", x.run, x.criterion)
              \subseteq RevisionsOf("ratings", x.run, x.criterion)'
      BY <1>4 DEF RevisionsOf, Grows, RevisionsGrow
    <3>2. \E y \in RevisionsOf("ratings", x.run, x.criterion) : y.command = source
      <4>1. CASE x \in db.moderations
        BY <1>1, <4>1 DEF RevisionsAreNumbered
      <4>2. CASE x \notin db.moderations
        <5>1. x = row /\ table = "moderations"
          BY <1>2, <1>3, <4>2
        <5> QED BY <5>1
      <4> QED BY <4>1, <4>2
    <3> QED BY <3>1, <3>2
  <2> QED BY <2>5, <2>6 DEF RevisionsAreNumbered
<1> QED BY <1>4, <1>5, <1>6, <1>7, <1>8 DEF TablesInvariant

LEMMA InsertRevisionStep ==
    ASSUME PlatformInvariant, NEW r \in InFlight, InsertRevision(r)
    PROVE  Moves(r) /\ Grows /\ TablesInvariant' /\ RequestInvariant(r)'
<1> DEFINE q == request[r]
           table == Table(r)
           row == Revision(r)
           rows == RevisionsOf(table, q.run, q.criterion)
           n == LatestRevision(table, q.run, q.criterion)
<1>1. /\ IsKept /\ answer[r].status = "pending" /\ at[r] = "insertRevision"
      /\ q.kind \in {"rate", "moderate"} /\ q.expected \in Nat
      /\ q.run \in DOMAIN db.runs /\ db.runs[q.run].completed
      /\ q.kind # "rate" => SourcesStored(q)
      /\ q.expected = 0 \/ \E x \in rows : x.revision = q.expected
  BY AtQuery DEF InsertRevision, Query, IsOnRoute, KnowsRun, PlatformInvariant, RequestsAreSound
<1>2. /\ row.run = q.run /\ row.criterion = q.criterion /\ row.sources = q.sources
      /\ row.revision = q.expected + 1
  BY DEF Revision
<1>3. table \in {"ratings", "moderations"} /\ (table = "moderations" => q.kind # "rate")
  BY DEF Table
<1>4. ASSUME Continue(r, "findConcurrentRevision"), UNCHANGED db
      PROVE  Moves(r) /\ Grows /\ TablesInvariant' /\ RequestInvariant(r)'
  BY <1>1, <1>4, ReviewGoesOn, NothingWritten
<1>5. ASSUME ~ \E x \in rows : x.revision = q.expected + 1,
             db' = [db EXCEPT ![table] = @ \union {row}]
      PROVE  Grows /\ TablesInvariant' /\ row \in db'[table]
  <2>1. n \in Nat /\ {x.revision : x \in rows} = 1..n
    BY <1>3, LatestIsStored
  <2>2. q.expected + 1 \notin 1..n
    BY <1>5, <2>1
  <2>3. q.expected = 0 \/ q.expected \in 1..n
    BY <1>1, <2>1
  <2>4. q.expected = n
    BY <1>1, <2>1, <2>2, <2>3
  <2>5. row.revision = LatestRevision(table, row.run, row.criterion) + 1
    BY <1>2, <2>4
  <2>6. table = "moderations" =>
            row.sources \subseteq
                {x.command : x \in RevisionsOf("ratings", row.run, row.criterion)}
    BY <1>1, <1>2, <1>3 DEF SourcesStored
  <2> HIDE DEF row, table
  <2>7. Grows /\ TablesInvariant'
    BY <1>1, <1>2, <1>3, <1>5, <2>5, <2>6, RevisionWritten
  <2>8. row \in db'[table]
    <3>1. table \in DOMAIN db
      BY <1>3 DEF PlatformInvariant, TablesInvariant, TablesAreSound
    <3> QED BY <1>5, <3>1
  <2> QED BY <2>7, <2>8
<1>6. ASSUME Done(r, row), row \in db'[table] PROVE Moves(r) /\ RequestInvariant(r)'
  <2> HIDE DEF row
  <2>1. Moves(r) /\ IsDone(r, row) /\ request' = request
    BY <1>1, <1>6, Finished DEF Moves
  <2>2. RowIsThere(r)' /\ LinkIsSettled(r)'
    BY <1>1, <2>1 DEF RowIsThere, LinkIsSettled
  <2>3. Table(r)' = table  BY <2>1 DEF Table
  <2>4. AnswerStands(r)'
    BY <1>1, <1>6, <2>1, <2>3 DEF AnswerStands, IsDone
  <2> QED BY <2>1, <2>2, <2>4, SuccessIsSound
<1>7. ASSUME Continue(r, "findConcurrentRevision"), Grows PROVE Moves(r) /\ RequestInvariant(r)'
  <2>1. Moves(r) /\ Goes(r, "findConcurrentRevision", << >>) /\ request' = request
    BY <1>1, <1>7, Continued DEF Moves
  <2>2. KnowsAssignment(r)'  BY <2>1, NoAssignmentAhead
  <2>3. KnowsRun(r)'  BY <1>1, <1>7, <2>1 DEF KnowsRun, Goes, Grows, RunsGrow
  <2> QED BY <1>1, <2>1, <2>2, <2>3, GoesOn DEF IsOnRoute
<1>8. \/ /\ ~ \E x \in rows : x.revision = q.expected + 1
         /\ db' = [db EXCEPT ![table] = @ \union {row}]
         /\ Done(r, row) \/ Continue(r, "findConcurrentRevision")
      \/ Continue(r, "findConcurrentRevision") /\ UNCHANGED db
  BY DEF InsertRevision
<1> HIDE DEF row, table, rows
<1> QED BY <1>4, <1>5, <1>6, <1>7, <1>8

LEMMA SynchronizeStep ==
    ASSUME PlatformInvariant, NEW r \in InFlight, Synchronize(r)
    PROVE  Moves(r) /\ Grows /\ TablesInvariant' /\ RequestInvariant(r)'
<1> DEFINE q == request[r]
           snapshot == seen[r].snapshot
           context == seen[r].context
           sync == StoredSync(r, snapshot)
           there == {[context |-> context, user |-> u] : u \in DOMAIN snapshot}
           known == {m \in DOMAIN db.members : m.context = context}
           rows == [m \in there \union known |->
                       [status |-> IF m.user \in DOMAIN snapshot THEN snapshot[m.user] ELSE "inactive",
                        sync |-> q.sync]]
<1>1. /\ IsKept /\ answer[r].status = "pending" /\ at[r] = "synchronize" /\ q.kind = "sync"
  BY AtQuery DEF Synchronize, Query, IsOnRoute
<1>2. ASSUME q.sync \notin DOMAIN db.syncs, Done(r, snapshot),
             db' = [db EXCEPT !.syncs = With(@, q.sync, sync),
                              !.accounts = WithRole(@, DOMAIN snapshot, "learner"),
                              !.members = Members(r, @)]
      PROVE  Moves(r) /\ Grows /\ TablesInvariant' /\ RequestInvariant(r)'
  <2>1. TablesAreSound /\ RunsPlayAssignedContent /\ RevisionsAreNumbered /\ MembersAreOneSnapshot
    BY DEF PlatformInvariant, TablesInvariant
  <2>2. sync.snapshot = snapshot
    BY DEF StoredSync
  <2>3. /\ DOMAIN rows = there \union known
        /\ \A m \in DOMAIN rows :
               /\ rows[m].sync = q.sync
               /\ rows[m].status = (IF m.user \in DOMAIN snapshot THEN snapshot[m.user]
                                    ELSE "inactive")
               /\ m.context = context
        /\ \A m \in DOMAIN db.members : m.context = context => m \in DOMAIN rows
    OBVIOUS
  <2>4. db' = [db EXCEPT !.syncs = With(@, q.sync, sync),
                         !.accounts = WithRole(@, DOMAIN snapshot, "learner"),
                         !.members = Merged(rows, @)]
    BY <1>2 DEF Members
  <2> HIDE DEF sync, rows
  <2>5. {"syncs", "accounts", "members"} \subseteq DOMAIN db
    BY <2>1 DEF TablesAreSound
  <2>6. /\ db'.syncs = With(db.syncs, q.sync, sync) /\ db'.members = Merged(rows, db.members)
        /\ Changes({"syncs", "accounts", "members"})
    BY <2>4, <2>5 DEF Changes
  <2>7. /\ db'.packs = db.packs /\ db'.accessCommands = db.accessCommands
        /\ db'.assignments = db.assignments /\ db'.runs = db.runs /\ db'.ratings = db.ratings
        /\ db'.moderations = db.moderations /\ db'.sessions = db.sessions
        /\ db'.states = db.states /\ DOMAIN db' = DOMAIN db
    BY <2>1, <2>6 DEF Changes, TablesAreSound
  <2>8. /\ DOMAIN db'.syncs = DOMAIN db.syncs \union {q.sync} /\ db'.syncs[q.sync] = sync
        /\ \A s \in DOMAIN db.syncs : db'.syncs[s] = db.syncs[s]
    BY <1>2, <2>6 DEF With
  <2>9. /\ DOMAIN db'.members = DOMAIN db.members \union DOMAIN rows
        /\ \A m \in DOMAIN rows : db'.members[m] = rows[m]
        /\ \A m \in DOMAIN db.members : m \notin DOMAIN rows => db'.members[m] = db.members[m]
    BY <2>6 DEF Merged
  <2>10. Grows
    BY <2>7, <2>8, StatesUnmoved DEF Grows, PacksGrow, AssignmentsGrow, RunsGrow, RevisionsGrow, AuditGrows,
                      SessionsChange, SyncsGrow
  <2>11. TablesAreSound'
    <3>1. \A m \in DOMAIN db'.members : db'.members[m].sync \in DOMAIN db'.syncs
      BY <2>1, <2>3, <2>8, <2>9 DEF TablesAreSound
    <3> QED BY <2>1, <2>7, <3>1 DEF TablesAreSound, HasColumns
  <2>12. RunsPlayAssignedContent' /\ RevisionsAreNumbered'
    BY <2>1, <2>7, <2>10, RunsPlayOn, RunsAllPlay, RevisionsUnmoved DEF Grows
  <2>13. ASSUME NEW m \in DOMAIN db'.members
         PROVE  /\ \A k \in DOMAIN db'.members :
                       k.context = m.context => db'.members[k].sync = db'.members[m].sync
                /\ db'.members[m].status =
                       (IF m.user \in DOMAIN db'.syncs[db'.members[m].sync].snapshot
                        THEN db'.syncs[db'.members[m].sync].snapshot[m.user] ELSE "inactive")
    <3>1. CASE m \in DOMAIN rows
      <4>1. \A k \in DOMAIN db'.members : k.context = m.context => k \in DOMAIN rows
        BY <2>3, <2>9, <3>1
      <4>2. db'.members[m] = rows[m] /\ rows[m].sync = q.sync
        BY <2>3, <2>9, <3>1
      <4>3. db'.syncs[db'.members[m].sync].snapshot = snapshot
        BY <2>2, <2>8, <4>2
      <4>4. \A k \in DOMAIN db'.members : k.context = m.context => db'.members[k].sync = q.sync
        BY <2>3, <2>9, <4>1
      <4> QED BY <2>3, <3>1, <4>2, <4>3, <4>4
    <3>2. CASE m \notin DOMAIN rows
      <4>1. m \in DOMAIN db.members /\ db'.members[m] = db.members[m] /\ m.context # context
        BY <2>3, <2>9, <3>2
      <4>2. \A k \in DOMAIN db'.members : k.context = m.context =>
                k \in DOMAIN db.members /\ db'.members[k] = db.members[k]
        BY <2>3, <2>9, <4>1
      <4>3. db.members[m].sync \in DOMAIN db.syncs
        BY <2>1, <4>1 DEF TablesAreSound
      <4>4. db'.syncs[db.members[m].sync] = db.syncs[db.members[m].sync]
        BY <2>8, <4>3
      <4>5. /\ \A k \in DOMAIN db.members :
                   k.context = m.context => db.members[k].sync = db.members[m].sync
            /\ db.members[m].status =
                   (IF m.user \in DOMAIN db.syncs[db.members[m].sync].snapshot
                    THEN db.syncs[db.members[m].sync].snapshot[m.user] ELSE "inactive")
        BY <2>1, <4>1 DEF MembersAreOneSnapshot
      <4> QED BY <4>1, <4>2, <4>4, <4>5
    <3> QED BY <3>1, <3>2
  <2>14. MembersAreOneSnapshot'
    BY <2>13 DEF MembersAreOneSnapshot
  <2>15. Moves(r) /\ IsDone(r, snapshot) /\ request' = request
    BY <1>1, <1>2, Finished DEF Moves
  <2>16. RowIsThere(r)' /\ LinkIsSettled(r)' /\ AnswerStands(r)'
    BY <1>1, <2>2, <2>8, <2>15 DEF RowIsThere, LinkIsSettled, AnswerStands, IsDone
  <2> QED BY <2>10, <2>11, <2>12, <2>14, <2>15, <2>16, SuccessIsSound DEF TablesInvariant
<1> QED BY <1>2, RefusedStep DEF Synchronize

-----------------------------------------------------------------------------
(* Every step *)

RequestActs(r) ==
    \/ Identify(r) \/ ManagePacks(r) \/ CreateAssignment(r) \/ RunAssignment(r) \/ Review(r)
    \/ Administer(r) \/ Launch(r) \/ Link(r) \/ SyncRoster(r)

LEMMA OnlyPendingAct ==
    ASSUME NEW r \in InFlight, RequestActs(r)
    PROVE  answer[r].status = "pending"
<1>1. Identify(r) => answer[r].status = "pending"
  BY DEF Identify, Authenticate, FindBootstrapUser, ProvisionBootstrapAdministrator, Query
<1>2. ManagePacks(r) => answer[r].status = "pending"
  BY DEF ManagePacks, SaveDraft, FindDraft, FindPublishable, Publish, FindRetirement,
         FindRetirable, Retire, Query
<1>3. CreateAssignment(r) => answer[r].status = "pending"
  BY DEF CreateAssignment, FindContent, FindActiveMembers, FindSameAssignment, FindCreation,
         FindParticipants, InsertAssignment, Query
<1>4. RunAssignment(r) => answer[r].status = "pending"
  BY DEF RunAssignment, FindAssignment, FindClosure, Close, FindConcurrentClosure, Release,
         FindRunContent, CreateRun, Query
<1>5. Review(r) => answer[r].status = "pending"
  BY DEF Review, FindRun, FindRevision, FindSources, ReadLatest, InsertRevision,
         FindConcurrentRevision, Query
<1>6. Administer(r) => answer[r].status = "pending"
  BY DEF Administer, FindAccessCommand, FindUser, StoreAccess, FindConcurrentAccess, Query
<1>7. Launch(r) => answer[r].status = "pending"
  BY DEF Launch, Login, FindState, ConsumeState, FindLaunchAssignment, FindIdentity,
         ProvisionUser, CreateSession, Logout, Query
<1>8. Link(r) => answer[r].status = "pending"
  BY DEF Link, FindSelection, FindLinkAssignment, FindPending, CompleteLink, FindConcurrentLink,
         Query
<1>9. SyncRoster(r) => answer[r].status = "pending"
  BY DEF SyncRoster, FindSync, FetchRoster, FindSameSync, Synchronize, Query
<1> QED BY <1>1, <1>2, <1>3, <1>4, <1>5, <1>6, <1>7, <1>8, <1>9 DEF RequestActs

LEMMA RequestStep ==
    ASSUME PlatformInvariant, NEW r \in InFlight, RequestActs(r)
    PROVE  Moves(r) /\ Grows /\ TablesInvariant' /\ RequestInvariant(r)'
<1>1. CASE Identify(r)
  BY <1>1, AuthenticateStep, FindBootstrapUserStep, ProvisionBootstrapAdministratorStep,
     NothingWritten DEF Identify
<1>2. CASE ManagePacks(r)
  BY <1>2, SaveDraftStep, FindDraftStep, FindPublishableStep, PublishStep, FindRetirementStep,
     FindRetirableStep, RetireStep, NothingWritten DEF ManagePacks
<1>3. CASE CreateAssignment(r)
  BY <1>3, FindContentStep, FindActiveMembersStep, FindSameAssignmentStep, FindCreationStep,
     FindParticipantsStep, InsertAssignmentStep, NothingWritten DEF CreateAssignment
<1>4. CASE RunAssignment(r)
  BY <1>4, FindAssignmentStep, FindClosureStep, CloseStep, FindConcurrentClosureStep, ReleaseStep,
     FindRunContentStep, CreateRunStep, NothingWritten DEF RunAssignment
<1>5. CASE Review(r)
  BY <1>5, FindRunStep, FindRevisionStep, FindSourcesStep, ReadLatestStep, InsertRevisionStep,
     FindConcurrentRevisionStep, NothingWritten DEF Review
<1>6. CASE Administer(r)
  BY <1>6, FindAccessCommandStep, FindUserStep, StoreAccessStep, FindConcurrentAccessStep,
     NothingWritten DEF Administer
<1>7. CASE Launch(r)
  BY <1>7, LoginStep, FindStateStep, ConsumeStateStep, FindLaunchAssignmentStep, FindIdentityStep,
     ProvisionUserStep, CreateSessionStep, LogoutStep, NothingWritten DEF Launch
<1>8. CASE Link(r)
  BY <1>8, FindSelectionStep, FindLinkAssignmentStep, FindPendingStep, CompleteLinkStep,
     FindConcurrentLinkStep, NothingWritten DEF Link
<1>9. CASE SyncRoster(r)
  BY <1>9, FindSyncStep, FetchRosterStep, FindSameSyncStep, SynchronizeStep, NothingWritten
     DEF SyncRoster
<1> QED BY <1>1, <1>2, <1>3, <1>4, <1>5, <1>6, <1>7, <1>8, <1>9 DEF RequestActs

\* A step of one request leaves the others' invariants standing.
LEMMA InvariantKeptByRequest ==
    ASSUME PlatformInvariant, NEW r \in InFlight, RequestActs(r)
    PROVE  PlatformInvariant' /\ Grows
<1>1. /\ Moves(r) /\ Grows /\ TablesInvariant' /\ RequestInvariant(r)'
      /\ answer[r].status = "pending"
  BY RequestStep, OnlyPendingAct
<1>2. request' = request /\ InFlight' = InFlight
  BY <1>1 DEF Moves, InFlight
<1>3. \A s \in InFlight : answer[s].status # "pending" => answer'[s].status # "pending"
  BY <1>1 DEF Moves
<1>4. ASSUME NEW s \in InFlight \ {r} PROVE RequestInvariant(s)'
  <2>1. at'[s] = at[s] /\ seen'[s] = seen[s] /\ answer'[s] = answer[s]
    BY <1>1 DEF Moves
  <2> QED BY <1>1, <1>2, <1>3, <2>1, RequestStays
<1>5. IsKept'
  BY <1>1, <1>2 DEF IsKept, Moves, PlatformInvariant
<1>6. RequestsAreSound'
  BY <1>2 DEF RequestsAreSound, PlatformInvariant
<1>7. NamesAreNew'
  BY <1>1, <1>2, <1>3 DEF NamesAreNew, PlatformInvariant, Grows, SessionsChange, StatesChange
<1> QED BY <1>1, <1>2, <1>4, <1>5, <1>6, <1>7 DEF PlatformInvariant

\* So do the steps of nobody in particular: a run completed, something expired, no step at all.
LEMMA InvariantKeptByOthers ==
    ASSUME PlatformInvariant, UNCHANGED <<request, at, seen, answer>>, Grows, TablesInvariant'
    PROVE  PlatformInvariant'
<1>1. InFlight' = InFlight
  BY DEF InFlight
<1>2. ASSUME NEW s \in InFlight PROVE RequestInvariant(s)'
  BY RequestStays
<1>3. IsKept' /\ RequestsAreSound'
  BY <1>1 DEF IsKept, RequestsAreSound, PlatformInvariant
<1>4. NamesAreNew'
  BY <1>1 DEF NamesAreNew, PlatformInvariant, Grows, SessionsChange, StatesChange
<1> QED BY <1>1, <1>2, <1>3, <1>4 DEF PlatformInvariant

LEMMA InvariantKept ==
    ASSUME PlatformInvariant, [PlatformNext]_platform
    PROVE  PlatformInvariant' /\ Grows
<1>1. ASSUME NEW r \in InFlight, RequestActs(r) PROVE PlatformInvariant' /\ Grows
  BY <1>1, InvariantKeptByRequest
<1>2. ASSUME NEW run \in DOMAIN db.runs, CompleteRun(run) PROVE PlatformInvariant' /\ Grows
  BY <1>2, CompleteRunStep, InvariantKeptByOthers DEF CompleteRun
<1>3. ASSUME NEW s \in DOMAIN db.states, StateExpires(s) PROVE PlatformInvariant' /\ Grows
  BY <1>3, ExpiryStep, InvariantKeptByOthers DEF StateExpires
<1>4. ASSUME NEW t \in DOMAIN db.sessions, SessionExpires(t) PROVE PlatformInvariant' /\ Grows
  BY <1>4, ExpiryStep, InvariantKeptByOthers DEF SessionExpires
<1>5. CASE UNCHANGED platform
  BY <1>5, ReadingKeepsTables, InvariantKeptByOthers DEF platform
<1> QED BY <1>1, <1>2, <1>3, <1>4, <1>5 DEF PlatformNext, RequestActs

\* What a behaviour may start from: tables and requests as the worker has them.
SoundStart ==
    /\ TablesAreSound /\ NamesAreNew /\ RequestsAreSound
    /\ RunsPlayAssignedContent /\ RevisionsAreNumbered /\ MembersAreOneSnapshot

LEMMA InvariantHolds == PlatformSpec /\ SoundStart => [](PlatformInvariant)
<1>1. ASSUME PlatformInit, SoundStart PROVE PlatformInvariant
  <2>1. /\ DOMAIN at = InFlight /\ DOMAIN seen = InFlight /\ DOMAIN answer = InFlight
        /\ \A r \in InFlight : at[r] = StartsAt(request[r]) /\ answer[r] = [status |-> "pending"]
    BY <1>1 DEF PlatformInit, InFlight
  <2>2. ASSUME NEW r \in InFlight PROVE RequestInvariant(r)
    <3>1. at[r] = StartsAt(request[r]) /\ answer[r].status = "pending"
      BY <2>1
    <3>2. request[r].kind \in
               {"import", "publish", "publishPosted", "retire", "administer", "create", "close",
                "release", "start", "rate", "moderate", "login", "launch", "logout", "link", "sync"}
      BY <1>1 DEF SoundStart, RequestsAreSound
    <3>3. /\ IsOnRoute(request[r].kind, at[r])
          /\ at[r] \in {"login", "findState", "logout", "authenticate"}
      BY <3>1, <3>2 DEF StartsAt, IsOnRoute
    <3>4. KnowsAssignment(r) /\ KnowsRun(r)
      BY <3>3 DEF KnowsAssignment, KnowsRun
    <3> QED BY <3>1, <3>3, <3>4 DEF RequestInvariant, Answered
  <2> QED BY <1>1, <2>1, <2>2 DEF PlatformInvariant, TablesInvariant, IsKept, SoundStart
<1>2. PlatformInvariant /\ [PlatformNext]_platform => PlatformInvariant'
  BY InvariantKept
<1> QED BY <1>1, <1>2, PTL DEF PlatformSpec

-----------------------------------------------------------------------------
(* What follows *)

\* What a success answer says stays true, whichever requests meet and in whatever order their
\* queries come: nobody is told of a publication, an assignment, a run, a rating, a selection
\* or a roster that another request's write then undoes (sites/worker.ts and the stores).
THEOREM NoSuccessIsTakenBack == PlatformSpec /\ SoundStart => []AnswersStand
<1>1. PlatformInvariant => AnswersStand
  BY DEF PlatformInvariant, RequestInvariant, AnswersStand
<1> QED BY <1>1, InvariantHolds, PTL

\* Every run is of the published content its assignment was made for, and of a learner on its
\* roster (worker.ts' start route, d1-assignment-repository.ts).
THEOREM RunsStayOnTheirContent == PlatformSpec /\ SoundStart => []RunsPlayAssignedContent
<1>1. PlatformInvariant => RunsPlayAssignedContent
  BY DEF PlatformInvariant, TablesInvariant
<1> QED BY <1>1, InvariantHolds, PTL

\* Ratings and moderations of a criterion are numbered from one without a gap, and moderations
\* name stored ratings, though any number of raters act at once.
THEOREM RevisionsStayNumbered == PlatformSpec /\ SoundStart => []RevisionsAreNumbered
<1>1. PlatformInvariant => RevisionsAreNumbered
  BY DEF PlatformInvariant, TablesInvariant
<1> QED BY <1>1, InvariantHolds, PTL

\* The members of a course are one roster of the platform, the last that was stored.
THEOREM RostersAreNotMixed == PlatformSpec /\ SoundStart => []MembersAreOneSnapshot
<1>1. PlatformInvariant => MembersAreOneSnapshot
  BY DEF PlatformInvariant, TablesInvariant
<1> QED BY <1>1, InvariantHolds, PTL

\* What was decided once stays as it was decided: published content, a closure, a release of
\* feedback, a selection returned to the learning platform.
THEOREM DecisionsStay == PlatformSpec /\ SoundStart => DecisionsAreFinal
<1>1. ASSUME Grows
      PROVE  /\ \A p \in {p \in DOMAIN db.packs : db.packs[p].status \notin Mutable} :
                    /\ db'.packs[p].content = db.packs[p].content
                    /\ db'.packs[p].status \in {db.packs[p].status, "retired"}
                    /\ db.packs[p].retiredBy # Null =>
                           db'.packs[p].retiredBy = db.packs[p].retiredBy
             /\ \A a \in DOMAIN db.assignments :
                    /\ db'.assignments[a].content = db.assignments[a].content
                    /\ db.assignments[a].learners \subseteq db'.assignments[a].learners
                    /\ db.assignments[a].closedBy # Null =>
                           db'.assignments[a].closedBy = db.assignments[a].closedBy
                    /\ db.assignments[a].releasedBy # Null =>
                           db'.assignments[a].releasedBy = db.assignments[a].releasedBy
             /\ \A t \in DOMAIN db.sessions \cap DOMAIN db'.sessions :
                    db.sessions[t].response # << >> =>
                        db'.sessions[t].response = db.sessions[t].response
  BY <1>1 DEF Grows, PacksGrow, AssignmentsGrow, SessionsChange
<1> QED BY <1>1, InvariantKept, InvariantHolds, PTL DEF PlatformSpec, DecisionsAreFinal
-----------------------------------------------------------------------------
(* One session for one login *)

\* A launch that is past the check of its state.
Passed(r) ==
    /\ request[r].kind = "launch"
    /\ \/ Answered(r)
       \/ /\ answer[r].status = "pending"
          /\ at[r] \in {"findLaunchAssignment", "findIdentity", "provisionUser", "createSession"}

\* No state lets a second launch past, now or later.
LoginsAreUsedUp ==
    \A r \in InFlight : Passed(r) =>
        /\ ~Usable(request[r].state)
        /\ request[r].state \in InFlight => answer[request[r].state].status # "pending"
        /\ \A s \in InFlight : Passed(s) /\ request[s].state = request[r].state => s = r

LEMMA BeforeTheState ==
    ASSUME NEW r \in InFlight, RequestActs(r)
    PROVE  /\ at[r] = "findState" => FindState(r)
           /\ at[r] = "consumeState" => ConsumeState(r)
<1>1. at[r] \in {"findState", "consumeState"} => ~Identify(r)
  BY DEF Identify, Authenticate, FindBootstrapUser, ProvisionBootstrapAdministrator, Query
<1>2. at[r] \in {"findState", "consumeState"} => ~ManagePacks(r)
  BY DEF ManagePacks, SaveDraft, FindDraft, FindPublishable, Publish, FindRetirement,
         FindRetirable, Retire, Query
<1>3. at[r] \in {"findState", "consumeState"} => ~CreateAssignment(r)
  BY DEF CreateAssignment, FindContent, FindActiveMembers, FindSameAssignment, FindCreation,
         FindParticipants, InsertAssignment, Query
<1>4. at[r] \in {"findState", "consumeState"} => ~RunAssignment(r)
  BY DEF RunAssignment, FindAssignment, FindClosure, Close, FindConcurrentClosure, Release,
         FindRunContent, CreateRun, Query
<1>5. at[r] \in {"findState", "consumeState"} => ~Review(r)
  BY DEF Review, FindRun, FindRevision, FindSources, ReadLatest, InsertRevision,
         FindConcurrentRevision, Query
<1>6. at[r] \in {"findState", "consumeState"} => ~Administer(r)
  BY DEF Administer, FindAccessCommand, FindUser, StoreAccess, FindConcurrentAccess, Query
<1>7. at[r] \in {"findState", "consumeState"} /\ Launch(r) =>
          /\ at[r] = "findState" => FindState(r)
          /\ at[r] = "consumeState" => ConsumeState(r)
  <2>1. at[r] \in {"findState", "consumeState"} =>
            /\ ~Login(r) /\ ~FindLaunchAssignment(r) /\ ~FindIdentity(r)
            /\ ~ProvisionUser(r) /\ ~CreateSession(r) /\ ~Logout(r)
            /\ (at[r] = "findState" => ~ConsumeState(r))
            /\ (at[r] = "consumeState" => ~FindState(r))
    BY DEF Login, FindState, ConsumeState, FindLaunchAssignment, FindIdentity, ProvisionUser,
           CreateSession, Logout, Query
  <2> QED BY <2>1 DEF Launch
<1>8. at[r] \in {"findState", "consumeState"} => ~Link(r)
  BY DEF Link, FindSelection, FindLinkAssignment, FindPending, CompleteLink, FindConcurrentLink,
         Query
<1>9. at[r] \in {"findState", "consumeState"} => ~SyncRoster(r)
  BY DEF SyncRoster, FindSync, FetchRoster, FindSameSync, Synchronize, Query
<1> QED BY <1>1, <1>2, <1>3, <1>4, <1>5, <1>6, <1>7, <1>8, <1>9 DEF RequestActs

\* Only the update that consumes a waiting state lets a launch past.
LEMMA PassingConsumes ==
    ASSUME PlatformInvariant, NEW r \in InFlight, RequestActs(r), Passed(r)', ~Passed(r)
    PROVE  Usable(request[r].state) /\ ~Usable(request[r].state)'
<1>1. /\ answer[r].status = "pending" /\ IsKept /\ IsOnRoute(request[r].kind, at[r])
  BY OnlyPendingAct, AtQuery
<1>2. Moves(r) /\ request' = request
  BY RequestStep DEF Moves
<1>3. request[r].kind = "launch"
  BY <1>2 DEF Passed
<1>4. at[r] \in {"findState", "consumeState"}
  BY <1>1, <1>3 DEF IsOnRoute, Passed
<1>5. CASE at[r] = "findState"
  <2>1. FindState(r)  BY <1>5, BeforeTheState
  <2>2. IsRefused(r) \/ Goes(r, "consumeState", << >>)
    BY <1>1, <2>1, Refused, Continued DEF FindState
  <2>3. ~Passed(r)'
    BY <1>1, <2>2 DEF Passed, IsRefused, Goes, Answered
  <2> QED BY <2>3
<1>6. CASE at[r] = "consumeState"
  <2>1. ConsumeState(r)  BY <1>6, BeforeTheState
  <2>2. IsRefused(r) => ~Passed(r)'
    BY DEF IsRefused, Passed, Answered
  <2> QED BY <2>1, <2>2, ConsumeStateStep
<1> QED BY <1>4, <1>5, <1>6

LEMMA UsedUpStays ==
    ASSUME PlatformInvariant, LoginsAreUsedUp, [PlatformNext]_platform
    PROVE  LoginsAreUsedUp'
<1>1. StatesChange
  BY InvariantKept DEF Grows
<1>2. request' = request /\ InFlight' = InFlight
  <2>1. \A r \in InFlight : RequestActs(r) => request' = request
    BY RequestStep DEF Moves
  <2> QED BY <2>1 DEF PlatformNext, RequestActs, CompleteRun, StateExpires, SessionExpires, platform, InFlight
<1>3. \A s \in InFlight : answer[s].status # "pending" => answer'[s].status # "pending"
  <2>1. \A r \in InFlight : RequestActs(r) =>
            \A s \in InFlight : answer[s].status # "pending" => answer'[s].status # "pending"
    BY RequestStep, OnlyPendingAct DEF Moves
  <2> QED BY <2>1 DEF PlatformNext, RequestActs, CompleteRun, StateExpires, SessionExpires, platform
\* The launches that were not past and now are: at most the one that acts.
<1>4. ASSUME NEW r \in InFlight, Passed(r)', ~Passed(r)
      PROVE  /\ Usable(request[r].state) /\ ~Usable(request[r].state)'
             /\ \A s \in InFlight \ {r} : Passed(s)' => Passed(s)
  <2>1. PICK s \in InFlight : RequestActs(s)
    <3>1. UNCHANGED <<request, at, seen, answer>> => (Passed(r)' <=> Passed(r))
      BY DEF Passed, Answered
    <3> QED BY <1>4, <3>1 DEF PlatformNext, RequestActs, CompleteRun, StateExpires, SessionExpires, platform
  <2>2. \A o \in InFlight \ {s} : Passed(o)' <=> Passed(o)
    BY <2>1, RequestStep DEF Moves, Passed, Answered
  <2>3. s = r  BY <1>4, <2>2
  <2> QED BY <1>4, <2>1, <2>2, <2>3, PassingConsumes
<1>5. ASSUME NEW r \in InFlight, Passed(r)'
      PROVE  /\ ~Usable(request[r].state)'
             /\ request[r].state \in InFlight => answer[request[r].state].status # "pending"
  <2>1. CASE Passed(r)
    <3>1. /\ ~Usable(request[r].state)
          /\ request[r].state \in InFlight => answer[request[r].state].status # "pending"
      BY <2>1 DEF LoginsAreUsedUp
    <3>2. PICK state : state = request[r].state
      OBVIOUS
    <3>3. ~Usable(state)'
      BY <1>1, <3>1, <3>2 DEF StatesChange, Usable
    <3> QED BY <1>2, <3>1, <3>2, <3>3 DEF Usable
  <2>2. CASE ~Passed(r)
    <3>1. Usable(request[r].state) /\ ~Usable(request[r].state)'
      BY <1>4, <1>5, <2>2
    <3>2. request[r].state \in DOMAIN db.states
      BY <3>1 DEF Usable
    <3> QED BY <3>1, <3>2 DEF PlatformInvariant, NamesAreNew
  <2> QED BY <2>1, <2>2
<1>6. ASSUME NEW r \in InFlight, NEW s \in InFlight, Passed(r)', Passed(s)',
             request[s].state = request[r].state, s # r
      PROVE  FALSE
  <2>1. Passed(r) /\ Passed(s) => FALSE
    BY <1>6 DEF LoginsAreUsedUp
  <2>2. Passed(r) \/ Passed(s)
    BY <1>4, <1>6
  <2>3. \A x \in {r, s} : Passed(x) => ~Usable(request[x].state)
    BY DEF LoginsAreUsedUp
  <2>4. \A x \in {r, s} : ~Passed(x) => Usable(request[x].state)
    BY <1>4, <1>6
  <2> QED BY <1>6, <2>1, <2>2, <2>3, <2>4
<1> QED BY <1>2, <1>3, <1>5, <1>6 DEF LoginsAreUsedUp

\* One login opens at most one session, however often and at once its state is presented
\* (d1-lti-authentication-repository.ts).
THEOREM OneLoginOneSession == PlatformSpec /\ SoundStart => []OneSessionPerLogin
<1>1. ASSUME PlatformInit PROVE LoginsAreUsedUp
  <2>1. \A r \in InFlight : at[r] = StartsAt(request[r]) /\ answer[r] = [status |-> "pending"]
    BY <1>1 DEF PlatformInit, InFlight
  <2>2. \A r \in InFlight :
            answer[r].status = "pending" /\ at[r] \in {"login", "findState", "logout", "authenticate"}
    BY <2>1 DEF StartsAt
  <2> QED BY <2>2 DEF LoginsAreUsedUp, Passed, Answered
<1>2. PlatformInvariant /\ LoginsAreUsedUp /\ [PlatformNext]_platform => LoginsAreUsedUp'
  BY UsedUpStays
<1>3. LoginsAreUsedUp => OneSessionPerLogin
  BY DEF LoginsAreUsedUp, OneSessionPerLogin, Passed
<1> QED BY <1>1, <1>2, <1>3, InvariantHolds, PTL DEF PlatformSpec

-----------------------------------------------------------------------------
(* Who may what: the last command, and what was given since *)

AccountColumns == {"status", "roles", "origin", "gifts"}

AccessInvariant ==
    /\ HasColumns(db.accounts, AccountColumns)
    /\ \A i \in DOMAIN db.accessCommands : db.accessCommands[i].user \in DOMAIN db.accounts
    /\ \A u \in DOMAIN db.accounts : \A gift \in db.accounts[u].gifts :
           gift.after \in 0..Len(db.accessCommands)
    /\ AccessIsAsCommanded
    /\ GiftsAreKept

\* The accounts that a step makes or gives roles to, without a command.
Gives(u, now, then) ==
    /\ then.status = now.status
    /\ now.roles \subseteq then.roles /\ now.gifts \subseteq then.gifts
    /\ \A gift \in then.gifts \ now.gifts :
           gift.after = Len(db.accessCommands) /\ gift.role \in then.roles
    /\ \A role \in then.roles \ now.roles :
           \/ u \in Bootstrap /\ role \in BootstrapRoles
           \/ \E gift \in then.gifts : gift.role = role /\ gift.after = Len(db.accessCommands)

OnlyGives ==
    /\ db'.accessCommands = db.accessCommands
    /\ HasColumns(db'.accounts, AccountColumns)
    /\ DOMAIN db.accounts \subseteq DOMAIN db'.accounts
    /\ \A u \in DOMAIN db'.accounts \ DOMAIN db.accounts : \A gift \in db'.accounts[u].gifts :
           gift.after = Len(db.accessCommands) /\ gift.role \in db'.accounts[u].roles
    /\ \A u \in DOMAIN db.accounts : Gives(u, db.accounts[u], db'.accounts[u])

LEMMA CommandsHaveNumbers ==
    ASSUME PlatformInvariant
    PROVE  /\ Len(db.accessCommands) \in Nat
           /\ DOMAIN db.accessCommands = 1..Len(db.accessCommands)
BY DEF PlatformInvariant, TablesInvariant, TablesAreSound

\* Roles that are given beside the commands do not take what the commands decided.
LEMMA GivingKeepsAccess ==
    ASSUME PlatformInvariant, AccessInvariant, OnlyGives
    PROVE  AccessInvariant'
<1>1. /\ Len(db.accessCommands) \in Nat
      /\ DOMAIN db.accessCommands = 1..Len(db.accessCommands)
      /\ db'.accessCommands = db.accessCommands
      /\ \A u \in DOMAIN db.accounts : Gives(u, db.accounts[u], db'.accounts[u])
      /\ DOMAIN db.accounts \subseteq DOMAIN db'.accounts
  BY CommandsHaveNumbers DEF OnlyGives
<1>2. \A u \in DOMAIN db'.accounts : \A gift \in db'.accounts[u].gifts :
          gift.after \in 0..Len(db'.accessCommands)
  BY <1>1 DEF OnlyGives, Gives, AccessInvariant
<1>3. \A u, i : IsLastFor(u, i)' <=> IsLastFor(u, i)
  BY <1>1 DEF IsLastFor
<1>4. AccessIsAsCommanded'
  <2> SUFFICES ASSUME NEW u \in DOMAIN db'.accounts, NEW i \in DOMAIN db.accessCommands,
                      IsLastFor(u, i)
               PROVE  LET last == db.accessCommands[i]
                          account == db'.accounts[u]
                          extra == IF u \in Bootstrap THEN BootstrapRoles ELSE {}
                      IN  /\ account.status = last.status
                          /\ last.roles \subseteq account.roles
                          /\ account.roles \subseteq last.roles \union extra \union GivenSince(u, i)'
    BY <1>1, <1>3 DEF AccessIsAsCommanded
  <2> DEFINE last == db.accessCommands[i]
             extra == IF u \in Bootstrap THEN BootstrapRoles ELSE {}
  <2>1. u \in DOMAIN db.accounts /\ Gives(u, db.accounts[u], db'.accounts[u])
    BY <1>1 DEF AccessInvariant, IsLastFor
  <2>2. /\ db.accounts[u].status = last.status /\ last.roles \subseteq db.accounts[u].roles
        /\ db.accounts[u].roles \subseteq last.roles \union extra \union GivenSince(u, i)
    BY <2>1 DEF AccessInvariant, AccessIsAsCommanded
  <2>3. GivenSince(u, i) \subseteq GivenSince(u, i)'
    BY <2>1 DEF Gives, GivenSince
  <2>4. ASSUME NEW role \in db'.accounts[u].roles \ db.accounts[u].roles
        PROVE  role \in extra \union GivenSince(u, i)'
    <3>1. Len(db.accessCommands) >= i
      BY <1>1
    <3>2. CASE \E gift \in db'.accounts[u].gifts : gift.role = role /\ gift.after = Len(db.accessCommands)
      BY <3>1, <3>2 DEF GivenSince
    <3>3. CASE u \in Bootstrap /\ role \in BootstrapRoles
      BY <3>3
    <3> QED BY <2>1, <2>4, <3>2, <3>3 DEF Gives
  <2>5. /\ db'.accounts[u].status = last.status /\ last.roles \subseteq db'.accounts[u].roles
    BY <2>1, <2>2 DEF Gives
  <2>6. db'.accounts[u].roles \subseteq last.roles \union extra \union GivenSince(u, i)'
    BY <2>2, <2>3, <2>4
  <2> QED BY <2>5, <2>6
<1>5. GiftsAreKept'
  <2> SUFFICES ASSUME NEW u \in DOMAIN db'.accounts, NEW gift \in db'.accounts[u].gifts,
                      gift.role \notin db'.accounts[u].roles
               PROVE  \E i \in DOMAIN db.accessCommands : i > gift.after /\ IsLastFor(u, i)
    BY <1>1, <1>3 DEF GiftsAreKept
  <2>1. u \in DOMAIN db.accounts /\ gift \in db.accounts[u].gifts
    BY DEF OnlyGives, Gives
  <2>2. gift.role \notin db.accounts[u].roles
    BY <1>1, <2>1 DEF Gives
  <2> QED BY <2>1, <2>2 DEF AccessInvariant, GiftsAreKept
<1>6. \A i \in DOMAIN db'.accessCommands : db'.accessCommands[i].user \in DOMAIN db'.accounts
  BY <1>1 DEF AccessInvariant
<1>7. HasColumns(db'.accounts, AccountColumns)
  BY DEF OnlyGives
<1> QED BY <1>2, <1>4, <1>5, <1>6, <1>7 DEF AccessInvariant

\* Nothing about accounts: nothing given.
LEMMA AccountsUnmoved ==
    ASSUME AccessInvariant, db'.accounts = db.accounts, db'.accessCommands = db.accessCommands
    PROVE  AccessInvariant'
BY DEF AccessInvariant, AccessIsAsCommanded, GiftsAreKept, GivenSince, IsLastFor, HasColumns

\* A command takes all roles its user had and gives its own.
LEMMA CommandDecides ==
    ASSUME PlatformInvariant, AccessInvariant, NEW r \in InFlight,
           db' = [db EXCEPT !.accounts = Granted(r, @),
                            !.accessCommands = Append(@, AccessCommand(r))]
    PROVE  AccessInvariant'
<1> DEFINE q == request[r]
           command == AccessCommand(r)
<1>0. PICK user, n : user = q.user /\ n = Len(db.accessCommands)
  OBVIOUS
<1>1. /\ n \in Nat /\ DOMAIN db.accessCommands = 1..n
      /\ IsSequence(db.accessCommands)
      /\ {"accounts", "accessCommands"} \subseteq DOMAIN db
  BY <1>0, CommandsHaveNumbers DEF PlatformInvariant, TablesInvariant, TablesAreSound, IsSequence
<1>2. /\ command.user = user /\ command.status = q.status /\ command.roles = q.roles
  BY <1>0 DEF AccessCommand
<1>3. db'.accounts = Granted(r, db.accounts) /\ db'.accessCommands = Append(db.accessCommands, command)
  BY <1>1
<1> HIDE DEF command
<1>4. /\ Len(db'.accessCommands) = n + 1 /\ DOMAIN db'.accessCommands = 1..(n + 1)
      /\ db'.accessCommands[n + 1] = command
      /\ \A i \in 1..n : db'.accessCommands[i] = db.accessCommands[i]
  BY <1>0, <1>1, <1>3 DEF IsSequence
<1>5. /\ DOMAIN db'.accounts = DOMAIN db.accounts \union {user}
      /\ \A u \in DOMAIN db.accounts \ {user} : db'.accounts[u] = db.accounts[u]
  BY <1>0, <1>3 DEF Granted, With
<1>6. /\ db'.accounts[user].status = q.status /\ db'.accounts[user].roles = q.roles
      /\ AccountColumns \subseteq DOMAIN db'.accounts[user]
      /\ db'.accounts[user].gifts =
             (IF user \in DOMAIN db.accounts THEN db.accounts[user].gifts ELSE {})
  <2>1. CASE user \in DOMAIN db.accounts
    <3>1. AccountColumns \subseteq DOMAIN db.accounts[user]
      BY <2>1 DEF AccessInvariant, HasColumns
    <3>2. db'.accounts[user] = [db.accounts[user] EXCEPT !.status = q.status, !.roles = q.roles]
      BY <1>0, <1>3, <2>1 DEF Granted
    <3> QED BY <2>1, <3>1, <3>2 DEF AccountColumns
  <2>2. CASE user \notin DOMAIN db.accounts
    <3>1. db'.accounts[user] = [status |-> q.status, roles |-> q.roles,
                                  origin |-> "administrator", gifts |-> {}]
      BY <1>0, <1>3, <2>2 DEF Granted, With
    <3> QED BY <2>2, <3>1 DEF AccountColumns
  <2> QED BY <2>1, <2>2
<1>7. /\ IsLastFor(user, n + 1)'
      /\ \A i \in 1..n : ~IsLastFor(user, i)'
      /\ \A u : \A i \in 1..n : u # user => (IsLastFor(u, i)' <=> IsLastFor(u, i))
  <2>1. IsLastFor(user, n + 1)'
    <3>1. db'.accessCommands[n + 1].user = user
      BY <1>2, <1>4
    <3>2. \A j \in 1..(n + 1) : ~(j > n + 1)
      BY <1>1
    <3> QED BY <1>4, <3>1, <3>2 DEF IsLastFor
  <2>2. ASSUME NEW i \in 1..n PROVE ~IsLastFor(user, i)'
    <3>1. n + 1 \in DOMAIN db'.accessCommands /\ n + 1 > i
      BY <1>1, <1>4
    <3> QED BY <1>2, <1>4, <3>1 DEF IsLastFor
  <2>3. ASSUME NEW u, NEW i \in 1..n, u # user PROVE IsLastFor(u, i)' <=> IsLastFor(u, i)
    <3>1. db'.accessCommands[i] = db.accessCommands[i]
      BY <1>4
    <3>2. \A j \in 1..n : db'.accessCommands[j].user = db.accessCommands[j].user
      BY <1>4
    <3>3. db'.accessCommands[n + 1].user # u
      BY <1>2, <1>4, <2>3
    <3> QED BY <1>1, <1>4, <3>1, <3>2, <3>3 DEF IsLastFor
  <2> QED BY <2>1, <2>2, <2>3
<1>8. AccessIsAsCommanded'
  <2> SUFFICES ASSUME NEW u \in DOMAIN db'.accounts, NEW i \in DOMAIN db'.accessCommands,
                      IsLastFor(u, i)'
               PROVE  LET last == db'.accessCommands[i]
                          account == db'.accounts[u]
                          extra == IF u \in Bootstrap THEN BootstrapRoles ELSE {}
                      IN  /\ account.status = last.status
                          /\ last.roles \subseteq account.roles
                          /\ account.roles \subseteq last.roles \union extra \union GivenSince(u, i)'
    BY DEF AccessIsAsCommanded
  <2>1. CASE i = n + 1
    <3>1. u = user
      BY <1>2, <1>4, <2>1 DEF IsLastFor
    <3> QED BY <1>2, <1>4, <1>6, <2>1, <3>1
  <2>2. CASE i \in 1..n
    <3>1. db'.accessCommands[i] = db.accessCommands[i] /\ u # user /\ IsLastFor(u, i)
      BY <1>4, <1>7, <2>2
    <3>2. u \in DOMAIN db.accounts /\ db'.accounts[u] = db.accounts[u]
      BY <1>5, <3>1
    <3>3. GivenSince(u, i)' = GivenSince(u, i)
      BY <3>2 DEF GivenSince
    <3> QED BY <1>1, <2>2, <3>1, <3>2, <3>3 DEF AccessInvariant, AccessIsAsCommanded
  <2> QED BY <1>1, <1>4, <2>1, <2>2
<1>9. GiftsAreKept'
  <2> SUFFICES ASSUME NEW u \in DOMAIN db'.accounts, NEW gift \in db'.accounts[u].gifts,
                      gift.role \notin db'.accounts[u].roles
               PROVE  \E i \in DOMAIN db'.accessCommands : i > gift.after /\ IsLastFor(u, i)'
    BY DEF GiftsAreKept
  <2>1. CASE u = user
    <3>1. gift.after \in 0..n
      BY <1>0, <1>6, <2>1 DEF AccessInvariant
    <3>2. n + 1 \in DOMAIN db'.accessCommands /\ n + 1 > gift.after
      BY <1>1, <1>4, <3>1
    <3>3. IsLastFor(u, n + 1)'
      BY <1>7, <2>1 DEF IsLastFor
    <3> QED BY <3>2, <3>3
  <2>2. CASE u # user
    <3>1. u \in DOMAIN db.accounts /\ db'.accounts[u] = db.accounts[u]
      BY <1>5, <2>2
    <3>2. PICK i \in DOMAIN db.accessCommands : i > gift.after /\ IsLastFor(u, i)
      BY <3>1 DEF AccessInvariant, GiftsAreKept
    <3> QED BY <1>1, <1>4, <1>7, <2>2, <3>2
  <2> QED BY <2>1, <2>2
<1>10. \A u \in DOMAIN db'.accounts : \A gift \in db'.accounts[u].gifts :
           gift.after \in 0..Len(db'.accessCommands)
  <2>1. \A u \in DOMAIN db.accounts : \A gift \in db.accounts[u].gifts : gift.after \in 0..(n + 1)
    BY <1>0, <1>1 DEF AccessInvariant
  <2> QED BY <1>4, <1>5, <1>6, <2>1
<1>11. \A i \in DOMAIN db'.accessCommands : db'.accessCommands[i].user \in DOMAIN db'.accounts
  BY <1>1, <1>2, <1>4, <1>5 DEF AccessInvariant
<1>12. HasColumns(db'.accounts, AccountColumns)
  BY <1>5, <1>6 DEF AccessInvariant, HasColumns
<1> QED BY <1>8, <1>9, <1>10, <1>11, <1>12 DEF AccessInvariant

\* A launch or a roster gives one role to each of its users.
LEMMA RoleGiven ==
    ASSUME PlatformInvariant, AccessInvariant, NEW users, NEW role,
           db'.accounts = WithRole(db.accounts, users, role),
           db'.accessCommands = db.accessCommands
    PROVE  AccessInvariant'
<1> DEFINE gift == [role |-> role, after |-> Len(db.accessCommands)]
           rows == [u \in users |->
                       IF u \in DOMAIN db.accounts
                       THEN [db.accounts[u] EXCEPT !.roles = @ \union {role},
                                                   !.gifts = @ \union {gift}]
                       ELSE [status |-> "active", roles |-> {role}, origin |-> "lti",
                             gifts |-> {gift}]]
<1>1. db'.accounts = Merged(rows, db.accounts)
  BY DEF WithRole
<1>2. gift.role = role /\ gift.after = Len(db.accessCommands)
  OBVIOUS
<1> HIDE DEF gift
<1>3. ASSUME NEW u \in users, u \in DOMAIN db.accounts
      PROVE  AccountColumns \subseteq DOMAIN rows[u] /\ Gives(u, db.accounts[u], rows[u])
  <2> DEFINE now == db.accounts[u]
  <2>1. AccountColumns \subseteq DOMAIN now
    BY <1>3 DEF AccessInvariant, HasColumns
  <2>2. rows[u] = [now EXCEPT !.roles = @ \union {role}, !.gifts = @ \union {gift}]
    BY <1>3
  <2>3. /\ DOMAIN rows[u] = DOMAIN now /\ rows[u].status = now.status
        /\ rows[u].roles = now.roles \union {role} /\ rows[u].gifts = now.gifts \union {gift}
    BY <2>1, <2>2 DEF AccountColumns
  <2> HIDE DEF rows, now
  <2>4. Gives(u, now, rows[u])
    BY <1>2, <2>3 DEF Gives
  <2> QED BY <2>1, <2>3, <2>4 DEF now
<1>4. ASSUME NEW u \in users, u \notin DOMAIN db.accounts
      PROVE  /\ AccountColumns \subseteq DOMAIN rows[u]
             /\ rows[u].roles = {role} /\ rows[u].gifts = {gift}
  BY <1>4 DEF AccountColumns
<1>5. DOMAIN rows = users
  OBVIOUS
<1> HIDE DEF rows
<1>6. /\ DOMAIN db'.accounts = DOMAIN db.accounts \union users
      /\ \A u \in users : db'.accounts[u] = rows[u]
      /\ \A u \in DOMAIN db.accounts : u \notin users => db'.accounts[u] = db.accounts[u]
  BY <1>1, <1>5 DEF Merged
<1>7. HasColumns(db'.accounts, AccountColumns)
  BY <1>3, <1>4, <1>6 DEF AccessInvariant, HasColumns
<1>8. \A u \in DOMAIN db.accounts : Gives(u, db.accounts[u], db'.accounts[u])
  <2>1. \A u \in DOMAIN db.accounts : Gives(u, db.accounts[u], db.accounts[u])
    BY DEF Gives
  <2> QED BY <1>3, <1>6, <2>1
<1>9. OnlyGives
  BY <1>2, <1>4, <1>6, <1>7, <1>8 DEF OnlyGives
<1> QED BY <1>9, GivingKeepsAccess

LEMMA BootstrapGiven ==
    ASSUME PlatformInvariant, AccessInvariant, NEW r \in InFlight, request[r].by \in Bootstrap,
           ProvisionBootstrapAdministrator(r)
    PROVE  AccessInvariant'
<1> DEFINE user == request[r].by
           account == [status |-> "active", roles |-> BootstrapRoles, origin |-> "bootstrap",
                       gifts |-> {}]
           promoted == [db.accounts[user] EXCEPT !.roles = @ \union BootstrapRoles]
<1>1. {"accounts", "accessCommands"} \subseteq DOMAIN db
  BY DEF PlatformInvariant, TablesInvariant, TablesAreSound
<1>2. CASE UNCHANGED db
  BY <1>2, AccountsUnmoved
<1>3. CASE user \in DOMAIN db.accounts /\ db' = [db EXCEPT !.accounts = [@ EXCEPT ![user] = promoted]]
  <2>1. AccountColumns \subseteq DOMAIN db.accounts[user]
    BY <1>3 DEF AccessInvariant, HasColumns
  <2>2. /\ DOMAIN promoted = DOMAIN db.accounts[user]
        /\ promoted.status = db.accounts[user].status /\ promoted.gifts = db.accounts[user].gifts
        /\ promoted.roles = db.accounts[user].roles \union BootstrapRoles
    BY <2>1 DEF AccountColumns
  <2>3. db'.accounts = [db.accounts EXCEPT ![user] = promoted] /\ db'.accessCommands = db.accessCommands
    BY <1>1, <1>3
  <2> HIDE DEF promoted
  <2>4. /\ DOMAIN db'.accounts = DOMAIN db.accounts /\ db'.accounts[user] = promoted
        /\ \A u \in DOMAIN db.accounts \ {user} : db'.accounts[u] = db.accounts[u]
    BY <1>3, <2>3
  <2>5. HasColumns(db'.accounts, AccountColumns)
    BY <2>1, <2>2, <2>4 DEF AccessInvariant, HasColumns
  <2>6. \A u \in DOMAIN db.accounts : Gives(u, db.accounts[u], db'.accounts[u])
    BY <2>2, <2>4 DEF Gives
  <2>7. OnlyGives
    BY <2>3, <2>4, <2>5, <2>6 DEF OnlyGives
  <2> QED BY <2>7, GivingKeepsAccess
<1>4. CASE user \notin DOMAIN db.accounts /\ db' = [db EXCEPT !.accounts = With(@, user, account)]
  <2>1. AccountColumns \subseteq DOMAIN account /\ account.gifts = {}
    BY DEF AccountColumns
  <2> HIDE DEF account
  <2>2. db'.accounts = With(db.accounts, user, account) /\ db'.accessCommands = db.accessCommands
    BY <1>1, <1>4
  <2>3. /\ DOMAIN db'.accounts = DOMAIN db.accounts \union {user}
        /\ db'.accounts[user] = account
        /\ \A u \in DOMAIN db.accounts : db'.accounts[u] = db.accounts[u]
    BY <1>4, <2>2 DEF With
  <2>4. HasColumns(db'.accounts, AccountColumns)
    BY <2>1, <2>3 DEF AccessInvariant, HasColumns
  <2>5. \A u \in DOMAIN db.accounts : Gives(u, db.accounts[u], db'.accounts[u])
    BY <2>3 DEF Gives
  <2>6. OnlyGives
    BY <2>1, <2>2, <2>3, <2>4, <2>5 DEF OnlyGives
  <2> QED BY <2>6, GivingKeepsAccess
<1> QED BY <1>2, <1>3, <1>4 DEF ProvisionBootstrapAdministrator

\* Only a bootstrap address gets as far as being provisioned.
BootstrapsAreAllowed ==
    \A r \in InFlight : at[r] \in {"findBootstrapUser", "provision"} => request[r].by \in Bootstrap

LEMMA WaysToBootstrap ==
    ASSUME PlatformInvariant, NEW r \in InFlight, RequestActs(r),
           at'[r] \in {"findBootstrapUser", "provision"}
    PROVE  at[r] = "findBootstrapUser" \/ request[r].by \in Bootstrap
<1>0. /\ request[r].kind \in
            {"import", "publish", "publishPosted", "retire", "administer", "create", "close",
             "release", "start", "rate", "moderate", "login", "launch", "logout", "link", "sync"}
      /\ IsOnRoute(request[r].kind, at[r])
  BY OnlyPendingAct, AtQuery DEF PlatformInvariant, RequestsAreSound
<1>1. r \in DOMAIN at
  BY DEF PlatformInvariant, IsKept
<1>2. ASSUME NEW next, NEW facts, Keep(r, next, facts) PROVE at'[r] = next
  BY <1>1, <1>2 DEF Keep
<1>3. ASSUME NEW next, Continue(r, next) PROVE at'[r] = next
  BY <1>2, <1>3 DEF Continue
<1>4. ASSUME NEW result, Done(r, result) PROVE at'[r] = "answered"
  BY <1>1, <1>4 DEF Done, Reply
<1>5. ASSUME NEW code, Refuse(r, code) PROVE at'[r] = "answered"
  BY <1>1, <1>5 DEF Refuse, Reply
<1>6. CASE Identify(r)
  <2>1. CASE Authenticate(r)
    <3>1. Callers(r) = {} => request[r].by \in Bootstrap
      BY <1>3, <1>5, <2>1 DEF Authenticate
    <3>2. request[r].kind \in {"import", "publish", "publishPosted", "retire", "administer",
                              "create", "close", "release", "start", "rate", "moderate", "link",
                              "sync"}
      BY <1>0, <2>1 DEF Authenticate, IsOnRoute
    <3>3. FirstQuery(request[r].kind) \notin {"findBootstrapUser", "provision"}
      BY <3>2 DEF FirstQuery
    <3>4. Callers(r) # {} => \E caller \in Callers(r) :
              \/ Refuse(r, "APPLICATION_ROLE_REQUIRED")
              \/ Keep(r, FirstQuery(request[r].kind), [caller |-> caller])
      BY <2>1 DEF Authenticate
    <3> QED BY <1>2, <1>5, <3>1, <3>3, <3>4
  <2>2. CASE FindBootstrapUser(r)
    BY <2>2 DEF FindBootstrapUser, Query
  <2>3. CASE ProvisionBootstrapAdministrator(r)
    BY <1>3, <1>5, <2>3 DEF ProvisionBootstrapAdministrator
  <2> QED BY <1>6, <2>1, <2>2, <2>3 DEF Identify
<1>7. ~ManagePacks(r)
  BY <1>2, <1>3, <1>4, <1>5
     DEF ManagePacks, SaveDraft, FindDraft, FindPublishable, Publish, FindRetirement, FindRetirable,
         Retire
<1>8. ~CreateAssignment(r)
  BY <1>2, <1>3, <1>4, <1>5
     DEF CreateAssignment, FindContent, FindActiveMembers, FindSameAssignment, FindCreation,
         FindParticipants, InsertAssignment
<1>9. ~RunAssignment(r)
  <2>1. ~FindAssignment(r)
    <3>1. at[r] = "findAssignment" => request[r].kind \in {"close", "release", "start"}
      BY <1>0 DEF IsOnRoute
    <3>2. ASSUME request[r].kind \in {"close", "release", "start"}
          PROVE  ~AfterAssignment(r, request[r].assignment)
      BY <1>3, <1>4, <1>5, <3>2 DEF AfterAssignment
    <3> QED BY <1>5, <3>1, <3>2 DEF FindAssignment, Query
  <2>2. ~FindClosure(r) /\ ~Close(r) /\ ~FindConcurrentClosure(r) /\ ~Release(r)
    BY <1>3, <1>4, <1>5 DEF FindClosure, Close, FindConcurrentClosure, Release
  <2>3. ~FindRunContent(r) /\ ~CreateRun(r)
    BY <1>2, <1>4, <1>5 DEF FindRunContent, CreateRun
  <2> QED BY <2>1, <2>2, <2>3 DEF RunAssignment
<1>10. ~Review(r)
  <2>1. \A row : ~ReplayRevision(r, row)
    BY <1>4, <1>5 DEF ReplayRevision
  <2>2. ~FindRun(r) /\ ~FindSources(r) /\ ~ReadLatest(r)
    BY <1>3, <1>5 DEF FindRun, FindSources, ReadLatest
  <2>3. ~FindRevision(r) /\ ~FindConcurrentRevision(r)
    BY <1>3, <1>5, <2>1 DEF FindRevision, FindConcurrentRevision
  <2>4. ~InsertRevision(r)
    BY <1>3, <1>4 DEF InsertRevision
  <2> QED BY <2>2, <2>3, <2>4 DEF Review
<1>11. ~Administer(r)
  BY <1>2, <1>3, <1>4, <1>5
     DEF Administer, FindAccessCommand, FindUser, StoreAccess, FindConcurrentAccess, ReplayAccess
<1>12. ~Launch(r)
  BY <1>2, <1>3, <1>4, <1>5
     DEF Launch, Login, FindState, ConsumeState, FindLaunchAssignment, FindIdentity, ProvisionUser,
         CreateSession, Logout, AfterState
<1>13. ~Link(r)
  BY <1>2, <1>3, <1>4, <1>5
     DEF Link, FindSelection, FindLinkAssignment, FindPending, CompleteLink, FindConcurrentLink,
         ReplaySelection
<1>14. ~SyncRoster(r)
  BY <1>2, <1>3, <1>4, <1>5 DEF SyncRoster, FindSync, FetchRoster, FindSameSync, Synchronize
<1> QED BY <1>6, <1>7, <1>8, <1>9, <1>10, <1>11, <1>12, <1>13, <1>14 DEF RequestActs

LEMMA BootstrapsStayAllowed ==
    ASSUME PlatformInvariant, BootstrapsAreAllowed, [PlatformNext]_platform
    PROVE  BootstrapsAreAllowed'
<1>1. ASSUME NEW r \in InFlight, RequestActs(r) PROVE BootstrapsAreAllowed'
  <2>1. Moves(r) /\ InFlight' = InFlight
    BY <1>1, RequestStep DEF Moves, InFlight
  <2> QED BY <1>1, <2>1, WaysToBootstrap DEF BootstrapsAreAllowed, Moves
<1>2. CASE UNCHANGED <<request, at, seen, answer>>
  BY <1>2 DEF BootstrapsAreAllowed, InFlight
<1> QED BY <1>1, <1>2 DEF PlatformNext, RequestActs, CompleteRun, StateExpires, SessionExpires,
                          platform

\* What every other step does to the tables: not to these two.
LEMMA OthersLeaveAccess ==
    ASSUME PlatformInvariant, NEW r \in InFlight, RequestActs(r),
           ~ProvisionBootstrapAdministrator(r), ~StoreAccess(r), ~ProvisionUser(r), ~Synchronize(r)
    PROVE  db'.accounts = db.accounts /\ db'.accessCommands = db.accessCommands
<1>1. {"accounts", "accessCommands"} \subseteq DOMAIN db
  BY DEF PlatformInvariant, TablesInvariant, TablesAreSound
<1>2. CASE Identify(r)
  BY <1>2 DEF Identify, Authenticate, FindBootstrapUser
<1>3. CASE ManagePacks(r)
  BY <1>1, <1>3
     DEF ManagePacks, SaveDraft, FindDraft, FindPublishable, Publish, FindRetirement, FindRetirable,
         Retire
<1>4. CASE CreateAssignment(r)
  BY <1>1, <1>4
     DEF CreateAssignment, FindContent, FindActiveMembers, FindSameAssignment, FindCreation,
         FindParticipants, InsertAssignment
<1>5. CASE RunAssignment(r)
  BY <1>1, <1>5
     DEF RunAssignment, FindAssignment, FindClosure, Close, FindConcurrentClosure, Release,
         FindRunContent, CreateRun
<1>6. CASE Review(r)
  <2>1. Table(r) \in {"ratings", "moderations"}
    BY DEF Table
  <2> QED BY <1>1, <1>6, <2>1
             DEF Review, FindRun, FindRevision, FindSources, ReadLatest, InsertRevision,
                 FindConcurrentRevision
<1>7. CASE Administer(r)
  BY <1>7 DEF Administer, FindAccessCommand, FindUser, FindConcurrentAccess
<1>8. CASE Launch(r)
  BY <1>1, <1>8
     DEF Launch, Login, FindState, ConsumeState, FindLaunchAssignment, FindIdentity, CreateSession,
         Logout
<1>9. CASE Link(r)
  BY <1>1, <1>9
     DEF Link, FindSelection, FindLinkAssignment, FindPending, CompleteLink, FindConcurrentLink
<1>10. CASE SyncRoster(r)
  BY <1>10 DEF SyncRoster, FindSync, FetchRoster, FindSameSync
<1> QED BY <1>2, <1>3, <1>4, <1>5, <1>6, <1>7, <1>8, <1>9, <1>10 DEF RequestActs

LEMMA AccessStays ==
    ASSUME PlatformInvariant, BootstrapsAreAllowed, AccessInvariant, [PlatformNext]_platform
    PROVE  AccessInvariant'
<1>1. {"accounts", "accessCommands", "assignments", "syncs", "members"} \subseteq DOMAIN db
  BY DEF PlatformInvariant, TablesInvariant, TablesAreSound
<1>2. ASSUME NEW r \in InFlight, RequestActs(r) PROVE AccessInvariant'
  <2>1. CASE ProvisionBootstrapAdministrator(r)
    <3>1. request[r].by \in Bootstrap
      BY <2>1 DEF ProvisionBootstrapAdministrator, Query, BootstrapsAreAllowed
    <3> QED BY <2>1, <3>1, BootstrapGiven
  <2>2. CASE StoreAccess(r)
    BY <2>2, CommandDecides, AccountsUnmoved DEF StoreAccess
  <2>3. CASE ProvisionUser(r)
    <3>1. /\ db'.accounts = WithRole(db.accounts, {request[r].subject}, request[r].role)
          /\ db'.accessCommands = db.accessCommands
      BY <1>1, <2>3 DEF ProvisionUser
    <3> QED BY <3>1, RoleGiven
  <2>4. CASE Synchronize(r)
    <3>1. CASE UNCHANGED db
      BY <3>1, AccountsUnmoved
    <3>2. CASE db' = [db EXCEPT !.syncs = With(@, request[r].sync, StoredSync(r, seen[r].snapshot)),
                                !.accounts = WithRole(@, DOMAIN seen[r].snapshot, "learner"),
                                !.members = Members(r, @)]
      <4>1. /\ db'.accounts = WithRole(db.accounts, DOMAIN seen[r].snapshot, "learner")
            /\ db'.accessCommands = db.accessCommands
        BY <1>1, <3>2
      <4> QED BY <4>1, RoleGiven
    <3> QED BY <2>4, <3>1, <3>2 DEF Synchronize
  <2> QED BY <1>2, <2>1, <2>2, <2>3, <2>4, OthersLeaveAccess, AccountsUnmoved
<1>3. ASSUME NEW run \in DOMAIN db.runs, CompleteRun(run) PROVE AccessInvariant'
  BY <1>1, <1>3, AccountsUnmoved DEF CompleteRun
<1>4. ASSUME NEW s \in DOMAIN db.states, StateExpires(s) PROVE AccessInvariant'
  BY <1>1, <1>4, AccountsUnmoved DEF StateExpires
<1>5. ASSUME NEW t \in DOMAIN db.sessions, SessionExpires(t) PROVE AccessInvariant'
  BY <1>1, <1>5, AccountsUnmoved DEF SessionExpires
<1>6. CASE UNCHANGED platform
  BY <1>6, AccountsUnmoved DEF platform
<1> QED BY <1>2, <1>3, <1>4, <1>5, <1>6 DEF PlatformNext, RequestActs

\* What the accounts are to begin with: in step with the commands that are stored.
AccessIsSettled == AccountsAreSound /\ AccessIsAsCommanded /\ GiftsAreKept

LEMMA AccessHolds ==
    PlatformSpec /\ SoundStart /\ AccessIsSettled => [](AccessInvariant)
<1>1. ASSUME PlatformInit PROVE BootstrapsAreAllowed
  <2>1. \A r \in InFlight : at[r] = StartsAt(request[r])
    BY <1>1 DEF PlatformInit, InFlight
  <2> QED BY <2>1 DEF StartsAt, BootstrapsAreAllowed
<1>2. AccessIsSettled => AccessInvariant
  BY DEF AccessIsSettled, AccountsAreSound, AccessInvariant, AccountColumns
<1>3. /\ PlatformInvariant /\ BootstrapsAreAllowed /\ [PlatformNext]_platform => BootstrapsAreAllowed'
      /\ PlatformInvariant /\ BootstrapsAreAllowed /\ AccessInvariant /\ [PlatformNext]_platform
             => AccessInvariant'
  BY BootstrapsStayAllowed, AccessStays
<1> QED BY <1>1, <1>2, <1>3, InvariantHolds, PTL DEF PlatformSpec

\* The last command stored for a user decides its status and takes every role it had: what the
\* user may beyond the command was given by bootstrapping, or by a launch or a roster since
\* (d1-application-access-repository.ts, d1-lti-authentication-repository.ts and
\* d1-lti-nrps-repository.ts).
THEOREM CommandsDecideAccess ==
    PlatformSpec /\ SoundStart /\ AccessIsSettled => []AccessIsAsCommanded
<1>1. AccessInvariant => AccessIsAsCommanded
  BY DEF AccessInvariant
<1> QED BY <1>1, AccessHolds, PTL

\* A role that a launch or a roster gave is the user's until a later command withholds it.
THEOREM GiftsStay ==
    PlatformSpec /\ SoundStart /\ AccessIsSettled => []GiftsAreKept
<1>1. AccessInvariant => GiftsAreKept
  BY DEF AccessInvariant
<1> QED BY <1>1, AccessHolds, PTL
=============================================================================
