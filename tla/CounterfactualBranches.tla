----------------------- MODULE CounterfactualBranches -----------------------
(***************************************************************************)
(* Counterfactual branches of a completed run: a decision is taken another *)
(* way, or its condition changed, at the place where it was taken, and     *)
(* what followed is replayed (src/platform/runs/counterfactual-branch.ts,  *)
(* src/platform/hosted/counterfactual-*.ts, the repositories of branches   *)
(* and reflections, and their routes in sites/worker.ts).                  *)
(*                                                                         *)
(* A branch keeps its own commands only; its state is the source replayed  *)
(* to the fork and the branch's commands replayed from there.  Replay      *)
(* repeats what happened, so the state after a batch is kept with it here. *)
(* Several requests are handled at a time, each query by query, and one    *)
(* that is cut short leaves what it has stored.                            *)
(***************************************************************************)
EXTENDS CounterfactualRuntime, SequencesExt

CONSTANTS
    Sources,        \* [scenario, start, limited, points, conditions, assignment] of the runs
    BranchIds,
    CommandIds,     \* what a client may call a command: any text, the source's ids too
    Handlers,       \* requests handled at a time
    MaxRequests     \* bound: requests in all

\* Decisions have names, and the coffee journey alone has conditions and begins with its
\* evidence.
ASSUME ExplorationAssumption ==
    \A s \in Sources :
        /\ \A p \in s.points : p.decision # "none"
        /\ \A c \in s.conditions : "none" \notin c.allowed
        /\ IF s.runtime = "native-coffee-v2" THEN s.start = CoffeeStart(s.start.variant)
           ELSE s.conditions = {}

VARIABLES
    played,         \* its batches: [id, command, run]
    overdue,        \* its time limit has passed
    released,       \* feedback is released for its assignment
    branches,       \* stored branches: id |-> metadata
    log,            \* branch |-> its batches: [id, command, version, expired, run], and
                    \* by, which the code does not keep: "hand" or "replay"
    reflections,    \* branch |-> who reflected on it
    handling,       \* what each handler is about to do
    requests        \* how many requests were made

exploration == <<source, played, overdue, released, branches, log, reflections, handling,
                 requests>>

Idle == [at |-> "idle"]

Users == {"learner", "instructor"}

-----------------------------------------------------------------------------
(* Replay *)

StateAfter(start, batches) == IF batches = << >> THEN start ELSE Last(batches).run

SourceState == StateAfter(source.start, played)

ForkOf(b) == StateAfter(source.start, SubSeq(played, 1, branches[b].fork - 1))

\* reconstructBranch, with the first n batches of the branch.
StateAt(b, n) ==
    StateAfter(ForkState(ForkOf(b), branches[b].alternative), SubSeq(log[b], 1, n))

StateOf(b) == StateAt(b, Len(log[b]))

\* The source's batches after the decision at the fork.
Downstream(b) == SubSeq(played, branches[b].fork + 1, Len(played))

DownstreamIds(b) == {e.id : e \in Range(Downstream(b))}

Ids(b) == {e.id : e \in Range(log[b])}

-----------------------------------------------------------------------------
(* Where a run may be forked *)

\* The first batch that submitted the decision, if any.
ForksAt(decision) ==
    LET at == {i \in DOMAIN played : DecisionOf(played[i].command) = decision}
    IN  IF at = {} THEN {} ELSE {CHOOSE i \in at : \A j \in at : i <= j}

\* A decision the author opened to exploration, and the place it was taken.
DecisionPoints ==
    UNION {{[kind |-> "DECISION", fork |-> i, alternative |-> "none", authored |-> p] :
                i \in ForksAt(p.decision)} : p \in source.points}

\* A condition with another authored value, at a decision that is open as well.
ConditionPoints ==
    UNION {{[kind |-> "CONDITION", fork |-> q.fork, alternative |-> v, authored |-> c] :
                v \in c.allowed \ {source.start.variant},
                q \in {q \in DecisionPoints : q.authored.decision = c.decision}} :
           c \in {c \in source.conditions : source.start.variant \in c.allowed}}

Points == DecisionPoints \union ConditionPoints

\* Mutant: what is open after the release of feedback is open at once.
AvailableEarly(authored, user) ==
    /\ authored.decision \in source.assignment.decisions
    /\ user = "learner" => source.assignment.learners # "DISABLED"
    /\ user \in authored.creators
    /\ authored.availability = "INSTRUCTOR_ONLY" => user = "instructor"

\* counterfactualPointIsAvailable, after the checks of counterfactualSourceContext.
Available(authored, user) ==
    /\ authored.decision \in source.assignment.decisions
    /\ user = "learner" =>
           \/ source.assignment.learners = "AFTER_RUN_COMPLETION"
           \/ source.assignment.learners = "AFTER_FEEDBACK_RELEASE" /\ released
    /\ user \in authored.creators
    /\ \/ authored.availability = "AFTER_RUN_COMPLETION"
       \/ authored.availability = "AFTER_FEEDBACK_RELEASE" /\ released
       \/ authored.availability = "INSTRUCTOR_ONLY" /\ user = "instructor"

\* Learners branch in Sandbox assignments that let them.
InContext(user) ==
    /\ Completed(SourceState)
    /\ user = "learner" => source.assignment.sandbox /\ source.assignment.learners # "DISABLED"

OriginalCommand(b) == played[branches[b].fork].command

PointOf(b) == CHOOSE p \in source.points : p.decision = branches[b].decision

ChangesTheDecision(b, command) ==
    /\ DecisionOf(command) = branches[b].decision
    /\ OptionsOf(command) \subseteq PointOf(b).allowed
    /\ OptionsOf(command) # OptionsOf(OriginalCommand(b))

KeepsTheDecision(b, command) ==
    /\ DecisionOf(command) = branches[b].decision
    /\ OptionsOf(command) = OptionsOf(OriginalCommand(b))

-----------------------------------------------------------------------------
(* A command submitted to a branch *)

\* submitCommand of the run services, with the branch's events: its code and the log
\* it leaves.  The batch of an incident names no command type.  The limit is counted
\* from the start of the source.
Submission(b, id, command, version, by) ==
    LET state == StateOf(b)
        earlier == {e \in Range(log[b]) : e.id = id}
        result == Do(state, command)
        Refuse(code) == [code |-> code, log |-> log[b]]
        Accept(run, expired) ==
            [code |-> "OK",
             log |-> Append(log[b], [id |-> id, command |-> command, version |-> version,
                                     expired |-> expired, run |-> run,
                                     by |-> by])]
    IN  IF command.type = "INCIDENT" THEN Refuse("INVALID")
        ELSE IF earlier # {} THEN
            Refuse(IF \A e \in earlier : e.command = command /\ e.version = version
                   THEN "OK" ELSE "COMMAND_ID_REUSED")
        ELSE IF version # Len(log[b]) THEN Refuse("RUN_VERSION_CONFLICT")
        ELSE IF Completed(state) THEN Refuse("PRECONDITION")
        ELSE IF source.limited /\ overdue THEN
            (IF \E e \in Range(log[b]) : e.expired THEN Refuse("RUN_TIME_LIMIT_EXCEEDED")
             ELSE Accept(state, TRUE))
        ELSE IF result.code # "OK" THEN Refuse(result.code)
        ELSE Accept(result.run, FALSE)

Submit(b, id, command, version, by) ==
    log' = [log EXCEPT ![b] = Submission(b, id, command, version, by).log]

-----------------------------------------------------------------------------
(* The source run *)

ExplorationInit ==
    /\ source \in Sources
    /\ played = << >>
    /\ overdue = FALSE
    /\ released = FALSE
    /\ branches = << >>
    /\ log = [b \in BranchIds |-> << >>]
    /\ reflections = << >>
    /\ handling = [h \in Handlers |-> Idle]
    /\ requests = 0

Record(command, run) ==
    played' = Append(played, [id |-> Len(played) + 1, command |-> command, run |-> run])

\* The learner plays to the end in time; nothing branches off before.
PlaySource ==
    /\ ~overdue
    /\ \E c \in Sendable(SourceState) :
           LET result == Do(SourceState, c) IN result.code = "OK" /\ Record(c, result.run)
    /\ UNCHANGED <<source, overdue, released, branches, log, reflections, handling, requests>>

ReleaseIncident ==
    /\ ~PlaysCoffee
    /\ LET r == SourceState
       IN  /\ ~Completed(r)
           /\ \E i \in DOMAIN source.scenario.incidents \ r.incidents :
                  /\ r.node \in source.scenario.incidents[i].at
                  /\ Record([type |-> "INCIDENT", item |-> i], Incident(r, i))
    /\ UNCHANGED <<source, overdue, released, branches, log, reflections, handling, requests>>

ReleaseFeedback ==
    /\ Completed(SourceState) /\ ~released
    /\ released' = TRUE
    /\ UNCHANGED <<source, played, overdue, branches, log, reflections, handling, requests>>

ClockPasses ==
    /\ source.limited /\ ~overdue /\ Completed(SourceState)
    /\ overdue' = TRUE
    /\ UNCHANGED <<source, played, released, branches, log, reflections, handling, requests>>

-----------------------------------------------------------------------------
(* POST /runs/{runId}/counterfactuals *)

Handle(h, step) == handling' = [handling EXCEPT ![h] = step]

Request(h) ==
    /\ handling[h] = Idle
    /\ requests < MaxRequests
    /\ requests' = requests + 1

Metadata(user, point, intervention) ==
    [fork |-> point.fork, decision |-> point.authored.decision, kind |-> point.kind,
     alternative |-> point.alternative, intervention |-> intervention,
     creator |-> user]

\* The branches this user made of this point.
Counted(user, point) ==
    {b \in DOMAIN branches :
        /\ branches[b].creator = user /\ branches[b].kind = point.kind
        /\ branches[b].decision = point.authored.decision}

\* The author's limit or the assignment's, whichever is lower.
Limit(point) == IF point.authored.maximum < source.assignment.maximum
                THEN point.authored.maximum ELSE source.assignment.maximum

\* The point is looked up and, for a new branch, the number of branches.  The client
\* names the command that is to be the intervention.
CreateBranch(h, user, b, point, intervention) ==
    /\ Request(h)
    /\ InContext(user)
    /\ Available(point.authored, user)
    /\ b \notin DOMAIN branches => Cardinality(Counted(user, point)) < Limit(point)
    /\ Handle(h, [at |-> "insert", branch |-> b,
                   metadata |-> Metadata(user, point, intervention),
                   isNew |-> b \notin DOMAIN branches])
    /\ UNCHANGED <<source, played, overdue, released, branches, log, reflections>>

\* Stored unless the identifier is taken: by another branch, or by the same one with
\* another time of creation when it was not there at the first look.  A condition
\* branch goes on to submit the original decision.
InsertBranch(h) ==
    /\ handling[h].at = "insert"
    /\ LET b == handling[h].branch
           metadata == handling[h].metadata
           isTaken == b \in DOMAIN branches
           isConflict == isTaken /\ (handling[h].isNew \/ branches[b] # metadata)
       IN  /\ branches' = [c \in DOMAIN branches \union {b} |->
                              IF c \in DOMAIN branches THEN branches[c] ELSE metadata]
           /\ Handle(h, IF isConflict \/ metadata.kind = "DECISION" THEN Idle
                        ELSE [at |-> "submit", branch |-> b, id |-> metadata.intervention,
                              command |-> played[metadata.fork].command, version |-> 0])
    /\ UNCHANGED <<source, played, overdue, released, log, reflections, requests>>

-----------------------------------------------------------------------------
(* POST /counterfactuals/{branchId}/commands, /complete and /reflection *)

ConditionOf(b) == CHOOSE c \in source.conditions : c.decision = branches[b].decision

\* Mutant: the first command is not compared with the fork.
IsInterventionByName(b, user, id, command) ==
    Available(PointOf(b), user) /\ id = branches[b].intervention

\* What the first command of a branch has to be.
IsIntervention(b, user, id, command) ==
    /\ Available(PointOf(b), user)
    /\ id = branches[b].intervention
    /\ branches[b].kind = "DECISION" => ChangesTheDecision(b, command)
    /\ branches[b].kind = "CONDITION" => /\ Available(ConditionOf(b), user)
                                        /\ KeepsTheDecision(b, command)

CommandBranch(h, user, b, id, command, version) ==
    /\ Request(h)
    /\ InContext(user)
    /\ log[b] = << >> => IsIntervention(b, user, id, command)
    /\ Handle(h, [at |-> "submit", branch |-> b, id |-> id, command |-> command,
                  version |-> version])
    /\ UNCHANGED <<source, played, overdue, released, branches, log, reflections>>

SubmitCommand(h) ==
    /\ handling[h].at = "submit"
    /\ Submit(handling[h].branch, handling[h].id, handling[h].command, handling[h].version,
              "hand")
    /\ Handle(h, Idle)
    /\ UNCHANGED <<source, played, overdue, released, branches, reflections, requests>>

\* Where the source's batches are that the branch has not got.
Missing(b) ==
    {i \in branches[b].fork + 1 .. Len(played) : played[i].id \notin Ids(b)}

\* The batches the branch has are read first, its state next.
CompleteBranch(h, user, b) ==
    /\ Request(h)
    /\ InContext(user)
    /\ log[b] # << >>
    /\ Handle(h, [at |-> "load", branch |-> b, left |-> Missing(b)])
    /\ UNCHANGED <<source, played, overdue, released, branches, log, reflections>>

LoadBranch(h) ==
    /\ handling[h].at = "load"
    /\ Handle(h, [at |-> "replay", branch |-> handling[h].branch, left |-> handling[h].left,
                  version |-> Len(log[handling[h].branch])])
    /\ UNCHANGED <<source, played, overdue, released, branches, log, reflections, requests>>

\* What is left once the earliest batch of the source is through.
Remaining(b, left, after) ==
    [at |-> "replay", branch |-> b, left |-> left \ {Min(left)}, version |-> Len(after)]

\* Mutant: a batch the branch refuses is left out.
ReplayBatchSkipping(h) ==
    /\ handling[h].at = "replay"
    /\ LET b == handling[h].branch
           left == handling[h].left
           version == handling[h].version
       IN  IF left = {} \/ Completed(StateOf(b))
           THEN Handle(h, Idle) /\ UNCHANGED log
           ELSE LET batch == played[Min(left)]
                    result == Submission(b, batch.id, batch.command, version, "replay")
                IN  /\ log' = [log EXCEPT ![b] = result.log]
                    /\ Handle(h, Remaining(b, left, result.log))
    /\ UNCHANGED <<source, played, overdue, released, branches, reflections, requests>>

\* The next batch is submitted as the source's learner submitted it, at the version
\* the branch had at the last look.  What is refused pauses the branch or fails.
ReplayBatch(h) ==
    /\ handling[h].at = "replay"
    /\ LET b == handling[h].branch
           left == handling[h].left
           version == handling[h].version
       IN  IF left = {} \/ Completed(StateAt(b, version))
           THEN Handle(h, Idle) /\ UNCHANGED log
           ELSE LET batch == played[Min(left)]
                    result == Submission(b, batch.id, batch.command, version, "replay")
                IN  /\ log' = [log EXCEPT ![b] = result.log]
                    /\ Handle(h, IF result.code # "OK" THEN Idle
                                 ELSE Remaining(b, left, result.log))
    /\ UNCHANGED <<source, played, overdue, released, branches, reflections, requests>>

\* One reflection, whoever writes it, and not before the branch is completed.
Reflect(user, b) ==
    /\ InContext(user)
    /\ Completed(StateOf(b))
    /\ b \notin DOMAIN reflections
    /\ reflections' = [c \in DOMAIN reflections \union {b} |->
                          IF c = b THEN user ELSE reflections[c]]
    /\ UNCHANGED <<source, played, overdue, released, branches, log, handling, requests>>

\* The request is cut short; what it has stored stays.
Crash(h) ==
    /\ handling[h] # Idle
    /\ Handle(h, Idle)
    /\ UNCHANGED <<source, played, overdue, released, branches, log, reflections, requests>>

Ask(h, user) ==
    \/ \E point \in Points, b \in BranchIds, intervention \in CommandIds :
           CreateBranch(h, user, b, point, intervention)
    \/ \E b \in DOMAIN branches :
           \/ \E id \in CommandIds, c \in Sendable(StateOf(b)), version \in 0 .. Len(log[b]) :
                  CommandBranch(h, user, b, id, c, version)
           \/ CompleteBranch(h, user, b)

Work(h) == InsertBranch(h) \/ SubmitCommand(h) \/ LoadBranch(h) \/ ReplayBatch(h)

ExplorationNext ==
    \/ PlaySource
    \/ ReleaseIncident
    \/ ReleaseFeedback
    \/ ClockPasses
    \/ \E h \in Handlers : Work(h) \/ Crash(h) \/ \E user \in Users : Ask(h, user)
    \/ \E user \in Users, b \in DOMAIN branches : Reflect(user, b)

ExplorationSpec == ExplorationInit /\ [][ExplorationNext]_exploration

-----------------------------------------------------------------------------
(* What a comparison says *)

\* Mutant: a branch that was continued by hand is told from one that was not by its end.
ClassificationByStatus(b) ==
    IF Completed(StateOf(b)) THEN "SINGLE_INTERVENTION" ELSE "EXPLORATORY_BRANCH"

\* loadCounterfactualComparison.
Classification(b) ==
    IF /\ Completed(StateOf(b))
       /\ Ids(b) \subseteq {branches[b].intervention} \union DownstreamIds(b)
    THEN "SINGLE_INTERVENTION" ELSE "EXPLORATORY_BRANCH"

\* A branch begins with what its author opened to exploration: the same decision with
\* other options, or the original decision under the other condition, by somebody the
\* point is open to, however requests overlap or stop halfway (validateCounterfactual-
\* Intervention, validateConditionDecisionReuse, and the version of the first command).
InterventionIsAuthored ==
    \A b \in DOMAIN branches :
        log[b] # << >> =>
            /\ log[b][1].id = branches[b].intervention
            /\ IF branches[b].kind = "DECISION"
               THEN ChangesTheDecision(b, log[b][1].command)
               ELSE /\ log[b][1].command = OriginalCommand(b)
                    /\ ForkState(ForkOf(b), branches[b].alternative) # ForkOf(b)
            /\ source.assignment.learners = "AFTER_FEEDBACK_RELEASE"
               /\ branches[b].creator = "learner" => released

\* After the intervention the branch has the source's batches, each as it was submitted,
\* in their order and without a gap, and none that found the time over.
RepeatsTheSource(b) ==
    LET replayed == Tail(log[b])
    IN  /\ Len(replayed) <= Len(Downstream(b))
        /\ \A i \in DOMAIN replayed :
               /\ replayed[i].id = Downstream(b)[i].id
               /\ replayed[i].command = Downstream(b)[i].command
               /\ ~replayed[i].expired

\* No command by hand took the identifier of a batch after the fork.
KeepsApart(b) == \A e \in Range(log[b]) : e.by = "hand" => e.id \notin DownstreamIds(b)

\* "Every manually changed downstream command makes the comparison compound"
\* (docs/COUNTERFACTUAL_BRANCH_FOUNDATION_V1.md); the classification goes by identifiers,
\* and the client chooses them.
SingleInterventionIsSingle ==
    \A b \in DOMAIN branches :
        log[b] # << >> /\ Classification(b) = "SINGLE_INTERVENTION" => RepeatsTheSource(b)

\* A branch begins with what its author opened, and what is called the effect of one
\* intervention differs from the source in nothing else as long as commands by hand keep
\* away from the identifiers of the source's batches: two replays, commands by hand and an
\* expired limit may get in between (the complete route, sourceCommandBatchesAfterFork
\* and the classification of loadCounterfactualComparison).
ComparisonIsHonest ==
    /\ InterventionIsAuthored
    /\ \A b \in DOMAIN branches :
          log[b] # << >> /\ KeepsApart(b) /\ Classification(b) = "SINGLE_INTERVENTION"
             => RepeatsTheSource(b)

\* "a maximum of 1 through 20 branches per creator and decision"
\* (docs/COUNTERFACTUAL_BRANCH_FOUNDATION_V1.md); the route counts the branches and
\* inserts the new one two queries later.
BranchesAreLimited ==
    \A user \in Users : \A point \in Points : Cardinality(Counted(user, point)) <= Limit(point)

=============================================================================
