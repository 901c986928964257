------------------------------ MODULE AuditRun ------------------------------
(***************************************************************************)
(* A hosted audit (src/platform/audit/audit-run-service.ts): a learner     *)
(* reads the records of a finished process, notes what looks wrong as      *)
(* findings, and concludes; the conclusion completes the run and the       *)
(* report grades what is then submitted (audit-scoring.ts).                *)
(*                                                                         *)
(* A finding is about one pair of a category and an entity, its matter,    *)
(* and argued: it cites evidence and policies and judges severity,         *)
(* materiality, root cause and recommendation, each rightly or not.        *)
(* Duplicates and stale versions are RunEventStore's.                      *)
(***************************************************************************)
EXTENDS Integers, FiniteSets, FiniteSetsExt

CONSTANTS
    Cases,          \* authored cases, with the configuration they run under
    FindingIds,     \* the ids a learner's client makes up
    Arguments       \* [evidence, policies, severity, materiality, rootCause, recommendation]:
                    \* what a learner cites, and which of his judgements are acceptable

None == "none"

VARIABLES
    case,           \* the case the pack fixes for the run
    audit,          \* the state the run's events reduce to
    overdue         \* the run's deadline has passed

vars == <<case, audit, overdue>>

NoAudit == [status |-> None]

IsOpen == audit.status = "active"

Matters == case.definitions \union case.decoys \union case.unfounded

Notes ==
    {<<"SCOPE", "scope">>} \union ({"EVIDENCE", "BOOKMARK"} \X case.evidence)
        \union ({"SOURCE"} \X case.sources) \union ({"HINT"} \X case.hints)

Noted(kind) == {n \in audit.notes : n[1] = kind}

-----------------------------------------------------------------------------
(* The findings *)

\* A finding cites evidence and policies of the case, and not too many of them.
IsAdmissible(argument) ==
    /\ argument.evidence \in SUBSET case.evidence \ {{}}
    /\ argument.policies \in SUBSET case.policies \ {{}}
    /\ Cardinality(argument.evidence) <= case.maximumEvidence
    /\ Cardinality(argument.policies) <= case.maximumPolicies

Submitted == {f \in DOMAIN audit.findings : audit.findings[f].status = "SUBMITTED"}

\* Every event of a finding raises its revision by one.
FindingRecords == MapThenSumSet(LAMBDA f : audit.findings[f].revision, DOMAIN audit.findings)

IsConfirmed(matter) == matter \in case.definitions

\* Mutant: a pair may be claimed by several findings.
IsUnclaimedAlways(f, matter) == matter \in Matters
IsUnclaimed(f, matter) ==
    matter \in Matters /\ \A g \in Submitted \ {f} : audit.findings[g].matter # matter

\* A confirmed finding is evidence of competence, whatever becomes of it later.
Enter(f, matter, argument, revision) ==
    audit' = [audit EXCEPT
        !.findings = [g \in DOMAIN @ \union {f} |->
                         IF g = f
                         THEN [matter |-> matter, argument |-> argument, revision |-> revision,
                               status |-> "SUBMITTED"]
                         ELSE @[g]],
        !.drafts = @ \ {f},
        !.competence = IF IsConfirmed(matter) THEN @ \union {<<f, revision>>} ELSE @]

-----------------------------------------------------------------------------
(* The commands *)

Init ==
    /\ case \in Cases
    /\ audit = NoAudit
    /\ overdue = FALSE

CreateRun ==
    /\ audit = NoAudit
    /\ audit' = [status |-> "active", notes |-> {}, drafts |-> {}, draftRecords |-> 0,
                 findings |-> [f \in {} |-> None], competence |-> {}, conclusion |-> None,
                 expired |-> FALSE]
    /\ UNCHANGED <<case, overdue>>

MayCommand == IsOpen /\ ~overdue

Command == MayCommand /\ UNCHANGED <<case, overdue>>

HintIsLeft == Cardinality(Noted("HINT")) < case.maximumHints

\* The scope, a piece of evidence, a bookmark, a source record or a hint: once each.
Note(n) ==
    /\ Command
    /\ n \notin audit.notes
    /\ n[1] = "HINT" => HintIsLeft
    /\ audit' = [audit EXCEPT !.notes = @ \union {n}]

\* The contract of a case fixes one draft, saved once.
SaveDraft(f) ==
    /\ Command
    /\ audit.draftRecords < 1
    /\ audit' = [audit EXCEPT !.drafts = @ \union {f}, !.draftRecords = @ + 1]

SubmitFinding(f, matter, argument) ==
    /\ Command
    /\ IsAdmissible(argument)
    /\ FindingRecords < case.maximumRecords
    /\ f \notin DOMAIN audit.findings
    /\ IsUnclaimed(f, matter)
    /\ Cardinality(Submitted) < case.maximumFindings
    /\ Enter(f, matter, argument, 1)

\* What the case leaves to a learner who changes his mind.
MayRevise(f) ==
    /\ case.revision
    /\ FindingRecords < case.maximumRecords
    /\ f \in Submitted

AmendFinding(f, matter, argument) ==
    /\ Command
    /\ IsAdmissible(argument)
    /\ MayRevise(f)
    /\ IsUnclaimed(f, matter)
    /\ Enter(f, matter, argument, audit.findings[f].revision + 1)

WithdrawFinding(f) ==
    /\ Command
    /\ MayRevise(f)
    /\ audit' = [audit EXCEPT !.findings[f].status = "WITHDRAWN", !.findings[f].revision = @ + 1]

\* The conclusion completes the run in the same batch.
SubmitConclusion(isExpected) ==
    /\ Command
    /\ Submitted # {}
    /\ audit' = [audit EXCEPT !.conclusion = IF isExpected THEN "expected" ELSE "other",
                              !.competence = @ \union {<<"CONCLUSION", 1>>},
                              !.status = "completed"]

\* The first command after the deadline is recorded as such; the rest are refused.
Expire ==
    /\ IsOpen /\ overdue /\ ~audit.expired
    /\ audit' = [audit EXCEPT !.expired = TRUE]
    /\ UNCHANGED <<case, overdue>>

ClockPasses ==
    /\ IsOpen /\ ~overdue /\ case.limited
    /\ overdue' = TRUE
    /\ UNCHANGED <<case, audit>>

Report == \E f \in FindingIds, m \in Matters, a \in Arguments : SubmitFinding(f, m, a)

Conclude == \E isExpected \in BOOLEAN : SubmitConclusion(isExpected)

Next ==
    \/ CreateRun
    \/ \E n \in Notes : Note(n)
    \/ Report
    \/ Conclude
    \/ \E f \in FindingIds :
          \/ SaveDraft(f)
          \/ WithdrawFinding(f)
          \/ \E m \in Matters, a \in Arguments : AmendFinding(f, m, a)
    \/ Expire
    \/ ClockPasses

\* A learner who does not give up.
Fairness == WF_vars(Report) /\ WF_vars(Conclude)

Spec == Init /\ [][Next]_vars /\ Fairness

-----------------------------------------------------------------------------
(* The grade *)

\* Math.round of n / d.  A half is rounded up, as the code does when its sums of
\* fractions come out exactly.
Rounded(n, d) == (2 * n + d) \div (2 * d)

Confirmed == {f \in Submitted : IsConfirmed(audit.findings[f].matter)}

Argument(f) == audit.findings[f].argument

\* What the definition of a confirmed finding asks to be cited: [evidence, policies].
Required(f) == case.required[audit.findings[f].matter]

\* What the confirmed findings earn together, each at most a whole of so many parts.
Total(earned, parts) ==
    Cardinality({p \in Confirmed \X (1 .. parts) : p[2] <= earned[p[1]]})

RatioScore(maximum, earned, parts) ==
    Rounded(maximum * Total(earned, parts), parts * Cardinality(case.definitions))

\* The parts of case.parts that go to those of the required items that are cited; what is
\* cited besides costs nothing.
Share(cited, required) ==
    Cardinality(cited \intersect required) * (case.parts \div Cardinality(required))

EvidenceShares == [f \in Confirmed |-> Share(Argument(f).evidence, Required(f).evidence)]

PolicyShares == [f \in Confirmed |-> Share(Argument(f).policies, Required(f).policies)]

\* In fifths: the severity and the root cause count .4 each, the materiality .2.
ClassificationShares ==
    [f \in Confirmed |-> (IF Argument(f).severity THEN 2 ELSE 0)
                         + (IF Argument(f).materiality THEN 1 ELSE 0)
                         + (IF Argument(f).rootCause THEN 2 ELSE 0)]

RecommendationShares == [f \in Confirmed |-> IF Argument(f).recommendation THEN 1 ELSE 0]

ScoreLines ==
    [detection      |-> Rounded(25 * Cardinality({audit.findings[f].matter : f \in Confirmed}),
                                Cardinality(case.definitions)),
     caution        |-> Max({0, Rounded(30 - 15 * Cardinality(Submitted \ Confirmed), 2)}),
     evidence       |-> RatioScore(15, EvidenceShares, case.parts),
     policy         |-> RatioScore(10, PolicyShares, case.parts),
     classification |-> RatioScore(10, ClassificationShares, 5),
     recommendation |-> RatioScore(10, RecommendationShares, 1),
     conclusion     |-> IF audit.conclusion = "expected" THEN 15 ELSE 8]

MaximumOf ==
    [detection |-> 25, caution |-> 15, evidence |-> 15, policy |-> 10, classification |-> 10,
     recommendation |-> 10, conclusion |-> 15]

OfficialGrade ==
    ScoreLines.detection + ScoreLines.caution + ScoreLines.evidence + ScoreLines.policy
    + ScoreLines.classification + ScoreLines.recommendation + ScoreLines.conclusion

-----------------------------------------------------------------------------
(* What the runtime promises *)

\* What applyEvent demands of the events when the run is loaded again.
Replays ==
    audit # NoAudit =>
        /\ \A f, g \in Submitted : audit.findings[f].matter = audit.findings[g].matter => f = g
        /\ audit.status = "completed" <=> audit.conclusion # None
        /\ audit.expired => audit.status = "active"

\* Every anomaly was reported, nothing else was, and the conclusion is the expected one.
IsFound ==
    /\ {audit.findings[f].matter : f \in Submitted} = case.definitions
    /\ audit.conclusion = "expected"

IsExact(f) ==
    LET a == Argument(f)
    IN  /\ Required(f).evidence \subseteq a.evidence /\ Required(f).policies \subseteq a.policies
        /\ a.severity /\ a.materiality /\ a.rootCause /\ a.recommendation

IsPerfect == IsFound /\ \A f \in Submitted : IsExact(f)

\* The least that can be amiss, the materiality of one finding or one item it should have
\* cited, is more than half a point of its line.
RoundingShows ==
    LET d == Cardinality(case.definitions)
    IN  /\ d < 4
        /\ \A m \in case.definitions : /\ d * Cardinality(case.required[m].evidence) < 30
                                       /\ d * Cardinality(case.required[m].policies) < 20

\* Perfect work gets the whole grade, and the whole grade means that nothing was missed,
\* accused in vain or concluded wrongly, and perfect work where no fault is rounded away.
GradeIsSound ==
    audit.status = "completed" =>
        /\ \A l \in DOMAIN ScoreLines : ScoreLines[l] \in 0 .. MaximumOf[l]
        /\ IsPerfect => OfficialGrade = 100
        /\ OfficialGrade = 100 => /\ Cardinality(case.definitions) < 50 => IsFound
                                  /\ RoundingShows => IsPerfect

\* A finding that was withdrawn, or that may not be revised, stays as it is.
RecordIsFinal ==
    \A f \in DOMAIN audit.findings :
        /\ f \in DOMAIN audit'.findings
        /\ audit'.findings[f] # audit.findings[f] =>
               /\ audit.findings[f].status = "SUBMITTED"
               /\ case.revision
               /\ audit'.findings[f].revision = audit.findings[f].revision + 1

RecordsAreFinal ==
    [][audit # NoAudit =>
          /\ RecordIsFinal
          /\ audit.notes \subseteq audit'.notes
          /\ audit.competence \subseteq audit'.competence
          /\ audit.status = "completed" => audit' = audit]_vars

LateChangesNothing ==
    [][overdue /\ audit' # audit =>
          ~audit.expired /\ audit' = [audit EXCEPT !.expired = TRUE]]_vars

\* Every record is used up and nothing is left to conclude about.
IsSpent == IsOpen /\ Submitted = {} /\ FindingRecords = case.maximumRecords

CanFinish == IsOpen /\ ~case.limited

Finished == audit.status = "completed" \/ IsSpent

=============================================================================
