---------------------------- MODULE HostedRuntime ----------------------------
(***************************************************************************)
(* The runtime of a hosted run (createHostedRuntimeService in              *)
(* src/platform/hosted/hosted-runtime-service.ts): the scenario its pack   *)
(* publishes decides, once, which of four services plays it.  They have    *)
(* the deadline in common, and what a platform promises of a run whatever  *)
(* plays it: that it can be loaded again, that what was recorded stays,    *)
(* that a late command changes nothing, that the grade says what happened  *)
(* and that a learner who goes on finishes.                                *)
(*                                                                         *)
(* The services that do not play stay at values of no meaning.             *)
(***************************************************************************)
EXTENDS Integers, Sequences, FiniteSets

CONSTANTS
    Library,            \* the generic scenarios
    Cases, FindingIds, Arguments,    \* the audits
    Modules,            \* the technical laboratory
    CoffeePolicies, MinimumCoffeePolicies   \* the coffee journey

VARIABLES
    kind,                       \* which service plays the run
    scenario, run,              \* the generic service's
    case, audit,                \* the audit's
    lab,                        \* the laboratory's
    variant, limited, journey,  \* the coffee journey's
    overdue                     \* the run's deadline has passed

runtime == <<kind, scenario, run, case, audit, lab, variant, limited, journey, overdue>>

Generic == INSTANCE GenericRun WITH late <- overdue
Audit == INSTANCE AuditRun
Lab == INSTANCE TechnicalLab
Coffee == INSTANCE CoffeeRun

ASSUME LaboratoryAssumption == Lab!ModulesAreSound

ASSUME LibraryAssumption == \A s \in Generic!Published : Generic!IsWellFormed(s)

\* What the validator leaves to the authors of the library, and OnlyAsAuthored needs.
ApprovalsAreSimple == \A s \in Generic!Published : Generic!ApprovalsAreSimple(s)

\* What the validator asks of the definitions of an audit: there is one at least, and each
\* requires evidence and policies.  Their numbers divide the parts a share is counted in.
CasesAreAuthored ==
    \A c \in Cases :
        /\ IsFiniteSet(c.definitions) /\ c.definitions # {}
        /\ c.parts \in Nat \ {0}
        /\ \A m \in c.definitions :
               \A required \in {c.required[m].evidence, c.required[m].policies} :
                   /\ IsFiniteSet(required) /\ required # {}
                   /\ c.parts % Cardinality(required) = 0

RuntimeKinds == {"native-coffee-v2", "audit-v1", "technical-lab-v1", "generic-v1"}

-----------------------------------------------------------------------------

NoGeneric == scenario = (CHOOSE s \in Generic!Published : TRUE) /\ run = Generic!NoRun

NoAudit == case = (CHOOSE c \in Cases : TRUE) /\ audit = Audit!NoAudit

NoLab == lab = Lab!NoLab

NoCoffee == variant = "authorized" /\ limited = FALSE /\ journey = Coffee!NoJourney

RuntimeInit ==
    \/ kind = "generic-v1" /\ Generic!Init /\ NoAudit /\ NoLab /\ NoCoffee
    \/ kind = "audit-v1" /\ Audit!Init /\ NoGeneric /\ NoLab /\ NoCoffee
    \/ kind = "technical-lab-v1" /\ Lab!Init /\ NoGeneric /\ NoAudit /\ NoCoffee /\ overdue = FALSE
    \/ kind = "native-coffee-v2" /\ Coffee!Init /\ NoGeneric /\ NoAudit /\ NoLab

Play(service) == kind = service /\ UNCHANGED kind

GenericRun ==
    /\ Play("generic-v1")
    /\ Generic!Next
    /\ UNCHANGED <<case, audit, lab, variant, limited, journey>>

\* Incidents, counterfactual branches and authored feedback are refused.
AuditRun ==
    /\ Play("audit-v1")
    /\ Audit!Next
    /\ UNCHANGED <<scenario, run, lab, variant, limited, journey>>

\* Incidents, counterfactual branches and a time limit are unknown.
TechnicalLab ==
    /\ Play("technical-lab-v1")
    /\ Lab!Next
    /\ UNCHANGED <<scenario, run, case, audit, variant, limited, journey, overdue>>

\* Incidents are refused.
CoffeeRun ==
    /\ Play("native-coffee-v2")
    /\ Coffee!Next
    /\ UNCHANGED <<scenario, run, case, audit, lab>>

RuntimeNext == GenericRun \/ AuditRun \/ TechnicalLab \/ CoffeeRun

\* Each service's learner does not give up; a learner without a run has nothing to do.
RuntimeFairness == Generic!Fairness /\ Audit!Fairness /\ Lab!Fairness /\ Coffee!Fairness

RuntimeSpec == RuntimeInit /\ [][RuntimeNext]_runtime /\ RuntimeFairness

-----------------------------------------------------------------------------
(* What the platform promises of every run *)

\* What is stored can be loaded again: no order of legal commands leaves events
\* behind that the reducer, which checks them once more, refuses (applyEvent and
\* replayEvents of the services).
StoredRunsReplay == Audit!Replays /\ Lab!Replays /\ Coffee!Replays

\* The grade is within bounds, whatever detours a learner took.  Everything right gets the
\* whole score, and the whole score says that everything was right; of an audit, whose
\* lines are rounded, that every anomaly was reported and nothing else, and how well they
\* were argued where the case is small enough for a fault to show (createAuditReport, the
\* laboratory's score projection, hostedCoffeeScoreInputs).
GradesAreSound == Audit!GradeIsSound /\ Lab!GradeIsSound /\ Coffee!GradeIsSound

\* Evidence is before the learner of a generic scenario only because it was given
\* away, asked for where asking is allowed, or carried by an incident, and only
\* what was released is cited (submitCommand, validateDecisionRecord).
ExposureIsEarned == Generic!ExposureIsEarned

\* A generic transaction is committed only as the policy wants it, and a policy that
\* passes leaves nothing uncommitted (policyEvaluationFor).  A run leaves an approval only
\* with every endorser it needs, each in a role of its own (nextRequiredEndorsementRoleId).
CommittedIsApproved == Generic!CommittedIsApproved /\ Generic!ApprovalIsComplete

\* What the learner has before him and what the ledger holds is what the author's script
\* gives for what was done.
OnlyAsAuthored == ExposureIsEarned /\ CommittedIsApproved

\* What a run recorded stays as it was recorded, and a completed run does not change.
\* After the deadline a learner's command has no effect but to record, once, that it
\* came too late; only an instructor's incident still reaches a generic run.
RunsAreFinal ==
    /\ Generic!RecordsAreFinal /\ Generic!LateChangesNothing
    /\ Audit!RecordsAreFinal /\ Audit!LateChangesNothing
    /\ Lab!RecordsAreFinal
    /\ Coffee!RecordsAreFinal /\ Coffee!LateChangesNothing

\* Without a time limit, a learner who goes on completes the run: always in the coffee
\* journey and in the laboratory, in a scenario without an author's flaw, and in an
\* audit unless every finding was withdrawn and the records are used up.
LearnerFinishes ==
    (\/ Generic!CanFinish
     \/ Audit!CanFinish \/ Lab!CanFinish \/ Coffee!CanFinish)
        ~> (Generic!Finished \/ Audit!Finished \/ Lab!Finished \/ Coffee!Finished)

=============================================================================
