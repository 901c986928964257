----------------------------- MODULE GenericRun -----------------------------
(***************************************************************************)
(* A run of an authored scenario in the generic hosted runtime             *)
(* (src/platform/hosted/generic-run-service.ts): the state its events      *)
(* reduce to, the commands of the learner and of the instructor, and the   *)
(* nodes the server passes through by itself before it answers.            *)
(*                                                                         *)
(* The scenario is one the validator accepts.  A handler builds all the    *)
(* events of a command before it appends them, so a command that is        *)
(* refused halfway leaves nothing behind: an operator that stands for a    *)
(* handler, or for a part of one, is the set of the runs it can end in,    *)
(* and that set is empty when the code throws.  How two writers of one run *)
(* are kept apart, and duplicates, are RunEventStore's subject.            *)
(***************************************************************************)
EXTENDS ScenarioPack, SequencesExt

CONSTANT Library    \* name |-> scenario, accepted or not

VARIABLES
    scenario,       \* the scenario that runs, which its pack fixes for good
    run,            \* the state the run's events reduce to
    late            \* the run's deadline has passed

vars == <<scenario, run, late>>

Nodes == scenario.nodes
Policies == scenario.policies
Evidence == scenario.evidence

NoRun == [status |-> "none"]

Node(r) == Nodes[r.node]

IsActive(r) == r.status = "active"

Hear(r, codes) == [r EXCEPT !.occurred = @ \union codes]

\* A table with one more entry.
Recorded(table, x, entry) ==
    [y \in DOMAIN table \union {x} |-> IF y = x THEN entry ELSE table[y]]

-----------------------------------------------------------------------------
(* Which role plays the next node *)

\* The policy's own endorsers come first, then the permitted roles in their order.
InTurn(n) == Policies[Nodes[n].policy].endorsers \o Nodes[n].roles

FirstOf(n, roles) == InTurn(n)[Min({i \in DOMAIN InTurn(n) : InTurn(n)[i] \in roles})]

\* The permitted roles among the first k that the policy does not name.
OthersUpTo(n, k) ==
    {Nodes[n].roles[i] : i \in 1 .. k} \ ElementsOf(Policies[Nodes[n].policy].endorsers)

\* Mutant: asks the named endorsers only, not as many as the policy wants.
RequiredEndorsersNamed(n) ==
    LET configured == Policies[Nodes[n].policy].endorsers
    IN  IF configured = << >> THEN {Nodes[n].roles[1]} ELSE ElementsOf(configured)

\* The policy's own endorsers, and as many of the others as it still needs.
RequiredEndorsers(n) ==
    LET policy == Policies[Nodes[n].policy]
        configured == Len(policy.endorsers)
        wanted == Max({configured, policy.minimum, 1})
        all == Len(Nodes[n].roles)
        enough == {k \in 0 .. all :
                      k = all \/ configured + Cardinality(OthersUpTo(n, k)) >= wanted}
    IN  ElementsOf(policy.endorsers) \union OthersUpTo(n, Min(enough))

EndorsersOf(r, n) == {e.role : e \in {e \in r.endorsements : e.node = n}}

PendingEndorsers(r, n) == RequiredEndorsers(n) \ EndorsersOf(r, n)

\* The learner plays one role at a time; None before the run has any.
RoleAt(role, n) ==
    LET node == Nodes[n]
    IN  CASE node.type = "ENDORSEMENT" -> FirstOf(n, RequiredEndorsers(n))
          [] node.type = "COMMUNICATION" /\ role \notin ElementsOf(node.roles) -> node.roles[1]
          [] OTHER -> IF role = None THEN scenario.roles[1] ELSE role

-----------------------------------------------------------------------------
(* Transitions *)

\* The last evaluation of the policy decides, whatever proposal it was about.
LastEvaluationIs(r, policy, outcome) ==
    LET about == SelectSeq(r.evaluations, LAMBDA e : e.policy = policy)
    IN  about # << >> /\ about[Len(about)].outcome = outcome

TransitionMatches(r, t) ==
    CASE t.when.kind = "ALWAYS" -> TRUE
      [] t.when.kind = "DECISION_OPTION_SELECTED" ->
             /\ t.when.decision \in DOMAIN r.decisions
             /\ r.decisions[t.when.decision].option = t.when.option
      [] t.when.kind = "POLICY_RESULT" -> LastEvaluationIs(r, t.when.policy, t.when.outcome)
      [] t.when.kind = "EVENT_OCCURRED" -> t.when.event \in r.occurred

\* The first transition that matches, if any.
NextTransition(r) ==
    LET ts == Node(r).transitions
        matching == {i \in DOMAIN ts : TransitionMatches(r, ts[i])}
    IN  IF matching = {} THEN {} ELSE {ts[Min(matching)]}

\* The reducer checks the condition once more before it moves the run.
Follow(r, t) ==
    IF ~TransitionMatches(r, t) THEN {}
    ELSE {Hear([r EXCEPT !.completed = @ \union {r.node},
                         !.node = t.to,
                         !.role = RoleAt(r.role, t.to)], {"WORKFLOW_ADVANCED"})}

Advance(r) == UNION {Follow(r, t) : t \in NextTransition(r)}

-----------------------------------------------------------------------------
(* Policies and commits *)

EndorsementsFor(r, proposal, policy) ==
    {e \in r.endorsements : Nodes[e.node].proposal = proposal /\ Nodes[e.node].policy = policy}

\* Mutant: the decision is looked up by the proposal's node.
ChosenForNode(r, proposal) == {r.decisions[d].option : d \in DOMAIN r.decisions \intersect {proposal}}

\* The options the proposal's source decision chose.
ChosenFor(r, proposal) ==
    {r.decisions[d].option : d \in DOMAIN r.decisions \intersect
        {Nodes[p].source : p \in DOMAIN r.proposals \intersect {proposal}}}

PolicyPasses(r, n) ==
    LET node == Nodes[n]
        policy == Policies[node.policy]
        endorsements == EndorsementsFor(r, node.proposal, node.policy)
        chosen == ChosenFor(r, node.proposal)
    IN  /\ node.proposal \in DOMAIN r.proposals
        /\ node.policy \in Nodes[node.proposal].policies
        /\ (\E m \in NodesOf(scenario, "ENDORSEMENT") :
                Nodes[m].proposal = node.proposal /\ Nodes[m].policy = node.policy)
           => endorsements # {}
        /\ policy.result # "fail"
        /\ policy.required \subseteq chosen
        /\ policy.prohibited \intersect chosen = {}
        /\ Cardinality(endorsements) >= policy.minimum
        /\ ElementsOf(policy.endorsers) \subseteq {e.role : e \in endorsements}
        /\ policy.consultation => node.policy \in r.consulted
        /\ policy.type = "AUTHORIZATION" => r.proposals[node.proposal] \in policy.authorizes

\* The evaluation is recorded, and the first one to pass commits the proposal.
Evaluate(r, n) ==
    LET node == Nodes[n]
        passes == PolicyPasses(r, n)
        outcome == IF passes THEN "pass" ELSE "fail"
        evaluated == Hear([r EXCEPT !.evaluations = Append(@,
                               [proposal |-> node.proposal, policy |-> node.policy,
                                outcome |-> outcome])],
                          {"POLICY_EVALUATED", node.policy,
                           IF passes THEN "POLICY_PASS" ELSE "POLICY_FAIL"})
        endorsers == {e.role : e \in EndorsementsFor(r, node.proposal, node.policy)}
    IN  IF ~passes \/ node.proposal \in DOMAIN r.committed THEN evaluated
        ELSE Hear([evaluated EXCEPT !.committed =
                       Recorded(@, node.proposal, [policy |-> node.policy,
                                                   endorsers |-> endorsers])],
                  {"TRANSACTION_COMMITTED", Nodes[node.proposal].proposalType, node.policy})

-----------------------------------------------------------------------------
(* The nodes the server passes through by itself *)

\* Mutant: gives away what has to be asked for.
ReleasedAtOnce(r, n) == Nodes[n].evidence \ r.released

\* What a release node gives away: neither what is out already nor what must be asked for.
ReleasedAt(r, n) ==
    {e \in Nodes[n].evidence : e \notin r.released /\ Evidence[e].access # "REQUEST_REQUIRED"}

\* The run's own outcome if the node draws from the same stream, else the forced
\* outcome, else the draw the seed gives this node.
Resolution(r, n) ==
    LET node == Nodes[n]
        mode == scenario.modes[r.mode]
    IN  IF mode.stream = node.stream /\ r.outcome \in node.outcomes THEN r.outcome
        ELSE IF mode.strategy = "forced" /\ mode.forced \in node.outcomes THEN mode.forced
        ELSE r.draws[n]

Passive(r) == IsActive(r) /\ Node(r).type \in PassiveTypes

PassThroughRelease(r) ==
    LET released == ReleasedAt(r, r.node)
    IN  Advance(Hear([r EXCEPT !.released = @ \union released],
                     IF released = {} THEN {} ELSE {"EVIDENCE_RELEASED"}))

PassThroughChance(r) ==
    LET code == Resolution(r, r.node)
    IN  IF r.node \in DOMAIN r.chances THEN {}
        ELSE Advance(Hear([r EXCEPT !.chances = Recorded(@, r.node, code)],
                          {"STOCHASTIC_EVENT_RESOLVED", code}))

Complete(r) ==
    IF \E i \in DOMAIN r.evaluations :
           r.evaluations[i].outcome = "pass" /\ r.evaluations[i].proposal \notin DOMAIN r.committed
    THEN {}
    ELSE {Hear([r EXCEPT !.status = "completed"], {"RUN_COMPLETED"})}

PassThrough(r) ==
    CASE Node(r).type = "EVIDENCE_RELEASE" -> PassThroughRelease(r)
      [] Node(r).type = "POLICY_CHECK" -> Advance(Evaluate(r, r.node))
      [] Node(r).type = "STOCHASTIC_EVENT" -> PassThroughChance(r)
      [] Node(r).type = "FEEDBACK" -> Advance(r)
      [] Node(r).type = "COMPLETION" -> Complete(r)

\* A run that is still on its way after as many steps as there are nodes, twice,
\* goes round for ever: the request never ends and nothing is appended.
Settle(r) ==
    LET passed[k \in 0 .. 2 * Cardinality(DOMAIN Nodes)] ==
            IF k = 0 THEN {r}
            ELSE UNION {IF Passive(x) THEN PassThrough(x) ELSE {x} : x \in passed[k - 1]}
    IN  {x \in passed[2 * Cardinality(DOMAIN Nodes)] : ~Passive(x)}

Proceed(r) == UNION {Settle(x) : x \in Advance(r)}

-----------------------------------------------------------------------------
(* What the role at the node may do *)

VisibleEvidence(r) == {e \in r.released : r.role \in Evidence[e].visibleTo}

\* What the release nodes on the way have, whether they gave it away or not.
Offered(r) ==
    UNION {Nodes[n].evidence : n \in r.completed \intersect NodesOf(scenario, "EVIDENCE_RELEASE")}

\* A permission policy that is missing or of another type refuses.
RequestPermitted(r, e) ==
    LET policy == Evidence[e].permission
    IN  policy # None => /\ Policies[policy].type = "AUTHORIZATION"
                         /\ r.role \in Policies[policy].authorizes

Requestable(r) ==
    {e \in Offered(r) :
        /\ IsActive(r) /\ scenario.modes[r.mode].requests /\ Node(r).type = "DECISION"
        /\ Evidence[e].access = "REQUEST_REQUIRED"
        /\ r.role \in Evidence[e].visibleTo
        /\ e \notin r.released \union r.requested
        /\ RequestPermitted(r, e)}

Consultable(r) ==
    IF IsActive(r) /\ Node(r).type \in ReferenceTypes THEN DOMAIN Policies \ r.consulted ELSE {}

\* The command that moves the run on from a node of this type.
PrimaryCommand(type) ==
    CASE type \in {"BRIEFING", "CONSEQUENCE"} -> "ADVANCE_WORKFLOW"
      [] type = "DECISION" -> "SUBMIT_STRUCTURED_DECISION"
      [] type = "TRANSACTION_PROPOSAL" -> "CREATE_TRANSACTION_PROPOSAL"
      [] type = "ENDORSEMENT" -> "RECORD_ENDORSEMENT"
      [] type = "COMMUNICATION" -> "ACKNOWLEDGE_COMMUNICATION"
      [] type = "REFLECTION" -> "SUBMIT_REFLECTION"
      [] OTHER -> None

Permitted(r) ==
    IF ~IsActive(r) THEN {}
    ELSE {PrimaryCommand(Node(r).type)}
         \union (IF /\ Node(r).type \in ReferenceTypes
                    /\ VisibleEvidence(r) \ r.inspected # {} THEN {"INSPECT_EVIDENCE"} ELSE {})
         \union (IF Requestable(r) # {} THEN {"REQUEST_EVIDENCE"} ELSE {})
         \union (IF Consultable(r) # {} THEN {"CONSULT_POLICY"} ELSE {})

-----------------------------------------------------------------------------
(* The effect of each command on a run *)

Advanced(r) == IF Node(r).type \in {"BRIEFING", "CONSEQUENCE"} THEN Proceed(r) ELSE {}

Inspected(r, e) ==
    IF e \notin VisibleEvidence(r) \ r.inspected THEN {}
    ELSE {Hear([r EXCEPT !.inspected = @ \union {e}], {"EVIDENCE_INSPECTED"})}

\* Request and release are two events of one batch.
Requested(r, e) ==
    IF e \notin Requestable(r) THEN {}
    ELSE {Hear([r EXCEPT !.requested = @ \union {e}, !.released = @ \union {e}],
               {"EVIDENCE_REQUESTED", "EVIDENCE_RELEASED"})}

Consulted(r, p) ==
    IF p \notin Consultable(r) THEN {}
    ELSE {Hear([r EXCEPT !.consulted = @ \union {p}], {"POLICY_CONSULTED"})}

CountIsAllowed(cited, c) == Cardinality(cited) \in c.minimum .. c.maximum

\* Mutant: a decision can be taken again.
DecisionIsAcceptableAgain(r, d) ==
    LET node == Node(r)
    IN  /\ d.option \in node.options
        /\ CountIsAllowed(d.evidence, node.citesEvidence)
        /\ CountIsAllowed(d.policies, node.citesPolicies)

\* Evidence has to be released and visible to be cited, a policy to be consulted.
DecisionIsAcceptable(r, d) ==
    LET node == Node(r)
    IN  /\ node.decision \notin DOMAIN r.decisions
        /\ d.option \in node.options
        /\ d.evidence \subseteq VisibleEvidence(r)
        /\ d.policies \subseteq r.consulted
        /\ CountIsAllowed(d.evidence, node.citesEvidence)
        /\ CountIsAllowed(d.policies, node.citesPolicies)

\* The rules that recognise the response record competency evidence.
Observed(r, d) ==
    {k \in DOMAIN scenario.rules :
        scenario.rules[k] = [decision |-> Node(r).decision, option |-> d.option]}

Decided(r, d) ==
    IF ~DecisionIsAcceptable(r, d) THEN {}
    ELSE LET observed == Observed(r, d)
             decided == [r EXCEPT !.decisions = Recorded(@, Node(r).decision, d),
                                  !.competency = @ \union observed]
         IN  Proceed(Hear(decided, {"DECISION_SUBMITTED"} \union
                 (IF observed = {} THEN {} ELSE {"COMPETENCY_EVIDENCE_RECORDED"})))

\* The proposal names the role that makes it.
Proposed(r) ==
    IF r.node \in DOMAIN r.proposals \/ Node(r).source \notin DOMAIN r.decisions THEN {}
    ELSE Proceed(Hear([r EXCEPT !.proposals = Recorded(@, r.node, r.role)],
                      {"TRANSACTION_PROPOSED", Node(r).proposalType}))

HandedOver(r) ==
    {Hear([r EXCEPT !.role = FirstOf(r.node, PendingEndorsers(r, r.node))],
          {"ROLE_HANDOFF_COMPLETED"})}

\* The policy is evaluated here when the run does not go on to the check of it.  The
\* transition is chosen before the evaluation and checked again after it.
LeaveEndorsement(r) ==
    LET checks == {n \in NodesOf(scenario, "POLICY_CHECK") :
                       Nodes[n].policy = Node(r).policy /\ Nodes[n].proposal = Node(r).proposal}
    IN  UNION {LET evaluated == IF t.to \in checks \/ checks = {} THEN r
                                ELSE Evaluate(r, CHOOSE n \in checks : TRUE)
               IN  UNION {Settle(x) : x \in Follow(evaluated, t)} : t \in NextTransition(r)}

Endorsed(r) ==
    IF \/ r.role \notin ElementsOf(Node(r).roles)
       \/ Node(r).proposal \notin DOMAIN r.proposals
       \/ r.role \in EndorsersOf(r, r.node)
    THEN {}
    ELSE LET endorsement == [node |-> r.node, role |-> r.role]
             endorsed == Hear([r EXCEPT !.endorsements = @ \union {endorsement}],
                              {"ENDORSEMENT_RECORDED", Node(r).policy})
         IN  IF PendingEndorsers(endorsed, r.node) # {} THEN HandedOver(endorsed)
             ELSE LeaveEndorsement(endorsed)

Acknowledged(r) ==
    IF r.role \notin ElementsOf(Node(r).roles) \/ r.node \in r.communications THEN {}
    ELSE Proceed(Hear([r EXCEPT !.communications = @ \union {r.node}],
                      {"COMMUNICATION_ACKNOWLEDGED", Node(r).message}))

Reflected(r) ==
    IF Node(r).reflection \in r.reflections THEN {}
    ELSE Proceed(Hear([r EXCEPT !.reflections = @ \union {Node(r).reflection}],
                      {"REFLECTION_SUBMITTED", Node(r).reflection}))

-----------------------------------------------------------------------------
(* Starting a run *)

\* What the seed of the run draws for each node of chance that does not share the
\* stream of the run's own outcome.
Draws(mode) ==
    LET nodes == {n \in NodesOf(scenario, "STOCHASTIC_EVENT") :
                      Nodes[n].stream # scenario.modes[mode].stream}
    IN  {d \in [nodes -> UNION {Nodes[n].outcomes : n \in nodes}] :
            \A n \in nodes : d[n] \in Nodes[n].outcomes}

InitialOutcomes(mode) ==
    LET m == scenario.modes[mode]
    IN  CASE m.stream = None -> {None}
          [] m.strategy = "forced" -> {m.forced} \ {None}
          [] OTHER -> scenario.models[m.stream]

Created(mode, draws, outcome) ==
    [status |-> "active", mode |-> mode, node |-> scenario.entry, completed |-> {},
     role |-> RoleAt(None, scenario.entry), released |-> {}, inspected |-> {}, consulted |-> {},
     requested |-> {}, incidents |-> {}, decisions |-> << >>, proposals |-> << >>,
     endorsements |-> {}, evaluations |-> << >>, committed |-> << >>, communications |-> {},
     chances |-> << >>, reflections |-> {}, competency |-> {}, expired |-> FALSE,
     draws |-> draws, outcome |-> outcome,
     occurred |-> {"RUN_CREATED"} \union
         (IF scenario.modes[mode].strategy = "probabilistic"
          THEN {"RANDOM_DRAW_MADE", "OUTCOME_REALIZED", outcome} ELSE {})]

Published == {Library[s] : s \in {s \in DOMAIN Library : Accepted(Library[s])}}

Init ==
    /\ scenario \in Published
    /\ run = NoRun
    /\ late = FALSE

CreateRun(mode) ==
    /\ run = NoRun
    /\ \E draws \in Draws(mode), outcome \in InitialOutcomes(mode) :
           run' \in Settle(Created(mode, draws, outcome))
    /\ UNCHANGED <<scenario, late>>

-----------------------------------------------------------------------------
(* The learner's commands *)

\* Mutant: the deadline is not looked at.
MayCommandLate(command) == IsActive(run) /\ command \in Permitted(run)

MayCommand(command) == IsActive(run) /\ ~late /\ command \in Permitted(run)

Command(command, results) ==
    /\ MayCommand(command)
    /\ run' \in results
    /\ UNCHANGED <<scenario, late>>

AdvanceWorkflow == Command("ADVANCE_WORKFLOW", Advanced(run))

InspectEvidence(e) == Command("INSPECT_EVIDENCE", Inspected(run, e))

RequestEvidence(e) == Command("REQUEST_EVIDENCE", Requested(run, e))

ConsultPolicy(p) == Command("CONSULT_POLICY", Consulted(run, p))

\* The decisions a learner can send from the node.
Submissions(r) ==
    [option : Node(r).options, evidence : SUBSET VisibleEvidence(r), policies : SUBSET r.consulted]

SubmitDecision ==
    /\ MayCommand("SUBMIT_STRUCTURED_DECISION")
    /\ \E d \in Submissions(run) : Command("SUBMIT_STRUCTURED_DECISION", Decided(run, d))

CreateProposal == Command("CREATE_TRANSACTION_PROPOSAL", Proposed(run))

RecordEndorsement == Command("RECORD_ENDORSEMENT", Endorsed(run))

AcknowledgeCommunication == Command("ACKNOWLEDGE_COMMUNICATION", Acknowledged(run))

SubmitReflection == Command("SUBMIT_REFLECTION", Reflected(run))

\* The first command after the deadline is recorded as such; the rest are refused.
Expire ==
    /\ IsActive(run) /\ late /\ ~run.expired
    /\ run' = Hear([run EXCEPT !.expired = TRUE], {"RUN_TIME_LIMIT_EXCEEDED"})
    /\ UNCHANGED <<scenario, late>>

-----------------------------------------------------------------------------
(* The instructor and the clock *)

\* The deadline is not looked at.
ReleaseIncident(i) ==
    /\ IsActive(run)
    /\ run.node \in scenario.incidents[i].at
    /\ run.role \in scenario.incidents[i].visibleTo
    /\ i \notin run.incidents
    /\ run' = Hear([run EXCEPT !.incidents = @ \union {i},
                               !.released = @ \union scenario.incidents[i].evidence],
                   {"INSTRUCTOR_INCIDENT_RELEASED"})
    /\ UNCHANGED <<scenario, late>>

ClockPasses ==
    /\ IsActive(run) /\ ~late /\ scenario.modes[run.mode].limited
    /\ late' = TRUE
    /\ UNCHANGED <<scenario, run>>

\* The commands that move the run to another node.
Progress ==
    \/ AdvanceWorkflow
    \/ SubmitDecision
    \/ CreateProposal
    \/ RecordEndorsement
    \/ AcknowledgeCommunication
    \/ SubmitReflection

Learner ==
    \/ \E m \in DOMAIN scenario.modes : CreateRun(m)
    \/ Progress
    \/ \E e \in DOMAIN Evidence : InspectEvidence(e) \/ RequestEvidence(e)
    \/ \E p \in DOMAIN Policies : ConsultPolicy(p)
    \/ Expire

Instructor == \E i \in DOMAIN scenario.incidents : ReleaseIncident(i)

Next == Learner \/ Instructor \/ ClockPasses

Spec == Init /\ [][Next]_vars

\* A learner who does not give up: reads the policies and goes on when it is possible.
Fairness ==
    /\ WF_vars(Progress)
    /\ WF_vars(\E p \in DOMAIN Policies : ConsultPolicy(p))

FairSpec == Spec /\ Fairness

-----------------------------------------------------------------------------
(* What the runtime promises *)

\* Evidence is before the learner only because a release node on the way gave it
\* away, because it was asked for where asking is allowed and somebody the
\* permission policy authorizes could ask, or because an instructor released an
\* incident that carries it; only such evidence is inspected or cited, and only
\* policies that were consulted are (submitCommand, requestableEvidence and
\* validateDecisionRecord).
ExposureIsEarned ==
    IsActive(run) \/ run.status = "completed" =>
        /\ \A e \in run.released :
               \/ e \in Offered(run) /\ Evidence[e].access = "AVAILABLE"
               \/ /\ e \in Offered(run) \intersect run.requested
                  /\ scenario.modes[run.mode].requests
                  /\ Evidence[e].permission # None =>
                         Policies[Evidence[e].permission].type = "AUTHORIZATION"
               \/ \E i \in run.incidents : e \in scenario.incidents[i].evidence
        /\ run.inspected \subseteq run.released
        /\ \A d \in DOMAIN run.decisions :
               /\ run.decisions[d].evidence \subseteq run.released
               /\ run.decisions[d].policies \subseteq run.consulted

\* A transaction is committed for a proposal that was made from a decision the
\* policy allows, with every endorser the policy names and as many as it wants,
\* by a role it authorizes; and a policy that passes leaves nothing uncommitted
\* (policyEvaluationFor, appendPolicyEvaluationAndCommitEvents).
CommittedIsApproved ==
    IsActive(run) \/ run.status = "completed" =>
        /\ \A p \in DOMAIN run.committed :
               LET commit == run.committed[p]
                   policy == Policies[commit.policy]
                   option == run.decisions[Nodes[p].source].option
               IN  /\ p \in DOMAIN run.proposals
                   /\ commit.policy \in Nodes[p].policies
                   /\ policy.required \subseteq {option} /\ option \notin policy.prohibited
                   /\ ElementsOf(policy.endorsers) \subseteq commit.endorsers
                   /\ Cardinality(commit.endorsers) >= policy.minimum
                   /\ policy.consultation => commit.policy \in run.consulted
                   /\ policy.type = "AUTHORIZATION" => run.proposals[p] \in policy.authorizes
        /\ \A i \in DOMAIN run.evaluations :
               run.evaluations[i].outcome = "pass" =>
                   run.evaluations[i].proposal \in DOMAIN run.committed

\* The run leaves an approval only when every endorser it needs has endorsed, each
\* in a role of its own, whatever hand-overs that took (nextRequiredEndorsementRoleId).
ApprovalIsComplete ==
    IsActive(run) \/ run.status = "completed" =>
        \A n \in run.completed \intersect NodesOf(scenario, "ENDORSEMENT") :
            LET policy == Policies[Nodes[n].policy]
                endorsers == EndorsersOf(run, n)
            IN  /\ ElementsOf(policy.endorsers) \subseteq endorsers
                /\ endorsers \subseteq ElementsOf(Nodes[n].roles)
                /\ Cardinality(endorsers) >= Max({policy.minimum, 1})

Extends(f, g) == DOMAIN f \subseteq DOMAIN g /\ \A x \in DOMAIN f : g[x] = f[x]

\* What was decided, proposed, endorsed, evaluated, committed, drawn or reflected
\* stays as it was recorded, also when the run comes back to the node; a completed
\* run does not change (the duplicates refused by every handler and by applyEvent).
RecordsAreFinal ==
    [][run # NoRun =>
          /\ Extends(run.decisions, run'.decisions)
          /\ Extends(run.proposals, run'.proposals)
          /\ Extends(run.committed, run'.committed)
          /\ Extends(run.chances, run'.chances)
          /\ run.endorsements \subseteq run'.endorsements
          /\ IsPrefix(run.evaluations, run'.evaluations)
          /\ run.status = "completed" => run' = run]_vars

\* Once the deadline has passed, no command of the learner has an effect but to
\* record, once, that it came too late; the instructor can still release incidents.
LateChangesNothing ==
    [][late /\ run' # run =>
          \/ ~run.expired /\ run' = [run EXCEPT !.expired = TRUE, !.occurred = run'.occurred]
          \/ run' = [run EXCEPT !.incidents = run'.incidents, !.released = run'.released,
                                !.occurred = run'.occurred]]_vars

\* A learner who can finish: the run has no time limit and its scenario has none
\* of the flaws of WellAuthored, so that whoever plays a node can always
\* take its step.
CanFinish == IsActive(run) /\ ~scenario.modes[run.mode].limited /\ WellAuthored(scenario)

Finished == run.status = "completed"

=============================================================================
