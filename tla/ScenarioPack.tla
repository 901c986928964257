---------------------------- MODULE ScenarioPack ----------------------------
(***************************************************************************)
(* A scenario as an author writes it, and what validateScenarioPack        *)
(* (src/platform/scenario-packs/validation.ts) accepts before a pack can   *)
(* be published and run.  Only what the generic runtime reads is kept: the *)
(* workflow graph, who may see and endorse what, the policies, the         *)
(* evidence and how it is obtained, the incidents an instructor may        *)
(* release, the outcome models and the modes.  Texts, images and           *)
(* localisation are left out, and so are the checks about them.            *)
(*                                                                         *)
(* A scenario is a record                                                  *)
(*   roles     the sequence of roles, the first being the default          *)
(*   entry     the entry node                                              *)
(*   nodes     node |-> [type, transitions, and the fields of its type]    *)
(*   evidence  item |-> [visibleTo, access, permission]                    *)
(*   policies  policy |-> [type, result, required, prohibited, minimum,    *)
(*                         endorsers, consultation, authorizes]            *)
(*   incidents incident |-> [visibleTo, at, evidence]                      *)
(*   models    random stream |-> the outcome codes of its model            *)
(*   rules     automated evidence rule |-> [decision, option]              *)
(*   modes     mode |-> [requests, scores, limited, strategy, stream,      *)
(*                       forced]                                           *)
(* A decision has one field, so a response is one of its options.          *)
(***************************************************************************)
EXTENDS Integers, Sequences, FiniteSets

None == "none"

PassiveTypes == {"EVIDENCE_RELEASE", "POLICY_CHECK", "STOCHASTIC_EVENT", "FEEDBACK", "COMPLETION"}

ReferenceTypes == {"DECISION", "TRANSACTION_PROPOSAL", "ENDORSEMENT", "COMMUNICATION", "REFLECTION"}

ElementsOf(q) == {q[i] : i \in DOMAIN q}

NodesOf(s, type) == {n \in DOMAIN s.nodes : s.nodes[n].type = type}

DecisionIds(s) == {s.nodes[n].decision : n \in NodesOf(s, "DECISION")}

Targets(s, n) == {t.to : t \in ElementsOf(s.nodes[n].transitions)}

-----------------------------------------------------------------------------
(* The graph: every node reachable from the entry, a completion among them *)

\* Nodes reachable from the entry without passing through a node of avoided.
ReachableAvoiding(s, avoided) ==
    LET step[k \in 0..Cardinality(DOMAIN s.nodes)] ==
            IF k = 0 THEN {s.entry} \ avoided
            ELSE LET before == step[k - 1]
                 IN  before \union
                     (UNION {Targets(s, n) : n \in before \intersect DOMAIN s.nodes} \ avoided)
    IN  step[Cardinality(DOMAIN s.nodes)]

GraphIsConnected(s) ==
    LET reachable == ReachableAvoiding(s, {})
    IN  /\ s.entry \in DOMAIN s.nodes
        /\ DOMAIN s.nodes \subseteq reachable
        /\ NodesOf(s, "COMPLETION") \intersect reachable # {}

DecisionsAreDistinct(s) ==
    \A m, n \in NodesOf(s, "DECISION") : m # n => s.nodes[m].decision # s.nodes[n].decision

-----------------------------------------------------------------------------
(* Transitions and the content of each node type *)

\* The option of a DECISION_OPTION_SELECTED condition and the event of an
\* EVENT_OCCURRED condition are only checked to be identifiers.
TransitionIsValid(s, t) ==
    /\ t.to \in DOMAIN s.nodes
    /\ t.when.kind = "DECISION_OPTION_SELECTED" => t.when.decision \in DecisionIds(s)
    /\ t.when.kind = "POLICY_RESULT" => /\ t.when.policy \in DOMAIN s.policies
                                        /\ t.when.outcome \in {"pass", "fail"}

\* At least two options in the decision's field.
FieldIsValid(node) == Cardinality(node.options) >= 2

CitationsAreValid(c) == c.minimum <= c.maximum

\* A node without an assessment has maximumPoints 0 and no correct option.
AssessmentIsValid(node) ==
    node.points > 0 => node.correct # {} /\ node.correct \subseteq node.options

DecisionIsValid(node) ==
    /\ FieldIsValid(node)
    /\ CitationsAreValid(node.citesEvidence)
    /\ CitationsAreValid(node.citesPolicies)
    /\ AssessmentIsValid(node)

ProposalIsValid(s, node) ==
    /\ node.source \in DecisionIds(s)
    /\ node.policies \subseteq DOMAIN s.policies

NamesProposalAndPolicy(s, node) ==
    /\ node.proposal \in NodesOf(s, "TRANSACTION_PROPOSAL")
    /\ node.policy \in DOMAIN s.policies

RolesAreKnown(s, roles) == roles # <<>> /\ ElementsOf(roles) \subseteq ElementsOf(s.roles)

\* The outcomes cover the codes of the stream's model exactly.
StochasticIsValid(s, node) ==
    /\ node.stream \in DOMAIN s.models
    /\ Cardinality(node.outcomes) >= 2
    /\ node.outcomes = s.models[node.stream]

NodeIsValid(s, n) ==
    LET node == s.nodes[n]
    IN  /\ \A t \in ElementsOf(node.transitions) : TransitionIsValid(s, t)
        /\ node.type = "EVIDENCE_RELEASE" =>
               node.evidence # {} /\ node.evidence \subseteq DOMAIN s.evidence
        /\ node.type = "DECISION" => DecisionIsValid(node)
        /\ node.type = "TRANSACTION_PROPOSAL" => ProposalIsValid(s, node)
        /\ node.type \in {"ENDORSEMENT", "POLICY_CHECK"} => NamesProposalAndPolicy(s, node)
        /\ node.type \in {"ENDORSEMENT", "COMMUNICATION"} => RolesAreKnown(s, node.roles)
        /\ node.type = "STOCHASTIC_EVENT" => StochasticIsValid(s, node)
        /\ node.type = "COMPLETION" => node.transitions = <<>>

-----------------------------------------------------------------------------
(* Evidence, incidents, modes, scores and endorsers *)

\* Evidence that has to be requested must be offered by a release node, its
\* permission policy must authorize somebody who can see it, and some mode
\* must allow requests.
RequestsAreOffered(s) ==
    LET requestable == {e \in DOMAIN s.evidence : s.evidence[e].access = "REQUEST_REQUIRED"}
        offered == UNION {s.nodes[n].evidence : n \in NodesOf(s, "EVIDENCE_RELEASE")}
    IN  /\ requestable \subseteq offered
        /\ \A e \in requestable : s.evidence[e].permission # None =>
               /\ s.evidence[e].permission \in DOMAIN s.policies
               /\ LET policy == s.policies[s.evidence[e].permission]
                  IN  /\ policy.type = "AUTHORIZATION"
                      /\ policy.authorizes # {}
                      /\ policy.authorizes \subseteq s.evidence[e].visibleTo
        /\ requestable # {} => \E m \in DOMAIN s.modes : s.modes[m].requests

EvidenceIsVisible(s) ==
    \A e \in DOMAIN s.evidence :
        s.evidence[e].visibleTo # {} /\ s.evidence[e].visibleTo \subseteq ElementsOf(s.roles)

\* Evidence that is available may not name a permission policy.
AccessIsConsistent(s) ==
    \A e \in DOMAIN s.evidence :
        s.evidence[e].access = "AVAILABLE" => s.evidence[e].permission = None

IncidentsAreKnown(s) ==
    \A i \in DOMAIN s.incidents :
        /\ s.incidents[i].visibleTo # {} /\ s.incidents[i].visibleTo \subseteq ElementsOf(s.roles)
        /\ s.incidents[i].at # {} /\ s.incidents[i].at \subseteq DOMAIN s.nodes
        /\ s.incidents[i].evidence # {} /\ s.incidents[i].evidence \subseteq DOMAIN s.evidence

ModesAreConsistent(s) ==
    \A m \in DOMAIN s.modes :
        LET mode == s.modes[m]
        IN  /\ mode.stream # None => mode.stream \in DOMAIN s.models
            /\ mode.strategy = "probabilistic" => mode.stream # None
            /\ mode.forced # None => mode.stream # None /\ mode.forced \in s.models[mode.stream]

TotalPoints(s) ==
    LET decisions == NodesOf(s, "DECISION")
        sum[d \in SUBSET decisions] ==
            IF d = {} THEN 0
            ELSE LET n == CHOOSE n \in d : TRUE IN s.nodes[n].points + sum[d \ {n}]
    IN  sum[decisions]

\* A mode that shows scores needs every decision assessed and 100 points in all.
ScoresAreComplete(s) ==
    (\E m \in DOMAIN s.modes : s.modes[m].scores) =>
        /\ NodesOf(s, "DECISION") # {}
        /\ \A n \in NodesOf(s, "DECISION") : s.nodes[n].points > 0
        /\ TotalPoints(s) = 100

\* Mutant: compares numbers of roles only.
EndorsersAreReachableByNumber(s) ==
    \A n \in NodesOf(s, "ENDORSEMENT") :
        s.policies[s.nodes[n].policy].minimum <= Cardinality(ElementsOf(s.nodes[n].roles))

EndorsersAreReachable(s) ==
    \A n \in NodesOf(s, "ENDORSEMENT") :
        LET policy == s.policies[s.nodes[n].policy]
            permitted == ElementsOf(s.nodes[n].roles)
        IN  /\ ElementsOf(policy.endorsers) \subseteq permitted
            /\ policy.minimum <= Cardinality(permitted)

\* validateScenarioPack reports no issue.
Accepted(s) ==
    /\ s.roles # <<>>
    /\ \A n \in DOMAIN s.nodes : NodeIsValid(s, n)
    /\ DecisionsAreDistinct(s)
    /\ GraphIsConnected(s)
    /\ EvidenceIsVisible(s)
    /\ AccessIsConsistent(s)
    /\ RequestsAreOffered(s)
    /\ IncidentsAreKnown(s)
    /\ ModesAreConsistent(s)
    /\ ScoresAreComplete(s)
    /\ EndorsersAreReachable(s)

IsList(q) == q \in Seq(ElementsOf(q))

\* The shapes of what transitions, evidence and approvals are made of.
IsWellFormed(s) ==
    /\ IsFiniteSet(DOMAIN s.nodes)
    /\ \A n \in DOMAIN s.nodes : IsList(s.nodes[n].transitions)
    /\ \A e \in DOMAIN s.evidence : s.evidence[e].access \in {"AVAILABLE", "REQUEST_REQUIRED"}
    /\ \A n \in NodesOf(s, "ENDORSEMENT") :
           LET policy == s.policies[s.nodes[n].policy]
           IN  IsList(s.nodes[n].roles) /\ IsList(policy.endorsers) /\ policy.minimum \in Nat

-----------------------------------------------------------------------------
(* What an author still has to see to: the validator looks at the graph as *)
(* a whole, and none of the following is checked by it.                    *)

Dominates(s, m, n) == m = n \/ n \notin ReachableAvoiding(s, {m})

IsAcyclic(s) ==
    \A n \in DOMAIN s.nodes :
        n \notin UNION {ReachableAvoiding([s EXCEPT !.entry = m], {}) : m \in Targets(s, n)}

\* Some transition matches however the node is left.
AlwaysLeaves(s, n) ==
    LET node == s.nodes[n]
        conditions == {t.when : t \in ElementsOf(node.transitions)}
    IN  \/ node.type = "COMPLETION"
        \/ [kind |-> "ALWAYS"] \in conditions
        \/ /\ node.type = "POLICY_CHECK"
           /\ \A o \in {"pass", "fail"} :
                  [kind |-> "POLICY_RESULT", policy |-> node.policy, outcome |-> o] \in conditions
        \/ /\ node.type = "DECISION"
           /\ \A o \in node.options :
                  [kind |-> "DECISION_OPTION_SELECTED", decision |-> node.decision, option |-> o]
                      \in conditions

\* The required citations are among what is released to everybody on the way.
CitationsCanBeMet(s, n) ==
    LET node == s.nodes[n]
        certain == {e \in DOMAIN s.evidence :
                        /\ s.evidence[e].access = "AVAILABLE"
                        /\ s.evidence[e].visibleTo = ElementsOf(s.roles)
                        /\ \E m \in NodesOf(s, "EVIDENCE_RELEASE") :
                               e \in s.nodes[m].evidence /\ Dominates(s, m, n)}
    IN  /\ node.citesEvidence.minimum <= Cardinality(certain)
        /\ node.citesPolicies.minimum <= Cardinality(DOMAIN s.policies)

\* What is proposed was decided, and what is endorsed was proposed, on every path.
RecordsComeInOrder(s) ==
    /\ \A n \in NodesOf(s, "TRANSACTION_PROPOSAL") :
           \E m \in NodesOf(s, "DECISION") :
               s.nodes[m].decision = s.nodes[n].source /\ Dominates(s, m, n)
    /\ \A n \in NodesOf(s, "ENDORSEMENT") : Dominates(s, s.nodes[n].proposal, n)

ReflectionsAreDistinct(s) ==
    \A m, n \in NodesOf(s, "REFLECTION") : m # n => s.nodes[m].reflection # s.nodes[n].reflection

\* No two approvals are about one proposal and one policy, which names nobody twice.
ApprovalsAreSimple(s) ==
    \A m \in NodesOf(s, "ENDORSEMENT") :
        LET endorsers == s.policies[s.nodes[m].policy].endorsers
        IN  /\ \A n \in NodesOf(s, "ENDORSEMENT") :
                   s.nodes[m].proposal = s.nodes[n].proposal
                       /\ s.nodes[m].policy = s.nodes[n].policy => m = n
            /\ \A i, j \in DOMAIN endorsers : endorsers[i] = endorsers[j] => i = j

WellAuthored(s) ==
    /\ IsAcyclic(s)
    /\ \A n \in DOMAIN s.nodes : AlwaysLeaves(s, n)
    /\ \A n \in NodesOf(s, "DECISION") : CitationsCanBeMet(s, n)
    /\ RecordsComeInOrder(s)
    /\ ReflectionsAreDistinct(s)

=============================================================================
