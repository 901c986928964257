---------------------------- MODULE ScenarioEdits ----------------------------
(***************************************************************************)
(* What each control of the scenario builder makes of a draft              *)
(* (src/src/platform/author/scenario-builder.tsx): the records a button    *)
(* adds, which records its neighbour may remove, and what the fields may   *)
(* be set to.                                                              *)
(***************************************************************************)
EXTENDS ScenarioDraft

\* The n-th record an edit adds; its key, and what it is called, are new.
Rec(p, n, kind, s, parent, type, id, refs) ==
    [kind |-> kind, scenario |-> s, parent |-> parent, key |-> p.next + n,
     label |-> <<p.next + n>>, type |-> type, id |-> id, refs |-> refs]
Add(p, records) == [p EXCEPT !.records = @ \o records, !.next = @ + Len(records)]
Change(p, r) == [p EXCEPT !.records = [i \in DOMAIN @ |-> IF @[i].key = r.key THEN r ELSE @[i]]]
Fresh(p, s, kind, base) == uniqueIdentifier(IdsOf(Of(p, s, kind)), base)

\* A record goes with everything in it.
Children(p, keys) == {r.key : r \in {x \in Records(p) : x.parent \in keys}}
Family(p, r) ==
    IF r.kind = "scenario" THEN {x.key : x \in InScenario(p, r.key)}
    ELSE {r.key} \cup Children(p, {r.key}) \cup Children(p, Children(p, {r.key}))
Without(p, keys) == [p EXCEPT !.records = SelectSeq(@, LAMBDA r : r.key \notin keys)]

-----------------------------------------------------------------------------
(* Participants and evidence                                               *)

NewOrganization(p, s) ==
    Add(p, <<Rec(p, 0, "organization", s, s, "-", Fresh(p, s, "organization", "ORG_NEW"), {})>>)

NewRole(p, s) ==
    IF Of(p, s, "organization") = <<>> THEN p
    ELSE Add(p, <<Rec(p, 0, "role", s, s, "-", Fresh(p, s, "role", "ROLE_NEW"),
                      Refer("organizationId", {FirstId(Of(p, s, "organization"))}))>>)

NewPolicy(p, s) ==
    Add(p, <<Rec(p, 0, "policy", s, s, "BUSINESS_RULE", Fresh(p, s, "policy", "POLICY_NEW"), {})>>)

NewEvidence(p, s) ==
    IF Of(p, s, "organization") = <<>> \/ Of(p, s, "role") = <<>> THEN p
    ELSE Add(p, <<Rec(p, 0, "evidence", s, s, "AVAILABLE",
                      Fresh(p, s, "evidence", "EVIDENCE_NEW"),
                      Refer("sourceOrganizationId", {FirstId(Of(p, s, "organization"))})
                      \cup Refer("ownerOrganizationId", {FirstId(Of(p, s, "organization"))})
                      \cup Refer("visibleToRoleIds", {FirstId(Of(p, s, "role"))}))>>)

NewIncident(p, s) ==
    IF Of(p, s, "evidence") = <<>> THEN p
    ELSE Add(p, <<Rec(p, 0, "incident", s, s, "-", Fresh(p, s, "incident", "INCIDENT_NEW"),
                      Refer("visibleToRoleIds", {FirstId(Of(p, s, "role"))})
                      \cup Refer("releaseAtNodeIds", Referred(Known(p, s), "entryNodeId"))
                      \cup Refer("evidenceIds", {FirstId(Of(p, s, "evidence"))}))>>)

-----------------------------------------------------------------------------
(* Delivery: outcome models and modes                                      *)

\* Every model added draws from the stream of the same name.
NewOutcomeModel(p, s) ==
    Add(p, <<Rec(p, 0, "outcomeModel", s, s, "RANDOM_STREAM_DEFAULT",
                 Fresh(p, s, "outcomeModel", "OUTCOME_MODEL"), {}),
             Rec(p, 1, "outcome", s, p.next, "bernoulli", Id("OUTCOME_TRUE", 1), {}),
             Rec(p, 2, "outcome", s, p.next, "bernoulli", Id("OUTCOME_FALSE", 1), {})>>)

NewOutcome(p, model) ==
    Add(p, <<Rec(p, 0, "outcome", model.scenario, model.key, "weighted",
                 uniqueIdentifier(IdsOf(Inside(p, model.key, "outcome")), "OUTCOME_NEW"), {})>>)

outcomeCodes(p, s, modelId) ==
    LET models == SelectSeq(Of(p, s, "outcomeModel"), LAMBDA r : r.id = modelId)
    IN  IF models = <<>> THEN <<>> ELSE Inside(p, models[1].key, "outcome")

HostedModes == {"tutorial", "standard", "sandbox", "configured"}
Strategies == {"forced", "probabilistic"}

ModeRefs(p, s, strategy, modelId) ==
    Refer("outcomeModelId", {modelId})
    \cup IF strategy # "forced" THEN {}
         ELSE Refer("forcedOutcomeCode", {FirstId(outcomeCodes(p, s, modelId))})

EnableMode(p, s, mode) ==
    LET strategy == IF mode = "sandbox" THEN "probabilistic" ELSE "forced"
    IN  IF mode \in {r.type[1] : r \in ToSet(Of(p, s, "mode"))} THEN p
        ELSE Add(p, <<Rec(p, 0, "mode", s, s, <<mode, strategy>>, Nameless,
                          ModeRefs(p, s, strategy, FirstId(Of(p, s, "outcomeModel"))))>>)

\* A mode is given a strategy or a model; a forced result the model does not
\* define becomes its first.
BindMode(p, mode, strategy, modelId) ==
    LET codes == IdsOf(outcomeCodes(p, mode.scenario, modelId))
        forced == Referred(mode, "forcedOutcomeCode")
    IN  Change(p, [mode EXCEPT
            !.type = <<@[1], strategy>>,
            !.refs = IF strategy = "forced" /\ forced # {} /\ forced \subseteq codes
                     THEN Refer("outcomeModelId", {modelId}) \cup Refer("forcedOutcomeCode", forced)
                     ELSE ModeRefs(p, mode.scenario, strategy, modelId)])

\* The strategy falls back on the first model when the mode's is not there.
ModeStrategy(p, mode, strategy) ==
    LET known == Referred(mode, "outcomeModelId") \cap IdsOf(Of(p, mode.scenario, "outcomeModel"))
    IN  BindMode(p, mode, strategy,
            IF known = {} THEN FirstId(Of(p, mode.scenario, "outcomeModel"))
            ELSE CHOOSE id \in known : TRUE)

-----------------------------------------------------------------------------
(* The workflow: nodes, their decisions and their transitions              *)

NodeTypes == {"BRIEFING", "EVIDENCE_RELEASE", "DECISION", "TRANSACTION_PROPOSAL", "ENDORSEMENT",
              "POLICY_CHECK", "COMMUNICATION", "STOCHASTIC_EVENT", "CONSEQUENCE", "FEEDBACK",
              "REFLECTION", "COMPLETION"}

\* What a new node refers to: nothing yet, but for the results a draw can have,
\* which are those of the first model.
NodeRefs(p, s, type) ==
    CASE type = "STOCHASTIC_EVENT" ->
             Refer("resultCode", IF Of(p, s, "outcomeModel") = <<>> THEN {}
                                 ELSE IdsOf(outcomeCodes(p, s, FirstId(Of(p, s, "outcomeModel")))))
      [] type = "TRANSACTION_PROPOSAL" -> Refer("sourceDecisionId", {Empty})
      [] type \in {"ENDORSEMENT", "POLICY_CHECK"} ->
             Refer("proposalNodeId", {Empty}) \cup Refer("policyId", {Empty})
      [] OTHER -> {}

\* What comes with a new node: a decision with one field of two options.
\* labels names their localization keys.
NodeParts(p, s, node, type, labels) ==
    LET Part(n, kind, parent, id, refs) ==
            [Rec(p, n, kind, s, parent, "-", id, refs) EXCEPT
                !.label = IF kind = "decision" THEN node.label ELSE labels \o <<n>>]
    IN  IF type # "DECISION" THEN <<>>
        ELSE <<Part(1, "decision", node.key,
                    uniqueIdentifier(IdsOf(Of(p, s, "decision")), "DECISION"), {}),
               Part(2, "field", node.key, Id("CHOICE", 1), {}),
               Part(3, "option", p.next + 2, Id("OPTION_A", 1),
                    Refer("authoredValue", {Id("OPTION_A", 1)})),
               Part(4, "option", p.next + 2, Id("OPTION_B", 1),
                    Refer("authoredValue", {Id("OPTION_B", 1)}))>>

defaultScenarioNode(p, s, type) ==
    Rec(p, 0, "node", s, s, type, Fresh(p, s, "node", "NODE_" \o type), NodeRefs(p, s, type))

NewTransition(p, n, node, to) ==
    Rec(p, n, "transition", node.scenario, node.key, "ALWAYS",
        uniqueIdentifier(IdsOf(Inside(p, node.key, "transition")), "TRANSITION"),
        Refer("toNodeId", {to}))

Place(p, r) == CHOOSE i \in DOMAIN p.records : p.records[i].key = r.key

\* A new node goes before the first completion, into the only way there when
\* its predecessor has one.
NewNode(p, s, type) ==
    LET node == defaultScenarioNode(p, s, type)
        parts == NodeParts(p, s, node, type, <<p.next>>)
        nodes == Of(p, s, "node")
        ends == {i \in DOMAIN nodes : nodes[i].type = "COMPLETION"}
        end == nodes[Min(ends)]
        way == IF ends = {} \/ Min(ends) = 1 THEN <<>>
               ELSE Inside(p, nodes[Min(ends) - 1].key, "transition")
        straight == Len(way) = 1 /\ Referred(way[1], "toNodeId") = {end.id}
        whole == Add(p, <<node>> \o parts)
        joined == [Change(whole, [way[1] EXCEPT !.refs =
                      {x \in @ : x[1] # "toNodeId"} \cup Refer("toNodeId", {node.id})])
                   EXCEPT !.records = InsertAt(
                       SelectSeq(@, LAMBDA r : r.key # node.key), Place(p, end), node)]
        before == [whole EXCEPT !.records = InsertAt(
                      SelectSeq(@, LAMBDA r : r.key # node.key), Place(p, end), node)]
    IN  IF type = "COMPLETION" \/ ends = {} THEN whole
        ELSE IF straight THEN Add(joined, <<NewTransition(joined, 0, node, end.id)>>)
        ELSE before

\* A node keeps its name, title and transitions when it becomes another type;
\* the keys of its new parts come from the name a new node would have had.
changeType(p, node, type) ==
    LET kept == Without(p, Family(p, node) \ ({node.key} \cup
                    {r.key : r \in ToSet(Inside(p, node.key, "transition"))}))
        labels == <<Known(p, node.scenario).id, Fresh(p, node.scenario, "node", "NODE_" \o type)>>
    IN  Add(Change(kept, [node EXCEPT !.type = type, !.refs = NodeRefs(p, node.scenario, type)]),
            NodeParts([kept EXCEPT !.next = @ - 1], node.scenario, node, type, labels))

MoveNode(p, node, offset) ==
    LET nodes == Of(p, node.scenario, "node")
        at == CHOOSE i \in DOMAIN nodes : nodes[i] = node
        other == nodes[at + offset]
    IN  [p EXCEPT !.records[Place(p, node)] = other, !.records[Place(p, other)] = node]

NewField(p, node) ==
    Add(p, <<Rec(p, 0, "field", node.scenario, node.key, "-",
                 uniqueIdentifier(IdsOf(Inside(p, node.key, "field")), "FIELD_NEW"), {}),
             Rec(p, 1, "option", node.scenario, p.next, "-", Id("OPTION_A", 1),
                 Refer("authoredValue", {Id("OPTION_A", 1)}))>>)

NewOption(p, field) ==
    LET id == uniqueIdentifier(IdsOf(Inside(p, field.key, "option")), "OPTION_NEW")
    IN  Add(p, <<Rec(p, 0, "option", field.scenario, field.key, "-", id,
                     Refer("authoredValue", {id}))>>)

\* Assessment on: the first option of every field is correct.  Off: none is.
\* What is correct is one set, over all the fields that are listed.
AssessDecision(p, decision, isAssessed) ==
    LET fields == ToSet(Inside(p, decision.parent, "field"))
        First1(f) == {Inside(p, f.key, "option")[i].id :
                         i \in DOMAIN Inside(p, f.key, "option") \cap {1}}
    IN  Change(p, [decision EXCEPT
            !.type = IF isAssessed THEN "assessed" ELSE "-",
            !.refs = IF ~isAssessed THEN {}
                     ELSE Refer("correctOptionIds", UNION {First1(f) : f \in fields})
                          \cup Refer("correctOptionIdsByField", IdsOf(Inside(p, decision.parent, "field")))])

\* A transition leads to the next node of the list, always.
AddTransition(p, node) ==
    LET nodes == Of(p, node.scenario, "node")
        at == CHOOSE i \in DOMAIN nodes : nodes[i] = node
    IN  Add(p, <<NewTransition(p, 0, node,
                     IF at = Len(nodes) THEN Empty ELSE nodes[at + 1].id)>>)

ConditionRefs(kind) ==
    CASE kind = "DECISION_OPTION_SELECTED" ->
             Refer("decisionId", {Empty}) \cup Refer("optionId", {Empty})
      [] kind = "POLICY_RESULT" -> Refer("policyId", {Empty})
      [] OTHER -> {}

SetCondition(p, transition, kind) ==
    Change(p, [transition EXCEPT !.type = kind,
                                 !.refs = {x \in @ : x[1] = "toNodeId"} \cup ConditionRefs(kind)])

\* Another decision starts without an option.
SetConditionDecision(p, transition, decisionId) ==
    Change(p, [transition EXCEPT !.refs =
        {x \in @ : x[1] = "toNodeId"} \cup Refer("decisionId", {decisionId})
        \cup Refer("optionId", {Empty})])

-----------------------------------------------------------------------------
(* Assessment: targets, frameworks, rubrics and rules, shared by the pack  *)

FirstIndicator(p) ==
    LET framework == Of(p, 0, "framework")
        competency == IF framework = <<>> THEN <<>>
                      ELSE Inside(p, framework[1].key, "competency")
        indicator == IF competency = <<>> THEN <<>>
                     ELSE Inside(p, competency[1].key, "indicator")
    IN  {r.id : r \in {indicator[i] : i \in DOMAIN indicator \cap {1}}}

NewCompetencyTarget(p, s) ==
    LET framework == Of(p, 0, "framework")
        competency == IF framework = <<>> THEN <<>>
                      ELSE Inside(p, framework[1].key, "competency")
    IN  IF competency = <<>> THEN p
        ELSE Add(p, <<Rec(p, 0, "target", s, s, "-", Nameless,
                          Refer("competencyId", {competency[1].id})
                          \cup Refer("indicatorIds", FirstIndicator(p)))>>)

\* A target that names another competency starts with its first indicator.
SetTargetCompetency(p, target, competency) ==
    Change(p, [target EXCEPT !.refs =
        Refer("competencyId", {competency.id})
        \cup Refer("indicatorIds",
                {r.id : r \in {Inside(p, competency.key, "indicator")[i] :
                    i \in DOMAIN Inside(p, competency.key, "indicator") \cap {1}}})])

\* A new competency's indicator takes the competency's name and ".PI1".
NewCompetency(p, framework) ==
    LET id == Fresh(p, 0, "competency", "COMPETENCY_NEW")
    IN  Add(p, <<Rec(p, 0, "competency", 0, framework.key, "-", id, {}),
                 Rec(p, 1, "indicator", 0, p.next, "-", PerformanceIndicator(id), {})>>)

NewFramework(p) ==
    LET id == Fresh(p, 0, "competency", "COMPETENCY_NEW")
    IN  Add(p, <<Rec(p, 0, "framework", 0, 0, "-", Fresh(p, 0, "framework", "FRAMEWORK_NEW"), {}),
                 Rec(p, 1, "competency", 0, p.next, "-", id, {}),
                 Rec(p, 2, "indicator", 0, p.next + 1, "-", PerformanceIndicator(id), {})>>)

NewIndicator(p, competency) ==
    Add(p, <<Rec(p, 0, "indicator", 0, competency.key, "-",
                 uniqueIdentifier(IdsOf(Inside(p, competency.key, "indicator")),
                                  Named(competency.id, "_PI")[1]), {})>>)

CriterionRefs(p) ==
    Refer("indicatorIds", FirstIndicator(p))
    \cup Refer("evidenceRuleIds", {Of(p, 0, "rule")[i].id : i \in DOMAIN Of(p, 0, "rule") \cap {1}})

NewRubric(p) ==
    Add(p, <<Rec(p, 0, "rubric", 0, 0, "-", Fresh(p, 0, "rubric", "RUBRIC_NEW"), {}),
             Rec(p, 1, "level", 0, p.next, "-", Nameless, {}),
             Rec(p, 2, "level", 0, p.next, "-", Nameless, {}),
             Rec(p, 3, "criterion", 0, p.next, "-", Fresh(p, 0, "criterion", "CRITERION_NEW"),
                 CriterionRefs(p))>>)

NewLevel(p, rubric) == Add(p, <<Rec(p, 0, "level", 0, rubric.key, "-", Nameless, {})>>)

NewCriterion(p, rubric) ==
    Add(p, <<Rec(p, 0, "criterion", 0, rubric.key, "-",
                 Fresh(p, 0, "criterion", "CRITERION_NEW"), CriterionRefs(p))>>)

NewEvidenceRule(p) ==
    IF Of(p, 0, "indicator") = <<>> THEN p
    ELSE Add(p, <<Rec(p, 0, "rule", 0, 0, "-", Fresh(p, 0, "rule", "EVIDENCE_RULE_NEW"),
                      Refer("indicatorIds", FirstIndicator(p)))>>)

-----------------------------------------------------------------------------
(* Whole scenarios, images, and what may be removed                        *)

\* A copy of a scenario under a name of its own: the same identifiers, but
\* localization keys of its own.
appendIndependentScenarioCopy(p, scenario) ==
    LET mine == SelectSeq(p.records, LAMBDA r : r \in InScenario(p, scenario.key))
        id == uniqueIdentifier(IdsOf(Scenarios(p)), "SCENARIO_NEW")
        NewKey(key) == p.next - 1 + (CHOOSE i \in DOMAIN mine : mine[i].key = key)
        Copied(r) == [replaceExactIdentifiers(r, [x \in {scenario.id} |-> id]) EXCEPT
                         !.key = NewKey(@), !.label = <<p.next>> \o @,
                         !.scenario = IF @ = 0 THEN 0 ELSE NewKey(@),
                         !.parent = IF @ = 0 THEN 0 ELSE NewKey(@)]
    IN  Add(p, [i \in DOMAIN mine |-> Copied(mine[i])])

\* The image an upload brought: its name is chosen in the draft the upload
\* started from.
NewImage(p, purpose) ==
    Add(p, <<Rec(p, 0, "image", 0, 0, purpose, Fresh(p, 0, "image", purpose), {})>>)

Siblings(p, r) == {x \in Records(p) : x.kind = r.kind /\ x.parent = r.parent}
Occurs(p, r, records) == countExactIdentifierOccurrences(records, r.id)

\* Collections of a scenario: the last of its kind stays where the editor says
\* so, and so does what the scenario still refers to.
MayRemoveFromScenario(p, r) ==
    /\ r.kind \in {"organization", "role", "policy", "evidence", "node"}
    /\ r.kind \in {"organization", "role", "node"} => Cardinality(Siblings(p, r)) > 1
    /\ Occurs(p, r, InScenario(p, r.scenario)) <= 1

\* Collections of the pack, which every scenario may refer to.
MayRemoveFromPack(p, r) ==
    /\ r.kind \in {"framework", "competency", "indicator", "rubric", "criterion", "rule"}
    /\ r.kind # "criterion" => Cardinality(Siblings(p, r)) > 1
    /\ Occurs(p, r, Records(p)) <= 1

\* Parts whose references nothing looks at.
MayRemovePart(p, r) ==
    \/ r.kind \in {"incident", "transition"}
    \/ r.kind \in {"field", "option", "target"} /\ Cardinality(Siblings(p, r)) > 1
    \/ r.kind = "level" /\ Cardinality(Siblings(p, r)) > 2
    \/ r.kind = "outcome" /\ r.type = "weighted" /\ Cardinality(Siblings(p, r)) > 2

MayRemoveModel(p, r) ==
    /\ r.kind = "outcomeModel"
    /\ \A mode \in ToSet(Of(p, r.scenario, "mode")) : r.id \notin Referred(mode, "outcomeModelId")

MayRemoveMode(p, r) == r.kind = "mode" /\ Cardinality(Siblings(p, r)) > 1

MayRemoveImage(p, r) ==
    r.kind = "image" /\ \A x \in Records(p) : r.id \notin Referred(x, "assetId")

MayRemoveScenario(p, r) ==
    /\ r.kind = "scenario"
    /\ Len(Scenarios(p)) > 1
    /\ Occurs(p, r, Records(p) \ InScenario(p, r.key)) = 0

MayRemove(p, r) ==
    \/ MayRemoveFromScenario(p, r) \/ MayRemoveFromPack(p, r) \/ MayRemovePart(p, r)
    \/ MayRemoveModel(p, r) \/ MayRemoveMode(p, r) \/ MayRemoveImage(p, r)
    \/ MayRemoveScenario(p, r)

-----------------------------------------------------------------------------
(* What the fields of a record may be set to                               *)

\* Select controls: the field, and the identifiers it offers.
OrNone(ids) == ids \cup {Empty}
IdsWith(p, s, kind, type) == {r.id : r \in {x \in ToSet(Of(p, s, kind)) : x.type = type}}

ModeOffers(p, mode) ==
    IF mode.type[2] # "forced" THEN {}
    ELSE {<<"forcedOutcomeCode", OrNone(UNION {IdsOf(outcomeCodes(p, mode.scenario, id)) :
              id \in Referred(mode, "outcomeModelId")})>>}

EvidenceOffers(p, evidence) ==
    LET s == evidence.scenario
    IN  {<<"sourceOrganizationId", IdsOf(Of(p, s, "organization"))>>,
         <<"ownerOrganizationId", OrNone(IdsOf(Of(p, s, "organization")))>>,
         <<"assetId", OrNone(IdsWith(p, 0, "image", "EVIDENCE_IMAGE"))>>}
        \cup IF evidence.type = "AVAILABLE" THEN {}
             ELSE {<<"permissionPolicyId", OrNone(IdsWith(p, s, "policy", "AUTHORIZATION"))>>}

NodeOffers(p, node) ==
    LET s == node.scenario
    IN  {<<"assetId", OrNone(IdsWith(p, 0, "image", "SCENE_ILLUSTRATION"))>>}
        \cup (IF node.type \in {"ENDORSEMENT", "POLICY_CHECK"}
              THEN {<<"policyId", OrNone(IdsOf(Of(p, s, "policy")))>>,
                    <<"proposalNodeId", OrNone(IdsWith(p, s, "node", "TRANSACTION_PROPOSAL"))>>}
              ELSE {})
        \cup (IF node.type = "TRANSACTION_PROPOSAL"
              THEN {<<"sourceDecisionId", OrNone(IdsOf(Of(p, s, "decision")))>>} ELSE {})

ConditionOffers(p, transition) ==
    LET s == transition.scenario
        Options == {r.id : r \in {x \in ToSet(Of(p, s, "option")) :
                        \E d \in ToSet(Of(p, s, "decision")) :
                            /\ d.id \in Referred(transition, "decisionId")
                            /\ x.parent \in Children(p, {d.parent})}}
    IN  CASE transition.type = "DECISION_OPTION_SELECTED" -> {<<"optionId", OrNone(Options)>>}
          [] transition.type = "POLICY_RESULT" ->
                 {<<"policyId", OrNone(IdsOf(Of(p, s, "policy")))>>}
          [] OTHER -> {}

TransitionOffers(p, transition) ==
    {<<"toNodeId", OrNone(IdsOf(Of(p, transition.scenario, "node"))
                          \ {Known(p, transition.parent).id})>>}
    \cup ConditionOffers(p, transition)

Offers(p, r) ==
    CASE r.kind = "scenario" -> {<<"entryNodeId", IdsOf(Of(p, r.key, "node"))>>}
      [] r.kind = "role" -> {<<"organizationId", IdsOf(Of(p, r.scenario, "organization"))>>}
      [] r.kind = "mode" -> ModeOffers(p, r)
      [] r.kind = "evidence" -> EvidenceOffers(p, r)
      [] r.kind = "node" -> NodeOffers(p, r)
      [] r.kind = "transition" -> TransitionOffers(p, r)
      [] OTHER -> {}

\* The optional fields, which go away when nothing is chosen.
Optional == {"ownerOrganizationId", "assetId", "permissionPolicyId"}

Select(p, r, field, id) ==
    Change(p, [r EXCEPT !.refs = {x \in @ : x[1] # field} \cup
                  IF id = Empty /\ field \in Optional THEN {} ELSE Refer(field, {id})])

\* Lists of checkboxes: the field, and the identifiers it lists.
IncidentLists(p, s) ==
    {<<"visibleToRoleIds", IdsOf(Of(p, s, "role"))>>,
     <<"evidenceIds", IdsOf(Of(p, s, "evidence"))>>,
     <<"releaseAtNodeIds", IdsOf(Of(p, s, "node"))>>}

NodeLists(p, node) ==
    LET s == node.scenario
    IN  CASE node.type = "EVIDENCE_RELEASE" -> {<<"evidenceIds", IdsOf(Of(p, s, "evidence"))>>}
          [] node.type = "TRANSACTION_PROPOSAL" -> {<<"policyIds", IdsOf(Of(p, s, "policy"))>>}
          [] node.type = "ENDORSEMENT" -> {<<"permittedRoleIds", IdsOf(Of(p, s, "role"))>>}
          [] node.type = "COMMUNICATION" -> {<<"visibleToRoleIds", IdsOf(Of(p, s, "role"))>>}
          [] OTHER -> {}

\* A target: the indicators of its competency.
TargetLists(p, target) ==
    {<<"indicatorIds", {r.id : r \in {x \in ToSet(Of(p, 0, "indicator")) :
                            Known(p, x.parent).id \in Referred(target, "competencyId")}}>>}

CriterionLists(p) ==
    {<<"indicatorIds", IdsOf(Of(p, 0, "indicator"))>>,
     <<"evidenceRuleIds", IdsOf(Of(p, 0, "rule"))>>}

Lists(p, r) ==
    CASE r.kind = "scenario" -> {<<"rubricIds", IdsOf(Of(p, 0, "rubric"))>>,
                                 <<"evidenceRuleIds", IdsOf(Of(p, 0, "rule"))>>}
      [] r.kind = "evidence" -> {<<"visibleToRoleIds", IdsOf(Of(p, r.scenario, "role"))>>}
      [] r.kind = "incident" -> IncidentLists(p, r.scenario)
      [] r.kind = "node" -> NodeLists(p, r)
      [] r.kind = "target" -> TargetLists(p, r)
      [] r.kind = "criterion" -> CriterionLists(p)
      [] r.kind = "rule" -> {<<"indicatorIds", IdsOf(Of(p, 0, "indicator"))>>}
      [] OTHER -> {}

Toggle(p, r, field, id) ==
    Change(p, [r EXCEPT !.refs = IF <<field, id>> \in @ THEN @ \ {<<field, id>>}
                                 ELSE @ \cup {<<field, id>>}])

\* An option of an assessed decision is correct, or is no longer: its field is listed now.
ToggleCorrect(p, decision, option) ==
    LET toggled == Known(Toggle(p, decision, "correctOptionIds", option.id), decision.key)
    IN  Change(p, [toggled EXCEPT !.refs =
            @ \cup Refer("correctOptionIdsByField", {Known(p, option.parent).id})])

Renamed(p, r, id) == Change(p, [r EXCEPT !.id = id])

\* A policy that authorizes names a role and an organization; one that does
\* not is no longer anybody's permission.
SetPolicyType(p, policy, type) ==
    LET s == policy.scenario
        typed == Change(p, [policy EXCEPT !.type = type, !.refs =
                     IF type # "AUTHORIZATION" THEN {}
                     ELSE Refer("authorizedRoleId", {FirstId(Of(p, s, "role"))})
                          \cup Refer("authorizedOrganizationId",
                                     {FirstId(Of(p, s, "organization"))})])
        Released(r) == [r EXCEPT !.refs = @ \ {<<"permissionPolicyId", policy.id>>}]
    IN  IF type = "AUTHORIZATION" THEN typed
        ELSE [typed EXCEPT !.records = [i \in DOMAIN @ |->
                 IF @[i].kind = "evidence" /\ @[i].scenario = s THEN Released(@[i]) ELSE @[i]]]

\* Evidence that is asked for needs a permission: the first policy that
\* authorizes.  Evidence that is there needs none.
SetAcquisition(p, evidence, type) ==
    LET grants == SelectSeq(Of(p, evidence.scenario, "policy"),
                            LAMBDA r : r.type = "AUTHORIZATION")
    IN  Change(p, [evidence EXCEPT !.type = type, !.refs =
            IF type = "AVAILABLE" THEN {x \in @ : x[1] # "permissionPolicyId"}
            ELSE IF Referred(evidence, "permissionPolicyId") # {} \/ grants = <<>> THEN @
            ELSE @ \cup Refer("permissionPolicyId", {grants[1].id})])

-----------------------------------------------------------------------------
(* A new scenario                                                          *)

\* The shared part of the starting draft: a framework of one indicator, a
\* rubric of one criterion, and a rule.
StarterAssessment ==
    LET indicator == PerformanceIndicator(Id("COMPETENCY_NEW", 1))
        rule == Id("EVIDENCE_RULE_NEW", 1)
        p == [records |-> <<>>, next |-> 1, wording |-> 0]
    IN  Add(p,
            <<Rec(p, 0, "framework", 0, 0, "-", Id("FRAMEWORK_NEW", 1), {}),
              Rec(p, 1, "competency", 0, 1, "-", Id("COMPETENCY_NEW", 1), {}),
              Rec(p, 2, "indicator", 0, 2, "-", indicator, {}),
              Rec(p, 3, "rubric", 0, 0, "-", Id("RUBRIC_NEW", 1), {}),
              Rec(p, 4, "level", 0, 4, "-", Nameless, {}),
              Rec(p, 5, "level", 0, 4, "-", Nameless, {}),
              Rec(p, 6, "criterion", 0, 4, "-", Id("CRITERION_NEW", 1),
                  Refer("indicatorIds", {indicator}) \cup Refer("evidenceRuleIds", {rule})),
              Rec(p, 7, "rule", 0, 0, "-", rule, Refer("indicatorIds", {indicator}))>>)

\* Its one scenario: an organization with a role, a mode with a forced result,
\* and a briefing that leads to the end.
createScenarioBuilderStarter ==
    LET p == StarterAssessment
        s == p.next
        model == Id("OUTCOME_MODEL_DEFAULT", 1)
        result == Id("OUTCOME_DEFAULT", 1)
    IN  Add(p,
            <<Rec(p, 0, "scenario", 0, 0, "-", Id("SCENARIO_NEW", 1),
                  Refer("entryNodeId", {Id("NODE_BRIEFING", 1)})
                  \cup Refer("rubricIds", {Id("RUBRIC_NEW", 1)})
                  \cup Refer("evidenceRuleIds", {Id("EVIDENCE_RULE_NEW", 1)})),
              Rec(p, 1, "mode", s, s, <<"tutorial", "forced">>, Nameless,
                  Refer("outcomeModelId", {model}) \cup Refer("forcedOutcomeCode", {result})),
              Rec(p, 2, "outcomeModel", s, s, "new-scenario-outcome", model, {}),
              Rec(p, 3, "outcome", s, s + 2, "weighted", result, {}),
              Rec(p, 4, "outcome", s, s + 2, "weighted", Id("OUTCOME_ALTERNATIVE", 1), {}),
              Rec(p, 5, "target", s, s, "-", Nameless,
                  Refer("competencyId", {Id("COMPETENCY_NEW", 1)})
                  \cup Refer("indicatorIds", {PerformanceIndicator(Id("COMPETENCY_NEW", 1))})),
              Rec(p, 6, "organization", s, s, "-", Id("ORG_PRIMARY", 1), {}),
              Rec(p, 7, "role", s, s, "-", Id("ROLE_DECISION_MAKER", 1),
                  Refer("organizationId", {Id("ORG_PRIMARY", 1)})),
              Rec(p, 8, "node", s, s, "BRIEFING", Id("NODE_BRIEFING", 1), {}),
              Rec(p, 9, "transition", s, s + 8, "ALWAYS", Id("TRANSITION_BRIEFING_COMPLETE", 1),
                  Refer("toNodeId", {Id("NODE_COMPLETE", 1)})),
              Rec(p, 10, "node", s, s, "COMPLETION", Id("NODE_COMPLETE", 1), {})>>)
=============================================================================
