--------------------------- MODULE ScenarioBuilder ---------------------------
(***************************************************************************)
(* The scenario builder: the draft an author works on, the drafts to go    *)
(* back to and those gone back from, and the controls of                   *)
(* src/src/platform/author/scenario-builder.tsx that change the draft.     *)
(* Every edit is reconciled before the draft takes it: whatever referred   *)
(* to a record that was renamed refers to its new name.                    *)
(***************************************************************************)
EXTENDS ScenarioEdits

CONSTANTS Typed,         \* bound: numbers of the names an author types
          HistoryLimit   \* how many edits can be undone (100)

NoPack == [records |-> <<>>, next |-> 0, wording |-> 0]

VARIABLES pack,          \* the draft on the screen, or NoPack
          undoHistory, redoHistory,
          edits,         \* how many changes were made of it
          kept,          \* the records the last edit left alone (not in the code)
          plan           \* bound: what the author sets out to do

builder == <<pack, undoHistory, redoHistory, edits, kept>>

Sections == {"identity", "delivery", "participants", "media", "evidence", "workflow",
             "assessment"}
\* The sections the author works in, how often he changes something, whether he
\* empties a name before he types another, and whether he uses the rest of the
\* screen.
Plans == [sections : SUBSET Sections, edits : Nat, clears : BOOLEAN, screen : BOOLEAN]

Keys(p) == {r.key : r \in Records(p)}
Kept(before, after) == {r.key : r \in Records(before) \cap Records(after)}
KeepLast(history, n) == SubSeq(history, IF Len(history) > n THEN Len(history) - n + 1 ELSE 1,
                               Len(history))

\* Mutant: the edit is taken as it is.
CommitUnreconciled(updated) ==
    /\ pack # NoPack /\ edits < plan.edits /\ updated # pack
    /\ pack' = updated
    /\ undoHistory' = Append(KeepLast(undoHistory, HistoryLimit - 1), pack)
    /\ redoHistory' = <<>>
    /\ edits' = edits + 1
    /\ kept' = Kept(pack, updated)
    /\ UNCHANGED plan

\* An edit that changes nothing is none.
commitChange(updated) ==
    LET reconciled == reconcileScenarioPackReferences(pack, updated)
    IN  /\ pack # NoPack
        /\ edits < plan.edits
        /\ reconciled # pack
        /\ pack' = reconciled
        /\ undoHistory' = Append(KeepLast(undoHistory, HistoryLimit - 1), pack)
        /\ redoHistory' = <<>>
        /\ edits' = edits + 1
        /\ kept' = Kept(pack, updated)
        /\ UNCHANGED plan

Undo ==
    /\ undoHistory # <<>>
    /\ edits < plan.edits
    /\ pack' = Last(undoHistory)
    /\ undoHistory' = Front(undoHistory)
    /\ redoHistory' = Append(redoHistory, pack)
    /\ edits' = edits + 1
    /\ kept' = {}
    /\ UNCHANGED plan

Redo ==
    /\ redoHistory # <<>>
    /\ edits < plan.edits
    /\ pack' = Last(redoHistory)
    /\ undoHistory' = Append(undoHistory, pack)
    /\ redoHistory' = Front(redoHistory)
    /\ edits' = edits + 1
    /\ kept' = {}
    /\ UNCHANGED plan

-----------------------------------------------------------------------------
(* What any record's controls do                                           *)

SectionOf(kind) ==
    CASE kind = "scenario" -> "identity"
      [] kind \in {"mode", "outcomeModel", "outcome"} -> "delivery"
      [] kind \in {"organization", "role"} -> "participants"
      [] kind = "image" -> "media"
      [] kind \in {"policy", "evidence", "incident"} -> "evidence"
      [] kind \in {"node", "decision", "field", "option", "transition"} -> "workflow"
      [] OTHER -> "assessment"

Open(section) == section \in plan.sections
Editable == {r \in Records(pack) : Open(SectionOf(r.kind))}
All(kinds) == {r \in Records(pack) : r.kind \in kinds}
ScenarioKeys == {r.key : r \in All({"scenario"})}

\* Modes, levels and targets go by no name of their own, and an image keeps the
\* one it was uploaded under.
RenameRecord ==
    \E r \in Editable :
        /\ r.kind \notin {"mode", "level", "target", "image"}
        /\ \E id \in {Id(r.kind, n) : n \in Typed} \cup (IF plan.clears THEN {Empty} ELSE {}) :
               commitChange(Renamed(pack, r, id))

Reword == commitChange([pack EXCEPT !.wording = @ + 1])

RemoveRecord ==
    \E r \in Editable :
        /\ MayRemove(pack, r)
        /\ commitChange(Without(pack, Family(pack, r)))

\* Images are assigned in a section of their own, and a scenario's rubrics and
\* rules with the rest of the assessment.
SectionOfField(r, field) ==
    CASE field = "assetId" -> "media"
      [] field \in {"rubricIds", "evidenceRuleIds"} -> "assessment"
      [] OTHER -> SectionOf(r.kind)

Assign ==
    \E r \in Records(pack) : \E offer \in Offers(pack, r) : \E id \in offer[2] :
        /\ Open(SectionOfField(r, offer[1]))
        /\ commitChange(Select(pack, r, offer[1], id))

Check ==
    \E r \in Records(pack) : \E list \in Lists(pack, r) : \E id \in list[2] :
        /\ Open(SectionOfField(r, list[1]))
        /\ commitChange(Toggle(pack, r, list[1], id))

-----------------------------------------------------------------------------
(* The sections                                                            *)

AddScenario ==
    /\ Open("identity")
    /\ \E s \in All({"scenario"}) : commitChange(appendIndependentScenarioCopy(pack, s))

AddMode ==
    /\ Open("delivery")
    /\ \E s \in ScenarioKeys, mode \in HostedModes : commitChange(EnableMode(pack, s, mode))

SetOutcome ==
    /\ Open("delivery")
    /\ \E mode \in All({"mode"}) :
          \/ \E strategy \in Strategies \ {mode.type[2]} :
                commitChange(ModeStrategy(pack, mode, strategy))
          \/ \E id \in IdsOf(Of(pack, mode.scenario, "outcomeModel")) \cup {Empty} :
                commitChange(BindMode(pack, mode, mode.type[2], id))

EditOutcomeModels ==
    /\ Open("delivery")
    /\ \/ \E s \in ScenarioKeys : commitChange(NewOutcomeModel(pack, s))
       \/ \E model \in All({"outcomeModel"}) :
             \/ commitChange(Change(pack, [model EXCEPT !.type = "RANDOM_STREAM_OWN"]))
             \/ /\ \E o \in ToSet(Inside(pack, model.key, "outcome")) : o.type = "weighted"
                /\ commitChange(NewOutcome(pack, model))

AddParticipant ==
    /\ Open("participants")
    /\ \E s \in ScenarioKeys : \/ commitChange(NewOrganization(pack, s))
                               \/ commitChange(NewRole(pack, s))

AddEvidence ==
    /\ Open("evidence")
    /\ \E s \in ScenarioKeys : \/ commitChange(NewPolicy(pack, s))
                               \/ commitChange(NewEvidence(pack, s))
                               \/ commitChange(NewIncident(pack, s))

SetPolicy ==
    /\ Open("evidence")
    /\ \E policy \in All({"policy"}), type \in {"AUTHORIZATION", "BUSINESS_RULE"} :
          /\ type # policy.type
          /\ commitChange(SetPolicyType(pack, policy, type))

SetAccess ==
    /\ Open("evidence")
    /\ \E evidence \in All({"evidence"}), type \in {"AVAILABLE", "REQUEST_REQUIRED"} :
          /\ type # evidence.type
          /\ commitChange(SetAcquisition(pack, evidence, type))

AddNode ==
    /\ Open("workflow")
    /\ \E s \in ScenarioKeys, type \in NodeTypes : commitChange(NewNode(pack, s, type))

ChangeNode ==
    /\ Open("workflow")
    /\ \E node \in All({"node"}) :
          \/ \E type \in NodeTypes \ {node.type} : commitChange(changeType(pack, node, type))
          \/ \E offset \in {-1, 1} :
                LET nodes == Of(pack, node.scenario, "node")
                IN  /\ \E i \in DOMAIN nodes : nodes[i] = node /\ i + offset \in DOMAIN nodes
                    /\ commitChange(MoveNode(pack, node, offset))
          \/ node.type # "COMPLETION" /\ commitChange(AddTransition(pack, node))

EditDecision ==
    /\ Open("workflow")
    /\ \/ \E node \in All({"node"}) :
             node.type = "DECISION" /\ commitChange(NewField(pack, node))
       \/ \E field \in All({"field"}) : commitChange(NewOption(pack, field))
       \/ \E decision \in All({"decision"}) :
             commitChange(AssessDecision(pack, decision, decision.type # "assessed"))
       \/ \E decision \in All({"decision"}), option \in All({"option"}) :
             /\ decision.type = "assessed"
             /\ option.parent \in Children(pack, {decision.parent})
             /\ commitChange(ToggleCorrect(pack, decision, option))

SetWhen ==
    /\ Open("workflow")
    /\ \E transition \in All({"transition"}) :
          \/ \E kind \in {"ALWAYS", "DECISION_OPTION_SELECTED", "POLICY_RESULT"} \
                            {transition.type} :
                commitChange(SetCondition(pack, transition, kind))
          \/ /\ transition.type = "DECISION_OPTION_SELECTED"
             /\ \E id \in IdsOf(Of(pack, transition.scenario, "decision")) \cup {Empty} :
                   commitChange(SetConditionDecision(pack, transition, id))

AddToFrameworks ==
    /\ Open("assessment")
    /\ \/ commitChange(NewFramework(pack))
       \/ \E framework \in All({"framework"}) : commitChange(NewCompetency(pack, framework))
       \/ \E competency \in All({"competency"}) : commitChange(NewIndicator(pack, competency))

EditTargets ==
    /\ Open("assessment")
    /\ \/ \E s \in ScenarioKeys : commitChange(NewCompetencyTarget(pack, s))
       \/ \E target \in All({"target"}), competency \in All({"competency"}) :
             commitChange(SetTargetCompetency(pack, target, competency))

AddToRubrics ==
    /\ Open("assessment")
    /\ \/ commitChange(NewRubric(pack))
       \/ commitChange(NewEvidenceRule(pack))
       \/ \E rubric \in All({"rubric"}) : \/ commitChange(NewLevel(pack, rubric))
                                          \/ commitChange(NewCriterion(pack, rubric))

Edit ==
    \/ RenameRecord \/ Reword \/ RemoveRecord \/ Assign \/ Check
    \/ AddScenario \/ AddMode \/ SetOutcome \/ EditOutcomeModels
    \/ AddParticipant \/ AddEvidence \/ SetPolicy \/ SetAccess
    \/ AddNode \/ ChangeNode \/ EditDecision \/ SetWhen
    \/ AddToFrameworks \/ EditTargets \/ AddToRubrics

BuilderNext == Edit \/ Undo \/ Redo

-----------------------------------------------------------------------------
(* Properties *)

Visible(p, r) ==
    LET s == IF r.kind = "scenario" THEN r.key ELSE r.scenario
    IN  {t \in Records(p) : t.scenario \in {s, 0}}

Names(p, r, id) == {t \in Visible(p, r) : t.kind \in ScenarioKinds \cup PackKinds /\ t.id = id}

\* The code can tell a record from every other: it does not go by its place, nor by
\* a stream or a localization key it shares.
IsRecognized(p, r) ==
    /\ r.kind \in (ScenarioKinds \cup PackKinds) \ {"rule", "outcomeModel"}
    /\ \A t \in Records(p) : t.kind = r.kind /\ t.label = r.label => t = r

\* An edit renames what the author renamed and nothing else, in this scenario and in
\* the others, and whatever referred to it goes on referring to it: a reference the
\* author left alone follows the one record it names, and one that names only records
\* left alone stays as it is.  (Not the fields an assessed decision lists by name.)
ReferencesFollow ==
    [][\A key \in kept' :
          LET r == Known(pack, key)
              after == Known(pack', key)
          IN  /\ /\ IsRecognized(pack, r) /\ IsRecognized(pack', after)
                 /\ \A t \in Names(pack, r, r.id) : t.scenario = r.scenario
                 => after.id = r.id
              /\ \A x \in r.refs :
                    LET named == Names(pack, r, x[2])
                    IN  /\ x[2] # Empty /\ x[1] \notin KeyFields
                        /\ \A t \in named : IsRecognized(pack, t)
                        /\ \A t \in Records(pack') : t.key \in {u.key : u \in named} =>
                                 IsRecognized(pack', t)
                        => /\ {t.key : t \in named} \subseteq kept' => x \in after.refs
                           /\ Cardinality(named) = 1 =>
                                 \A t \in named : t.key \in Keys(pack') =>
                                     <<x[1], Known(pack', t.key).id>> \in after.refs]_pack

\* The kinds of record a field refers to, for the records the editors keep while they
\* are referred to.
KindOf ==
    [organizationId |-> "organization", sourceOrganizationId |-> "organization",
     ownerOrganizationId |-> "organization", authorizedOrganizationId |-> "organization",
     authorizedRoleId |-> "role", visibleToRoleIds |-> "role", permittedRoleIds |-> "role",
     policyId |-> "policy", policyIds |-> "policy", permissionPolicyId |-> "policy",
     evidenceIds |-> "evidence", toNodeId |-> "node", entryNodeId |-> "node",
     proposalNodeId |-> "node", releaseAtNodeIds |-> "node", rubricIds |-> "rubric",
     assetId |-> "image"]

\* However a draft is edited, undone and redone, no reference is left pointing at
\* nothing: what is referred to cannot be removed, and keeps its references when it is
\* renamed, also to the name of another.
ReferencesResolve ==
    ~plan.clears =>
        \A r \in Records(pack) : \A x \in r.refs :
            x[1] \in DOMAIN KindOf /\ x[2] # Empty =>
                \E t \in Visible(pack, r) : t.kind = KindOf[x[1]] /\ t.id = x[2]

\* Deleting a record renames no other: what is left keeps the identifier it had.  (The
\* comment on reconcileScenarioPackReferences; the code does otherwise with evidence
\* rules, which it tells apart by their place.)
RemovalIsNoRename ==
    [][kept' # {} /\ Keys(pack') \subseteq kept' =>
          \A key \in Keys(pack') : Known(pack', key).id = Known(pack, key).id]_pack
=============================================================================
