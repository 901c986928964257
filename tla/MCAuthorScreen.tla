--------------------------- MODULE MCAuthorScreen ---------------------------
(***************************************************************************)
(* Small instances of AuthorScreen.  Either the author edits a rich draft, *)
(* a few sections of the builder at a time, or uses the whole screen on a  *)
(* draft of which only an image and the wording change.                    *)
(***************************************************************************)
EXTENDS AuthorScreen

MCTyped == {0}

Starter == createScenarioBuilderStarter
TheScenario(p) == Scenarios(p)[1].key

\* The starting draft, and one with something of everything.
WithEvidence ==
    LET s == TheScenario(Starter)
    IN  NewIncident(NewEvidence(NewPolicy(NewRole(Starter, s), s), s), s)
WithWorkflow ==
    LET s == TheScenario(Starter)
        decided == NewNode(Starter, s, "DECISION")
        decision == CHOOSE r \in Records(decided) : r.kind = "decision"
    IN  NewNode(AssessDecision(decided, decision, TRUE), s, "ENDORSEMENT")
WithRules == NewEvidenceRule(NewEvidenceRule(Starter))
Copied(p) == appendIndependentScenarioCopy(p, Scenarios(p)[1])

Plan(sections, n, clears) ==
    [sections |-> sections, edits |-> n, clears |-> clears, screen |-> FALSE]

MCStarts ==
    {[draft |-> NewOutcomeModel(Starter, TheScenario(Starter)), plan |-> Plan({"delivery"}, 2, FALSE)],
     [draft |-> Copied(Starter), plan |-> Plan({"participants", "identity"}, 2, FALSE)],
     [draft |-> WithEvidence, plan |-> Plan({"participants", "evidence"}, 2, FALSE)],
     [draft |-> WithWorkflow, plan |-> Plan({"workflow"}, 2, FALSE)],
     [draft |-> NewImage(WithEvidence, "EVIDENCE_IMAGE"), plan |-> Plan({"media", "evidence"}, 2, FALSE)],
     [draft |-> WithRules, plan |-> Plan({"assessment"}, 2, FALSE)],
     [draft |-> WithEvidence, plan |-> Plan(Sections, 1, TRUE)],
     [draft |-> NoPack,
      plan |-> [sections |-> {"media"}, edits |-> 2, clears |-> FALSE, screen |-> TRUE]]}

\* What the screen tells apart is which draft it has, not what is in it.
Bare == Add([NoPack EXCEPT !.next = 1],
            <<Rec([NoPack EXCEPT !.next = 1], 0, "scenario", 0, 0, "-", Id("SCENARIO_NEW", 1), {})>>)
MCTemplates == {Bare}
MCFiles == {Bare, Malformed}
=============================================================================
