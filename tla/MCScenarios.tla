----------------------------- MODULE MCScenarios -----------------------------
(***************************************************************************)
(* What the services of HostedRuntime play in its small instances.  For    *)
(* the generic service a library of small scenarios: one case of a         *)
(* transfer that is briefed, decided, proposed, approved by two roles,     *)
(* checked, exposed to chance, talked over and reflected on, and the       *)
(* scenarios made from it by one change each, some of which the validator  *)
(* turns away.                                                             *)
(***************************************************************************)
EXTENDS TLC

Absent == "none"

Go(n) == [to |-> n, when |-> [kind |-> "ALWAYS"]]
When(n, c) == [to |-> n, when |-> c]
Chose(d, o) == [kind |-> "DECISION_OPTION_SELECTED", decision |-> d, option |-> o]
Found(p, o) == [kind |-> "POLICY_RESULT", policy |-> p, outcome |-> o]
Heard(code) == [kind |-> "EVENT_OCCURRED", event |-> code]

Plain(type, ts) == [type |-> type, transitions |-> ts]

DecisionNode(d, points, ts) ==
    [type |-> "DECISION", transitions |-> ts, decision |-> d, options |-> {"ship", "hold"},
     citesEvidence |-> [minimum |-> 0, maximum |-> 0],
     citesPolicies |-> [minimum |-> 0, maximum |-> 0], points |-> points, correct |-> {"hold"}]

Policy(type) ==
    [type |-> type, result |-> Absent, required |-> {}, prohibited |-> {}, minimum |-> 0,
     endorsers |-> << >>, consultation |-> FALSE, authorizes |-> {}]

Item(access, visibleTo, permission) ==
    [access |-> access, visibleTo |-> visibleTo, permission |-> permission]

Everybody == {"clerk", "buyer", "auditor"}

Base ==
    [roles |-> <<"clerk", "buyer", "auditor">>,
     entry |-> "brief",
     nodes |->
        [brief   |-> Plain("BRIEFING", <<Go("offer")>>),
         offer   |-> [type |-> "EVIDENCE_RELEASE", transitions |-> <<Go("triage")>>,
                      evidence |-> {"cert", "lab"}],
         triage  |-> DecisionNode("triage", 100, <<Go("propose")>>),
         propose |-> [type |-> "TRANSACTION_PROPOSAL", transitions |-> <<Go("approve")>>,
                      source |-> "triage", policies |-> {"dual"}, proposalType |-> "TRANSFER"],
         approve |-> [type |-> "ENDORSEMENT", transitions |-> <<Go("check")>>,
                      proposal |-> "propose", policy |-> "dual", roles |-> <<"auditor", "buyer">>],
         check   |-> [type |-> "POLICY_CHECK", proposal |-> "propose", policy |-> "dual",
                      transitions |-> <<When("chance", Found("dual", "pass")),
                                        When("talk", Found("dual", "fail"))>>],
         chance  |-> [type |-> "STOCHASTIC_EVENT", transitions |-> <<Go("talk")>>,
                      stream |-> "weather", outcomes |-> {"fair", "spoiled"}],
         talk    |-> [type |-> "COMMUNICATION", transitions |-> <<Go("reflect")>>,
                      roles |-> <<"clerk">>, message |-> "NOTICE"],
         reflect |-> [type |-> "REFLECTION", transitions |-> <<Go("done")>>, reflection |-> "why"],
         done    |-> Plain("COMPLETION", << >>)],
     evidence |-> [cert |-> Item("AVAILABLE", Everybody, Absent),
                   lab  |-> Item("REQUEST_REQUIRED", {"clerk", "buyer"}, Absent)],
     policies |-> [dual |-> [Policy("ENDORSEMENT") EXCEPT !.minimum = 2, !.endorsers = <<"buyer">>]],
     incidents |-> << >>,
     models |-> [weather |-> {"fair", "spoiled"}],
     rules |-> [caution |-> [decision |-> "triage", option |-> "hold"]],
     modes |-> [standard |-> [requests |-> TRUE, scores |-> TRUE, limited |-> FALSE,
                              strategy |-> "probabilistic", stream |-> "weather", forced |-> Absent],
                tutorial |-> [requests |-> FALSE, scores |-> FALSE, limited |-> TRUE,
                              strategy |-> "forced", stream |-> "weather", forced |-> "spoiled"]]]

To(n, ts) == [Base EXCEPT !.nodes[n].transitions = ts]

Case(n, node) == [Base EXCEPT !.nodes = (n :> node) @@ @]

\* Scenarios whose author has seen to everything.
Careful ==
    [base      |-> Base,
     \* An instructor can raise an alarm, and asking for the lab report needs a permission.
     alarmed   |-> [Base EXCEPT
                        !.evidence = [alert |-> Item("AVAILABLE", {"clerk"}, Absent)] @@ @,
                        !.evidence["lab"].permission = "access",
                        !.policies = [access |-> [Policy("AUTHORIZATION") EXCEPT
                                                     !.authorizes = {"clerk"}]] @@ @,
                        !.incidents = [scare |-> [visibleTo |-> {"clerk"}, at |-> {"triage", "propose"},
                                                  evidence |-> {"alert"}]]],
     \* The decision must be argued from evidence and from the rule.
     argued    |-> [Base EXCEPT !.nodes["triage"].citesEvidence = [minimum |-> 1, maximum |-> 2],
                                !.nodes["triage"].citesPolicies = [minimum |-> 1, maximum |-> 1],
                                !.policies["dual"].consultation = TRUE],
     \* The approval goes on to the notice, and the check is never a node of the way.
     aside     |-> [To("approve", <<Go("talk")>>) EXCEPT
                        !.nodes["talk"].transitions = <<When("check", Heard("TRANSACTION_COMMITTED")),
                                                        Go("reflect")>>,
                        !.nodes["check"].transitions = <<Go("chance")>>,
                        !.nodes["chance"].transitions = <<Go("reflect")>>],
     \* What is held may not be shipped, and a prudent clerk is stopped by the rule.
     strict    |-> [Base EXCEPT !.policies["dual"].prohibited = {"ship"},
                                !.policies["dual"].required = {"hold"}],
     \* Only a buyer may propose; the clerk who does is refused.
     rank      |-> [Base EXCEPT !.policies["dual"].type = "AUTHORIZATION",
                                !.policies["dual"].authorizes = {"buyer"}],
     closed    |-> [Base EXCEPT !.policies["dual"].result = "fail"],
     \* A second decision, taken by whoever endorsed last, ends the case.
     appeal    |-> [Case("appeal", DecisionNode("appeal", 40,
                                     <<When("talk", Chose("appeal", "hold")),
                                       When("reflect", Chose("appeal", "ship"))>>)) EXCEPT
                        !.nodes["triage"].points = 60,
                        !.nodes["chance"].transitions = <<Go("appeal")>>]]

\* Scenarios the validator accepts although the learner can be caught in them.
Careless ==
    [retry     |-> [Base EXCEPT !.nodes["check"].transitions =
                        <<When("chance", Found("dual", "pass")), Go("triage")>>,
                        !.policies["dual"].prohibited = {"ship"}],
     oneway    |-> To("triage", <<When("propose", Chose("triage", "hold"))>>),
     undecided |-> To("brief", <<When("propose", Heard("EVIDENCE_RELEASED")), Go("offer")>>),
     hasty     |-> To("offer", <<When("triage", Heard("RUN_CREATED")), Go("propose")>>),
     circle    |-> [Case("pause", Plain("FEEDBACK", <<Go("round")>>)) EXCEPT
                        !.nodes = ("round" :> Plain("FEEDBACK", <<When("done", Heard("RUN_COMPLETED")),
                                                                  Go("pause")>>)) @@ @,
                        !.nodes["talk"].transitions = <<When("pause", Heard("POLICY_FAIL")),
                                                        Go("reflect")>>,
                        !.policies["dual"].prohibited = {"ship"}],
     unread    |-> [Base EXCEPT !.nodes["triage"].citesEvidence = [minimum |-> 1, maximum |-> 1],
                                !.evidence["cert"].visibleTo = {"auditor"}]]

\* Scenarios with a mistake the validator finds.
Faulty ==
    [stranger  |-> [Base EXCEPT !.policies["dual"].endorsers = <<"clerk">>],
     crowd     |-> [Base EXCEPT !.policies["dual"].minimum = 3],
     nowhere   |-> To("brief", <<Go("attic")>>),
     island    |-> Case("island", Plain("FEEDBACK", <<Go("done")>>)),
     twice     |-> [Case("second", DecisionNode("triage", 0, <<Go("reflect")>>)) EXCEPT
                        !.nodes["talk"].transitions = <<Go("second")>>],
     unruled   |-> [Base EXCEPT !.nodes["triage"].points = 90],
     locked    |-> [Base EXCEPT !.evidence["lab"].permission = "dual"],
     sealed    |-> [Base EXCEPT !.modes["standard"].requests = FALSE],
     foreign   |-> [Base EXCEPT !.nodes["chance"].outcomes = {"fair", "stormy"}]]

AllScenarios == Careful @@ Careless @@ Faulty

-----------------------------------------------------------------------------
(* Three audits of one process: one in which findings can be revised, one against the
   clock, and one that asks for a single finding, argued from two items.  A laboratory of
   two modules, and a coffee journey that cites a policy. *)

AuditOf(required, unfounded, evidence, revision, hints) ==
    [definitions |-> DOMAIN required, required |-> required, parts |-> 2,
     decoys |-> {"late"} \ unfounded, unfounded |-> unfounded,
     evidence |-> evidence, policies |-> {"dual", "weigh"},
     maximumEvidence |-> 2, maximumPolicies |-> 2,
     sources |-> {}, hints |-> hints, maximumHints |-> 1,
     maximumFindings |-> 2, maximumRecords |-> 3,
     revision |-> revision, limited |-> ~revision]

Citing(evidence, policies) == [evidence |-> evidence, policies |-> policies]

MCCases ==
    {AuditOf("forged" :> Citing({"slip"}, {"dual"}) @@ "short" :> Citing({"slip"}, {"dual", "weigh"}),
             {}, {"slip"}, TRUE, {}),
     AuditOf("forged" :> Citing({"slip"}, {"dual"}), {"late"}, {"slip"}, FALSE, {"first", "second"}),
     [AuditOf("forged" :> Citing({"slip", "seal"}, {"dual"}), {}, {"slip", "seal"}, TRUE, {})
      EXCEPT !.maximumFindings = 1, !.maximumRecords = 1]}

\* Right in everything, with a policy or an item too many for some definitions and too few
\* for others; and, with a policy less, wrong about the materiality, or about all but that.
Rightly(evidence, policies) ==
    Citing(evidence, policies)
    @@ [severity |-> TRUE, materiality |-> TRUE, rootCause |-> TRUE, recommendation |-> TRUE]

MCArguments ==
    {Rightly({"slip"}, {"dual", "weigh"}), Rightly({"slip", "seal"}, {"dual", "weigh"}),
     [Rightly({"slip"}, {"dual"}) EXCEPT !.materiality = FALSE],
     [Rightly({"seal"}, {"dual"}) EXCEPT !.severity = FALSE, !.rootCause = FALSE,
                                        !.recommendation = FALSE]}

Module(actions, experiment, interpretation, application) ==
    [actions |-> actions, maximumAttempts |-> 3, ceiling |-> 50, experiment |-> experiment,
     points |-> [INTERPRETATION |-> interpretation, APPLICATION |-> application]]

MCModules == <<Module(2, 20, 20, 10), Module(1, 10, 20, 20)>>

=============================================================================
