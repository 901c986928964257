--------------------------- MODULE MCCompletedRun ---------------------------
(***************************************************************************)
(* What follows the completion of a run, on small instances: its grade is  *)
(* delivered, or others branch off from it.                                *)
(*                                                                         *)
(* Runs to branch from: a shipment that is released or held, whose paper   *)
(* is out only if it is held, with or without an instructor's incident and *)
(* a time limit; and the certificate of the coffee journey.                *)
(***************************************************************************)
EXTENDS GradeDelivery, CounterfactualBranches

CONSTANTS h1, h2, m1, m2

None == "none"

Always(n) == [to |-> n, when |-> [kind |-> "ALWAYS"]]

Chose(n, d, o) ==
    [to |-> n, when |-> [kind |-> "DECISION_OPTION_SELECTED", decision |-> d, option |-> o]]

Decision(d, options, cites, ts) ==
    [type |-> "DECISION", transitions |-> ts, decision |-> d, options |-> options,
     citesEvidence |-> [minimum |-> 0, maximum |-> cites],
     citesPolicies |-> [minimum |-> 0, maximum |-> 0], points |-> 50, correct |-> options]

Shipment ==
    [roles |-> <<"clerk">>,
     entry |-> "triage",
     nodes |->
        [triage |-> Decision("triage", {"ship", "hold"}, 0,
                             <<Chose("offer", "triage", "hold"), Chose("settle", "triage", "ship")>>),
         offer  |-> [type |-> "EVIDENCE_RELEASE", transitions |-> <<Always("settle")>>,
                     evidence |-> {"paper"}],
         settle |-> Decision("settle", {"pay", "sue"}, 1,
                             <<Chose("why", "settle", "sue"), Chose("done", "settle", "pay")>>),
         why    |-> [type |-> "REFLECTION", transitions |-> <<Always("done")>>, reflection |-> "why"],
         done   |-> [type |-> "COMPLETION", transitions |-> << >>]],
     evidence |-> [paper |-> [access |-> "AVAILABLE", visibleTo |-> {"clerk"}, permission |-> None]],
     policies |-> << >>,
     incidents |-> << >>,
     models |-> << >>,
     rules |-> << >>,
     modes |-> [standard |-> [requests |-> FALSE, scores |-> TRUE, limited |-> FALSE,
                              strategy |-> None, stream |-> None, forced |-> None]]]

Alarmed ==
    [Shipment EXCEPT !.incidents =
        [alarm |-> [visibleTo |-> {"clerk"}, at |-> {"settle"}, evidence |-> {"paper"}]]]

\* A run that has just begun, at its first node.
Start ==
    [status |-> "active", mode |-> "standard", node |-> "triage", completed |-> {},
     role |-> "clerk", released |-> {}, inspected |-> {}, consulted |-> {},
     requested |-> {}, incidents |-> {}, decisions |-> << >>, proposals |-> << >>,
     endorsements |-> {}, evaluations |-> << >>, committed |-> << >>, communications |-> {},
     chances |-> << >>, reflections |-> {}, competency |-> {}, expired |-> FALSE,
     draws |-> << >>, outcome |-> None, occurred |-> {"RUN_CREATED"}]

Open(d, options, availability, maximum) ==
    [decision |-> d, allowed |-> options, availability |-> availability,
     creators |-> {"learner", "instructor"}, maximum |-> maximum]

Assigned(learners) ==
    [decisions |-> {"triage", "settle", "certificate"}, sandbox |-> TRUE,
     learners |-> learners, maximum |-> 1]

ShipmentSource(s, limited, learners) ==
    [runtime |-> "generic-v1", scenario |-> s, start |-> Start, limited |-> limited,
     points |-> {Open("triage", {"ship", "hold"}, "AFTER_RUN_COMPLETION", 2)},
     conditions |-> {}, assignment |-> Assigned(learners)]

CoffeeSource(variant) ==
    [runtime |-> "native-coffee-v2", scenario |-> << >>, 
     start |-> CoffeeStart(variant), limited |-> FALSE,
     points |-> {Open("certificate", {"anchor"}, "INSTRUCTOR_ONLY", 2)},
     conditions |-> {Open("certificate", {"authorized", "unauthorized"},
                          "INSTRUCTOR_ONLY", 2)},
     assignment |-> Assigned("DISABLED")]

MCSources ==
    {ShipmentSource(Shipment, TRUE, "AFTER_FEEDBACK_RELEASE"),
     ShipmentSource(Alarmed, FALSE, "AFTER_RUN_COMPLETION"),
     CoffeeSource("authorized"), CoffeeSource("unauthorized")}

Symmetric == Permutations({h1, h2}) \union Permutations({m1, m2})
-----------------------------------------------------------------------------
VARIABLE question

MCInit ==
    /\ Init /\ ExplorationInit
    /\ \/ question = "delivery" /\ source = CoffeeSource("authorized")
       \/ question = "exploration"

MCNext ==
    /\ \/ question = "delivery" /\ Next /\ UNCHANGED exploration
       \/ question = "exploration" /\ ExplorationNext /\ UNCHANGED vars
    /\ UNCHANGED question

MCSpec == MCInit /\ [][MCNext]_<<question, vars, exploration>>
=============================================================================
