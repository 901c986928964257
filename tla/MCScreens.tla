------------------------------ MODULE MCScreens ------------------------------
(***************************************************************************)
(* The screens of the hosted platform, one question per behaviour: the     *)
(* author's (MCAuthorScreen) or the learner's, with two assignments - a    *)
(* case whose decision needs evidence that has to be requested, and then a *)
(* choice, and a reflection.                                               *)
(***************************************************************************)
EXTENDS MCAuthorScreen, LearnerScreen, TLC

VARIABLE question                                              \* whose screen

NodeOf(id, action, form, fields, cites, requestable, releases) ==
    [id |-> id, action |-> action, form |-> form, fields |-> fields, cites |-> cites,
     requestable |-> requestable, releases |-> releases]

Decision(id, fields, cites, requestable) ==
    NodeOf(id, "SUBMIT_STRUCTURED_DECISION", "decision", fields, cites, requestable, {})

MCScript ==
    "case" :> <<Decision(1, {"f"}, 1, {"x"}),
                NodeOf(2, "SUBMIT_KNOWLEDGE_DECISION", "select", {"u", "v"}, 0, {}, {})>>
    @@ "short" :> <<NodeOf(3, "SUBMIT_REFLECTION", "text", {}, 0, {}, {})>>

\* Two records that may be requested at one decision.
FormsScript ==
    "case" :> <<Decision(1, {"f"}, 1, {"x", "y"})>>

\* The other screen stays as it was opened.
AuthorIsAway ==
    /\ plan = [sections |-> {}, edits |-> 0, clears |-> FALSE, screen |-> FALSE]
    /\ Opened(NoPack)

MCInit ==
    \/ question = "learner" /\ AuthorIsAway /\ LearnerInit
    \/ question = "author" /\ Init /\ LearnerInit

MCNext ==
    \/ question = "author" /\ Next /\ UNCHANGED <<question, learner>>
    \/ question = "learner" /\ LearnerNext /\ UNCHANGED <<question, vars>>

MCSpec ==
    MCInit /\ [][MCNext]_<<question, vars, learner>> /\ Fairness /\ LearnerFairness

\* The learner's screen alone.
FormsSpec ==
    /\ question = "learner" /\ AuthorIsAway /\ LearnerInit
    /\ [][MCNext]_<<question, vars, learner>>
=============================================================================
