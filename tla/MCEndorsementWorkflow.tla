------------------------ MODULE MCEndorsementWorkflow ------------------------
(***************************************************************************)
(* Three questions about what a learner submits.  "endorsement": two       *)
(* corrections proposed by one action, one of goods and one of a document, *)
(* and a third submitted directly, with the endorsements, declines and     *)
(* commits that act on them, delivered in any order and any number of      *)
(* times.  "attempt": the whole journey of a learner, with and without     *)
(* signatures and endorsements, who departs from the listed order in one   *)
(* stage or two.  "session": what a package shows of such a journey, and   *)
(* what the learning platform stores of it.                                *)
(***************************************************************************)
EXTENDS EndorsementWorkflow, AttemptJournal, LearnerSession

MCPolicies ==
    [RECORD_CORRECTION |-> {{"producer", "processor"}, {"producer", "logistics"}}]

Correction(kind, moves) ==
    [kind |-> kind, type |-> "RECORD_CORRECTION", asset |-> "batch", moves |-> moves,
     action |-> "correct", org |-> "processor", isTrusted |-> TRUE, isAuthorized |-> TRUE]
On(kind, proposal) ==
    [kind |-> kind, proposal |-> proposal, org |-> "producer", isTrusted |-> TRUE,
     isAuthorized |-> TRUE]

\* The first proposal moves its asset, so that whatever is committed after it is
\* stale; the second does not, so that a second commit of it is not stale.  It
\* gets a signature that does not count, a decline and two commands that
\* commit it.
MCRequests ==
    << Correction("CREATE", TRUE),
       Correction("CREATE", FALSE),
       Correction("SUBMIT", FALSE),
       On("ENDORSE", 1),
       On("ENDORSE", 2),
       [On("ENDORSE", 2) EXCEPT !.isAuthorized = FALSE],
       On("DECLINE", 2),
       On("COMMIT", 1),
       On("COMMIT", 2),
       On("COMMIT", 2) >>

-----------------------------------------------------------------------------
Unsigned == [signatures |-> FALSE, policies |-> FALSE]
SignedOnly == [signatures |-> TRUE, policies |-> FALSE]
WithPolicies == [signatures |-> TRUE, policies |-> TRUE]

Attempt(shown, isUsable, stages) ==
    [features |-> shown, usable |-> isUsable, wandering |-> stages]

AllAttempts ==
    {Attempt(Unsigned, TRUE, {3}), Attempt(SignedOnly, FALSE, {3}),
     Attempt(SignedOnly, TRUE, {4}), Attempt(WithPolicies, TRUE, {4}),
     Attempt(SignedOnly, TRUE, {5}), Attempt(WithPolicies, TRUE, {5}),
     Attempt(Unsigned, TRUE, {6, 7}), Attempt(SignedOnly, TRUE, {8, 9})}

VARIABLE question

MCInit ==
    /\ Init /\ AttemptInit /\ SessionInit
    /\ \/ question \in {"endorsement", "session"} /\ wandering = {6, 7}
       \/ question = "attempt"

Serve == question = "endorsement" /\ Next /\ UNCHANGED <<question, attempt, session>>

GoOn == question = "attempt" /\ Mutate /\ UNCHANGED <<question, vars, session>>
ComeBack == question = "attempt" /\ Resume /\ UNCHANGED <<question, vars, session>>

Act == question = "session" /\ SessionNext /\ UNCHANGED <<question, vars, attempt>>

\* A package that is closed, or shows a failure, may be left as it is.
Leave == question = "session" /\ UNCHANGED <<question, vars, attempt, session>>

MCSpec ==
    /\ MCInit
    /\ [][Serve \/ GoOn \/ ComeBack \/ Act \/ Leave]_<<question, vars, attempt, session>>
    /\ WF_attempt(GoOn) /\ WF_attempt(ComeBack)
    /\ WF_session(question = "session" /\ Step)

\* A learner who goes on finishes.
AttemptFinishes == question = "attempt" => JourneyFinishes
=============================================================================
