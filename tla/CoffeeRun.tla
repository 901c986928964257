----------------------------- MODULE CoffeeRun -----------------------------
(***************************************************************************)
(* A hosted run of the coffee journey                                      *)
(* (src/platform/hosted/stage3-run-service.ts): one fixed row of steps, in *)
(* which the learner plays one role after the other and most steps put an  *)
(* authored transaction on a simulated ledger of the run's own             *)
(* (coffee-domain-runtime.ts).  Which commands that ledger accepts is      *)
(* Ledger's subject; here a command is its name, and it is accepted from   *)
(* the organization the scenario authorizes for it.                        *)
(*                                                                         *)
(* A handler executes a transaction in the role it names, and the event it *)
(* builds executes it again in the role the run has: when the two disagree *)
(* the command throws and leaves nothing behind.                           *)
(***************************************************************************)
EXTENDS Integers, Sequences, SequencesExt, FiniteSets

CONSTANTS
    CoffeePolicies,           \* the policies of the certificate decision
    MinimumCoffeePolicies     \* how many of them the decision has to cite

VARIABLES
    variant,        \* the case: is the certifier "authorized" or "unauthorized"
    limited,        \* the mode has a time limit
    journey,        \* the state the run's events reduce to
    overdue         \* the run's deadline has passed

vars == <<variant, limited, journey, overdue>>

NoJourney == [status |-> "none"]

IsActive == journey.status = "active"

-----------------------------------------------------------------------------
(* The ledger of the run *)

\* Who the scenario authorizes to submit each transaction.
Submitter ==
    [ANCHOR_CERTIFICATE  |-> "CERTIFIER",   ISSUE_CERTIFICATE  |-> "CERTIFIER",
     TRANSFER_CUSTODY    |-> "PRODUCER",    ANCHOR_MANIFEST    |-> "PRODUCER",
     RECORD_TRANSPORT    |-> "LOGISTICS",   RECEIVE_BATCH      |-> "PROCESSOR",
     PURCHASE_ON_RECEIPT |-> "PRODUCER",    RECORD_CORRECTION  |-> "PROCESSOR",
     TRANSFORM_BATCH     |-> "PROCESSOR",   PACKAGE_BATCH      |-> "PROCESSOR",
     TRANSFER_OWNERSHIP  |-> "PROCESSOR",   DISPATCH_BATCH     |-> "DISTRIBUTOR",
     RECALL_BATCH        |-> "REGULATOR",   SUSPICIOUS_CERTIFICATE |-> "nobody"]

IsAccepted(action) == journey.context = Submitter[action]

\* The manifest is filed by itself, ahead of the first transaction after the handover.
Scripted(chain) ==
    IF "TRANSFER_CUSTODY" \in Range(chain) /\ "ANCHOR_MANIFEST" \notin Range(chain)
    THEN Append(chain, "ANCHOR_MANIFEST") ELSE chain

-----------------------------------------------------------------------------
(* The commands *)

Init ==
    /\ variant \in {"authorized", "unauthorized"}
    /\ limited \in BOOLEAN
    /\ journey = NoJourney
    /\ overdue = FALSE

CreateRun ==
    /\ journey = NoJourney
    /\ journey' = [status |-> "active", step |-> "certificate-evidence",
                   context |-> IF variant = "authorized" THEN "CERTIFIER" ELSE "LOGISTICS",
                   consulted |-> {}, answers |-> << >>, mitigation |-> "none",
                   chain |-> << >>, refused |-> << >>, evidence |-> {}, expired |-> FALSE]
    /\ UNCHANGED <<variant, limited, overdue>>

MayCommand == IsActive /\ ~overdue

Command(step) == MayCommand /\ journey.step = step /\ UNCHANGED <<variant, limited, overdue>>

GoTo(j, step, role) == [j EXCEPT !.step = step, !.context = role]

Observe(j, rules) == [j EXCEPT !.evidence = @ \union rules]

\* Each answer is given once.
Answer(j, decision, isCorrect) ==
    [j EXCEPT !.answers = [d \in DOMAIN @ \union {decision} |->
                               IF d = decision THEN isCorrect ELSE @[d]]]

\* A recognised answer is evidence of competence.
Recognise(j, decision, isCorrect, rule) ==
    Observe(Answer(j, decision, isCorrect), IF isCorrect THEN {rule} ELSE {})

InspectEvidence ==
    /\ Command("certificate-evidence")
    /\ journey' = GoTo(Observe(journey, {"CERTIFICATE_INSPECTED"}),
                       "certificate-decision", journey.context)

ConsultPolicy(p) ==
    /\ Command("certificate-decision")
    /\ p \notin journey.consulted
    /\ journey' = [journey EXCEPT !.consulted = @ \union {p}]

\* The storage and the issuer are judged against the case of the authorized
\* certifier, whichever the case is.
SubmitCertificateDecision(storage, issuer, cited) ==
    /\ Command("certificate-decision")
    /\ cited \subseteq journey.consulted
    /\ Cardinality(cited) >= MinimumCoffeePolicies
    /\ LET answered == Answer(Answer(journey, "STORAGE_CHOICE", storage), "ISSUER_CHECK", issuer)
       IN  journey' = GoTo(Observe(answered, {"CERTIFICATE_DECISION_SUBMITTED"}),
                           "certificate-transaction", journey.context)

\* The transactions of the case, whatever the decision was.
SubmitCertificateTransaction ==
    /\ Command("certificate-transaction")
    /\ IF variant = "authorized" /\ IsAccepted("ISSUE_CERTIFICATE")
       THEN journey' = GoTo(
                [journey EXCEPT !.chain = @ \o <<"ANCHOR_CERTIFICATE", "ISSUE_CERTIFICATE">>],
                "custody-proposal", "PRODUCER")
       ELSE journey' = GoTo([Observe(journey, {"UNAUTHORIZED_CERTIFICATE_RECOGNIZED"}) EXCEPT
                                 !.refused = Append(@, "SUSPICIOUS_CERTIFICATE"),
                                 !.status = "completed"],
                            "complete", journey.context)

\* A handover that would move the title as well is turned down and can be tried again.
CreateCustodyProposal(alsoTransfersOwnership) ==
    /\ Command("custody-proposal")
    /\ alsoTransfersOwnership => journey.refused = << >>     \* bound: refused once
    /\ journey' = IF alsoTransfersOwnership
                  THEN [journey EXCEPT !.refused = Append(@, "TRANSFER_CUSTODY")]
                  ELSE GoTo(Answer(journey, "CUSTODY_SCOPE", TRUE),
                            "custody-endorsement", journey.context)

EndorseCustody ==
    /\ Command("custody-endorsement")
    /\ journey' = GoTo(Observe(journey, {"CUSTODY_ENDORSEMENT_SATISFIED"}),
                       "custody-commit", "LOGISTICS")

CommitCustody ==
    /\ Command("custody-commit")
    /\ journey' = GoTo([journey EXCEPT !.chain = Append(@, "TRANSFER_CUSTODY")],
                       "transport-transaction", journey.context)

\* A transaction the handler submits in a role of its choice; what is turned down
\* leaves the run at its step.
Execute(step, action, role, rules, next, nextRole) ==
    /\ Command(step)
    /\ role = journey.context
    /\ LET scripted == [journey EXCEPT !.chain = Scripted(@)]
       IN  journey' = IF IsAccepted(action)
                      THEN GoTo(Observe([scripted EXCEPT !.chain = Append(@, action)], rules),
                                next, nextRole)
                      ELSE [scripted EXCEPT !.refused = Append(@, action)]

RecordTransportCondition ==
    Execute("transport-transaction", "RECORD_TRANSPORT", journey.context,
            {"TRANSPORT_CONDITION_RECORDED"}, "receipt-transaction", "PROCESSOR")

\* Mutant: the receipt leaves the processor in charge.
ReceiveBatchAsProcessor ==
    Execute("receipt-transaction", "RECEIVE_BATCH", "PROCESSOR", {},
            "ownership-transaction", "PROCESSOR")

ReceiveBatch ==
    Execute("receipt-transaction", "RECEIVE_BATCH", "PROCESSOR", {},
            "ownership-transaction", "PRODUCER")

PurchaseOnReceipt ==
    Execute("ownership-transaction", "PURCHASE_ON_RECEIPT", "PRODUCER", {},
            "discrepancy-decision", "PROCESSOR")

Discrepancies == {"correct", "wrong", "overwrite"}

SubmitDiscrepancyDecision(choice) ==
    /\ Command("discrepancy-decision")
    /\ LET rule == IF choice = "overwrite" THEN "DISCREPANCY_REJECTED_ATTEMPT"
                   ELSE "DISCREPANCY_DECISION_SUBMITTED"
           observed == Observe(journey, {rule})
       IN  journey' = IF choice = "correct"
                      THEN GoTo([observed EXCEPT !.mitigation = "not-required"],
                                "correction-proposal", "PROCESSOR")
                      ELSE GoTo([observed EXCEPT !.mitigation = "required"],
                                "discrepancy-mitigation", "PROCESSOR")

InvestigateDiscrepancy ==
    /\ Command("discrepancy-mitigation")
    /\ journey' = GoTo([journey EXCEPT !.mitigation = "completed"],
                       "correction-proposal", "PROCESSOR")

CreateCorrectionProposal ==
    /\ Command("correction-proposal")
    /\ journey' = GoTo(journey, "correction-endorsement", journey.context)

EndorseCorrection ==
    /\ Command("correction-endorsement")
    /\ journey' = GoTo(Observe(journey, {"CORRECTION_ENDORSEMENT_SATISFIED"}),
                       "correction-commit", "PRODUCER")

CommitCorrection ==
    /\ Command("correction-commit")
    /\ journey' = GoTo(Observe([journey EXCEPT !.chain = Append(@, "RECORD_CORRECTION")],
                               {"APPEND_ONLY_CORRECTION_COMMITTED"}),
                       "transformation-transaction", "PROCESSOR")

TransformBatch ==
    Execute("transformation-transaction", "TRANSFORM_BATCH", "PROCESSOR",
            {"TRANSFORMATION_PROVENANCE_CREATED"}, "transformation-knowledge", journey.context)

PackageBatch ==
    Execute("packaging-transaction", "PACKAGE_BATCH", "PROCESSOR", {},
            "distribution-ownership-transaction", journey.context)

TransferDistributionOwnership ==
    Execute("distribution-ownership-transaction", "TRANSFER_OWNERSHIP", "PROCESSOR", {},
            "dispatch-transaction", "DISTRIBUTOR")

DispatchBatch ==
    Execute("dispatch-transaction", "DISPATCH_BATCH", "DISTRIBUTOR",
            {"RETAIL_DISPATCH_RECORDED"}, "tamper-demonstration", "RETAILER")

RunTamperDemonstration ==
    /\ Command("tamper-demonstration")
    /\ journey' = GoTo(Observe(journey, {"TAMPER_DEMONSTRATION_COMPLETED"}),
                       "tamper-knowledge", "RETAILER")

SubmitKnowledgeDecision(isCorrect) ==
    \/ /\ Command("transformation-knowledge")
       /\ journey' = GoTo(Recognise(journey, "TRANSFORMATION_PROVENANCE", isCorrect,
                                    "TRANSFORMATION_PROVENANCE_RECOGNIZED"),
                          "packaging-transaction", journey.context)
    \/ /\ Command("tamper-knowledge")
       /\ journey' = GoTo(Recognise(journey, "TAMPER_DEMONSTRATION", isCorrect,
                                    "TAMPER_EVIDENCE_INTERPRETED"),
                          "data-governance-decision", journey.context)
    \/ /\ Command("blockchain-necessity-decision")
       /\ journey' = [GoTo(Recognise(journey, "BLOCKCHAIN_NECESSITY", isCorrect,
                                     "BLOCKCHAIN_SUITABILITY_RECOGNIZED"),
                           "complete", journey.context) EXCEPT !.status = "completed"]

SubmitDataGovernanceDecision(isCorrect) ==
    /\ Command("data-governance-decision")
    /\ journey' = GoTo(Recognise(journey, "DATA_GOVERNANCE", isCorrect,
                                 "DATA_GOVERNANCE_CLASSIFIED"),
                       "recall-scope-decision", "RETAILER")

SubmitRecallScopeDecision(isCorrect) ==
    /\ Command("recall-scope-decision")
    /\ journey' = GoTo(Observe(Answer(journey, "RECALL_SCOPE", isCorrect),
                               {"RECALL_SCOPE_SUBMITTED"}),
                       "recall-transaction", "RETAILER")

RequestRecallHandoff ==
    /\ \/ Command("recall-transaction")
       \/ Command("recall-handoff")
    /\ journey' = GoTo(journey, "recall-authorized-transaction", "REGULATOR")

\* A recall is submitted once, and again by the regulator if it was turned down.
SubmitRecall ==
    /\ \/ Command("recall-transaction")
       \/ Command("recall-authorized-transaction")
    /\ journey' = IF IsAccepted("RECALL_BATCH")
                  THEN GoTo(Observe([journey EXCEPT !.chain = Append(@, "RECALL_BATCH")],
                                    {"AUTHORIZED_RECALL_COMMITTED"}),
                            "blockchain-necessity-decision", journey.context)
                  ELSE GoTo(Observe([journey EXCEPT !.refused = Append(@, "RECALL_BATCH")],
                                    {"UNAUTHORIZED_RECALL_RETAINED"}),
                            "recall-handoff", journey.context)

Expire ==
    /\ IsActive /\ overdue /\ ~journey.expired
    /\ journey' = [journey EXCEPT !.expired = TRUE]
    /\ UNCHANGED <<variant, limited, overdue>>

ClockPasses ==
    /\ IsActive /\ ~overdue /\ limited
    /\ overdue' = TRUE
    /\ UNCHANGED <<variant, limited, journey>>

\* The commands that move the journey on.
Progress ==
    \/ InspectEvidence
    \/ \E storage, issuer \in BOOLEAN, cited \in SUBSET CoffeePolicies :
           SubmitCertificateDecision(storage, issuer, cited)
    \/ SubmitCertificateTransaction
    \/ CreateCustodyProposal(FALSE)
    \/ EndorseCustody
    \/ CommitCustody
    \/ RecordTransportCondition
    \/ ReceiveBatch
    \/ PurchaseOnReceipt
    \/ \E choice \in Discrepancies : SubmitDiscrepancyDecision(choice)
    \/ InvestigateDiscrepancy
    \/ CreateCorrectionProposal
    \/ EndorseCorrection
    \/ CommitCorrection
    \/ TransformBatch
    \/ PackageBatch
    \/ TransferDistributionOwnership
    \/ DispatchBatch
    \/ RunTamperDemonstration
    \/ \E isCorrect \in BOOLEAN :
           \/ SubmitKnowledgeDecision(isCorrect)
           \/ SubmitDataGovernanceDecision(isCorrect)
           \/ SubmitRecallScopeDecision(isCorrect)
    \/ RequestRecallHandoff
    \/ SubmitRecall

Next ==
    \/ CreateRun
    \/ Progress
    \/ CreateCustodyProposal(TRUE)
    \/ \E p \in CoffeePolicies : ConsultPolicy(p)
    \/ Expire
    \/ ClockPasses

\* A learner who does not give up.
Fairness ==
    /\ WF_vars(Progress)
    /\ \A p \in CoffeePolicies : WF_vars(ConsultPolicy(p))

Spec == Init /\ [][Next]_vars /\ Fairness

-----------------------------------------------------------------------------
(* The grade *)

Points ==
    [CREATE_BATCH |-> 4, STORAGE_CHOICE |-> 5, ISSUER_CHECK |-> 5, CUSTODY_SCOPE |-> 6,
     RECORD_TRANSPORT |-> 5, RECEIVE_BATCH |-> 3, RECORD_CORRECTION |-> 10, TRANSFORM_BATCH |-> 4,
     TRANSFORMATION_PROVENANCE |-> 8, PACKAGE_BATCH |-> 3, TRANSFER_OWNERSHIP |-> 5,
     DISPATCH_BATCH |-> 5, TAMPER_DEMONSTRATION |-> 7, DATA_GOVERNANCE |-> 5, RECALL_SCOPE |-> 15,
     RECALL_BATCH |-> 5, BLOCKCHAIN_NECESSITY |-> 5]

\* The batch is there before the run begins.
IsEarned(item) ==
    \/ item = "CREATE_BATCH"
    \/ item \in Range(journey.chain)
    \/ item \in DOMAIN journey.answers /\ journey.answers[item]

\* A correction that took an investigation and a recall that was turned down first
\* count as second attempts, which earn eight tenths.
Tries(item) ==
    CASE item = "RECORD_CORRECTION" -> IF journey.mitigation = "completed" THEN 2 ELSE 1
      [] item = "RECALL_BATCH" -> 1 + Cardinality({i \in DOMAIN journey.refused :
                                                       journey.refused[i] = "RECALL_BATCH"})
      [] OTHER -> 1

Credit(attempts) == CASE attempts = 1 -> 10 [] attempts = 2 -> 8 [] OTHER -> 6

\* In tenths of a point.
Worth(item) == IF IsEarned(item) THEN Points[item] * Credit(Tries(item)) ELSE 0

Score ==
    Worth("CREATE_BATCH") + Worth("STORAGE_CHOICE") + Worth("ISSUER_CHECK")
    + Worth("CUSTODY_SCOPE") + Worth("RECORD_TRANSPORT") + Worth("RECEIVE_BATCH")
    + Worth("RECORD_CORRECTION") + Worth("TRANSFORM_BATCH")
    + Worth("TRANSFORMATION_PROVENANCE") + Worth("PACKAGE_BATCH")
    + Worth("TRANSFER_OWNERSHIP") + Worth("DISPATCH_BATCH") + Worth("TAMPER_DEMONSTRATION")
    + Worth("DATA_GOVERNANCE") + Worth("RECALL_SCOPE") + Worth("RECALL_BATCH")
    + Worth("BLOCKCHAIN_NECESSITY")

-----------------------------------------------------------------------------
(* What the runtime promises *)

\* What the route puts on the ledger, in its order.
Script ==
    <<"ANCHOR_CERTIFICATE", "ISSUE_CERTIFICATE", "TRANSFER_CUSTODY", "ANCHOR_MANIFEST",
      "RECORD_TRANSPORT", "RECEIVE_BATCH", "PURCHASE_ON_RECEIPT", "RECORD_CORRECTION",
      "TRANSFORM_BATCH", "PACKAGE_BATCH", "TRANSFER_OWNERSHIP", "DISPATCH_BATCH", "RECALL_BATCH">>

\* The steps after a transaction, who plays each and how much is on the ledger by then.
Route ==
    <<<<"custody-proposal",                   "PRODUCER",    2>>,
      <<"transport-transaction",              "LOGISTICS",   3>>,
      <<"receipt-transaction",                "PROCESSOR",   5>>,
      <<"ownership-transaction",              "PRODUCER",    6>>,
      <<"discrepancy-decision",               "PROCESSOR",   7>>,
      <<"transformation-transaction",         "PROCESSOR",   8>>,
      <<"transformation-knowledge",           "PROCESSOR",   9>>,
      <<"distribution-ownership-transaction", "PROCESSOR",   10>>,
      <<"dispatch-transaction",               "DISTRIBUTOR", 11>>,
      <<"tamper-demonstration",               "RETAILER",    12>>,
      <<"blockchain-necessity-decision",      "REGULATOR",   13>>>>

Written(n) == SubSeq(Script, 1, n)

\* Where no transaction was made yet, the ledger is empty.
LedgerUpTo(k) == IF k = 0 THEN << >> ELSE Written(Route[k][3])

\* The run can be loaded again: what is on the ledger is what the route puts there up
\* to the step, and the run has the role that the next transaction is made in.
Replays ==
    journey # NoJourney =>
        /\ \E k \in 0 .. Len(Route) : journey.chain = LedgerUpTo(k)
        /\ \A k \in DOMAIN Route :
               journey.step = Route[k][1] =>
                   journey.context = Route[k][2] /\ journey.chain = LedgerUpTo(k)
        /\ Range(journey.refused) \subseteq
               {"SUSPICIOUS_CERTIFICATE", "TRANSFER_CUSTODY", "RECALL_BATCH"}
        /\ journey.status = "completed" <=> journey.step = "complete"

IsPerfect ==
    /\ journey.chain = LedgerUpTo(Len(Route))
    /\ journey.mitigation = "not-required"
    /\ "RECALL_BATCH" \notin Range(journey.refused)
    /\ \A d \in DOMAIN journey.answers : journey.answers[d]

\* The whole score takes every transaction at the first attempt and every answer right;
\* a journey that reaches the regulator's recall cannot fall below the procedural floor.
GradeIsSound ==
    journey.status = "completed" =>
        /\ Score \in 0 .. 1000
        /\ Score = 1000 <=> IsPerfect
        /\ "RECALL_BATCH" \in Range(journey.chain) => Score >= 470

RecordsAreFinal ==
    [][journey # NoJourney =>
          /\ IsPrefix(journey.chain, journey'.chain)
          /\ IsPrefix(journey.refused, journey'.refused)
          /\ journey.evidence \subseteq journey'.evidence
          /\ \A d \in DOMAIN journey.answers :
                 d \in DOMAIN journey'.answers /\ journey'.answers[d] = journey.answers[d]
          /\ journey.status = "completed" => journey' = journey]_vars

LateChangesNothing ==
    [][overdue /\ journey' # journey =>
          ~journey.expired /\ journey' = [journey EXCEPT !.expired = TRUE]]_vars

CanFinish == IsActive /\ ~limited

Finished == journey.status = "completed"

=============================================================================
