---------------------------- MODULE AttemptJournal ----------------------------
(***************************************************************************)
(* An attempt at the coffee journey as the learner makes it, in nine       *)
(* stages: each control of a stage that is offered makes one mutation,     *)
(* which changes the simulated runtime and the recorded decisions and      *)
(* appends a compact entry to the command journal.  Of the runtime only    *)
(* the journal is stored: whoever reopens the attempt gets the runtime by  *)
(* replaying it, in code of its own that repeats what the controls did,    *)
(* and the decisions that follow from it must be those that were stored.   *)
(* The encoder refuses a journal with more entries of a kind than the kind *)
(* has slots; the attempt is then lost to a recovery screen.               *)
(*                                                                         *)
(* A command's verdict is reduced to what has to be accepted before it     *)
(* (module Ledger has the rules); an organization is named by its trusted  *)
(* context.  The screens ask for a stage that is not beyond the first      *)
(* incomplete one.  That the snapshot itself is stored before a mutation   *)
(* is shown is the subject of LearnerSession, so here it is one step.      *)
(***************************************************************************)
EXTENDS Integers, Sequences, FiniteSets

CONSTANTS Attempts,     \* the features, case and learner of each attempt
          MaxTries      \* how often a wanderer answers the same question of scope

VARIABLES features,     \* whether commands are signed and which need endorsements
          usable,       \* whether the certificate of the case is valid and its issuer authorized
          wandering,    \* the stages in which the learner departs from the listed order
          phase,        \* RUNNING, or RECOVERY after a mutation or a resumption failed
          journal,      \* the entries, numbered by their positions
          runtime,      \* what is ordered and committed, and the proposals
          decisions,    \* decision id -> its last value and how often it was recorded
          replay        \* what a replay of the journal makes of the attempt

attempt == <<features, usable, wandering, phase, journal, runtime, decisions, replay>>

-----------------------------------------------------------------------------
(* The scenario *)

Stages == 1 .. 9

\* The trusted context that each command is journalled with; a recall takes the
\* context that is active.
commandContextByAction ==
    [CREATE_BATCH |-> "PRODUCER", ANCHOR_CERTIFICATE |-> "CERTIFIER",
     ISSUE_CERTIFICATE |-> "CERTIFIER", SUSPICIOUS_CERTIFICATE |-> "LOGISTICS",
     TRANSFER_CUSTODY |-> "PRODUCER", RECORD_TRANSPORT |-> "LOGISTICS",
     RECEIVE_BATCH |-> "PROCESSOR", PURCHASE_ON_RECEIPT |-> "PRODUCER",
     RECORD_CORRECTION |-> "PROCESSOR", TRANSFORM_BATCH |-> "PROCESSOR",
     PACKAGE_BATCH |-> "PROCESSOR", TRANSFER_OWNERSHIP |-> "PROCESSOR",
     DISPATCH_BATCH |-> "DISTRIBUTOR", RECALL_BATCH |-> "REGULATOR"]

Commands == DOMAIN commandContextByAction

initialContextByStage ==
    <<"PRODUCER", "PRODUCER", "CERTIFIER", "PRODUCER", "PROCESSOR", "PROCESSOR", "PROCESSOR",
      "RETAILER", "RETAILER">>

\* At most one handoff is authored for a stage.
roleHandoffs ==
    [s \in {4, 5, 9} |->
       CASE s = 4 -> [from |-> "PRODUCER", to |-> "LOGISTICS"]
         [] s = 5 -> [from |-> "PROCESSOR", to |-> "PRODUCER"]
         [] s = 9 -> [from |-> "RETAILER", to |-> "REGULATOR"]]

\* The commands that the policies ask endorsements for, and of whom.
Coalition ==
    [TRANSFER_CUSTODY |-> {"PRODUCER", "LOGISTICS"},
     RECORD_CORRECTION |-> {"PROCESSOR", "PRODUCER"}]
endorsementStage == [TRANSFER_CUSTODY |-> 4, RECORD_CORRECTION |-> 5]
IsEndorsed(action) == features.policies /\ action \in DOMAIN Coalition

\* What the rules ask to be ordered before: the asset exists, the document is
\* anchored, whoever acts holds or owns the goods.
Needs ==
    [CREATE_BATCH |-> {}, ANCHOR_CERTIFICATE |-> {"CREATE_BATCH"},
     ISSUE_CERTIFICATE |-> {"ANCHOR_CERTIFICATE"}, SUSPICIOUS_CERTIFICATE |-> {},
     TRANSFER_CUSTODY |-> {"CREATE_BATCH"}, RECORD_TRANSPORT |-> {"TRANSFER_CUSTODY"},
     RECEIVE_BATCH |-> {"TRANSFER_CUSTODY"}, PURCHASE_ON_RECEIPT |-> {"CREATE_BATCH"},
     RECORD_CORRECTION |-> {"MANIFEST"},
     TRANSFORM_BATCH |-> {"RECEIVE_BATCH", "PURCHASE_ON_RECEIPT"},
     PACKAGE_BATCH |-> {"TRANSFORM_BATCH"}, TRANSFER_OWNERSHIP |-> {"PACKAGE_BATCH"},
     DISPATCH_BATCH |-> {"TRANSFER_OWNERSHIP"}, RECALL_BATCH |-> {"CREATE_BATCH"}]

\* Events that raise the version of the green batch: all but a corrected document
\* and what is done to another asset.
TouchesBatch ==
    {"CREATE_BATCH", "ISSUE_CERTIFICATE", "TRANSFER_CUSTODY", "RECORD_TRANSPORT",
     "RECEIVE_BATCH", "PURCHASE_ON_RECEIPT", "TRANSFORM_BATCH", "RECALL_BATCH"}

-----------------------------------------------------------------------------
(* The journal *)

\* of: the proposal decided upon, or the stage handed over in; flaws: what is wrong
\* with the answers or the command.
EntryOf(op, by, of, flaws) == [op |-> op, by |-> by, of |-> of, flaws |-> flaws]

Has(j, op) == \E i \in DOMAIN j : j[i].op = op
Occurrences(j, op) == Cardinality({i \in DOMAIN j : j[i].op = op})

MAX_ATTEMPT_COUNT == 35

\* "Thirteen authored business commands can be accepted in one attempt."
SealSlotsOneFewer == 12                                                   \* mutant
SealSlots == 13

maxOccurrences(op) ==
    LET endorsed(n) == IF features.policies THEN n ELSE 0
        direct(n) == IF features.policies THEN 0 ELSE n
    IN
    CASE op = "TRANSFER_CUSTODY" -> direct(MAX_ATTEMPT_COUNT)
      [] op = "RECORD_CORRECTION" -> direct(1)
      [] op \in {"RECORD_TRANSPORT", "RECALL_BATCH"} -> 2
      [] op = "SEAL_PENDING_BLOCK" -> SealSlots
      [] op = "ROLE_HANDOFF" -> 2 + endorsed(2)
      [] op = "CREATE_ENDORSED_PROPOSAL" -> endorsed(MAX_ATTEMPT_COUNT)
      [] op = "CREATE_ENDORSED_CORRECTION_PROPOSAL" -> endorsed(1)
      [] op \in {"ENDORSE_TRANSACTION_PROPOSAL", "DECLINE_TRANSACTION_PROPOSAL",
                 "COMMIT_ENDORSED_TRANSACTION"} -> endorsed(2)
      [] OTHER -> 1

\* validateJournal; of a journal that was encoded but for its last entry.
Overflows(j) == Occurrences(j, j[Len(j)].op) > maxOccurrences(j[Len(j)].op)

IgnoresHandoffs(stage, j) == initialContextByStage[stage]                 \* mutant
activeContextIdForStage(stage, j) ==
    IF \E i \in DOMAIN j : j[i].op = "ROLE_HANDOFF" /\ j[i].of = stage
    THEN roleHandoffs[stage].to
    ELSE initialContextByStage[stage]

-----------------------------------------------------------------------------
(* The runtime *)

NewRuntime == [ordered |-> {}, committed |-> {}, proposals |-> << >>]

AcceptedIn(r) == r.ordered \cup r.committed

\* The manifest is written for the learner once the goods are on their way.
applyEligibleScriptedTransactions(r) ==
    IF "TRANSFER_CUSTODY" \in r.committed /\ "MANIFEST" \notin AcceptedIn(r)
    THEN [r EXCEPT !.committed = AcceptedIn(r) \cup {"MANIFEST"}, !.ordered = {}]
    ELSE r

Seal(r) ==
    applyEligibleScriptedTransactions([r EXCEPT !.committed = AcceptedIn(r), !.ordered = {}])

\* Nobody but the regulator may recall, and no transporter may certify.
IsPermitted(r, action, by, flaws) ==
    /\ Needs[action] \subseteq AcceptedIn(r)
    /\ action \notin AcceptedIn(r)
    /\ flaws = {}
    /\ action # "SUSPICIOUS_CERTIFICATE"
    /\ action = "RECALL_BATCH" => by = "REGULATOR"

\* A rejected command is audited and changes nothing else.
Submit(r, action, by, flaws) ==
    LET s == applyEligibleScriptedTransactions(r)
    IN  IF IsPermitted(s, action, by, flaws) THEN [s EXCEPT !.ordered = @ \cup {action}] ELSE s

Version(r) == AcceptedIn(r) \cap TouchesBatch

Missing(p) == Coalition[p.action] \ p.signed

\* A proposal is known by the position of its entry in the journal.
Propose(r, id, action, by, flaws) ==
    LET s == applyEligibleScriptedTransactions(r)
        proposed == [action |-> action, seen |-> Version(s), signed |-> {by},
                     status |-> "AWAITING_ENDORSEMENTS", isDeclined |-> FALSE]
    IN  IF ~IsPermitted(s, action, by, flaws) THEN s
        ELSE [s EXCEPT !.proposals =
               [i \in DOMAIN @ \cup {id} |->
                  IF i = id THEN proposed
                  ELSE IF @[i].action = action /\ @[i].status # "COMMITTED"
                       THEN [@[i] EXCEPT !.status = "SUPERSEDED"]
                       ELSE @[i]]]

Endorse(r, id, by) ==
    LET signed == r.proposals[id].signed \cup {by} IN
    IF by \in r.proposals[id].signed THEN r
    ELSE [r EXCEPT !.proposals[id].signed = signed,
                   !.proposals[id].status =
                     IF Coalition[r.proposals[id].action] \subseteq signed
                     THEN "POLICY_SATISFIED" ELSE "AWAITING_ENDORSEMENTS"]

Decline(r, id) ==
    [r EXCEPT !.proposals[id].status = "DECLINED", !.proposals[id].isDeclined = TRUE]

Commit(r, id) ==
    LET p == r.proposals[id] IN
    CASE Missing(p) # {} -> r
      [] Missing(p) = {} /\ p.seen # Version(r) ->
           [r EXCEPT !.proposals[id].status = "STALE"]
      [] OTHER ->
           [r EXCEPT !.ordered = @ \cup {p.action}, !.proposals[id].status = "COMMITTED"]

-----------------------------------------------------------------------------
(* The decisions *)

Mitigations == {"REVIEW_ISSUER", "REMEDIATE_STORAGE", "SUSPEND_LOT"}

\* Knowledge checks that only the learner answers, by stage.
ChecksOf ==
    [s \in Stages |->
       CASE s = 1 -> {"ORIENTATION"}
         [] s = 4 -> {"CUSTODY_SCOPE"}
         [] s = 6 -> {"TRANSFORMATION"}
         [] s = 8 -> {"INTEGRITY", "GOVERNANCE"}
         [] s = 9 -> {"RECALL_SCOPE", "NECESSITY"}
         [] OTHER -> {}]

\* Decisions that follow from the journal.
Consequential ==
    {"CERTIFICATE_STORAGE_CHOICE", "CERTIFICATE_ISSUER_CHECK", "CERTIFICATE_INITIAL_SUBMITTED",
     "CERTIFICATE_MITIGATION_COMPLETE", "CORRECTION_RECORDED", "DISCREPANCY_INITIAL_SUBMITTED",
     "DISCREPANCY_MITIGATION_COMPLETE", "RECALL_COMMITTED", "RECALL_INITIAL_SUBMITTED",
     "RECALL_AUTHORIZATION_RESOLVED"}

DecisionIds == Consequential \cup UNION {ChecksOf[s] : s \in Stages}
Undecided == [id \in DecisionIds |-> [value |-> 0, attempts |-> 0]]

Score(isRight) == IF isRight THEN 1 ELSE 0
recordDecision(d, id, value) ==
    [d EXCEPT ![id] = [value |-> value, attempts |-> @.attempts + 1]]

\* flaws: the storage, the assessment of certificate and issuer, or the disposition
\* of the lot is wrong.
MitigationActions(flaws) ==
    {m \in Mitigations :
       \/ m = "REVIEW_ISSUER" /\ (~usable \/ "assessment" \in flaws)
       \/ m = "REMEDIATE_STORAGE" /\ "storage" \in flaws
       \/ m = "SUSPEND_LOT" /\ "disposition" \in flaws}

CertificateDecided(d, flaws) ==
    LET storage == recordDecision(d, "CERTIFICATE_STORAGE_CHOICE", Score("storage" \notin flaws))
        issuer == recordDecision(storage, "CERTIFICATE_ISSUER_CHECK",
                                 Score(flaws \subseteq {"storage"}))
        submitted == recordDecision(issuer, "CERTIFICATE_INITIAL_SUBMITTED", 1)
    IN  IF MitigationActions(flaws) = {}
        THEN recordDecision(submitted, "CERTIFICATE_MITIGATION_COMPLETE", 1)
        ELSE submitted

InitialFlaws(j) ==
    LET first == CHOOSE i \in DOMAIN j : j[i].op = "SUBMIT_CERTIFICATE_DECISION"
    IN  j[first].flaws

\* What is resolved by now counts as right; an issuer that was assessed rightly need
\* not be reviewed for it, even where the certificate is not usable.
CertificateMitigated(j, d) ==
    LET flaws == InitialFlaws(j)
        isStored == "storage" \notin flaws \/ Has(j, "REMEDIATE_STORAGE")
        isIssued == /\ "assessment" \notin flaws \/ Has(j, "REVIEW_ISSUER")
                    /\ "disposition" \notin flaws \/ Has(j, "SUSPEND_LOT")
        storage == IF isStored /\ d["CERTIFICATE_STORAGE_CHOICE"].value # 1
                   THEN recordDecision(d, "CERTIFICATE_STORAGE_CHOICE", 1) ELSE d
        issuer == IF isIssued /\ d["CERTIFICATE_ISSUER_CHECK"].value # 1
                  THEN recordDecision(storage, "CERTIFICATE_ISSUER_CHECK", 1) ELSE storage
    IN  IF isStored /\ isIssued /\ d["CERTIFICATE_MITIGATION_COMPLETE"].attempts = 0
        THEN recordDecision(issuer, "CERTIFICATE_MITIGATION_COMPLETE", 1)
        ELSE issuer

DiscrepancyDecided(d, flaws) ==
    LET recorded == recordDecision(d, "CORRECTION_RECORDED", Score(flaws = {}))
        submitted == recordDecision(recorded, "DISCREPANCY_INITIAL_SUBMITTED", 1)
    IN  IF flaws = {} THEN recordDecision(submitted, "DISCREPANCY_MITIGATION_COMPLETE", 1)
        ELSE submitted

DiscrepancyInvestigated(d) ==
    recordDecision(recordDecision(d, "CORRECTION_RECORDED", 1),
                   "DISCREPANCY_MITIGATION_COMPLETE", 1)

RecallDecided(d, isAccepted) ==
    LET recorded == recordDecision(d, "RECALL_COMMITTED", Score(isAccepted))
        submitted == IF d["RECALL_INITIAL_SUBMITTED"].attempts = 0
                     THEN recordDecision(recorded, "RECALL_INITIAL_SUBMITTED", 1) ELSE recorded
    IN  IF isAccepted /\ d["RECALL_AUTHORIZATION_RESOLVED"].attempts = 0
        THEN recordDecision(submitted, "RECALL_AUTHORIZATION_RESOLVED", 1)
        ELSE submitted

-----------------------------------------------------------------------------
(* Progress *)

\* The transactions whose commitment a stage asks for, and the decisions.
CommittedFor ==
    << {}, {"CREATE_BATCH"}, {"ISSUE_CERTIFICATE"}, {"TRANSFER_CUSTODY", "RECORD_TRANSPORT"},
       {"RECEIVE_BATCH", "PURCHASE_ON_RECEIPT", "RECORD_CORRECTION"}, {"TRANSFORM_BATCH"},
       {"PACKAGE_BATCH", "DISPATCH_BATCH"}, {}, {"RECALL_BATCH"} >>
DecidedFor ==
    [s \in Stages |-> ChecksOf[s] \cup
       CASE s = 3 -> {"CERTIFICATE_INITIAL_SUBMITTED", "CERTIFICATE_MITIGATION_COMPLETE",
                      "CERTIFICATE_STORAGE_CHOICE", "CERTIFICATE_ISSUER_CHECK"}
         [] s = 5 -> {"DISCREPANCY_INITIAL_SUBMITTED", "DISCREPANCY_MITIGATION_COMPLETE"}
         [] s = 9 -> {"RECALL_INITIAL_SUBMITTED", "RECALL_AUTHORIZATION_RESOLVED"}
         [] OTHER -> {}]

HasAnswer(id) == decisions[id].attempts > 0

evaluateStageCompletion(s) ==
    /\ CommittedFor[s] \subseteq runtime.committed
    /\ \A id \in DecidedFor[s] : HasAnswer(id)

IsFinished == \A s \in Stages : evaluateStageCompletion(s)
currentStage ==
    IF IsFinished THEN 9
    ELSE CHOOSE s \in Stages :
           /\ ~evaluateStageCompletion(s)
           /\ \A earlier \in 1 .. s - 1 : evaluateStageCompletion(earlier)

-----------------------------------------------------------------------------
(* What the screens offer *)

Control(kind, name) == [kind |-> kind, name |-> name]

\* TransactionAction: a rejected command may be edited and submitted again.
CommandControls(action) ==
    CASE action \in runtime.ordered -> {Control("SEAL", action)}
      [] action \in runtime.committed -> {}
      [] OTHER -> {Control("COMMAND", action)}

\* The newest proposal of the action that was not superseded.
Pending(action) ==
    {id \in DOMAIN runtime.proposals :
       /\ runtime.proposals[id].action = action
       /\ runtime.proposals[id].status # "SUPERSEDED"
       /\ \A newer \in DOMAIN runtime.proposals :
            newer > id => \/ runtime.proposals[newer].action # action
                          \/ runtime.proposals[newer].status = "SUPERSEDED"}

\* EndorsedTransactionAction
ProposalControls(action) ==
    LET stage == endorsementStage[action]
        me == activeContextIdForStage(stage, journal)
        Of(p) ==
          {Control(kind, action) : kind \in
             {k \in {"HANDOFF", "ENDORSE", "DECLINE", "COMMIT", "SEAL"} :
                CASE k = "HANDOFF" -> me = roleHandoffs[stage].from
                                      /\ roleHandoffs[stage].to \in Missing(p)
                  [] k = "ENDORSE" -> me \in Missing(p)
                  [] k = "DECLINE" -> me \in Missing(p) /\ ~p.isDeclined
                  [] k = "COMMIT" -> Missing(p) = {} /\ p.status # "COMMITTED"
                  [] k = "SEAL" -> action \in runtime.ordered}}
    IN  IF Pending(action) = {} THEN {Control("PROPOSE", action)}
        ELSE UNION {Of(runtime.proposals[id]) : id \in Pending(action)}

ActionControls(action) ==
    IF IsEndorsed(action) THEN ProposalControls(action) ELSE CommandControls(action)

\* Whether a question is answered again is left to wanderers.
CheckControls(stage, id, isLocked) ==
    IF ~HasAnswer(id) \/ (stage \in wandering /\ ~isLocked /\ decisions[id].attempts < MaxTries)
    THEN {Control("CHECK", id)} ELSE {}

CertificateControls ==
    LET owed == {m \in MitigationActions(InitialFlaws(journal)) : ~Has(journal, m)} IN
    CASE ~Has(journal, "SUBMIT_CERTIFICATE_DECISION") -> {Control("DECIDE", "CERTIFICATE")}
      [] Has(journal, "SUBMIT_CERTIFICATE_DECISION") /\ owed # {} ->
           {Control("MITIGATE", m) : m \in owed}
      [] OTHER ->
           CommandControls("ANCHOR_CERTIFICATE") \cup CommandControls("ISSUE_CERTIFICATE")
             \cup IF features.signatures /\ ~Has(journal, "SUSPICIOUS_CERTIFICATE")
                  THEN {Control("COMMAND", "SUSPICIOUS_CERTIFICATE")} ELSE {}

ShippingControls ==
    LET isLocked == Pending("TRANSFER_CUSTODY") # {}
                    \/ "TRANSFER_CUSTODY" \in runtime.committed
    IN  CheckControls(4, "CUSTODY_SCOPE", isLocked)
          \cup (IF HasAnswer("CUSTODY_SCOPE") THEN ActionControls("TRANSFER_CUSTODY") ELSE {})
          \cup IF "TRANSFER_CUSTODY" \in runtime.committed
               THEN CommandControls("RECORD_TRANSPORT") ELSE {}

\* The correction waits for the receipt and the inquiry, not for the purchase.
ReceivingControls ==
    LET isDecided == Has(journal, "SUBMIT_DISCREPANCY_DECISION")
        isReady == /\ isDecided
                   /\ \/ decisions["CORRECTION_RECORDED"].value = 1
                      \/ Has(journal, "INVESTIGATE_DISCREPANCY")
    IN  CommandControls("RECEIVE_BATCH") \cup CommandControls("PURCHASE_ON_RECEIPT")
          \cup CASE isReady /\ "MANIFEST" \in runtime.committed ->
                      ActionControls("RECORD_CORRECTION")
                 [] isDecided /\ ~isReady -> {Control("MITIGATE", "INVESTIGATE_DISCREPANCY")}
                 [] ~isDecided /\ {"RECEIVE_BATCH", "MANIFEST"} \subseteq runtime.committed ->
                      {Control("DECIDE", "DISCREPANCY")}
                 [] OTHER -> {}

RecallControls ==
    LET me == activeContextIdForStage(9, journal)
        isSubmitted == HasAnswer("RECALL_COMMITTED")
        mayRecall == \/ ~isSubmitted \/ "RECALL_BATCH" \in runtime.ordered
                     \/ me = commandContextByAction["RECALL_BATCH"]
    IN  CheckControls(9, "RECALL_SCOPE", isSubmitted) \cup CheckControls(9, "NECESSITY", TRUE)
          \cup IF ~HasAnswer("RECALL_SCOPE") THEN {}
               ELSE (IF me = roleHandoffs[9].from THEN {Control("HANDOFF", "RECALL")} ELSE {})
                      \cup IF mayRecall THEN CommandControls("RECALL_BATCH") ELSE {}

Answerable(stage) == UNION {CheckControls(stage, id, TRUE) : id \in ChecksOf[stage]}

StageControls(stage) ==
    CASE stage = 1 -> Answerable(1)
      [] stage = 2 -> CommandControls("CREATE_BATCH")
      [] stage = 3 -> CertificateControls
      [] stage = 4 -> ShippingControls
      [] stage = 5 -> ReceivingControls
      [] stage = 6 -> CommandControls("TRANSFORM_BATCH") \cup Answerable(6)
      [] stage = 7 -> CommandControls("PACKAGE_BATCH") \cup CommandControls("TRANSFER_OWNERSHIP")
                        \cup CommandControls("DISPATCH_BATCH")
      [] stage = 8 -> Answerable(8)
      [] stage = 9 -> RecallControls

\* The order in which the stages list them.  Outside of the stages they wander in,
\* learners take what is listed first, and nothing they need not take.
Listed ==
    <<"ORIENTATION", "CREATE_BATCH", "CERTIFICATE", "REVIEW_ISSUER", "REMEDIATE_STORAGE",
      "SUSPEND_LOT", "ANCHOR_CERTIFICATE", "ISSUE_CERTIFICATE", "SUSPICIOUS_CERTIFICATE",
      "CUSTODY_SCOPE", "TRANSFER_CUSTODY", "RECORD_TRANSPORT", "RECEIVE_BATCH",
      "PURCHASE_ON_RECEIPT", "DISCREPANCY", "INVESTIGATE_DISCREPANCY", "RECORD_CORRECTION",
      "TRANSFORM_BATCH", "TRANSFORMATION", "PACKAGE_BATCH", "TRANSFER_OWNERSHIP",
      "DISPATCH_BATCH", "INTEGRITY", "GOVERNANCE", "RECALL_SCOPE", "RECALL", "RECALL_BATCH",
      "NECESSITY">>
Rank(control) == CHOOSE i \in DOMAIN Listed : Listed[i] = control.name

Offered(stage) ==
    LET controls == StageControls(stage)
        needed == {c \in controls : c.kind # "DECLINE" /\ c.name # "SUSPICIOUS_CERTIFICATE"}
    IN  IF stage \in wandering THEN controls
        ELSE {c \in needed : \A other \in needed : Rank(c) <= Rank(other)}

-----------------------------------------------------------------------------
(* The replay *)

\* A replay goes through the journal from its first entry to its last and keeps what it
\* processed, so that of a longer journal takes one step more: the replay of the journal
\* as it stands is carried along, and computed from its entries alone.
NewReplay ==
    [isValid |-> TRUE, processed |-> << >>, runtime |-> NewRuntime, decisions |-> Undecided]

Processed(s, entry, nextRuntime, nextDecisions) ==
    [s EXCEPT !.processed = Append(@, entry), !.runtime = nextRuntime, !.decisions = nextDecisions]

Invalid(s) == [s EXCEPT !.isValid = FALSE]

ReplayHandoff(s, e) ==
    IF /\ activeContextIdForStage(e.of, s.processed) = roleHandoffs[e.of].from
       /\ e.by = roleHandoffs[e.of].to
    THEN Processed(s, e, s.runtime, s.decisions) ELSE Invalid(s)

LosesScripted(s, e) ==                                                    \* mutant
    IF s.runtime.ordered # {}
    THEN Processed(s, e, [s.runtime EXCEPT !.committed = AcceptedIn(s.runtime), !.ordered = {}],
                   s.decisions)
    ELSE Invalid(s)
sealPending(s, e) ==
    IF s.runtime.ordered # {} THEN Processed(s, e, Seal(s.runtime), s.decisions) ELSE Invalid(s)

ReplayProposal(s, e) ==
    LET action == IF e.op = "CREATE_ENDORSED_PROPOSAL" THEN "TRANSFER_CUSTODY"
                  ELSE "RECORD_CORRECTION"
    IN  IF features.policies /\ e.by = commandContextByAction[action]
        THEN Processed(s, e, Propose(s.runtime, Len(s.processed) + 1, action, e.by, e.flaws),
                       s.decisions)
        ELSE Invalid(s)

\* The stage of the proposal's action says which context may act on it.
ReplayEndorsement(s, e) ==
    IF /\ features.policies
       /\ e.of \in DOMAIN s.runtime.proposals
       /\ e.by = activeContextIdForStage(endorsementStage[s.runtime.proposals[e.of].action],
                                         s.processed)
    THEN Processed(s, e,
                   CASE e.op = "ENDORSE_TRANSACTION_PROPOSAL" -> Endorse(s.runtime, e.of, e.by)
                     [] e.op = "DECLINE_TRANSACTION_PROPOSAL" -> Decline(s.runtime, e.of)
                     [] e.op = "COMMIT_ENDORSED_TRANSACTION" -> Commit(s.runtime, e.of),
                   s.decisions)
    ELSE Invalid(s)

consequentialStage(op) ==
    CASE op \in Mitigations \cup {"SUBMIT_CERTIFICATE_DECISION"} -> 3
      [] op \in {"SUBMIT_DISCREPANCY_DECISION", "INVESTIGATE_DISCREPANCY"} -> 5
      [] OTHER -> 0

\* A mitigation needs its initial decision, of which there is one; an inquiry into a
\* discrepancy that was judged rightly changes no decision.
ReplayDecision(s, e) ==
    LET stage == consequentialStage(e.op)
        initial == IF stage = 3 THEN "SUBMIT_CERTIFICATE_DECISION"
                   ELSE "SUBMIT_DISCREPANCY_DECISION"
        next ==
          CASE e.op = "SUBMIT_CERTIFICATE_DECISION" -> CertificateDecided(s.decisions, e.flaws)
            [] e.op = "SUBMIT_DISCREPANCY_DECISION" -> DiscrepancyDecided(s.decisions, e.flaws)
            [] e.op \in Mitigations -> CertificateMitigated(Append(s.processed, e), s.decisions)
            [] e.op = "INVESTIGATE_DISCREPANCY" ->
                 IF s.decisions["CORRECTION_RECORDED"].value # 1
                 THEN DiscrepancyInvestigated(s.decisions) ELSE s.decisions
    IN  IF /\ e.by = activeContextIdForStage(stage, s.processed)
           /\ Has(s.processed, initial) # (e.op = initial)
        THEN Processed(s, e, s.runtime, next) ELSE Invalid(s)

ReplayCommand(s, e) ==
    LET next == Submit(s.runtime, e.op, e.by, e.flaws)
        expected == IF e.op = "RECALL_BATCH" THEN activeContextIdForStage(9, s.processed)
                    ELSE commandContextByAction[e.op]
    IN  IF ~IsEndorsed(e.op) /\ e.by = expected
        THEN Processed(s, e, next,
                       IF e.op = "RECALL_BATCH"
                       THEN RecallDecided(s.decisions, e.op \in next.ordered) ELSE s.decisions)
        ELSE Invalid(s)

ReplayEntry(s, e) ==
    CASE ~s.isValid -> s
      [] s.isValid /\ e.op = "ROLE_HANDOFF" -> ReplayHandoff(s, e)
      [] s.isValid /\ e.op = "SEAL_PENDING_BLOCK" -> sealPending(s, e)
      [] s.isValid /\ e.op \in {"CREATE_ENDORSED_PROPOSAL",
                                "CREATE_ENDORSED_CORRECTION_PROPOSAL"} -> ReplayProposal(s, e)
      [] s.isValid /\ e.op \in {"ENDORSE_TRANSACTION_PROPOSAL", "DECLINE_TRANSACTION_PROPOSAL",
                                "COMMIT_ENDORSED_TRANSACTION"} -> ReplayEndorsement(s, e)
      [] s.isValid /\ consequentialStage(e.op) # 0 -> ReplayDecision(s, e)
      [] OTHER -> ReplayCommand(s, e)

-----------------------------------------------------------------------------
(* The mutations *)

AttemptInit ==
    /\ \E a \in Attempts :
         features = a.features /\ usable = a.usable /\ wandering = a.wandering
    /\ phase = "RUNNING"
    /\ journal = << >>
    /\ runtime = NewRuntime
    /\ decisions = Undecided
    /\ replay = NewReplay

\* Nothing is published of a mutation whose state cannot be encoded.
commitMutation(entry, nextRuntime, nextDecisions) ==
    LET next == Append(journal, entry) IN
    \/ /\ Overflows(next)
       /\ phase' = "RECOVERY"
       /\ UNCHANGED <<journal, runtime, decisions, replay>>
    \/ /\ ~Overflows(next)
       /\ journal' = next
       /\ replay' = ReplayEntry(replay, entry)
       /\ runtime' = nextRuntime
       /\ decisions' = nextDecisions
       /\ UNCHANGED phase

\* Only the question of custody has an answer that is used later.
answerProfessionalCheck(stage, id) ==
    /\ \E value \in IF id = "CUSTODY_SCOPE" /\ stage \in wandering THEN {0, 1} ELSE {1} :
         decisions' = recordDecision(decisions, id, value)
    /\ UNCHANGED <<phase, journal, runtime, replay>>

\* Who takes the scope of custody wrongly hands over the ownership with it.
CommandFlaws(action) ==
    IF action = "TRANSFER_CUSTODY" /\ decisions["CUSTODY_SCOPE"].value = 0
    THEN {"ownership"} ELSE {}

submitCommand(action) ==
    LET by == IF action = "RECALL_BATCH" THEN activeContextIdForStage(9, journal)
              ELSE commandContextByAction[action]
        next == Submit(runtime, action, by, CommandFlaws(action))
    IN
    commitMutation(EntryOf(action, by, 0, CommandFlaws(action)), next,
           IF action = "RECALL_BATCH"
           THEN RecallDecided(decisions, action \in next.ordered) ELSE decisions)

ProposalOp(action) ==
    IF action = "RECORD_CORRECTION" THEN "CREATE_ENDORSED_CORRECTION_PROPOSAL"
    ELSE "CREATE_ENDORSED_PROPOSAL"

createEndorsedProposal(action) ==
    LET by == commandContextByAction[action]  flaws == CommandFlaws(action) IN
    commitMutation(EntryOf(ProposalOp(action), by, 0, flaws),
           Propose(runtime, Len(journal) + 1, action, by, flaws), decisions)

\* Endorsing, declining, committing and sealing use the context of the stage that is
\* viewed.
endorsePendingProposal(stage, action) ==
    LET me == activeContextIdForStage(stage, journal) IN
    \E id \in Pending(action) :
       commitMutation(EntryOf("ENDORSE_TRANSACTION_PROPOSAL", me, id, {}),
                      Endorse(runtime, id, me), decisions)

declinePendingProposal(stage, action) ==
    LET me == activeContextIdForStage(stage, journal) IN
    \E id \in Pending(action) :
       commitMutation(EntryOf("DECLINE_TRANSACTION_PROPOSAL", me, id, {}),
                      Decline(runtime, id), decisions)

commitEndorsedProposal(stage, action) ==
    LET me == activeContextIdForStage(stage, journal) IN
    \E id \in Pending(action) :
       commitMutation(EntryOf("COMMIT_ENDORSED_TRANSACTION", me, id, {}),
                      Commit(runtime, id), decisions)

sealPendingBlock(stage) ==
    commitMutation(EntryOf("SEAL_PENDING_BLOCK",
                           activeContextIdForStage(stage, journal), 0, {}),
           Seal(runtime), decisions)

requestRoleHandoff(stage) ==
    commitMutation(EntryOf("ROLE_HANDOFF", roleHandoffs[stage].to, stage, {}),
                   runtime, decisions)

submitCertificateDecision(stage) ==
    \E flaws \in IF stage \in wandering THEN SUBSET {"storage", "assessment", "disposition"}
                 ELSE {{}} :
       commitMutation(EntryOf("SUBMIT_CERTIFICATE_DECISION",
                               activeContextIdForStage(3, journal), 0, flaws),
              runtime, CertificateDecided(decisions, flaws))

submitDiscrepancyDecision(stage) ==
    \E flaws \in IF stage \in wandering THEN {{}, {"cause"}} ELSE {{}} :
       commitMutation(EntryOf("SUBMIT_DISCREPANCY_DECISION",
                               activeContextIdForStage(5, journal), 0, flaws),
              runtime, DiscrepancyDecided(decisions, flaws))

\* A mitigation of either stage looks at what it resolves of the certificate.
recordMitigation(stage, mitigation) ==
    LET entry == EntryOf(mitigation, activeContextIdForStage(stage, journal), 0, {})
        next == Append(journal, entry)
        certificate == IF Has(next, "SUBMIT_CERTIFICATE_DECISION")
                       THEN CertificateMitigated(next, decisions) ELSE decisions
    IN
    commitMutation(entry, runtime,
           IF mitigation = "INVESTIGATE_DISCREPANCY"
           THEN DiscrepancyInvestigated(certificate) ELSE certificate)

\* The decisions that were stored must be those that the journal yields.
IsReplayable ==
    /\ replay.isValid
    /\ \A id \in Consequential :
         replay.decisions[id].attempts > 0 => replay.decisions[id] = decisions[id]

\* Opening the attempt again, after it was left or on the recovery screen.
Resume ==
    /\ IF IsReplayable THEN phase' = "RUNNING" /\ runtime' = replay.runtime
       ELSE phase' = "RECOVERY" /\ UNCHANGED runtime
    /\ UNCHANGED <<features, usable, wandering, journal, decisions, replay>>

Mutate ==
    /\ phase = "RUNNING"
    /\ \E stage \in 1 .. currentStage : \E c \in Offered(stage) :
         \/ c.kind = "CHECK" /\ answerProfessionalCheck(stage, c.name)
         \/ c.kind = "COMMAND" /\ submitCommand(c.name)
         \/ c.kind = "SEAL" /\ sealPendingBlock(stage)
         \/ c.kind = "PROPOSE" /\ createEndorsedProposal(c.name)
         \/ c.kind = "ENDORSE" /\ endorsePendingProposal(stage, c.name)
         \/ c.kind = "DECLINE" /\ declinePendingProposal(stage, c.name)
         \/ c.kind = "COMMIT" /\ commitEndorsedProposal(stage, c.name)
         \/ c.kind = "HANDOFF" /\ requestRoleHandoff(stage)
         \/ c.kind = "MITIGATE" /\ recordMitigation(stage, c.name)
         \/ c = Control("DECIDE", "CERTIFICATE") /\ submitCertificateDecision(stage)
         \/ c = Control("DECIDE", "DISCREPANCY") /\ submitDiscrepancyDecision(stage)
    /\ UNCHANGED <<features, usable, wandering>>

AttemptNext == Mutate \/ Resume

-----------------------------------------------------------------------------
(* Properties *)

\* The learner goes on, and comes back to an attempt that was left.
Fairness == WF_attempt(Mutate) /\ WF_attempt(Resume)

AttemptSpec == AttemptInit /\ [][AttemptNext]_attempt /\ Fairness

\* Whenever the attempt is left, its journal replays: the runtime it yields is the one
\* the learner had, and the stored decisions are those that it yields, so nobody who
\* comes back finds another attempt or none (replayCommandJournal against the
\* mutations of the provider).
StoredAttemptResumes ==
    IsReplayable /\ replay.runtime = runtime

\* A command was sent or proposed as often as it has slots and always rejected, or a
\* proposal was overtaken: what cannot be repeated.
IsSpent ==
    \/ \E action \in Commands \ {"SUSPICIOUS_CERTIFICATE"} :
         LET op == IF IsEndorsed(action) THEN ProposalOp(action) ELSE action IN
         /\ Has(journal, op) /\ Occurrences(journal, op) = maxOccurrences(op)
         /\ action \notin AcceptedIn(runtime)
         /\ Pending(action) = {}
    \/ \E id \in DOMAIN runtime.proposals : runtime.proposals[id].status = "STALE"

\* Whatever learners answer, decline, hand over or come back to, the journal has room
\* for the rest of the journey and the screens offer it, unless a command was sent out of
\* turn (commandJournalDefinitions against the controls of the stages).
JourneyFinishes == <>(IsFinished \/ IsSpent)

\* "Runtime overflow is an invariant failure, not a normal learner path."
\* (docs/archive/plans/CANONICAL_CONFIGURABLE_SCORM_PLAN.md)
OverflowIsNoLearnerPath == phase # "RECOVERY"
=============================================================================
