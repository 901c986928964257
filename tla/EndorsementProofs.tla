------------------------- MODULE EndorsementProofs -------------------------
(***************************************************************************)
(* Theorems about the endorsement workflow for every set of commands,      *)
(* organizations and policies, delivered in any order and any number of    *)
(* times.  The argument: the record of outcomes indexes the ledger         *)
(* exactly, and a command that has an outcome was answered; so nothing of  *)
(* a proposal is on the ledger before its commit, and whoever is listed on *)
(* a proposal has an event in the log, which is only appended to.          *)
(*                                                                         *)
(* And about the attempt around it: whoever comes back finds it as it was  *)
(* left, for the replay repeats what the controls did, for any features,   *)
(* any case and learners who wander through the stages as they like.       *)
(***************************************************************************)
EXTENDS EndorsementWorkflow, AttemptJournal, SequenceTheorems, TLAPS

\* The record of outcomes and the ledger are inverse to each other.
OutcomesIndexLedger ==
    /\ \A i \in DOMAIN ledger :
         /\ ledger[i].command \in DOMAIN outcomes
         /\ outcomes[ledger[i].command] = i
    /\ \A id \in DOMAIN outcomes :
         outcomes[id] # None =>
           /\ outcomes[id] \in DOMAIN ledger
           /\ ledger[outcomes[id]].command = id

\* What a proposal calls its transaction is what its command did.
ProposalsFollowOutcomes ==
    \A p \in DOMAIN pendingProposals :
      pendingProposals[p].transaction # None =>
        /\ p \in DOMAIN outcomes
        /\ pendingProposals[p].transaction = outcomes[p]

\* A creating command that has a proposal or an outcome was answered, so it
\* cannot be handled as a new one.
CreationsAreAnswered ==
    /\ \A p \in DOMAIN pendingProposals : IsAnswered(p)
    /\ \A id \in DOMAIN outcomes : Requests[id].kind = "CREATE" => IsAnswered(id)

WorkflowInvariant ==
    /\ TypeOK
    /\ OutcomesIndexLedger
    /\ ProposalsFollowOutcomes
    /\ CreationsAreAnswered

-----------------------------------------------------------------------------
(* The commands *)

LEMMA ProposedFields ==
    ASSUME NEW id \in CommandId, Requests[id].kind \in {"SUBMIT", "CREATE"}
    PROVE  /\ Requests[id].asset \in Assets
           /\ Requests[id].org \in Organizations
           /\ Requests[id].moves \in BOOLEAN
  BY RequestsAssumption DEF Proposed, Followup

LEMMA FollowupFields ==
    ASSUME NEW id \in CommandId, Requests[id].kind \in {"ENDORSE", "DECLINE", "COMMIT"}
    PROVE  /\ Requests[id].proposal \in CommandId
           /\ Requests[Requests[id].proposal].kind = "CREATE"
           /\ Requests[id].org \in Organizations
           /\ Requests[id].isAuthorized \in BOOLEAN
  BY RequestsAssumption DEF Proposed, Followup

\* Answers are kept: the event log grows and audit events stay.
LEMMA AnswersAreKept ==
    ASSUME TypeOK, NEW id \in CommandId,
           rejectedIds \subseteq rejectedIds',
           \/ acceptedEvents' = acceptedEvents
           \/ \E e \in Event : acceptedEvents' = Append(acceptedEvents, e)
           \/ \E e, f \in Event : acceptedEvents' = Append(Append(acceptedEvents, e), f),
           IsAnswered(id)
    PROVE  IsAnswered(id)'
<1>1. CASE id \in rejectedIds
  BY <1>1 DEF IsAnswered
<1>2. CASE id \notin rejectedIds
  <2>1. PICK i \in DOMAIN acceptedEvents :
          acceptedEvents[i].command = id /\ acceptedEvents[i].kind \in Decision
    BY <1>2 DEF IsAnswered
  <2>2. acceptedEvents \in Seq(Event)
    BY DEF TypeOK
  <2>3. i \in DOMAIN acceptedEvents' /\ acceptedEvents'[i] = acceptedEvents[i]
    BY <2>1, <2>2
  <2> QED
    BY <2>1, <2>3 DEF IsAnswered
<1> QED
  BY <1>1, <1>2

-----------------------------------------------------------------------------
(* The handler *)

\* The three things a delivery can do to the record.
IsUntouched == UNCHANGED <<stateVersion, ledger, outcomes>>

IsRecordedRejection(id) ==
    /\ id \notin DOMAIN outcomes
    /\ id \in rejectedIds'
    /\ outcomes' = Record(outcomes, id, None)
    /\ UNCHANGED <<stateVersion, ledger>>

IsRecordedTransaction(id) ==
    /\ id \notin DOMAIN outcomes
    /\ Requests[id].kind \in {"SUBMIT", "CREATE"}
    /\ \E v \in [Assets -> Nat \ {0}] : stateVersion' = v
    /\ \E e \in Entry : e.command = id /\ ledger' = Append(ledger, e)
    /\ outcomes' = Record(outcomes, id, Len(ledger) + 1)

\* What each of them keeps.
LEMMA RecordKeepsIndex ==
    ASSUME TypeOK, OutcomesIndexLedger, NEW id \in CommandId,
           IsUntouched \/ IsRecordedRejection(id) \/ IsRecordedTransaction(id)
    PROVE  /\ OutcomesIndexLedger'
           /\ stateVersion' \in [Assets -> Nat \ {0}]
           /\ ledger' \in Seq(Entry)
           /\ DOMAIN outcomes' \subseteq CommandId
           /\ \A d \in DOMAIN outcomes' : outcomes'[d] \in 0 .. Len(ledger')
           /\ \A d \in DOMAIN outcomes : d \in DOMAIN outcomes' /\ outcomes'[d] = outcomes[d]
           /\ DOMAIN outcomes' \subseteq DOMAIN outcomes \cup {id}
<1>0. /\ ledger \in Seq(Entry) /\ stateVersion \in [Assets -> Nat \ {0}]
      /\ DOMAIN outcomes \subseteq CommandId
      /\ \A d \in DOMAIN outcomes : outcomes[d] \in 0 .. Len(ledger)
  BY DEF TypeOK
<1>1. CASE IsUntouched
  BY <1>0, <1>1 DEF IsUntouched, OutcomesIndexLedger
<1>2. CASE IsRecordedRejection(id)
  <2>1. /\ DOMAIN outcomes' = DOMAIN outcomes \cup {id} /\ outcomes'[id] = None
        /\ \A d \in DOMAIN outcomes : outcomes'[d] = outcomes[d]
        /\ ledger' = ledger /\ stateVersion' = stateVersion
    BY <1>2 DEF IsRecordedRejection, Record
  <2>2. OutcomesIndexLedger'
    BY <2>1, <1>0 DEF OutcomesIndexLedger
  <2> QED
    BY <2>1, <2>2, <1>0 DEF None
<1>3. CASE IsRecordedTransaction(id)
  <2>1. PICK e \in Entry : e.command = id /\ ledger' = Append(ledger, e)
    BY <1>3 DEF IsRecordedTransaction
  <2>2. /\ DOMAIN outcomes' = DOMAIN outcomes \cup {id}
        /\ outcomes'[id] = Len(ledger) + 1
        /\ id \notin DOMAIN outcomes
        /\ \A d \in DOMAIN outcomes : outcomes'[d] = outcomes[d]
    BY <1>3 DEF IsRecordedTransaction, Record
  <2>3. /\ ledger' \in Seq(Entry) /\ Len(ledger') = Len(ledger) + 1
        /\ DOMAIN ledger' = DOMAIN ledger \cup {Len(ledger) + 1}
        /\ ledger'[Len(ledger) + 1].command = id
        /\ \A i \in DOMAIN ledger : ledger'[i] = ledger[i]
        /\ Len(ledger) \in Nat
    BY <2>1, <1>0
  <2>4. OutcomesIndexLedger'
    <3>1. \A i \in DOMAIN ledger' : /\ ledger'[i].command \in DOMAIN outcomes'
                                    /\ outcomes'[ledger'[i].command] = i
      BY <2>2, <2>3 DEF OutcomesIndexLedger
    <3>2. \A d \in DOMAIN outcomes' :
             outcomes'[d] # None => /\ outcomes'[d] \in DOMAIN ledger'
                                    /\ ledger'[outcomes'[d]].command = d
      BY <2>2, <2>3 DEF OutcomesIndexLedger
    <3> QED
      BY <3>1, <3>2 DEF OutcomesIndexLedger
  <2>5. stateVersion' \in [Assets -> Nat \ {0}]
    BY <1>3 DEF IsRecordedTransaction
  <2> QED
    BY <2>2, <2>3, <2>4, <2>5, <1>0
<1> QED
  BY <1>1, <1>2, <1>3

\* The handler does one of the three, and leaves the outcome it reports.
LEMMA HandlerRecords ==
    ASSUME TypeOK, NEW id \in CommandId, Requests[id].kind \in {"SUBMIT", "CREATE"},
           NEW expected, NEW endorsers \in SUBSET Organizations, NEW isPermitted \in BOOLEAN
    PROVE  LET next == HandleSimulationCommand(id, expected, endorsers, isPermitted) IN
           /\ id \in DOMAIN next.outcomes
           /\ \/ next = Unchanged
              \/ id \notin DOMAIN outcomes /\ next = Rejected(id)
              \/ id \notin DOMAIN outcomes /\ next = Accepted(id, endorsers)
<1> DEFINE next == HandleSimulationCommand(id, expected, endorsers, isPermitted)
<1>1. CASE id \in DOMAIN outcomes
  <2>1. next = Unchanged
    BY <1>1 DEF HandleSimulationCommand
  <2>2. Unchanged.outcomes = outcomes
    BY DEF Unchanged
  <2> QED
    BY <1>1, <2>1, <2>2
<1>2. CASE id \notin DOMAIN outcomes
  <2>1. next = Rejected(id) \/ next = Accepted(id, endorsers)
    BY <1>2 DEF HandleSimulationCommand
  <2>2. Rejected(id).outcomes = Record(outcomes, id, None)
    BY DEF Rejected, Unchanged
  <2>3. Accepted(id, endorsers).outcomes = Record(outcomes, id, Len(ledger) + 1)
    BY DEF Accepted
  <2>4. \A v : id \in DOMAIN Record(outcomes, id, v)
    BY DEF Record
  <2> QED
    BY <1>2, <2>1, <2>2, <2>3, <2>4
<1> QED
  BY <1>1, <1>2

\* Adopting what the handler returns is one of the three kinds of step, and
\* the handler adds at most the ledger's own event.
IsHandled(id, next) ==
    \E expected, endorsers, isPermitted :
      /\ endorsers \in SUBSET Organizations
      /\ isPermitted \in BOOLEAN
      /\ next = HandleSimulationCommand(id, expected, endorsers, isPermitted)

LEMMA AdoptionIsRecorded ==
    ASSUME TypeOK, NEW id \in CommandId, Requests[id].kind \in {"SUBMIT", "CREATE"},
           NEW next, IsHandled(id, next), NEW events, Adopt(next, events)
    PROVE  /\ IsUntouched \/ IsRecordedRejection(id) \/ IsRecordedTransaction(id)
           /\ \/ next.events = acceptedEvents
              \/ \E e \in Event : next.events = Append(acceptedEvents, e)
           /\ id \in DOMAIN outcomes'
           /\ outcomes' = next.outcomes
           /\ acceptedEvents' = events
           /\ rejectedIds \subseteq rejectedIds' /\ rejectedIds' \subseteq rejectedIds \cup {id}
<1>0. PICK expected, endorsers, isPermitted :
        /\ endorsers \in SUBSET Organizations
        /\ isPermitted \in BOOLEAN
        /\ next = HandleSimulationCommand(id, expected, endorsers, isPermitted)
  BY DEF IsHandled
<1>1. id \in DOMAIN next.outcomes /\ outcomes' = next.outcomes /\ acceptedEvents' = events
  BY <1>0, HandlerRecords DEF Adopt
<1>2. CASE next = Unchanged
  BY <1>1, <1>2 DEF Unchanged, Adopt, IsUntouched
<1>3. CASE id \notin DOMAIN outcomes /\ next = Rejected(id)
  <2>1. next = [version |-> stateVersion, ledger |-> ledger, events |-> acceptedEvents,
                rejected |-> rejectedIds \cup {id}, outcomes |-> Record(outcomes, id, None)]
    BY <1>3 DEF Unchanged, Rejected
  <2> QED
    BY <1>1, <1>3, <2>1 DEF Adopt, IsRecordedRejection
<1>4. CASE id \notin DOMAIN outcomes /\ next = Accepted(id, endorsers)
  <2> DEFINE v == IF Requests[id].moves
                  THEN [stateVersion EXCEPT ![Requests[id].asset] = @ + 1] ELSE stateVersion
             entry == [command |-> id, before |-> stateVersion[Requests[id].asset],
                       endorsers |-> endorsers]
             event == Happened("LEDGER_MUTATION", id, None)
  <2>1. v \in [Assets -> Nat \ {0}] /\ entry \in Entry /\ entry.command = id
    BY <1>0, ProposedFields DEF TypeOK, Entry
  <2>2. event \in Event
    BY DEF Happened, Event, None
  <2> HIDE DEF v, entry, event
  <2>3. next = [version |-> v, ledger |-> Append(ledger, entry),
                events |-> Append(acceptedEvents, event), rejected |-> rejectedIds,
                outcomes |-> Record(outcomes, id, Len(ledger) + 1)]
    BY <1>4 DEF Accepted, v, entry, event
  <2> QED
    BY <1>1, <1>4, <2>1, <2>2, <2>3 DEF Adopt, IsRecordedTransaction
<1> QED
  BY <1>0, <1>2, <1>3, <1>4, HandlerRecords

-----------------------------------------------------------------------------
(* The invariant *)

\* Events added in a step: none, one or two.
EventsGrow ==
    \/ acceptedEvents' = acceptedEvents
    \/ \E e \in Event : acceptedEvents' = Append(acceptedEvents, e)
    \/ \E e, f \in Event : acceptedEvents' = Append(Append(acceptedEvents, e), f)

\* What every action owes the invariant.
LEMMA StepKeepsInvariant ==
    ASSUME WorkflowInvariant, NEW id \in CommandId,
           IsUntouched \/ IsRecordedRejection(id) \/ IsRecordedTransaction(id),
           EventsGrow,
           rejectedIds \subseteq rejectedIds', rejectedIds' \subseteq CommandId,
           id \notin DOMAIN outcomes /\ id \in DOMAIN outcomes'
             /\ Requests[id].kind = "CREATE" => IsAnswered(id)',
           DOMAIN pendingProposals' \subseteq CommandId,
           \A p \in DOMAIN pendingProposals' :
             /\ pendingProposals'[p] \in Proposal
             /\ p \notin DOMAIN pendingProposals => IsAnswered(p)'
             /\ pendingProposals'[p].transaction # None =>
                  \/ /\ p \in DOMAIN pendingProposals
                     /\ pendingProposals'[p].transaction = pendingProposals[p].transaction
                  \/ /\ p \in DOMAIN outcomes'
                     /\ pendingProposals'[p].transaction = outcomes'[p]
    PROVE  WorkflowInvariant'
<1>1. TypeOK /\ OutcomesIndexLedger /\ ProposalsFollowOutcomes /\ CreationsAreAnswered
  BY DEF WorkflowInvariant
<1>2. /\ OutcomesIndexLedger'
      /\ stateVersion' \in [Assets -> Nat \ {0}]
      /\ ledger' \in Seq(Entry)
      /\ DOMAIN outcomes' \subseteq CommandId
      /\ \A d \in DOMAIN outcomes' : outcomes'[d] \in 0 .. Len(ledger')
      /\ \A d \in DOMAIN outcomes : d \in DOMAIN outcomes' /\ outcomes'[d] = outcomes[d]
      /\ DOMAIN outcomes' \subseteq DOMAIN outcomes \cup {id}
  BY <1>1, RecordKeepsIndex
<1>3. acceptedEvents' \in Seq(Event)
  <2>1. acceptedEvents \in Seq(Event)
    BY <1>1 DEF TypeOK
  <2>2. \A e \in Event, es \in Seq(Event) : Append(es, e) \in Seq(Event)
    OBVIOUS
  <2> QED
    BY <2>1, <2>2 DEF EventsGrow
<1>4. TypeOK'
  BY <1>2, <1>3 DEF TypeOK
<1>5. \A d \in CommandId : IsAnswered(d) => IsAnswered(d)'
  BY <1>1, AnswersAreKept DEF EventsGrow
<1>6. CreationsAreAnswered'
  <2>1. \A p \in DOMAIN pendingProposals' : IsAnswered(p)'
    BY <1>1, <1>5 DEF CreationsAreAnswered, TypeOK
  <2>2. \A d \in DOMAIN outcomes' : Requests[d].kind = "CREATE" => IsAnswered(d)'
    BY <1>1, <1>2, <1>5 DEF CreationsAreAnswered, TypeOK
  <2> QED
    BY <2>1, <2>2 DEF CreationsAreAnswered
<1>7. ProposalsFollowOutcomes'
  BY <1>1, <1>2 DEF ProposalsFollowOutcomes
<1> QED
  BY <1>2, <1>4, <1>6, <1>7 DEF WorkflowInvariant

\* A step that only decides or only rejects.
LEMMA DecideGrows ==
    ASSUME TypeOK, NEW id \in CommandId, NEW p \in CommandId, NEW kind \in Decision,
           Decide(kind, id, p)
    PROVE  /\ IsUntouched /\ EventsGrow /\ IsAnswered(id)'
           /\ rejectedIds' = rejectedIds
<1>1. Happened(kind, id, p) \in Event
  BY DEF Happened, Event
<1>2. acceptedEvents \in Seq(Event)
  BY DEF TypeOK
<1>3. /\ Len(acceptedEvents) + 1 \in DOMAIN acceptedEvents'
      /\ acceptedEvents'[Len(acceptedEvents) + 1] = Happened(kind, id, p)
  BY <1>2 DEF Decide
<1>4. IsAnswered(id)'
  BY <1>3 DEF IsAnswered, Happened
<1> QED
  BY <1>1, <1>4 DEF Decide, IsUntouched, EventsGrow

LEMMA RejectGrows ==
    ASSUME NEW id \in CommandId, RejectWorkflow(id), TypeOK
    PROVE  /\ IsUntouched /\ EventsGrow
           /\ rejectedIds \subseteq rejectedIds' /\ rejectedIds' \subseteq CommandId
  BY DEF RejectWorkflow, IsUntouched, EventsGrow, TypeOK

LEMMA SubmitKeepsInvariant ==
    ASSUME WorkflowInvariant, NEW id \in CommandId, SubmitCommand(id)
    PROVE  WorkflowInvariant'
<1>1. TypeOK /\ Requests[id].kind = "SUBMIT" /\ pendingProposals' = pendingProposals
  BY DEF WorkflowInvariant, SubmitCommand
<1>2. PICK next : IsHandled(id, next) /\ Adopt(next, next.events)
  BY DEF SubmitCommand, IsHandled
<1>3. /\ IsUntouched \/ IsRecordedRejection(id) \/ IsRecordedTransaction(id)
      /\ \/ next.events = acceptedEvents
         \/ \E e \in Event : next.events = Append(acceptedEvents, e)
      /\ acceptedEvents' = next.events
      /\ rejectedIds \subseteq rejectedIds' /\ rejectedIds' \subseteq rejectedIds \cup {id}
  BY <1>1, <1>2, AdoptionIsRecorded
<1>4. EventsGrow
  BY <1>3 DEF EventsGrow
<1>5. rejectedIds' \subseteq CommandId
  BY <1>1, <1>3 DEF TypeOK
<1>6. \A p \in DOMAIN pendingProposals' :
        p \in DOMAIN pendingProposals /\ pendingProposals'[p] \in Proposal
        /\ pendingProposals'[p].transaction = pendingProposals[p].transaction
  BY <1>1 DEF TypeOK
<1>7. DOMAIN pendingProposals' \subseteq CommandId
  BY <1>1 DEF TypeOK
<1> QED
  BY <1>1, <1>3, <1>4, <1>5, <1>6, <1>7, StepKeepsInvariant

\* A rejected creation is recorded as a new outcome.
LEMMA CreateRejectedKeepsInvariant ==
    ASSUME WorkflowInvariant, NEW id \in CommandId, Requests[id].kind = "CREATE",
           ~IsAnswered(id), Adopt(Rejected(id), acceptedEvents), UNCHANGED pendingProposals
    PROVE  WorkflowInvariant'
<1>1. TypeOK /\ id \notin DOMAIN outcomes
  BY DEF WorkflowInvariant, CreationsAreAnswered
<1>2. Rejected(id) = [version |-> stateVersion, ledger |-> ledger, events |-> acceptedEvents,
                      rejected |-> rejectedIds \cup {id},
                      outcomes |-> Record(outcomes, id, None)]
  BY DEF Unchanged, Rejected
<1>3. /\ IsRecordedRejection(id) /\ acceptedEvents' = acceptedEvents
      /\ rejectedIds' = rejectedIds \cup {id}
  BY <1>1, <1>2 DEF Adopt, IsRecordedRejection
<1>4. EventsGrow /\ IsAnswered(id)'
  BY <1>3 DEF EventsGrow, IsAnswered
<1>5. \A p \in DOMAIN pendingProposals' :
        p \in DOMAIN pendingProposals /\ pendingProposals'[p] \in Proposal
        /\ pendingProposals'[p].transaction = pendingProposals[p].transaction
  BY <1>1 DEF TypeOK
<1>6. DOMAIN pendingProposals' \subseteq CommandId /\ rejectedIds' \subseteq CommandId
  BY <1>1, <1>3 DEF TypeOK
<1> QED
  BY <1>3, <1>4, <1>5, <1>6, StepKeepsInvariant

LEMMA StatusOfIsStatus ==
    ASSUME NEW type, NEW records
    PROVE  StatusOf(type, records) \in Status
  BY DEF StatusOf, Status

LEMMA CreateKeepsInvariant ==
    ASSUME WorkflowInvariant, NEW id \in CommandId, CreateEndorsedProposal(id)
    PROVE  WorkflowInvariant'
<1>1. TypeOK /\ Requests[id].kind = "CREATE" /\ ~IsAnswered(id)
  BY DEF WorkflowInvariant, CreateEndorsedProposal
<1> DEFINE records == <<[org |-> Requests[id].org, isAuthorized |-> TRUE]>>
           new(expected) == [expected |-> expected, endorsements |-> records,
                             status |-> StatusOf(Requests[id].type, records),
                             declines |-> <<>>, transaction |-> None]
           prior == SupersedePriorProposal(Requests[id].action)
<1>2. PICK expected \in 0 .. stateVersion[Requests[id].asset] :
        \/ /\ Decide("PROPOSAL_CREATED", id, id)
           /\ pendingProposals' = Record(prior, id, new(expected))
        \/ Adopt(Rejected(id), acceptedEvents) /\ UNCHANGED pendingProposals
  BY DEF CreateEndorsedProposal
<1>3. CASE /\ Decide("PROPOSAL_CREATED", id, id)
           /\ pendingProposals' = Record(prior, id, new(expected))
  <2>1. new(expected) \in Proposal
    <3>1. expected \in Nat
      BY <1>1, ProposedFields DEF TypeOK
    <3>2. records \in Seq(Endorsement)
      BY <1>1, ProposedFields DEF Endorsement
    <3>3. <<>> \in Seq(CommandId) /\ None \in Nat
      BY DEF None
    <3> HIDE DEF records
    <3> QED
      BY <3>1, <3>2, <3>3, StatusOfIsStatus DEF Proposal
  <2>2. /\ DOMAIN prior = DOMAIN pendingProposals
        /\ \A p \in DOMAIN prior : /\ prior[p] \in Proposal
                                   /\ prior[p].transaction = pendingProposals[p].transaction
    BY <1>1 DEF SupersedePriorProposal, TypeOK, Proposal, Status
  <2>3. new(expected).transaction = None
    OBVIOUS
  <2> HIDE DEF new, prior
  <2>4. /\ DOMAIN pendingProposals' = DOMAIN pendingProposals \cup {id}
        /\ pendingProposals'[id] = new(expected)
        /\ \A p \in DOMAIN pendingProposals : p # id => pendingProposals'[p] = prior[p]
    BY <1>3, <2>2 DEF Record
  <2>5. /\ IsUntouched /\ EventsGrow /\ IsAnswered(id)'
        /\ rejectedIds' = rejectedIds
    BY <1>1, <1>3, DecideGrows DEF Decision
  <2>6. \A p \in DOMAIN pendingProposals' :
          /\ pendingProposals'[p] \in Proposal
          /\ p \notin DOMAIN pendingProposals => IsAnswered(p)'
          /\ pendingProposals'[p].transaction # None =>
               /\ p \in DOMAIN pendingProposals
               /\ pendingProposals'[p].transaction = pendingProposals[p].transaction
    BY <2>1, <2>2, <2>3, <2>4, <2>5
  <2>7. DOMAIN pendingProposals' \subseteq CommandId /\ rejectedIds' \subseteq CommandId
    BY <1>1, <2>4, <2>5 DEF TypeOK
  <2> QED
    BY <2>5, <2>6, <2>7, StepKeepsInvariant
<1>4. CASE Adopt(Rejected(id), acceptedEvents) /\ UNCHANGED pendingProposals
  BY <1>1, <1>4, CreateRejectedKeepsInvariant
<1> QED
  BY <1>2, <1>3, <1>4

\* A step that leaves the record alone and rewrites one known proposal without
\* touching its transaction.
LEMMA RewriteKeepsInvariant ==
    ASSUME WorkflowInvariant, NEW id \in CommandId, IsUntouched, EventsGrow,
           rejectedIds \subseteq rejectedIds', rejectedIds' \subseteq CommandId,
           DOMAIN pendingProposals' = DOMAIN pendingProposals,
           \A p \in DOMAIN pendingProposals :
             /\ pendingProposals'[p] \in Proposal
             /\ pendingProposals'[p].transaction = pendingProposals[p].transaction
    PROVE  WorkflowInvariant'
<1>1. DOMAIN pendingProposals' \subseteq CommandId
  BY DEF WorkflowInvariant, TypeOK
<1>2. outcomes' = outcomes
  BY DEF IsUntouched
<1> QED
  BY <1>1, <1>2, StepKeepsInvariant

LEMMA EndorseKeepsInvariant ==
    ASSUME WorkflowInvariant, NEW id \in CommandId, EndorsePendingProposal(id)
    PROVE  WorkflowInvariant'
<1> DEFINE p == Requests[id].proposal
           records == Append(pendingProposals[p].endorsements,
                             [org |-> Requests[id].org,
                              isAuthorized |-> Requests[id].isAuthorized])
<1>1. TypeOK /\ Requests[id].kind = "ENDORSE" /\ p \in DOMAIN pendingProposals
      /\ p \in CommandId /\ pendingProposals[p] \in Proposal
  BY FollowupFields DEF WorkflowInvariant, EndorsePendingProposal, TypeOK
<1>2. \/ /\ Decide("PROPOSAL_ENDORSED", id, p)
         /\ pendingProposals' = [pendingProposals EXCEPT
                                   ![p].endorsements = records,
                                   ![p].status = StatusOf(Requests[p].type, records)]
      \/ RejectWorkflow(id) /\ UNCHANGED pendingProposals
  BY DEF EndorsePendingProposal
<1>3. CASE /\ Decide("PROPOSAL_ENDORSED", id, p)
           /\ pendingProposals' = [pendingProposals EXCEPT
                                     ![p].endorsements = records,
                                     ![p].status = StatusOf(Requests[p].type, records)]
  <2>1. records \in Seq(Endorsement)
    BY <1>1, FollowupFields DEF Endorsement, Proposal
  <2>2. StatusOf(Requests[p].type, records) \in Status
    BY StatusOfIsStatus
  <2> HIDE DEF records, p
  <2>3. /\ DOMAIN pendingProposals' = DOMAIN pendingProposals
        /\ \A q \in DOMAIN pendingProposals :
             /\ pendingProposals'[q] \in Proposal
             /\ pendingProposals'[q].transaction = pendingProposals[q].transaction
    BY <1>1, <1>3, <2>1, <2>2 DEF TypeOK, Proposal
  <2>4. IsUntouched /\ EventsGrow /\ rejectedIds' = rejectedIds
    BY <1>1, <1>3, DecideGrows DEF Decision
  <2>5. rejectedIds' \subseteq CommandId
    BY <1>1, <2>4 DEF TypeOK
  <2> QED
    BY <2>3, <2>4, <2>5, RewriteKeepsInvariant
<1>4. CASE RejectWorkflow(id) /\ UNCHANGED pendingProposals
  BY <1>1, <1>4, RejectGrows, RewriteKeepsInvariant DEF TypeOK
<1> QED
  BY <1>2, <1>3, <1>4

LEMMA DeclineKeepsInvariant ==
    ASSUME WorkflowInvariant, NEW id \in CommandId, DeclinePendingProposal(id)
    PROVE  WorkflowInvariant'
<1> DEFINE p == Requests[id].proposal
<1>1. TypeOK /\ Requests[id].kind = "DECLINE" /\ p \in DOMAIN pendingProposals
      /\ p \in CommandId /\ pendingProposals[p] \in Proposal
  BY FollowupFields DEF WorkflowInvariant, DeclinePendingProposal, TypeOK
<1>2. \/ /\ Decide("PROPOSAL_DECLINED", id, p)
         /\ pendingProposals' = [pendingProposals EXCEPT ![p].status = "DECLINED",
                                                         ![p].declines = Append(@, id)]
      \/ RejectWorkflow(id) /\ UNCHANGED pendingProposals
  BY DEF DeclinePendingProposal
<1>3. CASE /\ Decide("PROPOSAL_DECLINED", id, p)
           /\ pendingProposals' = [pendingProposals EXCEPT ![p].status = "DECLINED",
                                                           ![p].declines = Append(@, id)]
  <2>1. Append(pendingProposals[p].declines, id) \in Seq(CommandId)
    BY <1>1 DEF Proposal
  <2> HIDE DEF p
  <2>2. /\ DOMAIN pendingProposals' = DOMAIN pendingProposals
        /\ \A q \in DOMAIN pendingProposals :
             /\ pendingProposals'[q] \in Proposal
             /\ pendingProposals'[q].transaction = pendingProposals[q].transaction
    BY <1>1, <1>3, <2>1 DEF TypeOK, Proposal, Status
  <2>3. IsUntouched /\ EventsGrow /\ rejectedIds' = rejectedIds
    BY <1>1, <1>3, DecideGrows DEF Decision
  <2>4. rejectedIds' \subseteq CommandId
    BY <1>1, <2>3 DEF TypeOK
  <2> QED
    BY <2>2, <2>3, <2>4, RewriteKeepsInvariant
<1>4. CASE RejectWorkflow(id) /\ UNCHANGED pendingProposals
  BY <1>1, <1>4, RejectGrows, RewriteKeepsInvariant DEF TypeOK
<1> QED
  BY <1>2, <1>3, <1>4

LEMMA CountedAreOrganizations ==
    ASSUME NEW records \in Seq(Endorsement)
    PROVE  Counted(records) \in SUBSET Organizations
<1>1. \A i \in DOMAIN records : records[i].org \in Organizations
  <2>1. \A i \in DOMAIN records : records[i] \in Endorsement
    OBVIOUS
  <2>2. \A e \in Endorsement : e.org \in Organizations
    BY DEF Endorsement
  <2> QED
    BY <2>1, <2>2
<1>2. \A o \in Counted(records) : \E i \in DOMAIN records : o = records[i].org
  BY DEF Counted
<1> QED
  BY <1>1, <1>2

\* A commit that reaches the handler records a step of the proposal's own
\* command, whose creation was answered before.
LEMMA HandledCommitKeepsInvariant ==
    ASSUME WorkflowInvariant, NEW p \in CommandId, p \in DOMAIN pendingProposals,
           Requests[p].kind = "CREATE", NEW next, IsHandled(p, next),
           NEW event \in Event, NEW events,
           events = next.events \/ events = Append(next.events, event),
           Adopt(next, events),
           DOMAIN pendingProposals' = DOMAIN pendingProposals,
           \A q \in DOMAIN pendingProposals :
             /\ pendingProposals'[q] \in Proposal
             /\ \/ pendingProposals'[q].transaction = pendingProposals[q].transaction
                \/ q = p /\ pendingProposals'[q].transaction = next.outcomes[p]
    PROVE  WorkflowInvariant'
<1>1. TypeOK /\ IsAnswered(p)
  BY DEF WorkflowInvariant, CreationsAreAnswered
<1>2. /\ IsUntouched \/ IsRecordedRejection(p) \/ IsRecordedTransaction(p)
      /\ \/ next.events = acceptedEvents
         \/ \E e \in Event : next.events = Append(acceptedEvents, e)
      /\ p \in DOMAIN outcomes' /\ outcomes' = next.outcomes /\ acceptedEvents' = events
      /\ rejectedIds \subseteq rejectedIds' /\ rejectedIds' \subseteq rejectedIds \cup {p}
  BY <1>1, AdoptionIsRecorded
<1>3. EventsGrow
  BY <1>2 DEF EventsGrow
<1>4. IsAnswered(p)'
  BY <1>1, <1>2, <1>3, AnswersAreKept DEF EventsGrow
<1>5. rejectedIds' \subseteq CommandId /\ DOMAIN pendingProposals' \subseteq CommandId
  BY <1>1, <1>2 DEF TypeOK
<1>6. \A q \in DOMAIN pendingProposals' :
        /\ q \in DOMAIN pendingProposals /\ pendingProposals'[q] \in Proposal
        /\ pendingProposals'[q].transaction # None =>
             \/ pendingProposals'[q].transaction = pendingProposals[q].transaction
             \/ /\ q \in DOMAIN outcomes'
                /\ pendingProposals'[q].transaction = outcomes'[q]
  BY <1>2
<1> QED
  BY <1>2, <1>3, <1>4, <1>5, <1>6, StepKeepsInvariant

LEMMA CommitKeepsInvariant ==
    ASSUME WorkflowInvariant, NEW id \in CommandId, CommitPendingProposal(id)
    PROVE  WorkflowInvariant'
<1> DEFINE p == Requests[id].proposal
           event == Happened("TRANSACTION_COMMITTED", id, p)
<1>1. TypeOK /\ p \in DOMAIN pendingProposals /\ p \in CommandId
      /\ pendingProposals[p] \in Proposal /\ Requests[p].kind = "CREATE"
  BY FollowupFields DEF WorkflowInvariant, CommitPendingProposal, TypeOK
<1>2. CASE RejectWorkflow(id) /\ UNCHANGED pendingProposals
  BY <1>1, <1>2, RejectGrows, RewriteKeepsInvariant DEF TypeOK
<1>3. CASE /\ RejectWorkflow(id)
           /\ pendingProposals' = [pendingProposals EXCEPT ![p].status = "STALE"]
  <2>1. /\ DOMAIN pendingProposals' = DOMAIN pendingProposals
        /\ \A q \in DOMAIN pendingProposals :
             /\ pendingProposals'[q] \in Proposal
             /\ pendingProposals'[q].transaction = pendingProposals[q].transaction
    BY <1>1, <1>3 DEF TypeOK, Proposal, Status
  <2> QED
    BY <1>1, <1>3, <2>1, RejectGrows, RewriteKeepsInvariant
<1>4. ASSUME ~(RejectWorkflow(id) /\ UNCHANGED pendingProposals),
             ~(/\ RejectWorkflow(id)
               /\ pendingProposals' = [pendingProposals EXCEPT ![p].status = "STALE"])
      PROVE  WorkflowInvariant'
  <2>1. PICK next :
          /\ IsHandled(p, next)
          /\ \/ Adopt(next, next.events) /\ UNCHANGED pendingProposals
             \/ /\ next.outcomes[p] # None
                /\ Adopt(next, Append(next.events, event))
                /\ pendingProposals' =
                     [pendingProposals EXCEPT ![p].status = "COMMITTED",
                                              ![p].transaction = next.outcomes[p]]
    <3> DEFINE organizations == Counted(pendingProposals[p].endorsements)
               handled(ok) == HandleSimulationCommand(p, pendingProposals[p].expected,
                                                      organizations, ok)
    <3>1. organizations \in SUBSET Organizations
      BY <1>1, CountedAreOrganizations DEF Proposal
    <3>2. PICK ok \in BOOLEAN :
            \/ Adopt(handled(ok), handled(ok).events) /\ UNCHANGED pendingProposals
            \/ /\ handled(ok).outcomes[p] # None
               /\ Adopt(handled(ok), Append(handled(ok).events, event))
               /\ pendingProposals' =
                    [pendingProposals EXCEPT ![p].status = "COMMITTED",
                                             ![p].transaction = handled(ok).outcomes[p]]
      BY <1>4 DEF CommitPendingProposal, TransactionOf
    <3>3. IsHandled(p, handled(ok))
      BY <3>1 DEF IsHandled
    <3> HIDE DEF handled, p, event
    <3> QED
      BY <3>2, <3>3
  <2>2. event \in Event
    BY <1>1 DEF Happened, Event, Decision
  <2> HIDE DEF p, event
  <2>3. CASE Adopt(next, next.events) /\ UNCHANGED pendingProposals
    <3>1. \A q \in DOMAIN pendingProposals :
            /\ pendingProposals'[q] \in Proposal
            /\ pendingProposals'[q].transaction = pendingProposals[q].transaction
      BY <1>1, <2>3 DEF TypeOK
    <3> QED
      BY <1>1, <2>1, <2>2, <2>3, <3>1, HandledCommitKeepsInvariant
  <2>4. CASE /\ next.outcomes[p] # None
             /\ Adopt(next, Append(next.events, event))
             /\ pendingProposals' =
                  [pendingProposals EXCEPT ![p].status = "COMMITTED",
                                           ![p].transaction = next.outcomes[p]]
    <3>1. IsUntouched \/ IsRecordedRejection(p) \/ IsRecordedTransaction(p)
      BY <1>1, <2>1, <2>4, AdoptionIsRecorded
    <3>2. p \in DOMAIN outcomes' /\ outcomes' = next.outcomes
      BY <1>1, <2>1, <2>4, AdoptionIsRecorded
    <3>3. next.outcomes[p] \in Nat
      <4>1. OutcomesIndexLedger
        BY DEF WorkflowInvariant
      <4>2. ledger' \in Seq(Entry) /\ outcomes'[p] \in 0 .. Len(ledger')
        BY <1>1, <3>1, <3>2, <4>1, RecordKeepsIndex
      <4> QED
        BY <3>2, <4>2
    <3>4. /\ DOMAIN pendingProposals' = DOMAIN pendingProposals
          /\ \A q \in DOMAIN pendingProposals :
               /\ pendingProposals'[q] \in Proposal
               /\ \/ pendingProposals'[q].transaction = pendingProposals[q].transaction
                  \/ q = p /\ pendingProposals'[q].transaction = next.outcomes[p]
      BY <1>1, <2>4, <3>3 DEF TypeOK, Proposal, Status
    <3> QED
      BY <1>1, <2>1, <2>2, <2>4, <3>4, HandledCommitKeepsInvariant
  <2> QED
    BY <2>1, <2>3, <2>4
<1> QED
  BY <1>2, <1>3, <1>4

LEMMA InitEstablishesInvariant ==
    ASSUME Init
    PROVE  WorkflowInvariant
<1>1. /\ DOMAIN outcomes = {} /\ DOMAIN pendingProposals = {}
      /\ ledger = <<>> /\ acceptedEvents = <<>> /\ rejectedIds = {}
      /\ stateVersion = [a \in Assets |-> 1]
  BY DEF Init
<1>2. TypeOK
  BY <1>1 DEF TypeOK
<1>3. OutcomesIndexLedger /\ ProposalsFollowOutcomes /\ CreationsAreAnswered
  BY <1>1 DEF OutcomesIndexLedger, ProposalsFollowOutcomes, CreationsAreAnswered
<1> QED
  BY <1>2, <1>3 DEF WorkflowInvariant

LEMMA NextKeepsInvariant ==
    WorkflowInvariant /\ [Next]_vars => WorkflowInvariant'
<1> SUFFICES ASSUME WorkflowInvariant, [Next]_vars
             PROVE  WorkflowInvariant'
  OBVIOUS
<1>1. CASE Next
  <2>1. PICK id \in CommandId :
          \/ SubmitCommand(id)
          \/ CreateEndorsedProposal(id)
          \/ EndorsePendingProposal(id)
          \/ DeclinePendingProposal(id)
          \/ CommitPendingProposal(id)
    BY <1>1 DEF Next
  <2> QED
    BY <2>1, SubmitKeepsInvariant, CreateKeepsInvariant, EndorseKeepsInvariant,
       DeclineKeepsInvariant, CommitKeepsInvariant
<1>2. CASE UNCHANGED vars
  <2>1. UNCHANGED <<stateVersion, ledger, acceptedEvents, rejectedIds,
                    pendingProposals, outcomes>>
    BY <1>2 DEF vars
  <2> QED
    BY <2>1 DEF WorkflowInvariant, TypeOK, OutcomesIndexLedger, ProposalsFollowOutcomes,
                CreationsAreAnswered, IsAnswered
<1> QED
  BY <1>1, <1>2

-----------------------------------------------------------------------------
(* Who signed what is committed *)

\* Organization o signed proposal p by now.
SignedSoFar(p, o) == Signed(p, o, Len(acceptedEvents) + 1)

\* Nobody is listed on a proposal without an accepted signature of its own.
EndorsementsAreSigned ==
    \A p \in DOMAIN pendingProposals :
      \A i \in DOMAIN pendingProposals[p].endorsements :
        SignedSoFar(p, pendingProposals[p].endorsements[i].org)

\* An event of the ledger is about a command with an outcome.
MutationsAreOutcomes ==
    \A i \in DOMAIN acceptedEvents :
      acceptedEvents[i].kind = "LEDGER_MUTATION" => acceptedEvents[i].command \in DOMAIN outcomes

\* What CommittedAsEndorsed says of one proposal and one event, and of an entry.
IsBacked(p, i) ==
    /\ \E coalition \in Policies[Requests[p].type] : \A o \in coalition : Signed(p, o, i)
    /\ \A t \in DOMAIN ledger :
         ledger[t].command = p => \A o \in ledger[t].endorsers : Signed(p, o, i)
MutationsAreBacked ==
    \A i \in DOMAIN acceptedEvents, p \in Proposals :
      acceptedEvents[i].kind = "LEDGER_MUTATION" /\ acceptedEvents[i].command = p =>
        IsBacked(p, i)
EntriesAreUnmoved ==
    \A t \in DOMAIN ledger, p \in DOMAIN pendingProposals :
      ledger[t].command = p => ledger[t].before = pendingProposals[p].expected

EndorsementInvariant ==
    /\ WorkflowInvariant
    /\ DOMAIN pendingProposals \subseteq Proposals
    /\ EndorsementsAreSigned
    /\ MutationsAreOutcomes
    /\ MutationsAreBacked
    /\ EntriesAreUnmoved

\* The log is only appended to.
LogExtends ==
    /\ acceptedEvents \in Seq(Event) /\ acceptedEvents' \in Seq(Event)
    /\ Len(acceptedEvents) <= Len(acceptedEvents')
    /\ \A i \in DOMAIN acceptedEvents :
         i \in DOMAIN acceptedEvents' /\ acceptedEvents'[i] = acceptedEvents[i]

LEMMA GrowingLogExtends ==
    ASSUME TypeOK, EventsGrow
    PROVE  LogExtends
<1>1. acceptedEvents \in Seq(Event)
  BY DEF TypeOK
<1>2. CASE acceptedEvents' = acceptedEvents
  BY <1>1, <1>2 DEF LogExtends
<1>3. ASSUME NEW e \in Event, acceptedEvents' = Append(acceptedEvents, e)
      PROVE  LogExtends
  BY <1>1, <1>3 DEF LogExtends
<1>4. ASSUME NEW e \in Event, NEW f \in Event,
             acceptedEvents' = Append(Append(acceptedEvents, e), f)
      PROVE  LogExtends
  BY <1>1, <1>4 DEF LogExtends
<1> QED
  BY <1>2, <1>3, <1>4 DEF EventsGrow

\* A signature stays where it is, and one made so far precedes what is appended.
LEMMA SignaturesStay ==
    ASSUME LogExtends, NEW p, NEW o, NEW i \in Nat, Signed(p, o, i),
           NEW j \in Nat, i <= j
    PROVE  Signed(p, o, j)'
<1>1. CASE Requests[p].org = o
  BY <1>1 DEF Signed
<1>2. CASE Requests[p].org # o
  <2>1. PICK k \in EventsOf("PROPOSAL_ENDORSED", p) :
          k < i /\ Requests[acceptedEvents[k].command].org = o
    BY <1>2 DEF Signed
  <2>2. k \in DOMAIN acceptedEvents /\ acceptedEvents'[k] = acceptedEvents[k]
        /\ k \in DOMAIN acceptedEvents' /\ k \in Int
    BY <2>1 DEF EventsOf, LogExtends
  <2>3. k \in EventsOf("PROPOSAL_ENDORSED", p)'
    BY <2>1, <2>2 DEF EventsOf
  <2>4. k < j
    BY <2>1, <2>2
  <2> QED
    BY <2>1, <2>2, <2>3, <2>4 DEF Signed
<1> QED
  BY <1>1, <1>2

LEMMA SignedSoFarStays ==
    ASSUME LogExtends, NEW p, NEW o, SignedSoFar(p, o)
    PROVE  SignedSoFar(p, o)'
<1>1. PICK n \in Nat, j \in Nat :
        n = Len(acceptedEvents) + 1 /\ j = Len(acceptedEvents') + 1 /\ n <= j
  BY DEF LogExtends
<1>2. Signed(p, o, n)
  BY <1>1 DEF SignedSoFar
<1>3. Signed(p, o, j)'
  BY <1>1, <1>2, SignaturesStay
<1> QED
  BY <1>1, <1>3 DEF SignedSoFar, Signed

\* A step that leaves the ledger alone.
LEMMA QuietStepKeepsEndorsed ==
    ASSUME EndorsementInvariant, WorkflowInvariant', LogExtends,
           ledger' = ledger, DOMAIN outcomes \subseteq DOMAIN outcomes',
           \A i \in DOMAIN acceptedEvents' :
             acceptedEvents'[i].kind = "LEDGER_MUTATION" => i \in DOMAIN acceptedEvents,
           DOMAIN pendingProposals' \subseteq Proposals,
           EndorsementsAreSigned',
           \A p \in DOMAIN pendingProposals' :
             \/ /\ p \in DOMAIN pendingProposals
                /\ pendingProposals'[p].expected = pendingProposals[p].expected
             \/ \A t \in DOMAIN ledger : ledger[t].command # p
    PROVE  EndorsementInvariant'
<1>1. /\ MutationsAreBacked /\ EntriesAreUnmoved /\ MutationsAreOutcomes
      /\ ledger \in Seq(Entry)
  BY DEF EndorsementInvariant, WorkflowInvariant, TypeOK
<1>2. MutationsAreOutcomes'
  BY <1>1 DEF MutationsAreOutcomes, LogExtends
<1>3. MutationsAreBacked'
  <2>1. SUFFICES ASSUME NEW i \in DOMAIN acceptedEvents', NEW p \in Proposals,
                        acceptedEvents'[i].kind = "LEDGER_MUTATION",
                        acceptedEvents'[i].command = p
                 PROVE  IsBacked(p, i)'
    BY DEF MutationsAreBacked, Proposals, CommandId
  <2>2. /\ i \in DOMAIN acceptedEvents /\ acceptedEvents'[i] = acceptedEvents[i]
        /\ i \in Nat
    BY <2>1 DEF LogExtends
  <2>3. IsBacked(p, i)
    BY <1>1, <2>1, <2>2 DEF MutationsAreBacked
  <2>4. \A o : Signed(p, o, i) => Signed(p, o, i)'
    BY <2>2, SignaturesStay
  <2> QED
    BY <2>3, <2>4 DEF IsBacked
<1>4. EntriesAreUnmoved'
  BY <1>1 DEF EntriesAreUnmoved
<1> QED
  BY <1>2, <1>3, <1>4 DEF EndorsementInvariant, Proposals, CommandId

\* A step that may write the ledger, by command id: what it writes is backed by
\* the signatures made so far.
LEMMA HandledStepKeepsEndorsed ==
    ASSUME EndorsementInvariant, WorkflowInvariant', LogExtends,
           NEW id \in CommandId, id \notin DOMAIN outcomes,
           DOMAIN outcomes \cup {id} \subseteq DOMAIN outcomes',
           NEW e \in Entry, e.command = id, ledger' = Append(ledger, e),
           \A i \in DOMAIN acceptedEvents' :
             acceptedEvents'[i].kind = "LEDGER_MUTATION" =>
               \/ i \in DOMAIN acceptedEvents
               \/ i = Len(acceptedEvents) + 1 /\ acceptedEvents'[i].command = id,
           DOMAIN pendingProposals' = DOMAIN pendingProposals,
           \A p \in DOMAIN pendingProposals :
             /\ pendingProposals'[p].expected = pendingProposals[p].expected
             /\ pendingProposals'[p].endorsements = pendingProposals[p].endorsements,
           id \in Proposals =>
             /\ e.before = pendingProposals[id].expected
             /\ \E coalition \in Policies[Requests[id].type] :
                  \A o \in coalition : SignedSoFar(id, o)
             /\ \A o \in e.endorsers : SignedSoFar(id, o)
    PROVE  EndorsementInvariant'
<1>1. /\ MutationsAreBacked /\ EntriesAreUnmoved /\ MutationsAreOutcomes
      /\ EndorsementsAreSigned /\ OutcomesIndexLedger
      /\ DOMAIN pendingProposals \subseteq Proposals
      /\ ledger \in Seq(Entry)
  BY DEF EndorsementInvariant, WorkflowInvariant, TypeOK
<1>2. MutationsAreOutcomes'
  BY <1>1 DEF MutationsAreOutcomes, LogExtends
<1>3. /\ DOMAIN ledger' = DOMAIN ledger \cup {Len(ledger) + 1}
      /\ ledger'[Len(ledger) + 1] = e
      /\ \A t \in DOMAIN ledger : ledger'[t] = ledger[t]
  BY <1>1
<1>4. \A t \in DOMAIN ledger : ledger[t].command # id
  BY <1>1 DEF OutcomesIndexLedger
<1>5. MutationsAreBacked'
  <2>1. SUFFICES ASSUME NEW i \in DOMAIN acceptedEvents', NEW p \in Proposals,
                        acceptedEvents'[i].kind = "LEDGER_MUTATION",
                        acceptedEvents'[i].command = p
                 PROVE  IsBacked(p, i)'
    BY DEF MutationsAreBacked, Proposals, CommandId
  <2>2. CASE i \in DOMAIN acceptedEvents
    <3>1. acceptedEvents'[i] = acceptedEvents[i] /\ i \in Nat
      BY <2>2 DEF LogExtends
    <3>2. IsBacked(p, i) /\ p # id
      BY <1>1, <2>1, <2>2, <3>1 DEF MutationsAreBacked, MutationsAreOutcomes
    <3>3. \A o : Signed(p, o, i) => Signed(p, o, i)'
      BY <3>1, SignaturesStay
    <3>4. \A t \in DOMAIN ledger' : ledger'[t].command = p => t \in DOMAIN ledger
      BY <1>3, <3>2
    <3> QED
      BY <1>3, <3>2, <3>3, <3>4 DEF IsBacked
  <2>3. CASE i \notin DOMAIN acceptedEvents
    <3>1. i = Len(acceptedEvents) + 1 /\ p = id /\ i \in Nat
      BY <2>1, <2>3 DEF LogExtends
    <3>2. \A o : SignedSoFar(p, o) => Signed(p, o, i)'
      BY <3>1, SignaturesStay DEF SignedSoFar
    <3>3. \A t \in DOMAIN ledger' : ledger'[t].command = p => ledger'[t] = e
      BY <1>3, <1>4, <3>1
    <3> QED
      BY <3>1, <3>2, <3>3 DEF IsBacked
  <2> QED
    BY <2>2, <2>3
<1>6. EntriesAreUnmoved'
  BY <1>1, <1>3, <1>4 DEF EntriesAreUnmoved
<1>7. EndorsementsAreSigned'
  BY <1>1, SignedSoFarStays DEF EndorsementsAreSigned
<1> QED
  BY <1>1, <1>2, <1>5, <1>6, <1>7 DEF EndorsementInvariant, Proposals, CommandId

LEMMA KeptEndorsementsAreSigned ==
    ASSUME EndorsementsAreSigned, LogExtends,
           DOMAIN pendingProposals' = DOMAIN pendingProposals,
           \A p \in DOMAIN pendingProposals :
             pendingProposals'[p].endorsements = pendingProposals[p].endorsements
    PROVE  EndorsementsAreSigned'
  BY SignedSoFarStays DEF EndorsementsAreSigned

\* Adopting what the handler returns: a commit adds an event of its own.
LEMMA HandlingKeepsEndorsed ==
    ASSUME EndorsementInvariant, WorkflowInvariant',
           NEW id \in CommandId, Requests[id].kind \in {"SUBMIT", "CREATE"},
           NEW expected, NEW endorsers \in SUBSET Organizations, NEW isPermitted \in BOOLEAN,
           NEW next, next = HandleSimulationCommand(id, expected, endorsers, isPermitted),
           NEW event \in Event, event.kind # "LEDGER_MUTATION",
           NEW events, events = next.events \/ events = Append(next.events, event),
           Adopt(next, events),
           DOMAIN pendingProposals' = DOMAIN pendingProposals,
           \A p \in DOMAIN pendingProposals :
             /\ pendingProposals'[p].expected = pendingProposals[p].expected
             /\ pendingProposals'[p].endorsements = pendingProposals[p].endorsements,
           id \in Proposals =>
             /\ pendingProposals[id].expected = expected
             /\ \E coalition \in Policies[Requests[id].type] :
                  \A o \in coalition : SignedSoFar(id, o)
             /\ \A o \in endorsers : SignedSoFar(id, o)
    PROVE  EndorsementInvariant'
<1>1. /\ TypeOK /\ EndorsementsAreSigned /\ DOMAIN pendingProposals \subseteq Proposals
      /\ acceptedEvents \in Seq(Event) /\ ledger \in Seq(Entry)
  BY DEF EndorsementInvariant, WorkflowInvariant, TypeOK
<1> DEFINE isRefused == \/ ~Requests[id].isTrusted
                        \/ ~Requests[id].isAuthorized
                        \/ IsStale(id, expected)
                        \/ ~isPermitted
<1>2. CASE id \in DOMAIN outcomes \/ isRefused
  <2>1. /\ next.events = acceptedEvents /\ next.ledger = ledger
        /\ next.outcomes = outcomes \/ next.outcomes = Record(outcomes, id, None)
    <3>1. CASE id \in DOMAIN outcomes
      <4>1. next = Unchanged
        BY <3>1 DEF HandleSimulationCommand
      <4> QED
        BY <4>1 DEF Unchanged
    <3>2. CASE id \notin DOMAIN outcomes /\ isRefused
      <4>1. next = Rejected(id)
        BY <3>2 DEF HandleSimulationCommand
      <4> QED
        BY <4>1 DEF Rejected, Unchanged
    <3> QED
      BY <1>2, <3>1, <3>2
  <2> HIDE DEF isRefused
  <2>2. /\ ledger' = ledger /\ DOMAIN outcomes \subseteq DOMAIN outcomes'
        /\ acceptedEvents' = acceptedEvents \/ acceptedEvents' = Append(acceptedEvents, event)
    BY <2>1 DEF Adopt, Record
  <2>3. LogExtends
    BY <1>1, <2>2, GrowingLogExtends DEF EventsGrow
  <2>4. \A i \in DOMAIN acceptedEvents' :
          acceptedEvents'[i].kind = "LEDGER_MUTATION" => i \in DOMAIN acceptedEvents
    BY <1>1, <2>2
  <2>5. EndorsementsAreSigned'
    BY <1>1, <2>3, KeptEndorsementsAreSigned
  <2> QED
    BY <1>1, <2>2, <2>3, <2>4, <2>5, QuietStepKeepsEndorsed
<1>3. CASE id \notin DOMAIN outcomes /\ ~isRefused
  <2> DEFINE entry == [command |-> id, before |-> stateVersion[Requests[id].asset],
                       endorsers |-> endorsers]
             mutation == Happened("LEDGER_MUTATION", id, None)
  <2>1. next = Accepted(id, endorsers)
    BY <1>3 DEF HandleSimulationCommand
  <2>2. entry \in Entry /\ entry.command = id /\ entry.before = expected
        /\ entry.endorsers = endorsers
    BY <1>1, <1>3, ProposedFields DEF TypeOK, Entry, IsStale
  <2>3. mutation \in Event /\ mutation.command = id
    BY DEF Happened, Event, None
  <2> HIDE DEF isRefused, entry, mutation
  <2>4. /\ next.events = Append(acceptedEvents, mutation)
        /\ next.ledger = Append(ledger, entry)
        /\ next.outcomes = Record(outcomes, id, Len(ledger) + 1)
    BY <2>1 DEF Accepted, entry, mutation
  <2>5. /\ ledger' = Append(ledger, entry)
        /\ DOMAIN outcomes \cup {id} \subseteq DOMAIN outcomes'
        /\ \/ acceptedEvents' = Append(acceptedEvents, mutation)
           \/ acceptedEvents' = Append(Append(acceptedEvents, mutation), event)
    BY <2>4 DEF Adopt, Record
  <2>6. LogExtends
    BY <1>1, <2>3, <2>5, GrowingLogExtends DEF EventsGrow
  <2>7. \A i \in DOMAIN acceptedEvents' :
          acceptedEvents'[i].kind = "LEDGER_MUTATION" =>
            \/ i \in DOMAIN acceptedEvents
            \/ i = Len(acceptedEvents) + 1 /\ acceptedEvents'[i].command = id
    <3>1. CASE acceptedEvents' = Append(acceptedEvents, mutation)
      BY <1>1, <2>3, <3>1
    <3>2. CASE acceptedEvents' = Append(Append(acceptedEvents, mutation), event)
      BY <1>1, <2>3, <3>2
    <3> QED
      BY <2>5, <3>1, <3>2
  <2> QED
    BY <1>1, <1>3, <2>2, <2>5, <2>6, <2>7, HandledStepKeepsEndorsed
<1> QED
  BY <1>2, <1>3

LEMMA SubmitKeepsEndorsed ==
    ASSUME EndorsementInvariant, WorkflowInvariant', NEW id \in CommandId, SubmitCommand(id)
    PROVE  EndorsementInvariant'
<1>1. PICK expected \in 0 .. stateVersion[Requests[id].asset], isPermitted \in BOOLEAN :
        LET next == HandleSimulationCommand(id, expected, {}, isPermitted)
        IN  Adopt(next, next.events)
  BY DEF SubmitCommand
<1>2. PICK next : /\ next = HandleSimulationCommand(id, expected, {}, isPermitted)
                  /\ Adopt(next, next.events)
  BY <1>1
<1>3. /\ Requests[id].kind = "SUBMIT" /\ pendingProposals' = pendingProposals
      /\ id \notin Proposals
  BY DEF SubmitCommand, Proposals
<1>4. /\ Happened("PROPOSAL_CREATED", id, None) \in Event
      /\ Happened("PROPOSAL_CREATED", id, None).kind # "LEDGER_MUTATION"
  BY DEF Happened, Event, Decision
<1> QED
  BY <1>2, <1>3, <1>4, HandlingKeepsEndorsed

\* A decision or an audit event leaves the ledger alone and extends the log.
LEMMA QuietActionFacts ==
    ASSUME WorkflowInvariant, NEW id \in CommandId, NEW p \in CommandId, NEW kind \in Decision,
           Decide(kind, id, p) \/ RejectWorkflow(id) \/ Adopt(Rejected(id), acceptedEvents)
    PROVE  /\ LogExtends /\ ledger' = ledger
           /\ DOMAIN outcomes \subseteq DOMAIN outcomes'
           /\ \A i \in DOMAIN acceptedEvents' :
                acceptedEvents'[i].kind = "LEDGER_MUTATION" => i \in DOMAIN acceptedEvents
<1>1. TypeOK /\ acceptedEvents \in Seq(Event)
  BY DEF WorkflowInvariant, TypeOK
<1>2. CASE Decide(kind, id, p)
  <2>1. Happened(kind, id, p).kind # "LEDGER_MUTATION"
    BY DEF Happened, Decision
  <2>2. EventsGrow
    BY <1>1, <1>2, DecideGrows
  <2> QED
    BY <1>1, <1>2, <2>1, <2>2, GrowingLogExtends DEF Decide
<1>3. CASE RejectWorkflow(id)
  BY <1>1, <1>3, GrowingLogExtends DEF RejectWorkflow, EventsGrow
<1>4. CASE Adopt(Rejected(id), acceptedEvents)
  <2>1. /\ acceptedEvents' = acceptedEvents /\ ledger' = ledger
        /\ outcomes' = Record(outcomes, id, None)
    BY <1>4 DEF Adopt, Rejected, Unchanged
  <2> QED
    BY <1>1, <2>1, GrowingLogExtends DEF EventsGrow, Record
<1> QED
  BY <1>2, <1>3, <1>4

\* A quiet action that keeps what the proposals say is signed.
LEMMA QuietActionKeepsEndorsed ==
    ASSUME EndorsementInvariant, WorkflowInvariant',
           NEW id \in CommandId, NEW p \in CommandId, NEW kind \in Decision,
           Decide(kind, id, p) \/ RejectWorkflow(id) \/ Adopt(Rejected(id), acceptedEvents),
           DOMAIN pendingProposals' = DOMAIN pendingProposals,
           \A q \in DOMAIN pendingProposals :
             /\ pendingProposals'[q].expected = pendingProposals[q].expected
             /\ pendingProposals'[q].endorsements = pendingProposals[q].endorsements
    PROVE  EndorsementInvariant'
<1>1. /\ WorkflowInvariant /\ EndorsementsAreSigned
      /\ DOMAIN pendingProposals \subseteq Proposals
  BY DEF EndorsementInvariant
<1>2. /\ LogExtends /\ ledger' = ledger
      /\ DOMAIN outcomes \subseteq DOMAIN outcomes'
      /\ \A i \in DOMAIN acceptedEvents' :
           acceptedEvents'[i].kind = "LEDGER_MUTATION" => i \in DOMAIN acceptedEvents
  BY <1>1, QuietActionFacts
<1>3. EndorsementsAreSigned'
  BY <1>1, <1>2, KeptEndorsementsAreSigned
<1> QED
  BY <1>1, <1>2, <1>3, QuietStepKeepsEndorsed

LEMMA CreateKeepsEndorsed ==
    ASSUME EndorsementInvariant, WorkflowInvariant', NEW id \in CommandId,
           CreateEndorsedProposal(id)
    PROVE  EndorsementInvariant'
<1>1. /\ WorkflowInvariant /\ EndorsementsAreSigned
      /\ DOMAIN pendingProposals \subseteq Proposals
      /\ Requests[id].kind = "CREATE" /\ ~IsAnswered(id) /\ id \in Proposals
      /\ "PROPOSAL_CREATED" \in Decision
  BY DEF EndorsementInvariant, CreateEndorsedProposal, Proposals, Decision
<1> DEFINE records == <<[org |-> Requests[id].org, isAuthorized |-> TRUE]>>
           prior == SupersedePriorProposal(Requests[id].action)
           new(expected) == [expected |-> expected, endorsements |-> records,
                             status |-> StatusOf(Requests[id].type, records),
                             declines |-> <<>>, transaction |-> None]
<1>2. PICK expected \in 0 .. stateVersion[Requests[id].asset] :
        \/ /\ Decide("PROPOSAL_CREATED", id, id)
           /\ pendingProposals' = Record(prior, id, new(expected))
        \/ Adopt(Rejected(id), acceptedEvents) /\ UNCHANGED pendingProposals
  BY DEF CreateEndorsedProposal
<1>3. CASE /\ Decide("PROPOSAL_CREATED", id, id)
           /\ pendingProposals' = Record(prior, id, new(expected))
  <2>1. /\ LogExtends /\ ledger' = ledger
        /\ DOMAIN outcomes \subseteq DOMAIN outcomes'
        /\ \A i \in DOMAIN acceptedEvents' :
             acceptedEvents'[i].kind = "LEDGER_MUTATION" => i \in DOMAIN acceptedEvents
    BY <1>1, <1>3, QuietActionFacts
  <2>2. /\ DOMAIN prior = DOMAIN pendingProposals
        /\ \A p \in DOMAIN prior :
             /\ prior[p].expected = pendingProposals[p].expected
             /\ prior[p].endorsements = pendingProposals[p].endorsements
    BY <1>1 DEF SupersedePriorProposal, WorkflowInvariant, TypeOK, Proposal
  <2>3. /\ new(expected).endorsements = records
        /\ \A i \in DOMAIN records : records[i].org = Requests[id].org
    <3>1. records = <<[org |-> Requests[id].org, isAuthorized |-> TRUE]>>
      OBVIOUS
    <3>2. DOMAIN records = {1} /\ records[1] = [org |-> Requests[id].org, isAuthorized |-> TRUE]
      BY <3>1
    <3> HIDE DEF records
    <3>3. new(expected).endorsements = records
      OBVIOUS
    <3> QED
      BY <3>2, <3>3
  <2> HIDE DEF new, prior, records
  <2>4. /\ DOMAIN pendingProposals' = DOMAIN pendingProposals \cup {id}
        /\ pendingProposals'[id] = new(expected)
        /\ \A p \in DOMAIN pendingProposals : p # id => pendingProposals'[p] = prior[p]
    BY <1>3, <2>2 DEF Record
  <2>5. id \notin DOMAIN pendingProposals /\ \A t \in DOMAIN ledger : ledger[t].command # id
    BY <1>1 DEF WorkflowInvariant, CreationsAreAnswered, OutcomesIndexLedger
  <2>6. EndorsementsAreSigned'
    <3>1. SUFFICES ASSUME NEW p \in DOMAIN pendingProposals',
                          NEW i \in DOMAIN pendingProposals'[p].endorsements,
                          NEW o, o = pendingProposals'[p].endorsements[i].org
                   PROVE  SignedSoFar(p, o)'
      BY DEF EndorsementsAreSigned
    <3>2. CASE p = id
      BY <2>3, <2>4, <3>1, <3>2 DEF SignedSoFar, Signed
    <3>3. CASE p # id
      BY <1>1, <2>1, <2>2, <2>4, <3>1, <3>3, SignedSoFarStays DEF EndorsementsAreSigned
    <3> QED
      BY <3>2, <3>3
  <2>7. DOMAIN pendingProposals' \subseteq Proposals
    BY <1>1, <2>4
  <2>8. \A p \in DOMAIN pendingProposals' :
          \/ /\ p \in DOMAIN pendingProposals
             /\ pendingProposals'[p].expected = pendingProposals[p].expected
          \/ \A t \in DOMAIN ledger : ledger[t].command # p
    BY <2>2, <2>4, <2>5
  <2> QED
    BY <1>1, <2>1, <2>6, <2>7, <2>8, QuietStepKeepsEndorsed
<1>4. CASE Adopt(Rejected(id), acceptedEvents) /\ UNCHANGED pendingProposals
  BY <1>1, <1>4, QuietActionKeepsEndorsed
<1> QED
  BY <1>2, <1>3, <1>4

LEMMA EndorseKeepsEndorsed ==
    ASSUME EndorsementInvariant, WorkflowInvariant', NEW id \in CommandId,
           EndorsePendingProposal(id)
    PROVE  EndorsementInvariant'
<1> DEFINE p == Requests[id].proposal
           record == [org |-> Requests[id].org, isAuthorized |-> Requests[id].isAuthorized]
           records == Append(pendingProposals[p].endorsements, record)
<1>1. /\ WorkflowInvariant /\ TypeOK /\ EndorsementsAreSigned
      /\ DOMAIN pendingProposals \subseteq Proposals
      /\ p \in CommandId /\ p \in DOMAIN pendingProposals /\ pendingProposals[p] \in Proposal
      /\ "PROPOSAL_ENDORSED" \in Decision /\ acceptedEvents \in Seq(Event)
  BY FollowupFields
     DEF EndorsementInvariant, WorkflowInvariant, TypeOK, EndorsePendingProposal, Decision
<1>2. \/ /\ Decide("PROPOSAL_ENDORSED", id, p)
         /\ pendingProposals' = [pendingProposals EXCEPT
                                   ![p].endorsements = records,
                                   ![p].status = StatusOf(Requests[p].type, records)]
      \/ RejectWorkflow(id) /\ UNCHANGED pendingProposals
  BY DEF EndorsePendingProposal
<1>3. CASE /\ Decide("PROPOSAL_ENDORSED", id, p)
           /\ pendingProposals' = [pendingProposals EXCEPT
                                     ![p].endorsements = records,
                                     ![p].status = StatusOf(Requests[p].type, records)]
  <2>1. /\ LogExtends /\ ledger' = ledger
        /\ DOMAIN outcomes \subseteq DOMAIN outcomes'
        /\ \A i \in DOMAIN acceptedEvents' :
             acceptedEvents'[i].kind = "LEDGER_MUTATION" => i \in DOMAIN acceptedEvents
    BY <1>1, <1>3, QuietActionFacts
  <2>2. \A i \in DOMAIN records :
          \/ /\ i \in DOMAIN pendingProposals[p].endorsements
             /\ records[i] = pendingProposals[p].endorsements[i]
          \/ records[i] = record
    <3>1. pendingProposals[p].endorsements \in Seq(Endorsement)
      BY <1>1 DEF Proposal
    <3> HIDE DEF p, record
    <3> QED
      BY <3>1
  <2>3. record.org = Requests[id].org
    OBVIOUS
  <2> HIDE DEF record, records
  <2>4. /\ DOMAIN pendingProposals' = DOMAIN pendingProposals
        /\ pendingProposals'[p].endorsements = records
        /\ \A q \in DOMAIN pendingProposals :
             /\ pendingProposals'[q].expected = pendingProposals[q].expected
             /\ q # p => pendingProposals'[q] = pendingProposals[q]
    BY <1>1, <1>3 DEF TypeOK, Proposal
  <2>5. SignedSoFar(p, Requests[id].org)'
    <3>1. PICK k \in Nat : k = Len(acceptedEvents) + 1
      BY <1>1
    <3>2. /\ k \in DOMAIN acceptedEvents' /\ k < Len(acceptedEvents') + 1
          /\ acceptedEvents'[k] = Happened("PROPOSAL_ENDORSED", id, p)
      BY <1>1, <1>3, <3>1 DEF Decide
    <3>3. k \in EventsOf("PROPOSAL_ENDORSED", p)' /\ acceptedEvents'[k].command = id
      BY <3>2 DEF EventsOf, Happened
    <3> QED
      BY <3>2, <3>3 DEF SignedSoFar, Signed
  <2> HIDE DEF p
  <2>6. EndorsementsAreSigned'
    <3>1. SUFFICES ASSUME NEW q \in DOMAIN pendingProposals',
                          NEW i \in DOMAIN pendingProposals'[q].endorsements,
                          NEW o, o = pendingProposals'[q].endorsements[i].org
                   PROVE  SignedSoFar(q, o)'
      BY DEF EndorsementsAreSigned
    <3>2. CASE q \in DOMAIN pendingProposals /\ i \in DOMAIN pendingProposals[q].endorsements
               /\ o = pendingProposals[q].endorsements[i].org
      BY <1>1, <2>1, <3>2, SignedSoFarStays DEF EndorsementsAreSigned
    <3>3. CASE q = p /\ o = Requests[id].org
      BY <2>5, <3>3
    <3> QED
      BY <2>2, <2>3, <2>4, <3>1, <3>2, <3>3
  <2> QED
    BY <1>1, <2>1, <2>4, <2>6, QuietStepKeepsEndorsed
<1>4. CASE RejectWorkflow(id) /\ UNCHANGED pendingProposals
  BY <1>1, <1>4, QuietActionKeepsEndorsed
<1> QED
  BY <1>2, <1>3, <1>4

\* Rewriting the status and what is recorded beside it keeps the rest.
LEMMA StatusRewriteKeepsSigned ==
    ASSUME TypeOK, NEW p, NEW status, NEW declines, NEW transaction,
           \/ UNCHANGED pendingProposals
           \/ pendingProposals' = [pendingProposals EXCEPT ![p].status = status]
           \/ pendingProposals' = [pendingProposals EXCEPT ![p].status = status,
                                                           ![p].declines = declines]
           \/ pendingProposals' = [pendingProposals EXCEPT ![p].status = status,
                                                           ![p].transaction = transaction]
    PROVE  /\ DOMAIN pendingProposals' = DOMAIN pendingProposals
           /\ \A q \in DOMAIN pendingProposals :
                /\ pendingProposals'[q].expected = pendingProposals[q].expected
                /\ pendingProposals'[q].endorsements = pendingProposals[q].endorsements
<1>1. \A q \in DOMAIN pendingProposals : pendingProposals[q] \in Proposal
  BY DEF TypeOK
<1>2. CASE UNCHANGED pendingProposals
  BY <1>2
<1>3. CASE pendingProposals' = [pendingProposals EXCEPT ![p].status = status]
  BY <1>1, <1>3 DEF Proposal
<1>4. CASE pendingProposals' = [pendingProposals EXCEPT ![p].status = status,
                                                        ![p].declines = declines]
  BY <1>1, <1>4 DEF Proposal
<1>5. CASE pendingProposals' = [pendingProposals EXCEPT ![p].status = status,
                                                        ![p].transaction = transaction]
  BY <1>1, <1>5 DEF Proposal
<1> QED
  BY <1>2, <1>3, <1>4, <1>5

LEMMA DeclineKeepsEndorsed ==
    ASSUME EndorsementInvariant, WorkflowInvariant', NEW id \in CommandId,
           DeclinePendingProposal(id)
    PROVE  EndorsementInvariant'
<1> DEFINE p == Requests[id].proposal
<1>1. /\ TypeOK /\ p \in CommandId /\ "PROPOSAL_DECLINED" \in Decision
  BY FollowupFields
     DEF EndorsementInvariant, WorkflowInvariant, DeclinePendingProposal, Decision
<1>2. /\ Decide("PROPOSAL_DECLINED", id, p) \/ RejectWorkflow(id)
      /\ \/ UNCHANGED pendingProposals
         \/ pendingProposals' = [pendingProposals EXCEPT ![p].status = "DECLINED",
                                                         ![p].declines = Append(@, id)]
  BY DEF DeclinePendingProposal
<1> HIDE DEF p
<1>3. /\ DOMAIN pendingProposals' = DOMAIN pendingProposals
      /\ \A q \in DOMAIN pendingProposals :
           /\ pendingProposals'[q].expected = pendingProposals[q].expected
           /\ pendingProposals'[q].endorsements = pendingProposals[q].endorsements
  BY <1>1, <1>2, StatusRewriteKeepsSigned
<1> QED
  BY <1>1, <1>2, <1>3, QuietActionKeepsEndorsed

\* A commit hands over what a coalition signed, at the version it signed.
LEMMA CommitKeepsEndorsed ==
    ASSUME EndorsementInvariant, WorkflowInvariant', NEW id \in CommandId,
           CommitPendingProposal(id)
    PROVE  EndorsementInvariant'
<1> DEFINE p == Requests[id].proposal
           organizations == Counted(pendingProposals[p].endorsements)
           event == Happened("TRANSACTION_COMMITTED", id, p)
           handled(ok) == HandleSimulationCommand(p, pendingProposals[p].expected,
                                                  organizations, ok)
<1>1. /\ TypeOK /\ EndorsementsAreSigned
      /\ p \in CommandId /\ Requests[p].kind = "CREATE"
      /\ p \in DOMAIN pendingProposals /\ pendingProposals[p] \in Proposal
      /\ "TRANSACTION_COMMITTED" \in Decision
  BY FollowupFields
     DEF EndorsementInvariant, WorkflowInvariant, TypeOK, CommitPendingProposal, Decision
<1>2. CASE /\ RejectWorkflow(id)
           /\ \/ UNCHANGED pendingProposals
              \/ pendingProposals' = [pendingProposals EXCEPT ![p].status = "STALE"]
  <2>1. /\ DOMAIN pendingProposals' = DOMAIN pendingProposals
        /\ \A q \in DOMAIN pendingProposals :
             /\ pendingProposals'[q].expected = pendingProposals[q].expected
             /\ pendingProposals'[q].endorsements = pendingProposals[q].endorsements
    BY <1>1, <1>2, StatusRewriteKeepsSigned
  <2> QED
    BY <1>1, <1>2, <2>1, QuietActionKeepsEndorsed
<1>3. ASSUME IsSatisfied(Requests[p].type, organizations),
             NEW ok \in BOOLEAN, NEW next, next = handled(ok), NEW events,
             events = next.events \/ events = Append(next.events, event),
             Adopt(next, events),
             DOMAIN pendingProposals' = DOMAIN pendingProposals,
             \A q \in DOMAIN pendingProposals :
               /\ pendingProposals'[q].expected = pendingProposals[q].expected
               /\ pendingProposals'[q].endorsements = pendingProposals[q].endorsements
      PROVE  EndorsementInvariant'
  <2>1. \A o \in organizations : SignedSoFar(p, o)
    BY <1>1 DEF Counted, EndorsementsAreSigned
  <2>2. \E coalition \in Policies[Requests[p].type] : \A o \in coalition : SignedSoFar(p, o)
    BY <1>3, <2>1 DEF IsSatisfied
  <2>3. organizations \in SUBSET Organizations
    BY <1>1, CountedAreOrganizations DEF Proposal
  <2>4. event \in Event /\ event.kind # "LEDGER_MUTATION"
    BY <1>1 DEF Happened, Event, Decision
  <2>5. PICK q, o : q = p /\ o = organizations
    OBVIOUS
  <2>6. next = HandleSimulationCommand(q, pendingProposals[q].expected, o, ok)
    BY <1>3, <2>5
  <2>7. q \in CommandId /\ Requests[q].kind \in {"SUBMIT", "CREATE"} /\ o \in SUBSET Organizations
    BY <1>1, <2>3, <2>5
  <2>8. /\ \E coalition \in Policies[Requests[q].type] :
             \A m \in coalition : SignedSoFar(q, m)
        /\ \A m \in o : SignedSoFar(q, m)
    BY <2>1, <2>2, <2>5
  <2> HIDE DEF p, organizations, event, handled
  <2> QED
    BY <1>3, <2>4, <2>6, <2>7, <2>8, HandlingKeepsEndorsed
<1>4. \/ /\ RejectWorkflow(id)
         /\ \/ UNCHANGED pendingProposals
            \/ pendingProposals' = [pendingProposals EXCEPT ![p].status = "STALE"]
      \/ /\ IsSatisfied(Requests[p].type, organizations)
         /\ \E ok \in BOOLEAN :
              \/ Adopt(handled(ok), handled(ok).events) /\ UNCHANGED pendingProposals
              \/ /\ Adopt(handled(ok), Append(handled(ok).events, event))
                 /\ pendingProposals' =
                      [pendingProposals EXCEPT ![p].status = "COMMITTED",
                                               ![p].transaction = handled(ok).outcomes[p]]
  BY DEF CommitPendingProposal, TransactionOf
<1> HIDE DEF handled, p, organizations, event
<1>5. ASSUME IsSatisfied(Requests[p].type, organizations), NEW ok \in BOOLEAN,
             \/ Adopt(handled(ok), handled(ok).events) /\ UNCHANGED pendingProposals
             \/ /\ Adopt(handled(ok), Append(handled(ok).events, event))
                /\ pendingProposals' =
                     [pendingProposals EXCEPT ![p].status = "COMMITTED",
                                              ![p].transaction = handled(ok).outcomes[p]]
      PROVE  EndorsementInvariant'
  <2>1. /\ DOMAIN pendingProposals' = DOMAIN pendingProposals
        /\ \A q \in DOMAIN pendingProposals :
             /\ pendingProposals'[q].expected = pendingProposals[q].expected
             /\ pendingProposals'[q].endorsements = pendingProposals[q].endorsements
    <3> DEFINE t == handled(ok).outcomes[p]
    <3>1. \/ UNCHANGED pendingProposals
          \/ pendingProposals' = [pendingProposals EXCEPT ![p].status = "COMMITTED",
                                                          ![p].transaction = t]
      BY <1>5
    <3> HIDE DEF t
    <3> QED
      BY <1>1, <3>1, StatusRewriteKeepsSigned
  <2> QED
    BY <1>3, <1>5, <2>1
<1> QED
  BY <1>2, <1>4, <1>5

LEMMA InitEstablishesEndorsed ==
    ASSUME Init
    PROVE  EndorsementInvariant
<1>1. /\ DOMAIN pendingProposals = {} /\ ledger = <<>> /\ acceptedEvents = <<>>
  BY DEF Init
<1>2. /\ EndorsementsAreSigned /\ MutationsAreOutcomes
      /\ MutationsAreBacked /\ EntriesAreUnmoved
  BY <1>1 DEF EndorsementsAreSigned, MutationsAreOutcomes, MutationsAreBacked,
              EntriesAreUnmoved
<1> QED
  BY <1>1, <1>2, InitEstablishesInvariant DEF EndorsementInvariant

LEMMA NextKeepsEndorsed ==
    EndorsementInvariant /\ [Next]_vars => EndorsementInvariant'
<1> SUFFICES ASSUME EndorsementInvariant, [Next]_vars
             PROVE  EndorsementInvariant'
  OBVIOUS
<1>0. WorkflowInvariant'
  BY NextKeepsInvariant DEF EndorsementInvariant
<1>1. CASE Next
  <2>1. PICK id \in CommandId :
          \/ SubmitCommand(id)
          \/ CreateEndorsedProposal(id)
          \/ EndorsePendingProposal(id)
          \/ DeclinePendingProposal(id)
          \/ CommitPendingProposal(id)
    BY <1>1 DEF Next
  <2> QED
    BY <1>0, <2>1, SubmitKeepsEndorsed, CreateKeepsEndorsed, EndorseKeepsEndorsed,
       DeclineKeepsEndorsed, CommitKeepsEndorsed
<1>2. CASE UNCHANGED vars
  <2>1. UNCHANGED <<stateVersion, ledger, acceptedEvents, rejectedIds,
                    pendingProposals, outcomes>>
    BY <1>2 DEF vars
  <2> QED
    BY <1>0, <2>1 DEF EndorsementInvariant, Proposals, CommandId, EndorsementsAreSigned,
       SignedSoFar, Signed, EventsOf, MutationsAreOutcomes, MutationsAreBacked, IsBacked,
       EntriesAreUnmoved
<1> QED
  BY <1>1, <1>2

-----------------------------------------------------------------------------
(* Theorems *)

\* The inductive invariant holds.
THEOREM WorkflowInvariantHolds == Spec => []WorkflowInvariant
  BY InitEstablishesInvariant, NextKeepsInvariant, PTL DEF Spec

\* The runtime state stays well formed under every sequence of calls.
THEOREM WorkflowTypeCorrect == Spec => []TypeOK
<1>1. WorkflowInvariant => TypeOK
  BY DEF WorkflowInvariant
<1> QED
  BY <1>1, WorkflowInvariantHolds, PTL

\* A command enters the ledger once, however often it is delivered and its
\* proposal committed.
THEOREM OneTransactionEach == Spec => []OneTransactionPerCommand
<1>1. WorkflowInvariant => OneTransactionPerCommand
  BY DEF WorkflowInvariant, OutcomesIndexLedger, OneTransactionPerCommand
<1> QED
  BY <1>1, WorkflowInvariantHolds, PTL

\* A proposal names the transaction of its own command, whatever was ordered
\* around it.
THEOREM ProposalsNameTheirTransactions == Spec => []ProposalNamesItsTransaction
<1>1. WorkflowInvariant => ProposalNamesItsTransaction
  BY DEF WorkflowInvariant, OutcomesIndexLedger, ProposalsFollowOutcomes,
         ProposalNamesItsTransaction, None
<1> QED
  BY <1>1, WorkflowInvariantHolds, PTL

\* A proposed transaction enters the ledger only after a coalition of its policy
\* signed that very proposal, at the version of the asset that was signed.
THEOREM CommittedOnlyAsEndorsed == Spec => []CommittedAsEndorsed
<1>1. EndorsementInvariant => CommittedAsEndorsed
  BY DEF EndorsementInvariant, MutationsAreBacked, IsBacked, EntriesAreUnmoved,
         CommittedAsEndorsed
<1> QED
  BY <1>1, InitEstablishesEndorsed, NextKeepsEndorsed, PTL DEF Spec
-----------------------------------------------------------------------------
(* The attempt *)

IsSeq(s) == \E S : s \in Seq(S)

Decided == [DecisionIds -> [value : {0, 1}, attempts : Nat]]

\* Two records of decisions that differ in knowledge checks at most.
Agree(d, t) ==
    /\ d \in Decided
    /\ t \in Decided
    /\ \A id \in Consequential : t[id] = d[id]

ReplayFields == {"isValid", "processed", "runtime", "decisions"}

\* The replay has kept up with the learner.
Follows ==
    /\ replay = [f \in ReplayFields |-> replay[f]]
    /\ replay.isValid = TRUE
    /\ replay.processed = journal
    /\ replay.runtime = runtime
    /\ Agree(decisions, replay.decisions)

Judgment == "SUBMIT_CERTIFICATE_DECISION"

\* One initial decision on the certificate is journalled, and mitigations only after it.
CertificateOnce(j) ==
    /\ \A i, k \in DOMAIN j : j[i].op = Judgment /\ j[k].op = Judgment => i = k
    /\ \A m \in Mitigations : Has(j, m) => Has(j, Judgment)

IsStored(j) == "storage" \notin InitialFlaws(j) \/ Has(j, "REMEDIATE_STORAGE")
IsIssued(j) ==
    /\ "assessment" \notin InitialFlaws(j) \/ Has(j, "REVIEW_ISSUER")
    /\ "disposition" \notin InitialFlaws(j) \/ Has(j, "SUSPEND_LOT")

\* What the journal resolves of the certificate was recorded as right.
Settled(j, d) ==
    Has(j, Judgment) => /\ IsStored(j) => d["CERTIFICATE_STORAGE_CHOICE"].value = 1
                        /\ IsIssued(j) => d["CERTIFICATE_ISSUER_CHECK"].value = 1

AttemptInv ==
    /\ IsSeq(journal)
    /\ Follows
    /\ CertificateOnce(journal)
    /\ Settled(journal, decisions)

-----------------------------------------------------------------------------
(* Sequences *)

LEMMA SeqFacts ==
    ASSUME NEW s, IsSeq(s)
    PROVE  Len(s) \in Nat /\ DOMAIN s = 1 .. Len(s)
BY DEF IsSeq

LEMMA AppendFacts ==
    ASSUME NEW s, NEW e, IsSeq(s)
    PROVE  /\ IsSeq(Append(s, e))
           /\ Len(Append(s, e)) = Len(s) + 1
           /\ DOMAIN Append(s, e) = 1 .. Len(s) + 1
           /\ \A i \in DOMAIN s : Append(s, e)[i] = s[i]
           /\ Append(s, e)[Len(s) + 1] = e
<1>1. PICK S : s \in Seq(S)
  BY DEF IsSeq
<1>2. s \in Seq(S \union {e})
  BY <1>1
<1>3. Append(s, e) \in Seq(S \union {e})
  BY <1>2
<1>4. \A i \in 1 .. Len(s) : Append(s, e)[i] = s[i]
  BY <1>1
<1> QED
  BY <1>1, <1>2, <1>3, <1>4 DEF IsSeq

\* An entry is in a longer journal if it was in the journal or is the one appended.
LEMMA HasAppended ==
    ASSUME NEW j, NEW e, NEW op, IsSeq(j)
    PROVE  Has(Append(j, e), op) <=> Has(j, op) \/ e.op = op
<1>1. /\ DOMAIN Append(j, e) = 1 .. Len(j) + 1
      /\ DOMAIN j = 1 .. Len(j) /\ Len(j) \in Nat
      /\ \A i \in DOMAIN j : Append(j, e)[i] = j[i]
      /\ Append(j, e)[Len(j) + 1] = e
  BY AppendFacts, SeqFacts
<1>2. ASSUME Has(j, op) PROVE Has(Append(j, e), op)
  <2>1. PICK i \in DOMAIN j : j[i].op = op
    BY <1>2 DEF Has
  <2>2. i \in DOMAIN Append(j, e) /\ Append(j, e)[i].op = op
    BY <1>1, <2>1
  <2> QED
    BY <2>2 DEF Has
<1>3. ASSUME e.op = op PROVE Has(Append(j, e), op)
  <2>1. Len(j) + 1 \in DOMAIN Append(j, e)
    BY <1>1
  <2> QED
    BY <1>1, <1>3, <2>1 DEF Has
<1>4. ASSUME Has(Append(j, e), op), e.op # op PROVE Has(j, op)
  <2>1. PICK i \in DOMAIN Append(j, e) : Append(j, e)[i].op = op
    BY <1>4 DEF Has
  <2>2. i # Len(j) + 1
    BY <1>1, <1>4, <2>1
  <2>3. i \in DOMAIN j
    BY <1>1, <2>1, <2>2
  <2> QED
    BY <1>1, <2>1, <2>3 DEF Has
<1> QED
  BY <1>2, <1>3, <1>4

\* The flaws of the initial decision are those of the only entry that has them.
LEMMA InitialFlawsAre ==
    ASSUME NEW j, NEW i \in DOMAIN j, CertificateOnce(j), j[i].op = Judgment
    PROVE  InitialFlaws(j) = j[i].flaws
<1> DEFINE first == CHOOSE k \in DOMAIN j : j[k].op = "SUBMIT_CERTIFICATE_DECISION"
<1>1. first \in DOMAIN j /\ j[first].op = "SUBMIT_CERTIFICATE_DECISION"
  BY DEF Judgment
<1>2. first = i
  BY <1>1 DEF CertificateOnce, Judgment
<1> QED
  BY <1>2 DEF InitialFlaws

-----------------------------------------------------------------------------
(* Decisions *)

LEMMA Distinct ==
    /\ Consequential \subseteq DecisionIds
    /\ "CUSTODY_SCOPE" \in DecisionIds
    /\ \A s \in Stages : ChecksOf[s] \subseteq DecisionIds
    /\ \A s \in Stages : ChecksOf[s] \cap Consequential = {}
<1>1. Consequential \subseteq DecisionIds
  BY DEF DecisionIds
<1>2. \A s \in Stages : ChecksOf[s] \subseteq DecisionIds
  BY DEF DecisionIds
<1>3. "CUSTODY_SCOPE" \in ChecksOf[4] /\ 4 \in Stages
  BY DEF ChecksOf, Stages
<1>4. \A s \in Stages : ChecksOf[s] \cap Consequential = {}
  BY DEF ChecksOf, Stages, Consequential
<1> QED
  BY <1>1, <1>2, <1>3, <1>4

LEMMA RecordedDecision ==
    ASSUME NEW d \in Decided, NEW id \in DecisionIds, NEW value \in {0, 1}
    PROVE  /\ recordDecision(d, id, value) \in Decided
           /\ recordDecision(d, id, value)[id] =
                [value |-> value, attempts |-> d[id].attempts + 1]
           /\ \A other \in DecisionIds \ {id} : recordDecision(d, id, value)[other] = d[other]
  BY DEF Decided, recordDecision

\* What recording the same decision twice over comes to.
Alike(d, t, id, value) ==
    /\ Agree(recordDecision(d, id, value), recordDecision(t, id, value))
    /\ recordDecision(d, id, value)[id].value = value
    /\ \A other \in Consequential \ {id} : recordDecision(d, id, value)[other] = d[other]

LEMMA RecordedAlike ==
    ASSUME NEW d, NEW t, Agree(d, t), NEW id \in Consequential, NEW value \in {0, 1}
    PROVE  Alike(d, t, id, value)
<1>1. id \in DecisionIds /\ Consequential \subseteq DecisionIds
  BY Distinct
<1>2. d \in Decided /\ t \in Decided /\ t[id] = d[id]
  BY DEF Agree
<1>4. \A other \in Consequential \ {id} : t[other] = d[other] /\ other \in DecisionIds \ {id}
  BY <1>1 DEF Agree
<1>5. /\ recordDecision(d, id, value) \in Decided
      /\ recordDecision(d, id, value)[id] =
                [value |-> value, attempts |-> d[id].attempts + 1]
      /\ \A other \in DecisionIds \ {id} : recordDecision(d, id, value)[other] = d[other]
  BY <1>1, <1>2, RecordedDecision
<1>6. /\ recordDecision(t, id, value) \in Decided
      /\ recordDecision(t, id, value)[id] =
                [value |-> value, attempts |-> t[id].attempts + 1]
      /\ \A other \in DecisionIds \ {id} : recordDecision(t, id, value)[other] = t[other]
  BY <1>1, <1>2, RecordedDecision
<1>7. \A other \in Consequential :
         recordDecision(t, id, value)[other] = recordDecision(d, id, value)[other]
  BY <1>2, <1>4, <1>5, <1>6
<1>8. Agree(recordDecision(d, id, value), recordDecision(t, id, value))
  BY <1>5, <1>6, <1>7 DEF Agree
<1> QED
  BY <1>4, <1>5, <1>8 DEF Alike

LEMMA CertificateDecidedAlike ==
    ASSUME NEW d, NEW t, Agree(d, t), NEW flaws
    PROVE  /\ Agree(CertificateDecided(d, flaws), CertificateDecided(t, flaws))
           /\ CertificateDecided(d, flaws)["CERTIFICATE_STORAGE_CHOICE"].value =
                Score("storage" \notin flaws)
           /\ CertificateDecided(d, flaws)["CERTIFICATE_ISSUER_CHECK"].value =
                Score(flaws \subseteq {"storage"})
<1> DEFINE stored == Score("storage" \notin flaws)
           issued == Score(flaws \subseteq {"storage"})
           Storage(x) == recordDecision(x, "CERTIFICATE_STORAGE_CHOICE", stored)
           Issuer(x) == recordDecision(Storage(x), "CERTIFICATE_ISSUER_CHECK", issued)
           Submitted(x) == recordDecision(Issuer(x), "CERTIFICATE_INITIAL_SUBMITTED", 1)
           Complete(x) == recordDecision(Submitted(x), "CERTIFICATE_MITIGATION_COMPLETE", 1)
<1>1. \A x : CertificateDecided(x, flaws) =
             IF MitigationActions(flaws) = {} THEN Complete(x) ELSE Submitted(x)
  BY DEF CertificateDecided
<1>2. stored \in {0, 1} /\ issued \in {0, 1}
  BY DEF Score
<1>3. /\ "CERTIFICATE_STORAGE_CHOICE" \in Consequential
      /\ "CERTIFICATE_ISSUER_CHECK" \in Consequential
      /\ "CERTIFICATE_INITIAL_SUBMITTED" \in Consequential
      /\ "CERTIFICATE_MITIGATION_COMPLETE" \in Consequential
      /\ 1 \in {0, 1}
  BY DEF Consequential
<1> HIDE DEF stored, issued, Storage, Issuer, Submitted, Complete
<1>4. /\ Agree(Storage(d), Storage(t))
      /\ Storage(d)["CERTIFICATE_STORAGE_CHOICE"].value = stored
  <2>1. Alike(d, t, "CERTIFICATE_STORAGE_CHOICE", stored)
    BY <1>2, <1>3, RecordedAlike
  <2> QED
    BY <1>2, <1>3, <2>1 DEF Alike, Storage
<1>5. /\ Agree(Issuer(d), Issuer(t))
      /\ Issuer(d)["CERTIFICATE_ISSUER_CHECK"].value = issued
      /\ Issuer(d)["CERTIFICATE_STORAGE_CHOICE"] = Storage(d)["CERTIFICATE_STORAGE_CHOICE"]
  <2>1. Alike(Storage(d), Storage(t), "CERTIFICATE_ISSUER_CHECK", issued)
    BY <1>2, <1>3, <1>4, RecordedAlike
  <2> QED
    BY <1>2, <1>3, <1>4, <2>1 DEF Alike, Issuer
<1>6. /\ Agree(Submitted(d), Submitted(t))
      /\ Submitted(d)["CERTIFICATE_ISSUER_CHECK"] = Issuer(d)["CERTIFICATE_ISSUER_CHECK"]
      /\ Submitted(d)["CERTIFICATE_STORAGE_CHOICE"] = Issuer(d)["CERTIFICATE_STORAGE_CHOICE"]
  <2>1. Alike(Issuer(d), Issuer(t), "CERTIFICATE_INITIAL_SUBMITTED", 1)
    BY <1>3, <1>5, RecordedAlike
  <2> QED
    BY <1>3, <1>5, <2>1 DEF Alike, Submitted
<1>7. /\ Agree(Complete(d), Complete(t))
      /\ Complete(d)["CERTIFICATE_ISSUER_CHECK"] = Submitted(d)["CERTIFICATE_ISSUER_CHECK"]
      /\ Complete(d)["CERTIFICATE_STORAGE_CHOICE"] = Submitted(d)["CERTIFICATE_STORAGE_CHOICE"]
  <2>1. Alike(Submitted(d), Submitted(t), "CERTIFICATE_MITIGATION_COMPLETE", 1)
    BY <1>3, <1>6, RecordedAlike
  <2> QED
    BY <1>3, <1>6, <2>1 DEF Alike, Complete
<1> QED
  BY <1>1, <1>4, <1>5, <1>6, <1>7 DEF stored, issued

\* A mitigation records as right what is resolved by now, and nothing that was right.
LEMMA CertificateMitigatedAlike ==
    ASSUME NEW j, NEW d, NEW t, Agree(d, t)
    PROVE  /\ Agree(CertificateMitigated(j, d), CertificateMitigated(j, t))
           /\ IsStored(j) =>
                CertificateMitigated(j, d)["CERTIFICATE_STORAGE_CHOICE"].value = 1
           /\ IsIssued(j) =>
                CertificateMitigated(j, d)["CERTIFICATE_ISSUER_CHECK"].value = 1
<1> DEFINE Storage(x) ==
             IF IsStored(j) /\ x["CERTIFICATE_STORAGE_CHOICE"].value # 1
             THEN recordDecision(x, "CERTIFICATE_STORAGE_CHOICE", 1) ELSE x
           Issuer(x) ==
             IF IsIssued(j) /\ x["CERTIFICATE_ISSUER_CHECK"].value # 1
             THEN recordDecision(Storage(x), "CERTIFICATE_ISSUER_CHECK", 1) ELSE Storage(x)
           Complete(x) == recordDecision(Issuer(x), "CERTIFICATE_MITIGATION_COMPLETE", 1)
<1>1. \A x : CertificateMitigated(j, x) =
             IF /\ IsStored(j) /\ IsIssued(j)
                /\ x["CERTIFICATE_MITIGATION_COMPLETE"].attempts = 0
             THEN Complete(x) ELSE Issuer(x)
  BY DEF CertificateMitigated, IsStored, IsIssued
<1>2. /\ "CERTIFICATE_STORAGE_CHOICE" \in Consequential
      /\ "CERTIFICATE_ISSUER_CHECK" \in Consequential
      /\ "CERTIFICATE_MITIGATION_COMPLETE" \in Consequential
      /\ 1 \in {0, 1}
  BY DEF Consequential
<1>3. \A id \in Consequential : t[id] = d[id]
  BY DEF Agree
<1> HIDE DEF Storage, Issuer, Complete
<1>4. /\ Agree(Storage(d), Storage(t))
      /\ IsStored(j) => Storage(d)["CERTIFICATE_STORAGE_CHOICE"].value = 1
      /\ Storage(d)["CERTIFICATE_ISSUER_CHECK"] = d["CERTIFICATE_ISSUER_CHECK"]
  <2>1. Alike(d, t, "CERTIFICATE_STORAGE_CHOICE", 1)
    BY <1>2, <1>3, RecordedAlike
  <2> QED
    BY <1>2, <1>3, <2>1 DEF Alike, Storage
<1>5. /\ Agree(Issuer(d), Issuer(t))
      /\ IsIssued(j) => Issuer(d)["CERTIFICATE_ISSUER_CHECK"].value = 1
      /\ Issuer(d)["CERTIFICATE_STORAGE_CHOICE"] = Storage(d)["CERTIFICATE_STORAGE_CHOICE"]
  <2>1. Alike(Storage(d), Storage(t), "CERTIFICATE_ISSUER_CHECK", 1)
    BY <1>2, <1>3, <1>4, RecordedAlike
  <2> QED
    BY <1>2, <1>3, <1>4, <2>1 DEF Alike, Issuer
<1>6. /\ Agree(Complete(d), Complete(t))
      /\ Complete(d)["CERTIFICATE_ISSUER_CHECK"] = Issuer(d)["CERTIFICATE_ISSUER_CHECK"]
      /\ Complete(d)["CERTIFICATE_STORAGE_CHOICE"] = Issuer(d)["CERTIFICATE_STORAGE_CHOICE"]
  <2>1. Alike(Issuer(d), Issuer(t), "CERTIFICATE_MITIGATION_COMPLETE", 1)
    BY <1>2, <1>5, RecordedAlike
  <2> QED
    BY <1>2, <1>5, <2>1 DEF Alike, Complete
<1> QED
  BY <1>1, <1>2, <1>3, <1>4, <1>5, <1>6

\* Once all of it is settled and complete, a mitigation changes nothing.
LEMMA NothingLeftToMitigate ==
    ASSUME NEW j, NEW d, Has(j, Judgment), Settled(j, d),
           d["CERTIFICATE_MITIGATION_COMPLETE"].attempts # 0
    PROVE  CertificateMitigated(j, d) = d
  BY DEF CertificateMitigated, Settled, IsStored, IsIssued

LEMMA DiscrepancyDecidedAlike ==
    ASSUME NEW d, NEW t, Agree(d, t), NEW flaws
    PROVE  /\ Agree(DiscrepancyDecided(d, flaws), DiscrepancyDecided(t, flaws))
           /\ \A id \in {"CERTIFICATE_STORAGE_CHOICE", "CERTIFICATE_ISSUER_CHECK"} :
                 DiscrepancyDecided(d, flaws)[id] = d[id]
<1> DEFINE right == Score(flaws = {})
           Recorded(x) == recordDecision(x, "CORRECTION_RECORDED", right)
           Submitted(x) == recordDecision(Recorded(x), "DISCREPANCY_INITIAL_SUBMITTED", 1)
           Complete(x) == recordDecision(Submitted(x), "DISCREPANCY_MITIGATION_COMPLETE", 1)
           certificate == {"CERTIFICATE_STORAGE_CHOICE", "CERTIFICATE_ISSUER_CHECK"}
<1>1. \A x : DiscrepancyDecided(x, flaws) = IF flaws = {} THEN Complete(x) ELSE Submitted(x)
  BY DEF DiscrepancyDecided
<1>2. /\ {"CORRECTION_RECORDED", "DISCREPANCY_INITIAL_SUBMITTED",
          "DISCREPANCY_MITIGATION_COMPLETE"} \subseteq Consequential \ certificate
      /\ certificate \subseteq Consequential
      /\ right \in {0, 1} /\ 1 \in {0, 1}
  BY DEF Consequential, Score
<1> HIDE DEF right, Recorded, Submitted, Complete, certificate
<1>3. Agree(Recorded(d), Recorded(t)) /\ \A id \in certificate : Recorded(d)[id] = d[id]
  <2>1. Alike(d, t, "CORRECTION_RECORDED", right)
    BY <1>2, RecordedAlike
  <2> QED
    BY <1>2, <2>1 DEF Alike, Recorded
<1>4. /\ Agree(Submitted(d), Submitted(t))
      /\ \A id \in certificate : Submitted(d)[id] = Recorded(d)[id]
  <2>1. Alike(Recorded(d), Recorded(t), "DISCREPANCY_INITIAL_SUBMITTED", 1)
    BY <1>2, <1>3, RecordedAlike
  <2> QED
    BY <1>2, <1>3, <2>1 DEF Alike, Submitted
<1>5. /\ Agree(Complete(d), Complete(t))
      /\ \A id \in certificate : Complete(d)[id] = Submitted(d)[id]
  <2>1. Alike(Submitted(d), Submitted(t), "DISCREPANCY_MITIGATION_COMPLETE", 1)
    BY <1>2, <1>4, RecordedAlike
  <2> QED
    BY <1>2, <1>4, <2>1 DEF Alike, Complete
<1> QED
  BY <1>1, <1>3, <1>4, <1>5 DEF certificate

LEMMA DiscrepancyInvestigatedAlike ==
    ASSUME NEW d, NEW t, Agree(d, t)
    PROVE  /\ Agree(DiscrepancyInvestigated(d), DiscrepancyInvestigated(t))
           /\ \A id \in {"CERTIFICATE_STORAGE_CHOICE", "CERTIFICATE_ISSUER_CHECK"} :
                 DiscrepancyInvestigated(d)[id] = d[id]
<1> DEFINE Recorded(x) == recordDecision(x, "CORRECTION_RECORDED", 1)
           Complete(x) == recordDecision(Recorded(x), "DISCREPANCY_MITIGATION_COMPLETE", 1)
           certificate == {"CERTIFICATE_STORAGE_CHOICE", "CERTIFICATE_ISSUER_CHECK"}
<1>1. \A x : DiscrepancyInvestigated(x) = Complete(x)
  BY DEF DiscrepancyInvestigated
<1>2. /\ {"CORRECTION_RECORDED", "DISCREPANCY_MITIGATION_COMPLETE"}
           \subseteq Consequential \ certificate
      /\ certificate \subseteq Consequential /\ 1 \in {0, 1}
  BY DEF Consequential
<1> HIDE DEF Recorded, Complete, certificate
<1>3. Agree(Recorded(d), Recorded(t)) /\ \A id \in certificate : Recorded(d)[id] = d[id]
  <2>1. Alike(d, t, "CORRECTION_RECORDED", 1)
    BY <1>2, RecordedAlike
  <2> QED
    BY <1>2, <2>1 DEF Alike, Recorded
<1>4. /\ Agree(Complete(d), Complete(t))
      /\ \A id \in certificate : Complete(d)[id] = Recorded(d)[id]
  <2>1. Alike(Recorded(d), Recorded(t), "DISCREPANCY_MITIGATION_COMPLETE", 1)
    BY <1>2, <1>3, RecordedAlike
  <2> QED
    BY <1>2, <1>3, <2>1 DEF Alike, Complete
<1> QED
  BY <1>1, <1>3, <1>4 DEF certificate

LEMMA RecallDecidedAlike ==
    ASSUME NEW d, NEW t, Agree(d, t), NEW isAccepted \in BOOLEAN
    PROVE  /\ Agree(RecallDecided(d, isAccepted), RecallDecided(t, isAccepted))
           /\ \A id \in {"CERTIFICATE_STORAGE_CHOICE", "CERTIFICATE_ISSUER_CHECK"} :
                 RecallDecided(d, isAccepted)[id] = d[id]
<1> DEFINE right == Score(isAccepted)
           Recorded(x) == recordDecision(x, "RECALL_COMMITTED", right)
           Submitted(x) ==
             IF x["RECALL_INITIAL_SUBMITTED"].attempts = 0
             THEN recordDecision(Recorded(x), "RECALL_INITIAL_SUBMITTED", 1) ELSE Recorded(x)
           Complete(x) == recordDecision(Submitted(x), "RECALL_AUTHORIZATION_RESOLVED", 1)
           certificate == {"CERTIFICATE_STORAGE_CHOICE", "CERTIFICATE_ISSUER_CHECK"}
<1>1. \A x : RecallDecided(x, isAccepted) =
               IF isAccepted /\ x["RECALL_AUTHORIZATION_RESOLVED"].attempts = 0
               THEN Complete(x) ELSE Submitted(x)
  BY DEF RecallDecided
<1>2. /\ {"RECALL_COMMITTED", "RECALL_INITIAL_SUBMITTED", "RECALL_AUTHORIZATION_RESOLVED"}
           \subseteq Consequential \ certificate
      /\ certificate \subseteq Consequential
      /\ right \in {0, 1} /\ 1 \in {0, 1}
  BY DEF Consequential, Score
<1>3. \A id \in Consequential : t[id] = d[id]
  BY DEF Agree
<1> HIDE DEF right, Recorded, Submitted, Complete, certificate
<1>4. Agree(Recorded(d), Recorded(t)) /\ \A id \in certificate : Recorded(d)[id] = d[id]
  <2>1. Alike(d, t, "RECALL_COMMITTED", right)
    BY <1>2, RecordedAlike
  <2> QED
    BY <1>2, <2>1 DEF Alike, Recorded
<1>5. /\ Agree(Submitted(d), Submitted(t))
      /\ \A id \in certificate : Submitted(d)[id] = Recorded(d)[id]
  <2>1. Alike(Recorded(d), Recorded(t), "RECALL_INITIAL_SUBMITTED", 1)
    BY <1>2, <1>3, <1>4, RecordedAlike
  <2> QED
    BY <1>2, <1>3, <1>4, <2>1 DEF Alike, Submitted
<1>6. /\ Agree(Complete(d), Complete(t))
      /\ \A id \in certificate : Complete(d)[id] = Submitted(d)[id]
  <2>1. Alike(Submitted(d), Submitted(t), "RECALL_AUTHORIZATION_RESOLVED", 1)
    BY <1>2, <1>5, RecordedAlike
  <2> QED
    BY <1>2, <1>5, <2>1 DEF Alike, Complete
<1> QED
  BY <1>1, <1>2, <1>3, <1>4, <1>5, <1>6 DEF certificate

-----------------------------------------------------------------------------
(* What the screens offer *)

LEMMA StageReached ==
    ASSUME NEW stage \in 1 .. currentStage
    PROVE  stage \in Stages /\ \A earlier \in 1 .. stage - 1 : evaluateStageCompletion(earlier)
<1> DEFINE Done(s) == evaluateStageCompletion(s)
           First(s) == ~Done(s) /\ \A earlier \in 1 .. s - 1 : Done(earlier)
<1>1. CASE IsFinished
  BY <1>1 DEF currentStage, IsFinished, Stages
<1>2. CASE ~IsFinished
  <2>1. currentStage = CHOOSE s \in Stages : First(s)
    BY <1>2 DEF currentStage
  <2>2. \E s \in Stages : ~Done(s)
    BY <1>2 DEF IsFinished
  <2> HIDE DEF Done
  <2>3. ASSUME \A s \in Stages : ~First(s) PROVE FALSE
    <3>1. Done(1)
      BY <2>3 DEF Stages
    <3>2. Done(2)
      BY <2>3, <3>1 DEF Stages
    <3>3. Done(3)
      BY <2>3, <3>1, <3>2 DEF Stages
    <3>4. Done(4)
      BY <2>3, <3>1, <3>2, <3>3 DEF Stages
    <3>5. Done(5)
      BY <2>3, <3>1, <3>2, <3>3, <3>4 DEF Stages
    <3>6. Done(6)
      BY <2>3, <3>1, <3>2, <3>3, <3>4, <3>5 DEF Stages
    <3>7. Done(7)
      BY <2>3, <3>1, <3>2, <3>3, <3>4, <3>5, <3>6 DEF Stages
    <3>8. Done(8)
      BY <2>3, <3>1, <3>2, <3>3, <3>4, <3>5, <3>6, <3>7 DEF Stages
    <3>9. Done(9)
      BY <2>3, <3>1, <3>2, <3>3, <3>4, <3>5, <3>6, <3>7, <3>8 DEF Stages
    <3> QED
      BY <2>2, <3>1, <3>2, <3>3, <3>4, <3>5, <3>6, <3>7, <3>8, <3>9 DEF Stages
  <2>4. currentStage \in Stages /\ First(currentStage)
    BY <2>1, <2>3
  <2> QED
    BY <2>4 DEF Stages, Done
<1> QED
  BY <1>1, <1>2

\* What is known of a stage and a control that it offers.
Fits(stage, c) ==
    /\ c.kind = "CHECK" => \E s \in Stages : c.name \in ChecksOf[s]
    /\ c.kind = "COMMAND" => c.name \in Commands /\ ~IsEndorsed(c.name)
    /\ c.kind = "SEAL" => runtime.ordered # {}
    /\ c.kind = "PROPOSE" => IsEndorsed(c.name)
    /\ c.kind \in {"ENDORSE", "DECLINE", "COMMIT"} =>
         IsEndorsed(c.name) /\ endorsementStage[c.name] = stage
    /\ c.kind = "HANDOFF" =>
         /\ stage \in DOMAIN roleHandoffs
         /\ activeContextIdForStage(stage, journal) = roleHandoffs[stage].from
    /\ c.kind = "MITIGATE" =>
         \/ stage = 3 /\ c.name \in Mitigations /\ Has(journal, Judgment)
         \/ /\ stage = 5 /\ c.name = "INVESTIGATE_DISCREPANCY"
            /\ Has(journal, "SUBMIT_DISCREPANCY_DECISION")
            /\ decisions["CORRECTION_RECORDED"].value # 1
    /\ c = Control("DECIDE", "CERTIFICATE") => ~Has(journal, Judgment)
    /\ c = Control("DECIDE", "DISCREPANCY") => ~Has(journal, "SUBMIT_DISCREPANCY_DECISION")

LEMMA CommandFits ==
    ASSUME NEW stage, NEW action \in Commands, ~IsEndorsed(action),
           NEW c \in CommandControls(action)
    PROVE  Fits(stage, c)
  BY DEF CommandControls, Control, Fits

LEMMA UnendorsedFits ==
    ASSUME NEW stage, NEW action \in Commands, action \notin DOMAIN Coalition,
           NEW c \in CommandControls(action)
    PROVE  Fits(stage, c)
<1>1. ~IsEndorsed(action)
  BY DEF IsEndorsed
<1> QED
  BY <1>1, CommandFits

LEMMA ProposalFits ==
    ASSUME NEW action \in DOMAIN Coalition, IsEndorsed(action),
           NEW c \in ProposalControls(action)
    PROVE  Fits(endorsementStage[action], c)
<1> DEFINE stage == endorsementStage[action]
           me == activeContextIdForStage(stage, journal)
<1>1. stage \in {4, 5} /\ DOMAIN roleHandoffs = {4, 5, 9}
  BY DEF Coalition, endorsementStage, roleHandoffs
<1>2. \/ c = Control("PROPOSE", action)
      \/ \E kind \in {"HANDOFF", "ENDORSE", "DECLINE", "COMMIT", "SEAL"} :
            /\ c = Control(kind, action)
            /\ kind = "HANDOFF" => me = roleHandoffs[stage].from
            /\ kind = "SEAL" => action \in runtime.ordered
  BY DEF ProposalControls
<1> HIDE DEF stage, me
<1>3. IsEndorsed(action) /\ me = activeContextIdForStage(stage, journal)
      /\ stage = endorsementStage[action]
  BY DEF me, stage
<1> QED
  BY <1>1, <1>2, <1>3 DEF Fits, Control

LEMMA ActionFits ==
    ASSUME NEW action \in DOMAIN Coalition, NEW c \in ActionControls(action)
    PROVE  Fits(endorsementStage[action], c)
<1>1. action \in Commands
  BY DEF Coalition, Commands, commandContextByAction
<1>2. CASE IsEndorsed(action)
  BY <1>2, ProposalFits DEF ActionControls
<1>3. CASE ~IsEndorsed(action)
  BY <1>1, <1>3, CommandFits DEF ActionControls
<1> QED
  BY <1>2, <1>3

LEMMA CheckFits ==
    ASSUME NEW stage, NEW s \in Stages, NEW id \in ChecksOf[s], NEW isLocked, NEW at,
           NEW c \in CheckControls(at, id, isLocked)
    PROVE  Fits(stage, c)
<1>1. c = Control("CHECK", id)
  BY DEF CheckControls
<1> QED
  BY <1>1 DEF Fits, Control

LEMMA AnswerableFits ==
    ASSUME NEW stage, NEW s \in Stages, NEW c \in Answerable(s)
    PROVE  Fits(stage, c)
<1>1. PICK id \in ChecksOf[s] : c \in CheckControls(s, id, TRUE)
  BY DEF Answerable
<1> QED
  BY <1>1, CheckFits

LEMMA CertificateFits ==
    ASSUME NEW c \in CertificateControls
    PROVE  Fits(3, c)
<1>1. CASE ~Has(journal, "SUBMIT_CERTIFICATE_DECISION")
  <2>1. c = Control("DECIDE", "CERTIFICATE")
    BY <1>1 DEF CertificateControls
  <2> QED
    BY <1>1, <2>1 DEF Fits, Control, Judgment
<1>2. CASE Has(journal, "SUBMIT_CERTIFICATE_DECISION")
  <2>1. \/ \E m \in Mitigations : c = Control("MITIGATE", m)
        \/ c \in CommandControls("ANCHOR_CERTIFICATE")
        \/ c \in CommandControls("ISSUE_CERTIFICATE")
        \/ c = Control("COMMAND", "SUSPICIOUS_CERTIFICATE")
    BY <1>2 DEF CertificateControls, MitigationActions
  <2>2. ASSUME NEW m \in Mitigations, c = Control("MITIGATE", m) PROVE Fits(3, c)
    BY <1>2, <2>2 DEF Fits, Control, Judgment
  <2>3. /\ "ANCHOR_CERTIFICATE" \in Commands \ DOMAIN Coalition
        /\ "ISSUE_CERTIFICATE" \in Commands \ DOMAIN Coalition
        /\ "SUSPICIOUS_CERTIFICATE" \in Commands \ DOMAIN Coalition
    BY DEF Commands, commandContextByAction, Coalition
  <2>4. ASSUME c = Control("COMMAND", "SUSPICIOUS_CERTIFICATE") PROVE Fits(3, c)
    BY <2>3, <2>4 DEF Fits, Control, IsEndorsed
  <2> QED
    BY <2>1, <2>2, <2>3, <2>4, UnendorsedFits
<1> QED
  BY <1>1, <1>2

LEMMA ShippingFits ==
    ASSUME NEW c \in ShippingControls
    PROVE  Fits(4, c)
<1>1. \/ \E isLocked : c \in CheckControls(4, "CUSTODY_SCOPE", isLocked)
      \/ c \in ActionControls("TRANSFER_CUSTODY")
      \/ c \in CommandControls("RECORD_TRANSPORT")
  BY DEF ShippingControls
<1>2. /\ "CUSTODY_SCOPE" \in ChecksOf[4] /\ 4 \in Stages
      /\ "RECORD_TRANSPORT" \in Commands \ DOMAIN Coalition
      /\ "TRANSFER_CUSTODY" \in DOMAIN Coalition
      /\ endorsementStage["TRANSFER_CUSTODY"] = 4
  BY DEF ChecksOf, Stages, Commands, commandContextByAction, Coalition, endorsementStage
<1> QED
  BY <1>1, <1>2, CheckFits, ActionFits, UnendorsedFits

LEMMA ReceivingFits ==
    ASSUME NEW c \in ReceivingControls
    PROVE  Fits(5, c)
<1> DEFINE isDecided == Has(journal, "SUBMIT_DISCREPANCY_DECISION")
<1>1. \/ c \in CommandControls("RECEIVE_BATCH")
      \/ c \in CommandControls("PURCHASE_ON_RECEIPT")
      \/ c \in ActionControls("RECORD_CORRECTION")
      \/ /\ isDecided /\ decisions["CORRECTION_RECORDED"].value # 1
         /\ c = Control("MITIGATE", "INVESTIGATE_DISCREPANCY")
      \/ ~isDecided /\ c = Control("DECIDE", "DISCREPANCY")
  BY DEF ReceivingControls
<1>2. /\ "RECEIVE_BATCH" \in Commands \ DOMAIN Coalition
      /\ "PURCHASE_ON_RECEIPT" \in Commands \ DOMAIN Coalition
      /\ "RECORD_CORRECTION" \in DOMAIN Coalition
      /\ endorsementStage["RECORD_CORRECTION"] = 5
  BY DEF Commands, commandContextByAction, Coalition, endorsementStage
<1>3. ASSUME isDecided, decisions["CORRECTION_RECORDED"].value # 1,
             c = Control("MITIGATE", "INVESTIGATE_DISCREPANCY")
      PROVE  Fits(5, c)
  BY <1>3 DEF Fits, Control
<1>4. ASSUME ~isDecided, c = Control("DECIDE", "DISCREPANCY") PROVE Fits(5, c)
  BY <1>4 DEF Fits, Control
<1> QED
  BY <1>1, <1>2, <1>3, <1>4, ActionFits, UnendorsedFits

LEMMA RecallFits ==
    ASSUME NEW c \in RecallControls
    PROVE  Fits(9, c)
<1>1. \/ \E isLocked : c \in CheckControls(9, "RECALL_SCOPE", isLocked)
      \/ c \in CheckControls(9, "NECESSITY", TRUE)
      \/ /\ activeContextIdForStage(9, journal) = roleHandoffs[9].from
         /\ c = Control("HANDOFF", "RECALL")
      \/ c \in CommandControls("RECALL_BATCH")
  BY DEF RecallControls
<1>2. /\ "RECALL_SCOPE" \in ChecksOf[9] /\ "NECESSITY" \in ChecksOf[9] /\ 9 \in Stages
      /\ "RECALL_BATCH" \in Commands \ DOMAIN Coalition
      /\ DOMAIN roleHandoffs = {4, 5, 9}
  BY DEF ChecksOf, Stages, Commands, commandContextByAction, Coalition, roleHandoffs
<1>3. ASSUME activeContextIdForStage(9, journal) = roleHandoffs[9].from,
             c = Control("HANDOFF", "RECALL")
      PROVE  Fits(9, c)
  BY <1>2, <1>3 DEF Fits, Control
<1> QED
  BY <1>1, <1>2, <1>3, CheckFits, UnendorsedFits

LEMMA OfferedFits ==
    ASSUME NEW stage \in Stages, NEW c \in Offered(stage)
    PROVE  Fits(stage, c)
<1>1. c \in StageControls(stage)
  BY DEF Offered
<1>2. /\ {"CREATE_BATCH", "TRANSFORM_BATCH", "PACKAGE_BATCH", "TRANSFER_OWNERSHIP",
          "DISPATCH_BATCH"} \subseteq Commands \ DOMAIN Coalition
      /\ {1, 6, 8} \subseteq Stages
  BY DEF Commands, commandContextByAction, Coalition, Stages
<1>3. CASE stage = 3
  BY <1>1, <1>3, CertificateFits DEF StageControls
<1>4. CASE stage = 4
  BY <1>1, <1>4, ShippingFits DEF StageControls
<1>5. CASE stage = 5
  BY <1>1, <1>5, ReceivingFits DEF StageControls
<1>6. CASE stage = 9
  BY <1>1, <1>6, RecallFits DEF StageControls
<1>7. CASE stage \in {1, 2, 6, 7, 8}
  <2>1. \/ \E s \in {1, 6, 8} : c \in Answerable(s)
        \/ \E action \in {"CREATE_BATCH", "TRANSFORM_BATCH", "PACKAGE_BATCH",
                           "TRANSFER_OWNERSHIP", "DISPATCH_BATCH"} : c \in CommandControls(action)
    BY <1>1, <1>7 DEF StageControls
  <2> QED
    BY <1>2, <2>1, AnswerableFits, UnendorsedFits
<1> QED
  BY <1>3, <1>4, <1>5, <1>6, <1>7 DEF Stages

-----------------------------------------------------------------------------
(* What a mutation leaves of the invariant *)

ProposalOps == {"CREATE_ENDORSED_PROPOSAL", "CREATE_ENDORSED_CORRECTION_PROPOSAL"}
EndorsementOps ==
    {"ENDORSE_TRANSACTION_PROPOSAL", "DECLINE_TRANSACTION_PROPOSAL", "COMMIT_ENDORSED_TRANSACTION"}
DecisionOps ==
    Mitigations \cup {Judgment, "SUBMIT_DISCREPANCY_DECISION", "INVESTIGATE_DISCREPANCY"}

\* Each kind of entry is replayed by the part of the replay that is meant for it.
LEMMA ReplayIs ==
    ASSUME NEW s, NEW e, s.isValid = TRUE
    PROVE  /\ e.op = "ROLE_HANDOFF" => ReplayEntry(s, e) = ReplayHandoff(s, e)
           /\ e.op = "SEAL_PENDING_BLOCK" => ReplayEntry(s, e) = sealPending(s, e)
           /\ e.op \in ProposalOps => ReplayEntry(s, e) = ReplayProposal(s, e)
           /\ e.op \in EndorsementOps => ReplayEntry(s, e) = ReplayEndorsement(s, e)
           /\ e.op \in DecisionOps => ReplayEntry(s, e) = ReplayDecision(s, e)
           /\ e.op \in Commands => ReplayEntry(s, e) = ReplayCommand(s, e)
<1>1. ASSUME e.op \in DecisionOps
      PROVE  /\ consequentialStage(e.op) # 0
             /\ e.op \notin {"ROLE_HANDOFF", "SEAL_PENDING_BLOCK"} \cup ProposalOps
                           \cup EndorsementOps
  BY <1>1 DEF consequentialStage, DecisionOps, Judgment, Mitigations, ProposalOps, EndorsementOps
<1>2. ASSUME e.op \in Commands
      PROVE  /\ consequentialStage(e.op) = 0
             /\ e.op \notin {"ROLE_HANDOFF", "SEAL_PENDING_BLOCK"} \cup ProposalOps
                           \cup EndorsementOps
  BY <1>2 DEF consequentialStage, Mitigations, Commands, commandContextByAction, ProposalOps,
              EndorsementOps
<1>3. ASSUME e.op = "ROLE_HANDOFF" PROVE ReplayEntry(s, e) = ReplayHandoff(s, e)
  BY <1>3 DEF ReplayEntry, consequentialStage, Mitigations
<1>4. ASSUME e.op = "SEAL_PENDING_BLOCK" PROVE ReplayEntry(s, e) = sealPending(s, e)
  BY <1>4 DEF ReplayEntry, consequentialStage, Mitigations
<1>5. ASSUME e.op \in ProposalOps PROVE ReplayEntry(s, e) = ReplayProposal(s, e)
  BY <1>5 DEF ReplayEntry, consequentialStage, Mitigations, ProposalOps
<1>6. ASSUME e.op \in EndorsementOps PROVE ReplayEntry(s, e) = ReplayEndorsement(s, e)
  BY <1>6 DEF ReplayEntry, consequentialStage, Mitigations, EndorsementOps
<1>7. ASSUME e.op \in DecisionOps PROVE ReplayEntry(s, e) = ReplayDecision(s, e)
  BY <1>1, <1>7 DEF ReplayEntry, ProposalOps, EndorsementOps
<1>8. ASSUME e.op \in Commands PROVE ReplayEntry(s, e) = ReplayCommand(s, e)
  BY <1>2, <1>8 DEF ReplayEntry, ProposalOps, EndorsementOps
<1> QED
  BY <1>3, <1>4, <1>5, <1>6, <1>7, <1>8

LEMMA RecordKeeps ==
    ASSUME AttemptInv, NEW entry, NEW nextRuntime, NEW nextDecisions, NEW theirs,
           commitMutation(entry, nextRuntime, nextDecisions),
           ReplayEntry(replay, entry) = Processed(replay, entry, nextRuntime, theirs),
           Agree(nextDecisions, theirs),
           CertificateOnce(Append(journal, entry)),
           Settled(Append(journal, entry), nextDecisions)
    PROVE  AttemptInv'
<1>1. CASE UNCHANGED <<journal, runtime, decisions, replay>>
  BY <1>1 DEF AttemptInv, Follows
<1>2. CASE /\ journal' = Append(journal, entry)
           /\ replay' = ReplayEntry(replay, entry)
           /\ runtime' = nextRuntime
           /\ decisions' = nextDecisions
  <2>1. replay = [f \in ReplayFields |-> replay[f]] /\ replay.isValid = TRUE
        /\ replay.processed = journal
    BY DEF AttemptInv, Follows
  <2>2. /\ replay' = [f \in ReplayFields |-> replay'[f]]
        /\ replay'.isValid = TRUE
        /\ replay'.processed = Append(journal, entry)
        /\ replay'.runtime = nextRuntime
        /\ replay'.decisions = theirs
    <3>1. replay' = Processed(replay, entry, nextRuntime, theirs)
      BY <1>2
    <3> QED
      BY <2>1, <3>1 DEF Processed, ReplayFields
  <2>3. Follows'
    BY <1>2, <2>2 DEF Follows
  <2>4. IsSeq(journal')
    BY <1>2, AppendFacts DEF AttemptInv
  <2>5. CertificateOnce(journal') /\ Settled(journal', decisions')
    BY <1>2
  <2> QED
    BY <2>3, <2>4, <2>5 DEF AttemptInv
<1> QED
  BY <1>1, <1>2 DEF commitMutation

\* An entry of anything but the certificate settles and disturbs nothing of it.
LEMMA OtherEntry ==
    ASSUME AttemptInv, NEW entry, entry.op \notin Mitigations \cup {Judgment},
           NEW nextDecisions,
           \A id \in {"CERTIFICATE_STORAGE_CHOICE", "CERTIFICATE_ISSUER_CHECK"} :
              nextDecisions[id] = decisions[id]
    PROVE  /\ CertificateOnce(Append(journal, entry))
           /\ Settled(Append(journal, entry), nextDecisions)
<1> DEFINE next == Append(journal, entry)
<1>1. /\ DOMAIN next = 1 .. Len(journal) + 1
      /\ DOMAIN journal = 1 .. Len(journal) /\ Len(journal) \in Nat
      /\ \A i \in DOMAIN journal : next[i] = journal[i]
      /\ next[Len(journal) + 1] = entry
  BY AppendFacts, SeqFacts DEF AttemptInv
<1>2. \A op \in Mitigations \cup {Judgment} : Has(next, op) <=> Has(journal, op)
  BY HasAppended DEF AttemptInv
<1> HIDE DEF next
<1>3. ASSUME NEW i \in DOMAIN next, next[i].op = Judgment
      PROVE  i \in DOMAIN journal /\ journal[i].op = Judgment /\ next[i] = journal[i]
  <2>1. i # Len(journal) + 1
    BY <1>1, <1>3
  <2>2. i \in DOMAIN journal
    BY <1>1, <2>1
  <2> QED
    BY <1>1, <1>3, <2>2
<1>4. CertificateOnce(next)
  BY <1>2, <1>3 DEF AttemptInv, CertificateOnce
<1>5. Settled(next, nextDecisions)
  <2>1. SUFFICES ASSUME Has(next, Judgment)
                 PROVE  /\ IsStored(next) =>
                             nextDecisions["CERTIFICATE_STORAGE_CHOICE"].value = 1
                        /\ IsIssued(next) =>
                             nextDecisions["CERTIFICATE_ISSUER_CHECK"].value = 1
    BY DEF Settled
  <2>2. PICK i \in DOMAIN next : next[i].op = Judgment
    BY <2>1 DEF Has
  <2>3. i \in DOMAIN journal /\ journal[i].op = Judgment /\ next[i] = journal[i]
    BY <1>3, <2>2
  <2>4. InitialFlaws(next) = next[i].flaws
    BY <1>4, <2>2, InitialFlawsAre
  <2>5. InitialFlaws(journal) = journal[i].flaws
    BY <2>3, InitialFlawsAre DEF AttemptInv
  <2>6. {"REVIEW_ISSUER", "REMEDIATE_STORAGE", "SUSPEND_LOT"} \subseteq Mitigations
    BY DEF Mitigations
  <2>7. (IsStored(next) <=> IsStored(journal)) /\ (IsIssued(next) <=> IsIssued(journal))
    BY <1>2, <2>3, <2>4, <2>5, <2>6 DEF IsStored, IsIssued
  <2>8. Has(journal, Judgment)
    BY <2>3 DEF Has
  <2> QED
    BY <2>7, <2>8 DEF AttemptInv, Settled
<1> QED
  BY <1>4, <1>5 DEF next

LEMMA PlainEntry ==
    ASSUME AttemptInv, NEW entry, entry.op \notin Mitigations \cup {Judgment},
           NEW nextRuntime, NEW nextDecisions, NEW theirs,
           commitMutation(entry, nextRuntime, nextDecisions),
           ReplayEntry(replay, entry) = Processed(replay, entry, nextRuntime, theirs),
           Agree(nextDecisions, theirs),
           \A id \in {"CERTIFICATE_STORAGE_CHOICE", "CERTIFICATE_ISSUER_CHECK"} :
              nextDecisions[id] = decisions[id]
    PROVE  AttemptInv'
  BY RecordKeeps, OtherEntry

-----------------------------------------------------------------------------
(* The mutations *)

LEMMA CheckKeeps ==
    ASSUME AttemptInv, NEW stage, NEW s \in Stages, NEW id \in ChecksOf[s],
           answerProfessionalCheck(stage, id)
    PROVE  AttemptInv'
<1>1. PICK value \in {0, 1} : decisions' = recordDecision(decisions, id, value)
  BY DEF answerProfessionalCheck
<1>2. /\ id \in DecisionIds /\ id \notin Consequential
      /\ Consequential \subseteq DecisionIds
  BY Distinct
<1>3. decisions \in Decided /\ replay.decisions \in Decided
  BY DEF AttemptInv, Follows, Agree
<1>4. /\ decisions' \in Decided
      /\ \A other \in Consequential : decisions'[other] = decisions[other]
  <2>1. /\ recordDecision(decisions, id, value) \in Decided
        /\ \A other \in DecisionIds \ {id} :
              recordDecision(decisions, id, value)[other] = decisions[other]
    BY <1>2, <1>3, RecordedDecision
  <2> QED
    BY <1>1, <1>2, <2>1
<1>5. UNCHANGED <<journal, runtime, replay>>
  BY DEF answerProfessionalCheck
<1>6. Agree(decisions', replay.decisions)
  BY <1>3, <1>4 DEF AttemptInv, Follows, Agree
<1>7. Follows'
  BY <1>5, <1>6 DEF AttemptInv, Follows
<1>8. {"CERTIFICATE_STORAGE_CHOICE", "CERTIFICATE_ISSUER_CHECK"} \subseteq Consequential
  BY DEF Consequential
<1>9. Settled(journal, decisions')
  BY <1>4, <1>8 DEF AttemptInv, Settled
<1> QED
  BY <1>5, <1>7, <1>9 DEF AttemptInv

LEMMA CommandKeeps ==
    ASSUME AttemptInv, NEW action \in Commands, ~IsEndorsed(action), submitCommand(action)
    PROVE  AttemptInv'
<1> DEFINE by == IF action = "RECALL_BATCH" THEN activeContextIdForStage(9, journal)
                 ELSE commandContextByAction[action]
           flaws == CommandFlaws(action)
           entry == EntryOf(action, by, 0, flaws)
           next == Submit(runtime, action, by, flaws)
           accepted == action \in next.ordered
           Decisions(x) == IF action = "RECALL_BATCH" THEN RecallDecided(x, accepted) ELSE x
<1>1. commitMutation(entry, next, Decisions(decisions))
  BY DEF submitCommand
<1>2. /\ replay.isValid = TRUE /\ replay.processed = journal /\ replay.runtime = runtime
      /\ Agree(decisions, replay.decisions)
  BY DEF AttemptInv, Follows
<1>3. entry.op = action /\ entry.by = by /\ entry.flaws = flaws
  BY DEF EntryOf
<1>4. ReplayEntry(replay, entry) = ReplayCommand(replay, entry)
  BY <1>2, <1>3, ReplayIs
<1>5. ReplayEntry(replay, entry) = Processed(replay, entry, next, Decisions(replay.decisions))
  <2> HIDE DEF entry, flaws
  <2> QED
    BY <1>2, <1>3, <1>4 DEF ReplayCommand
<1>6. accepted \in BOOLEAN
  OBVIOUS
<1>7. /\ Agree(Decisions(decisions), Decisions(replay.decisions))
      /\ \A id \in {"CERTIFICATE_STORAGE_CHOICE", "CERTIFICATE_ISSUER_CHECK"} :
            Decisions(decisions)[id] = decisions[id]
  <2> HIDE DEF accepted
  <2> QED
    BY <1>2, <1>6, RecallDecidedAlike
<1>8. action \notin Mitigations \cup {Judgment}
  BY DEF Commands, commandContextByAction, Mitigations, Judgment
<1> HIDE DEF by, flaws, entry, next, Decisions
<1> QED
  BY <1>1, <1>3, <1>5, <1>7, <1>8, PlainEntry

LEMMA HandoffKeeps ==
    ASSUME AttemptInv, NEW stage \in DOMAIN roleHandoffs,
           activeContextIdForStage(stage, journal) = roleHandoffs[stage].from,
           requestRoleHandoff(stage)
    PROVE  AttemptInv'
<1> DEFINE entry == EntryOf("ROLE_HANDOFF", roleHandoffs[stage].to, stage, {})
<1>1. commitMutation(entry, runtime, decisions)
  BY DEF requestRoleHandoff
<1>2. /\ replay.isValid = TRUE /\ replay.processed = journal /\ replay.runtime = runtime
      /\ Agree(decisions, replay.decisions)
  BY DEF AttemptInv, Follows
<1>3. entry.op = "ROLE_HANDOFF" /\ entry.by = roleHandoffs[stage].to /\ entry.of = stage
  BY DEF EntryOf
<1> HIDE DEF entry
<1>4. ReplayEntry(replay, entry) = ReplayHandoff(replay, entry)
  BY <1>2, <1>3, ReplayIs
<1>5. ReplayEntry(replay, entry) = Processed(replay, entry, runtime, replay.decisions)
  BY <1>2, <1>3, <1>4 DEF ReplayHandoff
<1>6. entry.op \notin Mitigations \cup {Judgment}
  BY <1>3 DEF Mitigations, Judgment
<1> QED
  BY <1>1, <1>2, <1>5, <1>6, PlainEntry

LEMMA SealKeeps ==
    ASSUME AttemptInv, NEW stage, runtime.ordered # {}, sealPendingBlock(stage)
    PROVE  AttemptInv'
<1> DEFINE entry == EntryOf("SEAL_PENDING_BLOCK", activeContextIdForStage(stage, journal), 0, {})
<1>1. commitMutation(entry, Seal(runtime), decisions)
  BY DEF sealPendingBlock
<1>2. /\ replay.isValid = TRUE /\ replay.processed = journal /\ replay.runtime = runtime
      /\ Agree(decisions, replay.decisions)
  BY DEF AttemptInv, Follows
<1>3. entry.op = "SEAL_PENDING_BLOCK"
  BY DEF EntryOf
<1> HIDE DEF entry
<1>4. ReplayEntry(replay, entry) = sealPending(replay, entry)
  BY <1>2, <1>3, ReplayIs
<1>5. ReplayEntry(replay, entry) = Processed(replay, entry, Seal(runtime), replay.decisions)
  BY <1>2, <1>4 DEF sealPending
<1>6. entry.op \notin Mitigations \cup {Judgment}
  BY <1>3 DEF Mitigations, Judgment
<1> QED
  BY <1>1, <1>2, <1>5, <1>6, PlainEntry

LEMMA ProposalKeeps ==
    ASSUME AttemptInv, NEW action, IsEndorsed(action), createEndorsedProposal(action)
    PROVE  AttemptInv'
<1> DEFINE by == commandContextByAction[action]
           flaws == CommandFlaws(action)
           entry == EntryOf(ProposalOp(action), by, 0, flaws)
           next == Propose(runtime, Len(journal) + 1, action, by, flaws)
<1>1. commitMutation(entry, next, decisions)
  BY DEF createEndorsedProposal
<1>2. /\ replay.isValid = TRUE /\ replay.processed = journal /\ replay.runtime = runtime
      /\ Agree(decisions, replay.decisions)
  BY DEF AttemptInv, Follows
<1>3. entry.op = ProposalOp(action) /\ entry.by = by /\ entry.flaws = flaws
  BY DEF EntryOf
<1>4. features.policies /\ action \in {"TRANSFER_CUSTODY", "RECORD_CORRECTION"}
  BY DEF IsEndorsed, Coalition
<1>5. /\ ProposalOp(action) \in ProposalOps
      /\ action = IF ProposalOp(action) = "CREATE_ENDORSED_PROPOSAL" THEN "TRANSFER_CUSTODY"
                  ELSE "RECORD_CORRECTION"
  BY <1>4 DEF ProposalOp, ProposalOps
<1> HIDE DEF entry, flaws
<1>6. ReplayEntry(replay, entry) = ReplayProposal(replay, entry)
  BY <1>2, <1>3, <1>5, ReplayIs
<1>7. ReplayEntry(replay, entry) = Processed(replay, entry, next, replay.decisions)
  BY <1>2, <1>3, <1>4, <1>5, <1>6 DEF ReplayProposal
<1>8. entry.op \notin Mitigations \cup {Judgment}
  BY <1>3, <1>5 DEF ProposalOps, Mitigations, Judgment
<1> HIDE DEF next
<1> QED
  BY <1>1, <1>2, <1>7, <1>8, PlainEntry

\* Whoever endorses, declines or commits is viewing the stage of the proposal's action.
LEMMA EndorsementKeeps ==
    ASSUME AttemptInv, NEW stage, NEW action, IsEndorsed(action),
           endorsementStage[action] = stage,
           \/ endorsePendingProposal(stage, action)
           \/ declinePendingProposal(stage, action)
           \/ commitEndorsedProposal(stage, action)
    PROVE  AttemptInv'
<1> DEFINE me == activeContextIdForStage(stage, journal)
           Next1(op, id) ==
             CASE op = "ENDORSE_TRANSACTION_PROPOSAL" -> Endorse(runtime, id, me)
               [] op = "DECLINE_TRANSACTION_PROPOSAL" -> Decline(runtime, id)
               [] op = "COMMIT_ENDORSED_TRANSACTION" -> Commit(runtime, id)
<1>1. PICK op \in EndorsementOps, id \in Pending(action) :
           commitMutation(EntryOf(op, me, id, {}), Next1(op, id), decisions)
  <2>1. CASE endorsePendingProposal(stage, action)
    BY <2>1 DEF endorsePendingProposal, EndorsementOps
  <2>2. CASE declinePendingProposal(stage, action)
    BY <2>2 DEF declinePendingProposal, EndorsementOps
  <2>3. CASE commitEndorsedProposal(stage, action)
    BY <2>3 DEF commitEndorsedProposal, EndorsementOps
  <2> QED
    BY <2>1, <2>2, <2>3
<1> DEFINE entry == EntryOf(op, me, id, {})
<1>2. /\ replay.isValid = TRUE /\ replay.processed = journal /\ replay.runtime = runtime
      /\ Agree(decisions, replay.decisions)
  BY DEF AttemptInv, Follows
<1>3. entry.op = op /\ entry.by = me /\ entry.of = id
  BY DEF EntryOf
<1>4. id \in DOMAIN runtime.proposals /\ runtime.proposals[id].action = action
  BY <1>1 DEF Pending
<1>5. features.policies
  BY DEF IsEndorsed
<1>6. commitMutation(entry, Next1(op, id), decisions)
  BY <1>1
<1> HIDE DEF entry
<1>7. ReplayEntry(replay, entry) = ReplayEndorsement(replay, entry)
  BY <1>1, <1>2, <1>3, ReplayIs
<1>8. ReplayEntry(replay, entry) = Processed(replay, entry, Next1(op, id), replay.decisions)
  BY <1>2, <1>3, <1>4, <1>5, <1>7 DEF ReplayEndorsement
<1>9. entry.op \notin Mitigations \cup {Judgment}
  BY <1>1, <1>3 DEF EndorsementOps, Mitigations, Judgment
<1> HIDE DEF Next1
<1> QED
  BY <1>2, <1>6, <1>8, <1>9, PlainEntry

LEMMA CertificateKeeps ==
    ASSUME AttemptInv, NEW stage, ~Has(journal, Judgment), submitCertificateDecision(stage)
    PROVE  AttemptInv'
<1>1. PICK flaws \in SUBSET {"storage", "assessment", "disposition"} :
           commitMutation(EntryOf("SUBMIT_CERTIFICATE_DECISION",
                               activeContextIdForStage(3, journal), 0, flaws),
                  runtime, CertificateDecided(decisions, flaws))
  BY DEF submitCertificateDecision
<1> DEFINE entry == EntryOf("SUBMIT_CERTIFICATE_DECISION", activeContextIdForStage(3, journal),
                          0, flaws)
           next == Append(journal, entry)
           decided == CertificateDecided(decisions, flaws)
<1>2. /\ replay.isValid = TRUE /\ replay.processed = journal /\ replay.runtime = runtime
      /\ Agree(decisions, replay.decisions)
  BY DEF AttemptInv, Follows
<1>3. /\ entry.op = Judgment /\ entry.by = activeContextIdForStage(3, journal)
      /\ entry.flaws = flaws
  BY DEF EntryOf, Judgment
<1>4. commitMutation(entry, runtime, decided)
  BY <1>1
<1> HIDE DEF entry, decided
<1>5. ReplayEntry(replay, entry) = ReplayDecision(replay, entry)
  BY <1>2, <1>3, ReplayIs DEF DecisionOps
<1>6. ReplayEntry(replay, entry) =
        Processed(replay, entry, runtime, CertificateDecided(replay.decisions, flaws))
  <2>1. entry.op = "SUBMIT_CERTIFICATE_DECISION" /\ entry.op \notin Mitigations
    BY <1>3 DEF Judgment, Mitigations
  <2>2. consequentialStage(entry.op) = 3
    BY <2>1 DEF consequentialStage
  <2>3. ~Has(journal, "SUBMIT_CERTIFICATE_DECISION")
    BY DEF Judgment
  <2> QED
    BY <1>2, <1>3, <1>5, <2>1, <2>2, <2>3 DEF ReplayDecision
<1>7. /\ DOMAIN next = 1 .. Len(journal) + 1
      /\ DOMAIN journal = 1 .. Len(journal) /\ Len(journal) \in Nat
      /\ \A i \in DOMAIN journal : next[i] = journal[i]
      /\ next[Len(journal) + 1] = entry
  BY AppendFacts, SeqFacts DEF AttemptInv
<1>8. \A op : Has(next, op) <=> Has(journal, op) \/ entry.op = op
  BY HasAppended DEF AttemptInv
<1>9. \A m \in Mitigations : ~Has(next, m)
  <2>1. Judgment \notin Mitigations
    BY DEF Judgment, Mitigations
  <2> QED
    BY <1>3, <1>8, <2>1 DEF AttemptInv, CertificateOnce
<1> HIDE DEF next
<1>10. \A i \in DOMAIN next : next[i].op = Judgment => i = Len(journal) + 1
  <2> SUFFICES ASSUME NEW i \in DOMAIN next, next[i].op = Judgment, i # Len(journal) + 1
               PROVE  FALSE
    OBVIOUS
  <2>1. i \in DOMAIN journal
    BY <1>7
  <2> QED
    BY <1>7, <2>1 DEF Has
<1>11. CertificateOnce(next)
  BY <1>9, <1>10 DEF CertificateOnce
<1>12. InitialFlaws(next) = flaws
  <2>1. Len(journal) + 1 \in DOMAIN next
    BY <1>7
  <2> QED
    BY <1>3, <1>7, <1>11, <2>1, InitialFlawsAre
<1>13. /\ Agree(decided, CertificateDecided(replay.decisions, flaws))
       /\ decided["CERTIFICATE_STORAGE_CHOICE"].value = Score("storage" \notin flaws)
       /\ decided["CERTIFICATE_ISSUER_CHECK"].value = Score(flaws \subseteq {"storage"})
  BY <1>2, CertificateDecidedAlike DEF decided
<1>14. Settled(next, decided)
  <2>1. IsStored(next) => "storage" \notin flaws
    BY <1>9, <1>12 DEF IsStored, Mitigations
  <2>2. IsIssued(next) => flaws \subseteq {"storage"}
    BY <1>9, <1>12 DEF IsIssued, Mitigations
  <2> QED
    BY <1>13, <2>1, <2>2 DEF Settled, Score
<1> QED
  BY <1>4, <1>6, <1>11, <1>13, <1>14, RecordKeeps DEF next

\* The replay of what is decided about the discrepancy.
LEMMA DiscrepancyReplayed ==
    ASSUME NEW s, NEW e, consequentialStage(e.op) = 5, e.op \notin Mitigations,
           e.by = activeContextIdForStage(5, s.processed),
           Has(s.processed, "SUBMIT_DISCREPANCY_DECISION")
             <=> e.op # "SUBMIT_DISCREPANCY_DECISION"
    PROVE  /\ e.op = "SUBMIT_DISCREPANCY_DECISION" =>
                ReplayDecision(s, e) =
                  Processed(s, e, s.runtime, DiscrepancyDecided(s.decisions, e.flaws))
           /\ e.op = "INVESTIGATE_DISCREPANCY" /\ s.decisions["CORRECTION_RECORDED"].value # 1 =>
                ReplayDecision(s, e) =
                  Processed(s, e, s.runtime, DiscrepancyInvestigated(s.decisions))
<1> DEFINE initial == IF consequentialStage(e.op) = 3 THEN "SUBMIT_CERTIFICATE_DECISION"
                      ELSE "SUBMIT_DISCREPANCY_DECISION"
           next ==
             CASE e.op = "SUBMIT_CERTIFICATE_DECISION" -> CertificateDecided(s.decisions, e.flaws)
               [] e.op = "SUBMIT_DISCREPANCY_DECISION" -> DiscrepancyDecided(s.decisions, e.flaws)
               [] e.op \in Mitigations ->
                    CertificateMitigated(Append(s.processed, e), s.decisions)
               [] e.op = "INVESTIGATE_DISCREPANCY" ->
                    IF s.decisions["CORRECTION_RECORDED"].value # 1
                    THEN DiscrepancyInvestigated(s.decisions) ELSE s.decisions
<1>1. /\ e.op = "SUBMIT_DISCREPANCY_DECISION" => next = DiscrepancyDecided(s.decisions, e.flaws)
      /\ e.op = "INVESTIGATE_DISCREPANCY" /\ s.decisions["CORRECTION_RECORDED"].value # 1 =>
           next = DiscrepancyInvestigated(s.decisions)
  OBVIOUS
<1>2. Has(s.processed, initial) # (e.op = initial)
  <2>1. initial = "SUBMIT_DISCREPANCY_DECISION"
    OBVIOUS
  <2> HIDE DEF initial
  <2> QED
    BY <2>1
<1>3. ReplayDecision(s, e) =
        IF /\ e.by = activeContextIdForStage(consequentialStage(e.op), s.processed)
           /\ Has(s.processed, initial) # (e.op = initial)
        THEN Processed(s, e, s.runtime, next) ELSE Invalid(s)
  BY DEF ReplayDecision
<1> HIDE DEF initial, next
<1> QED
  BY <1>1, <1>2, <1>3

LEMMA DiscrepancyKeeps ==
    ASSUME AttemptInv, NEW stage, ~Has(journal, "SUBMIT_DISCREPANCY_DECISION"),
           submitDiscrepancyDecision(stage)
    PROVE  AttemptInv'
<1>1. PICK flaws :
           commitMutation(EntryOf("SUBMIT_DISCREPANCY_DECISION",
                               activeContextIdForStage(5, journal), 0, flaws),
                  runtime, DiscrepancyDecided(decisions, flaws))
  BY DEF submitDiscrepancyDecision
<1> DEFINE entry == EntryOf("SUBMIT_DISCREPANCY_DECISION", activeContextIdForStage(5, journal),
                          0, flaws)
           decided == DiscrepancyDecided(decisions, flaws)
<1>2. /\ replay.isValid = TRUE /\ replay.processed = journal /\ replay.runtime = runtime
      /\ Agree(decisions, replay.decisions)
  BY DEF AttemptInv, Follows
<1>3. /\ entry.op = "SUBMIT_DISCREPANCY_DECISION"
      /\ entry.by = activeContextIdForStage(5, journal) /\ entry.flaws = flaws
  BY DEF EntryOf
<1>4. commitMutation(entry, runtime, decided)
  BY <1>1
<1> HIDE DEF entry, decided
<1>5. ReplayEntry(replay, entry) = ReplayDecision(replay, entry)
  BY <1>2, <1>3, ReplayIs DEF DecisionOps
<1>6. entry.op \notin Mitigations \cup {Judgment}
  BY <1>3 DEF Judgment, Mitigations
<1>7. ReplayEntry(replay, entry) =
        Processed(replay, entry, runtime, DiscrepancyDecided(replay.decisions, flaws))
  <2>1. consequentialStage(entry.op) = 5
    BY <1>3, <1>6 DEF consequentialStage, Judgment
  <2>2. entry.op \notin Mitigations
    BY <1>6
  <2> QED
    BY <1>2, <1>3, <1>5, <2>1, <2>2, DiscrepancyReplayed
<1>8. /\ Agree(decided, DiscrepancyDecided(replay.decisions, flaws))
      /\ \A id \in {"CERTIFICATE_STORAGE_CHOICE", "CERTIFICATE_ISSUER_CHECK"} :
            decided[id] = decisions[id]
  BY <1>2, DiscrepancyDecidedAlike DEF decided
<1> QED
  BY <1>4, <1>6, <1>7, <1>8, PlainEntry

LEMMA MitigationKeeps ==
    ASSUME AttemptInv, NEW mitigation \in Mitigations, Has(journal, Judgment),
           recordMitigation(3, mitigation)
    PROVE  AttemptInv'
<1> DEFINE entry == EntryOf(mitigation, activeContextIdForStage(3, journal), 0, {})
           next == Append(journal, entry)
           mitigated == CertificateMitigated(next, decisions)
<1>1. /\ replay.isValid = TRUE /\ replay.processed = journal /\ replay.runtime = runtime
      /\ Agree(decisions, replay.decisions)
  BY DEF AttemptInv, Follows
<1>2. entry.op = mitigation /\ entry.by = activeContextIdForStage(3, journal)
  BY DEF EntryOf
<1>3. mitigation # "INVESTIGATE_DISCREPANCY" /\ mitigation # Judgment
      /\ mitigation # "SUBMIT_CERTIFICATE_DECISION" /\ mitigation # "SUBMIT_DISCREPANCY_DECISION"
  BY DEF Mitigations, Judgment
<1>4. \A op : Has(next, op) <=> Has(journal, op) \/ entry.op = op
  BY HasAppended DEF AttemptInv
<1>5. Has(next, "SUBMIT_CERTIFICATE_DECISION") /\ Has(next, Judgment)
  BY <1>4 DEF Judgment
<1>6. commitMutation(entry, runtime, mitigated)
  BY <1>3, <1>5 DEF recordMitigation
<1> HIDE DEF entry, mitigated
<1>7. ReplayEntry(replay, entry) = ReplayDecision(replay, entry)
  BY <1>1, <1>2, ReplayIs DEF DecisionOps
<1>8. ReplayEntry(replay, entry) =
        Processed(replay, entry, runtime, CertificateMitigated(next, replay.decisions))
  <2>1. consequentialStage(entry.op) = 3
    BY <1>2 DEF consequentialStage, Mitigations
  <2>2. Has(journal, "SUBMIT_CERTIFICATE_DECISION")
    BY DEF Judgment
  <2> QED
    BY <1>1, <1>2, <1>3, <1>7, <2>1, <2>2 DEF ReplayDecision
<1>9. /\ DOMAIN next = 1 .. Len(journal) + 1
      /\ DOMAIN journal = 1 .. Len(journal) /\ Len(journal) \in Nat
      /\ \A i \in DOMAIN journal : next[i] = journal[i]
      /\ next[Len(journal) + 1] = entry
  BY AppendFacts, SeqFacts DEF AttemptInv
<1> HIDE DEF next
<1>10. ASSUME NEW i \in DOMAIN next, next[i].op = Judgment
       PROVE  i \in DOMAIN journal /\ journal[i].op = Judgment
  <2>1. i # Len(journal) + 1
    BY <1>2, <1>3, <1>9, <1>10
  <2>2. i \in DOMAIN journal
    BY <1>9, <2>1
  <2> QED
    BY <1>9, <1>10, <2>2
<1>11. CertificateOnce(next)
  BY <1>5, <1>10 DEF AttemptInv, CertificateOnce
<1>12. /\ Agree(mitigated, CertificateMitigated(next, replay.decisions))
       /\ Settled(next, mitigated)
  BY <1>1, CertificateMitigatedAlike DEF mitigated, Settled
<1> QED
  BY <1>6, <1>8, <1>11, <1>12, RecordKeeps DEF next

\* By the time of the inquiry the certificate is settled and complete, so that looking
\* at it again, which the replay does not, changes nothing.
LEMMA InquiryKeeps ==
    ASSUME AttemptInv, evaluateStageCompletion(3), Has(journal, "SUBMIT_DISCREPANCY_DECISION"),
           decisions["CORRECTION_RECORDED"].value # 1,
           recordMitigation(5, "INVESTIGATE_DISCREPANCY")
    PROVE  AttemptInv'
<1> DEFINE entry == EntryOf("INVESTIGATE_DISCREPANCY", activeContextIdForStage(5, journal), 0, {})
           next == Append(journal, entry)
           certificate == IF Has(next, "SUBMIT_CERTIFICATE_DECISION")
                          THEN CertificateMitigated(next, decisions) ELSE decisions
           decided == DiscrepancyInvestigated(decisions)
<1>1. /\ replay.isValid = TRUE /\ replay.processed = journal /\ replay.runtime = runtime
      /\ Agree(decisions, replay.decisions)
  BY DEF AttemptInv, Follows
<1>2. /\ entry.op = "INVESTIGATE_DISCREPANCY"
      /\ entry.by = activeContextIdForStage(5, journal)
  BY DEF EntryOf
<1>3. entry.op \notin Mitigations \cup {Judgment}
  BY <1>2 DEF Judgment, Mitigations
<1>4. commitMutation(entry, runtime, DiscrepancyInvestigated(certificate))
  BY DEF recordMitigation
<1>5. decisions["CERTIFICATE_MITIGATION_COMPLETE"].attempts # 0
  <2>1. "CERTIFICATE_MITIGATION_COMPLETE" \in DecidedFor[3]
    BY DEF DecidedFor, Stages
  <2>2. decisions["CERTIFICATE_MITIGATION_COMPLETE"].attempts > 0
    BY <2>1 DEF evaluateStageCompletion, HasAnswer
  <2> QED
    BY <2>2
<1>6. Settled(next, decisions)
  BY <1>3, OtherEntry
<1>7. certificate = decisions
  <2>1. CASE Has(next, Judgment)
    BY <1>5, <1>6, <2>1, NothingLeftToMitigate
  <2>2. CASE ~Has(next, Judgment)
    BY <2>2 DEF Judgment
  <2> QED
    BY <2>1, <2>2
<1>8. commitMutation(entry, runtime, decided)
  BY <1>4, <1>7
<1> HIDE DEF entry, decided
<1>9. ReplayEntry(replay, entry) = ReplayDecision(replay, entry)
  BY <1>1, <1>2, ReplayIs DEF DecisionOps
<1>10. replay.decisions["CORRECTION_RECORDED"].value # 1
  <2>1. "CORRECTION_RECORDED" \in Consequential
    BY DEF Consequential
  <2> QED
    BY <1>1, <2>1 DEF Agree
<1>11. ReplayEntry(replay, entry) =
         Processed(replay, entry, runtime, DiscrepancyInvestigated(replay.decisions))
  <2>1. consequentialStage(entry.op) = 5
    BY <1>2, <1>3 DEF consequentialStage, Judgment
  <2>2. entry.op \notin Mitigations
    BY <1>3
  <2> QED
    BY <1>1, <1>2, <1>9, <1>10, <2>1, <2>2, DiscrepancyReplayed
<1>12. /\ Agree(decided, DiscrepancyInvestigated(replay.decisions))
       /\ \A id \in {"CERTIFICATE_STORAGE_CHOICE", "CERTIFICATE_ISSUER_CHECK"} :
            decided[id] = decisions[id]
  BY <1>1, DiscrepancyInvestigatedAlike DEF decided
<1> QED
  BY <1>3, <1>8, <1>11, <1>12, PlainEntry

LEMMA MutateKeeps ==
    ASSUME AttemptInv, Mutate
    PROVE  AttemptInv'
<1>1. PICK stage \in 1 .. currentStage : \E c \in Offered(stage) :
         \/ c.kind = "CHECK" /\ answerProfessionalCheck(stage, c.name)
         \/ c.kind = "COMMAND" /\ submitCommand(c.name)
         \/ c.kind = "SEAL" /\ sealPendingBlock(stage)
         \/ c.kind = "PROPOSE" /\ createEndorsedProposal(c.name)
         \/ c.kind = "ENDORSE" /\ endorsePendingProposal(stage, c.name)
         \/ c.kind = "DECLINE" /\ declinePendingProposal(stage, c.name)
         \/ c.kind = "COMMIT" /\ commitEndorsedProposal(stage, c.name)
         \/ c.kind = "HANDOFF" /\ requestRoleHandoff(stage)
         \/ c.kind = "MITIGATE" /\ recordMitigation(stage, c.name)
         \/ c = Control("DECIDE", "CERTIFICATE") /\ submitCertificateDecision(stage)
         \/ c = Control("DECIDE", "DISCREPANCY") /\ submitDiscrepancyDecision(stage)
  BY DEF Mutate
<1>2. PICK c \in Offered(stage) :
         \/ c.kind = "CHECK" /\ answerProfessionalCheck(stage, c.name)
         \/ c.kind = "COMMAND" /\ submitCommand(c.name)
         \/ c.kind = "SEAL" /\ sealPendingBlock(stage)
         \/ c.kind = "PROPOSE" /\ createEndorsedProposal(c.name)
         \/ c.kind = "ENDORSE" /\ endorsePendingProposal(stage, c.name)
         \/ c.kind = "DECLINE" /\ declinePendingProposal(stage, c.name)
         \/ c.kind = "COMMIT" /\ commitEndorsedProposal(stage, c.name)
         \/ c.kind = "HANDOFF" /\ requestRoleHandoff(stage)
         \/ c.kind = "MITIGATE" /\ recordMitigation(stage, c.name)
         \/ c = Control("DECIDE", "CERTIFICATE") /\ submitCertificateDecision(stage)
         \/ c = Control("DECIDE", "DISCREPANCY") /\ submitDiscrepancyDecision(stage)
  BY <1>1
<1>3. stage \in Stages /\ \A earlier \in 1 .. stage - 1 : evaluateStageCompletion(earlier)
  BY <1>1, StageReached
<1>4. Fits(stage, c)
  BY <1>2, <1>3, OfferedFits
<1>5. CASE c.kind = "CHECK" /\ answerProfessionalCheck(stage, c.name)
  <2>1. \E s \in Stages : c.name \in ChecksOf[s]
    BY <1>4, <1>5 DEF Fits
  <2> QED
    BY <1>5, <2>1, CheckKeeps
<1>6. CASE c.kind = "COMMAND" /\ submitCommand(c.name)
  <2>1. c.name \in Commands /\ ~IsEndorsed(c.name)
    BY <1>4, <1>6 DEF Fits
  <2> QED
    BY <1>6, <2>1, CommandKeeps
<1>7. CASE c.kind = "SEAL" /\ sealPendingBlock(stage)
  <2>1. runtime.ordered # {}
    BY <1>4, <1>7 DEF Fits
  <2> QED
    BY <1>7, <2>1, SealKeeps
<1>8. CASE c.kind = "PROPOSE" /\ createEndorsedProposal(c.name)
  <2>1. IsEndorsed(c.name)
    BY <1>4, <1>8 DEF Fits
  <2> QED
    BY <1>8, <2>1, ProposalKeeps
<1>9. CASE \/ c.kind = "ENDORSE" /\ endorsePendingProposal(stage, c.name)
           \/ c.kind = "DECLINE" /\ declinePendingProposal(stage, c.name)
           \/ c.kind = "COMMIT" /\ commitEndorsedProposal(stage, c.name)
  <2>1. IsEndorsed(c.name) /\ endorsementStage[c.name] = stage
    BY <1>4, <1>9 DEF Fits
  <2> QED
    BY <1>9, <2>1, EndorsementKeeps
<1>10. CASE c.kind = "HANDOFF" /\ requestRoleHandoff(stage)
  <2>1. /\ stage \in DOMAIN roleHandoffs
        /\ activeContextIdForStage(stage, journal) = roleHandoffs[stage].from
    BY <1>4, <1>10 DEF Fits
  <2> QED
    BY <1>10, <2>1, HandoffKeeps
<1>11. CASE c.kind = "MITIGATE" /\ recordMitigation(stage, c.name)
  <2>1. \/ stage = 3 /\ c.name \in Mitigations /\ Has(journal, Judgment)
        \/ /\ stage = 5 /\ c.name = "INVESTIGATE_DISCREPANCY"
           /\ Has(journal, "SUBMIT_DISCREPANCY_DECISION")
           /\ decisions["CORRECTION_RECORDED"].value # 1
    BY <1>4, <1>11 DEF Fits
  <2>2. stage = 5 => evaluateStageCompletion(3)
    BY <1>3
  <2> QED
    BY <1>11, <2>1, <2>2, MitigationKeeps, InquiryKeeps
<1>12. CASE c = Control("DECIDE", "CERTIFICATE") /\ submitCertificateDecision(stage)
  <2>1. ~Has(journal, Judgment)
    BY <1>4, <1>12 DEF Fits
  <2> QED
    BY <1>12, <2>1, CertificateKeeps
<1>13. CASE c = Control("DECIDE", "DISCREPANCY") /\ submitDiscrepancyDecision(stage)
  <2>1. ~Has(journal, "SUBMIT_DISCREPANCY_DECISION")
    BY <1>4, <1>13 DEF Fits
  <2> QED
    BY <1>13, <2>1, DiscrepancyKeeps
<1> QED
  BY <1>2, <1>5, <1>6, <1>7, <1>8, <1>9, <1>10, <1>11, <1>12, <1>13

LEMMA InvImplies ==
    ASSUME AttemptInv
    PROVE  StoredAttemptResumes
  BY DEF AttemptInv, Follows, Agree, StoredAttemptResumes, IsReplayable

LEMMA ResumeKeeps ==
    ASSUME AttemptInv, Resume
    PROVE  AttemptInv'
<1>1. runtime' = runtime
  BY InvImplies DEF Resume, StoredAttemptResumes
<1>2. UNCHANGED <<journal, decisions, replay>>
  BY DEF Resume
<1> QED
  BY <1>1, <1>2 DEF AttemptInv, Follows

LEMMA InitHolds ==
    ASSUME AttemptInit
    PROVE  AttemptInv
<1>1. journal = << >> /\ runtime = NewRuntime /\ decisions = Undecided /\ replay = NewReplay
  BY DEF AttemptInit
<1>2. IsSeq(journal)
  <2>1. << >> \in Seq({})
    OBVIOUS
  <2> QED
    BY <1>1, <2>1 DEF IsSeq
<1>3. \A op : ~Has(journal, op)
  BY <1>1 DEF Has
<1>4. CertificateOnce(journal) /\ Settled(journal, decisions)
  BY <1>1, <1>3 DEF CertificateOnce, Settled
<1>5. Undecided \in Decided
  BY DEF Undecided, Decided
<1>6. Follows
  BY <1>1, <1>5 DEF Follows, NewReplay, ReplayFields, Agree
<1> QED
  BY <1>2, <1>4, <1>6 DEF AttemptInv

\* Whenever an attempt is left, whatever the learner did and however often it was left
\* before, its journal replays to the runtime the learner had and to the decisions that
\* were stored (replayCommandJournal against the mutations of the provider).
THEOREM AttemptsResume == AttemptSpec => []StoredAttemptResumes
<1>1. AttemptInit => AttemptInv
  BY InitHolds
<1>2. AttemptInv /\ [AttemptNext]_attempt => AttemptInv'
  <2> SUFFICES ASSUME AttemptInv, [AttemptNext]_attempt PROVE AttemptInv'
    OBVIOUS
  <2>1. CASE Mutate
    BY <2>1, MutateKeeps
  <2>2. CASE Resume
    BY <2>2, ResumeKeeps
  <2>3. CASE UNCHANGED attempt
    BY <2>3 DEF attempt, AttemptInv, Follows
  <2> QED
    BY <2>1, <2>2, <2>3 DEF AttemptNext
<1>3. AttemptInv => StoredAttemptResumes
  BY InvImplies
<1> QED
  BY <1>1, <1>2, <1>3, PTL DEF AttemptSpec
=============================================================================
