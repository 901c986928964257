------------------------ MODULE EndorsementWorkflow ------------------------
(***************************************************************************)
(* Transactions that several organizations must endorse before they reach  *)
(* the ledger: a signed proposal is created, endorsed or declined, and     *)
(* committed, each by a command of its own.  Competing commands go to the  *)
(* same ledger directly.                                                   *)
(*                                                                         *)
(* The runtime is a value that every call replaces as a whole, and the     *)
(* session queues its calls, so a call is one step.  Commands may be       *)
(* delivered again and in any order.  The ledger is reduced to the version *)
(* of each asset, the entries in order, and a verdict of the domain rules  *)
(* that is left open (module Ledger says what they are): a correction of a *)
(* document moves no version, so it is told apart by "moves".              *)
(***************************************************************************)
EXTENDS Integers, Sequences, FiniteSets

CONSTANTS Organizations,   \* who may sign
          Assets,          \* what commands act upon
          Requests,        \* command id -> the command that carries it
          Policies         \* transaction type -> the coalitions that satisfy its policy

VARIABLES stateVersion,    \* asset -> its version in the world state
          ledger,          \* the transactions, each with who endorsed it and when
          acceptedEvents,  \* decision and ledger events, in order
          rejectedIds,     \* the commands that an audit event records
          pendingProposals, \* proposal id -> proposal, the id of its creating command
          outcomes         \* command id -> its transaction, or None when rejected

vars == <<stateVersion, ledger, acceptedEvents, rejectedIds, pendingProposals, outcomes>>

-----------------------------------------------------------------------------
(* Types *)

None == 0
CommandId == DOMAIN Requests
Decision == {"PROPOSAL_CREATED", "PROPOSAL_ENDORSED", "PROPOSAL_DECLINED",
             "TRANSACTION_COMMITTED"}
Status == {"AWAITING_ENDORSEMENTS", "POLICY_SATISFIED", "COMMITTED", "DECLINED",
           "STALE", "SUPERSEDED"}

\* isTrusted: the metadata names the session's trusted context.
\* isAuthorized: the signature verifies and its role may sign this.
Proposed ==
    [kind : {"SUBMIT", "CREATE"}, type : DOMAIN Policies, asset : Assets,
     moves : BOOLEAN, action : STRING, org : Organizations, isTrusted : BOOLEAN,
     isAuthorized : BOOLEAN]
Followup ==
    [kind : {"ENDORSE", "DECLINE", "COMMIT"}, proposal : CommandId,
     org : Organizations, isTrusted : BOOLEAN, isAuthorized : BOOLEAN]

ASSUME RequestsAssumption ==
    /\ IsFiniteSet(CommandId)
    /\ None \notin CommandId
    /\ \A id \in CommandId : Requests[id] \in Proposed \cup Followup
    /\ \A id \in CommandId :
         Requests[id].kind \in {"ENDORSE", "DECLINE", "COMMIT"} =>
           Requests[Requests[id].proposal].kind = "CREATE"

Endorsement == [org : Organizations, isAuthorized : BOOLEAN]
Proposal ==
    [expected : Nat, endorsements : Seq(Endorsement), status : Status,
     declines : Seq(CommandId), transaction : Nat]
Entry == [command : CommandId, before : Nat, endorsers : SUBSET Organizations]
Event ==
    [kind : Decision \cup {"LEDGER_MUTATION"}, command : CommandId,
     proposal : CommandId \cup {None}]

-----------------------------------------------------------------------------
(* The endorsement policy *)

\* Every organization counts once, and only by a signature that is its own.
IsCounted(records, i) ==
    /\ records[i].isAuthorized
    /\ \A j \in 1 .. i - 1 : ~(records[j].isAuthorized /\ records[j].org = records[i].org)
Counted(records) == {records[i].org : i \in {k \in DOMAIN records : IsCounted(records, k)}}
IsAllCounted(records) == \A i \in DOMAIN records : IsCounted(records, i)

IsSatisfiedByAny(type, organizations) ==                                  \* mutant
    \E c \in Policies[type] : c \cap organizations # {}
IsSatisfied(type, organizations) == \E c \in Policies[type] : c \subseteq organizations

StatusOf(type, records) ==
    IF IsSatisfied(type, Counted(records)) THEN "POLICY_SATISFIED" ELSE "AWAITING_ENDORSEMENTS"

-----------------------------------------------------------------------------
(* The command handler *)

IsStaleWhenMissing(id, expected) == expected = 0                          \* mutant
IsStale(id, expected) == expected # stateVersion[Requests[id].asset]

\* What a delivery changes besides the proposals.
Unchanged ==
    [version |-> stateVersion, ledger |-> ledger, events |-> acceptedEvents,
     rejected |-> rejectedIds, outcomes |-> outcomes]
Record(f, id, value) == [i \in DOMAIN f \cup {id} |-> IF i = id THEN value ELSE f[i]]
Happened(kind, id, proposal) == [kind |-> kind, command |-> id, proposal |-> proposal]

\* A rejected command is audited and leaves the world alone.
Rejected(id) ==
    [version |-> stateVersion, ledger |-> ledger, events |-> acceptedEvents,
     rejected |-> rejectedIds \cup {id}, outcomes |-> Record(outcomes, id, None)]

Accepted(id, endorsers) ==
    LET c == Requests[id] IN
    [version |-> IF c.moves THEN [stateVersion EXCEPT ![c.asset] = @ + 1] ELSE stateVersion,
     ledger |-> Append(ledger, [command |-> id, before |-> stateVersion[c.asset],
                                endorsers |-> endorsers]),
     events |-> Append(acceptedEvents, Happened("LEDGER_MUTATION", id, None)),
     rejected |-> rejectedIds,
     outcomes |-> Record(outcomes, id, Len(ledger) + 1)]

\* A command id that was answered before is answered from the record.
HandleSimulationCommandAgain(id, expected, endorsers, isPermitted) ==     \* mutant
    IF IsStale(id, expected) \/ ~isPermitted THEN Rejected(id) ELSE Accepted(id, endorsers)
HandleSimulationCommand(id, expected, endorsers, isPermitted) ==
    CASE id \in DOMAIN outcomes -> Unchanged
      [] id \notin DOMAIN outcomes /\ ( \/ ~Requests[id].isTrusted
                                        \/ ~Requests[id].isAuthorized
                                        \/ IsStale(id, expected)
                                        \/ ~isPermitted ) -> Rejected(id)
      [] OTHER -> Accepted(id, endorsers)

Adopt(next, events) ==
    /\ stateVersion' = next.version
    /\ ledger' = next.ledger
    /\ acceptedEvents' = events
    /\ rejectedIds' = next.rejected
    /\ outcomes' = next.outcomes

-----------------------------------------------------------------------------
(* The workflow *)

\* existingOutcome: the command has an audit event or a decision event.
IsAnswered(id) ==
    \/ id \in rejectedIds
    \/ \E i \in DOMAIN acceptedEvents :
         /\ acceptedEvents[i].command = id
         /\ acceptedEvents[i].kind \in Decision

\* rejectWorkflow records the audit event, but no outcome.
RejectWorkflow(id) ==
    /\ rejectedIds' = rejectedIds \cup {id}
    /\ UNCHANGED <<stateVersion, ledger, acceptedEvents, outcomes>>

Decide(kind, id, proposal) ==
    /\ acceptedEvents' = Append(acceptedEvents, Happened(kind, id, proposal))
    /\ UNCHANGED <<stateVersion, ledger, rejectedIds, outcomes>>

\* A command sent to the ledger without endorsements of its own, by a client
\* that may have read an older version of the asset.
SubmitCommand(id) ==
    /\ Requests[id].kind = "SUBMIT"
    /\ \E expected \in 0 .. stateVersion[Requests[id].asset], isPermitted \in BOOLEAN :
         LET next == HandleSimulationCommand(id, expected, {}, isPermitted)
         IN  Adopt(next, next.events)
    /\ UNCHANGED pendingProposals

\* Other proposals of the same action give way, unless they are committed.
SupersedePriorProposal(action) ==
    [p \in DOMAIN pendingProposals |->
       IF Requests[p].action = action /\ pendingProposals[p].status # "COMMITTED"
       THEN [pendingProposals[p] EXCEPT !.status = "SUPERSEDED"]
       ELSE pendingProposals[p]]

CreateEndorsedProposal(id) ==
    /\ Requests[id].kind = "CREATE"
    /\ ~IsAnswered(id)
    /\ \E expected \in 0 .. stateVersion[Requests[id].asset], isPermitted \in BOOLEAN :
         LET c == Requests[id]
             records == <<[org |-> c.org, isAuthorized |-> TRUE]>>
         IN  IF c.isTrusted /\ c.isAuthorized /\ ~IsStale(id, expected) /\ isPermitted
             THEN /\ Decide("PROPOSAL_CREATED", id, id)
                  /\ pendingProposals' =
                       Record(SupersedePriorProposal(c.action), id,
                              [expected |-> expected, endorsements |-> records,
                               status |-> StatusOf(c.type, records),
                               declines |-> <<>>, transaction |-> None])
             ELSE Adopt(Rejected(id), acceptedEvents) /\ UNCHANGED pendingProposals

\* An endorsement is recorded only when it counts: the status of the proposal
\* is not asked, and is set from the endorsements.
EndorsePendingProposal(id) ==
    /\ Requests[id].kind = "ENDORSE"
    /\ ~IsAnswered(id)
    /\ LET c == Requests[id]  p == c.proposal
       IN  /\ p \in DOMAIN pendingProposals
           /\ LET records == Append(pendingProposals[p].endorsements,
                                    [org |-> c.org, isAuthorized |-> c.isAuthorized])
              IN  IF c.isTrusted /\ IsAllCounted(records)
                  THEN /\ Decide("PROPOSAL_ENDORSED", id, p)
                       /\ pendingProposals' =
                            [pendingProposals EXCEPT
                               ![p].endorsements = records,
                               ![p].status = StatusOf(Requests[p].type, records)]
                  ELSE RejectWorkflow(id) /\ UNCHANGED pendingProposals

DeclinePendingProposal(id) ==
    /\ Requests[id].kind = "DECLINE"
    /\ ~IsAnswered(id)
    /\ LET p == Requests[id].proposal
       IN  /\ p \in DOMAIN pendingProposals
           /\ IF Requests[id].isTrusted
              THEN /\ Decide("PROPOSAL_DECLINED", id, p)
                   /\ pendingProposals' =
                        [pendingProposals EXCEPT ![p].status = "DECLINED",
                                                 ![p].declines = Append(@, id)]
              ELSE RejectWorkflow(id) /\ UNCHANGED pendingProposals

\* The transaction that the proposal's own command made, now or before.
TransactionOf(p, next) == next.outcomes[p]

\* A commit is refused by an unsatisfied policy, finds the asset moved, or
\* hands the proposal's own command to the ledger.  Whether the proposal was
\* declined or superseded meanwhile is not asked.
CommitPendingProposal(id) ==
    LET p == Requests[id].proposal
        pending == pendingProposals[p]
        organizations == Counted(pending.endorsements)
        isReady == Requests[id].isTrusted /\ IsSatisfied(Requests[p].type, organizations)
    IN
    /\ Requests[id].kind = "COMMIT"
    /\ ~IsAnswered(id)
    /\ p \in DOMAIN pendingProposals
    /\ \/ ~isReady /\ RejectWorkflow(id) /\ UNCHANGED pendingProposals
       \/ /\ isReady
          /\ IsStale(p, pending.expected)
          /\ RejectWorkflow(id)
          /\ pendingProposals' = [pendingProposals EXCEPT ![p].status = "STALE"]
       \/ /\ isReady
          /\ ~IsStale(p, pending.expected)
          /\ \E isPermitted \in BOOLEAN :
               LET next == HandleSimulationCommand(p, pending.expected, organizations, isPermitted)
               IN  \/ /\ next.outcomes[p] = None
                      /\ Adopt(next, next.events)
                      /\ UNCHANGED pendingProposals
                   \/ /\ next.outcomes[p] # None
                      /\ Adopt(next, Append(next.events,
                                           Happened("TRANSACTION_COMMITTED", id, p)))
                      /\ pendingProposals' =
                           [pendingProposals EXCEPT ![p].status = "COMMITTED",
                                                    ![p].transaction = TransactionOf(p, next)]

Init ==
    /\ stateVersion = [a \in Assets |-> 1]
    /\ ledger = <<>>
    /\ acceptedEvents = <<>>
    /\ rejectedIds = {}
    /\ pendingProposals = [p \in {} |-> None]
    /\ outcomes = [id \in {} |-> None]

Next ==
    \E id \in CommandId :
      \/ SubmitCommand(id)
      \/ CreateEndorsedProposal(id)
      \/ EndorsePendingProposal(id)
      \/ DeclinePendingProposal(id)
      \/ CommitPendingProposal(id)

Spec == Init /\ [][Next]_vars

-----------------------------------------------------------------------------
(* Properties *)

\* The runtime state is well formed (SimulationRuntimeState).
TypeOK ==
    /\ stateVersion \in [Assets -> Nat \ {0}]
    /\ ledger \in Seq(Entry)
    /\ acceptedEvents \in Seq(Event)
    /\ rejectedIds \subseteq CommandId
    /\ DOMAIN pendingProposals \subseteq CommandId
    /\ \A p \in DOMAIN pendingProposals : pendingProposals[p] \in Proposal
    /\ DOMAIN outcomes \subseteq CommandId
    /\ \A id \in DOMAIN outcomes : outcomes[id] \in 0 .. Len(ledger)

Proposals == {id \in CommandId : Requests[id].kind = "CREATE"}
EventsOf(kind, proposal) ==
    {i \in DOMAIN acceptedEvents : acceptedEvents[i].kind = kind
                                   /\ acceptedEvents[i].proposal = proposal}

\* Organization o signed proposal p before event i.
Signed(p, o, i) ==
    \/ Requests[p].org = o
    \/ \E k \in EventsOf("PROPOSAL_ENDORSED", p) :
         k < i /\ Requests[acceptedEvents[k].command].org = o

\* A proposed transaction enters the ledger only after a coalition of its
\* policy signed that very proposal: each member proposed it or had its own
\* endorsement accepted before the ledger moved, and the entry lists nobody
\* else (commitPendingProposal).  The asset is, when the transaction applies, at the
\* version it had when the proposal was signed: nothing moved under the endorsers
\* (stateVersionFailures).
CommittedAsEndorsed ==
    /\ \A i \in DOMAIN acceptedEvents :
         LET p == acceptedEvents[i].command IN
         acceptedEvents[i].kind = "LEDGER_MUTATION" /\ p \in Proposals =>
           /\ \E coalition \in Policies[Requests[p].type] : \A o \in coalition : Signed(p, o, i)
           /\ \A t \in DOMAIN ledger :
                ledger[t].command = p => \A o \in ledger[t].endorsers : Signed(p, o, i)
    /\ \A t \in DOMAIN ledger :
         ledger[t].command \in DOMAIN pendingProposals =>
           ledger[t].before = pendingProposals[ledger[t].command].expected

\* However often a command is delivered and a proposal committed, it enters the
\* ledger once (the record of outcomes by command id).
OneTransactionPerCommand ==
    \A i, j \in DOMAIN ledger : ledger[i].command = ledger[j].command => i = j

\* A proposal names the transaction that carries it and no other, whatever was
\* ordered in between and however it was declined or superseded afterwards.
ProposalNamesItsTransaction ==
    \A p \in DOMAIN pendingProposals :
      LET t == pendingProposals[p].transaction IN
      t # None => t \in DOMAIN ledger /\ ledger[t].command = p

=============================================================================
