--------------------------- MODULE RuntimeProofs ---------------------------
(***************************************************************************)
(* Theorems about the hosted runtime, for any library of scenarios, any    *)
(* cases of an audit, any modules of a laboratory and any policies of the  *)
(* coffee journey.                                                         *)
(*                                                                         *)
(* What is stored can be loaded again, because every command leaves the    *)
(* journals as the reducer wants them: an audit claims no matter twice, a  *)
(* laboratory is complete behind the module at hand and untouched ahead of *)
(* it, and the coffee journey stands where the script of its ledger says,  *)
(* in the role that the next transaction is authorized for.                *)
(*                                                                         *)
(* A scenario is played as it was authored, because a step adds to what a  *)
(* run has, changes nothing of it, and what it adds is in order: released  *)
(* evidence is earned, what is cited is out, commits and approvals are as  *)
(* the policy wants.                                                       *)
(*                                                                         *)
(* No service takes back what it recorded, and none lets a learner do more *)
(* than be late once the deadline has passed.                              *)
(*                                                                         *)
(* A grade is the whole grade exactly when everything was right, as far as *)
(* an audit's rounding shows it: the lines of a report count findings that *)
(* are each about a definition of its own, each worth a share of its line, *)
(* and a journey has answered, at each step, all the questions before it.  *)
(***************************************************************************)
EXTENDS HostedRuntime, FiniteSetTheorems, SequenceTheorems, WellFoundedInduction, TLAPS

-----------------------------------------------------------------------------
(* Audits *)

AuditFields == {"status", "notes", "drafts", "draftRecords", "findings", "competence",
                "conclusion", "expired"}

\* No matter is claimed twice, and what is concluded is closed.
AuditInv ==
    audit # Audit!NoAudit =>
        /\ audit = [f \in AuditFields |-> audit[f]]
        /\ audit.status \in {"active", "completed"}
        /\ audit.expired => overdue
        /\ Audit!Replays

\* What a step leaves of an audit when it touches no claim.
LEMMA AuditStays ==
    ASSUME AuditInv, audit # Audit!NoAudit, audit' # Audit!NoAudit,
           audit' = [f \in AuditFields |-> audit'[f]],
           audit'.findings = audit.findings,
           UNCHANGED <<audit.status, audit.conclusion, audit.expired>>,
           overdue => overdue'
    PROVE  AuditInv'
<1>1. Audit!Submitted' = Audit!Submitted
  BY DEF Audit!Submitted
<1> QED
  BY <1>1 DEF AuditInv, Audit!Replays

LEMMA EntryKeeps ==
    ASSUME AuditInv, Audit!Command, NEW f, NEW matter, NEW argument, NEW revision,
           Audit!IsUnclaimed(f, matter), Audit!Enter(f, matter, argument, revision)
    PROVE  AuditInv'
<1>1. /\ audit # Audit!NoAudit
      /\ audit.status = "active" /\ ~overdue /\ overdue' = overdue
      /\ audit = [g \in AuditFields |-> audit[g]] /\ ~audit.expired
  BY DEF AuditInv, Audit!Command, Audit!MayCommand, Audit!IsOpen, Audit!NoAudit, Audit!None
<1>2. /\ audit'.findings = [g \in DOMAIN audit.findings \union {f} |->
                              IF g = f
                              THEN [matter |-> matter, argument |-> argument, revision |-> revision,
                                    status |-> "SUBMITTED"]
                              ELSE audit.findings[g]]
      /\ audit' = [g \in AuditFields |-> audit'[g]]
      /\ UNCHANGED <<audit.status, audit.conclusion, audit.expired>>
  BY <1>1 DEF Audit!Enter, AuditFields
<1>3. /\ Audit!Submitted' = Audit!Submitted \union {f}
      /\ audit'.findings[f].matter = matter
      /\ \A g \in Audit!Submitted \ {f} : audit'.findings[g] = audit.findings[g]
  BY <1>2 DEF Audit!Submitted
<1>4. Audit!Replays'
  BY <1>1, <1>2, <1>3 DEF Audit!Replays, Audit!IsUnclaimed, AuditInv
<1> QED
  BY <1>1, <1>2, <1>4 DEF AuditInv

LEMMA AuditKeeps ==
    ASSUME AuditInv, Audit!Next
    PROVE  AuditInv'
<1>1. CASE Audit!CreateRun
  BY <1>1 DEF Audit!CreateRun, AuditInv, AuditFields, Audit!NoAudit, Audit!None, Audit!Replays,
              Audit!Submitted
<1> DEFINE F == audit = [g \in AuditFields |-> audit[g]] /\ audit.status = "active"
               /\ audit # Audit!NoAudit /\ ~audit.expired /\ overdue' = overdue
<1>a. Audit!Command => F
  BY DEF AuditInv, Audit!Command, Audit!MayCommand, Audit!IsOpen, Audit!NoAudit, Audit!None
<1>b. ASSUME F,
             audit' = [audit EXCEPT !.notes = audit'.notes, !.drafts = audit'.drafts,
                                    !.draftRecords = audit'.draftRecords]
      PROVE  AuditInv'
  <2>1. /\ audit' = [g \in AuditFields |-> audit'[g]]
        /\ UNCHANGED <<audit.findings, audit.status, audit.conclusion, audit.expired>>
    BY <1>b DEF AuditFields
  <2>2. audit' # Audit!NoAudit
    BY <1>b, <2>1 DEF Audit!NoAudit, Audit!None
  <2> QED
    BY <1>b, <2>1, <2>2, AuditStays
<1>2. ASSUME NEW n \in Audit!Notes, Audit!Note(n) PROVE AuditInv'
  <2>1. F /\ audit' = [audit EXCEPT !.notes = @ \union {n}]
    BY <1>2, <1>a DEF Audit!Note
  <2>2. audit' = [audit EXCEPT !.notes = audit'.notes, !.drafts = audit'.drafts,
                               !.draftRecords = audit'.draftRecords]
    BY <2>1 DEF AuditFields
  <2> QED
    BY <1>b, <2>1, <2>2
<1>3. ASSUME NEW f \in FindingIds, Audit!SaveDraft(f) PROVE AuditInv'
  <2>1. F /\ audit' = [audit EXCEPT !.drafts = @ \union {f}, !.draftRecords = @ + 1]
    BY <1>3, <1>a DEF Audit!SaveDraft
  <2>2. audit' = [audit EXCEPT !.notes = audit'.notes, !.drafts = audit'.drafts,
                               !.draftRecords = audit'.draftRecords]
    BY <2>1 DEF AuditFields
  <2> QED
    BY <1>b, <2>1, <2>2
<1>4. CASE Audit!Report
  BY <1>4, EntryKeeps DEF Audit!Report, Audit!SubmitFinding
<1>5. ASSUME NEW f \in FindingIds, NEW m, NEW q, Audit!AmendFinding(f, m, q) PROVE AuditInv'
  BY <1>5, EntryKeeps DEF Audit!AmendFinding
<1>6. CASE Audit!Conclude
  <2>1. PICK e \in BOOLEAN : Audit!SubmitConclusion(e)
    BY <1>6 DEF Audit!Conclude
  <2>2. F
    BY <2>1, <1>a DEF Audit!SubmitConclusion
  <2>3. /\ audit'.findings = audit.findings /\ audit'.expired = audit.expired
        /\ audit'.conclusion # Audit!None /\ audit'.status = "completed"
        /\ audit' = [g \in AuditFields |-> audit'[g]]
    BY <2>1, <2>2 DEF Audit!SubmitConclusion, AuditFields, Audit!None
  <2>4. Audit!Submitted' = Audit!Submitted
    BY <2>3 DEF Audit!Submitted
  <2> QED
    BY <2>2, <2>3, <2>4 DEF AuditInv, Audit!Replays
<1>7. ASSUME NEW f \in FindingIds, Audit!WithdrawFinding(f) PROVE AuditInv'
  <2>1. F /\ f \in Audit!Submitted
    BY <1>7, <1>a DEF Audit!WithdrawFinding, Audit!MayRevise
  <2>2. /\ UNCHANGED <<audit.status, audit.conclusion, audit.expired>>
        /\ audit' = [g \in AuditFields |-> audit'[g]]
        /\ audit'.findings = [audit.findings EXCEPT ![f].status = "WITHDRAWN", ![f].revision = @ + 1]
    BY <1>7, <2>1 DEF Audit!WithdrawFinding, AuditFields
  <2>3. /\ Audit!Submitted' \subseteq Audit!Submitted
        /\ \A g \in Audit!Submitted' : audit'.findings[g].matter = audit.findings[g].matter
    BY <2>2 DEF Audit!Submitted
  <2>4. \A g, h \in Audit!Submitted' : audit'.findings[g].matter = audit'.findings[h].matter => g = h
    BY <2>1, <2>3 DEF AuditInv, Audit!Replays
  <2>5. audit'.status = "active" /\ audit'.conclusion = Audit!None /\ ~audit'.expired
    BY <2>1, <2>2 DEF AuditInv, Audit!Replays
  <2> QED
    BY <2>2, <2>4, <2>5, <2>1 DEF AuditInv, Audit!Replays, Audit!None
<1>8. CASE Audit!Expire
  <2>1. audit # Audit!NoAudit /\ audit.status = "active" /\ overdue /\ overdue' = overdue
    BY <1>8 DEF Audit!Expire, Audit!IsOpen, Audit!NoAudit, Audit!None
  <2>2. /\ UNCHANGED <<audit.status, audit.conclusion, audit.findings>>
        /\ audit' = [g \in AuditFields |-> audit'[g]]
    BY <1>8, <2>1 DEF Audit!Expire, AuditFields, AuditInv
  <2>3. Audit!Submitted' = Audit!Submitted
    BY <2>2 DEF Audit!Submitted
  <2> QED
    BY <2>1, <2>2, <2>3 DEF AuditInv, Audit!Replays
<1>9. CASE Audit!ClockPasses
  <2>1. audit' = audit /\ overdue'
    BY <1>9 DEF Audit!ClockPasses
  <2> QED
    BY <2>1 DEF AuditInv, Audit!Replays, Audit!Submitted
<1> QED
  BY <1>1, <1>2, <1>3, <1>4, <1>5, <1>6, <1>7, <1>8, <1>9 DEF Audit!Next

-----------------------------------------------------------------------------
(* The coffee journey *)

JourneyFields == {"status", "step", "context", "consulted", "answers", "mitigation", "chain",
                  "refused", "evidence", "expired"}

\* The steps, who plays each, and how much of the script is on the ledger by then.
Stations ==
    ({"certificate-evidence", "certificate-decision", "certificate-transaction", "complete"}
         \X {"CERTIFIER", "LOGISTICS"} \X {0})
    \union
    {<<"custody-proposal", "PRODUCER", 2>>, <<"custody-endorsement", "PRODUCER", 2>>,
     <<"custody-commit", "LOGISTICS", 2>>, <<"transport-transaction", "LOGISTICS", 3>>,
     <<"receipt-transaction", "PROCESSOR", 5>>, <<"ownership-transaction", "PRODUCER", 6>>,
     <<"discrepancy-decision", "PROCESSOR", 7>>, <<"discrepancy-mitigation", "PROCESSOR", 7>>,
     <<"correction-proposal", "PROCESSOR", 7>>, <<"correction-endorsement", "PROCESSOR", 7>>,
     <<"correction-commit", "PRODUCER", 7>>, <<"transformation-transaction", "PROCESSOR", 8>>,
     <<"transformation-knowledge", "PROCESSOR", 9>>, <<"packaging-transaction", "PROCESSOR", 9>>,
     <<"distribution-ownership-transaction", "PROCESSOR", 10>>,
     <<"dispatch-transaction", "DISTRIBUTOR", 11>>, <<"tamper-demonstration", "RETAILER", 12>>,
     <<"tamper-knowledge", "RETAILER", 12>>, <<"data-governance-decision", "RETAILER", 12>>,
     <<"recall-scope-decision", "RETAILER", 12>>, <<"recall-transaction", "RETAILER", 12>>,
     <<"recall-handoff", "RETAILER", 12>>,
     <<"recall-authorized-transaction", "REGULATOR", 12>>,
     <<"blockchain-necessity-decision", "REGULATOR", 13>>, <<"complete", "REGULATOR", 13>>}

MayBeRefused == {"SUSPICIOUS_CERTIFICATE", "TRANSFER_CUSTODY", "RECALL_BATCH"}

StandsAt(j, n) ==
    /\ <<j.step, j.context, n>> \in Stations
    /\ j.chain = Coffee!Written(n)

CoffeeInv ==
    journey # Coffee!NoJourney =>
        /\ journey = [f \in JourneyFields |-> journey[f]]
        /\ journey.status \in {"active", "completed"}
        /\ journey.status = "completed" <=> journey.step = "complete"
        /\ \E n \in 0 .. 13 : StandsAt(journey, n)
        /\ journey.refused \in Seq(MayBeRefused)

-----------------------------------------------------------------------------
(* The script *)

Transactions == {Coffee!Script[i] : i \in 1 .. 13}

LEMMA ScriptIs ==
    /\ Coffee!Script \in Seq(Transactions) /\ Len(Coffee!Script) = 13
    /\ Coffee!Script[1] = "ANCHOR_CERTIFICATE" /\ Coffee!Script[2] = "ISSUE_CERTIFICATE"
    /\ Coffee!Script[3] = "TRANSFER_CUSTODY" /\ Coffee!Script[4] = "ANCHOR_MANIFEST"
    /\ Coffee!Script[5] = "RECORD_TRANSPORT" /\ Coffee!Script[6] = "RECEIVE_BATCH"
    /\ Coffee!Script[7] = "PURCHASE_ON_RECEIPT" /\ Coffee!Script[8] = "RECORD_CORRECTION"
    /\ Coffee!Script[9] = "TRANSFORM_BATCH" /\ Coffee!Script[10] = "PACKAGE_BATCH"
    /\ Coffee!Script[11] = "TRANSFER_OWNERSHIP" /\ Coffee!Script[12] = "DISPATCH_BATCH"
    /\ Coffee!Script[13] = "RECALL_BATCH"
<1>0. DOMAIN Coffee!Script = 1 .. 13 /\ Coffee!Script = [i \in 1 .. 13 |-> Coffee!Script[i]]
  BY DEF Coffee!Script
<1>2. Len(Coffee!Script) = 13
  BY DEF Coffee!Script
<1>3. /\ Coffee!Script[1] = "ANCHOR_CERTIFICATE" /\ Coffee!Script[2] = "ISSUE_CERTIFICATE"
      /\ Coffee!Script[3] = "TRANSFER_CUSTODY" /\ Coffee!Script[4] = "ANCHOR_MANIFEST"
  BY DEF Coffee!Script
<1>4. /\ Coffee!Script[5] = "RECORD_TRANSPORT" /\ Coffee!Script[6] = "RECEIVE_BATCH"
      /\ Coffee!Script[7] = "PURCHASE_ON_RECEIPT" /\ Coffee!Script[8] = "RECORD_CORRECTION"
  BY DEF Coffee!Script
<1>5. /\ Coffee!Script[9] = "TRANSFORM_BATCH" /\ Coffee!Script[10] = "PACKAGE_BATCH"
      /\ Coffee!Script[11] = "TRANSFER_OWNERSHIP" /\ Coffee!Script[12] = "DISPATCH_BATCH"
      /\ Coffee!Script[13] = "RECALL_BATCH"
  BY DEF Coffee!Script
<1>7. Coffee!Script \in Seq(Transactions)
  <2>1. Coffee!Script \in [1 .. 13 -> Transactions]
    BY <1>0 DEF Transactions
  <2> QED
    BY <2>1, SeqDef
<1> QED
  BY <1>2, <1>3, <1>4, <1>5, <1>7

LEMMA PrefixFacts ==
    ASSUME NEW S, NEW s, s \in Seq(S), NEW n \in 0 .. Len(s)
    PROVE  /\ SubSeq(s, 1, n) \in Seq(S) /\ Len(SubSeq(s, 1, n)) = n
           /\ \A i \in 1 .. n : SubSeq(s, 1, n)[i] = s[i]
           /\ DOMAIN SubSeq(s, 1, n) = 1 .. n
OBVIOUS

LEMMA NextOfPrefix ==
    ASSUME NEW S, NEW s, s \in Seq(S), NEW n \in 0 .. Len(s), n < Len(s)
    PROVE  Append(SubSeq(s, 1, n), s[n + 1]) = SubSeq(s, 1, n + 1)
<1> DEFINE a == Append(SubSeq(s, 1, n), s[n + 1])
           b == SubSeq(s, 1, n + 1)
<1>1. n + 1 \in 0 .. Len(s) /\ s[n + 1] \in S /\ n \in Nat
  OBVIOUS
<1>2. /\ SubSeq(s, 1, n) \in Seq(S) /\ Len(SubSeq(s, 1, n)) = n
      /\ \A i \in 1 .. n : SubSeq(s, 1, n)[i] = s[i]
  BY PrefixFacts
<1>3. /\ b \in Seq(S) /\ Len(b) = n + 1
      /\ \A i \in 1 .. n + 1 : b[i] = s[i]
  BY <1>1, PrefixFacts
<1>4. a \in Seq(S) /\ Len(a) = n + 1 /\ \A i \in 1 .. n + 1 : a[i] = s[i]
  BY <1>1, <1>2
<1> HIDE DEF a, b
<1>5. a = b
  BY <1>1, <1>3, <1>4, SeqEqual
<1> QED
  BY <1>5 DEF a, b

LEMMA WrittenNext ==
    ASSUME NEW n \in 0 .. 12
    PROVE  Append(Coffee!Written(n), Coffee!Script[n + 1]) = Coffee!Written(n + 1)
BY NextOfPrefix, ScriptIs DEF Coffee!Written

LEMMA WrittenHas ==
    ASSUME NEW n \in 0 .. 13, NEW i \in 1 .. 13
    PROVE  i <= n => Coffee!Script[i] \in Coffee!Range(Coffee!Written(n))
<1>1. /\ DOMAIN Coffee!Written(n) = 1 .. n
      /\ \A k \in 1 .. n : Coffee!Written(n)[k] = Coffee!Script[k]
  BY PrefixFacts, ScriptIs DEF Coffee!Written
<1> QED
  BY <1>1 DEF Coffee!Range

LEMMA WrittenIs ==
    ASSUME NEW n \in 0 .. 13
    PROVE  /\ DOMAIN Coffee!Written(n) = 1 .. n
           /\ \A k \in 1 .. n : Coffee!Written(n)[k] = Coffee!Script[k]
BY PrefixFacts, ScriptIs DEF Coffee!Written

\* The manifest is due once, between the handover and the transport.
LEMMA ManifestIsDueOnce ==
    /\ Coffee!Scripted(Coffee!Written(3)) = Coffee!Written(4)
    /\ \A n \in 5 .. 13 : Coffee!Scripted(Coffee!Written(n)) = Coffee!Written(n)
<1>1. "TRANSFER_CUSTODY" \in Coffee!Range(Coffee!Written(3))
  BY WrittenHas, ScriptIs
<1>2. "ANCHOR_MANIFEST" \notin Coffee!Range(Coffee!Written(3))
  <2>1. \A k \in 1 .. 3 : Coffee!Script[k] # "ANCHOR_MANIFEST"
    <3> TAKE k \in 1 .. 3
    <3>1. k = 1 \/ k = 2 \/ k = 3
      OBVIOUS
    <3> QED
      BY <3>1, ScriptIs
  <2> QED
    BY <2>1, WrittenIs DEF Coffee!Range
<1>3. \A n \in 5 .. 13 : "ANCHOR_MANIFEST" \in Coffee!Range(Coffee!Written(n))
  <2> TAKE n \in 5 .. 13
  <2> QED
    BY WrittenHas, ScriptIs
<1>4. Append(Coffee!Written(3), "ANCHOR_MANIFEST") = Coffee!Written(4)
  BY WrittenNext, ScriptIs
<1> QED
  BY <1>1, <1>2, <1>3, <1>4 DEF Coffee!Scripted

LEMMA RouteIs ==
    /\ Len(Coffee!Route) = 11 /\ DOMAIN Coffee!Route = 1 .. 11
    /\ Coffee!Route[1] = <<"custody-proposal", "PRODUCER", 2>>
    /\ Coffee!Route[2] = <<"transport-transaction", "LOGISTICS", 3>>
    /\ Coffee!Route[3] = <<"receipt-transaction", "PROCESSOR", 5>>
    /\ Coffee!Route[4] = <<"ownership-transaction", "PRODUCER", 6>>
    /\ Coffee!Route[5] = <<"discrepancy-decision", "PROCESSOR", 7>>
    /\ Coffee!Route[6] = <<"transformation-transaction", "PROCESSOR", 8>>
    /\ Coffee!Route[7] = <<"transformation-knowledge", "PROCESSOR", 9>>
    /\ Coffee!Route[8] = <<"distribution-ownership-transaction", "PROCESSOR", 10>>
    /\ Coffee!Route[9] = <<"dispatch-transaction", "DISTRIBUTOR", 11>>
    /\ Coffee!Route[10] = <<"tamper-demonstration", "RETAILER", 12>>
    /\ Coffee!Route[11] = <<"blockchain-necessity-decision", "REGULATOR", 13>>
<1>1. Len(Coffee!Route) = 11
  BY DEF Coffee!Route
<1>2. DOMAIN Coffee!Route = 1 .. 11
  BY DEF Coffee!Route
<1>3. /\ Coffee!Route[1] = <<"custody-proposal", "PRODUCER", 2>>
      /\ Coffee!Route[2] = <<"transport-transaction", "LOGISTICS", 3>>
      /\ Coffee!Route[3] = <<"receipt-transaction", "PROCESSOR", 5>>
      /\ Coffee!Route[4] = <<"ownership-transaction", "PRODUCER", 6>>
  BY DEF Coffee!Route
<1>4. /\ Coffee!Route[5] = <<"discrepancy-decision", "PROCESSOR", 7>>
      /\ Coffee!Route[6] = <<"transformation-transaction", "PROCESSOR", 8>>
      /\ Coffee!Route[7] = <<"transformation-knowledge", "PROCESSOR", 9>>
      /\ Coffee!Route[8] = <<"distribution-ownership-transaction", "PROCESSOR", 10>>
  BY DEF Coffee!Route
<1>5. /\ Coffee!Route[9] = <<"dispatch-transaction", "DISTRIBUTOR", 11>>
      /\ Coffee!Route[10] = <<"tamper-demonstration", "RETAILER", 12>>
      /\ Coffee!Route[11] = <<"blockchain-necessity-decision", "REGULATOR", 13>>
  BY DEF Coffee!Route
<1> QED
  BY <1>1, <1>2, <1>3, <1>4, <1>5

\* A station of the route is one of the stations, and no other station has its step.
LEMMA RouteStations ==
    ASSUME NEW k \in 1 .. 11, NEW s, NEW r, NEW n, <<s, r, n>> \in Stations,
           s = Coffee!Route[k][1]
    PROVE  r = Coffee!Route[k][2] /\ n = Coffee!Route[k][3]
<1>0. k = 1 \/ k = 2 \/ k = 3 \/ k = 4 \/ k = 5 \/ k = 6 \/ k = 7 \/ k = 8 \/ k = 9
      \/ k = 10 \/ k = 11
  OBVIOUS
<1>1. CASE k = 1
  BY <1>1, RouteIs DEF Stations
<1>2. CASE k = 2
  BY <1>2, RouteIs DEF Stations
<1>3. CASE k = 3
  BY <1>3, RouteIs DEF Stations
<1>4. CASE k = 4
  BY <1>4, RouteIs DEF Stations
<1>5. CASE k = 5
  BY <1>5, RouteIs DEF Stations
<1>6. CASE k = 6
  BY <1>6, RouteIs DEF Stations
<1>7. CASE k = 7
  BY <1>7, RouteIs DEF Stations
<1>8. CASE k = 8
  BY <1>8, RouteIs DEF Stations
<1>9. CASE k = 9
  BY <1>9, RouteIs DEF Stations
<1>10. CASE k = 10
  BY <1>10, RouteIs DEF Stations
<1>11. CASE k = 11
  BY <1>11, RouteIs DEF Stations
<1> QED
  BY <1>0, <1>1, <1>2, <1>3, <1>4, <1>5, <1>6, <1>7, <1>8, <1>9, <1>10, <1>11

\* How much can be on the ledger while the run stands at a step.
LEMMA StationLengths ==
    ASSUME NEW s, NEW r, NEW n, <<s, r, n>> \in Stations
    PROVE  n = 0 \/ \E k \in 1 .. 11 : n = Coffee!Route[k][3]
<1>1. n = 0 \/ n = 2 \/ n = 3 \/ n = 5 \/ n = 6 \/ n = 7 \/ n = 8 \/ n = 9 \/ n = 10 \/ n = 11
      \/ n = 12 \/ n = 13
  BY DEF Stations
<1>2. /\ 2 = Coffee!Route[1][3] /\ 3 = Coffee!Route[2][3] /\ 5 = Coffee!Route[3][3]
      /\ 6 = Coffee!Route[4][3] /\ 7 = Coffee!Route[5][3] /\ 8 = Coffee!Route[6][3]
      /\ 9 = Coffee!Route[7][3] /\ 10 = Coffee!Route[8][3] /\ 11 = Coffee!Route[9][3]
      /\ 12 = Coffee!Route[10][3] /\ 13 = Coffee!Route[11][3]
  BY RouteIs
<1>3. /\ 1 \in 1 .. 11 /\ 2 \in 1 .. 11 /\ 3 \in 1 .. 11 /\ 4 \in 1 .. 11 /\ 5 \in 1 .. 11
      /\ 6 \in 1 .. 11 /\ 7 \in 1 .. 11 /\ 8 \in 1 .. 11 /\ 9 \in 1 .. 11 /\ 10 \in 1 .. 11
      /\ 11 \in 1 .. 11
  OBVIOUS
<1> QED
  BY <1>1, <1>2, <1>3

LEMMA CoffeeReplays ==
    ASSUME CoffeeInv
    PROVE  Coffee!Replays
<1> SUFFICES ASSUME journey # Coffee!NoJourney
             PROVE  /\ \E k \in 0 .. Len(Coffee!Route) : journey.chain = Coffee!LedgerUpTo(k)
                    /\ \A k \in DOMAIN Coffee!Route :
                           journey.step = Coffee!Route[k][1] =>
                               /\ journey.context = Coffee!Route[k][2]
                               /\ journey.chain = Coffee!LedgerUpTo(k)
                    /\ Coffee!Range(journey.refused) \subseteq MayBeRefused
                    /\ journey.status = "completed" <=> journey.step = "complete"
  BY DEF Coffee!Replays, MayBeRefused
<1>1. PICK n \in 0 .. 13 : StandsAt(journey, n)
  BY DEF CoffeeInv
<1>2. <<journey.step, journey.context, n>> \in Stations /\ journey.chain = Coffee!Written(n)
  BY <1>1 DEF StandsAt
<1>3. \E k \in 0 .. Len(Coffee!Route) : journey.chain = Coffee!LedgerUpTo(k)
  <2>1. CASE n = 0
    <3>1. Coffee!Written(0) = << >>
      BY ScriptIs DEF Coffee!Written
    <3>2. 0 \in 0 .. Len(Coffee!Route)
      BY RouteIs
    <3> QED
      BY <2>1, <1>2, <3>1, <3>2 DEF Coffee!LedgerUpTo
  <2>2. ASSUME NEW k \in 1 .. 11, n = Coffee!Route[k][3]
        PROVE  \E i \in 0 .. Len(Coffee!Route) : journey.chain = Coffee!LedgerUpTo(i)
    <3>1. k \in 0 .. Len(Coffee!Route) /\ k # 0
      BY RouteIs
    <3> QED
      BY <3>1, <2>2, <1>2 DEF Coffee!LedgerUpTo
  <2> QED
    BY <1>2, <2>1, <2>2, StationLengths
<1>4. ASSUME NEW k \in DOMAIN Coffee!Route, journey.step = Coffee!Route[k][1]
      PROVE  journey.context = Coffee!Route[k][2] /\ journey.chain = Coffee!LedgerUpTo(k)
  <2>1. k \in 1 .. 11 /\ k # 0
    BY RouteIs
  <2>2. journey.context = Coffee!Route[k][2] /\ n = Coffee!Route[k][3]
    BY <1>2, <1>4, <2>1, RouteStations
  <2> QED
    BY <1>2, <2>1, <2>2 DEF Coffee!LedgerUpTo
<1>5. Coffee!Range(journey.refused) \subseteq MayBeRefused
  <2>1. journey.refused \in Seq(MayBeRefused)
    BY DEF CoffeeInv
  <2> QED
    BY <2>1 DEF Coffee!Range
<1>6. journey.status = "completed" <=> journey.step = "complete"
  BY DEF CoffeeInv
<1> QED
  BY <1>3, <1>4, <1>5, <1>6

-----------------------------------------------------------------------------
(* What the commands leave *)

\* l differs from j in none of what decides where the journey stands.
StandsAs(j, l) ==
    /\ l = [f \in JourneyFields |-> l[f]]
    /\ l.status = j.status /\ l.step = j.step /\ l.context = j.context
    /\ l.chain = j.chain /\ l.refused = j.refused

\* The journey is under way at this station.
Stands(s, r, n) ==
    /\ journey # Coffee!NoJourney /\ journey = [f \in JourneyFields |-> journey[f]]
    /\ journey.status = "active" /\ journey.refused \in Seq(MayBeRefused)
    /\ journey.step = s /\ journey.context = r /\ journey.chain = Coffee!Written(n)
    /\ <<s, r, n>> \in Stations /\ n \in 0 .. 13 /\ s # "complete"

\* The journey stands at a station in the next state.
Arrives(s, r, n) ==
    /\ journey' = [f \in JourneyFields |-> journey'[f]]
    /\ journey'.status \in {"active", "completed"} /\ journey'.refused \in Seq(MayBeRefused)
    /\ journey'.status = "completed" <=> s = "complete"
    /\ journey'.step = s /\ journey'.context = r /\ journey'.chain = Coffee!Written(n)
    /\ <<s, r, n>> \in Stations /\ n \in 0 .. 13

LEMMA ArrivalKeeps ==
    ASSUME NEW s, NEW r, NEW n, Arrives(s, r, n)
    PROVE  CoffeeInv'
<1>1. StandsAt(journey', n)
  BY DEF Arrives, StandsAt
<1> QED
  BY <1>1 DEF Arrives, CoffeeInv, StandsAt

LEMMA CommandStands ==
    ASSUME CoffeeInv, NEW s, Coffee!Command(s)
    PROVE  \E r, n : Stands(s, r, n)
<1>1. journey # Coffee!NoJourney /\ journey.status = "active" /\ journey.step = s
  BY DEF Coffee!Command, Coffee!MayCommand, Coffee!IsActive, Coffee!NoJourney
<1>2. PICK n \in 0 .. 13 : StandsAt(journey, n)
  BY <1>1 DEF CoffeeInv
<1>3. Stands(s, journey.context, n)
  BY <1>1, <1>2 DEF CoffeeInv, StandsAt, Stands
<1> QED
  BY <1>3

LEMMA ObserveStands ==
    ASSUME NEW j, j = [f \in JourneyFields |-> j[f]], NEW rules
    PROVE  StandsAs(j, Coffee!Observe(j, rules))
BY DEF StandsAs, Coffee!Observe, JourneyFields

LEMMA AnswerStands ==
    ASSUME NEW j, j = [f \in JourneyFields |-> j[f]], NEW d, NEW c
    PROVE  StandsAs(j, Coffee!Answer(j, d, c))
<1> DEFINE a == [x \in DOMAIN j.answers \union {d} |-> IF x = d THEN c ELSE j.answers[x]]
           l == [j EXCEPT !.answers = a]
<1>1. Coffee!Answer(j, d, c) = l
  BY DEF Coffee!Answer
<1> HIDE DEF a
<1>2. StandsAs(j, l)
  BY DEF StandsAs, JourneyFields
<1> QED
  BY <1>1, <1>2

LEMMA RecogniseStands ==
    ASSUME NEW j, j = [f \in JourneyFields |-> j[f]], NEW d, NEW c, NEW rule
    PROVE  StandsAs(j, Coffee!Recognise(j, d, c, rule))
<1> DEFINE a == Coffee!Answer(j, d, c)
           rules == IF c THEN {rule} ELSE {}
<1>1. StandsAs(j, a)
  BY AnswerStands
<1>2. Coffee!Recognise(j, d, c, rule) = Coffee!Observe(a, rules)
  BY DEF Coffee!Recognise
<1> HIDE DEF a, rules
<1>3. StandsAs(a, Coffee!Observe(a, rules))
  BY <1>1, ObserveStands DEF StandsAs
<1> QED
  BY <1>1, <1>2, <1>3 DEF StandsAs

\* A command that writes nothing on the ledger.
LEMMA GoingKeeps ==
    ASSUME NEW s, NEW r, NEW n, Stands(s, r, n), NEW l, StandsAs(journey, l),
           NEW next, NEW role, journey' = Coffee!GoTo(l, next, role),
           <<next, role, n>> \in Stations, next # "complete"
    PROVE  CoffeeInv'
<1>1. Arrives(next, role, n)
  BY DEF Arrives, Stands, StandsAs, Coffee!GoTo, JourneyFields
<1> QED
  BY <1>1, ArrivalKeeps

\* A command that puts the next transaction on it.
LEMMA FilingKeeps ==
    ASSUME NEW s, NEW r, NEW n, Stands(s, r, n), NEW l, NEW m \in 0 .. 12, NEW action,
           StandsAs([journey EXCEPT !.chain = Append(Coffee!Written(m), action)], l),
           NEW next, NEW role, journey' = Coffee!GoTo(l, next, role),
           action = Coffee!Script[m + 1],
           <<next, role, m + 1>> \in Stations, next # "complete"
    PROVE  CoffeeInv'
<1>1. Append(Coffee!Written(m), action) = Coffee!Written(m + 1)
  BY WrittenNext
<1>m. m + 1 \in 0 .. 13
  OBVIOUS
<1>2. /\ l = [f \in JourneyFields |-> l[f]]
      /\ l.status = "active" /\ l.refused \in Seq(MayBeRefused)
      /\ l.chain = Coffee!Written(m + 1)
  BY <1>1 DEF Stands, StandsAs, JourneyFields
<1>3. Arrives(next, role, m + 1)
  BY <1>m, <1>2 DEF Arrives, Coffee!GoTo, JourneyFields
<1> QED
  BY <1>3, ArrivalKeeps

\* The role of a transaction at its station is the one the scenario authorizes for it.
Executes(step, action, role, next, nextRole) ==
    \E n, m \in 0 .. 12 :
        /\ \A r, k : <<step, r, k>> \in Stations => r = role /\ k = n
        /\ Coffee!Scripted(Coffee!Written(n)) = Coffee!Written(m)
        /\ Coffee!Submitter[action] = role
        /\ action = Coffee!Script[m + 1]
        /\ <<next, nextRole, m + 1>> \in Stations
        /\ next # "complete"

LEMMA ExecutionKeeps ==
    ASSUME CoffeeInv, NEW step, NEW action, NEW role, NEW rules, NEW next, NEW nextRole,
           NEW expected, Executes(step, action, expected, next, nextRole),
           Coffee!Execute(step, action, role, rules, next, nextRole)
    PROVE  CoffeeInv'
<1>1. PICK r, n : Stands(step, r, n)
  BY CommandStands DEF Coffee!Execute
<1>2. PICK n1, m \in 0 .. 12 :
        /\ \A x, k : <<step, x, k>> \in Stations => x = expected /\ k = n1
        /\ Coffee!Scripted(Coffee!Written(n1)) = Coffee!Written(m)
        /\ Coffee!Submitter[action] = expected
        /\ action = Coffee!Script[m + 1]
        /\ <<next, nextRole, m + 1>> \in Stations
        /\ next # "complete"
  BY DEF Executes
<1>3. /\ Coffee!IsAccepted(action)
      /\ Coffee!Scripted(journey.chain) = Coffee!Written(m)
  BY <1>1, <1>2 DEF Stands, Coffee!IsAccepted
<1> DEFINE scripted == [journey EXCEPT !.chain = Coffee!Written(m)]
           l == [journey EXCEPT !.chain = Append(Coffee!Written(m), action)]
<1>4. [scripted EXCEPT !.chain = Append(Coffee!Written(m), action)] = l
  BY <1>1 DEF Stands, JourneyFields
<1>5. journey' = Coffee!GoTo(Coffee!Observe(l, rules), next, nextRole)
  BY <1>1, <1>3, <1>4 DEF Coffee!Execute, Stands, JourneyFields
<1>6. l = [f \in JourneyFields |-> l[f]]
  BY <1>1 DEF Stands, JourneyFields
<1> HIDE DEF l
<1>7. StandsAs(l, Coffee!Observe(l, rules))
  BY <1>6, ObserveStands
<1>8. StandsAs([journey EXCEPT !.chain = Append(Coffee!Written(m), action)],
               Coffee!Observe(l, rules))
  BY <1>7 DEF l
<1> QED
  BY <1>1, <1>2, <1>5, <1>8, FilingKeeps

\* The steps that are played in one role, with one ledger.
LEMMA TransactionsAreAuthorized ==
    /\ Executes("transport-transaction", "RECORD_TRANSPORT", "LOGISTICS",
                "receipt-transaction", "PROCESSOR")
    /\ Executes("receipt-transaction", "RECEIVE_BATCH", "PROCESSOR",
                "ownership-transaction", "PRODUCER")
    /\ Executes("ownership-transaction", "PURCHASE_ON_RECEIPT", "PRODUCER",
                "discrepancy-decision", "PROCESSOR")
    /\ Executes("transformation-transaction", "TRANSFORM_BATCH", "PROCESSOR",
                "transformation-knowledge", "PROCESSOR")
    /\ Executes("packaging-transaction", "PACKAGE_BATCH", "PROCESSOR",
                "distribution-ownership-transaction", "PROCESSOR")
    /\ Executes("distribution-ownership-transaction", "TRANSFER_OWNERSHIP", "PROCESSOR",
                "dispatch-transaction", "DISTRIBUTOR")
    /\ Executes("dispatch-transaction", "DISPATCH_BATCH", "DISTRIBUTOR",
                "tamper-demonstration", "RETAILER")
<1>1. Executes("transport-transaction", "RECORD_TRANSPORT", "LOGISTICS",
              "receipt-transaction", "PROCESSOR")
  <2>1. \A r, k : <<"transport-transaction", r, k>> \in Stations => r = "LOGISTICS" /\ k = 3
    BY DEF Stations
  <2>2. <<"receipt-transaction", "PROCESSOR", 5>> \in Stations
    BY DEF Stations
  <2>3. /\ Coffee!Scripted(Coffee!Written(3)) = Coffee!Written(4)
        /\ "RECORD_TRANSPORT" = Coffee!Script[4 + 1] /\ 4 + 1 = 5
        /\ 3 \in 0 .. 12 /\ 4 \in 0 .. 12
    BY ManifestIsDueOnce, ScriptIs
  <2>4. Coffee!Submitter["RECORD_TRANSPORT"] = "LOGISTICS"
    BY DEF Coffee!Submitter
  <2> QED
    BY <2>1, <2>2, <2>3, <2>4 DEF Executes
<1>2. Executes("receipt-transaction", "RECEIVE_BATCH", "PROCESSOR",
              "ownership-transaction", "PRODUCER")
  <2>1. \A r, k : <<"receipt-transaction", r, k>> \in Stations => r = "PROCESSOR" /\ k = 5
    BY DEF Stations
  <2>2. <<"ownership-transaction", "PRODUCER", 6>> \in Stations
    BY DEF Stations
  <2>3. /\ Coffee!Scripted(Coffee!Written(5)) = Coffee!Written(5)
        /\ "RECEIVE_BATCH" = Coffee!Script[5 + 1] /\ 5 + 1 = 6
        /\ 5 \in 0 .. 12 /\ 5 \in 0 .. 12
    BY ManifestIsDueOnce, ScriptIs
  <2>4. Coffee!Submitter["RECEIVE_BATCH"] = "PROCESSOR"
    BY DEF Coffee!Submitter
  <2> QED
    BY <2>1, <2>2, <2>3, <2>4 DEF Executes
<1>3. Executes("ownership-transaction", "PURCHASE_ON_RECEIPT", "PRODUCER",
              "discrepancy-decision", "PROCESSOR")
  <2>1. \A r, k : <<"ownership-transaction", r, k>> \in Stations => r = "PRODUCER" /\ k = 6
    BY DEF Stations
  <2>2. <<"discrepancy-decision", "PROCESSOR", 7>> \in Stations
    BY DEF Stations
  <2>3. /\ Coffee!Scripted(Coffee!Written(6)) = Coffee!Written(6)
        /\ "PURCHASE_ON_RECEIPT" = Coffee!Script[6 + 1] /\ 6 + 1 = 7
        /\ 6 \in 0 .. 12 /\ 6 \in 0 .. 12
    BY ManifestIsDueOnce, ScriptIs
  <2>4. Coffee!Submitter["PURCHASE_ON_RECEIPT"] = "PRODUCER"
    BY DEF Coffee!Submitter
  <2> QED
    BY <2>1, <2>2, <2>3, <2>4 DEF Executes
<1>4. Executes("transformation-transaction", "TRANSFORM_BATCH", "PROCESSOR",
              "transformation-knowledge", "PROCESSOR")
  <2>1. \A r, k : <<"transformation-transaction", r, k>> \in Stations => r = "PROCESSOR" /\ k = 8
    BY DEF Stations
  <2>2. <<"transformation-knowledge", "PROCESSOR", 9>> \in Stations
    BY DEF Stations
  <2>3. /\ Coffee!Scripted(Coffee!Written(8)) = Coffee!Written(8)
        /\ "TRANSFORM_BATCH" = Coffee!Script[8 + 1] /\ 8 + 1 = 9
        /\ 8 \in 0 .. 12 /\ 8 \in 0 .. 12
    BY ManifestIsDueOnce, ScriptIs
  <2>4. Coffee!Submitter["TRANSFORM_BATCH"] = "PROCESSOR"
    BY DEF Coffee!Submitter
  <2> QED
    BY <2>1, <2>2, <2>3, <2>4 DEF Executes
<1>5. Executes("packaging-transaction", "PACKAGE_BATCH", "PROCESSOR",
              "distribution-ownership-transaction", "PROCESSOR")
  <2>1. \A r, k : <<"packaging-transaction", r, k>> \in Stations => r = "PROCESSOR" /\ k = 9
    BY DEF Stations
  <2>2. <<"distribution-ownership-transaction", "PROCESSOR", 10>> \in Stations
    BY DEF Stations
  <2>3. /\ Coffee!Scripted(Coffee!Written(9)) = Coffee!Written(9)
        /\ "PACKAGE_BATCH" = Coffee!Script[9 + 1] /\ 9 + 1 = 10
        /\ 9 \in 0 .. 12 /\ 9 \in 0 .. 12
    BY ManifestIsDueOnce, ScriptIs
  <2>4. Coffee!Submitter["PACKAGE_BATCH"] = "PROCESSOR"
    BY DEF Coffee!Submitter
  <2> QED
    BY <2>1, <2>2, <2>3, <2>4 DEF Executes
<1>6. Executes("distribution-ownership-transaction", "TRANSFER_OWNERSHIP", "PROCESSOR",
              "dispatch-transaction", "DISTRIBUTOR")
  <2>1. \A r, k : <<"distribution-ownership-transaction", r, k>> \in Stations => r = "PROCESSOR" /\ k = 10
    BY DEF Stations
  <2>2. <<"dispatch-transaction", "DISTRIBUTOR", 11>> \in Stations
    BY DEF Stations
  <2>3. /\ Coffee!Scripted(Coffee!Written(10)) = Coffee!Written(10)
        /\ "TRANSFER_OWNERSHIP" = Coffee!Script[10 + 1] /\ 10 + 1 = 11
        /\ 10 \in 0 .. 12 /\ 10 \in 0 .. 12
    BY ManifestIsDueOnce, ScriptIs
  <2>4. Coffee!Submitter["TRANSFER_OWNERSHIP"] = "PROCESSOR"
    BY DEF Coffee!Submitter
  <2> QED
    BY <2>1, <2>2, <2>3, <2>4 DEF Executes
<1>7. Executes("dispatch-transaction", "DISPATCH_BATCH", "DISTRIBUTOR",
              "tamper-demonstration", "RETAILER")
  <2>1. \A r, k : <<"dispatch-transaction", r, k>> \in Stations => r = "DISTRIBUTOR" /\ k = 11
    BY DEF Stations
  <2>2. <<"tamper-demonstration", "RETAILER", 12>> \in Stations
    BY DEF Stations
  <2>3. /\ Coffee!Scripted(Coffee!Written(11)) = Coffee!Written(11)
        /\ "DISPATCH_BATCH" = Coffee!Script[11 + 1] /\ 11 + 1 = 12
        /\ 11 \in 0 .. 12 /\ 11 \in 0 .. 12
    BY ManifestIsDueOnce, ScriptIs
  <2>4. Coffee!Submitter["DISPATCH_BATCH"] = "DISTRIBUTOR"
    BY DEF Coffee!Submitter
  <2> QED
    BY <2>1, <2>2, <2>3, <2>4 DEF Executes
<1> QED
  BY <1>1, <1>2, <1>3, <1>4, <1>5, <1>6, <1>7

LEMMA TransactionsKeep ==
    ASSUME CoffeeInv,
           \/ Coffee!RecordTransportCondition \/ Coffee!ReceiveBatch \/ Coffee!PurchaseOnReceipt
           \/ Coffee!TransformBatch \/ Coffee!PackageBatch
           \/ Coffee!TransferDistributionOwnership \/ Coffee!DispatchBatch
    PROVE  CoffeeInv'
<1>1. CASE Coffee!RecordTransportCondition
  BY <1>1, TransactionsAreAuthorized, ExecutionKeeps DEF Coffee!RecordTransportCondition
<1>2. CASE Coffee!ReceiveBatch
  BY <1>2, TransactionsAreAuthorized, ExecutionKeeps DEF Coffee!ReceiveBatch
<1>3. CASE Coffee!PurchaseOnReceipt
  BY <1>3, TransactionsAreAuthorized, ExecutionKeeps DEF Coffee!PurchaseOnReceipt
<1>4. CASE Coffee!TransformBatch
  <2>1. PICK rules : Coffee!Execute("transformation-transaction", "TRANSFORM_BATCH", "PROCESSOR",
                                    rules, "transformation-knowledge", journey.context)
    BY <1>4 DEF Coffee!TransformBatch
  <2>2. journey.context = "PROCESSOR"
    BY <2>1 DEF Coffee!Execute
  <2>3. Coffee!Execute("transformation-transaction", "TRANSFORM_BATCH", "PROCESSOR",
                       rules, "transformation-knowledge", "PROCESSOR")
    BY <2>1, <2>2
  <2> QED
    BY <2>3, TransactionsAreAuthorized, ExecutionKeeps
<1>5. CASE Coffee!PackageBatch
  <2>1. PICK rules : Coffee!Execute("packaging-transaction", "PACKAGE_BATCH", "PROCESSOR",
                                    rules, "distribution-ownership-transaction", journey.context)
    BY <1>5 DEF Coffee!PackageBatch
  <2>2. journey.context = "PROCESSOR"
    BY <2>1 DEF Coffee!Execute
  <2>3. Coffee!Execute("packaging-transaction", "PACKAGE_BATCH", "PROCESSOR",
                       rules, "distribution-ownership-transaction", "PROCESSOR")
    BY <2>1, <2>2
  <2> QED
    BY <2>3, TransactionsAreAuthorized, ExecutionKeeps
<1>6. CASE Coffee!TransferDistributionOwnership
  BY <1>6, TransactionsAreAuthorized, ExecutionKeeps DEF Coffee!TransferDistributionOwnership
<1>7. CASE Coffee!DispatchBatch
  BY <1>7, TransactionsAreAuthorized, ExecutionKeeps DEF Coffee!DispatchBatch
<1> QED
  BY <1>1, <1>2, <1>3, <1>4, <1>5, <1>6, <1>7

\* The commands that only answer, ask or agree.
LEMMA CertificateKeeps ==
    ASSUME CoffeeInv, Coffee!InspectEvidence
    PROVE  CoffeeInv'
<1>1. PICK r, n : Stands("certificate-evidence", r, n)
  BY CommandStands DEF Coffee!InspectEvidence
<1> DEFINE l == Coffee!Observe(journey, {"CERTIFICATE_INSPECTED"})
<1>2. StandsAs(journey, l)
  BY <1>1, ObserveStands DEF Stands
<1>3. <<"certificate-decision", r, n>> \in Stations
  BY <1>1 DEF Stands, Stations
<1>4. journey' = Coffee!GoTo(l, "certificate-decision", r)
  BY <1>1 DEF Coffee!InspectEvidence, Stands
<1> QED
  BY <1>1, <1>2, <1>3, <1>4, GoingKeeps

LEMMA CertificateDecisionKeeps ==
    ASSUME CoffeeInv, NEW storage, NEW issuer, NEW cited,
           Coffee!SubmitCertificateDecision(storage, issuer, cited)
    PROVE  CoffeeInv'
<1>1. PICK r, n : Stands("certificate-decision", r, n)
  BY CommandStands DEF Coffee!SubmitCertificateDecision
<1> DEFINE a == Coffee!Answer(journey, "STORAGE_CHOICE", storage)
           b == Coffee!Answer(a, "ISSUER_CHECK", issuer)
           l == Coffee!Observe(b, {"CERTIFICATE_DECISION_SUBMITTED"})
<1>2. StandsAs(journey, a)
  BY <1>1, AnswerStands DEF Stands
<1>3. journey' = Coffee!GoTo(l, "certificate-transaction", r)
  BY <1>1 DEF Coffee!SubmitCertificateDecision, Stands
<1> HIDE DEF a
<1>4. StandsAs(a, b)
  BY <1>2, AnswerStands DEF StandsAs
<1> HIDE DEF b
<1>5. StandsAs(b, l)
  BY <1>4, ObserveStands DEF StandsAs
<1> HIDE DEF l
<1>6. StandsAs(journey, l)
  BY <1>2, <1>4, <1>5 DEF StandsAs
<1>7. <<"certificate-transaction", r, n>> \in Stations
  BY <1>1 DEF Stands, Stations
<1> QED
  BY <1>1, <1>3, <1>6, <1>7, GoingKeeps

LEMMA ConsultationKeeps ==
    ASSUME CoffeeInv, NEW p, Coffee!ConsultPolicy(p)
    PROVE  CoffeeInv'
<1>1. PICK r, n : Stands("certificate-decision", r, n)
  BY CommandStands DEF Coffee!ConsultPolicy
<1>2. Arrives("certificate-decision", r, n)
  BY <1>1 DEF Coffee!ConsultPolicy, Arrives, Stands, JourneyFields
<1> QED
  BY <1>2, ArrivalKeeps

LEMMA CertificateTransactionKeeps ==
    ASSUME CoffeeInv, Coffee!SubmitCertificateTransaction
    PROVE  CoffeeInv'
<1>1. PICK r, n : Stands("certificate-transaction", r, n)
  BY CommandStands DEF Coffee!SubmitCertificateTransaction
<1>2. n = 0 /\ <<"complete", r, 0>> \in Stations
  BY <1>1 DEF Stands, Stations
<1>3. CASE variant = "authorized" /\ Coffee!IsAccepted("ISSUE_CERTIFICATE")
  <2> DEFINE pair == <<"ANCHOR_CERTIFICATE", "ISSUE_CERTIFICATE">>
             l == [journey EXCEPT !.chain = Coffee!Written(1 + 1)]
  <2>1. Coffee!Written(0) \o pair = Coffee!Written(1 + 1)
    <3>1. Coffee!Written(0) = << >>
      BY ScriptIs DEF Coffee!Written
    <3>2. Append(Coffee!Written(0), "ANCHOR_CERTIFICATE") = Coffee!Written(1)
      BY WrittenNext, ScriptIs
    <3>3. Append(Coffee!Written(1), "ISSUE_CERTIFICATE") = Coffee!Written(1 + 1)
      BY WrittenNext, ScriptIs
    <3> QED
      BY <3>1, <3>2, <3>3
  <2>2. journey' = Coffee!GoTo(l, "custody-proposal", "PRODUCER")
    BY <1>1, <1>2, <1>3, <2>1 DEF Coffee!SubmitCertificateTransaction, Stands
  <2>3. <<"custody-proposal", "PRODUCER", 1 + 1>> \in Stations
    BY DEF Stations
  <2>5. /\ l = [f \in JourneyFields |-> l[f]] /\ l.status = "active"
        /\ l.refused \in Seq(MayBeRefused) /\ l.chain = Coffee!Written(1 + 1)
    BY <1>1 DEF Stands, JourneyFields
  <2> HIDE DEF l
  <2>6. 1 + 1 \in 0 .. 13
    OBVIOUS
  <2>4. Arrives("custody-proposal", "PRODUCER", 1 + 1)
    BY <2>2, <2>3, <2>5, <2>6 DEF Arrives, Coffee!GoTo, JourneyFields
  <2> QED
    BY <2>4, ArrivalKeeps
<1>4. CASE ~(variant = "authorized" /\ Coffee!IsAccepted("ISSUE_CERTIFICATE"))
  <2> DEFINE o == Coffee!Observe(journey, {"UNAUTHORIZED_CERTIFICATE_RECOGNIZED"})
             s == Append(journey.refused, "SUSPICIOUS_CERTIFICATE")
             l == [o EXCEPT !.refused = s, !.status = "completed"]
  <2>1. StandsAs(journey, o)
    BY <1>1, ObserveStands DEF Stands
  <2>2. s \in Seq(MayBeRefused)
    BY <1>1 DEF Stands, MayBeRefused
  <2>3. journey' = Coffee!GoTo(l, "complete", r)
    BY <1>1, <1>4, <2>1 DEF Coffee!SubmitCertificateTransaction, Stands, StandsAs
  <2> HIDE DEF o, s
  <2>4. Arrives("complete", r, 0)
    BY <1>1, <1>2, <2>1, <2>2, <2>3 DEF Arrives, Stands, StandsAs, Coffee!GoTo, JourneyFields
  <2> QED
    BY <2>4, ArrivalKeeps
<1> QED
  BY <1>3, <1>4

LEMMA CustodyProposalKeeps ==
    ASSUME CoffeeInv, NEW too \in BOOLEAN, Coffee!CreateCustodyProposal(too)
    PROVE  CoffeeInv'
<1>1. PICK r, n : Stands("custody-proposal", r, n)
  BY CommandStands DEF Coffee!CreateCustodyProposal
<1>2. r = "PRODUCER" /\ n = 2 /\ <<"custody-endorsement", r, n>> \in Stations
  BY <1>1 DEF Stands, Stations
<1>3. CASE too
  <2> DEFINE s == Append(journey.refused, "TRANSFER_CUSTODY")
  <2>1. s \in Seq(MayBeRefused)
    BY <1>1 DEF Stands, MayBeRefused
  <2>2. journey' = [journey EXCEPT !.refused = s]
    BY <1>3 DEF Coffee!CreateCustodyProposal
  <2> HIDE DEF s
  <2>3. Arrives("custody-proposal", r, n)
    BY <1>1, <2>1, <2>2 DEF Arrives, Stands, JourneyFields
  <2> QED
    BY <2>3, ArrivalKeeps
<1>4. CASE ~too
  <2> DEFINE l == Coffee!Answer(journey, "CUSTODY_SCOPE", TRUE)
  <2>1. StandsAs(journey, l)
    BY <1>1, AnswerStands DEF Stands
  <2>2. journey' = Coffee!GoTo(l, "custody-endorsement", r)
    BY <1>1, <1>4 DEF Coffee!CreateCustodyProposal, Stands
  <2> HIDE DEF l
  <2> QED
    BY <1>1, <1>2, <2>1, <2>2, GoingKeeps
<1> QED
  BY <1>3, <1>4

LEMMA CustodyEndorsementKeeps ==
    ASSUME CoffeeInv, Coffee!EndorseCustody
    PROVE  CoffeeInv'
<1>1. PICK r, n : Stands("custody-endorsement", r, n)
  BY CommandStands DEF Coffee!EndorseCustody
<1>2. <<"custody-commit", "LOGISTICS", n>> \in Stations
  BY <1>1 DEF Stands, Stations
<1>3. StandsAs(journey, Coffee!Observe(journey, {"CUSTODY_ENDORSEMENT_SATISFIED"}))
  BY <1>1, ObserveStands DEF Stands
<1>4. journey' = Coffee!GoTo(Coffee!Observe(journey, {"CUSTODY_ENDORSEMENT_SATISFIED"}), "custody-commit", "LOGISTICS")
  BY DEF Coffee!EndorseCustody
<1> QED
  BY <1>1, <1>2, <1>3, <1>4, GoingKeeps

LEMMA CustodyCommitKeeps ==
    ASSUME CoffeeInv, Coffee!CommitCustody
    PROVE  CoffeeInv'
<1>1. PICK r, n : Stands("custody-commit", r, n)
  BY CommandStands DEF Coffee!CommitCustody
<1>2. /\ r = "LOGISTICS" /\ n = 2 /\ 2 \in 0 .. 12
      /\ <<"transport-transaction", r, 2 + 1>> \in Stations
  BY <1>1 DEF Stands, Stations
<1> DEFINE l == [journey EXCEPT !.chain = Append(Coffee!Written(2), "TRANSFER_CUSTODY")]
<1>3. journey' = Coffee!GoTo(l, "transport-transaction", r)
  BY <1>1, <1>2 DEF Coffee!CommitCustody, Stands
<1>4. StandsAs(l, l)
  BY <1>1 DEF Stands, StandsAs, JourneyFields
<1>5. "TRANSFER_CUSTODY" = Coffee!Script[2 + 1]
  BY ScriptIs
<1>6. StandsAs([journey EXCEPT !.chain = Append(Coffee!Written(2), "TRANSFER_CUSTODY")], l)
  BY <1>4
<1>7. "transport-transaction" # "complete"
  OBVIOUS
<1> HIDE DEF l
<1> QED
  BY <1>1, <1>2, <1>3, <1>5, <1>6, <1>7, FilingKeeps

LEMMA DiscrepancyDecisionKeeps ==
    ASSUME CoffeeInv, NEW choice, Coffee!SubmitDiscrepancyDecision(choice)
    PROVE  CoffeeInv'
<1>1. PICK r, n : Stands("discrepancy-decision", r, n)
  BY CommandStands DEF Coffee!SubmitDiscrepancyDecision
<1>2. /\ <<"correction-proposal", "PROCESSOR", n>> \in Stations
      /\ <<"discrepancy-mitigation", "PROCESSOR", n>> \in Stations
  BY <1>1 DEF Stands, Stations
<1> DEFINE rule == IF choice = "overwrite" THEN "DISCREPANCY_REJECTED_ATTEMPT"
                   ELSE "DISCREPANCY_DECISION_SUBMITTED"
           o == Coffee!Observe(journey, {rule})
<1>3. StandsAs(journey, o)
  BY <1>1, ObserveStands DEF Stands
<1>4. journey' = IF choice = "correct"
                 THEN Coffee!GoTo([o EXCEPT !.mitigation = "not-required"],
                                  "correction-proposal", "PROCESSOR")
                 ELSE Coffee!GoTo([o EXCEPT !.mitigation = "required"],
                                  "discrepancy-mitigation", "PROCESSOR")
  BY DEF Coffee!SubmitDiscrepancyDecision
<1> HIDE DEF o
<1>5. /\ StandsAs(journey, [o EXCEPT !.mitigation = "not-required"])
      /\ StandsAs(journey, [o EXCEPT !.mitigation = "required"])
  BY <1>3 DEF StandsAs, JourneyFields
<1>6. CASE choice = "correct"
  BY <1>1, <1>2, <1>4, <1>5, <1>6, GoingKeeps
<1>7. CASE choice # "correct"
  BY <1>1, <1>2, <1>4, <1>5, <1>7, GoingKeeps
<1> QED
  BY <1>6, <1>7

LEMMA InvestigationKeeps ==
    ASSUME CoffeeInv, Coffee!InvestigateDiscrepancy
    PROVE  CoffeeInv'
<1>1. PICK r, n : Stands("discrepancy-mitigation", r, n)
  BY CommandStands DEF Coffee!InvestigateDiscrepancy
<1>2. <<"correction-proposal", "PROCESSOR", n>> \in Stations
  BY <1>1 DEF Stands, Stations
<1>3. StandsAs(journey, [journey EXCEPT !.mitigation = "completed"])
  BY <1>1 DEF Stands, StandsAs, JourneyFields
<1>4. journey' = Coffee!GoTo([journey EXCEPT !.mitigation = "completed"],
                             "correction-proposal", "PROCESSOR")
  BY DEF Coffee!InvestigateDiscrepancy
<1> QED
  BY <1>1, <1>2, <1>3, <1>4, GoingKeeps

LEMMA CorrectionProposalKeeps ==
    ASSUME CoffeeInv, Coffee!CreateCorrectionProposal
    PROVE  CoffeeInv'
<1>1. PICK r, n : Stands("correction-proposal", r, n)
  BY CommandStands DEF Coffee!CreateCorrectionProposal
<1>2. <<"correction-endorsement", r, n>> \in Stations
  BY <1>1 DEF Stands, Stations
<1>3. StandsAs(journey, journey)
  BY <1>1 DEF Stands, StandsAs
<1>4. journey' = Coffee!GoTo(journey, "correction-endorsement", r)
  BY <1>1 DEF Coffee!CreateCorrectionProposal, Stands
<1> QED
  BY <1>1, <1>2, <1>3, <1>4, GoingKeeps

LEMMA CorrectionEndorsementKeeps ==
    ASSUME CoffeeInv, Coffee!EndorseCorrection
    PROVE  CoffeeInv'
<1>1. PICK r, n : Stands("correction-endorsement", r, n)
  BY CommandStands DEF Coffee!EndorseCorrection
<1>2. <<"correction-commit", "PRODUCER", n>> \in Stations
  BY <1>1 DEF Stands, Stations
<1>3. StandsAs(journey, Coffee!Observe(journey, {"CORRECTION_ENDORSEMENT_SATISFIED"}))
  BY <1>1, ObserveStands DEF Stands
<1>4. journey' = Coffee!GoTo(Coffee!Observe(journey, {"CORRECTION_ENDORSEMENT_SATISFIED"}), "correction-commit", "PRODUCER")
  BY DEF Coffee!EndorseCorrection
<1> QED
  BY <1>1, <1>2, <1>3, <1>4, GoingKeeps

LEMMA CorrectionCommitKeeps ==
    ASSUME CoffeeInv, Coffee!CommitCorrection
    PROVE  CoffeeInv'
<1>1. PICK r, n : Stands("correction-commit", r, n)
  BY CommandStands DEF Coffee!CommitCorrection
<1>2. /\ n = 7 /\ 7 \in 0 .. 12
      /\ <<"transformation-transaction", "PROCESSOR", 7 + 1>> \in Stations
  BY <1>1 DEF Stands, Stations
<1> DEFINE l == [journey EXCEPT !.chain = Append(Coffee!Written(7), "RECORD_CORRECTION")]
           o == Coffee!Observe(l, {"APPEND_ONLY_CORRECTION_COMMITTED"})
<1>3. journey' = Coffee!GoTo(o, "transformation-transaction", "PROCESSOR")
  BY <1>1, <1>2 DEF Coffee!CommitCorrection, Stands
<1>4. l = [f \in JourneyFields |-> l[f]]
  BY <1>1 DEF Stands, JourneyFields
<1>5. StandsAs(l, o)
  BY <1>4, ObserveStands
<1>6. "RECORD_CORRECTION" = Coffee!Script[7 + 1]
  BY ScriptIs
<1>7. StandsAs([journey EXCEPT !.chain = Append(Coffee!Written(7), "RECORD_CORRECTION")], o)
  BY <1>5
<1>8. "transformation-transaction" # "complete"
  OBVIOUS
<1> HIDE DEF o
<1> QED
  BY <1>1, <1>2, <1>3, <1>6, <1>7, <1>8, FilingKeeps

LEMMA TamperDemonstrationKeeps ==
    ASSUME CoffeeInv, Coffee!RunTamperDemonstration
    PROVE  CoffeeInv'
<1>1. PICK r, n : Stands("tamper-demonstration", r, n)
  BY CommandStands DEF Coffee!RunTamperDemonstration
<1>2. <<"tamper-knowledge", "RETAILER", n>> \in Stations
  BY <1>1 DEF Stands, Stations
<1>3. StandsAs(journey, Coffee!Observe(journey, {"TAMPER_DEMONSTRATION_COMPLETED"}))
  BY <1>1, ObserveStands DEF Stands
<1>4. journey' = Coffee!GoTo(Coffee!Observe(journey, {"TAMPER_DEMONSTRATION_COMPLETED"}), "tamper-knowledge", "RETAILER")
  BY DEF Coffee!RunTamperDemonstration
<1> QED
  BY <1>1, <1>2, <1>3, <1>4, GoingKeeps

LEMMA KnowledgeDecisionKeeps ==
    ASSUME CoffeeInv, NEW isCorrect, Coffee!SubmitKnowledgeDecision(isCorrect)
    PROVE  CoffeeInv'
<1> DEFINE l1 == Coffee!Recognise(journey, "TRANSFORMATION_PROVENANCE", isCorrect,
                                   "TRANSFORMATION_PROVENANCE_RECOGNIZED")
<1>1. CASE /\ Coffee!Command("transformation-knowledge")
          /\ journey' = Coffee!GoTo(l1, "packaging-transaction", journey.context)
  <2>1. PICK r, n : Stands("transformation-knowledge", r, n)
    BY <1>1, CommandStands
  <2>2. <<"packaging-transaction", r, n>> \in Stations
    BY <2>1 DEF Stands, Stations
  <2>3. StandsAs(journey, l1)
    BY <2>1, RecogniseStands DEF Stands
  <2>4. journey' = Coffee!GoTo(l1, "packaging-transaction", r)
    BY <1>1, <2>1 DEF Stands
  <2> HIDE DEF l1
  <2> QED
    BY <2>1, <2>2, <2>3, <2>4, GoingKeeps
<1> DEFINE l2 == Coffee!Recognise(journey, "TAMPER_DEMONSTRATION", isCorrect,
                                   "TAMPER_EVIDENCE_INTERPRETED")
<1>2. CASE /\ Coffee!Command("tamper-knowledge")
          /\ journey' = Coffee!GoTo(l2, "data-governance-decision", journey.context)
  <2>1. PICK r, n : Stands("tamper-knowledge", r, n)
    BY <1>2, CommandStands
  <2>2. <<"data-governance-decision", r, n>> \in Stations
    BY <2>1 DEF Stands, Stations
  <2>3. StandsAs(journey, l2)
    BY <2>1, RecogniseStands DEF Stands
  <2>4. journey' = Coffee!GoTo(l2, "data-governance-decision", r)
    BY <1>2, <2>1 DEF Stands
  <2> HIDE DEF l2
  <2> QED
    BY <2>1, <2>2, <2>3, <2>4, GoingKeeps
<1> DEFINE l3 == Coffee!Recognise(journey, "BLOCKCHAIN_NECESSITY", isCorrect,
                                   "BLOCKCHAIN_SUITABILITY_RECOGNIZED")
<1>3. CASE /\ Coffee!Command("blockchain-necessity-decision")
          /\ journey' = [Coffee!GoTo(l3, "complete", journey.context)
                            EXCEPT !.status = "completed"]
  <2>1. PICK r, n : Stands("blockchain-necessity-decision", r, n)
    BY <1>3, CommandStands
  <2>2. <<"complete", r, n>> \in Stations
    BY <2>1 DEF Stands, Stations
  <2>3. StandsAs(journey, l3)
    BY <2>1, RecogniseStands DEF Stands
  <2>4. journey' = [Coffee!GoTo(l3, "complete", r) EXCEPT !.status = "completed"]
    BY <1>3, <2>1 DEF Stands
  <2> HIDE DEF l3
  <2>5. Arrives("complete", r, n)
    BY <2>1, <2>2, <2>3, <2>4 DEF Arrives, Stands, StandsAs, Coffee!GoTo, JourneyFields
  <2> QED
    BY <2>5, ArrivalKeeps
<1> QED
  BY <1>1, <1>2, <1>3 DEF Coffee!SubmitKnowledgeDecision

LEMMA GovernanceDecisionKeeps ==
    ASSUME CoffeeInv, NEW isCorrect, Coffee!SubmitDataGovernanceDecision(isCorrect)
    PROVE  CoffeeInv'
<1>1. PICK r, n : Stands("data-governance-decision", r, n)
  BY CommandStands DEF Coffee!SubmitDataGovernanceDecision
<1>2. <<"recall-scope-decision", "RETAILER", n>> \in Stations
  BY <1>1 DEF Stands, Stations
<1> DEFINE l == Coffee!Recognise(journey, "DATA_GOVERNANCE", isCorrect,
                                 "DATA_GOVERNANCE_CLASSIFIED")
<1>3. StandsAs(journey, l)
  BY <1>1, RecogniseStands DEF Stands
<1>4. journey' = Coffee!GoTo(l, "recall-scope-decision", "RETAILER")
  BY DEF Coffee!SubmitDataGovernanceDecision
<1> HIDE DEF l
<1> QED
  BY <1>1, <1>2, <1>3, <1>4, GoingKeeps

LEMMA RecallScopeKeeps ==
    ASSUME CoffeeInv, NEW isCorrect, Coffee!SubmitRecallScopeDecision(isCorrect)
    PROVE  CoffeeInv'
<1>1. PICK r, n : Stands("recall-scope-decision", r, n)
  BY CommandStands DEF Coffee!SubmitRecallScopeDecision
<1>2. <<"recall-transaction", "RETAILER", n>> \in Stations
  BY <1>1 DEF Stands, Stations
<1> DEFINE a == Coffee!Answer(journey, "RECALL_SCOPE", isCorrect)
           l == Coffee!Observe(a, {"RECALL_SCOPE_SUBMITTED"})
<1>3. StandsAs(journey, a)
  BY <1>1, AnswerStands DEF Stands
<1>4. journey' = Coffee!GoTo(l, "recall-transaction", "RETAILER")
  BY DEF Coffee!SubmitRecallScopeDecision
<1> HIDE DEF a
<1>5. StandsAs(a, l)
  BY <1>3, ObserveStands DEF StandsAs
<1> HIDE DEF l
<1>6. StandsAs(journey, l)
  BY <1>3, <1>5 DEF StandsAs
<1> QED
  BY <1>1, <1>2, <1>4, <1>6, GoingKeeps

LEMMA RecallHandoffKeeps ==
    ASSUME CoffeeInv, Coffee!RequestRecallHandoff
    PROVE  CoffeeInv'
<1>1. PICK s, r, n : Stands(s, r, n) /\ s \in {"recall-transaction", "recall-handoff"}
  BY CommandStands DEF Coffee!RequestRecallHandoff
<1>2. <<"recall-authorized-transaction", "REGULATOR", n>> \in Stations
  BY <1>1 DEF Stands, Stations
<1>3. StandsAs(journey, journey)
  BY <1>1 DEF Stands, StandsAs
<1>4. journey' = Coffee!GoTo(journey, "recall-authorized-transaction", "REGULATOR")
  BY DEF Coffee!RequestRecallHandoff
<1> QED
  BY <1>1, <1>2, <1>3, <1>4, GoingKeeps

\* The retailer's recall is turned down, the regulator's is not.
LEMMA RecallKeeps ==
    ASSUME CoffeeInv, Coffee!SubmitRecall
    PROVE  CoffeeInv'
<1>1. PICK s, r, n : /\ Stands(s, r, n)
                     /\ s \in {"recall-transaction", "recall-authorized-transaction"}
  BY CommandStands DEF Coffee!SubmitRecall
<1>2. /\ n = 12 /\ 12 \in 0 .. 12
      /\ r = "RETAILER" => <<"recall-handoff", r, n>> \in Stations
      /\ r = "REGULATOR" => <<"blockchain-necessity-decision", r, 12 + 1>> \in Stations
      /\ r \in {"RETAILER", "REGULATOR"}
  BY <1>1 DEF Stands, Stations
<1>3. Coffee!IsAccepted("RECALL_BATCH") <=> r = "REGULATOR"
  BY <1>1 DEF Stands, Coffee!IsAccepted, Coffee!Submitter
<1>4. CASE r = "REGULATOR"
  <2> DEFINE l == [journey EXCEPT !.chain = Append(Coffee!Written(12), "RECALL_BATCH")]
             o == Coffee!Observe(l, {"AUTHORIZED_RECALL_COMMITTED"})
  <2>1. journey' = Coffee!GoTo(o, "blockchain-necessity-decision", r)
    BY <1>1, <1>2, <1>3, <1>4 DEF Coffee!SubmitRecall, Stands
  <2>2. l = [f \in JourneyFields |-> l[f]]
    BY <1>1 DEF Stands, JourneyFields
  <2>3. StandsAs(l, o)
    BY <2>2, ObserveStands
  <2>4. "RECALL_BATCH" = Coffee!Script[12 + 1]
    BY ScriptIs
  <2>5. StandsAs([journey EXCEPT !.chain = Append(Coffee!Written(12), "RECALL_BATCH")], o)
    BY <2>3
  <2>6. "blockchain-necessity-decision" # "complete"
    OBVIOUS
  <2> HIDE DEF o
  <2> QED
    BY <1>1, <1>2, <1>4, <2>1, <2>4, <2>5, <2>6, FilingKeeps
<1>5. CASE r = "RETAILER"
  <2> DEFINE more == Append(journey.refused, "RECALL_BATCH")
             l == [journey EXCEPT !.refused = more]
             o == Coffee!Observe(l, {"UNAUTHORIZED_RECALL_RETAINED"})
  <2>1. journey' = Coffee!GoTo(o, "recall-handoff", r)
    BY <1>1, <1>2, <1>3, <1>5 DEF Coffee!SubmitRecall, Stands
  <2>2. more \in Seq(MayBeRefused)
    BY <1>1 DEF Stands, MayBeRefused
  <2> HIDE DEF more
  <2>3. /\ l = [f \in JourneyFields |-> l[f]] /\ l.status = "active"
        /\ l.chain = journey.chain /\ l.refused = more
    BY <1>1 DEF Stands, JourneyFields
  <2> HIDE DEF l
  <2>4. StandsAs(l, o)
    BY <2>3, ObserveStands
  <2> HIDE DEF o
  <2>5. Arrives("recall-handoff", r, n)
    BY <1>1, <1>2, <1>5, <2>1, <2>2, <2>3, <2>4
    DEF Arrives, Stands, StandsAs, Coffee!GoTo, JourneyFields
  <2> QED
    BY <2>5, ArrivalKeeps
<1> QED
  BY <1>2, <1>4, <1>5

LEMMA ExpiryKeeps ==
    ASSUME CoffeeInv, Coffee!Expire
    PROVE  CoffeeInv'
<1>1. /\ journey # Coffee!NoJourney /\ journey.status = "active"
      /\ journey' = [journey EXCEPT !.expired = TRUE]
  BY DEF Coffee!Expire, Coffee!IsActive, Coffee!NoJourney
<1>2. PICK n \in 0 .. 13 : StandsAt(journey, n)
  BY <1>1 DEF CoffeeInv
<1>3. Arrives(journey.step, journey.context, n)
  BY <1>1, <1>2 DEF CoffeeInv, Arrives, StandsAt, JourneyFields
<1> QED
  BY <1>3, ArrivalKeeps

LEMMA JourneyCreationKeeps ==
    ASSUME Coffee!CreateRun
    PROVE  CoffeeInv'
<1>1. PICK r \in {"CERTIFIER", "LOGISTICS"} :
        journey' = [status |-> "active", step |-> "certificate-evidence", context |-> r,
                    consulted |-> {}, answers |-> << >>, mitigation |-> "none",
                    chain |-> << >>, refused |-> << >>, evidence |-> {}, expired |-> FALSE]
  BY DEF Coffee!CreateRun
<1>2. Coffee!Written(0) = << >>
  BY ScriptIs DEF Coffee!Written
<1>3. << >> \in Seq(MayBeRefused) /\ <<"certificate-evidence", r, 0>> \in Stations
  BY DEF Stations
<1>4. journey' = [f \in JourneyFields |-> journey'[f]]
  BY <1>1 DEF JourneyFields
<1>5. /\ journey'.status = "active" /\ journey'.step = "certificate-evidence"
      /\ journey'.context = r /\ journey'.chain = << >> /\ journey'.refused = << >>
  BY <1>1
<1>6. Arrives("certificate-evidence", r, 0)
  BY <1>2, <1>3, <1>4, <1>5 DEF Arrives
<1> QED
  BY <1>6, ArrivalKeeps

LEMMA CoffeeKeeps ==
    ASSUME CoffeeInv, Coffee!Next
    PROVE  CoffeeInv'
<1>1. CASE Coffee!CreateRun
  BY <1>1, JourneyCreationKeeps
<1>2. CASE Coffee!Progress
  BY <1>2, CertificateKeeps, CertificateDecisionKeeps, CertificateTransactionKeeps,
     CustodyProposalKeeps, CustodyEndorsementKeeps, CustodyCommitKeeps, TransactionsKeep,
     DiscrepancyDecisionKeeps, InvestigationKeeps, CorrectionProposalKeeps,
     CorrectionEndorsementKeeps, CorrectionCommitKeeps, TamperDemonstrationKeeps,
     KnowledgeDecisionKeeps, GovernanceDecisionKeeps, RecallScopeKeeps, RecallHandoffKeeps,
     RecallKeeps
  DEF Coffee!Progress
<1>3. CASE Coffee!CreateCustodyProposal(TRUE)
  BY <1>3, CustodyProposalKeeps
<1>4. CASE \E p \in CoffeePolicies : Coffee!ConsultPolicy(p)
  BY <1>4, ConsultationKeeps
<1>5. CASE Coffee!Expire
  BY <1>5, ExpiryKeeps
<1>6. CASE Coffee!ClockPasses
  BY <1>6 DEF Coffee!ClockPasses, CoffeeInv, StandsAt
<1> QED
  BY <1>1, <1>2, <1>3, <1>4, <1>5, <1>6 DEF Coffee!Next

-----------------------------------------------------------------------------
(* The technical laboratory *)

LabFields == {"status", "module", "performed", "responses", "hinted"}

LabTypeOK(l) ==
    /\ l = [f \in LabFields |-> l[f]]
    /\ l.status \in {"active", "completed"}
    /\ l.module \in Lab!Indexes
    /\ l.performed \in [Lab!Indexes -> Nat]
    /\ l.responses \in [Lab!Indexes -> [Lab!Kinds -> Seq(BOOLEAN)]]
    /\ l.hinted \subseteq Lab!Indexes

\* What the replay demands of the journal of one module.
ModuleReplays(l, i) ==
    /\ i < l.module => Lab!IsComplete(l, i)
    /\ i > l.module => ~Lab!Active(l, i)
    /\ l.performed[i] <= Modules[i].actions
    /\ i \in l.hinted \/ (\E kd \in Lab!Kinds : Lab!Answers(l, i, kd) # << >>)
           => Lab!ExperimentIsComplete(l, i)
    /\ \A kd \in Lab!Kinds :
           /\ Len(Lab!Answers(l, i, kd)) <= Modules[i].maximumAttempts
           /\ \A n \in DOMAIN Lab!Answers(l, i, kd) :
                  Lab!Answers(l, i, kd)[n] => n = Len(Lab!Answers(l, i, kd))

LabInv ==
    lab # Lab!NoLab =>
        /\ LabTypeOK(lab)
        /\ \A i \in Lab!Indexes : ModuleReplays(lab, i)
        /\ lab.status = "completed" <=> Lab!AllComplete(lab)

USE DEF Lab!Indexes

LEMMA LabReplays ==
    ASSUME LabInv
    PROVE  Lab!Replays
BY DEF LabInv, LabTypeOK, ModuleReplays, Lab!Replays

LEMMA ModulesAre ==
    /\ Lab!Indexes = 1 .. Len(Modules) /\ Len(Modules) \in Nat \ {0}
    /\ \A i \in Lab!Indexes : Modules[i].actions \in Nat \ {0} /\ Modules[i].maximumAttempts \in Nat \ {0}
BY LaboratoryAssumption DEF Lab!ModulesAreSound

\* A module that no step touches is as it was.
SameModule(l, m, i) ==
    /\ m.performed[i] = l.performed[i]
    /\ m.responses[i] = l.responses[i]
    /\ i \in m.hinted <=> i \in l.hinted

LEMMA SameModuleReplays ==
    ASSUME NEW l, NEW m, NEW i, SameModule(l, m, i), m.module = l.module, ModuleReplays(l, i)
    PROVE  ModuleReplays(m, i)
BY DEF SameModule, ModuleReplays, Lab!IsComplete, Lab!Active, Lab!ExperimentIsComplete,
       Lab!Answers, Lab!IsTerminal, Lab!IsCorrect

\* A submission that leaves the other modules alone keeps the invariant.
LEMMA SubmitKeeps ==
    ASSUME lab # Lab!NoLab, NEW l, LabTypeOK(l), l.status = "active", \A i \in Lab!Indexes : ModuleReplays(l, i),
           Lab!Submit(l)
    PROVE  LabInv'
<1>1. /\ lab'.module = l.module /\ lab'.performed = l.performed /\ lab'.responses = l.responses
      /\ lab'.hinted = l.hinted
      /\ lab'.status = IF Lab!AllComplete(l) THEN "completed" ELSE "active"
      /\ lab' = [f \in LabFields |-> lab'[f]]
  BY DEF Lab!Submit, LabTypeOK, LabFields
<1>2. LabTypeOK(lab')
  BY <1>1 DEF LabTypeOK
<1>3. \A i \in Lab!Indexes : ModuleReplays(lab', i)
  BY <1>1, SameModuleReplays DEF SameModule
<1>4. \A i \in Lab!Indexes : Lab!IsComplete(lab', i) <=> Lab!IsComplete(l, i)
  BY <1>1 DEF Lab!IsComplete, Lab!ExperimentIsComplete, Lab!Answers, Lab!IsTerminal, Lab!IsCorrect
<1>5. lab'.status = "completed" <=> Lab!AllComplete(lab')
  BY <1>1, <1>4 DEF Lab!AllComplete
<1> QED
  BY <1>2, <1>3, <1>5 DEF LabInv

LEMMA CreationKeeps ==
    ASSUME Lab!CreateRun
    PROVE  LabInv'
<1>1. /\ lab' = [f \in LabFields |-> lab'[f]]
      /\ lab'.module = 1 /\ lab'.hinted = {} /\ lab'.status = "active"
      /\ lab'.performed = [i \in Lab!Indexes |-> 0]
      /\ lab'.responses = [i \in Lab!Indexes |-> [kd \in Lab!Kinds |-> << >>]]
  BY DEF Lab!CreateRun, LabFields
<1>2. 1 \in Lab!Indexes
  BY ModulesAre
<1>3. LabTypeOK(lab')
  <2>1. lab'.performed \in [Lab!Indexes -> Nat]
    BY <1>1
  <2>2. << >> \in Seq(BOOLEAN)
    OBVIOUS
  <2>3. [kd \in Lab!Kinds |-> << >>] \in [Lab!Kinds -> Seq(BOOLEAN)]
    BY <2>2
  <2>4. lab'.responses \in [Lab!Indexes -> [Lab!Kinds -> Seq(BOOLEAN)]]
    BY <1>1, <2>3
  <2> QED
    BY <1>1, <1>2, <2>1, <2>4 DEF LabTypeOK
<1>4. /\ \A i \in Lab!Indexes : lab'.performed[i] = 0
      /\ \A i \in Lab!Indexes, kd \in Lab!Kinds : Lab!Answers(lab', i, kd) = << >>
  BY <1>1 DEF Lab!Answers
<1>5. \A i \in Lab!Indexes : ModuleReplays(lab', i)
  <2> TAKE i \in Lab!Indexes
  <2>1. i \in Nat /\ ~(i < 1) /\ ~Lab!Active(lab', i)
    BY <1>1, <1>4, ModulesAre DEF Lab!Active
  <2>2. \A kd \in Lab!Kinds :
           /\ Len(Lab!Answers(lab', i, kd)) <= Modules[i].maximumAttempts
           /\ \A n \in DOMAIN Lab!Answers(lab', i, kd) :
                  Lab!Answers(lab', i, kd)[n] => n = Len(Lab!Answers(lab', i, kd))
    BY <1>4, ModulesAre
  <2> QED
    BY <1>1, <1>4, <2>1, <2>2, ModulesAre DEF ModuleReplays
<1>6. ~Lab!AllComplete(lab')
  <2>1. ~Lab!ExperimentIsComplete(lab', 1)
    BY <1>2, <1>4, ModulesAre DEF Lab!ExperimentIsComplete
  <2> QED
    BY <1>2, <2>1 DEF Lab!AllComplete, Lab!IsComplete
<1> QED
  BY <1>1, <1>3, <1>5, <1>6 DEF LabInv

Ready ==
    /\ lab # Lab!NoLab /\ lab.status = "active" /\ LabTypeOK(lab)
    /\ \A i \in Lab!Indexes : ModuleReplays(lab, i)
    /\ ~Lab!AllComplete(lab)

LEMMA ActiveIsReady ==
    ASSUME LabInv, Lab!IsActive
    PROVE  Ready
BY DEF LabInv, Lab!IsActive, Lab!NoLab, Ready

\* What a step leaves of a laboratory that it changes at the module at hand only.
LEMMA StepKeeps ==
    ASSUME Ready, NEW l, Lab!Submit(l), l = [f \in LabFields |-> l[f]], l.status = "active",
           l.module = lab.module,
           l.performed \in [Lab!Indexes -> Nat],
           l.responses \in [Lab!Indexes -> [Lab!Kinds -> Seq(BOOLEAN)]],
           l.hinted \subseteq Lab!Indexes,
           \A i \in Lab!Indexes \ {lab.module} : SameModule(lab, l, i),
           ModuleReplays(l, lab.module)
    PROVE  LabInv'
<1>1. LabTypeOK(l)
  BY DEF LabTypeOK, Ready
<1>2. \A i \in Lab!Indexes : ModuleReplays(l, i)
  BY SameModuleReplays DEF Ready
<1> QED
  BY <1>1, <1>2, SubmitKeeps DEF Ready

LEMMA ActionKeeps ==
    ASSUME LabInv, Lab!PerformAction
    PROVE  LabInv'
<1> DEFINE here == lab.module
           l == [lab EXCEPT !.performed[lab.module] = @ + 1]
<1>1. Ready /\ Lab!Submit(l) /\ lab.performed[here] # Modules[here].actions
  BY ActiveIsReady DEF Lab!PerformAction, Lab!ExperimentIsComplete
<1>2. here \in Lab!Indexes /\ lab.performed \in [Lab!Indexes -> Nat] /\ ModuleReplays(lab, here)
  BY <1>1 DEF Ready, LabTypeOK
<1>3. /\ l = [f \in LabFields |-> l[f]] /\ l.status = "active" /\ l.module = here
      /\ l.responses = lab.responses /\ l.hinted = lab.hinted
      /\ l.performed = [lab.performed EXCEPT ![here] = @ + 1]
  BY <1>1 DEF Ready, LabTypeOK, LabFields
<1> HIDE DEF l
<1>4. l.performed \in [Lab!Indexes -> Nat] /\ l.performed[here] = lab.performed[here] + 1
  BY <1>2, <1>3
<1>5. \A i \in Lab!Indexes \ {here} : SameModule(lab, l, i)
  BY <1>2, <1>3 DEF SameModule
<1>6. /\ Modules[here].actions \in Nat /\ lab.performed[here] \in Nat
      /\ lab.performed[here] <= Modules[here].actions
  BY <1>2, ModulesAre DEF ModuleReplays
<1>7. /\ \A kd : Lab!Answers(l, here, kd) = Lab!Answers(lab, here, kd)
      /\ here \in l.hinted <=> here \in lab.hinted
  BY <1>3 DEF Lab!Answers
<1>8. ~Lab!ExperimentIsComplete(lab, here) /\ here \in Nat
  BY <1>1, <1>2, ModulesAre DEF Lab!ExperimentIsComplete
<1>9. ModuleReplays(l, here)
  <2>1. l.performed[here] <= Modules[here].actions /\ ~(here < here) /\ ~(here > here)
    BY <1>1, <1>4, <1>6, <1>8
  <2> QED
    BY <2>1, <1>2, <1>3, <1>7, <1>8 DEF ModuleReplays
<1>10. /\ l.responses \in [Lab!Indexes -> [Lab!Kinds -> Seq(BOOLEAN)]]
       /\ l.hinted \subseteq Lab!Indexes
  BY <1>1, <1>3 DEF Ready, LabTypeOK
<1> QED
  BY <1>1, <1>3, <1>4, <1>5, <1>9, <1>10, StepKeeps

LEMMA ResponseKeeps ==
    ASSUME LabInv, NEW kd \in Lab!Kinds, NEW right \in BOOLEAN, Lab!SubmitResponse(kd, right)
    PROVE  LabInv'
<1> DEFINE here == lab.module
           given == lab.responses[here][kd]
           l == [lab EXCEPT !.responses[lab.module][kd] = Append(@, right)]
<1>1. /\ Ready /\ Lab!Submit(l) /\ Lab!ExperimentIsComplete(lab, here)
      /\ ~Lab!IsTerminal(lab, here, kd)
  BY ActiveIsReady DEF Lab!SubmitResponse
<1>2. /\ here \in Lab!Indexes /\ ModuleReplays(lab, here)
      /\ lab.responses \in [Lab!Indexes -> [Lab!Kinds -> Seq(BOOLEAN)]]
      /\ lab.hinted \subseteq Lab!Indexes /\ lab.performed \in [Lab!Indexes -> Nat]
  BY <1>1 DEF Ready, LabTypeOK
<1>3. /\ l = [f \in LabFields |-> l[f]] /\ l.status = "active" /\ l.module = here
      /\ l.performed = lab.performed /\ l.hinted = lab.hinted
      /\ l.responses = [lab.responses EXCEPT ![here][kd] = Append(@, right)]
  BY <1>1 DEF Ready, LabTypeOK, LabFields
<1> HIDE DEF l
<1>4. lab.responses[here] \in [Lab!Kinds -> Seq(BOOLEAN)] /\ given \in Seq(BOOLEAN)
  BY <1>2
<1>5. /\ l.responses[here] = [lab.responses[here] EXCEPT ![kd] = Append(given, right)]
      /\ \A i \in Lab!Indexes \ {here} : l.responses[i] = lab.responses[i]
  BY <1>2, <1>3
<1>6. Append(given, right) \in Seq(BOOLEAN)
  BY <1>4
<1>7. l.responses[here] \in [Lab!Kinds -> Seq(BOOLEAN)]
  BY <1>4, <1>5, <1>6
<1>8. l.responses \in [Lab!Indexes -> [Lab!Kinds -> Seq(BOOLEAN)]]
  BY <1>2, <1>3, <1>5, <1>7
<1>9. \A i \in Lab!Indexes \ {here} : SameModule(lab, l, i)
  BY <1>3, <1>5 DEF SameModule
<1>10. /\ Lab!Answers(lab, here, kd) = given
       /\ Lab!Answers(l, here, kd) = Append(given, right)
       /\ \A k \in Lab!Kinds \ {kd} : Lab!Answers(l, here, k) = Lab!Answers(lab, here, k)
  BY <1>4, <1>5 DEF Lab!Answers
<1>11. /\ Len(given) < Modules[here].maximumAttempts
       /\ \A n \in DOMAIN given : ~given[n]
       /\ Modules[here].maximumAttempts \in Nat /\ Len(given) \in Nat
  BY <1>1, <1>2, <1>4, <1>10, ModulesAre DEF Lab!IsTerminal, Lab!IsCorrect
<1>12. /\ Len(Append(given, right)) <= Modules[here].maximumAttempts
       /\ \A n \in DOMAIN Append(given, right) :
              Append(given, right)[n] => n = Len(Append(given, right))
  <2>1. /\ Len(Append(given, right)) = Len(given) + 1
        /\ DOMAIN Append(given, right) = 1 .. Len(given) + 1 /\ DOMAIN given = 1 .. Len(given)
        /\ \A n \in 1 .. Len(given) : Append(given, right)[n] = given[n]
    BY <1>4, <1>6
  <2> QED
    BY <2>1, <1>11
<1>13. Lab!ExperimentIsComplete(l, here) /\ here \in Nat
  BY <1>1, <1>2, <1>3, ModulesAre DEF Lab!ExperimentIsComplete
<1>14. ModuleReplays(l, here)
  <2>1. l.performed[here] <= Modules[here].actions /\ ~(here < here) /\ ~(here > here)
    BY <1>2, <1>3, <1>13 DEF ModuleReplays
  <2>2. \A k \in Lab!Kinds :
           /\ Len(Lab!Answers(l, here, k)) <= Modules[here].maximumAttempts
           /\ \A n \in DOMAIN Lab!Answers(l, here, k) :
                  Lab!Answers(l, here, k)[n] => n = Len(Lab!Answers(l, here, k))
    BY <1>2, <1>10, <1>12 DEF ModuleReplays
  <2> QED
    BY <2>1, <2>2, <1>3, <1>13 DEF ModuleReplays
<1> QED
  BY <1>1, <1>2, <1>3, <1>8, <1>9, <1>14, StepKeeps

LEMMA HintKeeps ==
    ASSUME LabInv, NEW i0, Lab!OpenHint(i0)
    PROVE  LabInv'
<1> DEFINE here == lab.module
           l == [lab EXCEPT !.hinted = @ \union {i0}]
<1>1. Ready /\ Lab!Submit(l) /\ Lab!ExperimentIsComplete(lab, here) /\ i0 = here
  BY ActiveIsReady DEF Lab!OpenHint, Lab!MayOpenHint
<1>2. /\ here \in Lab!Indexes /\ ModuleReplays(lab, here)
      /\ lab.responses \in [Lab!Indexes -> [Lab!Kinds -> Seq(BOOLEAN)]]
      /\ lab.hinted \subseteq Lab!Indexes /\ lab.performed \in [Lab!Indexes -> Nat]
  BY <1>1 DEF Ready, LabTypeOK
<1>3. /\ l = [f \in LabFields |-> l[f]] /\ l.status = "active" /\ l.module = here
      /\ l.performed = lab.performed /\ l.responses = lab.responses
      /\ l.hinted = lab.hinted \union {here}
  BY <1>1 DEF Ready, LabTypeOK, LabFields
<1> HIDE DEF l
<1>4. \A i \in Lab!Indexes \ {here} : SameModule(lab, l, i)
  BY <1>3 DEF SameModule
<1>5. Lab!ExperimentIsComplete(l, here) /\ here \in Nat
  BY <1>1, <1>2, <1>3, ModulesAre DEF Lab!ExperimentIsComplete
<1>6. ModuleReplays(l, here)
  <2>1. l.performed[here] <= Modules[here].actions /\ ~(here < here) /\ ~(here > here)
    BY <1>2, <1>3, <1>5 DEF ModuleReplays
  <2>2. \A kd : Lab!Answers(l, here, kd) = Lab!Answers(lab, here, kd)
    BY <1>3 DEF Lab!Answers
  <2> QED
    BY <2>1, <2>2, <1>2, <1>3, <1>5 DEF ModuleReplays
<1> QED
  BY <1>1, <1>2, <1>3, <1>4, <1>6, StepKeeps

LEMMA AdvanceKeeps ==
    ASSUME LabInv, Lab!AdvanceModule
    PROVE  LabInv'
<1> DEFINE here == lab.module
           l == [lab EXCEPT !.module = @ + 1]
<1>1. Ready /\ Lab!Submit(l) /\ Lab!IsComplete(lab, here)
  BY ActiveIsReady DEF Lab!AdvanceModule
<1>2. here \in Lab!Indexes /\ here \in Nat /\ \A i \in Lab!Indexes : ModuleReplays(lab, i)
  BY <1>1, ModulesAre DEF Ready, LabTypeOK
<1>3. /\ l = [f \in LabFields |-> l[f]] /\ l.status = "active" /\ l.module = here + 1
      /\ l.performed = lab.performed /\ l.responses = lab.responses
      /\ l.hinted = lab.hinted
  BY <1>1 DEF Ready, LabTypeOK, LabFields
<1>4. here # Len(Modules)
  <2>1. SUFFICES ASSUME here = Len(Modules) PROVE Lab!AllComplete(lab)
    BY <1>1 DEF Ready
  <2>2. \A i \in Lab!Indexes : i < here \/ i = here
    BY <2>1, ModulesAre
  <2>3. \A i \in Lab!Indexes : i < here => Lab!IsComplete(lab, i)
    BY <1>2 DEF ModuleReplays
  <2> QED
    BY <2>2, <2>3, <1>1 DEF Lab!AllComplete
<1>5. here + 1 \in Lab!Indexes
  BY <1>2, <1>4, ModulesAre
<1> HIDE DEF l
<1>6. LabTypeOK(l)
  BY <1>1, <1>3, <1>5 DEF LabTypeOK, Ready
<1>7. \A i \in Lab!Indexes : ModuleReplays(l, i)
  <2> TAKE i \in Lab!Indexes
  <2>1. i \in Nat /\ here \in Nat
    BY <1>2, ModulesAre
  <2>2. /\ Lab!IsComplete(l, i) <=> Lab!IsComplete(lab, i)
        /\ Lab!Active(l, i) <=> Lab!Active(lab, i)
        /\ Lab!ExperimentIsComplete(l, i) <=> Lab!ExperimentIsComplete(lab, i)
        /\ \A k : Lab!Answers(l, i, k) = Lab!Answers(lab, i, k)
    BY <1>3 DEF Lab!IsComplete, Lab!ExperimentIsComplete, Lab!Answers, Lab!IsTerminal,
                Lab!IsCorrect, Lab!Active
  <2>3. i < here + 1 => Lab!IsComplete(lab, i)
    BY <2>1, <1>1, <1>2 DEF ModuleReplays
  <2>4. i > here + 1 => ~Lab!Active(lab, i)
    BY <2>1, <1>2 DEF ModuleReplays
  <2>5. ModuleReplays(lab, i)
    BY <1>2
  <2> QED
    BY <2>2, <2>3, <2>4, <2>5, <1>3 DEF ModuleReplays
<1> QED
  BY <1>1, <1>3, <1>6, <1>7, SubmitKeeps DEF Ready

LEMMA LabKeeps ==
    ASSUME LabInv, Lab!Next
    PROVE  LabInv'
BY CreationKeeps, ActionKeeps, ResponseKeeps, HintKeeps, AdvanceKeeps DEF Lab!Next, Lab!Respond

-----------------------------------------------------------------------------
(* The runtime *)

RuntimeInv ==
    /\ AuditInv /\ LabInv /\ CoffeeInv
    /\ kind # "audit-v1" => audit = Audit!NoAudit

LEMMA RuntimeStarts == RuntimeInit => RuntimeInv
BY DEF RuntimeInit, RuntimeInv, AuditInv, LabInv, CoffeeInv, NoAudit, NoLab, NoCoffee, Audit!Init,
       Lab!Init, Coffee!Init

LEMMA RuntimeSteps == RuntimeInv /\ [RuntimeNext]_runtime => RuntimeInv'
<1> SUFFICES ASSUME RuntimeInv, [RuntimeNext]_runtime PROVE RuntimeInv'
  OBVIOUS
<1>1. AuditInv /\ LabInv /\ CoffeeInv /\ (kind # "audit-v1" => audit = Audit!NoAudit)
  BY DEF RuntimeInv
<1>2. UNCHANGED audit /\ audit = Audit!NoAudit => AuditInv'
  BY DEF AuditInv
<1>3. UNCHANGED lab => LabInv'
  BY <1>1 DEF LabInv, LabTypeOK, ModuleReplays
<1>4. UNCHANGED journey => CoffeeInv'
  BY <1>1 DEF CoffeeInv, StandsAt
<1>5. CASE GenericRun
  BY <1>1, <1>2, <1>3, <1>4, <1>5 DEF GenericRun, Play, RuntimeInv
<1>6. CASE AuditRun
  BY <1>1, <1>3, <1>4, <1>6, AuditKeeps DEF AuditRun, Play, RuntimeInv
<1>7. CASE TechnicalLab
  BY <1>1, <1>2, <1>4, <1>7, LabKeeps DEF TechnicalLab, Play, RuntimeInv
<1>8. CASE CoffeeRun
  BY <1>1, <1>2, <1>3, <1>8, CoffeeKeeps DEF CoffeeRun, Play, RuntimeInv
<1>9. CASE UNCHANGED runtime
  <2>1. UNCHANGED <<kind, audit, overdue, lab, journey>>
    BY <1>9 DEF runtime
  <2>2. AuditInv'
    BY <1>1, <2>1 DEF AuditInv, Audit!Replays, Audit!Submitted
  <2> QED
    BY <1>1, <1>3, <1>4, <2>1, <2>2 DEF RuntimeInv
<1> QED
  BY <1>5, <1>6, <1>7, <1>8, <1>9 DEF RuntimeNext

\* The inductive invariant of the runtime holds, whichever service plays the run.
LEMMA RuntimeInvariant == RuntimeSpec => []RuntimeInv
BY RuntimeStarts, RuntimeSteps, PTL DEF RuntimeSpec

\* What is stored of an audit, of a laboratory and of a coffee journey can be loaded
\* again after every order of legal commands: the reducer, which checks the events once
\* more, accepts them (applyEvent and replayEvents of the services).
THEOREM RunsReplay == RuntimeSpec => []StoredRunsReplay
<1>1. RuntimeInv => StoredRunsReplay
  BY CoffeeReplays, LabReplays
  DEF RuntimeInv, StoredRunsReplay, AuditInv, Audit!Replays
<1> QED
  BY <1>1, RuntimeInvariant, PTL

-----------------------------------------------------------------------------
(* Scenarios played by the generic service *)

RunFields ==
    {"status", "mode", "node", "completed", "role", "released", "inspected", "consulted",
     "requested", "incidents", "decisions", "proposals", "endorsements", "evaluations",
     "committed", "communications", "chances", "reflections", "competency", "expired",
     "draws", "outcome", "occurred"}

IsRun(r) == r = [f \in RunFields |-> r[f]]

\* x is as r but for the fields of F.
Agree(r, x, F) == IsRun(x) /\ \A f \in RunFields \ F : x[f] = r[f]

\* What GenericRun says of the scenario that is played, of any scenario.
OfferedBy(s, r) ==
    UNION {s.nodes[n].evidence : n \in r.completed \intersect Generic!NodesOf(s, "EVIDENCE_RELEASE")}

ReleaseIsEarned(s, r, e) ==
    \/ e \in OfferedBy(s, r) /\ s.evidence[e].access = "AVAILABLE"
    \/ /\ e \in OfferedBy(s, r) \intersect r.requested
       /\ s.modes[r.mode].requests
       /\ s.evidence[e].permission # Generic!None =>
              s.policies[s.evidence[e].permission].type = "AUTHORIZATION"
    \/ \E i \in r.incidents : e \in s.incidents[i].evidence

CitesWhatIsOut(r, d) ==
    /\ r.decisions[d].evidence \subseteq r.released
    /\ r.decisions[d].policies \subseteq r.consulted

CommitIsApproved(s, r, p) ==
    LET commit == r.committed[p]
        policy == s.policies[commit.policy]
        option == r.decisions[s.nodes[p].source].option
    IN  /\ p \in DOMAIN r.proposals
        /\ s.nodes[p].source \in DOMAIN r.decisions
        /\ commit.policy \in s.nodes[p].policies
        /\ policy.required \subseteq {option} /\ option \notin policy.prohibited
        /\ Generic!ElementsOf(policy.endorsers) \subseteq commit.endorsers
        /\ Generic!ApprovalsAreSimple(s) => Cardinality(commit.endorsers) >= policy.minimum
        /\ policy.consultation => commit.policy \in r.consulted
        /\ policy.type = "AUTHORIZATION" => r.proposals[p] \in policy.authorizes

PassesAreCommitted(r) ==
    /\ Generic!IsList(r.evaluations)
    /\ \A i \in DOMAIN r.evaluations :
           r.evaluations[i].outcome = "pass" =>
               r.evaluations[i].proposal \in DOMAIN r.committed

EndorsementIsValid(s, e) ==
    /\ e = [node |-> e.node, role |-> e.role]
    /\ e.node \in Generic!NodesOf(s, "ENDORSEMENT")
    /\ e.role \in Generic!ElementsOf(s.nodes[e.node].roles)

OthersOf(s, n, k) ==
    {s.nodes[n].roles[i] : i \in 1 .. k}
        \ Generic!ElementsOf(s.policies[s.nodes[n].policy].endorsers)

RequiredOf(s, n) ==
    LET policy == s.policies[s.nodes[n].policy]
        configured == Len(policy.endorsers)
        wanted == Generic!Max({configured, policy.minimum, 1})
        all == Len(s.nodes[n].roles)
        enough == {k \in 0 .. all :
                      k = all \/ configured + Cardinality(OthersOf(s, n, k)) >= wanted}
    IN  Generic!ElementsOf(policy.endorsers) \union OthersOf(s, n, Generic!Min(enough))

EndorsersIn(r, n) == {e.role : e \in {e \in r.endorsements : e.node = n}}

IsApproved(s, r, n) == RequiredOf(s, n) \subseteq EndorsersIn(r, n)

\* What every run of the scenario is like that somebody is shown.
Good(s, r) ==
    /\ IsRun(r) /\ r.status \in {"active", "completed"} /\ r.node \in DOMAIN s.nodes
    /\ \A e \in r.released : ReleaseIsEarned(s, r, e)
    /\ r.inspected \subseteq r.released
    /\ \A d \in DOMAIN r.decisions : CitesWhatIsOut(r, d)
    /\ \A p \in DOMAIN r.proposals : s.nodes[p].source \in DOMAIN r.decisions
    /\ \A p \in DOMAIN r.committed : CommitIsApproved(s, r, p)
    /\ PassesAreCommitted(r)
    /\ IsFiniteSet(r.endorsements) /\ \A e \in r.endorsements : EndorsementIsValid(s, e)
    /\ \A n \in r.completed \intersect Generic!NodesOf(s, "ENDORSEMENT") : IsApproved(s, r, n)

Longer(q, t) == Len(q) <= Len(t) /\ \A i \in 1 .. Len(q) : t[i] = q[i]

\* What a run never takes back.
Grows(r, x) ==
    /\ x.mode = r.mode
    /\ r.completed \subseteq x.completed /\ r.requested \subseteq x.requested
    /\ r.incidents \subseteq x.incidents /\ r.consulted \subseteq x.consulted
    /\ r.released \subseteq x.released /\ r.endorsements \subseteq x.endorsements
    /\ Generic!Extends(r.decisions, x.decisions) /\ Generic!Extends(r.proposals, x.proposals)
    /\ Generic!Extends(r.committed, x.committed) /\ Generic!Extends(r.chances, x.chances)
    /\ Longer(r.evaluations, x.evaluations)

\* What a step adds is in order.
Adds(s, r, x) ==
    /\ IsRun(x) /\ x.status \in {"active", "completed"} /\ x.node \in DOMAIN s.nodes
    /\ \A e \in x.released \ r.released : ReleaseIsEarned(s, x, e)
    /\ x.inspected \subseteq x.released
    /\ \A d \in DOMAIN x.decisions \ DOMAIN r.decisions : CitesWhatIsOut(x, d)
    /\ \A p \in DOMAIN x.proposals \ DOMAIN r.proposals : s.nodes[p].source \in DOMAIN x.decisions
    /\ \A p \in DOMAIN x.committed \ DOMAIN r.committed : CommitIsApproved(s, x, p)
    /\ PassesAreCommitted(x)
    /\ IsFiniteSet(x.endorsements) /\ \A e \in x.endorsements : EndorsementIsValid(s, e)
    /\ \A n \in x.completed \ r.completed :
           n \in Generic!NodesOf(s, "ENDORSEMENT") => IsApproved(s, x, n)

LEMMA GrowthKeeps ==
    ASSUME NEW s, NEW r, NEW x, Good(s, r), Grows(r, x), Adds(s, r, x)
    PROVE  Good(s, x)
<1>1. /\ IsRun(x) /\ x.status \in {"active", "completed"} /\ x.node \in DOMAIN s.nodes
      /\ x.inspected \subseteq x.released /\ PassesAreCommitted(x)
      /\ IsFiniteSet(x.endorsements) /\ \A e \in x.endorsements : EndorsementIsValid(s, e)
  BY DEF Adds
<1>2. \A e \in x.released : ReleaseIsEarned(s, x, e)
  <2> TAKE e \in x.released
  <2>1. CASE e \notin r.released
    BY <2>1 DEF Adds
  <2>2. CASE e \in r.released
    <3>1. ReleaseIsEarned(s, r, e)
      BY <2>2 DEF Good
    <3>2. OfferedBy(s, r) \subseteq OfferedBy(s, x)
      BY DEF OfferedBy, Grows
    <3> QED
      BY <3>1, <3>2 DEF ReleaseIsEarned, Grows
  <2> QED
    BY <2>1, <2>2
<1>3. \A d \in DOMAIN x.decisions : CitesWhatIsOut(x, d)
  <2> TAKE d \in DOMAIN x.decisions
  <2>1. CASE d \notin DOMAIN r.decisions
    BY <2>1 DEF Adds
  <2>2. CASE d \in DOMAIN r.decisions
    BY <2>2 DEF Good, Grows, CitesWhatIsOut, Generic!Extends
  <2> QED
    BY <2>1, <2>2
<1>4. \A p \in DOMAIN x.proposals : s.nodes[p].source \in DOMAIN x.decisions
  BY DEF Good, Grows, Adds, Generic!Extends
<1>5. \A p \in DOMAIN x.committed : CommitIsApproved(s, x, p)
  <2> TAKE p \in DOMAIN x.committed
  <2>1. CASE p \notin DOMAIN r.committed
    BY <2>1 DEF Adds
  <2>2. CASE p \in DOMAIN r.committed
    <3>1. CommitIsApproved(s, r, p)
      BY <2>2 DEF Good
    <3>2. /\ x.committed[p] = r.committed[p]
          /\ p \in DOMAIN r.proposals => p \in DOMAIN x.proposals /\ x.proposals[p] = r.proposals[p]
          /\ \A d \in DOMAIN r.decisions : d \in DOMAIN x.decisions /\ x.decisions[d] = r.decisions[d]
          /\ r.consulted \subseteq x.consulted
      BY <2>2 DEF Grows, Generic!Extends
    <3> QED
      BY <3>1, <3>2, Zenon DEF CommitIsApproved
  <2> QED
    BY <2>1, <2>2
<1>6. \A n \in x.completed \intersect Generic!NodesOf(s, "ENDORSEMENT") : IsApproved(s, x, n)
  <2> TAKE n \in x.completed \intersect Generic!NodesOf(s, "ENDORSEMENT")
  <2>1. CASE n \notin r.completed
    BY <2>1 DEF Adds
  <2>2. CASE n \in r.completed
    <3>1. IsApproved(s, r, n)
      BY <2>2 DEF Good
    <3>2. EndorsersIn(r, n) \subseteq EndorsersIn(x, n)
      BY DEF EndorsersIn, Grows
    <3> QED
      BY <3>1, <3>2 DEF IsApproved
  <2> QED
    BY <2>1, <2>2
<1> QED
  BY <1>1, <1>2, <1>3, <1>4, <1>5, <1>6 DEF Good

LEMMA GrowsOn ==
    ASSUME NEW r, NEW x, NEW y, Grows(r, x), Grows(x, y),
           Len(r.evaluations) \in Nat, Len(x.evaluations) \in Nat, Len(y.evaluations) \in Nat
    PROVE  Grows(r, y)
<1>1. Longer(r.evaluations, y.evaluations)
  BY DEF Grows, Longer
<1>2. /\ Generic!Extends(r.decisions, y.decisions) /\ Generic!Extends(r.proposals, y.proposals)
      /\ Generic!Extends(r.committed, y.committed) /\ Generic!Extends(r.chances, y.chances)
  BY DEF Grows, Generic!Extends
<1> QED
  BY <1>1, <1>2 DEF Grows

LEMMA GoodLength ==
    ASSUME NEW s, NEW r, Good(s, r)
    PROVE  Len(r.evaluations) \in Nat
BY DEF Good, PassesAreCommitted, Generic!IsList

LEMMA Same ==
    ASSUME NEW s, NEW r, Good(s, r)
    PROVE  Grows(r, r) /\ Adds(s, r, r)
BY GoodLength DEF Grows, Adds, Good, Longer, Generic!Extends

\* One field of a run is changed.
LEMMA PutAgrees ==
    ASSUME NEW r, IsRun(r), NEW f \in RunFields, NEW v
    PROVE  Agree(r, [r EXCEPT ![f] = v], {f}) /\ [r EXCEPT ![f] = v][f] = v
<1> DEFINE x == [r EXCEPT ![f] = v]
<1>1. DOMAIN r = RunFields
  BY DEF IsRun
<1>2. x = [g \in RunFields |-> IF g = f THEN v ELSE r[g]]
  BY <1>1
<1> HIDE DEF x
<1>3. IsRun(x) /\ x[f] = v /\ \A g \in RunFields \ {f} : x[g] = r[g]
  BY <1>2 DEF IsRun
<1> QED
  BY <1>3 DEF Agree, x

LEMMA AgreeOn ==
    ASSUME NEW r, NEW x, NEW y, NEW F, NEW G, Agree(r, x, F), Agree(x, y, G)
    PROVE  Agree(r, y, F \union G)
BY DEF Agree

LEMMA HearAgrees ==
    ASSUME NEW r, IsRun(r), NEW codes
    PROVE  Agree(r, Generic!Hear(r, codes), {"occurred"})
<1>1. "occurred" \in RunFields
  BY DEF RunFields
<1> QED
  BY <1>1, PutAgrees DEF Generic!Hear

\* Fields that no promise is about.
Idle == {"role", "occurred", "communications", "reflections", "competency", "expired",
         "draws", "outcome"}

LEMMA IdleKeeps ==
    ASSUME NEW s, NEW r, NEW x, Good(s, r), Agree(r, x, Idle)
    PROVE  Good(s, x) /\ Grows(r, x)
<1>1. /\ x.status = r.status /\ x.mode = r.mode /\ x.node = r.node /\ x.completed = r.completed
      /\ x.released = r.released /\ x.inspected = r.inspected /\ x.consulted = r.consulted
      /\ x.requested = r.requested /\ x.incidents = r.incidents /\ x.decisions = r.decisions
      /\ x.proposals = r.proposals /\ x.endorsements = r.endorsements
      /\ x.evaluations = r.evaluations /\ x.committed = r.committed /\ x.chances = r.chances
  BY DEF Agree, Idle, RunFields
<1>2. Grows(r, x)
  BY <1>1, Same DEF Grows
<1>3. Adds(s, r, x)
  BY <1>1, Same DEF Adds, Good, Agree, PassesAreCommitted
<1> QED
  BY <1>2, <1>3, GrowthKeeps

LEMMA ChancesKeep ==
    ASSUME NEW s, NEW r, NEW x, Good(s, r), Agree(r, x, {"chances", "occurred"}),
           Generic!Extends(r.chances, x.chances)
    PROVE  Good(s, x) /\ Grows(r, x)
<1>1. /\ x.status = r.status /\ x.mode = r.mode /\ x.node = r.node /\ x.completed = r.completed
      /\ x.released = r.released /\ x.inspected = r.inspected /\ x.consulted = r.consulted
      /\ x.requested = r.requested /\ x.incidents = r.incidents /\ x.decisions = r.decisions
      /\ x.proposals = r.proposals /\ x.endorsements = r.endorsements
      /\ x.evaluations = r.evaluations /\ x.committed = r.committed
  BY DEF Agree, RunFields
<1>2. Grows(r, x)
  BY <1>1, Same DEF Grows
<1>3. Adds(s, r, x)
  BY <1>1, Same DEF Adds, Good, Agree, PassesAreCommitted
<1> QED
  BY <1>2, <1>3, GrowthKeeps

LEMMA StatusKeeps ==
    ASSUME NEW s, NEW r, NEW x, Good(s, r), Agree(r, x, {"status", "occurred"}),
           x.status = "completed"
    PROVE  Good(s, x) /\ Grows(r, x)
<1>1. /\ x.mode = r.mode /\ x.node = r.node /\ x.completed = r.completed
      /\ x.released = r.released /\ x.inspected = r.inspected /\ x.consulted = r.consulted
      /\ x.requested = r.requested /\ x.incidents = r.incidents /\ x.decisions = r.decisions
      /\ x.proposals = r.proposals /\ x.endorsements = r.endorsements
      /\ x.evaluations = r.evaluations /\ x.committed = r.committed /\ x.chances = r.chances
  BY DEF Agree, RunFields
<1>2. Grows(r, x)
  BY <1>1, Same DEF Grows
<1>3. Adds(s, r, x)
  BY <1>1, Same DEF Adds, Good, Agree, PassesAreCommitted
<1> QED
  BY <1>2, <1>3, GrowthKeeps

-----------------------------------------------------------------------------
(* Numbers and lists *)

\* Every set of numbers has a least one: the form of induction used below.
LEMMA LeastNumber ==
    ASSUME NEW T, T \subseteq Nat, T # {}
    PROVE  \E x \in T : \A y \in T : x <= y
<1> DEFINE R == {p \in Nat \X Nat : p[1] < p[2]}
<1>1. OpToRel(<, Nat) = R
  BY DEF OpToRel
<1>2. IsWellFoundedOn(R, Nat)
  BY <1>1, NatLessThanWellFounded, Zenon
<1>3. \A m, n \in Nat : <<m, n>> \notin R => n <= m
  OBVIOUS
<1> HIDE DEF R
<1>4. PICK x \in T : \A y \in T : ~(<<y, x>> \in R)
  BY <1>2, WFMin
<1> QED
  BY <1>3, <1>4

LEMMA LeastIsOne ==
    ASSUME NEW T, T \subseteq Nat, T # {}
    PROVE  Generic!Min(T) \in T
BY LeastNumber DEF Generic!Min

LEMMA GreatestOfThree ==
    ASSUME NEW a \in Nat, NEW b \in Nat
    PROVE  LET m == Generic!Max({a, b, 1}) IN m \in Nat /\ m >= a /\ m >= b /\ m >= 1
<1>1. \E x \in {a, b, 1} : \A y \in {a, b, 1} : x >= y
  <2>1. CASE a >= b /\ a >= 1
    BY <2>1
  <2>2. CASE b >= a /\ b >= 1
    BY <2>2
  <2>3. CASE 1 >= a /\ 1 >= b
    BY <2>3
  <2> QED
    BY <2>1, <2>2, <2>3
<1> QED
  BY <1>1 DEF Generic!Max

LEMMA GreatestOfTwo ==
    ASSUME NEW a \in Nat, NEW c \in Nat, c >= a, c >= 1
    PROVE  c >= Generic!Max({a, 1})
<1>1. \E x \in {a, 1} : \A y \in {a, 1} : x >= y
  <2>1. CASE a >= 1
    BY <2>1
  <2>2. CASE 1 >= a
    BY <2>2
  <2> QED
    BY <2>1, <2>2
<1>2. Generic!Max({a, 1}) \in {a, 1}
  BY <1>1 DEF Generic!Max
<1> QED
  BY <1>2

\* The elements of a list are finitely many, and as many as it is long if none comes twice.
LEMMA ListCounts ==
    ASSUME NEW q, Generic!IsList(q)
    PROVE  /\ IsFiniteSet(Generic!ElementsOf(q)) /\ DOMAIN q = 1 .. Len(q) /\ Len(q) \in Nat
           /\ (\A i, j \in DOMAIN q : q[i] = q[j] => i = j) =>
                  Cardinality(Generic!ElementsOf(q)) = Len(q)
<1> DEFINE T == Generic!ElementsOf(q)
           f == [i \in 1 .. Len(q) |-> q[i]]
<1>1. Len(q) \in Nat /\ DOMAIN q = 1 .. Len(q)
  BY DEF Generic!IsList
<1>2. IsFiniteSet(1 .. Len(q)) /\ Cardinality(1 .. Len(q)) = Len(q)
  <2>1. 1 \in Int /\ Len(q) \in Int
    BY <1>1
  <2>2. /\ IsFiniteSet(1 .. Len(q))
        /\ Cardinality(1 .. Len(q)) = IF 1 > Len(q) THEN 0 ELSE Len(q) - 1 + 1
    BY <2>1, FS_Interval
  <2> QED
    BY <1>1, <2>2
<1>3. f \in Surjection(1 .. Len(q), T)
  BY <1>1 DEF Surjection, Generic!ElementsOf
<1>4. IsFiniteSet(T) /\ (Cardinality(T) = Cardinality(1 .. Len(q)) <=> f \in Injection(1 .. Len(q), T))
  BY <1>2, <1>3, FS_Surjection
<1>5. (\A i, j \in DOMAIN q : q[i] = q[j] => i = j) => f \in Injection(1 .. Len(q), T)
  BY <1>1, <1>3 DEF Injection, IsInjective, Surjection
<1> QED
  BY <1>1, <1>2, <1>4, <1>5

LEMMA ListGrows ==
    ASSUME NEW q, Generic!IsList(q), NEW e
    PROVE  /\ Generic!IsList(Append(q, e)) /\ Longer(q, Append(q, e))
           /\ Len(q) \in Nat /\ DOMAIN q = 1 .. Len(q)
           /\ DOMAIN Append(q, e) = 1 .. Len(q) + 1
           /\ \A i \in 1 .. Len(q) : Append(q, e)[i] = q[i]
           /\ Append(q, e)[Len(q) + 1] = e
<1> DEFINE T == Generic!ElementsOf(q) \union {e}
           x == Append(q, e)
<1>1. q \in Seq(T) /\ e \in T
  <2>1. q \in Seq(Generic!ElementsOf(q))
    BY DEF Generic!IsList
  <2> QED
    BY <2>1
<1>2. /\ x \in Seq(T) /\ Len(x) = Len(q) + 1 /\ Len(q) \in Nat
      /\ \A i \in 1 .. Len(q) : x[i] = q[i]
      /\ x[Len(q) + 1] = e
  BY <1>1
<1>3. DOMAIN x = 1 .. Len(q) + 1 /\ DOMAIN q = 1 .. Len(q)
  BY <1>1, <1>2
<1> HIDE DEF x
<1>4. Generic!IsList(x)
  <2>1. \A i \in 1 .. Len(x) : x[i] \in Generic!ElementsOf(x)
    BY <1>2, <1>3 DEF Generic!ElementsOf
  <2>2. x \in [1 .. Len(x) -> Generic!ElementsOf(x)]
    BY <1>2, <2>1
  <2> QED
    BY <1>2, <2>2, SeqDef DEF Generic!IsList
<1>5. Longer(q, x)
  BY <1>2 DEF Longer
<1> QED
  BY <1>2, <1>3, <1>4, <1>5 DEF x

-----------------------------------------------------------------------------
(* Endorsers *)

\* A scenario that can be played.
Playable(s) == Generic!Accepted(s) /\ Generic!IsWellFormed(s)

\* The numbers that the model counts are the numbers of this module.
LEMMA SameCount ==
    /\ \A S : Generic!IsFiniteSet(S) <=> IsFiniteSet(S)
    /\ \A S : Generic!Cardinality(S) = Cardinality(S)
<1>1. \A S : Generic!IsFiniteSet(S) <=> IsFiniteSet(S)
  BY DEF Generic!IsFiniteSet, IsFiniteSet
<1>2. \A S : Generic!Cardinality(S) = Cardinality(S)
  BY DEF Generic!Cardinality, Cardinality
<1> QED
  BY <1>1, <1>2

LEMMA OfTheScenario ==
    /\ \A n : RequiredOf(scenario, n) = Generic!RequiredEndorsers(n)
    /\ \A r, n : EndorsersIn(r, n) = Generic!EndorsersOf(r, n)
    /\ \A r : OfferedBy(scenario, r) = Generic!Offered(r)
<1>1. ASSUME NEW n
      PROVE  RequiredOf(scenario, n) = Generic!RequiredEndorsers(n)
  <2>1. \A k : OthersOf(scenario, n, k) = Generic!OthersUpTo(n, k)
    BY DEF OthersOf, Generic!OthersUpTo, Generic!Nodes, Generic!Policies
  <2> QED
    BY <2>1, SameCount DEF RequiredOf, Generic!RequiredEndorsers, Generic!Nodes, Generic!Policies
<1> QED
  BY <1>1 DEF EndorsersIn, Generic!EndorsersOf, OfferedBy, Generic!Offered, Generic!Nodes

\* The roles an approval needs are as many as its policy wants, the policy's own among them.
LEMMA RequiredCount ==
    ASSUME NEW s, Playable(s), Generic!ApprovalsAreSimple(s),
           NEW n \in Generic!NodesOf(s, "ENDORSEMENT")
    PROVE  LET policy == s.policies[s.nodes[n].policy]
           IN  /\ IsFiniteSet(RequiredOf(s, n))
               /\ Generic!ElementsOf(policy.endorsers) \subseteq RequiredOf(s, n)
               /\ Cardinality(RequiredOf(s, n)) >= policy.minimum
               /\ Cardinality(RequiredOf(s, n)) >= 1
               /\ policy.minimum \in Nat
<1> DEFINE policy == s.policies[s.nodes[n].policy]
           roles == s.nodes[n].roles
           E == Generic!ElementsOf(policy.endorsers)
           R == Generic!ElementsOf(roles)
           configured == Len(policy.endorsers)
           wanted == Generic!Max({configured, policy.minimum, 1})
           all == Len(roles)
           enough == {k \in 0 .. all :
                         k = all \/ configured + Cardinality(OthersOf(s, n, k)) >= wanted}
           least == Generic!Min(enough)
<1>1. Generic!IsList(roles) /\ Generic!IsList(policy.endorsers) /\ policy.minimum \in Nat
  BY DEF Playable, Generic!IsWellFormed
<1>2. E \subseteq R /\ policy.minimum <= Cardinality(R)
  BY SameCount DEF Playable, Generic!Accepted, Generic!EndorsersAreReachable
<1>3. roles # << >>
  BY DEF Playable, Generic!Accepted, Generic!NodeIsValid, Generic!RolesAreKnown, Generic!NodesOf
<1>4. \A i, j \in DOMAIN policy.endorsers : policy.endorsers[i] = policy.endorsers[j] => i = j
  BY DEF Generic!ApprovalsAreSimple
<1>5. /\ IsFiniteSet(E) /\ Cardinality(E) = configured /\ configured \in Nat
      /\ IsFiniteSet(R) /\ DOMAIN roles = 1 .. all /\ all \in Nat
  BY <1>1, <1>4, ListCounts
<1>6. R = {roles[i] : i \in 1 .. all}
  BY <1>5, Zenon DEF Generic!ElementsOf
<1>7. wanted \in Nat /\ wanted >= policy.minimum /\ wanted >= 1
  BY <1>1, <1>5, GreatestOfThree, Zenon
<1>8. RequiredOf(s, n) = E \union OthersOf(s, n, least)
  BY DEF RequiredOf
<1>9. all \in enough /\ enough \subseteq Nat
  <2>1. all \in 0 .. all /\ 0 .. all \subseteq Nat
    BY <1>5
  <2> QED
    BY <2>1
<1>10. least \in enough
  BY <1>9, LeastIsOne, Zenon
<1>11. OthersOf(s, n, least) = {roles[i] : i \in 1 .. least} \ E
  BY DEF OthersOf
<1> HIDE DEF enough, least, wanted, R, E
<1>12. least \in 0 .. all /\ (least = all \/ configured + Cardinality(OthersOf(s, n, least)) >= wanted)
  BY <1>10 DEF enough
<1>13. OthersOf(s, n, least) \subseteq R /\ OthersOf(s, n, least) \intersect E = {}
  <2>1. \A i \in 1 .. least : i \in 1 .. all
    BY <1>5, <1>12
  <2> QED
    BY <1>6, <1>11, <2>1
<1>14. RequiredOf(s, n) \subseteq R /\ E \subseteq RequiredOf(s, n)
  BY <1>2, <1>8, <1>13 DEF E, R
<1>15. IsFiniteSet(RequiredOf(s, n)) /\ IsFiniteSet(OthersOf(s, n, least))
  BY <1>5, <1>13, <1>14, FS_Subset
<1>16. Cardinality(RequiredOf(s, n)) >= policy.minimum /\ Cardinality(RequiredOf(s, n)) >= 1
  <2>1. CASE least = all
    <3>1. RequiredOf(s, n) = R
      BY <1>2, <1>6, <1>8, <1>11, <1>14, <2>1, Zenon DEF E, R
    <3>2. R # {}
      <4>1. roles \in Seq(R)
        BY <1>1 DEF Generic!IsList, R
      <4>2. all # 0
        BY <1>3, <4>1, EmptySeq
      <4>3. 1 \in 1 .. all
        BY <1>5, <4>2
      <4> QED
        BY <1>6, <4>3
    <3>3. Cardinality(R) \in Nat /\ Cardinality(R) # 0
      BY <1>5, <3>2, FS_EmptySet, FS_CardinalityType
    <3> QED
      BY <1>1, <1>2, <3>1, <3>3 DEF R
  <2>2. CASE least # all
    <3>1. /\ Cardinality(RequiredOf(s, n)) =
                 Cardinality(E) + Cardinality(OthersOf(s, n, least))
                     - Cardinality(E \intersect OthersOf(s, n, least))
      BY <1>5, <1>8, <1>15, FS_Union
    <3>2. Cardinality(E \intersect OthersOf(s, n, least)) = 0
      <4>1. E \intersect OthersOf(s, n, least) = {}
        BY <1>13
      <4> QED
        BY <4>1, FS_EmptySet
    <3>3. Cardinality(OthersOf(s, n, least)) \in Nat
      BY <1>15, FS_CardinalityType
    <3>4. Cardinality(RequiredOf(s, n)) = configured + Cardinality(OthersOf(s, n, least))
      <4> HIDE DEF policy, configured
      <4> QED
        BY <1>5, <3>1, <3>2, <3>3
    <3>5. configured + Cardinality(OthersOf(s, n, least)) >= wanted
      BY <1>12, <2>2
    <3>6. Cardinality(RequiredOf(s, n)) \in Nat
      BY <1>15, FS_CardinalityType
    <3> HIDE DEF policy, configured
    <3> QED
      BY <1>1, <1>7, <3>4, <3>5, <3>6
  <2> QED
    BY <2>1, <2>2
<1> QED
  BY <1>1, <1>14, <1>15, <1>16 DEF E
-----------------------------------------------------------------------------
(* Going on to the next node *)

LEMMA NextIsInTheGraph ==
    ASSUME Playable(scenario), NEW r, r.node \in DOMAIN scenario.nodes,
           NEW t \in Generic!NextTransition(r)
    PROVE  t.to \in DOMAIN scenario.nodes
<1> DEFINE ts == scenario.nodes[r.node].transitions
           matching == {i \in DOMAIN ts : Generic!TransitionMatches(r, ts[i])}
<1>1. Generic!Node(r).transitions = ts
  BY DEF Generic!Node, Generic!Nodes
<1>2. matching # {} /\ t = ts[Generic!Min(matching)]
  BY <1>1 DEF Generic!NextTransition
<1>3. Generic!IsList(ts)
  BY DEF Playable, Generic!IsWellFormed
<1>4. DOMAIN ts \subseteq Nat
  BY <1>3, ListCounts
<1>5. Generic!Min(matching) \in DOMAIN ts
  <2>1. matching \subseteq Nat
    BY <1>4
  <2> HIDE DEF matching
  <2>2. Generic!Min(matching) \in matching
    BY <1>2, <2>1, LeastIsOne
  <2> QED
    BY <2>2 DEF matching
<1>6. t \in Generic!ElementsOf(ts)
  BY <1>2, <1>5 DEF Generic!ElementsOf
<1> QED
  BY <1>6 DEF Playable, Generic!Accepted, Generic!NodeIsValid, Generic!TransitionIsValid

LEMMA FollowMoves ==
    ASSUME NEW r, IsRun(r), NEW t, NEW x \in Generic!Follow(r, t)
    PROVE  /\ Agree(r, x, {"completed", "node", "role", "occurred"})
           /\ x.completed = r.completed \union {r.node}
           /\ x.node = t.to
<1> DEFINE role == Generic!RoleAt(r.role, t.to)
           l == [r EXCEPT !.completed = @ \union {r.node}, !.node = t.to, !.role = role]
<1>1. x = Generic!Hear(l, {"WORKFLOW_ADVANCED"})
  BY DEF Generic!Follow
<1> HIDE DEF role
<1>2. DOMAIN r = RunFields
  BY DEF IsRun
<1>3. /\ IsRun(l) /\ l.completed = r.completed \union {r.node} /\ l.node = t.to
      /\ \A f \in RunFields \ {"completed", "node", "role"} : l[f] = r[f]
  <2>1. /\ DOMAIN l = RunFields /\ l.completed = r.completed \union {r.node} /\ l.node = t.to
        /\ \A f \in RunFields \ {"completed", "node", "role"} : l[f] = r[f]
    BY <1>2 DEF RunFields
  <2>2. l = [f \in RunFields |-> l[f]]
    BY <1>2
  <2> QED
    BY <2>1, <2>2, Zenon DEF IsRun
<1> HIDE DEF l
<1>4. Agree(l, x, {"occurred"})
  BY <1>1, <1>3, HearAgrees
<1>5. x.completed = l.completed /\ x.node = l.node
  BY <1>4 DEF Agree, RunFields
<1>6. Agree(r, x, {"completed", "node", "role", "occurred"})
  BY <1>3, <1>4 DEF Agree
<1> QED
  BY <1>3, <1>5, <1>6

\* A run that goes on leaves a node for one of the graph.
LEMMA AdvanceMoves ==
    ASSUME Playable(scenario), NEW r, IsRun(r), r.node \in DOMAIN scenario.nodes,
           NEW x \in Generic!Advance(r)
    PROVE  /\ Agree(r, x, {"completed", "node", "role", "occurred"})
           /\ x.completed = r.completed \union {r.node}
           /\ x.node \in DOMAIN scenario.nodes
<1>1. PICK t \in Generic!NextTransition(r) : x \in Generic!Follow(r, t)
  BY DEF Generic!Advance
<1> QED
  BY <1>1, FollowMoves, NextIsInTheGraph

\* What is moved stays in order if the approval it leaves, if any, is complete.
LEMMA MovedIsGood ==
    ASSUME NEW s, NEW r, NEW x, Good(s, r),
           Agree(r, x, {"completed", "node", "role", "occurred"}),
           x.completed = r.completed \union {r.node}, x.node \in DOMAIN s.nodes,
           r.node \in Generic!NodesOf(s, "ENDORSEMENT") => IsApproved(s, r, r.node)
    PROVE  Good(s, x) /\ Grows(r, x)
<1>1. /\ x.status = r.status /\ x.mode = r.mode
      /\ x.released = r.released /\ x.inspected = r.inspected /\ x.consulted = r.consulted
      /\ x.requested = r.requested /\ x.incidents = r.incidents /\ x.decisions = r.decisions
      /\ x.proposals = r.proposals /\ x.endorsements = r.endorsements
      /\ x.evaluations = r.evaluations /\ x.committed = r.committed /\ x.chances = r.chances
  BY DEF Agree, RunFields
<1>2. Grows(r, x)
  BY <1>1, Same DEF Grows
<1>3. \A n \in x.completed \ r.completed :
          n \in Generic!NodesOf(s, "ENDORSEMENT") => IsApproved(s, x, n)
  BY <1>1 DEF IsApproved, EndorsersIn
<1>4. IsRun(x)
  BY DEF Agree
<1>5. Adds(s, r, x)
  BY <1>1, <1>3, <1>4, Same DEF Adds, Good, PassesAreCommitted
<1> QED
  BY <1>2, <1>5, GrowthKeeps

LEMMA MovingOnKeeps ==
    ASSUME Playable(scenario), NEW r, Good(scenario, r), NEW x \in Generic!Advance(r),
           r.node \in Generic!NodesOf(scenario, "ENDORSEMENT") => IsApproved(scenario, r, r.node)
    PROVE  Good(scenario, x) /\ Grows(r, x)
<1>1. IsRun(r) /\ r.node \in DOMAIN scenario.nodes
  BY DEF Good
<1> QED
  BY <1>1, AdvanceMoves, MovedIsGood

-----------------------------------------------------------------------------
(* Policies *)

\* Endorsements of one proposal under one policy are of one approval, each in a role of
\* its own, so that counting them is counting roles.
LEMMA EndorsementsAreRoles ==
    ASSUME Generic!ApprovalsAreSimple(scenario), NEW r, Good(scenario, r),
           NEW proposal, NEW policy
    PROVE  LET E == Generic!EndorsementsFor(r, proposal, policy)
           IN  Cardinality({e.role : e \in E}) = Cardinality(E)
<1> DEFINE E == Generic!EndorsementsFor(r, proposal, policy)
           R == {e.role : e \in E}
           f == [e \in E |-> e.role]
<1>1. IsFiniteSet(E)
  <2>1. IsFiniteSet(r.endorsements) /\ E \subseteq r.endorsements
    BY DEF Good, Generic!EndorsementsFor
  <2> QED
    BY <2>1, FS_Subset
<1>2. \A d, e \in E : d.role = e.role => d = e
  <2> TAKE d, e \in E
  <2> HAVE d.role = e.role
  <2>1. EndorsementIsValid(scenario, d) /\ EndorsementIsValid(scenario, e)
    BY DEF Good, Generic!EndorsementsFor
  <2>2. /\ scenario.nodes[d.node].proposal = scenario.nodes[e.node].proposal
        /\ scenario.nodes[d.node].policy = scenario.nodes[e.node].policy
    BY DEF Generic!EndorsementsFor, Generic!Nodes
  <2>3. d.node = e.node
    BY <2>1, <2>2 DEF EndorsementIsValid, Generic!ApprovalsAreSimple
  <2> QED
    BY <2>1, <2>3 DEF EndorsementIsValid
<1>3. f \in Surjection(E, R)
  BY DEF Surjection
<1>4. f \in Injection(E, R)
  BY <1>2, <1>3 DEF Injection, IsInjective, Surjection
<1> QED
  BY <1>1, <1>3, <1>4, FS_Surjection

\* A policy that passes approves what it commits.
LEMMA PassApproves ==
    ASSUME Playable(scenario), NEW r, Good(scenario, r), NEW n, Generic!PolicyPasses(r, n),
           NEW x, x.decisions = r.decisions, x.proposals = r.proposals,
           x.consulted = r.consulted,
           x.committed[scenario.nodes[n].proposal] =
               [policy |-> scenario.nodes[n].policy,
                endorsers |-> {e.role : e \in Generic!EndorsementsFor(r,
                                   scenario.nodes[n].proposal, scenario.nodes[n].policy)}]
    PROVE  CommitIsApproved(scenario, x, scenario.nodes[n].proposal)
<1> DEFINE p == scenario.nodes[n].proposal
           name == scenario.nodes[n].policy
           policy == scenario.policies[name]
           source == scenario.nodes[p].source
           E == Generic!EndorsementsFor(r, p, name)
           chosen == Generic!ChosenFor(r, p)
<1>1. /\ p \in DOMAIN r.proposals
      /\ name \in scenario.nodes[p].policies
      /\ policy.required \subseteq chosen
      /\ policy.prohibited \intersect chosen = {}
      /\ Cardinality(E) >= policy.minimum
      /\ Generic!ElementsOf(policy.endorsers) \subseteq {e.role : e \in E}
      /\ policy.consultation => name \in r.consulted
      /\ policy.type = "AUTHORIZATION" => r.proposals[p] \in policy.authorizes
  BY SameCount, Zenon DEF Generic!PolicyPasses, Generic!Nodes, Generic!Policies
<1>2. source \in DOMAIN r.decisions
  BY <1>1 DEF Good
<1>3. chosen = {r.decisions[source].option}
  BY <1>1, <1>2, Zenon DEF Generic!ChosenFor, Generic!Nodes
<1>4. Generic!ApprovalsAreSimple(scenario) => Cardinality({e.role : e \in E}) = Cardinality(E)
  BY EndorsementsAreRoles
<1>5. x.committed[p].policy = name /\ x.committed[p].endorsers = {e.role : e \in E}
  OBVIOUS
<1> HIDE DEF E, chosen
<1>6. Generic!ApprovalsAreSimple(scenario) =>
          Cardinality({e.role : e \in E}) >= policy.minimum
  BY <1>1, <1>4
<1> QED
  BY <1>1, <1>2, <1>3, <1>5, <1>6, Zenon DEF CommitIsApproved

\* One more evaluation; the first to pass commits what it was about.
LEMMA EvaluationKeeps ==
    ASSUME Playable(scenario), NEW r, Good(scenario, r), NEW n, NEW x,
           Agree(r, x, {"evaluations", "committed", "occurred"}),
           x.evaluations = Append(r.evaluations,
               [proposal |-> scenario.nodes[n].proposal, policy |-> scenario.nodes[n].policy,
                outcome |-> IF Generic!PolicyPasses(r, n) THEN "pass" ELSE "fail"]),
           \/ /\ ~Generic!PolicyPasses(r, n) \/ scenario.nodes[n].proposal \in DOMAIN r.committed
              /\ x.committed = r.committed
           \/ /\ Generic!PolicyPasses(r, n) /\ scenario.nodes[n].proposal \notin DOMAIN r.committed
              /\ x.committed = Generic!Recorded(r.committed, scenario.nodes[n].proposal,
                     [policy |-> scenario.nodes[n].policy,
                      endorsers |-> {e.role : e \in Generic!EndorsementsFor(r,
                                         scenario.nodes[n].proposal, scenario.nodes[n].policy)}])
    PROVE  Good(scenario, x) /\ Grows(r, x)
<1> DEFINE p == scenario.nodes[n].proposal
           passes == Generic!PolicyPasses(r, n)
           entry == [proposal |-> p, policy |-> scenario.nodes[n].policy,
                     outcome |-> IF passes THEN "pass" ELSE "fail"]
           commit == [policy |-> scenario.nodes[n].policy,
                      endorsers |-> {e.role : e \in Generic!EndorsementsFor(r,
                                         p, scenario.nodes[n].policy)}]
<1>1. /\ x.status = r.status /\ x.mode = r.mode /\ x.node = r.node /\ x.completed = r.completed
      /\ x.released = r.released /\ x.inspected = r.inspected /\ x.consulted = r.consulted
      /\ x.requested = r.requested /\ x.incidents = r.incidents /\ x.decisions = r.decisions
      /\ x.proposals = r.proposals /\ x.endorsements = r.endorsements /\ x.chances = r.chances
  BY DEF Agree, RunFields
<1>2. entry.proposal = p /\ (entry.outcome = "pass" => passes)
  OBVIOUS
<1>3. x.evaluations = Append(r.evaluations, entry)
  OBVIOUS
<1>4. \/ (~passes \/ p \in DOMAIN r.committed) /\ x.committed = r.committed
      \/ /\ passes /\ p \notin DOMAIN r.committed
         /\ x.committed = Generic!Recorded(r.committed, p, commit)
  OBVIOUS
<1>5. /\ Generic!Extends(r.committed, x.committed)
      /\ passes => p \in DOMAIN x.committed
      /\ \A y \in DOMAIN x.committed \ DOMAIN r.committed :
             y = p /\ passes /\ x.committed[p] = commit
  <2> HIDE DEF passes, commit, p
  <2> QED
    BY <1>4 DEF Generic!Recorded, Generic!Extends
<1>6. Generic!IsList(r.evaluations)
  BY DEF Good, PassesAreCommitted
<1> HIDE DEF entry
<1>7. /\ Generic!IsList(x.evaluations) /\ Longer(r.evaluations, x.evaluations)
      /\ Len(r.evaluations) \in Nat /\ DOMAIN r.evaluations = 1 .. Len(r.evaluations)
      /\ DOMAIN x.evaluations = 1 .. Len(r.evaluations) + 1
      /\ \A i \in 1 .. Len(r.evaluations) : x.evaluations[i] = r.evaluations[i]
      /\ x.evaluations[Len(r.evaluations) + 1] = entry
  BY <1>3, <1>6, ListGrows
<1>8. PassesAreCommitted(x)
  <2>1. ASSUME NEW i \in DOMAIN x.evaluations, x.evaluations[i].outcome = "pass"
        PROVE  x.evaluations[i].proposal \in DOMAIN x.committed
    <3>1. CASE i \in 1 .. Len(r.evaluations)
      <4>1. x.evaluations[i] = r.evaluations[i] /\ i \in DOMAIN r.evaluations
        BY <1>7, <3>1
      <4>2. r.evaluations[i].proposal \in DOMAIN r.committed
        BY <2>1, <4>1 DEF Good, PassesAreCommitted
      <4> QED
        BY <1>5, <4>1, <4>2 DEF Generic!Extends
    <3>2. CASE i = Len(r.evaluations) + 1
      BY <1>2, <1>5, <1>7, <2>1, <3>2
    <3> QED
      BY <1>7, <3>1, <3>2
  <2> QED
    BY <1>7, <2>1 DEF PassesAreCommitted
<1>9. \A y \in DOMAIN x.committed \ DOMAIN r.committed : CommitIsApproved(scenario, x, y)
  <2> TAKE y \in DOMAIN x.committed \ DOMAIN r.committed
  <2>1. y = p /\ passes /\ x.committed[p] = commit
    BY <1>5
  <2> QED
    BY <1>1, <2>1, PassApproves
<1>10. Grows(r, x)
  BY <1>1, <1>5, <1>7, Same DEF Grows
<1>11. IsRun(x)
  BY DEF Agree
<1>12. Adds(scenario, r, x)
  BY <1>1, <1>8, <1>9, <1>11, Same DEF Adds, Good
<1> QED
  BY <1>10, <1>12, GrowthKeeps

LEMMA EvaluateKeeps ==
    ASSUME Playable(scenario), NEW r, Good(scenario, r), NEW n
    PROVE  LET x == Generic!Evaluate(r, n)
           IN  /\ Good(scenario, x) /\ Grows(r, x)
               /\ Agree(r, x, {"evaluations", "committed", "occurred"})
<1> DEFINE p == scenario.nodes[n].proposal
           name == scenario.nodes[n].policy
           passes == Generic!PolicyPasses(r, n)
           outcome == IF passes THEN "pass" ELSE "fail"
           entry == [proposal |-> p, policy |-> name, outcome |-> outcome]
           l == [r EXCEPT !.evaluations = Append(@, entry)]
           codes == {"POLICY_EVALUATED", name, IF passes THEN "POLICY_PASS" ELSE "POLICY_FAIL"}
           evaluated == Generic!Hear(l, codes)
           commit == [policy |-> name,
                      endorsers |-> {e.role : e \in Generic!EndorsementsFor(r, p, name)}]
           m == [evaluated EXCEPT !.committed = Generic!Recorded(@, p, commit)]
           more == {"TRANSACTION_COMMITTED", scenario.nodes[p].proposalType, name}
           x == Generic!Evaluate(r, n)
<1>1. x = IF ~passes \/ p \in DOMAIN r.committed THEN evaluated ELSE Generic!Hear(m, more)
  BY DEF Generic!Evaluate, Generic!Nodes
<1> HIDE DEF passes, codes, more, commit
<1>2. IsRun(r) /\ Generic!IsList(r.evaluations)
  BY DEF Good, PassesAreCommitted
<1>3. Agree(r, l, {"evaluations"}) /\ l.evaluations = Append(r.evaluations, entry)
  <2> HIDE DEF entry
  <2>1. "evaluations" \in RunFields
    BY DEF RunFields
  <2> QED
    BY <1>2, <2>1, PutAgrees
<1>4. Agree(r, evaluated, {"evaluations", "occurred"})
      /\ evaluated.evaluations = Append(r.evaluations, entry)
  <2> HIDE DEF l
  <2>1. IsRun(l)
    BY <1>3 DEF Agree
  <2>2. Agree(l, evaluated, {"occurred"})
    BY <2>1, HearAgrees
  <2> QED
    BY <1>3, <2>2 DEF Agree, RunFields
<1> HIDE DEF evaluated
<1>5. /\ evaluated.committed = r.committed
      /\ Agree(evaluated, m, {"committed"})
      /\ m.committed = Generic!Recorded(r.committed, p, commit)
  <2>1. IsRun(evaluated) /\ evaluated.committed = r.committed
    BY <1>4 DEF Agree, RunFields
  <2> QED
    BY <2>1, PutAgrees DEF RunFields
<1> HIDE DEF m
<1>6. CASE ~passes \/ p \in DOMAIN r.committed
  <2>1. x = evaluated /\ x.committed = r.committed
    BY <1>1, <1>5, <1>6
  <2> QED
    BY <1>4, <1>6, <2>1, EvaluationKeeps DEF Agree, passes
<1>7. CASE passes /\ p \notin DOMAIN r.committed
  <2>1. x = Generic!Hear(m, more)
    BY <1>1, <1>7
  <2>2. IsRun(m)
    BY <1>5 DEF Agree
  <2>3. Agree(m, x, {"occurred"})
    BY <2>1, <2>2, HearAgrees
  <2>4. /\ Agree(r, x, {"evaluations", "committed", "occurred"})
        /\ x.evaluations = Append(r.evaluations, entry)
        /\ x.committed = Generic!Recorded(r.committed, p, commit)
    BY <1>4, <1>5, <2>3 DEF Agree, RunFields
  <2> QED
    BY <1>7, <2>4, EvaluationKeeps DEF passes, commit
<1> QED
  BY <1>6, <1>7
-----------------------------------------------------------------------------
(* The nodes the server passes through *)

LEMMA ReleaseKeeps ==
    ASSUME Playable(scenario), NEW r, Good(scenario, r),
           r.node \in Generic!NodesOf(scenario, "EVIDENCE_RELEASE"),
           NEW x \in Generic!PassThroughRelease(r)
    PROVE  Good(scenario, x) /\ Grows(r, x)
<1> DEFINE given == Generic!ReleasedAt(r, r.node)
           codes == IF given = {} THEN {} ELSE {"EVIDENCE_RELEASED"}
           l == [r EXCEPT !.released = @ \union given]
           m == Generic!Hear(l, codes)
<1>1. x \in Generic!Advance(m)
  BY DEF Generic!PassThroughRelease
<1>2. \A e \in given : /\ e \in scenario.nodes[r.node].evidence
                       /\ scenario.evidence[e].access = "AVAILABLE"
  <2> TAKE e \in given
  <2>1. e \in scenario.nodes[r.node].evidence /\ scenario.evidence[e].access # "REQUEST_REQUIRED"
    BY DEF Generic!ReleasedAt, Generic!Nodes, Generic!Evidence
  <2>2. scenario.nodes[r.node].evidence \subseteq DOMAIN scenario.evidence
    BY DEF Playable, Generic!Accepted, Generic!NodeIsValid, Generic!NodesOf
  <2>3. scenario.evidence[e].access \in {"AVAILABLE", "REQUEST_REQUIRED"}
    BY <2>1, <2>2 DEF Playable, Generic!IsWellFormed
  <2> QED
    BY <2>1, <2>3
<1> HIDE DEF given, codes
<1>3. IsRun(r) /\ r.node \in DOMAIN scenario.nodes
  BY DEF Good
<1>4. Agree(r, l, {"released"}) /\ l.released = r.released \union given
  BY <1>3, PutAgrees DEF RunFields
<1>5. Agree(r, m, {"released", "occurred"}) /\ m.released = r.released \union given
  <2> HIDE DEF l
  <2>1. IsRun(l)
    BY <1>4 DEF Agree
  <2>2. Agree(l, m, {"occurred"})
    BY <2>1, HearAgrees
  <2> QED
    BY <1>4, <2>2 DEF Agree, RunFields
<1> HIDE DEF m
<1>6. IsRun(m) /\ m.node = r.node /\ m.completed = r.completed
  BY <1>5 DEF Agree, RunFields
<1>7. /\ Agree(m, x, {"completed", "node", "role", "occurred"})
      /\ x.completed = r.completed \union {r.node} /\ x.node \in DOMAIN scenario.nodes
  BY <1>1, <1>3, <1>6, AdvanceMoves
<1>8. /\ x.status = r.status /\ x.mode = r.mode
      /\ x.released = r.released \union given /\ x.inspected = r.inspected
      /\ x.consulted = r.consulted
      /\ x.requested = r.requested /\ x.incidents = r.incidents /\ x.decisions = r.decisions
      /\ x.proposals = r.proposals /\ x.endorsements = r.endorsements
      /\ x.evaluations = r.evaluations /\ x.committed = r.committed /\ x.chances = r.chances
  BY <1>5, <1>7 DEF Agree, RunFields
<1>9. Grows(r, x)
  BY <1>7, <1>8, Same DEF Grows
<1>10. \A e \in x.released \ r.released : ReleaseIsEarned(scenario, x, e)
  <2> TAKE e \in x.released \ r.released
  <2>1. e \in given /\ r.node \in x.completed
    BY <1>7, <1>8
  <2>2. e \in OfferedBy(scenario, x)
    BY <1>2, <2>1 DEF OfferedBy
  <2> QED
    BY <1>2, <2>1, <2>2 DEF ReleaseIsEarned
<1>11. r.node \notin Generic!NodesOf(scenario, "ENDORSEMENT")
  <2>1. "EVIDENCE_RELEASE" # "ENDORSEMENT"
    OBVIOUS
  <2> QED
    BY <2>1 DEF Generic!NodesOf
<1>12. IsRun(x)
  BY <1>7 DEF Agree
<1>13. x.inspected \subseteq x.released
  BY <1>8 DEF Good
<1>14. Adds(scenario, r, x)
  BY <1>7, <1>8, <1>10, <1>11, <1>12, <1>13, Same DEF Adds, Good, PassesAreCommitted
<1> QED
  BY <1>9, <1>14, GrowthKeeps

LEMMA ChanceKeeps ==
    ASSUME Playable(scenario), NEW r, Good(scenario, r),
           r.node \notin Generic!NodesOf(scenario, "ENDORSEMENT"),
           NEW x \in Generic!PassThroughChance(r)
    PROVE  Good(scenario, x) /\ Grows(r, x)
<1> DEFINE code == Generic!Resolution(r, r.node)
           l == [r EXCEPT !.chances = Generic!Recorded(@, r.node, code)]
           m == Generic!Hear(l, {"STOCHASTIC_EVENT_RESOLVED", code})
<1>1. x \in Generic!Advance(m) /\ r.node \notin DOMAIN r.chances
  BY DEF Generic!PassThroughChance
<1> HIDE DEF code
<1>2. IsRun(r)
  BY DEF Good
<1>3. Agree(r, l, {"chances"}) /\ l.chances = Generic!Recorded(r.chances, r.node, code)
  BY <1>2, PutAgrees DEF RunFields
<1>4. Agree(r, m, {"chances", "occurred"}) /\ m.chances = Generic!Recorded(r.chances, r.node, code)
  <2> HIDE DEF l
  <2>1. IsRun(l)
    BY <1>3 DEF Agree
  <2>2. Agree(l, m, {"occurred"})
    BY <2>1, HearAgrees
  <2> QED
    BY <1>3, <2>2 DEF Agree, RunFields
<1> HIDE DEF m
<1>5. Generic!Extends(r.chances, m.chances)
  BY <1>1, <1>4 DEF Generic!Recorded, Generic!Extends
<1>6. Good(scenario, m) /\ Grows(r, m) /\ m.node = r.node
  BY <1>4, <1>5, ChancesKeep DEF Agree, RunFields
<1>7. Good(scenario, x) /\ Grows(m, x)
  BY <1>1, <1>6, MovingOnKeeps
<1> QED
  BY <1>6, <1>7, GrowsOn, GoodLength

LEMMA CompleteKeeps ==
    ASSUME NEW s, NEW r, Good(s, r), NEW x \in Generic!Complete(r)
    PROVE  Good(s, x) /\ Grows(r, x)
<1> DEFINE l == [r EXCEPT !.status = "completed"]
<1>1. x = Generic!Hear(l, {"RUN_COMPLETED"})
  BY DEF Generic!Complete
<1>2. IsRun(r)
  BY DEF Good
<1>3. Agree(r, l, {"status"}) /\ l.status = "completed"
  BY <1>2, PutAgrees DEF RunFields
<1> HIDE DEF l
<1>4. Agree(r, x, {"status", "occurred"}) /\ x.status = "completed"
  <2>1. IsRun(l)
    BY <1>3 DEF Agree
  <2>2. Agree(l, x, {"occurred"})
    BY <1>1, <2>1, HearAgrees
  <2> QED
    BY <1>3, <2>2 DEF Agree, RunFields
<1> QED
  BY <1>4, StatusKeeps

\* What the server does at a node by itself.
LEMMA PassThroughKeeps ==
    ASSUME Playable(scenario), NEW r, Good(scenario, r), Generic!Passive(r),
           NEW x \in Generic!PassThrough(r)
    PROVE  Good(scenario, x) /\ Grows(r, x)
<1> DEFINE type == scenario.nodes[r.node].type
<1>1. Generic!Node(r).type = type
  BY DEF Generic!Node, Generic!Nodes
<1>2. type \in {"EVIDENCE_RELEASE", "POLICY_CHECK", "STOCHASTIC_EVENT", "FEEDBACK", "COMPLETION"}
  BY <1>1 DEF Generic!Passive, Generic!PassiveTypes
<1>3. r.node \in DOMAIN scenario.nodes
  BY DEF Good
<1>4. r.node \notin Generic!NodesOf(scenario, "ENDORSEMENT")
  BY <1>2 DEF Generic!NodesOf
<1>5. CASE type = "EVIDENCE_RELEASE"
  <2>1. x \in Generic!PassThroughRelease(r)
    BY <1>1, <1>5 DEF Generic!PassThrough
  <2>2. r.node \in Generic!NodesOf(scenario, "EVIDENCE_RELEASE")
    BY <1>3, <1>5 DEF Generic!NodesOf
  <2> QED
    BY <2>1, <2>2, ReleaseKeeps
<1>6. CASE type = "POLICY_CHECK"
  <2> DEFINE e == Generic!Evaluate(r, r.node)
  <2>1. x \in Generic!Advance(e)
    BY <1>1, <1>6 DEF Generic!PassThrough
  <2>2. Good(scenario, e) /\ Grows(r, e) /\ Agree(r, e, {"evaluations", "committed", "occurred"})
    BY EvaluateKeeps
  <2> HIDE DEF e
  <2>3. e.node = r.node
    BY <2>2 DEF Agree, RunFields
  <2>4. Good(scenario, x) /\ Grows(e, x)
    BY <1>4, <2>1, <2>2, <2>3, MovingOnKeeps
  <2> QED
    BY <2>2, <2>4, GrowsOn, GoodLength
<1>7. CASE type = "STOCHASTIC_EVENT"
  <2>1. x \in Generic!PassThroughChance(r)
    BY <1>1, <1>7 DEF Generic!PassThrough
  <2> QED
    BY <1>4, <2>1, ChanceKeeps
<1>8. CASE type = "FEEDBACK"
  <2>1. x \in Generic!Advance(r)
    BY <1>1, <1>8 DEF Generic!PassThrough
  <2> QED
    BY <1>4, <2>1, MovingOnKeeps
<1>9. CASE type = "COMPLETION"
  <2>1. x \in Generic!Complete(r)
    BY <1>1, <1>9 DEF Generic!PassThrough
  <2> QED
    BY <2>1, CompleteKeeps
<1> QED
  BY <1>2, <1>5, <1>6, <1>7, <1>8, <1>9

\* f holds the runs that r may have become after each of the first n steps of the server.
Passes(r, n, f) ==
    f = [k \in 0 .. n |->
            IF k = 0 THEN {r}
            ELSE UNION {IF Generic!Passive(x) THEN Generic!PassThrough(x) ELSE {x} : x \in f[k - 1]}]

LEMMA PassesExist ==
    ASSUME NEW r, NEW n \in Nat
    PROVE  \E f : Passes(r, n, f)
<1> DEFINE Then(S) == UNION {IF Generic!Passive(x) THEN Generic!PassThrough(x) ELSE {x} : x \in S}
           T == {m \in Nat : ~\E f : Passes(r, m, f)}
<1> SUFFICES ASSUME T # {}
             PROVE  FALSE
  OBVIOUS
<1>0. \A m, f : Passes(r, m, f) <=> f = [k \in 0 .. m |-> IF k = 0 THEN {r} ELSE Then(f[k - 1])]
  BY DEF Passes
<1>1. PICK m \in T : \A y \in T : m <= y
  BY LeastNumber
<1> HIDE DEF Then
<1>2. CASE m = 0
  <2> DEFINE f == [k \in 0 .. 0 |-> {r}]
  <2>1. f = [k \in 0 .. 0 |-> IF k = 0 THEN {r} ELSE Then(f[k - 1])]
    OBVIOUS
  <2> QED
    BY <1>0, <1>1, <1>2, <2>1
<1>3. CASE m # 0
  <2>1. m - 1 \in Nat /\ m - 1 \notin T
    BY <1>1, <1>3
  <2>2. PICK f : Passes(r, m - 1, f)
    BY <2>1
  <2> DEFINE g == [k \in 0 .. m |-> IF k = m THEN Then(f[m - 1]) ELSE f[k]]
  <2>3. ASSUME NEW k \in 0 .. m
        PROVE  g[k] = IF k = 0 THEN {r} ELSE Then(g[k - 1])
    <3>1. CASE k = m
      BY <1>3, <2>1, <3>1
    <3>2. CASE k # m
      <4>1. k \in 0 .. (m - 1) /\ (k # 0 => k - 1 \in 0 .. (m - 1))
        BY <3>2
      <4>2. f[k] = IF k = 0 THEN {r} ELSE Then(f[k - 1])
        <5>1. f = [i \in 0 .. (m - 1) |-> IF i = 0 THEN {r} ELSE Then(f[i - 1])]
          BY <1>0, <2>2
        <5> QED
          BY <4>1, <5>1
      <4> QED
        BY <3>2, <4>1, <4>2
    <3> QED
      BY <3>1, <3>2
  <2>4. g = [k \in 0 .. m |-> IF k = 0 THEN {r} ELSE Then(g[k - 1])]
    BY <2>3
  <2>5. Passes(r, m, g)
    BY <1>0, <2>4
  <2> QED
    BY <1>1, <2>5
<1> QED
  BY <1>2, <1>3

\* However long the server goes on by itself, all it passes through is in order.
LEMMA PassesKeep ==
    ASSUME Playable(scenario), NEW r, Good(scenario, r), NEW n \in Nat, NEW f, Passes(r, n, f)
    PROVE  \A k \in 0 .. n : \A x \in f[k] : Good(scenario, x) /\ Grows(r, x)
<1> DEFINE InOrder(k) == \A x \in f[k] : Good(scenario, x) /\ Grows(r, x)
           T == {k \in 0 .. n : ~InOrder(k)}
<1> SUFFICES ASSUME T # {}
             PROVE  FALSE
  OBVIOUS
<1>1. T \subseteq Nat
  OBVIOUS
<1>2. PICK k \in T : \A y \in T : k <= y
  BY <1>1, LeastNumber
<1>3. k # 0
  <2>1. f[0] = {r}
    BY DEF Passes
  <2>2. InOrder(0)
    BY <2>1, Same
  <2> QED
    BY <1>2, <2>2
<1>4. k - 1 \in 0 .. n /\ k - 1 \notin T
  BY <1>2, <1>3
<1>5. InOrder(k - 1)
  BY <1>4
<1>6. f[k] = UNION {IF Generic!Passive(x) THEN Generic!PassThrough(x) ELSE {x} : x \in f[k - 1]}
  BY <1>2, <1>3 DEF Passes
<1>7. ASSUME NEW x \in f[k]
      PROVE  Good(scenario, x) /\ Grows(r, x)
  <2>1. PICK y \in f[k - 1] :
            x \in IF Generic!Passive(y) THEN Generic!PassThrough(y) ELSE {y}
    BY <1>6
  <2>2. Good(scenario, y) /\ Grows(r, y)
    BY <1>5
  <2>3. CASE ~Generic!Passive(y)
    BY <2>1, <2>2, <2>3
  <2>4. CASE Generic!Passive(y)
    <3>1. Good(scenario, x) /\ Grows(y, x)
      BY <2>1, <2>2, <2>4, PassThroughKeeps
    <3> QED
      BY <2>2, <3>1, GrowsOn, GoodLength
  <2> QED
    BY <2>3, <2>4
<1> QED
  BY <1>2, <1>7

LEMMA SettleKeeps ==
    ASSUME Playable(scenario), NEW r, Good(scenario, r), NEW x \in Generic!Settle(r)
    PROVE  Good(scenario, x) /\ Grows(r, x)
<1> DEFINE n == 2 * Cardinality(DOMAIN scenario.nodes)
           passed == CHOOSE f : Passes(r, n, f)
<1>1. n \in Nat
  <2>1. IsFiniteSet(DOMAIN scenario.nodes)
    BY SameCount DEF Playable, Generic!IsWellFormed
  <2>2. Cardinality(DOMAIN scenario.nodes) \in Nat
    BY <2>1, FS_CardinalityType
  <2> QED
    BY <2>2
<1>2. x \in passed[n]
  BY SameCount DEF Generic!Settle, Passes, Generic!Nodes
<1> HIDE DEF n
<1>3. Passes(r, n, passed)
  BY <1>1, PassesExist
<1> HIDE DEF passed
<1>4. n \in 0 .. n
  BY <1>1
<1> QED
  BY <1>1, <1>2, <1>3, <1>4, PassesKeep

\* A run that goes on and then as far as the server takes it.
LEMMA ProceedKeeps ==
    ASSUME Playable(scenario), NEW r, Good(scenario, r),
           r.node \notin Generic!NodesOf(scenario, "ENDORSEMENT"),
           NEW x \in Generic!Proceed(r)
    PROVE  Good(scenario, x) /\ Grows(r, x)
<1>1. PICK y \in Generic!Advance(r) : x \in Generic!Settle(y)
  BY DEF Generic!Proceed
<1>2. Good(scenario, y) /\ Grows(r, y)
  BY MovingOnKeeps
<1>3. Good(scenario, x) /\ Grows(y, x)
  BY <1>1, <1>2, SettleKeeps
<1> QED
  BY <1>2, <1>3, GrowsOn, GoodLength
-----------------------------------------------------------------------------
(* Commands *)

\* One field is changed, and told.
LEMMA PutAndTold ==
    ASSUME NEW r, IsRun(r), NEW f \in RunFields \ {"occurred"}, NEW v, NEW codes
    PROVE  LET x == Generic!Hear([r EXCEPT ![f] = v], codes)
           IN  Agree(r, x, {f, "occurred"}) /\ x[f] = v
<1> DEFINE l == [r EXCEPT ![f] = v]
           x == Generic!Hear(l, codes)
<1>1. Agree(r, l, {f}) /\ l[f] = v
  BY PutAgrees
<1> HIDE DEF l
<1>2. Agree(l, x, {"occurred"})
  <2>1. IsRun(l)
    BY <1>1 DEF Agree
  <2> QED
    BY <2>1, HearAgrees
<1> HIDE DEF x
<1>3. Agree(r, x, {f, "occurred"}) /\ x[f] = v
  BY <1>1, <1>2 DEF Agree
<1> QED
  BY <1>3 DEF x, l

Handled ==
    {"released", "inspected", "consulted", "requested", "incidents", "decisions", "proposals",
     "endorsements"}

\* A command that moves nothing keeps the run in order if what it adds is.
LEMMA CommandKeeps ==
    ASSUME NEW s, NEW r, NEW x, Good(s, r), Agree(r, x, Handled \union Idle),
           r.released \subseteq x.released, r.consulted \subseteq x.consulted,
           r.requested \subseteq x.requested, r.incidents \subseteq x.incidents,
           r.endorsements \subseteq x.endorsements,
           Generic!Extends(r.decisions, x.decisions), Generic!Extends(r.proposals, x.proposals),
           \A e \in x.released \ r.released : ReleaseIsEarned(s, x, e),
           x.inspected \subseteq x.released,
           \A d \in DOMAIN x.decisions \ DOMAIN r.decisions : CitesWhatIsOut(x, d),
           \A p \in DOMAIN x.proposals \ DOMAIN r.proposals :
               s.nodes[p].source \in DOMAIN x.decisions,
           IsFiniteSet(x.endorsements), \A e \in x.endorsements : EndorsementIsValid(s, e)
    PROVE  Good(s, x) /\ Grows(r, x)
<1>1. /\ x.status = r.status /\ x.mode = r.mode /\ x.node = r.node /\ x.completed = r.completed
      /\ x.evaluations = r.evaluations /\ x.committed = r.committed /\ x.chances = r.chances
  BY DEF Agree, Idle, Handled, RunFields
<1>2. Grows(r, x)
  BY <1>1, Same DEF Grows
<1>3. IsRun(x)
  BY DEF Agree
<1>4. Adds(s, r, x)
  BY <1>1, <1>3, Same DEF Adds, Good, PassesAreCommitted
<1> QED
  BY <1>2, <1>4, GrowthKeeps

\* Fields that are as they were are in order.
LEMMA Untouched ==
    ASSUME NEW s, NEW r, Good(s, r)
    PROVE  /\ IsRun(r) /\ r.inspected \subseteq r.released
           /\ IsFiniteSet(r.endorsements) /\ \A e \in r.endorsements : EndorsementIsValid(s, e)
           /\ Generic!Extends(r.decisions, r.decisions)
           /\ Generic!Extends(r.proposals, r.proposals)
BY DEF Good, Generic!Extends

LEMMA InspectedKeeps ==
    ASSUME NEW r, Good(scenario, r), NEW e, NEW x \in Generic!Inspected(r, e)
    PROVE  Good(scenario, x) /\ Grows(r, x)
<1> DEFINE v == r.inspected \union {e}
<1>1. /\ e \in r.released
      /\ x = Generic!Hear([r EXCEPT !.inspected = v], {"EVIDENCE_INSPECTED"})
  BY DEF Generic!Inspected, Generic!VisibleEvidence
<1>2. Agree(r, x, {"inspected", "occurred"}) /\ x.inspected = v
  <2>1. "inspected" \in RunFields \ {"occurred"}
    BY DEF RunFields
  <2>2. IsRun(r)
    BY Untouched
  <2>3. \A u, told :
            LET z == Generic!Hear([r EXCEPT !.inspected = u], told)
            IN  Agree(r, z, {"inspected", "occurred"}) /\ z.inspected = u
    BY <2>1, <2>2, PutAndTold
  <2> QED
    BY <1>1, <2>3
<1>3. /\ x.released = r.released /\ x.consulted = r.consulted /\ x.requested = r.requested
      /\ x.incidents = r.incidents /\ x.decisions = r.decisions /\ x.proposals = r.proposals
      /\ x.endorsements = r.endorsements /\ Agree(r, x, Handled \union Idle)
  BY <1>2 DEF Agree, RunFields, Handled, Idle
<1>4. x.inspected \subseteq x.released
  BY <1>1, <1>2, <1>3, Untouched
<1> QED
  BY <1>3, <1>4, Untouched, CommandKeeps

LEMMA RequestedKeeps ==
    ASSUME NEW r, Good(scenario, r), NEW e, NEW x \in Generic!Requested(r, e)
    PROVE  Good(scenario, x) /\ Grows(r, x)
<1> DEFINE codes == {"EVIDENCE_REQUESTED", "EVIDENCE_RELEASED"}
           v == r.requested \union {e}
           w == r.released \union {e}
<1>1. /\ e \in Generic!Requestable(r)
      /\ x = Generic!Hear([r EXCEPT !.requested = v, !.released = w], codes)
  BY DEF Generic!Requested
<1> HIDE DEF codes
<1>2. /\ Agree(r, x, {"requested", "released", "occurred"})
      /\ x.requested = v /\ x.released = w
  <2> DEFINE l == [r EXCEPT !.requested = v, !.released = w]
  <2>1. Agree(r, l, {"requested", "released"}) /\ l.requested = v /\ l.released = w
    <3>1. DOMAIN r = RunFields
      BY Untouched DEF IsRun
    <3> HIDE DEF v, w
    <3>2. /\ DOMAIN l = RunFields /\ l.requested = v /\ l.released = w
          /\ \A f \in RunFields \ {"requested", "released"} : l[f] = r[f]
      BY <3>1 DEF RunFields
    <3>3. l = [f \in RunFields |-> l[f]]
      BY <3>1
    <3> QED
      BY <3>2, <3>3 DEF Agree, IsRun
  <2> HIDE DEF l
  <2>2. Agree(l, x, {"occurred"})
    <3>1. IsRun(l)
      BY <2>1 DEF Agree
    <3> QED
      BY <1>1, <3>1, HearAgrees DEF l
  <2> QED
    BY <2>1, <2>2 DEF Agree, RunFields
<1>3. /\ x.inspected = r.inspected /\ x.consulted = r.consulted /\ x.mode = r.mode
      /\ x.incidents = r.incidents /\ x.decisions = r.decisions /\ x.proposals = r.proposals
      /\ x.endorsements = r.endorsements /\ Agree(r, x, Handled \union Idle)
      /\ x.completed = r.completed
  BY <1>2 DEF Agree, RunFields, Handled, Idle
<1>4. ReleaseIsEarned(scenario, x, e)
  <2>1. /\ e \in OfferedBy(scenario, r) /\ scenario.modes[r.mode].requests
        /\ Generic!RequestPermitted(r, e)
    BY <1>1, OfTheScenario DEF Generic!Requestable
  <2>2. scenario.evidence[e].permission # Generic!None =>
            scenario.policies[scenario.evidence[e].permission].type = "AUTHORIZATION"
    BY <2>1 DEF Generic!RequestPermitted, Generic!Evidence, Generic!Policies
  <2>3. e \in OfferedBy(scenario, x)
    BY <1>3, <2>1 DEF OfferedBy
  <2> QED
    BY <1>2, <1>3, <2>1, <2>2, <2>3 DEF ReleaseIsEarned
<1>5. \A o \in x.released \ r.released : ReleaseIsEarned(scenario, x, o)
  BY <1>2, <1>4
<1>6. x.inspected \subseteq x.released
  BY <1>2, <1>3, Untouched
<1> QED
  BY <1>2, <1>3, <1>5, <1>6, Untouched, CommandKeeps

LEMMA ConsultedKeeps ==
    ASSUME NEW r, Good(scenario, r), NEW p, NEW x \in Generic!Consulted(r, p)
    PROVE  Good(scenario, x) /\ Grows(r, x)
<1> DEFINE v == r.consulted \union {p}
<1>1. x = Generic!Hear([r EXCEPT !.consulted = v], {"POLICY_CONSULTED"})
  BY DEF Generic!Consulted
<1>2. Agree(r, x, {"consulted", "occurred"}) /\ x.consulted = v
  <2>1. "consulted" \in RunFields \ {"occurred"}
    BY DEF RunFields
  <2>2. IsRun(r)
    BY Untouched
  <2>3. \A u, told :
            LET z == Generic!Hear([r EXCEPT !.consulted = u], told)
            IN  Agree(r, z, {"consulted", "occurred"}) /\ z.consulted = u
    BY <2>1, <2>2, PutAndTold
  <2> QED
    BY <1>1, <2>3
<1>3. /\ x.released = r.released /\ x.inspected = r.inspected /\ x.requested = r.requested
      /\ x.incidents = r.incidents /\ x.decisions = r.decisions /\ x.proposals = r.proposals
      /\ x.endorsements = r.endorsements /\ Agree(r, x, Handled \union Idle)
  BY <1>2 DEF Agree, RunFields, Handled, Idle
<1> QED
  BY <1>2, <1>3, Untouched, CommandKeeps

LEMMA IncidentKeeps ==
    ASSUME NEW r, Good(scenario, r), NEW i, NEW x,
           x = Generic!Hear([r EXCEPT !.incidents = @ \union {i},
                                      !.released = @ \union scenario.incidents[i].evidence],
                            {"INSTRUCTOR_INCIDENT_RELEASED"})
    PROVE  Good(scenario, x) /\ Grows(r, x)
<1> DEFINE given == scenario.incidents[i].evidence
           v == r.incidents \union {i}
           w == r.released \union given
<1>0. x = Generic!Hear([r EXCEPT !.incidents = v, !.released = w], {"INSTRUCTOR_INCIDENT_RELEASED"})
  OBVIOUS
<1>1. /\ Agree(r, x, {"incidents", "released", "occurred"})
      /\ x.incidents = v /\ x.released = w
  <2> DEFINE l == [r EXCEPT !.incidents = v, !.released = w]
  <2>1. Agree(r, l, {"incidents", "released"}) /\ l.incidents = v /\ l.released = w
    <3>1. DOMAIN r = RunFields
      BY Untouched DEF IsRun
    <3> HIDE DEF v, w
    <3>2. /\ DOMAIN l = RunFields /\ l.incidents = v /\ l.released = w
          /\ \A f \in RunFields \ {"incidents", "released"} : l[f] = r[f]
      BY <3>1 DEF RunFields
    <3>3. l = [f \in RunFields |-> l[f]]
      BY <3>1
    <3> QED
      BY <3>2, <3>3 DEF Agree, IsRun
  <2> HIDE DEF l
  <2>2. Agree(l, x, {"occurred"})
    <3>1. IsRun(l)
      BY <2>1 DEF Agree
    <3> QED
      BY <1>0, <3>1, HearAgrees DEF l
  <2> QED
    BY <2>1, <2>2 DEF Agree, RunFields
<1>2. /\ x.inspected = r.inspected /\ x.consulted = r.consulted /\ x.requested = r.requested
      /\ x.decisions = r.decisions /\ x.proposals = r.proposals
      /\ x.endorsements = r.endorsements /\ Agree(r, x, Handled \union Idle)
  BY <1>1 DEF Agree, RunFields, Handled, Idle
<1>3. \A o \in x.released \ r.released : ReleaseIsEarned(scenario, x, o)
  BY <1>1 DEF ReleaseIsEarned
<1>4. x.inspected \subseteq x.released
  BY <1>1, <1>2, Untouched
<1> QED
  BY <1>1, <1>2, <1>3, <1>4, Untouched, CommandKeeps

LEMMA DecidedKeeps ==
    ASSUME Playable(scenario), NEW r, Good(scenario, r),
           r.node \notin Generic!NodesOf(scenario, "ENDORSEMENT"),
           NEW d, NEW x \in Generic!Decided(r, d)
    PROVE  Good(scenario, x) /\ Grows(r, x)
<1> DEFINE name == Generic!Node(r).decision
           observed == Generic!Observed(r, d)
           codes == {"DECISION_SUBMITTED"} \union
                        (IF observed = {} THEN {} ELSE {"COMPETENCY_EVIDENCE_RECORDED"})
           v == Generic!Recorded(r.decisions, name, d)
           w == r.competency \union observed
           y == Generic!Hear([r EXCEPT !.decisions = v, !.competency = w], codes)
<1>1. Generic!DecisionIsAcceptable(r, d) /\ x \in Generic!Proceed(y)
  BY DEF Generic!Decided
<1>2. name \notin DOMAIN r.decisions /\ d.evidence \subseteq r.released /\ d.policies \subseteq r.consulted
  BY <1>1 DEF Generic!DecisionIsAcceptable, Generic!VisibleEvidence
<1> HIDE DEF codes, observed, name
<1>3. /\ Agree(r, y, {"decisions", "competency", "occurred"})
      /\ y.decisions = v
  <2> DEFINE l == [r EXCEPT !.decisions = v, !.competency = w]
  <2>1. Agree(r, l, {"decisions", "competency"}) /\ l.decisions = v /\ l.competency = w
    <3>1. DOMAIN r = RunFields
      BY Untouched DEF IsRun
    <3> HIDE DEF v, w
    <3>2. /\ DOMAIN l = RunFields /\ l.decisions = v /\ l.competency = w
          /\ \A f \in RunFields \ {"decisions", "competency"} : l[f] = r[f]
      BY <3>1 DEF RunFields
    <3>3. l = [f \in RunFields |-> l[f]]
      BY <3>1
    <3> QED
      BY <3>2, <3>3 DEF Agree, IsRun
  <2> HIDE DEF l
  <2>2. Agree(l, y, {"occurred"})
    <3>1. IsRun(l)
      BY <2>1 DEF Agree
    <3> QED
      BY <3>1, HearAgrees DEF l
  <2> QED
    BY <2>1, <2>2 DEF Agree, RunFields
<1> HIDE DEF y
<1>4. /\ y.released = r.released /\ y.inspected = r.inspected /\ y.consulted = r.consulted
      /\ y.requested = r.requested /\ y.incidents = r.incidents /\ y.proposals = r.proposals
      /\ y.endorsements = r.endorsements /\ Agree(r, y, Handled \union Idle) /\ y.node = r.node
  BY <1>3 DEF Agree, RunFields, Handled, Idle
<1>5. /\ Generic!Extends(r.decisions, y.decisions)
      /\ \A n \in DOMAIN y.decisions \ DOMAIN r.decisions : y.decisions[n] = d
  BY <1>2, <1>3 DEF Generic!Recorded, Generic!Extends
<1>6. \A n \in DOMAIN y.decisions \ DOMAIN r.decisions : CitesWhatIsOut(y, n)
  BY <1>2, <1>4, <1>5 DEF CitesWhatIsOut
<1>7. Good(scenario, y) /\ Grows(r, y)
  BY <1>4, <1>5, <1>6, Untouched, CommandKeeps
<1>8. Good(scenario, x) /\ Grows(y, x)
  BY <1>1, <1>4, <1>7, ProceedKeeps
<1> QED
  BY <1>7, <1>8, GrowsOn, GoodLength

LEMMA ProposedKeeps ==
    ASSUME Playable(scenario), NEW r, Good(scenario, r),
           r.node \notin Generic!NodesOf(scenario, "ENDORSEMENT"),
           NEW x \in Generic!Proposed(r)
    PROVE  Good(scenario, x) /\ Grows(r, x)
<1> DEFINE codes == {"TRANSACTION_PROPOSED", Generic!Node(r).proposalType}
           v == Generic!Recorded(r.proposals, r.node, r.role)
           y == Generic!Hear([r EXCEPT !.proposals = v], codes)
<1>1. /\ r.node \notin DOMAIN r.proposals
      /\ scenario.nodes[r.node].source \in DOMAIN r.decisions
      /\ x \in Generic!Proceed(y)
  BY DEF Generic!Proposed, Generic!Node, Generic!Nodes
<1> HIDE DEF codes
<1>2. /\ Agree(r, y, {"proposals", "occurred"})
      /\ y.proposals = v
  <2>1. "proposals" \in RunFields \ {"occurred"}
    BY DEF RunFields
  <2>2. IsRun(r)
    BY Untouched
  <2>3. \A u, told :
            LET z == Generic!Hear([r EXCEPT !.proposals = u], told)
            IN  Agree(r, z, {"proposals", "occurred"}) /\ z.proposals = u
    BY <2>1, <2>2, PutAndTold
  <2> QED
    BY <2>3
<1> HIDE DEF y
<1>3. /\ y.released = r.released /\ y.inspected = r.inspected /\ y.consulted = r.consulted
      /\ y.requested = r.requested /\ y.incidents = r.incidents /\ y.decisions = r.decisions
      /\ y.endorsements = r.endorsements /\ Agree(r, y, Handled \union Idle) /\ y.node = r.node
  BY <1>2 DEF Agree, RunFields, Handled, Idle
<1>4. /\ Generic!Extends(r.proposals, y.proposals)
      /\ \A p \in DOMAIN y.proposals \ DOMAIN r.proposals : p = r.node
  BY <1>1, <1>2 DEF Generic!Recorded, Generic!Extends
<1>5. \A p \in DOMAIN y.proposals \ DOMAIN r.proposals :
          scenario.nodes[p].source \in DOMAIN y.decisions
  BY <1>1, <1>3, <1>4
<1>6. Good(scenario, y) /\ Grows(r, y)
  BY <1>3, <1>4, <1>5, Untouched, CommandKeeps
<1>7. Good(scenario, x) /\ Grows(y, x)
  BY <1>1, <1>3, <1>6, ProceedKeeps
<1> QED
  BY <1>6, <1>7, GrowsOn, GoodLength

\* A message is acknowledged, or a reflection written: nothing that a promise is about.
LEMMA NotedKeeps ==
    ASSUME Playable(scenario), NEW r, Good(scenario, r),
           r.node \notin Generic!NodesOf(scenario, "ENDORSEMENT"),
           NEW x \in Generic!Acknowledged(r) \union Generic!Reflected(r)
    PROVE  Good(scenario, x) /\ Grows(r, x)
<1>1. ASSUME NEW f \in {"communications", "reflections"}, NEW v, NEW codes,
             x \in Generic!Proceed(Generic!Hear([r EXCEPT ![f] = v], codes))
      PROVE  Good(scenario, x) /\ Grows(r, x)
  <2> DEFINE y == Generic!Hear([r EXCEPT ![f] = v], codes)
  <2>1. f \in RunFields \ {"occurred"}
    BY DEF RunFields
  <2>2. Agree(r, y, {f, "occurred"})
    BY <2>1, Untouched, PutAndTold
  <2>3. x \in Generic!Proceed(y)
    BY <1>1
  <2> HIDE DEF y
  <2>4. Agree(r, y, Idle) /\ y.node = r.node
    BY <2>2 DEF Agree, Idle, RunFields
  <2>5. Good(scenario, y) /\ Grows(r, y)
    BY <2>4, IdleKeeps
  <2>6. Good(scenario, x) /\ Grows(y, x)
    BY <2>3, <2>4, <2>5, ProceedKeeps
  <2> QED
    BY <2>5, <2>6, GrowsOn, GoodLength
<1>2. CASE x \in Generic!Acknowledged(r)
  <2>1. x \in Generic!Proceed(Generic!Hear(
                  [r EXCEPT !["communications"] = r.communications \union {r.node}],
                  {"COMMUNICATION_ACKNOWLEDGED", Generic!Node(r).message}))
    BY <1>2 DEF Generic!Acknowledged
  <2> QED
    BY <1>1, <2>1
<1>3. CASE x \in Generic!Reflected(r)
  <2>1. x \in Generic!Proceed(Generic!Hear(
                  [r EXCEPT !["reflections"] = r.reflections \union {Generic!Node(r).reflection}],
                  {"REFLECTION_SUBMITTED", Generic!Node(r).reflection}))
    BY <1>3 DEF Generic!Reflected
  <2> QED
    BY <1>1, <2>1
<1> QED
  BY <1>2, <1>3

\* An approval that is complete is left, with the policy evaluated or not.
LEMMA LeavingKeeps ==
    ASSUME Playable(scenario), NEW r, Good(scenario, r), IsApproved(scenario, r, r.node),
           NEW x \in Generic!LeaveEndorsement(r)
    PROVE  Good(scenario, x) /\ Grows(r, x)
<1>1. PICK t \in Generic!NextTransition(r) : \E n, e, y :
          /\ e = r \/ e = Generic!Evaluate(r, n)
          /\ y \in Generic!Follow(e, t) /\ x \in Generic!Settle(y)
  <2> DEFINE checks == {n \in Generic!NodesOf(scenario, "POLICY_CHECK") :
                            /\ Generic!Nodes[n].policy = Generic!Node(r).policy
                            /\ Generic!Nodes[n].proposal = Generic!Node(r).proposal}
             c == CHOOSE n \in checks : TRUE
             E(t) == IF t.to \in checks \/ checks = {} THEN r ELSE Generic!Evaluate(r, c)
  <2>1. PICK t \in Generic!NextTransition(r) : x \in UNION {Generic!Settle(y) : y \in Generic!Follow(E(t), t)}
    BY DEF Generic!LeaveEndorsement
  <2>2. E(t) = r \/ E(t) = Generic!Evaluate(r, c)
    OBVIOUS
  <2> HIDE DEF E, c
  <2>3. PICK y \in Generic!Follow(E(t), t) : x \in Generic!Settle(y)
    BY <2>1
  <2> QED
    BY <2>2, <2>3
<1>0. PICK n, e, y : /\ e = r \/ e = Generic!Evaluate(r, n)
                     /\ y \in Generic!Follow(e, t) /\ x \in Generic!Settle(y)
  BY <1>1
<1>2. Good(scenario, e) /\ Grows(r, e) /\ e.node = r.node /\ e.endorsements = r.endorsements
  <2>1. CASE e = r
    BY <2>1, Same
  <2>2. CASE e = Generic!Evaluate(r, n)
    <3>1. Good(scenario, e) /\ Grows(r, e) /\ Agree(r, e, {"evaluations", "committed", "occurred"})
      BY <2>2, EvaluateKeeps
    <3> QED
      BY <3>1 DEF Agree, RunFields
  <2> QED
    BY <1>0, <2>1, <2>2
<1>3. t.to \in DOMAIN scenario.nodes
  <2>1. r.node \in DOMAIN scenario.nodes
    BY DEF Good
  <2> QED
    BY <2>1, NextIsInTheGraph
<1>4. /\ Agree(e, y, {"completed", "node", "role", "occurred"})
      /\ y.completed = e.completed \union {e.node} /\ y.node = t.to
  BY <1>0, <1>2, Untouched, FollowMoves
<1>5. IsApproved(scenario, e, e.node)
  BY <1>2 DEF IsApproved, EndorsersIn
<1>6. Good(scenario, y) /\ Grows(e, y)
  BY <1>2, <1>3, <1>4, <1>5, MovedIsGood
<1>7. Good(scenario, x) /\ Grows(y, x)
  BY <1>0, <1>6, SettleKeeps
<1>8. Grows(r, y)
  BY <1>2, <1>6, GrowsOn, GoodLength
<1> QED
  BY <1>6, <1>7, <1>8, GrowsOn, GoodLength

LEMMA EndorsedKeeps ==
    ASSUME Playable(scenario), NEW r, Good(scenario, r),
           r.node \in Generic!NodesOf(scenario, "ENDORSEMENT"),
           NEW x \in Generic!Endorsed(r)
    PROVE  Good(scenario, x) /\ Grows(r, x)
<1> DEFINE endorsement == [node |-> r.node, role |-> r.role]
           codes == {"ENDORSEMENT_RECORDED", Generic!Node(r).policy}
           v == r.endorsements \union {endorsement}
           y == Generic!Hear([r EXCEPT !.endorsements = v], codes)
<1>1. /\ r.role \in Generic!ElementsOf(scenario.nodes[r.node].roles)
      /\ x \in IF Generic!PendingEndorsers(y, r.node) # {} THEN Generic!HandedOver(y)
               ELSE Generic!LeaveEndorsement(y)
  BY DEF Generic!Endorsed, Generic!Node, Generic!Nodes
<1> HIDE DEF codes
<1>2. /\ Agree(r, y, {"endorsements", "occurred"})
      /\ y.endorsements = v
  <2>1. "endorsements" \in RunFields \ {"occurred"}
    BY DEF RunFields
  <2>2. IsRun(r)
    BY Untouched
  <2>3. \A u, told :
            LET z == Generic!Hear([r EXCEPT !.endorsements = u], told)
            IN  Agree(r, z, {"endorsements", "occurred"}) /\ z.endorsements = u
    BY <2>1, <2>2, PutAndTold
  <2> QED
    BY <2>3
<1> HIDE DEF y
<1>3. /\ y.released = r.released /\ y.inspected = r.inspected /\ y.consulted = r.consulted
      /\ y.requested = r.requested /\ y.incidents = r.incidents /\ y.decisions = r.decisions
      /\ y.proposals = r.proposals /\ Agree(r, y, Handled \union Idle) /\ y.node = r.node
  BY <1>2 DEF Agree, RunFields, Handled, Idle
<1>4. EndorsementIsValid(scenario, endorsement)
  BY <1>1 DEF EndorsementIsValid
<1>5. IsFiniteSet(y.endorsements) /\ \A e \in y.endorsements : EndorsementIsValid(scenario, e)
  <2> HIDE DEF endorsement
  <2>1. IsFiniteSet(y.endorsements)
    BY <1>2, Untouched, FS_AddElement
  <2> QED
    BY <1>2, <1>4, <2>1, Untouched
<1>6. Good(scenario, y) /\ Grows(r, y)
  BY <1>2, <1>3, <1>5, Untouched, CommandKeeps
<1>7. CASE Generic!PendingEndorsers(y, r.node) # {}
  <2>1. PICK role : x = Generic!Hear([y EXCEPT !.role = role], {"ROLE_HANDOFF_COMPLETED"})
    BY <1>1, <1>7 DEF Generic!HandedOver
  <2>2. "role" \in RunFields \ {"occurred"}
    BY DEF RunFields
  <2>3. Agree(y, x, {"role", "occurred"})
    BY <1>6, <2>1, <2>2, Untouched, PutAndTold
  <2>4. Agree(y, x, Idle)
    BY <2>3 DEF Agree, Idle
  <2>5. Good(scenario, x) /\ Grows(y, x)
    BY <1>6, <2>4, IdleKeeps
  <2> QED
    BY <1>6, <2>5, GrowsOn, GoodLength
<1>8. CASE Generic!PendingEndorsers(y, r.node) = {}
  <2>1. IsApproved(scenario, y, y.node)
    BY <1>3, <1>8, OfTheScenario DEF Generic!PendingEndorsers, IsApproved
  <2>2. x \in Generic!LeaveEndorsement(y)
    BY <1>1, <1>8
  <2>3. Good(scenario, x) /\ Grows(y, x)
    BY <1>6, <2>1, <2>2, LeavingKeeps
  <2> QED
    BY <1>6, <2>3, GrowsOn, GoodLength
<1> QED
  BY <1>7, <1>8
-----------------------------------------------------------------------------
(* The inductive invariant and the theorem *)

LEMMA CreatedKeeps ==
    ASSUME Playable(scenario), NEW mode, NEW draws, NEW outcome,
           NEW x \in Generic!Settle(Generic!Created(mode, draws, outcome))
    PROVE  Good(scenario, x)
<1> DEFINE r == Generic!Created(mode, draws, outcome)
           role == Generic!RoleAt(Generic!None, scenario.entry)
           occurred == {"RUN_CREATED"} \union
               (IF scenario.modes[mode].strategy = "probabilistic"
                THEN {"RANDOM_DRAW_MADE", "OUTCOME_REALIZED", outcome} ELSE {})
<1>1. r = [status |-> "active", mode |-> mode, node |-> scenario.entry, completed |-> {},
           role |-> role, released |-> {}, inspected |-> {}, consulted |-> {},
           requested |-> {}, incidents |-> {}, decisions |-> << >>, proposals |-> << >>,
           endorsements |-> {}, evaluations |-> << >>, committed |-> << >>,
           communications |-> {}, chances |-> << >>, reflections |-> {}, competency |-> {},
           expired |-> FALSE, draws |-> draws, outcome |-> outcome, occurred |-> occurred]
  BY DEF Generic!Created
<1> HIDE DEF r, role, occurred
<1>2. IsRun(r)
  BY <1>1 DEF IsRun, RunFields
<1>3. /\ r.status = "active" /\ r.node = scenario.entry /\ r.completed = {} /\ r.released = {}
      /\ r.inspected = {} /\ DOMAIN r.decisions = {} /\ DOMAIN r.proposals = {}
      /\ r.endorsements = {} /\ r.evaluations = << >> /\ DOMAIN r.committed = {}
  BY <1>1
<1>4. PassesAreCommitted(r)
  BY <1>3 DEF PassesAreCommitted, Generic!IsList
<1>5. scenario.entry \in DOMAIN scenario.nodes
  BY DEF Playable, Generic!Accepted, Generic!GraphIsConnected
<1>6. IsFiniteSet({})
  BY FS_EmptySet
<1>7. Good(scenario, r)
  BY <1>2, <1>3, <1>4, <1>5, <1>6 DEF Good
<1> QED
  BY <1>7, SettleKeeps DEF r

\* The command that goes on is given at a node of its type.
LEMMA GoesOnWhereItFits ==
    ASSUME NEW c \in {"ADVANCE_WORKFLOW", "SUBMIT_STRUCTURED_DECISION",
                      "CREATE_TRANSACTION_PROPOSAL", "RECORD_ENDORSEMENT",
                      "ACKNOWLEDGE_COMMUNICATION", "SUBMIT_REFLECTION"},
           Generic!MayCommand(c)
    PROVE  scenario.nodes[run.node].type = "ENDORSEMENT" <=> c = "RECORD_ENDORSEMENT"
<1> DEFINE type == scenario.nodes[run.node].type
<1>1. c = Generic!PrimaryCommand(type)
  BY DEF Generic!MayCommand, Generic!Permitted, Generic!Node, Generic!Nodes
<1> HIDE DEF type
<1>2. CASE type = "ENDORSEMENT"
  BY <1>1, <1>2 DEF Generic!PrimaryCommand, type
<1>3. CASE c = "RECORD_ENDORSEMENT"
  BY <1>1, <1>3, Zenon DEF Generic!PrimaryCommand, Generic!None, type
<1> QED
  BY <1>2, <1>3 DEF type

GenericInv ==
    /\ run # Generic!NoRun => Good(scenario, run)
    /\ kind = "generic-v1" => scenario \in Generic!Published
    /\ kind # "generic-v1" => run = Generic!NoRun

LEMMA RunIsNoRun ==
    ASSUME NEW s, NEW r, Good(s, r)
    PROVE  r # Generic!NoRun
<1>1. DOMAIN r = RunFields /\ "node" \in RunFields
  BY DEF Good, IsRun, RunFields
<1>2. DOMAIN Generic!NoRun = {"status"} /\ "node" # "status"
  BY DEF Generic!NoRun
<1> QED
  BY <1>1, <1>2

LEMMA PlayedIsPlayable ==
    ASSUME scenario \in Generic!Published
    PROVE  Playable(scenario)
BY LibraryAssumption DEF Playable, Generic!Published

\* Every command of the learner, every incident and every tick keeps the run in order.
LEMMA GenericSteps ==
    ASSUME Playable(scenario), run # Generic!NoRun => Good(scenario, run), Generic!Next
    PROVE  \/ run = Generic!NoRun /\ Good(scenario, run')
           \/ run = Generic!NoRun /\ run' = run
           \/ run # Generic!NoRun /\ Good(scenario, run') /\ Grows(run, run')
<1>1. ASSUME Generic!IsActive(run)
      PROVE  run # Generic!NoRun /\ Good(scenario, run)
  BY <1>1 DEF Generic!IsActive, Generic!NoRun
<1> DEFINE Kept == run # Generic!NoRun /\ Good(scenario, run') /\ Grows(run, run')
<1>2. ASSUME NEW m \in DOMAIN scenario.modes, Generic!CreateRun(m)
      PROVE  run = Generic!NoRun /\ Good(scenario, run')
  BY <1>2, CreatedKeeps DEF Generic!CreateRun
<1>3. ASSUME Generic!Progress
      PROVE  Kept
  <2>1. Good(scenario, run) /\ run # Generic!NoRun
    BY <1>1, <1>3 DEF Generic!Progress, Generic!AdvanceWorkflow, Generic!SubmitDecision,
       Generic!CreateProposal, Generic!RecordEndorsement, Generic!AcknowledgeCommunication,
       Generic!SubmitReflection, Generic!Command, Generic!MayCommand
  <2>2. run.node \in DOMAIN scenario.nodes
    BY <2>1 DEF Good
  <2>3. ASSUME NEW c \in {"ADVANCE_WORKFLOW", "SUBMIT_STRUCTURED_DECISION",
                          "CREATE_TRANSACTION_PROPOSAL", "ACKNOWLEDGE_COMMUNICATION",
                          "SUBMIT_REFLECTION"},
               Generic!MayCommand(c)
        PROVE  run.node \notin Generic!NodesOf(scenario, "ENDORSEMENT")
    BY <2>3, GoesOnWhereItFits DEF Generic!NodesOf
  <2>4. CASE Generic!AdvanceWorkflow
    <3>1. /\ run.node \notin Generic!NodesOf(scenario, "ENDORSEMENT")
          /\ run' \in Generic!Proceed(run)
      BY <2>3, <2>4 DEF Generic!AdvanceWorkflow, Generic!Command, Generic!Advanced
    <3> QED
      BY <2>1, <3>1, ProceedKeeps
  <2>5. CASE Generic!SubmitDecision
    <3>1. /\ run.node \notin Generic!NodesOf(scenario, "ENDORSEMENT")
          /\ \E d : run' \in Generic!Decided(run, d)
      BY <2>3, <2>5 DEF Generic!SubmitDecision, Generic!Command
    <3> QED
      BY <2>1, <3>1, DecidedKeeps
  <2>6. CASE Generic!CreateProposal
    <3>1. /\ run.node \notin Generic!NodesOf(scenario, "ENDORSEMENT")
          /\ run' \in Generic!Proposed(run)
      BY <2>3, <2>6 DEF Generic!CreateProposal, Generic!Command
    <3> QED
      BY <2>1, <3>1, ProposedKeeps
  <2>7. CASE Generic!RecordEndorsement
    <3>1. /\ run.node \in Generic!NodesOf(scenario, "ENDORSEMENT")
          /\ run' \in Generic!Endorsed(run)
      BY <2>2, <2>7, GoesOnWhereItFits
      DEF Generic!RecordEndorsement, Generic!Command, Generic!NodesOf
    <3> QED
      BY <2>1, <3>1, EndorsedKeeps
  <2>8. CASE Generic!AcknowledgeCommunication
    <3>1. /\ run.node \notin Generic!NodesOf(scenario, "ENDORSEMENT")
          /\ run' \in Generic!Acknowledged(run) \union Generic!Reflected(run)
      BY <2>3, <2>8 DEF Generic!AcknowledgeCommunication, Generic!Command
    <3> QED
      BY <2>1, <3>1, NotedKeeps
  <2>9. CASE Generic!SubmitReflection
    <3>1. /\ run.node \notin Generic!NodesOf(scenario, "ENDORSEMENT")
          /\ run' \in Generic!Acknowledged(run) \union Generic!Reflected(run)
      BY <2>3, <2>9 DEF Generic!SubmitReflection, Generic!Command
    <3> QED
      BY <2>1, <3>1, NotedKeeps
  <2> QED
    BY <1>3, <2>4, <2>5, <2>6, <2>7, <2>8, <2>9 DEF Generic!Progress
<1>4. ASSUME NEW e, Generic!InspectEvidence(e) \/ Generic!RequestEvidence(e)
      PROVE  Kept
  <2>1. /\ Good(scenario, run) /\ run # Generic!NoRun
        /\ run' \in Generic!Inspected(run, e) \/ run' \in Generic!Requested(run, e)
    BY <1>1, <1>4 DEF Generic!InspectEvidence, Generic!RequestEvidence, Generic!Command,
       Generic!MayCommand
  <2> QED
    BY <2>1, InspectedKeeps, RequestedKeeps
<1>5. ASSUME NEW p, Generic!ConsultPolicy(p)
      PROVE  Kept
  <2>1. Good(scenario, run) /\ run # Generic!NoRun /\ run' \in Generic!Consulted(run, p)
    BY <1>1, <1>5 DEF Generic!ConsultPolicy, Generic!Command, Generic!MayCommand
  <2> QED
    BY <2>1, ConsultedKeeps
<1>6. ASSUME Generic!Expire
      PROVE  Kept
  <2> DEFINE l == [run EXCEPT !.expired = TRUE]
  <2>1. Good(scenario, run) /\ run # Generic!NoRun
    BY <1>1, <1>6 DEF Generic!Expire
  <2>2. run' = Generic!Hear(l, {"RUN_TIME_LIMIT_EXCEEDED"})
    BY <1>6 DEF Generic!Expire
  <2>3. Agree(run, l, {"expired"})
    BY <2>1, Untouched, PutAgrees DEF RunFields
  <2> HIDE DEF l
  <2>4. Agree(l, run', {"occurred"})
    <3>1. IsRun(l)
      BY <2>3 DEF Agree
    <3> QED
      BY <2>2, <3>1, HearAgrees
  <2>5. Agree(run, run', Idle)
    BY <2>3, <2>4 DEF Agree, Idle
  <2> QED
    BY <2>1, <2>5, IdleKeeps
<1>7. ASSUME NEW i, Generic!ReleaseIncident(i)
      PROVE  Kept
  <2>1. Good(scenario, run) /\ run # Generic!NoRun
    BY <1>1, <1>7 DEF Generic!ReleaseIncident
  <2> QED
    BY <1>7, <2>1, IncidentKeeps, Zenon DEF Generic!ReleaseIncident
<1>8. ASSUME Generic!ClockPasses
      PROVE  Kept
  <2>1. Good(scenario, run) /\ run # Generic!NoRun /\ run' = run
    BY <1>1, <1>8 DEF Generic!ClockPasses
  <2> QED
    BY <2>1, Same
<1> QED
  BY <1>2, <1>3, <1>4, <1>5, <1>6, <1>7, <1>8
  DEF Generic!Next, Generic!Learner, Generic!Instructor

\* A run that is as it should be is as authored.
LEMMA GoodIsAsAuthored ==
    ASSUME ApprovalsAreSimple, GenericInv
    PROVE  OnlyAsAuthored
<1> SUFFICES ASSUME run # Generic!NoRun
             PROVE  OnlyAsAuthored
  <2>1. run = Generic!NoRun => ~Generic!IsActive(run) /\ run.status # "completed"
    BY DEF Generic!IsActive, Generic!NoRun
  <2> QED
    BY <2>1 DEF OnlyAsAuthored, ExposureIsEarned, CommittedIsApproved,
       Generic!ExposureIsEarned, Generic!CommittedIsApproved, Generic!ApprovalIsComplete
<1>1. Good(scenario, run) /\ Playable(scenario) /\ Generic!ApprovalsAreSimple(scenario)
  BY PlayedIsPlayable DEF GenericInv, ApprovalsAreSimple
<1>2. Generic!ExposureIsEarned
  <2>1. \A e \in run.released : ReleaseIsEarned(scenario, run, e)
    BY <1>1 DEF Good
  <2>2. run.inspected \subseteq run.released
    BY <1>1 DEF Good
  <2>3. \A d \in DOMAIN run.decisions : CitesWhatIsOut(run, d)
    BY <1>1 DEF Good
  <2> QED
    BY <2>1, <2>2, <2>3, OfTheScenario
    DEF Generic!ExposureIsEarned, ReleaseIsEarned, CitesWhatIsOut, Generic!Evidence,
        Generic!Policies
<1>3. Generic!CommittedIsApproved
  <2>1. \A p \in DOMAIN run.committed : CommitIsApproved(scenario, run, p)
    BY <1>1 DEF Good
  <2>2. PassesAreCommitted(run)
    BY <1>1 DEF Good
  <2> QED
    BY <1>1, <2>1, <2>2, SameCount
    DEF Generic!CommittedIsApproved, CommitIsApproved, PassesAreCommitted, Generic!Nodes,
        Generic!Policies
<1>4. Generic!ApprovalIsComplete
  <2>1. ASSUME NEW n \in run.completed \intersect Generic!NodesOf(scenario, "ENDORSEMENT")
        PROVE  LET policy == scenario.policies[scenario.nodes[n].policy]
                   endorsers == EndorsersIn(run, n)
               IN  /\ Generic!ElementsOf(policy.endorsers) \subseteq endorsers
                   /\ endorsers \subseteq Generic!ElementsOf(scenario.nodes[n].roles)
                   /\ Cardinality(endorsers) >= Generic!Max({policy.minimum, 1})
    <3> DEFINE policy == scenario.policies[scenario.nodes[n].policy]
               roles == Generic!ElementsOf(scenario.nodes[n].roles)
               endorsers == EndorsersIn(run, n)
    <3>1. RequiredOf(scenario, n) \subseteq endorsers
      BY <1>1 DEF Good, IsApproved
    <3>2. endorsers \subseteq roles
      <4>1. \A e \in run.endorsements : EndorsementIsValid(scenario, e)
        BY <1>1 DEF Good
      <4> QED
        BY <4>1 DEF EndorsersIn, EndorsementIsValid
    <3>3. IsFiniteSet(roles)
      BY <1>1, ListCounts DEF Playable, Generic!IsWellFormed
    <3>4. IsFiniteSet(endorsers)
      BY <3>2, <3>3, FS_Subset
    <3>5. /\ Generic!ElementsOf(policy.endorsers) \subseteq RequiredOf(scenario, n)
          /\ Cardinality(RequiredOf(scenario, n)) >= policy.minimum
          /\ Cardinality(RequiredOf(scenario, n)) >= 1
          /\ policy.minimum \in Nat /\ IsFiniteSet(RequiredOf(scenario, n))
      BY <1>1, RequiredCount
    <3> HIDE DEF policy, roles, endorsers
    <3>6. /\ Cardinality(RequiredOf(scenario, n)) <= Cardinality(endorsers)
          /\ Cardinality(endorsers) \in Nat /\ Cardinality(RequiredOf(scenario, n)) \in Nat
      BY <3>1, <3>4, <3>5, FS_Subset, FS_CardinalityType
    <3>7. Cardinality(endorsers) >= policy.minimum /\ Cardinality(endorsers) >= 1
      BY <3>5, <3>6
    <3>8. Cardinality(endorsers) >= Generic!Max({policy.minimum, 1})
      BY <3>5, <3>6, <3>7, GreatestOfTwo
    <3> QED
      BY <3>1, <3>2, <3>5, <3>8 DEF policy, roles, endorsers
  <2> QED
    BY <2>1, OfTheScenario, SameCount DEF Generic!ApprovalIsComplete, Generic!Nodes, Generic!Policies
<1> QED
  BY <1>2, <1>3, <1>4 DEF OnlyAsAuthored, ExposureIsEarned, CommittedIsApproved

LEMMA GenericStarts == RuntimeInit => GenericInv
<1> SUFFICES ASSUME RuntimeInit
             PROVE  GenericInv
  OBVIOUS
<1>1. run = Generic!NoRun /\ (kind = "generic-v1" => scenario \in Generic!Published)
  BY DEF RuntimeInit, NoGeneric, Generic!Init
<1> QED
  BY <1>1 DEF GenericInv

LEMMA GenericKeeps ==
    ASSUME GenericInv, [RuntimeNext]_runtime
    PROVE  GenericInv'
<1>1. CASE GenericRun
  <2>1. kind = "generic-v1" /\ kind' = kind /\ Generic!Next
    BY <1>1 DEF GenericRun, Play
  <2>2. scenario' = scenario
    BY <2>1, Zenon DEF Generic!Next, Generic!Learner, Generic!Instructor, Generic!CreateRun,
       Generic!Progress, Generic!AdvanceWorkflow, Generic!SubmitDecision,
       Generic!CreateProposal, Generic!RecordEndorsement, Generic!AcknowledgeCommunication,
       Generic!SubmitReflection, Generic!InspectEvidence, Generic!RequestEvidence,
       Generic!ConsultPolicy, Generic!Command, Generic!Expire, Generic!ReleaseIncident,
       Generic!ClockPasses
  <2>3. Playable(scenario) /\ scenario \in Generic!Published
    BY <2>1, PlayedIsPlayable DEF GenericInv
  <2>4. run' # Generic!NoRun => Good(scenario, run')
    BY <2>1, <2>3, GenericSteps DEF GenericInv
  <2> QED
    BY <2>1, <2>2, <2>3, <2>4 DEF GenericInv
<1>2. CASE AuditRun \/ TechnicalLab \/ CoffeeRun \/ UNCHANGED runtime
  <2>1. run' = run /\ kind' = kind /\ scenario' = scenario
    BY <1>2 DEF AuditRun, TechnicalLab, CoffeeRun, runtime, Play
  <2> QED
    BY <2>1 DEF GenericInv
<1> QED
  BY <1>1, <1>2 DEF RuntimeNext

\* Whatever a learner does, and whenever an instructor releases an incident, of any
\* library of well-formed scenarios in which no two approvals are about one proposal and
\* one policy: evidence is out because it was given away, asked for where asking is
\* allowed, or carried by an incident, and only such evidence is cited; a proposal is
\* committed only as its policy wants, with as many roles as it wants; and an approval is
\* left only when all the roles it needs have endorsed (submitCommand,
\* validateDecisionRecord, policyEvaluationFor, nextRequiredEndorsementRoleId).
THEOREM RunsAreAsAuthored == ApprovalsAreSimple => (RuntimeSpec => []OnlyAsAuthored)
<1> SUFFICES ASSUME ApprovalsAreSimple
             PROVE  RuntimeSpec => []OnlyAsAuthored
  OBVIOUS
<1>1. GenericInv /\ [RuntimeNext]_runtime => GenericInv'
  BY GenericKeeps
<1>2. GenericInv => OnlyAsAuthored
  BY GoodIsAsAuthored
<1> QED
  BY GenericStarts, <1>1, <1>2, PTL DEF RuntimeSpec

-----------------------------------------------------------------------------
(* Sums over the modules of a laboratory *)

\* f holds the sum of the first k scores, for every k up to n.
Sums(scores, n, f) == f = [k \in 0 .. n |-> IF k = 0 THEN 0 ELSE f[k - 1] + scores[k]]

LEMMA SumsExist ==
    ASSUME NEW scores, NEW n \in Nat
    PROVE  \E f : Sums(scores, n, f)
<1> DEFINE T == {m \in Nat : ~\E f : Sums(scores, m, f)}
<1> SUFFICES ASSUME T # {}
             PROVE  FALSE
  OBVIOUS
<1>1. PICK m \in T : \A y \in T : m <= y
  BY LeastNumber
<1>2. CASE m = 0
  <2> DEFINE f == [k \in 0 .. 0 |-> 0]
  <2>1. f = [k \in 0 .. 0 |-> IF k = 0 THEN 0 ELSE f[k - 1] + scores[k]]
    OBVIOUS
  <2> QED
    BY <1>1, <1>2, <2>1 DEF Sums
<1>3. CASE m # 0
  <2>1. m - 1 \in Nat /\ m - 1 \notin T
    BY <1>1, <1>3
  <2>2. PICK f : f = [k \in 0 .. (m - 1) |-> IF k = 0 THEN 0 ELSE f[k - 1] + scores[k]]
    BY <2>1 DEF Sums
  <2> DEFINE g == [k \in 0 .. m |-> IF k = m THEN f[m - 1] + scores[m] ELSE f[k]]
  <2>3. ASSUME NEW k \in 0 .. m
        PROVE  g[k] = IF k = 0 THEN 0 ELSE g[k - 1] + scores[k]
    <3>1. CASE k = m
      BY <1>3, <2>1, <3>1
    <3>2. CASE k # m
      <4>1. k \in 0 .. (m - 1) /\ (k # 0 => k - 1 \in 0 .. (m - 1))
        BY <3>2
      <4>2. f[k] = IF k = 0 THEN 0 ELSE f[k - 1] + scores[k]
        BY <2>2, <4>1
      <4> QED
        BY <3>2, <4>1, <4>2
    <3> QED
      BY <3>1, <3>2
  <2>4. g = [k \in 0 .. m |-> IF k = 0 THEN 0 ELSE g[k - 1] + scores[k]]
    BY <2>3
  <2> QED
    BY <1>1, <2>1, <2>4 DEF Sums
<1> QED
  BY <1>2, <1>3

\* Scores that are higher module by module are higher together, and are as high only
\* if they are the same.
LEMMA SumsCompare ==
    ASSUME NEW n \in Nat, NEW s, NEW t, NEW f, NEW g, Sums(s, n, f), Sums(t, n, g),
           \A k \in 1 .. n : s[k] \in Nat /\ t[k] \in Nat /\ s[k] <= t[k]
    PROVE  /\ f[n] \in Nat /\ g[n] \in Nat /\ f[n] <= g[n]
           /\ f[n] = g[n] <=> \A k \in 1 .. n : s[k] = t[k]
<1> DEFINE Compare(k) ==
               /\ f[k] \in Nat /\ g[k] \in Nat /\ f[k] <= g[k]
               /\ f[k] = g[k] <=> \A i \in 1 .. k : s[i] = t[i]
           T == {k \in 0 .. n : ~Compare(k)}
<1> SUFFICES ASSUME T # {}
             PROVE  FALSE
  OBVIOUS
<1>1. PICK k \in T : \A y \in T : k <= y
  <2>1. T \subseteq Nat
    OBVIOUS
  <2> QED
    BY <2>1, LeastNumber
<1>2. \A i \in 0 .. n : /\ f[i] = IF i = 0 THEN 0 ELSE f[i - 1] + s[i]
                        /\ g[i] = IF i = 0 THEN 0 ELSE g[i - 1] + t[i]
  BY DEF Sums
<1>3. k # 0
  <2>1. Compare(0)
    BY <1>2
  <2> QED
    BY <1>1, <2>1
<1>4. k - 1 \in 0 .. n /\ k - 1 \notin T /\ k \in 1 .. n
  BY <1>1, <1>3
<1>5. Compare(k - 1)
  BY <1>4
<1>6. /\ f[k] = f[k - 1] + s[k] /\ g[k] = g[k - 1] + t[k]
      /\ s[k] \in Nat /\ t[k] \in Nat /\ s[k] <= t[k]
  BY <1>2, <1>4
<1>7. 1 .. k = 1 .. (k - 1) \union {k}
  BY <1>4
<1>8. f[k] \in Nat /\ g[k] \in Nat /\ f[k] <= g[k]
  BY <1>5, <1>6
<1>9. f[k] = g[k] <=> f[k - 1] = g[k - 1] /\ s[k] = t[k]
  BY <1>5, <1>6
<1>10. Compare(k)
  BY <1>5, <1>7, <1>8, <1>9
<1> QED
  BY <1>1, <1>10

LEMMA SumCompares ==
    ASSUME NEW s, NEW t,
           \A i \in Lab!Indexes : s[i] \in Nat /\ t[i] \in Nat /\ s[i] <= t[i]
    PROVE  /\ Lab!SumOf(s) \in Nat /\ Lab!SumOf(t) \in Nat /\ Lab!SumOf(s) <= Lab!SumOf(t)
           /\ Lab!SumOf(s) = Lab!SumOf(t) <=> \A i \in Lab!Indexes : s[i] = t[i]
<1> DEFINE n == Len(Modules)
           f == CHOOSE h : Sums(s, n, h)
           g == CHOOSE h : Sums(t, n, h)
<1>1. n \in Nat /\ Lab!Indexes = 1 .. n
  BY ModulesAre
<1>2. Lab!SumOf(s) = f[n] /\ Lab!SumOf(t) = g[n]
  BY DEF Lab!SumOf, Sums
<1> HIDE DEF n
<1>3. Sums(s, n, f) /\ Sums(t, n, g)
  BY <1>1, SumsExist
<1> HIDE DEF f, g
<1> QED
  BY <1>1, <1>2, <1>3, SumsCompare

-----------------------------------------------------------------------------
(* The score of a laboratory *)

LEMMA LesserOf ==
    ASSUME NEW a \in Nat, NEW b \in Nat
    PROVE  Lab!Min({a, b}) = IF a <= b THEN a ELSE b
BY DEF Lab!Min

\* What a question's points are worth by now.
LEMMA FractionIs ==
    ASSUME NEW l, LabTypeOK(l), NEW i \in Lab!Indexes, NEW kd \in Lab!Kinds
    PROVE  /\ Lab!Fraction(l, i, kd) \in 0 .. 100
           /\ ~Lab!IsCorrect(l, i, kd) => Lab!Fraction(l, i, kd) = 0
           /\ Lab!Earned(l, i, kd) \in Nat
           /\ ~Lab!IsCorrect(l, i, kd) => Lab!Earned(l, i, kd) = 0
<1> DEFINE tries == Len(Lab!Answers(l, i, kd))
           retries == CASE Lab!IsCorrect(l, i, kd) /\ tries = 1 -> 100
                        [] Lab!IsCorrect(l, i, kd) /\ tries = 2 -> 50
                        [] OTHER -> 0
           ceiling == IF kd = "INTERPRETATION" /\ i \in l.hinted THEN Modules[i].ceiling ELSE 100
           points == Modules[i].points[kd]
<1>0. /\ Modules[i].ceiling \in 0 .. 99
      /\ \A k \in Lab!Kinds : Modules[i].points[k] \in Nat \ {0}
  BY LaboratoryAssumption DEF Lab!ModulesAreSound
<1>1. Modules[i].ceiling \in Nat /\ points \in Nat
  BY <1>0
<1>2. ceiling \in Nat
  BY <1>1
<1>3. /\ retries \in 0 .. 100 /\ retries \in Nat
      /\ ~Lab!IsCorrect(l, i, kd) => retries = 0
  OBVIOUS
<1>4. Lab!Fraction(l, i, kd) = Lab!Min({retries, ceiling})
  BY DEF Lab!Fraction
<1> HIDE DEF retries, ceiling, points
<1>8. Lab!Min({retries, ceiling}) = IF retries <= ceiling THEN retries ELSE ceiling
  BY <1>2, <1>3, LesserOf
<1>5. /\ Lab!Fraction(l, i, kd) \in 0 .. 100
      /\ ~Lab!IsCorrect(l, i, kd) => Lab!Fraction(l, i, kd) = 0
  BY <1>2, <1>3, <1>4, <1>8
<1>6. Lab!Earned(l, i, kd) = Lab!Fraction(l, i, kd) * points
  BY DEF Lab!Earned, points
<1>7. \A a \in 0 .. 100 : a * points \in Nat /\ 0 * points = 0
  BY <1>1
<1> QED
  BY <1>5, <1>6, <1>7

LEMMA ScoreIsNumber ==
    ASSUME NEW l, LabTypeOK(l), NEW i \in Lab!Indexes
    PROVE  Lab!ModuleScore(l, i) \in Nat
<1>1. /\ Lab!Earned(l, i, "INTERPRETATION") \in Nat /\ Lab!Earned(l, i, "APPLICATION") \in Nat
      /\ Modules[i].experiment \in Nat
  BY FractionIs, LaboratoryAssumption DEF Lab!Kinds, Lab!ModulesAreSound
<1> QED
  BY <1>1 DEF Lab!ModuleScore

LEMMA ScoreRises ==
    ASSUME NEW l, NEW m, NEW i \in Lab!Indexes,
           \A kd \in Lab!Kinds : /\ Lab!Earned(l, i, kd) \in Nat /\ Lab!Earned(m, i, kd) \in Nat
                                 /\ Lab!Earned(l, i, kd) <= Lab!Earned(m, i, kd),
           Lab!ExperimentIsComplete(l, i) => Lab!ExperimentIsComplete(m, i)
    PROVE  Lab!ModuleScore(l, i) <= Lab!ModuleScore(m, i)
<1>1. Modules[i].experiment \in Nat
  BY LaboratoryAssumption DEF Lab!ModulesAreSound
<1>2. 100 * Modules[i].experiment \in Nat
  BY <1>1
<1>3. {"INTERPRETATION", "APPLICATION"} \subseteq Lab!Kinds
  BY DEF Lab!Kinds
<1> QED
  BY <1>2, <1>3 DEF Lab!ModuleScore

LEMMA SameEarned ==
    ASSUME NEW l, NEW m, NEW i, NEW kd, Lab!Answers(m, i, kd) = Lab!Answers(l, i, kd),
           i \in m.hinted <=> i \in l.hinted
    PROVE  Lab!Earned(m, i, kd) = Lab!Earned(l, i, kd)
<1>1. Lab!IsCorrect(m, i, kd) <=> Lab!IsCorrect(l, i, kd)
  BY DEF Lab!IsCorrect
<1>2. Lab!Fraction(m, i, kd) = Lab!Fraction(l, i, kd)
  BY <1>1 DEF Lab!Fraction
<1> QED
  BY <1>2 DEF Lab!Earned

LEMMA SameScore ==
    ASSUME NEW l, NEW m, NEW i, SameModule(l, m, i)
    PROVE  Lab!ModuleScore(m, i) = Lab!ModuleScore(l, i)
<1>1. \A kd : Lab!Earned(m, i, kd) = Lab!Earned(l, i, kd)
  BY SameEarned DEF SameModule, Lab!Answers
<1> QED
  BY <1>1 DEF Lab!ModuleScore, Lab!ExperimentIsComplete, SameModule

\* What the modules earn, they earn together.
LEMMA TotalGrows ==
    ASSUME NEW l, NEW m, LabTypeOK(l), LabTypeOK(m), NEW here \in Lab!Indexes,
           \A i \in Lab!Indexes \ {here} : SameModule(l, m, i),
           Lab!ModuleScore(l, here) <= Lab!ModuleScore(m, here)
    PROVE  ~(Lab!TotalScore(m) < Lab!TotalScore(l))
<1> DEFINE s == [i \in Lab!Indexes |-> Lab!ModuleScore(l, i)]
           t == [i \in Lab!Indexes |-> Lab!ModuleScore(m, i)]
<1>1. Lab!TotalScore(l) = Lab!SumOf(s) /\ Lab!TotalScore(m) = Lab!SumOf(t)
  BY DEF Lab!TotalScore
<1>2. \A i \in Lab!Indexes : s[i] \in Nat /\ t[i] \in Nat /\ s[i] <= t[i]
  <2> TAKE i \in Lab!Indexes
  <2>1. s[i] = Lab!ModuleScore(l, i) /\ t[i] = Lab!ModuleScore(m, i)
    OBVIOUS
  <2>2. s[i] \in Nat /\ t[i] \in Nat
    BY <2>1, ScoreIsNumber
  <2>3. i # here => s[i] = t[i]
    BY <2>1, SameScore
  <2> HIDE DEF s, t
  <2> QED
    BY <2>1, <2>2, <2>3
<1> HIDE DEF s, t
<1>3. Lab!SumOf(s) \in Nat /\ Lab!SumOf(t) \in Nat /\ Lab!SumOf(s) <= Lab!SumOf(t)
  BY <1>2, SumCompares
<1> QED
  BY <1>1, <1>3

-----------------------------------------------------------------------------
(* What a laboratory does not take back *)

LEMMA ItselfIsPrefix ==
    ASSUME NEW S, NEW q, q \in Seq(S)
    PROVE  Lab!IsPrefix(q, q)
BY DEF Lab!IsPrefix

LEMMA GrownHasPrefix ==
    ASSUME NEW S, NEW q, q \in Seq(S), NEW x \in S
    PROVE  Lab!IsPrefix(q, Append(q, x))
<1> DEFINE a == SubSeq(q, 1, Len(q))
           b == SubSeq(Append(q, x), 1, Len(q))
<1>1. /\ Len(q) \in Nat /\ Append(q, x) \in Seq(S) /\ Len(Append(q, x)) = Len(q) + 1
      /\ \A i \in 1 .. Len(q) : Append(q, x)[i] = q[i]
  OBVIOUS
<1>2. a \in Seq(S) /\ Len(a) = Len(q) /\ \A i \in 1 .. Len(q) : a[i] = q[i]
  <2>1. Len(q) \in 0 .. Len(q)
    BY <1>1
  <2> QED
    BY <2>1, PrefixFacts
<1>3. b \in Seq(S) /\ Len(b) = Len(q) /\ \A i \in 1 .. Len(q) : b[i] = Append(q, x)[i]
  <2>1. Len(q) \in 0 .. Len(Append(q, x))
    BY <1>1
  <2> QED
    BY <1>1, <2>1, PrefixFacts
<1> HIDE DEF a, b
<1>4. a = b
  BY <1>1, <1>2, <1>3, SeqEqual
<1> QED
  BY <1>1, <1>4 DEF Lab!IsPrefix, a, b

\* What Lab!RecordsAreFinal says of a step.
LabStays ==
    lab # Lab!NoLab =>
        /\ \A i \in 1 .. lab.module - 1 : Lab!ModuleScore(lab', i) = Lab!ModuleScore(lab, i)
        /\ \A i \in Lab!Indexes, kd \in Lab!Kinds :
               Lab!IsPrefix(Lab!Answers(lab, i, kd), Lab!Answers(lab', i, kd))
        /\ Lab!TotalScore(lab') < Lab!TotalScore(lab) =>
               lab'.hinted = lab.hinted \union {lab.module}
        /\ lab.status = "completed" => lab' = lab

LEMMA LabStepStays ==
    ASSUME Ready, LabTypeOK(lab'),
           \A i \in Lab!Indexes \ {lab.module} : SameModule(lab, lab', i),
           \A kd \in Lab!Kinds : Lab!IsPrefix(Lab!Answers(lab, lab.module, kd),
                                             Lab!Answers(lab', lab.module, kd)),
           \/ Lab!ModuleScore(lab, lab.module) <= Lab!ModuleScore(lab', lab.module)
           \/ lab'.hinted = lab.hinted \union {lab.module}
    PROVE  LabStays
<1>1. lab.module \in Lab!Indexes /\ lab.module \in Nat /\ LabTypeOK(lab)
  <2>1. LabTypeOK(lab)
    BY DEF Ready
  <2>2. lab.module \in Lab!Indexes
    BY <2>1 DEF LabTypeOK
  <2> QED
    BY <2>1, <2>2, ModulesAre
<1>2. \A i \in 1 .. lab.module - 1 : Lab!ModuleScore(lab', i) = Lab!ModuleScore(lab, i)
  <2> TAKE i \in 1 .. lab.module - 1
  <2>1. i \in Lab!Indexes \ {lab.module}
    BY <1>1, ModulesAre
  <2> QED
    BY <2>1, SameScore
<1>3. \A i \in Lab!Indexes, kd \in Lab!Kinds :
          Lab!IsPrefix(Lab!Answers(lab, i, kd), Lab!Answers(lab', i, kd))
  <2> TAKE i \in Lab!Indexes, kd \in Lab!Kinds
  <2>1. CASE i # lab.module
    <3>1. Lab!Answers(lab', i, kd) = Lab!Answers(lab, i, kd)
      BY <2>1 DEF SameModule, Lab!Answers
    <3>2. Lab!Answers(lab, i, kd) \in Seq(BOOLEAN)
      BY <1>1, Zenon DEF LabTypeOK, Lab!Answers
    <3> QED
      BY <3>1, <3>2, ItselfIsPrefix
  <2> QED
    BY <2>1
<1>4. Lab!TotalScore(lab') < Lab!TotalScore(lab) =>
          lab'.hinted = lab.hinted \union {lab.module}
  BY <1>1, TotalGrows
<1> QED
  BY <1>2, <1>3, <1>4 DEF LabStays, Ready


\* What a step submits is what is stored, but for the status.
LEMMA SubmittedIsStored ==
    ASSUME NEW l, Lab!Submit(l), l = [f \in LabFields |-> l[f]], l.status = "active", LabInv'
    PROVE  /\ lab'.module = l.module /\ lab'.performed = l.performed
           /\ lab'.responses = l.responses /\ lab'.hinted = l.hinted
           /\ LabTypeOK(lab')
<1>1. /\ lab'.module = l.module /\ lab'.performed = l.performed
      /\ lab'.responses = l.responses /\ lab'.hinted = l.hinted
      /\ lab'.status \in {"active", "completed"}
  BY DEF Lab!Submit, LabFields
<1>2. lab' # Lab!NoLab
  BY <1>1 DEF Lab!NoLab
<1> QED
  BY <1>1, <1>2 DEF LabInv

LEMMA ActionStays ==
    ASSUME LabInv, Lab!PerformAction
    PROVE  LabStays
<1> DEFINE here == lab.module
           l == [lab EXCEPT !.performed[lab.module] = @ + 1]
<1>1. Ready /\ Lab!Submit(l) /\ ~Lab!ExperimentIsComplete(lab, here) /\ LabInv'
  BY ActiveIsReady, ActionKeeps DEF Lab!PerformAction
<1>2. LabTypeOK(lab)
  BY <1>1 DEF Ready
<1>3. here \in Lab!Indexes /\ lab.performed \in [Lab!Indexes -> Nat]
  BY <1>2 DEF LabTypeOK
<1>4. /\ l = [f \in LabFields |-> l[f]] /\ l.status = "active"
      /\ l.responses = lab.responses /\ l.hinted = lab.hinted
      /\ l.performed = [lab.performed EXCEPT ![here] = @ + 1]
  BY <1>1, <1>2 DEF LabTypeOK, LabFields, Ready
<1> HIDE DEF l
<1>5. /\ lab'.responses = lab.responses /\ lab'.hinted = lab.hinted
      /\ lab'.performed = [lab.performed EXCEPT ![here] = @ + 1]
      /\ LabTypeOK(lab')
  BY <1>1, <1>4, SubmittedIsStored
<1>6. \A i \in Lab!Indexes \ {here} : SameModule(lab, lab', i)
  BY <1>3, <1>5 DEF SameModule
<1>7. \A kd \in Lab!Kinds :
          /\ Lab!Answers(lab', here, kd) = Lab!Answers(lab, here, kd)
          /\ Lab!Answers(lab, here, kd) \in Seq(BOOLEAN)
  BY <1>2, <1>3, <1>5 DEF Lab!Answers, LabTypeOK
<1>8. \A kd \in Lab!Kinds : Lab!Earned(lab', here, kd) = Lab!Earned(lab, here, kd)
  BY <1>5, <1>7, SameEarned
<1>9. Lab!ModuleScore(lab, here) <= Lab!ModuleScore(lab', here)
  <2>1. \A kd \in Lab!Kinds : Lab!Earned(lab, here, kd) \in Nat
    BY <1>2, <1>3, FractionIs
  <2>2. \A kd \in Lab!Kinds : /\ Lab!Earned(lab, here, kd) \in Nat /\ Lab!Earned(lab', here, kd) \in Nat
                              /\ Lab!Earned(lab, here, kd) <= Lab!Earned(lab', here, kd)
    BY <1>8, <2>1
  <2> QED
    BY <1>1, <1>3, <2>2, ScoreRises
<1>10. \A kd \in Lab!Kinds : Lab!IsPrefix(Lab!Answers(lab, here, kd), Lab!Answers(lab', here, kd))
  BY <1>7, ItselfIsPrefix
<1> HIDE DEF here
<1> QED
  BY <1>1, <1>5, <1>6, <1>9, <1>10, LabStepStays DEF here

LEMMA ResponseStays ==
    ASSUME LabInv, NEW kd \in Lab!Kinds, NEW right \in BOOLEAN, Lab!SubmitResponse(kd, right)
    PROVE  LabStays
<1> DEFINE here == lab.module
           given == lab.responses[here][kd]
           l == [lab EXCEPT !.responses[lab.module][kd] = Append(@, right)]
<1>1. /\ Ready /\ Lab!Submit(l) /\ LabInv'
      /\ ~Lab!IsTerminal(lab, here, kd)
  BY ActiveIsReady, ResponseKeeps DEF Lab!SubmitResponse
<1>2. LabTypeOK(lab)
  BY <1>1 DEF Ready
<1>3. here \in Lab!Indexes /\ lab.responses \in [Lab!Indexes -> [Lab!Kinds -> Seq(BOOLEAN)]]
  BY <1>2 DEF LabTypeOK
<1>4. /\ l = [f \in LabFields |-> l[f]] /\ l.status = "active"
      /\ l.performed = lab.performed /\ l.hinted = lab.hinted
      /\ l.responses = [lab.responses EXCEPT ![here][kd] = Append(@, right)]
  BY <1>1, <1>2 DEF LabTypeOK, LabFields, Ready
<1> HIDE DEF l
<1>5. /\ lab'.performed = lab.performed /\ lab'.hinted = lab.hinted
      /\ lab'.responses = [lab.responses EXCEPT ![here][kd] = Append(@, right)]
      /\ LabTypeOK(lab')
  BY <1>1, <1>4, SubmittedIsStored
<1>6. lab.responses[here] \in [Lab!Kinds -> Seq(BOOLEAN)] /\ given \in Seq(BOOLEAN)
  BY <1>3
<1>7. /\ lab'.responses[here] = [lab.responses[here] EXCEPT ![kd] = Append(given, right)]
      /\ \A i \in Lab!Indexes \ {here} : lab'.responses[i] = lab.responses[i]
  BY <1>3, <1>5
<1>8. \A i \in Lab!Indexes \ {here} : SameModule(lab, lab', i)
  BY <1>5, <1>7 DEF SameModule
<1>9. /\ Lab!Answers(lab, here, kd) = given
      /\ Lab!Answers(lab', here, kd) = Append(given, right)
      /\ \A k \in Lab!Kinds \ {kd} : /\ Lab!Answers(lab', here, k) = Lab!Answers(lab, here, k)
                                     /\ Lab!Answers(lab, here, k) \in Seq(BOOLEAN)
  BY <1>6, <1>7 DEF Lab!Answers
<1>10. \A k \in Lab!Kinds : Lab!IsPrefix(Lab!Answers(lab, here, k), Lab!Answers(lab', here, k))
  <2> TAKE k \in Lab!Kinds
  <2>1. CASE k = kd
    BY <2>1, <1>6, <1>9, GrownHasPrefix
  <2>2. CASE k # kd
    BY <2>2, <1>9, ItselfIsPrefix
  <2> QED
    BY <2>1, <2>2
\* A question that is still open has earned nothing.
<1>11. \A k \in Lab!Kinds : /\ Lab!Earned(lab, here, k) \in Nat /\ Lab!Earned(lab', here, k) \in Nat
                            /\ Lab!Earned(lab, here, k) <= Lab!Earned(lab', here, k)
  <2> TAKE k \in Lab!Kinds
  <2>1. Lab!Earned(lab, here, k) \in Nat /\ Lab!Earned(lab', here, k) \in Nat
    BY <1>2, <1>3, <1>5, FractionIs
  <2>2. CASE k = kd
    <3>1. ~Lab!IsCorrect(lab, here, k)
      BY <1>1, <2>2 DEF Lab!IsTerminal
    <3>2. Lab!Earned(lab, here, k) = 0
      BY <1>2, <1>3, <3>1, FractionIs
    <3> QED
      BY <2>1, <3>2
  <2>3. CASE k # kd
    <3>1. Lab!Earned(lab', here, k) = Lab!Earned(lab, here, k)
      BY <1>5, <1>9, <2>3, SameEarned
    <3> QED
      BY <2>1, <3>1
  <2> QED
    BY <2>2, <2>3
<1>12. Lab!ModuleScore(lab, here) <= Lab!ModuleScore(lab', here)
  <2>1. Lab!ExperimentIsComplete(lab', here) <=> Lab!ExperimentIsComplete(lab, here)
    BY <1>5 DEF Lab!ExperimentIsComplete
  <2> QED
    BY <1>3, <1>11, <2>1, ScoreRises
<1> HIDE DEF here
<1> QED
  BY <1>1, <1>5, <1>8, <1>10, <1>12, LabStepStays DEF here

LEMMA HintStays ==
    ASSUME LabInv, NEW i0, Lab!OpenHint(i0)
    PROVE  LabStays
<1> DEFINE here == lab.module
           l == [lab EXCEPT !.hinted = @ \union {i0}]
<1>1. Ready /\ Lab!Submit(l) /\ LabInv' /\ i0 = here
  BY ActiveIsReady, HintKeeps DEF Lab!OpenHint, Lab!MayOpenHint
<1>2. LabTypeOK(lab)
  BY <1>1 DEF Ready
<1>3. here \in Lab!Indexes
  BY <1>2 DEF LabTypeOK
<1>4. /\ l = [f \in LabFields |-> l[f]] /\ l.status = "active"
      /\ l.performed = lab.performed /\ l.responses = lab.responses
      /\ l.hinted = lab.hinted \union {here}
  BY <1>1, <1>2 DEF LabTypeOK, LabFields, Ready
<1> HIDE DEF l
<1>5. /\ lab'.performed = lab.performed /\ lab'.responses = lab.responses
      /\ lab'.hinted = lab.hinted \union {here}
      /\ LabTypeOK(lab')
  BY <1>1, <1>4, SubmittedIsStored
<1>6. \A i \in Lab!Indexes \ {here} : SameModule(lab, lab', i)
  BY <1>5 DEF SameModule
<1>7. \A kd \in Lab!Kinds :
          /\ Lab!Answers(lab', here, kd) = Lab!Answers(lab, here, kd)
          /\ Lab!Answers(lab, here, kd) \in Seq(BOOLEAN)
  BY <1>2, <1>3, <1>5 DEF Lab!Answers, LabTypeOK
<1>8. \A kd \in Lab!Kinds : Lab!IsPrefix(Lab!Answers(lab, here, kd), Lab!Answers(lab', here, kd))
  BY <1>7, ItselfIsPrefix
<1> HIDE DEF here
<1> QED
  BY <1>1, <1>5, <1>6, <1>8, LabStepStays DEF here

LEMMA AdvanceStays ==
    ASSUME LabInv, Lab!AdvanceModule
    PROVE  LabStays
<1> DEFINE here == lab.module
           l == [lab EXCEPT !.module = @ + 1]
<1>1. Ready /\ Lab!Submit(l) /\ LabInv'
  BY ActiveIsReady, AdvanceKeeps DEF Lab!AdvanceModule
<1>2. LabTypeOK(lab)
  BY <1>1 DEF Ready
<1>3. here \in Lab!Indexes
  BY <1>2 DEF LabTypeOK
<1>4. /\ l = [f \in LabFields |-> l[f]] /\ l.status = "active"
      /\ l.performed = lab.performed /\ l.responses = lab.responses /\ l.hinted = lab.hinted
  BY <1>1, <1>2 DEF LabTypeOK, LabFields, Ready
<1> HIDE DEF l
<1>5. /\ lab'.performed = lab.performed /\ lab'.responses = lab.responses
      /\ lab'.hinted = lab.hinted /\ LabTypeOK(lab')
  BY <1>1, <1>4, SubmittedIsStored
<1>6. \A i : SameModule(lab, lab', i)
  BY <1>5 DEF SameModule
<1>7. \A kd \in Lab!Kinds :
          /\ Lab!Answers(lab', here, kd) = Lab!Answers(lab, here, kd)
          /\ Lab!Answers(lab, here, kd) \in Seq(BOOLEAN)
  BY <1>2, <1>3, <1>5 DEF Lab!Answers, LabTypeOK
<1>8. \A kd \in Lab!Kinds : Lab!IsPrefix(Lab!Answers(lab, here, kd), Lab!Answers(lab', here, kd))
  BY <1>7, ItselfIsPrefix
<1>9. Lab!ModuleScore(lab, here) \in Nat /\ Lab!ModuleScore(lab', here) = Lab!ModuleScore(lab, here)
  BY <1>2, <1>3, <1>6, ScoreIsNumber, SameScore
<1>10. Lab!ModuleScore(lab, here) <= Lab!ModuleScore(lab', here)
  BY <1>9
<1> HIDE DEF here
<1> QED
  BY <1>1, <1>5, <1>6, <1>8, <1>10, LabStepStays DEF here

\* A laboratory that no step touches is as it was.
LEMMA LabRests ==
    ASSUME LabInv, lab' = lab
    PROVE  LabStays
<1> SUFFICES ASSUME lab # Lab!NoLab
             PROVE  LabStays
  BY DEF LabStays
<1>1. LabTypeOK(lab)
  BY DEF LabInv
<1>2. 1 \in Lab!Indexes
  BY ModulesAre
<1>3. \A i \in Lab!Indexes, kd \in Lab!Kinds :
          Lab!IsPrefix(Lab!Answers(lab, i, kd), Lab!Answers(lab, i, kd))
  <2> TAKE i \in Lab!Indexes, kd \in Lab!Kinds
  <2>1. Lab!Answers(lab, i, kd) \in Seq(BOOLEAN)
    BY <1>1 DEF LabTypeOK, Lab!Answers
  <2> QED
    BY <2>1, ItselfIsPrefix
<1>4. ~(Lab!TotalScore(lab) < Lab!TotalScore(lab))
  <2>1. Lab!ModuleScore(lab, 1) \in Nat
    BY <1>1, <1>2, ScoreIsNumber
  <2>2. Lab!ModuleScore(lab, 1) <= Lab!ModuleScore(lab, 1)
    BY <2>1
  <2> QED
    BY <1>1, <1>2, <2>2, TotalGrows DEF SameModule
<1> QED
  BY <1>3, <1>4 DEF LabStays

LEMMA LabNextStays ==
    ASSUME LabInv, [Lab!Next]_lab
    PROVE  LabStays
<1>1. Lab!CreateRun => LabStays
  BY DEF Lab!CreateRun, LabStays
<1> QED
  BY <1>1, ActionStays, ResponseStays, HintStays, AdvanceStays, LabRests
  DEF Lab!Next, Lab!Respond

-----------------------------------------------------------------------------
(* What a run of a scenario does not take back *)

\* What Generic!RecordsAreFinal and Generic!LateChangesNothing say of a step.
GenericIsFinal ==
    /\ run # Generic!NoRun =>
           /\ Generic!Extends(run.decisions, run'.decisions)
           /\ Generic!Extends(run.proposals, run'.proposals)
           /\ Generic!Extends(run.committed, run'.committed)
           /\ Generic!Extends(run.chances, run'.chances)
           /\ run.endorsements \subseteq run'.endorsements
           /\ Generic!IsPrefix(run.evaluations, run'.evaluations)
           /\ run.status = "completed" => run' = run
    /\ overdue /\ run' # run =>
           \/ ~run.expired /\ run' = [run EXCEPT !.expired = TRUE, !.occurred = run'.occurred]
           \/ run' = [run EXCEPT !.incidents = run'.incidents, !.released = run'.released,
                                 !.occurred = run'.occurred]

LEMMA LongerHasPrefix ==
    ASSUME NEW q, NEW t, Generic!IsList(q), Generic!IsList(t), Longer(q, t)
    PROVE  Generic!IsPrefix(q, t)
<1> DEFINE S == Generic!ElementsOf(q) \union Generic!ElementsOf(t)
           a == SubSeq(q, 1, Len(q))
           b == SubSeq(t, 1, Len(q))
<1>1. q \in Seq(S) /\ t \in Seq(S)
  <2>1. q \in Seq(Generic!ElementsOf(q)) /\ t \in Seq(Generic!ElementsOf(t))
    BY DEF Generic!IsList
  <2> HIDE DEF S
  <2>2. Generic!ElementsOf(q) \subseteq S /\ Generic!ElementsOf(t) \subseteq S
    BY DEF S
  <2> QED
    BY <2>1, <2>2
<1> HIDE DEF S
<1>2. Len(q) \in 0 .. Len(q) /\ Len(q) \in 0 .. Len(t)
  BY <1>1 DEF Longer
<1>3. a \in Seq(S) /\ Len(a) = Len(q) /\ \A i \in 1 .. Len(q) : a[i] = q[i]
  BY <1>1, <1>2, PrefixFacts
<1>4. b \in Seq(S) /\ Len(b) = Len(q) /\ \A i \in 1 .. Len(q) : b[i] = t[i]
  BY <1>1, <1>2, PrefixFacts
<1> HIDE DEF a, b
<1>5. a = b
  BY <1>1, <1>3, <1>4, SeqEqual DEF Longer
<1> QED
  BY <1>5 DEF Generic!IsPrefix, Longer, a, b

\* After the deadline only that a command came too late is recorded, and an incident.
LEMMA LateGenericStep ==
    ASSUME run # Generic!NoRun, Good(scenario, run), Generic!Next, overdue, run' # run
    PROVE  \/ ~run.expired /\ run' = [run EXCEPT !.expired = TRUE, !.occurred = run'.occurred]
           \/ run' = [run EXCEPT !.incidents = run'.incidents, !.released = run'.released,
                                 !.occurred = run'.occurred]
<1>1. DOMAIN run = RunFields
  BY DEF Good, IsRun
<1>2. CASE Generic!Expire
  <2>1. ~run.expired /\ run' = Generic!Hear([run EXCEPT !.expired = TRUE], {"RUN_TIME_LIMIT_EXCEEDED"})
    BY <1>2 DEF Generic!Expire
  <2>2. run' = [run EXCEPT !.expired = TRUE, !.occurred = run'.occurred]
    BY <1>1, <2>1 DEF Generic!Hear, RunFields
  <2> QED
    BY <2>1, <2>2
<1>3. ASSUME NEW i, Generic!ReleaseIncident(i)
      PROVE  run' = [run EXCEPT !.incidents = run'.incidents, !.released = run'.released,
                                !.occurred = run'.occurred]
  <2> DEFINE v == run.incidents \union {i}
             w == run.released \union scenario.incidents[i].evidence
  <2>1. run' = Generic!Hear([run EXCEPT !.incidents = v, !.released = w],
                            {"INSTRUCTOR_INCIDENT_RELEASED"})
    BY <1>3 DEF Generic!ReleaseIncident
  <2> HIDE DEF v, w
  <2> QED
    BY <1>1, <2>1 DEF Generic!Hear, RunFields
<1> QED
  BY <1>2, <1>3
  DEF Generic!Next, Generic!Learner, Generic!Instructor, Generic!CreateRun,
      Generic!Progress, Generic!AdvanceWorkflow, Generic!SubmitDecision,
      Generic!CreateProposal, Generic!RecordEndorsement, Generic!AcknowledgeCommunication,
      Generic!SubmitReflection, Generic!InspectEvidence, Generic!RequestEvidence,
      Generic!ConsultPolicy, Generic!Command, Generic!MayCommand, Generic!ClockPasses

\* A run that is completed is left alone.
LEMMA CompletedRunRests ==
    ASSUME run # Generic!NoRun, run.status = "completed"
    PROVE  ~Generic!Next
BY DEF Generic!IsActive, Generic!Next, Generic!Learner, Generic!Instructor, Generic!CreateRun,
       Generic!Progress, Generic!AdvanceWorkflow, Generic!SubmitDecision,
       Generic!CreateProposal, Generic!RecordEndorsement, Generic!AcknowledgeCommunication,
       Generic!SubmitReflection, Generic!InspectEvidence, Generic!RequestEvidence,
       Generic!ConsultPolicy, Generic!Command, Generic!MayCommand, Generic!Expire,
       Generic!ReleaseIncident, Generic!ClockPasses

LEMMA GrowthIsFinal ==
    ASSUME Good(scenario, run), Good(scenario, run'), Grows(run, run')
    PROVE  /\ Generic!Extends(run.decisions, run'.decisions)
           /\ Generic!Extends(run.proposals, run'.proposals)
           /\ Generic!Extends(run.committed, run'.committed)
           /\ Generic!Extends(run.chances, run'.chances)
           /\ run.endorsements \subseteq run'.endorsements
           /\ Generic!IsPrefix(run.evaluations, run'.evaluations)
<1>1. Generic!IsList(run.evaluations) /\ Generic!IsList(run'.evaluations)
  BY DEF Good, PassesAreCommitted
<1>2. Longer(run.evaluations, run'.evaluations)
  BY DEF Grows
<1>3. Generic!IsPrefix(run.evaluations, run'.evaluations)
  BY <1>1, <1>2, LongerHasPrefix
<1> QED
  BY <1>3 DEF Grows

LEMMA GenericStepIsFinal ==
    ASSUME Playable(scenario), run # Generic!NoRun => Good(scenario, run),
           run = Generic!NoRun => ~overdue, Generic!Next
    PROVE  GenericIsFinal
<1>1. CASE run = Generic!NoRun
  BY <1>1 DEF GenericIsFinal
<1>2. CASE run # Generic!NoRun
  <2>1. Good(scenario, run) /\ Good(scenario, run') /\ Grows(run, run')
    BY <1>2, GenericSteps
  <2>2. run.status # "completed"
    BY <1>2, CompletedRunRests
  <2> QED
    BY <1>2, <2>1, <2>2, GrowthIsFinal, LateGenericStep DEF GenericIsFinal
<1> QED
  BY <1>1, <1>2

LEMMA GenericRests ==
    ASSUME run # Generic!NoRun => Good(scenario, run), run' = run, scenario' = scenario
    PROVE  GenericIsFinal
<1>1. CASE run = Generic!NoRun
  BY <1>1 DEF GenericIsFinal
<1>2. CASE run # Generic!NoRun
  BY <1>2, GrowthIsFinal, Same DEF GenericIsFinal
<1> QED
  BY <1>1, <1>2

-----------------------------------------------------------------------------
(* What an audit does not take back *)

\* Every finding counts its revisions.
FindingsCount ==
    audit # Audit!NoAudit =>
        \A f \in DOMAIN audit.findings : "revision" \in DOMAIN audit.findings[f]

\* What Audit!RecordsAreFinal and Audit!LateChangesNothing say of a step.
AuditIsFinal ==
    /\ audit # Audit!NoAudit =>
           /\ Audit!RecordIsFinal
           /\ audit.notes \subseteq audit'.notes
           /\ audit.competence \subseteq audit'.competence
           /\ DOMAIN audit' = DOMAIN audit
           /\ audit.status = "completed" => audit' = audit
    /\ overdue /\ audit' # audit =>
           ~audit.expired /\ audit' = [audit EXCEPT !.expired = TRUE]

\* What a step leaves: its records, and an audit.
AuditGoesOn ==
    /\ FindingsCount' /\ AuditIsFinal
    /\ audit # Audit!NoAudit => audit' # Audit!NoAudit

\* What a command of the auditor is given.
AuditOpen == ~overdue /\ audit # Audit!NoAudit /\ audit.status = "active"
             /\ audit = [g \in AuditFields |-> audit[g]] /\ overdue' = overdue

LEMMA AuditCommand ==
    ASSUME AuditInv, Audit!Command
    PROVE  AuditOpen
BY DEF AuditOpen, AuditInv, Audit!Command, Audit!MayCommand, Audit!IsOpen, Audit!NoAudit, Audit!None

LEMMA AnAuditIs ==
    ASSUME NEW a, DOMAIN a = AuditFields
    PROVE  a # Audit!NoAudit
<1>1. "notes" \in AuditFields /\ "notes" # "status"
  BY DEF AuditFields
<1>2. DOMAIN Audit!NoAudit = {"status"}
  BY DEF Audit!NoAudit
<1> QED
  BY <1>1, <1>2

LEMMA FindingsStay ==
    ASSUME AuditOpen, FindingsCount, audit'.findings = audit.findings,
           DOMAIN audit' = DOMAIN audit,
           audit.notes \subseteq audit'.notes, audit.competence \subseteq audit'.competence
    PROVE  AuditGoesOn
<1>1. audit' # Audit!NoAudit
  <2>1. DOMAIN audit = AuditFields
    BY DEF AuditOpen
  <2> QED
    BY <2>1, AnAuditIs
<1> QED
  BY <1>1 DEF AuditGoesOn, AuditOpen, FindingsCount, AuditIsFinal, Audit!RecordIsFinal

LEMMA EntryIsFinal ==
    ASSUME AuditOpen, FindingsCount, NEW f, NEW matter, NEW argument, NEW revision,
           Audit!Enter(f, matter, argument, revision),
           f \in DOMAIN audit.findings =>
               /\ audit.findings[f].status = "SUBMITTED" /\ case.revision
               /\ revision = audit.findings[f].revision + 1
    PROVE  AuditGoesOn
<1> DEFINE new == [matter |-> matter, argument |-> argument, revision |-> revision,
                   status |-> "SUBMITTED"]
<1>1. /\ audit'.findings = [g \in DOMAIN audit.findings \union {f} |->
                              IF g = f THEN new ELSE audit.findings[g]]
      /\ audit'.notes = audit.notes
      /\ audit.competence \subseteq audit'.competence
  BY DEF Audit!Enter, AuditFields, AuditOpen
<1>2. "revision" \in DOMAIN new /\ new.revision = revision
  OBVIOUS
<1> HIDE DEF new
<1>3. FindingsCount'
  BY <1>1, <1>2 DEF FindingsCount, AuditOpen
<1>4. Audit!RecordIsFinal
  BY <1>1, <1>2 DEF Audit!RecordIsFinal
<1>5. audit' # Audit!NoAudit
  <2>1. DOMAIN audit' = AuditFields
    BY DEF Audit!Enter, AuditOpen
  <2> QED
    BY <2>1, AnAuditIs
<1>6. DOMAIN audit' = DOMAIN audit
  BY DEF Audit!Enter, AuditOpen
<1>7. AuditIsFinal
  BY <1>1, <1>4, <1>6 DEF AuditIsFinal, AuditOpen
<1> QED
  BY <1>3, <1>5, <1>7 DEF AuditGoesOn

LEMMA AuditRests ==
    ASSUME FindingsCount, audit' = audit
    PROVE  AuditGoesOn
BY DEF AuditGoesOn, FindingsCount, AuditIsFinal, Audit!RecordIsFinal

LEMMA AuditStepIsFinal ==
    ASSUME AuditInv, FindingsCount, audit = Audit!NoAudit => ~overdue, Audit!Next
    PROVE  AuditGoesOn
<1>1. CASE Audit!CreateRun
  BY <1>1 DEF Audit!CreateRun, AuditGoesOn, FindingsCount, AuditIsFinal
<1>2. ASSUME NEW n \in Audit!Notes, Audit!Note(n) PROVE AuditGoesOn
  <2>1. AuditOpen
    BY <1>2, AuditCommand DEF Audit!Note
  <2>2. audit'.findings = audit.findings /\ audit'.notes = audit.notes \union {n}
        /\ audit'.competence = audit.competence
        /\ DOMAIN audit' = DOMAIN audit
    BY <1>2, <2>1 DEF Audit!Note, AuditOpen, AuditFields
  <2> QED
    BY <2>1, <2>2, FindingsStay
<1>3. ASSUME NEW f \in FindingIds, Audit!SaveDraft(f) PROVE AuditGoesOn
  <2>1. AuditOpen
    BY <1>3, AuditCommand DEF Audit!SaveDraft
  <2>2. audit'.findings = audit.findings /\ audit'.notes = audit.notes
        /\ audit'.competence = audit.competence
        /\ DOMAIN audit' = DOMAIN audit
    BY <1>3, <2>1 DEF Audit!SaveDraft, AuditOpen, AuditFields
  <2> QED
    BY <2>1, <2>2, FindingsStay
<1>4. CASE Audit!Report
  BY <1>4, EntryIsFinal, AuditCommand DEF Audit!Report, Audit!SubmitFinding
<1>5. ASSUME NEW f \in FindingIds, NEW m, NEW q, Audit!AmendFinding(f, m, q)
      PROVE  AuditGoesOn
  <2>1. AuditOpen /\ case.revision /\ f \in Audit!Submitted
    BY <1>5, AuditCommand DEF Audit!AmendFinding, Audit!MayRevise
  <2> QED
    BY <1>5, <2>1, EntryIsFinal DEF Audit!AmendFinding, Audit!Submitted
<1>6. CASE Audit!Conclude
  <2>1. PICK e \in BOOLEAN : Audit!SubmitConclusion(e)
    BY <1>6 DEF Audit!Conclude
  <2>2. AuditOpen
    BY <2>1, AuditCommand DEF Audit!SubmitConclusion
  <2>3. audit'.findings = audit.findings /\ audit'.notes = audit.notes
        /\ audit.competence \subseteq audit'.competence
        /\ DOMAIN audit' = DOMAIN audit
    BY <2>1, <2>2 DEF Audit!SubmitConclusion, AuditOpen, AuditFields
  <2> QED
    BY <2>2, <2>3, FindingsStay
<1>7. ASSUME NEW f \in FindingIds, Audit!WithdrawFinding(f) PROVE AuditGoesOn
  <2>1. AuditOpen /\ case.revision /\ f \in Audit!Submitted
    BY <1>7, AuditCommand DEF Audit!WithdrawFinding, Audit!MayRevise
  <2>2. /\ audit'.notes = audit.notes /\ audit'.competence = audit.competence
        /\ DOMAIN audit' = DOMAIN audit
        /\ audit'.findings = [audit.findings EXCEPT ![f].status = "WITHDRAWN", ![f].revision = @ + 1]
    BY <1>7, <2>1 DEF Audit!WithdrawFinding, AuditFields, AuditOpen
  <2>3. /\ f \in DOMAIN audit.findings /\ audit.findings[f].status = "SUBMITTED"
        /\ "revision" \in DOMAIN audit.findings[f]
    BY <2>1 DEF Audit!Submitted, FindingsCount, AuditOpen
  <2>4. /\ DOMAIN audit'.findings = DOMAIN audit.findings
        /\ audit'.findings[f].revision = audit.findings[f].revision + 1
        /\ "revision" \in DOMAIN audit'.findings[f]
        /\ \A g \in DOMAIN audit.findings \ {f} : audit'.findings[g] = audit.findings[g]
    BY <2>2, <2>3
  <2>5. FindingsCount'
    <3>1. \A g \in DOMAIN audit.findings : "revision" \in DOMAIN audit.findings[g]
      BY <2>1 DEF FindingsCount, AuditOpen
    <3>2. \A g \in DOMAIN audit'.findings : "revision" \in DOMAIN audit'.findings[g]
      <4> TAKE g \in DOMAIN audit'.findings
      <4>1. CASE g = f
        BY <4>1, <2>4
      <4>2. CASE g # f
        BY <4>2, <2>4, <3>1
      <4> QED
        BY <4>1, <4>2
    <3> QED
      BY <3>2 DEF FindingsCount
  <2>6. Audit!RecordIsFinal
    BY <2>1, <2>3, <2>4 DEF Audit!RecordIsFinal
  <2>7. audit' # Audit!NoAudit
    <3>1. DOMAIN audit = AuditFields
      BY <2>1 DEF AuditOpen
    <3> QED
      BY <2>2, <3>1, AnAuditIs
  <2> QED
    BY <2>1, <2>2, <2>5, <2>6, <2>7 DEF AuditGoesOn, AuditIsFinal, AuditOpen
<1>8. CASE Audit!Expire
  <2>1. audit # Audit!NoAudit /\ audit.status = "active" /\ ~audit.expired
        /\ audit' = [audit EXCEPT !.expired = TRUE]
    BY <1>8 DEF Audit!Expire, Audit!IsOpen, Audit!NoAudit, Audit!None
  <2>2. audit'.findings = audit.findings /\ audit'.notes = audit.notes
        /\ audit'.competence = audit.competence
        /\ DOMAIN audit' = DOMAIN audit
    BY <2>1 DEF AuditFields, AuditInv
  <2>3. audit' # Audit!NoAudit
    <3>1. DOMAIN audit = AuditFields
      BY <2>1 DEF AuditInv
    <3> QED
      BY <2>2, <3>1, AnAuditIs
  <2>4. FindingsCount'
    BY <2>1, <2>2 DEF FindingsCount
  <2> QED
    BY <2>1, <2>2, <2>3, <2>4 DEF AuditGoesOn, AuditIsFinal, Audit!RecordIsFinal
<1>9. CASE Audit!ClockPasses
  BY <1>9, AuditRests DEF Audit!ClockPasses
<1> QED
  BY <1>1, <1>2, <1>3, <1>4, <1>5, <1>6, <1>7, <1>8, <1>9 DEF Audit!Next

-----------------------------------------------------------------------------
(* What a coffee journey does not take back *)

\* The answers that are given before a step.
AnsweredBefore(step) ==
    CASE step \in {"certificate-evidence", "certificate-decision"} -> {}
      [] step \in {"certificate-transaction", "custody-proposal"} ->
             {"STORAGE_CHOICE", "ISSUER_CHECK"}
      [] step \in {"custody-endorsement", "custody-commit", "transport-transaction",
                   "receipt-transaction", "ownership-transaction", "discrepancy-decision",
                   "discrepancy-mitigation", "correction-proposal", "correction-endorsement",
                   "correction-commit", "transformation-transaction",
                   "transformation-knowledge"} ->
             {"STORAGE_CHOICE", "ISSUER_CHECK", "CUSTODY_SCOPE"}
      [] step \in {"packaging-transaction", "distribution-ownership-transaction",
                   "dispatch-transaction", "tamper-demonstration", "tamper-knowledge"} ->
             {"STORAGE_CHOICE", "ISSUER_CHECK", "CUSTODY_SCOPE", "TRANSFORMATION_PROVENANCE"}
      [] step = "data-governance-decision" ->
             {"STORAGE_CHOICE", "ISSUER_CHECK", "CUSTODY_SCOPE", "TRANSFORMATION_PROVENANCE",
              "TAMPER_DEMONSTRATION"}
      [] step = "recall-scope-decision" ->
             {"STORAGE_CHOICE", "ISSUER_CHECK", "CUSTODY_SCOPE", "TRANSFORMATION_PROVENANCE",
              "TAMPER_DEMONSTRATION", "DATA_GOVERNANCE"}
      [] step \in {"recall-transaction", "recall-handoff", "recall-authorized-transaction",
                   "blockchain-necessity-decision"} ->
             {"STORAGE_CHOICE", "ISSUER_CHECK", "CUSTODY_SCOPE", "TRANSFORMATION_PROVENANCE",
              "TAMPER_DEMONSTRATION", "DATA_GOVERNANCE", "RECALL_SCOPE"}
      [] step = "complete" ->
             {"STORAGE_CHOICE", "ISSUER_CHECK", "CUSTODY_SCOPE", "TRANSFORMATION_PROVENANCE",
              "TAMPER_DEMONSTRATION", "DATA_GOVERNANCE", "RECALL_SCOPE", "BLOCKCHAIN_NECESSITY"}

\* No question is answered before the journey has come to it.
AnswersInOrder ==
    journey # Coffee!NoJourney => DOMAIN journey.answers \subseteq AnsweredBefore(journey.step)

\* What Coffee!RecordsAreFinal and Coffee!LateChangesNothing say of a step.
CoffeeIsFinal ==
    /\ journey # Coffee!NoJourney =>
           /\ Coffee!IsPrefix(journey.chain, journey'.chain)
           /\ Coffee!IsPrefix(journey.refused, journey'.refused)
           /\ journey.evidence \subseteq journey'.evidence
           /\ \A d \in DOMAIN journey.answers :
                  d \in DOMAIN journey'.answers /\ journey'.answers[d] = journey.answers[d]
           /\ journey.status = "completed" => journey' = journey
    /\ overdue /\ journey' # journey =>
           ~journey.expired /\ journey' = [journey EXCEPT !.expired = TRUE]

\* What a step leaves: its records, its answers in order, and a journey.
CoffeeGoesOn ==
    /\ AnswersInOrder' /\ CoffeeIsFinal
    /\ journey # Coffee!NoJourney => journey' # Coffee!NoJourney

LEMMA RowHasPrefix ==
    ASSUME NEW S, NEW q, q \in Seq(S), NEW n \in 0 .. Len(q), NEW m \in 0 .. Len(q), n <= m
    PROVE  Coffee!IsPrefix(SubSeq(q, 1, n), SubSeq(q, 1, m))
<1> DEFINE a == SubSeq(q, 1, n)
           b == SubSeq(q, 1, m)
           c == SubSeq(a, 1, n)
           d == SubSeq(b, 1, n)
<1>1. a \in Seq(S) /\ Len(a) = n /\ \A i \in 1 .. n : a[i] = q[i]
  BY PrefixFacts
<1>2. b \in Seq(S) /\ Len(b) = m /\ \A i \in 1 .. m : b[i] = q[i]
  BY PrefixFacts
<1> HIDE DEF a, b
<1>3. n \in 0 .. Len(a) /\ n \in 0 .. Len(b) /\ n \in Nat
  BY <1>1, <1>2
<1>4. c \in Seq(S) /\ Len(c) = n /\ \A i \in 1 .. n : c[i] = a[i]
  BY <1>1, <1>3, PrefixFacts
<1>5. d \in Seq(S) /\ Len(d) = n /\ \A i \in 1 .. n : d[i] = b[i]
  BY <1>2, <1>3, PrefixFacts
<1> HIDE DEF c, d
<1>6. c = d
  BY <1>1, <1>2, <1>3, <1>4, <1>5, SeqEqual
<1> QED
  BY <1>1, <1>2, <1>6 DEF Coffee!IsPrefix, a, b, c, d

LEMMA AppendHasPrefix ==
    ASSUME NEW S, NEW q, q \in Seq(S), NEW x
    PROVE  Coffee!IsPrefix(q, q) /\ Coffee!IsPrefix(q, Append(q, x))
<1> DEFINE T == S \union {x}
           a == SubSeq(q, 1, Len(q))
           b == SubSeq(Append(q, x), 1, Len(q))
<1>0. q \in Seq(T) /\ x \in T
  OBVIOUS
<1> HIDE DEF T
<1>1. /\ Len(q) \in Nat /\ Append(q, x) \in Seq(T) /\ Len(Append(q, x)) = Len(q) + 1
      /\ \A i \in 1 .. Len(q) : Append(q, x)[i] = q[i]
  BY <1>0
<1>2. a \in Seq(T) /\ Len(a) = Len(q) /\ \A i \in 1 .. Len(q) : a[i] = q[i]
  <2>1. Len(q) \in 0 .. Len(q)
    BY <1>1
  <2> QED
    BY <2>1, <1>0, PrefixFacts
<1>3. b \in Seq(T) /\ Len(b) = Len(q) /\ \A i \in 1 .. Len(q) : b[i] = Append(q, x)[i]
  <2>1. Len(q) \in 0 .. Len(Append(q, x))
    BY <1>1
  <2> QED
    BY <1>1, <2>1, PrefixFacts
<1> HIDE DEF a, b
<1>4. a = b
  BY <1>1, <1>2, <1>3, SeqEqual
<1> QED
  BY <1>1, <1>4 DEF Coffee!IsPrefix, a, b

-----------------------------------------------------------------------------

\* l has what j has, and the answers of D at most.
Grew(j, l, D) ==
    /\ StandsAs(j, l)
    /\ j.evidence \subseteq l.evidence
    /\ DOMAIN j.answers \subseteq DOMAIN l.answers
    /\ DOMAIN l.answers \subseteq DOMAIN j.answers \union D
    /\ \A d \in DOMAIN j.answers \ D : l.answers[d] = j.answers[d]

LEMMA ItselfGrew ==
    ASSUME NEW j, j = [f \in JourneyFields |-> j[f]]
    PROVE  Grew(j, j, {})
BY DEF Grew, StandsAs

LEMMA GrewOn ==
    ASSUME NEW j, NEW l, NEW m, NEW D, NEW E, Grew(j, l, D), Grew(l, m, E)
    PROVE  Grew(j, m, D \union E)
BY DEF Grew, StandsAs

LEMMA ObserveGrew ==
    ASSUME NEW j, j = [f \in JourneyFields |-> j[f]], NEW rules
    PROVE  Grew(j, Coffee!Observe(j, rules), {})
<1> DEFINE e == j.evidence \union rules
           l == [j EXCEPT !.evidence = e]
<1>1. Coffee!Observe(j, rules) = l
  BY DEF Coffee!Observe
<1>2. StandsAs(j, l)
  BY <1>1, ObserveStands
<1>3. j.evidence \subseteq e
  OBVIOUS
<1> HIDE DEF e
<1>4. l.evidence = e /\ l.answers = j.answers
  BY DEF JourneyFields
<1> QED
  BY <1>1, <1>2, <1>3, <1>4 DEF Grew

LEMMA AnswerGrew ==
    ASSUME NEW j, j = [f \in JourneyFields |-> j[f]], NEW d, NEW c
    PROVE  Grew(j, Coffee!Answer(j, d, c), {d})
<1> DEFINE a == [x \in DOMAIN j.answers \union {d} |-> IF x = d THEN c ELSE j.answers[x]]
           l == [j EXCEPT !.answers = a]
<1>1. Coffee!Answer(j, d, c) = l
  BY DEF Coffee!Answer
<1>2. StandsAs(j, l)
  BY <1>1, AnswerStands
<1>3. /\ DOMAIN a = DOMAIN j.answers \union {d}
      /\ \A x \in DOMAIN j.answers \ {d} : a[x] = j.answers[x]
  OBVIOUS
<1> HIDE DEF a
<1>4. l.evidence = j.evidence /\ l.answers = a
  BY DEF JourneyFields
<1> QED
  BY <1>1, <1>2, <1>3, <1>4 DEF Grew

LEMMA RecogniseGrew ==
    ASSUME NEW j, j = [f \in JourneyFields |-> j[f]], NEW d, NEW c, NEW rule
    PROVE  Grew(j, Coffee!Recognise(j, d, c, rule), {d})
<1> DEFINE a == Coffee!Answer(j, d, c)
           rules == IF c THEN {rule} ELSE {}
<1>1. Grew(j, a, {d})
  BY AnswerGrew
<1>2. Coffee!Recognise(j, d, c, rule) = Coffee!Observe(a, rules)
  BY DEF Coffee!Recognise
<1> HIDE DEF a, rules
<1>3. Grew(a, Coffee!Observe(a, rules), {})
  BY <1>1, ObserveGrew DEF Grew, StandsAs
<1>4. Grew(j, Coffee!Observe(a, rules), {d} \union {})
  BY <1>1, <1>3, GrewOn
<1> QED
  BY <1>2, <1>4

-----------------------------------------------------------------------------

\* A command that brings the journey to the step t answers the questions of D at most.
Moves(t, D) ==
    /\ journey'.status \in {"active", "completed"} /\ journey'.step = t
    /\ journey'.refused = journey.refused
       \/ \E x : journey'.refused = Append(journey.refused, x)
    /\ journey.evidence \subseteq journey'.evidence
    /\ DOMAIN journey.answers \subseteq DOMAIN journey'.answers
    /\ DOMAIN journey'.answers \subseteq DOMAIN journey.answers \union D
    /\ \A d \in DOMAIN journey.answers \ D : journey'.answers[d] = journey.answers[d]

LEMMA GoneMoves ==
    ASSUME NEW s, NEW r, NEW n, Stands(s, r, n), NEW l, NEW D, Grew(journey, l, D),
           NEW next, NEW role, journey' = Coffee!GoTo(l, next, role)
    PROVE  Moves(next, D)
BY DEF Moves, Stands, StandsAs, Grew, Coffee!GoTo, JourneyFields

\* The ledger of a later step begins with that of an earlier one.
LedgerGoesOn(n, t) == \A x, k : <<t, x, k>> \in Stations => n <= k

LEMMA MoveIsFinal ==
    ASSUME NEW s, NEW r, NEW n, Stands(s, r, n), NEW t, NEW D, Moves(t, D), CoffeeInv',
           AnswersInOrder, ~overdue,
           LedgerGoesOn(n, t) \/ journey'.chain = journey.chain,
           AnsweredBefore(s) \intersect D = {}, AnsweredBefore(s) \union D \subseteq AnsweredBefore(t)
    PROVE  CoffeeGoesOn
<1>1. journey' # Coffee!NoJourney
  BY DEF Moves, Coffee!NoJourney
<1>2. PICK m \in 0 .. 13 : StandsAt(journey', m)
  BY <1>1 DEF CoffeeInv
<1>3. Coffee!Script \in Seq(Transactions) /\ Len(Coffee!Script) = 13 /\ n \in 0 .. 13
  BY ScriptIs DEF Stands
<1>4. Coffee!IsPrefix(journey.chain, journey'.chain)
  <2>1. CASE LedgerGoesOn(n, t)
    <3>1. n <= m
      BY <1>2, <2>1 DEF LedgerGoesOn, StandsAt, Moves
    <3>2. /\ journey.chain = SubSeq(Coffee!Script, 1, n)
          /\ journey'.chain = SubSeq(Coffee!Script, 1, m)
      BY <1>2 DEF StandsAt, Stands, Coffee!Written
    <3> QED
      BY <1>2, <1>3, <3>1, <3>2, RowHasPrefix
  <2>2. CASE journey'.chain = journey.chain
    <3>1. journey.chain = SubSeq(Coffee!Script, 1, n)
      BY DEF Stands, Coffee!Written
    <3>2. n <= n
      BY <1>3
    <3> QED
      BY <1>3, <2>2, <3>1, <3>2, RowHasPrefix
  <2> QED
    BY <2>1, <2>2
<1>5. Coffee!IsPrefix(journey.refused, journey'.refused)
  <2>1. journey.refused \in Seq(MayBeRefused)
    BY DEF Stands
  <2>2. CASE journey'.refused = journey.refused
    BY <2>1, <2>2, AppendHasPrefix
  <2>3. ASSUME NEW x, journey'.refused = Append(journey.refused, x)
        PROVE  Coffee!IsPrefix(journey.refused, journey'.refused)
    BY <2>1, <2>3, AppendHasPrefix
  <2> QED
    BY <2>2, <2>3 DEF Moves
<1>6. DOMAIN journey.answers \subseteq AnsweredBefore(s)
  BY DEF AnswersInOrder, Stands
<1>7. AnswersInOrder'
  BY <1>6 DEF AnswersInOrder, Moves
<1>8. \A d \in DOMAIN journey.answers :
          d \in DOMAIN journey'.answers /\ journey'.answers[d] = journey.answers[d]
  BY <1>6 DEF Moves
<1>9. journey.status # "completed" /\ journey.evidence \subseteq journey'.evidence
  BY DEF Stands, Moves
<1> QED
  BY <1>1, <1>4, <1>5, <1>7, <1>8, <1>9 DEF CoffeeGoesOn, CoffeeIsFinal

LEMMA GoingIsFinal ==
    ASSUME NEW s, NEW r, NEW n, Stands(s, r, n), NEW l, NEW D, Grew(journey, l, D),
           NEW t, NEW role, journey' = Coffee!GoTo(l, t, role), CoffeeInv', AnswersInOrder,
           ~overdue, LedgerGoesOn(n, t),
           AnsweredBefore(s) \intersect D = {}, AnsweredBefore(s) \union D \subseteq AnsweredBefore(t)
    PROVE  CoffeeGoesOn
<1>1. Moves(t, D)
  BY GoneMoves
<1> QED
  BY <1>1, MoveIsFinal

\* The commands, by the step they are given at.
LEMMA EvidenceIsFinal ==
    ASSUME CoffeeInv, CoffeeInv', AnswersInOrder, Coffee!InspectEvidence
    PROVE  CoffeeGoesOn
<1> DEFINE s == "certificate-evidence"
           t == "certificate-decision"
           l == Coffee!Observe(journey, {"CERTIFICATE_INSPECTED"})
<1>1. PICK r, n : Stands(s, r, n)
  BY CommandStands DEF Coffee!InspectEvidence
<1>2. Grew(journey, l, {})
  BY <1>1, ObserveGrew DEF Stands
<1>3. journey' = Coffee!GoTo(l, t, journey.context) /\ ~overdue
  BY DEF Coffee!InspectEvidence, Coffee!Command, Coffee!MayCommand
<1> HIDE DEF l
<1>4. LedgerGoesOn(n, t)
  BY <1>1 DEF Stands, Stations, LedgerGoesOn
<1>5. AnsweredBefore(s) \intersect {} = {} /\ AnsweredBefore(s) \union {} \subseteq AnsweredBefore(t)
  BY DEF AnsweredBefore
<1> HIDE DEF s, t
<1> QED
  BY <1>1, <1>2, <1>3, <1>4, <1>5, GoingIsFinal

LEMMA ConsultationIsFinal ==
    ASSUME CoffeeInv, CoffeeInv', AnswersInOrder, NEW p, Coffee!ConsultPolicy(p)
    PROVE  CoffeeGoesOn
<1> DEFINE s == "certificate-decision"
<1>1. PICK r, n : Stands(s, r, n)
  BY CommandStands DEF Coffee!ConsultPolicy
<1>2. ~overdue
  BY DEF Coffee!ConsultPolicy, Coffee!Command, Coffee!MayCommand
<1>3. Moves(s, {}) /\ journey'.chain = journey.chain
  BY <1>1 DEF Coffee!ConsultPolicy, Moves, Stands, JourneyFields
<1> HIDE DEF s
<1> QED
  BY <1>1, <1>2, <1>3, MoveIsFinal

LEMMA CertificateDecisionIsFinal ==
    ASSUME CoffeeInv, CoffeeInv', AnswersInOrder, NEW storage, NEW issuer, NEW cited,
           Coffee!SubmitCertificateDecision(storage, issuer, cited)
    PROVE  CoffeeGoesOn
<1> DEFINE s == "certificate-decision"
           t == "certificate-transaction"
           D == {"STORAGE_CHOICE"} \union {"ISSUER_CHECK"} \union {}
           a == Coffee!Answer(journey, "STORAGE_CHOICE", storage)
           b == Coffee!Answer(a, "ISSUER_CHECK", issuer)
           l == Coffee!Observe(b, {"CERTIFICATE_DECISION_SUBMITTED"})
<1>1. PICK r, n : Stands(s, r, n)
  BY CommandStands DEF Coffee!SubmitCertificateDecision
<1>2. Grew(journey, l, D)
  <2>1. Grew(journey, a, {"STORAGE_CHOICE"})
    BY <1>1, AnswerGrew DEF Stands
  <2> HIDE DEF a
  <2>2. Grew(a, b, {"ISSUER_CHECK"})
    BY <2>1, AnswerGrew DEF Grew, StandsAs
  <2> HIDE DEF b
  <2>3. Grew(b, l, {})
    BY <2>2, ObserveGrew DEF Grew, StandsAs
  <2> HIDE DEF l
  <2> QED
    BY <2>1, <2>2, <2>3, GrewOn
<1>3. journey' = Coffee!GoTo(l, t, journey.context) /\ ~overdue
  BY DEF Coffee!SubmitCertificateDecision, Coffee!Command, Coffee!MayCommand
<1> HIDE DEF l
<1>4. LedgerGoesOn(n, t)
  BY <1>1 DEF Stands, Stations, LedgerGoesOn
<1>5. /\ AnsweredBefore(s) \intersect D = {}
      /\ AnsweredBefore(s) \union D \subseteq AnsweredBefore(t)
  BY DEF AnsweredBefore
<1> HIDE DEF s, t
<1> QED
  BY <1>1, <1>2, <1>3, <1>4, <1>5, GoingIsFinal

LEMMA CertificateTransactionIsFinal ==
    ASSUME CoffeeInv, CoffeeInv', AnswersInOrder, Coffee!SubmitCertificateTransaction
    PROVE  CoffeeGoesOn
<1> DEFINE s == "certificate-transaction"
<1>1. PICK r, n : Stands(s, r, n)
  BY CommandStands DEF Coffee!SubmitCertificateTransaction
<1>2. ~overdue
  BY DEF Coffee!SubmitCertificateTransaction, Coffee!Command, Coffee!MayCommand
<1>3. CASE variant = "authorized" /\ Coffee!IsAccepted("ISSUE_CERTIFICATE")
  <2> DEFINE t == "custody-proposal"
             filed == journey.chain \o <<"ANCHOR_CERTIFICATE", "ISSUE_CERTIFICATE">>
             l == [journey EXCEPT !.chain = filed]
  <2>1. journey' = Coffee!GoTo(l, t, "PRODUCER")
    BY <1>3 DEF Coffee!SubmitCertificateTransaction
  <2> HIDE DEF filed
  <2>2. Moves(t, {})
    BY <1>1, <2>1 DEF Moves, Stands, Coffee!GoTo, JourneyFields
  <2>3. LedgerGoesOn(n, t)
    BY <1>1 DEF Stands, Stations, LedgerGoesOn
  <2>4. AnsweredBefore(s) \subseteq AnsweredBefore(t)
    BY DEF AnsweredBefore
  <2> HIDE DEF s, t
  <2> QED
    BY <1>1, <1>2, <2>2, <2>3, <2>4, MoveIsFinal
<1>4. CASE ~(variant = "authorized" /\ Coffee!IsAccepted("ISSUE_CERTIFICATE"))
  <2> DEFINE t == "complete"
             o == Coffee!Observe(journey, {"UNAUTHORIZED_CERTIFICATE_RECOGNIZED"})
             more == Append(o.refused, "SUSPICIOUS_CERTIFICATE")
             l == [o EXCEPT !.refused = more, !.status = "completed"]
  <2>1. journey' = Coffee!GoTo(l, t, journey.context)
    BY <1>4 DEF Coffee!SubmitCertificateTransaction
  <2>2. Grew(journey, o, {})
    BY <1>1, ObserveGrew DEF Stands
  <2>3. more = Append(journey.refused, "SUSPICIOUS_CERTIFICATE")
    BY <2>2 DEF Grew, StandsAs
  <2> HIDE DEF o, more
  <2>4. /\ l.status = "completed" /\ l.refused = more /\ l.answers = o.answers
        /\ l.evidence = o.evidence /\ l.chain = o.chain
        /\ l = [f \in JourneyFields |-> l[f]]
    BY <2>2 DEF Grew, StandsAs, JourneyFields
  <2> HIDE DEF l
  <2>5. /\ journey'.status = "completed" /\ journey'.step = t /\ journey'.refused = more
        /\ journey'.answers = o.answers /\ journey'.evidence = o.evidence
        /\ journey'.chain = o.chain
    BY <2>1, <2>4 DEF Coffee!GoTo, JourneyFields
  <2>6. Moves(t, {}) /\ journey'.chain = journey.chain
    BY <2>2, <2>3, <2>5 DEF Moves, Grew, StandsAs
  <2>7. AnsweredBefore(s) \subseteq AnsweredBefore(t)
    BY DEF AnsweredBefore
  <2> HIDE DEF s, t
  <2> QED
    BY <1>1, <1>2, <2>6, <2>7, MoveIsFinal
<1> QED
  BY <1>3, <1>4

LEMMA CustodyProposalIsFinal ==
    ASSUME CoffeeInv, CoffeeInv', AnswersInOrder, NEW too \in BOOLEAN,
           Coffee!CreateCustodyProposal(too)
    PROVE  CoffeeGoesOn
<1> DEFINE s == "custody-proposal"
           t == "custody-endorsement"
           l == Coffee!Answer(journey, "CUSTODY_SCOPE", TRUE)
<1>1. PICK r, n : Stands(s, r, n)
  BY CommandStands DEF Coffee!CreateCustodyProposal
<1>2. ~overdue
  BY DEF Coffee!CreateCustodyProposal, Coffee!Command, Coffee!MayCommand
<1>3. CASE too
  <2>1. journey' = [journey EXCEPT !.refused = Append(@, "TRANSFER_CUSTODY")]
    BY <1>3 DEF Coffee!CreateCustodyProposal
  <2>2. Moves(s, {}) /\ journey'.chain = journey.chain
    BY <1>1, <2>1 DEF Moves, Stands, JourneyFields
  <2> HIDE DEF s
  <2> QED
    BY <1>1, <1>2, <2>2, MoveIsFinal
<1>4. CASE ~too
  <2>1. journey' = Coffee!GoTo(l, t, journey.context)
    BY <1>4 DEF Coffee!CreateCustodyProposal
  <2>2. Grew(journey, l, {"CUSTODY_SCOPE"})
    BY <1>1, AnswerGrew DEF Stands
  <2> HIDE DEF l
  <2>3. LedgerGoesOn(n, t)
    BY <1>1 DEF Stands, Stations, LedgerGoesOn
  <2>4. /\ AnsweredBefore(s) \intersect {"CUSTODY_SCOPE"} = {}
        /\ AnsweredBefore(s) \union {"CUSTODY_SCOPE"} \subseteq AnsweredBefore(t)
    BY DEF AnsweredBefore
  <2> HIDE DEF s, t
  <2> QED
    BY <1>1, <1>2, <2>1, <2>2, <2>3, <2>4, GoingIsFinal
<1> QED
  BY <1>3, <1>4

LEMMA CustodyEndorsementIsFinal ==
    ASSUME CoffeeInv, CoffeeInv', AnswersInOrder, Coffee!EndorseCustody
    PROVE  CoffeeGoesOn
<1> DEFINE s == "custody-endorsement"
           t == "custody-commit"
           l == Coffee!Observe(journey, {"CUSTODY_ENDORSEMENT_SATISFIED"})
<1>1. PICK r, n : Stands(s, r, n)
  BY CommandStands DEF Coffee!EndorseCustody
<1>2. Grew(journey, l, {})
  BY <1>1, ObserveGrew DEF Stands
<1>3. journey' = Coffee!GoTo(l, t, "LOGISTICS") /\ ~overdue
  BY DEF Coffee!EndorseCustody, Coffee!Command, Coffee!MayCommand
<1> HIDE DEF l
<1>4. LedgerGoesOn(n, t)
  BY <1>1 DEF Stands, Stations, LedgerGoesOn
<1>5. AnsweredBefore(s) \intersect {} = {} /\ AnsweredBefore(s) \union {} \subseteq AnsweredBefore(t)
  BY DEF AnsweredBefore
<1> HIDE DEF s, t
<1> QED
  BY <1>1, <1>2, <1>3, <1>4, <1>5, GoingIsFinal

LEMMA CustodyCommitIsFinal ==
    ASSUME CoffeeInv, CoffeeInv', AnswersInOrder, Coffee!CommitCustody
    PROVE  CoffeeGoesOn
<1> DEFINE s == "custody-commit"
           t == "transport-transaction"
           filed == Append(journey.chain, "TRANSFER_CUSTODY")
           l == [journey EXCEPT !.chain = filed]
<1>1. PICK r, n : Stands(s, r, n)
  BY CommandStands DEF Coffee!CommitCustody
<1>2. journey' = Coffee!GoTo(l, t, journey.context) /\ ~overdue
  BY DEF Coffee!CommitCustody, Coffee!Command, Coffee!MayCommand
<1> HIDE DEF filed
<1>3. Moves(t, {})
  BY <1>1, <1>2 DEF Moves, Stands, Coffee!GoTo, Coffee!Observe, JourneyFields
<1>4. LedgerGoesOn(n, t)
  BY <1>1 DEF Stands, Stations, LedgerGoesOn
<1>5. AnsweredBefore(s) \subseteq AnsweredBefore(t)
  BY DEF AnsweredBefore
<1> HIDE DEF s, t
<1> QED
  BY <1>1, <1>2, <1>3, <1>4, <1>5, MoveIsFinal

\* A transaction that is turned down leaves the journey where it stands.
LEMMA ExecutionIsFinal ==
    ASSUME CoffeeInv, CoffeeInv', AnswersInOrder, NEW s, NEW t, NEW action, NEW role, NEW rules,
           NEW nextRole, Coffee!Execute(s, action, role, rules, t, nextRole),
           \A n, x : <<s, x, n>> \in Stations => LedgerGoesOn(n, s) /\ LedgerGoesOn(n, t),
           AnsweredBefore(s) \subseteq AnsweredBefore(t)
    PROVE  CoffeeGoesOn
<1>1. PICK r, n : Stands(s, r, n)
  BY CommandStands DEF Coffee!Execute
<1>2. ~overdue /\ LedgerGoesOn(n, s) /\ LedgerGoesOn(n, t)
  BY <1>1 DEF Coffee!Execute, Coffee!Command, Coffee!MayCommand, Stands
<1> DEFINE scripted == Coffee!Scripted(journey.chain)
           filed == Append([journey EXCEPT !.chain = scripted].chain, action)
           more == Append([journey EXCEPT !.chain = scripted].refused, action)
<1>3. CASE Coffee!IsAccepted(action)
  <2>1. journey' = Coffee!GoTo(Coffee!Observe([[journey EXCEPT !.chain = scripted]
                                                  EXCEPT !.chain = filed], rules), t, nextRole)
    BY <1>3 DEF Coffee!Execute
  <2> HIDE DEF scripted, filed
  <2>2. Moves(t, {})
    BY <1>1, <2>1 DEF Moves, Stands, Coffee!GoTo, Coffee!Observe, JourneyFields
  <2> QED
    BY <1>1, <1>2, <2>2, MoveIsFinal
<1>4. CASE ~Coffee!IsAccepted(action)
  <2>1. journey' = [[journey EXCEPT !.chain = scripted] EXCEPT !.refused = more]
    BY <1>4 DEF Coffee!Execute
  <2> HIDE DEF scripted
  <2>2. more = Append(journey.refused, action)
    BY <1>1 DEF Stands, JourneyFields
  <2> HIDE DEF more
  <2>3. Moves(s, {})
    BY <1>1, <2>1, <2>2 DEF Moves, Stands, JourneyFields
  <2> QED
    BY <1>1, <1>2, <2>3, MoveIsFinal
<1> QED
  BY <1>3, <1>4

LEMMA TransactionsAreFinal ==
    ASSUME CoffeeInv, CoffeeInv', AnswersInOrder,
           \/ Coffee!RecordTransportCondition \/ Coffee!ReceiveBatch \/ Coffee!PurchaseOnReceipt
           \/ Coffee!TransformBatch \/ Coffee!PackageBatch
           \/ Coffee!TransferDistributionOwnership \/ Coffee!DispatchBatch
    PROVE  CoffeeGoesOn
<1>1. CASE Coffee!RecordTransportCondition
  <2> DEFINE s == "transport-transaction"
             t == "receipt-transaction"
  <2>1. \A n, x : <<s, x, n>> \in Stations => LedgerGoesOn(n, s) /\ LedgerGoesOn(n, t)
    BY DEF Stations, LedgerGoesOn
  <2>2. AnsweredBefore(s) \subseteq AnsweredBefore(t)
    BY DEF AnsweredBefore
  <2>3. \E action, role, rules, nextRole : Coffee!Execute(s, action, role, rules, t, nextRole)
    BY <1>1 DEF Coffee!RecordTransportCondition
  <2> HIDE DEF s, t
  <2> QED
    BY <2>1, <2>2, <2>3, ExecutionIsFinal
<1>2. CASE Coffee!ReceiveBatch
  <2> DEFINE s == "receipt-transaction"
             t == "ownership-transaction"
  <2>1. \A n, x : <<s, x, n>> \in Stations => LedgerGoesOn(n, s) /\ LedgerGoesOn(n, t)
    BY DEF Stations, LedgerGoesOn
  <2>2. AnsweredBefore(s) \subseteq AnsweredBefore(t)
    BY DEF AnsweredBefore
  <2>3. \E action, role, rules, nextRole : Coffee!Execute(s, action, role, rules, t, nextRole)
    BY <1>2 DEF Coffee!ReceiveBatch
  <2> HIDE DEF s, t
  <2> QED
    BY <2>1, <2>2, <2>3, ExecutionIsFinal
<1>3. CASE Coffee!PurchaseOnReceipt
  <2> DEFINE s == "ownership-transaction"
             t == "discrepancy-decision"
  <2>1. \A n, x : <<s, x, n>> \in Stations => LedgerGoesOn(n, s) /\ LedgerGoesOn(n, t)
    BY DEF Stations, LedgerGoesOn
  <2>2. AnsweredBefore(s) \subseteq AnsweredBefore(t)
    BY DEF AnsweredBefore
  <2>3. \E action, role, rules, nextRole : Coffee!Execute(s, action, role, rules, t, nextRole)
    BY <1>3 DEF Coffee!PurchaseOnReceipt
  <2> HIDE DEF s, t
  <2> QED
    BY <2>1, <2>2, <2>3, ExecutionIsFinal
<1>4. CASE Coffee!TransformBatch
  <2> DEFINE s == "transformation-transaction"
             t == "transformation-knowledge"
  <2>1. \A n, x : <<s, x, n>> \in Stations => LedgerGoesOn(n, s) /\ LedgerGoesOn(n, t)
    BY DEF Stations, LedgerGoesOn
  <2>2. AnsweredBefore(s) \subseteq AnsweredBefore(t)
    BY DEF AnsweredBefore
  <2>3. \E action, role, rules, nextRole : Coffee!Execute(s, action, role, rules, t, nextRole)
    BY <1>4 DEF Coffee!TransformBatch
  <2> HIDE DEF s, t
  <2> QED
    BY <2>1, <2>2, <2>3, ExecutionIsFinal
<1>5. CASE Coffee!PackageBatch
  <2> DEFINE s == "packaging-transaction"
             t == "distribution-ownership-transaction"
  <2>1. \A n, x : <<s, x, n>> \in Stations => LedgerGoesOn(n, s) /\ LedgerGoesOn(n, t)
    BY DEF Stations, LedgerGoesOn
  <2>2. AnsweredBefore(s) \subseteq AnsweredBefore(t)
    BY DEF AnsweredBefore
  <2>3. \E action, role, rules, nextRole : Coffee!Execute(s, action, role, rules, t, nextRole)
    BY <1>5 DEF Coffee!PackageBatch
  <2> HIDE DEF s, t
  <2> QED
    BY <2>1, <2>2, <2>3, ExecutionIsFinal
<1>6. CASE Coffee!TransferDistributionOwnership
  <2> DEFINE s == "distribution-ownership-transaction"
             t == "dispatch-transaction"
  <2>1. \A n, x : <<s, x, n>> \in Stations => LedgerGoesOn(n, s) /\ LedgerGoesOn(n, t)
    BY DEF Stations, LedgerGoesOn
  <2>2. AnsweredBefore(s) \subseteq AnsweredBefore(t)
    BY DEF AnsweredBefore
  <2>3. \E action, role, rules, nextRole : Coffee!Execute(s, action, role, rules, t, nextRole)
    BY <1>6 DEF Coffee!TransferDistributionOwnership
  <2> HIDE DEF s, t
  <2> QED
    BY <2>1, <2>2, <2>3, ExecutionIsFinal
<1>7. CASE Coffee!DispatchBatch
  <2> DEFINE s == "dispatch-transaction"
             t == "tamper-demonstration"
  <2>1. \A n, x : <<s, x, n>> \in Stations => LedgerGoesOn(n, s) /\ LedgerGoesOn(n, t)
    BY DEF Stations, LedgerGoesOn
  <2>2. AnsweredBefore(s) \subseteq AnsweredBefore(t)
    BY DEF AnsweredBefore
  <2>3. \E action, role, rules, nextRole : Coffee!Execute(s, action, role, rules, t, nextRole)
    BY <1>7 DEF Coffee!DispatchBatch
  <2> HIDE DEF s, t
  <2> QED
    BY <2>1, <2>2, <2>3, ExecutionIsFinal
<1> QED
  BY <1>1, <1>2, <1>3, <1>4, <1>5, <1>6, <1>7

LEMMA DiscrepancyDecisionIsFinal ==
    ASSUME CoffeeInv, CoffeeInv', AnswersInOrder, NEW choice,
           Coffee!SubmitDiscrepancyDecision(choice)
    PROVE  CoffeeGoesOn
<1> DEFINE s == "discrepancy-decision"
           rule == IF choice = "overwrite" THEN "DISCREPANCY_REJECTED_ATTEMPT"
                   ELSE "DISCREPANCY_DECISION_SUBMITTED"
           o == Coffee!Observe(journey, {rule})
<1>1. PICK r, n : Stands(s, r, n)
  BY CommandStands DEF Coffee!SubmitDiscrepancyDecision
<1>2. /\ ~overdue
      /\ \/ journey' = Coffee!GoTo([o EXCEPT !.mitigation = "not-required"],
                                   "correction-proposal", "PROCESSOR")
         \/ journey' = Coffee!GoTo([o EXCEPT !.mitigation = "required"],
                                   "discrepancy-mitigation", "PROCESSOR")
  BY DEF Coffee!SubmitDiscrepancyDecision, Coffee!Command, Coffee!MayCommand
<1>3. Grew(journey, o, {})
  BY <1>1, ObserveGrew DEF Stands
<1> HIDE DEF o
<1>4. \A m : Grew(journey, [o EXCEPT !.mitigation = m], {})
  BY <1>3 DEF Grew, StandsAs, JourneyFields
<1>5. LedgerGoesOn(n, "correction-proposal") /\ LedgerGoesOn(n, "discrepancy-mitigation")
  BY <1>1 DEF Stands, Stations, LedgerGoesOn
<1>6. /\ AnsweredBefore(s) \union {} \subseteq AnsweredBefore("correction-proposal")
      /\ AnsweredBefore(s) \union {} \subseteq AnsweredBefore("discrepancy-mitigation")
      /\ AnsweredBefore(s) \intersect {} = {}
  BY DEF AnsweredBefore
<1> HIDE DEF s
<1> QED
  BY <1>1, <1>2, <1>4, <1>5, <1>6, GoingIsFinal

LEMMA InvestigationIsFinal ==
    ASSUME CoffeeInv, CoffeeInv', AnswersInOrder, Coffee!InvestigateDiscrepancy
    PROVE  CoffeeGoesOn
<1> DEFINE s == "discrepancy-mitigation"
           t == "correction-proposal"
           l == [journey EXCEPT !.mitigation = "completed"]
<1>1. PICK r, n : Stands(s, r, n)
  BY CommandStands DEF Coffee!InvestigateDiscrepancy
<1>2. Grew(journey, l, {})
  BY <1>1 DEF Stands, Grew, StandsAs, JourneyFields
<1>3. journey' = Coffee!GoTo(l, t, "PROCESSOR") /\ ~overdue
  BY DEF Coffee!InvestigateDiscrepancy, Coffee!Command, Coffee!MayCommand
<1> HIDE DEF l
<1>4. LedgerGoesOn(n, t)
  BY <1>1 DEF Stands, Stations, LedgerGoesOn
<1>5. AnsweredBefore(s) \intersect {} = {} /\ AnsweredBefore(s) \union {} \subseteq AnsweredBefore(t)
  BY DEF AnsweredBefore
<1> HIDE DEF s, t
<1> QED
  BY <1>1, <1>2, <1>3, <1>4, <1>5, GoingIsFinal

LEMMA CorrectionProposalIsFinal ==
    ASSUME CoffeeInv, CoffeeInv', AnswersInOrder, Coffee!CreateCorrectionProposal
    PROVE  CoffeeGoesOn
<1> DEFINE s == "correction-proposal"
           t == "correction-endorsement"
<1>1. PICK r, n : Stands(s, r, n)
  BY CommandStands DEF Coffee!CreateCorrectionProposal
<1>2. Grew(journey, journey, {})
  BY <1>1, ItselfGrew DEF Stands
<1>3. journey' = Coffee!GoTo(journey, t, journey.context) /\ ~overdue
  BY DEF Coffee!CreateCorrectionProposal, Coffee!Command, Coffee!MayCommand
<1>4. LedgerGoesOn(n, t)
  BY <1>1 DEF Stands, Stations, LedgerGoesOn
<1>5. AnsweredBefore(s) \intersect {} = {} /\ AnsweredBefore(s) \union {} \subseteq AnsweredBefore(t)
  BY DEF AnsweredBefore
<1> HIDE DEF s, t
<1> QED
  BY <1>1, <1>2, <1>3, <1>4, <1>5, GoingIsFinal

LEMMA CorrectionEndorsementIsFinal ==
    ASSUME CoffeeInv, CoffeeInv', AnswersInOrder, Coffee!EndorseCorrection
    PROVE  CoffeeGoesOn
<1> DEFINE s == "correction-endorsement"
           t == "correction-commit"
           l == Coffee!Observe(journey, {"CORRECTION_ENDORSEMENT_SATISFIED"})
<1>1. PICK r, n : Stands(s, r, n)
  BY CommandStands DEF Coffee!EndorseCorrection
<1>2. Grew(journey, l, {})
  BY <1>1, ObserveGrew DEF Stands
<1>3. journey' = Coffee!GoTo(l, t, "PRODUCER") /\ ~overdue
  BY DEF Coffee!EndorseCorrection, Coffee!Command, Coffee!MayCommand
<1> HIDE DEF l
<1>4. LedgerGoesOn(n, t)
  BY <1>1 DEF Stands, Stations, LedgerGoesOn
<1>5. AnsweredBefore(s) \intersect {} = {} /\ AnsweredBefore(s) \union {} \subseteq AnsweredBefore(t)
  BY DEF AnsweredBefore
<1> HIDE DEF s, t
<1> QED
  BY <1>1, <1>2, <1>3, <1>4, <1>5, GoingIsFinal

LEMMA CorrectionCommitIsFinal ==
    ASSUME CoffeeInv, CoffeeInv', AnswersInOrder, Coffee!CommitCorrection
    PROVE  CoffeeGoesOn
<1> DEFINE s == "correction-commit"
           t == "transformation-transaction"
           filed == Append(journey.chain, "RECORD_CORRECTION")
           l == [journey EXCEPT !.chain = filed]
<1>1. PICK r, n : Stands(s, r, n)
  BY CommandStands DEF Coffee!CommitCorrection
<1>2. journey' = Coffee!GoTo(Coffee!Observe(l, {"APPEND_ONLY_CORRECTION_COMMITTED"}), t, "PROCESSOR") /\ ~overdue
  BY DEF Coffee!CommitCorrection, Coffee!Command, Coffee!MayCommand
<1> HIDE DEF filed
<1>3. Moves(t, {})
  BY <1>1, <1>2 DEF Moves, Stands, Coffee!GoTo, Coffee!Observe, JourneyFields
<1>4. LedgerGoesOn(n, t)
  BY <1>1 DEF Stands, Stations, LedgerGoesOn
<1>5. AnsweredBefore(s) \subseteq AnsweredBefore(t)
  BY DEF AnsweredBefore
<1> HIDE DEF s, t
<1> QED
  BY <1>1, <1>2, <1>3, <1>4, <1>5, MoveIsFinal

LEMMA TamperDemonstrationIsFinal ==
    ASSUME CoffeeInv, CoffeeInv', AnswersInOrder, Coffee!RunTamperDemonstration
    PROVE  CoffeeGoesOn
<1> DEFINE s == "tamper-demonstration"
           t == "tamper-knowledge"
           l == Coffee!Observe(journey, {"TAMPER_DEMONSTRATION_COMPLETED"})
<1>1. PICK r, n : Stands(s, r, n)
  BY CommandStands DEF Coffee!RunTamperDemonstration
<1>2. Grew(journey, l, {})
  BY <1>1, ObserveGrew DEF Stands
<1>3. journey' = Coffee!GoTo(l, t, "RETAILER") /\ ~overdue
  BY DEF Coffee!RunTamperDemonstration, Coffee!Command, Coffee!MayCommand
<1> HIDE DEF l
<1>4. LedgerGoesOn(n, t)
  BY <1>1 DEF Stands, Stations, LedgerGoesOn
<1>5. AnsweredBefore(s) \intersect {} = {} /\ AnsweredBefore(s) \union {} \subseteq AnsweredBefore(t)
  BY DEF AnsweredBefore
<1> HIDE DEF s, t
<1> QED
  BY <1>1, <1>2, <1>3, <1>4, <1>5, GoingIsFinal

LEMMA KnowledgeDecisionIsFinal ==
    ASSUME CoffeeInv, CoffeeInv', AnswersInOrder, NEW isCorrect,
           Coffee!SubmitKnowledgeDecision(isCorrect)
    PROVE  CoffeeGoesOn
<1>0. ~overdue
  BY DEF Coffee!SubmitKnowledgeDecision, Coffee!Command, Coffee!MayCommand
<1> DEFINE l1 == Coffee!Recognise(journey, "TRANSFORMATION_PROVENANCE", isCorrect,
                                   "TRANSFORMATION_PROVENANCE_RECOGNIZED")
<1>1. CASE /\ Coffee!Command("transformation-knowledge")
          /\ journey' = Coffee!GoTo(l1, "packaging-transaction", journey.context)
  <2> DEFINE s == "transformation-knowledge"
             t == "packaging-transaction"
             D == {"TRANSFORMATION_PROVENANCE"}
  <2>1. PICK r, n : Stands(s, r, n)
    BY <1>1, CommandStands
  <2>2. Grew(journey, l1, D)
    BY <2>1, RecogniseGrew DEF Stands
  <2> HIDE DEF l1
  <2>3. LedgerGoesOn(n, t)
    BY <2>1 DEF Stands, Stations, LedgerGoesOn
  <2>4. /\ AnsweredBefore(s) \intersect D = {}
        /\ AnsweredBefore(s) \union D \subseteq AnsweredBefore(t)
    BY DEF AnsweredBefore
  <2> HIDE DEF s, t, D
  <2>5. journey' = Coffee!GoTo(l1, t, journey.context)
    BY <1>1 DEF t
  <2> QED
    BY <1>0, <2>1, <2>2, <2>3, <2>4, <2>5, GoingIsFinal
<1> DEFINE l2 == Coffee!Recognise(journey, "TAMPER_DEMONSTRATION", isCorrect,
                                   "TAMPER_EVIDENCE_INTERPRETED")
<1>2. CASE /\ Coffee!Command("tamper-knowledge")
          /\ journey' = Coffee!GoTo(l2, "data-governance-decision", journey.context)
  <2> DEFINE s == "tamper-knowledge"
             t == "data-governance-decision"
             D == {"TAMPER_DEMONSTRATION"}
  <2>1. PICK r, n : Stands(s, r, n)
    BY <1>2, CommandStands
  <2>2. Grew(journey, l2, D)
    BY <2>1, RecogniseGrew DEF Stands
  <2> HIDE DEF l2
  <2>3. LedgerGoesOn(n, t)
    BY <2>1 DEF Stands, Stations, LedgerGoesOn
  <2>4. /\ AnsweredBefore(s) \intersect D = {}
        /\ AnsweredBefore(s) \union D \subseteq AnsweredBefore(t)
    BY DEF AnsweredBefore
  <2> HIDE DEF s, t, D
  <2>5. journey' = Coffee!GoTo(l2, t, journey.context)
    BY <1>2 DEF t
  <2> QED
    BY <1>0, <2>1, <2>2, <2>3, <2>4, <2>5, GoingIsFinal
<1> DEFINE l3 == Coffee!Recognise(journey, "BLOCKCHAIN_NECESSITY", isCorrect,
                                   "BLOCKCHAIN_SUITABILITY_RECOGNIZED")
<1>3. CASE /\ Coffee!Command("blockchain-necessity-decision")
          /\ journey' = [Coffee!GoTo(l3, "complete", journey.context)
                            EXCEPT !.status = "completed"]
  <2> DEFINE s == "blockchain-necessity-decision"
             t == "complete"
             D == {"BLOCKCHAIN_NECESSITY"}
  <2>1. PICK r, n : Stands(s, r, n)
    BY <1>3, CommandStands
  <2>2. Grew(journey, l3, D)
    BY <2>1, RecogniseGrew DEF Stands
  <2> HIDE DEF l3
  <2>3. /\ journey'.status = "completed" /\ journey'.step = t /\ journey'.refused = l3.refused
        /\ journey'.answers = l3.answers /\ journey'.evidence = l3.evidence
        /\ journey'.chain = l3.chain
    BY <1>3, <2>2 DEF Grew, StandsAs, Coffee!GoTo, JourneyFields
  <2>4. Moves(t, D) /\ journey'.chain = journey.chain
    BY <2>2, <2>3 DEF Moves, Grew, StandsAs
  <2>5. /\ AnsweredBefore(s) \intersect D = {}
        /\ AnsweredBefore(s) \union D \subseteq AnsweredBefore(t)
    BY DEF AnsweredBefore
  <2> HIDE DEF s, t, D
  <2> QED
    BY <1>0, <2>1, <2>4, <2>5, MoveIsFinal
<1> QED
  BY <1>1, <1>2, <1>3 DEF Coffee!SubmitKnowledgeDecision

LEMMA GovernanceDecisionIsFinal ==
    ASSUME CoffeeInv, CoffeeInv', AnswersInOrder, NEW isCorrect,
           Coffee!SubmitDataGovernanceDecision(isCorrect)
    PROVE  CoffeeGoesOn
<1> DEFINE s == "data-governance-decision"
           t == "recall-scope-decision"
           D == {"DATA_GOVERNANCE"}
           l == Coffee!Recognise(journey, "DATA_GOVERNANCE", isCorrect,
                                 "DATA_GOVERNANCE_CLASSIFIED")
<1>1. PICK r, n : Stands(s, r, n)
  BY CommandStands DEF Coffee!SubmitDataGovernanceDecision
<1>2. Grew(journey, l, D)
  BY <1>1, RecogniseGrew DEF Stands
<1>3. journey' = Coffee!GoTo(l, t, "RETAILER") /\ ~overdue
  BY DEF Coffee!SubmitDataGovernanceDecision, Coffee!Command, Coffee!MayCommand
<1> HIDE DEF l
<1>4. LedgerGoesOn(n, t)
  BY <1>1 DEF Stands, Stations, LedgerGoesOn
<1>5. /\ AnsweredBefore(s) \intersect D = {}
      /\ AnsweredBefore(s) \union D \subseteq AnsweredBefore(t)
  BY DEF AnsweredBefore
<1> HIDE DEF s, t
<1> QED
  BY <1>1, <1>2, <1>3, <1>4, <1>5, GoingIsFinal

LEMMA RecallScopeIsFinal ==
    ASSUME CoffeeInv, CoffeeInv', AnswersInOrder, NEW isCorrect,
           Coffee!SubmitRecallScopeDecision(isCorrect)
    PROVE  CoffeeGoesOn
<1> DEFINE s == "recall-scope-decision"
           t == "recall-transaction"
           D == {"RECALL_SCOPE"} \union {}
           a == Coffee!Answer(journey, "RECALL_SCOPE", isCorrect)
           l == Coffee!Observe(a, {"RECALL_SCOPE_SUBMITTED"})
<1>1. PICK r, n : Stands(s, r, n)
  BY CommandStands DEF Coffee!SubmitRecallScopeDecision
<1>2. Grew(journey, l, D)
  <2>1. Grew(journey, a, {"RECALL_SCOPE"})
    BY <1>1, AnswerGrew DEF Stands
  <2> HIDE DEF a
  <2>2. Grew(a, l, {})
    BY <2>1, ObserveGrew DEF Grew, StandsAs
  <2> HIDE DEF l
  <2> QED
    BY <2>1, <2>2, GrewOn
<1>3. journey' = Coffee!GoTo(l, t, "RETAILER") /\ ~overdue
  BY DEF Coffee!SubmitRecallScopeDecision, Coffee!Command, Coffee!MayCommand
<1> HIDE DEF l
<1>4. LedgerGoesOn(n, t)
  BY <1>1 DEF Stands, Stations, LedgerGoesOn
<1>5. /\ AnsweredBefore(s) \intersect D = {}
      /\ AnsweredBefore(s) \union D \subseteq AnsweredBefore(t)
  BY DEF AnsweredBefore
<1> HIDE DEF s, t
<1> QED
  BY <1>1, <1>2, <1>3, <1>4, <1>5, GoingIsFinal

LEMMA RecallHandoffIsFinal ==
    ASSUME CoffeeInv, CoffeeInv', AnswersInOrder, Coffee!RequestRecallHandoff
    PROVE  CoffeeGoesOn
<1> DEFINE t == "recall-authorized-transaction"
<1>1. PICK s, r, n : Stands(s, r, n) /\ s \in {"recall-transaction", "recall-handoff"}
  BY CommandStands DEF Coffee!RequestRecallHandoff
<1>2. Grew(journey, journey, {})
  BY <1>1, ItselfGrew DEF Stands
<1>3. journey' = Coffee!GoTo(journey, t, "REGULATOR") /\ ~overdue
  BY DEF Coffee!RequestRecallHandoff, Coffee!Command, Coffee!MayCommand
<1>4. LedgerGoesOn(n, t)
  BY <1>1 DEF Stands, Stations, LedgerGoesOn
<1>5. /\ AnsweredBefore(s) \intersect {} = {}
      /\ AnsweredBefore(s) \union {} \subseteq AnsweredBefore(t)
  BY <1>1 DEF AnsweredBefore
<1> HIDE DEF t
<1> QED
  BY <1>1, <1>2, <1>3, <1>4, <1>5, GoingIsFinal

LEMMA RecallIsFinal ==
    ASSUME CoffeeInv, CoffeeInv', AnswersInOrder, Coffee!SubmitRecall
    PROVE  CoffeeGoesOn
<1>1. PICK s, r, n : /\ Stands(s, r, n)
                     /\ s \in {"recall-transaction", "recall-authorized-transaction"}
  BY CommandStands DEF Coffee!SubmitRecall
<1>2. ~overdue
  BY DEF Coffee!SubmitRecall, Coffee!Command, Coffee!MayCommand
<1>3. CASE Coffee!IsAccepted("RECALL_BATCH")
  <2> DEFINE t == "blockchain-necessity-decision"
             filed == Append(journey.chain, "RECALL_BATCH")
             l == [journey EXCEPT !.chain = filed]
  <2>1. journey' = Coffee!GoTo(Coffee!Observe(l, {"AUTHORIZED_RECALL_COMMITTED"}), t,
                               journey.context)
    BY <1>3 DEF Coffee!SubmitRecall
  <2> HIDE DEF filed
  <2>2. Moves(t, {})
    BY <1>1, <2>1 DEF Moves, Stands, Coffee!GoTo, Coffee!Observe, JourneyFields
  <2>3. LedgerGoesOn(n, t)
    BY <1>1 DEF Stands, Stations, LedgerGoesOn
  <2>4. AnsweredBefore(s) \subseteq AnsweredBefore(t)
    BY <1>1 DEF AnsweredBefore
  <2> HIDE DEF t
  <2> QED
    BY <1>1, <1>2, <2>2, <2>3, <2>4, MoveIsFinal
<1>4. CASE ~Coffee!IsAccepted("RECALL_BATCH")
  <2> DEFINE t == "recall-handoff"
             more == Append(journey.refused, "RECALL_BATCH")
             l == [journey EXCEPT !.refused = more]
  <2>1. journey' = Coffee!GoTo(Coffee!Observe(l, {"UNAUTHORIZED_RECALL_RETAINED"}), t,
                               journey.context)
    BY <1>4 DEF Coffee!SubmitRecall
  <2>2. more = Append(journey.refused, "RECALL_BATCH")
    OBVIOUS
  <2> HIDE DEF more
  <2>3. Moves(t, {}) /\ journey'.chain = journey.chain
    BY <1>1, <2>1, <2>2 DEF Moves, Stands, Coffee!GoTo, Coffee!Observe, JourneyFields
  <2>4. AnsweredBefore(s) \subseteq AnsweredBefore(t)
    BY <1>1 DEF AnsweredBefore
  <2> HIDE DEF t
  <2> QED
    BY <1>1, <1>2, <2>3, <2>4, MoveIsFinal
<1> QED
  BY <1>3, <1>4

LEMMA JournalsArePrefixes ==
    ASSUME CoffeeInv, journey # Coffee!NoJourney
    PROVE  /\ Coffee!IsPrefix(journey.chain, journey.chain)
           /\ Coffee!IsPrefix(journey.refused, journey.refused)
<1>1. PICK n \in 0 .. 13 : journey.chain = SubSeq(Coffee!Script, 1, n)
  BY DEF CoffeeInv, StandsAt, Coffee!Written
<1>2. Coffee!Script \in Seq(Transactions) /\ n \in 0 .. Len(Coffee!Script)
  BY ScriptIs
<1>3. SubSeq(Coffee!Script, 1, n) \in Seq(Transactions)
  BY <1>2, PrefixFacts
<1>4. journey.refused \in Seq(MayBeRefused)
  BY DEF CoffeeInv
<1> QED
  BY <1>1, <1>3, <1>4, AppendHasPrefix

LEMMA CoffeeRests ==
    ASSUME CoffeeInv, AnswersInOrder, journey' = journey
    PROVE  CoffeeGoesOn
<1>1. AnswersInOrder'
  BY DEF AnswersInOrder
<1> QED
  BY <1>1, JournalsArePrefixes DEF CoffeeGoesOn, CoffeeIsFinal

LEMMA CoffeeExpiryIsFinal ==
    ASSUME CoffeeInv, AnswersInOrder, Coffee!Expire
    PROVE  CoffeeGoesOn
<1>1. /\ journey # Coffee!NoJourney /\ journey.status = "active" /\ ~journey.expired
      /\ journey' = [journey EXCEPT !.expired = TRUE]
  BY DEF Coffee!Expire, Coffee!IsActive, Coffee!NoJourney
<1>2. /\ journey'.chain = journey.chain /\ journey'.refused = journey.refused
      /\ journey'.evidence = journey.evidence /\ journey'.answers = journey.answers
      /\ journey'.step = journey.step /\ journey'.status = "active"
  BY <1>1 DEF CoffeeInv, JourneyFields
<1>3. /\ Coffee!IsPrefix(journey.chain, journey.chain)
      /\ Coffee!IsPrefix(journey.refused, journey.refused)
  BY <1>1, JournalsArePrefixes
<1>4. AnswersInOrder'
  BY <1>1, <1>2 DEF AnswersInOrder
<1>5. journey' # Coffee!NoJourney
  BY <1>2 DEF Coffee!NoJourney
<1> QED
  BY <1>1, <1>2, <1>3, <1>4, <1>5 DEF CoffeeGoesOn, CoffeeIsFinal

LEMMA CoffeeStepIsFinal ==
    ASSUME CoffeeInv, AnswersInOrder, journey = Coffee!NoJourney => ~overdue, Coffee!Next
    PROVE  CoffeeGoesOn
<1>1. CASE Coffee!CreateRun
  <2>1. journey'.answers = << >> /\ journey = Coffee!NoJourney
    BY <1>1 DEF Coffee!CreateRun
  <2>2. DOMAIN journey'.answers = {}
    BY <2>1
  <2> QED
    BY <2>1, <2>2 DEF CoffeeGoesOn, AnswersInOrder, CoffeeIsFinal
<1>2. CoffeeInv'
  BY CoffeeKeeps
<1>3. CASE Coffee!Progress
  BY <1>2, <1>3, EvidenceIsFinal, CertificateDecisionIsFinal, CertificateTransactionIsFinal,
     CustodyProposalIsFinal, CustodyEndorsementIsFinal, CustodyCommitIsFinal,
     TransactionsAreFinal, DiscrepancyDecisionIsFinal, InvestigationIsFinal,
     CorrectionProposalIsFinal, CorrectionEndorsementIsFinal, CorrectionCommitIsFinal,
     TamperDemonstrationIsFinal, KnowledgeDecisionIsFinal, GovernanceDecisionIsFinal,
     RecallScopeIsFinal, RecallHandoffIsFinal, RecallIsFinal
  DEF Coffee!Progress
<1>4. CASE Coffee!CreateCustodyProposal(TRUE)
  BY <1>2, <1>4, CustodyProposalIsFinal
<1>5. CASE \E p \in CoffeePolicies : Coffee!ConsultPolicy(p)
  BY <1>2, <1>5, ConsultationIsFinal
<1>6. CASE Coffee!Expire
  BY <1>6, CoffeeExpiryIsFinal
<1>7. CASE Coffee!ClockPasses
  BY <1>7, CoffeeRests DEF Coffee!ClockPasses
<1> QED
  BY <1>1, <1>3, <1>4, <1>5, <1>6, <1>7 DEF Coffee!Next

-----------------------------------------------------------------------------
(* What no run takes back *)

\* What the records need to stay: findings that count their revisions, answers in the
\* order of the journey, and a deadline that passes only for a run.
FinalInv ==
    /\ FindingsCount /\ AnswersInOrder
    /\ overdue => /\ kind = "generic-v1" => run # Generic!NoRun
                  /\ kind = "audit-v1" => audit # Audit!NoAudit
                  /\ kind = "native-coffee-v2" => journey # Coffee!NoJourney

\* What a step leaves, whichever service takes it.
RunIsFinal == GenericIsFinal /\ AuditIsFinal /\ LabStays /\ CoffeeIsFinal

LEMMA FinalStarts == RuntimeInit => FinalInv
BY DEF RuntimeInit, FinalInv, NoGeneric, NoAudit, NoLab, NoCoffee, Generic!Init, Audit!Init,
       Lab!Init, Coffee!Init, FindingsCount, AnswersInOrder

\* The deadline passes only for a run that is there.
LEMMA GenericDeadline ==
    ASSUME Generic!Next
    PROVE  overdue' = overdue \/ run # Generic!NoRun
<1>1. run = Generic!NoRun => ~Generic!IsActive(run)
  BY DEF Generic!IsActive, Generic!NoRun
<1> QED
  BY <1>1, Zenon DEF Generic!Next, Generic!Learner, Generic!Instructor,
       Generic!CreateRun, Generic!Progress, Generic!AdvanceWorkflow, Generic!SubmitDecision,
       Generic!CreateProposal, Generic!RecordEndorsement, Generic!AcknowledgeCommunication,
       Generic!SubmitReflection, Generic!InspectEvidence, Generic!RequestEvidence,
       Generic!ConsultPolicy, Generic!Command, Generic!MayCommand, Generic!Expire,
       Generic!ReleaseIncident, Generic!ClockPasses

LEMMA AuditDeadline ==
    ASSUME Audit!Next
    PROVE  overdue' = overdue \/ audit # Audit!NoAudit
<1>1. audit = Audit!NoAudit => ~Audit!IsOpen
  BY DEF Audit!IsOpen, Audit!NoAudit, Audit!None
<1> QED
  BY <1>1, Zenon DEF Audit!Next, Audit!CreateRun, Audit!Note, Audit!SaveDraft, Audit!Report,
       Audit!SubmitFinding, Audit!AmendFinding, Audit!WithdrawFinding, Audit!Conclude,
       Audit!SubmitConclusion, Audit!Expire, Audit!ClockPasses, Audit!Command

LEMMA CoffeeDeadline ==
    ASSUME Coffee!Next
    PROVE  overdue' = overdue \/ journey # Coffee!NoJourney
<1>1. ASSUME NEW step, Coffee!Command(step)
      PROVE  overdue' = overdue
  BY <1>1 DEF Coffee!Command
<1>2. CASE Coffee!CreateRun \/ Coffee!Expire \/ Coffee!ClockPasses
  BY <1>2 DEF Coffee!CreateRun, Coffee!Expire, Coffee!ClockPasses, Coffee!IsActive,
     Coffee!NoJourney
<1>3. CASE Coffee!CreateCustodyProposal(TRUE) \/ \E p \in CoffeePolicies : Coffee!ConsultPolicy(p)
  BY <1>1, <1>3 DEF Coffee!CreateCustodyProposal, Coffee!ConsultPolicy
<1>4. CASE Coffee!Progress
  BY <1>1, <1>4
  DEF Coffee!Progress, Coffee!InspectEvidence, Coffee!SubmitCertificateDecision,
      Coffee!SubmitCertificateTransaction, Coffee!CreateCustodyProposal,
      Coffee!EndorseCustody, Coffee!CommitCustody, Coffee!Execute,
      Coffee!RecordTransportCondition, Coffee!ReceiveBatch, Coffee!PurchaseOnReceipt,
      Coffee!SubmitDiscrepancyDecision, Coffee!InvestigateDiscrepancy,
      Coffee!CreateCorrectionProposal, Coffee!EndorseCorrection, Coffee!CommitCorrection,
      Coffee!TransformBatch, Coffee!PackageBatch, Coffee!TransferDistributionOwnership,
      Coffee!DispatchBatch, Coffee!RunTamperDemonstration, Coffee!SubmitKnowledgeDecision,
      Coffee!SubmitDataGovernanceDecision, Coffee!SubmitRecallScopeDecision,
      Coffee!RequestRecallHandoff, Coffee!SubmitRecall
<1> QED
  BY <1>2, <1>3, <1>4 DEF Coffee!Next

LEMMA FinalSteps ==
    ASSUME GenericInv, RuntimeInv, FinalInv, [RuntimeNext]_runtime
    PROVE  FinalInv' /\ RunIsFinal
<1>1. /\ AuditInv /\ LabInv /\ CoffeeInv
      /\ FindingsCount /\ AnswersInOrder
  BY DEF RuntimeInv, FinalInv
<1>2. UNCHANGED audit => AuditGoesOn
  BY <1>1, AuditRests
<1>3. UNCHANGED lab => LabStays
  BY <1>1, LabRests
<1>4. UNCHANGED journey => CoffeeGoesOn
  BY <1>1, CoffeeRests
<1>5. run # Generic!NoRun => Good(scenario, run)
  BY DEF GenericInv
<1>6. UNCHANGED <<scenario, run>> => GenericIsFinal
  BY <1>5, GenericRests
<1>7. CASE GenericRun
  <2>1. kind = "generic-v1" /\ UNCHANGED <<kind, audit, lab, journey>> /\ Generic!Next
    BY <1>7 DEF GenericRun, Play
  <2>2. Playable(scenario)
    BY <2>1, PlayedIsPlayable DEF GenericInv
  <2>3. run = Generic!NoRun => ~overdue
    BY <2>1 DEF FinalInv
  <2>4. GenericIsFinal
    BY <1>5, <2>1, <2>2, <2>3, GenericStepIsFinal
  <2>5. overdue' => run' # Generic!NoRun
    <3>1. SUFFICES ASSUME overdue' PROVE run' # Generic!NoRun
      OBVIOUS
    <3>2. run # Generic!NoRun
      BY <2>1, <2>3, <3>1, GenericDeadline, Zenon
    <3>3. Good(scenario, run')
      BY <1>5, <2>1, <2>2, <3>2, GenericSteps
    <3> QED
      BY <3>3, RunIsNoRun
  <2> QED
    BY <1>2, <1>3, <1>4, <2>1, <2>4, <2>5 DEF FinalInv, RunIsFinal, AuditGoesOn, CoffeeGoesOn
<1>8. CASE AuditRun
  <2>1. kind = "audit-v1" /\ UNCHANGED <<kind, scenario, run, lab, journey>> /\ Audit!Next
    BY <1>8 DEF AuditRun, Play
  <2>2. audit = Audit!NoAudit => ~overdue
    BY <2>1 DEF FinalInv
  <2>3. AuditGoesOn
    BY <1>1, <2>1, <2>2, AuditStepIsFinal
  <2>4. overdue' => audit' # Audit!NoAudit
    BY <2>1, <2>2, <2>3, AuditDeadline, Zenon DEF AuditGoesOn
  <2> QED
    BY <1>3, <1>4, <1>6, <2>1, <2>3, <2>4 DEF FinalInv, RunIsFinal, AuditGoesOn, CoffeeGoesOn
<1>9. CASE TechnicalLab
  <2>1. kind = "technical-lab-v1" /\ Lab!Next
        /\ UNCHANGED <<kind, scenario, run, audit, journey, overdue>>
    BY <1>9 DEF TechnicalLab, Play
  <2>2. LabStays
    BY <1>1, <2>1, LabNextStays
  <2> QED
    BY <1>2, <1>4, <1>6, <2>1, <2>2 DEF FinalInv, RunIsFinal, AuditGoesOn, CoffeeGoesOn
<1>10. CASE CoffeeRun
  <2>1. kind = "native-coffee-v2" /\ UNCHANGED <<kind, scenario, run, audit, lab>> /\ Coffee!Next
    BY <1>10 DEF CoffeeRun, Play
  <2>2. journey = Coffee!NoJourney => ~overdue
    BY <2>1 DEF FinalInv
  <2>3. CoffeeGoesOn
    BY <1>1, <2>1, <2>2, CoffeeStepIsFinal
  <2>4. overdue' => journey' # Coffee!NoJourney
    BY <2>1, <2>2, <2>3, CoffeeDeadline, Zenon DEF CoffeeGoesOn
  <2> QED
    BY <1>2, <1>3, <1>6, <2>1, <2>3, <2>4 DEF FinalInv, RunIsFinal, AuditGoesOn, CoffeeGoesOn
<1>11. CASE UNCHANGED runtime
  <2>1. UNCHANGED <<kind, scenario, run, audit, lab, journey, overdue>>
    BY <1>11 DEF runtime
  <2> QED
    BY <1>2, <1>3, <1>4, <1>6, <2>1 DEF FinalInv, RunIsFinal, AuditGoesOn, CoffeeGoesOn
<1> QED
  BY <1>7, <1>8, <1>9, <1>10, <1>11 DEF RuntimeNext

\* What a run recorded stays, whichever service plays it and whatever its learner, its
\* instructor and its clock do: decisions, proposals, commits, endorsements, findings,
\* notes, answers, journals and the scores of modules left are never changed or lost, a
\* completed run does not change, and after the deadline a learner's command records,
\* once, that it came too late (applyEvent of the services, assertDeadline).
THEOREM RunsStayFinal == RuntimeSpec => RunsAreFinal
<1>1. GenericInv /\ [RuntimeNext]_runtime => GenericInv'
  BY GenericKeeps
<1>2. RuntimeSpec => []GenericInv
  BY <1>1, GenericStarts, PTL DEF RuntimeSpec
<1>3. GenericInv /\ RuntimeInv /\ FinalInv /\ [RuntimeNext]_runtime => FinalInv' /\ RunIsFinal
  BY FinalSteps
<1>4. ASSUME RunIsFinal
      PROVE  /\ run # Generic!NoRun =>
                    /\ Generic!Extends(run.decisions, run'.decisions)
                    /\ Generic!Extends(run.proposals, run'.proposals)
                    /\ Generic!Extends(run.committed, run'.committed)
                    /\ Generic!Extends(run.chances, run'.chances)
                    /\ run.endorsements \subseteq run'.endorsements
                    /\ Generic!IsPrefix(run.evaluations, run'.evaluations)
                    /\ run.status = "completed" => run' = run
             /\ overdue /\ run' # run =>
                    \/ ~run.expired
                       /\ run' = [run EXCEPT !.expired = TRUE, !.occurred = run'.occurred]
                    \/ run' = [run EXCEPT !.incidents = run'.incidents,
                                          !.released = run'.released,
                                          !.occurred = run'.occurred]
  BY <1>4 DEF RunIsFinal, GenericIsFinal
<1>5. ASSUME RunIsFinal
      PROVE  /\ audit # Audit!NoAudit =>
                    /\ Audit!RecordIsFinal
                    /\ audit.notes \subseteq audit'.notes
                    /\ audit.competence \subseteq audit'.competence
                    /\ audit.status = "completed" => audit' = audit
             /\ overdue /\ audit' # audit =>
                    ~audit.expired /\ audit' = [audit EXCEPT !.expired = TRUE]
  BY <1>5 DEF RunIsFinal, AuditIsFinal
<1>6. ASSUME RunIsFinal
      PROVE  Lab!RecordIsFinal
  BY <1>6 DEF RunIsFinal, LabStays, Lab!RecordIsFinal
<1>7. ASSUME RunIsFinal
      PROVE  /\ journey # Coffee!NoJourney =>
                    /\ Coffee!IsPrefix(journey.chain, journey'.chain)
                    /\ Coffee!IsPrefix(journey.refused, journey'.refused)
                    /\ journey.evidence \subseteq journey'.evidence
                    /\ \A d \in DOMAIN journey.answers :
                           d \in DOMAIN journey'.answers
                           /\ journey'.answers[d] = journey.answers[d]
                    /\ journey.status = "completed" => journey' = journey
             /\ overdue /\ journey' # journey =>
                    ~journey.expired /\ journey' = [journey EXCEPT !.expired = TRUE]
  BY <1>7 DEF RunIsFinal, CoffeeIsFinal
<1>8. RuntimeSpec => Generic!RecordsAreFinal /\ Generic!LateChangesNothing
  BY FinalStarts, <1>2, <1>3, <1>4, RuntimeInvariant, PTL
  DEF RuntimeSpec, Generic!RecordsAreFinal, Generic!LateChangesNothing
<1>9. RuntimeSpec => Audit!RecordsAreFinal /\ Audit!LateChangesNothing
  BY FinalStarts, <1>2, <1>3, <1>5, RuntimeInvariant, PTL
  DEF RuntimeSpec, Audit!RecordsAreFinal, Audit!LateChangesNothing
<1>10. RuntimeSpec => Lab!RecordsAreFinal
  BY FinalStarts, <1>2, <1>3, <1>6, RuntimeInvariant, PTL DEF RuntimeSpec, Lab!RecordsAreFinal
<1>11. RuntimeSpec => Coffee!RecordsAreFinal /\ Coffee!LateChangesNothing
  BY FinalStarts, <1>2, <1>3, <1>7, RuntimeInvariant, PTL
  DEF RuntimeSpec, Coffee!RecordsAreFinal, Coffee!LateChangesNothing
<1> QED
  BY <1>8, <1>9, <1>10, <1>11 DEF RunsAreFinal

-----------------------------------------------------------------------------
(* The grade of an audit *)

FindingsAreFinite == audit # Audit!NoAudit => IsFiniteSet(DOMAIN audit.findings)

LEMMA AuditCount == \A S : Audit!Cardinality(S) = Cardinality(S)
BY DEF Audit!Cardinality, Cardinality

LEMMA FindingsStayFinite ==
    ASSUME AuditInv, FindingsAreFinite, Audit!Next
    PROVE  FindingsAreFinite'
<1>1. CASE Audit!CreateRun
  <2>1. DOMAIN audit'.findings = {}
    BY <1>1 DEF Audit!CreateRun
  <2> QED
    BY <2>1, FS_EmptySet DEF FindingsAreFinite
<1>2. ASSUME audit # Audit!NoAudit, DOMAIN audit'.findings = DOMAIN audit.findings
      PROVE  FindingsAreFinite'
  BY <1>2 DEF FindingsAreFinite
<1>3. Audit!Command => audit # Audit!NoAudit /\ audit = [g \in AuditFields |-> audit[g]]
  BY DEF AuditInv, Audit!Command, Audit!MayCommand, Audit!IsOpen, Audit!NoAudit, Audit!None
<1>4. ASSUME NEW f, NEW m, NEW a, NEW r, Audit!Command, Audit!Enter(f, m, a, r)
      PROVE  FindingsAreFinite'
  <2>1. DOMAIN audit'.findings = DOMAIN audit.findings \union {f}
    BY <1>3, <1>4 DEF Audit!Enter, AuditFields
  <2>2. IsFiniteSet(DOMAIN audit.findings \union {f})
    BY <1>3, <1>4, FS_AddElement DEF FindingsAreFinite
  <2> QED
    BY <2>1, <2>2 DEF FindingsAreFinite
<1>5. CASE Audit!Report
  BY <1>4, <1>5 DEF Audit!Report, Audit!SubmitFinding
<1>6. CASE \E f \in FindingIds, m \in Audit!Matters, a \in Arguments :
               Audit!AmendFinding(f, m, a)
  BY <1>4, <1>6 DEF Audit!AmendFinding
<1>7. ASSUME NEW f \in FindingIds, Audit!WithdrawFinding(f)
      PROVE  FindingsAreFinite'
  <2>1. audit'.findings = [audit.findings EXCEPT ![f].status = "WITHDRAWN", ![f].revision = @ + 1]
    BY <1>3, <1>7 DEF Audit!WithdrawFinding, AuditFields
  <2>2. DOMAIN audit'.findings = DOMAIN audit.findings
    BY <2>1
  <2> QED
    BY <1>2, <1>3, <1>7, <2>2 DEF Audit!WithdrawFinding
<1>8. CASE \/ \E n \in Audit!Notes : Audit!Note(n)
           \/ \E f \in FindingIds : Audit!SaveDraft(f)
           \/ Audit!Conclude
  BY <1>2, <1>3, <1>8
  DEF Audit!Note, Audit!SaveDraft, Audit!Conclude, Audit!SubmitConclusion, AuditFields
<1>9. CASE Audit!Expire \/ Audit!ClockPasses
  <2>1. audit # Audit!NoAudit /\ audit = [g \in AuditFields |-> audit[g]]
    BY <1>9 DEF AuditInv, Audit!Expire, Audit!ClockPasses, Audit!IsOpen, Audit!NoAudit, Audit!None
  <2> QED
    BY <1>2, <1>9, <2>1 DEF Audit!Expire, Audit!ClockPasses, AuditFields
<1> QED
  BY <1>1, <1>5, <1>6, <1>7, <1>8, <1>9 DEF Audit!Next

LEMMA Division ==
    ASSUME NEW n \in Nat, NEW d \in Nat \ {0}, NEW k \in Nat
    PROVE  n \div d \in Nat /\ (k <= n \div d <=> k * d <= n)
<1> DEFINE q == n \div d
           r == n % d
<1>1. q \in Nat /\ r \in 0 .. d - 1 /\ n = d * q + r
  OBVIOUS
<1> HIDE DEF q, r
<1>2. k <= q => k * d <= q * d
  BY <1>1
<1>3. k > q => k * d >= (q + 1) * d
  BY <1>1
<1>4. (q + 1) * d = d * q + d
  BY <1>1
<1> QED
  BY <1>1, <1>2, <1>3, <1>4 DEF q

\* A share of a maximum is at most that, and the maximum if half a point is missing.
LEMMA ShareIs ==
    ASSUME NEW n \in Nat, NEW d \in Nat \ {0}, NEW k \in Nat, n <= k * d
    PROVE  /\ Audit!Rounded(n, d) \in 0 .. k
           /\ Audit!Rounded(n, d) = k <=> 2 * (k * d) <= 2 * n + d
<1> DEFINE N == 2 * n + d
           M == 2 * d
           q == N \div M
<1>1. N \in Nat /\ M \in Nat \ {0} /\ k + 1 \in Nat
  OBVIOUS
<1>2. q \in Nat /\ (k <= q <=> k * M <= N) /\ (k + 1 <= q <=> (k + 1) * M <= N)
  <2> HIDE DEF N, M
  <2> QED
    BY <1>1, Division DEF q
<1>3. k * M = 2 * (k * d) /\ (k + 1) * M = 2 * (k * d) + 2 * d /\ k * d \in Nat
  OBVIOUS
<1>4. (k + 1) * M > N
  BY <1>3
<1>5. Audit!Rounded(n, d) = q
  BY DEF Audit!Rounded
<1> HIDE DEF q
<1> QED
  BY <1>2, <1>3, <1>4, <1>5

\* The parts that the members of a set earn, each at most w of them: all of them if nobody
\* lacks any, and v less than all if somebody lacks v.
LEMMA TotalIs ==
    ASSUME NEW C, IsFiniteSet(C), NEW w \in Nat \ {0}, NEW e, \A f \in C : e[f] \in 0 .. w,
           NEW T, T = {p \in C \X (1 .. w) : p[2] <= e[p[1]]}
    PROVE  /\ Cardinality(T) \in 0 .. Cardinality(C) * w
           /\ (\A f \in C : e[f] = w) => Cardinality(T) = Cardinality(C) * w
           /\ \A f \in C, v \in 1 .. w :
                  e[f] <= w - v => Cardinality(T) <= Cardinality(C) * w - v
<1> DEFINE A == C \X (1 .. w)
<1>1. IsFiniteSet(A) /\ Cardinality(A) = Cardinality(C) * w
  <2>1. IsFiniteSet(1 .. w) /\ Cardinality(1 .. w) = w
    BY FS_Interval
  <2> QED
    BY <2>1, FS_Product
<1>2. T \subseteq A
  OBVIOUS
<1>3. (\A f \in C : e[f] = w) => T = A
  OBVIOUS
<1>4. ASSUME NEW f \in C, NEW v \in 1 .. w, e[f] <= w - v
      PROVE  Cardinality(T) <= Cardinality(C) * w - v
  <2> DEFINE M == {f} \X (w - v + 1 .. w)
  <2>1. IsFiniteSet(M) /\ Cardinality(M) = v
    <3>1. IsFiniteSet({f}) /\ Cardinality({f}) = 1
      BY FS_Singleton
    <3>2. IsFiniteSet(w - v + 1 .. w) /\ Cardinality(w - v + 1 .. w) = v
      BY FS_Interval
    <3> QED
      BY <3>1, <3>2, FS_Product
  <2>2. M \subseteq A \ T
    BY <1>4
  <2> HIDE DEF A, M
  <2>3. IsFiniteSet(A \ T) /\ Cardinality(A \ T) = Cardinality(A) - Cardinality(A \intersect T)
    BY <1>1, FS_Difference
  <2>4. A \intersect T = T
    BY <1>2
  <2>5. Cardinality(M) <= Cardinality(A \ T)
    BY <2>2, <2>3, FS_Subset
  <2>6. Cardinality(A) \in Nat /\ Cardinality(T) \in Nat
    BY <1>1, <1>2, FS_Subset, FS_CardinalityType
  <2>7. Cardinality(A \ T) = Cardinality(A) - Cardinality(T)
    BY <2>3, <2>4
  <2>8. v <= Cardinality(A) - Cardinality(T)
    BY <2>1, <2>5, <2>7
  <2> QED
    BY <1>1, <2>6, <2>8
<1> HIDE DEF A
<1>5. Cardinality(T) \in 0 .. Cardinality(C) * w
  <2>1. IsFiniteSet(T) /\ Cardinality(T) <= Cardinality(A)
    BY <1>1, <1>2, FS_Subset
  <2>2. Cardinality(T) \in Nat /\ Cardinality(C) \in Nat
    BY <2>1, FS_CardinalityType
  <2> QED
    BY <1>1, <2>1, <2>2
<1> QED
  BY <1>1, <1>3, <1>4, <1>5

\* A line of the report, as far as rounding lets it show what is amiss: c of d definitions
\* have a confirmed finding in C, and e is what each of these earns of w.
LineShows(score, maximum, e, w, C, c, d) ==
    /\ score \in 0 .. maximum
    /\ c = d /\ (\A f \in C : e[f] = w) => score = maximum
    /\ \A f \in C, v \in 1 .. w :
           e[f] <= w - v /\ d * w < 2 * (maximum * v) => score # maximum

LEMMA RatioIs ==
    ASSUME NEW C, C = Audit!Confirmed, IsFiniteSet(C), NEW c, c = Cardinality(C),
           NEW d \in Nat \ {0}, d = Cardinality(case.definitions), c <= d,
           NEW maximum \in Nat, NEW w \in Nat \ {0}, NEW e, \A f \in C : e[f] \in 0 .. w
    PROVE  LineShows(Audit!RatioScore(maximum, e, w), maximum, e, w, C, c, d)
<1> DEFINE T == {p \in C \X (1 .. w) : p[2] <= e[p[1]]}
           t == Cardinality(T)
           b == w * d
           n == maximum * t
<1>1. /\ t \in 0 .. c * w
      /\ (\A f \in C : e[f] = w) => t = c * w
      /\ \A f \in C, v \in 1 .. w : e[f] <= w - v => t <= c * w - v
  BY TotalIs
<1>2. Audit!RatioScore(maximum, e, w) = Audit!Rounded(n, b)
  BY AuditCount DEF Audit!RatioScore, Audit!Total
<1> HIDE DEF T, t
<1>3. c \in Nat
  BY FS_CardinalityType
<1>4. c * w <= b /\ (c = d => c * w = b) /\ b \in Nat \ {0} /\ b = d * w
  BY <1>3
<1> HIDE DEF b
<1>5. t \in Nat /\ t <= b
  BY <1>1, <1>3, <1>4
<1>6. n \in Nat /\ n <= maximum * b
  BY <1>4, <1>5
<1> HIDE DEF n
<1>7. /\ Audit!Rounded(n, b) \in 0 .. maximum
      /\ Audit!Rounded(n, b) = maximum <=> 2 * (maximum * b) <= 2 * n + b
  BY <1>4, <1>6, ShareIs
<1>8. ASSUME c = d, \A f \in C : e[f] = w
      PROVE  Audit!RatioScore(maximum, e, w) = maximum
  <2>1. n = maximum * b
    BY <1>1, <1>4, <1>8 DEF n
  <2>2. maximum * b \in Nat
    BY <1>4
  <2> QED
    BY <1>2, <1>4, <1>7, <2>1, <2>2
<1>9. ASSUME NEW f \in C, NEW v \in 1 .. w, e[f] <= w - v, d * w < 2 * (maximum * v)
      PROVE  Audit!RatioScore(maximum, e, w) # maximum
  <2>1. t + v <= b
    BY <1>1, <1>3, <1>4, <1>5, <1>9
  <2>2. maximum * (t + v) <= maximum * b
    BY <1>4, <1>5, <2>1
  <2>3. maximum * (t + v) = n + maximum * v
    BY <1>5 DEF n
  <2>4. maximum * v \in Nat /\ maximum * b \in Nat
    BY <1>4
  <2> QED
    BY <1>2, <1>4, <1>6, <1>7, <1>9, <2>2, <2>3, <2>4
<1> QED
  BY <1>2, <1>7, <1>8, <1>9 DEF LineShows

LEMMA ExactDivision ==
    ASSUME NEW n \in Nat, NEW d \in Nat \ {0}, n % d = 0
    PROVE  n \div d \in Nat /\ n = d * (n \div d)
OBVIOUS

\* What goes to the required items that are cited; each is worth q parts.
LEMMA SharesAre ==
    ASSUME NEW cited, NEW required, IsFiniteSet(required), required # {},
           case.parts \in Nat \ {0}, case.parts % Cardinality(required) = 0
    PROVE  /\ Audit!Share(cited, required) \in 0 .. case.parts
           /\ required \subseteq cited => Audit!Share(cited, required) = case.parts
           /\ ~(required \subseteq cited) =>
                  \E q \in 1 .. case.parts :
                      /\ case.parts = Cardinality(required) * q
                      /\ Audit!Share(cited, required) <= case.parts - q
<1> DEFINE parts == case.parts
           m == Cardinality(required)
           k == Cardinality(cited \intersect required)
           q == parts \div m
<1>1. m \in Nat \ {0}
  BY FS_CardinalityType, FS_EmptySet
<1>2. /\ k \in Nat /\ k <= m
      /\ k = m <=> required \subseteq cited
  <2>1. /\ IsFiniteSet(cited \intersect required)
        /\ k <= m
        /\ m = k => required = cited \intersect required
    BY FS_Subset
  <2>2. k \in Nat
    BY <2>1, FS_CardinalityType
  <2>3. required \subseteq cited => cited \intersect required = required
    OBVIOUS
  <2> QED
    BY <2>1, <2>2, <2>3
<1>3. Audit!Share(cited, required) = k * q
  BY AuditCount DEF Audit!Share
<1>4. q \in Nat /\ parts = m * q
  <2>1. parts \in Nat /\ parts % m = 0
    OBVIOUS
  <2> HIDE DEF m, parts
  <2> QED
    BY <1>1, <2>1, ExactDivision DEF q
<1> HIDE DEF m, k
<1> HIDE DEF q
<1>5. q \in 1 .. parts
  BY <1>1, <1>4
<1>6. k * q <= m * q /\ k * q \in Nat /\ (k = m => k * q = m * q)
  BY <1>1, <1>2, <1>5
<1>7. k # m => k * q <= m * q - q
  <2>1. k # m => (k + 1) * q <= m * q
    BY <1>1, <1>2, <1>5
  <2>2. (k + 1) * q = k * q + q
    BY <1>2, <1>5
  <2> QED
    BY <1>1, <1>2, <1>5, <2>1, <2>2
<1> QED
  BY <1>2, <1>3, <1>4, <1>5, <1>6, <1>7 DEF m

\* What the first lines count: the confirmed findings are about as many definitions.
LEMMA CountsAre ==
    ASSUME AuditInv, FindingsAreFinite, audit # Audit!NoAudit, CasesAreAuthored, case \in Cases,
           NEW d, NEW c, NEW u,
           d = Cardinality(case.definitions), c = Cardinality(Audit!Confirmed),
           u = Cardinality(Audit!Submitted \ Audit!Confirmed)
    PROVE  /\ IsFiniteSet(Audit!Confirmed) /\ Audit!Confirmed \subseteq Audit!Submitted
           /\ d \in Nat \ {0} /\ c \in 0 .. d /\ u \in Nat
           /\ Cardinality({audit.findings[f].matter : f \in Audit!Confirmed}) = c
           /\ \A f \in Audit!Confirmed : audit.findings[f].matter \in case.definitions
           /\ u = 0 <=> Audit!Submitted = Audit!Confirmed
           /\ c = d /\ u = 0 <=>
                  {audit.findings[f].matter : f \in Audit!Submitted} = case.definitions
<1> DEFINE S == Audit!Submitted
           C == Audit!Confirmed
           D == case.definitions
           h == [f \in C |-> audit.findings[f].matter]
           M == {audit.findings[f].matter : f \in C}
<1>1. IsFiniteSet(D) /\ d \in Nat \ {0}
  BY FS_CardinalityType, FS_EmptySet DEF CasesAreAuthored
<1>2. C \subseteq S /\ S \subseteq DOMAIN audit.findings
  BY DEF Audit!Submitted, Audit!Confirmed
<1>3. IsFiniteSet(S) /\ IsFiniteSet(C) /\ IsFiniteSet(S \ C)
  <2> HIDE DEF S, C
  <2>1. IsFiniteSet(DOMAIN audit.findings)
    BY DEF FindingsAreFinite
  <2>2. IsFiniteSet(S)
    BY <1>2, <2>1, FS_Subset
  <2> QED
    BY <1>2, <2>2, FS_Subset, FS_Difference
<1>4. c \in Nat /\ u \in Nat
  BY <1>3, FS_CardinalityType
<1>5. /\ \A f \in S : f \in C <=> audit.findings[f].matter \in D
      /\ \A f, g \in S : audit.findings[f].matter = audit.findings[g].matter => f = g
  <2>1. Audit!Replays
    BY DEF AuditInv
  <2> QED
    BY <2>1 DEF Audit!Confirmed, Audit!IsConfirmed, Audit!Replays
<1> HIDE DEF C, S, D
<1>6. h \in Injection(C, D) /\ M = {h[f] : f \in C}
  <2>1. h \in [C -> D]
    BY <1>2, <1>5
  <2>2. \A f, g \in C : h[f] = h[g] => f = g
    BY <1>2, <1>5
  <2> HIDE DEF h
  <2>3. h \in Injection(C, D)
    BY <2>1, <2>2 DEF Injection, IsInjective
  <2>4. M = {h[f] : f \in C}
    BY DEF h
  <2> QED
    BY <2>3, <2>4
<1>7. c <= d /\ (c = d <=> h \in Surjection(C, D))
  <2> HIDE DEF h
  <2> QED
    BY <1>1, <1>6, FS_Injection DEF C, D
<1>8. h \in Surjection(C, D) <=> M = D
  <2> HIDE DEF h, M
  <2> QED
    BY <1>6 DEF Surjection, Injection
<1>9. Cardinality(M) = c
  <2>1. h \in Bijection(C, M)
    <3> HIDE DEF h, M
    <3>1. h \in [C -> M]
      BY <1>6 DEF Injection
    <3> QED
      BY <1>6, <3>1 DEF Bijection, Injection, Surjection, IsInjective
  <2> HIDE DEF h, M
  <2>2. ExistsBijection(C, M)
    BY <2>1 DEF ExistsBijection
  <2> QED
    BY <1>3, <2>2, FS_Bijection DEF C
<1>10. u = 0 <=> S = C
  <2>1. u = 0 <=> S \ C = {}
    BY <1>3, FS_EmptySet DEF S, C
  <2> QED
    BY <1>2, <2>1
<1>11. {audit.findings[f].matter : f \in S} = D <=> S = C /\ M = D
  BY <1>2, <1>5
<1>12. \A f \in C : audit.findings[f].matter \in D
  BY <1>2, <1>5
<1> HIDE DEF M, h
<1>13. c = d /\ u = 0 <=> {audit.findings[f].matter : f \in S} = D
  BY <1>7, <1>8, <1>10, <1>11
<1> QED
  BY <1>1, <1>2, <1>3, <1>4, <1>7, <1>9, <1>10, <1>12, <1>13 DEF M, C, S, D

\* The four lines about how the confirmed findings are argued.
LEMMA ArgumentsAreGraded ==
    ASSUME CasesAreAuthored, case \in Cases, NEW C, C = Audit!Confirmed, IsFiniteSet(C),
           NEW c, c = Cardinality(C),
           NEW d \in Nat \ {0}, d = Cardinality(case.definitions), c <= d,
           \A f \in C : audit.findings[f].matter \in case.definitions,
           NEW evident, evident = Audit!RatioScore(15, Audit!EvidenceShares, case.parts),
           NEW ruled, ruled = Audit!RatioScore(10, Audit!PolicyShares, case.parts),
           NEW classed, classed = Audit!RatioScore(10, Audit!ClassificationShares, 5),
           NEW advised, advised = Audit!RatioScore(10, Audit!RecommendationShares, 1)
    PROVE  /\ evident \in 0 .. 15 /\ ruled \in 0 .. 10 /\ classed \in 0 .. 10 /\ advised \in 0 .. 10
           /\ c = d /\ (\A f \in C : Audit!IsExact(f)) =>
                  evident = 15 /\ ruled = 10 /\ classed = 10 /\ advised = 10
           /\ Audit!RoundingShows /\ evident = 15 /\ ruled = 10 /\ classed = 10 /\ advised = 10 =>
                  \A f \in C : Audit!IsExact(f)
<1> DEFINE E == Audit!EvidenceShares
           P == Audit!PolicyShares
           K == Audit!ClassificationShares
           R == Audit!RecommendationShares
           parts == case.parts
<1>1. /\ parts \in Nat \ {0}
      /\ \A f \in C : \A required \in {Audit!Required(f).evidence, Audit!Required(f).policies} :
             IsFiniteSet(required) /\ required # {} /\ parts % Cardinality(required) = 0
  BY DEF CasesAreAuthored, Audit!Required
<1>2. \A f \in C :
          /\ E[f] = Audit!Share(Audit!Argument(f).evidence, Audit!Required(f).evidence)
          /\ P[f] = Audit!Share(Audit!Argument(f).policies, Audit!Required(f).policies)
          /\ K[f] = (IF Audit!Argument(f).severity THEN 2 ELSE 0)
                    + (IF Audit!Argument(f).materiality THEN 1 ELSE 0)
                    + (IF Audit!Argument(f).rootCause THEN 2 ELSE 0)
          /\ R[f] = IF Audit!Argument(f).recommendation THEN 1 ELSE 0
  BY DEF Audit!EvidenceShares, Audit!PolicyShares, Audit!ClassificationShares,
         Audit!RecommendationShares
<1> HIDE DEF E, P, K, R
<1>3. \A f \in C :
          /\ E[f] \in 0 .. parts
          /\ Audit!Required(f).evidence \subseteq Audit!Argument(f).evidence => E[f] = parts
          /\ ~(Audit!Required(f).evidence \subseteq Audit!Argument(f).evidence) =>
                 \E q \in 1 .. parts : /\ parts = Cardinality(Audit!Required(f).evidence) * q
                                       /\ E[f] <= parts - q
  BY <1>1, <1>2, SharesAre
<1>4. \A f \in C :
          /\ P[f] \in 0 .. parts
          /\ Audit!Required(f).policies \subseteq Audit!Argument(f).policies => P[f] = parts
          /\ ~(Audit!Required(f).policies \subseteq Audit!Argument(f).policies) =>
                 \E q \in 1 .. parts : /\ parts = Cardinality(Audit!Required(f).policies) * q
                                       /\ P[f] <= parts - q
  BY <1>1, <1>2, SharesAre
<1>5. \A f \in C : LET a == Audit!Argument(f)
                   IN  /\ K[f] \in 0 .. 5
                       /\ a.severity /\ a.materiality /\ a.rootCause => K[f] = 5
                       /\ ~(a.severity /\ a.materiality /\ a.rootCause) => K[f] <= 5 - 1
  BY <1>2
<1>6. \A f \in C : /\ R[f] \in 0 .. 1
                   /\ Audit!Argument(f).recommendation => R[f] = 1
                   /\ ~Audit!Argument(f).recommendation => R[f] <= 1 - 1
  BY <1>2
<1>7. parts \in Nat \ {0} /\ parts = case.parts
  BY <1>1
<1>8. LineShows(evident, 15, E, parts, C, c, d)
  <2>1. \A f \in C : E[f] \in 0 .. parts
    BY <1>3
  <2>2. evident = Audit!RatioScore(15, E, parts)
    BY DEF E
  <2> HIDE DEF parts
  <2> QED
    BY <1>7, <2>1, <2>2, RatioIs
<1>9. LineShows(ruled, 10, P, parts, C, c, d)
  <2>1. \A f \in C : P[f] \in 0 .. parts
    BY <1>4
  <2>2. ruled = Audit!RatioScore(10, P, parts)
    BY DEF P
  <2> HIDE DEF parts
  <2> QED
    BY <1>7, <2>1, <2>2, RatioIs
<1>10. LineShows(classed, 10, K, 5, C, c, d)
  <2>1. \A f \in C : K[f] \in 0 .. 5
    BY <1>5
  <2>2. classed = Audit!RatioScore(10, K, 5)
    BY DEF K
  <2> HIDE DEF parts
  <2> QED
    BY <1>7, <2>1, <2>2, RatioIs
<1>11. LineShows(advised, 10, R, 1, C, c, d)
  <2>1. \A f \in C : R[f] \in 0 .. 1
    BY <1>6
  <2>2. advised = Audit!RatioScore(10, R, 1)
    BY DEF R
  <2> HIDE DEF parts
  <2> QED
    BY <1>7, <2>1, <2>2, RatioIs
<1>12. ASSUME c = d, \A f \in C : Audit!IsExact(f)
       PROVE  evident = 15 /\ ruled = 10 /\ classed = 10 /\ advised = 10
  <2>1. \A f \in C : E[f] = parts /\ P[f] = parts /\ K[f] = 5 /\ R[f] = 1
    BY <1>3, <1>4, <1>5, <1>6, <1>12 DEF Audit!IsExact
  <2> QED
    BY <1>8, <1>9, <1>10, <1>11, <1>12, <2>1 DEF LineShows
<1>13. ASSUME Audit!RoundingShows, evident = 15, ruled = 10, classed = 10, advised = 10,
              NEW f \in C
       PROVE  Audit!IsExact(f)
  <2> DEFINE m == audit.findings[f].matter
             n == Cardinality(case.required[m].evidence)
             o == Cardinality(case.required[m].policies)
  <2>1. /\ d < 4 /\ d * n < 30 /\ d * o < 20
        /\ n = Cardinality(Audit!Required(f).evidence) /\ o = Cardinality(Audit!Required(f).policies)
    BY <1>13, AuditCount DEF Audit!RoundingShows, Audit!Required
  <2>2. n \in Nat /\ o \in Nat
    BY <1>1, <2>1, FS_CardinalityType
  <2> HIDE DEF m, n, o
  <2>3. Audit!Required(f).evidence \subseteq Audit!Argument(f).evidence
    <3> SUFFICES ASSUME ~(Audit!Required(f).evidence \subseteq Audit!Argument(f).evidence)
                 PROVE  FALSE
      OBVIOUS
    <3>1. PICK q \in 1 .. parts : parts = n * q /\ E[f] <= parts - q
      BY <1>3, <2>1
    <3>2. d * parts = (d * n) * q
      BY <2>2, <3>1, <1>1
    <3>3. (d * n) * q < 30 * q
      BY <2>1, <2>2, <1>1, <3>1
    <3>4. d * parts < 2 * (15 * q)
      BY <3>1, <3>2, <3>3
    <3> QED
      BY <1>8, <1>13, <3>1, <3>4 DEF LineShows
  <2>4. Audit!Required(f).policies \subseteq Audit!Argument(f).policies
    <3> SUFFICES ASSUME ~(Audit!Required(f).policies \subseteq Audit!Argument(f).policies)
                 PROVE  FALSE
      OBVIOUS
    <3>1. PICK q \in 1 .. parts : parts = o * q /\ P[f] <= parts - q
      BY <1>4, <2>1
    <3>2. d * parts = (d * o) * q
      BY <2>2, <3>1, <1>1
    <3>3. (d * o) * q < 20 * q
      BY <2>1, <2>2, <1>1, <3>1
    <3>4. d * parts < 2 * (10 * q)
      BY <3>1, <3>2, <3>3
    <3> QED
      BY <1>9, <1>13, <3>1, <3>4 DEF LineShows
  <2>5. LET a == Audit!Argument(f) IN a.severity /\ a.materiality /\ a.rootCause
    BY <1>5, <1>10, <1>13, <2>1 DEF LineShows
  <2>6. Audit!Argument(f).recommendation
    BY <1>6, <1>11, <1>13, <2>1 DEF LineShows
  <2> QED
    BY <2>3, <2>4, <2>5, <2>6 DEF Audit!IsExact
<1> QED
  BY <1>8, <1>9, <1>10, <1>11, <1>12, <1>13 DEF LineShows

\* Perfect work has the whole grade; the whole grade says that everything was found, and is
\* for perfect work alone where rounding lets every fault show.
LEMMA AuditGradeIsSound ==
    ASSUME AuditInv, FindingsAreFinite, CasesAreAuthored,
           audit # Audit!NoAudit => case \in Cases
    PROVE  Audit!GradeIsSound
<1> SUFFICES ASSUME audit.status = "completed"
             PROVE  /\ \A l \in DOMAIN Audit!ScoreLines :
                           Audit!ScoreLines[l] \in 0 .. Audit!MaximumOf[l]
                    /\ Audit!IsPerfect => Audit!OfficialGrade = 100
                    /\ Audit!OfficialGrade = 100 =>
                           /\ Audit!Cardinality(case.definitions) < 50 => Audit!IsFound
                           /\ Audit!RoundingShows => Audit!IsPerfect
  BY DEF Audit!GradeIsSound
<1>1. audit # Audit!NoAudit
  BY DEF Audit!NoAudit, Audit!None
<1> DEFINE d == Cardinality(case.definitions)
           c == Cardinality(Audit!Confirmed)
           u == Cardinality(Audit!Submitted \ Audit!Confirmed)
           exact == \A f \in Audit!Confirmed : Audit!IsExact(f)
           right == audit.conclusion = "expected"
           found == Audit!Rounded(25 * c, d)
           cautious == Audit!Max({0, Audit!Rounded(30 - 15 * u, 2)})
           evident == Audit!RatioScore(15, Audit!EvidenceShares, case.parts)
           ruled == Audit!RatioScore(10, Audit!PolicyShares, case.parts)
           classed == Audit!RatioScore(10, Audit!ClassificationShares, 5)
           advised == Audit!RatioScore(10, Audit!RecommendationShares, 1)
           concluded == IF right THEN 15 ELSE 8
<1>2. /\ IsFiniteSet(Audit!Confirmed) /\ Audit!Confirmed \subseteq Audit!Submitted
      /\ d \in Nat \ {0} /\ c \in 0 .. d /\ u \in Nat
      /\ Cardinality({audit.findings[f].matter : f \in Audit!Confirmed}) = c
      /\ \A f \in Audit!Confirmed : audit.findings[f].matter \in case.definitions
      /\ u = 0 <=> Audit!Submitted = Audit!Confirmed
      /\ c = d /\ u = 0 <=>
             {audit.findings[f].matter : f \in Audit!Submitted} = case.definitions
  BY <1>1, CountsAre
<1>3. /\ Audit!IsFound <=> c = d /\ u = 0 /\ right
      /\ Audit!IsPerfect <=> c = d /\ u = 0 /\ right /\ exact
  BY <1>2 DEF Audit!IsPerfect, Audit!IsFound
<1>4. Audit!ScoreLines = [detection |-> found, caution |-> cautious, evidence |-> evident,
                          policy |-> ruled, classification |-> classed,
                          recommendation |-> advised, conclusion |-> concluded]
  BY <1>2, AuditCount DEF Audit!ScoreLines
<1>5. found \in 0 .. 25 /\ (c = d => found = 25) /\ (found = 25 /\ d < 50 => c = d)
  <2> HIDE DEF c, d
  <2>1. 25 * c \in Nat /\ d \in Nat \ {0} /\ 25 * c <= 25 * d
    BY <1>2
  <2>2. found \in 0 .. 25 /\ (found = 25 <=> 2 * (25 * d) <= 2 * (25 * c) + d)
    BY <2>1, ShareIs
  <2> HIDE DEF found
  <2> QED
    BY <1>2, <2>2
<1>6. cautious \in 0 .. 15 /\ (cautious = 15 <=> u = 0)
  <2> DEFINE r == Audit!Rounded(30 - 15 * u, 2)
  <2> HIDE DEF u
  <2>1. /\ r \in Int /\ r <= 15
        /\ r = 15 <=> u = 0
    BY <1>2 DEF Audit!Rounded
  <2> HIDE DEF r
  <2>2. Audit!Max({0, r}) = IF r >= 0 THEN r ELSE 0
    BY <2>1 DEF Audit!Max
  <2> QED
    BY <2>1, <2>2 DEF r
<1>7. /\ evident \in 0 .. 15 /\ ruled \in 0 .. 10 /\ classed \in 0 .. 10 /\ advised \in 0 .. 10
      /\ c = d /\ exact => evident = 15 /\ ruled = 10 /\ classed = 10 /\ advised = 10
      /\ Audit!RoundingShows /\ evident = 15 /\ ruled = 10 /\ classed = 10 /\ advised = 10 => exact
  <2> HIDE DEF evident, ruled, classed, advised, c, d
  <2>1. c <= d /\ case \in Cases
    BY <1>1, <1>2
  <2> QED
    BY <1>2, <2>1, ArgumentsAreGraded DEF evident, ruled, classed, advised, c, d
<1>8. concluded \in 0 .. 15 /\ (concluded = 15 <=> right)
  OBVIOUS
<1>9. Audit!OfficialGrade = found + cautious + evident + ruled + classed + advised + concluded
  <2> HIDE DEF found, cautious, evident, ruled, classed, advised, concluded
  <2> QED
    BY <1>4 DEF Audit!OfficialGrade
<1>10. /\ Audit!RoundingShows => d < 50
       /\ Audit!Cardinality(case.definitions) = d
  BY <1>2, AuditCount DEF Audit!RoundingShows
<1> HIDE DEF d, c, u, exact, right, found, cautious, evident, ruled, classed, advised, concluded
<1>11. Audit!OfficialGrade = 100 <=>
           /\ found = 25 /\ cautious = 15 /\ evident = 15 /\ ruled = 10 /\ classed = 10
           /\ advised = 10 /\ concluded = 15
  BY <1>5, <1>6, <1>7, <1>8, <1>9
<1>12. Audit!IsPerfect => Audit!OfficialGrade = 100
  BY <1>3, <1>5, <1>6, <1>7, <1>8, <1>11
<1>13. Audit!OfficialGrade = 100 => /\ d < 50 => Audit!IsFound
                                    /\ Audit!RoundingShows => Audit!IsPerfect
  BY <1>3, <1>5, <1>6, <1>7, <1>8, <1>10, <1>11
<1>14. \A l \in DOMAIN Audit!ScoreLines : Audit!ScoreLines[l] \in 0 .. Audit!MaximumOf[l]
  BY <1>4, <1>5, <1>6, <1>7, <1>8 DEF Audit!MaximumOf
<1> QED
  BY <1>10, <1>12, <1>13, <1>14

-----------------------------------------------------------------------------
(* The grade of a laboratory *)

LEMMA Percent ==
    ASSUME NEW a \in 0 .. 100, NEW p \in Nat \ {0}
    PROVE  /\ a * p \in 0 .. 100 * p
           /\ a * p = 100 * p <=> a = 100
<1>1. a # 100 => (a + 1) * p <= 100 * p
  OBVIOUS
<1>2. (a + 1) * p = a * p + p
  OBVIOUS
<1> QED
  BY <1>1, <1>2

\* All the points of a question are for the right answer at once, without the hint.
LEMMA FullFraction ==
    ASSUME NEW l, LabTypeOK(l), NEW i \in Lab!Indexes, NEW kd \in Lab!Kinds
    PROVE  Lab!Fraction(l, i, kd) = 100 <=>
               /\ Lab!Answers(l, i, kd) = <<TRUE>>
               /\ ~(kd = "INTERPRETATION" /\ i \in l.hinted)
<1> DEFINE q == Lab!Answers(l, i, kd)
           tries == Len(q)
           retries == CASE Lab!IsCorrect(l, i, kd) /\ tries = 1 -> 100
                        [] Lab!IsCorrect(l, i, kd) /\ tries = 2 -> 50
                        [] OTHER -> 0
           ceiling == IF kd = "INTERPRETATION" /\ i \in l.hinted THEN Modules[i].ceiling ELSE 100
<1>1. Modules[i].ceiling \in 0 .. 99
  BY LaboratoryAssumption DEF Lab!ModulesAreSound
<1>2. ceiling \in Nat /\ (ceiling >= 100 <=> ~(kd = "INTERPRETATION" /\ i \in l.hinted))
  BY <1>1
<1>3. retries \in Nat /\ retries <= 100
      /\ (retries = 100 <=> Lab!IsCorrect(l, i, kd) /\ tries = 1)
  OBVIOUS
<1>4. Lab!Fraction(l, i, kd) = Lab!Min({retries, ceiling})
  BY DEF Lab!Fraction
<1>5. q \in Seq(BOOLEAN)
  BY DEF LabTypeOK, Lab!Answers
<1>6. Lab!IsCorrect(l, i, kd) <=> \E n \in DOMAIN q : q[n]
  BY DEF Lab!IsCorrect
<1> HIDE DEF retries, ceiling, q
<1>7. Lab!Min({retries, ceiling}) = IF retries <= ceiling THEN retries ELSE ceiling
  BY <1>2, <1>3, LesserOf
<1>8. Lab!Fraction(l, i, kd) = 100 <=>
          Lab!IsCorrect(l, i, kd) /\ tries = 1 /\ ~(kd = "INTERPRETATION" /\ i \in l.hinted)
  BY <1>2, <1>3, <1>4, <1>7
<1>9. Lab!IsCorrect(l, i, kd) /\ tries = 1 <=> q = <<TRUE>>
  <2>1. ASSUME Lab!IsCorrect(l, i, kd), tries = 1
        PROVE  q = <<TRUE>>
    <3>1. DOMAIN q = {1}
      BY <1>5, <2>1
    <3>2. q[1] = TRUE
      BY <1>5, <1>6, <2>1, <3>1
    <3>3. <<TRUE>> \in Seq(BOOLEAN) /\ Len(<<TRUE>>) = 1 /\ <<TRUE>>[1] = TRUE
      OBVIOUS
    <3>4. \A k \in 1 .. Len(q) : q[k] = <<TRUE>>[k]
      <4>1. Len(q) = 1
        BY <2>1
      <4>2. \A k \in 1 .. Len(q) : k = 1
        BY <4>1
      <4> QED
        BY <3>2, <3>3, <4>2
    <3> QED
      BY <1>5, <2>1, <3>3, <3>4, SeqEqual
  <2>2. ASSUME q = <<TRUE>>
        PROVE  Lab!IsCorrect(l, i, kd) /\ tries = 1
    <3>1. 1 \in DOMAIN q /\ q[1] /\ Len(q) = 1
      BY <2>2
    <3> QED
      BY <1>6, <3>1
  <2> QED
    BY <2>1, <2>2
<1> QED
  BY <1>8, <1>9 DEF q

\* All the points of a module are for an experiment that is complete, the right answers
\* at once, and no hint.
LEMMA ModuleIsFull ==
    ASSUME NEW l, LabTypeOK(l), NEW i \in Lab!Indexes, ModuleReplays(l, i)
    PROVE  /\ Lab!ModuleScore(l, i) \in Nat /\ Lab!MaximumOf(i) \in Nat
           /\ Lab!ModuleScore(l, i) <= Lab!MaximumOf(i)
           /\ Lab!ModuleScore(l, i) = Lab!MaximumOf(i) <=>
                  /\ i \notin l.hinted
                  /\ \A kd \in Lab!Kinds : Lab!Answers(l, i, kd) = <<TRUE>>
<1> DEFINE e == Modules[i].experiment
           p == Modules[i].points["INTERPRETATION"]
           r == Modules[i].points["APPLICATION"]
           a == Lab!Fraction(l, i, "INTERPRETATION")
           b == Lab!Fraction(l, i, "APPLICATION")
           ex == IF Lab!ExperimentIsComplete(l, i) THEN 100 * e ELSE 0
           answered == \A kd \in Lab!Kinds : Lab!Answers(l, i, kd) = <<TRUE>>
<1>1. e \in Nat /\ p \in Nat \ {0} /\ r \in Nat \ {0}
  BY LaboratoryAssumption DEF Lab!ModulesAreSound, Lab!Kinds
<1>2. a \in 0 .. 100 /\ b \in 0 .. 100
  BY FractionIs DEF Lab!Kinds
<1>3. a = 100 /\ b = 100 <=> i \notin l.hinted /\ answered
  <2>1. a = 100 <=> Lab!Answers(l, i, "INTERPRETATION") = <<TRUE>> /\ i \notin l.hinted
    BY FullFraction DEF Lab!Kinds
  <2>2. b = 100 <=> Lab!Answers(l, i, "APPLICATION") = <<TRUE>>
    BY FullFraction DEF Lab!Kinds
  <2>3. answered <=> /\ Lab!Answers(l, i, "INTERPRETATION") = <<TRUE>>
                     /\ Lab!Answers(l, i, "APPLICATION") = <<TRUE>>
    BY DEF Lab!Kinds
  <2> HIDE DEF a, b, answered
  <2> QED
    BY <2>1, <2>2, <2>3
<1>4. answered => Lab!ExperimentIsComplete(l, i)
  <2>1. answered => Lab!Answers(l, i, "INTERPRETATION") # << >>
    BY DEF Lab!Kinds
  <2> QED
    BY <2>1 DEF ModuleReplays, Lab!Kinds
<1>5. Lab!ModuleScore(l, i) = ex + a * p + b * r
  BY DEF Lab!ModuleScore, Lab!Earned
<1>6. Lab!MaximumOf(i) = 100 * e + 100 * p + 100 * r
  BY <1>1 DEF Lab!MaximumOf
<1>7. ex \in 0 .. 100 * e /\ (Lab!ExperimentIsComplete(l, i) => ex = 100 * e)
  BY <1>1
<1>8. /\ a * p \in 0 .. 100 * p /\ (a * p = 100 * p <=> a = 100)
      /\ b * r \in 0 .. 100 * r /\ (b * r = 100 * r <=> b = 100)
  <2> HIDE DEF a, b, p, r
  <2>1. a * p \in 0 .. 100 * p /\ (a * p = 100 * p <=> a = 100)
    BY <1>1, <1>2, Percent
  <2>2. b * r \in 0 .. 100 * r /\ (b * r = 100 * r <=> b = 100)
    BY <1>1, <1>2, Percent
  <2> QED
    BY <2>1, <2>2
<1>9. 100 * e \in Nat /\ 100 * p \in Nat /\ 100 * r \in Nat
  BY <1>1
<1> DEFINE x == a * p
           y == b * r
           u == 100 * e
           v == 100 * p
           w == 100 * r
<1>10. /\ ex \in 0 .. u /\ x \in 0 .. v /\ y \in 0 .. w
       /\ u \in Nat /\ v \in Nat /\ w \in Nat
       /\ Lab!ModuleScore(l, i) = ex + x + y /\ Lab!MaximumOf(i) = u + v + w
       /\ x = v <=> a = 100
       /\ y = w <=> b = 100
       /\ Lab!ExperimentIsComplete(l, i) => ex = u
  BY <1>5, <1>6, <1>7, <1>8, <1>9
<1> HIDE DEF e, p, r, a, b, ex, x, y, u, v, w, answered
<1>11. /\ Lab!ModuleScore(l, i) \in Nat /\ Lab!MaximumOf(i) \in Nat
       /\ Lab!ModuleScore(l, i) <= Lab!MaximumOf(i)
       /\ Lab!ModuleScore(l, i) = Lab!MaximumOf(i) <=> ex = u /\ x = v /\ y = w
  BY <1>10
<1>12. Lab!ModuleScore(l, i) = Lab!MaximumOf(i) <=> i \notin l.hinted /\ answered
  BY <1>3, <1>4, <1>10, <1>11
<1> QED
  BY <1>11, <1>12 DEF answered

LEMMA LabGradeIsSound ==
    ASSUME LabInv
    PROVE  Lab!GradeIsSound
<1> SUFFICES ASSUME lab # Lab!NoLab
             PROVE  /\ Lab!TotalScore(lab) \in 0 .. Lab!MaximumScore
                    /\ Lab!TotalScore(lab) = Lab!MaximumScore <=>
                           /\ lab.hinted = {}
                           /\ \A i \in Lab!Indexes, kd \in Lab!Kinds :
                                  Lab!Answers(lab, i, kd) = <<TRUE>>
  BY DEF Lab!GradeIsSound
<1>1. LabTypeOK(lab) /\ \A i \in Lab!Indexes : ModuleReplays(lab, i)
  BY DEF LabInv
<1> DEFINE s == [i \in Lab!Indexes |-> Lab!ModuleScore(lab, i)]
           t == [i \in Lab!Indexes |-> Lab!MaximumOf(i)]
           full(i) == i \notin lab.hinted
                      /\ \A kd \in Lab!Kinds : Lab!Answers(lab, i, kd) = <<TRUE>>
<1>2. \A i \in Lab!Indexes :
          /\ s[i] \in Nat /\ t[i] \in Nat /\ s[i] <= t[i]
          /\ s[i] = t[i] <=> full(i)
  <2> TAKE i \in Lab!Indexes
  <2>1. s[i] = Lab!ModuleScore(lab, i) /\ t[i] = Lab!MaximumOf(i)
    OBVIOUS
  <2>2. ModuleReplays(lab, i)
    BY <1>1
  <2> HIDE DEF s, t
  <2> QED
    BY <1>1, <2>1, <2>2, ModuleIsFull
<1>3. Lab!TotalScore(lab) = Lab!SumOf(s) /\ Lab!MaximumScore = Lab!SumOf(t)
  BY DEF Lab!TotalScore, Lab!MaximumScore
<1> HIDE DEF s, t
<1>4. /\ Lab!SumOf(s) \in Nat /\ Lab!SumOf(t) \in Nat /\ Lab!SumOf(s) <= Lab!SumOf(t)
      /\ Lab!SumOf(s) = Lab!SumOf(t) <=> \A i \in Lab!Indexes : s[i] = t[i]
  BY <1>2, SumCompares
<1>5. (\A i \in Lab!Indexes : s[i] = t[i]) <=> (\A i \in Lab!Indexes : full(i))
  BY <1>2
<1>6. lab.hinted \subseteq Lab!Indexes
  BY <1>1 DEF LabTypeOK
<1>7. (\A i \in Lab!Indexes : full(i)) <=>
          /\ lab.hinted = {}
          /\ \A i \in Lab!Indexes, kd \in Lab!Kinds : Lab!Answers(lab, i, kd) = <<TRUE>>
  BY <1>6
<1>8. Lab!TotalScore(lab) = Lab!MaximumScore <=> \A i \in Lab!Indexes : full(i)
  BY <1>3, <1>4, <1>5
<1>9. Lab!TotalScore(lab) \in 0 .. Lab!MaximumScore
  BY <1>3, <1>4
<1> HIDE DEF full
<1> QED
  BY <1>7, <1>8, <1>9

-----------------------------------------------------------------------------
(* The grade of a coffee journey *)

\* How the discrepancy can have been dealt with at a step.
MitigationsAt(step) ==
    CASE step \in {"certificate-evidence", "certificate-decision", "certificate-transaction",
                   "custody-proposal", "custody-endorsement", "custody-commit",
                   "transport-transaction", "receipt-transaction", "ownership-transaction",
                   "discrepancy-decision"} -> {"none"}
      [] step = "discrepancy-mitigation" -> {"required"}
      [] OTHER -> {"not-required", "completed"}

\* The steps a refused recall can be behind.
AfterRecall == {"recall-handoff", "recall-authorized-transaction",
                "blockchain-necessity-decision", "complete"}

Recalls(j) == {i \in DOMAIN j.refused : j.refused[i] = "RECALL_BATCH"}

\* What a journey has to show for itself at a step: every question before it answered,
\* the handover of custody only as it should be, the discrepancy dealt with, and a recall
\* refused at most once.
MeritAt(j, step) ==
    /\ DOMAIN j.answers = AnsweredBefore(step)
    /\ "CUSTODY_SCOPE" \in DOMAIN j.answers => j.answers["CUSTODY_SCOPE"] = TRUE
    /\ j.mitigation \in MitigationsAt(step)
    /\ \E k : Recalls(j) \subseteq {k}
    /\ step \notin AfterRecall => Recalls(j) = {}

\* A journey that ends with a refused certificate has nothing to show.
MeritsCount ==
    journey # Coffee!NoJourney /\ (journey.step = "complete" => journey.chain # << >>) =>
        MeritAt(journey, journey.step)

\* Nothing that counts happens between the two steps.
Alike(s, t) ==
    /\ AnsweredBefore(s) = AnsweredBefore(t)
    /\ MitigationsAt(s) \subseteq MitigationsAt(t)
    /\ s \in AfterRecall => t \in AfterRecall

LEMMA MeritStays ==
    ASSUME NEW s, NEW t, MeritAt(journey, s), Alike(s, t), journey'.step = t,
           journey'.answers = journey.answers, journey'.mitigation = journey.mitigation,
           journey'.refused = journey.refused
    PROVE  MeritsCount'
<1>1. Recalls(journey') = Recalls(journey)
  BY DEF Recalls
<1>2. MeritAt(journey', t)
  BY <1>1 DEF MeritAt, Alike
<1> QED
  BY <1>2 DEF MeritsCount

LEMMA CommandMerits ==
    ASSUME CoffeeInv, MeritsCount, NEW s, Coffee!Command(s), s # "complete"
    PROVE  /\ journey = [f \in JourneyFields |-> journey[f]] /\ journey.step = s
           /\ MeritAt(journey, s)
<1>1. journey # Coffee!NoJourney /\ journey.step = s
  BY DEF Coffee!Command, Coffee!MayCommand, Coffee!IsActive, Coffee!NoJourney
<1> QED
  BY <1>1 DEF CoffeeInv, MeritsCount

\* The steps between which nothing that counts happens.
LEMMA AlikeSteps ==
    /\ Alike("certificate-evidence", "certificate-decision")
    /\ Alike("certificate-decision", "certificate-decision")
    /\ Alike("certificate-transaction", "custody-proposal")
    /\ Alike("custody-endorsement", "custody-commit")
    /\ Alike("custody-commit", "transport-transaction")
    /\ Alike("transport-transaction", "receipt-transaction")
    /\ Alike("receipt-transaction", "ownership-transaction")
    /\ Alike("ownership-transaction", "discrepancy-decision")
    /\ Alike("correction-proposal", "correction-endorsement")
    /\ Alike("correction-endorsement", "correction-commit")
    /\ Alike("correction-commit", "transformation-transaction")
    /\ Alike("transformation-transaction", "transformation-knowledge")
    /\ Alike("packaging-transaction", "distribution-ownership-transaction")
    /\ Alike("distribution-ownership-transaction", "dispatch-transaction")
    /\ Alike("dispatch-transaction", "tamper-demonstration")
    /\ Alike("tamper-demonstration", "tamper-knowledge")
    /\ Alike("recall-transaction", "recall-authorized-transaction")
    /\ Alike("recall-handoff", "recall-authorized-transaction")
    /\ Alike("recall-transaction", "blockchain-necessity-decision")
    /\ Alike("recall-authorized-transaction", "blockchain-necessity-decision")
BY DEF Alike, AnsweredBefore, MitigationsAt, AfterRecall

\* A transaction is accepted where the route makes it, and counts for itself.
LEMMA ExecutionMerits ==
    ASSUME CoffeeInv, MeritsCount, NEW step, NEW action, NEW role, NEW rules, NEW next,
           NEW nextRole, NEW expected, Executes(step, action, expected, next, nextRole),
           Coffee!Execute(step, action, role, rules, next, nextRole), Alike(step, next),
           step # "complete"
    PROVE  MeritsCount'
<1>1. PICK r, n : Stands(step, r, n)
  BY CommandStands DEF Coffee!Execute
<1>2. Coffee!IsAccepted(action)
  BY <1>1 DEF Executes, Stands, Coffee!IsAccepted
<1>3. journey = [f \in JourneyFields |-> journey[f]] /\ MeritAt(journey, step)
  BY CommandMerits DEF Coffee!Execute
<1> DEFINE filed == Append(Coffee!Scripted(journey.chain), action)
           scripted == [journey EXCEPT !.chain = Coffee!Scripted(journey.chain)]
           l == [scripted EXCEPT !.chain = Append(scripted.chain, action)]
<1>4. journey' = Coffee!GoTo(Coffee!Observe(l, rules), next, nextRole)
  BY <1>2, <1>3 DEF Coffee!Execute
<1>5. /\ l = [f \in JourneyFields |-> l[f]] /\ l.answers = journey.answers
      /\ l.mitigation = journey.mitigation /\ l.refused = journey.refused
  BY <1>3 DEF JourneyFields
<1> HIDE DEF l
<1>6. /\ journey'.step = next /\ journey'.answers = journey.answers
      /\ journey'.mitigation = journey.mitigation /\ journey'.refused = journey.refused
  BY <1>4, <1>5 DEF Coffee!GoTo, Coffee!Observe, JourneyFields
<1> QED
  BY <1>3, <1>6, MeritStays

LEMMA TransactionsMerit ==
    ASSUME CoffeeInv, MeritsCount,
           \/ Coffee!RecordTransportCondition \/ Coffee!ReceiveBatch \/ Coffee!PurchaseOnReceipt
           \/ Coffee!TransformBatch \/ Coffee!PackageBatch
           \/ Coffee!TransferDistributionOwnership \/ Coffee!DispatchBatch
    PROVE  MeritsCount'
<1>1. CASE Coffee!RecordTransportCondition
  BY <1>1, TransactionsAreAuthorized, AlikeSteps, ExecutionMerits
  DEF Coffee!RecordTransportCondition
<1>2. CASE Coffee!ReceiveBatch
  BY <1>2, TransactionsAreAuthorized, AlikeSteps, ExecutionMerits DEF Coffee!ReceiveBatch
<1>3. CASE Coffee!PurchaseOnReceipt
  BY <1>3, TransactionsAreAuthorized, AlikeSteps, ExecutionMerits DEF Coffee!PurchaseOnReceipt
<1>4. CASE Coffee!TransformBatch
  <2>1. PICK rules : Coffee!Execute("transformation-transaction", "TRANSFORM_BATCH", "PROCESSOR",
                                    rules, "transformation-knowledge", journey.context)
    BY <1>4 DEF Coffee!TransformBatch
  <2>2. journey.context = "PROCESSOR"
    BY <2>1 DEF Coffee!Execute
  <2>3. Coffee!Execute("transformation-transaction", "TRANSFORM_BATCH", "PROCESSOR",
                       rules, "transformation-knowledge", "PROCESSOR")
    BY <2>1, <2>2
  <2> QED
    BY <2>3, TransactionsAreAuthorized, AlikeSteps, ExecutionMerits
<1>5. CASE Coffee!PackageBatch
  <2>1. PICK rules : Coffee!Execute("packaging-transaction", "PACKAGE_BATCH", "PROCESSOR",
                                    rules, "distribution-ownership-transaction", journey.context)
    BY <1>5 DEF Coffee!PackageBatch
  <2>2. journey.context = "PROCESSOR"
    BY <2>1 DEF Coffee!Execute
  <2>3. Coffee!Execute("packaging-transaction", "PACKAGE_BATCH", "PROCESSOR",
                       rules, "distribution-ownership-transaction", "PROCESSOR")
    BY <2>1, <2>2
  <2> QED
    BY <2>3, TransactionsAreAuthorized, AlikeSteps, ExecutionMerits
<1>6. CASE Coffee!TransferDistributionOwnership
  BY <1>6, TransactionsAreAuthorized, AlikeSteps, ExecutionMerits
  DEF Coffee!TransferDistributionOwnership
<1>7. CASE Coffee!DispatchBatch
  BY <1>7, TransactionsAreAuthorized, AlikeSteps, ExecutionMerits DEF Coffee!DispatchBatch
<1> QED
  BY <1>1, <1>2, <1>3, <1>4, <1>5, <1>6, <1>7

\* The commands that count for nothing.
LEMMA RoutineMerits ==
    ASSUME CoffeeInv, MeritsCount,
           \/ Coffee!InspectEvidence \/ (\E p \in CoffeePolicies : Coffee!ConsultPolicy(p))
           \/ Coffee!EndorseCustody \/ Coffee!CommitCustody
           \/ Coffee!CreateCorrectionProposal \/ Coffee!EndorseCorrection
           \/ Coffee!CommitCorrection \/ Coffee!RunTamperDemonstration
           \/ Coffee!RequestRecallHandoff
    PROVE  MeritsCount'
<1>1. CASE Coffee!InspectEvidence
  <2>1. /\ journey = [f \in JourneyFields |-> journey[f]]
        /\ MeritAt(journey, "certificate-evidence")
    BY <1>1, CommandMerits DEF Coffee!InspectEvidence
  <2>2. /\ journey'.step = "certificate-decision" /\ journey'.answers = journey.answers
        /\ journey'.mitigation = journey.mitigation /\ journey'.refused = journey.refused
    BY <1>1, <2>1 DEF Coffee!InspectEvidence, Coffee!GoTo, Coffee!Observe, JourneyFields
  <2> QED
    BY <2>1, <2>2, AlikeSteps, MeritStays
<1>2. CASE Coffee!EndorseCustody
  <2>1. /\ journey = [f \in JourneyFields |-> journey[f]]
        /\ MeritAt(journey, "custody-endorsement")
    BY <1>2, CommandMerits DEF Coffee!EndorseCustody
  <2>2. /\ journey'.step = "custody-commit" /\ journey'.answers = journey.answers
        /\ journey'.mitigation = journey.mitigation /\ journey'.refused = journey.refused
    BY <1>2, <2>1 DEF Coffee!EndorseCustody, Coffee!GoTo, Coffee!Observe, JourneyFields
  <2> QED
    BY <2>1, <2>2, AlikeSteps, MeritStays
<1>3. CASE Coffee!CommitCustody
  <2>1. /\ journey = [f \in JourneyFields |-> journey[f]]
        /\ MeritAt(journey, "custody-commit")
    BY <1>3, CommandMerits DEF Coffee!CommitCustody
  <2>2. /\ journey'.step = "transport-transaction" /\ journey'.answers = journey.answers
        /\ journey'.mitigation = journey.mitigation /\ journey'.refused = journey.refused
    BY <1>3, <2>1 DEF Coffee!CommitCustody, Coffee!GoTo, Coffee!Observe, JourneyFields
  <2> QED
    BY <2>1, <2>2, AlikeSteps, MeritStays
<1>4. CASE Coffee!CreateCorrectionProposal
  <2>1. /\ journey = [f \in JourneyFields |-> journey[f]]
        /\ MeritAt(journey, "correction-proposal")
    BY <1>4, CommandMerits DEF Coffee!CreateCorrectionProposal
  <2>2. /\ journey'.step = "correction-endorsement" /\ journey'.answers = journey.answers
        /\ journey'.mitigation = journey.mitigation /\ journey'.refused = journey.refused
    BY <1>4, <2>1 DEF Coffee!CreateCorrectionProposal, Coffee!GoTo, Coffee!Observe, JourneyFields
  <2> QED
    BY <2>1, <2>2, AlikeSteps, MeritStays
<1>5. CASE Coffee!EndorseCorrection
  <2>1. /\ journey = [f \in JourneyFields |-> journey[f]]
        /\ MeritAt(journey, "correction-endorsement")
    BY <1>5, CommandMerits DEF Coffee!EndorseCorrection
  <2>2. /\ journey'.step = "correction-commit" /\ journey'.answers = journey.answers
        /\ journey'.mitigation = journey.mitigation /\ journey'.refused = journey.refused
    BY <1>5, <2>1 DEF Coffee!EndorseCorrection, Coffee!GoTo, Coffee!Observe, JourneyFields
  <2> QED
    BY <2>1, <2>2, AlikeSteps, MeritStays
<1>6. CASE Coffee!CommitCorrection
  <2>1. /\ journey = [f \in JourneyFields |-> journey[f]]
        /\ MeritAt(journey, "correction-commit")
    BY <1>6, CommandMerits DEF Coffee!CommitCorrection
  <2>2. /\ journey'.step = "transformation-transaction" /\ journey'.answers = journey.answers
        /\ journey'.mitigation = journey.mitigation /\ journey'.refused = journey.refused
    BY <1>6, <2>1 DEF Coffee!CommitCorrection, Coffee!GoTo, Coffee!Observe, JourneyFields
  <2> QED
    BY <2>1, <2>2, AlikeSteps, MeritStays
<1>7. CASE Coffee!RunTamperDemonstration
  <2>1. /\ journey = [f \in JourneyFields |-> journey[f]]
        /\ MeritAt(journey, "tamper-demonstration")
    BY <1>7, CommandMerits DEF Coffee!RunTamperDemonstration
  <2>2. /\ journey'.step = "tamper-knowledge" /\ journey'.answers = journey.answers
        /\ journey'.mitigation = journey.mitigation /\ journey'.refused = journey.refused
    BY <1>7, <2>1 DEF Coffee!RunTamperDemonstration, Coffee!GoTo, Coffee!Observe, JourneyFields
  <2> QED
    BY <2>1, <2>2, AlikeSteps, MeritStays
<1>8. ASSUME NEW p, Coffee!ConsultPolicy(p)
      PROVE  MeritsCount'
  <2>1. /\ journey = [f \in JourneyFields |-> journey[f]]
        /\ journey.step = "certificate-decision" /\ MeritAt(journey, "certificate-decision")
    BY <1>8, CommandMerits DEF Coffee!ConsultPolicy
  <2>2. /\ journey'.step = "certificate-decision" /\ journey'.answers = journey.answers
        /\ journey'.mitigation = journey.mitigation /\ journey'.refused = journey.refused
    BY <1>8, <2>1 DEF Coffee!ConsultPolicy, JourneyFields
  <2> QED
    BY <2>1, <2>2, AlikeSteps, MeritStays
<1>9. CASE Coffee!RequestRecallHandoff
  <2>1. PICK s \in {"recall-transaction", "recall-handoff"} : Coffee!Command(s)
    BY <1>9 DEF Coffee!RequestRecallHandoff
  <2>2. journey = [f \in JourneyFields |-> journey[f]] /\ MeritAt(journey, s)
    BY <2>1, CommandMerits
  <2>3. /\ journey'.step = "recall-authorized-transaction" /\ journey'.answers = journey.answers
        /\ journey'.mitigation = journey.mitigation /\ journey'.refused = journey.refused
    BY <1>9, <2>2 DEF Coffee!RequestRecallHandoff, Coffee!GoTo, JourneyFields
  <2> QED
    BY <2>1, <2>2, <2>3, AlikeSteps, MeritStays
<1> QED
  BY <1>1, <1>2, <1>3, <1>4, <1>5, <1>6, <1>7, <1>8, <1>9

LEMMA CertificateTransactionMerits ==
    ASSUME CoffeeInv, MeritsCount, Coffee!SubmitCertificateTransaction
    PROVE  MeritsCount'
<1>1. /\ journey = [f \in JourneyFields |-> journey[f]]
      /\ MeritAt(journey, "certificate-transaction")
  BY CommandMerits DEF Coffee!SubmitCertificateTransaction
<1>2. CASE variant = "authorized" /\ Coffee!IsAccepted("ISSUE_CERTIFICATE")
  <2>1. /\ journey'.step = "custody-proposal" /\ journey'.answers = journey.answers
        /\ journey'.mitigation = journey.mitigation /\ journey'.refused = journey.refused
    BY <1>1, <1>2 DEF Coffee!SubmitCertificateTransaction, Coffee!GoTo, JourneyFields
  <2> QED
    BY <1>1, <2>1, AlikeSteps, MeritStays
<1>3. CASE ~(variant = "authorized" /\ Coffee!IsAccepted("ISSUE_CERTIFICATE"))
  <2>1. PICK r, n : Stands("certificate-transaction", r, n)
    BY CommandStands DEF Coffee!SubmitCertificateTransaction
  <2>2. journey.chain = << >>
    <3>1. n = 0
      BY <2>1 DEF Stands, Stations
    <3>2. Coffee!Written(0) = << >>
      BY ScriptIs DEF Coffee!Written
    <3> QED
      BY <2>1, <3>1, <3>2 DEF Stands
  <2>3. journey'.step = "complete" /\ journey'.chain = journey.chain
    BY <1>1, <1>3
    DEF Coffee!SubmitCertificateTransaction, Coffee!GoTo, Coffee!Observe, JourneyFields
  <2> QED
    BY <2>2, <2>3 DEF MeritsCount
<1> QED
  BY <1>2, <1>3

\* Only a recall that is turned down adds to the refused recalls.
LEMMA RecallsAdd ==
    ASSUME NEW j, NEW l, j.refused \in Seq(MayBeRefused), NEW x \in MayBeRefused,
           l.refused = Append(j.refused, x)
    PROVE  /\ x # "RECALL_BATCH" => Recalls(l) = Recalls(j)
           /\ x = "RECALL_BATCH" => Recalls(l) = Recalls(j) \union {Len(j.refused) + 1}
<1> DEFINE q == j.refused
           n == Len(q) + 1
<1>1. /\ DOMAIN q = 1 .. Len(q) /\ Len(q) \in Nat
      /\ DOMAIN Append(q, x) = 1 .. n
      /\ \A i \in 1 .. Len(q) : Append(q, x)[i] = q[i]
      /\ Append(q, x)[n] = x
  OBVIOUS
<1>2. 1 .. n = 1 .. Len(q) \union {n} /\ n \notin 1 .. Len(q)
  BY <1>1
<1> HIDE DEF n, q
<1>3. Recalls(l) = {i \in 1 .. n : Append(q, x)[i] = "RECALL_BATCH"}
  BY <1>1 DEF Recalls, q
<1>4. Recalls(j) = {i \in 1 .. Len(q) : q[i] = "RECALL_BATCH"}
  BY <1>1 DEF Recalls, q
<1> QED
  BY <1>1, <1>2, <1>3, <1>4, Zenon DEF n, q

\* An answer, given at its step.
LEMMA AnswerMerits ==
    ASSUME NEW s, NEW t, NEW D, MeritAt(journey, s), journey'.step = t,
           DOMAIN journey'.answers = DOMAIN journey.answers \union D,
           \A d \in DOMAIN journey.answers \ D : journey'.answers[d] = journey.answers[d],
           "CUSTODY_SCOPE" \in D => journey'.answers["CUSTODY_SCOPE"] = TRUE,
           journey'.mitigation = journey.mitigation, journey'.refused = journey.refused,
           AnsweredBefore(t) = AnsweredBefore(s) \union D,
           MitigationsAt(s) \subseteq MitigationsAt(t), s \in AfterRecall => t \in AfterRecall
    PROVE  MeritsCount'
<1>1. Recalls(journey') = Recalls(journey)
  BY DEF Recalls
<1>2. MeritAt(journey', t)
  BY <1>1, Zenon DEF MeritAt
<1> QED
  BY <1>2 DEF MeritsCount

\* What an answer leaves.
LEMMA Answered ==
    ASSUME NEW j, j = [f \in JourneyFields |-> j[f]], NEW d, NEW c, NEW l,
           l = Coffee!Answer(j, d, c)
    PROVE  /\ l = [f \in JourneyFields |-> l[f]]
           /\ DOMAIN l.answers = DOMAIN j.answers \union {d} /\ l.answers[d] = c
           /\ \A x \in DOMAIN j.answers \ {d} : l.answers[x] = j.answers[x]
           /\ l.mitigation = j.mitigation /\ l.refused = j.refused
<1> DEFINE a == [x \in DOMAIN j.answers \union {d} |-> IF x = d THEN c ELSE j.answers[x]]
           m == [j EXCEPT !.answers = a]
<1>1. Coffee!Answer(j, d, c) = m
  BY DEF Coffee!Answer
<1>2. /\ DOMAIN a = DOMAIN j.answers \union {d} /\ a[d] = c
      /\ \A x \in DOMAIN j.answers \ {d} : a[x] = j.answers[x]
  OBVIOUS
<1> HIDE DEF a
<1>3. /\ m = [f \in JourneyFields |-> m[f]] /\ m.answers = a
      /\ m.mitigation = j.mitigation /\ m.refused = j.refused
  BY DEF JourneyFields
<1> HIDE DEF m
<1> QED
  BY <1>1, <1>2, <1>3

LEMMA Observed ==
    ASSUME NEW j, j = [f \in JourneyFields |-> j[f]], NEW rules, NEW l,
           l = Coffee!Observe(j, rules)
    PROVE  /\ l = [f \in JourneyFields |-> l[f]] /\ l.answers = j.answers
           /\ l.mitigation = j.mitigation /\ l.refused = j.refused
BY DEF Coffee!Observe, JourneyFields

LEMMA CertificateDecisionMerits ==
    ASSUME CoffeeInv, MeritsCount, NEW storage, NEW issuer, NEW cited,
           Coffee!SubmitCertificateDecision(storage, issuer, cited)
    PROVE  MeritsCount'
<1> DEFINE s == "certificate-decision"
           t == "certificate-transaction"
           D == {"STORAGE_CHOICE", "ISSUER_CHECK"}
           a == Coffee!Answer(journey, "STORAGE_CHOICE", storage)
           b == Coffee!Answer(a, "ISSUER_CHECK", issuer)
           l == Coffee!Observe(b, {"CERTIFICATE_DECISION_SUBMITTED"})
<1>1. /\ journey = [f \in JourneyFields |-> journey[f]] /\ MeritAt(journey, s)
      /\ journey' = Coffee!GoTo(l, t, journey.context)
  BY CommandMerits DEF Coffee!SubmitCertificateDecision
<1>a. /\ a = Coffee!Answer(journey, "STORAGE_CHOICE", storage)
      /\ b = Coffee!Answer(a, "ISSUER_CHECK", issuer)
      /\ l = Coffee!Observe(b, {"CERTIFICATE_DECISION_SUBMITTED"})
  OBVIOUS
<1> HIDE DEF a, b, l
<1>2. /\ a = [f \in JourneyFields |-> a[f]]
      /\ DOMAIN a.answers = DOMAIN journey.answers \union {"STORAGE_CHOICE"}
      /\ \A x \in DOMAIN journey.answers \ {"STORAGE_CHOICE"} : a.answers[x] = journey.answers[x]
      /\ a.mitigation = journey.mitigation /\ a.refused = journey.refused
  BY <1>1, <1>a, Answered
<1>b. /\ b = [f \in JourneyFields |-> b[f]]
      /\ DOMAIN b.answers = DOMAIN a.answers \union {"ISSUER_CHECK"}
      /\ \A x \in DOMAIN a.answers \ {"ISSUER_CHECK"} : b.answers[x] = a.answers[x]
      /\ b.mitigation = a.mitigation /\ b.refused = a.refused
  BY <1>2, <1>a, Answered
<1>3. /\ l = [f \in JourneyFields |-> l[f]] /\ l.answers = b.answers
      /\ l.mitigation = b.mitigation /\ l.refused = b.refused
  BY <1>a, <1>b, Observed
<1>4. /\ journey'.step = t /\ journey'.answers = l.answers
      /\ journey'.mitigation = journey.mitigation /\ journey'.refused = journey.refused
  BY <1>1, <1>2, <1>b, <1>3 DEF Coffee!GoTo, JourneyFields
<1>5. /\ DOMAIN journey'.answers = DOMAIN journey.answers \union D
      /\ \A d \in DOMAIN journey.answers \ D : journey'.answers[d] = journey.answers[d]
      /\ "CUSTODY_SCOPE" \notin D
  BY <1>2, <1>b, <1>3, <1>4
<1>6. /\ AnsweredBefore(t) = AnsweredBefore(s) \union D
      /\ MitigationsAt(s) \subseteq MitigationsAt(t) /\ s \notin AfterRecall
  BY DEF AnsweredBefore, MitigationsAt, AfterRecall
<1> HIDE DEF s, t, D
<1> QED
  BY <1>1, <1>4, <1>5, <1>6, AnswerMerits

LEMMA CustodyProposalMerits ==
    ASSUME CoffeeInv, MeritsCount, NEW too \in BOOLEAN, Coffee!CreateCustodyProposal(too)
    PROVE  MeritsCount'
<1> DEFINE s == "custody-proposal"
           t == "custody-endorsement"
           D == {"CUSTODY_SCOPE"}
<1>1. /\ journey = [f \in JourneyFields |-> journey[f]] /\ journey.step = s
      /\ MeritAt(journey, s)
  BY CommandMerits DEF Coffee!CreateCustodyProposal
<1>2. CASE too
  <2> DEFINE more == Append(journey.refused, "TRANSFER_CUSTODY")
  <2>1. journey' = [journey EXCEPT !.refused = more]
    BY <1>2 DEF Coffee!CreateCustodyProposal
  <2>2. journey.refused \in Seq(MayBeRefused) /\ "TRANSFER_CUSTODY" \in MayBeRefused
    <3>1. journey # Coffee!NoJourney
      BY DEF Coffee!CreateCustodyProposal, Coffee!Command, Coffee!MayCommand,
             Coffee!IsActive, Coffee!NoJourney
    <3> QED
      BY <3>1 DEF CoffeeInv, MayBeRefused
  <2>3. journey'.refused = Append(journey.refused, "TRANSFER_CUSTODY")
    BY <1>1, <2>1 DEF JourneyFields
  <2> HIDE DEF more
  <2>4. /\ journey'.step = s /\ journey'.answers = journey.answers
        /\ journey'.mitigation = journey.mitigation
    BY <1>1, <2>1 DEF JourneyFields
  <2>5. Recalls(journey') = Recalls(journey)
    BY <2>2, <2>3, RecallsAdd
  <2>6. MeritAt(journey', s)
    BY <1>1, <2>4, <2>5 DEF MeritAt
  <2> QED
    BY <2>4, <2>6 DEF MeritsCount
<1>3. CASE ~too
  <2> DEFINE yes == TRUE
             l == Coffee!Answer(journey, "CUSTODY_SCOPE", yes)
  <2>1. journey' = Coffee!GoTo(l, t, journey.context)
    BY <1>3 DEF Coffee!CreateCustodyProposal
  <2>a. l = Coffee!Answer(journey, "CUSTODY_SCOPE", yes)
    OBVIOUS
  <2> HIDE DEF l, yes
  <2>2. /\ l = [f \in JourneyFields |-> l[f]]
        /\ DOMAIN l.answers = DOMAIN journey.answers \union D /\ l.answers["CUSTODY_SCOPE"] = yes
        /\ \A x \in DOMAIN journey.answers \ D : l.answers[x] = journey.answers[x]
        /\ l.mitigation = journey.mitigation /\ l.refused = journey.refused
    BY <1>1, <2>a, Answered
  <2>3. /\ journey'.step = t /\ journey'.answers = l.answers
        /\ journey'.mitigation = journey.mitigation /\ journey'.refused = journey.refused
    BY <2>1, <2>2 DEF Coffee!GoTo, JourneyFields
  <2>4. /\ AnsweredBefore(t) = AnsweredBefore(s) \union D
        /\ MitigationsAt(s) \subseteq MitigationsAt(t) /\ s \notin AfterRecall
    BY DEF AnsweredBefore, MitigationsAt, AfterRecall
  <2> HIDE DEF s, t, D
  <2>5. /\ DOMAIN journey'.answers = DOMAIN journey.answers \union D
        /\ \A d \in DOMAIN journey.answers \ D : journey'.answers[d] = journey.answers[d]
        /\ journey'.answers["CUSTODY_SCOPE"] = TRUE
    BY <2>2, <2>3 DEF yes
  <2> QED
    BY <1>1, <2>3, <2>4, <2>5, AnswerMerits
<1> QED
  BY <1>2, <1>3

LEMMA DiscrepancyMerits ==
    ASSUME CoffeeInv, MeritsCount, NEW choice,
           Coffee!SubmitDiscrepancyDecision(choice) \/ Coffee!InvestigateDiscrepancy
    PROVE  MeritsCount'
<1>1. PICK s \in {"discrepancy-decision", "discrepancy-mitigation"},
           t \in {"discrepancy-mitigation", "correction-proposal"} :
        /\ journey = [f \in JourneyFields |-> journey[f]] /\ MeritAt(journey, s)
        /\ journey'.step = t /\ journey'.answers = journey.answers
        /\ journey'.refused = journey.refused /\ journey'.mitigation \in MitigationsAt(t)
  <2>1. CASE Coffee!SubmitDiscrepancyDecision(choice)
    <3> DEFINE rule == IF choice = "overwrite" THEN "DISCREPANCY_REJECTED_ATTEMPT"
                       ELSE "DISCREPANCY_DECISION_SUBMITTED"
               o == Coffee!Observe(journey, {rule})
    <3>1. /\ journey = [f \in JourneyFields |-> journey[f]]
          /\ MeritAt(journey, "discrepancy-decision")
      BY <2>1, CommandMerits DEF Coffee!SubmitDiscrepancyDecision
    <3>2. journey' = IF choice = "correct"
                     THEN Coffee!GoTo([o EXCEPT !.mitigation = "not-required"],
                                      "correction-proposal", "PROCESSOR")
                     ELSE Coffee!GoTo([o EXCEPT !.mitigation = "required"],
                                      "discrepancy-mitigation", "PROCESSOR")
      BY <2>1 DEF Coffee!SubmitDiscrepancyDecision
    <3> HIDE DEF rule
    <3>3. /\ o = [f \in JourneyFields |-> o[f]] /\ o.answers = journey.answers
          /\ o.refused = journey.refused
      BY <3>1 DEF Coffee!Observe, JourneyFields
    <3> HIDE DEF o
    <3>4. CASE choice = "correct"
      <4>1. /\ journey'.step = "correction-proposal" /\ journey'.answers = journey.answers
            /\ journey'.refused = journey.refused /\ journey'.mitigation = "not-required"
        BY <3>2, <3>3, <3>4 DEF Coffee!GoTo, JourneyFields
      <4> QED
        BY <3>1, <4>1 DEF MitigationsAt
    <3>5. CASE choice # "correct"
      <4>1. /\ journey'.step = "discrepancy-mitigation" /\ journey'.answers = journey.answers
            /\ journey'.refused = journey.refused /\ journey'.mitigation = "required"
        BY <3>2, <3>3, <3>5 DEF Coffee!GoTo, JourneyFields
      <4> QED
        BY <3>1, <4>1 DEF MitigationsAt
    <3> QED
      BY <3>4, <3>5
  <2>2. CASE Coffee!InvestigateDiscrepancy
    <3>1. /\ journey = [f \in JourneyFields |-> journey[f]]
          /\ MeritAt(journey, "discrepancy-mitigation")
      BY <2>2, CommandMerits DEF Coffee!InvestigateDiscrepancy
    <3>2. /\ journey'.step = "correction-proposal" /\ journey'.answers = journey.answers
          /\ journey'.refused = journey.refused /\ journey'.mitigation = "completed"
      BY <2>2, <3>1 DEF Coffee!InvestigateDiscrepancy, Coffee!GoTo, JourneyFields
    <3> QED
      BY <3>1, <3>2 DEF MitigationsAt
  <2> QED
    BY <2>1, <2>2
<1>2. AnsweredBefore(t) = AnsweredBefore(s) /\ s \notin AfterRecall /\ t \notin AfterRecall
  BY DEF AnsweredBefore, AfterRecall
<1>3. Recalls(journey') = Recalls(journey)
  BY <1>1 DEF Recalls
<1>4. MeritAt(journey', t)
  BY <1>1, <1>2, <1>3 DEF MeritAt
<1> QED
  BY <1>1, <1>4 DEF MeritsCount

\* A question that is answered once, and for itself.
LEMMA QuestionMerits ==
    ASSUME CoffeeInv, MeritsCount, NEW s, s # "complete", Coffee!Command(s), NEW t, NEW d, NEW c,
           NEW a, a = Coffee!Answer(journey, d, c), NEW rules, NEW l,
           l = Coffee!Observe(a, rules), NEW role, NEW j, j = Coffee!GoTo(l, t, role),
           journey' = j \/ journey' = [j EXCEPT !.status = "completed"],
           d # "CUSTODY_SCOPE", AnsweredBefore(t) = AnsweredBefore(s) \union {d},
           MitigationsAt(s) \subseteq MitigationsAt(t), s \in AfterRecall => t \in AfterRecall
    PROVE  MeritsCount'
<1>1. journey = [f \in JourneyFields |-> journey[f]] /\ MeritAt(journey, s)
  BY CommandMerits
<1>2. /\ a = [f \in JourneyFields |-> a[f]]
      /\ DOMAIN a.answers = DOMAIN journey.answers \union {d}
      /\ \A x \in DOMAIN journey.answers \ {d} : a.answers[x] = journey.answers[x]
      /\ a.mitigation = journey.mitigation /\ a.refused = journey.refused
  BY <1>1, Answered
<1>3. /\ l = [f \in JourneyFields |-> l[f]] /\ l.answers = a.answers
      /\ l.mitigation = a.mitigation /\ l.refused = a.refused
  BY <1>2, Observed
<1>4. /\ journey'.step = t /\ journey'.answers = l.answers
      /\ journey'.mitigation = journey.mitigation /\ journey'.refused = journey.refused
  BY <1>2, <1>3 DEF Coffee!GoTo, JourneyFields
<1>5. /\ DOMAIN journey'.answers = DOMAIN journey.answers \union {d}
      /\ \A x \in DOMAIN journey.answers \ {d} : journey'.answers[x] = journey.answers[x]
      /\ "CUSTODY_SCOPE" \notin {d}
  BY <1>2, <1>3, <1>4
<1> QED
  BY <1>1, <1>4, <1>5, AnswerMerits

LEMMA KnowledgeDecisionMerits ==
    ASSUME CoffeeInv, MeritsCount, NEW isCorrect, Coffee!SubmitKnowledgeDecision(isCorrect)
    PROVE  MeritsCount'
<1>1. CASE Coffee!Command("transformation-knowledge")
  <2> DEFINE s == "transformation-knowledge"
             t == "packaging-transaction"
             d == "TRANSFORMATION_PROVENANCE"
             rules == IF isCorrect THEN {"TRANSFORMATION_PROVENANCE_RECOGNIZED"} ELSE {}
             a == Coffee!Answer(journey, d, isCorrect)
             l == Coffee!Observe(a, rules)
             j == Coffee!GoTo(l, t, journey.context)
  <2>1. Coffee!Command(s) /\ journey' = j
    BY <1>1 DEF Coffee!SubmitKnowledgeDecision, Coffee!Command, Coffee!Recognise
  <2>2. a = Coffee!Answer(journey, d, isCorrect) /\ l = Coffee!Observe(a, rules) /\ j = Coffee!GoTo(l, t, journey.context)
    OBVIOUS
  <2> HIDE DEF a, l, j
  <2>3. /\ AnsweredBefore(t) = AnsweredBefore(s) \union {d} /\ d # "CUSTODY_SCOPE"
        /\ MitigationsAt(s) \subseteq MitigationsAt(t) /\ s # "complete"
        /\ s \in AfterRecall => t \in AfterRecall
    BY DEF AnsweredBefore, MitigationsAt, AfterRecall
  <2> HIDE DEF s, t, d, rules
  <2> QED
    BY <2>1, <2>2, <2>3, QuestionMerits
<1>2. CASE Coffee!Command("tamper-knowledge")
  <2> DEFINE s == "tamper-knowledge"
             t == "data-governance-decision"
             d == "TAMPER_DEMONSTRATION"
             rules == IF isCorrect THEN {"TAMPER_EVIDENCE_INTERPRETED"} ELSE {}
             a == Coffee!Answer(journey, d, isCorrect)
             l == Coffee!Observe(a, rules)
             j == Coffee!GoTo(l, t, journey.context)
  <2>1. Coffee!Command(s) /\ journey' = j
    BY <1>2 DEF Coffee!SubmitKnowledgeDecision, Coffee!Command, Coffee!Recognise
  <2>2. a = Coffee!Answer(journey, d, isCorrect) /\ l = Coffee!Observe(a, rules) /\ j = Coffee!GoTo(l, t, journey.context)
    OBVIOUS
  <2> HIDE DEF a, l, j
  <2>3. /\ AnsweredBefore(t) = AnsweredBefore(s) \union {d} /\ d # "CUSTODY_SCOPE"
        /\ MitigationsAt(s) \subseteq MitigationsAt(t) /\ s # "complete"
        /\ s \in AfterRecall => t \in AfterRecall
    BY DEF AnsweredBefore, MitigationsAt, AfterRecall
  <2> HIDE DEF s, t, d, rules
  <2> QED
    BY <2>1, <2>2, <2>3, QuestionMerits
<1>3. CASE Coffee!Command("blockchain-necessity-decision")
  <2> DEFINE s == "blockchain-necessity-decision"
             t == "complete"
             d == "BLOCKCHAIN_NECESSITY"
             rules == IF isCorrect THEN {"BLOCKCHAIN_SUITABILITY_RECOGNIZED"} ELSE {}
             a == Coffee!Answer(journey, d, isCorrect)
             l == Coffee!Observe(a, rules)
             j == Coffee!GoTo(l, t, journey.context)
  <2>1. Coffee!Command(s) /\ journey' = [j EXCEPT !.status = "completed"]
    BY <1>3 DEF Coffee!SubmitKnowledgeDecision, Coffee!Command, Coffee!Recognise
  <2>2. a = Coffee!Answer(journey, d, isCorrect) /\ l = Coffee!Observe(a, rules) /\ j = Coffee!GoTo(l, t, journey.context)
    OBVIOUS
  <2> HIDE DEF a, l, j
  <2>3. /\ AnsweredBefore(t) = AnsweredBefore(s) \union {d} /\ d # "CUSTODY_SCOPE"
        /\ MitigationsAt(s) \subseteq MitigationsAt(t) /\ s # "complete"
        /\ s \in AfterRecall => t \in AfterRecall
    BY DEF AnsweredBefore, MitigationsAt, AfterRecall
  <2> HIDE DEF s, t, d, rules
  <2> QED
    BY <2>1, <2>2, <2>3, QuestionMerits
<1> QED
  BY <1>1, <1>2, <1>3 DEF Coffee!SubmitKnowledgeDecision

LEMMA GovernanceDecisionMerits ==
    ASSUME CoffeeInv, MeritsCount, NEW isCorrect, Coffee!SubmitDataGovernanceDecision(isCorrect)
    PROVE  MeritsCount'
<1> DEFINE s == "data-governance-decision"
           t == "recall-scope-decision"
           d == "DATA_GOVERNANCE"
           rules == IF isCorrect THEN {"DATA_GOVERNANCE_CLASSIFIED"} ELSE {}
           a == Coffee!Answer(journey, d, isCorrect)
           l == Coffee!Observe(a, rules)
           j == Coffee!GoTo(l, t, "RETAILER")
<1>1. Coffee!Command(s) /\ journey' = j
  BY DEF Coffee!SubmitDataGovernanceDecision, Coffee!Recognise
<1>2. a = Coffee!Answer(journey, d, isCorrect) /\ l = Coffee!Observe(a, rules) /\ j = Coffee!GoTo(l, t, "RETAILER")
  OBVIOUS
<1> HIDE DEF a, l, j
<1>3. /\ AnsweredBefore(t) = AnsweredBefore(s) \union {d} /\ d # "CUSTODY_SCOPE"
      /\ MitigationsAt(s) \subseteq MitigationsAt(t) /\ s # "complete"
      /\ s \in AfterRecall => t \in AfterRecall
  BY DEF AnsweredBefore, MitigationsAt, AfterRecall
<1> HIDE DEF s, t, d, rules
<1> QED
  BY <1>1, <1>2, <1>3, QuestionMerits

LEMMA RecallScopeMerits ==
    ASSUME CoffeeInv, MeritsCount, NEW isCorrect, Coffee!SubmitRecallScopeDecision(isCorrect)
    PROVE  MeritsCount'
<1> DEFINE s == "recall-scope-decision"
           t == "recall-transaction"
           d == "RECALL_SCOPE"
           rules == {"RECALL_SCOPE_SUBMITTED"}
           a == Coffee!Answer(journey, d, isCorrect)
           l == Coffee!Observe(a, rules)
           j == Coffee!GoTo(l, t, "RETAILER")
<1>1. Coffee!Command(s) /\ journey' = j
  BY DEF Coffee!SubmitRecallScopeDecision
<1>2. a = Coffee!Answer(journey, d, isCorrect) /\ l = Coffee!Observe(a, rules) /\ j = Coffee!GoTo(l, t, "RETAILER")
  OBVIOUS
<1> HIDE DEF a, l, j
<1>3. /\ AnsweredBefore(t) = AnsweredBefore(s) \union {d} /\ d # "CUSTODY_SCOPE"
      /\ MitigationsAt(s) \subseteq MitigationsAt(t) /\ s # "complete"
      /\ s \in AfterRecall => t \in AfterRecall
  BY DEF AnsweredBefore, MitigationsAt, AfterRecall
<1> HIDE DEF s, t, d, rules
<1> QED
  BY <1>1, <1>2, <1>3, QuestionMerits

\* The retailer's recall is the one that is turned down, and he has only one.
LEMMA RecallMerits ==
    ASSUME CoffeeInv, MeritsCount, Coffee!SubmitRecall
    PROVE  MeritsCount'
<1>1. PICK s \in {"recall-transaction", "recall-authorized-transaction"} : Coffee!Command(s)
  BY DEF Coffee!SubmitRecall
<1>2. /\ journey = [f \in JourneyFields |-> journey[f]] /\ journey.step = s
      /\ MeritAt(journey, s)
  BY <1>1, CommandMerits
<1>3. CASE Coffee!IsAccepted("RECALL_BATCH")
  <2> DEFINE filed == Append(journey.chain, "RECALL_BATCH")
             l == [journey EXCEPT !.chain = filed]
             t == "blockchain-necessity-decision"
  <2>1. journey' = Coffee!GoTo(Coffee!Observe(l, {"AUTHORIZED_RECALL_COMMITTED"}), t,
                               journey.context)
    BY <1>3 DEF Coffee!SubmitRecall
  <2> HIDE DEF filed
  <2>2. /\ l = [f \in JourneyFields |-> l[f]] /\ l.answers = journey.answers
        /\ l.mitigation = journey.mitigation /\ l.refused = journey.refused
    BY <1>2 DEF JourneyFields
  <2> HIDE DEF l
  <2>3. /\ journey'.step = t /\ journey'.answers = journey.answers
        /\ journey'.mitigation = journey.mitigation /\ journey'.refused = journey.refused
    BY <2>1, <2>2 DEF Coffee!GoTo, Coffee!Observe, JourneyFields
  <2>4. Alike(s, t)
    BY <1>1, AlikeSteps
  <2> QED
    BY <1>2, <2>3, <2>4, MeritStays
<1>4. CASE ~Coffee!IsAccepted("RECALL_BATCH")
  <2> DEFINE more == Append(journey.refused, "RECALL_BATCH")
             l == [journey EXCEPT !.refused = more]
             t == "recall-handoff"
  <2>1. journey' = Coffee!GoTo(Coffee!Observe(l, {"UNAUTHORIZED_RECALL_RETAINED"}), t,
                               journey.context)
    BY <1>4 DEF Coffee!SubmitRecall
  <2>2. more = Append(journey.refused, "RECALL_BATCH")
    OBVIOUS
  <2> HIDE DEF more
  <2>3. /\ l = [f \in JourneyFields |-> l[f]] /\ l.answers = journey.answers
        /\ l.mitigation = journey.mitigation /\ l.refused = more
    BY <1>2 DEF JourneyFields
  <2> HIDE DEF l
  <2>4. /\ journey'.step = t /\ journey'.answers = journey.answers
        /\ journey'.mitigation = journey.mitigation /\ journey'.refused = more
    BY <2>1, <2>3 DEF Coffee!GoTo, Coffee!Observe, JourneyFields
  <2>5. s = "recall-transaction"
    <3>1. PICK r, n : Stands(s, r, n)
      BY <1>1, CommandStands
    <3>2. s = "recall-authorized-transaction" => r = "REGULATOR"
      BY <3>1 DEF Stands, Stations
    <3> QED
      BY <1>1, <1>4, <3>1, <3>2 DEF Stands, Coffee!IsAccepted, Coffee!Submitter
  <2>6. Recalls(journey) = {}
    BY <1>2, <2>5 DEF MeritAt, AfterRecall
  <2>7. \E k : Recalls(journey') \subseteq {k}
    <3>1. journey.refused \in Seq(MayBeRefused) /\ "RECALL_BATCH" \in MayBeRefused
      <4>1. journey # Coffee!NoJourney
        BY <1>1 DEF Coffee!Command, Coffee!MayCommand, Coffee!IsActive, Coffee!NoJourney
      <4> QED
        BY <4>1 DEF CoffeeInv, MayBeRefused
    <3>2. Recalls(journey') = Recalls(journey) \union {Len(journey.refused) + 1}
      BY <2>2, <2>4, <3>1, RecallsAdd
    <3> QED
      BY <2>6, <3>2
  <2>8. /\ AnsweredBefore(t) = AnsweredBefore(s) /\ MitigationsAt(t) = MitigationsAt(s)
        /\ t \in AfterRecall
    BY <2>5 DEF AnsweredBefore, MitigationsAt, AfterRecall
  <2>9. MeritAt(journey', t)
    BY <1>2, <2>4, <2>7, <2>8 DEF MeritAt
  <2> QED
    BY <2>4, <2>9 DEF MeritsCount
<1> QED
  BY <1>3, <1>4

LEMMA MeritsKept ==
    ASSUME CoffeeInv, MeritsCount, Coffee!Next
    PROVE  MeritsCount'
<1>1. CASE Coffee!CreateRun
  <2>1. /\ journey'.step = "certificate-evidence" /\ journey'.answers = << >>
        /\ journey'.mitigation = "none" /\ journey'.refused = << >>
    BY <1>1 DEF Coffee!CreateRun
  <2>2. DOMAIN journey'.answers = {} /\ Recalls(journey') = {}
    BY <2>1 DEF Recalls
  <2>3. AnsweredBefore("certificate-evidence") = {}
        /\ "none" \in MitigationsAt("certificate-evidence")
    BY DEF AnsweredBefore, MitigationsAt
  <2>4. MeritAt(journey', "certificate-evidence")
    BY <2>1, <2>2, <2>3 DEF MeritAt
  <2> QED
    BY <2>1, <2>4 DEF MeritsCount
<1>2. CASE Coffee!Progress
  BY <1>2, RoutineMerits, CertificateDecisionMerits, CertificateTransactionMerits,
     CustodyProposalMerits, TransactionsMerit, DiscrepancyMerits, KnowledgeDecisionMerits,
     GovernanceDecisionMerits, RecallScopeMerits, RecallMerits
  DEF Coffee!Progress
<1>3. CASE Coffee!CreateCustodyProposal(TRUE)
  BY <1>3, CustodyProposalMerits
<1>4. CASE \E p \in CoffeePolicies : Coffee!ConsultPolicy(p)
  BY <1>4, RoutineMerits
<1>5. CASE Coffee!Expire
  <2>1. /\ journey # Coffee!NoJourney /\ journey.status = "active"
        /\ journey' = [journey EXCEPT !.expired = TRUE]
    BY <1>5 DEF Coffee!Expire, Coffee!IsActive, Coffee!NoJourney
  <2>2. /\ journey'.step = journey.step /\ journey'.answers = journey.answers
        /\ journey'.mitigation = journey.mitigation /\ journey'.refused = journey.refused
        /\ journey.step # "complete"
    BY <2>1 DEF CoffeeInv, JourneyFields
  <2>3. MeritAt(journey, journey.step) /\ Alike(journey.step, journey.step)
    BY <2>1, <2>2 DEF MeritsCount, Alike
  <2> QED
    BY <2>2, <2>3, MeritStays
<1>6. CASE Coffee!ClockPasses
  BY <1>6 DEF Coffee!ClockPasses, MeritsCount, MeritAt, Recalls
<1> QED
  BY <1>1, <1>2, <1>3, <1>4, <1>5, <1>6 DEF Coffee!Next

-----------------------------------------------------------------------------

LEMMA CoffeeCount == \A S : Coffee!Cardinality(S) = Cardinality(S)
BY DEF Coffee!Cardinality, Cardinality

\* What is on the ledger at the end.
LEMMA WholeScript ==
    Coffee!Range(Coffee!Written(13)) =
        {"ANCHOR_CERTIFICATE", "ISSUE_CERTIFICATE", "TRANSFER_CUSTODY", "ANCHOR_MANIFEST",
         "RECORD_TRANSPORT", "RECEIVE_BATCH", "PURCHASE_ON_RECEIPT", "RECORD_CORRECTION",
         "TRANSFORM_BATCH", "PACKAGE_BATCH", "TRANSFER_OWNERSHIP", "DISPATCH_BATCH",
         "RECALL_BATCH"}
<1>1. /\ DOMAIN Coffee!Written(13) = 1 .. 13
      /\ \A k \in 1 .. 13 : Coffee!Written(13)[k] = Coffee!Script[k]
  BY WrittenIs
<1> DEFINE W == Coffee!Written(13)
           All == {"ANCHOR_CERTIFICATE", "ISSUE_CERTIFICATE", "TRANSFER_CUSTODY",
                   "ANCHOR_MANIFEST", "RECORD_TRANSPORT", "RECEIVE_BATCH",
                   "PURCHASE_ON_RECEIPT", "RECORD_CORRECTION", "TRANSFORM_BATCH",
                   "PACKAGE_BATCH", "TRANSFER_OWNERSHIP", "DISPATCH_BATCH", "RECALL_BATCH"}
<1> HIDE DEF W
<1>2. \A k \in 1 .. 13 : k = 1 \/ k = 2 \/ k = 3 \/ k = 4 \/ k = 5 \/ k = 6 \/ k = 7
                         \/ k = 8 \/ k = 9 \/ k = 10 \/ k = 11 \/ k = 12 \/ k = 13
  OBVIOUS
<1>3. \A k \in 1 .. 13 : W[k] \in All
  BY <1>1, <1>2, ScriptIs DEF W
<1>4. /\ W[1] = "ANCHOR_CERTIFICATE" /\ W[2] = "ISSUE_CERTIFICATE" /\ W[3] = "TRANSFER_CUSTODY"
      /\ W[4] = "ANCHOR_MANIFEST" /\ W[5] = "RECORD_TRANSPORT" /\ W[6] = "RECEIVE_BATCH"
      /\ W[7] = "PURCHASE_ON_RECEIPT" /\ W[8] = "RECORD_CORRECTION" /\ W[9] = "TRANSFORM_BATCH"
      /\ W[10] = "PACKAGE_BATCH" /\ W[11] = "TRANSFER_OWNERSHIP" /\ W[12] = "DISPATCH_BATCH"
      /\ W[13] = "RECALL_BATCH"
  BY <1>1, ScriptIs DEF W
<1>5. DOMAIN W = 1 .. 13
  BY <1>1 DEF W
<1>6. {W[k] : k \in DOMAIN W} = All
  <2>1. ASSUME NEW x \in All
        PROVE  \E k \in 1 .. 13 : W[k] = x
    BY <1>4
  <2> HIDE DEF All
  <2> QED
    BY <1>3, <1>5, <2>1
<1> QED
  BY <1>6 DEF Coffee!Range, W

\* What an item is worth at the first attempt.
LEMMA WorthIs ==
    ASSUME NEW item, NEW p \in Nat, Coffee!Points[item] = p,
           item \notin {"RECORD_CORRECTION", "RECALL_BATCH"}
    PROVE  Coffee!Worth(item) = IF Coffee!IsEarned(item) THEN p * 10 ELSE 0
<1>1. Coffee!Tries(item) = 1
  BY DEF Coffee!Tries
<1>2. Coffee!Credit(1) = 10
  BY DEF Coffee!Credit
<1> QED
  BY <1>1, <1>2 DEF Coffee!Worth

LEMMA PointsAre ==
    /\ Coffee!Points["CREATE_BATCH"] = 4
    /\ Coffee!Points["STORAGE_CHOICE"] = 5
    /\ Coffee!Points["ISSUER_CHECK"] = 5
    /\ Coffee!Points["CUSTODY_SCOPE"] = 6
    /\ Coffee!Points["RECORD_TRANSPORT"] = 5
    /\ Coffee!Points["RECEIVE_BATCH"] = 3
    /\ Coffee!Points["RECORD_CORRECTION"] = 10
    /\ Coffee!Points["TRANSFORM_BATCH"] = 4
    /\ Coffee!Points["TRANSFORMATION_PROVENANCE"] = 8
    /\ Coffee!Points["PACKAGE_BATCH"] = 3
    /\ Coffee!Points["TRANSFER_OWNERSHIP"] = 5
    /\ Coffee!Points["DISPATCH_BATCH"] = 5
    /\ Coffee!Points["TAMPER_DEMONSTRATION"] = 7
    /\ Coffee!Points["DATA_GOVERNANCE"] = 5
    /\ Coffee!Points["RECALL_SCOPE"] = 15
    /\ Coffee!Points["RECALL_BATCH"] = 5
    /\ Coffee!Points["BLOCKCHAIN_NECESSITY"] = 5
BY DEF Coffee!Points

\* What a question is worth.
LEMMA QuestionsAreWorth ==
    /\ Coffee!Worth("STORAGE_CHOICE") = IF Coffee!IsEarned("STORAGE_CHOICE") THEN 50 ELSE 0
    /\ Coffee!Worth("ISSUER_CHECK") = IF Coffee!IsEarned("ISSUER_CHECK") THEN 50 ELSE 0
    /\ Coffee!Worth("CUSTODY_SCOPE") = IF Coffee!IsEarned("CUSTODY_SCOPE") THEN 60 ELSE 0
    /\ Coffee!Worth("TRANSFORMATION_PROVENANCE") = IF Coffee!IsEarned("TRANSFORMATION_PROVENANCE") THEN 80 ELSE 0
    /\ Coffee!Worth("TAMPER_DEMONSTRATION") = IF Coffee!IsEarned("TAMPER_DEMONSTRATION") THEN 70 ELSE 0
    /\ Coffee!Worth("DATA_GOVERNANCE") = IF Coffee!IsEarned("DATA_GOVERNANCE") THEN 50 ELSE 0
    /\ Coffee!Worth("RECALL_SCOPE") = IF Coffee!IsEarned("RECALL_SCOPE") THEN 150 ELSE 0
    /\ Coffee!Worth("BLOCKCHAIN_NECESSITY") = IF Coffee!IsEarned("BLOCKCHAIN_NECESSITY") THEN 50 ELSE 0
<1>1. Coffee!Worth("STORAGE_CHOICE") = IF Coffee!IsEarned("STORAGE_CHOICE") THEN 50 ELSE 0
  <2>1. Coffee!Points["STORAGE_CHOICE"] = 5 /\ 5 * 10 = 50
    BY PointsAre
  <2> QED
    BY <2>1, WorthIs
<1>2. Coffee!Worth("ISSUER_CHECK") = IF Coffee!IsEarned("ISSUER_CHECK") THEN 50 ELSE 0
  <2>1. Coffee!Points["ISSUER_CHECK"] = 5 /\ 5 * 10 = 50
    BY PointsAre
  <2> QED
    BY <2>1, WorthIs
<1>3. Coffee!Worth("CUSTODY_SCOPE") = IF Coffee!IsEarned("CUSTODY_SCOPE") THEN 60 ELSE 0
  <2>1. Coffee!Points["CUSTODY_SCOPE"] = 6 /\ 6 * 10 = 60
    BY PointsAre
  <2> QED
    BY <2>1, WorthIs
<1>4. Coffee!Worth("TRANSFORMATION_PROVENANCE") = IF Coffee!IsEarned("TRANSFORMATION_PROVENANCE") THEN 80 ELSE 0
  <2>1. Coffee!Points["TRANSFORMATION_PROVENANCE"] = 8 /\ 8 * 10 = 80
    BY PointsAre
  <2> QED
    BY <2>1, WorthIs
<1>5. Coffee!Worth("TAMPER_DEMONSTRATION") = IF Coffee!IsEarned("TAMPER_DEMONSTRATION") THEN 70 ELSE 0
  <2>1. Coffee!Points["TAMPER_DEMONSTRATION"] = 7 /\ 7 * 10 = 70
    BY PointsAre
  <2> QED
    BY <2>1, WorthIs
<1>6. Coffee!Worth("DATA_GOVERNANCE") = IF Coffee!IsEarned("DATA_GOVERNANCE") THEN 50 ELSE 0
  <2>1. Coffee!Points["DATA_GOVERNANCE"] = 5 /\ 5 * 10 = 50
    BY PointsAre
  <2> QED
    BY <2>1, WorthIs
<1>7. Coffee!Worth("RECALL_SCOPE") = IF Coffee!IsEarned("RECALL_SCOPE") THEN 150 ELSE 0
  <2>1. Coffee!Points["RECALL_SCOPE"] = 15 /\ 15 * 10 = 150
    BY PointsAre
  <2> QED
    BY <2>1, WorthIs
<1>8. Coffee!Worth("BLOCKCHAIN_NECESSITY") = IF Coffee!IsEarned("BLOCKCHAIN_NECESSITY") THEN 50 ELSE 0
  <2>1. Coffee!Points["BLOCKCHAIN_NECESSITY"] = 5 /\ 5 * 10 = 50
    BY PointsAre
  <2> QED
    BY <2>1, WorthIs
<1> QED
  BY <1>1, <1>2, <1>3, <1>4, <1>5, <1>6, <1>7, <1>8

\* What a transaction is worth that can only be made once.
LEMMA TransactionsAreWorth ==
    /\ Coffee!Worth("CREATE_BATCH") = IF Coffee!IsEarned("CREATE_BATCH") THEN 40 ELSE 0
    /\ Coffee!Worth("RECORD_TRANSPORT") = IF Coffee!IsEarned("RECORD_TRANSPORT") THEN 50 ELSE 0
    /\ Coffee!Worth("RECEIVE_BATCH") = IF Coffee!IsEarned("RECEIVE_BATCH") THEN 30 ELSE 0
    /\ Coffee!Worth("TRANSFORM_BATCH") = IF Coffee!IsEarned("TRANSFORM_BATCH") THEN 40 ELSE 0
    /\ Coffee!Worth("PACKAGE_BATCH") = IF Coffee!IsEarned("PACKAGE_BATCH") THEN 30 ELSE 0
    /\ Coffee!Worth("TRANSFER_OWNERSHIP") = IF Coffee!IsEarned("TRANSFER_OWNERSHIP") THEN 50 ELSE 0
    /\ Coffee!Worth("DISPATCH_BATCH") = IF Coffee!IsEarned("DISPATCH_BATCH") THEN 50 ELSE 0
<1>1. Coffee!Worth("CREATE_BATCH") = IF Coffee!IsEarned("CREATE_BATCH") THEN 40 ELSE 0
  <2>1. Coffee!Points["CREATE_BATCH"] = 4 /\ 4 * 10 = 40
    BY PointsAre
  <2> QED
    BY <2>1, WorthIs
<1>2. Coffee!Worth("RECORD_TRANSPORT") = IF Coffee!IsEarned("RECORD_TRANSPORT") THEN 50 ELSE 0
  <2>1. Coffee!Points["RECORD_TRANSPORT"] = 5 /\ 5 * 10 = 50
    BY PointsAre
  <2> QED
    BY <2>1, WorthIs
<1>3. Coffee!Worth("RECEIVE_BATCH") = IF Coffee!IsEarned("RECEIVE_BATCH") THEN 30 ELSE 0
  <2>1. Coffee!Points["RECEIVE_BATCH"] = 3 /\ 3 * 10 = 30
    BY PointsAre
  <2> QED
    BY <2>1, WorthIs
<1>4. Coffee!Worth("TRANSFORM_BATCH") = IF Coffee!IsEarned("TRANSFORM_BATCH") THEN 40 ELSE 0
  <2>1. Coffee!Points["TRANSFORM_BATCH"] = 4 /\ 4 * 10 = 40
    BY PointsAre
  <2> QED
    BY <2>1, WorthIs
<1>5. Coffee!Worth("PACKAGE_BATCH") = IF Coffee!IsEarned("PACKAGE_BATCH") THEN 30 ELSE 0
  <2>1. Coffee!Points["PACKAGE_BATCH"] = 3 /\ 3 * 10 = 30
    BY PointsAre
  <2> QED
    BY <2>1, WorthIs
<1>6. Coffee!Worth("TRANSFER_OWNERSHIP") = IF Coffee!IsEarned("TRANSFER_OWNERSHIP") THEN 50 ELSE 0
  <2>1. Coffee!Points["TRANSFER_OWNERSHIP"] = 5 /\ 5 * 10 = 50
    BY PointsAre
  <2> QED
    BY <2>1, WorthIs
<1>7. Coffee!Worth("DISPATCH_BATCH") = IF Coffee!IsEarned("DISPATCH_BATCH") THEN 50 ELSE 0
  <2>1. Coffee!Points["DISPATCH_BATCH"] = 5 /\ 5 * 10 = 50
    BY PointsAre
  <2> QED
    BY <2>1, WorthIs
<1> QED
  BY <1>1, <1>2, <1>3, <1>4, <1>5, <1>6, <1>7

\* A correction after an investigation and a recall after a refused one are worth eight
\* tenths.
LEMMA SecondAttempts ==
    ASSUME \E k : Recalls(journey) \subseteq {k}
    PROVE  /\ Coffee!Worth("RECORD_CORRECTION") =
                  IF ~Coffee!IsEarned("RECORD_CORRECTION") THEN 0
                  ELSE IF journey.mitigation = "completed" THEN 80 ELSE 100
           /\ Coffee!Worth("RECALL_BATCH") =
                  IF ~Coffee!IsEarned("RECALL_BATCH") THEN 0
                  ELSE IF Recalls(journey) = {} THEN 50 ELSE 40
<1>1. Coffee!Credit(1) = 10 /\ Coffee!Credit(2) = 8
  BY DEF Coffee!Credit
<1>2. Coffee!Tries("RECORD_CORRECTION") = IF journey.mitigation = "completed" THEN 2 ELSE 1
  BY DEF Coffee!Tries
<1>3. Coffee!Tries("RECALL_BATCH") = IF Recalls(journey) = {} THEN 1 ELSE 2
  <2>1. Coffee!Tries("RECALL_BATCH") = 1 + Cardinality(Recalls(journey))
    BY CoffeeCount DEF Coffee!Tries, Recalls
  <2>2. CASE Recalls(journey) = {}
    BY <2>1, <2>2, FS_EmptySet
  <2>3. CASE Recalls(journey) # {}
    <3>1. PICK k : Recalls(journey) = {k}
      BY <2>3
    <3>2. Cardinality(Recalls(journey)) = 1
      BY <3>1, FS_Singleton
    <3> QED
      BY <2>1, <2>3, <3>2
  <2> QED
    BY <2>2, <2>3
<1>4. Coffee!Points["RECORD_CORRECTION"] = 10 /\ Coffee!Points["RECALL_BATCH"] = 5
  BY PointsAre
<1> QED
  BY <1>1, <1>2, <1>3, <1>4 DEF Coffee!Worth

Questions == {"STORAGE_CHOICE", "ISSUER_CHECK", "CUSTODY_SCOPE", "TRANSFORMATION_PROVENANCE",
              "TAMPER_DEMONSTRATION", "DATA_GOVERNANCE", "RECALL_SCOPE", "BLOCKCHAIN_NECESSITY"}

\* A journey that ended with the refused certificate: the batch and some answers.
LEMMA ShortJourneyIsWorth ==
    ASSUME journey.chain = << >>, DOMAIN journey.answers \subseteq Questions
    PROVE  Coffee!Score \in 0 .. 600
<1>1. Coffee!Range(journey.chain) = {}
  BY DEF Coffee!Range
<1>2. /\ ~Coffee!IsEarned("RECORD_TRANSPORT")
      /\ ~Coffee!IsEarned("RECEIVE_BATCH")
      /\ ~Coffee!IsEarned("TRANSFORM_BATCH")
      /\ ~Coffee!IsEarned("PACKAGE_BATCH")
      /\ ~Coffee!IsEarned("TRANSFER_OWNERSHIP")
      /\ ~Coffee!IsEarned("DISPATCH_BATCH")
      /\ ~Coffee!IsEarned("RECORD_CORRECTION")
      /\ ~Coffee!IsEarned("RECALL_BATCH")
  BY <1>1 DEF Coffee!IsEarned, Questions
<1>3. /\ Coffee!Worth("RECORD_TRANSPORT") = 0
      /\ Coffee!Worth("RECEIVE_BATCH") = 0
      /\ Coffee!Worth("TRANSFORM_BATCH") = 0
      /\ Coffee!Worth("PACKAGE_BATCH") = 0
      /\ Coffee!Worth("TRANSFER_OWNERSHIP") = 0
      /\ Coffee!Worth("DISPATCH_BATCH") = 0
  BY <1>2, TransactionsAreWorth
<1>4. Coffee!Worth("RECORD_CORRECTION") = 0 /\ Coffee!Worth("RECALL_BATCH") = 0
  BY <1>2 DEF Coffee!Worth
<1>5. /\ Coffee!Worth("STORAGE_CHOICE") \in 0 .. 50
      /\ Coffee!Worth("ISSUER_CHECK") \in 0 .. 50
      /\ Coffee!Worth("CUSTODY_SCOPE") \in 0 .. 60
      /\ Coffee!Worth("TRANSFORMATION_PROVENANCE") \in 0 .. 80
      /\ Coffee!Worth("TAMPER_DEMONSTRATION") \in 0 .. 70
      /\ Coffee!Worth("DATA_GOVERNANCE") \in 0 .. 50
      /\ Coffee!Worth("RECALL_SCOPE") \in 0 .. 150
      /\ Coffee!Worth("BLOCKCHAIN_NECESSITY") \in 0 .. 50
  BY QuestionsAreWorth
<1>6. Coffee!Worth("CREATE_BATCH") = 40
  BY TransactionsAreWorth DEF Coffee!IsEarned
<1> DEFINE a == Coffee!Worth("STORAGE_CHOICE")
           b == Coffee!Worth("ISSUER_CHECK")
           c == Coffee!Worth("CUSTODY_SCOPE")
           d == Coffee!Worth("TRANSFORMATION_PROVENANCE")
           e == Coffee!Worth("TAMPER_DEMONSTRATION")
           f == Coffee!Worth("DATA_GOVERNANCE")
           g == Coffee!Worth("RECALL_SCOPE")
           h == Coffee!Worth("BLOCKCHAIN_NECESSITY")
<1>7. Coffee!Score = 40 + a + b + c + 0 + 0 + 0 + 0 + d + 0 + 0 + 0 + e + f + g + 0 + h
  BY <1>3, <1>4, <1>6 DEF Coffee!Score
<1>8. /\ a \in 0 .. 50 /\ b \in 0 .. 50 /\ c \in 0 .. 60 /\ d \in 0 .. 80
      /\ e \in 0 .. 70 /\ f \in 0 .. 50 /\ g \in 0 .. 150 /\ h \in 0 .. 50
  BY <1>5
<1> HIDE DEF a, b, c, d, e, f, g, h
<1> QED
  BY ONLY <1>7, <1>8

\* A journey that went all the way.
LEMMA WholeJourneyIsWorth ==
    ASSUME journey.chain = Coffee!Written(13), DOMAIN journey.answers = Questions,
           journey.answers["CUSTODY_SCOPE"] = TRUE,
           journey.mitigation \in {"not-required", "completed"},
           \E k : Recalls(journey) \subseteq {k}
    PROVE  /\ Coffee!Score \in 470 .. 1000
           /\ Coffee!Score = 1000 <=> /\ journey.mitigation = "not-required"
                                      /\ Recalls(journey) = {}
                                      /\ \A d \in DOMAIN journey.answers : journey.answers[d]
<1>1. /\ Coffee!IsEarned("CREATE_BATCH")
      /\ Coffee!IsEarned("RECORD_TRANSPORT")
      /\ Coffee!IsEarned("RECEIVE_BATCH")
      /\ Coffee!IsEarned("TRANSFORM_BATCH")
      /\ Coffee!IsEarned("PACKAGE_BATCH")
      /\ Coffee!IsEarned("TRANSFER_OWNERSHIP")
      /\ Coffee!IsEarned("DISPATCH_BATCH")
      /\ Coffee!IsEarned("RECORD_CORRECTION")
      /\ Coffee!IsEarned("RECALL_BATCH")
  BY WholeScript DEF Coffee!IsEarned
<1>2. /\ Coffee!IsEarned("STORAGE_CHOICE") <=> journey.answers["STORAGE_CHOICE"]
      /\ Coffee!IsEarned("ISSUER_CHECK") <=> journey.answers["ISSUER_CHECK"]
      /\ Coffee!IsEarned("CUSTODY_SCOPE") <=> journey.answers["CUSTODY_SCOPE"]
      /\ Coffee!IsEarned("TRANSFORMATION_PROVENANCE") <=> journey.answers["TRANSFORMATION_PROVENANCE"]
      /\ Coffee!IsEarned("TAMPER_DEMONSTRATION") <=> journey.answers["TAMPER_DEMONSTRATION"]
      /\ Coffee!IsEarned("DATA_GOVERNANCE") <=> journey.answers["DATA_GOVERNANCE"]
      /\ Coffee!IsEarned("RECALL_SCOPE") <=> journey.answers["RECALL_SCOPE"]
      /\ Coffee!IsEarned("BLOCKCHAIN_NECESSITY") <=> journey.answers["BLOCKCHAIN_NECESSITY"]
  BY WholeScript DEF Coffee!IsEarned, Questions
<1>3. Coffee!Worth("CREATE_BATCH") = 40
      /\ Coffee!Worth("RECORD_TRANSPORT") = 50
      /\ Coffee!Worth("RECEIVE_BATCH") = 30
      /\ Coffee!Worth("TRANSFORM_BATCH") = 40
      /\ Coffee!Worth("PACKAGE_BATCH") = 30
      /\ Coffee!Worth("TRANSFER_OWNERSHIP") = 50
      /\ Coffee!Worth("DISPATCH_BATCH") = 50
  BY <1>1, TransactionsAreWorth
<1>4. /\ Coffee!Worth("RECORD_CORRECTION") =
             IF journey.mitigation = "completed" THEN 80 ELSE 100
      /\ Coffee!Worth("RECALL_BATCH") = IF Recalls(journey) = {} THEN 50 ELSE 40
  BY <1>1, SecondAttempts
<1>5. /\ Coffee!Worth("STORAGE_CHOICE") = IF journey.answers["STORAGE_CHOICE"] THEN 50 ELSE 0
      /\ Coffee!Worth("ISSUER_CHECK") = IF journey.answers["ISSUER_CHECK"] THEN 50 ELSE 0
      /\ Coffee!Worth("CUSTODY_SCOPE") = IF journey.answers["CUSTODY_SCOPE"] THEN 60 ELSE 0
      /\ Coffee!Worth("TRANSFORMATION_PROVENANCE") = IF journey.answers["TRANSFORMATION_PROVENANCE"] THEN 80 ELSE 0
      /\ Coffee!Worth("TAMPER_DEMONSTRATION") = IF journey.answers["TAMPER_DEMONSTRATION"] THEN 70 ELSE 0
      /\ Coffee!Worth("DATA_GOVERNANCE") = IF journey.answers["DATA_GOVERNANCE"] THEN 50 ELSE 0
      /\ Coffee!Worth("RECALL_SCOPE") = IF journey.answers["RECALL_SCOPE"] THEN 150 ELSE 0
      /\ Coffee!Worth("BLOCKCHAIN_NECESSITY") = IF journey.answers["BLOCKCHAIN_NECESSITY"] THEN 50 ELSE 0
  BY <1>2, QuestionsAreWorth
<1>6. Coffee!Worth("CUSTODY_SCOPE") = 60
  BY <1>5
<1>7. (\A d \in DOMAIN journey.answers : journey.answers[d]) <=>
          /\ journey.answers["STORAGE_CHOICE"]
          /\ journey.answers["ISSUER_CHECK"]
          /\ journey.answers["CUSTODY_SCOPE"]
          /\ journey.answers["TRANSFORMATION_PROVENANCE"]
          /\ journey.answers["TAMPER_DEMONSTRATION"]
          /\ journey.answers["DATA_GOVERNANCE"]
          /\ journey.answers["RECALL_SCOPE"]
          /\ journey.answers["BLOCKCHAIN_NECESSITY"]
  BY DEF Questions
<1>8. Coffee!Score \in 470 .. 1000
  BY <1>3, <1>4, <1>5, <1>6 DEF Coffee!Score
<1>9. Coffee!Score = 1000 <=>
          /\ journey.mitigation # "completed" /\ Recalls(journey) = {}
          /\ journey.answers["STORAGE_CHOICE"]
          /\ journey.answers["ISSUER_CHECK"]
          /\ journey.answers["CUSTODY_SCOPE"]
          /\ journey.answers["TRANSFORMATION_PROVENANCE"]
          /\ journey.answers["TAMPER_DEMONSTRATION"]
          /\ journey.answers["DATA_GOVERNANCE"]
          /\ journey.answers["RECALL_SCOPE"]
          /\ journey.answers["BLOCKCHAIN_NECESSITY"]
  BY <1>3, <1>4, <1>5 DEF Coffee!Score
<1> QED
  BY <1>7, <1>8, <1>9

\* The whole score is the score of a perfect journey, and no journey to the regulator's
\* recall falls below the floor.
LEMMA CoffeeGradeIsSound ==
    ASSUME CoffeeInv, AnswersInOrder, MeritsCount
    PROVE  Coffee!GradeIsSound
<1> SUFFICES ASSUME journey.status = "completed"
             PROVE  /\ Coffee!Score \in 0 .. 1000
                    /\ Coffee!Score = 1000 <=> Coffee!IsPerfect
                    /\ "RECALL_BATCH" \in Coffee!Range(journey.chain) => Coffee!Score >= 470
  BY DEF Coffee!GradeIsSound
<1>1. journey # Coffee!NoJourney
  BY DEF Coffee!NoJourney
<1>2. journey.step = "complete"
  BY <1>1 DEF CoffeeInv
<1>3. PICK n \in 0 .. 13 : StandsAt(journey, n)
  BY <1>1 DEF CoffeeInv
<1>4. n \in {0, 13} /\ journey.chain = Coffee!Written(n)
  BY <1>2, <1>3 DEF StandsAt, Stations
<1>5. AnsweredBefore("complete") = Questions
  BY DEF AnsweredBefore, Questions
<1>6. Coffee!LedgerUpTo(Len(Coffee!Route)) = Coffee!Written(13)
  BY RouteIs DEF Coffee!LedgerUpTo
<1>7. "RECALL_BATCH" \in Coffee!Range(Coffee!Written(13))
  BY WholeScript
<1>8. Coffee!Written(0) = << >>
  BY ScriptIs DEF Coffee!Written
<1>9. Coffee!Range(<< >>) = {}
  BY DEF Coffee!Range
<1>10. CASE n = 0
  <2>1. journey.chain = << >> /\ DOMAIN journey.answers \subseteq Questions
    BY <1>1, <1>2, <1>4, <1>5, <1>8, <1>10 DEF AnswersInOrder
  <2>2. Coffee!Score \in 0 .. 600
    BY <2>1, ShortJourneyIsWorth
  <2>3. journey.chain # Coffee!Written(13)
    BY <1>7, <1>9, <2>1
  <2>4. ~Coffee!IsPerfect
    BY <1>6, <2>3 DEF Coffee!IsPerfect
  <2> QED
    BY <1>9, <2>1, <2>2, <2>4
<1>11. CASE n = 13
  <2>1. journey.chain = Coffee!Written(13) /\ journey.chain # << >>
    BY <1>4, <1>7, <1>9, <1>11
  <2>2. MeritAt(journey, "complete")
    BY <1>1, <1>2, <2>1 DEF MeritsCount
  <2>3. /\ DOMAIN journey.answers = Questions /\ journey.answers["CUSTODY_SCOPE"] = TRUE
        /\ \E k : Recalls(journey) \subseteq {k}
    BY <1>5, <2>2 DEF MeritAt, Questions
  <2>4. journey.mitigation \in {"not-required", "completed"}
    BY <2>2 DEF MeritAt, MitigationsAt
  <2>5. /\ Coffee!Score \in 470 .. 1000
        /\ Coffee!Score = 1000 <=> /\ journey.mitigation = "not-required"
                                   /\ Recalls(journey) = {}
                                   /\ \A d \in DOMAIN journey.answers : journey.answers[d]
    BY <2>1, <2>3, <2>4, WholeJourneyIsWorth
  <2>6. Recalls(journey) = {} <=> "RECALL_BATCH" \notin Coffee!Range(journey.refused)
    BY DEF Recalls, Coffee!Range
  <2>7. Coffee!IsPerfect <=> /\ journey.mitigation = "not-required"
                             /\ Recalls(journey) = {}
                             /\ \A d \in DOMAIN journey.answers : journey.answers[d]
    BY <1>6, <2>1, <2>6 DEF Coffee!IsPerfect
  <2> QED
    BY <2>5, <2>7
<1> QED
  BY <1>4, <1>10, <1>11

-----------------------------------------------------------------------------
(* The grades of a run *)

GradeInv ==
    /\ FindingsAreFinite /\ MeritsCount
    /\ kind = "audit-v1" => case \in Cases

LEMMA GradeStarts == RuntimeInit => GradeInv
BY DEF RuntimeInit, GradeInv, NoAudit, NoCoffee, Audit!Init, Coffee!Init, FindingsAreFinite,
       MeritsCount

LEMMA GradeSteps ==
    ASSUME RuntimeInv, GradeInv, [RuntimeNext]_runtime
    PROVE  GradeInv'
<1>1. /\ AuditInv /\ CoffeeInv /\ FindingsAreFinite /\ MeritsCount
      /\ kind = "audit-v1" => case \in Cases
  BY DEF RuntimeInv, GradeInv
<1>2. UNCHANGED audit => FindingsAreFinite'
  BY <1>1 DEF FindingsAreFinite
<1>3. UNCHANGED journey => MeritsCount'
  BY <1>1 DEF MeritsCount, MeritAt, Recalls
<1>4. CASE GenericRun
  <2>1. UNCHANGED <<kind, case, audit, journey>>
    BY <1>4 DEF GenericRun, Play
  <2> QED
    BY <1>1, <1>2, <1>3, <2>1 DEF GradeInv
<1>5. CASE AuditRun
  <2>1. UNCHANGED <<kind, journey>> /\ Audit!Next
    BY <1>5 DEF AuditRun, Play
  <2>2. case' = case
    BY <2>1
    DEF Audit!Next, Audit!CreateRun, Audit!Report, Audit!SubmitFinding, Audit!AmendFinding,
        Audit!Enter, Audit!WithdrawFinding, Audit!Note, Audit!SaveDraft, Audit!Conclude,
        Audit!SubmitConclusion, Audit!Command, Audit!Expire, Audit!ClockPasses
  <2>3. FindingsAreFinite'
    BY <1>1, <2>1, FindingsStayFinite
  <2> QED
    BY <1>1, <1>3, <2>1, <2>2, <2>3 DEF GradeInv
<1>6. CASE TechnicalLab
  <2>1. UNCHANGED <<kind, case, audit, journey>>
    BY <1>6 DEF TechnicalLab, Play
  <2> QED
    BY <1>1, <1>2, <1>3, <2>1 DEF GradeInv
<1>7. CASE CoffeeRun
  <2>1. UNCHANGED <<kind, case, audit>> /\ Coffee!Next
    BY <1>7 DEF CoffeeRun, Play
  <2>2. MeritsCount'
    BY <1>1, <2>1, MeritsKept
  <2> QED
    BY <1>1, <1>2, <2>1, <2>2 DEF GradeInv
<1>8. CASE UNCHANGED runtime
  <2>1. UNCHANGED <<kind, case, audit, journey>>
    BY <1>8 DEF runtime
  <2> QED
    BY <1>1, <1>2, <1>3, <2>1 DEF GradeInv
<1> QED
  BY <1>4, <1>5, <1>6, <1>7, <1>8 DEF RuntimeNext

\* No grade is out of bounds, and the whole grade says that everything was right, whatever
\* detours the learner took and in whatever order: in a laboratory every question answered
\* at once without the hint, in a coffee journey every answer right and every transaction
\* made at the first attempt; and a journey to the regulator's recall keeps the procedural
\* floor.  An audit that is right in everything gets the whole grade; in one that got it
\* every matter was found and nothing else submitted, if there are fewer than fifty, and
\* each was argued without a fault, if there are at most three and none asks for so many
\* items that one of them is rounded away (createAuditReport, the laboratory's score
\* projection, hostedCoffeeScoreInputs).
THEOREM GradesStaySound == CasesAreAuthored => (RuntimeSpec => []GradesAreSound)
<1> SUFFICES ASSUME CasesAreAuthored
             PROVE  RuntimeSpec => []GradesAreSound
  OBVIOUS
<1>1. RuntimeInv /\ FinalInv /\ GradeInv => GradesAreSound
  <2> SUFFICES ASSUME RuntimeInv, FinalInv, GradeInv
               PROVE  GradesAreSound
    OBVIOUS
  <2>1. Audit!GradeIsSound
    <3>1. AuditInv /\ FindingsAreFinite /\ (audit # Audit!NoAudit => case \in Cases)
      BY DEF RuntimeInv, GradeInv
    <3> QED
      BY <3>1, AuditGradeIsSound
  <2>2. Lab!GradeIsSound
    BY LabGradeIsSound DEF RuntimeInv
  <2>3. Coffee!GradeIsSound
    BY CoffeeGradeIsSound DEF RuntimeInv, FinalInv, GradeInv
  <2> QED
    BY <2>1, <2>2, <2>3 DEF GradesAreSound
<1>2. GenericInv /\ [RuntimeNext]_runtime => GenericInv'
  BY GenericKeeps
<1>3. RuntimeSpec => []GenericInv
  BY <1>2, GenericStarts, PTL DEF RuntimeSpec
<1>4. GenericInv /\ RuntimeInv /\ FinalInv /\ [RuntimeNext]_runtime => FinalInv'
  BY FinalSteps
<1>5. RuntimeInv /\ GradeInv /\ [RuntimeNext]_runtime => GradeInv'
  BY GradeSteps
<1>6. RuntimeSpec => []FinalInv
  BY <1>3, <1>4, FinalStarts, RuntimeInvariant, PTL DEF RuntimeSpec
<1>7. RuntimeSpec => []GradeInv
  BY <1>5, GradeStarts, RuntimeInvariant, PTL DEF RuntimeSpec
<1> QED
  BY <1>1, <1>6, <1>7, RuntimeInvariant, PTL

=============================================================================
