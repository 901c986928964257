------------------------- MODULE CompletedRunProofs -------------------------
(***************************************************************************)
(* What holds of what follows a completed run: of its grade's delivery for *)
(* any number of attempts, any lease and any length of time, and of the    *)
(* branches made of it, for any scenario, any number of branches and       *)
(* however many requests are handled at a time.                            *)
(***************************************************************************)
EXTENDS GradeDelivery, CounterfactualBranches, SequenceTheorems, WellFoundedInduction, TLAPS

Row == [status : Status, evidence : Grades \cup {NoGrade}, lastAttempt : Nat]

\* The stages of an attempt that read its own evidence back.
Bound == {"CLAIMING", "CLAIMED", "NOT_CLAIMED", "POSTING", "POSTED", "UNPOSTED",
          "MARKED_DELIVERED", "MARKED_FAILED"}

\* The row carries the evidence of all attempts that are past the comparison, and
\* nothing else has arrived.
Binding ==
    /\ \A a \in Attempts :
          /\ stage[a] = "INSERTED" => row.status # "absent"
          /\ stage[a] \in Bound => row.status # "absent" /\ row.evidence = evidence[a]
    /\ \A e \in arrived : e = row.evidence /\ e \in Grades

\* Where a grade is known to have arrived.
Arrival ==
    /\ row.status = "delivered" => arrived # {}
    /\ \A a \in Attempts :
          /\ stage[a] = "POSTED" => arrived # {}
          /\ stage[a] = "MARKED_DELIVERED" => row.status = "delivered"
          /\ answer[a] = "delivered" => row.status = "delivered"

DeliveryInvariant == TypeOK /\ Binding /\ Arrival

-----------------------------------------------------------------------------
(* What one step of one attempt does *)

LEMMA GoTyped ==
  ASSUME TypeOK, NEW a \in Attempts, NEW from, NEW to \in Stage, Go(a, from, to)
  PROVE  stage' \in [Attempts -> Stage] /\ stage'[a] = to
  BY DEF TypeOK, Go

\* An attempt leaves the others alone.
LEMMA OthersStay ==
  ASSUME TypeOK, NEW a \in Attempts, Deliver(a), NEW b \in Attempts, b # a
  PROVE  /\ stage'[b] = stage[b]
         /\ evidence'[b] = evidence[b]
         /\ askedAt'[b] = askedAt[b]
         /\ wasClaimed'[b] = wasClaimed[b]
         /\ answer'[b] = answer[b]
<1> USE DEF TypeOK, Go, Reply
<1>1. CASE Insert(a) BY <1>1 DEF Insert
<1>2. CASE ReadCreated(a) BY <1>2 DEF ReadCreated
<1>3. CASE Claim(a) BY <1>3 DEF Claim
<1>4. CASE ReadClaimed(a) BY <1>4 DEF ReadClaimed
<1>5. CASE Post(a) BY <1>5 DEF Post
<1>6. CASE MarkDelivered(a) BY <1>6 DEF MarkDelivered
<1>7. CASE ReadDelivered(a) BY <1>7 DEF ReadDelivered
<1>8. CASE MarkFailed(a) BY <1>8 DEF MarkFailed
<1>9. CASE ReadFailed(a) BY <1>9 DEF ReadFailed
<1>10. CASE QueryFails(a) BY <1>10 DEF QueryFails
<1> QED BY <1>1, <1>2, <1>3, <1>4, <1>5, <1>6, <1>7, <1>8, <1>9, <1>10 DEF Deliver

\* How the row may change: it is created once, keeps its evidence, and keeps
\* everything once it is delivered.
RowMoves ==
    \/ row' = row
    \/ \E e \in Grades : row.status = "absent" /\ row' = Created(e)
    \/ \E a \in Attempts : IsClaimable(askedAt[a]) /\ row' = Claimed(a)
    \/ row.status = "delivering" /\ row' = [row EXCEPT !.status = "delivered"]
    \/ row.status = "delivering" /\ row' = [row EXCEPT !.status = "failed"]

LEMMA StepMovesRow == ASSUME NEW a \in Attempts, Deliver(a) PROVE RowMoves
<1> USE DEF RowMoves, Reply
<1>1. CASE Insert(a) BY <1>1 DEF Insert, Created
<1>2. CASE ReadCreated(a) BY <1>2 DEF ReadCreated
<1>3. CASE Claim(a) BY <1>3 DEF Claim
<1>4. CASE ReadClaimed(a) BY <1>4 DEF ReadClaimed
<1>5. CASE Post(a) BY <1>5 DEF Post
<1>6. CASE MarkDelivered(a) BY <1>6 DEF MarkDelivered
<1>7. CASE ReadDelivered(a) BY <1>7 DEF ReadDelivered
<1>8. CASE MarkFailed(a) BY <1>8 DEF MarkFailed, CanFail
<1>9. CASE ReadFailed(a) BY <1>9 DEF ReadFailed
<1>10. CASE QueryFails(a) BY <1>10 DEF QueryFails, Created
<1> QED BY <1>1, <1>2, <1>3, <1>4, <1>5, <1>6, <1>7, <1>8, <1>9, <1>10 DEF Deliver

LEMMA RowKept ==
  ASSUME TypeOK, RowMoves
  PROVE  /\ row' \in Row
         /\ row'.status = "absent" <=> row'.evidence = NoGrade
         /\ row.status # "absent" => row'.status # "absent" /\ row'.evidence = row.evidence
         /\ row.status = "delivered" => row' = row
<1> USE DeliveryAssumption DEF TypeOK, Row, Status
<1>1. CASE row' = row
  BY <1>1
<1>2. ASSUME NEW e \in Grades, row.status = "absent", row' = Created(e)
      PROVE  /\ row' \in Row
             /\ row'.status = "absent" <=> row'.evidence = NoGrade
  BY <1>2 DEF Created
<1>3. ASSUME NEW a \in Attempts, IsClaimable(askedAt[a]), row' = Claimed(a)
      PROVE  /\ row' \in Row
             /\ row'.status = "delivering" /\ row'.evidence = row.evidence
             /\ row.status \notin {"absent", "delivered"}
  <2>1. askedAt[a] \in Nat
    OBVIOUS
  <2>2. row.status \in {"pending", "failed", "delivering"}
    BY <1>3 DEF IsClaimable
  <2> QED BY <1>3, <2>1, <2>2 DEF Claimed
<1>4. CASE row.status = "delivering" /\ row' = [row EXCEPT !.status = "delivered"]
  BY <1>4
<1>5. CASE row.status = "delivering" /\ row' = [row EXCEPT !.status = "failed"]
  BY <1>5
<1> QED BY <1>1, <1>2, <1>3, <1>4, <1>5 DEF RowMoves

-----------------------------------------------------------------------------
(* Types and the bound evidence *)

LEMMA BindingInit == Init => TypeOK /\ Binding /\ Arrival
  BY DeliveryAssumption DEF Init, TypeOK, Binding, Arrival, Bound, Status, Stage, Answer

LEMMA ReplyTyped ==
  ASSUME TypeOK, NEW a \in Attempts, NEW from, NEW what \in Answer, Reply(a, from, what)
  PROVE  TypeOK'
<1>1. "ANSWERED" \in Stage
  BY DEF Stage
<1>2. stage' \in [Attempts -> Stage]
  BY <1>1, GoTyped DEF Reply
<1> QED BY <1>2 DEF TypeOK, Reply

\* A report of a row that exists is an answer.
LEMMA ReportTyped ==
  ASSUME TypeOK, Binding, NEW a \in Attempts, NEW from \in Bound,
         Reply(a, from, Reported(row.status))
  PROVE  TypeOK'
<1>1. row.status # "absent"
  BY DEF Reply, Go, Binding
<1>2. Reported(row.status) \in Answer
  BY <1>1 DEF TypeOK, Reported, Answer, Status
<1>3. PICK what \in Answer : what = Reported(row.status)
  BY <1>2
<1>4. Reply(a, from, what)
  BY <1>3 DEF Reply
<1> QED BY <1>4, ReplyTyped

LEMMA DeliverTyped ==
  ASSUME TypeOK, Binding, NEW a \in Attempts, Deliver(a)
  PROVE  TypeOK'
<1> USE DeliveryAssumption
<1>0. /\ row' \in [status : Status, evidence : Grades \cup {NoGrade}, lastAttempt : Nat]
      /\ row'.status = "absent" <=> row'.evidence = NoGrade
  BY StepMovesRow, RowKept DEF Row
<1>1. CASE Insert(a)
  <2>1. stage' \in [Attempts -> Stage]
    BY <1>1, GoTyped DEF Insert, Stage
  <2>2. evidence' \in [Attempts -> Grades \cup {NoGrade}]
    BY <1>1 DEF Insert, TypeOK
  <2>3. UNCHANGED <<arrived, clock, askedAt, wasClaimed, answer>>
    BY <1>1 DEF Insert
  <2> QED BY <1>0, <2>1, <2>2, <2>3 DEF TypeOK
<1>2. CASE ReadCreated(a)
  <2>1. CASE Reply(a, "INSERTED", "failed") \/ Reply(a, "INSERTED", "delivered")
    BY <2>1, ReplyTyped DEF Answer
  <2>2. CASE Go(a, "INSERTED", "CLAIMING") /\ askedAt' = [askedAt EXCEPT ![a] = clock]
             /\ UNCHANGED <<row, arrived, clock, evidence, wasClaimed, answer>>
    <3>1. stage' \in [Attempts -> Stage]
      BY <2>2, GoTyped DEF Stage
    <3> QED BY <2>2, <3>1 DEF TypeOK
  <2> QED BY <1>2, <2>1, <2>2 DEF ReadCreated
<1>3. CASE Claim(a)
  <2>1. stage' \in [Attempts -> Stage]
    BY <1>3, GoTyped DEF Claim, Stage
  <2>2. wasClaimed' \in [Attempts -> BOOLEAN]
    BY <1>3 DEF Claim, TypeOK
  <2> QED BY <1>0, <1>3, <2>1, <2>2 DEF Claim, TypeOK
<1>4. CASE ReadClaimed(a)
  <2>1. CASE Go(a, "CLAIMED", "POSTING")
             /\ UNCHANGED <<row, arrived, clock, evidence, askedAt, wasClaimed, answer>>
    <3>1. stage' \in [Attempts -> Stage]
      BY <2>1, GoTyped DEF Stage
    <3> QED BY <2>1, <3>1 DEF TypeOK
  <2>2. CASE Reply(a, "NOT_CLAIMED", Reported(row.status))
    BY <2>2, ReportTyped DEF Bound
  <2> QED BY <1>4, <2>1, <2>2 DEF ReadClaimed
<1>5. CASE Post(a)
  <2>1. stage' \in [Attempts -> Stage] /\ stage[a] = "POSTING"
    BY <1>5, GoTyped DEF Post, Stage, Go
  <2>2. evidence[a] \in Grades
    BY <2>1 DEF Binding, Bound, TypeOK
  <2> QED BY <1>5, <2>1, <2>2 DEF Post, TypeOK
<1>6. CASE MarkDelivered(a)
  <2>1. stage' \in [Attempts -> Stage]
    BY <1>6, GoTyped DEF MarkDelivered, Stage
  <2> QED BY <1>0, <1>6, <2>1 DEF MarkDelivered, TypeOK
<1>7. CASE ReadDelivered(a)
  <2>1. CASE Go(a, "MARKED_DELIVERED", "UNPOSTED")
             /\ UNCHANGED <<row, arrived, clock, evidence, askedAt, wasClaimed, answer>>
    <3>1. stage' \in [Attempts -> Stage]
      BY <2>1, GoTyped DEF Stage
    <3> QED BY <2>1, <3>1 DEF TypeOK
  <2>2. CASE Reply(a, "MARKED_DELIVERED", Reported(row.status))
    BY <2>2, ReportTyped DEF Bound
  <2> QED BY <1>7, <2>1, <2>2 DEF ReadDelivered
<1>8. CASE MarkFailed(a)
  <2>1. stage' \in [Attempts -> Stage]
    BY <1>8, GoTyped DEF MarkFailed, Reply, Stage
  <2>2. answer' \in [Attempts -> Answer]
    BY <1>8 DEF MarkFailed, Reply, TypeOK, Answer
  <2> QED BY <1>0, <1>8, <2>1, <2>2 DEF MarkFailed, Reply, TypeOK
<1>9. CASE ReadFailed(a)
  BY <1>9, ReportTyped DEF ReadFailed, Bound
<1>10. CASE QueryFails(a)
  <2>1. stage' \in [Attempts -> Stage]
    BY <1>10, GoTyped DEF QueryFails, Reply, Stage
  <2>2. answer' \in [Attempts -> Answer] /\ evidence' \in [Attempts -> Grades \cup {NoGrade}]
    BY <1>10 DEF QueryFails, Reply, TypeOK, Answer
  <2>3. UNCHANGED <<arrived, clock, askedAt, wasClaimed>>
    BY <1>10 DEF QueryFails, Reply
  <2> QED BY <1>0, <2>1, <2>2, <2>3 DEF TypeOK
<1> QED BY <1>1, <1>2, <1>3, <1>4, <1>5, <1>6, <1>7, <1>8, <1>9, <1>10 DEF Deliver

\* What an attempt does to its own place in the binding, and to what has arrived.
LEMMA OwnBinding ==
  ASSUME TypeOK, Binding, NEW a \in Attempts, Deliver(a)
  PROVE  /\ stage'[a] = "INSERTED" => row'.status # "absent"
         /\ stage'[a] \in Bound => row'.status # "absent" /\ row'.evidence = evidence'[a]
         /\ \/ arrived' = arrived
            \/ stage[a] = "POSTING" /\ row' = row /\ arrived' = arrived \cup {evidence[a]}
<1> USE DEF Go, Bound
<1>0. /\ row.status # "absent" => row'.status # "absent" /\ row'.evidence = row.evidence
      /\ stage \in [Attempts -> Stage] /\ row.status \in Status
      /\ evidence \in [Attempts -> Grades \cup {NoGrade}]
      /\ stage[a] = "INSERTED" => row.status # "absent"
      /\ stage[a] \in Bound => row.status # "absent" /\ row.evidence = evidence[a]
  BY StepMovesRow, RowKept DEF TypeOK, Binding
<1>1. CASE Insert(a)
  <2>1. row'.status # "absent"
    BY <1>0, <1>1 DEF Insert, Created
  <2> QED BY <1>0, <1>1, <2>1 DEF Insert
<1>2. CASE ReadCreated(a)
  BY <1>0, <1>2 DEF ReadCreated, Reply, IsBoundToOtherEvidence
<1>3. CASE Claim(a)
  BY <1>0, <1>3 DEF Claim
<1>4. CASE ReadClaimed(a)
  BY <1>0, <1>4 DEF ReadClaimed, Reply
<1>5. CASE Post(a)
  BY <1>0, <1>5 DEF Post
<1>6. CASE MarkDelivered(a)
  BY <1>0, <1>6 DEF MarkDelivered
<1>7. CASE ReadDelivered(a)
  BY <1>0, <1>7 DEF ReadDelivered, Reply
<1>8. CASE MarkFailed(a)
  BY <1>0, <1>8 DEF MarkFailed, Reply
<1>9. CASE ReadFailed(a)
  BY <1>0, <1>9 DEF ReadFailed, Reply
<1>10. CASE QueryFails(a)
  BY <1>0, <1>10 DEF QueryFails, Reply
<1> QED BY <1>1, <1>2, <1>3, <1>4, <1>5, <1>6, <1>7, <1>8, <1>9, <1>10 DEF Deliver

LEMMA BindingPreserved ==
  ASSUME TypeOK, Binding, NEW a \in Attempts, Deliver(a)
  PROVE  Binding'
<1>1. row.status # "absent" => row'.status # "absent" /\ row'.evidence = row.evidence
  BY StepMovesRow, RowKept
<1>2. ASSUME NEW b \in Attempts
      PROVE  /\ stage'[b] = "INSERTED" => row'.status # "absent"
             /\ stage'[b] \in Bound => row'.status # "absent" /\ row'.evidence = evidence'[b]
  <2>1. CASE b = a
    BY <2>1, OwnBinding
  <2>2. CASE b # a
    BY <2>2, <1>1, OthersStay DEF Binding
  <2> QED BY <2>1, <2>2
<1>3. ASSUME NEW e \in arrived' PROVE e = row'.evidence /\ e \in Grades
  <2>1. CASE e \in arrived
    <3>1. e = row.evidence /\ e \in Grades
      BY <2>1 DEF Binding
    <3>2. row.status # "absent"
      BY <3>1, DeliveryAssumption DEF TypeOK
    <3> QED BY <3>1, <3>2, <1>1
  <2>2. CASE e \notin arrived
    <3>1. e = evidence[a] /\ row' = row /\ stage[a] = "POSTING"
      BY <2>2, OwnBinding
    <3>2. row.status # "absent" /\ row.evidence = e
      BY <3>1 DEF Binding, Bound
    <3> QED BY <3>1, <3>2 DEF TypeOK
  <2> QED BY <2>1, <2>2
<1> QED BY <1>2, <1>3 DEF Binding

-----------------------------------------------------------------------------
(* Arrival *)

LEMMA OwnArrival ==
  ASSUME TypeOK, Binding, Arrival, NEW a \in Attempts, Deliver(a)
  PROVE  /\ row'.status = "delivered" => arrived' # {}
         /\ stage'[a] = "POSTED" => arrived' # {}
         /\ stage'[a] = "MARKED_DELIVERED" => row'.status = "delivered"
         /\ answer'[a] = "delivered" => row'.status = "delivered"
<1> USE DEF Go, Reply
<1>0. /\ row.status = "delivered" => row' = row
      /\ stage \in [Attempts -> Stage] /\ answer \in [Attempts -> Answer]
      /\ row.status = "delivered" => arrived # {}
      /\ stage[a] = "POSTED" => arrived # {}
      /\ stage[a] = "MARKED_DELIVERED" => row.status = "delivered"
      /\ answer[a] = "delivered" => row.status = "delivered"
  BY StepMovesRow, RowKept DEF TypeOK, Arrival
<1>1. CASE Insert(a)
  BY <1>0, <1>1 DEF Insert, Created
<1>2. CASE ReadCreated(a)
  BY <1>0, <1>2 DEF ReadCreated
<1>3. CASE Claim(a)
  <2>1. row' = Claimed(a) => row'.status = "delivering"
    BY DEF Claimed, TypeOK
  <2> QED BY <1>0, <1>3, <2>1 DEF Claim
<1>4. CASE ReadClaimed(a)
  BY <1>0, <1>4 DEF ReadClaimed, Reported
<1>5. CASE Post(a)
  BY <1>0, <1>5 DEF Post
<1>6. CASE MarkDelivered(a)
  <2>1. row' = [row EXCEPT !.status = "delivered"] => row'.status = "delivered"
    BY DEF TypeOK
  <2> QED BY <1>0, <1>6, <2>1 DEF MarkDelivered
<1>7. CASE ReadDelivered(a)
  BY <1>0, <1>7 DEF ReadDelivered, Reported
<1>8. CASE MarkFailed(a)
  <2>1. row' = [row EXCEPT !.status = "failed"] => row'.status = "failed"
    BY DEF TypeOK
  <2> QED BY <1>0, <1>8, <2>1 DEF MarkFailed, CanFail
<1>9. CASE ReadFailed(a)
  BY <1>0, <1>9 DEF ReadFailed, Reported
<1>10. CASE QueryFails(a)
  <2>1. \A e \in Grades : row' = Created(e) => row' = row \/ row'.status = "pending"
    BY DEF Created
  <2>2. row' = Claimed(a) => row'.status = "delivering"
    BY DEF Claimed, TypeOK
  <2> QED BY <1>0, <1>10, <2>1, <2>2 DEF QueryFails
<1> QED BY <1>1, <1>2, <1>3, <1>4, <1>5, <1>6, <1>7, <1>8, <1>9, <1>10 DEF Deliver

LEMMA ArrivalPreserved ==
  ASSUME TypeOK, Binding, Arrival, NEW a \in Attempts, Deliver(a)
  PROVE  Arrival'
<1>1. row.status = "delivered" => row' = row
  BY StepMovesRow, RowKept
<1>2. arrived # {} => arrived' # {}
  BY OwnBinding
<1>3. ASSUME NEW b \in Attempts
      PROVE  /\ stage'[b] = "POSTED" => arrived' # {}
             /\ stage'[b] = "MARKED_DELIVERED" => row'.status = "delivered"
             /\ answer'[b] = "delivered" => row'.status = "delivered"
  <2>1. CASE b = a
    BY <2>1, OwnArrival
  <2>2. CASE b # a
    BY <2>2, <1>1, <1>2, OthersStay DEF Arrival
  <2> QED BY <2>1, <2>2
<1> QED BY <1>3, OwnArrival DEF Arrival

LEMMA DeliveryInvariantPreserved == DeliveryInvariant /\ [Next]_vars => DeliveryInvariant'
<1> SUFFICES ASSUME DeliveryInvariant, [Next]_vars PROVE DeliveryInvariant'
  OBVIOUS
<1> USE DEF DeliveryInvariant
<1>1. CASE UNCHANGED vars
  BY <1>1 DEF vars, TypeOK, Binding, Arrival
<1>2. CASE Tick
  <2>1. clock' \in 0..MaxClock
    BY <1>2, DeliveryAssumption DEF Tick, TypeOK
  <2> QED BY <1>2, <2>1 DEF Tick, attempts, TypeOK, Binding, Arrival
<1>3. ASSUME NEW a \in Attempts, Deliver(a) PROVE DeliveryInvariant'
  BY <1>3, DeliverTyped, BindingPreserved, ArrivalPreserved
<1> QED BY <1>1, <1>2, <1>3 DEF Next

LEMMA DeliveryInvariantHolds == Spec => []DeliveryInvariant
<1>1. Init => DeliveryInvariant
  BY BindingInit DEF DeliveryInvariant
<1> QED BY <1>1, DeliveryInvariantPreserved, PTL DEF Spec

\* The outbox and its attempts are well formed in every reachable state.
THEOREM DeliveryTypeCorrect == Spec => []TypeOK
<1>1. DeliveryInvariant => TypeOK
  BY DEF DeliveryInvariant
<1> QED BY <1>1, DeliveryInvariantHolds, PTL

\* What is marked delivered, or reported delivered to a learner, has arrived.
THEOREM DeliveredMeansArrived == Spec => []DeliveredHasArrived
<1>1. DeliveryInvariant => DeliveredHasArrived
  BY DEF DeliveryInvariant, Arrival, DeliveredHasArrived
<1> QED BY <1>1, DeliveryInvariantHolds, PTL

\* Nothing but the evidence that the outbox bound first ever arrives.
THEOREM OnePayloadArrives == Spec => []OnlyTheBoundEvidenceArrives
<1>1. DeliveryInvariant => OnlyTheBoundEvidenceArrives
  BY DEF DeliveryInvariant, Binding, OnlyTheBoundEvidenceArrives
<1> QED BY <1>1, DeliveryInvariantHolds, PTL

\* A delivered grade is never claimed, failed or bound again.
THEOREM DeliveryIsFinal == Spec => DeliveredIsFinal
<1>1. ASSUME DeliveryInvariant, Next PROVE row.status = "delivered" => row' = row
  <2>1. CASE Tick
    BY <2>1 DEF Tick
  <2>2. ASSUME NEW a \in Attempts, Deliver(a) PROVE row.status = "delivered" => row' = row
    BY <1>1, <2>2, StepMovesRow, RowKept DEF DeliveryInvariant
  <2> QED BY <1>1, <2>1, <2>2 DEF Next
<1>2. DeliveryInvariant /\ [Next]_vars => [row.status = "delivered" => row' = row]_vars
  BY <1>1
<1> QED BY <1>2, DeliveryInvariantHolds, PTL DEF Spec, DeliveredIsFinal

-----------------------------------------------------------------------------
(* The lease *)

Active == {"CLAIMED", "POSTING", "POSTED", "UNPOSTED", "MARKED_DELIVERED"}

OutlivedLease ==
    \E c, d \in Attempts : wasClaimed[c] /\ wasClaimed[d] /\ askedAt[c] + Lease < askedAt[d]

\* While no claim outlived its lease, the row is held for the one attempt that is
\* not through with it, by a claim that is no older than the attempt's own.
LeaseInvariant ==
    /\ \A a \in Attempts :
          /\ stage[a] \in Active => wasClaimed[a]
          /\ wasClaimed[a] => stage[a] \notin {"IDLE", "INSERTED", "CLAIMING"}
    /\ ~OutlivedLease =>
          \A a \in Attempts : stage[a] \in Active =>
             /\ row.status \in {"delivering", "delivered"}
             /\ askedAt[a] <= row.lastAttempt
             /\ \A b \in Attempts : stage[b] \in Active => b = a

\* What a step of an attempt does to the lease: it takes nothing, creates the row,
\* claims it, or gives it back.
LeaseStep(a) ==
    \/ /\ row' = row \/ (row.status = "delivering" /\ row' = [row EXCEPT !.status = "delivered"])
       /\ stage'[a] \in Active => stage[a] \in Active
       /\ wasClaimed'[a] = wasClaimed[a]
    \/ /\ row.status = "absent"
       /\ stage'[a] \notin Active
       /\ wasClaimed'[a] = wasClaimed[a]
    \/ /\ stage[a] = "CLAIMING" /\ IsClaimable(askedAt[a]) /\ row' = Claimed(a)
       /\ stage'[a] \notin {"IDLE", "INSERTED", "CLAIMING"}
       /\ stage'[a] \in Active => wasClaimed'[a]
       /\ wasClaimed[a] => wasClaimed'[a]
    \/ /\ stage[a] = "UNPOSTED" /\ stage'[a] \notin Active
       /\ wasClaimed'[a] = wasClaimed[a]

LEMMA StepIsLeaseStep ==
  ASSUME TypeOK, NEW a \in Attempts, Deliver(a)
  PROVE  LeaseStep(a)
<1> USE DEF Go, Reply, Active
<1>0. stage \in [Attempts -> Stage] /\ wasClaimed \in [Attempts -> BOOLEAN]
  BY DEF TypeOK
<1>1. CASE Insert(a)
  BY <1>0, <1>1 DEF Insert, Created, LeaseStep
<1>2. CASE ReadCreated(a)
  BY <1>0, <1>2 DEF ReadCreated, LeaseStep
<1>3. CASE Claim(a)
  BY <1>0, <1>3 DEF Claim, LeaseStep
<1>4. CASE ReadClaimed(a)
  BY <1>0, <1>4 DEF ReadClaimed, LeaseStep
<1>5. CASE Post(a)
  BY <1>0, <1>5 DEF Post, LeaseStep
<1>6. CASE MarkDelivered(a)
  BY <1>0, <1>6 DEF MarkDelivered, LeaseStep
<1>7. CASE ReadDelivered(a)
  BY <1>0, <1>7 DEF ReadDelivered, LeaseStep
<1>8. CASE MarkFailed(a)
  BY <1>0, <1>8 DEF MarkFailed, LeaseStep
<1>9. CASE ReadFailed(a)
  BY <1>0, <1>9 DEF ReadFailed, LeaseStep
<1>10. CASE QueryFails(a)
  BY <1>0, <1>10 DEF QueryFails, Created, LeaseStep
<1> QED BY <1>1, <1>2, <1>3, <1>4, <1>5, <1>6, <1>7, <1>8, <1>9, <1>10 DEF Deliver

\* An attempt does not go back behind its claim, and asks for it once.
LEMMA StagesAdvance ==
  ASSUME TypeOK, NEW a \in Attempts, Deliver(a)
  PROVE  /\ stage[a] \notin {"IDLE", "INSERTED", "CLAIMING"} =>
               stage'[a] \notin {"IDLE", "INSERTED", "CLAIMING"}
         /\ stage[a] # "INSERTED" => askedAt'[a] = askedAt[a]
<1> USE DEF Go, Reply
<1>0. stage \in [Attempts -> Stage]
  BY DEF TypeOK
<1>1. CASE Insert(a) BY <1>0, <1>1 DEF Insert
<1>2. CASE ReadCreated(a) BY <1>0, <1>2 DEF ReadCreated
<1>3. CASE Claim(a) BY <1>0, <1>3 DEF Claim
<1>4. CASE ReadClaimed(a) BY <1>0, <1>4 DEF ReadClaimed
<1>5. CASE Post(a) BY <1>0, <1>5 DEF Post
<1>6. CASE MarkDelivered(a) BY <1>0, <1>6 DEF MarkDelivered
<1>7. CASE ReadDelivered(a) BY <1>0, <1>7 DEF ReadDelivered
<1>8. CASE MarkFailed(a) BY <1>0, <1>8 DEF MarkFailed
<1>9. CASE ReadFailed(a) BY <1>0, <1>9 DEF ReadFailed
<1>10. CASE QueryFails(a) BY <1>0, <1>10 DEF QueryFails
<1> QED BY <1>1, <1>2, <1>3, <1>4, <1>5, <1>6, <1>7, <1>8, <1>9, <1>10 DEF Deliver

\* A claim, once made, stays and keeps the time it asked at.
LEMMA ClaimsLast ==
  ASSUME TypeOK, LeaseInvariant, NEW a \in Attempts, Deliver(a), NEW c \in Attempts
  PROVE  wasClaimed[c] => wasClaimed'[c] /\ askedAt'[c] = askedAt[c]
<1>1. CASE c # a
  BY <1>1, OthersStay
<1>2. CASE c = a
  BY <1>2, StagesAdvance, StepIsLeaseStep DEF LeaseInvariant, LeaseStep
<1> QED BY <1>1, <1>2

LEMMA LeaseStaysOutlived ==
  ASSUME TypeOK, LeaseInvariant, NEW a \in Attempts, Deliver(a), OutlivedLease
  PROVE  OutlivedLease'
<1>1. PICK c, d \in Attempts : wasClaimed[c] /\ wasClaimed[d] /\ askedAt[c] + Lease < askedAt[d]
  BY DEF OutlivedLease
<1>2. wasClaimed'[c] /\ wasClaimed'[d] /\ askedAt'[c] = askedAt[c] /\ askedAt'[d] = askedAt[d]
  BY <1>1, ClaimsLast
<1> QED BY <1>1, <1>2 DEF OutlivedLease

\* Whoever may claim while somebody is active takes over from an outlived lease.
LEMMA TakeoverOutlives ==
  ASSUME DeliveryInvariant, LeaseInvariant, ~OutlivedLease,
         NEW a \in Attempts, IsClaimable(askedAt[a]),
         NEW b \in Attempts, stage[b] \in Active
  PROVE  wasClaimed[b] /\ askedAt[b] + Lease < askedAt[a]
<1>1. row.status \in {"delivering", "delivered"} /\ askedAt[b] <= row.lastAttempt /\ wasClaimed[b]
  BY DEF LeaseInvariant
<1>2. row.lastAttempt < askedAt[a] - Lease
  BY <1>1 DEF IsClaimable
<1>3. row.lastAttempt \in Nat /\ askedAt[a] \in Nat /\ askedAt[b] \in Nat /\ Lease \in Nat
  BY DeliveryAssumption DEF DeliveryInvariant, TypeOK
<1> QED BY <1>1, <1>2, <1>3

LEMMA LeasePreserved ==
  ASSUME DeliveryInvariant, LeaseInvariant, NEW a \in Attempts, Deliver(a)
  PROVE  LeaseInvariant'
<1> USE DEF DeliveryInvariant
<1>0. LeaseStep(a)
  BY StepIsLeaseStep
<1>1. ASSUME NEW b \in Attempts
      PROVE  /\ stage'[b] \in Active => wasClaimed'[b]
             /\ wasClaimed'[b] => stage'[b] \notin {"IDLE", "INSERTED", "CLAIMING"}
  <2>1. CASE b # a
    BY <2>1, OthersStay DEF LeaseInvariant
  <2>2. CASE b = a
    BY <2>2, <1>0, StagesAdvance DEF LeaseInvariant, LeaseStep
  <2> QED BY <2>1, <2>2
<1>2. ASSUME ~OutlivedLease', NEW b \in Attempts, stage'[b] \in Active
      PROVE  /\ row'.status \in {"delivering", "delivered"}
             /\ askedAt'[b] <= row'.lastAttempt
             /\ \A c \in Attempts : stage'[c] \in Active => c = b
  <2>0. ~OutlivedLease
    BY <1>2, LeaseStaysOutlived
  <2>1. ASSUME NEW c \in Attempts, stage[c] \in Active
        PROVE  /\ row.status \in {"delivering", "delivered"}
               /\ askedAt[c] <= row.lastAttempt /\ askedAt'[c] = askedAt[c]
               /\ \A d \in Attempts : stage[d] \in Active => d = c
    <3>1. stage[c] # "INSERTED"
      BY <2>1 DEF Active
    <3> QED BY <2>0, <2>1, <3>1, StagesAdvance, OthersStay DEF LeaseInvariant
  <2>2. ASSUME NEW c \in Attempts, c # a, stage'[c] \in Active PROVE stage[c] \in Active
    BY <2>2, OthersStay
  <2>3. CASE /\ row' = row \/ (row.status = "delivering"
                                /\ row' = [row EXCEPT !.status = "delivered"])
             /\ stage'[a] \in Active => stage[a] \in Active
    <3>1. \A c \in Attempts : stage'[c] \in Active => stage[c] \in Active
      BY <2>2, <2>3
    <3>2. row'.lastAttempt = row.lastAttempt
          /\ (row.status \in {"delivering", "delivered"} => row'.status \in {"delivering", "delivered"})
      BY <2>3 DEF TypeOK
    <3> QED BY <1>2, <2>1, <3>1, <3>2
  <2>4. CASE row.status = "absent" /\ stage'[a] \notin Active
    BY <1>2, <2>1, <2>2, <2>4
  <2>5. CASE /\ stage[a] = "CLAIMING" /\ IsClaimable(askedAt[a]) /\ row' = Claimed(a)
             /\ stage'[a] \in Active => wasClaimed'[a]
    <3>1. askedAt'[a] = askedAt[a]
      BY <2>5, StagesAdvance
    <3>2. row'.status = "delivering" /\ row'.lastAttempt = askedAt[a] /\ askedAt[a] \in Nat
      BY <2>5, DeliveryAssumption DEF Claimed, TypeOK
    <3>3. ASSUME NEW c \in Attempts, c # a, stage'[c] \in Active
          PROVE  /\ stage'[a] \notin Active /\ stage[c] \in Active
                 /\ askedAt'[c] < askedAt[a]
      <4>1. stage[c] \in Active
        BY <2>2, <3>3
      <4>2. wasClaimed[c] /\ askedAt[c] + Lease < askedAt[a]
        BY <2>0, <2>5, <4>1, TakeoverOutlives
      <4>3. wasClaimed'[c] /\ askedAt'[c] = askedAt[c]
        BY <4>2, ClaimsLast
      <4>4. stage'[a] \notin Active
        BY <1>2, <2>5, <3>1, <4>2, <4>3 DEF OutlivedLease
      <4>5. askedAt[c] \in Nat /\ Lease \in Nat
        BY DeliveryAssumption DEF TypeOK
      <4> QED BY <3>2, <4>1, <4>2, <4>3, <4>4, <4>5
    <3>4. CASE b = a
      BY <1>2, <3>1, <3>2, <3>3, <3>4
    <3>5. CASE b # a
      <4>1. stage'[a] \notin Active /\ stage[b] \in Active /\ askedAt'[b] < askedAt[a]
        BY <1>2, <3>3, <3>5
      <4>2. askedAt'[b] \in Nat
        BY <4>1, <2>1, DeliveryAssumption DEF TypeOK
      <4>3. \A c \in Attempts : stage'[c] \in Active => c = b
        BY <2>1, <2>2, <4>1
      <4> QED BY <3>2, <4>1, <4>2, <4>3
    <3> QED BY <3>4, <3>5
  <2>6. CASE stage[a] = "UNPOSTED" /\ stage'[a] \notin Active
    <3>1. stage[a] \in Active
      BY <2>6 DEF Active
    <3> QED BY <1>2, <2>1, <2>2, <2>6, <3>1
  <2> QED BY <1>0, <2>3, <2>4, <2>5, <2>6 DEF LeaseStep
<1> QED BY <1>1, <1>2 DEF LeaseInvariant

LEMMA LeaseInvariantPreserved ==
  DeliveryInvariant /\ LeaseInvariant /\ [Next]_vars => LeaseInvariant'
<1> SUFFICES ASSUME DeliveryInvariant, LeaseInvariant, [Next]_vars PROVE LeaseInvariant'
  OBVIOUS
<1>1. CASE UNCHANGED vars
  BY <1>1 DEF vars, LeaseInvariant, OutlivedLease
<1>2. CASE Tick
  BY <1>2 DEF Tick, attempts, LeaseInvariant, OutlivedLease
<1>3. ASSUME NEW a \in Attempts, Deliver(a) PROVE LeaseInvariant'
  BY <1>3, LeasePreserved
<1> QED BY <1>1, <1>2, <1>3 DEF Next

\* As long as no claim outlives its lease, one attempt at a time posts.
THEOREM OneAttemptPosts == Spec => []OverlapOnlyAfterLease
<1>1. Init => LeaseInvariant
  BY DEF Init, LeaseInvariant, Active
<1>2. LeaseInvariant => OverlapOnlyAfterLease
  BY DEF LeaseInvariant, OverlapOnlyAfterLease, OutlivedLease, Holds, Active
<1> QED BY <1>1, <1>2, LeaseInvariantPreserved, DeliveryInvariantHolds, PTL DEF Spec

-----------------------------------------------------------------------------
(* Branches of a completed run: the invariant *)

IsSeq(s) == \E S : s \in Seq(S)

CoffeeFields == {"status", "step", "variant", "choice"}

IsCoffeeState(r) == r = [f \in CoffeeFields |-> r[f]] /\ r.step \in DOMAIN CoffeeSteps

IsCoffeeCommand(c) == \E r : IsCoffeeState(r) /\ c \in CoffeeSendable(r)

\* The source's batches are numbered; of the coffee journey they are its own commands,
\* and none changes the condition it is played under.
SourceInv ==
    /\ source \in Sources
    /\ IsSeq(played)
    /\ \A i \in DOMAIN played : played[i].id = i
    /\ PlaysCoffee =>
          \A i \in DOMAIN played :
              /\ IsCoffeeState(played[i].run)
              /\ played[i].run.variant = source.start.variant
              /\ IsCoffeeCommand(played[i].command)

\* What is recorded of a branch: where it leaves a completed source, and why it may.
WellMade(b, m) ==
    /\ m.fork \in DOMAIN played
    /\ m.decision = DecisionOf(played[m.fork].command)
    /\ m.decision # "none"
    /\ \/ m.kind = "DECISION" /\ m.alternative = "none"
       \/ /\ m.kind = "CONDITION" /\ PlaysCoffee
          /\ m.alternative # "none" /\ m.alternative # source.start.variant
    /\ source.assignment.learners = "AFTER_FEEDBACK_RELEASE" /\ m.creator = "learner"
           => released

BranchInv ==
    /\ DOMAIN branches \subseteq BranchIds
    /\ \A b \in DOMAIN branches : Completed(SourceState) /\ WellMade(b, branches[b])

\* What the first command of a branch has to be.
Fits(b, id, command) ==
    /\ id = branches[b].intervention
    /\ IF branches[b].kind = "DECISION" THEN ChangesTheDecision(b, command)
       ELSE command = OriginalCommand(b)

\* Nothing was entered by hand after the intervention, nor has that the identifier of a
\* batch to be replayed.
OnlyReplayed(b) ==
    \A i \in DOMAIN log[b] :
        LET isReplayable == log[b][i].id \in branches[b].fork + 1 .. Len(played)
        IN  IF i > 1 THEN log[b][i].by # "hand" /\ isReplayable ELSE ~isReplayable

\* The i-th batch of the branch is the source's i-th, from the decision on.
InStep(b) ==
    \A i \in DOMAIN log[b] :
        i > 1 => /\ branches[b].fork + i - 1 <= Len(played)
                 /\ log[b][i].id = branches[b].fork + i - 1
                 /\ log[b][i].command = played[branches[b].fork + i - 1].command

\* Identifiers are used once, an expired limit is the end, and what was only replayed has
\* no gap.
LogOf(b) ==
    /\ IsSeq(log[b])
    /\ log[b] # << >> => log[b][1].by = "hand" /\ Fits(b, log[b][1].id, log[b][1].command)
    /\ \A i, j \in DOMAIN log[b] : log[b][i].id = log[b][j].id => i = j
    /\ \A i \in DOMAIN log[b] :
          log[b][i].expired => source.limited /\ overdue /\ ~Completed(StateOf(b))
    /\ PlaysCoffee => \A i \in DOMAIN log[b] : IsCoffeeState(log[b][i].run)
    /\ OnlyReplayed(b) => InStep(b)

LogInv ==
    /\ DOMAIN log = BranchIds
    /\ \A b \in BranchIds \ DOMAIN branches : log[b] = << >>
    /\ \A b \in DOMAIN branches : LogOf(b)

\* A replay that read n batches has left out none after them.
Covers(b, left, n) ==
    /\ log[b] # << >>
    /\ left \subseteq branches[b].fork + 1 .. Len(played)
    /\ n \in 0 .. Len(log[b])
    /\ OnlyReplayed(b) =>
          \A k \in (branches[b].fork + 1 .. Len(played)) \ left : k < branches[b].fork + n

\* What a handler is about to do is still as well founded as when it was looked up.
IsSound(step) ==
    /\ step.at = "insert" =>
          /\ step.branch \in BranchIds
          /\ Completed(SourceState) /\ WellMade(step.branch, step.metadata)
    /\ step.at \in {"submit", "load", "replay"} => step.branch \in DOMAIN branches
    /\ step.at = "submit" /\ log[step.branch] = << >> => Fits(step.branch, step.id, step.command)
    /\ step.at = "load" => Covers(step.branch, step.left, Len(log[step.branch]))
    /\ step.at = "replay" => Covers(step.branch, step.left, step.version)

HandlerInv == DOMAIN handling = Handlers /\ \A h \in Handlers : IsSound(handling[h])

ExplorationInv == SourceInv /\ BranchInv /\ LogInv /\ HandlerInv

-----------------------------------------------------------------------------
(* Sequences and numbers *)

LEMMA LeastOf ==
    ASSUME NEW T, T \subseteq Nat, T # {}
    PROVE  \E x \in T : \A y \in T : x <= y
<1> DEFINE R == {p \in Nat \X Nat : p[1] < p[2]}
<1>1. OpToRel(<, Nat) = R
  BY DEF OpToRel
<1>2. IsWellFoundedOn(R, Nat)
  BY <1>1, NatLessThanWellFounded
<1>3. \A m, n \in Nat : <<m, n>> \notin R => n <= m
  OBVIOUS
<1> HIDE DEF R
<1>4. PICK x \in T : \A y \in T : ~(<<y, x>> \in R)
  BY <1>2, WFMin
<1> QED
  BY <1>3, <1>4

LEMMA MinIsLeast ==
    ASSUME NEW T, T \subseteq Nat, T # {}
    PROVE  Min(T) \in T /\ \A y \in T : Min(T) <= y
<1>1. \E x \in T : \A y \in T : x <= y
  BY LeastOf
<1> QED
  BY <1>1 DEF Min

LEMMA SeqFacts ==
    ASSUME NEW s, IsSeq(s)
    PROVE  /\ Len(s) \in Nat /\ DOMAIN s = 1 .. Len(s)
           /\ s = << >> <=> Len(s) = 0
           /\ SubSeq(s, 1, Len(s)) = s
BY DEF IsSeq

LEMMA SuffixFacts ==
    ASSUME NEW s, IsSeq(s), NEW f \in Nat, f <= Len(s)
    PROVE  /\ Len(SubSeq(s, f + 1, Len(s))) = Len(s) - f
           /\ DOMAIN SubSeq(s, f + 1, Len(s)) = 1 .. Len(s) - f
           /\ \A i \in 1 .. Len(s) - f : SubSeq(s, f + 1, Len(s))[i] = s[f + i]
<1>1. PICK S : s \in Seq(S)
  BY DEF IsSeq
<1>2. Len(s) \in Nat /\ DOMAIN s = 1 .. Len(s)
  BY <1>1
<1>3. CASE f = Len(s)
  BY <1>1, <1>2, <1>3
<1>4. Len(s) \in Nat
  BY <1>2
<1>5. CASE f # Len(s)
  <2> DEFINE m == f + 1
             t == SubSeq(s, m, Len(s))
  <2>1. m \in Int /\ Len(s) \in Int /\ m <= Len(s)
    BY <1>4, <1>5
  <2>2. \A i \in m .. Len(s) : s[i] \in S
    BY <1>1, <1>2
  <2> HIDE DEF m
  <2>3. /\ t \in Seq(S) /\ Len(t) = Len(s) - m + 1
        /\ \A i \in 1 .. Len(s) - m + 1 : t[i] = s[m + i - 1]
    BY <2>1, <2>2, SubSeqProperties
  <2>4. Len(s) - m + 1 = Len(s) - f /\ \A i \in 1 .. Len(s) - f : m + i - 1 = f + i
    BY <1>2 DEF m
  <2> HIDE DEF t
  <2>5. DOMAIN t = 1 .. Len(s) - f
    BY <2>3, <2>4
  <2>6. Len(t) = Len(s) - f /\ \A i \in 1 .. Len(s) - f : t[i] = s[f + i]
    BY <2>3, <2>4
  <2> QED
    BY <2>5, <2>6 DEF t, m
<1> QED
  BY <1>3, <1>5

LEMMA AppendFacts ==
    ASSUME NEW s, NEW e, IsSeq(s)
    PROVE  /\ IsSeq(Append(s, e))
           /\ Len(Append(s, e)) = Len(s) + 1
           /\ DOMAIN Append(s, e) = 1 .. Len(s) + 1
           /\ \A i \in DOMAIN s : Append(s, e)[i] = s[i]
           /\ Append(s, e)[Len(s) + 1] = e
<1>1. PICK S : s \in Seq(S)
  BY DEF IsSeq
<1>2. s \in Seq(S \union {e})
  BY <1>1
<1>3. Append(s, e) \in Seq(S \union {e})
  BY <1>2
<1> QED
  BY <1>2, <1>3, AppendProperties DEF IsSeq

-----------------------------------------------------------------------------
(* The coffee journey *)

LEMMA CoffeeRunsStayCoffee ==
    ASSUME NEW r, IsCoffeeState(r), NEW c
    PROVE  IsCoffeeState(CoffeeDo(r, c).run) /\ CoffeeDo(r, c).run.variant = r.variant
<1>1. IsCoffeeState(CoffeeNext(r)) /\ CoffeeNext(r).variant = r.variant
  <2>1. ASSUME NEW s \in DOMAIN CoffeeSteps
        PROVE  IsCoffeeState([r EXCEPT !.step = s]) /\ [r EXCEPT !.step = s].variant = r.variant
    BY DEF IsCoffeeState, CoffeeFields
  <2>2. IsCoffeeState([r EXCEPT !.status = "completed"])
        /\ [r EXCEPT !.status = "completed"].variant = r.variant
    BY DEF IsCoffeeState, CoffeeFields
  <2>3. {"decision", "transaction", "custody"} \subseteq DOMAIN CoffeeSteps
    BY DEF CoffeeSteps
  <2> QED
    BY <2>1, <2>2, <2>3 DEF CoffeeNext
<1>2. ASSUME NEW o, NEW q, IsCoffeeState(q)
      PROVE  IsCoffeeState([q EXCEPT !.choice = o]) /\ [q EXCEPT !.choice = o].variant = q.variant
  BY <1>2 DEF IsCoffeeState, CoffeeFields
<1>3. \/ CoffeeDo(r, c).run = r
      \/ CoffeeDo(r, c).run = CoffeeNext(r)
      \/ CoffeeDo(r, c).run = [CoffeeNext(r) EXCEPT !.choice = c.response.option]
  BY DEF CoffeeDo, Refused, Accepted
<1>4. /\ IsCoffeeState([CoffeeNext(r) EXCEPT !.choice = c.response.option])
      /\ [CoffeeNext(r) EXCEPT !.choice = c.response.option].variant = r.variant
  BY <1>1, <1>2
<1>5. CASE CoffeeDo(r, c).run = [CoffeeNext(r) EXCEPT !.choice = c.response.option]
  BY <1>4, <1>5
<1> QED
  BY <1>1, <1>3, <1>5

\* On the coffee journey a decision and its option are all there is to a command.
LEMMA SameChoiceSameCommand ==
    ASSUME NEW c, NEW d, IsCoffeeCommand(c), IsCoffeeCommand(d),
           DecisionOf(c) = DecisionOf(d), DecisionOf(d) # "none",
           OptionsOf(c) = OptionsOf(d)
    PROVE  c = d
<1>1. ASSUME NEW x, IsCoffeeCommand(x), DecisionOf(x) # "none"
      PROVE  \E o : x = [type |-> "SUBMIT_CERTIFICATE_DECISION", decision |-> "certificate",
                         response |-> [option |-> o]]
  <2>1. PICK r : IsCoffeeState(r) /\ x \in CoffeeSendable(r)
    BY <1>1 DEF IsCoffeeCommand
  <2>2. CASE r.step = "decision"
    BY <2>1, <2>2 DEF CoffeeSendable, CoffeeSteps
  <2>3. CASE r.step # "decision"
    <3>1. x = [type |-> CoffeeSteps[r.step]]
      BY <2>1, <2>3 DEF CoffeeSendable
    <3>2. CoffeeSteps[r.step] \notin
              {"SUBMIT_STRUCTURED_DECISION", "SUBMIT_CERTIFICATE_DECISION"}
      BY <2>1, <2>3 DEF CoffeeSteps, IsCoffeeState
    <3> QED
      BY <1>1, <3>1, <3>2 DEF DecisionOf
  <2> QED
    BY <2>2, <2>3
<1>2. PICK o : c = [type |-> "SUBMIT_CERTIFICATE_DECISION", decision |-> "certificate",
                    response |-> [option |-> o]]
  BY <1>1
<1>3. PICK p : d = [type |-> "SUBMIT_CERTIFICATE_DECISION", decision |-> "certificate",
                    response |-> [option |-> p]]
  BY <1>1
<1>4. {o} = {p}
  BY <1>2, <1>3 DEF OptionsOf
<1> QED
  BY <1>2, <1>3, <1>4

LEMMA StartIsCoffee ==
    ASSUME ExplorationAssumption, SourceInv, PlaysCoffee
    PROVE  IsCoffeeState(source.start)
<1>1. source.start = CoffeeStart(source.start.variant)
  BY DEF ExplorationAssumption, SourceInv, PlaysCoffee
<1>2. \A v : IsCoffeeState(CoffeeStart(v))
  BY DEF CoffeeStart, IsCoffeeState, CoffeeFields, CoffeeSteps
<1> QED
  BY <1>1, <1>2

\* Until the fork the source was played under its own condition.
LEMMA PrefixIsCoffee ==
    ASSUME ExplorationAssumption, SourceInv, PlaysCoffee, NEW n \in 0 .. Len(played)
    PROVE  LET r == StateAfter(source.start, SubSeq(played, 1, n))
           IN  IsCoffeeState(r) /\ r.variant = source.start.variant
<1>1. PICK S : played \in Seq(S)
  BY DEF SourceInv, IsSeq
<1>2. CASE n = 0
  <2>1. SubSeq(played, 1, n) = << >>
    BY <1>1, <1>2
  <2> QED
    BY <2>1, StartIsCoffee DEF StateAfter
<1>3. CASE n # 0
  <2>1. /\ SubSeq(played, 1, n) # << >> /\ n \in DOMAIN played
        /\ Last(SubSeq(played, 1, n)) = played[n]
    BY <1>1, <1>3 DEF Last
  <2> QED
    BY <2>1 DEF StateAfter, SourceInv
<1> QED
  BY <1>2, <1>3

LEMMA SourceStateIsCoffee ==
    ASSUME ExplorationAssumption, SourceInv, PlaysCoffee
    PROVE  IsCoffeeState(SourceState) /\ SourceState.variant = source.start.variant
<1>1. Len(played) \in 0 .. Len(played) /\ SubSeq(played, 1, Len(played)) = played
  BY SeqFacts DEF SourceInv
<1> QED
  BY <1>1, PrefixIsCoffee DEF SourceState

LEMMA ForkIsCoffee ==
    ASSUME ExplorationAssumption, SourceInv, PlaysCoffee, NEW b, branches[b].fork \in DOMAIN played
    PROVE  IsCoffeeState(ForkOf(b)) /\ ForkOf(b).variant = source.start.variant
<1>1. branches[b].fork - 1 \in 0 .. Len(played)
  BY SeqFacts DEF SourceInv
<1> QED
  BY <1>1, PrefixIsCoffee DEF ForkOf

-----------------------------------------------------------------------------
(* The state of a branch *)

LEMMA StateOfLog ==
    ASSUME NEW b, IsSeq(log[b])
    PROVE  StateOf(b) = IF log[b] = << >> THEN ForkState(ForkOf(b), branches[b].alternative)
                        ELSE log[b][Len(log[b])].run
<1>1. SubSeq(log[b], 1, Len(log[b])) = log[b]
  BY SeqFacts
<1> QED
  BY <1>1 DEF StateOf, StateAt, StateAfter, Last

LEMMA BranchIsCoffee ==
    ASSUME ExplorationAssumption, SourceInv, PlaysCoffee, NEW b \in DOMAIN branches,
           WellMade(b, branches[b]), LogOf(b)
    PROVE  IsCoffeeState(StateOf(b))
<1>1. IsSeq(log[b])
  BY DEF LogOf
<1>2. CASE log[b] = << >>
  <2>1. StateOf(b) = ForkState(ForkOf(b), branches[b].alternative)
    BY <1>1, <1>2, StateOfLog
  <2>2. IsCoffeeState(ForkOf(b))
    BY ForkIsCoffee DEF WellMade
  <2>3. \A r, v : IsCoffeeState(r) => IsCoffeeState([r EXCEPT !.variant = v])
    BY DEF IsCoffeeState, CoffeeFields
  <2> QED
    BY <2>1, <2>2, <2>3 DEF ForkState
<1>3. CASE log[b] # << >>
  <2>1. StateOf(b) = log[b][Len(log[b])].run
    BY <1>1, <1>3, StateOfLog
  <2>2. Len(log[b]) \in DOMAIN log[b]
    BY <1>1, <1>3, SeqFacts
  <2> QED
    BY <2>1, <2>2 DEF LogOf
<1> QED
  BY <1>2, <1>3

-----------------------------------------------------------------------------
(* A command submitted to a branch *)

\* The batch a submission appends.
Batch(id, command, version, expired, r, by) ==
    [id |-> id, command |-> command, version |-> version, expired |-> expired, run |-> r,
     by |-> by]

\* What is appended was asked for at the branch's version and not before, to a branch that
\* is not completed and has not run out of time.
LEMMA SubmissionAppends ==
    ASSUME NEW b, NEW id, NEW command, NEW version, NEW by
    PROVE  LET result == Submission(b, id, command, version, by)
           IN  \/ /\ result.log = log[b]
                  /\ result.code = "OK" => \E e \in Range(log[b]) : e.id = id
               \/ \E expired \in BOOLEAN : \E r :
                     /\ result.log = Append(log[b], Batch(id, command, version, expired, r, by))
                     /\ ~ \E e \in Range(log[b]) : e.id = id
                     /\ version = Len(log[b])
                     /\ source.limited /\ overdue => ~ \E e \in Range(log[b]) : e.expired
                     /\ expired => source.limited /\ overdue /\ ~Completed(StateOf(b))
                                   /\ r = StateOf(b)
                     /\ r \in {StateOf(b), Do(StateOf(b), command).run}
<1> DEFINE state == StateOf(b)
           done == Do(StateOf(b), command)
           result == Submission(b, id, command, version, by)
           Used == \E e \in Range(log[b]) : e.id = id
           Expired == \E e \in Range(log[b]) : e.expired
<1>1. {e \in Range(log[b]) : e.id = id} # {} <=> Used
  OBVIOUS
<1>2. CASE command.type = "INCIDENT"
  BY <1>2 DEF Submission
<1>3. CASE command.type # "INCIDENT" /\ Used
  <2>1. result.log = log[b]
    BY <1>1, <1>3 DEF Submission
  <2> QED
    BY <1>3, <2>1
<1>4. CASE command.type # "INCIDENT" /\ ~Used
  <2>1. CASE version # Len(log[b]) \/ Completed(state)
    BY <1>1, <1>4, <2>1 DEF Submission
  <2>2. CASE version = Len(log[b]) /\ ~Completed(state) /\ source.limited /\ overdue
    <3>1. CASE Expired
      <4>1. result = [code |-> "RUN_TIME_LIMIT_EXCEEDED", log |-> log[b]]
        BY <1>1, <1>4, <2>2, <3>1 DEF Submission
      <4> QED
        BY <4>1
    <3>2. CASE ~Expired
      <4>1. result.log = Append(log[b], Batch(id, command, version, TRUE, state, by))
        BY <1>1, <1>4, <2>2, <3>2 DEF Submission, Batch
      <4> HIDE DEF result
      <4> QED
        BY <1>4, <2>2, <3>2, <4>1 DEF result
    <3> QED
      BY <3>1, <3>2
  <2>3. CASE version = Len(log[b]) /\ ~Completed(state) /\ ~(source.limited /\ overdue)
    <3>1. CASE done.code # "OK"
      <4>1. result = [code |-> done.code, log |-> log[b]]
        BY <1>1, <1>4, <2>3, <3>1 DEF Submission
      <4> QED
        BY <3>1, <4>1
    <3>2. CASE done.code = "OK"
      <4>1. result.log = Append(log[b], Batch(id, command, version, FALSE, done.run, by))
        BY <1>1, <1>4, <2>3, <3>2 DEF Submission, Batch
      <4> HIDE DEF result
      <4> QED
        BY <1>4, <2>3, <4>1 DEF result
    <3> QED
      BY <3>1, <3>2
  <2> QED
    BY <2>1, <2>2, <2>3
<1> QED
  BY <1>2, <1>3, <1>4

-----------------------------------------------------------------------------
(* What no step takes back *)

LogGrows(b) == log'[b] = log[b] \/ \E e : log'[b] = Append(log[b], e)

\* No step once the source is completed changes it, a branch or what a branch has.
Grows ==
    /\ source' = source /\ played' = played
    /\ released => released'
    /\ overdue => overdue'
    /\ DOMAIN branches \subseteq DOMAIN branches'
    /\ \A b \in DOMAIN branches : branches'[b] = branches[b] /\ LogGrows(b)

LEMMA WellMadeStays ==
    ASSUME Grows, NEW b, NEW m, WellMade(b, m)
    PROVE  WellMade(b, m)'
BY DEF Grows, WellMade, PlaysCoffee

LEMMA SourceStateStays ==
    ASSUME Grows
    PROVE  SourceState' = SourceState
BY DEF Grows, SourceState

LEMMA FitsStays ==
    ASSUME Grows, NEW b \in DOMAIN branches, NEW id, NEW c, Fits(b, id, c)
    PROVE  Fits(b, id, c)'
BY DEF Grows, Fits, ChangesTheDecision, OriginalCommand, PointOf

LEMMA GrownLog ==
    ASSUME Grows, NEW b \in DOMAIN branches, IsSeq(log[b])
    PROVE  /\ IsSeq(log'[b])
           /\ Len(log[b]) <= Len(log'[b])
           /\ DOMAIN log[b] \subseteq DOMAIN log'[b]
           /\ \A i \in DOMAIN log[b] : log'[b][i] = log[b][i]
           /\ log[b] # << >> => log'[b] # << >>
<1>1. /\ Len(log[b]) \in Nat /\ DOMAIN log[b] = 1 .. Len(log[b])
      /\ log[b] = << >> <=> Len(log[b]) = 0
  BY SeqFacts
<1>2. CASE log'[b] = log[b]
  BY <1>1, <1>2
<1>3. CASE \E e : log'[b] = Append(log[b], e)
  <2>1. PICK e : log'[b] = Append(log[b], e)
    BY <1>3
  <2>2. /\ IsSeq(log'[b])
        /\ Len(log'[b]) = Len(log[b]) + 1
        /\ DOMAIN log'[b] = 1 .. Len(log[b]) + 1
        /\ \A i \in DOMAIN log[b] : log'[b][i] = log[b][i]
    BY <2>1, AppendFacts
  <2>3. log'[b] = << >> <=> Len(log'[b]) = 0
    BY <2>2, SeqFacts
  <2> QED
    BY <1>1, <2>2, <2>3
<1> QED
  BY <1>2, <1>3 DEF Grows, LogGrows

LEMMA OnlyReplayedBefore ==
    ASSUME Grows, NEW b \in DOMAIN branches, IsSeq(log[b]), OnlyReplayed(b)'
    PROVE  OnlyReplayed(b)
<1>1. /\ DOMAIN log[b] \subseteq DOMAIN log'[b]
      /\ \A i \in DOMAIN log[b] : log'[b][i] = log[b][i]
  BY GrownLog
<1>2. branches'[b] = branches[b] /\ played' = played
  BY DEF Grows
<1> QED
  BY <1>1, <1>2 DEF OnlyReplayed

LEMMA CoversStays ==
    ASSUME Grows, NEW b \in DOMAIN branches, IsSeq(log[b]), NEW left, NEW n \in Nat, NEW k \in Nat,
           n <= k, k <= Len(log'[b]), branches[b].fork \in Nat, Len(played) \in Nat,
           Covers(b, left, n)
    PROVE  Covers(b, left, k)'
<1>1. log'[b] # << >>
  BY GrownLog DEF Covers
<1>2. branches'[b] = branches[b] /\ played' = played
  BY DEF Grows
<1>3. OnlyReplayed(b)' => OnlyReplayed(b)
  BY OnlyReplayedBefore
<1>4. OnlyReplayed(b)' =>
          \A i \in (branches[b].fork + 1 .. Len(played)) \ left : i < branches[b].fork + k
  BY <1>3 DEF Covers
<1>5. k \in 0 .. Len(log'[b])
  BY GrownLog DEF IsSeq
<1> QED
  BY <1>1, <1>2, <1>4, <1>5 DEF Covers

\* What a handler found out is still so when it is at it.
LEMMA SoundStays ==
    ASSUME Grows, SourceInv, BranchInv, LogInv, NEW step, IsSound(step)
    PROVE  IsSound(step)'
<1>1. step.at \in {"submit", "load", "replay"} =>
          step.branch \in DOMAIN branches /\ step.branch \in DOMAIN branches'
  BY DEF IsSound, Grows
<1>2. ASSUME step.at = "insert"
      PROVE  /\ step.branch \in BranchIds /\ Completed(SourceState)'
             /\ WellMade(step.branch, step.metadata)'
  BY <1>2, SourceStateStays, WellMadeStays DEF IsSound, Completed
<1>3. ASSUME step.at = "submit"
      PROVE  log'[step.branch] = << >> => Fits(step.branch, step.id, step.command)'
  <2>1. branches'[step.branch] = branches[step.branch]
    BY <1>1, <1>3 DEF Grows
  <2>2. log'[step.branch] = << >> => log[step.branch] = << >>
    BY <1>1, <1>3, GrownLog DEF LogInv, LogOf
  <2> QED
    BY <1>1, <1>3, <2>1, <2>2, FitsStays DEF IsSound
<1>4. ASSUME step.branch \in DOMAIN branches
      PROVE  /\ IsSeq(log[step.branch]) /\ branches[step.branch].fork \in Nat
             /\ Len(log[step.branch]) \in Nat /\ Len(log'[step.branch]) \in Nat
             /\ Len(log[step.branch]) <= Len(log'[step.branch])
             /\ Len(played) \in Nat
  <2>1. IsSeq(log[step.branch])
    BY <1>4 DEF LogInv, LogOf
  <2>2. branches[step.branch].fork \in DOMAIN played
    BY <1>4 DEF BranchInv, WellMade
  <2>3. IsSeq(log'[step.branch]) /\ Len(log[step.branch]) <= Len(log'[step.branch])
    BY <1>4, <2>1, GrownLog
  <2>4. Len(played) \in Nat /\ DOMAIN played = 1 .. Len(played)
    BY SeqFacts DEF SourceInv
  <2> QED
    BY <2>1, <2>2, <2>3, <2>4, SeqFacts
<1>5. ASSUME step.at = "load"
      PROVE  Covers(step.branch, step.left, Len(log[step.branch]))'
  <2>1. Covers(step.branch, step.left, Len(log[step.branch]))
    BY <1>5 DEF IsSound
  <2> DEFINE k == Len(log'[step.branch])
  <2>2. k \in Nat /\ Len(log[step.branch]) <= k /\ k <= Len(log'[step.branch])
    BY <1>1, <1>4, <1>5
  <2> HIDE DEF k
  <2>3. \A n \in Nat : n = k => Covers(step.branch, step.left, n)'
    BY <1>1, <1>4, <1>5, <2>1, <2>2, CoversStays
  <2> QED
    BY <2>2, <2>3 DEF k, Covers
<1>6. ASSUME step.at = "replay"
      PROVE  Covers(step.branch, step.left, step.version)'
  <2>1. /\ Covers(step.branch, step.left, step.version)
        /\ step.version \in Nat /\ step.version <= Len(log'[step.branch])
    BY <1>1, <1>4, <1>6 DEF IsSound, Covers
  <2> QED
    BY <1>1, <1>4, <1>6, <2>1, CoversStays
<1> QED
  BY <1>1, <1>2, <1>3, <1>5, <1>6 DEF IsSound

LEMMA SourceStays == ASSUME Grows, SourceInv PROVE SourceInv'
BY DEF Grows, SourceInv, PlaysCoffee

LEMMA BranchesStay ==
    ASSUME Grows, BranchInv, DOMAIN branches' = DOMAIN branches
    PROVE  BranchInv'
<1>1. ASSUME NEW b \in DOMAIN branches
      PROVE  Completed(SourceState)' /\ WellMade(b, branches[b])'
  <2>1. Completed(SourceState) /\ WellMade(b, branches[b])
    BY DEF BranchInv
  <2>2. PICK m : m = branches[b]
    OBVIOUS
  <2>3. WellMade(b, m)'
    BY <2>1, <2>2, WellMadeStays
  <2>4. branches'[b] = m
    BY <2>2 DEF Grows
  <2> QED
    BY <2>1, <2>3, <2>4, SourceStateStays DEF Completed
<1> QED
  BY <1>1 DEF BranchInv, Grows

LEMMA StateStays ==
    ASSUME Grows, NEW b \in DOMAIN branches, log'[b] = log[b]
    PROVE  StateOf(b)' = StateOf(b)
BY DEF Grows, StateOf, StateAt, ForkOf

LEMMA LogStays ==
    ASSUME Grows, NEW b \in DOMAIN branches, log'[b] = log[b], LogOf(b)
    PROVE  LogOf(b)'
<1>1. /\ source' = source /\ played' = played /\ branches'[b] = branches[b]
      /\ overdue => overdue'
  BY DEF Grows
<1>2. ASSUME log[b] # << >>
      PROVE  log'[b][1].by = "hand" /\ Fits(b, log[b][1].id, log[b][1].command)'
  <2>1. PICK id : id = log[b][1].id
    OBVIOUS
  <2>2. PICK c : c = log[b][1].command
    OBVIOUS
  <2>3. Fits(b, id, c)'
    BY <1>2, <2>1, <2>2, FitsStays DEF LogOf
  <2>4. id = log'[b][1].id /\ c = log'[b][1].command /\ log'[b][1].by = "hand"
    BY <1>2, <2>1, <2>2 DEF LogOf
  <2> QED
    BY <2>3, <2>4
<1>4. StateOf(b)' = StateOf(b)
  BY StateStays
<1>5. OnlyReplayed(b)' => InStep(b)'
  BY <1>1 DEF LogOf, OnlyReplayed, InStep
<1>6. \A i \in DOMAIN log'[b] :
         log'[b][i].expired => source'.limited /\ overdue' /\ ~Completed(StateOf(b)')
  BY <1>1, <1>4 DEF LogOf
<1> QED
  BY <1>1, <1>2, <1>5, <1>6 DEF LogOf, PlaysCoffee, Completed

-----------------------------------------------------------------------------
(* A batch is appended *)

LEMMA StateAppended ==
    ASSUME NEW b, NEW e, IsSeq(log[b]), log'[b] = Append(log[b], e)
    PROVE  StateOf(b)' = e.run
<1>1. /\ IsSeq(log'[b]) /\ Len(log'[b]) = Len(log[b]) + 1 /\ Len(log[b]) \in Nat
      /\ log'[b][Len(log[b]) + 1] = e
  BY SeqFacts, AppendFacts
<1>2. SubSeq(log'[b], 1, Len(log'[b])) = log'[b] /\ log'[b] # << >>
  <2>1. PICK s : s = log'[b]
    OBVIOUS
  <2>2. IsSeq(s) /\ Len(s) # 0
    BY <1>1, <2>1
  <2>3. SubSeq(s, 1, Len(s)) = s /\ s # << >>
    BY <2>2, SeqFacts
  <2> QED
    BY <2>1, <2>3
<1> QED
  BY <1>1, <1>2 DEF StateOf, StateAt, StateAfter, Last

\* A submission keeps the log a branch's if it is an intervention or, when nothing was
\* entered by hand, the source's next batch.
LEMMA LogOfGrows ==
    ASSUME ExplorationAssumption, SourceInv, Grows,
           NEW b \in DOMAIN branches, WellMade(b, branches[b]), LogOf(b),
           NEW id, NEW command, NEW version, NEW expired \in BOOLEAN, NEW r, NEW by,
           log'[b] = Append(log[b], Batch(id, command, version, expired, r, by)),
           ~ \E e \in Range(log[b]) : e.id = id,
           source.limited /\ overdue => ~ \E e \in Range(log[b]) : e.expired,
           expired => source.limited /\ overdue /\ ~Completed(StateOf(b)) /\ r = StateOf(b),
           r \in {StateOf(b), Do(StateOf(b), command).run},
           log[b] = << >> => by = "hand" /\ Fits(b, id, command),
           OnlyReplayed(b)' /\ log[b] # << >> =>
               /\ branches[b].fork + Len(log[b]) <= Len(played)
               /\ id = branches[b].fork + Len(log[b])
               /\ command = played[branches[b].fork + Len(log[b])].command
    PROVE  LogOf(b)'
<1> DEFINE n == Len(log[b])
           e == Batch(id, command, version, expired, r, by)
<1>1. /\ e.id = id /\ e.command = command /\ e.expired = expired /\ e.run = r
      /\ e.by = by
  BY DEF Batch
<1>2. log'[b] = Append(log[b], e)
  OBVIOUS
<1> HIDE DEF e
<1>3. /\ IsSeq(log[b]) /\ n \in Nat /\ DOMAIN log[b] = 1 .. n
      /\ log[b] = << >> <=> n = 0
  BY SeqFacts DEF LogOf
<1>4. /\ IsSeq(log'[b]) /\ DOMAIN log'[b] = 1 .. n + 1 /\ log'[b][n + 1] = e
      /\ \A i \in DOMAIN log[b] : log'[b][i] = log[b][i]
  BY <1>2, <1>3, AppendFacts
<1> HIDE DEF n
<1>5. \A i \in DOMAIN log'[b] : i \in DOMAIN log[b] \/ i = n + 1
  BY <1>3, <1>4
<1>6. \A i \in DOMAIN log[b] : log[b][i] \in Range(log[b]) /\ i # n + 1
  BY <1>3 DEF Range
<1>7. source' = source /\ played' = played /\ branches'[b] = branches[b]
      /\ (overdue => overdue')
  BY DEF Grows
<1>8. log'[b][1].by = "hand" /\ Fits(b, log[b][1].id, log[b][1].command)'
  <2>1. CASE log[b] = << >>
    <3>1. Fits(b, id, command)'
      BY <2>1, FitsStays
    <3>0. n = 0 /\ n + 1 = 1
      BY <1>3, <2>1
    <3>2. log'[b][1] = e
      BY <1>4, <3>0
    <3>3. log'[b][1].id = id /\ log'[b][1].command = command /\ log'[b][1].by = "hand"
      BY <1>1, <2>1, <3>2
    <3> QED
      BY <3>1, <3>3
  <2>2. CASE log[b] # << >>
    <3>1. PICK i : i = log[b][1].id
      OBVIOUS
    <3>2. PICK c : c = log[b][1].command
      OBVIOUS
    <3>3. Fits(b, i, c)'
      BY <2>2, <3>1, <3>2, FitsStays DEF LogOf
    <3>4. i = log'[b][1].id /\ c = log'[b][1].command /\ log'[b][1].by = "hand"
      BY <1>3, <1>4, <2>2, <3>1, <3>2 DEF LogOf
    <3> QED
      BY <3>3, <3>4
  <2> QED
    BY <2>1, <2>2
<1>9. \A i, j \in DOMAIN log'[b] : log'[b][i].id = log'[b][j].id => i = j
  <2>1. \A i \in DOMAIN log[b] : log[b][i].id # id
    BY <1>6
  <2> QED
    BY <1>1, <1>4, <1>5, <2>1 DEF LogOf
<1>10. \A i \in DOMAIN log'[b] :
          log'[b][i].expired => source'.limited /\ overdue' /\ ~Completed(StateOf(b))'
  <2>1. \A i \in DOMAIN log[b] : ~log[b][i].expired
    BY <1>6 DEF LogOf
  <2>2. StateOf(b)' = r
    BY <1>1, <1>2, <1>3, StateAppended
  <2>3. expired => source'.limited /\ overdue' /\ ~Completed(StateOf(b))'
    BY <1>7, <2>2 DEF Completed
  <2> QED
    BY <1>1, <1>4, <1>5, <2>1, <2>3
<1>11. PlaysCoffee => \A i \in DOMAIN log'[b] : IsCoffeeState(log'[b][i].run)
  <2>1. PlaysCoffee => IsCoffeeState(StateOf(b))
    BY BranchIsCoffee
  <2>2. PlaysCoffee => IsCoffeeState(r)
    BY <2>1, CoffeeRunsStayCoffee DEF Do
  <2> QED
    BY <1>1, <1>4, <1>5, <2>2 DEF LogOf
<1>12. OnlyReplayed(b)' => InStep(b)'
  <2> SUFFICES ASSUME OnlyReplayed(b)'
               PROVE  InStep(b)'
    OBVIOUS
  <2>1. InStep(b)
    BY <1>3, OnlyReplayedBefore DEF LogOf
  <2>2. branches[b].fork \in Nat
    BY SeqFacts DEF WellMade, SourceInv
  <2>3. n + 1 > 1 => /\ branches[b].fork + n <= Len(played)
                     /\ log'[b][n + 1].id = branches[b].fork + n
                     /\ log'[b][n + 1].command = played[branches[b].fork + n].command
    BY <1>1, <1>3, <1>4 DEF n
  <2>4. branches[b].fork + (n + 1) - 1 = branches[b].fork + n
    BY <1>3, <2>2
  <2> QED
    BY <1>4, <1>5, <1>7, <2>1, <2>3, <2>4 DEF InStep
<1> QED
  BY <1>4, <1>7, <1>8, <1>9, <1>10, <1>11, <1>12 DEF LogOf, PlaysCoffee

-----------------------------------------------------------------------------
(* One handler moves on *)

\* What the others found out is still so.
LEMMA HandlerMoves ==
    ASSUME Grows, SourceInv, BranchInv, LogInv, HandlerInv, NEW h \in Handlers, NEW step,
           handling' = [handling EXCEPT ![h] = step], IsSound(step)'
    PROVE  HandlerInv'
<1>1. DOMAIN handling' = Handlers
  BY DEF HandlerInv
<1>2. ASSUME NEW g \in Handlers
      PROVE  IsSound(handling[g])'
  <2>1. CASE g = h
    <3>1. handling'[g] = step
      BY <2>1 DEF HandlerInv
    <3> QED
      BY <3>1
  <2>2. CASE g # h
    <3>1. PICK s : s = handling[g]
      OBVIOUS
    <3>2. IsSound(s)'
      BY <3>1, SoundStays DEF HandlerInv
    <3>3. s = handling'[g]
      BY <2>2, <3>1 DEF HandlerInv
    <3> QED
      BY <3>2, <3>3
  <2> QED
    BY <2>1, <2>2
<1> QED
  BY <1>1, <1>2 DEF HandlerInv

\* A step of one handler that leaves the logs alone.
LEMMA HandlerStep ==
    ASSUME ExplorationInv, Grows, DOMAIN branches' = DOMAIN branches, log' = log,
           NEW h \in Handlers, NEW step,
           handling' = [handling EXCEPT ![h] = step], IsSound(step)'
    PROVE  ExplorationInv'
<1>1. SourceInv' /\ BranchInv'
  BY SourceStays, BranchesStay DEF ExplorationInv
<1>2. LogInv'
  BY LogStays DEF ExplorationInv, LogInv
<1>3. HandlerInv'
  BY HandlerMoves DEF ExplorationInv
<1> QED
  BY <1>1, <1>2, <1>3 DEF ExplorationInv

LEMMA NothingIsSound ==
    ASSUME NEW step, step.at \notin {"insert", "submit", "load", "replay"}
    PROVE  IsSound(step)'
BY DEF IsSound

\* A step that leaves branches, logs and handlers alone.
LEMMA QuietStep ==
    ASSUME ExplorationInv, source' = source, played' = played, released => released',
           overdue => overdue', branches' = branches, log' = log, handling' = handling
    PROVE  ExplorationInv'
<1>1. Grows
  BY DEF Grows, LogGrows
<1>2. SourceInv' /\ BranchInv'
  BY <1>1, SourceStays, BranchesStay DEF ExplorationInv
<1>3. LogInv'
  BY <1>1, LogStays DEF ExplorationInv, LogInv
<1>4. ASSUME NEW g \in Handlers
      PROVE  IsSound(handling[g])'
  <2>1. PICK s : s = handling[g]
    OBVIOUS
  <2>2. IsSound(s)'
    BY <1>1, <2>1, SoundStays DEF ExplorationInv, HandlerInv
  <2> QED
    BY <2>1, <2>2
<1>5. HandlerInv'
  BY <1>4 DEF ExplorationInv, HandlerInv
<1> QED
  BY <1>2, <1>3, <1>5 DEF ExplorationInv

-----------------------------------------------------------------------------
(* The steps *)

\* Nothing branches off from a source that is still played.
LEMMA NothingBranchesBefore ==
    ASSUME ExplorationInv, ~Completed(SourceState)
    PROVE  /\ DOMAIN branches = {}
           /\ \A h \in Handlers : handling[h].at \notin {"insert", "submit", "load", "replay"}
BY DEF ExplorationInv, BranchInv, HandlerInv, IsSound

LEMMA SourceGrows ==
    ASSUME ExplorationAssumption, ExplorationInv, ~Completed(SourceState), NEW c, NEW r,
           Record(c, r), source' = source, branches' = branches, log' = log,
           handling' = handling,
           PlaysCoffee => /\ IsCoffeeState(r) /\ r.variant = source.start.variant
                          /\ IsCoffeeCommand(c)
    PROVE  ExplorationInv'
<1> DEFINE e == [id |-> Len(played) + 1, command |-> c, run |-> r]
<1>1. played' = Append(played, e)
  BY DEF Record
<1>2. IsSeq(played) /\ Len(played) \in Nat /\ DOMAIN played = 1 .. Len(played)
  BY SeqFacts DEF ExplorationInv, SourceInv
<1>3. /\ IsSeq(played') /\ DOMAIN played' = 1 .. Len(played) + 1
      /\ \A i \in DOMAIN played : played'[i] = played[i]
      /\ played'[Len(played) + 1] = e
  <2> HIDE DEF e
  <2> QED
    BY <1>1, <1>2, AppendFacts
<1>4. e.id = Len(played) + 1 /\ e.command = c /\ e.run = r
  OBVIOUS
<1> HIDE DEF e
<1>5. \A i \in DOMAIN played' : i \in DOMAIN played \/ i = Len(played) + 1
  BY <1>2, <1>3
<1>6. SourceInv'
  BY <1>3, <1>4, <1>5 DEF ExplorationInv, SourceInv, PlaysCoffee
<1>7. /\ DOMAIN branches = {}
      /\ \A h \in Handlers : handling[h].at \notin {"insert", "submit", "load", "replay"}
  BY NothingBranchesBefore
<1>8. BranchInv' /\ LogInv'
  BY <1>7 DEF ExplorationInv, BranchInv, LogInv
<1>9. HandlerInv'
  BY <1>7 DEF ExplorationInv, HandlerInv, IsSound
<1> QED
  BY <1>6, <1>8, <1>9 DEF ExplorationInv

LEMMA PlayKeeps ==
    ASSUME ExplorationAssumption, ExplorationInv, PlaySource
    PROVE  ExplorationInv'
<1>1. PICK c \in Sendable(SourceState) : Record(c, Do(SourceState, c).run)
  BY DEF PlaySource
<1>2. source' = source /\ branches' = branches /\ log' = log /\ handling' = handling
  BY DEF PlaySource
<1>3. ~Completed(SourceState)
  BY <1>1 DEF Sendable, CoffeeSendable
<1>4. ASSUME PlaysCoffee
      PROVE  /\ IsCoffeeState(Do(SourceState, c).run)
             /\ Do(SourceState, c).run.variant = source.start.variant
             /\ IsCoffeeCommand(c)
  <2>1. IsCoffeeState(SourceState) /\ SourceState.variant = source.start.variant
    BY <1>4, SourceStateIsCoffee DEF ExplorationInv
  <2>2. Do(SourceState, c) = CoffeeDo(SourceState, c)
    BY <1>4 DEF Do
  <2>3. c \in CoffeeSendable(SourceState)
    BY <1>1, <1>4 DEF Sendable
  <2> QED
    BY <2>1, <2>2, <2>3, CoffeeRunsStayCoffee DEF IsCoffeeCommand
<1> DEFINE r == Do(SourceState, c).run
<1> HIDE DEF r
<1> QED
  BY <1>1, <1>2, <1>3, <1>4, SourceGrows DEF r

LEMMA IncidentKeeps ==
    ASSUME ExplorationAssumption, ExplorationInv, ReleaseIncident
    PROVE  ExplorationInv'
<1>1. /\ ~PlaysCoffee /\ ~Completed(SourceState)
      /\ source' = source /\ branches' = branches /\ log' = log /\ handling' = handling
      /\ \E c, r : Record(c, r)
  BY DEF ReleaseIncident
<1> QED
  BY <1>1, SourceGrows

LEMMA ReleaseKeeps ==
    ASSUME ExplorationInv, ReleaseFeedback
    PROVE  ExplorationInv'
BY QuietStep DEF ReleaseFeedback

LEMMA ClockKeeps ==
    ASSUME ExplorationInv, ClockPasses
    PROVE  ExplorationInv'
BY QuietStep DEF ClockPasses

LEMMA ReflectKeeps ==
    ASSUME ExplorationInv, NEW user, NEW b, Reflect(user, b)
    PROVE  ExplorationInv'
BY QuietStep DEF Reflect

LEMMA CrashKeeps ==
    ASSUME ExplorationInv, NEW h \in Handlers, Crash(h)
    PROVE  ExplorationInv'
<1>1. Grows
  BY DEF Crash, Grows, LogGrows
<1>2. handling' = [handling EXCEPT ![h] = Idle] /\ branches' = branches /\ log' = log
  BY DEF Crash, Handle
<1>3. IsSound(Idle)'
  BY NothingIsSound DEF Idle
<1> QED
  BY <1>1, <1>2, <1>3, HandlerStep

-----------------------------------------------------------------------------
(* A branch is made *)

LEMMA ForkIsTheDecision ==
    ASSUME SourceInv, NEW decision, NEW i \in ForksAt(decision)
    PROVE  i \in DOMAIN played /\ DecisionOf(played[i].command) = decision
<1> DEFINE at == {j \in DOMAIN played : DecisionOf(played[j].command) = decision}
<1>1. at \subseteq Nat
  BY SeqFacts DEF SourceInv
<1>2. at # {} /\ i = CHOOSE j \in at : \A k \in at : j <= k
  BY DEF ForksAt
<1>3. \E j \in at : \A k \in at : j <= k
  <2> HIDE DEF at
  <2> QED
    BY <1>1, <1>2, LeastOf
<1>4. i \in at
  BY <1>2, <1>3
<1> QED
  BY <1>4

\* What is open to exploration is a decision the source took, or a condition it could have
\* been played under at one.
LEMMA PointsAreDecisions ==
    ASSUME ExplorationAssumption, SourceInv, NEW point \in Points
    PROVE  /\ point.fork \in DOMAIN played
           /\ point.authored.decision = DecisionOf(played[point.fork].command)
           /\ point.authored.decision # "none"
           /\ \/ point.kind = "DECISION" /\ point.alternative = "none"
              \/ /\ point.kind = "CONDITION" /\ PlaysCoffee
                 /\ point.alternative # "none" /\ point.alternative # source.start.variant
<1>1. ASSUME NEW q \in DecisionPoints
      PROVE  /\ q.fork \in DOMAIN played
             /\ q.authored.decision = DecisionOf(played[q.fork].command)
             /\ q.authored.decision # "none"
             /\ q.kind = "DECISION" /\ q.alternative = "none"
  <2>1. PICK p \in source.points : \E i \in ForksAt(p.decision) :
            q = [kind |-> "DECISION", fork |-> i, alternative |-> "none", authored |-> p]
    BY DEF DecisionPoints
  <2>2. PICK i \in ForksAt(p.decision) :
            q = [kind |-> "DECISION", fork |-> i, alternative |-> "none", authored |-> p]
    BY <2>1
  <2>3. q.fork = i /\ q.authored = p /\ q.kind = "DECISION" /\ q.alternative = "none"
    BY <2>2
  <2>4. p.decision # "none"
    BY DEF ExplorationAssumption, SourceInv
  <2> QED
    BY <2>3, <2>4, ForkIsTheDecision
<1>2. CASE point \in ConditionPoints
  <2>1. PICK c \in source.conditions : \E v \in c.allowed \ {source.start.variant},
                                            q \in DecisionPoints :
            /\ q.authored.decision = c.decision
            /\ point = [kind |-> "CONDITION", fork |-> q.fork, alternative |-> v, authored |-> c]
    BY <1>2 DEF ConditionPoints
  <2>2. PICK v \in c.allowed \ {source.start.variant}, q \in DecisionPoints :
            /\ q.authored.decision = c.decision
            /\ point = [kind |-> "CONDITION", fork |-> q.fork, alternative |-> v, authored |-> c]
    BY <2>1
  <2>3. /\ point.fork = q.fork /\ point.authored = c /\ point.kind = "CONDITION"
        /\ point.alternative = v
    BY <2>2
  <2>4. PlaysCoffee /\ v # "none"
    BY DEF ExplorationAssumption, SourceInv, PlaysCoffee
  <2> QED
    BY <1>1, <2>2, <2>3, <2>4
<1> QED
  BY <1>1, <1>2 DEF Points

LEMMA CreateKeeps ==
    ASSUME ExplorationAssumption, ExplorationInv, NEW h \in Handlers, NEW user,
           NEW b \in BranchIds, NEW point \in Points, NEW intervention,
           CreateBranch(h, user, b, point, intervention)
    PROVE  ExplorationInv'
<1> DEFINE m == Metadata(user, point, intervention)
<1>1. PICK step : step = [at |-> "insert", branch |-> b, metadata |-> m,
                          isNew |-> b \notin DOMAIN branches]
  OBVIOUS
<1>2. Grows
  BY DEF CreateBranch, Grows, LogGrows
<1>3. /\ handling' = [handling EXCEPT ![h] = step] /\ branches' = branches /\ log' = log
      /\ Completed(SourceState) /\ Available(point.authored, user)
  BY <1>1 DEF CreateBranch, Handle, InContext
<1>4. /\ m.fork = point.fork /\ m.decision = point.authored.decision /\ m.kind = point.kind
      /\ m.alternative = point.alternative /\ m.creator = user
  BY DEF Metadata
<1>5. step.at = "insert" /\ step.branch = b /\ step.metadata = m
  BY <1>1
<1> HIDE DEF m
<1>6. source.assignment.learners = "AFTER_FEEDBACK_RELEASE" /\ user = "learner" => released
  BY <1>3 DEF Available
<1>7. WellMade(b, m)
  BY <1>4, <1>6, PointsAreDecisions DEF ExplorationInv, WellMade
<1>8. WellMade(b, m)' /\ Completed(SourceState)'
  BY <1>2, <1>3, <1>7, WellMadeStays, SourceStateStays DEF Completed
<1>9. IsSound(step)'
  BY <1>5, <1>8 DEF IsSound
<1> QED
  BY <1>2, <1>3, <1>9, HandlerStep

\* A new branch has nothing yet; one that is there stays as it is.
LEMMA InsertKeeps ==
    ASSUME ExplorationInv, NEW h \in Handlers, InsertBranch(h)
    PROVE  ExplorationInv'
<1>1. PICK b, m : b = handling[h].branch /\ m = handling[h].metadata
  OBVIOUS
<1>2. b \in BranchIds /\ Completed(SourceState) /\ WellMade(b, m)
  BY <1>1 DEF ExplorationInv, HandlerInv, IsSound, InsertBranch
<1>3. /\ DOMAIN branches' = DOMAIN branches \union {b}
      /\ \A c \in DOMAIN branches : branches'[c] = branches[c]
      /\ b \notin DOMAIN branches => branches'[b] = m
      /\ log' = log /\ source' = source /\ played' = played /\ released' = released
      /\ overdue' = overdue
  BY <1>1 DEF InsertBranch
<1>4. Grows
  BY <1>3 DEF Grows, LogGrows
<1>5. SourceInv'
  BY <1>4, SourceStays DEF ExplorationInv
<1>6. WellMade(b, m)' /\ Completed(SourceState)'
  BY <1>2, <1>4, WellMadeStays, SourceStateStays DEF Completed
<1>7. BranchInv'
  <2>1. ASSUME NEW c \in DOMAIN branches
        PROVE  WellMade(c, branches[c])'
    <3>1. PICK n : n = branches[c]
      OBVIOUS
    <3>2. WellMade(c, n)'
      BY <1>4, <3>1, WellMadeStays DEF ExplorationInv, BranchInv
    <3>3. n = branches'[c]
      BY <1>3, <3>1
    <3> QED
      BY <3>2, <3>3
  <2>2. b \notin DOMAIN branches => WellMade(b, branches[b])'
    BY <1>3, <1>6
  <2> QED
    BY <1>2, <1>3, <1>6, <2>1, <2>2 DEF ExplorationInv, BranchInv
<1>8. LogInv'
  <2>1. \A c \in DOMAIN branches : LogOf(c)'
    BY <1>3, <1>4, LogStays DEF ExplorationInv, LogInv
  <2>2. ASSUME b \notin DOMAIN branches
        PROVE  LogOf(b)'
    <3>1. log'[b] = << >>
      BY <1>2, <1>3, <2>2 DEF ExplorationInv, LogInv
    <3>2. IsSeq(<< >>)
      BY DEF IsSeq
    <3>3. DOMAIN log'[b] = {}
      BY <3>1
    <3> QED
      BY <3>1, <3>2, <3>3 DEF LogOf, InStep
  <2>3. \A c \in BranchIds \ DOMAIN branches' : log'[c] = << >>
    BY <1>3 DEF ExplorationInv, LogInv
  <2> QED
    BY <1>3, <2>1, <2>2, <2>3 DEF ExplorationInv, LogInv
<1>9. PICK step : /\ handling' = [handling EXCEPT ![h] = step]
                   /\ \/ step = Idle
                      \/ /\ branches'[b] = m /\ m.kind # "DECISION"
                         /\ step = [at |-> "submit", branch |-> b, id |-> m.intervention,
                                    command |-> played[m.fork].command, version |-> 0]
  <2>1. CASE m.kind = "DECISION" \/ (b \in DOMAIN branches /\ branches[b] # m)
             \/ (b \in DOMAIN branches /\ handling[h].isNew)
    <3>1. handling' = [handling EXCEPT ![h] = Idle]
      BY <1>1, <2>1 DEF InsertBranch, Handle
    <3> QED
      BY <3>1
  <2>2. CASE ~(m.kind = "DECISION" \/ (b \in DOMAIN branches /\ branches[b] # m)
               \/ (b \in DOMAIN branches /\ handling[h].isNew))
    <3>1. branches'[b] = m
      BY <1>3, <2>2
    <3>2. handling' = [handling EXCEPT ![h] =
              [at |-> "submit", branch |-> b, id |-> m.intervention,
               command |-> played[m.fork].command, version |-> 0]]
      BY <1>1, <2>2 DEF InsertBranch, Handle
    <3> QED
      BY <2>2, <3>1, <3>2
  <2> QED
    BY <2>1, <2>2
<1>10. IsSound(step)'
  <2>1. CASE step = Idle
    BY <2>1, NothingIsSound DEF Idle
  <2>2. CASE step # Idle
    <3>1. /\ step.at = "submit" /\ step.branch = b /\ step.id = m.intervention
          /\ step.command = played[m.fork].command
          /\ branches'[b] = m /\ m.kind # "DECISION"
      BY <1>9, <2>2
    <3>2. Fits(b, step.id, step.command)'
      BY <1>3, <3>1 DEF Fits, OriginalCommand
    <3> QED
      BY <1>3, <3>1, <3>2 DEF IsSound
  <2> QED
    BY <2>1, <2>2
<1>11. HandlerInv'
  BY <1>4, <1>9, <1>10, HandlerMoves DEF ExplorationInv
<1> QED
  BY <1>5, <1>7, <1>8, <1>11 DEF ExplorationInv

-----------------------------------------------------------------------------
(* A command is submitted to a branch *)

\* As long as nothing was entered by hand, a branch has the source's batches from the fork
\* on as far as its own number of batches goes, and no other.
LEMMA ReplayedIds ==
    ASSUME ExplorationAssumption, SourceInv, BranchInv, NEW b \in DOMAIN branches, LogOf(b),
           OnlyReplayed(b), log[b] # << >>, NEW k \in branches[b].fork + 1 .. Len(played)
    PROVE  k \in Ids(b) <=> branches[b].fork + 1 <= k /\ k < branches[b].fork + Len(log[b])
<1> DEFINE n == Len(log[b])
           f == branches[b].fork
<1>1. /\ n \in Nat /\ n # 0 /\ DOMAIN log[b] = 1 .. n
  BY SeqFacts DEF LogOf
<1>2. f \in Nat
  BY SeqFacts DEF BranchInv, WellMade, SourceInv
<1>3. k \in Nat
  BY <1>2, SeqFacts DEF SourceInv
<1>4. log[b][1].id # k
  BY <1>1 DEF OnlyReplayed
<1>5. \A i \in DOMAIN log[b] : i > 1 => log[b][i].id = f + i - 1
  BY DEF LogOf, InStep
<1>6. k \in Ids(b) <=> \E i \in DOMAIN log[b] : log[b][i].id = k
  BY DEF Ids, Range
<1> HIDE DEF n, f
<1>7. ASSUME f + 1 <= k, k < f + n
      PROVE  \E i \in DOMAIN log[b] : log[b][i].id = k
  <2>1. k - f + 1 \in DOMAIN log[b] /\ k - f + 1 > 1 /\ f + (k - f + 1) - 1 = k
    BY <1>1, <1>2, <1>3, <1>7
  <2> QED
    BY <1>5, <2>1
<1>8. ASSUME NEW i \in DOMAIN log[b], log[b][i].id = k
      PROVE  f + 1 <= k /\ k < f + n
  <2>1. i > 1 /\ i <= n /\ i \in Nat
    BY <1>1, <1>4, <1>8
  <2> QED
    BY <1>1, <1>2, <1>5, <1>8, <2>1
<1> QED
  BY <1>6, <1>7, <1>8 DEF n, f

LEMMA SubmissionKeeps ==
    ASSUME ExplorationAssumption, ExplorationInv, NEW b \in DOMAIN branches, NEW id, NEW command,
           NEW version, NEW by,
           source' = source, played' = played, released' = released, overdue' = overdue,
           branches' = branches, Submit(b, id, command, version, by),
           log[b] = << >> => by = "hand" /\ Fits(b, id, command),
           /\ by # "hand" /\ log[b] # << >> /\ OnlyReplayed(b) /\ version = Len(log[b]) /\ id \notin Ids(b)
           /\ id \in branches[b].fork + 1 .. Len(played)
           => /\ id = branches[b].fork + Len(log[b])
              /\ command = played[branches[b].fork + Len(log[b])].command
    PROVE  /\ Grows /\ LogInv'
           /\ log'[b] = Submission(b, id, command, version, by).log
           /\ \/ log'[b] = log[b]
              \/ \E e : log'[b] = Append(log[b], e) /\ e.id = id /\ version = Len(log[b])
<1>0. b \in BranchIds /\ LogOf(b) /\ WellMade(b, branches[b]) /\ SourceInv
  BY DEF ExplorationInv, BranchInv, LogInv
<1>1. /\ log'[b] = Submission(b, id, command, version, by).log
      /\ DOMAIN log' = BranchIds /\ \A c \in BranchIds \ {b} : log'[c] = log[c]
  BY <1>0 DEF Submit, ExplorationInv, LogInv
<1>2. \/ log'[b] = log[b]
      \/ \E expired \in BOOLEAN : \E r :
            /\ log'[b] = Append(log[b], Batch(id, command, version, expired, r, by))
            /\ ~ \E e \in Range(log[b]) : e.id = id
            /\ version = Len(log[b])
            /\ source.limited /\ overdue => ~ \E e \in Range(log[b]) : e.expired
            /\ expired => source.limited /\ overdue /\ ~Completed(StateOf(b))
                          /\ r = StateOf(b)
            /\ r \in {StateOf(b), Do(StateOf(b), command).run}
  BY <1>1, SubmissionAppends
<1>3. \A f, r : LET e == Batch(id, command, version, f, r, by) IN e.id = id /\ e.by = by
  BY DEF Batch
<1>4. \/ log'[b] = log[b]
      \/ \E e : log'[b] = Append(log[b], e) /\ e.id = id /\ version = Len(log[b])
  BY <1>2, <1>3
<1>5. \A c \in DOMAIN branches : LogGrows(c)
  BY <1>1, <1>4 DEF LogGrows, ExplorationInv, BranchInv
<1>6. Grows
  BY <1>5 DEF Grows
<1>7. LogOf(b)'
  <2>1. CASE log'[b] = log[b]
    BY <1>0, <1>6, <2>1, LogStays
  <2>2. CASE log'[b] # log[b]
    <3>0. PICK expired \in BOOLEAN : \E r :
            /\ log'[b] = Append(log[b], Batch(id, command, version, expired, r, by))
            /\ ~ \E e \in Range(log[b]) : e.id = id
            /\ version = Len(log[b])
            /\ source.limited /\ overdue => ~ \E e \in Range(log[b]) : e.expired
            /\ expired => source.limited /\ overdue /\ ~Completed(StateOf(b))
                          /\ r = StateOf(b)
            /\ r \in {StateOf(b), Do(StateOf(b), command).run}
      BY <1>2, <2>2
    <3>1. PICK r :
            /\ log'[b] = Append(log[b], Batch(id, command, version, expired, r, by))
            /\ ~ \E e \in Range(log[b]) : e.id = id
            /\ version = Len(log[b])
            /\ source.limited /\ overdue => ~ \E e \in Range(log[b]) : e.expired
            /\ expired => source.limited /\ overdue /\ ~Completed(StateOf(b))
                          /\ r = StateOf(b)
            /\ r \in {StateOf(b), Do(StateOf(b), command).run}
      BY <3>0
    <3>2. ASSUME OnlyReplayed(b)', log[b] # << >>
          PROVE  /\ branches[b].fork + Len(log[b]) <= Len(played)
                 /\ id = branches[b].fork + Len(log[b])
                 /\ command = played[branches[b].fork + Len(log[b])].command
      <4>1. OnlyReplayed(b)
        BY <1>0, <1>6, <3>2, OnlyReplayedBefore DEF LogOf
      <4>2. id \notin Ids(b)
        BY <3>1 DEF Ids
      <4>3. by # "hand" /\ id \in branches[b].fork + 1 .. Len(played)
        <5>1. PICK e : e = Batch(id, command, version, expired, r, by)
          OBVIOUS
        <5>2. /\ Len(log[b]) \in Nat /\ Len(log[b]) # 0
              /\ Len(log[b]) + 1 \in DOMAIN log'[b] /\ log'[b][Len(log[b]) + 1] = e
          BY <1>0, <3>1, <3>2, <5>1, SeqFacts, AppendFacts DEF LogOf
        <5>3. e.id = id /\ e.by = by
          BY <1>3, <5>1
        <5>4. Len(log[b]) + 1 > 1
          BY <5>2
        <5> QED
          BY <3>2, <5>2, <5>3, <5>4 DEF OnlyReplayed
      <4>4. branches[b].fork \in Nat /\ Len(played) \in Nat
        BY <1>0, SeqFacts DEF WellMade, SourceInv
      <4> QED
        BY <3>1, <3>2, <4>1, <4>2, <4>3, <4>4
    <3> QED
      BY <1>0, <1>6, <3>0, <3>1, <3>2, LogOfGrows
  <2> QED
    BY <2>1, <2>2
<1>8. \A c \in DOMAIN branches \ {b} : LogOf(c)'
  BY <1>1, <1>6, LogStays DEF ExplorationInv, LogInv, BranchInv
<1>9. LogInv'
  BY <1>1, <1>7, <1>8 DEF ExplorationInv, LogInv
<1> QED
  BY <1>1, <1>4, <1>6, <1>9

LEMMA SubmitKeeps ==
    ASSUME ExplorationAssumption, ExplorationInv, NEW h \in Handlers, SubmitCommand(h)
    PROVE  ExplorationInv'
<1>1. PICK b, id, command, version :
          /\ b = handling[h].branch /\ id = handling[h].id
          /\ command = handling[h].command /\ version = handling[h].version
  OBVIOUS
<1>2. b \in DOMAIN branches /\ (log[b] = << >> => Fits(b, id, command))
  BY <1>1 DEF SubmitCommand, ExplorationInv, HandlerInv, IsSound
<1>3. /\ Submit(b, id, command, version, "hand")
      /\ handling' = [handling EXCEPT ![h] = Idle]
      /\ source' = source /\ played' = played /\ released' = released
      /\ overdue' = overdue /\ branches' = branches
  BY <1>1 DEF SubmitCommand, Handle
<1>5. Grows /\ LogInv'
  BY <1>2, <1>3, SubmissionKeeps
<1>6. SourceInv' /\ BranchInv'
  BY <1>3, <1>5, SourceStays, BranchesStay DEF ExplorationInv
<1>7. HandlerInv'
  <2>1. IsSound(Idle)'
    BY NothingIsSound DEF Idle
  <2> QED
    BY <1>3, <1>5, <2>1, HandlerMoves DEF ExplorationInv
<1> QED
  BY <1>5, <1>6, <1>7 DEF ExplorationInv

\* The first command of a branch is the author's intervention; of a condition's branch it
\* is the source's own command, since the decision and its options are the same.
LEMMA InterventionFits ==
    ASSUME ExplorationAssumption, ExplorationInv, NEW b \in DOMAIN branches, NEW user, NEW id,
           NEW command \in Sendable(StateOf(b)), IsIntervention(b, user, id, command)
    PROVE  Fits(b, id, command)
<1>1. /\ WellMade(b, branches[b]) /\ LogOf(b) /\ SourceInv
  BY DEF ExplorationInv, BranchInv, LogInv
<1>2. CASE branches[b].kind = "DECISION"
  BY <1>2 DEF IsIntervention, Fits
<1>3. CASE branches[b].kind # "DECISION"
  <2>1. PlaysCoffee /\ KeepsTheDecision(b, command) /\ id = branches[b].intervention
    BY <1>1, <1>3 DEF WellMade, IsIntervention
  <2>2. IsCoffeeCommand(command)
    BY <1>1, <2>1, BranchIsCoffee DEF Sendable, IsCoffeeCommand
  <2>3. IsCoffeeCommand(OriginalCommand(b))
    BY <1>1, <2>1 DEF WellMade, SourceInv, OriginalCommand
  <2>4. /\ DecisionOf(command) = DecisionOf(OriginalCommand(b))
        /\ DecisionOf(OriginalCommand(b)) # "none"
        /\ OptionsOf(command) = OptionsOf(OriginalCommand(b))
    BY <1>1, <2>1 DEF WellMade, KeepsTheDecision, OriginalCommand
  <2>5. command = OriginalCommand(b)
    BY <2>2, <2>3, <2>4, SameChoiceSameCommand
  <2> QED
    BY <1>3, <2>1, <2>5 DEF Fits
<1> QED
  BY <1>2, <1>3

LEMMA CommandKeeps ==
    ASSUME ExplorationAssumption, ExplorationInv, NEW h \in Handlers, NEW user,
           NEW b \in DOMAIN branches, NEW id, NEW command \in Sendable(StateOf(b)), NEW version,
           CommandBranch(h, user, b, id, command, version)
    PROVE  ExplorationInv'
<1>1. PICK step : step = [at |-> "submit", branch |-> b, id |-> id, command |-> command,
                          version |-> version]
  OBVIOUS
<1>2. /\ handling' = [handling EXCEPT ![h] = step] /\ branches' = branches /\ log' = log
      /\ log[b] = << >> => IsIntervention(b, user, id, command)
  BY <1>1 DEF CommandBranch, Handle
<1>3. Grows
  BY DEF CommandBranch, Grows, LogGrows
<1>4. /\ step.at = "submit" /\ step.branch = b /\ step.id = id /\ step.command = command
  BY <1>1
<1>5. log[b] = << >> => Fits(b, id, command)
  BY <1>2, InterventionFits
<1>6. IsSound(step)
  BY <1>4, <1>5 DEF IsSound
<1>7. IsSound(step)'
  BY <1>3, <1>6, SoundStays DEF ExplorationInv
<1> QED
  BY <1>2, <1>3, <1>7, HandlerStep

\* What is not missing, the branch has.
LEMMA CompleteKeeps ==
    ASSUME ExplorationAssumption, ExplorationInv, NEW h \in Handlers, NEW user,
           NEW b \in DOMAIN branches, CompleteBranch(h, user, b)
    PROVE  ExplorationInv'
<1>1. PICK step : step = [at |-> "load", branch |-> b, left |-> Missing(b)]
  OBVIOUS
<1>2. /\ handling' = [handling EXCEPT ![h] = step] /\ branches' = branches /\ log' = log
      /\ log[b] # << >>
  BY <1>1 DEF CompleteBranch, Handle
<1>3. Grows
  BY DEF CompleteBranch, Grows, LogGrows
<1>4. step.at = "load" /\ step.branch = b /\ step.left = Missing(b)
  BY <1>1
<1>5. /\ SourceInv /\ BranchInv /\ LogOf(b)
      /\ branches[b].fork \in Nat /\ branches[b].fork # 0
      /\ Len(played) \in Nat /\ DOMAIN played = 1 .. Len(played)
      /\ Len(log[b]) \in Nat
  BY SeqFacts DEF ExplorationInv, BranchInv, LogInv, LogOf, WellMade, SourceInv
<1>6. Covers(b, Missing(b), Len(log[b]))
  <2>1. ASSUME OnlyReplayed(b), NEW k \in (branches[b].fork + 1 .. Len(played)) \ Missing(b)
        PROVE  k < branches[b].fork + Len(log[b])
    <3>1. k \in Nat /\ k \in DOMAIN played /\ played[k].id = k
      BY <1>5 DEF SourceInv
    <3>2. k \in Ids(b)
      BY <3>1 DEF Missing
    <3> QED
      BY <1>2, <1>5, <2>1, <3>1, <3>2, ReplayedIds
  <2> QED
    BY <1>2, <1>5, <2>1 DEF Covers, Missing
<1>7. IsSound(step)
  BY <1>4, <1>6 DEF IsSound
<1>8. IsSound(step)'
  BY <1>3, <1>7, SoundStays DEF ExplorationInv
<1> QED
  BY <1>2, <1>3, <1>8, HandlerStep

LEMMA LoadKeeps ==
    ASSUME ExplorationInv, NEW h \in Handlers, LoadBranch(h)
    PROVE  ExplorationInv'
<1>1. PICK step : step = [at |-> "replay", branch |-> handling[h].branch,
                          left |-> handling[h].left,
                          version |-> Len(log[handling[h].branch])]
  OBVIOUS
<1>2. /\ handling' = [handling EXCEPT ![h] = step] /\ branches' = branches /\ log' = log
      /\ handling[h].at = "load"
  BY <1>1 DEF LoadBranch, Handle
<1>3. Grows
  BY DEF LoadBranch, Grows, LogGrows
<1>4. /\ step.at = "replay" /\ step.branch = handling[h].branch
      /\ step.left = handling[h].left /\ step.version = Len(log[handling[h].branch])
  BY <1>1
<1>5. IsSound(step)
  BY <1>2, <1>4 DEF IsSound, ExplorationInv, HandlerInv
<1>6. IsSound(step)'
  BY <1>3, <1>5, SoundStays DEF ExplorationInv
<1> QED
  BY <1>2, <1>3, <1>6, HandlerStep

\* A replay that goes on has covered everything up to the batch it has submitted, and the
\* batch it submits is the next the branch has not got, unless somebody got in between.
LEMMA ReplayKeeps ==
    ASSUME ExplorationAssumption, ExplorationInv, NEW h \in Handlers, ReplayBatch(h)
    PROVE  ExplorationInv'
<1>1. PICK b, left, version :
          b = handling[h].branch /\ left = handling[h].left /\ version = handling[h].version
  OBVIOUS
<1>2. b \in DOMAIN branches /\ Covers(b, left, version)
  BY <1>1 DEF ReplayBatch, ExplorationInv, HandlerInv, IsSound
<1>3. /\ source' = source /\ played' = played /\ released' = released
      /\ overdue' = overdue /\ branches' = branches
  BY DEF ReplayBatch
<1>4. CASE left = {} \/ Completed(StateAt(b, version))
  <2>1. handling' = [handling EXCEPT ![h] = Idle] /\ log' = log
    BY <1>1, <1>4 DEF ReplayBatch, Handle
  <2>2. Grows
    BY <1>3, <2>1 DEF Grows, LogGrows
  <2>3. IsSound(Idle)'
    BY NothingIsSound DEF Idle
  <2> QED
    BY <1>3, <2>1, <2>2, <2>3, HandlerStep
<1>5. CASE ~(left = {} \/ Completed(StateAt(b, version)))
  <2>1. PICK k : k = Min(left)
    OBVIOUS
  <2>2. /\ SourceInv /\ BranchInv /\ LogOf(b)
        /\ branches[b].fork \in Nat /\ branches[b].fork # 0
        /\ Len(played) \in Nat /\ DOMAIN played = 1 .. Len(played)
        /\ Len(log[b]) \in Nat /\ log[b] # << >>
    BY <1>2, SeqFacts DEF ExplorationInv, BranchInv, LogInv, LogOf, WellMade, SourceInv, Covers
  <2>3. k \in left /\ (\A j \in left : k <= j) /\ k \in branches[b].fork + 1 .. Len(played)
    <3>1. left \subseteq Nat /\ left # {} /\ left \subseteq branches[b].fork + 1 .. Len(played)
      BY <1>2, <1>5, <2>2 DEF Covers
    <3> QED
      BY <2>1, <3>1, MinIsLeast
  <2>4. played[k].id = k /\ k \in Nat
    BY <2>2, <2>3 DEF SourceInv
  <2>5. PICK command : command = played[k].command
    OBVIOUS
  <2>0. PICK by : by = "replay"
    OBVIOUS
  <2>6. PICK result : result = Submission(b, k, command, version, by)
    OBVIOUS
  <2>7. /\ log' = [log EXCEPT ![b] = result.log] /\ by # "hand"
        /\ handling' = [handling EXCEPT ![h] = IF result.code # "OK" THEN Idle
                                               ELSE Remaining(b, left, result.log)]
    BY <1>1, <1>5, <2>0, <2>1, <2>4, <2>5, <2>6 DEF ReplayBatch, Handle
  <2>8. Submit(b, k, command, version, by)
    BY <2>6, <2>7 DEF Submit
  <2>9. ASSUME OnlyReplayed(b)
        PROVE  \A j \in (branches[b].fork + 1 .. Len(played)) \ left :
                  j < branches[b].fork + version
    BY <1>2, <2>9 DEF Covers
  <2>10. ASSUME OnlyReplayed(b), version = Len(log[b]), k \notin Ids(b)
         PROVE  k = branches[b].fork + Len(log[b])
    <3>1. k >= branches[b].fork + Len(log[b])
      BY <1>2, <2>2, <2>3, <2>4, <2>10, ReplayedIds
    <3>2. branches[b].fork + Len(log[b]) \in branches[b].fork + 1 .. Len(played)
      <4>1. Len(log[b]) # 0
        BY <2>2, SeqFacts DEF LogOf
      <4> QED
        BY <2>2, <2>3, <3>1, <4>1
    <3>3. branches[b].fork + Len(log[b]) \in left
      BY <2>2, <2>9, <2>10, <3>2
    <3> QED
      BY <2>2, <2>3, <2>4, <3>1, <3>3
  <2>11. /\ Grows /\ LogInv' /\ log'[b] = result.log
         /\ \/ log'[b] = log[b]
            \/ \E e : log'[b] = Append(log[b], e) /\ e.id = k /\ version = Len(log[b])
    <3>1. by # "hand" /\ log[b] # << >> /\ OnlyReplayed(b) /\ version = Len(log[b]) /\ k \notin Ids(b)
          => /\ k = branches[b].fork + Len(log[b])
             /\ command = played[branches[b].fork + Len(log[b])].command
      BY <2>5, <2>10
    <3> QED
      BY <1>2, <1>3, <2>2, <2>6, <2>8, <3>1, SubmissionKeeps
  <2>12. SourceInv' /\ BranchInv'
    BY <1>3, <2>11, SourceStays, BranchesStay DEF ExplorationInv
  <2>13. IsSound(IF result.code # "OK" THEN Idle ELSE Remaining(b, left, result.log))'
    <3>1. CASE result.code # "OK"
      BY <3>1, NothingIsSound DEF Idle
    <3>2. CASE result.code = "OK"
      <4>1. PICK step : step = Remaining(b, left, result.log)
        OBVIOUS
      <4>2. /\ step.at = "replay" /\ step.branch = b /\ step.left = left \ {k}
            /\ step.version = Len(log'[b])
        BY <2>1, <2>11, <4>1 DEF Remaining
      <4>3. /\ log'[b] # << >> /\ Len(log'[b]) \in Nat /\ Len(log[b]) <= Len(log'[b])
        BY <1>2, <2>2, <2>11, GrownLog, SeqFacts DEF LogOf
      <4>4. ASSUME OnlyReplayed(b)',
                   NEW j \in (branches[b].fork + 1 .. Len(played)) \ (left \ {k})
            PROVE  j < branches[b].fork + Len(log'[b])
        <5>1. OnlyReplayed(b)
          BY <1>2, <2>2, <2>11, <4>4, OnlyReplayedBefore DEF LogOf
        <5>2. version \in Nat /\ version <= Len(log[b])
          BY <1>2, <2>2 DEF Covers
        <5>3. CASE j # k
          BY <2>2, <2>9, <4>3, <4>4, <5>1, <5>2, <5>3
        <5>4. CASE j = k /\ k \in Ids(b)
          <6>1. k < branches[b].fork + Len(log[b])
            BY <1>2, <2>2, <2>3, <2>4, <5>1, <5>4, ReplayedIds
          <6> QED
            BY <2>2, <2>4, <4>3, <5>4, <6>1
        <5>5. CASE j = k /\ k \notin Ids(b)
          <6>1. log'[b] # log[b]
            BY <2>6, <2>11, <3>2, <5>5, SubmissionAppends DEF Ids
          <6>2. version = Len(log[b]) /\ Len(log'[b]) = Len(log[b]) + 1
            BY <2>2, <2>11, <6>1, AppendFacts DEF LogOf
          <6>3. k = branches[b].fork + Len(log[b])
            BY <2>10, <5>1, <5>5, <6>2
          <6> QED
            BY <2>2, <5>5, <6>2, <6>3
        <5> QED
          BY <5>3, <5>4, <5>5
      <4>5. left \ {k} \subseteq branches[b].fork + 1 .. Len(played)
        BY <1>2 DEF Covers
      <4>6. Covers(b, step.left, step.version)'
        BY <1>3, <4>2, <4>3, <4>4, <4>5 DEF Covers
      <4>7. IsSound(step)'
        BY <1>2, <1>3, <4>2, <4>6 DEF IsSound
      <4> QED
        BY <3>2, <4>1, <4>7
    <3> QED
      BY <3>1, <3>2
  <2>14. HandlerInv'
    BY <2>7, <2>11, <2>13, HandlerMoves DEF ExplorationInv
  <2> QED
    BY <2>11, <2>12, <2>14 DEF ExplorationInv
<1> QED
  BY <1>4, <1>5

-----------------------------------------------------------------------------
(* What a comparison says *)

LEMMA ExplorationBegins ==
    ASSUME ExplorationAssumption, ExplorationInit
    PROVE  ExplorationInv
<1>1. DOMAIN played = {} /\ IsSeq(played)
  BY DEF ExplorationInit, IsSeq
<1>2. SourceInv
  BY <1>1 DEF ExplorationInit, SourceInv
<1>3. DOMAIN branches = {}
  BY DEF ExplorationInit
<1>4. BranchInv /\ LogInv
  BY <1>3 DEF ExplorationInit, BranchInv, LogInv
<1>5. HandlerInv
  BY DEF ExplorationInit, HandlerInv, IsSound, Idle
<1> QED
  BY <1>2, <1>4, <1>5 DEF ExplorationInv

LEMMA ExplorationGoesOn ==
    ASSUME ExplorationAssumption, ExplorationInv, [ExplorationNext]_exploration
    PROVE  ExplorationInv'
<1>1. CASE PlaySource \/ ReleaseIncident \/ ReleaseFeedback \/ ClockPasses
  BY <1>1, PlayKeeps, IncidentKeeps, ReleaseKeeps, ClockKeeps
<1>2. ASSUME NEW h \in Handlers, Work(h) \/ Crash(h)
      PROVE  ExplorationInv'
  BY <1>2, InsertKeeps, SubmitKeeps, LoadKeeps, ReplayKeeps, CrashKeeps DEF Work
<1>3. ASSUME NEW h \in Handlers, NEW user \in Users, Ask(h, user)
      PROVE  ExplorationInv'
  BY <1>3, CreateKeeps, CommandKeeps, CompleteKeeps DEF Ask
<1>4. CASE \E user \in Users, b \in DOMAIN branches : Reflect(user, b)
  BY <1>4, ReflectKeeps
<1>5. CASE UNCHANGED exploration
  BY <1>5, QuietStep DEF exploration
<1> QED
  BY <1>1, <1>2, <1>3, <1>4, <1>5 DEF ExplorationNext

LEMMA ExplorationInvariant == ExplorationSpec => []ExplorationInv
<1>1. ExplorationInit => ExplorationInv
  BY ExplorationAssumption, ExplorationBegins
<1>2. ExplorationInv /\ [ExplorationNext]_exploration => ExplorationInv'
  BY ExplorationAssumption, ExplorationGoesOn
<1> QED
  BY <1>1, <1>2, PTL DEF ExplorationSpec

LEMMA AuthoredIntervention ==
    ASSUME ExplorationAssumption, ExplorationInv
    PROVE  InterventionIsAuthored
<1> SUFFICES ASSUME NEW b \in DOMAIN branches, log[b] # << >>
             PROVE  /\ log[b][1].id = branches[b].intervention
                    /\ IF branches[b].kind = "DECISION"
                       THEN ChangesTheDecision(b, log[b][1].command)
                       ELSE /\ log[b][1].command = OriginalCommand(b)
                            /\ ForkState(ForkOf(b), branches[b].alternative) # ForkOf(b)
                    /\ source.assignment.learners = "AFTER_FEEDBACK_RELEASE"
                       /\ branches[b].creator = "learner" => released
  BY DEF InterventionIsAuthored
<1>1. /\ SourceInv /\ WellMade(b, branches[b])
      /\ Fits(b, log[b][1].id, log[b][1].command)
  BY DEF ExplorationInv, BranchInv, LogInv, LogOf
<1>2. ASSUME branches[b].kind # "DECISION"
      PROVE  ForkState(ForkOf(b), branches[b].alternative) # ForkOf(b)
  <2>1. /\ PlaysCoffee /\ branches[b].alternative # "none"
        /\ branches[b].alternative # source.start.variant
    BY <1>1, <1>2 DEF WellMade
  <2>2. IsCoffeeState(ForkOf(b)) /\ ForkOf(b).variant = source.start.variant
    BY <1>1, <2>1, ForkIsCoffee DEF WellMade
  <2>3. ForkState(ForkOf(b), branches[b].alternative).variant = branches[b].alternative
    BY <2>1, <2>2 DEF ForkState, IsCoffeeState, CoffeeFields
  <2> QED
    BY <2>1, <2>2, <2>3
<1> QED
  BY <1>1, <1>2 DEF Fits, WellMade

LEMMA OneIntervention ==
    ASSUME ExplorationAssumption, ExplorationInv
    PROVE  \A b \in DOMAIN branches :
              log[b] # << >> /\ KeepsApart(b) /\ Classification(b) = "SINGLE_INTERVENTION"
                 => RepeatsTheSource(b)
<1> SUFFICES ASSUME NEW b \in DOMAIN branches, log[b] # << >>, KeepsApart(b),
                    Classification(b) = "SINGLE_INTERVENTION"
             PROVE  /\ Len(Tail(log[b])) <= Len(Downstream(b))
                    /\ \A i \in DOMAIN Tail(log[b]) :
                           /\ Tail(log[b])[i].id = Downstream(b)[i].id
                           /\ Tail(log[b])[i].command = Downstream(b)[i].command
                           /\ ~Tail(log[b])[i].expired
  BY DEF RepeatsTheSource
<1> DEFINE n == Len(log[b])
           f == branches[b].fork
<1>1. /\ SourceInv /\ BranchInv /\ LogOf(b)
      /\ f \in Nat /\ f # 0 /\ f <= Len(played)
      /\ Len(played) \in Nat /\ DOMAIN played = 1 .. Len(played)
      /\ n \in Nat /\ n # 0 /\ DOMAIN log[b] = 1 .. n
  BY SeqFacts DEF ExplorationInv, BranchInv, LogInv, LogOf, WellMade, SourceInv
<1>2. Completed(StateOf(b)) /\ Ids(b) \subseteq {branches[b].intervention} \union DownstreamIds(b)
  BY DEF Classification
<1>3. /\ Len(Downstream(b)) = Len(played) - f
      /\ DOMAIN Downstream(b) = 1 .. Len(played) - f
      /\ \A i \in 1 .. Len(played) - f : Downstream(b)[i] = played[f + i]
  <2> HIDE DEF n
  <2> QED
    BY <1>1, SuffixFacts DEF Downstream, SourceInv
<1>4. /\ Len(Tail(log[b])) = n - 1 /\ DOMAIN Tail(log[b]) = 1 .. n - 1
      /\ \A i \in 1 .. n - 1 : Tail(log[b])[i] = log[b][i + 1]
  <2>1. PICK S : log[b] \in Seq(S)
    BY <1>1 DEF LogOf, IsSeq
  <2> QED
    BY <1>1, <2>1
<1>5. DownstreamIds(b) = f + 1 .. Len(played)
  <2>1. ASSUME NEW i \in 1 .. Len(played) - f
        PROVE  Downstream(b)[i].id = f + i
    <3>1. Downstream(b)[i] = played[f + i]
      BY <1>3
    <3>2. f + i \in DOMAIN played
      <4> HIDE DEF n, f
      <4> QED
        BY <1>1
    <3> HIDE DEF n, f
    <3> QED
      BY <1>1, <3>1, <3>2 DEF SourceInv
  <2>2. DownstreamIds(b) = {Downstream(b)[i].id : i \in 1 .. Len(played) - f}
    BY <1>3 DEF DownstreamIds, Range
  <2> HIDE DEF n, f
  <2>3. \A k \in f + 1 .. Len(played) : k - f \in 1 .. Len(played) - f /\ f + (k - f) = k
    BY <1>1
  <2>4. \A i \in 1 .. Len(played) - f : f + i \in f + 1 .. Len(played)
    BY <1>1
  <2> QED
    BY <2>1, <2>2, <2>3, <2>4
<1>6. OnlyReplayed(b)
  <2>0. 1 \in DOMAIN log[b] /\ \A i \in DOMAIN log[b] : i > 1 \/ i = 1
    BY <1>1
  <2>1. ASSUME NEW i \in DOMAIN log[b]
        PROVE  log[b][i].by = "hand" => log[b][i].id \notin f + 1 .. Len(played)
    BY <1>5 DEF KeepsApart, Range
  <2>2. log[b][1].by = "hand" /\ log[b][1].id = branches[b].intervention
    BY <1>1 DEF LogOf, Fits
  <2>3. ASSUME NEW i \in DOMAIN log[b], i > 1
        PROVE  log[b][i].id \in f + 1 .. Len(played)
    <3>1. log[b][i].id \in Ids(b)
      BY DEF Ids, Range
    <3>2. log[b][i].id # log[b][1].id
      BY <1>1, <2>0, <2>3 DEF LogOf
    <3> QED
      BY <1>2, <1>5, <2>2, <3>1, <3>2
  <2> HIDE DEF n
  <2> QED
    BY <2>0, <2>1, <2>2, <2>3 DEF OnlyReplayed
<1>7. ASSUME NEW i \in 1 .. n - 1
      PROVE  /\ i <= Len(played) - f
             /\ log[b][i + 1].id = f + i
             /\ log[b][i + 1].command = played[f + i].command
             /\ ~log[b][i + 1].expired
  <2>1. i + 1 \in DOMAIN log[b] /\ i + 1 > 1 /\ f + (i + 1) - 1 = f + i
    BY <1>1
  <2>2. /\ f + i <= Len(played) /\ log[b][i + 1].id = f + i
        /\ log[b][i + 1].command = played[f + i].command
    BY <1>1, <1>6, <2>1 DEF LogOf, InStep
  <2>3. ~log[b][i + 1].expired
    BY <1>1, <1>2, <2>1 DEF LogOf
  <2> QED
    BY <1>1, <2>2, <2>3
<1> HIDE DEF n, f
<1>8. ASSUME NEW i \in 1 .. n - 1
      PROVE  /\ Downstream(b)[i] = played[f + i] /\ played[f + i].id = f + i
             /\ i <= Len(played) - f
  <2>1. i <= Len(played) - f
    BY <1>7
  <2>2. i \in 1 .. Len(played) - f /\ f + i \in DOMAIN played
    BY <1>1, <2>1
  <2>3. \A j \in DOMAIN played : played[j].id = j
    BY <1>1 DEF SourceInv
  <2> QED
    BY <1>3, <2>1, <2>2, <2>3
<1>9. n - 1 <= Len(played) - f
  <2>1. n \in Nat /\ n # 0 /\ f \in Nat /\ f <= Len(played) /\ Len(played) \in Nat
    BY <1>1
  <2>2. CASE n = 1
    BY <2>1, <2>2
  <2>3. CASE n # 1
    <3>1. n - 1 \in 1 .. n - 1
      BY <2>1, <2>3
    <3> QED
      BY <1>7, <3>1
  <2> QED
    BY <2>2, <2>3
<1> QED
  BY <1>3, <1>4, <1>7, <1>8, <1>9

\* However requests overlap or stop halfway, a branch begins with what its author opened to
\* exploration, and one whose comparison names a single intervention repeats the source's
\* batches after it in their order, without a gap and in time, whatever identifiers clients
\* choose, unless a command by hand took one of these batches' (the intervention checks of
\* counterfactual-branch.ts and the complete and comparison routes of sites/worker.ts).
THEOREM ComparisonsAreHonest == ExplorationSpec => []ComparisonIsHonest
<1>1. ExplorationInv => ComparisonIsHonest
  BY ExplorationAssumption, AuthoredIntervention, OneIntervention DEF ComparisonIsHonest
<1> QED
  BY <1>1, ExplorationInvariant, PTL

=============================================================================
