--------------------------- MODULE GradeDelivery ---------------------------
(***************************************************************************)
(* The delivery of a completed run's grade to the learning platform: an    *)
(* outbox row, claimed under a lease by one of the requests that find the  *)
(* run completed, posted, and marked delivered or failed.                  *)
(*                                                                         *)
(* Every request is an attempt of its own.  A step is one query or the     *)
(* post; between any two of them other attempts run, time passes, and the  *)
(* attempt may stop for good.  A query may fail, with or without effect,   *)
(* and so may the post.  The lease is measured with the clock that the     *)
(* claim read before its query was sent.  One run and one assignment have  *)
(* one row, so it is a variable.                                           *)
(***************************************************************************)
EXTENDS Integers

CONSTANTS Attempts,   \* requests that find the run completed
          Grades,   \* what an attempt would send, and where to
          NoGrade,       \* no evidence yet
          Lease,      \* how long a claim lasts (five minutes)
          MaxClock    \* bounds the clock

ASSUME DeliveryAssumption ==
    /\ NoGrade \notin Grades
    /\ Lease \in Nat
    /\ MaxClock \in Nat

VARIABLES row,        \* the outbox row
          arrived,    \* external: what the platform has received
          clock,      \* the server's time
          stage,      \* attempt -> where it stands
          evidence,   \* attempt -> what it sends
          askedAt,    \* attempt -> the time its claim read
          wasClaimed, \* attempt -> its claim changed the row, and it knows
          answer      \* attempt -> what its client is told

vars == <<row, arrived, clock, stage, evidence, askedAt, wasClaimed, answer>>
attempts == <<stage, evidence, askedAt, wasClaimed, answer>>

Status == {"absent", "pending", "delivering", "delivered", "failed"}
Stage == {"IDLE", "INSERTED", "CLAIMING", "CLAIMED", "NOT_CLAIMED", "POSTING", "POSTED",
          "UNPOSTED", "MARKED_DELIVERED", "MARKED_FAILED", "ANSWERED"}
Answer == {"none", "pending", "delivered", "failed"}

-----------------------------------------------------------------------------
(* Steps of an attempt *)

Go(a, from, to) ==
    /\ stage[a] = from
    /\ stage' = [stage EXCEPT ![a] = to]
Reply(a, from, what) ==
    /\ Go(a, from, "ANSWERED")
    /\ answer' = [answer EXCEPT ![a] = what]
    /\ UNCHANGED <<row, arrived, clock, evidence, askedAt, wasClaimed>>

\* A delivery that somebody is at is reported pending.
Reported(status) == IF status = "delivering" THEN "pending" ELSE status

\* createOrFind: the row is inserted unless there is one.
Created(e) ==
    IF row.status = "absent"
    THEN [status |-> "pending", evidence |-> e, lastAttempt |-> 0]
    ELSE row

Insert(a) ==
    /\ Go(a, "IDLE", "INSERTED")
    /\ \E e \in Grades : /\ evidence' = [evidence EXCEPT ![a] = e]
                           /\ row' = Created(e)
    /\ UNCHANGED <<arrived, clock, askedAt, wasClaimed, answer>>

IsBoundToOtherEvidenceNever(a) == FALSE                                   \* mutant
IsBoundToOtherEvidence(a) == row.evidence # evidence[a]

\* The row is read back and compared; a delivery that is done is reported.
ReadCreated(a) ==
    \/ /\ IsBoundToOtherEvidence(a)
       /\ Reply(a, "INSERTED", "failed")
    \/ /\ ~IsBoundToOtherEvidence(a)
       /\ row.status = "delivered"
       /\ Reply(a, "INSERTED", "delivered")
    \/ /\ ~IsBoundToOtherEvidence(a)
       /\ row.status # "delivered"
       /\ Go(a, "INSERTED", "CLAIMING")
       /\ askedAt' = [askedAt EXCEPT ![a] = clock]
       /\ UNCHANGED <<row, arrived, clock, evidence, wasClaimed, answer>>

\* mutant: every claim in progress counts as abandoned
IsClaimableAlways(now) == row.status \in {"pending", "failed", "delivering"}
IsClaimable(now) ==
    \/ row.status \in {"pending", "failed"}
    \/ row.status = "delivering" /\ row.lastAttempt < now - Lease

Claimed(a) == [row EXCEPT !.status = "delivering", !.lastAttempt = askedAt[a]]

Claim(a) ==
    /\ \/ /\ IsClaimable(askedAt[a])
          /\ row' = Claimed(a)
          /\ wasClaimed' = [wasClaimed EXCEPT ![a] = TRUE]
          /\ Go(a, "CLAIMING", "CLAIMED")
       \/ /\ ~IsClaimable(askedAt[a])
          /\ UNCHANGED <<row, wasClaimed>>
          /\ Go(a, "CLAIMING", "NOT_CLAIMED")
    /\ UNCHANGED <<arrived, clock, evidence, askedAt, answer>>

\* The row is read again, to be reported when the claim was not this attempt's.
ReadClaimed(a) ==
    \/ /\ Go(a, "CLAIMED", "POSTING")
       /\ UNCHANGED <<row, arrived, clock, evidence, askedAt, wasClaimed, answer>>
    \/ Reply(a, "NOT_CLAIMED", Reported(row.status))

\* mutant: the status of the response is not looked at
PostUnchecked(a) ==
    /\ Go(a, "POSTING", "POSTED")
    /\ arrived' \in {arrived, arrived \cup {evidence[a]}}
    /\ UNCHANGED <<row, clock, evidence, askedAt, wasClaimed, answer>>

\* The platform takes the score, and says so or does not, or never gets it.
Post(a) ==
    /\ \/ /\ Go(a, "POSTING", "POSTED")
          /\ arrived' = arrived \cup {evidence[a]}
       \/ /\ Go(a, "POSTING", "UNPOSTED")
          /\ arrived' \in {arrived, arrived \cup {evidence[a]}}
    /\ UNCHANGED <<row, clock, evidence, askedAt, wasClaimed, answer>>

\* An update that changes no row is an error, which goes the way of a failed post.
MarkDelivered(a) ==
    /\ \/ /\ row.status = "delivering"
          /\ row' = [row EXCEPT !.status = "delivered"]
          /\ \/ Go(a, "POSTED", "MARKED_DELIVERED")
             \/ Go(a, "POSTED", "UNPOSTED")
       \/ /\ row' = row
          /\ Go(a, "POSTED", "UNPOSTED")
    /\ UNCHANGED <<arrived, clock, evidence, askedAt, wasClaimed, answer>>

ReadDelivered(a) ==
    \/ Reply(a, "MARKED_DELIVERED", Reported(row.status))
    \/ /\ Go(a, "MARKED_DELIVERED", "UNPOSTED")
       /\ UNCHANGED <<row, arrived, clock, evidence, askedAt, wasClaimed, answer>>

CanFail == row.status = "delivering"

MarkFailed(a) ==
    \/ /\ CanFail
       /\ row' = [row EXCEPT !.status = "failed"]
       /\ \/ Go(a, "UNPOSTED", "MARKED_FAILED") /\ answer' = answer
          \/ Go(a, "UNPOSTED", "ANSWERED") /\ answer' = [answer EXCEPT ![a] = "failed"]
       /\ UNCHANGED <<arrived, clock, evidence, askedAt, wasClaimed>>
    \/ Reply(a, "UNPOSTED", "failed")

ReadFailed(a) == Reply(a, "MARKED_FAILED", Reported(row.status))

\* A query outside the try fails: its effect may have happened nevertheless.
QueryFails(a) ==
    \/ \E e \in Grades :
         /\ Go(a, "IDLE", "ANSWERED")
         /\ evidence' = [evidence EXCEPT ![a] = e]
         /\ row' \in {row, Created(e)}
         /\ answer' = [answer EXCEPT ![a] = "failed"]
         /\ UNCHANGED <<arrived, clock, askedAt, wasClaimed>>
    \/ /\ Go(a, "CLAIMING", "ANSWERED")
       /\ row' \in {row, IF IsClaimable(askedAt[a]) THEN Claimed(a) ELSE row}
       /\ answer' = [answer EXCEPT ![a] = "failed"]
       /\ UNCHANGED <<arrived, clock, evidence, askedAt, wasClaimed>>
    \/ \E from \in {"INSERTED", "CLAIMED", "NOT_CLAIMED", "MARKED_FAILED"} :
         Reply(a, from, "failed")

Tick ==
    /\ clock < MaxClock
    /\ clock' = clock + 1
    /\ UNCHANGED <<row, arrived, attempts>>

Init ==
    /\ row = [status |-> "absent", evidence |-> NoGrade, lastAttempt |-> 0]
    /\ arrived = {}
    /\ clock = 0
    /\ stage = [a \in Attempts |-> "IDLE"]
    /\ evidence = [a \in Attempts |-> NoGrade]
    /\ askedAt = [a \in Attempts |-> 0]
    /\ wasClaimed = [a \in Attempts |-> FALSE]
    /\ answer = [a \in Attempts |-> "none"]

Deliver(a) ==
    \/ Insert(a)
    \/ ReadCreated(a)
    \/ Claim(a)
    \/ ReadClaimed(a)
    \/ Post(a)
    \/ MarkDelivered(a)
    \/ ReadDelivered(a)
    \/ MarkFailed(a)
    \/ ReadFailed(a)
    \/ QueryFails(a)

Next == Tick \/ \E a \in Attempts : Deliver(a)

Spec == Init /\ [][Next]_vars

-----------------------------------------------------------------------------
(* Properties *)

\* The row, the attempts and the clock are of their types.
TypeOK ==
    /\ row \in [status : Status, evidence : Grades \cup {NoGrade}, lastAttempt : Nat]
    /\ row.status = "absent" <=> row.evidence = NoGrade
    /\ arrived \subseteq Grades
    /\ clock \in 0..MaxClock
    /\ stage \in [Attempts -> Stage]
    /\ evidence \in [Attempts -> Grades \cup {NoGrade}]
    /\ askedAt \in [Attempts -> 0..MaxClock]
    /\ wasClaimed \in [Attempts -> BOOLEAN]
    /\ answer \in [Attempts -> Answer]

\* A grade marked delivered, or reported delivered to a learner, has arrived,
\* whoever posted it and whatever else failed (deliverLtiAgsScore).
DeliveredHasArrived ==
    /\ row.status = "delivered" => arrived # {}
    /\ \A a \in Attempts : answer[a] = "delivered" => row.status = "delivered"

\* One exact payload per run: what the outbox bound first is all that ever
\* arrives, however many attempts with other evidence follow (createOrFind).
OnlyTheBoundEvidenceArrives == arrived \subseteq {row.evidence}

\* A delivered grade stays delivered: an attempt that was slow, or that lost the
\* reply to its own mark, cannot mark it failed or claim it again.
DeliveredIsFinal ==
    [][row.status = "delivered" => row' = row]_vars

Holds(a) == stage[a] \in {"CLAIMED", "POSTING", "POSTED"}

\* As long as no claim outlives its lease, one attempt at a time posts.  After a
\* takeover that is lost for good: the mark of the attempt that was overtaken
\* sets the row free under its successor (CLAIM_DELIVERY, MARK_FAILED).
OverlapOnlyAfterLease ==
    (\E a, b \in Attempts : a # b /\ Holds(a) /\ Holds(b))
        => \E c, d \in Attempts : /\ wasClaimed[c] /\ wasClaimed[d]
                                 /\ askedAt[c] + Lease < askedAt[d]
=============================================================================
