--------------------------- MODULE RunEventStore ---------------------------
(* The write path of a hosted run: one invocation of the run service (an      *)
(* attempt) loads the stored events, decides, builds a batch and appends it   *)
(* through D1RunEventStore.append.  Every query to the database is a step of  *)
(* its own, so attempts interleave between any two awaits.  The table holds   *)
(* the events of one run; uniqueness and sequence numbers are per run.        *)
(*   service: src/src/platform/hosted/generic-run-service.ts                  *)
(*   store:   src/src/platform/persistence/d1-run-event-store.ts              *)
(*   table:   src/db/schema.ts                                                *)
EXTENDS Naturals, Sequences

CONSTANTS
  Attempts,     \* deliveries of requests to the service (bounds the retries)
  Commands,     \* command ids chosen by clients
  Bodies,       \* contents of a request, as its digest tells them apart
  Requests,     \* the requests clients send
  Width,        \* Width[c]: the number of events command c appends
  MaxWidth,     \* and the most that any command appends
  NoRequest

Kinds == {"create", "learner", "instructor"}

Request == [kind : Kinds, command : Commands, body : Bodies, version : Nat]

ASSUME RequestAssumption ==
  /\ Requests \subseteq Request
  /\ \A r \in Requests : r.kind = "create" => r.version = 0
  /\ \A r, q \in Requests : r.command = q.command /\ r.body = q.body => r = q
  /\ MaxWidth \in Nat
  /\ Width \in [Commands -> 1..MaxWidth]
  /\ NoRequest \notin Requests

(* eventId is generated per attempt and index; the idempotency key is        *)
(* `commandId:batchIndex`.  previousStateHash is the hash of the state the    *)
(* event was built on, identified here with the event that produced it.      *)
EventId == Attempts \X Nat
Genesis == <<>>

Event == [attempt : Attempts, index : Nat \ {0}, command : Commands,
          body : Bodies, kind : Kinds \cup {"limit"},
          previous : EventId \cup {Genesis}]

IdOf(e) == <<e.attempt, e.index>>
KeyOf(e) == <<e.command, e.index>>

Stages == {"idle", "load", "keys", "insert", "reread", "done"}

Accepted == {"committed", "replayed"}
Answers ==
  Accepted \cup
  {"none", "CORRUPT_EVENT_STREAM", "RUN_NOT_FOUND", "RUN_ALREADY_EXISTS",
   "COMMAND_ID_REUSED", "RUN_VERSION_CONFLICT", "WORKFLOW_PRECONDITION_FAILED",
   "RUN_TIME_LIMIT_EXCEEDED", "PARTIAL_IDEMPOTENT_BATCH",
   "IDEMPOTENCY_KEY_REUSED", "RUN_SEQUENCE_CONFLICT", "STORE_ERROR", "LOOKUP_ERROR"}

VARIABLES
  table,     \* hosted_run_events: the event stored at each sequence number
  expired,   \* the authored time limit of the run has elapsed
  attempts   \* attempts[a]: where the invocation stands

vars == <<table, expired, attempts>>

Attempt == [stage : Stages,
            request : Requests \cup {NoRequest},
            batch : Seq(Event),      \* built events, not yet sequenced
            next : Nat,              \* the sequence number of the first
            read : SUBSET Nat,       \* the indexes whose key was looked up
            found : SUBSET Event,    \* and the stored events these found
            thrown : BOOLEAN,        \* the insert threw, it did not return
            answer : Answers]

TypeOK ==
  /\ DOMAIN table \subseteq Nat \ {0}
  /\ \A i \in DOMAIN table : table[i] \in Event
  /\ expired \in BOOLEAN
  /\ attempts \in [Attempts -> Attempt]

Init ==
  /\ table = [i \in {} |-> {}]
  /\ expired = FALSE
  /\ attempts = [a \in Attempts |->
       [stage |-> "idle", request |-> NoRequest, batch |-> << >>, next |-> 0,
        read |-> {}, found |-> {}, thrown |-> FALSE, answer |-> "none"]]

-----------------------------------------------------------------------------
(* The stored stream. *)

Stored == {table[i] : i \in DOMAIN table}

(* COALESCE(MAX(sequence_number), 0) *)
Maximum ==
  IF DOMAIN table = {} THEN 0
  ELSE CHOOSE i \in DOMAIN table : \A j \in DOMAIN table : j <= i

(* load() rejects a stream with a gap; replay rejects an event that does not  *)
(* follow the state reconstructed from the events before it.                 *)
HasNoGap == \A i \in DOMAIN table : 1..i \subseteq DOMAIN table

Follows(i) ==
  table[i].previous = IF i = 1 THEN Genesis ELSE IdOf(table[i - 1])

Replays == HasNoGap /\ \A i \in DOMAIN table : Follows(i)

HasCommand(c) == \E e \in Stored : e.command = c
HasBody(c, b) == \E e \in Stored : e.command = c /\ e.body = b
LimitRecorded == \E e \in Stored : e.kind = "limit"

-----------------------------------------------------------------------------
(* The service, from the load to the built batch. *)

(* Mutant: the version a request was made at is not compared. *)
StaleVersionNever(r) == FALSE

StaleVersion(r) == r.kind # "create" /\ r.version # Maximum

(* Mutant: the time limit is recorded again for every late command. *)
AfterTimeLimitNever(r) == FALSE

AfterTimeLimit(r) == r.kind = "learner" /\ expired /\ LimitRecorded

(* The refusals that need no write, in the order of the code; "none" when     *)
(* the request goes on.  `permitted` stands for the workflow, role and        *)
(* payload checks of the individual commands.                                *)
Refusal(r, permitted) ==
  LET known == HasCommand(r.command)
      same == HasBody(r.command, r.body)
  IN IF ~Replays THEN "CORRUPT_EVENT_STREAM"
     ELSE IF r.kind # "create" /\ Stored = {} THEN "RUN_NOT_FOUND"
     ELSE IF known THEN (IF same THEN "replayed" ELSE "COMMAND_ID_REUSED")
     ELSE IF r.kind = "create" /\ Stored # {} THEN "RUN_ALREADY_EXISTS"
     ELSE IF StaleVersion(r) THEN "RUN_VERSION_CONFLICT"
     ELSE IF AfterTimeLimit(r) THEN "RUN_TIME_LIMIT_EXCEEDED"
     ELSE IF permitted THEN "none" ELSE "WORKFLOW_PRECONDITION_FAILED"

(* Events are chained to the loaded state and to each other.  The first       *)
(* learner command after the deadline records the expiry instead.            *)
Build(a, r) ==
  LET limit == r.kind = "learner" /\ expired
      last == IF Maximum = 0 THEN Genesis ELSE IdOf(table[Maximum])
  IN [i \in 1..(IF limit THEN 1 ELSE Width[r.command]) |->
       [attempt |-> a, index |-> i, command |-> r.command, body |-> r.body,
        kind |-> IF limit THEN "limit" ELSE r.kind,
        previous |-> IF i = 1 THEN last ELSE <<a, i - 1>>]]

ExpectedNext(r) == IF r.kind = "create" THEN 1 ELSE Maximum + 1

Submit(a, r) ==
  /\ attempts[a].stage = "idle"
  /\ attempts' = [attempts EXCEPT ![a].stage = "load", ![a].request = r]
  /\ UNCHANGED <<table, expired>>

Answer(a, answer) ==
  attempts' = [attempts EXCEPT ![a].stage = "done", ![a].answer = answer]

Load(a, permitted) ==
  /\ attempts[a].stage = "load"
  /\ LET r == attempts[a].request
         refusal == Refusal(r, permitted)
     IN IF refusal # "none" THEN Answer(a, refusal)
        ELSE attempts' = [attempts EXCEPT
               ![a].stage = "keys",
               ![a].batch = Build(a, r),
               ![a].next = ExpectedNext(r)]
  /\ UNCHANGED <<table, expired>>

-----------------------------------------------------------------------------
(* The append, query by query. *)

AllRead(a) == attempts[a].read = DOMAIN attempts[a].batch

(* One of the SELECTs of Promise.all; they complete in any order. *)
ReadKey(a, i) ==
  /\ attempts[a].stage \in {"keys", "reread"}
  /\ i \in DOMAIN attempts[a].batch \ attempts[a].read
  /\ attempts' = [attempts EXCEPT
       ![a].read = @ \cup {i},
       ![a].found = @ \cup
         {e \in Stored : KeyOf(e) = KeyOf(attempts[a].batch[i])}]
  /\ UNCHANGED <<table, expired>>

(* A lookup throws, and the service with it.  It says nothing of the batch:    *)
(* after a transaction whose answer was lost, the batch is stored.           *)
LookupFails(a) ==
  /\ attempts[a].stage \in {"keys", "reread"}
  /\ ~AllRead(a)
  /\ Answer(a, "LOOKUP_ERROR")
  /\ UNCHANGED <<table, expired>>

FoundAll(a) ==
  {e.index : e \in attempts[a].found} = DOMAIN attempts[a].batch

(* Equal in content means written by this very batch: every attempt           *)
(* generates its own event ids.                                              *)
SameContent(a) ==
  \A e \in attempts[a].found : e.attempt = a

ResolveExisting(a) ==
  /\ attempts[a].stage = "keys"
  /\ AllRead(a)
  /\ attempts[a].found # {}
  /\ Answer(a, IF ~FoundAll(a) THEN "PARTIAL_IDEMPOTENT_BATCH"
               ELSE IF ~SameContent(a) THEN "IDEMPOTENCY_KEY_REUSED"
               ELSE "replayed")
  /\ UNCHANGED <<table, expired>>

(* Mutant: takes the next number from the table, whatever was expected. *)
ReadMaximumRebase(a) ==
  /\ attempts[a].stage = "keys"
  /\ AllRead(a)
  /\ attempts[a].found = {}
  /\ attempts' = [attempts EXCEPT ![a].stage = "insert", ![a].next = Maximum + 1]
  /\ UNCHANGED <<table, expired>>

ReadMaximum(a) ==
  /\ attempts[a].stage = "keys"
  /\ AllRead(a)
  /\ attempts[a].found = {}
  /\ IF attempts[a].next # Maximum + 1 THEN Answer(a, "RUN_SEQUENCE_CONFLICT")
     ELSE attempts' = [attempts EXCEPT ![a].stage = "insert"]
  /\ UNCHANGED <<table, expired>>

(* The number of event i of the batch.  The batch is stored in one            *)
(* transaction, if no unique constraint stands against it.                   *)
Sequence(a, i) == attempts[a].next + i - 1

Rows(a) == {Sequence(a, i) : i \in DOMAIN attempts[a].batch}

Conflicts(a) ==
  \/ Rows(a) \cap DOMAIN table # {}
  \/ \E e \in Stored, i \in DOMAIN attempts[a].batch :
       \/ KeyOf(e) = KeyOf(attempts[a].batch[i])
       \/ IdOf(e) = IdOf(attempts[a].batch[i])

Store(a) ==
  table' = [i \in DOMAIN table \cup Rows(a) |->
              IF i \in DOMAIN table THEN table[i]
              ELSE attempts[a].batch[i - Sequence(a, 1) + 1]]

Insert(a) ==
  /\ attempts[a].stage = "insert"
  /\ ~Conflicts(a)
  /\ Store(a)
  /\ Answer(a, "committed")
  /\ UNCHANGED expired

(* The statement fails: the constraints reject it or the database does; the   *)
(* driver reports either with a result or with an exception.                 *)
GoReread(a, thrown) ==
  attempts' = [attempts EXCEPT ![a].stage = "reread", ![a].read = {},
                               ![a].found = {}, ![a].thrown = thrown]

InsertFails(a, thrown) ==
  /\ attempts[a].stage = "insert"
  /\ GoReread(a, thrown)
  /\ UNCHANGED <<table, expired>>

(* The transaction commits and its answer is lost. *)
InsertReplyLost(a) ==
  /\ attempts[a].stage = "insert"
  /\ ~Conflicts(a)
  /\ Store(a)
  /\ GoReread(a, TRUE)
  /\ UNCHANGED expired

(* An exception is passed on; a result without success is a conflict. *)
Failure(a) == IF attempts[a].thrown THEN "STORE_ERROR" ELSE "RUN_SEQUENCE_CONFLICT"

(* Mutant: any stored event with the key counts as the batch's own. *)
SettleFailureByKey(a) ==
  /\ attempts[a].stage = "reread"
  /\ AllRead(a)
  /\ Answer(a, IF FoundAll(a) THEN "replayed" ELSE Failure(a))
  /\ UNCHANGED <<table, expired>>

SettleFailure(a) ==
  /\ attempts[a].stage = "reread"
  /\ AllRead(a)
  /\ Answer(a, IF FoundAll(a) /\ SameContent(a) THEN "replayed" ELSE Failure(a))
  /\ UNCHANGED <<table, expired>>

(* The deadline passes. *)
Expire ==
  /\ ~expired
  /\ expired' = TRUE
  /\ UNCHANGED <<table, attempts>>

Next ==
  \/ Expire
  \/ \E a \in Attempts :
       \/ \E r \in Requests : Submit(a, r)
       \/ \E permitted \in BOOLEAN : Load(a, permitted)
       \/ \E i \in DOMAIN attempts[a].batch : ReadKey(a, i)
       \/ LookupFails(a)
       \/ ResolveExisting(a)
       \/ ReadMaximum(a)
       \/ Insert(a)
       \/ \E thrown \in BOOLEAN : InsertFails(a, thrown)
       \/ InsertReplyLost(a)
       \/ SettleFailure(a)

(* An invocation may die between any two of its steps, which is to take none  *)
(* any more: no fairness is assumed.                                         *)
Spec == Init /\ [][Next]_vars

-----------------------------------------------------------------------------
(* Properties *)

(* Whatever attempts interleave, fail or lose their answers, the stored        *)
(* stream has no gap and every event was decided on exactly the events before *)
(* it: replayRunEvents accepts it and load() never reports corruption.        *)
StreamReplays == Replays

(* An answer is true of the table from then on.  Success: the whole batch of   *)
(* the command, with the content that was asked, is stored, and stored once.  *)
(* Refusal: the attempt has left nothing behind, unless it was a lookup that   *)
(* failed, which leaves open what became of the batch.                       *)
BatchStored(r) ==
  \E e \in Stored :
    /\ e.command = r.command /\ e.body = r.body
    /\ {f.index : f \in {g \in Stored : g.command = r.command}} =
         1..(IF e.kind = "limit" THEN 1 ELSE Width[r.command])
    /\ \A f \in Stored : f.command = r.command => f.attempt = e.attempt

AnswersAreTruthful ==
  \A a \in Attempts : attempts[a].stage = "done" =>
    IF attempts[a].answer \in Accepted THEN BatchStored(attempts[a].request)
    ELSE \/ attempts[a].answer = "LOOKUP_ERROR"
         \/ \A e \in Stored : e.attempt # a

(* The expiry of the time limit is recorded once, and what a learner sent       *)
(* before it was recorded can no longer be stored after it, though the clock  *)
(* is only looked at when the run is loaded.                                 *)
TimeLimitClosesTheRun ==
  \A i, j \in DOMAIN table :
    table[i].kind = "limit" /\ i < j => table[j].kind = "instructor"

(* Seen from above there is only a log: see RunLog. *)
StoredLog ==
  [i \in 1..Maximum |->
     IF i \in DOMAIN table
     THEN [attempt |-> table[i].attempt, command |-> table[i].command,
           body |-> table[i].body]
     ELSE "gap"]

IsOpen(a) == attempts[a].stage # "done" \/ attempts[a].answer = "LOOKUP_ERROR"

Outcome(a) ==
  IF IsOpen(a) THEN "open"
  ELSE IF attempts[a].answer \in Accepted THEN "accepted"
  ELSE "refused"

Log == INSTANCE RunLog WITH
  log <- StoredLog,
  asked <- [a \in Attempts |-> attempts[a].request],
  outcome <- [a \in Attempts |-> Outcome(a)]

(* The append, with all its queries and failures, implements the one-step log. *)
ImplementsRunLog == Log!Spec

(* Duplicate command delivery is idempotent: an attempt whose request is the     *)
(* one that was stored is not told that its command was reused for something *)
(* else, or that it retries only a part of it.                               *)
DuplicateDeliveryIsIdempotent ==
  \A a \in Attempts :
    attempts[a].answer \in {"IDEMPOTENCY_KEY_REUSED", "PARTIAL_IDEMPOTENT_BATCH"}
      => ~HasBody(attempts[a].request.command, attempts[a].request.body)
=============================================================================
