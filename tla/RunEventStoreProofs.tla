------------------------ MODULE RunEventStoreProofs ------------------------
(* The hosted run store, for any number of attempts, any requests and any     *)
(* widths.  First, the stored stream replays: no interleaving of the queries *)
(* and no failure of the database puts a gap or an event decided on other    *)
(* events into it.  The store's ReadMaximum check is not what the argument    *)
(* rests on: an event can only be stored where the primary key is free, and a *)
(* batch is always built behind an event that is stored.  Second, every       *)
(* answer stays true of the table, which rests on the unique key of a         *)
(* command's first event: a batch is stored as a whole, so a command that is  *)
(* stored at all has that event.  Last, from both: the append with all its    *)
(* queries, failures and lost answers implements the log of RunLog.          *)
EXTENDS RunEventStore, TLAPS

Dense == \E n \in Nat : DOMAIN table = 1..n

(* A loading attempt carries a request.  An attempt that has a batch built it  *)
(* on the stored event before `next`, and that event has not moved since.    *)
Chained(a) ==
  LET x == attempts[a] IN
  /\ x.stage = "load" => x.request \in Requests
  /\ x.stage \in {"keys", "insert", "reread"} =>
    /\ x.batch # << >>
    /\ x.next # 0
    /\ x.next # 1 => x.next - 1 \in DOMAIN table
    /\ \A i \in DOMAIN x.batch :
         /\ x.batch[i].attempt = a
         /\ x.batch[i].index = i
         /\ x.batch[i].previous =
              IF i # 1 THEN <<a, i - 1>>
              ELSE IF x.next = 1 THEN Genesis ELSE IdOf(table[x.next - 1])

StreamInvariant ==
  /\ TypeOK
  /\ Dense
  /\ \A i \in DOMAIN table : Follows(i)
  /\ \A a \in Attempts : Chained(a)

-----------------------------------------------------------------------------
(* In a dense stream the largest sequence number is the number of events. *)
LEMMA DenseMaximum ==
  ASSUME Dense
  PROVE  Maximum \in Nat /\ DOMAIN table = 1..Maximum
<1>1. PICK n \in Nat : DOMAIN table = 1..n
  BY DEF Dense
<1>2. CASE n = 0
  BY <1>1, <1>2 DEF Maximum
<1>3. CASE n # 0
  <2>1. n \in DOMAIN table /\ \A j \in DOMAIN table : j <= n
    BY <1>1, <1>3
  <2>2. \A m \in DOMAIN table : (\A j \in DOMAIN table : j <= m) => m = n
    BY <1>1, <2>1
  <2>3. Maximum = n
    BY <2>1, <2>2 DEF Maximum
  <2> QED
    BY <1>1, <2>3
<1> QED
  BY <1>2, <1>3

(* A dense stream whose events follow each other replays. *)
LEMMA InvariantReplays == StreamInvariant => StreamReplays
<1> SUFFICES ASSUME StreamInvariant PROVE Replays
  BY DEF StreamReplays
<1>1. HasNoGap
  BY DenseMaximum DEF StreamInvariant, HasNoGap
<1> QED
  BY <1>1 DEF StreamInvariant, Replays

-----------------------------------------------------------------------------
(* What the service builds is well typed and chained to the loaded stream. *)
LEMMA BuildIsChained ==
  ASSUME StreamInvariant, NEW a \in Attempts, NEW r \in Requests
  PROVE  /\ Build(a, r) \in Seq(Event)
         /\ Build(a, r) # << >>
         /\ \A i \in DOMAIN Build(a, r) :
              /\ Build(a, r)[i].attempt = a
              /\ Build(a, r)[i].index = i
              /\ Build(a, r)[i].previous =
                   IF i # 1 THEN <<a, i - 1>>
                   ELSE IF Maximum = 0 THEN Genesis ELSE IdOf(table[Maximum])
<1> DEFINE limit == r.kind = "learner" /\ expired
           width == IF limit THEN 1 ELSE Width[r.command]
           last == IF Maximum = 0 THEN Genesis ELSE IdOf(table[Maximum])
           event(i) == [attempt |-> a, index |-> i, command |-> r.command,
                        body |-> r.body, kind |-> IF limit THEN "limit" ELSE r.kind,
                        previous |-> IF i = 1 THEN last ELSE <<a, i - 1>>]
<1>1. r \in Request /\ width \in Nat \ {0}
  BY RequestAssumption DEF Request
<1>2. last \in EventId \cup {Genesis}
  <2>1. Maximum \in Nat /\ DOMAIN table = 1..Maximum
    BY DenseMaximum DEF StreamInvariant
  <2>2. ASSUME Maximum # 0 PROVE table[Maximum] \in Event
    BY <2>1, <2>2 DEF StreamInvariant, TypeOK
  <2> QED
    BY <2>2 DEF Event, IdOf, EventId
<1>3. \A i \in 1..width : event(i) \in Event
  <2> HIDE DEF last
  <2> TAKE i \in 1..width
  <2>1. i \in Nat \ {0} /\ (i # 1 => i - 1 \in Nat)
    BY <1>1
  <2>2. (IF i = 1 THEN last ELSE <<a, i - 1>>) \in EventId \cup {Genesis}
    BY <2>1, <1>2 DEF EventId
  <2> QED
    BY <1>1, <2>1, <2>2 DEF Event, Request, Kinds
<1>4. Build(a, r) = [i \in 1..width |-> event(i)]
  BY DEF Build
<1> HIDE DEF event, width
<1>5. Build(a, r) \in Seq(Event) /\ DOMAIN Build(a, r) = 1..width
  BY <1>1, <1>3, <1>4
<1>6. 1 \in DOMAIN Build(a, r)
  BY <1>1, <1>5
<1> QED
  BY <1>4, <1>5, <1>6 DEF event

-----------------------------------------------------------------------------
(* A step that leaves the table alone and keeps every attempt chained. *)
LEMMA TableKept ==
  ASSUME StreamInvariant, UNCHANGED table, expired' \in BOOLEAN,
         NEW a \in Attempts, NEW x \in Attempt,
         attempts' = [attempts EXCEPT ![a] = x],
         Chained(a)'
  PROVE  StreamInvariant'
<1>1. TypeOK'
  BY DEF StreamInvariant, TypeOK
<1>2. Dense' /\ \A i \in DOMAIN table' : Follows(i)'
  BY DEF StreamInvariant, Dense, Follows
<1>3. ASSUME NEW b \in Attempts PROVE Chained(b)'
  <2>1. CASE b = a
    BY <2>1
  <2>2. CASE b # a
    <3>1. attempts'[b] = attempts[b]
      BY <2>2 DEF StreamInvariant, TypeOK
    <3> QED
      BY <3>1 DEF StreamInvariant, Chained
  <2> QED
    BY <2>1, <2>2
<1> QED
  BY <1>1, <1>2, <1>3 DEF StreamInvariant

(* The batch goes in behind the last event: its first number is free and the   *)
(* one before it is taken.                                                   *)
LEMMA StoreAppends ==
  ASSUME StreamInvariant, NEW a \in Attempts, attempts[a].stage = "insert",
         ~Conflicts(a), Store(a), NEW n \in Nat, DOMAIN table = 1..n
  PROVE  LET x == attempts[a] IN
         /\ x.next = n + 1
         /\ DOMAIN table' = 1..(n + Len(x.batch))
         /\ \A i \in 1..n : table'[i] = table[i]
         /\ \A i \in (n + 1)..(n + Len(x.batch)) : table'[i] = x.batch[i - n]
<1> DEFINE x == attempts[a]
<1>1. x \in Attempt /\ x.batch \in Seq(Event) /\ x.next \in Nat
  BY DEF StreamInvariant, TypeOK, Attempt
<1>2. /\ x.batch # << >>
      /\ x.next # 0
      /\ x.next # 1 => x.next - 1 \in 1..n
  BY DEF StreamInvariant, Chained
<1>3. Len(x.batch) \in Nat \ {0} /\ DOMAIN x.batch = 1..Len(x.batch)
  BY <1>1, <1>2
<1>4. Rows(a) = {x.next + i - 1 : i \in 1..Len(x.batch)}
  BY <1>3 DEF Rows, Sequence
<1>5. x.next \in Rows(a)
  <2>1. 1 \in 1..Len(x.batch) /\ x.next = x.next + 1 - 1
    BY <1>1, <1>3
  <2> QED
    BY <1>4, <2>1
<1>6. x.next = n + 1
  <2>1. x.next \notin 1..n
    BY <1>5 DEF Conflicts
  <2> QED
    BY <1>1, <1>2, <2>1
<1>7. Rows(a) = (n + 1)..(n + Len(x.batch))
  <2>1. ASSUME NEW i \in (n + 1)..(n + Len(x.batch)) PROVE i \in Rows(a)
    <3>1. i - n \in 1..Len(x.batch) /\ i = x.next + (i - n) - 1
      BY <1>3, <1>6
    <3> QED
      BY <3>1, <1>4
  <2>2. ASSUME NEW i \in Rows(a) PROVE i \in (n + 1)..(n + Len(x.batch))
    <3>1. PICK j \in 1..Len(x.batch) : i = x.next + j - 1
      BY <1>4
    <3> QED
      BY <3>1, <1>3, <1>6
  <2> QED
    BY <2>1, <2>2
<1>8. Sequence(a, 1) = n + 1
  BY <1>6 DEF Sequence
<1>9. table' = [i \in 1..n \cup Rows(a) |->
                 IF i \in 1..n THEN table[i] ELSE x.batch[i - (n + 1) + 1]]
  BY <1>8 DEF Store
<1>10. 1..n \cup Rows(a) = 1..(n + Len(x.batch))
  BY <1>3, <1>7
<1>11. ASSUME NEW i \in (n + 1)..(n + Len(x.batch))
       PROVE  table'[i] = x.batch[i - n]
  <2>1. i \in 1..(n + Len(x.batch)) /\ i \notin 1..n /\ i - (n + 1) + 1 = i - n
    BY <1>3
  <2> QED
    BY <1>9, <1>10, <2>1
<1>12. ASSUME NEW i \in 1..n PROVE table'[i] = table[i]
  BY <1>9
<1> QED
  BY <1>6, <1>9, <1>10, <1>11, <1>12

(* Storing a batch keeps the stream chained, and the other attempts too. *)
LEMMA StorePreserves ==
  ASSUME StreamInvariant, UNCHANGED expired,
         NEW a \in Attempts, attempts[a].stage = "insert",
         ~Conflicts(a), Store(a),
         NEW x \in Attempt, attempts' = [attempts EXCEPT ![a] = x],
         x.batch = attempts[a].batch, x.next = attempts[a].next,
         x.stage # "load"
  PROVE  StreamInvariant'
<1>1. PICK n \in Nat : DOMAIN table = 1..n
  BY DEF StreamInvariant, Dense
<1> DEFINE batch == attempts[a].batch
           m == n + Len(batch)
<1>2. /\ attempts[a].next = n + 1
      /\ DOMAIN table' = 1..m
      /\ \A i \in 1..n : table'[i] = table[i]
      /\ \A i \in (n + 1)..m : table'[i] = batch[i - n]
  BY <1>1, StoreAppends
<1>3. /\ batch \in Seq(Event) /\ Len(batch) \in Nat
      /\ DOMAIN batch = 1..Len(batch)
  BY DEF StreamInvariant, TypeOK, Attempt
<1>4. \A i \in DOMAIN batch :
        /\ batch[i].attempt = a
        /\ batch[i].index = i
        /\ batch[i].previous =
             IF i # 1 THEN <<a, i - 1>>
             ELSE IF attempts[a].next = 1 THEN Genesis
             ELSE IdOf(table[attempts[a].next - 1])
  BY DEF StreamInvariant, Chained
<1> HIDE DEF batch
<1>5. m \in Nat /\ n <= m
  BY <1>3
<1>6. ASSUME NEW i \in (n + 1)..m
      PROVE  /\ i - n \in DOMAIN batch
             /\ table'[i] = batch[i - n]
             /\ batch[i - n] \in Event
  BY <1>2, <1>3, <1>6
<1>7. TypeOK'
  <2>1. ASSUME NEW i \in 1..m PROVE table'[i] \in Event
    <3>1. CASE i \in 1..n
      BY <3>1, <1>1, <1>2 DEF StreamInvariant, TypeOK
    <3>2. CASE i \in (n + 1)..m
      BY <3>2, <1>6
    <3> QED
      BY <3>1, <3>2, <1>5
  <2>2. attempts' \in [Attempts -> Attempt] /\ expired' \in BOOLEAN
    BY DEF StreamInvariant, TypeOK
  <2> QED
    BY <2>1, <2>2, <1>2, <1>5 DEF TypeOK
<1>8. Dense'
  BY <1>2, <1>5 DEF Dense
<1>9. ASSUME NEW i \in 1..m PROVE Follows(i)'
  <2>1. CASE i \in 1..n
    <3>1. i = 1 \/ i - 1 \in 1..n
      BY <2>1
    <3>2. Follows(i)
      BY <2>1, <1>1 DEF StreamInvariant
    <3> QED
      BY <2>1, <3>1, <3>2, <1>2 DEF Follows
  <2>2. CASE i = n + 1
    <3>1. table'[i] = batch[1] /\ 1 \in DOMAIN batch /\ i - n = 1
      BY <2>2, <1>5, <1>6, <1>1
    <3>2. batch[1].previous = IF n = 0 THEN Genesis ELSE IdOf(table[n])
      <4>1. attempts[a].next - 1 = n /\ (attempts[a].next = 1 <=> n = 0)
        BY <1>1, <1>2
      <4> QED
        BY <4>1, <3>1, <1>4
    <3>3. CASE n = 0
      BY <2>2, <3>1, <3>2, <3>3 DEF Follows
    <3>4. CASE n # 0
      <4>1. n \in 1..n /\ i - 1 = n /\ i # 1
        BY <1>1, <2>2, <3>4
      <4> QED
        BY <4>1, <3>1, <3>2, <3>4, <1>2 DEF Follows
    <3> QED
      BY <3>3, <3>4
  <2>3. CASE i \in (n + 2)..m
    <3>1. i - 1 \in (n + 1)..m /\ i \in (n + 1)..m /\ i # 1
      BY <2>3, <1>1, <1>5
    <3>2. table'[i] = batch[i - n] /\ i - n \in DOMAIN batch
      BY <3>1, <1>6
    <3>3. table'[i - 1] = batch[(i - 1) - n] /\ (i - 1) - n \in DOMAIN batch
      BY <3>1, <1>6
    <3>4. i - n # 1 /\ (i - n) - 1 = (i - 1) - n
      BY <2>3, <1>1
    <3>5. batch[i - n].previous = <<a, (i - n) - 1>>
      BY <3>2, <3>4, <1>4
    <3>6. IdOf(table'[i - 1]) = <<a, (i - 1) - n>>
      BY <3>3, <1>4 DEF IdOf
    <3> QED
      BY <3>1, <3>2, <3>4, <3>5, <3>6 DEF Follows, IdOf
  <2> QED
    BY <2>1, <2>2, <2>3, <1>1, <1>5
<1>10. ASSUME NEW b \in Attempts PROVE Chained(b)'
  <2>1. /\ attempts'[b].stage \in {"keys", "insert", "reread"} =>
             attempts[b].stage \in {"keys", "insert", "reread"}
        /\ attempts'[b].stage = "load" =>
             attempts[b].stage = "load" /\ attempts'[b].request = attempts[b].request
        /\ attempts'[b].batch = attempts[b].batch
        /\ attempts'[b].next = attempts[b].next
    BY DEF StreamInvariant, TypeOK
  <2>2. Chained(b) /\ attempts[b].next \in Nat
    BY DEF StreamInvariant, TypeOK, Attempt
  <2>3. ASSUME attempts[b].next - 1 \in 1..n
        PROVE  /\ attempts[b].next - 1 \in 1..m
               /\ table'[attempts[b].next - 1] = table[attempts[b].next - 1]
    BY <2>2, <2>3, <1>1, <1>2, <1>5
  <2> QED
    BY <2>1, <2>2, <2>3, <1>1, <1>2 DEF Chained, IdOf
<1> QED
  BY <1>2, <1>7, <1>8, <1>9, <1>10 DEF StreamInvariant

-----------------------------------------------------------------------------
(* One lemma per action. *)

LEMMA AttemptIsRecord ==
  ASSUME TypeOK, NEW a \in Attempts
  PROVE  attempts[a] \in Attempt
BY DEF TypeOK

LEMMA SubmitPreserves ==
  ASSUME StreamInvariant, NEW a \in Attempts, NEW r \in Requests, Submit(a, r)
  PROVE  StreamInvariant'
<1> DEFINE x == [attempts[a] EXCEPT !.stage = "load", !.request = r]
<1>1. attempts[a] \in Attempt
  BY AttemptIsRecord DEF StreamInvariant
<1>2. x \in Attempt
  BY <1>1 DEF Attempt, Stages
<1>3. attempts' = [attempts EXCEPT ![a] = x]
  BY DEF Submit, StreamInvariant, TypeOK
<1>4. attempts'[a].stage = "load" /\ attempts'[a].request = r
  BY <1>1, <1>3 DEF StreamInvariant, TypeOK, Attempt
<1>5. Chained(a)'
  BY <1>4 DEF Chained
<1> QED
  BY <1>2, <1>3, <1>5, TableKept DEF Submit, StreamInvariant, TypeOK

(* Any step that only answers. *)
LEMMA AnswerPreserves ==
  ASSUME StreamInvariant, NEW a \in Attempts, NEW answer \in Answers,
         Answer(a, answer), UNCHANGED <<table, expired>>
  PROVE  StreamInvariant'
<1> DEFINE x == [attempts[a] EXCEPT !.stage = "done", !.answer = answer]
<1>1. attempts[a] \in Attempt
  BY AttemptIsRecord DEF StreamInvariant
<1>2. x \in Attempt
  BY <1>1 DEF Attempt, Stages
<1>3. attempts' = [attempts EXCEPT ![a] = x]
  BY DEF Answer, StreamInvariant, TypeOK
<1>4. attempts'[a].stage = "done"
  BY <1>1, <1>3 DEF StreamInvariant, TypeOK, Attempt
<1>5. Chained(a)'
  BY <1>4 DEF Chained
<1> QED
  BY <1>2, <1>3, <1>5, TableKept DEF StreamInvariant, TypeOK

(* Any step that moves an attempt on with its batch and number as they are. *)
LEMMA BatchKept ==
  ASSUME StreamInvariant, NEW a \in Attempts, NEW x \in Attempt,
         attempts[a].stage \in {"keys", "insert", "reread"},
         x.batch = attempts[a].batch, x.next = attempts[a].next,
         x.stage # "load", attempts' = [attempts EXCEPT ![a] = x], UNCHANGED <<table, expired>>
  PROVE  StreamInvariant'
<1>1. attempts'[a] = x
  BY DEF StreamInvariant, TypeOK
<1>2. Chained(a)'
  BY <1>1 DEF StreamInvariant, Chained
<1> QED
  BY <1>2, TableKept DEF StreamInvariant, TypeOK

LEMMA LoadPreserves ==
  ASSUME StreamInvariant, NEW a \in Attempts, NEW permitted \in BOOLEAN,
         Load(a, permitted)
  PROVE  StreamInvariant'
<1> DEFINE r == attempts[a].request
           refusal == Refusal(r, permitted)
<1>0. r \in Requests
  BY DEF Load, StreamInvariant, Chained
<1>1. refusal \in Answers
  BY DEF Refusal, Answers, Accepted
<1>2. CASE refusal # "none"
  BY <1>1, <1>2, AnswerPreserves DEF Load
<1>3. CASE refusal = "none"
  <2> DEFINE x == [attempts[a] EXCEPT !.stage = "keys", !.batch = Build(a, r),
                                      !.next = ExpectedNext(r)]
  <2>1. attempts[a] \in Attempt
    BY AttemptIsRecord DEF StreamInvariant
  <2>2. Maximum \in Nat /\ DOMAIN table = 1..Maximum
    BY DenseMaximum DEF StreamInvariant
  <2>3. ExpectedNext(r) \in Nat /\ Build(a, r) \in Seq(Event)
    BY <1>0, <2>2, BuildIsChained DEF ExpectedNext
  <2>4. x \in Attempt
    BY <2>1, <2>3 DEF Attempt, Stages
  <2>5. attempts' = [attempts EXCEPT ![a] = x]
    BY <1>3 DEF Load, StreamInvariant, TypeOK
  <2>6. attempts'[a] = x /\ x.batch = Build(a, r) /\ x.next = ExpectedNext(r)
    BY <2>1, <2>5 DEF StreamInvariant, TypeOK, Attempt
  (* A creation goes on only when nothing is stored yet. *)
  <2>7. ExpectedNext(r) = Maximum + 1
    <3>1. CASE r.kind # "create"
      BY <3>1 DEF ExpectedNext
    <3>2. CASE r.kind = "create"
      <4>1. Stored = {}
        BY <1>3, <3>2 DEF Refusal
      <4>2. DOMAIN table = {}
        BY <4>1 DEF Stored
      <4> QED
        BY <4>2, <3>2 DEF ExpectedNext, Maximum
    <3> QED
      BY <3>1, <3>2
  <2>8. /\ ExpectedNext(r) # 0
        /\ ExpectedNext(r) # 1 => ExpectedNext(r) - 1 \in DOMAIN table
        /\ ExpectedNext(r) - 1 = Maximum
        /\ ExpectedNext(r) = 1 <=> Maximum = 0
    BY <2>2, <2>7
  <2>9. Chained(a)'
    <3> DEFINE batch == Build(a, r)
               n == ExpectedNext(r)
    <3>1. \A i \in DOMAIN batch :
            /\ batch[i].attempt = a
            /\ batch[i].index = i
            /\ batch[i].previous =
                 IF i # 1 THEN <<a, i - 1>>
                 ELSE IF n = 1 THEN Genesis ELSE IdOf(table[n - 1])
      BY <1>0, <2>8, BuildIsChained
    <3>2. batch # << >>
      BY <1>0, BuildIsChained
    <3>3. /\ attempts'[a].stage = "keys" /\ attempts'[a].batch = batch
          /\ attempts'[a].next = n /\ table' = table
      BY <2>1, <2>6 DEF Load, Attempt
    <3> HIDE DEF batch, n
    <3> QED
      BY <2>8, <3>1, <3>2, <3>3 DEF Chained, IdOf, n
  <2> QED
    BY <2>4, <2>5, <2>9, TableKept DEF Load, StreamInvariant, TypeOK
<1> QED
  BY <1>2, <1>3

LEMMA ReadKeyPreserves ==
  ASSUME StreamInvariant, NEW a \in Attempts,
         NEW i \in DOMAIN attempts[a].batch, ReadKey(a, i)
  PROVE  StreamInvariant'
<1> DEFINE hits == {e \in Stored : KeyOf(e) = KeyOf(attempts[a].batch[i])}
           x == [attempts[a] EXCEPT !.read = @ \cup {i}, !.found = @ \cup hits]
<1>1. attempts[a] \in Attempt
  BY AttemptIsRecord DEF StreamInvariant
<1>2. Stored \subseteq Event
  BY DEF StreamInvariant, TypeOK, Stored
<1>3. i \in Nat
  BY <1>1 DEF Attempt
<1>4. x \in Attempt
  BY <1>1, <1>2, <1>3 DEF Attempt
<1>5. attempts' = [attempts EXCEPT ![a] = x]
  BY DEF ReadKey, StreamInvariant, TypeOK
<1>6. x.batch = attempts[a].batch /\ x.next = attempts[a].next /\ x.stage # "load"
  BY <1>1 DEF Attempt, ReadKey
<1> QED
  BY <1>4, <1>5, <1>6, BatchKept DEF ReadKey

LEMMA ReadMaximumPreserves ==
  ASSUME StreamInvariant, NEW a \in Attempts, ReadMaximum(a)
  PROVE  StreamInvariant'
<1>1. CASE attempts[a].next # Maximum + 1
  BY <1>1, AnswerPreserves DEF ReadMaximum, Answers
<1>2. CASE attempts[a].next = Maximum + 1
  <2> DEFINE x == [attempts[a] EXCEPT !.stage = "insert"]
  <2>1. attempts[a] \in Attempt
    BY AttemptIsRecord DEF StreamInvariant
  <2>2. /\ x \in Attempt /\ x.batch = attempts[a].batch
        /\ x.next = attempts[a].next /\ x.stage # "load"
    BY <2>1 DEF Attempt, Stages
  <2>3. attempts' = [attempts EXCEPT ![a] = x]
    BY <1>2 DEF ReadMaximum, StreamInvariant, TypeOK
  <2> QED
    BY <2>2, <2>3, BatchKept DEF ReadMaximum
<1> QED
  BY <1>1, <1>2

LEMMA RereadIsWellTyped ==
  ASSUME StreamInvariant, NEW a \in Attempts, NEW thrown \in BOOLEAN,
         GoReread(a, thrown)
  PROVE  \E x \in Attempt :
           /\ attempts' = [attempts EXCEPT ![a] = x]
           /\ x.batch = attempts[a].batch /\ x.next = attempts[a].next
           /\ x.stage = "reread"
<1> DEFINE x == [attempts[a] EXCEPT !.stage = "reread", !.read = {},
                                    !.found = {}, !.thrown = thrown]
<1>1. attempts[a] \in Attempt
  BY AttemptIsRecord DEF StreamInvariant
<1>2. /\ x \in Attempt /\ x.batch = attempts[a].batch
      /\ x.next = attempts[a].next /\ x.stage = "reread"
  BY <1>1 DEF Attempt, Stages
<1>3. attempts' = [attempts EXCEPT ![a] = x]
  BY DEF GoReread, StreamInvariant, TypeOK
<1> QED
  BY <1>2, <1>3

LEMMA InsertPreserves ==
  ASSUME StreamInvariant, NEW a \in Attempts, Insert(a)
  PROVE  StreamInvariant'
<1> DEFINE x == [attempts[a] EXCEPT !.stage = "done", !.answer = "committed"]
<1>1. attempts[a] \in Attempt
  BY AttemptIsRecord DEF StreamInvariant
<1>2. /\ x \in Attempt /\ x.batch = attempts[a].batch
      /\ x.next = attempts[a].next /\ x.stage # "load"
  BY <1>1 DEF Attempt, Stages, Answers, Accepted
<1>3. attempts' = [attempts EXCEPT ![a] = x]
  BY DEF Insert, Answer, StreamInvariant, TypeOK
<1> QED
  BY <1>2, <1>3, StorePreserves DEF Insert

-----------------------------------------------------------------------------
(* The invariant holds initially and is kept by every step. *)
LEMMA StreamInit == Init => StreamInvariant
<1> SUFFICES ASSUME Init PROVE StreamInvariant
  OBVIOUS
<1>1. DOMAIN table = {} /\ DOMAIN table = 1..0
  BY DEF Init
<1>2. TypeOK
  <2>1. << >> \in Seq(Event)
    OBVIOUS
  <2>2. [stage |-> "idle", request |-> NoRequest, batch |-> << >>, next |-> 0,
         read |-> {}, found |-> {}, thrown |-> FALSE, answer |-> "none"] \in Attempt
    BY <2>1 DEF Attempt, Stages, Answers
  <2> QED
    BY <1>1, <2>2 DEF Init, TypeOK
<1>3. Dense
  BY <1>1 DEF Dense
<1>4. \A a \in Attempts : Chained(a)
  BY DEF Init, Chained
<1> QED
  BY <1>1, <1>2, <1>3, <1>4 DEF StreamInvariant

LEMMA StreamStep == StreamInvariant /\ [Next]_vars => StreamInvariant'
<1> SUFFICES ASSUME StreamInvariant, [Next]_vars PROVE StreamInvariant'
  OBVIOUS
<1>1. CASE UNCHANGED vars
  BY <1>1 DEF vars, StreamInvariant, TypeOK, Dense, Follows, Chained
<1>2. CASE Expire
  BY <1>2 DEF Expire, StreamInvariant, TypeOK, Dense, Follows, Chained
<1>3. ASSUME NEW a \in Attempts, NEW r \in Requests, Submit(a, r)
      PROVE  StreamInvariant'
  BY <1>3, SubmitPreserves
<1>4. ASSUME NEW a \in Attempts, NEW permitted \in BOOLEAN, Load(a, permitted)
      PROVE  StreamInvariant'
  BY <1>4, LoadPreserves
<1>5. ASSUME NEW a \in Attempts, NEW i \in DOMAIN attempts[a].batch, ReadKey(a, i)
      PROVE  StreamInvariant'
  BY <1>5, ReadKeyPreserves
<1>6. ASSUME NEW a \in Attempts, ResolveExisting(a) PROVE StreamInvariant'
  BY <1>6, AnswerPreserves DEF ResolveExisting, Answers, Accepted
<1>7. ASSUME NEW a \in Attempts, ReadMaximum(a) PROVE StreamInvariant'
  BY <1>7, ReadMaximumPreserves
<1>8. ASSUME NEW a \in Attempts, Insert(a) PROVE StreamInvariant'
  BY <1>8, InsertPreserves
<1>9. ASSUME NEW a \in Attempts, NEW thrown \in BOOLEAN, InsertFails(a, thrown)
      PROVE  StreamInvariant'
  BY <1>9, RereadIsWellTyped, BatchKept DEF InsertFails
<1>10. ASSUME NEW a \in Attempts, InsertReplyLost(a) PROVE StreamInvariant'
  BY <1>10, RereadIsWellTyped, StorePreserves DEF InsertReplyLost
<1>11. ASSUME NEW a \in Attempts, SettleFailure(a) PROVE StreamInvariant'
  BY <1>11, AnswerPreserves DEF SettleFailure, Failure, Answers, Accepted
<1>12. ASSUME NEW a \in Attempts, LookupFails(a) PROVE StreamInvariant'
  BY <1>12, AnswerPreserves DEF LookupFails, Answers
<1> QED
  BY <1>1, <1>2, <1>3, <1>4, <1>5, <1>6, <1>7, <1>8, <1>9, <1>10, <1>11, <1>12 DEF Next

THEOREM StreamInvariantHolds == Spec => []StreamInvariant
BY StreamInit, StreamStep, PTL DEF Spec

(* The stored stream of a run has no gap, and every event was decided on        *)
(* exactly the events before it, whatever attempts interleave or fail.       *)
THEOREM StoredStreamReplays == Spec => []StreamReplays
BY StreamInvariantHolds, InvariantReplays, PTL

(* The table and every attempt are well typed in every reachable state. *)
THEOREM StoreTypeCorrect == Spec => []TypeOK
<1>1. StreamInvariant => TypeOK
  BY DEF StreamInvariant
<1> QED
  BY <1>1, StreamInvariantHolds, PTL

-----------------------------------------------------------------------------
(* What the answers rest on: a batch is stored as a whole or not at all, and   *)
(* an attempt that is still running knows whether its own is.                *)

BatchWidth(e) == IF e.kind = "limit" THEN 1 ELSE Width[e.command]

(* All events of a command are one batch of one attempt. *)
WholeBatches ==
  \A e \in Stored :
    /\ e.index \in 1..BatchWidth(e)
    /\ \A k \in 1..BatchWidth(e) : \E f \in Stored : f.command = e.command /\ f.index = k
    /\ \A f \in Stored :
         f.command = e.command => f.attempt = e.attempt /\ f.body = e.body /\ f.kind = e.kind

(* A limit event is recorded after the deadline only, and nothing of a learner *)
(* follows it.                                                               *)
LimitIsLast ==
  /\ LimitRecorded => expired
  /\ TimeLimitClosesTheRun

IsRunning(a) == attempts[a].stage \in {"keys", "insert", "reread"}

(* The batch of a running attempt is the one its request asks for. *)
Carries(a) ==
  LET x == attempts[a]
      r == x.request
  IN /\ x.stage = "idle" <=> r = NoRequest
     /\ IsRunning(a) =>
          /\ Len(x.batch) = BatchWidth(x.batch[1])
          /\ \A i \in DOMAIN x.batch :
               /\ x.batch[i].command = r.command /\ x.batch[i].body = r.body
               /\ x.batch[i].kind = x.batch[1].kind
          /\ r.version = x.next - 1
          /\ x.batch[1].kind = "create" => x.next = 1
          /\ x.batch[1].kind = "limit" => expired
          /\ x.batch[1].kind \in {"learner", "limit"} =>
               \A j \in DOMAIN table : j < x.next => table[j].kind # "limit"

(* What is stored of an attempt is of its request, and it was inserting. *)
Traces(a) ==
  \A e \in Stored :
    e.attempt = a =>
      /\ attempts[a].stage \in {"reread", "done"}
      /\ e.command = attempts[a].request.command /\ e.body = attempts[a].request.body

(* What a running attempt has found is stored, under a key of its batch; when  *)
(* its own batch is stored, it finds that.                                   *)
Finds(a) ==
  LET x == attempts[a] IN
  /\ x.stage \in {"idle", "load"} => x.found = {}
  /\ x.stage \in {"keys", "reread"} =>
       \A e \in x.found : e \in Stored /\ \E i \in DOMAIN x.batch : KeyOf(e) = KeyOf(x.batch[i])
  /\ x.stage = "reread" /\ (\E e \in Stored : e.attempt = a) =>
       /\ x.read \subseteq DOMAIN x.batch
       /\ \A i \in DOMAIN x.batch : \E e \in Stored : e.attempt = a /\ e.index = i
       /\ \A i \in x.read : \E e \in x.found : e.index = i

(* The answer that was given, in terms of the table. *)
Answered(a) ==
  attempts[a].stage = "done" =>
    IF attempts[a].answer \in Accepted
    THEN HasBody(attempts[a].request.command, attempts[a].request.body)
    ELSE attempts[a].answer = "LOOKUP_ERROR" \/ \A e \in Stored : e.attempt # a

AnswerInvariant ==
  /\ StreamInvariant
  /\ WholeBatches
  /\ LimitIsLast
  /\ \A a \in Attempts : Carries(a) /\ Traces(a) /\ Finds(a) /\ Answered(a)

-----------------------------------------------------------------------------
(* An event of the command with the content asked stands for the whole batch. *)
LEMMA BodyMeansBatch ==
  ASSUME WholeBatches, NEW r \in Requests, HasBody(r.command, r.body)
  PROVE  BatchStored(r)
<1>1. PICK e \in Stored : e.command = r.command /\ e.body = r.body
  BY DEF HasBody
<1> DEFINE indexes == {f.index : f \in {g \in Stored : g.command = r.command}}
<1>2. \A f \in Stored : f.command = r.command => f.attempt = e.attempt
  BY <1>1 DEF WholeBatches
<1>3. indexes = 1..BatchWidth(e)
  <2>1. ASSUME NEW f \in Stored, f.command = r.command PROVE f.index \in 1..BatchWidth(e)
    BY <1>1, <2>1 DEF WholeBatches, BatchWidth
  <2>2. ASSUME NEW k \in 1..BatchWidth(e) PROVE k \in indexes
    BY <1>1, <2>2 DEF WholeBatches
  <2> QED
    BY <2>1, <2>2
<1>4. BatchWidth(e) = IF e.kind = "limit" THEN 1 ELSE Width[r.command]
  BY <1>1 DEF BatchWidth
<1> QED
  BY <1>1, <1>2, <1>3, <1>4 DEF BatchStored

(* The batch of a running attempt, event by event. *)
LEMMA BatchOfRequest ==
  ASSUME AnswerInvariant, NEW a \in Attempts, IsRunning(a)
  PROVE  LET x == attempts[a] IN
         /\ x.batch \in Seq(Event) /\ 1 \in DOMAIN x.batch
         /\ \A i \in DOMAIN x.batch :
              /\ x.batch[i].attempt = a /\ x.batch[i].index = i
              /\ x.batch[i].command = x.request.command /\ x.batch[i].body = x.request.body
              /\ x.batch[i].kind = x.batch[1].kind
<1> DEFINE batch == attempts[a].batch
<1>1. batch \in Seq(Event) /\ batch # << >>
  BY AttemptIsRecord DEF AnswerInvariant, StreamInvariant, Attempt, Chained, IsRunning
<1>2. \A i \in DOMAIN batch : batch[i].attempt = a /\ batch[i].index = i
  BY DEF AnswerInvariant, StreamInvariant, Chained, IsRunning
<1>3. \A i \in DOMAIN batch :
        /\ batch[i].command = attempts[a].request.command
        /\ batch[i].body = attempts[a].request.body
        /\ batch[i].kind = batch[1].kind
  BY DEF AnswerInvariant, Carries
<1>4. 1 \in DOMAIN batch
  BY <1>1
<1> QED
  BY <1>1, <1>2, <1>3, <1>4

LEMMA InvariantIsTruthful == AnswerInvariant => AnswersAreTruthful
<1> SUFFICES ASSUME AnswerInvariant, NEW a \in Attempts, attempts[a].stage = "done"
             PROVE  IF attempts[a].answer \in Accepted THEN BatchStored(attempts[a].request)
                    ELSE \/ attempts[a].answer = "LOOKUP_ERROR"
                         \/ \A e \in Stored : e.attempt # a
  BY DEF AnswersAreTruthful
<1>1. attempts[a].request \in Requests
  BY AttemptIsRecord DEF AnswerInvariant, StreamInvariant, Carries, Attempt
<1> QED
  BY <1>1, BodyMeansBatch DEF AnswerInvariant, Answered

-----------------------------------------------------------------------------
(* A step of one attempt that leaves the table alone. *)
LEMMA TableKeptAnswers ==
  ASSUME AnswerInvariant, StreamInvariant', UNCHANGED table, expired => expired',
         NEW a \in Attempts, NEW x,
         attempts' = [attempts EXCEPT ![a] = x],
         Carries(a)', Traces(a)', Finds(a)', Answered(a)'
  PROVE  AnswerInvariant'
<1>1. Stored' = Stored
  BY DEF Stored
<1>2. WholeBatches'
  BY <1>1 DEF AnswerInvariant, WholeBatches, BatchWidth
<1>3. LimitIsLast'
  BY <1>1 DEF AnswerInvariant, LimitIsLast, LimitRecorded, TimeLimitClosesTheRun
<1>4. ASSUME NEW b \in Attempts, b # a
      PROVE  Carries(b)' /\ Traces(b)' /\ Finds(b)' /\ Answered(b)'
  <2>1. attempts'[b] = attempts[b]
    BY <1>4 DEF AnswerInvariant, StreamInvariant, TypeOK
  <2>2. Carries(b)'
    BY <2>1 DEF AnswerInvariant, Carries, IsRunning, BatchWidth
  <2>3. Traces(b)' /\ Finds(b)'
    BY <1>1, <2>1 DEF AnswerInvariant, Traces, Finds, KeyOf
  <2>4. Answered(b)'
    BY <1>1, <2>1 DEF AnswerInvariant, Answered, HasBody
  <2> QED
    BY <2>2, <2>3, <2>4
<1> QED
  BY <1>2, <1>3, <1>4 DEF AnswerInvariant

(* An answer that is true of the table when it is given. *)
LEMMA AnswerIsTruthful ==
  ASSUME AnswerInvariant, StreamInvariant', NEW a \in Attempts, NEW answer,
         attempts[a].stage # "idle",
         Answer(a, answer), UNCHANGED <<table, expired>>,
         IF answer \in Accepted
         THEN HasBody(attempts[a].request.command, attempts[a].request.body)
         ELSE answer = "LOOKUP_ERROR" \/ \A e \in Stored : e.attempt # a
  PROVE  AnswerInvariant'
<1> DEFINE x == [attempts[a] EXCEPT !.stage = "done", !.answer = answer]
<1>1. attempts[a] \in Attempt /\ attempts' = [attempts EXCEPT ![a] = x]
  BY AttemptIsRecord DEF Answer, AnswerInvariant, StreamInvariant, TypeOK
<1>2. /\ attempts'[a].stage = "done" /\ attempts'[a].answer = answer
      /\ attempts'[a].request = attempts[a].request
  BY <1>1 DEF AnswerInvariant, StreamInvariant, TypeOK, Attempt
<1>3. Stored' = Stored
  BY DEF Stored
<1>4. Carries(a)'
  BY <1>2 DEF AnswerInvariant, Carries, IsRunning
<1>5. Traces(a)' /\ Finds(a)'
  BY <1>2, <1>3 DEF AnswerInvariant, Traces, Finds
<1>6. Answered(a)'
  BY <1>2, <1>3 DEF Answered, HasBody
<1> QED
  BY <1>1, <1>4, <1>5, <1>6, TableKeptAnswers

LEMMA SubmitTruthful ==
  ASSUME AnswerInvariant, StreamInvariant', NEW a \in Attempts, NEW r \in Requests,
         Submit(a, r)
  PROVE  AnswerInvariant'
<1> DEFINE x == [attempts[a] EXCEPT !.stage = "load", !.request = r]
<1>1. attempts[a] \in Attempt /\ attempts' = [attempts EXCEPT ![a] = x]
  BY AttemptIsRecord DEF Submit, AnswerInvariant, StreamInvariant, TypeOK
<1>2. attempts'[a].stage = "load" /\ attempts'[a].request = r /\ r # NoRequest
  BY <1>1, RequestAssumption DEF AnswerInvariant, StreamInvariant, TypeOK, Attempt
<1>3. Stored' = Stored
  BY DEF Submit, Stored
<1>4. Carries(a)'
  BY <1>2 DEF Carries, IsRunning
<1>5. (\A e \in Stored : e.attempt # a) /\ attempts'[a].found = {}
  BY <1>1 DEF AnswerInvariant, StreamInvariant, TypeOK, Traces, Finds, Submit, Attempt
<1>6. Traces(a)' /\ Finds(a)' /\ Answered(a)'
  BY <1>2, <1>3, <1>5 DEF Traces, Finds, Answered
<1> QED
  BY <1>1, <1>4, <1>6, TableKeptAnswers DEF Submit

(* What a load builds when nothing refuses the request. *)
LEMMA BuildCarries ==
  ASSUME AnswerInvariant, NEW a \in Attempts, NEW r \in Requests, NEW permitted \in BOOLEAN,
         Refusal(r, permitted) = "none"
  PROVE  LET batch == Build(a, r) IN
         /\ Len(batch) = BatchWidth(batch[1])
         /\ \A i \in DOMAIN batch :
              /\ batch[i].command = r.command /\ batch[i].body = r.body
              /\ batch[i].kind = batch[1].kind
         /\ r.version = ExpectedNext(r) - 1
         /\ batch[1].kind = "create" => ExpectedNext(r) = 1
         /\ batch[1].kind = "limit" => expired
         /\ batch[1].kind \in {"learner", "limit"} => \A j \in DOMAIN table : table[j].kind # "limit"
<1> DEFINE limit == r.kind = "learner" /\ expired
           width == IF limit THEN 1 ELSE Width[r.command]
           batch == Build(a, r)
           kind == IF limit THEN "limit" ELSE r.kind
<1>1. r \in Request /\ width \in Nat \ {0}
  BY RequestAssumption DEF Request
<1>2. DOMAIN batch = 1..width /\ Len(batch) = width /\ 1 \in 1..width
  <2>1. DOMAIN batch = 1..width
    BY DEF Build
  <2>2. batch \in Seq(Event)
    BY BuildIsChained DEF AnswerInvariant
  <2> HIDE DEF batch, width
  <2> QED
    BY <1>1, <2>1, <2>2
<1>3. \A i \in 1..width :
        batch[i].command = r.command /\ batch[i].body = r.body /\ batch[i].kind = kind
  BY DEF Build
<1>4. BatchWidth(batch[1]) = width
  <2>1. batch[1].command = r.command /\ batch[1].kind = kind
    BY <1>2, <1>3
  <2>2. kind = "limit" <=> limit
    BY <1>1 DEF Request, Kinds
  <2> HIDE DEF batch, limit, kind
  <2> QED
    BY <2>1, <2>2 DEF BatchWidth
<1>5. ~StaleVersion(r) /\ ~AfterTimeLimit(r) /\ (r.kind = "create" => Stored = {})
  BY DEF Refusal
<1>6. Maximum \in Nat
  BY DenseMaximum DEF AnswerInvariant, StreamInvariant
<1>7. r.version = ExpectedNext(r) - 1 /\ (r.kind = "create" => ExpectedNext(r) = 1)
  BY <1>5, <1>6, RequestAssumption DEF StaleVersion, ExpectedNext
<1>8. kind \in {"learner", "limit"} => \A j \in DOMAIN table : table[j].kind # "limit"
  <2>1. SUFFICES ASSUME kind \in {"learner", "limit"} PROVE ~LimitRecorded
    BY DEF LimitRecorded, Stored
  <2>2. r.kind = "learner"
    BY <1>1, <2>1 DEF Request, Kinds
  <2>3. LimitRecorded => expired
    BY DEF AnswerInvariant, LimitIsLast
  <2> QED
    BY <1>5, <2>2, <2>3 DEF AfterTimeLimit
<1>9. (kind = "create" => r.kind = "create") /\ (kind = "limit" => expired)
  BY <1>1 DEF Request, Kinds
<1> HIDE DEF batch, width, kind, limit
<1> QED
  BY <1>2, <1>3, <1>4, <1>7, <1>8, <1>9 DEF batch

LEMMA LoadTruthful ==
  ASSUME AnswerInvariant, StreamInvariant', NEW a \in Attempts, NEW permitted \in BOOLEAN,
         Load(a, permitted)
  PROVE  AnswerInvariant'
<1> DEFINE r == attempts[a].request
           refusal == Refusal(r, permitted)
<1>1. /\ r \in Requests /\ attempts[a].stage = "load" /\ table' = table /\ expired' = expired
      /\ attempts[a] \in Attempt
  BY AttemptIsRecord DEF Load, AnswerInvariant, StreamInvariant, Chained
<1>2. \A e \in Stored : e.attempt # a
  BY <1>1 DEF AnswerInvariant, Traces
<1>3. CASE refusal # "none"
  <2>1. refusal \in Accepted => HasBody(r.command, r.body)
    BY DEF Refusal, Accepted
  <2> QED
    BY <1>1, <1>2, <1>3, <2>1, AnswerIsTruthful DEF Load
<1>4. CASE refusal = "none"
  <2> DEFINE x == [attempts[a] EXCEPT !.stage = "keys", !.batch = Build(a, r),
                                      !.next = ExpectedNext(r)]
  <2>1. attempts' = [attempts EXCEPT ![a] = x]
    BY <1>4 DEF Load, AnswerInvariant, StreamInvariant, TypeOK
  <2>2. /\ attempts'[a].stage = "keys" /\ attempts'[a].batch = Build(a, r)
        /\ attempts'[a].next = ExpectedNext(r) /\ attempts'[a].request = r
        /\ attempts'[a].found = attempts[a].found
    BY <1>1, <2>1 DEF AnswerInvariant, StreamInvariant, TypeOK, Attempt
  <2>3. Stored' = Stored
    BY <1>1 DEF Stored
  <2>4. Carries(a)'
    <3>1. r # NoRequest
      BY <1>1, RequestAssumption
    <3> DEFINE batch == Build(a, r)
    <3>2. /\ Len(batch) = BatchWidth(batch[1])
          /\ \A i \in DOMAIN batch :
               /\ batch[i].command = r.command /\ batch[i].body = r.body
               /\ batch[i].kind = batch[1].kind
          /\ r.version = ExpectedNext(r) - 1
          /\ batch[1].kind = "create" => ExpectedNext(r) = 1
          /\ batch[1].kind = "limit" => expired
          /\ batch[1].kind \in {"learner", "limit"} =>
               \A j \in DOMAIN table : table[j].kind # "limit"
      BY <1>1, <1>4, BuildCarries
    <3> HIDE DEF batch, r
    <3> QED
      BY <1>1, <2>2, <3>1, <3>2 DEF Carries, IsRunning, BatchWidth, batch, r
  <2>5. Traces(a)' /\ Answered(a)'
    BY <1>2, <2>2, <2>3 DEF Traces, Answered
  <2>6. Finds(a)'
    BY <1>1, <2>2 DEF Finds, AnswerInvariant
  <2> QED
    BY <1>1, <2>1, <2>4, <2>5, <2>6, TableKeptAnswers
<1> QED
  BY <1>3, <1>4

LEMMA ReadKeyTruthful ==
  ASSUME AnswerInvariant, StreamInvariant', NEW a \in Attempts,
         NEW i \in DOMAIN attempts[a].batch, ReadKey(a, i)
  PROVE  AnswerInvariant'
<1> DEFINE hits == {e \in Stored : KeyOf(e) = KeyOf(attempts[a].batch[i])}
           x == [attempts[a] EXCEPT !.read = @ \cup {i}, !.found = @ \cup hits]
<1>1. /\ attempts[a] \in Attempt /\ attempts' = [attempts EXCEPT ![a] = x]
      /\ attempts[a].stage \in {"keys", "reread"}
  BY AttemptIsRecord DEF ReadKey, AnswerInvariant, StreamInvariant, TypeOK
<1> HIDE DEF hits
<1>2. /\ attempts'[a].stage = attempts[a].stage /\ attempts'[a].batch = attempts[a].batch
      /\ attempts'[a].next = attempts[a].next /\ attempts'[a].request = attempts[a].request
      /\ attempts'[a].read = attempts[a].read \cup {i}
      /\ attempts'[a].found = attempts[a].found \cup hits
  BY <1>1 DEF AnswerInvariant, StreamInvariant, TypeOK, Attempt
<1>3. Stored' = Stored /\ table' = table /\ expired' = expired
  BY DEF ReadKey, Stored
<1>4. Carries(a)'
  BY <1>2, <1>3 DEF AnswerInvariant, Carries, IsRunning, BatchWidth
<1>5. Traces(a)'
  BY <1>2, <1>3 DEF AnswerInvariant, Traces
<1>6. Answered(a)'
  BY <1>1, <1>2 DEF Answered
<1>7. Finds(a)'
  <2>1. \A e \in attempts'[a].found :
          e \in Stored /\ \E j \in DOMAIN attempts[a].batch : KeyOf(e) = KeyOf(attempts[a].batch[j])
    BY <1>1, <1>2 DEF AnswerInvariant, Finds, hits
  <2>2. ASSUME attempts[a].stage = "reread", NEW e \in Stored, e.attempt = a
        PROVE  /\ attempts'[a].read \subseteq DOMAIN attempts[a].batch
               /\ \A j \in DOMAIN attempts[a].batch : \E f \in Stored : f.attempt = a /\ f.index = j
               /\ \A j \in attempts'[a].read : \E f \in attempts'[a].found : f.index = j
    <3>1. /\ attempts[a].read \subseteq DOMAIN attempts[a].batch
          /\ \A j \in DOMAIN attempts[a].batch : \E f \in Stored : f.attempt = a /\ f.index = j
          /\ \A j \in attempts[a].read : \E f \in attempts[a].found : f.index = j
      BY <2>2 DEF AnswerInvariant, Finds
    (* What is looked up is there: the attempt's own event. *)
    <3>2. PICK f \in Stored : f.attempt = a /\ f.index = i
      BY <3>1
    <3>3. f.command = attempts[a].request.command
      BY <3>2 DEF AnswerInvariant, Traces
    <3>4. attempts[a].batch[i].command = attempts[a].request.command
          /\ attempts[a].batch[i].index = i
      BY <1>1, BatchOfRequest DEF IsRunning
    <3>5. f \in hits
      BY <3>2, <3>3, <3>4 DEF hits, KeyOf
    <3> QED
      BY <1>2, <3>1, <3>2, <3>5
  <2> QED
    BY <1>1, <1>2, <1>3, <2>1, <2>2 DEF Finds, KeyOf
<1> QED
  BY <1>1, <1>3, <1>4, <1>5, <1>6, <1>7, TableKeptAnswers

(* Before the insert nothing of the attempt is stored, so what was found       *)
(* under its keys is somebody else's.                                        *)
LEMMA ResolveExistingTruthful ==
  ASSUME AnswerInvariant, StreamInvariant', NEW a \in Attempts, ResolveExisting(a)
  PROVE  AnswerInvariant'
<1>1. \A e \in Stored : e.attempt # a
  BY DEF ResolveExisting, AnswerInvariant, Traces
<1>2. ~SameContent(a)
  <2>1. PICK e \in attempts[a].found : TRUE
    BY DEF ResolveExisting
  <2>2. e \in Stored
    BY DEF ResolveExisting, AnswerInvariant, Finds
  <2> QED
    BY <1>1, <2>2 DEF SameContent
<1>3. PICK answer \in {"PARTIAL_IDEMPOTENT_BATCH", "IDEMPOTENCY_KEY_REUSED"} : Answer(a, answer)
  BY <1>2 DEF ResolveExisting
<1>4. /\ attempts[a].stage # "idle" /\ UNCHANGED <<table, expired>>
      /\ answer \notin Accepted
  BY DEF ResolveExisting, Accepted
<1> QED
  BY <1>1, <1>3, <1>4, AnswerIsTruthful

LEMMA ReadMaximumTruthful ==
  ASSUME AnswerInvariant, StreamInvariant', NEW a \in Attempts, ReadMaximum(a)
  PROVE  AnswerInvariant'
<1>1. attempts[a].stage = "keys" /\ UNCHANGED <<table, expired>>
  BY DEF ReadMaximum
<1>2. \A e \in Stored : e.attempt # a
  BY <1>1 DEF AnswerInvariant, Traces
<1>3. CASE attempts[a].next # Maximum + 1
  <2>1. Answer(a, "RUN_SEQUENCE_CONFLICT") /\ "RUN_SEQUENCE_CONFLICT" \notin Accepted
    BY <1>3 DEF ReadMaximum, Accepted
  <2> QED
    BY <1>1, <1>2, <2>1, AnswerIsTruthful
<1>4. CASE attempts[a].next = Maximum + 1
  <2> DEFINE x == [attempts[a] EXCEPT !.stage = "insert"]
  <2>1. attempts[a] \in Attempt /\ attempts' = [attempts EXCEPT ![a] = x]
    BY <1>4, AttemptIsRecord DEF ReadMaximum, AnswerInvariant, StreamInvariant, TypeOK
  <2>2. /\ attempts'[a].stage = "insert" /\ attempts'[a].batch = attempts[a].batch
        /\ attempts'[a].next = attempts[a].next /\ attempts'[a].request = attempts[a].request
    BY <2>1 DEF AnswerInvariant, StreamInvariant, TypeOK, Attempt
  <2>3. Stored' = Stored
    BY <1>1 DEF Stored
  <2>4. Carries(a)'
    BY <1>1, <2>2 DEF AnswerInvariant, Carries, IsRunning, BatchWidth
  <2>5. Traces(a)' /\ Finds(a)' /\ Answered(a)'
    BY <1>2, <2>2, <2>3 DEF Traces, Finds, Answered
  <2> QED
    BY <1>1, <2>1, <2>4, <2>5, TableKeptAnswers
<1> QED
  BY <1>3, <1>4

(* A failed insert is settled by what is stored: all of the batch or nothing. *)
LEMMA SettleFailureTruthful ==
  ASSUME AnswerInvariant, StreamInvariant', NEW a \in Attempts, SettleFailure(a)
  PROVE  AnswerInvariant'
<1> DEFINE r == attempts[a].request
           batch == attempts[a].batch
<1>1. attempts[a].stage = "reread" /\ UNCHANGED <<table, expired>>
      /\ attempts[a].read = DOMAIN batch
  BY DEF SettleFailure, AllRead
<1>2. /\ 1 \in DOMAIN batch
      /\ \A i \in DOMAIN batch :
           batch[i].attempt = a /\ batch[i].index = i /\ batch[i].command = r.command
  BY <1>1, BatchOfRequest DEF IsRunning
<1>3. \A e \in attempts[a].found :
        e \in Stored /\ \E i \in DOMAIN batch : e.command = r.command /\ e.index = i
  BY <1>1, <1>2 DEF AnswerInvariant, Finds, KeyOf
<1>4. CASE FoundAll(a) /\ SameContent(a)
  <2>1. Answer(a, "replayed") /\ "replayed" \in Accepted
    BY <1>4 DEF SettleFailure, Accepted, Answer
  <2>3. PICK e \in attempts[a].found : e.index = 1
    BY <1>2, <1>4 DEF FoundAll
  <2>4. e \in Stored /\ e.attempt = a
    BY <1>3, <1>4 DEF SameContent
  <2>5. HasBody(r.command, r.body)
    BY <2>4 DEF AnswerInvariant, Traces, HasBody
  <2> QED
    BY <1>1, <2>1, <2>5, AnswerIsTruthful
<1>5. CASE ~(FoundAll(a) /\ SameContent(a))
  <2>1. ASSUME NEW e \in Stored, e.attempt = a PROVE FALSE
    <3>1. \A i \in DOMAIN batch : \E f \in attempts[a].found : f.index = i
      BY <1>1, <2>1 DEF AnswerInvariant, Finds
    <3>2. FoundAll(a)
      BY <1>3, <3>1 DEF FoundAll
    <3>3. e.command = r.command
      BY <2>1 DEF AnswerInvariant, Traces
    <3>4. SameContent(a)
      BY <1>3, <2>1, <3>3 DEF SameContent, AnswerInvariant, WholeBatches
    <3> QED
      BY <1>5, <3>2, <3>4
  <2>2. PICK answer \in {"RUN_SEQUENCE_CONFLICT", "STORE_ERROR"} : Answer(a, answer)
    BY <1>5 DEF SettleFailure, Failure
  <2>3. answer \notin Accepted
    BY DEF Accepted
  <2> QED
    BY <1>1, <2>1, <2>2, <2>3, AnswerIsTruthful
<1> QED
  BY <1>4, <1>5

(* What storing a batch makes of the set of stored events. *)
LEMMA StoredGrows ==
  ASSUME StreamInvariant, NEW a \in Attempts, attempts[a].stage = "insert",
         ~Conflicts(a), Store(a)
  PROVE  /\ \A e \in Stored : e \in Stored'
         /\ \A i \in DOMAIN attempts[a].batch : attempts[a].batch[i] \in Stored'
         /\ \A e \in Stored' :
              e \in Stored \/ \E i \in DOMAIN attempts[a].batch : e = attempts[a].batch[i]
<1> DEFINE batch == attempts[a].batch
<1>1. PICK n \in Nat : DOMAIN table = 1..n
  BY DEF StreamInvariant, Dense
<1>2. /\ DOMAIN table' = 1..(n + Len(batch))
      /\ \A i \in 1..n : table'[i] = table[i]
      /\ \A i \in (n + 1)..(n + Len(batch)) : table'[i] = batch[i - n]
  BY <1>1, StoreAppends
<1>3. Len(batch) \in Nat /\ DOMAIN batch = 1..Len(batch)
  BY AttemptIsRecord DEF StreamInvariant, Attempt
<1> HIDE DEF batch
<1>4. ASSUME NEW e \in Stored PROVE e \in Stored'
  <2>1. PICK i \in 1..n : e = table[i]
    BY <1>1 DEF Stored
  <2>2. i \in DOMAIN table' /\ table'[i] = e
    BY <1>1, <1>2, <1>3, <2>1
  <2> QED
    BY <2>2 DEF Stored
<1>5. ASSUME NEW i \in DOMAIN batch PROVE batch[i] \in Stored'
  <2>1. n + i \in (n + 1)..(n + Len(batch)) /\ (n + i) - n = i
    BY <1>1, <1>3
  <2>2. n + i \in DOMAIN table' /\ table'[n + i] = batch[i]
    BY <1>1, <1>2, <1>3, <2>1
  <2> QED
    BY <2>2 DEF Stored
<1>6. ASSUME NEW e \in Stored' PROVE e \in Stored \/ \E i \in DOMAIN batch : e = batch[i]
  <2>1. PICK i \in 1..(n + Len(batch)) : e = table'[i]
    BY <1>2 DEF Stored
  <2>2. CASE i \in 1..n
    BY <1>1, <1>2, <2>1, <2>2 DEF Stored
  <2>3. CASE i \in (n + 1)..(n + Len(batch))
    <3>1. i - n \in DOMAIN batch
      BY <1>1, <1>3, <2>3
    <3> QED
      BY <1>2, <2>1, <2>3, <3>1
  <2> QED
    BY <1>1, <1>3, <2>2, <2>3
<1> QED
  BY <1>4, <1>5, <1>6 DEF batch

(* Nothing of the command is stored when its batch goes in: the batch stored   *)
(* for it would have an event under the key of this one's first.             *)
LEMMA CommandIsNew ==
  ASSUME AnswerInvariant, NEW a \in Attempts, attempts[a].stage = "insert",
         ~Conflicts(a)
  PROVE  \A e \in Stored : e.command # attempts[a].request.command
<1> SUFFICES ASSUME NEW e \in Stored, e.command = attempts[a].request.command
             PROVE  FALSE
  OBVIOUS
<1>1. 1 \in 1..BatchWidth(e)
  <2>1. e.index \in 1..BatchWidth(e)
    BY DEF AnswerInvariant, WholeBatches
  <2>2. BatchWidth(e) \in Nat
    <3>1. e \in Event
      BY DEF AnswerInvariant, StreamInvariant, TypeOK, Stored
    <3> QED
      BY <3>1, RequestAssumption DEF BatchWidth, Event
  <2> QED
    BY <2>1, <2>2
<1>2. PICK f \in Stored : f.command = e.command /\ f.index = 1
  BY <1>1 DEF AnswerInvariant, WholeBatches
<1>3. /\ 1 \in DOMAIN attempts[a].batch /\ attempts[a].batch[1].index = 1
      /\ attempts[a].batch[1].command = attempts[a].request.command
  BY BatchOfRequest DEF IsRunning
<1>4. KeyOf(f) = KeyOf(attempts[a].batch[1])
  BY <1>2, <1>3 DEF KeyOf
<1> QED
  BY <1>2, <1>3, <1>4 DEF Conflicts

LEMMA StoreKeepsWholeBatches ==
  ASSUME AnswerInvariant, NEW a \in Attempts, attempts[a].stage = "insert",
         ~Conflicts(a), Store(a)
  PROVE  WholeBatches'
<1> DEFINE batch == attempts[a].batch
           command == attempts[a].request.command
<1>1. /\ \A e \in Stored : e \in Stored'
      /\ \A i \in DOMAIN batch : batch[i] \in Stored'
      /\ \A e \in Stored' : e \in Stored \/ \E i \in DOMAIN batch : e = batch[i]
  BY StoredGrows DEF AnswerInvariant
<1>2. \A e \in Stored : e.command # command
  BY CommandIsNew
<1>3. /\ batch \in Seq(Event) /\ 1 \in DOMAIN batch
      /\ \A i \in DOMAIN batch :
           /\ batch[i].attempt = a /\ batch[i].index = i /\ batch[i].command = command
           /\ batch[i].body = attempts[a].request.body /\ batch[i].kind = batch[1].kind
  BY BatchOfRequest DEF IsRunning
<1>4. DOMAIN batch = 1..BatchWidth(batch[1])
  <2>1. Len(batch) = BatchWidth(batch[1])
    BY DEF AnswerInvariant, Carries, IsRunning
  <2> HIDE DEF batch
  <2> QED
    BY <1>3, <2>1
<1> HIDE DEF batch, command
<1>5. \A i \in DOMAIN batch : BatchWidth(batch[i]) = BatchWidth(batch[1])
  BY <1>3 DEF BatchWidth
<1>6. ASSUME NEW e \in Stored'
      PROVE  /\ e.index \in 1..BatchWidth(e)
             /\ \A k \in 1..BatchWidth(e) :
                  \E f \in Stored' : f.command = e.command /\ f.index = k
             /\ \A f \in Stored' :
                  f.command = e.command => f.attempt = e.attempt /\ f.body = e.body /\ f.kind = e.kind
  <2>1. CASE e \in Stored
    <3>1. /\ e.index \in 1..BatchWidth(e)
          /\ \A k \in 1..BatchWidth(e) : \E f \in Stored : f.command = e.command /\ f.index = k
          /\ \A f \in Stored :
               f.command = e.command => f.attempt = e.attempt /\ f.body = e.body /\ f.kind = e.kind
      BY <2>1 DEF AnswerInvariant, WholeBatches
    <3>2. \A f \in Stored' : f.command = e.command => f \in Stored
      BY <1>1, <1>2, <1>3, <2>1
    <3>3. \A k \in 1..BatchWidth(e) : \E f \in Stored' : f.command = e.command /\ f.index = k
      BY <1>1, <3>1
    <3> QED
      BY <3>1, <3>2, <3>3
  <2>2. ASSUME NEW i \in DOMAIN batch, e = batch[i]
        PROVE  /\ e.index \in 1..BatchWidth(e)
               /\ \A k \in 1..BatchWidth(e) :
                    \E f \in Stored' : f.command = e.command /\ f.index = k
               /\ \A f \in Stored' :
                    f.command = e.command => f.attempt = e.attempt /\ f.body = e.body /\ f.kind = e.kind
    <3>1. BatchWidth(e) = BatchWidth(batch[1]) /\ e.index = i /\ e.command = command
      BY <1>3, <1>5, <2>2
    <3>2. \A k \in 1..BatchWidth(e) : \E f \in Stored' : f.command = e.command /\ f.index = k
      BY <1>1, <1>3, <1>4, <3>1
    <3>3. \A f \in Stored' : f.command = e.command => \E j \in DOMAIN batch : f = batch[j]
      BY <1>1, <1>2, <3>1
    <3> QED
      BY <1>3, <1>4, <2>2, <3>1, <3>2, <3>3
  <2> QED
    BY <1>1, <2>1, <2>2
<1> QED
  BY <1>6 DEF WholeBatches, BatchWidth

LEMMA StoreKeepsLimitLast ==
  ASSUME AnswerInvariant, UNCHANGED expired,
         NEW a \in Attempts, attempts[a].stage = "insert", ~Conflicts(a), Store(a)
  PROVE  LimitIsLast'
<1> DEFINE batch == attempts[a].batch
           m == Len(batch)
<1>1. PICK n \in Nat : DOMAIN table = 1..n
  BY DEF AnswerInvariant, StreamInvariant, Dense
<1>2. /\ attempts[a].next = n + 1
      /\ DOMAIN table' = 1..(n + m)
      /\ \A i \in 1..n : table'[i] = table[i]
      /\ \A i \in (n + 1)..(n + m) : table'[i] = batch[i - n]
  BY <1>1, StoreAppends DEF AnswerInvariant
<1>3. /\ batch \in Seq(Event) /\ 1 \in DOMAIN batch
      /\ \A i \in DOMAIN batch : batch[i].kind = batch[1].kind
  BY BatchOfRequest DEF IsRunning
<1>4. m \in Nat /\ DOMAIN batch = 1..m
  BY <1>3
<1>5. /\ m = BatchWidth(batch[1])
      /\ batch[1].kind = "create" => attempts[a].next = 1
      /\ batch[1].kind = "limit" => expired
      /\ batch[1].kind \in {"learner", "limit"} =>
           \A j \in DOMAIN table : j < attempts[a].next => table[j].kind # "limit"
  BY DEF AnswerInvariant, Carries, IsRunning
<1>6. batch[1].kind \in Kinds \cup {"limit"}
  <2> HIDE DEF batch
  <2>1. batch[1] \in Event
    BY <1>3
  <2> QED
    BY <2>1 DEF Event
<1> HIDE DEF batch, m
<1>7. \A i \in (n + 1)..(n + m) : table'[i].kind = batch[1].kind
  <2> TAKE i \in (n + 1)..(n + m)
  <2>1. i - n \in DOMAIN batch
    BY <1>1, <1>4
  <2> QED
    BY <1>2, <1>3, <2>1
<1>8. LimitRecorded' => expired'
  <2> SUFFICES ASSUME NEW i \in DOMAIN table', table'[i].kind = "limit" PROVE expired
    BY DEF LimitRecorded, Stored
  <2>1. CASE i \in 1..n
    BY <1>1, <1>2, <2>1 DEF AnswerInvariant, LimitIsLast, LimitRecorded, Stored
  <2>2. CASE i \in (n + 1)..(n + m)
    BY <1>5, <1>7, <2>2
  <2> QED
    BY <1>1, <1>2, <1>4, <2>1, <2>2
<1>9. ASSUME NEW i \in DOMAIN table', NEW j \in DOMAIN table',
             table'[i].kind = "limit", i < j
      PROVE  table'[j].kind = "instructor"
  <2>1. CASE j \in 1..n
    <3>1. i \in DOMAIN table /\ j \in DOMAIN table
      BY <1>1, <1>2, <1>4, <1>9, <2>1
    <3>2. table'[i] = table[i] /\ table'[j] = table[j]
      BY <1>1, <1>2, <3>1
    <3> QED
      BY <1>9, <3>1, <3>2 DEF AnswerInvariant, LimitIsLast, TimeLimitClosesTheRun
  <2>2. CASE i \in 1..n /\ j \in (n + 1)..(n + m)
    <3>1. table[i].kind = "limit" /\ i \in DOMAIN table /\ i < attempts[a].next
          /\ attempts[a].next # 1
      BY <1>1, <1>2, <1>9, <2>2
    <3>2. batch[1].kind = "instructor"
      BY <1>5, <1>6, <3>1 DEF Kinds
    <3> QED
      BY <1>7, <2>2, <3>2
  <2>3. CASE i \in (n + 1)..(n + m)
    <3>1. batch[1].kind = "limit"
      BY <1>7, <1>9, <2>3
    <3>2. m = 1
      BY <1>5, <3>1 DEF BatchWidth
    <3> QED
      BY <1>1, <1>2, <1>9, <2>3, <3>2
  <2> QED
    BY <1>1, <1>2, <1>4, <1>9, <2>1, <2>2, <2>3
<1> QED
  BY <1>8, <1>9 DEF LimitIsLast, TimeLimitClosesTheRun

(* A batch that goes in keeps every attempt as the invariant describes it; the  *)
(* inserting one leaves its stage, with the answer or without.               *)
LEMMA StoreTruthful ==
  ASSUME AnswerInvariant, StreamInvariant', UNCHANGED expired,
         NEW a \in Attempts, attempts[a].stage = "insert", ~Conflicts(a), Store(a),
         NEW x, attempts' = [attempts EXCEPT ![a] = x],
         x.batch = attempts[a].batch, x.next = attempts[a].next,
         x.request = attempts[a].request,
         \/ x.stage = "done" /\ x.answer \in Accepted
         \/ x.stage = "reread" /\ x.read = {} /\ x.found = {}
  PROVE  AnswerInvariant'
<1> DEFINE batch == attempts[a].batch
<1>1. /\ \A e \in Stored : e \in Stored'
      /\ \A i \in DOMAIN batch : batch[i] \in Stored'
      /\ \A e \in Stored' : e \in Stored \/ \E i \in DOMAIN batch : e = batch[i]
  BY StoredGrows DEF AnswerInvariant
<1>2. /\ 1 \in DOMAIN batch
      /\ \A i \in DOMAIN batch :
           /\ batch[i].attempt = a /\ batch[i].index = i
           /\ batch[i].command = attempts[a].request.command
           /\ batch[i].body = attempts[a].request.body
  BY BatchOfRequest DEF IsRunning
<1>3. attempts'[a] = x /\ \A b \in Attempts : b # a => attempts'[b] = attempts[b]
  BY DEF AnswerInvariant, StreamInvariant, TypeOK
<1>4. \A e \in Stored : e.attempt # a
  BY DEF AnswerInvariant, Traces
<1>5. \A e \in Stored' : e.attempt # a => e \in Stored
  BY <1>1, <1>2
<1>6. WholeBatches' /\ LimitIsLast'
  BY StoreKeepsWholeBatches, StoreKeepsLimitLast
<1> HIDE DEF batch
<1>7. ASSUME NEW b \in Attempts PROVE Carries(b)'
  <2>1. /\ attempts'[b].batch = attempts[b].batch /\ attempts'[b].next = attempts[b].next
        /\ attempts'[b].request = attempts[b].request
        /\ attempts'[b].stage = "idle" <=> attempts[b].stage = "idle"
        /\ IsRunning(b)' => IsRunning(b)
    BY <1>3 DEF IsRunning
  <2>2. ASSUME IsRunning(b), NEW j \in DOMAIN table', j < attempts[b].next
        PROVE  j \in DOMAIN table /\ table'[j] = table[j]
    <3>1. PICK n \in Nat : DOMAIN table = 1..n
      BY DEF AnswerInvariant, StreamInvariant, Dense
    <3>2. /\ DOMAIN table' = 1..(n + Len(batch))
          /\ \A i \in 1..n : table'[i] = table[i]
      BY <3>1, StoreAppends DEF AnswerInvariant, batch
    <3>3. /\ attempts[b].next \in Nat /\ attempts[b].next # 0
          /\ attempts[b].next # 1 => attempts[b].next - 1 \in 1..n
      BY <2>2, <3>1, AttemptIsRecord DEF AnswerInvariant, StreamInvariant, Chained, IsRunning, Attempt
    <3>4. Len(batch) \in Nat
      BY AttemptIsRecord DEF AnswerInvariant, StreamInvariant, Attempt, batch
    <3>5. j \in 1..n
      BY <2>2, <3>1, <3>2, <3>3, <3>4
    <3> QED
      BY <3>1, <3>2, <3>5
  <2> QED
    BY <2>1, <2>2 DEF AnswerInvariant, Carries, IsRunning, BatchWidth
<1>8. ASSUME NEW b \in Attempts PROVE Traces(b)'
  <2> SUFFICES ASSUME NEW e \in Stored', e.attempt = b
               PROVE  /\ attempts'[b].stage \in {"reread", "done"}
                      /\ e.command = attempts'[b].request.command
                      /\ e.body = attempts'[b].request.body
    BY DEF Traces
  <2>1. CASE b = a
    BY <1>1, <1>2, <1>3, <1>4, <2>1
  <2>2. CASE b # a
    BY <1>3, <1>5, <2>2 DEF AnswerInvariant, Traces
  <2> QED
    BY <2>1, <2>2
<1>9. ASSUME NEW b \in Attempts PROVE Finds(b)'
  <2>1. CASE b = a
    <3>1. \A i \in DOMAIN batch : \E e \in Stored' : e.attempt = a /\ e.index = i
      BY <1>1, <1>2
    <3> QED
      BY <1>3, <2>1, <3>1 DEF Finds, batch
  <2>2. CASE b # a
    <3>1. attempts'[b] = attempts[b] /\ Finds(b)
      BY <1>3, <2>2 DEF AnswerInvariant
    <3>2. \A e \in Stored' : e.attempt = b => e \in Stored
      BY <1>5, <2>2
    <3> QED
      BY <1>1, <3>1, <3>2 DEF Finds, KeyOf
  <2> QED
    BY <2>1, <2>2
<1>10. ASSUME NEW b \in Attempts PROVE Answered(b)'
  <2>1. CASE b = a
    <3>1. HasBody(attempts[a].request.command, attempts[a].request.body)'
      BY <1>1, <1>2, <1>3 DEF HasBody
    <3> QED
      BY <1>3, <2>1, <3>1 DEF Answered, HasBody
  <2>2. CASE b # a
    <3>1. attempts'[b] = attempts[b] /\ Answered(b)
      BY <1>3, <2>2 DEF AnswerInvariant
    <3>2. \A e \in Stored' : e.attempt = b => e \in Stored
      BY <1>5, <2>2
    <3> QED
      BY <1>1, <3>1, <3>2 DEF Answered, HasBody
  <2> QED
    BY <2>1, <2>2
<1> QED
  BY <1>6, <1>7, <1>8, <1>9, <1>10 DEF AnswerInvariant

LEMMA InsertTruthful ==
  ASSUME AnswerInvariant, StreamInvariant', NEW a \in Attempts, Insert(a)
  PROVE  AnswerInvariant'
<1> DEFINE x == [attempts[a] EXCEPT !.stage = "done", !.answer = "committed"]
<1>1. attempts[a] \in Attempt /\ attempts' = [attempts EXCEPT ![a] = x]
  BY AttemptIsRecord DEF Insert, Answer, AnswerInvariant, StreamInvariant, TypeOK
<1>2. /\ x.batch = attempts[a].batch /\ x.next = attempts[a].next
      /\ x.request = attempts[a].request /\ x.stage = "done" /\ x.answer \in Accepted
  BY <1>1 DEF Attempt, Accepted
<1> QED
  BY <1>1, <1>2, StoreTruthful DEF Insert

LEMMA RereadStarts ==
  ASSUME AnswerInvariant, NEW a \in Attempts, NEW thrown \in BOOLEAN, GoReread(a, thrown)
  PROVE  \E x : /\ attempts' = [attempts EXCEPT ![a] = x]
                /\ x.batch = attempts[a].batch /\ x.next = attempts[a].next
                /\ x.request = attempts[a].request
                /\ x.stage = "reread" /\ x.read = {} /\ x.found = {}
<1> DEFINE x == [attempts[a] EXCEPT !.stage = "reread", !.read = {},
                                    !.found = {}, !.thrown = thrown]
<1>1. attempts[a] \in Attempt /\ attempts' = [attempts EXCEPT ![a] = x]
  BY AttemptIsRecord DEF GoReread, AnswerInvariant, StreamInvariant, TypeOK
<1>2. /\ x.batch = attempts[a].batch /\ x.next = attempts[a].next
      /\ x.request = attempts[a].request
      /\ x.stage = "reread" /\ x.read = {} /\ x.found = {}
  BY <1>1 DEF Attempt
<1> QED
  BY <1>1, <1>2

LEMMA InsertReplyLostTruthful ==
  ASSUME AnswerInvariant, StreamInvariant', NEW a \in Attempts, InsertReplyLost(a)
  PROVE  AnswerInvariant'
<1>1. PICK x : /\ attempts' = [attempts EXCEPT ![a] = x]
               /\ x.batch = attempts[a].batch /\ x.next = attempts[a].next
               /\ x.request = attempts[a].request
               /\ x.stage = "reread" /\ x.read = {} /\ x.found = {}
  BY RereadStarts DEF InsertReplyLost
<1> QED
  BY <1>1, StoreTruthful DEF InsertReplyLost

LEMMA InsertFailsTruthful ==
  ASSUME AnswerInvariant, StreamInvariant', NEW a \in Attempts, NEW thrown \in BOOLEAN,
         InsertFails(a, thrown)
  PROVE  AnswerInvariant'
<1>1. attempts[a].stage = "insert" /\ UNCHANGED <<table, expired>>
  BY DEF InsertFails
<1>2. PICK x : /\ attempts' = [attempts EXCEPT ![a] = x]
               /\ x.batch = attempts[a].batch /\ x.next = attempts[a].next
               /\ x.request = attempts[a].request
               /\ x.stage = "reread" /\ x.read = {} /\ x.found = {}
  BY RereadStarts DEF InsertFails
<1>3. attempts'[a] = x /\ Stored' = Stored
  BY <1>1, <1>2 DEF AnswerInvariant, StreamInvariant, TypeOK, Stored
<1>4. \A e \in Stored : e.attempt # a
  BY <1>1 DEF AnswerInvariant, Traces
<1>5. Carries(a)'
  BY <1>1, <1>2, <1>3 DEF AnswerInvariant, Carries, IsRunning, BatchWidth
<1>6. Traces(a)' /\ Finds(a)' /\ Answered(a)'
  BY <1>2, <1>3, <1>4 DEF Traces, Finds, Answered
<1> QED
  BY <1>1, <1>2, <1>5, <1>6, TableKeptAnswers

-----------------------------------------------------------------------------
LEMMA AnswerInit == Init => AnswerInvariant
<1> SUFFICES ASSUME Init PROVE AnswerInvariant
  OBVIOUS
<1>1. Stored = {} /\ DOMAIN table = {}
  BY DEF Init, Stored
<1>2. WholeBatches /\ LimitIsLast
  BY <1>1 DEF WholeBatches, LimitIsLast, LimitRecorded, TimeLimitClosesTheRun
<1>3. ASSUME NEW a \in Attempts PROVE Carries(a) /\ Traces(a) /\ Finds(a) /\ Answered(a)
  BY <1>1 DEF Init, Carries, IsRunning, Traces, Finds, Answered
<1> QED
  BY <1>2, <1>3, StreamInit DEF AnswerInvariant

LEMMA AnswerStep == AnswerInvariant /\ [Next]_vars => AnswerInvariant'
<1> SUFFICES ASSUME AnswerInvariant, [Next]_vars PROVE AnswerInvariant'
  OBVIOUS
<1>0. StreamInvariant'
  BY StreamStep DEF AnswerInvariant
<1>1. CASE UNCHANGED <<table, attempts>> /\ (expired => expired')
  <2>1. Stored' = Stored
    BY <1>1 DEF Stored
  <2>2. WholeBatches' /\ LimitIsLast'
    BY <1>1, <2>1 DEF AnswerInvariant, WholeBatches, BatchWidth, LimitIsLast,
                      LimitRecorded, TimeLimitClosesTheRun
  <2>3. ASSUME NEW a \in Attempts PROVE Carries(a)'
    BY <1>1 DEF AnswerInvariant, Carries, IsRunning, BatchWidth
  <2>4. ASSUME NEW a \in Attempts PROVE Traces(a)' /\ Finds(a)' /\ Answered(a)'
    BY <1>1, <2>1 DEF AnswerInvariant, Traces, Finds, Answered, HasBody, KeyOf
  <2> QED
    BY <1>0, <2>2, <2>3, <2>4 DEF AnswerInvariant
<1>2. CASE UNCHANGED vars
  BY <1>1, <1>2 DEF vars
<1>3. CASE Expire
  BY <1>1, <1>3 DEF Expire
<1>4. ASSUME NEW a \in Attempts, NEW r \in Requests, Submit(a, r)
      PROVE  AnswerInvariant'
  BY <1>0, <1>4, SubmitTruthful
<1>5. ASSUME NEW a \in Attempts, NEW permitted \in BOOLEAN, Load(a, permitted)
      PROVE  AnswerInvariant'
  BY <1>0, <1>5, LoadTruthful
<1>6. ASSUME NEW a \in Attempts, NEW i \in DOMAIN attempts[a].batch, ReadKey(a, i)
      PROVE  AnswerInvariant'
  BY <1>0, <1>6, ReadKeyTruthful
<1>7. ASSUME NEW a \in Attempts, ResolveExisting(a) PROVE AnswerInvariant'
  BY <1>0, <1>7, ResolveExistingTruthful
<1>8. ASSUME NEW a \in Attempts, ReadMaximum(a) PROVE AnswerInvariant'
  BY <1>0, <1>8, ReadMaximumTruthful
<1>9. ASSUME NEW a \in Attempts, Insert(a) PROVE AnswerInvariant'
  BY <1>0, <1>9, InsertTruthful
<1>10. ASSUME NEW a \in Attempts, NEW thrown \in BOOLEAN, InsertFails(a, thrown)
       PROVE  AnswerInvariant'
  BY <1>0, <1>10, InsertFailsTruthful
<1>11. ASSUME NEW a \in Attempts, InsertReplyLost(a) PROVE AnswerInvariant'
  BY <1>0, <1>11, InsertReplyLostTruthful
<1>12. ASSUME NEW a \in Attempts, SettleFailure(a) PROVE AnswerInvariant'
  BY <1>0, <1>12, SettleFailureTruthful
<1>13. ASSUME NEW a \in Attempts, LookupFails(a) PROVE AnswerInvariant'
  <2>1. /\ attempts[a].stage # "idle" /\ Answer(a, "LOOKUP_ERROR")
        /\ UNCHANGED <<table, expired>> /\ "LOOKUP_ERROR" \notin Accepted
    BY <1>13 DEF LookupFails, Accepted
  <2> QED
    BY <1>0, <2>1, AnswerIsTruthful
<1> QED
  BY <1>2, <1>3, <1>4, <1>5, <1>6, <1>7, <1>8, <1>9, <1>10, <1>11, <1>12, <1>13 DEF Next

THEOREM AnswerInvariantHolds == Spec => []AnswerInvariant
BY AnswerInit, AnswerStep, PTL DEF Spec

(* An answer the service gives stays true of the table: after a success the     *)
(* whole batch of the command is stored, once and with the content asked, and *)
(* after a refusal nothing of the attempt is.                                *)
THEOREM AnswersStayTrue == Spec => []AnswersAreTruthful
BY AnswerInvariantHolds, InvariantIsTruthful, PTL

(* Nothing a learner sends is stored behind the record of the time limit, and  *)
(* the limit is recorded once, however attempts overlap the deadline.        *)
THEOREM LimitClosesTheRun == Spec => []TimeLimitClosesTheRun
<1>1. AnswerInvariant => TimeLimitClosesTheRun
  BY DEF AnswerInvariant, LimitIsLast
<1> QED
  BY <1>1, AnswerInvariantHolds, PTL

-----------------------------------------------------------------------------
(* The refinement: the stored stream, the requests and the answers are a run of *)
(* RunLog.  What a step of the log asks for is what the invariant says.      *)

Entry(e) == [attempt |-> e.attempt, command |-> e.command, body |-> e.body]

LEMMA LastOf ==
  ASSUME NEW n \in Nat
  PROVE  (IF 1..n = {} THEN 0 ELSE CHOOSE i \in 1..n : \A j \in 1..n : j <= i) = n
<1>1. CASE n = 0
  BY <1>1
<1>2. CASE n # 0
  <2>1. n \in 1..n /\ \A j \in 1..n : j <= n
    BY <1>2
  <2>2. \A k \in 1..n : (\A j \in 1..n : j <= k) => k = n
    BY <2>1
  <2> QED
    BY <2>1, <2>2
<1> QED
  BY <1>1, <1>2

LEMMA StoredLogIsTable ==
  ASSUME StreamInvariant, NEW n \in Nat, DOMAIN table = 1..n
  PROVE  /\ StoredLog = [i \in 1..n |-> Entry(table[i])]
         /\ StoredLog \in Seq({Entry(e) : e \in Stored}) /\ Len(StoredLog) = n
<1>1. Maximum = n
  BY DenseMaximum DEF StreamInvariant
<1>2. StoredLog = [i \in 1..n |-> Entry(table[i])]
  BY <1>1 DEF StoredLog, Entry
<1>3. \A i \in 1..n : Entry(table[i]) \in {Entry(e) : e \in Stored}
  BY DEF Stored
<1> QED
  BY <1>2, <1>3

(* A step that the log does not see. *)
LEMMA StutterRefines ==
  ASSUME UNCHANGED table,
         \A b \in Attempts : /\ attempts'[b].request = attempts[b].request
                             /\ attempts'[b].stage = "done" <=> attempts[b].stage = "done"
                             /\ attempts'[b].answer = attempts[b].answer
  PROVE  UNCHANGED Log!vars
<1>1. StoredLog' = StoredLog
  BY DEF StoredLog, Maximum
<1>2. [b \in Attempts |-> attempts[b].request]' = [b \in Attempts |-> attempts[b].request]
  OBVIOUS
<1>3. \A b \in Attempts : Outcome(b)' = Outcome(b)
  BY DEF Outcome, IsOpen
<1> QED
  BY <1>1, <1>2, <1>3 DEF Log!vars

LEMMA MoveRefines ==
  ASSUME attempts \in [Attempts -> Attempt], UNCHANGED table,
         NEW a \in Attempts, NEW x, attempts' = [attempts EXCEPT ![a] = x],
         x.request = attempts[a].request, x.answer = attempts[a].answer,
         x.stage # "done", attempts[a].stage # "done"
  PROVE  UNCHANGED Log!vars
<1>1. attempts'[a] = x /\ \A b \in Attempts : b # a => attempts'[b] = attempts[b]
  OBVIOUS
<1> QED
  BY <1>1, StutterRefines

LEMMA SubmitRefines ==
  ASSUME AnswerInvariant, NEW a \in Attempts, NEW r \in Requests, Submit(a, r)
  PROVE  Log!Ask(a, r)
<1>1. /\ StoredLog' = StoredLog
      /\ attempts' = [attempts EXCEPT ![a].stage = "load", ![a].request = r]
  BY DEF Submit, StoredLog, Maximum
<1>2. attempts \in [Attempts -> Attempt]
  BY DEF AnswerInvariant, StreamInvariant, TypeOK
<1>3. attempts[a].request = NoRequest /\ attempts[a].stage = "idle"
  BY DEF Submit, AnswerInvariant, Carries
<1>4. \A b \in Attempts : attempts'[b].request = IF b = a THEN r ELSE attempts[b].request
  BY <1>1, <1>2 DEF Attempt
<1>5. \A b \in Attempts : Outcome(b)' = Outcome(b)
  BY <1>1, <1>2, <1>3 DEF Outcome, IsOpen, Attempt
<1> QED
  BY <1>1, <1>3, <1>4, <1>5 DEF Log!Ask

(* An error of a lookup leaves the attempt open, as far as the log goes. *)
LEMMA LookupFailsRefines ==
  ASSUME AnswerInvariant, NEW a \in Attempts, LookupFails(a)
  PROVE  UNCHANGED Log!vars
<1>1. attempts \in [Attempts -> Attempt]
  BY DEF AnswerInvariant, StreamInvariant, TypeOK
<1>2. /\ attempts'[a].answer = "LOOKUP_ERROR" /\ attempts[a].stage # "done"
      /\ \A b \in Attempts : attempts'[b].request = attempts[b].request
      /\ \A b \in Attempts : b # a => attempts'[b] = attempts[b]
  BY <1>1 DEF LookupFails, Answer, Attempt
<1>3. StoredLog' = StoredLog
  BY DEF LookupFails, StoredLog, Maximum
<1>4. \A b \in Attempts : Outcome(b)' = Outcome(b)
  BY <1>2 DEF Outcome, IsOpen
<1> QED
  BY <1>2, <1>3, <1>4 DEF Log!vars

(* Any other answer, whatever it rests on, is one the log could give. *)
LEMMA AnswerRefines ==
  ASSUME AnswerInvariant, AnswerInvariant', NEW a \in Attempts, NEW answer,
         answer # "LOOKUP_ERROR",
         attempts[a].stage \notin {"idle", "done"},
         Answer(a, answer), UNCHANGED table
  PROVE  Log!Accept(a) \/ Log!Refuse(a)
<1>1. attempts \in [Attempts -> Attempt]
  BY DEF AnswerInvariant, StreamInvariant, TypeOK
<1>2. /\ attempts'[a].stage = "done" /\ attempts'[a].answer = answer
      /\ \A b \in Attempts : attempts'[b].request = attempts[b].request
      /\ \A b \in Attempts : b # a => attempts'[b] = attempts[b]
  BY <1>1 DEF Answer, Attempt
<1>3. Stored' = Stored /\ StoredLog' = StoredLog
  BY DEF Stored, StoredLog, Maximum
<1>4. attempts[a].request # NoRequest /\ Outcome(a) = "open"
  BY DEF AnswerInvariant, Carries, Outcome, IsOpen
<1>5. \A b \in Attempts : b # a => Outcome(b)' = Outcome(b)
  BY <1>2 DEF Outcome, IsOpen
<1>6. PICK n \in Nat : DOMAIN table = 1..n
  BY DEF AnswerInvariant, StreamInvariant, Dense
<1>7. StoredLog = [i \in 1..n |-> Entry(table[i])]
  BY <1>6, StoredLogIsTable DEF AnswerInvariant
<1>8. CASE answer \in Accepted
  <2>1. HasBody(attempts[a].request.command, attempts[a].request.body)
    <3>1. Answered(a)'
      BY DEF AnswerInvariant
    <3> QED
      BY <1>2, <1>3, <1>8, <3>1 DEF Answered, HasBody
  <2>2. PICK i \in 1..n : table[i].command = attempts[a].request.command
                          /\ table[i].body = attempts[a].request.body
    BY <1>6, <2>1 DEF HasBody, Stored
  <2>3. /\ StoredLog[i].command = attempts[a].request.command
        /\ StoredLog[i].body = attempts[a].request.body /\ i \in DOMAIN StoredLog
    BY <1>7, <2>2 DEF Entry
  <2>4. Outcome(a)' = "accepted"
    BY <1>2, <1>8 DEF Outcome, IsOpen
  <2>5. Log!Accept(a)
    BY <1>2, <1>3, <1>4, <1>5, <2>3, <2>4 DEF Log!Accept, Log!EventsFor
  <2> QED
    BY <2>5
<1>9. CASE answer \notin Accepted
  <2>1. \A e \in Stored : e.attempt # a
    <3>1. Answered(a)'
      BY DEF AnswerInvariant
    <3> QED
      BY <1>2, <1>3, <1>9, <3>1 DEF Answered
  <2>2. \A i \in DOMAIN StoredLog : StoredLog[i].attempt # a
    BY <1>6, <1>7, <2>1 DEF Entry, Stored
  <2>3. Outcome(a)' = "refused"
    BY <1>2, <1>9 DEF Outcome, IsOpen
  <2>4. Log!Refuse(a)
    BY <1>2, <1>3, <1>4, <1>5, <2>2, <2>3 DEF Log!Refuse, Log!EventsOf
  <2> QED
    BY <2>4
<1> QED
  BY <1>8, <1>9

(* The batch as the log sees it goes in behind the version of its request. *)
LEMMA StoreRefines ==
  ASSUME AnswerInvariant, StreamInvariant',
         NEW a \in Attempts, attempts[a].stage = "insert", ~Conflicts(a), Store(a),
         \A b \in Attempts : attempts'[b].request = attempts[b].request,
         \A b \in Attempts : b # a => attempts'[b] = attempts[b],
         Outcome(a)' \in {"open", "accepted"}
  PROVE  \E width \in 1..MaxWidth : Log!Apply(a, width)
<1> DEFINE batch == attempts[a].batch
           r == attempts[a].request
           width == Len(batch)
           asked == [attempt |-> a, command |-> r.command, body |-> r.body]
<1>1. PICK n \in Nat : DOMAIN table = 1..n
  BY DEF AnswerInvariant, StreamInvariant, Dense
<1>2. /\ attempts[a].next = n + 1
      /\ DOMAIN table' = 1..(n + width)
      /\ \A i \in 1..n : table'[i] = table[i]
      /\ \A i \in (n + 1)..(n + width) : table'[i] = batch[i - n]
  BY <1>1, StoreAppends DEF AnswerInvariant
<1>3. /\ batch \in Seq(Event) /\ 1 \in DOMAIN batch
      /\ \A i \in DOMAIN batch :
           batch[i].attempt = a /\ batch[i].command = r.command /\ batch[i].body = r.body
  BY BatchOfRequest DEF IsRunning
<1>4. width \in 1..MaxWidth /\ DOMAIN batch = 1..width
  <2>1. width = BatchWidth(batch[1])
    BY DEF AnswerInvariant, Carries, IsRunning
  <2> HIDE DEF batch
  <2>2. width \in Nat \ {0} /\ DOMAIN batch = 1..width /\ batch[1] \in Event
    BY <1>3
  <2>3. BatchWidth(batch[1]) \in 1..MaxWidth
    BY <2>2, RequestAssumption DEF BatchWidth, Event
  <2> QED
    BY <2>1, <2>2, <2>3
<1>5. r.version = n /\ r # NoRequest
  BY <1>1, <1>2 DEF AnswerInvariant, Carries, IsRunning
<1>6. StoredLog = [i \in 1..n |-> Entry(table[i])] /\ Len(StoredLog) = n
  BY <1>1, StoredLogIsTable DEF AnswerInvariant
<1> HIDE DEF batch, width
<1>7. StoredLog' = StoredLog \o [i \in 1..width |-> asked]
  <2>0. n + width \in Nat
    BY <1>1, <1>4, RequestAssumption
  <2>1. StoredLog' = [i \in 1..(n + width) |-> Entry(table'[i])]
    <3>1. Maximum' = n + width
      BY <1>2, <2>0, LastOf DEF Maximum
    <3> QED
      BY <1>2, <2>0, <3>1 DEF StoredLog, Entry
  <2>2. \A i \in (n + 1)..(n + width) : Entry(table'[i]) = asked
    <3> TAKE i \in (n + 1)..(n + width)
    <3>1. i - n \in DOMAIN batch
      BY <1>1, <1>4, RequestAssumption
    <3> QED
      BY <1>2, <1>3, <3>1 DEF Entry
  <2>3. \A i \in 1..n : Entry(table'[i]) = StoredLog[i]
    BY <1>2, <1>6
  <2> DEFINE after == [i \in 1..(n + width) |-> Entry(table'[i])]
             added == [i \in 1..width |-> asked]
             before == StoredLog
  <2>4. /\ before \in Seq({Entry(e) : e \in Stored}) /\ Len(before) = n
        /\ DOMAIN before = 1..n
    BY <1>1, <1>6, StoredLogIsTable DEF AnswerInvariant
  <2>5. added \in Seq({asked}) /\ Len(added) = width /\ width \in Nat
    BY <1>4, RequestAssumption
  <2>6. \A i \in 1..n : after[i] = before[i]
    BY <2>0, <2>3, <2>5
  <2>7. \A i \in (n + 1)..(n + width) : after[i] = asked
    BY <2>0, <2>2, <2>5
  <2>8. before \o added = [i \in 1..(n + width) |-> IF i <= n THEN before[i] ELSE asked]
    <3> HIDE DEF before, asked
    <3> QED
      BY <2>4, <2>5
  <2>9. after = [i \in 1..(n + width) |-> IF i <= n THEN before[i] ELSE asked]
    <3>1. \A i \in 1..(n + width) : i \in 1..n \/ (~(i <= n) /\ i \in (n + 1)..(n + width))
      BY <1>1, <2>0, <2>5
    <3> HIDE DEF before, asked
    <3>2. \A i \in 1..(n + width) : Entry(table'[i]) = IF i <= n THEN before[i] ELSE asked
      BY <2>2, <2>3, <3>1 DEF before
    <3> QED
      BY <3>2
  <2> QED
    BY <2>1, <2>8, <2>9
<1>8. \A i \in DOMAIN StoredLog : StoredLog[i].command # r.command
  <2>1. \A e \in Stored : e.command # r.command
    BY CommandIsNew
  <2> QED
    BY <1>1, <1>6, <2>1 DEF Stored, Entry
<1>9. Outcome(a) = "open" /\ \A b \in Attempts : b # a => Outcome(b)' = Outcome(b)
  BY DEF Outcome, IsOpen
<1>10. Log!Apply(a, width)
  <2> DEFINE now == [b \in Attempts |-> Outcome(b)]
             then == [b \in Attempts |-> Outcome(b)']
  <2>1. then \in {now, [now EXCEPT ![a] = "accepted"]}
    BY <1>9
  <2>2. [b \in Attempts |-> attempts[b].request]' = [b \in Attempts |-> attempts[b].request]
    OBVIOUS
  <2>3. Log!EventsFor(r.command) = {}
    BY <1>8 DEF Log!EventsFor
  <2> QED
    BY <1>5, <1>6, <1>7, <1>9, <2>1, <2>2, <2>3 DEF Log!Apply
<1> QED
  BY <1>4, <1>10

LEMMA LogInit == Init => Log!Init
<1> SUFFICES ASSUME Init PROVE Log!Init
  OBVIOUS
<1>1. DOMAIN table = {}
  BY DEF Init
<1>2. StoredLog = << >>
  BY <1>1 DEF StoredLog, Maximum
<1>3. \A a \in Attempts : attempts[a].request = NoRequest /\ Outcome(a) = "open"
  BY DEF Init, Outcome, IsOpen
<1> QED
  BY <1>2, <1>3 DEF Log!Init

LEMMA LogStep ==
  AnswerInvariant /\ AnswerInvariant' /\ [Next]_vars => [Log!Next]_(Log!vars)
<1> SUFFICES ASSUME AnswerInvariant, AnswerInvariant', [Next]_vars
             PROVE  Log!Next \/ UNCHANGED Log!vars
  OBVIOUS
<1>0. attempts \in [Attempts -> Attempt]
  BY DEF AnswerInvariant, StreamInvariant, TypeOK
<1>1. CASE UNCHANGED vars \/ Expire
  BY <1>1, StutterRefines DEF vars, Expire
<1>2. ASSUME NEW a \in Attempts, NEW r \in Requests, Submit(a, r) PROVE Log!Next
  <2>1. Log!Ask(a, r)
    BY <1>2, SubmitRefines
  <2> QED
    BY <2>1 DEF Log!Next
<1>3. ASSUME NEW a \in Attempts, NEW answer, answer # "LOOKUP_ERROR",
             attempts[a].stage \notin {"idle", "done"}, Answer(a, answer), UNCHANGED table
      PROVE  Log!Next
  <2>1. Log!Accept(a) \/ Log!Refuse(a)
    BY <1>3, AnswerRefines
  <2> QED
    BY <2>1 DEF Log!Next
<1>4. ASSUME NEW a \in Attempts, NEW permitted \in BOOLEAN, Load(a, permitted)
      PROVE  Log!Next \/ UNCHANGED Log!vars
  <2> DEFINE refusal == Refusal(attempts[a].request, permitted)
  <2>1. CASE refusal # "none"
    <3>1. refusal # "LOOKUP_ERROR"
      BY DEF Refusal
    <3> QED
      BY <1>3, <1>4, <2>1, <3>1 DEF Load
  <2>2. CASE refusal = "none"
    <3> DEFINE x == [attempts[a] EXCEPT !.stage = "keys",
                       !.batch = Build(a, attempts[a].request),
                       !.next = ExpectedNext(attempts[a].request)]
    <3>1. attempts' = [attempts EXCEPT ![a] = x]
      BY <1>0, <1>4, <2>2 DEF Load
    <3>2. x.request = attempts[a].request /\ x.answer = attempts[a].answer /\ x.stage = "keys"
      BY <1>0 DEF Attempt
    <3>3. attempts[a].stage # "done" /\ UNCHANGED table
      BY <1>4 DEF Load
    <3> HIDE DEF x
    <3> QED
      BY <1>0, <3>1, <3>2, <3>3, MoveRefines
  <2> QED
    BY <2>1, <2>2
<1>5. ASSUME NEW a \in Attempts, NEW i \in DOMAIN attempts[a].batch, ReadKey(a, i)
      PROVE  UNCHANGED Log!vars
  <2>1. \A b \in Attempts : /\ attempts'[b].request = attempts[b].request
                            /\ attempts'[b].stage = "done" <=> attempts[b].stage = "done"
                            /\ attempts'[b].answer = attempts[b].answer
    BY <1>0, <1>5 DEF ReadKey, Attempt
  <2> QED
    BY <1>5, <2>1, StutterRefines DEF ReadKey
<1>6. ASSUME NEW a \in Attempts, ResolveExisting(a) PROVE Log!Next
  BY <1>3, <1>6 DEF ResolveExisting
<1>7. ASSUME NEW a \in Attempts, ReadMaximum(a) PROVE Log!Next \/ UNCHANGED Log!vars
  <2>1. CASE attempts[a].next # Maximum + 1
    BY <1>3, <1>7, <2>1 DEF ReadMaximum
  <2>2. CASE attempts[a].next = Maximum + 1
    <3> DEFINE x == [attempts[a] EXCEPT !.stage = "insert"]
    <3>1. attempts' = [attempts EXCEPT ![a] = x]
      BY <1>0, <1>7, <2>2 DEF ReadMaximum
    <3>2. x.request = attempts[a].request /\ x.answer = attempts[a].answer /\ x.stage = "insert"
      BY <1>0 DEF Attempt
    <3>3. attempts[a].stage # "done" /\ UNCHANGED table
      BY <1>7 DEF ReadMaximum
    <3> HIDE DEF x
    <3> QED
      BY <1>0, <3>1, <3>2, <3>3, MoveRefines
  <2> QED
    BY <2>1, <2>2
<1>8. ASSUME NEW a \in Attempts, Insert(a) PROVE Log!Next
  <2>1. /\ \A b \in Attempts : attempts'[b].request = attempts[b].request
        /\ \A b \in Attempts : b # a => attempts'[b] = attempts[b]
        /\ attempts'[a].stage = "done" /\ attempts'[a].answer = "committed"
    BY <1>0, <1>8 DEF Insert, Answer, Attempt
  <2>2. Outcome(a)' \in {"open", "accepted"}
    BY <2>1 DEF Outcome, IsOpen, Accepted
  <2>3. \E width \in 1..MaxWidth : Log!Apply(a, width)
    BY <1>8, <2>1, <2>2, StoreRefines DEF Insert, AnswerInvariant
  <2> QED
    BY <2>3 DEF Log!Next
<1>9. ASSUME NEW a \in Attempts, NEW thrown \in BOOLEAN, InsertFails(a, thrown)
      PROVE  UNCHANGED Log!vars
  <2>1. \A b \in Attempts : /\ attempts'[b].request = attempts[b].request
                            /\ attempts'[b].stage = "done" <=> attempts[b].stage = "done"
                            /\ attempts'[b].answer = attempts[b].answer
    BY <1>0, <1>9 DEF InsertFails, GoReread, Attempt
  <2> QED
    BY <1>9, <2>1, StutterRefines DEF InsertFails
<1>10. ASSUME NEW a \in Attempts, InsertReplyLost(a) PROVE Log!Next
  <2>1. /\ \A b \in Attempts : attempts'[b].request = attempts[b].request
        /\ \A b \in Attempts : b # a => attempts'[b] = attempts[b]
        /\ attempts'[a].stage = "reread"
    BY <1>0, <1>10 DEF InsertReplyLost, GoReread, Attempt
  <2>2. Outcome(a)' \in {"open", "accepted"}
    BY <2>1 DEF Outcome, IsOpen
  <2>3. \E width \in 1..MaxWidth : Log!Apply(a, width)
    BY <1>10, <2>1, <2>2, StoreRefines DEF InsertReplyLost, AnswerInvariant
  <2> QED
    BY <2>3 DEF Log!Next
<1>11. ASSUME NEW a \in Attempts, SettleFailure(a) PROVE Log!Next
  BY <1>3, <1>11 DEF SettleFailure, Failure
<1>12. ASSUME NEW a \in Attempts, LookupFails(a) PROVE UNCHANGED Log!vars
  BY <1>12, LookupFailsRefines
<1> QED
  BY <1>1, <1>2, <1>4, <1>5, <1>6, <1>7, <1>8, <1>9, <1>10, <1>11, <1>12 DEF Next

(* Seen from above there is only a log, to which the whole batch of a request    *)
(* is appended in one step at the version the request was made at: the append *)
(* implements it with all its queries, failures and lost answers.            *)
THEOREM AppendImplementsLog == Spec => ImplementsRunLog
BY AnswerInvariantHolds, LogInit, LogStep, PTL DEF Spec, ImplementsRunLog, Log!Spec
=============================================================================
