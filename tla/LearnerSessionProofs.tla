------------------------ MODULE LearnerSessionProofs ------------------------
(***************************************************************************)
(* Theorems about the session of a learner, for every set of commands and  *)
(* answers, every queue length and any number of launches.                 *)
(***************************************************************************)
EXTENDS LearnerSession, SequenceTheorems, TLAPS

\* What the mutation that signs carries.
SigningParts ==
    IsSigning => /\ signing.mutation \in Mutations
                 /\ signing.screen # "START"
                 /\ saveStatus # "SAVED"

\* Before the session begins nothing is shown and nothing was written; a resume
\* replays what is stored.
StartParts ==
    sessionPhase = "START" =>
        /\ saveStatus = "IDLE" /\ ~finishing /\ shownAttempt = Fresh /\ failed = {}
        /\ lms.suspendData = stored.suspendData
        /\ \A i \in DOMAIN resuming : resuming[i] \in {NoAttempt, stored.suspendData}

\* The mutation that signs adds to the commands that are shown.
BaseIsShown == IsSigning /\ ~overtaken => signing.base.journal = shownAttempt.journal

\* A command that is shown is in the platform's data model and is stored.
InRecord(r) == r.suspendData # NoAttempt /\ shownAttempt.journal \subseteq r.suspendData.journal
ShownIsStored ==
    api /\ ~overtaken /\ shownAttempt.journal # {} => InRecord(lms) /\ InRecord(stored)

\* Saved, and nothing at work: shown, set and stored are one attempt.
SavedIsAll ==
    api /\ ~overtaken /\ persistenceQueue = <<>> /\ ~IsSigning /\ saveStatus = "SAVED"
        => stored.suspendData = shownAttempt /\ lms.suspendData = shownAttempt

\* Score and suspend data are those of one attempt.
GradeParts ==
    /\ ~pressedOn => stored.score = stored.suspendData
    /\ api /\ saveStatus = "SAVED" => lms.score = lms.suspendData

\* A command waits at one place, and none that waits is shown or has failed; after
\* a failure the recovery screen stays.
IsFresh(m) == m \notin shownAttempt.journal \cup failed
IsMutation(i) == persistenceQueue[i].kind = "mutate"
QueueIsFresh ==
    \A i \in DOMAIN persistenceQueue : IsMutation(i) =>
        /\ IsFresh(persistenceQueue[i].mutation)
        /\ persistenceQueue[i].mutation # signing.mutation
QueueIsDistinct ==
    \A i, j \in DOMAIN persistenceQueue :
        IsMutation(i) /\ persistenceQueue[i] = persistenceQueue[j] => i = j
FailureParts ==
    /\ shownAttempt.journal \cap failed = {}
    /\ IsSigning => IsFresh(signing.mutation)
    /\ failed # {} => sessionPhase = "RECOVERY" /\ (IsSigning => signing.screen = "RECOVERY")
WaitingIsFresh == ~overtaken => FailureParts /\ QueueIsFresh /\ QueueIsDistinct

SessionInvariant ==
    /\ SessionTypeOK /\ SigningParts /\ StartParts /\ BaseIsShown
    /\ ShownIsStored /\ SavedIsAll /\ GradeParts /\ WaitingIsFresh

-----------------------------------------------------------------------------
(* The platform's answers *)

\* Whatever is refused, the records stay records, and only the attempt that is
\* written gets into them.
LEMMA WritesParts ==
    ASSUME SessionTypeOK
    PROVE  \A a \in SessionAttempt : \A w \in Writes(a) :
             /\ w.lms \in DataModel /\ w.stored \in DataModel
             /\ w.lms.suspendData \in {lms.suspendData, a}
             /\ w.stored.suspendData \in {stored.suspendData, a}
             /\ \/ w.stored = stored
                \/ w.stored.score = a /\ w.stored.suspendData = a
             /\ ~api => w.lms = lms /\ w.stored = stored
             /\ api /\ w.isDone => /\ w.lms.score = a /\ w.lms.suspendData = a
                                  /\ w.stored.suspendData = a
  <1> SUFFICES ASSUME NEW a \in SessionAttempt, NEW w \in Writes(a)
               PROVE  /\ w.lms \in DataModel /\ w.stored \in DataModel
                      /\ w.lms.suspendData \in {lms.suspendData, a}
                      /\ w.stored.suspendData \in {stored.suspendData, a}
                      /\ \/ w.stored = stored
                         \/ w.stored.score = a /\ w.stored.suspendData = a
                      /\ ~api => w.lms = lms /\ w.stored = stored
                      /\ api /\ w.isDone => /\ w.lms.score = a /\ w.lms.suspendData = a
                                           /\ w.stored.suspendData = a
    OBVIOUS
  <1>1. CASE ~api
    BY <1>1 DEF SessionTypeOK, Writes
  <1>2. CASE api
    <2> DEFINE scored == [lms EXCEPT !.score = a]
               full == [scored EXCEPT !.suspendData = a]
    <2>1. /\ scored \in DataModel /\ full \in DataModel
          /\ scored.suspendData = lms.suspendData
          /\ full.score = a /\ full.suspendData = a
      BY DEF SessionTypeOK, DataModel
    <2>2. \/ w.lms = full /\ w.stored = full
          \/ w.lms \in {lms, scored, full} /\ w.stored = stored /\ ~w.isDone
      BY <1>2 DEF Writes
    <2>3. lms \in DataModel /\ stored \in DataModel
      BY DEF SessionTypeOK
    <2>4. QED
      BY <1>2, <2>1, <2>2, <2>3
  <1>3. QED
    BY <1>1, <1>2

-----------------------------------------------------------------------------
(* Types *)

LEMMA OperationTypes ==
    /\ [kind |-> "save"] \in Operation /\ [kind |-> "finish"] \in Operation
    /\ \A m \in Mutations : [kind |-> "mutate", mutation |-> m] \in Operation
    /\ \A op \in Operation : op.kind = "mutate" => op.mutation \in Mutations
  BY DEF Operation

LEMMA FreshType == Fresh \in SessionAttempt
  BY DEF Fresh, SessionAttempt

LEMMA NotSigningType ==
    NotSigning \in [mutation : Mutations \cup {NoAttempt}, base : SessionAttempt, screen : Screen]
  BY FreshType DEF NotSigning, Screen

LEMMA ProspectiveType ==
    ASSUME SessionTypeOK, SigningParts, IsSigning
    PROVE  Prospective \in SessionAttempt
  BY DEF SessionTypeOK, SigningParts, Prospective, SessionAttempt

LEMMA EmptyTypes ==
    /\ <<>> \in Seq(Operation) /\ Len(<<>>) <= MaxQueue
    /\ <<>> \in Seq(SessionAttempt \cup {NoAttempt}) /\ Len(<<>>) <= MaxResumes
  <1>1. <<>> \in Seq(Operation) /\ <<>> \in Seq(SessionAttempt \cup {NoAttempt}) /\ Len(<<>>) = 0
    BY EmptySeq
  <1>2. QED
    BY <1>1, SessionAssumption

LEMMA InitTypes == SessionInit => SessionTypeOK /\ SigningParts
  <1> SUFFICES ASSUME SessionInit PROVE SessionTypeOK /\ SigningParts
    OBVIOUS
  <1>1. lms \in DataModel /\ stored \in DataModel
    BY DEF SessionInit, DataModel
  <1>2. launches \in 1..MaxLaunches
    BY SessionAssumption DEF SessionInit
  <1>3. QED
    BY <1>1, <1>2, EmptyTypes, FreshType, NotSigningType
       DEF SessionInit, SessionTypeOK, SigningParts, IsSigning, Screen

\* The queue takes an operation, or gives its first away.
LEMMA ScheduleTypes ==
    ASSUME SessionTypeOK, NEW op \in Operation, CanWait, Schedule(op)
    PROVE  persistenceQueue' \in Seq(Operation) /\ Len(persistenceQueue') <= MaxQueue
  BY SessionAssumption, AppendProperties DEF SessionTypeOK, CanWait, Schedule

LEMMA IsNextTypes ==
    ASSUME SessionTypeOK, NEW kinds, IsNext(kinds)
    PROVE  /\ Head(persistenceQueue) \in Operation
           /\ Tail(persistenceQueue) \in Seq(Operation)
           /\ Len(Tail(persistenceQueue)) <= MaxQueue
           /\ sessionPhase # "START" /\ ~IsSigning
  <1>1. persistenceQueue \in Seq(Operation) /\ persistenceQueue # <<>>
    BY DEF SessionTypeOK, IsNext
  <1>2. QED
    BY <1>1, HeadTailProperties, SessionAssumption DEF SessionTypeOK, IsNext

LEMMA ResumingTypes ==
    ASSUME SessionTypeOK, resuming # <<>>
    PROVE  /\ Head(resuming) \in SessionAttempt \cup {NoAttempt}
           /\ Tail(resuming) \in Seq(SessionAttempt \cup {NoAttempt})
           /\ Len(Tail(resuming)) <= MaxResumes
           /\ Head(resuming) = resuming[1] /\ 1 \in DOMAIN resuming
  BY HeadTailProperties, SessionAssumption DEF SessionTypeOK

LEMMA TypesStep ==
    SessionTypeOK /\ SigningParts /\ [SessionNext]_session => SessionTypeOK' /\ SigningParts'
  <1> SUFFICES ASSUME SessionTypeOK, SigningParts, [SessionNext]_session
               PROVE  SessionTypeOK' /\ SigningParts'
    OBVIOUS
  <1> USE DEF learner, underway, platform, history
  <1>1. CASE StartNew
    BY <1>1, FreshType DEF StartNew, NewAttempt, IsIdle, SessionTypeOK, SigningParts,
                           IsSigning, Screen
  <1>2. CASE Restart
    <2>1. persistenceQueue' \in Seq(Operation) /\ Len(persistenceQueue') <= MaxQueue
      BY <1>2, OperationTypes, ScheduleTypes DEF Restart
    <2>2. QED
      BY <1>2, <2>1, FreshType
         DEF Restart, NewAttempt, SessionTypeOK, SigningParts, IsSigning, Screen
  <1>3. CASE ResumeStored
    <2>1. PICK read \in SessionAttempt \cup {NoAttempt} :
            resuming' = Append(resuming, read) /\ Len(resuming) < MaxResumes
      BY <1>3 DEF ResumeStored, SessionTypeOK, DataModel
    <2>2. resuming' \in Seq(SessionAttempt \cup {NoAttempt}) /\ Len(resuming') <= MaxResumes
      BY <2>1, AppendProperties, SessionAssumption DEF SessionTypeOK
    <2>3. QED
      BY <1>3, <2>2 DEF ResumeStored, SessionTypeOK, SigningParts, IsSigning
  <1>4. CASE Resumed
    <2>1. shownAttempt' \in SessionAttempt /\ sessionPhase' = "RUNNING"
          /\ saveStatus' \in {saveStatus, "IDLE"} /\ hasSavedAttempt' \in BOOLEAN
      BY <1>4, ResumingTypes, FreshType DEF Resumed, NewAttempt, Restored, SessionTypeOK
    <2>2. resuming' \in Seq(SessionAttempt \cup {NoAttempt}) /\ Len(resuming') <= MaxResumes
      BY <1>4, ResumingTypes DEF Resumed
    <2>3. QED
      BY <1>4, <2>1, <2>2 DEF Resumed, SessionTypeOK, SigningParts, IsSigning, Screen
  <1>5. ASSUME NEW x \in Answers, AnswerCheck(x) PROVE SessionTypeOK' /\ SigningParts'
    <2>1. persistenceQueue' \in Seq(Operation) /\ Len(persistenceQueue') <= MaxQueue
      BY <1>5, OperationTypes, ScheduleTypes DEF AnswerCheck
    <2>2. shownAttempt' \in SessionAttempt
      BY <1>5 DEF AnswerCheck, Answered, SessionTypeOK, SessionAttempt
    <2>3. QED
      BY <1>5, <2>1, <2>2 DEF AnswerCheck, SessionTypeOK, SigningParts, IsSigning
  <1>6. ASSUME NEW m \in Mutations, SubmitMutation(m) PROVE SessionTypeOK' /\ SigningParts'
    <2>1. persistenceQueue' \in Seq(Operation) /\ Len(persistenceQueue') <= MaxQueue
      BY <1>6, OperationTypes, ScheduleTypes DEF SubmitMutation
    <2>2. QED
      BY <1>6, <2>1 DEF SubmitMutation, SessionTypeOK, SigningParts, IsSigning
  <1>7. CASE Autosave \/ FinishAttempt
    <2>1. persistenceQueue' \in Seq(Operation) /\ Len(persistenceQueue') <= MaxQueue
      BY <1>7, OperationTypes, ScheduleTypes DEF Autosave, FinishAttempt
    <2>2. QED
      BY <1>7, <2>1 DEF Autosave, FinishAttempt, SessionTypeOK, SigningParts, IsSigning
  <1>8. CASE RunSave
    <2>1. PICK w \in Writes(shownAttempt) :
            WritesAs(w) /\ saveStatus' = IF w.isDone THEN "SAVED" ELSE "FAILED"
      BY <1>8 DEF RunSave
    <2>2. lms' \in DataModel /\ stored' \in DataModel
      BY <2>1, WritesParts DEF WritesAs, SessionTypeOK
    <2>3. QED
      BY <1>8, <2>1, <2>2, IsNextTypes DEF RunSave, SessionTypeOK, SigningParts, IsSigning
  <1>9. CASE BeginMutation
    <2>1. Head(persistenceQueue).mutation \in Mutations
      BY <1>9, IsNextTypes, OperationTypes DEF BeginMutation, IsNext
    <2>2. QED
      BY <1>9, <2>1, IsNextTypes DEF BeginMutation, SessionTypeOK, SigningParts, IsSigning
  <1>10. CASE Publish
    <2>1. PICK w \in Writes(Prospective) : WritesAs(w)
      BY <1>10 DEF Publish
    <2>2. lms' \in DataModel /\ stored' \in DataModel /\ shownAttempt' \in SessionAttempt
      BY <1>10, <2>1, WritesParts, ProspectiveType DEF Publish, WritesAs
    <2>3. ~IsSigning' /\ sessionPhase' # "START" /\ sessionPhase' \in Screen
      BY <1>10 DEF Publish, SigningParts, IsSigning, SessionTypeOK
    <2>4. QED
      BY <1>10, <2>2, <2>3, NotSigningType DEF Publish, SessionTypeOK, SigningParts
  <1>11. CASE Fail
    <2>1. lms' \in DataModel /\ stored' \in DataModel
      <3>1. CASE UNCHANGED <<lms, stored>>
        BY <3>1 DEF SessionTypeOK
      <3>2. CASE \E w \in Writes(Prospective) : ~w.isDone /\ WritesAs(w)
        BY <1>11, <3>2, WritesParts, ProspectiveType DEF Fail, WritesAs
      <3>3. QED
        BY <1>11, <3>1, <3>2 DEF Fail
    <2>2. ~IsSigning' /\ failed' \subseteq Mutations
      BY <1>11 DEF Fail, SigningParts, IsSigning, SessionTypeOK
    <2>3. QED
      BY <1>11, <2>1, <2>2, NotSigningType
         DEF Fail, AfterFailure, SessionTypeOK, SigningParts, Screen
  <1>12. CASE FinishRest
    BY <1>12 DEF FinishRest, SessionTypeOK, SigningParts, IsSigning
  <1>13. CASE Launch
    <2>1. launches' \in 1..MaxLaunches
      BY <1>13, SessionAssumption DEF Launch, SessionTypeOK
    <2>2. lms' \in DataModel /\ stored' \in DataModel /\ hasSavedAttempt' \in BOOLEAN
      BY <1>13 DEF Launch, SessionTypeOK
    <2>3. QED
      BY <1>13, <2>1, <2>2, EmptyTypes, FreshType, NotSigningType
         DEF Launch, SessionTypeOK, SigningParts, IsSigning, Screen
  <1>14. CASE UNCHANGED session
    BY <1>14 DEF session, SessionTypeOK, SigningParts, IsSigning
  <1>15. QED
    BY <1>1, <1>2, <1>3, <1>4, <1>5, <1>6, <1>7, <1>8, <1>9, <1>10, <1>11, <1>12,
       <1>13, <1>14 DEF SessionNext, Step

-----------------------------------------------------------------------------
(* The start screen *)

LEMMA StartStep ==
    SessionTypeOK /\ SigningParts /\ StartParts /\ [SessionNext]_session => StartParts'
  <1> SUFFICES ASSUME SessionTypeOK, SigningParts, StartParts, [SessionNext]_session, sessionPhase' = "START"
               PROVE  StartParts'
    BY DEF StartParts
  <1> USE DEF learner, underway, platform, history
  <1>1. ASSUME Launch PROVE StartParts'
    BY <1>1 DEF Launch, StartParts
  <1>2. ASSUME ResumeStored PROVE StartParts'
    <2>1. sessionPhase = "START"
      BY <1>2 DEF ResumeStored
    <2>2. PICK read \in {NoAttempt, stored.suspendData} : resuming' = Append(resuming, read)
      BY <1>2, <2>1 DEF ResumeStored, StartParts
    <2>3. \A i \in DOMAIN resuming' : resuming'[i] = read \/
            (i \in DOMAIN resuming /\ resuming'[i] = resuming[i])
      BY <2>2, AppendProperties DEF SessionTypeOK, DataModel
    <2>4. QED
      BY <1>2, <2>1, <2>2, <2>3 DEF ResumeStored, StartParts
  <1>3. ASSUME UNCHANGED session PROVE StartParts'
    BY <1>3 DEF session, StartParts
  <1>4. ASSUME NEW x \in Answers, AnswerCheck(x) PROVE FALSE
    BY <1>4 DEF AnswerCheck
  <1>5. ASSUME NEW m \in Mutations, SubmitMutation(m) PROVE FALSE
    BY <1>5 DEF SubmitMutation
  <1>6. ASSUME StartNew \/ Restart \/ Resumed \/ Autosave \/ FinishAttempt PROVE FALSE
    BY <1>6 DEF StartNew, Restart, Resumed, NewAttempt, Restored, Autosave, FinishAttempt
  <1>7. ASSUME RunSave \/ BeginMutation PROVE FALSE
    BY <1>7, IsNextTypes DEF RunSave, BeginMutation
  <1>8. ASSUME Publish \/ Fail PROVE FALSE
    BY <1>8 DEF Publish, Fail, SigningParts
  <1>9. ASSUME FinishRest PROVE FALSE
    BY <1>9 DEF FinishRest, StartParts
  <1>10. QED
    BY <1>1, <1>2, <1>3, <1>4, <1>5, <1>6, <1>7, <1>8, <1>9 DEF SessionNext, Step

-----------------------------------------------------------------------------
(* The mutation that signs *)

LEMMA BaseStep ==
    SessionTypeOK /\ BaseIsShown /\ [SessionNext]_session => BaseIsShown'
  <1> SUFFICES ASSUME SessionTypeOK, BaseIsShown, [SessionNext]_session, IsSigning', ~overtaken'
               PROVE  signing'.base.journal = shownAttempt'.journal
    BY DEF BaseIsShown
  <1> USE DEF learner, underway, platform, history
  <1>1. CASE StartNew \/ Restart
    BY <1>1 DEF StartNew, Restart, SessionTypeOK, IsSigning
  <1>2. CASE ResumeStored \/ Autosave \/ FinishAttempt \/ FinishRest \/ RunSave \/ UNCHANGED session
    BY <1>2 DEF ResumeStored, Autosave, FinishAttempt, FinishRest, RunSave, session, BaseIsShown, IsSigning
  <1>3. CASE Resumed
    BY <1>3 DEF Resumed, SessionTypeOK, IsSigning
  <1>4. ASSUME NEW x \in Answers, AnswerCheck(x)
        PROVE  signing'.base.journal = shownAttempt'.journal
    BY <1>4 DEF AnswerCheck, Answered, BaseIsShown, IsSigning, SessionTypeOK, SessionAttempt
  <1>5. ASSUME NEW m \in Mutations, SubmitMutation(m)
        PROVE  signing'.base.journal = shownAttempt'.journal
    BY <1>5 DEF SubmitMutation, BaseIsShown, IsSigning
  <1>6. CASE BeginMutation
    BY <1>6 DEF BeginMutation
  <1>7. CASE Publish \/ Fail \/ Launch
    BY <1>7 DEF Publish, Fail, Launch, IsSigning
  <1>8. QED
    BY <1>1, <1>2, <1>3, <1>4, <1>5, <1>6, <1>7 DEF SessionNext, Step

LEMMA ProspectiveJournal ==
    ASSUME SessionTypeOK, SigningParts, IsSigning
    PROVE  /\ Prospective.journal = signing.base.journal \cup {signing.mutation}
           /\ Prospective \in SessionAttempt /\ signing.mutation \in Mutations
  BY ProspectiveType DEF SessionTypeOK, SigningParts, Prospective, SessionAttempt

-----------------------------------------------------------------------------
(* What is shown is stored *)

\* An attempt that is written keeps in the records what they hold already.
LEMMA WritesKeep ==
    ASSUME SessionTypeOK, ShownIsStored, api, ~overtaken
    PROVE  \A a \in SessionAttempt : \A w \in Writes(a) :
             shownAttempt.journal # {} /\ shownAttempt.journal \subseteq a.journal
               => InRecord(w.lms) /\ InRecord(w.stored)
  <1> SUFFICES ASSUME NEW a \in SessionAttempt, NEW w \in Writes(a), shownAttempt.journal # {},
                      shownAttempt.journal \subseteq a.journal
               PROVE  InRecord(w.lms) /\ InRecord(w.stored)
    OBVIOUS
  <1>1. InRecord(lms) /\ InRecord(stored) /\ a # NoAttempt
    BY SessionAssumption DEF ShownIsStored
  <1>2. w.lms.suspendData \in {lms.suspendData, a}
        /\ w.stored.suspendData \in {stored.suspendData, a}
    BY WritesParts
  <1>3. QED
    BY <1>1, <1>2 DEF InRecord

LEMMA ShownStep ==
    /\ SessionTypeOK /\ SigningParts /\ StartParts /\ BaseIsShown /\ ShownIsStored
    /\ [SessionNext]_session
    => ShownIsStored'
  <1> SUFFICES ASSUME SessionTypeOK, SigningParts, StartParts, BaseIsShown, ShownIsStored,
                      [SessionNext]_session, api', ~overtaken', shownAttempt'.journal # {}
               PROVE  InRecord(lms)' /\ InRecord(stored)'
    BY DEF ShownIsStored
  <1> USE DEF learner, underway, platform, history
  <1>1. CASE StartNew \/ Restart \/ Launch
    <2>1. shownAttempt' = Fresh
      BY <1>1 DEF StartNew, Restart, NewAttempt, Launch
    <2>2. QED
      BY <2>1 DEF Fresh
  <1>2. CASE ResumeStored \/ Autosave \/ FinishAttempt \/ BeginMutation \/ UNCHANGED session
    BY <1>2 DEF ResumeStored, Autosave, FinishAttempt, BeginMutation, session, ShownIsStored, InRecord
  <1>3. CASE Resumed
    <2>1. sessionPhase = "START" /\ resuming # <<>>
      BY <1>3 DEF Resumed, SessionTypeOK
    <2>2. Head(resuming) # NoAttempt /\ shownAttempt' = Head(resuming)
      BY <1>3 DEF Resumed, NewAttempt, Restored, Fresh
    <2>3. Head(resuming) = stored.suspendData /\ stored.suspendData = lms.suspendData
      BY <2>1, <2>2, ResumingTypes DEF StartParts
    <2>4. QED
      BY <1>3, <2>2, <2>3 DEF Resumed, InRecord
  <1>4. ASSUME NEW x \in Answers, AnswerCheck(x)
        PROVE  InRecord(lms)' /\ InRecord(stored)'
    BY <1>4 DEF AnswerCheck, Answered, ShownIsStored, InRecord, SessionTypeOK, SessionAttempt
  <1>5. ASSUME NEW m \in Mutations, SubmitMutation(m)
        PROVE  InRecord(lms)' /\ InRecord(stored)'
    BY <1>5 DEF SubmitMutation, ShownIsStored, InRecord
  <1>6. CASE RunSave
    <2>1. PICK w \in Writes(shownAttempt) : lms' = w.lms /\ stored' = w.stored
      BY <1>6 DEF RunSave, WritesAs
    <2>2. api /\ ~overtaken /\ shownAttempt' = shownAttempt /\ shownAttempt \in SessionAttempt
      BY <1>6 DEF RunSave, SessionTypeOK
    <2>3. QED
      BY <2>1, <2>2, WritesKeep DEF InRecord
  <1>7. CASE Publish
    <2>1. PICK w \in Writes(Prospective) : w.isDone /\ lms' = w.lms /\ stored' = w.stored
      BY <1>7 DEF Publish, WritesAs
    <2>2. api /\ shownAttempt' = Prospective /\ IsSigning
      BY <1>7 DEF Publish
    <2>3. Prospective \in SessionAttempt /\ Prospective # NoAttempt
      BY <2>2, ProspectiveJournal, SessionAssumption
    <2>4. QED
      BY <2>1, <2>2, <2>3, WritesParts DEF InRecord
  <1>8. CASE Fail
    <2>1. api /\ ~overtaken /\ shownAttempt' = shownAttempt /\ IsSigning
      BY <1>8 DEF Fail, AfterFailure
    <2>2. CASE UNCHANGED <<lms, stored>>
      BY <2>1, <2>2 DEF ShownIsStored, InRecord
    <2>3. CASE \E w \in Writes(Prospective) : ~w.isDone /\ WritesAs(w)
      <3>1. PICK w \in Writes(Prospective) : lms' = w.lms /\ stored' = w.stored
        BY <2>3 DEF WritesAs
      <3>2. shownAttempt.journal \subseteq Prospective.journal
        BY <2>1, ProspectiveJournal DEF BaseIsShown
      <3>3. QED
        BY <2>1, <3>1, <3>2, WritesKeep, ProspectiveJournal DEF InRecord
    <2>4. QED
      BY <1>8, <2>2, <2>3 DEF Fail
  <1>9. CASE FinishRest
    <2>1. api /\ ~overtaken /\ shownAttempt' = shownAttempt /\ lms' = lms /\ stored' \in {stored, lms}
      BY <1>9 DEF FinishRest
    <2>2. QED
      BY <2>1 DEF ShownIsStored, InRecord
  <1>10. QED
    BY <1>1, <1>2, <1>3, <1>4, <1>5, <1>6, <1>7, <1>8, <1>9 DEF SessionNext, Step

\* Saved, and nothing at work.
LEMMA SavedStep ==
    /\ SessionTypeOK /\ SigningParts /\ StartParts /\ SavedIsAll /\ [SessionNext]_session
    => SavedIsAll'
  <1> DEFINE All == stored.suspendData = shownAttempt /\ lms.suspendData = shownAttempt
  <1> SUFFICES ASSUME SessionTypeOK, SigningParts, StartParts, SavedIsAll, [SessionNext]_session,
                      api', ~overtaken', persistenceQueue' = <<>>, ~IsSigning',
                      saveStatus' = "SAVED"
               PROVE  All'
    BY DEF SavedIsAll
  <1> USE DEF learner, underway, platform, history
  <1>1. CASE StartNew \/ Restart \/ Launch
    BY <1>1 DEF StartNew, Restart, NewAttempt, Launch
  <1>2. CASE ResumeStored \/ UNCHANGED session
    BY <1>2 DEF ResumeStored, session, SavedIsAll, IsSigning
  <1>3. CASE Resumed
    BY <1>3 DEF Resumed, NewAttempt, Restored, StartParts, SessionTypeOK
  <1>4. CASE \E op \in Operation : Schedule(op)
    <2>1. persistenceQueue' # <<>>
      BY <1>4, AppendProperties DEF Schedule, SessionTypeOK
    <2>2. QED
      BY <2>1
  <1>5. ASSUME NEW x \in Answers, AnswerCheck(x) PROVE All'
    BY <1>4, <1>5, OperationTypes DEF AnswerCheck
  <1>6. ASSUME NEW m \in Mutations, SubmitMutation(m) PROVE All'
    BY <1>4, <1>6, OperationTypes DEF SubmitMutation
  <1>7. CASE Autosave \/ FinishAttempt
    BY <1>4, <1>7, OperationTypes DEF Autosave, FinishAttempt
  <1>8. CASE RunSave
    <2>1. PICK w \in Writes(shownAttempt) :
            /\ lms' = w.lms /\ stored' = w.stored
            /\ saveStatus' = IF w.isDone THEN "SAVED" ELSE "FAILED"
      BY <1>8 DEF RunSave, WritesAs
    <2>2. api /\ shownAttempt' = shownAttempt /\ shownAttempt \in SessionAttempt
      BY <1>8 DEF RunSave, SessionTypeOK
    <2>3. QED
      BY <2>1, <2>2, WritesParts
  <1>9. CASE BeginMutation
    BY <1>9 DEF BeginMutation
  <1>10. CASE Publish
    <2>1. PICK w \in Writes(Prospective) : w.isDone /\ lms' = w.lms /\ stored' = w.stored
      BY <1>10 DEF Publish, WritesAs
    <2>2. api /\ shownAttempt' = Prospective /\ Prospective \in SessionAttempt
      BY <1>10, ProspectiveType DEF Publish
    <2>3. QED
      BY <2>1, <2>2, WritesParts
  <1>11. CASE Fail
    BY <1>11 DEF Fail, SigningParts
  <1>12. CASE FinishRest
    <2>1. /\ api /\ shownAttempt' = shownAttempt /\ lms' = lms /\ stored' \in {stored, lms}
          /\ ~overtaken /\ persistenceQueue = <<>> /\ ~IsSigning /\ saveStatus = "SAVED"
      BY <1>12 DEF FinishRest, IsSigning
    <2>2. QED
      BY <2>1 DEF SavedIsAll
  <1>13. QED
    BY <1>1, <1>2, <1>3, <1>5, <1>6, <1>7, <1>8, <1>9, <1>10, <1>11, <1>12 DEF SessionNext, Step

-----------------------------------------------------------------------------
(* The grade *)

LEMMA GradeStep ==
    SessionTypeOK /\ SigningParts /\ GradeParts /\ [SessionNext]_session => GradeParts'
  <1> SUFFICES ASSUME SessionTypeOK, SigningParts, GradeParts, [SessionNext]_session PROVE GradeParts'
    OBVIOUS
  <1> USE DEF learner, underway, platform, history
  <1>1. CASE StartNew \/ Restart
    BY <1>1 DEF StartNew, Restart, NewAttempt, GradeParts
  <1>2. CASE ResumeStored \/ Autosave \/ FinishAttempt \/ BeginMutation \/ UNCHANGED session
    BY <1>2 DEF ResumeStored, Autosave, FinishAttempt, BeginMutation, session, GradeParts
  <1>3. CASE Resumed
    BY <1>3 DEF Resumed, NewAttempt, Restored, GradeParts
  <1>4. ASSUME NEW x \in Answers, AnswerCheck(x) PROVE GradeParts'
    BY <1>4 DEF AnswerCheck, GradeParts
  <1>5. ASSUME NEW m \in Mutations, SubmitMutation(m) PROVE GradeParts'
    BY <1>5 DEF SubmitMutation, GradeParts
  <1>6. CASE RunSave
    <2>1. PICK w \in Writes(shownAttempt) :
            /\ lms' = w.lms /\ stored' = w.stored
            /\ saveStatus' = IF w.isDone THEN "SAVED" ELSE "FAILED"
      BY <1>6 DEF RunSave, WritesAs
    <2>2. api' = api /\ pressedOn' = pressedOn /\ shownAttempt \in SessionAttempt
      BY <1>6 DEF RunSave, SessionTypeOK
    <2>3. QED
      BY <2>1, <2>2, WritesParts DEF GradeParts
  <1>7. CASE Publish
    <2>1. PICK w \in Writes(Prospective) : w.isDone /\ lms' = w.lms /\ stored' = w.stored
      BY <1>7 DEF Publish, WritesAs
    <2>2. api' = api /\ pressedOn' = pressedOn /\ Prospective \in SessionAttempt
      BY <1>7, ProspectiveType DEF Publish
    <2>3. QED
      BY <2>1, <2>2, WritesParts DEF GradeParts
  <1>8. CASE Fail
    <2>1. saveStatus' # "SAVED" /\ pressedOn' = pressedOn /\ Prospective \in SessionAttempt
      BY <1>8, ProspectiveType DEF Fail, SigningParts
    <2>2. stored' = stored \/ stored'.score = stored'.suspendData
      BY <1>8, <2>1, WritesParts DEF Fail, WritesAs
    <2>3. QED
      BY <2>1, <2>2 DEF GradeParts
  <1>9. CASE FinishRest
    BY <1>9 DEF FinishRest, GradeParts
  <1>10. CASE Launch
    BY <1>10 DEF Launch, GradeParts
  <1>11. QED
    BY <1>1, <1>2, <1>3, <1>4, <1>5, <1>6, <1>7, <1>8, <1>9, <1>10 DEF SessionNext, Step

-----------------------------------------------------------------------------
(* What waits, and what has failed *)

LEMMA ScheduleParts ==
    ASSUME SessionTypeOK, NEW op \in Operation, Schedule(op)
    PROVE  \A i \in DOMAIN persistenceQueue' :
             \/ i \in DOMAIN persistenceQueue /\ persistenceQueue'[i] = persistenceQueue[i]
             \/ i = Len(persistenceQueue) + 1 /\ persistenceQueue'[i] = op
  BY AppendProperties DEF SessionTypeOK, Schedule

LEMMA TailParts ==
    ASSUME SessionTypeOK, NEW kinds, IsNext(kinds)
    PROVE  /\ 1 \in DOMAIN persistenceQueue /\ Head(persistenceQueue) = persistenceQueue[1]
           /\ \A i \in DOMAIN Tail(persistenceQueue) :
                 /\ i \in Nat /\ i # 0 /\ i + 1 \in DOMAIN persistenceQueue
                 /\ Tail(persistenceQueue)[i] = persistenceQueue[i + 1]
  BY HeadTailProperties DEF SessionTypeOK, IsNext

\* Operations that are no commands join the queue without harm.
LEMMA ScheduleOther ==
    ASSUME SessionTypeOK, NEW op \in Operation, op.kind # "mutate", Schedule(op),
           shownAttempt'.journal = shownAttempt.journal, UNCHANGED <<signing, failed>>,
           QueueIsFresh, QueueIsDistinct
    PROVE  QueueIsFresh' /\ QueueIsDistinct'
  BY ScheduleParts DEF QueueIsFresh, QueueIsDistinct, IsMutation, IsFresh

\* The first operation leaves the queue.
LEMMA TailKeeps ==
    ASSUME SessionTypeOK, NEW kinds, IsNext(kinds), persistenceQueue' = Tail(persistenceQueue),
           QueueIsDistinct
    PROVE  /\ QueueIsDistinct'
           /\ shownAttempt' = shownAttempt /\ UNCHANGED <<signing, failed>> /\ QueueIsFresh
                => QueueIsFresh'
  <1>1. QueueIsDistinct'
    <2> SUFFICES ASSUME NEW i \in DOMAIN Tail(persistenceQueue),
                        NEW j \in DOMAIN Tail(persistenceQueue),
                        Tail(persistenceQueue)[i].kind = "mutate",
                        Tail(persistenceQueue)[i] = Tail(persistenceQueue)[j]
                 PROVE  i = j
      BY DEF QueueIsDistinct, IsMutation
    <2>1. i + 1 = j + 1
      BY TailParts DEF QueueIsDistinct, IsMutation
    <2>2. QED
      BY <2>1, TailParts
  <1>2. ASSUME shownAttempt' = shownAttempt, UNCHANGED <<signing, failed>>, QueueIsFresh
        PROVE  QueueIsFresh'
    BY <1>2, TailParts DEF QueueIsFresh, IsMutation, IsFresh
  <1>3. QED
    BY <1>1, <1>2

LEMMA SameCommand ==
    \A op, oq \in Operation :
        op.kind = "mutate" /\ oq.kind = "mutate" /\ op.mutation = oq.mutation => op = oq
  BY DEF Operation

LEMMA WaitingStep ==
    /\ SessionTypeOK /\ SigningParts /\ StartParts /\ BaseIsShown /\ WaitingIsFresh
    /\ [SessionNext]_session
    => WaitingIsFresh'
  <1> DEFINE Goal == FailureParts /\ QueueIsFresh /\ QueueIsDistinct
  <1> SUFFICES ASSUME SessionTypeOK, SigningParts, StartParts, BaseIsShown, WaitingIsFresh,
                      [SessionNext]_session, ~overtaken'
               PROVE  Goal'
    BY DEF WaitingIsFresh
  <1> USE DEF learner, underway, platform, history
  <1>1. CASE Launch
    BY <1>1 DEF Launch, Fresh, FailureParts, QueueIsFresh, QueueIsDistinct, IsFresh,
                IsSigning
  <1>2. CASE StartNew \/ Resumed
    <2>1. /\ sessionPhase = "START" /\ persistenceQueue' = <<>> /\ failed' = {}
          /\ signing' = NotSigning
      BY <1>2 DEF StartNew, Resumed, SessionTypeOK, StartParts, IsSigning
    <2>2. QED
      BY <2>1 DEF FailureParts, QueueIsFresh, QueueIsDistinct, IsFresh, IsSigning
  <1>3. CASE Restart
    <2>1. /\ persistenceQueue = <<>> /\ failed' = {} /\ signing' = NotSigning
          /\ Schedule([kind |-> "save"])
      BY <1>3 DEF Restart, SessionTypeOK, StartParts, IsSigning
    <2>2. \A i \in DOMAIN persistenceQueue' : persistenceQueue'[i].kind = "save"
      BY <2>1, ScheduleParts, OperationTypes
    <2>3. QED
      BY <2>1, <2>2 DEF FailureParts, QueueIsFresh, QueueIsDistinct, IsFresh, IsSigning,
                        IsMutation
  <1>4. CASE ResumeStored \/ FinishRest \/ UNCHANGED session
    BY <1>4 DEF ResumeStored, FinishRest, session, WaitingIsFresh, FailureParts, QueueIsFresh,
                QueueIsDistinct, IsFresh, IsSigning, IsMutation
  <1>5. ASSUME NEW op \in {[kind |-> "save"], [kind |-> "finish"]}, Schedule(op),
               shownAttempt'.journal = shownAttempt.journal, UNCHANGED <<sessionPhase, signing, history>>
        PROVE  Goal'
    <2>1. op \in Operation /\ op.kind # "mutate"
      BY OperationTypes
    <2>2. Goal
      BY <1>5 DEF WaitingIsFresh
    <2>3. QueueIsFresh' /\ QueueIsDistinct'
      BY <1>5, <2>1, <2>2, ScheduleOther
    <2>4. QED
      BY <1>5, <2>2, <2>3 DEF FailureParts, IsFresh, IsSigning
  <1>6. ASSUME NEW x \in Answers, AnswerCheck(x) PROVE Goal'
    <2>1. shownAttempt'.journal = shownAttempt.journal
      BY <1>6 DEF AnswerCheck, Answered, SessionTypeOK, SessionAttempt
    <2>2. QED
      BY <1>5, <1>6, <2>1 DEF AnswerCheck
  <1>7. CASE Autosave \/ FinishAttempt
    BY <1>5, <1>7 DEF Autosave, FinishAttempt
  <1>8. ASSUME NEW m \in Mutations, SubmitMutation(m) PROVE Goal'
    <2> DEFINE op == [kind |-> "mutate", mutation |-> m]
    <2>1. Goal /\ failed = {} /\ IsFresh(m)
      BY <1>8 DEF SubmitMutation, WaitingIsFresh, FailureParts, IsFresh
    <2>2. /\ signing.mutation # m
          /\ \A i \in DOMAIN persistenceQueue : persistenceQueue[i] # op
      BY <1>8 DEF SubmitMutation, Waiting
    <2>3. Schedule(op) /\ op \in Operation /\ UNCHANGED <<sessionPhase, shownAttempt, signing, failed>>
      BY <1>8, OperationTypes DEF SubmitMutation
    <2>4. \A i \in DOMAIN persistenceQueue' :
            \/ i \in DOMAIN persistenceQueue /\ persistenceQueue'[i] = persistenceQueue[i]
            \/ i = Len(persistenceQueue) + 1 /\ persistenceQueue'[i] = op
      BY <2>3, ScheduleParts
    <2>5. QueueIsFresh'
      BY <2>1, <2>2, <2>3, <2>4 DEF QueueIsFresh, IsMutation, IsFresh
    <2>6. QueueIsDistinct'
      BY <2>1, <2>2, <2>4 DEF QueueIsDistinct, IsMutation
    <2>7. QED
      BY <2>1, <2>3, <2>5, <2>6 DEF FailureParts, IsFresh, IsSigning
  <1>9. CASE RunSave
    <2>1. Goal
      BY <1>9 DEF RunSave, WaitingIsFresh
    <2>2. QueueIsFresh' /\ QueueIsDistinct'
      BY <1>9, <2>1, TailKeeps DEF RunSave
    <2>3. QED
      BY <1>9, <2>1, <2>2 DEF RunSave, FailureParts, IsFresh, IsSigning
  <1>10. CASE BeginMutation
    <2>1. Goal
      BY <1>10 DEF BeginMutation, WaitingIsFresh
    <2>2. QueueIsDistinct' /\ IsNext({"mutate"}) /\ UNCHANGED <<shownAttempt, failed, sessionPhase>>
      BY <1>10, <2>1, TailKeeps DEF BeginMutation
    <2>3. /\ signing'.mutation = persistenceQueue[1].mutation /\ signing'.screen = sessionPhase
          /\ 1 \in DOMAIN persistenceQueue /\ IsMutation(1)
      BY <1>10, <2>2, TailParts DEF BeginMutation, IsNext, IsMutation
    <2>4. IsFresh(persistenceQueue[1].mutation)
      BY <2>1, <2>3 DEF QueueIsFresh
    <2>5. ASSUME NEW i \in DOMAIN persistenceQueue', IsMutation(i)'
          PROVE  /\ IsFresh(persistenceQueue'[i].mutation)
                 /\ persistenceQueue'[i].mutation # persistenceQueue[1].mutation
      <3>1. /\ i + 1 \in DOMAIN persistenceQueue /\ i + 1 # 1
            /\ persistenceQueue'[i] = persistenceQueue[i + 1]
        BY <1>10, <2>2, TailParts DEF BeginMutation
      <3>2. IsMutation(i + 1)
        BY <2>5, <3>1 DEF IsMutation
      <3>3. persistenceQueue[i + 1] \in Operation /\ persistenceQueue[1] \in Operation
        BY <2>3, <3>1, ElementOfSeq DEF SessionTypeOK
      <3>4. QED
        BY <2>1, <2>3, <3>1, <3>2, <3>3, SameCommand
           DEF QueueIsFresh, QueueIsDistinct, IsMutation
    <2>6. QueueIsFresh'
      BY <2>2, <2>3, <2>5 DEF QueueIsFresh, IsFresh
    <2>7. QED
      BY <2>1, <2>2, <2>3, <2>4, <2>6 DEF FailureParts, IsFresh
  <1>11. CASE Publish \/ Fail
    <2>1. Goal /\ IsSigning
      BY <1>11 DEF Publish, Fail, WaitingIsFresh
    <2>2. /\ shownAttempt'.journal \cup failed'
               = (shownAttempt.journal \cup failed) \cup {signing.mutation}
          /\ shownAttempt'.journal \cap failed' = {}
      <3>1. CASE Publish
        BY <2>1, <3>1, ProspectiveJournal
           DEF Publish, BaseIsShown, WaitingIsFresh, FailureParts, IsFresh
      <3>2. CASE Fail
        BY <2>1, <3>2 DEF Fail, AfterFailure, FailureParts, IsFresh
      <3>3. QED
        BY <1>11, <3>1, <3>2
    <2>3. /\ persistenceQueue' = persistenceQueue /\ signing' = NotSigning
          /\ failed' # {} => sessionPhase' = "RECOVERY"
      BY <1>11, <2>1 DEF Publish, Fail, FailureParts
    <2>4. \A i \in DOMAIN persistenceQueue : IsMutation(i) => persistenceQueue[i].mutation # NoAttempt
      BY OperationTypes, ElementOfSeq, SessionAssumption DEF SessionTypeOK, IsMutation
    <2>5. QueueIsFresh' /\ QueueIsDistinct'
      BY <2>1, <2>2, <2>3, <2>4
         DEF QueueIsFresh, QueueIsDistinct, IsMutation, IsFresh, NotSigning
    <2>6. QED
      BY <2>2, <2>3, <2>5 DEF FailureParts, IsSigning
  <1>12. QED
    BY <1>1, <1>2, <1>3, <1>4, <1>6, <1>7, <1>8, <1>9, <1>10, <1>11 DEF SessionNext, Step

-----------------------------------------------------------------------------
(* Theorems *)

LEMMA InitSession == SessionInit => SessionInvariant
  <1> SUFFICES ASSUME SessionInit PROVE SessionInvariant
    OBVIOUS
  <1>1. SessionTypeOK /\ SigningParts
    BY InitTypes
  <1>2. ~IsSigning /\ shownAttempt.journal = {} /\ failed = {} /\ saveStatus = "IDLE"
    BY DEF SessionInit, IsSigning, Fresh
  <1>3. StartParts /\ GradeParts
    BY DEF SessionInit, StartParts, GradeParts
  <1>4. WaitingIsFresh
    BY <1>2 DEF SessionInit, WaitingIsFresh, FailureParts, QueueIsFresh, QueueIsDistinct
  <1>5. QED
    BY <1>1, <1>2, <1>3, <1>4 DEF SessionInvariant, BaseIsShown, ShownIsStored, SavedIsAll

LEMMA SessionStep == SessionInvariant /\ [SessionNext]_session => SessionInvariant'
  BY TypesStep, StartStep, BaseStep, ShownStep, SavedStep, GradeStep, WaitingStep
     DEF SessionInvariant

\* Whatever the learner does, the platform refuses and the page interrupts, the
\* inductive invariant of the session holds (SimulationProvider).
THEOREM SessionHolds == SessionSpec => []SessionInvariant
  BY InitSession, SessionStep, PTL DEF SessionSpec

\* The session, the queue and the platform's records stay of their types, and
\* nothing is queued before the session has begun (SimulationProvider).
THEOREM SessionTypes == SessionSpec => []SessionTypeOK
  <1>1. SessionInvariant => SessionTypeOK
    BY DEF SessionInvariant
  <1>2. QED
    BY <1>1, SessionHolds, PTL

\* While the connection is open and no resume was overtaken, every command that the
\* session shows is found by a later launch (commitMutation).
THEOREM PublishedStaysStored == SessionSpec => []PublishedIsStored
  <1>1. SessionInvariant => PublishedIsStored
    BY DEF SessionInvariant, ShownIsStored, InRecord, PublishedIsStored
  <1>2. QED
    BY <1>1, SessionHolds, PTL

\* When the top bar says saved and nothing is at work, a later launch finds exactly
\* what is shown (save, commitMutation).
THEOREM SavedStaysStored == SessionSpec => []SavedMeansStored
  <1>1. SessionInvariant => SavedMeansStored
    BY DEF SessionInvariant, SavedIsAll, IsIdle, SavedMeansStored
  <1>2. QED
    BY <1>1, SessionHolds, PTL

\* Unless a report was sent after its save had failed, the stored grade is that of
\* the stored attempt, whichever calls were refused (writeProspectiveState).
THEOREM GradeStaysOfStoredAttempt == SessionSpec => []GradeIsOfStoredAttempt
  <1>1. SessionInvariant => GradeIsOfStoredAttempt
    BY DEF SessionInvariant, GradeParts, GradeIsOfStoredAttempt
  <1>2. QED
    BY <1>1, SessionHolds, PTL

\* A command that was reported failed does not turn up later in its launch, unless
\* a resume was overtaken (commitMutation, MUTATION_FAILED).
THEOREM FailedNeverReturns == SessionSpec => []FailedStaysOut
  <1>1. SessionInvariant => FailedStaysOut
    BY DEF SessionInvariant, WaitingIsFresh, FailureParts, FailedStaysOut
  <1>2. QED
    BY <1>1, SessionHolds, PTL
=============================================================================
