--------------------------- MODULE LearnerSession ---------------------------
(***************************************************************************)
(* The session of a learner in a SCORM 1.2 package: the mutation queue of  *)
(* the simulation provider, and what reaches the learning platform.        *)
(*                                                                         *)
(* A mutation reads the session, signs, writes the state it would produce  *)
(* to the platform, commits, and only then publishes it.  Answers and      *)
(* hints are published at once and saved afterwards.  The platform's calls *)
(* are synchronous, so learner and timers only act while nothing is queued *)
(* or while the running mutation signs; a resume replays the journal and   *)
(* is interrupted in the same way.  Every platform call may be refused; a  *)
(* refused commit may have been stored.  The page may close at any time.   *)
(***************************************************************************)
EXTENDS Sequences, FiniteSets, Naturals

CONSTANTS Mutations,    \* commands and professional answers, by content
          Answers,      \* knowledge checks answered and hints revealed
          Required,     \* the mutations that complete the activity
          NoAttempt,    \* no attempt is stored
          MaxQueue,     \* bounds the operations that wait
          MaxResumes,   \* bounds the resumes that are being replayed
          MaxLaunches   \* bounds the launches

VARIABLES sessionPhase,     \* the screen: START, RUNNING or RECOVERY
          shownAttempt,     \* what the session shows
          saveStatus,       \* what the top bar says
          hasSavedAttempt,  \* a stored attempt was found at launch
          persistenceQueue, \* operations whose turn has not come
          signing,          \* the mutation that is being signed, if any
          resuming,         \* attempts that are being replayed
          finishing,        \* the save of the final report is done, the rest is not
          isSubmitted,      \* the final report says that it was sent
          api,              \* external: the connection to the platform is open
          lms,              \* external: the platform's data model in this launch
          stored,           \* external: what a later launch will find
          launches,         \* launches so far
          failed,           \* history: mutations that failed in this launch
          overtaken,        \* history: a resume was published after something else
          pressedOn         \* history: a report was sent after its save had failed

learner == <<sessionPhase, shownAttempt, saveStatus, hasSavedAttempt>>
underway == <<persistenceQueue, signing, resuming, finishing>>
platform == <<api, lms, stored>>
history == <<failed, overtaken, pressedOn>>
session == <<learner, underway, isSubmitted, platform, launches, history>>

Screen == {"START", "RUNNING", "RECOVERY"}
SessionAttempt == [journal : SUBSET Mutations, answers : SUBSET Answers]

ASSUME SessionAssumption ==
    /\ Required \subseteq Mutations /\ NoAttempt \notin Mutations \cup SessionAttempt
    /\ MaxQueue \in Nat /\ MaxResumes \in Nat /\ MaxLaunches \in Nat \ {0}

Fresh == [journal |-> {}, answers |-> {}]
DataModel ==
    [score : SessionAttempt \cup {NoAttempt}, suspendData : SessionAttempt \cup {NoAttempt}]
Operation == [kind : {"mutate"}, mutation : Mutations] \cup [kind : {"save", "finish"}]

IsCompleted(a) == Required \subseteq a.journal
NotSigning == [mutation |-> NoAttempt, base |-> Fresh, screen |-> "START"]
IsSigning == signing # NotSigning

\* Nothing runs: the browser takes the next click, timer or reply.
IsIdle == (persistenceQueue = <<>> \/ IsSigning) /\ ~finishing
CanWait == Len(persistenceQueue) < MaxQueue
Schedule(op) == persistenceQueue' = Append(persistenceQueue, op)

-----------------------------------------------------------------------------
(* The platform *)

\* mutant: the platform's answers are not looked at
WritesUnchecked(a) ==
    IF ~api THEN {[lms |-> lms, stored |-> stored, isDone |-> TRUE]}
    ELSE LET full == [lms EXCEPT !.score = a, !.suspendData = a]
         IN  {[lms |-> l, stored |-> s, isDone |-> TRUE] : l \in {lms, full}, s \in {stored, full}}
\* mutant: the attempt is committed before its score is set
WritesScoreLast(a) ==
    IF ~api THEN {[lms |-> lms, stored |-> stored, isDone |-> TRUE]}
    ELSE LET data == [lms EXCEPT !.suspendData = a]
         IN  {[lms |-> [data EXCEPT !.score = a], stored |-> data, isDone |-> TRUE]}
\* writeProspectiveState: score, suspend data and commit, each of which may be
\* refused.  After the session is closed every call succeeds and does nothing.
Writes(a) ==
    IF ~api THEN {[lms |-> lms, stored |-> stored, isDone |-> TRUE]}
    ELSE LET scored == [lms EXCEPT !.score = a]
             full == [scored EXCEPT !.suspendData = a]
         IN  {[lms |-> full, stored |-> full, isDone |-> TRUE]}
               \cup {[lms |-> l, stored |-> stored, isDone |-> FALSE] :
                         l \in {lms, scored, full}}
               \cup {[lms |-> full, stored |-> full, isDone |-> FALSE]}

WritesAs(w) == lms' = w.lms /\ stored' = w.stored

-----------------------------------------------------------------------------
(* The learner *)

\* START_NEW and RESUME of the session reducer.
NewAttempt ==
    /\ sessionPhase' = "RUNNING" /\ shownAttempt' = Fresh
    /\ saveStatus' = "IDLE" /\ hasSavedAttempt' = FALSE
Restored(a) ==
    /\ sessionPhase' = "RUNNING" /\ shownAttempt' = a
    /\ UNCHANGED <<saveStatus, hasSavedAttempt>>

StartNew ==
    /\ IsIdle /\ sessionPhase = "START" /\ ~hasSavedAttempt
    /\ NewAttempt
    /\ UNCHANGED <<underway, isSubmitted, platform, launches, history>>

Restart ==
    /\ IsIdle /\ sessionPhase = "START" /\ hasSavedAttempt /\ CanWait
    /\ NewAttempt
    /\ Schedule([kind |-> "save"])
    /\ UNCHANGED <<signing, resuming, finishing, isSubmitted, platform, launches, history>>

\* The stored attempt is read at once, and replayed.  A read that is refused
\* looks like an attempt that was never stored.
ResumeStored ==
    /\ IsIdle /\ sessionPhase = "START" /\ hasSavedAttempt /\ Len(resuming) < MaxResumes
    /\ \E read \in {lms.suspendData, NoAttempt} : resuming' = Append(resuming, read)
    /\ UNCHANGED <<learner, persistenceQueue, signing, finishing, isSubmitted,
                   platform, launches, history>>

Resumed ==
    /\ IsIdle /\ resuming # <<>>
    /\ resuming' = Tail(resuming)
    /\ \/ Head(resuming) = NoAttempt /\ NewAttempt
       \/ Head(resuming) # NoAttempt /\ Restored(Head(resuming))
    /\ overtaken' = (overtaken \/ sessionPhase # "START")
    /\ UNCHANGED <<persistenceQueue, signing, finishing, isSubmitted, platform,
                   launches, failed, pressedOn>>

Answered(x) == [shownAttempt EXCEPT !.answers = @ \cup {x}]

\* mutant: the answer waits for the next save that happens for another reason
AnswerCheckUnsaved(x) ==
    /\ IsIdle /\ sessionPhase = "RUNNING" /\ x \notin shownAttempt.answers /\ CanWait
    /\ shownAttempt' = Answered(x)
    /\ UNCHANGED <<sessionPhase, saveStatus, hasSavedAttempt, underway, isSubmitted,
                   platform, launches, history>>

\* answerCheck and revealHint: published, then saved.
AnswerCheck(x) ==
    /\ IsIdle /\ sessionPhase = "RUNNING" /\ x \notin shownAttempt.answers /\ CanWait
    /\ shownAttempt' = Answered(x)
    /\ Schedule([kind |-> "save"])
    /\ UNCHANGED <<sessionPhase, saveStatus, hasSavedAttempt, signing, resuming, finishing,
                   isSubmitted, platform, launches, history>>

Waiting(m) ==
    \/ signing.mutation = m
    \/ \E i \in DOMAIN persistenceQueue :
         persistenceQueue[i] = [kind |-> "mutate", mutation |-> m]

SubmitMutation(m) ==
    /\ IsIdle /\ sessionPhase = "RUNNING" /\ CanWait
    /\ m \notin shownAttempt.journal /\ ~Waiting(m)
    /\ Schedule([kind |-> "mutate", mutation |-> m])
    /\ UNCHANGED <<learner, signing, resuming, finishing, isSubmitted, platform,
                   launches, history>>

\* The timer, a hidden page, or derived progress.
Autosave ==
    /\ IsIdle /\ sessionPhase = "RUNNING" /\ CanWait
    /\ Schedule([kind |-> "save"])
    /\ UNCHANGED <<learner, signing, resuming, finishing, isSubmitted, platform,
                   launches, history>>

FinishAttempt ==
    /\ IsIdle /\ sessionPhase = "RUNNING" /\ IsCompleted(shownAttempt) /\ ~isSubmitted /\ CanWait
    /\ Schedule([kind |-> "finish"])
    /\ UNCHANGED <<learner, signing, resuming, finishing, isSubmitted, platform,
                   launches, history>>

-----------------------------------------------------------------------------
(* The queue *)

\* mutant: an operation behind a failed one never runs
IsNextAfterSuccess(kinds) ==
    /\ ~IsSigning /\ persistenceQueue # <<>> /\ failed = {}
    /\ Head(persistenceQueue).kind \in kinds
\* Each operation runs when the one before it is settled, however it ended.
IsNext(kinds) ==
    /\ ~IsSigning /\ persistenceQueue # <<>>
    /\ Head(persistenceQueue).kind \in kinds

RunSave ==
    /\ IsNext({"save", "finish"})
    /\ \E w \in Writes(shownAttempt) :
         /\ WritesAs(w)
         /\ saveStatus' = IF w.isDone THEN "SAVED" ELSE "FAILED"
    /\ finishing' = (finishing \/ Head(persistenceQueue).kind = "finish")
    /\ persistenceQueue' = Tail(persistenceQueue)
    /\ UNCHANGED <<sessionPhase, shownAttempt, hasSavedAttempt, signing, resuming, isSubmitted,
                   api, launches, history>>

\* commitMutation reads the session when its turn comes.
BeginMutation ==
    /\ IsNext({"mutate"})
    /\ signing' = [mutation |-> Head(persistenceQueue).mutation,
                   base |-> shownAttempt, screen |-> sessionPhase]
    /\ persistenceQueue' = Tail(persistenceQueue)
    /\ saveStatus' = "SAVING"
    /\ UNCHANGED <<sessionPhase, shownAttempt, hasSavedAttempt, resuming, finishing, isSubmitted,
                   platform, launches, history>>

Prospective == [signing.base EXCEPT !.journal = @ \cup {signing.mutation}]

\* What is published is the state that was written, made from the one read before
\* signing: whatever was published meanwhile is gone.
Publish ==
    /\ IsSigning
    /\ \E w \in Writes(Prospective) : w.isDone /\ WritesAs(w)
    /\ shownAttempt' = Prospective /\ sessionPhase' = signing.screen
    /\ saveStatus' = "SAVED"
    /\ signing' = NotSigning
    /\ UNCHANGED <<hasSavedAttempt, persistenceQueue, resuming, finishing, isSubmitted,
                   api, launches, history>>

AfterFailure == shownAttempt

\* The mutation is refused by its own checks or by the platform.
Fail ==
    /\ IsSigning
    /\ \/ UNCHANGED <<lms, stored>>
       \/ \E w \in Writes(Prospective) : ~w.isDone /\ WritesAs(w)
    /\ shownAttempt' = AfterFailure
    /\ sessionPhase' = "RECOVERY"
    /\ failed' = failed \cup {signing.mutation}
    /\ signing' = NotSigning
    /\ UNCHANGED <<saveStatus, hasSavedAttempt, persistenceQueue, resuming, finishing,
                   isSubmitted, api, launches, overtaken, pressedOn>>

\* The rest of finish: completion and a commit, session time, exit and a commit, and
\* the end of the platform session.  How the save ended is not looked at.
FinishRest ==
    /\ finishing
    /\ finishing' = FALSE
    /\ pressedOn' = (pressedOn \/ saveStatus # "SAVED")
    /\ \/ /\ api /\ stored' \in {stored, lms} /\ UNCHANGED <<api, isSubmitted>>
       \/ /\ stored' = IF api THEN lms ELSE stored
          /\ api' = FALSE /\ isSubmitted' = TRUE
    /\ UNCHANGED <<learner, persistenceQueue, signing, resuming, lms, launches, failed, overtaken>>

-----------------------------------------------------------------------------
(* Launches *)

\* initialize: the platform's record is loaded and the stored attempt looked for.
Launch ==
    /\ launches < MaxLaunches
    /\ launches' = launches + 1
    /\ lms' = stored /\ stored' = stored
    /\ \E read \in {stored.suspendData, NoAttempt} : hasSavedAttempt' = (read # NoAttempt)
    /\ api' = TRUE
    /\ sessionPhase' = "START" /\ shownAttempt' = Fresh /\ saveStatus' = "IDLE"
    /\ persistenceQueue' = <<>> /\ signing' = NotSigning /\ resuming' = <<>>
    /\ finishing' = FALSE /\ isSubmitted' = FALSE
    /\ failed' = {} /\ overtaken' = FALSE /\ UNCHANGED pressedOn

SessionInit ==
    /\ sessionPhase = "START" /\ shownAttempt = Fresh /\ saveStatus = "IDLE"
    /\ hasSavedAttempt = FALSE
    /\ persistenceQueue = <<>> /\ signing = NotSigning /\ resuming = <<>>
    /\ finishing = FALSE /\ isSubmitted = FALSE
    /\ api = TRUE
    /\ lms = [score |-> NoAttempt, suspendData |-> NoAttempt]
    /\ stored = lms
    /\ launches = 1
    /\ failed = {} /\ overtaken = FALSE /\ pressedOn = FALSE

Step == RunSave \/ BeginMutation \/ Publish \/ Fail \/ FinishRest

SessionNext ==
    \/ StartNew \/ Restart \/ ResumeStored \/ Resumed
    \/ \E x \in Answers : AnswerCheck(x)
    \/ \E m \in Mutations : SubmitMutation(m)
    \/ Autosave \/ FinishAttempt
    \/ Step
    \/ Launch

\* Promises that are due are run, and signing ends.
SessionSpec == SessionInit /\ [][SessionNext]_session /\ WF_session(Step)

-----------------------------------------------------------------------------
(* Properties *)

\* The session, the queue and the platform's records are of their types; nothing
\* is queued before the session has begun.
SessionTypeOK ==
    /\ sessionPhase \in Screen
    /\ shownAttempt \in SessionAttempt
    /\ saveStatus \in {"IDLE", "SAVING", "SAVED", "FAILED"}
    /\ hasSavedAttempt \in BOOLEAN
    /\ persistenceQueue \in Seq(Operation) /\ Len(persistenceQueue) <= MaxQueue
    /\ signing \in [mutation : Mutations \cup {NoAttempt}, base : SessionAttempt, screen : Screen]
    /\ resuming \in Seq(SessionAttempt \cup {NoAttempt}) /\ Len(resuming) <= MaxResumes
    /\ finishing \in BOOLEAN /\ isSubmitted \in BOOLEAN /\ api \in BOOLEAN
    /\ lms \in DataModel /\ stored \in DataModel
    /\ launches \in 1..MaxLaunches
    /\ failed \subseteq Mutations /\ overtaken \in BOOLEAN /\ pressedOn \in BOOLEAN
    /\ sessionPhase = "START" => persistenceQueue = <<>> /\ ~IsSigning

\* While the connection is open and no resume was overtaken, a command that the
\* session shows is stored: a later launch will find it (commitMutation).
PublishedIsStored ==
    api /\ ~overtaken /\ shownAttempt.journal # {}
        => /\ stored.suspendData # NoAttempt
           /\ shownAttempt.journal \subseteq stored.suspendData.journal

\* When the top bar says saved and nothing is at work, what the session shows is
\* exactly what a later launch will find, answers and hints included.
SavedMeansStored ==
    api /\ ~overtaken /\ IsIdle /\ ~IsSigning /\ saveStatus = "SAVED"
        => stored.suspendData = shownAttempt

\* The stored grade is the grade of the stored attempt, whichever calls were
\* refused, unless a report was sent after its save had failed.
GradeIsOfStoredAttempt == ~pressedOn => stored.score = stored.suspendData

\* A command that was reported failed does not turn up later in the same launch,
\* unless a resume was overtaken.
FailedStaysOut == ~overtaken => shownAttempt.journal \cap failed = {}

\* No command waits for ever, also behind one that failed (save, commitMutation).
SubmittedIsAnswered == \A m \in Mutations : []<>~Waiting(m)

\* "The result has been sent" appears only once it has been (final report).
SubmittedMeansStored ==
    [][~isSubmitted /\ isSubmitted' => stored'.suspendData = shownAttempt']_session
=============================================================================
