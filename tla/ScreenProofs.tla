----------------------------- MODULE ScreenProofs -----------------------------
(***************************************************************************)
(* Proofs about LearnerScreen and AuthorScreen, for every script, every    *)
(* number of runs and every set of drafts: what is displayed is what the   *)
(* screen says it is.                                                      *)
(***************************************************************************)
EXTENDS LearnerScreen, AuthorScreen, SequenceTheorems, WellFoundedInduction, TLAPS

-----------------------------------------------------------------------------
(* The learner's screen: the invariant *)

RunFields == {"assignment", "version", "node", "requested", "inspected"}
IsRun(run) == run.version \in Nat /\ run = [f \in RunFields |-> run[f]]

TaskFields == {"op", "stage", "run", "assignment", "command", "version", "answer", "list",
               "conflict"}
IsTask(t) == t = [f \in TaskFields |-> t[f]]

IsSequence(s) == s \in Seq({s[i] : i \in DOMAIN s})

RunsAreRuns == IsSequence(runs) /\ \A r \in DOMAIN runs : IsRun(runs[r])

\* What somebody was shown of a run is an earlier state of it, or the one it is in.
IsPast(rs, shown) ==
    /\ shown.run \in DOMAIN rs
    /\ shown.state.version \in Nat
    /\ shown.state.version <= rs[shown.run].version
    /\ shown.state.version = rs[shown.run].version => shown.state = rs[shown.run]

IsListing(rs, l) == \A a \in Assignments : l.latest[a] # 0 => l.latest[a] \in DOMAIN rs

\* A task goes through its stages in order, for a run of the server.
TaskIsInOrder ==
    isBusy =>
        /\ IsTask(task)
        /\ task.op \in {"open", "start", "submit"} /\ task.version \in Nat
        /\ task.op = "open" => task.stage # "post"
        /\ task.conflict => task.op = "submit" /\ task.stage # "post"
        /\ task.op = "submit" /\ task.stage = "load" => task.conflict
        /\ task.op # "start" \/ task.stage # "post" => task.run \in DOMAIN runs
        /\ task.op # "start" => runId = task.run
        /\ task.list # Nothing => IsListing(runs, task.list)

\* What the server answered is about the run that was asked for.
AnswerIsToTheTask ==
    isBusy =>
        /\ task.answer.kind = "conflict" => task.op = "submit" /\ task.stage = "post"
        /\ task.answer.kind = "ok" =>
              /\ task.stage = "load" \/ (task.stage = "post" /\ task.op = "submit") =>
                    IsPast(runs, task.answer.shown) /\ task.answer.shown.run = task.run
              /\ task.stage = "post" /\ task.op = "start" => task.answer.run \in DOMAIN runs
              /\ task.stage \in {"load", "list"} => IsListing(runs, task.answer.list)

ScreenIsPast ==
    /\ IsListing(runs, list)
    /\ IsShown => IsPast(runs, projection) /\ runId \in DOMAIN runs

\* While the list and the feedback are loaded, the run they are about is shown, and over.
PublishedBeforeFeedback ==
    isBusy /\ task.stage \in {"list", "feedback"} =>
        /\ IsShown /\ projection.run = task.run
        /\ permittedActionIds(projection.state) = {}

\* A command carries the version the learner looked at; a conflict says that the run
\* it was sent to has gone on.
CommandIsOfTheStateShown ==
    isBusy /\ task.op = "submit" =>
        /\ task.stage = "post" => IsShown /\ task.version = projection.state.version
        /\ task.stage \in {"post", "load"} /\ task.run = projection.run
              /\ (task.conflict \/ task.answer.kind = "conflict") =>
              runs[task.run].version > task.version
        /\ task.stage = "load" /\ task.run = projection.run /\ task.answer.kind = "ok" =>
              task.answer.shown.state.version > task.version

LearnerInv ==
    /\ RunsAreRuns
    /\ TaskIsInOrder
    /\ AnswerIsToTheTask
    /\ ScreenIsPast
    /\ PublishedBeforeFeedback
    /\ CommandIsOfTheStateShown
    /\ FeedbackIsOfTheRunShown

-----------------------------------------------------------------------------
(* The author's screen: the invariant *)

\* A draft is offered only while nothing is open that could take its place.
OfferedWhileClosed ==
    offered # NoPack =>
        /\ pack = NoPack /\ undoHistory = <<>> /\ redoHistory = <<>>
        /\ ~saveDue /\ upload = NoUpload

AuthorInv == SavedDraftIsStored /\ OfferedWhileClosed

-----------------------------------------------------------------------------
(* The builder *)

\* Every control of the builder edits the draft that is open: without one it does nothing
\* (commitChange).
LEMMA EditsAnOpenDraft == Edit => pack # NoPack
<1> SUFFICES ASSUME Edit PROVE pack # NoPack
  OBVIOUS
<1>1. \A updated : commitChange(updated) => pack # NoPack
  BY Zenon DEF commitChange
<1>2. CASE RenameRecord \/ Reword \/ RemoveRecord \/ Assign \/ Check
  BY Zenon, <1>1, <1>2 DEF RenameRecord, Reword, RemoveRecord, Assign, Check
<1>3. CASE AddScenario \/ AddMode \/ SetOutcome \/ EditOutcomeModels
  BY Zenon, <1>1, <1>3 DEF AddScenario, AddMode, SetOutcome, EditOutcomeModels
<1>4. CASE AddParticipant \/ AddEvidence \/ SetPolicy \/ SetAccess
  BY Zenon, <1>1, <1>4 DEF AddParticipant, AddEvidence, SetPolicy, SetAccess
<1>5. CASE AddNode \/ ChangeNode
  BY Zenon, <1>1, <1>5 DEF AddNode, ChangeNode
<1>6. CASE EditDecision \/ SetWhen
  BY Zenon, <1>1, <1>6 DEF EditDecision, SetWhen
<1>7. CASE AddToFrameworks \/ EditTargets \/ AddToRubrics
  BY Zenon, <1>1, <1>7 DEF AddToFrameworks, EditTargets, AddToRubrics
<1> QED
  BY <1>2, <1>3, <1>4, <1>5, <1>6, <1>7 DEF Edit

LEMMA NoPackIsClosed == ~IsEditable(NoPack)
BY DEF IsEditable, NoPack

LEMMA AuthorInit == Init => AuthorInv
BY NoPackIsClosed DEF Init, Opened, AuthorInv, SavedDraftIsStored, OfferedWhileClosed

LEMMA AuthorNext == AuthorInv /\ [Next]_vars => AuthorInv'
<1> SUFFICES ASSUME AuthorInv, [Next]_vars PROVE AuthorInv'
  OBVIOUS
<1> USE DEF AuthorInv, SavedDraftIsStored, OfferedWhileClosed
<1>1. CASE Typing
  <2>1. offered = NoPack
    <3>1. CASE Edit
      BY <3>1, EditsAnOpenDraft
    <3>2. CASE Undo \/ Redo
      BY <3>2 DEF Undo, Redo
    <3> QED
      BY <1>1, <3>1, <3>2 DEF Typing, BuilderNext
  <2> QED
    BY <1>1, <2>1 DEF Typing
<1>2. CASE SaveDraft
  BY <1>2 DEF SaveDraft, builder, waiting
<1>3. CASE restoreDraft
  BY <1>3 DEF restoreDraft, OpenBuilder, waiting
<1>4. CASE DiscardDraft
  BY <1>4, NoPackIsClosed DEF DiscardDraft, clearStoredDraft, builder, waiting
<1>5. CASE startNewScenario
  BY <1>5 DEF startNewScenario, beginCandidate, clearStoredDraft
<1>6. CASE \E p \in Files : selectFile(p)
  BY <1>6 DEF selectFile, builder, browser
<1>7. CASE FileRead
  BY <1>7, NoPackIsClosed DEF FileRead, beginCandidate, clearStoredDraft, CloseBuilder
<1>8. CASE validate \/ importCandidate \/ editPack \/ publish \/ retire
  BY <1>8 DEF validate, importCandidate, editPack, publish, retire, Ask, builder, browser
<1>9. CASE ValidateAnswered \/ LifecycleAnswered
  BY <1>9 DEF ValidateAnswered, LifecycleAnswered, Answered, ScreenStays, builder, browser
<1>10. CASE ImportAnswered
  BY <1>10, NoPackIsClosed
  DEF ImportAnswered, Answered, ScreenStays, CloseBuilder, clearStoredDraft, builder, browser
<1>11. CASE EditAnswered
  BY <1>11
  DEF EditAnswered, Answered, ScreenStays, beginCandidate, clearStoredDraft, builder, browser
<1>12. CASE StartUpload
  BY <1>12, NoPackIsClosed DEF StartUpload, builder, browser
<1>13. CASE UploadAnswered
  BY <1>13 DEF UploadAnswered, ScreenStays, builder, browser
<1>14. CASE Leave
  BY <1>14, NoPackIsClosed DEF Leave, CloseBuilder
<1>15. CASE UNCHANGED vars
  BY <1>15 DEF vars, builder, browser, waiting
<1> QED
  BY <1>1, <1>2, <1>3, <1>4, <1>5, <1>6, <1>7, <1>8, <1>9, <1>10, <1>11, <1>12, <1>13,
     <1>14, <1>15 DEF Next, Screen

\* A draft the screen calls safe is in the browser's storage as it is on the screen, and a
\* draft that is offered is still there (persistStoredDraft, restoreDraft and the handlers
\* of scenario-author-screen.tsx).
THEOREM SavedDraftsAreStored == Spec => []SavedDraftIsStored
<1>1. AuthorInv => SavedDraftIsStored
  BY DEF AuthorInv
<1> QED
  BY <1>1, AuthorInit, AuthorNext, PTL DEF Spec

-----------------------------------------------------------------------------
(* The learner's screen: the server's runs only go on *)

LEMMA SequenceGrows ==
    ASSUME NEW s, IsSequence(s), NEW x
    PROVE  /\ IsSequence(Append(s, x))
           /\ Len(s) \in Nat
           /\ DOMAIN s = 1..Len(s)
           /\ DOMAIN Append(s, x) = DOMAIN s \union {Len(s) + 1}
           /\ \A i \in DOMAIN s : Append(s, x)[i] = s[i]
           /\ Append(s, x)[Len(s) + 1] = x
<1> DEFINE S == {s[i] : i \in DOMAIN s} \union {x}
           t == Append(s, x)
<1>1. s \in Seq(S) /\ x \in S
  BY DEF IsSequence
<1>2. /\ Len(s) \in Nat /\ DOMAIN s = 1..Len(s)
      /\ t \in Seq(S) /\ Len(t) = Len(s) + 1
      /\ \A i \in 1..Len(s) : t[i] = s[i]
      /\ t[Len(s) + 1] = x
  <2> HIDE DEF S
  <2> QED
    BY <1>1
<1>3. DOMAIN t = 1..(Len(s) + 1) /\ Len(t) \in Nat
  BY <1>2
<1>4. t \in Seq({t[i] : i \in DOMAIN t})
  <2>1. \A i \in 1..Len(t) : t[i] \in {t[j] : j \in DOMAIN t}
    BY <1>2, <1>3
  <2> HIDE DEF t, S
  <2>2. t = [i \in 1..Len(t) |-> t[i]]
    BY <1>2
  <2> QED
    BY <2>1, <2>2, <1>3, IsASeq
<1> QED
  BY <1>2, <1>3, <1>4 DEF IsSequence

LEMMA SequenceChanges ==
    ASSUME NEW s, IsSequence(s), NEW k \in DOMAIN s, NEW x
    PROVE  /\ IsSequence([s EXCEPT ![k] = x])
           /\ DOMAIN [s EXCEPT ![k] = x] = DOMAIN s
           /\ [s EXCEPT ![k] = x][k] = x
           /\ \A i \in DOMAIN s \ {k} : [s EXCEPT ![k] = x][i] = s[i]
<1> DEFINE t == [s EXCEPT ![k] = x]
<1>1. Len(s) \in Nat /\ DOMAIN s = 1..Len(s) /\ s = [i \in 1..Len(s) |-> s[i]]
  BY DEF IsSequence
<1>2. /\ t = [i \in 1..Len(s) |-> t[i]]
      /\ t[k] = x
      /\ \A i \in DOMAIN s \ {k} : t[i] = s[i]
  BY <1>1
<1>3. DOMAIN t = 1..Len(s)
  BY <1>2
<1>4. IsSequence(t)
  <2>1. \A i \in 1..Len(s) : t[i] \in {t[j] : j \in DOMAIN t}
    BY <1>3
  <2> HIDE DEF t
  <2> QED
    BY <2>1, <1>1, <1>2, <1>3 DEF IsSequence
<1> QED
  BY <1>1, <1>2, <1>3, <1>4

LEMMA RunGoesOn ==
    ASSUME NEW run, IsRun(run), NEW command
    PROVE  IsRun(After(run, command)) /\ After(run, command).version = run.version + 1
<1> DEFINE next == After(run, command)
<1>1. \/ next = [run EXCEPT !.version = @ + 1, !.requested = @ \union command.values]
      \/ next = [run EXCEPT !.version = @ + 1, !.inspected = @ \union command.values]
      \/ next = [run EXCEPT !.version = @ + 1, !.node = @ + 1]
  BY Zenon DEF After
<1> HIDE DEF next
<1>2. PICK f, x :
          /\ f \in RunFields \ {"version"}
          /\ next = [run EXCEPT !.version = @ + 1, ![f] = x]
  BY <1>1 DEF RunFields
<1>3. run.version + 1 \in Nat /\ next.version = run.version + 1
  BY <1>2 DEF IsRun, RunFields
<1>4. next = [g \in RunFields |-> next[g]]
  BY <1>2 DEF IsRun, RunFields
<1>5. IsRun(next) /\ next.version = run.version + 1
  BY <1>3, <1>4 DEF IsRun
<1> QED
  BY <1>5 DEF next

\* Every run stays, as it is or in a later version.
RunsGoOn ==
    /\ DOMAIN runs \subseteq DOMAIN runs'
    /\ \A r \in DOMAIN runs : runs'[r] = runs[r] \/ runs'[r].version > runs[r].version
    /\ RunsAreRuns'

LEMMA RunsStay == ASSUME RunsAreRuns, UNCHANGED runs PROVE RunsGoOn
BY DEF RunsGoOn, RunsAreRuns

LEMMA RunStarts ==
    ASSUME RunsAreRuns, ServeStart
    PROVE  RunsGoOn /\ Len(runs) + 1 \in DOMAIN runs'
<1> DEFINE new == NewRun(task.assignment)
<1>1. IsRun(new)
  BY DEF NewRun, IsRun, RunFields
<1>2. runs' = Append(runs, new)
  BY DEF ServeStart
<1> HIDE DEF new
<1> QED
  BY <1>1, <1>2, SequenceGrows DEF RunsGoOn, RunsAreRuns

\* A run that is replaced by a later version of it.
LEMMA RunIsPlayed ==
    ASSUME RunsAreRuns, NEW r \in DOMAIN runs, NEW later, IsRun(later),
           later.version = runs[r].version + 1, runs' = [runs EXCEPT ![r] = later]
    PROVE  RunsGoOn /\ runs'[r] = later
<1>1. /\ IsSequence(runs') /\ DOMAIN runs' = DOMAIN runs /\ runs'[r] = later
      /\ \A s \in DOMAIN runs \ {r} : runs'[s] = runs[s]
  BY SequenceChanges DEF RunsAreRuns
<1>2. runs[r].version \in Nat
  BY DEF RunsAreRuns, IsRun
<1> QED
  BY <1>1, <1>2 DEF RunsGoOn, RunsAreRuns

LEMMA PastStaysPast ==
    ASSUME RunsAreRuns, RunsGoOn
    PROVE  /\ \A shown : IsPast(runs, shown) => IsPast(runs', shown)
           /\ \A l : IsListing(runs, l) => IsListing(runs', l)
<1>1. ASSUME NEW shown, IsPast(runs, shown) PROVE IsPast(runs', shown)
  BY <1>1 DEF RunsGoOn, RunsAreRuns, IsRun, IsPast
<1>2. ASSUME NEW l, IsListing(runs, l) PROVE IsListing(runs', l)
  BY <1>2 DEF RunsGoOn, IsListing
<1> QED
  BY <1>1, <1>2

\* A set of numbers up to n that is not empty has a last one: the least of its bounds.
LEMMA NumbersHaveALast ==
    ASSUME NEW n \in Nat, NEW S \in SUBSET (1..n), S # {}
    PROVE  \E r \in S : \A other \in S : other <= r
<1> DEFINE R == {p \in Nat \X Nat : p[1] < p[2]}
           Bounds == {k \in Nat : \A r \in S : r <= k}
<1>1. OpToRel(<, Nat) = R
  BY DEF OpToRel
<1>2. IsWellFoundedOn(R, Nat)
  BY <1>1, NatLessThanWellFounded
<1>3. \A i, j \in Nat : <<i, j>> \notin R => j <= i
  OBVIOUS
<1>4. Bounds \subseteq Nat /\ n \in Bounds
  OBVIOUS
<1>5. PICK k \in Bounds : \A j \in Bounds : k <= j
  <2> HIDE DEF R, Bounds
  <2>1. PICK k \in Bounds : \A j \in Bounds : <<j, k>> \notin R
    BY <1>2, <1>4, WFMin
  <2> QED
    BY <1>3, <1>4, <2>1
<1>6. k \in S
  <2> SUFFICES ASSUME k \notin S PROVE FALSE
    OBVIOUS
  <2>1. PICK r \in S : TRUE
    OBVIOUS
  <2>2. r < k /\ k - 1 \in Nat
    BY <2>1
  <2>3. k - 1 \in Bounds
    BY <2>2
  <2> QED
    BY <1>5, <2>3
<1> QED
  BY <1>5, <1>6

\* What is read of a run now is its past.
LEMMA ReadIsPast ==
    ASSUME RunsAreRuns
    PROVE  /\ \A r \in DOMAIN runs : IsPast(runs, Shown(r)) /\ Shown(r).run = r
           /\ IsListing(runs, Listing)
<1>1. ASSUME NEW r \in DOMAIN runs PROVE IsPast(runs, Shown(r)) /\ Shown(r).run = r
  BY DEF RunsAreRuns, IsRun, IsPast, Shown
<1>2. ASSUME NEW a \in Assignments, LatestRun(a) # 0 PROVE LatestRun(a) \in DOMAIN runs
  <2> DEFINE those == {r \in DOMAIN runs : runs[r].assignment = a}
  <2>1. Len(runs) \in Nat /\ those \subseteq 1..Len(runs)
    BY DEF RunsAreRuns, IsSequence
  <2>2. those # {}
    BY <1>2 DEF LatestRun
  <2>3. \E r \in those : \A other \in those : other <= r
    <3> HIDE DEF those
    <3> QED
      BY <2>1, <2>2, NumbersHaveALast
  <2>4. LatestRun(a) = CHOOSE r \in those : \A other \in those : other <= r
    BY Zenon, <2>2 DEF LatestRun
  <2> HIDE DEF those
  <2>5. LatestRun(a) \in those
    BY Zenon, <2>3, <2>4
  <2> QED
    BY <2>5 DEF those
<1>3. IsListing(runs, Listing)
  BY <1>2 DEF IsListing, Listing
<1> QED
  BY <1>1, <1>3

-----------------------------------------------------------------------------
(* The learner's screen: every step keeps the invariant *)

LEMMA AskedFields ==
    ASSUME NEW op, NEW stage, NEW r
    PROVE  LET u == Asks(op, stage, r)
             IN  /\ IsTask(u) /\ u.op = op /\ u.stage = stage
                 /\ u.run = r /\ u.version = 0 /\ u.answer = Nothing
                 /\ u.list = Nothing /\ ~u.conflict
BY DEF Asks, IsTask, TaskFields

\* The messages that mean nothing yet, or that nothing came.
LEMMA NoAnswer ==
    /\ Nothing.kind = "none"
    /\ \A t : IsTask(t) /\ t.op \in {"open", "start", "submit"} => t # NoTask
    /\ ~IsShown => projection = NoProjection
    /\ NoProjection.run = 0
BY DEF Nothing, NoTask, IsTask, TaskFields, NoProjection, IsShown

LEMMA LearnerStarts == LearnerInit => LearnerInv
<1> SUFFICES ASSUME LearnerInit PROVE LearnerInv
  OBVIOUS
<1>1. runs = << >> /\ task = NoTask /\ projection = NoProjection /\ feedback = null
  BY DEF LearnerInit, PageOpened
<1>2. RunsAreRuns
  BY <1>1 DEF RunsAreRuns, IsSequence
<1>3. IsListing(runs, list)
  BY <1>2, ReadIsPast DEF LearnerInit, PageOpened
<1> QED
  BY <1>1, <1>2, <1>3
  DEF LearnerInv, TaskIsInOrder, AnswerIsToTheTask, ScreenIsPast, PublishedBeforeFeedback,
      CommandIsOfTheStateShown, FeedbackIsOfTheRunShown, isBusy, IsShown

\* While only the server's runs go on, nothing that was shown stops being past.
LEMMA ScreenStaysPast ==
    ASSUME LearnerInv, RunsGoOn,
           UNCHANGED <<list, runId, projection, feedback, task, errorKey>>
    PROVE  LearnerInv'
<1>1. /\ \A shown : IsPast(runs, shown) => IsPast(runs', shown)
      /\ \A l : IsListing(runs, l) => IsListing(runs', l)
  BY PastStaysPast DEF LearnerInv
<1>2. UNCHANGED <<list, runId, projection, feedback, task, errorKey>>
  OBVIOUS
<1>3. DOMAIN runs \subseteq DOMAIN runs' /\ RunsAreRuns'
  BY DEF RunsGoOn
<1>4. TaskIsInOrder'
  BY <1>1, <1>2, <1>3 DEF LearnerInv, TaskIsInOrder, isBusy
<1>5. AnswerIsToTheTask'
  BY <1>1, <1>2, <1>3 DEF LearnerInv, AnswerIsToTheTask, isBusy
<1>6. ScreenIsPast'
  BY <1>1, <1>2, <1>3 DEF LearnerInv, ScreenIsPast, IsShown
<1>7. PublishedBeforeFeedback' /\ FeedbackIsOfTheRunShown'
  BY <1>2 DEF LearnerInv, PublishedBeforeFeedback, FeedbackIsOfTheRunShown, isBusy, IsShown
<1>8. CommandIsOfTheStateShown'
  BY <1>2
  DEF LearnerInv, CommandIsOfTheStateShown, TaskIsInOrder, isBusy, IsShown, RunsGoOn,
      RunsAreRuns, IsRun
<1> QED
  BY <1>3, <1>4, <1>5, <1>6, <1>7, <1>8 DEF LearnerInv

\* A task that is begun, for an assignment or for the run that is open.
LEMMA TaskBegins ==
    ASSUME LearnerInv, ~isBusy, UNCHANGED <<runs, list, projection, feedback>>,
           IsTask(task'), task'.op \in {"open", "start", "submit"},
           task'.answer = Nothing, task'.list = Nothing, ~task'.conflict,
           task'.version \in Nat,
           \/ /\ task'.op = "open" /\ task'.stage = "load"
              /\ task'.run \in DOMAIN runs /\ runId' = task'.run
           \/ task'.op = "start" /\ task'.stage = "post" /\ runId' = runId
           \/ /\ task'.op = "submit" /\ task'.stage = "post"
              /\ task'.run = runId /\ runId' = runId
              /\ IsShown /\ task'.version = projection.state.version
    PROVE  LearnerInv'
<1>1. ~task'.conflict /\ task'.answer.kind = "none"
  BY DEF Nothing
<1>2. RunsAreRuns'
  BY DEF LearnerInv, RunsAreRuns
<1>3. ScreenIsPast'
  BY DEF LearnerInv, ScreenIsPast, IsShown
<1>4. TaskIsInOrder'
  BY <1>1 DEF LearnerInv, TaskIsInOrder, ScreenIsPast
<1>5. AnswerIsToTheTask' /\ PublishedBeforeFeedback' /\ CommandIsOfTheStateShown'
  BY <1>1 DEF AnswerIsToTheTask, PublishedBeforeFeedback, CommandIsOfTheStateShown, IsShown
<1>6. FeedbackIsOfTheRunShown'
  BY DEF LearnerInv, FeedbackIsOfTheRunShown, IsShown
<1> QED
  BY <1>2, <1>3, <1>4, <1>5, <1>6 DEF LearnerInv

LEMMA LearnStep == ASSUME LearnerInv, Learn PROVE LearnerInv'
<1>1. CASE \E a \in Assignments : openRun(a)
  <2>1. PICK a \in Assignments : openRun(a)
    BY <1>1
  <2>2. task' = Asks("open", "load", list.latest[a]) /\ list.latest[a] \in DOMAIN runs
    BY <2>1 DEF openRun, Begin, LearnerInv, ScreenIsPast, IsListing
  <2>3. ~isBusy /\ runId' = list.latest[a] /\ UNCHANGED <<runs, list, projection, feedback>>
    BY <2>1 DEF openRun, Begin, server
  <2>4. /\ IsTask(task') /\ task'.op = "open" /\ task'.stage = "load" /\ task'.version = 0
        /\ task'.run = list.latest[a]
        /\ task'.answer = Nothing /\ task'.list = Nothing /\ ~task'.conflict
    BY <2>2, AskedFields
  <2> QED
    BY <2>2, <2>3, <2>4, TaskBegins
<1>2. CASE \E a \in Assignments : start(a)
  <2>1. PICK a \in Assignments : start(a)
    BY <1>2
  <2>2. task' = [Asks("start", "post", 0) EXCEPT !.assignment = a]
    BY <2>1 DEF start, Begin
  <2>3. ~isBusy /\ UNCHANGED <<runs, list, runId, projection, feedback>>
    BY <2>1 DEF start, Begin, server
  <2>4. /\ IsTask(task') /\ task'.op = "start" /\ task'.stage = "post" /\ task'.version = 0
        /\ task'.answer = Nothing /\ task'.list = Nothing /\ ~task'.conflict
    BY <2>2 DEF Asks, IsTask, TaskFields
  <2> QED
    BY <2>3, <2>4, TaskBegins
<1>3. CASE submit
  <2>1. PICK c : task' = [Asks("submit", "post", runId) EXCEPT !.command = c,
                                                     !.version = projection.state.version]
    BY <1>3 DEF submit, Begin
  <2>2. ~isBusy /\ IsShown /\ UNCHANGED <<runs, list, runId, projection, feedback>>
    BY <1>3 DEF submit, Begin, server
  <2>3. /\ IsTask(task') /\ task'.op = "submit" /\ task'.stage = "post"
        /\ task'.version = projection.state.version /\ task'.run = runId
        /\ task'.answer = Nothing /\ task'.list = Nothing /\ ~task'.conflict
    BY <2>1 DEF Asks, IsTask, TaskFields
  <2>4. projection.state.version \in Nat
    BY <2>2 DEF LearnerInv, ScreenIsPast, IsPast
  <2> QED
    BY <2>2, <2>3, <2>4, TaskBegins
<1> QED
  BY <1>1, <1>2, <1>3 DEF Learn

\* What an answer x to the task says is true of the server's runs rs.
IsTrueOf(rs, x) ==
    /\ x.kind = "conflict" => task.op = "submit" /\ task.stage = "post"
    /\ x.kind = "ok" =>
          /\ task.stage = "load" \/ (task.stage = "post" /\ task.op = "submit") =>
                IsPast(rs, x.shown) /\ x.shown.run = task.run
          /\ task.stage = "post" /\ task.op = "start" => x.run \in DOMAIN rs
          /\ task.stage \in {"load", "list"} => IsListing(rs, x.list)
    /\ task.op = "submit" /\ task.run = projection.run =>
          /\ x.kind = "conflict" => rs[task.run].version > task.version
          /\ x.kind = "ok" /\ task.stage = "load" => x.shown.state.version > task.version

LEMMA ServerAnswers ==
    ASSUME LearnerInv, RunsGoOn, UNCHANGED <<list, runId, projection, feedback>>, isBusy,
           NEW x, task' = [task EXCEPT !.answer = x], IsTrueOf(runs', x)
    PROVE  LearnerInv'
<1>1. /\ IsTask(task) /\ task.op \in {"open", "start", "submit"} /\ task.version \in Nat
  BY DEF LearnerInv, TaskIsInOrder
<1>2. /\ IsTask(task') /\ task'.op = task.op /\ task'.stage = task.stage
      /\ task'.run = task.run /\ task'.version = task.version /\ task'.answer = x
      /\ task'.list = task.list /\ (task'.conflict <=> task.conflict)
  BY <1>1 DEF IsTask, TaskFields
<1>3. /\ \A shown : IsPast(runs, shown) => IsPast(runs', shown)
      /\ \A l : IsListing(runs, l) => IsListing(runs', l)
  BY PastStaysPast DEF LearnerInv
<1>4. DOMAIN runs \subseteq DOMAIN runs' /\ RunsAreRuns'
  BY DEF RunsGoOn
<1>5. TaskIsInOrder'
  BY <1>1, <1>2, <1>3, <1>4 DEF LearnerInv, TaskIsInOrder
<1>6. AnswerIsToTheTask'
  BY <1>2 DEF AnswerIsToTheTask, IsTrueOf
<1>7. ScreenIsPast'
  BY <1>3, <1>4 DEF LearnerInv, ScreenIsPast, IsShown
<1>8. PublishedBeforeFeedback' /\ FeedbackIsOfTheRunShown'
  BY <1>2 DEF LearnerInv, PublishedBeforeFeedback, FeedbackIsOfTheRunShown, IsShown
<1>9. CommandIsOfTheStateShown'
  <2>1. task.op = "submit" /\ task.stage \in {"post", "load"} /\ task.run = projection.run
           /\ task.conflict => runs'[task.run].version > task.version
    BY <1>1
    DEF LearnerInv, TaskIsInOrder, CommandIsOfTheStateShown, RunsGoOn, RunsAreRuns, IsRun
  <2>2. task.op = "submit" /\ task.stage = "post"
           => IsShown' /\ task'.version = projection'.state.version
    BY <1>2 DEF LearnerInv, CommandIsOfTheStateShown, IsShown
  <2> QED
    BY <1>2, <2>1, <2>2 DEF CommandIsOfTheStateShown, IsTrueOf
<1> QED
  BY <1>4, <1>5, <1>6, <1>7, <1>8, <1>9 DEF LearnerInv

LEMMA ServeStep == ASSUME LearnerInv, Serve \/ Lose PROVE LearnerInv'
<1>1. UNCHANGED <<list, runId, projection, feedback>> /\ isBusy
  BY DEF Serve, ServeStart, ServeCommand, ServeLoad, ServeList, ServeFeedback, Lose, IsAsked,
     ScreenWaits
<1>2. RunsAreRuns
  BY DEF LearnerInv
<1>3. CASE ServeStart
  <2>1. RunsGoOn /\ Len(runs) + 1 \in DOMAIN runs'
    BY <1>2, <1>3, RunStarts
  <2> DEFINE x == [kind |-> "ok", run |-> Len(runs) + 1]
  <2>2. task' = [task EXCEPT !.answer = x] /\ task.op = "start" /\ task.stage = "post"
    BY <1>3 DEF ServeStart, Reply, IsAsked
  <2>3. IsTrueOf(runs', x)
    BY <2>1, <2>2 DEF IsTrueOf
  <2> HIDE DEF x
  <2> QED
    BY <1>1, <2>1, <2>2, <2>3, ServerAnswers
<1>4. CASE ServeCommand
  <2>1. /\ task.op = "submit" /\ task.stage = "post" /\ task.run \in DOMAIN runs
        /\ IsShown /\ task.version = projection.state.version
    BY <1>4, <1>1
    DEF ServeCommand, IsAsked, LearnerInv, TaskIsInOrder, CommandIsOfTheStateShown
  <2>2. CASE task.version # runs[task.run].version
    <3> DEFINE x == [kind |-> "conflict"]
    <3>1. task' = [task EXCEPT !.answer = x] /\ UNCHANGED runs
      BY <1>4, <2>2 DEF ServeCommand, Reply
    <3>2. task.run = projection.run => runs[task.run].version > task.version
      BY <2>1, <2>2 DEF LearnerInv, ScreenIsPast, IsPast, RunsAreRuns, IsRun
    <3>3. IsTrueOf(runs', x)
      BY <2>1, <3>1, <3>2 DEF IsTrueOf
    <3>4. RunsGoOn
      BY <1>2, <3>1, RunsStay
    <3> HIDE DEF x
    <3> QED
      BY <1>1, <3>1, <3>3, <3>4, ServerAnswers
  <2>3. CASE task.version = runs[task.run].version /\ Fits(runs[task.run], task.command)
    <3> DEFINE later == After(runs[task.run], task.command)
               x == [kind |-> "ok", shown |-> [run |-> task.run, state |-> later]]
    <3>1. IsRun(later) /\ later.version = runs[task.run].version + 1
      BY <1>2, <2>1, RunGoesOn DEF RunsAreRuns
    <3>2. runs' = [runs EXCEPT ![task.run] = later]
      BY <1>4, <2>3 DEF ServeCommand
    <3>3. RunsGoOn /\ runs'[task.run] = later
      <4> HIDE DEF later
      <4> QED
        BY <1>2, <2>1, <3>1, <3>2, RunIsPlayed
    <3>4. task' = [task EXCEPT !.answer = x]
      BY <1>4, <2>3, <3>3 DEF ServeCommand, Reply
    <3>5. IsPast(runs', [run |-> task.run, state |-> later])
      <4> HIDE DEF later
      <4> QED
        BY <2>1, <3>1, <3>3 DEF IsPast, RunsGoOn, IsRun
    <3>6. IsTrueOf(runs', x)
      <4> HIDE DEF later
      <4> QED
        BY <2>1, <3>5 DEF IsTrueOf
    <3> HIDE DEF x
    <3> QED
      BY <1>1, <3>3, <3>4, <3>6, ServerAnswers
  <2>4. CASE task.version = runs[task.run].version /\ ~Fits(runs[task.run], task.command)
    <3> DEFINE x == [kind |-> "refused"]
    <3>1. task' = [task EXCEPT !.answer = x] /\ UNCHANGED runs
      BY <1>4, <2>4 DEF ServeCommand, Reply
    <3>2. IsTrueOf(runs', x) /\ RunsGoOn
      BY <1>2, <3>1, RunsStay DEF IsTrueOf
    <3> HIDE DEF x
    <3> QED
      BY <1>1, <3>1, <3>2, ServerAnswers
  <2> QED
    BY <2>2, <2>3, <2>4
<1>5. CASE ServeLoad
  <2> DEFINE x == [kind |-> "ok", shown |-> Shown(task.run), list |-> Listing]
  <2>1. task' = [task EXCEPT !.answer = x] /\ task.stage = "load" /\ UNCHANGED runs
    BY <1>5 DEF ServeLoad, Reply, IsAsked, server
  <2>2. task.run \in DOMAIN runs /\ (task.op = "submit" => task.conflict)
        /\ task.version \in Nat
    BY <1>1, <2>1 DEF LearnerInv, TaskIsInOrder
  <2>3. IsPast(runs, Shown(task.run)) /\ Shown(task.run).run = task.run
        /\ IsListing(runs, Listing)
    BY <1>2, <2>2, ReadIsPast
  <2>4. task.op = "submit" /\ task.run = projection.run =>
            Shown(task.run).state.version > task.version
    BY <1>1, <2>1, <2>2 DEF LearnerInv, CommandIsOfTheStateShown, Shown
  <2>5. IsTrueOf(runs', x) /\ RunsGoOn
    BY <1>2, <2>1, <2>3, <2>4, RunsStay DEF IsTrueOf
  <2> HIDE DEF x
  <2> QED
    BY <1>1, <2>1, <2>5, ServerAnswers
<1>6. CASE ServeList
  <2> DEFINE x == [kind |-> "ok", list |-> Listing]
  <2>1. task' = [task EXCEPT !.answer = x] /\ task.stage = "list" /\ UNCHANGED runs
    BY <1>6 DEF ServeList, Reply, IsAsked, server
  <2>2. IsTrueOf(runs', x) /\ RunsGoOn
    BY <1>2, <2>1, RunsStay, ReadIsPast DEF IsTrueOf
  <2> HIDE DEF x
  <2> QED
    BY <1>1, <2>1, <2>2, ServerAnswers
<1>7. CASE ServeFeedback
  <2>1. PICK k \in {"ok", "withheld"} : task' = [task EXCEPT !.answer = [kind |-> k]]
    BY <1>7 DEF ServeFeedback, Reply
  <2> DEFINE x == [kind |-> k]
  <2>2. task.stage = "feedback" /\ UNCHANGED runs
    BY <1>7 DEF ServeFeedback, IsAsked, server
  <2>3. IsTrueOf(runs', x) /\ RunsGoOn
    BY <1>2, <2>2, RunsStay DEF IsTrueOf
  <2> QED
    BY <1>1, <2>1, <2>3, ServerAnswers
<1>8. CASE Lose
  <2> DEFINE x == [kind |-> "failed"]
  <2>1. task' = [task EXCEPT !.answer = x] /\ UNCHANGED runs
    BY <1>8 DEF Lose, Reply, server
  <2>2. IsTrueOf(runs', x) /\ RunsGoOn
    BY <1>2, <2>1, RunsStay DEF IsTrueOf
  <2> HIDE DEF x
  <2> QED
    BY <1>1, <2>1, <2>2, ServerAnswers
<1> QED
  BY <1>3, <1>4, <1>5, <1>6, <1>7, <1>8 DEF Serve

-----------------------------------------------------------------------------
(* The learner's screen: what it makes of the answers *)

\* A task that ends, or goes on to the next request, with nothing else displayed.
LEMMA TaskGoesOn ==
    ASSUME LearnerInv, UNCHANGED <<runs, runId, projection>>, isBusy,
           IsListing(runs, list'),
           \/ task' = NoTask
           \/ /\ IsTask(task') /\ task'.op = task.op /\ task'.version = task.version
              /\ task'.run \in DOMAIN runs /\ task'.answer = Nothing
              /\ task.op # "start" => task'.run = task.run
              /\ task'.list # Nothing => IsListing(runs, task'.list)
              /\ \/ /\ task'.stage = "load" /\ task.op \in {"start", "submit"}
                    /\ task.op = "submit" <=> task'.conflict
                    /\ task.op = "submit" /\ task'.run = projection.run
                          => runs[task'.run].version > task.version
                 \/ /\ task'.stage \in {"list", "feedback"}
                    /\ task'.conflict => task.op = "submit"
                    /\ IsShown /\ projection.run = task'.run
                    /\ permittedActionIds(projection.state) = {},
           FeedbackIsOfTheRunShown'
    PROVE  LearnerInv'
<1>1. RunsAreRuns' /\ ScreenIsPast'
  BY DEF LearnerInv, RunsAreRuns, ScreenIsPast, IsShown
<1>2. CASE task' = NoTask
  BY <1>1, <1>2
  DEF LearnerInv, TaskIsInOrder, AnswerIsToTheTask, PublishedBeforeFeedback,
      CommandIsOfTheStateShown, isBusy
<1>3. CASE task' # NoTask
  <2>1. task.op \in {"open", "start", "submit"} /\ task.version \in Nat
    BY DEF LearnerInv, TaskIsInOrder
  <2>2. task'.answer.kind = "none"
    BY <1>3 DEF Nothing
  <2>3. TaskIsInOrder'
    BY <1>3, <2>1 DEF LearnerInv, TaskIsInOrder
  <2>4. AnswerIsToTheTask'
    BY <2>2 DEF AnswerIsToTheTask
  <2>5. PublishedBeforeFeedback'
    BY <1>3 DEF PublishedBeforeFeedback, IsShown
  <2>6. CommandIsOfTheStateShown'
    BY <1>3, <2>2 DEF CommandIsOfTheStateShown
  <2> QED
    BY <1>1, <2>3, <2>4, <2>5, <2>6 DEF LearnerInv
<1> QED
  BY <1>2, <1>3

\* The state of a run is displayed: its feedback is asked for when it is over.
LEMMA ProjectionIsPublished ==
    ASSUME LearnerInv, UNCHANGED runs, isBusy, NEW shown, NEW t, publishProjection(shown, t),
           IsPast(runs, shown), shown.run = t.run, runId' = t.run,
           IsTask(t), t.op = task.op, t.version \in Nat,
           t.list # Nothing => IsListing(runs, t.list),
           t.conflict => t.op = "submit"
    PROVE  LearnerInv'
<1>1. /\ projection' = shown /\ feedback' = null
      /\ IF permittedActionIds(shown.state) # {} THEN Finish(t)
         ELSE /\ task' = [t EXCEPT !.stage = "list", !.answer = Nothing]
              /\ UNCHANGED <<list, errorKey>>
  BY DEF publishProjection
<1>2. IsListing(runs, list')
  BY <1>1 DEF Finish, LearnerInv, ScreenIsPast
<1>3. RunsAreRuns' /\ ScreenIsPast' /\ FeedbackIsOfTheRunShown'
  BY <1>1, <1>2 DEF LearnerInv, RunsAreRuns, ScreenIsPast, FeedbackIsOfTheRunShown, IsPast
<1>4. IsShown'
  <2>1. 0 \notin DOMAIN runs
    BY DEF LearnerInv, RunsAreRuns, IsSequence
  <2> QED
    BY <1>1, <2>1, NoAnswer DEF IsShown, IsPast
<1>5. CASE task' = NoTask
  BY <1>3, <1>5
  DEF LearnerInv, TaskIsInOrder, AnswerIsToTheTask, PublishedBeforeFeedback,
      CommandIsOfTheStateShown, isBusy
<1>6. CASE task' # NoTask
  <2>1. /\ permittedActionIds(shown.state) = {}
        /\ task' = [t EXCEPT !.stage = "list", !.answer = Nothing]
    BY <1>1, <1>6 DEF Finish
  <2>2. /\ IsTask(task') /\ task'.op = t.op /\ task'.stage = "list" /\ task'.run = t.run
        /\ task'.version = t.version /\ task'.answer = Nothing /\ task'.list = t.list
        /\ (task'.conflict <=> t.conflict)
    BY <2>1 DEF IsTask, TaskFields
  <2>3. task.op \in {"open", "start", "submit"}
    BY DEF LearnerInv, TaskIsInOrder
  <2>4. t.run \in DOMAIN runs /\ task'.answer.kind = "none"
    BY <2>2 DEF IsPast, Nothing
  <2>5. TaskIsInOrder'
    BY <2>2, <2>3, <2>4 DEF TaskIsInOrder
  <2>6. AnswerIsToTheTask' /\ CommandIsOfTheStateShown'
    BY <2>2, <2>4 DEF AnswerIsToTheTask, CommandIsOfTheStateShown
  <2>7. PublishedBeforeFeedback'
    BY <1>1, <1>4, <2>1, <2>2 DEF PublishedBeforeFeedback
  <2> QED
    BY <1>3, <2>5, <2>6, <2>7 DEF LearnerInv
<1> QED
  BY <1>5, <1>6

LEMMA ReceiveStep == ASSUME LearnerInv, Receive PROVE LearnerInv'
<1>1. isBusy /\ UNCHANGED runs
  BY DEF Receive, OpenAnswered, StartAnswered, StartLoaded, SubmitAnswered, SubmitConflicts,
     ConflictLoaded, ListAnswered, FeedbackAnswered, Failed, Succeeded, IsAnswered, server
<1>2. /\ IsTask(task) /\ task.op \in {"open", "start", "submit"} /\ task.version \in Nat
      /\ task.conflict => task.op = "submit" /\ task.stage # "post"
      /\ task.list # Nothing => IsListing(runs, task.list)
      /\ IsListing(runs, list)
  BY <1>1 DEF LearnerInv, TaskIsInOrder, ScreenIsPast
<1>3. CASE OpenAnswered
  <2>1. /\ publishProjection(task.answer.shown, task) /\ runId' = runId
        /\ task.op = "open" /\ task.stage = "load" /\ task.answer.kind = "ok"
    BY <1>3 DEF OpenAnswered, Succeeded, IsAnswered
  <2>2. IsPast(runs, task.answer.shown) /\ task.answer.shown.run = task.run
    BY <1>1, <2>1 DEF LearnerInv, AnswerIsToTheTask
  <2>3. runId' = task.run
    BY <1>1, <2>1 DEF LearnerInv, TaskIsInOrder
  <2> QED
    BY <1>1, <1>2, <2>1, <2>2, <2>3, ProjectionIsPublished
<1>4. CASE StartAnswered
  <2>1. /\ task.op = "start" /\ task.stage = "post" /\ task.answer.kind = "ok"
        /\ task' = [AskNext("load") EXCEPT !.run = task.answer.run]
        /\ UNCHANGED <<list, runId, projection, feedback>>
    BY <1>4 DEF StartAnswered, Succeeded, IsAnswered, ScreenWaits
  <2>2. task.answer.run \in DOMAIN runs
    BY <1>1, <2>1 DEF LearnerInv, AnswerIsToTheTask
  <2>3. /\ IsTask(task') /\ task'.op = "start" /\ task'.stage = "load"
        /\ task'.run = task.answer.run /\ task'.version = task.version
        /\ task'.answer = Nothing /\ task'.list = task.list /\ ~task'.conflict
    BY <1>2, <2>1 DEF AskNext, IsTask, TaskFields
  <2>4. FeedbackIsOfTheRunShown'
    BY <2>1 DEF LearnerInv, FeedbackIsOfTheRunShown, IsShown
  <2> QED
    BY <1>1, <1>2, <2>1, <2>2, <2>3, <2>4, TaskGoesOn
<1>5. CASE StartLoaded
  <2> DEFINE t == [task EXCEPT !.list = task.answer.list]
  <2>1. /\ publishProjection(task.answer.shown, t) /\ runId' = task.run
        /\ task.op = "start" /\ task.stage = "load" /\ task.answer.kind = "ok"
    BY <1>5 DEF StartLoaded, Succeeded, IsAnswered
  <2>2. /\ IsPast(runs, task.answer.shown) /\ task.answer.shown.run = task.run
        /\ IsListing(runs, task.answer.list)
    BY <1>1, <2>1 DEF LearnerInv, AnswerIsToTheTask
  <2>3. /\ IsTask(t) /\ t.op = task.op /\ t.run = task.run /\ t.version = task.version
        /\ t.list = task.answer.list /\ ~t.conflict
    BY <1>2, <2>1 DEF IsTask, TaskFields
  <2> HIDE DEF t
  <2> QED
    BY <1>1, <1>2, <2>1, <2>2, <2>3, ProjectionIsPublished
<1>6. CASE SubmitAnswered
  <2>1. /\ publishProjection(task.answer.shown, task) /\ runId' = runId
        /\ task.op = "submit" /\ task.stage = "post" /\ task.answer.kind = "ok"
    BY <1>6 DEF SubmitAnswered, Succeeded, IsAnswered
  <2>2. IsPast(runs, task.answer.shown) /\ task.answer.shown.run = task.run
    BY <1>1, <2>1 DEF LearnerInv, AnswerIsToTheTask
  <2>3. runId' = task.run
    BY <1>1, <2>1 DEF LearnerInv, TaskIsInOrder
  <2> QED
    BY <1>1, <1>2, <2>1, <2>2, <2>3, ProjectionIsPublished
<1>7. CASE SubmitConflicts
  <2>1. /\ task.answer.kind = "conflict" /\ task' = [AskNext("load") EXCEPT !.conflict = TRUE]
        /\ UNCHANGED <<list, runId, projection, feedback>>
    BY <1>7 DEF SubmitConflicts, IsAnswered, ScreenWaits
  <2>2. /\ task.op = "submit" /\ task.stage = "post"
        /\ task.run \in DOMAIN runs
        /\ task.run = projection.run => runs[task.run].version > task.version
    BY <1>1, <2>1
    DEF LearnerInv, AnswerIsToTheTask, TaskIsInOrder, CommandIsOfTheStateShown
  <2>3. /\ IsTask(task') /\ task'.op = "submit" /\ task'.stage = "load"
        /\ task'.run = task.run /\ task'.version = task.version
        /\ task'.answer = Nothing /\ task'.list = task.list /\ task'.conflict
    BY <1>2, <2>1, <2>2 DEF AskNext, IsTask, TaskFields
  <2>4. FeedbackIsOfTheRunShown'
    BY <2>1 DEF LearnerInv, FeedbackIsOfTheRunShown, IsShown
  <2> QED
    BY <1>1, <1>2, <2>1, <2>2, <2>3, <2>4, TaskGoesOn
<1>8. CASE ConflictLoaded
  <2> DEFINE t == [task EXCEPT !.list = task.answer.list]
  <2>1. /\ publishProjection(task.answer.shown, t) /\ runId' = runId
        /\ task.op = "submit" /\ task.stage = "load" /\ task.answer.kind = "ok"
    BY <1>8 DEF ConflictLoaded, Succeeded, IsAnswered
  <2>2. /\ IsPast(runs, task.answer.shown) /\ task.answer.shown.run = task.run
        /\ IsListing(runs, task.answer.list) /\ runId = task.run
    BY <1>1, <2>1 DEF LearnerInv, AnswerIsToTheTask, TaskIsInOrder
  <2>3. /\ IsTask(t) /\ t.op = task.op /\ t.run = task.run /\ t.version = task.version
        /\ t.list = task.answer.list
    BY <1>2, <2>1 DEF IsTask, TaskFields
  <2> HIDE DEF t
  <2> QED
    BY <1>1, <1>2, <2>1, <2>2, <2>3, ProjectionIsPublished
<1>9. CASE ListAnswered
  <2>1. PICK known :
            /\ known = IF task.answer.kind = "ok" THEN task.answer.list ELSE list
            /\ IF task.run \in known.runs /\ runs[task.run].assignment \notin known.released
               THEN /\ feedback' = withheld
                    /\ Finish([task EXCEPT !.list = IF @ = Nothing THEN known ELSE @])
               ELSE /\ task' = AskNext("feedback") /\ list' = known
                    /\ UNCHANGED <<feedback, errorKey>>
    BY Zenon, <1>9 DEF ListAnswered
  <2>2. task.stage = "list" /\ UNCHANGED <<runId, projection>>
    BY <1>9 DEF ListAnswered, IsAnswered
  <2>3. /\ IsShown /\ projection.run = task.run
        /\ permittedActionIds(projection.state) = {}
        /\ IsListing(runs, known) /\ task.run \in DOMAIN runs
    BY <1>1, <1>2, <2>1, <2>2
    DEF LearnerInv, PublishedBeforeFeedback, AnswerIsToTheTask, TaskIsInOrder
  <2>4. CASE /\ feedback' = withheld
             /\ Finish([task EXCEPT !.list = IF @ = Nothing THEN known ELSE @])
    <3> DEFINE t == [task EXCEPT !.list = IF @ = Nothing THEN known ELSE @]
    <3>1. t.list = IF task.list = Nothing THEN known ELSE task.list
      BY <1>2 DEF IsTask, TaskFields
    <3>2. task' = NoTask /\ list' = IF t.list = Nothing THEN list ELSE t.list
      BY <2>4 DEF Finish
    <3>3. IsListing(runs, list')
      BY <1>2, <2>3, <3>1, <3>2
    <3>4. FeedbackIsOfTheRunShown'
      BY <2>2, <2>3, <2>4 DEF FeedbackIsOfTheRunShown, IsShown
    <3> QED
      BY <1>1, <2>2, <3>2, <3>3, <3>4, TaskGoesOn
  <2>5. CASE task' = AskNext("feedback") /\ list' = known /\ feedback' = feedback
    <3>1. /\ IsTask(task') /\ task'.op = task.op /\ task'.stage = "feedback"
          /\ task'.run = task.run /\ task'.version = task.version
          /\ task'.answer = Nothing /\ task'.list = task.list
          /\ (task'.conflict <=> task.conflict)
      BY <1>2, <2>5 DEF AskNext, IsTask, TaskFields
    <3>2. FeedbackIsOfTheRunShown'
      BY <2>2, <2>5 DEF LearnerInv, FeedbackIsOfTheRunShown, IsShown
    <3> QED
      BY <1>1, <1>2, <2>2, <2>3, <2>5, <3>1, <3>2, TaskGoesOn
  <2> QED
    BY <2>1, <2>4, <2>5
<1>10. CASE FeedbackAnswered
  <2>1. /\ task.stage = "feedback" /\ UNCHANGED <<runId, projection>> /\ Finish(task)
        /\ feedback' = Feedback(task.run) \/ feedback' = withheld
    BY <1>10 DEF FeedbackAnswered, IsAnswered
  <2>2. /\ IsShown /\ projection.run = task.run
        /\ permittedActionIds(projection.state) = {}
    BY <1>1, <2>1 DEF LearnerInv, PublishedBeforeFeedback
  <2>3. task' = NoTask /\ IsListing(runs, list')
    BY <1>2, <2>1 DEF Finish
  <2>4. FeedbackIsOfTheRunShown'
    BY <2>1, <2>2 DEF FeedbackIsOfTheRunShown, IsShown, Feedback
  <2> QED
    BY <1>1, <2>1, <2>3, <2>4, TaskGoesOn
<1>11. CASE Failed
  <2>1. task' = NoTask /\ UNCHANGED <<list, runId, projection, feedback>>
    BY <1>11 DEF Failed
  <2>2. FeedbackIsOfTheRunShown'
    BY <2>1 DEF LearnerInv, FeedbackIsOfTheRunShown, IsShown
  <2> QED
    BY <1>1, <1>2, <2>1, <2>2, TaskGoesOn
<1> QED
  BY <1>3, <1>4, <1>5, <1>6, <1>7, <1>8, <1>9, <1>10, <1>11 DEF Receive

-----------------------------------------------------------------------------
(* The learner's screen: the theorems *)

LEMMA LearnerSteps == LearnerInv /\ [LearnerNext]_learner => LearnerInv'
<1> SUFFICES ASSUME LearnerInv, [LearnerNext]_learner PROVE LearnerInv'
  OBVIOUS
<1>1. RunsAreRuns
  BY DEF LearnerInv
<1>2. CASE Type
  <2>1. UNCHANGED <<runs, list, runId, projection, feedback, task, errorKey>>
    BY <1>2
    DEF Type, SelectOption, FillField, CiteEvidence, WriteText, EditForm, server
  <2> QED
    BY <1>1, <2>1, RunsStay, ScreenStaysPast
<1>3. CASE OtherTab
  <2>1. PICK r, run :
            /\ r \in DOMAIN runs /\ run = runs[r] /\ UNCHANGED screen
            /\ runs' = [runs EXCEPT ![r] = [run EXCEPT !.version = @ + 1, !.node = @ + 1]]
    BY Zenon, <1>3 DEF OtherTab
  <2> DEFINE later == [run EXCEPT !.version = @ + 1, !.node = @ + 1]
  <2>2. IsRun(run)
    BY <1>1, <2>1 DEF RunsAreRuns
  <2>3. IsRun(later) /\ later.version = run.version + 1
    <3>1. run.version + 1 \in Nat /\ later.version = run.version + 1
      BY <2>2 DEF IsRun, RunFields
    <3>2. later = [g \in RunFields |-> later[g]]
      BY <2>2 DEF IsRun, RunFields
    <3> HIDE DEF later
    <3> QED
      BY <3>1, <3>2 DEF IsRun
  <2>4. runs' = [runs EXCEPT ![r] = later]
    BY <2>1
  <2> HIDE DEF later
  <2>5. RunsGoOn
    BY <1>1, <2>1, <2>3, <2>4, RunIsPlayed
  <2> QED
    BY <2>1, <2>5, ScreenStaysPast DEF screen
<1>4. CASE ReleaseFeedback \/ UNCHANGED learner
  <2>1. UNCHANGED <<runs, list, runId, projection, feedback, task, errorKey>>
    BY <1>4 DEF ReleaseFeedback, learner, server, screen
  <2> QED
    BY <1>1, <2>1, RunsStay, ScreenStaysPast
<1> QED
  BY <1>2, <1>3, <1>4, LearnStep, ServeStep, ReceiveStep DEF LearnerNext

LEMMA LearnerInvariant == LearnerSpec => []LearnerInv
BY LearnerStarts, LearnerSteps, PTL DEF LearnerSpec

\* Feedback is displayed with the run it is about, which is over (publishProjection).
THEOREM FeedbackFitsTheRun == LearnerSpec => []FeedbackIsOfTheRunShown
<1>1. LearnerInv => FeedbackIsOfTheRunShown
  BY DEF LearnerInv
<1> QED
  BY <1>1, LearnerInvariant, PTL

\* The server compares versions: what it plays, it plays in the state the learner saw.
LEMMA PlayedAsShown ==
    ASSUME LearnerInv, LearnerNext, isBusy, task.op = "submit", task.run = projection.run,
           runs' # runs, task' # task
    PROVE  runs[task.run] = projection.state
<1>1. CASE ServeCommand
  <2>1. task.stage = "post" /\ task.version = runs[task.run].version
    BY <1>1 DEF ServeCommand, IsAsked
  <2>2. IsPast(runs, projection) /\ task.version = projection.state.version
    BY <2>1 DEF LearnerInv, ScreenIsPast, CommandIsOfTheStateShown
  <2> QED
    BY <2>1, <2>2 DEF IsPast
<1>2. ~ServeStart
  BY DEF ServeStart
<1>3. ~Learn /\ ~Type /\ ~Lose /\ ~Receive /\ ~ServeLoad /\ ~ServeList /\ ~ServeFeedback
  BY DEF Learn, openRun, start, submit, Type, SelectOption, FillField, CiteEvidence, WriteText,
     EditForm, Lose, Receive, OpenAnswered, StartAnswered, StartLoaded, SubmitAnswered,
     SubmitConflicts, ConflictLoaded, ListAnswered, FeedbackAnswered, Failed, ServeLoad,
     ServeList, ServeFeedback, server
<1>4. ~OtherTab /\ ~ReleaseFeedback
  BY DEF OtherTab, ReleaseFeedback, screen
<1> QED
  BY <1>1, <1>2, <1>3, <1>4 DEF LearnerNext, Serve

\* After a conflict the learner is shown the run he answered, later than he saw it.
LEMMA ConflictShowsLaterState ==
    ASSUME LearnerInv, LearnerNext, isBusy, task.conflict, task.run = projection.run,
           projection' # projection
    PROVE  projection'.run = task.run /\ projection'.state.version > task.version
<1>1. task.op = "submit" /\ task.stage # "post"
  BY DEF LearnerInv, TaskIsInOrder
<1>2. ~Learn
  BY DEF Learn, openRun, start, submit
<1>3. ~Type /\ ~Serve /\ ~Lose /\ ~OtherTab /\ ~ReleaseFeedback
  BY DEF Type, SelectOption, FillField, CiteEvidence, WriteText, EditForm, Serve, ServeStart,
     ServeCommand, ServeLoad, ServeList, ServeFeedback, Lose, ScreenWaits, OtherTab,
     ReleaseFeedback, screen
<1>4. /\ ~OpenAnswered /\ ~StartAnswered /\ ~StartLoaded /\ ~SubmitAnswered
      /\ ~SubmitConflicts /\ ~ListAnswered /\ ~FeedbackAnswered /\ ~Failed
  BY <1>1
  DEF OpenAnswered, StartAnswered, StartLoaded, SubmitAnswered, SubmitConflicts, ListAnswered,
      FeedbackAnswered, Failed, Succeeded, IsAnswered, ScreenWaits
<1>5. ConflictLoaded
  BY <1>2, <1>3, <1>4 DEF LearnerNext, Receive
<1>6. projection' = task.answer.shown /\ task.stage = "load" /\ task.answer.kind = "ok"
  BY <1>5 DEF ConflictLoaded, publishProjection, Succeeded, IsAnswered
<1> QED
  BY <1>1, <1>6 DEF LearnerInv, AnswerIsToTheTask, CommandIsOfTheStateShown

\* What the server accepts was given by somebody who saw the state it is applied to, and a
\* learner another tab was faster than sees the later state (submit, submitCommand).
THEOREM CommandsFitWhatIsShown == LearnerSpec => AcceptedAsShown
<1>1. LearnerInv /\ [LearnerNext]_learner =>
          [isBusy /\ task.op = "submit" /\ task.run = projection.run /\ runs' # runs
                /\ task' # task
              => runs[task.run] = projection.state]_learner
  BY PlayedAsShown
<1>2. LearnerInv /\ [LearnerNext]_learner =>
          [isBusy /\ task.conflict /\ task.run = projection.run /\ projection' # projection
              => projection'.run = task.run /\ projection'.state.version > task.version]_learner
  BY ConflictShowsLaterState
<1> QED
  BY <1>1, <1>2, LearnerInvariant, PTL DEF LearnerSpec, AcceptedAsShown
=============================================================================
