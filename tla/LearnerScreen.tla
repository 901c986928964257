---------------------------- MODULE LearnerScreen ----------------------------
(***************************************************************************)
(* The learner's screen of the hosted platform                             *)
(* (src/src/platform/learner/hosted-learner-screen.tsx): the list of       *)
(* assignments, the run that is open with its forms, and the feedback on   *)
(* it.  The screen waits for several answers in a row, each of which may   *)
(* be lost, while another tab of the learner plays on, an instructor       *)
(* releases feedback, and the learner goes on typing.                      *)
(*                                                                         *)
(* A run is a walk along Script, the nodes where the learner acts; what    *)
(* the server plays in between is in GenericRun and CoffeeRun.  Audits,    *)
(* laboratories and the deadline use the same requests and are left out,   *)
(* and policies are read like evidence.                                    *)
(***************************************************************************)
EXTENDS Naturals, Sequences, FiniteSets

CONSTANTS Assignments,
          Script,      \* assignment |-> the nodes of its scenario
          MaxRuns      \* bound: how many runs the learner starts

VARIABLES runs,        \* the server's runs, the newest last
          released,    \* the assignments whose feedback is released
          list,        \* assignments: what the screen knows of the assignments
          runId,       \* the run the next command is for, 0 for none
          projection,  \* the state of a run that is displayed
          feedback,    \* null, withheld, or the run it is about
          forms,       \* what is in the forms that are displayed: by the control's key
          task,        \* what the screen is busy with, and what it asked the server
          errorKey

server == <<runs, released>>
screen == <<list, runId, projection, feedback, forms, task, errorKey>>
learner == <<server, screen>>

null == [is |-> "null"]
withheld == [is |-> "withheld"]
Feedback(r) == [is |-> "released", run |-> r]

Nothing == [kind |-> "none"]
NoTask == [op |-> "none"]
isBusy == task # NoTask

-----------------------------------------------------------------------------
(* A run: the actions it permits, and what the server makes of a command *)

NewRun(a) == [assignment |-> a, version |-> 0, node |-> 1, requested |-> {}, inspected |-> {}]

IsOver(run) == run.node > Len(Script[run.assignment])
Node(run) == Script[run.assignment][run.node]

Requestable(run) == IF IsOver(run) THEN {} ELSE Node(run).requestable \ run.requested

Released(run) == run.requested \union UNION {Script[run.assignment][n].releases : n \in 1..run.node}
Uninspected(run) == IF IsOver(run) THEN {} ELSE Released(run) \ run.inspected

permittedActionIds(run) ==
    IF IsOver(run) THEN {}
    ELSE {Node(run).action}
         \union (IF Requestable(run) # {} THEN {"REQUEST_EVIDENCE"} ELSE {})
         \union (IF Uninspected(run) # {} THEN {"INSPECT_EVIDENCE"} ELSE {})

\* A decision answers exactly the fields of its node; a choice is one of its options.
Answers(run, command) ==
    LET node == Node(run)
    IN  /\ command.about = node.id
        /\ CASE node.form = "decision" -> command.values = node.fields
             [] node.form = "select"   -> command.values \in {{option} : option \in node.fields}
             [] OTHER                  -> command.values = {}
        /\ command.cited \subseteq Released(run)
        /\ Cardinality(command.cited) = node.cites

Fits(run, command) ==
    /\ ~IsOver(run)
    /\ CASE command.action = "REQUEST_EVIDENCE" -> command.values \subseteq Requestable(run)
         [] command.action = "INSPECT_EVIDENCE" -> command.values \subseteq Uninspected(run)
         [] OTHER -> command.action = Node(run).action /\ Answers(run, command)

After(run, command) ==
    CASE command.action = "REQUEST_EVIDENCE" ->
            [run EXCEPT !.version = @ + 1, !.requested = @ \union command.values]
      [] command.action = "INSPECT_EVIDENCE" ->
            [run EXCEPT !.version = @ + 1, !.inspected = @ \union command.values]
      [] OTHER -> [run EXCEPT !.version = @ + 1, !.node = @ + 1]

\* What the server says of the assignments: the newest run of each, and its feedback.
LatestRun(a) ==
    LET those == {r \in DOMAIN runs : runs[r].assignment = a}
    IN  IF those = {} THEN 0 ELSE CHOOSE r \in those : \A other \in those : other <= r

Listing == [latest |-> [a \in Assignments |-> LatestRun(a)],
            released |-> released, runs |-> DOMAIN runs]

Shown(r) == [run |-> r, state |-> runs[r]]
NoProjection == [run |-> 0]
IsShown == projection # NoProjection

-----------------------------------------------------------------------------
(* The forms.  A control is kept by React while an action of its name is       *)
(* permitted, with what is in it, whatever node or run the action belongs to.  *)

Controls(run) == permittedActionIds(run) \ {"INSPECT_EVIDENCE"}

Options(run, action) == IF action = "REQUEST_EVIDENCE" THEN Requestable(run) ELSE Node(run).fields

\* A form that selects starts on its first option, the others start empty.
EmptyForm(run, action) ==
    [values |-> IF action = "REQUEST_EVIDENCE" \/ Node(run).form = "select"
                THEN {CHOOSE option \in Options(run, action) : TRUE} ELSE {},
     cited |-> {}, written |-> FALSE]

Rendered(run) ==
    [action \in Controls(run) |->
        IF action \in DOMAIN forms THEN forms[action] ELSE EmptyForm(run, action)]

Selects(action) ==
    action = "REQUEST_EVIDENCE" \/ Node(projection.state).form = "select"

\* The learner types, also while the screen is busy.
EditForm(action, form) ==
    /\ forms[action] # form
    /\ forms' = [forms EXCEPT ![action] = form]
    /\ UNCHANGED <<server, list, runId, projection, feedback, task, errorKey>>

\* A browser that cannot show the selected value shows the first option; picking that
\* one changes nothing.
SelectOption ==
    \E action \in DOMAIN forms :
        /\ Selects(action)
        /\ LET options == Options(projection.state, action)
               displayed == IF forms[action].values \subseteq options THEN forms[action].values
                            ELSE {CHOOSE option \in options : TRUE}
           IN  \E option \in options \ displayed :
                   EditForm(action, [forms[action] EXCEPT !.values = {option}])

FillField ==
    \E action \in DOMAIN forms :
        /\ action # "REQUEST_EVIDENCE" /\ Node(projection.state).form = "decision"
        /\ \E field \in Node(projection.state).fields :
               EditForm(action, [forms[action] EXCEPT !.values = @ \union {field}])

\* Inspected evidence is offered for citation, up to what the node asks for.
CiteEvidence ==
    \E action \in DOMAIN forms :
        /\ action # "REQUEST_EVIDENCE" /\ Node(projection.state).cites > 0
        /\ \E e \in projection.state.inspected :
               \/ e \in forms[action].cited
                  /\ EditForm(action, [forms[action] EXCEPT !.cited = @ \ {e}])
               \/ Cardinality(forms[action].cited) < Node(projection.state).cites
                  /\ EditForm(action, [forms[action] EXCEPT !.cited = @ \union {e}])

WriteText ==
    \E action \in DOMAIN forms :
        /\ action # "REQUEST_EVIDENCE" /\ Node(projection.state).form = "text"
        /\ EditForm(action, [forms[action] EXCEPT !.written = TRUE])

\* What the form of an action would send, and whether its button is enabled.
Sends(action) ==
    [action |-> action, about |-> IF action = "REQUEST_EVIDENCE" THEN 0 ELSE Node(projection.state).id,
     values |-> forms[action].values,
     cited |-> IF Node(projection.state).cites > 0 THEN forms[action].cited ELSE {}]

IsEnabled(action) ==
    LET node == Node(projection.state)
        form == forms[action]
    IN  action # "REQUEST_EVIDENCE" =>
            CASE node.form = "decision" ->
                    /\ node.fields \subseteq form.values
                    /\ Cardinality(form.cited) = node.cites
              [] node.form = "text" -> form.written
              [] OTHER -> TRUE

Inspection(e) == [action |-> "INSPECT_EVIDENCE", about |-> 0, values |-> {e}, cited |-> {}]

-----------------------------------------------------------------------------
(* Requests.  The screen asks one thing, or two at once, and goes on when the  *)
(* answers are there; an answer says what held when the server was asked.      *)

\* A request of an operation, and the list it loaded on the way, if any.
Asks(op, stage, r) ==
    [op |-> op, stage |-> stage, run |-> r, assignment |-> Nothing, command |-> Nothing,
     version |-> 0, answer |-> Nothing, list |-> Nothing, conflict |-> FALSE]

Begin(t) == ~isBusy /\ task' = t /\ errorKey' = "none"

openRun(a) ==
    /\ list.latest[a] # 0
    /\ Begin(Asks("open", "load", list.latest[a]))
    /\ runId' = list.latest[a]
    /\ UNCHANGED <<server, list, projection, feedback, forms>>

\* Every attempt has new identifiers: a start whose answer was lost is another run.
start(a) ==
    /\ list.latest[a] = 0 /\ Len(runs) < MaxRuns
    /\ Begin([Asks("start", "post", 0) EXCEPT !.assignment = a])
    /\ UNCHANGED <<server, list, runId, projection, feedback, forms>>

submit ==
    /\ IsShown
    /\ \E command \in
           {Sends(action) : action \in {c \in DOMAIN forms : IsEnabled(c)}}
           \union {Inspection(e) : e \in Uninspected(projection.state)} :
           Begin([Asks("submit", "post", runId) EXCEPT !.command = command,
                                                       !.version = projection.state.version])
    /\ UNCHANGED <<server, list, runId, projection, feedback, forms>>

IsAsked(stage) == isBusy /\ task.stage = stage /\ task.answer = Nothing
Reply(answer) == task' = [task EXCEPT !.answer = answer]
ScreenWaits == UNCHANGED <<list, runId, projection, feedback, forms, errorKey>>

ServeStart ==
    /\ IsAsked("post") /\ task.op = "start"
    /\ runs' = Append(runs, NewRun(task.assignment))
    /\ Reply([kind |-> "ok", run |-> Len(runs) + 1])
    /\ ScreenWaits /\ UNCHANGED released

\* Mutant: the server does not compare versions.
ServeCommandAnyway ==
    /\ IsAsked("post") /\ task.op = "submit"
    /\ IF Fits(runs[task.run], task.command)
       THEN /\ runs' = [runs EXCEPT ![task.run] = After(@, task.command)]
            /\ Reply([kind |-> "ok", shown |-> [run |-> task.run, state |-> runs'[task.run]]])
       ELSE Reply([kind |-> "refused"]) /\ UNCHANGED runs
    /\ ScreenWaits /\ UNCHANGED released

ServeCommand ==
    /\ IsAsked("post") /\ task.op = "submit"
    /\ IF task.version # runs[task.run].version
       THEN Reply([kind |-> "conflict"]) /\ UNCHANGED runs
       ELSE IF Fits(runs[task.run], task.command)
       THEN /\ runs' = [runs EXCEPT ![task.run] = After(@, task.command)]
            /\ Reply([kind |-> "ok", shown |-> [run |-> task.run, state |-> runs'[task.run]]])
       ELSE Reply([kind |-> "refused"]) /\ UNCHANGED runs
    /\ ScreenWaits /\ UNCHANGED released

\* loadRun, and loadAssignments with it where both are awaited.
ServeLoad ==
    /\ IsAsked("load")
    /\ Reply([kind |-> "ok", shown |-> Shown(task.run), list |-> Listing])
    /\ ScreenWaits /\ UNCHANGED server

ServeList ==
    /\ IsAsked("list")
    /\ Reply([kind |-> "ok", list |-> Listing])
    /\ ScreenWaits /\ UNCHANGED server

\* Feedback has to be released, and is about the run that was asked for.
ServeFeedback ==
    /\ IsAsked("feedback")
    /\ Reply([kind |-> IF runs[task.run].assignment \in released THEN "ok" ELSE "withheld"])
    /\ ScreenWaits /\ UNCHANGED server

\* A request may fail before the server sees it, or its answer be lost.
Lose ==
    /\ isBusy /\ task.answer.kind # "failed"
    /\ Reply([kind |-> "failed"])
    /\ ScreenWaits /\ UNCHANGED server

-----------------------------------------------------------------------------
(* Answers *)

IsAnswered(stage) == isBusy /\ task.stage = stage /\ task.answer # Nothing
Succeeded(stage) == IsAnswered(stage) /\ task.answer.kind = "ok"

AskNext(stage) == [task EXCEPT !.stage = stage, !.answer = Nothing]

\* The last of it: the list that was loaded on the way, and the message.
Finish(t) ==
    /\ task' = NoTask
    /\ list' = IF t.list = Nothing THEN list ELSE t.list
    /\ errorKey' = IF t.conflict THEN "versionConflict" ELSE errorKey

\* Mutant: the feedback of the run before stays.
publishProjectionOver(shown, t) ==
    /\ projection' = shown
    /\ forms' = Rendered(shown.state)
    /\ UNCHANGED feedback
    /\ IF permittedActionIds(shown.state) # {} THEN Finish(t)
       ELSE task' = [t EXCEPT !.stage = "list", !.answer = Nothing] /\ UNCHANGED <<list, errorKey>>

\* A run that is over asks for the list once more, and then for its feedback.
publishProjection(shown, t) ==
    /\ projection' = shown
    /\ forms' = Rendered(shown.state)
    /\ feedback' = null
    /\ IF permittedActionIds(shown.state) # {} THEN Finish(t)
       ELSE task' = [t EXCEPT !.stage = "list", !.answer = Nothing] /\ UNCHANGED <<list, errorKey>>

OpenAnswered ==
    /\ task.op = "open" /\ Succeeded("load")
    /\ publishProjection(task.answer.shown, task)
    /\ UNCHANGED <<server, runId>>

StartAnswered ==
    /\ task.op = "start" /\ Succeeded("post")
    /\ task' = [AskNext("load") EXCEPT !.run = task.answer.run]
    /\ ScreenWaits /\ UNCHANGED server

StartLoaded ==
    /\ task.op = "start" /\ Succeeded("load")
    /\ runId' = task.run
    /\ publishProjection(task.answer.shown, [task EXCEPT !.list = task.answer.list])
    /\ UNCHANGED server

SubmitAnswered ==
    /\ task.op = "submit" /\ Succeeded("post")
    /\ publishProjection(task.answer.shown, task)
    /\ UNCHANGED <<server, runId>>

\* Another tab was faster: its state is loaded, and the learner looks at it again.
SubmitConflicts ==
    /\ IsAnswered("post") /\ task.answer.kind = "conflict"
    /\ task' = [AskNext("load") EXCEPT !.conflict = TRUE]
    /\ ScreenWaits /\ UNCHANGED server

ConflictLoaded ==
    /\ task.op = "submit" /\ Succeeded("load")
    /\ publishProjection(task.answer.shown, [task EXCEPT !.list = task.answer.list])
    /\ UNCHANGED <<server, runId>>

\* A list that cannot be loaded is done without; feedback it shows withheld is not asked for.
ListAnswered ==
    /\ IsAnswered("list")
    /\ LET known == IF task.answer.kind = "ok" THEN task.answer.list ELSE list
       IN  IF task.run \in known.runs /\ runs[task.run].assignment \notin known.released
           THEN /\ feedback' = withheld
                /\ Finish([task EXCEPT !.list = IF @ = Nothing THEN known ELSE @])
           ELSE task' = AskNext("feedback") /\ list' = known /\ UNCHANGED <<feedback, errorKey>>
    /\ UNCHANGED <<server, runId, projection, forms>>

FeedbackAnswered ==
    /\ IsAnswered("feedback") /\ task.answer.kind # "failed"
    /\ feedback' = IF task.answer.kind = "ok" THEN Feedback(task.run) ELSE withheld
    /\ Finish(task)
    /\ UNCHANGED <<server, runId, projection, forms>>

\* Mutant: a failure while the newer state is loaded is not caught.
FailedOnce ==
    /\ isBusy /\ ~task.conflict /\ task.stage # "list" /\ task.answer.kind \in {"failed", "refused"}
    /\ task' = NoTask
    /\ errorKey' = "error"
    /\ UNCHANGED <<server, list, runId, projection, feedback, forms>>

Failed ==
    /\ isBusy /\ task.stage # "list" /\ task.answer.kind \in {"failed", "refused"}
    /\ task' = NoTask
    /\ errorKey' = "error"
    /\ UNCHANGED <<server, list, runId, projection, feedback, forms>>

-----------------------------------------------------------------------------
(* The others: another tab, and the instructor *)

OtherTab ==
    \E r \in DOMAIN runs :
        LET run == runs[r]
        IN  /\ ~IsOver(run)
            /\ runs' = [runs EXCEPT ![r] = [run EXCEPT !.version = @ + 1, !.node = @ + 1]]
    /\ UNCHANGED <<released, screen>>

ReleaseFeedback ==
    /\ \E a \in Assignments \ released : released' = released \union {a}
    /\ UNCHANGED <<runs, screen>>

\* The page opens: nothing but the list is loaded.  Also a reload.
PageOpened ==
    /\ list = Listing
    /\ runId = 0 /\ projection = NoProjection /\ feedback = null
    /\ forms = << >> /\ task = NoTask /\ errorKey = "none"

LearnerInit == runs = << >> /\ released = {} /\ PageOpened

Serve == ServeStart \/ ServeCommand \/ ServeLoad \/ ServeList \/ ServeFeedback
Receive ==
    \/ OpenAnswered \/ StartAnswered \/ StartLoaded
    \/ SubmitAnswered \/ SubmitConflicts \/ ConflictLoaded
    \/ ListAnswered \/ FeedbackAnswered \/ Failed
Learn == (\E a \in Assignments : openRun(a) \/ start(a)) \/ submit
Type == SelectOption \/ FillField \/ CiteEvidence \/ WriteText

LearnerNext == Learn \/ Type \/ Serve \/ Lose \/ Receive \/ OtherTab \/ ReleaseFeedback

\* Every request is answered or fails, and the browser runs what waits for it.
LearnerFairness == WF_learner(Serve \/ Lose \/ Receive)

LearnerSpec == LearnerInit /\ [][LearnerNext]_learner /\ LearnerFairness

-----------------------------------------------------------------------------
(* Properties *)

\* The feedback on the screen is about the run on the screen, which is over, whichever
\* runs were opened, played or finished before and whatever failed
\* (publishProjection).
FeedbackIsOfTheRunShown ==
    feedback # null =>
        /\ IsShown /\ permittedActionIds(projection.state) = {}
        /\ feedback # withheld => feedback.run = projection.run

\* A command the server accepts for the run on the screen was given by somebody who
\* looked at the state of the run the server applied it to; when another tab was
\* faster, the learner is told so over a state that is newer than the one he answered
\* (submit).
AcceptedAsShown ==
    /\ [][isBusy /\ task.op = "submit" /\ task.run = projection.run /\ runs' # runs /\ task' # task
              => runs[task.run] = projection.state]_learner
    /\ [][isBusy /\ task.conflict /\ task.run = projection.run /\ projection' # projection
              => projection'.run = task.run /\ projection'.state.version > task.version]_learner

\* Whatever fails, the screen can be used again (the finally of openRun, start and submit).
ScreenComesBack == isBusy ~> ~isBusy

\* What a control sends fits the run it is displayed with.
SentFitsShown ==
    isBusy /\ task.op = "submit" /\ task.stage = "post" /\ task.run = projection.run =>
        Fits(projection.state, task.command)
=============================================================================
