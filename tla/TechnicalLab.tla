---------------------------- MODULE TechnicalLab ----------------------------
(***************************************************************************)
(* A hosted run of the technical laboratory: a row of modules, each with   *)
(* an experiment of steps in a fixed order, two questions about it and a   *)
(* hint (src/technical-lab/engine.ts and hosted-run-service.ts).           *)
(*                                                                         *)
(* The engine computes the whole laboratory again from the journals on     *)
(* every command; what an experiment shows is left out, and so are the     *)
(* operands of a step.  Duplicates and stale versions of commands are      *)
(* RunEventStore's subject.  Points are counted in hundredths.             *)
(***************************************************************************)
EXTENDS Integers, Sequences, SequencesExt, FiniteSetsExt

CONSTANT Modules    \* the pack's modules, in their order

VARIABLE lab        \* the snapshot that the run's events reduce to

vars == lab

Kinds == {"INTERPRETATION", "APPLICATION"}

NoLab == [status |-> "none"]

IsActive == lab.status = "active"

Indexes == DOMAIN Modules

\* What a pack needs to be published: modules, of steps and with attempts.
ModulesAreSound ==
    /\ DOMAIN Modules = 1 .. Len(Modules) /\ Len(Modules) \in Nat \ {0}
    /\ \A i \in Indexes :
           /\ {Modules[i].actions, Modules[i].maximumAttempts} \subseteq Nat \ {0}
           /\ Modules[i].experiment \in Nat /\ Modules[i].ceiling \in 0 .. 99
           /\ \A kind \in Kinds : Modules[i].points[kind] \in Nat \ {0}

-----------------------------------------------------------------------------
(* What the engine reads off the journals *)

ExperimentIsComplete(l, i) == l.performed[i] = Modules[i].actions

Answers(l, i, kind) == l.responses[i][kind]

IsCorrect(l, i, kind) == \E n \in DOMAIN Answers(l, i, kind) : Answers(l, i, kind)[n]

IsTerminal(l, i, kind) ==
    IsCorrect(l, i, kind) \/ Len(Answers(l, i, kind)) >= Modules[i].maximumAttempts

IsComplete(l, i) == ExperimentIsComplete(l, i) /\ \A kind \in Kinds : IsTerminal(l, i, kind)

AllComplete(l) == \A i \in Indexes : IsComplete(l, i)

\* Percent of a question's points: the attempts it took, and the hint's ceiling.
Fraction(l, i, kind) ==
    LET tries == Len(Answers(l, i, kind))
        retries == CASE IsCorrect(l, i, kind) /\ tries = 1 -> 100
                     [] IsCorrect(l, i, kind) /\ tries = 2 -> 50
                     [] OTHER                              -> 0
        ceiling == IF kind = "INTERPRETATION" /\ i \in l.hinted THEN Modules[i].ceiling ELSE 100
    IN  Min({retries, ceiling})

Earned(l, i, kind) == Fraction(l, i, kind) * Modules[i].points[kind]

ModuleScore(l, i) ==
    (IF ExperimentIsComplete(l, i) THEN 100 * Modules[i].experiment ELSE 0)
    + Earned(l, i, "INTERPRETATION") + Earned(l, i, "APPLICATION")

\* What the modules have together (Array.reduce).
SumOf(scores) ==
    LET sum[k \in 0 .. Len(Modules)] == IF k = 0 THEN 0 ELSE sum[k - 1] + scores[k]
    IN  sum[Len(Modules)]

TotalScore(l) == SumOf([i \in Indexes |-> ModuleScore(l, i)])

MaximumOf(i) ==
    100 * (Modules[i].experiment + Modules[i].points["INTERPRETATION"]
               + Modules[i].points["APPLICATION"])

MaximumScore == SumOf([i \in Indexes |-> MaximumOf(i)])

-----------------------------------------------------------------------------
(* The commands *)

Init == lab = NoLab

CreateRun ==
    /\ lab = NoLab
    /\ lab' = [status |-> "active", module |-> 1, performed |-> [i \in Indexes |-> 0],
               responses |-> [i \in Indexes |-> [kind \in Kinds |-> << >>]], hinted |-> {}]

\* The command that makes the laboratory complete completes the run in its batch.
Submit(l) == lab' = IF AllComplete(l) THEN [l EXCEPT !.status = "completed"] ELSE l

\* The next step of the experiment, and no other.
PerformAction ==
    /\ IsActive
    /\ ~ExperimentIsComplete(lab, lab.module)
    /\ Submit([lab EXCEPT !.performed[lab.module] = @ + 1])

SubmitResponse(kind, isCorrect) ==
    /\ IsActive
    /\ ExperimentIsComplete(lab, lab.module)
    /\ ~IsTerminal(lab, lab.module, kind)
    /\ Submit([lab EXCEPT !.responses[lab.module][kind] = Append(@, isCorrect)])

\* The interface offers the hint before the answer only; the server gives it later too.
MayOpenHint(i) == i = lab.module /\ ExperimentIsComplete(lab, i) /\ i \notin lab.hinted

OpenHint(i) ==
    /\ IsActive
    /\ MayOpenHint(i)
    /\ Submit([lab EXCEPT !.hinted = @ \union {i}])

AdvanceModule ==
    /\ IsActive
    /\ IsComplete(lab, lab.module)
    /\ Submit([lab EXCEPT !.module = @ + 1])

Respond == \E kind \in Kinds, isCorrect \in BOOLEAN : SubmitResponse(kind, isCorrect)

Next ==
    \/ CreateRun
    \/ PerformAction
    \/ Respond
    \/ \E i \in Indexes : OpenHint(i)
    \/ AdvanceModule

\* A learner who does not give up.
Fairness == WF_vars(PerformAction) /\ WF_vars(Respond) /\ WF_vars(AdvanceModule)

Spec == Init /\ [][Next]_vars /\ Fairness

-----------------------------------------------------------------------------
(* What the runtime promises *)

Active(l, i) ==
    l.performed[i] > 0 \/ (\E kind \in Kinds : Answers(l, i, kind) # << >>) \/ i \in l.hinted

\* What is stored can be loaded again: the checks that replayTechnicalLab and
\* replayEvents make of the journals, whatever the order in which they grew.
Replays ==
    lab # NoLab =>
        /\ lab.module \in Indexes
        /\ \A i \in Indexes :
               /\ i < lab.module => IsComplete(lab, i)
               /\ i > lab.module => ~Active(lab, i)
               /\ lab.performed[i] <= Modules[i].actions
               /\ i \in lab.hinted \/ (\E kind \in Kinds : Answers(lab, i, kind) # << >>)
                      => ExperimentIsComplete(lab, i)
               /\ \A kind \in Kinds :
                      /\ Len(Answers(lab, i, kind)) <= Modules[i].maximumAttempts
                      /\ \A n \in DOMAIN Answers(lab, i, kind) :
                             Answers(lab, i, kind)[n] => n = Len(Answers(lab, i, kind))
        /\ lab.status = "completed" <=> AllComplete(lab)

\* The whole score takes the right answer at once and no hint, everywhere.
GradeIsSound ==
    lab # NoLab =>
        /\ TotalScore(lab) \in 0 .. MaximumScore
        /\ TotalScore(lab) = MaximumScore <=>
               /\ lab.hinted = {}
               /\ \A i \in Indexes, kind \in Kinds : Answers(lab, i, kind) = <<TRUE>>

\* A module that was left keeps its journal and its score, a completed run keeps
\* everything, and only the hint of the module at hand can lower the score.
RecordIsFinal ==
    lab # NoLab =>
        /\ \A i \in 1 .. lab.module - 1 : ModuleScore(lab', i) = ModuleScore(lab, i)
        /\ \A i \in Indexes, kind \in Kinds :
               IsPrefix(Answers(lab, i, kind), Answers(lab', i, kind))
        /\ TotalScore(lab') < TotalScore(lab) => lab'.hinted = lab.hinted \union {lab.module}
        /\ lab.status = "completed" => lab' = lab

RecordsAreFinal == [][RecordIsFinal]_vars

CanFinish == IsActive

Finished == lab.status = "completed"

=============================================================================
