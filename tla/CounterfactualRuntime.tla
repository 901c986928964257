------------------------ MODULE CounterfactualRuntime ------------------------
(***************************************************************************)
(* The runs a counterfactual branch is made of, as the branch engine sees  *)
(* them through its runtime adapter                                        *)
(* (src/platform/runs/counterfactual-branch.ts): the state a command takes *)
(* a run to, or the code it is refused with, and the state a branch starts *)
(* from.  A generic scenario is played by GenericRun's definitions; of the *)
(* coffee journey the certificate is kept, and what follows it is one      *)
(* command.                                                                *)
(***************************************************************************)
EXTENDS Integers, Sequences, FiniteSets, TLC

VARIABLE source     \* the run to branch from: its runtime, its scenario and more

PlaysCoffee == source.runtime = "native-coffee-v2"

Generic ==
    INSTANCE GenericRun WITH Library <- << >>, scenario <- source.scenario,
                             run <- [status |-> "none"], late <- FALSE

Refused(r, code) == [code |-> code, run |-> r]

Accepted(r) == [code |-> "OK", run |-> r]

Completed(r) == r.status = "completed"

-----------------------------------------------------------------------------
(* A generic scenario *)

\* The runs a command of the learner can end in; none if the handler throws.
GenericResults(r, command) ==
    CASE command.type = "INSPECT_EVIDENCE" -> Generic!Inspected(r, command.item)
      [] command.type = "SUBMIT_STRUCTURED_DECISION" ->
             IF Generic!Node(r).decision # command.decision THEN {}
             ELSE Generic!Decided(r, command.response)
      [] command.type = "SUBMIT_REFLECTION" -> Generic!Reflected(r)

\* A response of the wrong shape, or one that cites what is not before the learner.
IsInvalid(r, command) ==
    /\ command.type = "SUBMIT_STRUCTURED_DECISION"
    /\ Generic!Node(r).decision = command.decision

GenericDo(r, command) ==
    LET results == GenericResults(r, command)
    IN  CASE command.type \notin Generic!Permitted(r) -> Refused(r, "PRECONDITION")
          [] command.type \in Generic!Permitted(r) /\ results # {} ->
                 Accepted(CHOOSE x \in results : TRUE)
          [] OTHER -> Refused(r, IF IsInvalid(r, command) THEN "INVALID" ELSE "PRECONDITION")

\* An instructor's incident, in the source run only.
Incident(r, i) ==
    LET incident == source.scenario.incidents[i]
    IN  [r EXCEPT !.incidents = @ \union {i}, !.released = @ \union incident.evidence]

GenericSendable(r) ==
    LET permitted == Generic!Permitted(r)
        node == Generic!Node(r)
    IN  {[type |-> t] : t \in permitted \intersect {"SUBMIT_REFLECTION"}}
        \union (IF "SUBMIT_STRUCTURED_DECISION" \in permitted
                THEN {[type |-> "SUBMIT_STRUCTURED_DECISION", decision |-> node.decision,
                       response |-> d] : d \in Generic!Submissions(r)}
                ELSE {})
        \union (IF "INSPECT_EVIDENCE" \in permitted
                THEN [type : {"INSPECT_EVIDENCE"}, item : Generic!VisibleEvidence(r) \ r.inspected]
                ELSE {})

-----------------------------------------------------------------------------
(* The coffee journey as far as the certificate *)

CoffeeStart(variant) ==
    [status |-> "active", step |-> "evidence", variant |-> variant,
     choice |-> "none"]

CoffeeSteps ==
    [evidence    |-> "INSPECT_EVIDENCE",
     decision    |-> "SUBMIT_CERTIFICATE_DECISION",
     transaction |-> "SUBMIT_CERTIFICATE_TRANSACTION",
     custody     |-> "FINISH_JOURNEY"]

\* The unauthorized case ends with its transaction, the authorized one goes on.
CoffeeNext(r) ==
    CASE r.step = "evidence" -> [r EXCEPT !.step = "decision"]
      [] r.step = "decision" -> [r EXCEPT !.step = "transaction"]
      [] r.step = "transaction" /\ r.variant = "authorized" -> [r EXCEPT !.step = "custody"]
      [] OTHER -> [r EXCEPT !.status = "completed"]

CoffeeDo(r, command) ==
    IF Completed(r) \/ command.type # CoffeeSteps[r.step] THEN Refused(r, "PRECONDITION")
    ELSE Accepted(IF r.step = "decision"
                  THEN [CoffeeNext(r) EXCEPT !.choice = command.response.option]
                  ELSE CoffeeNext(r))

CoffeeSendable(r) ==
    IF Completed(r) THEN {}
    ELSE IF r.step = "decision"
    THEN {[type |-> CoffeeSteps[r.step], decision |-> "certificate", response |-> [option |-> o]] :
              o \in {"anchor", "upload"}}
    ELSE {[type |-> CoffeeSteps[r.step]]}

-----------------------------------------------------------------------------
(* What the engine is given *)

Do(r, command) == IF PlaysCoffee THEN CoffeeDo(r, command) ELSE GenericDo(r, command)

\* The commands somebody who sees the run may send.
Sendable(r) ==
    IF PlaysCoffee THEN CoffeeSendable(r)
    ELSE IF Completed(r) THEN {} ELSE GenericSendable(r)

\* The decision a command submits, or none.
DecisionOf(command) ==
    IF command.type \in {"SUBMIT_STRUCTURED_DECISION", "SUBMIT_CERTIFICATE_DECISION"}
    THEN command.decision ELSE "none"

OptionsOf(command) == {command.response.option}

\* Mutant: the branch of a condition starts from the source as it was.
ForkStateUnchanged(r, alternative) == r

\* A decision branch starts from the source as it was; a condition branch from the
\* source with the condition changed, which the coffee journey alone knows how to do.
ForkState(r, alternative) ==
    IF alternative = "none" THEN r ELSE [r EXCEPT !.variant = alternative]

=============================================================================
