# TraceChain / SimuLedger: verification project

TLA+ models of the parts of SimuLedger that are hard to test, the TLC runs that check
them on small instances, and theorems about them that TLAPS checks for every instance.
Paths are relative to the repository; the TypeScript application is `src/src`, and
`src/sites/worker.ts`, `src/db/schema.ts` and `src/docs` are beside it.

## 1. The system

SimuLedger teaches supply-chain traceability on a simulated permissioned ledger. It runs
in two settings that share the domain code:

- **in the browser** (SCORM package or standalone): React components send commands to
  one session; a queue serialises them; every accepted mutation is written to the
  learning platform and then published to the components;
- **hosted** (a worker over a D1 database): HTTP requests become commands of a run; the
  run is an append-only stream of events, rebuilt on every request.

| Component | State | Operations | Interacts with |
|---|---|---|---|
| Ledger engine (`domain/ledger`) | assets, document anchors, provenance edges, transactions, pending list, blocks | eleven transaction types, rejection, sealing | rules validate, the reducer applies, the adapter endorses |
| Validation rules (`domain/rules`) | none | one verdict per command | read the ledger state, pending transactions included or not |
| Provenance (`domain/provenance`) | none (a walk over the edges) | trace forward and backward, recall scope | the ledger calls it in a recall |
| Integrity (`domain/ledger/integrity.ts`) | a copy of the ledger | verify, demonstrate tampering | reads sealed blocks |
| Endorsement workflow (`domain/simulation`) | events, audit events, proposals, outcomes by command id | direct command, create, endorse, decline, commit | wraps the ledger engine |
| Signatures (`crypto/signatures`) | none | sign and verify one proposal | input of the workflow |
| Run event store (`platform/persistence/d1-run-event-store.ts`) | table `hosted_run_events` | load, append | called by all hosted services, concurrently |
| Generic run service (`platform/hosted/generic-run-service.ts`) | none of its own: replay of the stream | create a run, commands at the nodes of an authored scenario, incidents, deadline | load, decide, append |
| Coffee run service (`platform/hosted/stage3-run-service.ts`) | the same | the fixed journey with its decisions and transactions | its own ledger, rebuilt by replay |
| Audit runs (`platform/audit`) | the same | notes, findings, conclusion | the grade of the report |
| Technical laboratory (`technical-lab`) | the same | steps, answers, hints, modules | the engine recomputes everything |
| Counterfactual branches (`platform/runs/counterfactual-*`) | branches of completed runs, each with its own batches, and reflections | create, submit, replay, complete, reflect | replay their source; routes of the worker |
| Scenario packs (`platform/scenario-packs`) | versions with a lifecycle | validate, save draft, publish, retire | every run names one exactly |
| Scenario authoring (`platform/author`) | the draft on the screen, its history, a copy in the browser's storage, requests that are out | edit in eight steps, undo, redo, recover, import, open, publish, retire, upload images | the routes of scenario packs |
| Assignments and grading | assignments, runs, ratings, moderations | create, close, release, start, rate, moderate | packs, runs, rosters |
| LTI | login states, sessions, deliveries, rosters | launch, deep link, deliver a grade, synchronise | an external platform over HTTP |
| Access administration, package jobs | users, roles, command records | provision, replace roles, disable, bootstrap | principals of all requests |
| HTTP worker (`sites/worker.ts`) | none | authenticate, authorize, call one of the above | many requests at once over one database |
| Learner's screen (`platform/learner`) | assignments, the run on the screen, its forms, feedback | start, open, submit, type | the routes of runs; other tabs |
| Journals of an attempt (`domain/simulation/*-journal.ts`) | the journal, and the runtime and decisions it yields | one entry per control, replay, resume | stored by the session |
| Learner session and persistence (`app/providers`, `infrastructure/scorm`) | session state, journal, platform data model | mutate, autosave, resume, finish | the platform's API may refuse any call |
| Scoring, reporting, configuration, screens | none that survives | evaluate, show | journal, reports, services |

What is hard here: requests to one run interleave between any two awaits and the
database may fail after it committed; commands are retried and reordered by clients;
facts are decided on a state that is read before and used after other steps; the ledger
applies effects before their transactions are sealed; commands that are legal alone form
sequences that are not; deadlines pass between the check and the write. `PROJECT.json`
lists these hazards at the line where each one bites.

What makes each component correct:

- ledger: a recall reaches all that was made of the goods, and freezes it; lineage has
  one story; pending and sealed transactions are one order, nothing recorded is edited;
  the current quantity is the one that the correction chain leaves; an inspection that
  was opened stays open;
- provenance: a walk ends, and visits what is reachable, once, by distance;
- integrity: an honest chain verifies and an edit is found where it was made;
- endorsement: a transaction commits if a coalition of its policy signed exactly it and
  nothing moved since; once, and under its own name;
- run events: the stream is one chain without gaps, answers are true, a late learner
  cannot write behind the expiry; seen from above an append is one step;
- grade delivery: what is reported delivered has arrived, it is the evidence that was
  bound first, and attempts overlap only when a claim outlived its lease;
- learner session: what is shown as done is stored, "saved" is true, the grade is the
  grade of the stored attempt, what failed stays out, a promise is answered;
- journals: a stored attempt can be opened again and is the one that was left;
- counterfactual branches: a branch begins with what its author opened to exploration,
  and what is called the effect of one intervention differs in nothing else, unless
  somebody uses the identifier of a command of the source;
- learner's screen: what is shown belongs together, what is accepted was given by
  somebody who saw the state, and the screen comes back;
- scenario packs: what the validator accepts can be played, by a learner who is not
  caught in it; a published version never changes;
- authoring: a reference follows the record it names through every edit, and none is
  left dangling; what is called saved is stored, and every draft is saved or reported;
- the run services: what they store loads again, a record stays as it was made, the
  grade says what happened, evidence is earned, approvals and commits follow the policy,
  a late command has no effect, who goes on finishes;
- the hosted platform: an answer of success stays true whoever else is served meanwhile,
  what was decided once stays decided, runs play what was assigned, revisions are
  numbered, an account's last command decides what it has, sessions are earned, and a
  roster is one snapshot.

## 2. Modules

| Module | Role |
|---|---|
| `Provenance` | the set of affected assets of a recall, as a closure |
| `Ledger`, `MCLedger` | the ledger engine with its rules, endorsers and sealing; registries and command sets, the graphs walked and the chains verified |
| `LedgerProofs` | type correctness, completeness of recalls; the record is not rewritten, and the world follows from it; the walk returns what is reachable; the verifier finds an edit where it was made |
| `Traversal` | the breadth-first walk edge by edge |
| `Integrity` | sealing, verification and the tamper demonstration |
| `EndorsementWorkflow` | proposals and the commands that compete with them |
| `EndorsementProofs` | type correctness, one transaction per command, its name, committed as endorsed; a stored attempt resumes as it was left |
| `AttemptJournal` | the nine stages of an attempt, its journal and the replay |
| `MCEndorsementWorkflow` | the proposals of one action; the attempts; the session of a package |
| `RunLog` | abstract specification: a log, appended in one step |
| `RunEventStore`, `MCRunEventStore` | the service's write path and the store, query by query; implements `RunLog` |
| `RunEventStoreProofs` | types, the stored stream replays, answers are true, the store implements `RunLog` |
| `GradeDelivery` | the outbox row of one grade, attempts query by query |
| `CounterfactualRuntime`, `CounterfactualBranches` | what a branch plays; branches, their requests and reflections |
| `MCCompletedRun` | what follows a completed run: its delivery, or its branches |
| `CompletedRunProofs` | of the delivery its types, its invariants and its action property; of the branches that a comparison is honest |
| `LearnerSession` | the mutation queue of a package and the learning platform |
| `LearnerSessionProofs` | its safety invariants |
| `ScenarioPack` | an authored scenario and what the validator accepts |
| `GenericRun` | a run of an accepted scenario |
| `AuditRun`, `TechnicalLab`, `CoffeeRun` | a run of an audit, of the laboratory, of the coffee journey |
| `HostedRuntime`, `MCScenarios` | the four services behind the choice of the runtime; the scenarios, cases and modules played |
| `RuntimeProofs` | every stored run can be loaded and played on; scenarios are played as they were authored; records are final |
| `HostedRequests` | requests in flight over one database, and how each finds its caller |
| `ScenarioPackStore`, `AccessStore`, `AssignmentStore`, `LtiStore` | the stores and the routes above them, query by query |
| `HostedPlatform` | the stores behind one worker |
| `HostedPlatformProofs` | its safety invariants and its action property, for any traffic |
| `MCHosted` | one run's deliveries, one run played, or the situations in which requests meet |
| `ScenarioDraft` | a pack as its author has it, and the reconciliation of renamed identifiers |
| `ScenarioEdits` | what each control of the builder makes of a draft |
| `ScenarioBuilder` | the builder: edits, undo, redo, and which control is where |
| `AuthorScreen`, `MCAuthorScreen` | the author's screen with its stored draft, files, uploads and requests; the drafts edited |
| `LearnerScreen` | the hosted learner's screen: requests, lost answers, another tab, forms, feedback |
| `MCScreens` | the author's screen, or the learner's |
| `ScreenProofs` | of both screens: what is called saved is stored, feedback is of the run shown, a command is given by somebody who saw the state |

`Ledger` uses `Provenance` for the scope of a recall and `Traversal` says how the code
computes that scope. `EndorsementWorkflow` reduces the ledger to versions and an order
and leaves the verdict of the rules open. `RunEventStore` instantiates `RunLog` with a
refinement mapping. `GenericRun` extends `ScenarioPack` and plays only what that
accepts; `HostedRuntime` instantiates the four runs, and states once what all of them
promise. `HostedPlatform` extends the four stores, which extend `HostedRequests`; its
runs are rows, created by `RunEventStore` and played in `HostedRuntime`.
`CounterfactualRuntime` plays generic scenarios by the definitions of `GenericRun`.
`AuthorScreen` extends `ScenarioBuilder`, and that the edits and the draft; the server
is one version with a status there, `ScenarioPackStore` has it query by query. An MC
module whose behaviours choose a `question` checks modules that do not interact side by
side, each with what the others need at rest. Operators ending like `...Never`,
`...Last` or marked *mutant* are plausible bugs of the definition that follows them; no
specification uses them, they show that the properties can fail.

### Ledger

State: `assets`, `documentAnchors`, `provenanceEdges`, `transactions`, the `pending`
ones in order, `blocks`. One action per transaction type: its guard is the conjunction
of the rule files (`IsValid`), its effect is the reducer's case plus the sealing that
follows it, so a command is one step as in `submitCommand`. `RejectCommand` records a
refused command. `SealPendingTransactions` is the stage boundary. Abstractions:
organizations, actors, assets and anchors are model values; quantities are numbers with
a unit; the code's digests are left to `Integrity`; endorsers come from the code's
`requiredEndorsers`, the path taken when no verified endorsements are handed in; the
seeded history is empty at the start; scenario time is a small number carried by each
command.

### Traversal

One step per edge that the inner loop looks at, one when the frontier advances.
`WalkInit` chooses the recorded edges, `MaxEdges` at most, and their direction. The
order in which edges are stored is left open. Fairness: the walk is one synchronous
call, so its steps continue until the loop ends (weak fairness of `WalkNext`).

### Integrity

Digests are the tuples they are computed from, so equality is equality of the content,
as it is for a collision-free hash. `SealChain`, `SealWhatIsLeft` and `OrderTransaction`
build honest chains of every shape; then one quantity is edited and the two covering
forgeries follow in the order of `demonstrateTamper`.

### EndorsementWorkflow

State: the version of each asset, the ledger's order, `acceptedEvents`, `rejectedIds`
(audit events), `pendingProposals`, `outcomes` (`outcomesByCommandId`). One action per
exported function. The runtime is replaced as a whole and both callers serialise calls
(`commitMutation` in `simulation-provider.tsx`, the request of one run in the hosted
service), so a call is one step. A policy is the set of its minimal coalitions;
`isAuthorized` and `isTrusted` are the verdicts of the signature and context checks;
`isPermitted` is the verdict of the domain rules, left open; `moves` is FALSE for the
correction of a document, which changes no asset version. Proposals that create an asset
are left out.

What the code does and a reader may not expect: no operation consults a proposal's
status. A proposal that was declined and then endorsed commits (a test of the repository
wants this), and so does one that was superseded, if its policy is satisfied and nothing
moved; the interface does not offer it. A commit rejected by the domain rules is cached
under the proposal's own command id, so that proposal can never commit later. A second
commit of a transaction that moved its asset marks the committed proposal stale.

### AttemptJournal

State: `features` (whether commands are signed and which need endorsements), the
`journal`, the `runtime` (what is ordered and committed, and the proposals), the
recorded `decisions`, whether the attempt runs or is on the recovery screen, and
`replay`, what a replay makes of the journal. The replay is carried along, one entry
with each mutation, since it is a fold of the same entries. One action per control that
a stage offers: checks, commands, handoffs, proposals with their endorsements, declines
and commits, the two consequential decisions with their mitigations, and sealing;
`Resume` opens the attempt again. Entries are counted against the slots of their kind
(`maxOccurrences`). A command's verdict is reduced to what must have been accepted
before it (`Needs`). A learner takes the controls of a stage in the listed order, except
in the stages in which the attempt is `wandering`; `MaxTries` bounds how often a
wanderer answers the question of scope. Fairness: the learner goes on, and comes back to
an attempt that was left (weak fairness of `Mutate` and of `Resume`).

Not expected: a command with one slot that was rejected cannot be sent again (a finding,
below), and so `AttemptFinishes` is qualified by `IsSpent`; a correction proposed before
the purchase goes stale with it, and the slots (one correction proposal, two commits)
leave no room to do what `src/src/locales/en.json:1791` asks, "Revise the proposal";
thirty-five proposals of the same wrong hand-over use up theirs.

### RunEventStore

State: the table of one run, the deadline, and for every attempt where it stands, the
batch it built and what it has read. A step is one query: the load with the decision,
each key lookup of `Promise.all`, the maximum, the insert in one transaction, and the
lookups after a failure. The insert may be refused by the constraints, fail, or commit
and lose its reply, and a key lookup may fail as well, before the insert or after it:
the caller then gets an unspecific error that says nothing of the batch, and `RunLog`
leaves the attempt open. An attempt may stop anywhere: no fairness is assumed. Event ids are
per attempt; a state hash is identified with the event that produced the state.
`permitted` stands for the checks of the individual commands. No request makes more than
`MaxWidth` events, each of its number. The streams of counterfactual branches are in
`CounterfactualBranches`.

### GradeDelivery

State: `row` (the outbox row: status, bound evidence, time of the last attempt),
`arrived` (external: what the platform received), `clock`, and for every attempt its
`stage`, `evidence`, the time `askedAt` that its claim read, `wasClaimed` and `answer`.
A step is one query or the post of `deliverLtiAgsScore`; any query may fail with or
without its effect, and so may the post. No fairness: an attempt may stop anywhere. A
grade that nobody retries stays undelivered, because retries come only from completion
commands that are delivered again. The checks before the outbox is touched, which answer
"unavailable", and the request of the access token are left out.

What a reader may not expect: the answer "failed" may be wrong, since the mark of a
delivered grade can lose its reply; a claim that was delayed in its query writes an
older time than the row holds; and once an attempt outlived its lease, the mark of the
attempt that was overtaken frees the row under its successor, so that later attempts may
overlap too. The platform then receives the same payload again.

### LearnerSession

State: what the session shows (`sessionPhase`, `shownAttempt`, `saveStatus`), the
`persistenceQueue`, the mutation that is `signing`, the attempts that `resuming`
replays, and the platform: `lms` (the data model of this launch), `stored` (what a later
launch will find) and `api`. Platform calls are synchronous, so the browser acts only
between queue entries that do not await, that is while nothing waits, while a mutation
signs, or while a resume replays. Every call may be refused; a refused commit may have
been stored. `Launch` closes the page anywhere and starts again from `stored`; that a
page which closes loses what was not committed is assumed of the platform. `failed`,
`overtaken` and `pressedOn` are history variables. Fairness: weak fairness of `Step`,
since promises that are due are run by the browser and a signature is computed in
bounded time; nothing is assumed of the learner or of launches.

Left out: read-only launches, attempts that cannot be decoded, the viewed stage,
interaction records, the completion status, variant assignment and the standalone
adapter.

What the code does and a reader may not expect, each seen in a counterexample before the
properties were qualified: answers and hints given while a mutation signs are
overwritten when it is published, because it was built on the state read before; a
resume that is finished after a restart or another resume replaces the newer session
(`overtaken`); a read of the stored attempt that is refused looks like no attempt, so
that a new one begins and is saved over it; after the report was sent the closed adapter
accepts writes silently, so later mutations are published without being stored (`api` in
the properties).

### CounterfactualRuntime and CounterfactualBranches

State: the completed run (`source`, `played`), whether its limit passed and its feedback
is released, the stored `branches` with their batches (`log`), `reflections`, and for
each handler the query it makes next (`handling`). A branch is its fork and its own
batches; its state is kept with each batch, since replay repeats what happened. The
routes create, submit by hand, replay the source's later commands one batch at a time,
complete and reflect; a handler may stop after any query (`Crash`). What is left of a
replay is the set of places in the source whose batches the branch had not got when it
was read, and the earliest goes first. Clients name their commands and interventions, and
nothing keeps them from the identifiers of the source's batches (`CommandIds`); a history
field says of every batch of a branch whether it was entered by hand or replayed. No
fairness. Left out: what a comparison and its
metrics display, and of the coffee journey all but the certificate and one command after
it.

### ScenarioPack and GenericRun

`ScenarioPack` keeps of a pack what the runtime reads: the workflow graph, roles,
decisions, evidence and how it is obtained, policies, incidents, outcome models, score
rules and modes; `Accepted` is the conjunction of the validator's checks of these.
`GenericRun`'s state is `scenario` (fixed by the pack), `run` (what the events reduce
to: node, role, evidence released, decisions, proposals, endorsements, evaluations,
commits, outcomes) and `late`. One action per command of the learner or the instructor;
the nodes the server passes through by itself belong to the action of the command that
led to them, since the handler builds all events before it appends any. An operator that
stands for a handler is the set of runs it can end in, empty where the code throws.

What the code does and a reader may not expect: a transition out of an approval is
chosen before the policy is evaluated; the endorser whose turn it is comes first from
the policy's list, not from the order of the node's roles (the documents speak of the
first authored role); the validator accepts loops of passive nodes and other flaws that
catch a learner, which `WellAuthored` names; documents say that a decision cites
inspected records (`src/docs/SCENARIO_PACK_V2.md:184`), the code asks for released ones.

### AuditRun

State: the case, the notes (scope, sources, evidence, bookmarks, hints), the findings
with revision and status, the evidence of competence, the conclusion and the deadline.
Every finding cites evidence and policies, any that the case admits, and is right or wrong
about its severity, its materiality, its root cause and its recommendation, each on its
own, and the report's lines give each its share (`EvidenceShares` to
`RecommendationShares`, in whole parts of a definition: `parts` is a number that the
required items divide). A half is rounded up; the code adds fractions of ten in floating
point, and which way a sum falls that should be a half exactly is left out. Not expected:
more than what is required may be cited and costs nothing; a fault can be rounded away
(section 4); every amendment and
withdrawal uses up one of the configured records, so that an audit whose findings were
all withdrawn can run out of records and never be concluded; an audit that timed out
gets no grade; evidence of competence outlives the withdrawal of its finding.

### TechnicalLab

State: how far each experiment is, the answers to the two questions of each module, the
hints opened, the module. Points are counted in hundredths. What an experiment shows and
the operands of its steps are left out. Not expected: the server gives the hint after
the answer too, the interface does not; a third answer that is right earns nothing.

### CoffeeRun

State: the step, the role and the organization that act, the transactions accepted so
far, consultations, exposure, decisions and evidence of competence. The ledger of the
run is the list of accepted actions, each accepted from the organization that the
scenario authorizes for it (`commandContextByAction`). Not expected: the certificate's
transaction does not depend on the decision; the decision is scored against the
authorized case in both cases, so that the other case ends with a few points whatever is
decided; a transaction status is computed from the latest action and falls back although
the transaction stays committed.

### HostedRuntime

`kind` says which of the four services plays; it is chosen once, by the pack, and the
state of the others stays at values of no meaning. The fairness is a learner's who does
not give up: weak fairness of each way to go on (the progress command, a consultation, a
finding and its conclusion, a step, an answer, the next module), none of an instructor,
of hints, of withdrawals, of the deadline.

### HostedRequests and the stores

State: `db` (one table per field), and for every request `at` (the query it makes next),
`seen` (what it read and kept) and `answer`. An action is one query; a batch is one
transaction. A request may stop after any query, which stands for a crash, a lost
connection or a driver's error, and a retry is a second request with the same command.
Content of packs is a value; tokens are named by the request that makes them and are
taken as verified; the pages of one roster are one answer; dates of availability, which
refuse as a closure does, are left out; author links are left out.

Not expected: a draft that is saved while it is published is overwritten by what the
publication read; a retried creation of an assignment that learners enrolled in
meanwhile is answered with a conflict; the second of two releases by one command is
answered as a storage failure; a start checks the closure before it creates the run, so
that a closed assignment can get one (`src/docs/HOSTED_STAGE3_API.md:359` says it
cannot); two administrators who change each other at once may both lose access; a launch
or a roster that follows an administrator's command gives again a role that the command
took, and a session that is open when its user's roles are taken stays open and
identifies nobody.
The situation `demoted` plays both, and `AccessIsAsCommanded` and `SessionsAreEarned` say
no more than holds there: of an account, that nothing it had before the last command for
it outlives the command. Each account remembers for this what launches and rosters gave
it and after how many commands (`gifts`, a history the code does not keep and no action
reads).

### ScenarioDraft, ScenarioEdits, ScenarioBuilder and AuthorScreen

A pack is one sequence of records: a record has its kind, the scenario and the record it
belongs to, its identifier, and the identifiers it refers to, by field. Wording, numbers
and toggles are one counter. An identifier is a base and a number; identifiers made of
others (`.PI1`) are their base with an ending. `key` names a record for the properties;
the code has no such thing and matches two drafts by `StableKey`, as the model does. An
action is a control of the builder; every one goes through `commitChange`, which
reconciles and keeps history. `AuthorScreen` adds the draft in the browser's storage
with its timer, the file that is read, the one request and the one upload that may be
out, and leaving the page. Fairness: the browser runs its timers (weak fairness of
`SaveDraft`), nothing else.

Not expected, each seen in a counterexample before the properties were qualified or read
in the code beside them:
- records that share what they are matched by are taken for each other: evidence rules
  by their place (a finding, below), outcome models that were added draw from
  `RANDOM_STREAM_DEFAULT`, the parts of a node that twice became a decision share
  localization keys;
- a name that is emptied before another is typed takes along every field that refers to
  nothing yet, so `ReferencesResolve` is for authors who do not empty names, and
  `ReferencesFollow` leaves empty references out;
- removing a node, a framework or a competency, or giving a node another type, looks at
  the references to that record only, not at those to the decision or the indicators in
  it; a result that is renamed or removed leaves `forcedOutcomeCode` behind; renaming a
  field of an assessed decision leaves its key of `correctOptionIdsByField` behind,
  which the validator then refuses (`KeyFields`);
- an uploaded image arrives with the draft it was started from, over all that was typed
  meanwhile, and the answer to an import discards what was edited since it was sent; a
  file that cannot be read closes the open draft; a version that is opened for editing
  replaces a draft that was begun while it was fetched.

Left out: the fields of free JSON, evidence presentations and results of chance nodes
(data to these properties), the review step, reports, previews, comparisons and
downloads (they keep the screen busy and change nothing), two tabs over one storage.

### LearnerScreen

State: the server's `runs` and the assignments whose feedback is `released`; and of the
screen the list, the run that the next command is for (`runId`), the `projection` on
display, the `feedback`, the `forms` and the one `task` the screen is busy with. The
screen asks for several things in a row; the server serves, or the request or its answer
is lost (`Lose`), and the next action receives. Another tab plays on and an instructor
releases feedback at any time. A run is a walk along `Script`. Fairness: every request
is answered or fails and the browser runs what waits for it (weak fairness of `Serve \/
Lose \/ Receive`), nothing of the learner.

Not expected: a run that cannot be loaded leaves the one before on the screen under the
new run's id, so that the next command goes to a run that is not shown, with the version
of the one that is (`AcceptedAsShown` is about commands for the run on the screen); a
start whose reply is lost is tried again with new ids and makes a second run; when the
refresh of the list fails, the stale list decides whether feedback is asked for; what is
in a form is kept by the name of its action, over nodes and runs (a finding, below).

## 3. Runs

| Run | Instance | Shows |
|---|---|---|
| `ledger` | four questions: a recall, in two lines of goods, one two derivations deep, blocks of two and 7 transactions; the evidence, in readings, certificates, receipts and chains of corrections, immediate blocks and 6 transactions; every graph of up to five edges over four assets, walked in both directions; up to five transactions in blocks of up to two, each edited | recalls reach and freeze descendants, lineage has one story, quantities agree with the correction chain, history is append-only, an open inspection is never cleared and is inherited; the walk is exact, by distance, and terminates; the verifier reports an edit where it is and accuses no honest chain |
| `endorsement` | two proposals of one action, one of them moving its asset, and a rival command; or eight attempts, each with its features and the stages in which the learner wanders; or two launches of a package, two commands, one answer, one operation that waits behind the running one, one resume | committed as endorsed, nothing moved, once; a stored attempt resumes as it was left, and a learner who goes on finishes; shown is stored, saved is true, grade and data agree, every command is answered |
| `hosted` | three attempts of six requests at one stream; or the situations of `AllTraffic`, two to four requests each; or 23 scenarios, 14 of them accepted, two audits, two modules, the coffee journey in both cases | chain, truthful answers, time limit, refinement of `RunLog`; answers stand, decisions are final, runs, revisions, access, sessions and members are as commanded; what is stored replays, grades are sound, evidence, approvals and commits are earned, records are final and late commands change none, a learner who goes on finishes |
| `completed_run` | three attempts to deliver a grade, evidence of two launches, a lease that can be outlived; or four requests of two handlers about one branch of four source runs | delivered means arrived, one payload, overlap only after a lease; a branch is what its author opened, one intervention is one unless a command by hand carries the identifier of a source's batch |
| `screens` | seven drafts, each edited twice in one or two sections (one of them once in all), and the screen around a bare draft; or a learner with two assignments | references follow and resolve, a saved draft is stored, and every draft is saved at last; feedback is of the run shown, what is accepted was given by somebody who saw the state, the screen comes back |

Seven runs are expected to end in a violation. Each checks one statement of a comment or a
document against what the code does; `findings` in `PROJECT.json` quotes the statement.

| Run | Violated | The code |
|---|---|---|
| `run_event_store_duplicate` | `DuplicateDeliveryIsIdempotent` | deliveries that race get IDEMPOTENCY_KEY_REUSED |
| `journal_overflow` | `OverflowIsNoLearnerPath` | a rejected command uses up the slot it would need to be sent again |
| `learner_submitted` | `SubmittedMeansStored` | the report says sent although its save was refused |
| `scenario_removal` | `RemovalIsNoRename` | removing an evidence rule that is not the last renames the ones after it |
| `learner_forms` | `SentFitsShown` | a form sends a record that it does not show any more |
| `branch_limit` | `BranchesAreLimited` | two creations count before either inserts, and exceed the limit |
| `branch_ids` | `SingleInterventionIsSingle` | a command by hand under the identifier of a source's batch counts as replayed |

Several properties are conjunctions, so that what belongs together is checked together:
`StateMatchesRecord` (lineage, quantities), `NothingIsForgotten` (open inspections, the
record, the blocks), `CommittedAsEndorsed` (the coalition, nobody else, the version
signed), `OnlyAsAuthored` (exposure is earned, commits are approved), `AccessIsInOrder`
(what accounts may, sessions, members, and the soundness of the tables that the theorems
assume of the beginning), `RunsAreFinal` (what is recorded, what comes too late, in each
of the four services) and `ComparisonIsHonest` (the intervention is authored, a single
one is single where identifiers are kept apart).

Disagreements of code and comments that need no run of their own: corrections in one
block are checked against the same value, so a chain of them may not be coherent
(`correction-rules.ts:154`); a receipt overwrites the consumed state of its asset; a
recall is dated against its source only, so it may be older than what happened to a
descendant (`sequence-rules.ts:118`, compare :105); a receipt is endorsed by the
receiver alone (`endorsement-policies.ts:101`, compare :84); the depth of a trace is the
distance of the farthest asset, not the longest path (`trace.ts:69`, compare :21);
forging the newest block verifies, since no successor's link can break
(`integrity.ts:307`, compare :251-253); a policy counts endorsements, not roles
(`generic-run-service.ts:3735`), so that two `ENDORSEMENT` nodes for one proposal and
policy let one role count twice towards `minimumEndorsements`, other than "enough
distinct roles to satisfy the endorsement threshold" (`validation.ts:4456`), and a
policy that lists an endorser twice asks for one endorser fewer (:3863).

**Bounds.** `MaxTransactions` and `MaxRejected` bound the ledger's runs: seven
transactions create, derive twice, transfer and recall in one behaviour, with a block
boundary at every place; six, in the second question, let two corrections follow a
document or a batch, or readings, a certificate, a receipt and a derivation follow one
another. The command sets (`Submittable`) hold the commands that each question is about.
Three attempts, of requests or of deliveries, are one more than the two that race, so
that a third can observe and outrun both; `MaxWidth` 2 is a command of two events; six
requests give every pair of kinds, a reused id with other content and a stale version.
Lease 1 under a clock of 0 to 2 lets exactly one claim outlive its lease while a
successor is at work. Five edges over four assets contain every merge, cycle, repeated
edge and chain that the walk distinguishes. The endorsement run gives every request once
and lets it be delivered any number of times. Two commands make one of them fail and the
other follow it; two launches show what a later launch finds; `MaxQueue` 1
puts a save or a command behind the command that signs (the safety properties are proved
for queues of any length). The attempts wander in one stage, or in
two that follow each other, so that every stage is met both ways and the others at rest;
`MaxTries` 2 answers wrongly and then again. One branch and four requests create, play,
complete and reflect; of the identifiers a client may choose, two are new and one is a
batch's of the source; two branches and two requests suffice to exceed a limit of one.
`MaxRuns` 2 and a script with a request for evidence make a run that is over beside one
that is not. The scenarios of `MCScenarios` differ from one base scenario by one change
each, so that every node type, policy type and flaw is met with the others at rest;
three records and two findings let an audit withdraw, amend and run out; modules of two
questions and three attempts meet every rung of the credit ladder. A situation of
`MCHosted` has the requests that compete for one row, and one retry. Two edits are a
rename and what depends on it, or an edit and its undo; `HistoryLimit` 2 stands for 100
and makes the history drop its oldest draft; `Typed` is one number per kind, so that a
second record of the kind can be given the same name; two builders (`MaxInstances`) let
an upload or a timer of one end in the other. Deadlock is not checked where the system
really stops: bounded ledgers, finished demonstrations and walks, attempts and launches
that are done.

## 4. Proofs

All are proved for every value of the constants from the named assumptions
(`RegistryAssumption`, `RequestAssumption`, `SessionAssumption` ... say only that
identifiers are of their types and bounds are numbers, `LaboratoryAssumption` that a
module has questions and allows attempts, `LibraryAssumption` that lists in a scenario
are lists). A theorem that needs more has it as a hypothesis: `SealsAtOnce`,
`SoundStart`, `ApprovalsAreSimple` and `CasesAreAuthored`, below.

- `LedgerProofs`: `RecallInvariant` is the type invariant plus three facts that make
  completeness inductive: edges join existing assets, a recalled asset's targets are
  recalled, and the parents of an asset are the sources of its edges. The step that
  matters is a derivation: it cannot start from recalled goods, so the new asset has no
  recalled ancestor. `RecallIsComplete` and `RecalledGoodsAreFrozen` follow.
  `TheLedgerForgetsNothing` holds in both modes of sealing, because what waits in the
  queue is in the record and undecided, and because a derivation hands the open
  inspection on. `LineageTellsOneStory` adds to the facts above that every asset names
  the transaction that made it and that this transaction, unless rejected, made it
  (`Made`); the times along an edge are those of the rule of sequence.
  `TheWorldMatchesTheRecord` is for a ledger that seals at once (`SealsAtOnce`: the
  `IMMEDIATE` mode, or blocks of one). There nothing is pending, corrections are of
  earlier transactions, and the chain of committed corrections of a quantity is
  coherent, so that folding it ends at the value in the world state; that the fold of a
  longer record is the fold of the shorter one plus one step is shown by a least
  counterexample, with the facts of `WellFoundedInduction` that take no operator. The
  hypothesis is needed: with blocks sealed at stage boundaries a correction is applied
  before the record counts it, and of two corrections of one asset ordered between two
  seals both are accepted and the second is skipped when the chain is replayed, other
  than `correction-rules.ts:136-146` means. TLC found this on an instance with stage
  boundaries; the packaged journey, which corrects once, does not get there. Of those
  who read the record: `WalkInv` says that what is visited is reachable and that scanned
  assets have visited neighbours; an empty frontier closes the set. `TamperingIsLocated`
  is about chains of any length in blocks of any size: `ChainInv` says that before the
  edit a chain is as it was built (every digest is the digest of what it covers, every
  block names its predecessor's), and after it that the clone differs from that chain in
  the edited transaction and in what has been forged since, and in nothing else. A
  verifier that goes through such a clone finds every digest right but the ones the
  demonstration has left behind.
- `RunEventStoreProofs`: `StreamInvariant` = types, no gap, each event follows its
  predecessor, and a batch in flight is chained from the position it expects. The insert
  is safe because the primary key admits it only where nothing was stored since.
  `AnswerInvariant` says that a batch is stored whole or not at all, that all events of
  a command are one batch of one attempt, which rests on the unique key of a command's
  first event, and that an attempt whose own batch is stored finds it when it looks
  again. It gives `AnswersStayTrue` and `LimitClosesTheRun`, and with it every step of
  the store maps to a step of `RunLog` or to none (`AppendImplementsLog`): the insert is
  the append, whatever it replies, and a lookup that fails is no step at all.
- `EndorsementProofs`: `WorkflowInvariant` = types, outcomes and ledger are inverse to
  each other, proposals name the outcome of their command, and a creating command that
  has a proposal or an outcome was answered (the creation and its later commit share one
  command id). `EndorsementInvariant` adds that nobody is listed on a proposal without
  an accepted signature of its own on it, that what the log calls a mutation has an
  outcome and is backed by signatures that came before it, and that an entry of the
  ledger found its asset at the version that was proposed. Signatures stay because the
  log only grows. `CommittedOnlyAsEndorsed` follows. The attempts that play the same
  case are here too: `AttemptsResume` is for any features, any case and any learner, and
  assumes nothing of the constants. `AttemptInv` says that the replay has kept up
  (`Follows`: the same entries, the same stage and ledger, the same consequential
  decisions), that the initial decision on the certificate is journalled once and
  mitigations only after it (`CertificateOnce`), and that what the journal resolves of
  the certificate was recorded as right (`Settled`). The last is needed because an
  inquiry into the discrepancy lets the mutation examine the certificate again, which
  the replay does not: by then nothing is left to mitigate, and what is recorded a
  second time is what was recorded before (`InquiryKeeps`). That every control is
  offered only where the replay would accept its entry is `OfferedFits`.
- `CompletedRunProofs`: `DeliveryInvariant` = types, an attempt that posts sends the
  evidence that the row is bound to, and what was posted has arrived. It gives
  `DeliveredHasArrived`, `OnlyTheBoundEvidenceArrives` and `DeliveredIsFinal`.
  `LeaseInvariant` says that while no lease was outlived at most one attempt is active
  and the row is held by a claim no older than its own; it gives
  `OverlapOnlyAfterLease`. `ComparisonsAreHonest` is for any scenarios, branches and
  handlers, any number of requests and any identifiers. `ExplorationAssumption` is all it
  asks of them: decisions have names, and the coffee journey alone has conditions. What
  `ComparisonIsHonest` says of a branch it says as long as no command by hand took the
  identifier of a batch after the fork (`KeepsApart`): a branch in which one did is called
  a single intervention all the same (`branch_ids`, section 3).
  `ExplorationInv` has four parts. Of the source, that its batches are numbered. Of
  every stored branch, that it leaves a completed source at the decision it names, to
  somebody it is open to. Of its batches, that the first is what the author opened, that
  identifiers are used once, that an expired limit is the end of the branch, and that as
  long as nothing was entered by hand the i-th batch is the source's i-th from the fork
  on. Of every handler, that what it looked up still holds when it acts: the first
  command of a branch that was empty still fits, and a replay that read n batches has
  left out none after them. `Grows` is what no step takes back, and `SoundStays` draws
  the conclusion for all handlers that wait. The step that matters is `ReplayBatch`: the
  earliest batch that is left cannot lie after the next one, because what is not left
  was on the branch, and not before it, because its identifier would have been used.
  That a condition's branch repeats the source's own command, although only the decision
  and its options are compared, is `SameChoiceSameCommand`.
- `LearnerSessionProofs`: `SessionInvariant` is the conjunction of eight parts, each
  with a lemma of its own. None of the properties is inductive alone:
  `PublishedIsStored` needs that the platform's data model holds what is shown as well
  (the second commit of the final report stores the data model as it is), and that the
  mutation that signs was built on the journal that is shown; `FailedStaysOut` needs
  that a command waits at one place only and that the recovery screen, once entered,
  survives every publication. `WritesParts` is what all of them use about refused calls.
- `HostedPlatformProofs`: for any requests, of any number, that meet in any tables.
  `SoundStart` is what the tables have to be at the beginning: rows with their columns,
  that find the rows they name (`TablesAreSound`), and what the theorems conclude of
  them; that new logins and sessions get names of their own (`NamesAreNew`); and that
  requests are of the kinds the worker routes (`RequestsAreSound`). The run `hosted`
  checks that all of it holds in every state, the first included. `PlatformInvariant` is
  that the tables stay sound, and of each request that what it has read and what it was
  told still hold. The second is kept by the steps of all others because tables never
  lose certain things: what is published, closed, released, selected or inserted is so
  for ever. `Grows` is the one relation that says so, every query is shown to respect
  it, and `RequestStays` draws the conclusion once; a request's own steps remain, one
  lemma for each query. `NoSuccessIsTakenBack`, `RunsStayOnTheirContent`,
  `RevisionsStayNumbered` (the unique index on revisions admits the next number only)
  and `RostersAreNotMixed` (one batch replaces the members of a course) follow, and
  `DecisionsStay` from `Grows` itself. `OneLoginOneSession` needs `LoginsAreUsedUp`
  besides: a launch that is past its login state leaves it used up, and no other launch
  is past the same one. `CommandsDecideAccess` and `GiftsStay` are about accounts, for
  traffic in which launches, rosters and commands for one user meet in any order.
  `AccessInvariant` is what they say and that accounts have their columns. A step without
  a command only adds roles and notes each as a gift made after the commands so far; a
  command replaces the roles and is from then on the last for its user; and only the
  addresses that are configured for it are bootstrapped (`BootstrapsAreAllowed`). The
  accounts must be in step with the commands at the beginning (`AccessIsSettled`), which
  `hosted` checks in every state. The stores put rows into tables by `With` and `Merged` because
  the prover does not know the operators of module TLC.

- `RuntimeProofs`: `RunsReplay` is about the run that is played in any of the four
  services, for any audits and modules. A stored run is loaded by playing its events
  again from the start, and the load refuses what could not have been submitted.
  `AuditInv` says that no two active findings are about one matter, whatever was amended
  and withdrawn in between, which is what the load asks of the findings together, and
  that a deadline that has passed is before the conclusion. `LabInv` says that the
  laboratory has completed every attempt at the questions behind it, none at those
  ahead, and no more than it allows at the one it is at. `CoffeeInv` says where the
  journey is in its script and that the role at work is the one that the events before
  have handed over to; the facts about the script that it needs (`Stations`) are
  computed from the script and not assumed of it. `RunsAreAsAuthored` is about the
  scenarios of any library. `Good` says of a run what is out, cited, committed and
  approved, and `Grows` that a step takes nothing of it back: what a step adds is in
  order (`Adds`), and whoever was in order stays so while everything it rests on only
  grows. The server passes through releases, checks and chances by itself after a
  command, in a recursive function over the number of nodes passed; that the run it ends
  at is good is shown by a least counterexample on that number. The hypothesis
  `ApprovalsAreSimple` (no two approvals are about one proposal and one policy, which
  names nobody twice) is needed because the code counts endorsements and not roles, see
  section 3; TLC evaluates it on the library of the run. `RunsStayFinal` is about all
  four services and needs no such hypothesis. A step is shown to leave the records of
  the run that it plays and to leave the others alone (`RunIsFinal`), from the
  invariants above and `FinalInv`: every finding of an audit counts its revisions, an
  answer of the coffee journey is there only once the journey is past its question
  (`AnswersInOrder`), or it could be given again and change, and a deadline has passed
  only for a run that there is. `Grows` says what a generic run keeps. In the
  laboratory, that a score of a module behind is not touched, and that only a hint
  lowers the total, is induction over the modules by a least counterexample
  (`TotalGrows`). `GradesStaySound` says of the three services that grade that work that
  is right gets the whole grade, and what the whole grade means. An audit's report counts
  findings, so it needs that active findings are each about a matter of its own
  (`AuditInv`). `CasesAreAuthored` is what the validator asks of a case: it has a
  definition, and each requires evidence and policies. `ArgumentsAreGraded` says of each
  line that it is the maximum only if what is lost of it is less than half a point
  (`ShareIs`, `RatioIs`). How much is lost depends on the case, and the code rounds: with
  four definitions one wrong materiality is 9.5 points of 10, with five it is 9.6, and
  both count as 10 and leave a grade of 100. So the whole grade of an audit says that
  every finding is argued without a fault only where every fault shows (`RoundingShows`:
  at most three definitions, none of which asks for so many items that, times the
  definitions, they come to 30 of evidence or 20 of policy); that every matter was
  reported and nothing else it says below fifty definitions. The published cases have
  three definitions that ask for two items and one policy each. In the laboratory, the total is the maximum only if every module's is, and
  that only if every fraction is whole (`FullFraction`): a hint or a second attempt costs
  something because the validator wants a hint's ceiling at one half and points of at
  least one, which `ModulesAreSound` says. A coffee journey is worth its answers,
  the transactions on its ledger and the credit for second attempts. `MeritsCount` says
  what it has of these at each of its steps: all the questions before it answered, the
  scope of the custody transfer rightly, at most one transaction of the recall refused,
  and a mitigation only where there is something to mitigate.
- `ScreenProofs`: `SavedDraftIsStored` needs, in `AuthorInv`, only that a stored draft
  is offered while nothing is open that could take its place; that every control of the
  builder edits an open draft is `EditsAnOpenDraft`. `LearnerInv` says of the learner's
  screen that what somebody was shown of a run is an earlier state of it or the one it
  is in, that an answer on its way is about the run that was asked for, that while the
  feedback is loaded the run it is about is shown and over, and that a command carries
  the version of the state on display. `FeedbackFitsTheRun` and the action property
  `CommandsFitWhatIsShown` follow, for any script, any number of runs and of tabs.

Some theorems state what no run checks any more because TLC would only repeat it: the
type invariants, `ProposalNamesItsTransaction`, `DeliveredIsFinal`, `FailedStaysOut`.
`LineageTellsOneStory`, `RostersAreNotMixed`, `OneLoginOneSession`, `CommandsDecideAccess`
and `GiftsStay` state parts of properties that runs check together.

Proof attempts also improved the models: two arms of a CASE in the store overlapped, so
that the outcome of a failed lookup was left to TLC's order; they are alternatives of
one IF now, as in the code. The batches a replay has left are a set of places in the
source, not a sequence filtered once. Grades are sums written out, as the code writes
them, where they were sums over sets, and `ModulesAreSound` asks of the laboratory's
points and of the hint's ceiling what the validator asks
(`technical-lab/validation.ts:755-761` and `835-875`), where it only gave their types.

Only model-checked:
- of `SessionsAreEarned`, that a gift was a launch's own or a roster's (`GiftsAreEarned`),
  and that the user of a learner's session is on the roster of the assignment and was
  given the role;
- what is left of `screens`: `ReferencesResolve` and the action property
  `ReferencesFollow`. They are about operators that fold over authored data;
- liveness (`WalkReturns`, `SubmittedIsAnswered`, `LearnerFinishes`, `AttemptFinishes`,
  `DraftIsSavedAtLast`, `ScreenComesBack`) and ENABLED, which are out of the prover's
  reach. So is induction over data by a theorem that takes an operator; where a least
  counterexample does instead, it is used.

## 5. Not modelled

See the components with status `not_modelled`, and the notes of those that are `partly`
modelled, in `PROJECT.json`. Presentation, codecs of a single value, signatures, static
configuration and build scripts stay out: they are functions without interleavings,
which unit tests reach. What remains of the hosted platform are routes that only read.

## 6. How to run

    tlc -workers 2 -config Ledger.cfg MCLedger.tla
    tlc -workers 2 -config Hosted.cfg MCHosted.tla
    tlapm LedgerProofs.tla

`PROJECT.json` names the module and the configuration of each run.

## 7. Plan

Still to be written: package jobs, the packaged score engine, service tokens and author
links, the rest of the coffee journey in counterfactual branches.

Theorems worth proving next: `ReferencesResolve`, which needs what a draft's references
are as one relation, not as a fold over its parts.
