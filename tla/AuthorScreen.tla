---------------------------- MODULE AuthorScreen ----------------------------
(***************************************************************************)
(* The scenario author's screen around the builder                         *)
(* (src/src/platform/author/scenario-author-screen.tsx): the draft being   *)
(* worked on, the copy of it the browser keeps, the draft offered when     *)
(* the page opens, and the answers the screen waits for.  Most buttons are *)
(* disabled while a request is out, the builder is not: an answer may find *)
(* another draft than the one that was sent.                               *)
(*                                                                         *)
(* Validation reports, previews, comparisons and downloads change nothing  *)
(* the author works on; a request of that kind only keeps the screen busy. *)
(***************************************************************************)
EXTENDS ScenarioBuilder

CONSTANTS Starts,        \* what is open when the author begins, and what he sets out to do
          Templates,     \* the drafts a button starts from
          Files,         \* bound: what the files hold the author selects
          MaxInstances   \* bound: how many drafts the author opens

VARIABLES instance,      \* builderInstanceId: how many drafts were opened
          stored,        \* the draft in the browser's storage, or NoPack
          offered,       \* recoverableDraft, or NoPack
          saved,         \* draftSaved: the screen says the draft is safe
          saveFailed,    \* draftSaveFailed
          saveDue,       \* a save timer is running
          request,       \* what the screen is busy with, and for which draft
          file,          \* the file being read, or NoPack
          upload,        \* the image being uploaded: from which draft, in which builder
          library        \* the server's version of the draft, and its status

browser == <<stored, offered, saved, saveFailed, saveDue>>
waiting == <<request, file, upload>>
vars == <<builder, plan, instance, browser, waiting, library>>

\* A value that is not a pack; it can be sent, but not edited.
Malformed == [NoPack EXCEPT !.wording = 1]
IsEditable(p) == p.records # <<>>
Idle == [kind |-> "none", pack |-> NoPack]
NoUpload == [pack |-> NoPack, instance |-> 0]
NoEntry == [pack |-> NoPack, status |-> "none"]
busy == request # Idle

TypeOK ==
    /\ plan \in Plans
    /\ edits \in 0..plan.edits
    /\ instance \in 0..MaxInstances
    /\ {saved, saveFailed, saveDue} \subseteq BOOLEAN
    /\ request.kind \in {"none", "validate", "import", "edit", "publish", "retire"}
    /\ library.status \in {"none", "draft", "published", "retired"}
    /\ Len(undoHistory) <= HistoryLimit

-----------------------------------------------------------------------------
(* The draft on the screen *)

\* The builder closes with its histories, the save timer is stopped.
CloseBuilder ==
    /\ pack' = NoPack
    /\ undoHistory' = <<>>
    /\ redoHistory' = <<>>
    /\ kept' = {}
    /\ saveDue' = FALSE
    /\ UNCHANGED edits

clearStoredDraft ==
    /\ stored' = NoPack
    /\ offered' = NoPack
    /\ saved' = FALSE
    /\ saveFailed' = FALSE

OpenBuilder(p) ==
    /\ instance < MaxInstances
    /\ pack' = p
    /\ undoHistory' = <<>>
    /\ redoHistory' = <<>>
    /\ kept' = {}
    /\ instance' = instance + 1
    /\ saveDue' = IsEditable(p)
    /\ UNCHANGED edits

beginCandidate(p) == clearStoredDraft /\ OpenBuilder(p)

\* Mutant: an edit does not take back that the draft is saved.
TypingKeepsSaved ==
    /\ BuilderNext
    /\ saveDue' = TRUE
    /\ saveFailed' = FALSE
    /\ UNCHANGED <<instance, stored, offered, saved, waiting, library>>

Typing ==
    /\ BuilderNext
    /\ saved' = FALSE
    /\ saveFailed' = FALSE
    /\ saveDue' = TRUE
    /\ UNCHANGED <<instance, stored, offered, waiting, library>>

\* Mutant: a failed save is not reported.
SaveDraftQuietly ==
    /\ saveDue
    /\ saveDue' = FALSE
    /\ \/ stored' = pack /\ saved' = TRUE
       \/ UNCHANGED <<stored, saved>>
    /\ UNCHANGED <<builder, plan, instance, offered, saveFailed, waiting, library>>

\* The timer: every change stops it and starts it again, so what it saves is
\* what is on the screen.  The browser may refuse.
SaveDraft ==
    /\ saveDue
    /\ saveDue' = FALSE
    /\ \/ stored' = pack /\ saved' = TRUE /\ saveFailed' = FALSE
       \/ saveFailed' = TRUE /\ UNCHANGED <<stored, saved>>
    /\ UNCHANGED <<builder, plan, instance, offered, waiting, library>>

restoreDraft ==
    /\ offered # NoPack
    /\ OpenBuilder(offered)
    /\ offered' = NoPack
    /\ saved' = TRUE
    /\ UNCHANGED <<plan, stored, saveFailed, waiting, library>>

DiscardDraft ==
    /\ offered # NoPack
    /\ clearStoredDraft
    /\ UNCHANGED <<builder, plan, instance, saveDue, waiting, library>>

startNewScenario ==
    /\ ~busy /\ offered = NoPack
    /\ \E p \in Templates : beginCandidate(p)
    /\ UNCHANGED <<plan, waiting, library>>

-----------------------------------------------------------------------------
(* Files *)

selectFile(p) ==
    /\ ~busy /\ offered = NoPack /\ file = NoPack
    /\ file' = p
    /\ UNCHANGED <<builder, plan, instance, browser, request, upload, library>>

\* A file that cannot be read, or an image of it that cannot be stored, closes
\* whatever was open.
FileRead ==
    /\ file # NoPack
    /\ file' = NoPack
    /\ \/ beginCandidate(file)
       \/ CloseBuilder /\ UNCHANGED <<instance, stored, offered, saved, saveFailed>>
    /\ UNCHANGED <<plan, request, upload, library>>

-----------------------------------------------------------------------------
(* Requests.  The answer comes for the draft that was sent. *)

Ask(kind, p) ==
    /\ ~busy
    /\ request' = [kind |-> kind, pack |-> p]
    /\ UNCHANGED <<builder, plan, instance, browser, file, upload, library>>

Answered == request' = Idle /\ UNCHANGED <<plan, file, upload>>
ScreenStays == UNCHANGED <<builder, instance, browser>>

validate == pack # NoPack /\ Ask("validate", pack)
importCandidate == pack # NoPack /\ Ask("import", pack)

\* A version is edited, or published, only while no draft is open.
editPack ==
    /\ library.status = "draft" /\ ~IsEditable(pack) /\ offered = NoPack
    /\ Ask("edit", library.pack)
publish ==
    /\ library.status = "draft" /\ ~IsEditable(pack) /\ offered = NoPack
    /\ Ask("publish", library.pack)
retire == library.status = "published" /\ Ask("retire", library.pack)

ValidateAnswered ==
    /\ request.kind = "validate"
    /\ Answered
    /\ ScreenStays
    /\ UNCHANGED library

\* What the server stored leaves the screen, unless the list of packs could not be
\* read afterwards; what it refused stays.
ImportAnswered ==
    /\ request.kind = "import"
    /\ Answered
    /\ \/ /\ IsEditable(request.pack)
          /\ library.status \in {"none", "draft"}
          /\ library' = [pack |-> request.pack, status |-> "draft"]
          /\ \/ CloseBuilder /\ clearStoredDraft /\ UNCHANGED instance
             \/ ScreenStays
       \/ ScreenStays /\ UNCHANGED library

\* Somebody else may have published the version by now.
EditAnswered ==
    /\ request.kind = "edit"
    /\ Answered
    /\ \/ library.status = "draft" /\ beginCandidate(library.pack)
       \/ ScreenStays
    /\ UNCHANGED library

LifecycleAnswered ==
    /\ request.kind \in {"publish", "retire"}
    /\ Answered
    /\ ScreenStays
    /\ \/ /\ request.kind = "publish" /\ library.status = "draft"
          /\ library' = [library EXCEPT !.status = "published"]
       \/ /\ request.kind = "retire" /\ library.status = "published"
          /\ library' = [library EXCEPT !.status = "retired"]
       \/ UNCHANGED library

-----------------------------------------------------------------------------
(* Images *)

StartUpload ==
    /\ IsEditable(pack) /\ Open("media") /\ upload = NoUpload
    /\ upload' = [pack |-> pack, instance |-> instance]
    /\ UNCHANGED <<builder, plan, instance, browser, request, file, library>>

\* The image goes into the draft the upload was started from, and that draft onto
\* the screen, whatever is there by now.
UploadAnswered ==
    /\ upload # NoUpload
    /\ upload' = NoUpload
    /\ \/ ScreenStays
       \/ /\ edits < plan.edits
          /\ edits' = edits + 1
          /\ pack' = NewImage(upload.pack, "SCENE_ILLUSTRATION")
          /\ IF IsEditable(pack) /\ instance = upload.instance
             THEN /\ undoHistory' =
                         Append(KeepLast(undoHistory, HistoryLimit - 1), upload.pack)
                  /\ redoHistory' = <<>>
             ELSE UNCHANGED <<undoHistory, redoHistory>>
          /\ kept' = {}
          /\ saved' = FALSE
          /\ saveFailed' = FALSE
          /\ saveDue' = TRUE
          /\ UNCHANGED <<instance, stored, offered>>
    /\ UNCHANGED <<plan, request, file, library>>

-----------------------------------------------------------------------------
(* Leaving the page, with or without the browser's warning, and coming back.  What *)
(* the server was asked to do it may still do.                                     *)

Leave ==
    /\ CloseBuilder
    /\ offered' = stored
    /\ saved' = FALSE
    /\ saveFailed' = FALSE
    /\ request' = Idle /\ file' = NoPack /\ upload' = NoUpload
    /\ \/ /\ request.kind = "import" /\ IsEditable(request.pack)
          /\ library.status \in {"none", "draft"}
          /\ library' = [pack |-> request.pack, status |-> "draft"]
       \/ UNCHANGED library
    /\ UNCHANGED <<plan, instance, stored>>

Screen ==
    \/ SaveDraft \/ restoreDraft \/ DiscardDraft \/ startNewScenario
    \/ (\E p \in Files : selectFile(p)) \/ FileRead
    \/ validate \/ importCandidate \/ editPack \/ publish \/ retire
    \/ ValidateAnswered \/ ImportAnswered \/ EditAnswered \/ LifecycleAnswered
    \/ StartUpload \/ UploadAnswered
    \/ Leave

Next == Typing \/ (plan.screen /\ Screen)

Opened(p) ==
    /\ pack = p
    /\ undoHistory = <<>> /\ redoHistory = <<>>
    /\ edits = 0 /\ kept = {}
    /\ instance = IF IsEditable(p) THEN 1 ELSE 0
    /\ stored = NoPack /\ offered = NoPack
    /\ saved = FALSE /\ saveFailed = FALSE /\ saveDue = IsEditable(p)
    /\ request = Idle /\ file = NoPack /\ upload = NoUpload
    /\ library = NoEntry

Init == \E start \in Starts : plan = start.plan /\ Opened(start.draft)

\* The browser runs its timers.
Fairness == WF_vars(plan.screen /\ SaveDraft)

Spec == Init /\ [][Next]_vars /\ Fairness

-----------------------------------------------------------------------------
(* Properties *)

\* A draft the screen calls safe, and would let the author leave without a warning, is
\* in the browser's storage as it is on the screen, whatever was edited, undone,
\* uploaded, opened or answered in the meantime; and a draft offered for recovery is
\* still there to be recovered.
SavedDraftIsStored ==
    /\ IsEditable(pack) /\ saved => stored = pack
    /\ offered # NoPack => stored = offered

\* An author who stops is not kept waiting: in the end his draft is stored, the screen
\* says that it could not be, or there is no draft any more.
DraftIsSavedAtLast ==
    plan.screen /\ IsEditable(pack) ~> (saved \/ saveFailed \/ ~IsEditable(pack))
=============================================================================
