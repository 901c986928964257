-------------------------- MODULE ScenarioPackStore --------------------------
(***************************************************************************)
(* Drafts, publication and retirement of one version of a scenario pack    *)
(* (persistence/d1-scenario-pack-repository.ts and the routes above it).   *)
(* db.packs maps a version to its row; the content of a row is a value,    *)
(* which the validator accepts (ScenarioPack is about what it accepts).    *)
(***************************************************************************)
EXTENDS HostedRequests

Mutable == {"draft", "validated"}

PackStatus(p) == IF p \in DOMAIN db.packs THEN db.packs[p].status ELSE "absent"

\* Mutant: the upsert loses its WHERE clause.
SaveDraftOver(r) ==
    LET q == request[r]
    IN  /\ Query(r, "saveDraft")
        /\ db' = [db EXCEPT !.packs =
                     With(@, q.pack, [status |-> "draft", content |-> q.content, retiredBy |-> Null])]
        /\ IF q.kind = "import" THEN Done(r, q.content) ELSE Continue(r, "findPublishable")

\* The upsert replaces a draft whoever saved it, and no other row.
SaveDraft(r) ==
    LET q == request[r]
        row == [status |-> "draft", content |-> q.content, retiredBy |-> Null]
    IN  /\ Query(r, "saveDraft")
        /\ IF PackStatus(q.pack) \in Mutable \union {"absent"}
           THEN /\ db' = [db EXCEPT !.packs = With(@, q.pack, row)]
                /\ IF q.kind = "import" THEN Done(r, q.content) ELSE Continue(r, "findPublishable")
           ELSE Refuse(r, "PUBLISHED_PACK_CANNOT_BE_REPLACED") /\ UNCHANGED db

\* The route looks the draft up for its assets before the repository reads it again.
FindDraft(r) ==
    /\ Query(r, "findDraft")
    /\ IF PackStatus(request[r].pack) = "absent"
       THEN Refuse(r, "SCENARIO_PACK_NOT_FOUND")
       ELSE Continue(r, "findPublishable")
    /\ UNCHANGED db

FindPublishable(r) ==
    LET p == request[r].pack
    IN  /\ Query(r, "findPublishable")
        /\ IF PackStatus(p) \in Mutable
           THEN Keep(r, "publish", [content |-> db.packs[p].content])
           ELSE Refuse(r, "PUBLISHED_PACK_CANNOT_BE_REPLACED")
        /\ UNCHANGED db

\* Mutant: the update is not conditional on the row still being a draft.
PublishAnyway(r) ==
    LET p == request[r].pack
    IN  /\ Query(r, "publish")
        /\ db' = [db EXCEPT !.packs[p] = [@ EXCEPT !.status = "published", !.content = seen[r].content]]
        /\ Done(r, seen[r].content)

\* What was read is what is published: a draft saved meanwhile is overwritten.
Publish(r) ==
    LET p == request[r].pack
    IN  /\ Query(r, "publish")
        /\ IF PackStatus(p) \in Mutable
           THEN /\ db' = [db EXCEPT !.packs[p] =
                             [@ EXCEPT !.status = "published", !.content = seen[r].content]]
                /\ Done(r, seen[r].content)
           ELSE Refuse(r, "CHANGED_WHILE_BEING_PUBLISHED") /\ UNCHANGED db

FindRetirement(r) ==
    LET q == request[r]
        bound == {p \in DOMAIN db.packs : db.packs[p].retiredBy = q.command}
    IN  /\ Query(r, "findRetirement")
        /\ CASE bound = {} -> Continue(r, "findRetirable")
             [] bound = {q.pack} -> Done(r, q.command)
             [] OTHER -> Refuse(r, "RETIREMENT_COMMAND_BOUND")
        /\ UNCHANGED db

FindRetirable(r) ==
    /\ Query(r, "findRetirable")
    /\ IF PackStatus(request[r].pack) = "published"
       THEN Continue(r, "retire")
       ELSE Refuse(r, "ONLY_PUBLISHED_MAY_BE_RETIRED")
    /\ UNCHANGED db

\* The command identifier is unique over all packs.  Nothing leaves "retired", so the
\* reload that follows the update finds what it wrote.
Retire(r) ==
    LET q == request[r]
        taken == \E p \in DOMAIN db.packs : db.packs[p].retiredBy = q.command
    IN  /\ Query(r, "retire")
        /\ IF PackStatus(q.pack) = "published" /\ ~taken
           THEN /\ db' = [db EXCEPT !.packs[q.pack] =
                             [@ EXCEPT !.status = "retired", !.retiredBy = q.command]]
                /\ Done(r, q.command)
           ELSE Refuse(r, "CHANGED_WHILE_BEING_RETIRED") /\ UNCHANGED db

ManagePacks(r) ==
    \/ SaveDraft(r)
    \/ FindDraft(r)
    \/ FindPublishable(r)
    \/ Publish(r)
    \/ FindRetirement(r)
    \/ FindRetirable(r)
    \/ Retire(r)

=============================================================================
