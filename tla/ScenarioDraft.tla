---------------------------- MODULE ScenarioDraft ----------------------------
(***************************************************************************)
(* A scenario pack in the author's hands, and what the builder does to it  *)
(* (src/src/platform/author/scenario-builder-model.ts and the editors of   *)
(* scenario-builder.tsx).  A pack is one sequence of records, each with    *)
(* the identifier it is known by, the identifiers it refers to, and the    *)
(* record it belongs to.  Wording, numbers and toggles are one token.      *)
(*                                                                         *)
(* "key" says which record it is, whatever is edited; the code has no such *)
(* thing and goes by StableKey instead.                                    *)
(***************************************************************************)
EXTENDS Integers, SequencesExt, FiniteSetsExt

\* An identifier: a base, and the suffix that keeps it apart.
Empty == <<"", 0>>
Nameless == <<"-", 0>>
Id(base, n) == <<base, n>>
\* A name made of another.
Named(id, ending) ==
    Id((IF id[2] = 1 THEN id[1] ELSE id[1] \o "_" \o ToString(id[2])) \o ending, 1)
PerformanceIndicator(id) == Named(id, ".PI1")

Records(p) == ToSet(p.records)
Of(p, s, kind) == SelectSeq(p.records, LAMBDA r : r.kind = kind /\ r.scenario = s)
Inside(p, owner, kind) ==
    SelectSeq(p.records, LAMBDA r : r.kind = kind /\ r.parent = owner)
Known(p, key) == CHOOSE r \in Records(p) : r.key = key
IdsOf(records) == {r.id : r \in ToSet(records)}
FirstId(records) == IF records = <<>> THEN Empty ELSE records[1].id
Referred(r, field) == {x[2] : x \in {y \in r.refs : y[1] = field}}
Refer(field, ids) == {<<field, id>> : id \in ids}
Scenarios(p) == Of(p, 0, "scenario")

uniqueIdentifier(existing, base) ==
    Id(base, Min({n \in 1..(Cardinality(existing) + 1) : Id(base, n) \notin existing}))

\* The correct options of a decision are listed by field, and so the names of its fields
\* are keys there: never counted, never replaced.
KeyFields == {"correctOptionIdsByField"}

\* How often an identifier is written in some records.
countExactIdentifierOccurrences(records, id) ==
    Cardinality({w \in UNION {{<<r.key, x>> : x \in r.refs \cup {<<"id", r.id>>}} : r \in records} :
                    w[2][1] \notin KeyFields /\ w[2][2] = id})

InScenario(p, s) == {r \in Records(p) : r.scenario = s \/ r.key = s}

-----------------------------------------------------------------------------
(* Whose identifier is whose: the keys the code matches two drafts by      *)

ScenarioKinds == {"scenario", "organization", "role", "policy", "evidence", "incident",
                  "outcomeModel", "node", "decision", "field", "option"}
PackKinds == {"scenario", "framework", "competency", "indicator", "rubric", "criterion", "rule"}

\* A rule is matched by its place, a model by its random stream, the rest by
\* the localization key of what they are called.
StableKey(p, r) ==
    CASE r.kind = "rule" ->
             <<r.kind, CHOOSE i \in DOMAIN Of(p, 0, "rule") : Of(p, 0, "rule")[i] = r>>
      [] r.kind = "outcomeModel" -> <<r.kind, r.type>>
      [] OTHER -> <<r.kind, r.label>>

\* The identifiers of some records, as the code lists them: in order, with
\* their stable keys.
StableIdentifiers(p, records) ==
    [i \in DOMAIN records |-> [key |-> StableKey(p, records[i]), id |-> records[i].id]]

scenarioIdentifiers(p, s) ==
    StableIdentifiers(p, SelectSeq(p.records, LAMBDA r :
        r.kind \in ScenarioKinds /\ (r.scenario = s \/ r.key = s)))

packIdentifiers(p) == StableIdentifiers(p, SelectSeq(p.records, LAMBDA r : r.kind \in PackKinds))

\* Which identifiers became which others.  A later entry for one key, or for
\* one old identifier, replaces an earlier one (a Map built from pairs).
changedIdentifierMap(previous, next) ==
    LET Before(key) == SelectSeq(previous, LAMBDA e : e.key = key)
        Renamed == SelectSeq(next, LAMBDA e :
            /\ Before(e.key) # <<>>
            /\ Last(Before(e.key)).id # e.id
            /\ Cardinality({i \in DOMAIN previous :
                   previous[i].id = Last(Before(e.key)).id}) = 1)
        Old(e) == Last(Before(e.key)).id
    IN  [id \in {Old(e) : e \in ToSet(Renamed)} |->
            Last(SelectSeq(Renamed, LAMBDA e : Old(e) = id)).id]

\* An empty name is replaced only where the field is one for identifiers.
ResultCodes == {"outcome", "forcedOutcomeCode", "resultCode"}
replaceExactIdentifiers(r, map) ==
    LET IsReplaced(field, id) == /\ id \in DOMAIN map
                                 /\ field \notin KeyFields
                                 /\ id = Empty => field \notin ResultCodes
        New(field, id) == IF IsReplaced(field, id) THEN map[id] ELSE id
    IN  [r EXCEPT !.id = New(r.kind, @), !.refs = {<<x[1], New(x[1], x[2])>> : x \in @}]

\* Mutant: every occurrence is replaced, whichever scenario it is written in.
reconcileAcrossScenarios(previous, next) ==
    LET map == changedIdentifierMap(
            StableIdentifiers(previous, previous.records), StableIdentifiers(next, next.records))
    IN  [next EXCEPT !.records = [i \in DOMAIN @ |-> replaceExactIdentifiers(@[i], map)]]

\* An edit and every exact reference to what it renamed, as one change: first
\* the identifiers of the pack, everywhere; then those of each scenario, in it.
reconcileScenarioPackReferences(previous, next) ==
    LET pack == changedIdentifierMap(packIdentifiers(previous), packIdentifiers(next))
        once == [next EXCEPT !.records =
                    [i \in DOMAIN @ |-> replaceExactIdentifiers(@[i], pack)]]
        Former(s) == {q.key : q \in {x \in ToSet(Scenarios(previous)) : x.label = s.label}}
        Of1(s) == IF Former(s) = {} THEN <<>>
                  ELSE changedIdentifierMap(
                           scenarioIdentifiers(previous, CHOOSE k \in Former(s) : TRUE),
                           scenarioIdentifiers(once, s.key))
        maps == [k \in {s.key : s \in ToSet(Scenarios(next))} |-> Of1(Known(next, k))]
        Mine(r) == IF r.kind = "scenario" THEN r.key ELSE r.scenario
    IN  [once EXCEPT !.records = [i \in DOMAIN @ |->
            IF Mine(@[i]) = 0 THEN @[i] ELSE replaceExactIdentifiers(@[i], maps[Mine(@[i])])]]
=============================================================================
