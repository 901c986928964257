------------------------------- MODULE MCHosted -------------------------------
(***************************************************************************)
(* The hosted platform, one question per behaviour: three deliveries of    *)
(* six requests to one run (MCRunEventStore), a run played by its service  *)
(* (MCScenarios), or situations in which two to four requests meet in the  *)
(* platform.  Each entry of AllTraffic names its requests and what the     *)
(* database held before them; a request that repeats another one's command *)
(* stands for the retry of a lost answer.                                  *)
(***************************************************************************)
EXTENDS MCRunEventStore, MCScenarios, HostedPlatform, HostedRuntime

ASSUME ApprovalsAreSimpleHere == ApprovalsAreSimple

ASSUME CasesAreAuthoredHere == CasesAreAuthored

VARIABLE question     \* what this behaviour is about

\* Two administrators, one of them an instructor besides; a scenario author; a rater.
Staff(roles) == [status |-> "active", roles |-> roles, origin |-> "administrator", gifts |-> {}]

People ==
    "ada" :> Staff({"administrator"}) @@ "ben" :> Staff({"administrator", "instructor"})
    @@ "cho" :> Staff({"scenario-author"}) @@ "rae" :> Staff({"rater"})
    @@ "lee" :> Staff({"learner"})
    @@ "moe" :> [status |-> "active", roles |-> {"learner"}, origin |-> "lti", gifts |-> {}]
    @@ "ivy" :> [status |-> "active", roles |-> {"instructor"}, origin |-> "lti", gifts |-> {}]

Row(status, content) == [status |-> status, content |-> content, retiredBy |-> Null]

Work(by, context) ==
    [command |-> "c0", pack |-> "p", content |-> "v1", context |-> context, by |-> by,
     learners |-> {"lee"}, raters |-> {"rae"}, closedBy |-> Null, releasedBy |-> Null]

Run(completed) ==
    "run" :> [command |-> "s0", assignment |-> "a", learner |-> "lee", content |-> "v1",
              completed |-> completed]

Session(user, role, type) ==
    [user |-> user, role |-> role, type |-> type, context |-> "course", assignment |-> Null,
     revoked |-> FALSE, expired |-> FALSE, response |-> << >>]

Nothing == << >>

Tables ==
    [accounts |-> People, accessCommands |-> << >>, packs |-> "p" :> Row("published", "v1"),
     assignments |-> Nothing, runs |-> Nothing, ratings |-> {}, moderations |-> {},
     states |-> Nothing, sessions |-> Nothing, members |-> Nothing, syncs |-> Nothing]

By(user, what) == [kind |-> what, by |-> user, session |-> Null]
From(session, what) == [kind |-> what, by |-> Null, session |-> session]

Import(user, content) == By(user, "import") @@ [pack |-> "p", content |-> content]
PublishStored(user) == By(user, "publish") @@ [pack |-> "p"]
PublishPosted(user, content) == By(user, "publishPosted") @@ [pack |-> "p", content |-> content]
RetirePack(user, pack, command) == By(user, "retire") @@ [pack |-> pack, command |-> command]
Give(by, command, user, status, roles) ==
    By(by, "administer") @@ [command |-> command, user |-> user, status |-> status, roles |-> roles]
Assign(caller, command, a, learners) ==
    caller @@ [command |-> command, assignment |-> a, pack |-> "p", learners |-> learners, raters |-> {"rae"}]
Decide(user, what, command, a) == By(user, what) @@ [command |-> command, assignment |-> a]
Start(user, command, id) ==
    By(user, "start") @@ [command |-> command, run |-> id, assignment |-> "a", learner |-> "lee"]
RateIt(user, command, criterion, expected, level) ==
    By(user, "rate") @@ [command |-> command, run |-> "run", criterion |-> criterion,
                         expected |-> expected, level |-> level, sources |-> {}]
ModerateIt(user, command, criterion, expected, sources) ==
    By(user, "moderate") @@ [command |-> command, run |-> "run", criterion |-> criterion,
                             expected |-> expected, level |-> 1, sources |-> sources]
LaunchAs(state, subject, role, type, a) ==
    [kind |-> "launch", by |-> Null, session |-> Null, state |-> state, subject |-> subject,
     role |-> role, type |-> type, context |-> "course", assignment |-> a]
LogIn == [kind |-> "login", by |-> Null, session |-> Null]
LogOut(token) == From(token, "logout")
Select(token, a) == From(token, "link") @@ [selection |-> a]
Sync(token, id) == From(token, "sync") @@ [sync |-> id]

Meets(requests, tables) == [requests |-> requests, tables |-> tables @@ Tables]

AssignedWork == [assignments |-> "a" :> Work("ben", Null)]
CourseWork == [assignments |-> "a" :> Work("ivy", "course") @@ "b" :> [Work("ivy", "course") EXCEPT !.command = "c1"]]
LinkSession == "deep" :> Session("ivy", "instructor", "deep-linking")
CourseSession == "live" :> Session("ivy", "instructor", "resource-link")

AllTraffic ==
    "drafts" :> Meets(
        "one" :> Import("cho", "v2") @@ "two" :> PublishStored("ada") @@ "three" :> PublishPosted("cho", "v3")
        @@ "four" :> RetirePack("ada", "p", "t1"),
        [packs |-> "p" :> Row("draft", "v1")])
    @@ "retirement" :> Meets(
        "one" :> RetirePack("ada", "p", "t1") @@ "two" :> RetirePack("cho", "p", "t2")
        @@ "three" :> RetirePack("ada", "q", "t1") @@ "four" :> RetirePack("ada", "p", "t1"),
        [packs |-> "p" :> Row("published", "v1") @@ "q" :> Row("published", "v2")])
    @@ "content" :> Meets(
        "one" :> PublishPosted("cho", "v2") @@ "two" :> Assign(By("ben", "create"), "c1", "a", {"lee"})
        @@ "three" :> Start("lee", "s1", "run") @@ "four" :> Import("cho", "v3"),
        [packs |-> "p" :> Row("draft", "v1")])
    @@ "opening" :> Meets(
        "one" :> Assign(By("ben", "create"), "c1", "a", {"lee"}) @@ "two" :> Start("lee", "s1", "run")
        @@ "three" :> RetirePack("ada", "p", "t1") @@ "four" :> Give("ada", "g1", "lee", "disabled", {"learner"}),
        Nothing)
    @@ "twice" :> Meets(
        "one" :> Assign(By("ben", "create"), "c1", "a", {"lee"}) @@ "two" :> Assign(By("ben", "create"), "c1", "a", {"lee"})
        @@ "three" :> Assign(By("ben", "create"), "c1", "b", {}),
        Nothing)
    @@ "closing" :> Meets(
        "one" :> Decide("ben", "close", "d1", "a") @@ "two" :> Decide("ada", "close", "d2", "a")
        @@ "three" :> Start("lee", "s1", "run") @@ "four" :> Decide("ada", "close", "d1", "b"),
        [assignments |-> "a" :> Work("ben", Null) @@ "b" :> [Work("ben", Null) EXCEPT !.command = "c1"]])
    @@ "starting" :> Meets(
        "one" :> Start("lee", "s1", "run") @@ "two" :> Start("ben", "s2", "run") @@ "three" :> Start("lee", "s1", "run"),
        AssignedWork)
    @@ "releasing" :> Meets(
        "one" :> Decide("ben", "release", "f1", "a") @@ "two" :> Decide("ada", "release", "f2", "a")
        @@ "three" :> Decide("ben", "release", "f1", "a"),
        AssignedWork)
    @@ "rating" :> Meets(
        "one" :> RateIt("rae", "r1", "k", 0, 1) @@ "two" :> RateIt("ben", "r2", "k", 0, 2)
        @@ "three" :> RateIt("rae", "r1", "k", 0, 1) @@ "four" :> RateIt("ben", "r3", "k", 1, 2),
        AssignedWork @@ [runs |-> Run(TRUE)])
    @@ "moderation" :> Meets(
        "one" :> RateIt("rae", "r1", "k", 0, 1) @@ "two" :> ModerateIt("ben", "m1", "k", 0, {"r1"})
        @@ "three" :> ModerateIt("ada", "m2", "j", 0, {"r1"}) @@ "four" :> ModerateIt("ben", "m1", "k", 0, {"r1"}),
        AssignedWork @@ [runs |-> Run(FALSE)])
    @@ "access" :> Meets(
        "one" :> Give("ada", "g1", "ben", "active", {"learner"}) @@ "two" :> Give("ben", "g2", "ada", "disabled", {"administrator"})
        @@ "three" :> Give("ada", "g1", "ben", "active", {"learner"}) @@ "four" :> Give("ada", "g3", "ada", "active", {"learner"}),
        Nothing)
    @@ "newcomer" :> Meets(
        "one" :> Give("ada", "g1", "boss", "active", {"instructor"}) @@ "two" :> Import("boss", "v2")
        @@ "three" :> Give("ben", "g2", "boss", "disabled", {"instructor"}) @@ "four" :> PublishStored("boss"),
        [packs |-> Nothing])
    @@ "launch" :> Meets(
        "one" :> LogIn @@ "two" :> LaunchAs("one", "moe", "learner", "resource-link", "a")
        @@ "three" :> LaunchAs("one", "moe", "learner", "resource-link", "a") @@ "four" :> LogIn,
        CourseWork)
    @@ "arrival" :> Meets(
        "one" :> LaunchAs("s", "new", "learner", "resource-link", "a")
        @@ "two" :> [Start("new", "s1", "run") EXCEPT !.session = "one", !.by = Null, !.learner = "new"]
        @@ "three" :> LogOut("one")
        @@ "four" :> LaunchAs("t", "new", "learner", "resource-link", "b"),
        CourseWork @@ [states |-> [s \in {"s", "t"} |-> [consumed |-> FALSE, expired |-> FALSE]]])
    @@ "linking" :> Meets(
        "one" :> Select("deep", "a") @@ "two" :> Select("deep", "b") @@ "three" :> Select("deep", "a")
        @@ "four" :> LogOut("deep"),
        CourseWork @@ [sessions |-> LinkSession])
    @@ "cancelling" :> Meets(
        "one" :> Select("deep", Null) @@ "two" :> Select("deep", "a") @@ "three" :> Decide("ada", "close", "d1", "a"),
        CourseWork @@ [sessions |-> LinkSession])
    @@ "roster" :> Meets(
        "one" :> Sync("live", "y1") @@ "two" :> Sync("live", "y2") @@ "three" :> Sync("live", "y1"),
        CourseWork @@ [sessions |-> CourseSession])
    @@ "rosters" :> Meets(
        "one" :> Sync("live", "y1") @@ "two" :> Sync("other", "y1") @@ "three" :> LogOut("live"),
        CourseWork @@ [sessions |-> CourseSession @@ "other" :> Session("ben", "instructor", "resource-link")])
    @@ "barred" :> Meets(
        "one" :> Give("ada", "g1", "moe", "disabled", {"learner"}) @@ "two" :> Give("ada", "g1", "moe", "active", {"learner"})
        @@ "three" :> LaunchAs("s", "moe", "learner", "resource-link", "a")
        @@ "four" :> LaunchAs("t", "moe", "learner", "resource-link", "z"),
        CourseWork @@ [states |-> [s \in {"s", "t"} |-> [consumed |-> FALSE, expired |-> FALSE]]])
    @@ "demoted" :> Meets(
        "one" :> Give("ada", "g1", "moe", "active", {"rater"})
        @@ "two" :> LaunchAs("s", "moe", "learner", "resource-link", "a")
        @@ "three" :> Sync("live", "y1"),
        CourseWork @@ [sessions |-> CourseSession, states |-> "s" :> [consumed |-> FALSE, expired |-> FALSE]])
    @@ "reuse" :> Meets(
        "one" :> Decide("ben", "close", "d1", "a") @@ "two" :> Decide("ben", "close", "d1", "a")
        @@ "three" :> [Start("ben", "s1", "run") EXCEPT !.learner = "moe"]
        @@ "four" :> Assign(By("ben", "create"), "c0", "a", {}),
        AssignedWork)
    @@ "regrading" :> Meets(
        "one" :> RateIt("rae", "r1", "k", 0, 1) @@ "two" :> RateIt("rae", "r1", "k", 0, 2)
        @@ "three" :> Decide("ben", "release", "f1", "a"),
        AssignedWork @@ [runs |-> Run(TRUE)])
    @@ "course" :> Meets(
        "one" :> Sync("live", "y1") @@ "two" :> Assign(From("live", "create"), "c2", "d", {"moe"})
        @@ "three" :> LaunchAs("s", "ivy", "instructor", "deep-linking", Null),
        CourseWork @@ [sessions |-> CourseSession, states |-> "s" :> [consumed |-> FALSE, expired |-> FALSE]])

AllRosters ==
    {[c \in {"course"} |-> "moe" :> "active"],
     [c \in {"course"} |-> "moe" :> "inactive" @@ "new" :> "active"],
     [c \in {"course"} |-> "new" :> "active"]}

Allowlist == {"boss"}

-----------------------------------------------------------------------------
(* One question per behaviour; what it does not need stays at rest. *)

NoTraffic ==
    /\ request = << >> /\ at = << >> /\ seen = << >> /\ answer = << >>
    /\ db = Tables

NoRuntime ==
    /\ kind = "none" /\ overdue = FALSE
    /\ NoGeneric /\ NoAudit /\ NoLab /\ NoCoffee

MCInit ==
    /\ Init
    /\ \/ question = "run" /\ NoTraffic /\ NoRuntime
       \/ question = "platform" /\ PlatformInit /\ NoRuntime
       \/ question = "runtime" /\ NoTraffic /\ RuntimeInit

MCNext ==
    \/ question = "run" /\ Next /\ UNCHANGED <<question, platform, runtime>>
    \/ question = "platform" /\ PlatformNext /\ UNCHANGED <<question, vars, runtime>>
    \/ question = "runtime" /\ RuntimeNext /\ UNCHANGED <<question, vars, platform>>

MCSpec == MCInit /\ [][MCNext]_<<question, vars, platform, runtime>> /\ RuntimeFairness

-----------------------------------------------------------------------------
(* Properties of HostedPlatform that are checked together *)

\* The last access command for a user decides what it may, but for what launches, rosters
\* and bootstrapping gave it since; one login opens one session, and only for whom it may;
\* and the members of a course are one snapshot of it, whatever commands, synchronisations
\* and launches overlap.  The tables and the requests are as the theorems about the
\* platform want them.
AccessIsInOrder ==
    /\ AccessIsAsCommanded /\ SessionsAreEarned /\ MembersAreOneSnapshot
    /\ TablesAreSound /\ AccountsAreSound /\ NamesAreNew /\ RequestsAreSound
=============================================================================
