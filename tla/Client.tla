------------------------------- MODULE Client -------------------------------
(***************************************************************************)
(* The web client as a whole: Workspace of studio.tsx with Sidebar.tsx     *)
(* composes the screens, one of which is mounted at a time.                *)
(***************************************************************************)
EXTENDS SignIn, SettingsPanel, MaterialsPanel, SearchPanel, ChatPanel, WriteSide

vars == <<mix, acts, calls, auth, place, panel, db, llm, watch, permission, session>>

Sections == {"home", "write", "materials", "search", "chat", "settings"}

\* What the server has at first: one project with two episodes, the account of Me, an
\* administrator, beside another one, and a key for the model.
Rows == [projects |-> <<None>>, jobs |-> <<>>, chat |-> <<>>, answering |-> {},
         texts |-> [k \in {1, 2} |-> {[name |-> n, capital |-> FALSE] : n \in Names}],
         notes |-> [k \in {1} |-> {[name |-> n, capital |-> TRUE] : n \in Names}],
         memos |-> {0}, templates |-> {}, numbers |-> <<1, 3>>, sources |-> <<>>,
         config |-> [model |-> None, key |-> "stored"], backups |-> 0,
         users |-> People \ {"new"}, admins |-> {Me}, active |-> People \ {"new"}, mail |-> {}, hash |-> 0]

\* The screen of section s, and what its effects send when it is mounted.
Screen(s, row, inst) ==
    CASE s = "home" -> FreshHome [] s = "write" -> FreshWrite [] s = "materials" -> FreshMaterials
      [] s = "search" -> FreshSearch [] s = "chat" -> FreshChat [] s = "settings" -> FreshSettings(inst, row)

ScreenCalls(s, row) ==
    CASE s = "home" -> HomeCalls(row) [] s = "write" -> WriteCalls [] s = "search" -> SearchCalls
      [] s = "chat" -> ChatCalls [] OTHER -> <<>>

InitPage ==
    /\ mix.start = "page"
    /\ stored \in (IF mix.storage THEN {None} \cup Passwords ELSE {None})
    /\ cookie \in BOOLEAN
    /\ authed = "closed"
    /\ calls = <<>>
    /\ panel = NoScreen
    /\ llm = None
    /\ shownIn = None
    /\ project = None
    /\ section = "home"

\* Signed in with the password, on the dashboard or with a section open.
InitInside ==
    /\ mix.start # "page" /\ mix.storage
    /\ stored = password
    /\ cookie = FALSE
    /\ authed = "in"
    /\ llm = NoActivity
    /\ shownIn = Fallback
    /\ LET row == Row(1, None) IN
       IF mix.start = "dashboard"
       THEN /\ project = None
            /\ section = "home"
            /\ panel = FreshDashboard(0)
            /\ calls = DashboardCalls(stored, cookie)
       ELSE /\ project = row
            /\ section = mix.start
            /\ panel = Screen(section, row, 0)
            /\ calls = ScreenCalls(section, row)

Init ==
    /\ mix \in Mixes
    /\ acts = 0
    /\ password = CHOOSE pw \in Passwords : TRUE
    /\ db = Rows
    /\ InitPage \/ InitInside
    /\ watch = {}
    /\ permission = "default"
    /\ language = None
    /\ link = None
    /\ chosen = None
    /\ signedOut = "no"

\* Sidebar: back to the dashboard.
ToDashboard ==
    /\ authed = "in" /\ project # None
    /\ User("dashboard")
    /\ project' = None
    /\ section' = section
    /\ panel' = FreshDashboard(acts')
    /\ watch' = Unwatched
    /\ calls' = Orphan(calls) \o DashboardCalls(stored, cookie)
    /\ UNCHANGED <<auth, db, llm, permission, session>>

\* Another section takes the place of this one, by the sidebar or from ProjectHome.
Mount(s, row, rest) ==
    /\ project' = row
    /\ section' = s
    /\ panel' = Screen(s, row, acts')
    /\ calls' = Orphan(rest) \o ScreenCalls(s, row)
    /\ watch' = Unwatched

GoTo(s) ==
    /\ authed = "in" /\ project # None /\ s # section
    /\ User("go")
    /\ Mount(s, project, calls)
    /\ UNCHANGED <<auth, db, llm, permission, session>>

\* The effects of [project.id] in the mounted section.
Reloads(row) == IF section = "materials" THEN TabCalls(panel.at.tab) ELSE ScreenCalls(section, row)

\* onSaved hands the answer to Workspace, wherever the person is by then: from the
\* dashboard or from another project he is taken back into the one that was saved.
ProjectSaved(i) ==
    /\ Returned(i, "save")
    /\ acts' = acts
    /\ IF project = None THEN Mount(section, Ans(i), RemoveAt(calls, i))
       ELSE /\ project' = Ans(i)
            /\ Shown(i, [busy |-> FALSE, saved |-> TRUE])
            /\ Continue(i, IF Ans(i).id = project.id THEN <<>> ELSE Reloads(Ans(i)))
            /\ UNCHANGED <<section, watch>>
    /\ UNCHANGED <<auth, db, llm, permission, session>>

LoseCall(i) == Lost(i) /\ UNCHANGED <<acts, auth, place, panel, db, llm, watch, permission, session>>

\* The screens of a section, and what stays as it is while they are at work.
InSection ==
    \/ ActivityNext \/ ChatNext \/ SearchNext \/ MaterialsNext \/ WriteNext \/ SettingsNext

Next ==
    /\ \/ SignInNext
       \/ DashboardNext /\ UNCHANGED <<auth, session>>
       \/ ImportNext /\ UNCHANGED <<auth, place, session>>
       \/ ImportTab /\ UNCHANGED <<auth, place, session>>
       \/ InSection /\ UNCHANGED <<auth, place, watch, permission, session>>
       \/ \E i \in DOMAIN calls :
             /\ AccountsServed(i) \/ OwnPasswordServed(i)
             /\ UNCHANGED <<stored, cookie, authed, place, watch, permission, session>>
       \/ ToDashboard
       \/ \E s \in Sections : GoTo(s)
       \/ \E i \in DOMAIN calls : ProjectSaved(i) \/ LoseCall(i)
    /\ UNCHANGED mix

Spec == Init /\ [][Next]_vars

\* The server handles every call or it fails, continuations run, jobs and chats go
\* on, and the timers of the browser fire: in each group of calls something moves.
\* What the person does, and the ticks of the queue, are not forced.
Stage(cs) == [i \in DOMAIN cs |-> <<cs[i].op, cs[i].status>>]
Polls(cs, j) == Stage(SelectSeq(cs, LAMBDA c : c.op = "poll" /\ c.arg["poll"].job = j))
Others(cs) == Stage(SelectSeq(cs, LAMBDA c : c.op \notin {"poll", "queue"}))

Progress ==
    /\ Next
    /\ acts' = acts
    /\ Others(calls') # Others(calls) \/ db'.jobs # db.jobs \/ db'.answering # db.answering

PollProgress(j) == Next /\ Polls(calls', j) # Polls(calls, j)

moves == <<Stage(calls), db.jobs, db.answering>>

FairSpec == Spec /\ WF_moves(Progress) /\ \A j \in 1..MaxJobs : WF_moves(PollProgress(j))
-----------------------------------------------------------------------------
\* The types of what the screens share.
TypeOK ==
    /\ mix \in Mixes
    /\ acts \in 0..mix.acts
    /\ stored \in Passwords \cup {None}
    /\ cookie \in BOOLEAN
    /\ password \in Passwords
    /\ authed \in {"closed", "unknown", "in", "out"}
    /\ project # None => project.id \in DOMAIN db.projects
    /\ section \in Sections
    /\ authed = "in" /\ project # None => panel.kind = section
    /\ \A i \in DOMAIN calls : calls[i].status \in {"sent", "asked", "ok", "failed"}
    /\ ActivityOK
    /\ link \in Nat \cup {None}
    /\ {language, shownIn, chosen} \subseteq Languages \cup {None}

\* The copy of the open project is the server's row.
CopyInStep == project # None => project.guide = db.projects[project.id]

\* For a careful person whose calls are answered every screen shows what the server
\* has whenever nothing is under way: no handler forgets to load again what it, or
\* the one before it, has changed.
ScreensInStep ==
    mix.careful /\ ~mix.fails /\ calls = <<>> =>
        ChatInStep /\ SearchInStep /\ MaterialsInStep /\ WriteInStep /\ SettingsInStep /\ CopyInStep

\* What a screen says is under way: a button that waits, the question who is signed
\* in, an AI call in the list, an import whose polls do not overtake each other.
Waits ==
    \/ authed = "unknown"
    \/ ProgressShown
    \/ mix.polls = 1 /\ ~mix.fails /\ Showing \in {"queued", "running"}
    \/ \E f \in {"busy", "findBusy", "replaceBusy", "guideBusy", "sysBusy", "userBusy", "selfBusy",
                  "backupBusy", "exporting"} \cap DOMAIN panel : panel[f]
    \/ panel.kind = "dashboard" /\ panel.form = "busy"
    \/ panel.kind = "reset" /\ panel.state = "busy"
    \/ panel.kind = "materials" /\ panel.at.tab \in AiTabs /\ panel.at.busy
    \/ HasImport /\ panel.import.busy

\* No screen waits for ever, also when calls fail: every callback clears its flag, by
\* whichever way it ends, and the effect of a run of the list is undone.
EveryWaitEnds == Waits ~> ~Waits
=============================================================================
