------------------------------ MODULE Dashboard ------------------------------
(***************************************************************************)
(* Dashboard.tsx with the dialog of NewProjectForm.tsx and, through        *)
(* ImportWatch, that of ImportPanel.tsx, and the start page of a project,  *)
(* ProjectHome.tsx.                                                        *)
(***************************************************************************)
EXTENDS ImportWatch

CONSTANT MaxProjects    \* bound on the projects

\* A project is known by its id and, among the fields that can be edited, by its
\* style guide: the server's rows are the sequence db.projects of the guides.
Row(id, guide) == [id |-> id, guide |-> guide]

\* load() runs in two rounds, the list and then a count for every project; the
\* counts that are awaited are `pending`.
FreshDashboard(inst) ==
    [kind |-> "dashboard", inst |-> inst, projects |-> <<>>, counts |-> {}, pending |-> {}, busy |-> TRUE,
     error |-> FALSE, name |-> FALSE, form |-> None, import |-> None]

DashboardCalls(pw, ck) == <<CallWith(pw, ck, "whoami", None), CallWith(pw, ck, "projects", None)>>

OnDashboard == panel.kind = "dashboard"

\* The dialogs cover the cards and the buttons of the page, though they take no
\* focus: the keyboard still reaches what is below.
Uncovered == OnDashboard /\ (mix.careful => panel.form = None /\ panel.import = None)

\* auth_me and projects read; episodes is asked for its length only.
DashboardServed(i) ==
    /\ \/ Arrives(i, "whoami") /\ Serve(i, None)
       \/ Arrives(i, "projects") /\ Serve(i, db.projects)
       \/ Arrives(i, "count") /\ Serve(i, None)
       \/ Arrives(i, "home") /\ Serve(i, None)
       \/ Arrives(i, "project") /\ Serve(i, Row(Arg(i), db.projects[Arg(i)]))
    /\ UNCHANGED <<acts, place, panel, db, llm, watch>>

\* setUsername
Greeted(i) ==
    /\ Returned(i, "whoami")
    /\ panel' = IF calls[i].live THEN [panel EXCEPT !.name = TRUE] ELSE panel
    /\ Continue(i, <<>>)
    /\ UNCHANGED <<acts, place, db, llm, watch>>

\* load(), from the list on: Promise.all asks for every count at once.
ProjectsLoaded(i) ==
    /\ Returned(i, "projects")
    /\ IF calls[i].live
       THEN LET list == Ans(i) IN
            /\ panel' = [panel EXCEPT !.projects = list, !.pending = DOMAIN list, !.busy = list # <<>>]
            /\ Continue(i, [n \in DOMAIN list |-> Call("count", n)])
       ELSE panel' = panel /\ Continue(i, <<>>)
    /\ UNCHANGED <<acts, place, db, llm, watch>>

\* The last count to arrive sets them all; after an error nothing waits for them.
Counted(i) ==
    /\ Returned(i, "count")
    /\ LET left == panel.pending \ {Arg(i)} IN
       panel' = IF ~calls[i].live \/ Arg(i) \notin panel.pending THEN panel
                ELSE [panel EXCEPT !.pending = left, !.busy = left # {},
                                   !.counts = IF left = {} THEN DOMAIN panel.projects ELSE @]
    /\ Continue(i, <<>>)
    /\ UNCHANGED <<acts, place, db, llm, watch>>

\* The first error of a round ends it with a message; who I am is not important.
LoadFailed(i) ==
    /\ \E op \in {"whoami", "projects", "count"} : Thrown(i, op)
    /\ LET counts == calls[i].op = "projects" \/ (calls[i].op = "count" /\ Arg(i) \in panel.pending) IN
       panel' = IF calls[i].live /\ counts
                THEN [panel EXCEPT !.error = TRUE, !.pending = {}, !.busy = FALSE] ELSE panel
    /\ Continue(i, <<>>)
    /\ UNCHANGED <<acts, place, db, llm, watch>>

\* ProjectHome loads the episodes for its numbers and the list of the last ones.
FreshHome == [kind |-> "home", loaded |-> FALSE]
HomeCalls(row) == <<Call("home", row.id)>>

\* onOpen of studio.tsx: whatever is mounted makes way for the start page.
Open(row, rest) ==
    /\ project' = row
    /\ section' = "home"
    /\ panel' = FreshHome
    /\ watch' = Unwatched
    /\ calls' = Orphan(rest) \o HomeCalls(row)

ClickProject(p) ==
    /\ Uncovered
    /\ p \in DOMAIN panel.projects
    /\ User("open")
    /\ Open(Row(p, panel.projects[p]), calls)
    /\ UNCHANGED <<db, llm>>

\* The two dialogs; Cancel and a click beside them close them, a running import is
\* closed too, one that has completed is not.
OpenDialog ==
    /\ Uncovered
    /\ \/ User("create") /\ panel' = [panel EXCEPT !.form = "empty"]
       \/ User("import") /\ panel' = [panel EXCEPT !.import = NoImport(acts')]
    /\ UNCHANGED <<calls, place, db, llm, watch>>

CancelDialog ==
    /\ OnDashboard
    /\ User("cancel")
    /\ \/ panel.form # None /\ panel' = [panel EXCEPT !.form = None] /\ UNCHANGED watch
       \/ Showing \notin {"nothing", "completed"} /\ panel' = [panel EXCEPT !.import = None]
          /\ watch' = Unwatched
    /\ UNCHANGED <<calls, place, db, llm>>

\* NewProjectForm.create, once at a time, with a name.
CreateProject ==
    /\ OnDashboard
    /\ panel.form \in {"empty", "failed"}
    /\ Len(db.projects) < MaxProjects
    /\ User("create")
    /\ panel' = [panel EXCEPT !.form = "busy"]
    /\ Send(<<Call("create", panel.inst)>>)
    /\ UNCHANGED <<place, db, llm, watch>>

CreateServed(i) ==
    /\ Arrives(i, "create")
    /\ db' = [db EXCEPT !.projects = Append(@, None)]
    /\ Serve(i, Row(Len(db.projects) + 1, None))
    /\ UNCHANGED <<acts, place, panel, llm, watch>>

\* onCreated opens it, even when the form has been closed meanwhile and something
\* else is on the screen.
Created(i) ==
    /\ Returned(i, "create")
    /\ Open(Ans(i), RemoveAt(calls, i))
    /\ UNCHANGED <<acts, db, llm>>

CreateThrown(i) ==
    /\ Thrown(i, "create")
    /\ panel' = IF OnDashboard /\ panel.inst = Arg(i) /\ panel.form = "busy"
                THEN [panel EXCEPT !.form = "failed"] ELSE panel
    /\ Continue(i, <<>>)
    /\ UNCHANGED <<acts, place, db, llm, watch>>

\* ImportPanel shows its form until there is a job: one import for each time it is opened.
ImportProject ==
    /\ OnDashboard
    /\ Showing = "form"
    /\ StartImport(None)
    /\ UNCHANGED place

\* ImportPanel.finish, after the end was seen.
FinishImport ==
    /\ OnDashboard
    /\ Showing = "completed"
    /\ User("finish")
    /\ Send(<<Call("project", db.jobs[panel.import.job.id].into)>>)
    /\ UNCHANGED <<place, panel, db, llm, watch>>

Finished(i) ==
    /\ Returned(i, "project")
    /\ Open(Ans(i), RemoveAt(calls, i))
    /\ UNCHANGED <<acts, db, llm>>

\* ProjectHome shows what it loads, or nothing.
HomeLoaded(i) ==
    /\ Returned(i, "home")
    /\ panel' = IF calls[i].live THEN [panel EXCEPT !.loaded = TRUE] ELSE panel
    /\ Continue(i, <<>>)
    /\ UNCHANGED <<acts, place, db, llm, watch>>

NothingMore(i) ==
    /\ Thrown(i, "home") \/ Thrown(i, "project")
    /\ Continue(i, <<>>)
    /\ UNCHANGED <<acts, place, panel, db, llm, watch>>

DashboardNext ==
    \/ ImportProject
    \/ /\ \/ \E p \in DOMAIN db.projects : ClickProject(p)
          \/ OpenDialog
          \/ CancelDialog
          \/ CreateProject
          \/ FinishImport
          \/ \E i \in DOMAIN calls :
                \/ DashboardServed(i) \/ Greeted(i) \/ ProjectsLoaded(i) \/ Counted(i) \/ LoadFailed(i)
                \/ CreateServed(i) \/ Created(i) \/ CreateThrown(i) \/ Finished(i)
                \/ HomeLoaded(i) \/ NothingMore(i)
       /\ UNCHANGED permission
=============================================================================
