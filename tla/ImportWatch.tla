----------------------------- MODULE ImportWatch -----------------------------
(***************************************************************************)
(* How a screen follows a background import: ImportPanel.tsx over the      *)
(* dashboard and the import tab of SettingsPanel.tsx, which repeat the     *)
(* same lines, and the notification of lib/notify.ts.  The server's side   *)
(* is ImportJobs; here a job is its status.                                *)
(*                                                                         *)
(* The interval's callback is asynchronous: a poll that takes longer than  *)
(* the interval overlaps the next one.  The timer is kept in a ref of the  *)
(* component, one for all the imports it starts, which the callbacks that  *)
(* are still open share with the newest one.                               *)
(***************************************************************************)
EXTENDS LlmActivity

CONSTANT MaxJobs    \* bound on the imports started

VARIABLES
    watch,          \* the intervals: [job, inst, on, noticed], one per import followed
    permission      \* Notification.permission

over == {"completed", "error"}

\* The state of a component that can follow an import; inst names its instance.
NoImport(inst) == [inst |-> inst, busy |-> FALSE, job |-> None]

HasImport == "import" \in DOMAIN panel /\ panel.import # None
Following(inst) == HasImport /\ panel.import.inst = inst

\* timer.current of an instance refers to the interval it started last.
IsCurrent(w, inst) == w.inst = inst /\ \A v \in watch : v.inst = inst => v.job <= w.job

\* clearInterval(timer.current)
Stopped(inst) == {IF IsCurrent(w, inst) THEN [w EXCEPT !.on = FALSE] ELSE w : w \in watch}

\* The effect's clean-up when the component is unmounted.
Unwatched == IF HasImport THEN Stopped(panel.import.inst) ELSE watch

\* Start: ensureNotificationPermission asks once per origin and is not awaited; the
\* file is posted, for a new project or into the open one.
StartImport(into) ==
    /\ HasImport
    /\ ~panel.import.busy
    /\ User("import")
    /\ Len(db.jobs) < MaxJobs
    /\ permission' \in IF permission = "default" THEN {"default", "granted", "denied"} ELSE {permission}
    /\ panel' = [panel EXCEPT !.import.busy = TRUE]
    /\ Send(<<Call("import", [inst |-> panel.import.inst, into |-> into])>>)
    /\ UNCHANGED <<db, llm, watch>>

\* The server makes the job.
ImportServed(i) ==
    /\ Arrives(i, "import")
    /\ db' = [db EXCEPT !.jobs = Append(@, [status |-> "queued", into |-> Arg(i).into])]
    /\ Serve(i, Len(db.jobs) + 1)
    /\ UNCHANGED <<acts, panel, llm, watch, permission>>

\* The import runs in the background; one without a project makes one when it begins.
JobStep(j) ==
    /\ db.jobs[j].status \notin over
    /\ \E s \in (IF db.jobs[j].status = "queued" THEN {"running", "error"} ELSE over) :
          LET makes == s = "running" /\ db.jobs[j].into = None IN
          db' = [db EXCEPT !.jobs[j].status = s,
                           !.jobs[j].into = IF makes THEN Len(db.projects) + 1 ELSE @,
                           !.projects = IF makes THEN Append(@, None) ELSE @]
    /\ UNCHANGED <<acts, panel, calls, llm, watch, permission>>

\* The job is shown and an interval set, if need be after the component has gone.
ImportStarted(i) ==
    /\ Returned(i, "import")
    /\ LET j == Ans(i)  inst == Arg(i).inst IN
       /\ panel' = IF Following(inst)
                   THEN [panel EXCEPT !.import.job = [id |-> j, status |-> "queued"], !.import.busy = FALSE]
                   ELSE panel
       /\ watch' = watch \cup {[job |-> j, inst |-> inst, on |-> TRUE, noticed |-> 0]}
    /\ Continue(i, <<>>)
    /\ UNCHANGED <<acts, db, llm, permission>>

\* finally, without a catch: the button can be used again.
ImportThrown(i) ==
    /\ Thrown(i, "import")
    /\ panel' = IF Following(Arg(i).inst) THEN [panel EXCEPT !.import.busy = FALSE] ELSE panel
    /\ Continue(i, <<>>)
    /\ UNCHANGED <<acts, db, llm, watch, permission>>

\* Every two seconds.
Poll(w) ==
    /\ w.on
    /\ Cardinality({i \in DOMAIN calls : calls[i].op = "poll" /\ Arg(i).job = w.job}) < mix.polls
    /\ Send(<<Call("poll", [job |-> w.job, inst |-> w.inst])>>)
    /\ UNCHANGED <<acts, panel, db, llm, watch, permission>>

PollServed(i) ==
    /\ Arrives(i, "poll")
    /\ Serve(i, db.jobs[Arg(i).job].status)
    /\ UNCHANGED <<acts, panel, db, llm, watch, permission>>

\* notify(): nothing unless the permission was granted.
Notified(w, j) == IF w.job = j /\ permission = "granted" /\ w.noticed < 2
                  THEN [w EXCEPT !.noticed = @ + 1] ELSE w

\* What the poll brings is shown; an end clears the interval of the ref and is notified.
PollAnswered(i) ==
    /\ Returned(i, "poll")
    /\ LET j == Arg(i).job  inst == Arg(i).inst IN
       /\ panel' = IF Following(inst) THEN [panel EXCEPT !.import.job = [id |-> j, status |-> Ans(i)]]
                   ELSE panel
       /\ watch' = IF Ans(i) \in over THEN {Notified(w, j) : w \in Stopped(inst)} ELSE watch
    /\ Continue(i, <<>>)
    /\ UNCHANGED <<acts, db, llm, permission>>

\* The callback rejects; the interval goes on.
PollThrown(i) ==
    /\ Thrown(i, "poll")
    /\ Continue(i, <<>>)
    /\ UNCHANGED <<acts, panel, db, llm, watch, permission>>

\* What both screens show of the job.
Showing == IF ~HasImport THEN "nothing" ELSE IF panel.import.job = None THEN "form" ELSE panel.import.job.status

ImportNext ==
    \/ \E j \in DOMAIN db.jobs : JobStep(j)
    \/ \E w \in watch : Poll(w)
    \/ \E i \in DOMAIN calls : \/ ImportServed(i) \/ ImportStarted(i) \/ ImportThrown(i)
                               \/ PollServed(i) \/ PollAnswered(i) \/ PollThrown(i)
=============================================================================
