----------------------------- MODULE ImportJobs -----------------------------
(***************************************************************************)
(* Background imports: an upload becomes an import_jobs row and a task on  *)
(* the event loop, which reports its progress in that row while it creates *)
(* or overwrites the episodes of a project (importer.py; import_writers,   *)
(* import_episodes and cleanup_stale_import_jobs of main.py).              *)
(*                                                                         *)
(* An episode is its number here: the texts, the mirror and the search     *)
(* index are the subject of EpisodeStore.  A task keeps the loop except    *)
(* while it awaits index(); episode_add and episode_delete run on threads  *)
(* and come between any two accesses of a task to the database.            *)
(***************************************************************************)
EXTENDS Integers, Sequences, FiniteSets, SequencesExt

CONSTANTS
    Jobs,       \* bound: the import jobs of a behaviour
    Base,       \* the project that exists at the start
    Numbers,    \* episode numbers
    Rejected,   \* those whose row the database refuses (over-long title, or a
                \* number that is no 32-bit integer)
    Files,      \* what an upload may hold: its episode numbers, in file order
    Modes,      \* the kinds of import requested: "writers", "episodes"
    DiskFails,  \* TRUE when writing a mirror file may raise OSError
    MaxAdds,    \* bound: episodes added or deleted by other requests
    MaxRestarts \* bound: restarts of the process

ASSUME JobsAssumption == Base \notin Jobs /\ IsFiniteSet(Jobs)
ASSUME NumbersAssumption == Numbers \subseteq Nat /\ IsFiniteSet(Numbers) /\ Rejected \subseteq Numbers
ASSUME FilesAssumption == Files \subseteq Seq(Numbers)
ASSUME ModesAssumption == Modes \subseteq {"writers", "episodes"}
ASSUME BoundsAssumption == MaxAdds \in Nat /\ MaxRestarts \in Nat /\ DiskFails \in BOOLEAN

\* A writers import creates a project of its own, which bears the job's name.
Projects == Jobs \cup {Base}

VARIABLES
    exists,     \* the projects that exist
    rows,       \* rows[p][n]: how many episodes of project p have number n
    job,        \* job[j]: the import_jobs row
    task,       \* task[j]: the coroutine of run_import_job
    loop,       \* the job whose task runs on the event loop, or Base for none
    adds,       \* episodes added or deleted by others so far
    restarts,   \* restarts so far
    overtaken   \* history: the imports for which another request has added or deleted
                \* the number in hand since they looked it up

vars == <<exists, rows, job, task, loop, adds, restarts, overtaken>>

\* The project of a writers job is NULL until its task makes one; NULL is not told
\* apart from Base here, which such a job never reads.
NoJob == [status |-> "none", mode |-> "episodes", project |-> Base,
          total |-> 0, processed |-> 0, created |-> 0, updated |-> 0]

NoTask == [pc |-> "none", todo |-> <<>>, found |-> FALSE]

\* The points between two accesses to the database.
PC == {"none", "begin", "parse", "open", "next", "select", "write", "file",
       "index", "ended"}

StateTypeOK ==
    /\ exists \subseteq Projects
    /\ rows \in [Projects -> [Numbers -> Nat]]
    /\ job \in [Jobs -> [status : {"none", "queued", "running", "completed", "error"},
                         mode : {"writers", "episodes"}, project : Projects,
                         total : Nat, processed : Nat, created : Nat, updated : Nat]]
    /\ task \in [Jobs -> [pc : PC, todo : Seq(Numbers), found : BOOLEAN]]
    /\ loop \in Projects
    /\ adds \in 0..MaxAdds
    /\ restarts \in 0..MaxRestarts

TypeOK == StateTypeOK /\ overtaken \subseteq Jobs

Init ==
    /\ exists = {Base}
    /\ rows = [p \in Projects |-> [n \in Numbers |-> 0]]
    /\ job = [j \in Jobs |-> NoJob]
    /\ task = [j \in Jobs |-> NoTask]
    /\ loop = Base
    /\ adds = 0
    /\ restarts = 0
    /\ overtaken = {}

-----------------------------------------------------------------------------
(***************************************************************************)
(* Helpers.                                                                *)
(***************************************************************************)

Alive(j) == task[j].pc \notin {"none", "ended"}

\* The task of j runs on the loop and is at this point.
At(j, pc) == task[j].pc = pc /\ loop = j

Goto(j, pc) == task' = [task EXCEPT ![j].pc = pc]

\* run_import_job returns, or an exception escapes from it.
End(j) ==
    /\ task' = [task EXCEPT ![j] = [NoTask EXCEPT !.pc = "ended"]]
    /\ loop' = Base

\* The exception handler of run_import_job, reached with a usable session.
Fail(j) ==
    /\ job' = [job EXCEPT ![j].status = "error"]
    /\ End(j)

\* The same handler after a failed flush: it commits without a rollback, which
\* raises again, so that the task dies and the job keeps the status it had.
Die(j) == End(j) /\ UNCHANGED job

Others == UNCHANGED <<adds, restarts>>

\* The numbers of s in ascending order: a set of one sequence.
Ascending(s) ==
    {t \in [1..Len(s) -> ToSet(s)] :
        /\ \A a, b \in 1..Len(s) : a < b => t[a] <= t[b]
        /\ \A n \in ToSet(s) : Cardinality({a \in 1..Len(s) : t[a] = n})
                               = Cardinality({a \in 1..Len(s) : s[a] = n})}

-----------------------------------------------------------------------------
(***************************************************************************)
(* The requests.                                                           *)
(***************************************************************************)

\* import_writers and import_episodes, after the upload has been read and a
\* separator line found in it: the row is committed and the task created
\* before the handler leaves the loop.  Episodes go to any project that exists.
Submit(j, mode, p, file) ==
    /\ loop = Base
    /\ job[j].status = "none"
    /\ mode \in Modes
    /\ p \in exists /\ (mode = "writers" => p = Base)
    /\ job' = [job EXCEPT ![j] = [NoJob EXCEPT !.status = "queued", !.mode = mode,
                                              !.project = p]]
    /\ task' = [task EXCEPT ![j] = [NoTask EXCEPT !.pc = "begin", !.todo = file]]
    /\ UNCHANGED <<exists, rows, loop>> /\ Others

\* episode_add, to any project that exists: nothing makes the number unique.
AddEpisode(p, n) ==
    /\ adds < MaxAdds
    /\ adds' = adds + 1
    /\ p \in exists
    /\ rows' = [rows EXCEPT ![p][n] = @ + 1]
    /\ UNCHANGED <<exists, job, task, loop, restarts>>

\* episode_delete, from any project.
DeleteEpisode(p, n) ==
    /\ adds < MaxAdds
    /\ adds' = adds + 1
    /\ rows[p][n] > 0
    /\ rows' = [rows EXCEPT ![p][n] = @ - 1]
    /\ UNCHANGED <<exists, job, task, loop, restarts>>

-----------------------------------------------------------------------------
(***************************************************************************)
(* run_import_job.                                                         *)
(***************************************************************************)

\* The task starts: status 'running' is committed.
Begin(j) ==
    /\ task[j].pc = "begin"
    /\ loop = Base
    /\ loop' = j
    /\ job' = [job EXCEPT ![j].status = "running"]
    /\ Goto(j, "parse")
    /\ UNCHANGED <<exists, rows>> /\ Others

\* A total that counts each number once.
FaultyParse(j) ==
    /\ At(j, "parse")
    /\ job' = [job EXCEPT ![j].total = Cardinality(ToSet(task[j].todo))]
    /\ Goto(j, "open")
    /\ UNCHANGED <<exists, rows, loop>> /\ Others

\* ni.parse, and the number of parsed episodes is committed.
Parse(j) ==
    /\ At(j, "parse")
    /\ job' = [job EXCEPT ![j].total = Len(task[j].todo)]
    /\ \E sorted \in Ascending(task[j].todo) :
           task' = [task EXCEPT ![j].pc = "open", ![j].todo = sorted]
    /\ UNCHANGED <<exists, rows, loop>> /\ Others

\* The target: a new project, which the job's row then names, or the given one.
Open(j) ==
    /\ At(j, "open")
    /\ IF job[j].mode = "writers"
       THEN /\ exists' = exists \cup {j}
            /\ job' = [job EXCEPT ![j].project = j]
            /\ Goto(j, "next")
            /\ UNCHANGED loop
       ELSE IF job[j].project \in exists
            THEN Goto(j, "next") /\ UNCHANGED <<exists, job, loop>>
            ELSE Fail(j) /\ UNCHANGED exists
    /\ UNCHANGED rows /\ Others

\* The loop over the sorted episodes: the message of the next one is committed.
NextEpisode(j) ==
    /\ At(j, "next")
    /\ task[j].todo # <<>>
    /\ Goto(j, "select")
    /\ UNCHANGED <<exists, rows, job, loop>> /\ Others

\* After the last episode.
Complete(j) ==
    /\ At(j, "next")
    /\ task[j].todo = <<>>
    /\ job' = [job EXCEPT ![j].status = "completed"]
    /\ End(j)
    /\ UNCHANGED <<exists, rows>> /\ Others

\* A lookup after which the task lets others run.
FaultySelect(j) ==
    /\ \/ At(j, "select") /\ loop' = Base
                          /\ task' = [task EXCEPT ![j].found =
                                          rows[job[j].project][Head(task[j].todo)] > 0]
       \/ task[j].pc = "select" /\ loop = Base /\ loop' = j /\ Goto(j, "write")
    /\ UNCHANGED <<exists, rows, job>> /\ Others

\* _import_episode looks the number up.
Select(j) ==
    /\ At(j, "select")
    /\ task' = [task EXCEPT ![j].pc = "write",
                            ![j].found = rows[job[j].project][Head(task[j].todo)] > 0]
    /\ UNCHANGED <<exists, rows, job, loop>> /\ Others

\* The row is updated or inserted and committed.  A row the database refuses, or
\* one found and deleted since, fails in the flush; the latter fails only in the
\* refresh when the file brings nothing new.
Write(j) ==
    LET p == job[j].project
        n == Head(task[j].todo)
    IN  /\ At(j, "write")
        /\ IF task[j].found /\ rows[p][n] = 0
           THEN (Die(j) \/ Fail(j)) /\ UNCHANGED rows
           ELSE IF n \in Rejected
           THEN Die(j) /\ UNCHANGED rows
           ELSE /\ rows' = IF task[j].found THEN rows ELSE [rows EXCEPT ![p][n] = @ + 1]
                /\ Goto(j, "file")
                /\ UNCHANGED <<job, loop>>
        /\ UNCHANGED exists /\ Others

\* The row is refreshed, the mirror file written and index() awaited.
WriteFile(j) ==
    /\ At(j, "file")
    /\ Goto(j, "index")
    /\ loop' = Base
    /\ UNCHANGED <<exists, rows, job>> /\ Others

\* An exception outside a flush: the disk is full, or the row was deleted before
\* the refresh.
WriteFileFails(j) ==
    /\ At(j, "file")
    /\ DiskFails \/ rows[job[j].project][Head(task[j].todo)] = 0
    /\ Fail(j)
    /\ UNCHANGED <<exists, rows>> /\ Others

\* A retry of the episode whose index() failed.
FaultyCountRetries(j) ==
    /\ task[j].pc = "index"
    /\ loop = Base
    /\ loop' = j
    /\ job' = [job EXCEPT ![j].updated = @ + 1]
    /\ \/ Goto(j, "next")
       \/ task' = [task EXCEPT ![j].pc = "next", ![j].todo = Tail(@)]
    /\ UNCHANGED <<exists, rows>> /\ Others

\* index() is over, well or badly; the counters are committed.
Count(j) ==
    /\ task[j].pc = "index"
    /\ loop = Base
    /\ loop' = j
    /\ job' = [job EXCEPT ![j].processed = @ + 1,
                          ![j].created = @ + IF task[j].found THEN 0 ELSE 1,
                          ![j].updated = @ + IF task[j].found THEN 1 ELSE 0]
    /\ task' = [task EXCEPT ![j].pc = "next", ![j].todo = Tail(@)]
    /\ UNCHANGED <<exists, rows>> /\ Others

\* A clean-up that forgets the jobs still queued.
FaultyRestart ==
    /\ restarts < MaxRestarts
    /\ restarts' = restarts + 1
    /\ job' = [j \in Jobs |-> IF job[j].status = "running"
                              THEN [job[j] EXCEPT !.status = "error"] ELSE job[j]]
    /\ task' = [j \in Jobs |-> IF Alive(j) THEN [NoTask EXCEPT !.pc = "ended"] ELSE task[j]]
    /\ loop' = Base
    /\ UNCHANGED <<exists, rows, adds>>

\* A clean-up without its WHERE clause.
FaultyRestartAll ==
    /\ restarts < MaxRestarts
    /\ restarts' = restarts + 1
    /\ job' = [j \in Jobs |-> IF job[j].status # "none"
                              THEN [job[j] EXCEPT !.status = "error"] ELSE job[j]]
    /\ task' = [j \in Jobs |-> IF Alive(j) THEN [NoTask EXCEPT !.pc = "ended"] ELSE task[j]]
    /\ loop' = Base
    /\ UNCHANGED <<exists, rows, adds>>

\* A clean-up with a status of its own.
FaultyRestartStatus ==
    /\ restarts < MaxRestarts
    /\ restarts' = restarts + 1
    /\ job' = [j \in Jobs |-> IF job[j].status \in {"queued", "running"}
                              THEN [job[j] EXCEPT !.status = "interrupted"] ELSE job[j]]
    /\ task' = [j \in Jobs |-> IF Alive(j) THEN [NoTask EXCEPT !.pc = "ended"] ELSE task[j]]
    /\ loop' = Base
    /\ UNCHANGED <<exists, rows, adds>>

\* The process dies; before the new one serves anybody, init() marks the jobs
\* that were queued or running (cleanup_stale_import_jobs).
Restart ==
    /\ restarts < MaxRestarts
    /\ restarts' = restarts + 1
    /\ job' = [j \in Jobs |-> IF job[j].status \in {"queued", "running"}
                              THEN [job[j] EXCEPT !.status = "error"] ELSE job[j]]
    /\ task' = [j \in Jobs |-> IF Alive(j) THEN [NoTask EXCEPT !.pc = "ended"] ELSE task[j]]
    /\ loop' = Base
    /\ UNCHANGED <<exists, rows, adds>>

TaskStep(j) ==
    \/ Begin(j)
    \/ Parse(j)
    \/ Open(j)
    \/ NextEpisode(j)
    \/ Complete(j)
    \/ Select(j)
    \/ Write(j)
    \/ WriteFile(j)
    \/ WriteFileFails(j)
    \/ Count(j)

Step ==
    \/ \E j \in Jobs, mode \in Modes, p \in Projects, file \in Files : Submit(j, mode, p, file)
    \/ \E p \in Projects, n \in Numbers : AddEpisode(p, n) \/ DeleteEpisode(p, n)
    \/ \E j \in Jobs : TaskStep(j)
    \/ Restart

\* The history variable, which no action reads: this step is another request's edit
\* of the number that j has looked up and not yet written.
Overtakes(j) ==
    LET p == job[j].project
        n == Head(task[j].todo)
    IN  task[j].pc = "write" /\ adds' # adds /\ rows'[p][n] # rows[p][n]

\* It is forgotten once the episode is written, and kept when the task ends there.
Watch ==
    overtaken' = {j \in Jobs :
                     \/ j \in overtaken /\ task'[j].pc \in {"write", "ended"}
                     \/ Overtakes(j)}

Next == Step /\ Watch

Spec == Init /\ [][Next]_vars

\* A task that can run is run although others use the loop in between, and
\* index() ends (embedding and the vector store have timeouts).
FairSpec == Spec /\ \A j \in Jobs : SF_vars(TaskStep(j) /\ Watch)

-----------------------------------------------------------------------------
(***************************************************************************)
(* Properties.                                                             *)
(***************************************************************************)

\* The progress shown adds up at every moment, and a completed job has
\* processed exactly the episodes of its file, repeated numbers included.
CountersAgree ==
    \A j \in Jobs :
        /\ job[j].processed = job[j].created + job[j].updated
        /\ job[j].processed <= job[j].total
        /\ job[j].status = "completed" => job[j].processed = job[j].total

\* However many imports overlap, on one project or several: an import gives a number
\* to a second episode only when an episode_add or episode_delete on a thread came
\* between its lookup and its insertion; other imports cannot, as no await separates
\* the two.
DoublesOnlyWhenOvertaken ==
    [][\A p \in Projects, n \in Numbers :
          adds' = adds /\ rows'[p][n] > rows[p][n] /\ rows[p][n] > 0 =>
              \E j \in overtaken : /\ At(j, "write")
                                   /\ job[j].project = p /\ Head(task[j].todo) = n]_vars

\* "An episode number that already exists gets its content overwritten": an
\* import inserts a row only where there is none.
ImportNeverDuplicates ==
    [][\A p \in Projects, n \in Numbers :
          adds' = adds /\ rows'[p][n] > rows[p][n] => rows[p][n] = 0]_vars

ShownAsActive(j) == job[j].status \in {"queued", "running"}

\* A job that is shown as queued or running is being worked on: neither an
\* exception nor a restart leaves one that will never end.
NoGhostJob == \A j \in Jobs : ShownAsActive(j) => Alive(j)

\* The same for an import whose episodes the database accepts, whatever else fails
\* (the disk, the index, a restart): the only ghost is one under which the episode
\* in hand was edited between lookup and write.
NoGhostUnlessOvertaken ==
    \A j \in Jobs : ShownAsActive(j) => Alive(j) \/ j \in overtaken

\* A job's status only moves forward, and its result is final.
StatusIsFinal ==
    [][\A j \in Jobs :
          job'[j].status # job[j].status =>
              \/ job[j].status = "none" /\ job'[j].status = "queued"
              \/ job[j].status = "queued" /\ job'[j].status \in {"running", "error"}
              \/ job[j].status = "running" /\ job'[j].status \in {"completed", "error"}]_vars

\* Every import ends, and the client that polls it learns how, unless the episode
\* it was about to write was edited by another request and its task died of that.
EveryJobEnds ==
    \A j \in Jobs : job[j].status # "none" ~>
                        \/ job[j].status \in {"completed", "error"}
                        \/ j \in overtaken /\ ~Alive(j)
=============================================================================
