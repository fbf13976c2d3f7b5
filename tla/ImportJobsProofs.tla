-------------------------- MODULE ImportJobsProofs --------------------------
(***************************************************************************)
(* Proofs about ImportJobs, for any jobs, files, bounds and numbers: what  *)
(* the progress row says of its task, and when an import can give a number *)
(* twice or leave a job that never ends.                                   *)
(***************************************************************************)
EXTENDS ImportJobs, SequenceTheorems, TLAPS

\* A row of import_jobs and a task as StateTypeOK has them.
Row == [status : {"none", "queued", "running", "completed", "error"},
        mode : {"writers", "episodes"}, project : Projects,
        total : Nat, processed : Nat, created : Nat, updated : Nat]

Coroutine == [pc : PC, todo : Seq(Numbers), found : BOOLEAN]

-----------------------------------------------------------------------------
(***************************************************************************)
(* Types.                                                                  *)
(***************************************************************************)

LEMMA NoJobTyped ==
    /\ NoJob \in Row /\ NoJob.status = "none"
    /\ NoJob.processed = 0 /\ NoJob.total = 0 /\ NoJob.created = 0 /\ NoJob.updated = 0
  BY DEF NoJob, Row, Projects

LEMMA NoTaskTyped == NoTask \in Coroutine /\ NoTask.pc = "none"
  BY DEF NoTask, Coroutine, PC

LEMMA EndedTyped ==
    /\ [NoTask EXCEPT !.pc = "ended"] \in Coroutine
    /\ [NoTask EXCEPT !.pc = "ended"].pc = "ended"
  BY NoTaskTyped DEF Coroutine, PC

\* Sorting a file keeps its length and its numbers.
LEMMA SortingTyped ==
    ASSUME NEW s \in Seq(Numbers), NEW t \in Ascending(s)
    PROVE  t \in Seq(Numbers) /\ Len(t) = Len(s)
  <1>1. t \in [1..Len(s) -> ToSet(s)] /\ Len(s) \in Nat
    BY LenProperties DEF Ascending
  <1>2. ToSet(s) \subseteq Numbers
    BY ElementOfSeq, LenProperties DEF ToSet
  <1>3. QED
    BY <1>1, <1>2, SeqDef

LEMMA TypeInit == Init => StateTypeOK
  <1> SUFFICES ASSUME Init PROVE StateTypeOK
    OBVIOUS
  <1>1. job \in [Jobs -> Row] /\ task \in [Jobs -> Coroutine]
    BY NoJobTyped, NoTaskTyped DEF Init
  <1>2. QED
    BY <1>1, BoundsAssumption DEF Init, StateTypeOK, Row, Coroutine, Projects

\* What each way of going on does to the two tables.
LEMMA GotoTyped ==
    ASSUME StateTypeOK, NEW j \in Jobs, NEW pc \in PC, Goto(j, pc)
    PROVE  /\ task' \in [Jobs -> Coroutine]
           /\ task'[j].pc = pc /\ task'[j].todo = task[j].todo /\ task'[j].found = task[j].found
           /\ \A k \in Jobs \ {j} : task'[k] = task[k]
  BY DEF Goto, StateTypeOK, Coroutine

LEMMA EndTyped ==
    ASSUME StateTypeOK, NEW j \in Jobs, End(j)
    PROVE  /\ task' \in [Jobs -> Coroutine]
           /\ task'[j].pc = "ended"
           /\ \A k \in Jobs \ {j} : task'[k] = task[k]
           /\ loop' = Base
  <1>1. task \in [Jobs -> Coroutine]
    BY DEF StateTypeOK, Coroutine
  <1>2. QED
    BY <1>1, EndedTyped DEF End

LEMMA StatusTyped ==
    ASSUME StateTypeOK, NEW j \in Jobs,
           NEW st \in {"none", "queued", "running", "completed", "error"},
           job' = [job EXCEPT ![j].status = st]
    PROVE  /\ job' \in [Jobs -> Row]
           /\ job'[j].status = st
           /\ job'[j] \in Row
           /\ job'[j].mode = job[j].mode /\ job'[j].project = job[j].project
           /\ job'[j].total = job[j].total /\ job'[j].processed = job[j].processed
           /\ job'[j].created = job[j].created /\ job'[j].updated = job[j].updated
           /\ \A k \in Jobs \ {j} : job'[k] = job[k]
  BY DEF StateTypeOK, Row

\* What StateTypeOK says of the two tables.
LEMMA Tables ==
    ASSUME StateTypeOK
    PROVE  /\ job \in [Jobs -> Row]
           /\ task \in [Jobs -> Coroutine]
           /\ \A j \in Jobs : /\ job[j] \in Row
                             /\ task[j] \in Coroutine
                             /\ rows[job[j].project] \in [Numbers -> Nat]
  BY DEF StateTypeOK, Row, Coroutine

LEMMA SubmitStep ==
    ASSUME StateTypeOK, NEW j \in Jobs, NEW mode \in Modes, NEW p \in Projects, NEW file \in Files,
           Submit(j, mode, p, file)
    PROVE  /\ StateTypeOK'
           /\ job'[j].status = "queued" /\ job'[j].total = 0 /\ job'[j].processed = 0
           /\ job'[j].created = 0 /\ job'[j].updated = 0
           /\ task'[j].pc = "begin"
           /\ \A k \in Jobs \ {j} : job'[k] = job[k] /\ task'[k] = task[k]
           /\ UNCHANGED <<rows, loop, adds>>
  <1> DEFINE row == [NoJob EXCEPT !.status = "queued", !.mode = mode, !.project = p]
  <1> DEFINE coroutine == [NoTask EXCEPT !.pc = "begin", !.todo = file]
  <1>1. /\ row \in Row /\ row.status = "queued" /\ row.total = 0 /\ row.processed = 0
        /\ row.created = 0 /\ row.updated = 0
    BY NoJobTyped, ModesAssumption DEF Row
  <1>2. coroutine \in Coroutine /\ coroutine.pc = "begin"
    BY NoTaskTyped, FilesAssumption DEF Coroutine, PC
  <1>3. job' = [job EXCEPT ![j] = row] /\ task' = [task EXCEPT ![j] = coroutine]
    BY DEF Submit
  <1> HIDE DEF row, coroutine
  <1>4. job' \in [Jobs -> Row] /\ task' \in [Jobs -> Coroutine]
    BY <1>1, <1>2, <1>3, Tables
  <1>5. StateTypeOK'
    BY <1>4 DEF StateTypeOK, Row, Coroutine, Submit, Others
  <1>6. QED
    BY <1>1, <1>2, <1>3, <1>5, Tables DEF Submit, Others

LEMMA EditStep ==
    ASSUME StateTypeOK, NEW p \in Projects, NEW n \in Numbers, AddEpisode(p, n) \/ DeleteEpisode(p, n)
    PROVE  /\ StateTypeOK'
           /\ adds' # adds
           /\ UNCHANGED <<job, task, loop>>
  <1>1. rows[p][n] \in Nat /\ (rows[p][n] > 0 => rows[p][n] - 1 \in Nat)
    BY DEF StateTypeOK
  <1>2. rows' \in [Projects -> [Numbers -> Nat]]
    <2>1. CASE AddEpisode(p, n)
      BY <1>1, <2>1 DEF AddEpisode, StateTypeOK
    <2>2. CASE DeleteEpisode(p, n)
      BY <1>1, <2>2 DEF DeleteEpisode, StateTypeOK
    <2>3. QED
      BY <2>1, <2>2
  <1>3. adds' \in 0..MaxAdds /\ adds' # adds
    BY BoundsAssumption DEF AddEpisode, DeleteEpisode, StateTypeOK
  <1>4. StateTypeOK'
    BY <1>2, <1>3 DEF AddEpisode, DeleteEpisode, StateTypeOK
  <1>5. QED
    BY <1>3, <1>4 DEF AddEpisode, DeleteEpisode

LEMMA BeginStep ==
    ASSUME StateTypeOK, NEW j \in Jobs, Begin(j)
    PROVE  /\ StateTypeOK'
           /\ task'[j].pc = "parse" /\ job'[j].status = "running" /\ loop' = j
           /\ job'[j].total = job[j].total /\ job'[j].processed = job[j].processed
           /\ job'[j].created = job[j].created /\ job'[j].updated = job[j].updated
           /\ \A k \in Jobs \ {j} : job'[k] = job[k] /\ task'[k] = task[k]
           /\ UNCHANGED <<rows, adds>>
  <1>1. j \in Projects /\ "parse" \in PC
    BY DEF Projects, PC
  <1>2. /\ task' \in [Jobs -> Coroutine] /\ task'[j].pc = "parse"
        /\ \A k \in Jobs \ {j} : task'[k] = task[k]
    BY <1>1, GotoTyped DEF Begin
  <1>3. job' = [job EXCEPT ![j].status = "running"]
    BY DEF Begin
  <1>4. /\ job' \in [Jobs -> Row] /\ job'[j].status = "running"
        /\ job'[j].total = job[j].total /\ job'[j].processed = job[j].processed
        /\ job'[j].created = job[j].created /\ job'[j].updated = job[j].updated
        /\ \A k \in Jobs \ {j} : job'[k] = job[k]
    BY <1>3, StatusTyped
  <1>5. StateTypeOK'
    BY <1>1, <1>2, <1>4 DEF Begin, StateTypeOK, Row, Coroutine, Others
  <1>6. QED
    BY <1>2, <1>4, <1>5 DEF Begin, Others

LEMMA ParseStep ==
    ASSUME StateTypeOK, NEW j \in Jobs, Parse(j)
    PROVE  /\ StateTypeOK'
           /\ task'[j].pc = "open"
           /\ job'[j].status = job[j].status /\ job'[j].processed = job[j].processed
           /\ job'[j].created = job[j].created /\ job'[j].updated = job[j].updated
           /\ job'[j].total = Len(task'[j].todo)
           /\ \A k \in Jobs \ {j} : job'[k] = job[k] /\ task'[k] = task[k]
           /\ UNCHANGED <<rows, loop, adds>>
  <1>1. PICK sorted \in Ascending(task[j].todo) :
            task' = [task EXCEPT ![j].pc = "open", ![j].todo = sorted]
    BY DEF Parse
  <1>2. task[j].todo \in Seq(Numbers)
    BY Tables DEF Coroutine
  <1>3. sorted \in Seq(Numbers) /\ Len(sorted) = Len(task[j].todo) /\ Len(sorted) \in Nat
    BY <1>2, SortingTyped, LenProperties
  <1>4. /\ task' \in [Jobs -> Coroutine] /\ task'[j].pc = "open" /\ task'[j].todo = sorted
        /\ \A k \in Jobs \ {j} : task'[k] = task[k]
    BY <1>1, <1>3, Tables DEF Coroutine, PC
  <1>5. job' = [job EXCEPT ![j].total = Len(sorted)]
    BY <1>3 DEF Parse
  <1>6. /\ job' \in [Jobs -> Row] /\ job'[j].total = Len(sorted)
        /\ job'[j].status = job[j].status /\ job'[j].processed = job[j].processed
        /\ job'[j].created = job[j].created /\ job'[j].updated = job[j].updated
        /\ \A k \in Jobs \ {j} : job'[k] = job[k]
    BY <1>3, <1>5, Tables DEF Row
  <1>7. StateTypeOK'
    BY <1>4, <1>6 DEF StateTypeOK, Row, Coroutine, Parse, Others
  <1>8. QED
    BY <1>4, <1>6, <1>7 DEF Parse, Others

\* The counters of job k are left alone.
SameCounters(k) ==
    /\ job'[k].total = job[k].total /\ job'[k].processed = job[k].processed
    /\ job'[k].created = job[k].created /\ job'[k].updated = job[k].updated

\* The handlers of run_import_job that give up.
LEMMA FailStep ==
    ASSUME StateTypeOK, NEW j \in Jobs, Fail(j), UNCHANGED rows, exists' \subseteq Projects, Others
    PROVE  /\ StateTypeOK'
           /\ task'[j].pc = "ended" /\ job'[j].status = "error" /\ loop' = Base
           /\ SameCounters(j)
           /\ \A k \in Jobs \ {j} : job'[k] = job[k] /\ task'[k] = task[k]
  <1>1. /\ task' \in [Jobs -> Coroutine] /\ task'[j].pc = "ended" /\ loop' = Base
        /\ \A k \in Jobs \ {j} : task'[k] = task[k]
    BY EndTyped DEF Fail
  <1>2. job' = [job EXCEPT ![j].status = "error"]
    BY DEF Fail
  <1>3. /\ job' \in [Jobs -> Row] /\ job'[j].status = "error" /\ SameCounters(j)
        /\ \A k \in Jobs \ {j} : job'[k] = job[k]
    BY <1>2, StatusTyped DEF SameCounters
  <1>4. StateTypeOK'
    BY <1>1, <1>3 DEF StateTypeOK, Row, Coroutine, Others, Projects
  <1>5. QED
    BY <1>1, <1>3, <1>4

LEMMA DieStep ==
    ASSUME StateTypeOK, NEW j \in Jobs, Die(j), UNCHANGED <<exists, rows>>, Others
    PROVE  /\ StateTypeOK'
           /\ task'[j].pc = "ended" /\ loop' = Base
           /\ \A k \in Jobs \ {j} : task'[k] = task[k]
           /\ UNCHANGED job
  <1>1. /\ task' \in [Jobs -> Coroutine] /\ task'[j].pc = "ended" /\ loop' = Base
        /\ \A k \in Jobs \ {j} : task'[k] = task[k]
    BY EndTyped DEF Die
  <1>2. StateTypeOK'
    BY <1>1 DEF StateTypeOK, Row, Coroutine, Others, Projects, Die
  <1>3. QED
    BY <1>1, <1>2 DEF Die

\* A task that only goes on.
LEMMA GotoStep ==
    ASSUME StateTypeOK, NEW j \in Jobs, NEW pc \in PC, Goto(j, pc), UNCHANGED job,
           loop' \in Projects, exists' \subseteq Projects,
           rows' \in [Projects -> [Numbers -> Nat]], Others
    PROVE  /\ StateTypeOK'
           /\ task'[j].pc = pc /\ task'[j].todo = task[j].todo /\ task'[j].found = task[j].found
           /\ \A k \in Jobs \ {j} : job'[k] = job[k] /\ task'[k] = task[k]
           /\ SameCounters(j)
  <1>1. /\ task' \in [Jobs -> Coroutine]
        /\ task'[j].pc = pc /\ task'[j].todo = task[j].todo /\ task'[j].found = task[j].found
        /\ \A k \in Jobs \ {j} : task'[k] = task[k]
    BY GotoTyped
  <1>2. StateTypeOK'
    BY <1>1 DEF StateTypeOK, Row, Coroutine, Others
  <1>3. QED
    BY <1>1, <1>2 DEF SameCounters

LEMMA OpenStep ==
    ASSUME StateTypeOK, NEW j \in Jobs, Open(j)
    PROVE  /\ StateTypeOK'
           /\ SameCounters(j)
           /\ \/ /\ task'[j].pc = "next" /\ task'[j].todo = task[j].todo
                 /\ job'[j].status = job[j].status /\ UNCHANGED loop
              \/ task'[j].pc = "ended" /\ job'[j].status = "error" /\ loop' = Base
           /\ \A k \in Jobs \ {j} : job'[k] = job[k] /\ task'[k] = task[k]
           /\ UNCHANGED <<rows, adds>>
  <1>1. "next" \in PC /\ j \in Projects /\ exists' \subseteq Projects
    BY DEF PC, Projects, Open, StateTypeOK
  <1>2. CASE job[j].mode = "writers"
    <2>1. job' = [job EXCEPT ![j].project = j] /\ Goto(j, "next") /\ UNCHANGED loop
      BY <1>2 DEF Open
    <2>2. /\ job' \in [Jobs -> Row] /\ job'[j].status = job[j].status /\ SameCounters(j)
          /\ \A k \in Jobs \ {j} : job'[k] = job[k]
      BY <1>1, <2>1, Tables DEF Row, SameCounters
    <2>3. /\ task' \in [Jobs -> Coroutine] /\ task'[j].pc = "next" /\ task'[j].todo = task[j].todo
          /\ \A k \in Jobs \ {j} : task'[k] = task[k]
      BY <1>1, <2>1, GotoTyped
    <2>4. StateTypeOK'
      BY <1>1, <2>1, <2>2, <2>3 DEF StateTypeOK, Row, Coroutine, Open, Others
    <2>5. QED
      BY <2>1, <2>2, <2>3, <2>4 DEF Open, Others
  <1>3. CASE job[j].mode # "writers" /\ job[j].project \in exists
    BY <1>1, <1>3, GotoStep DEF Open, Others, StateTypeOK
  <1>4. CASE job[j].mode # "writers" /\ job[j].project \notin exists
    BY <1>1, <1>4, FailStep DEF Open, Others
  <1>5. QED
    BY <1>2, <1>3, <1>4

LEMMA NextEpisodeStep ==
    ASSUME StateTypeOK, NEW j \in Jobs, NextEpisode(j)
    PROVE  /\ StateTypeOK'
           /\ task'[j].pc = "select" /\ task'[j].todo = task[j].todo
           /\ \A k \in Jobs \ {j} : task'[k] = task[k]
           /\ UNCHANGED <<job, rows, loop, adds>>
  <1>1. "select" \in PC
    BY DEF PC
  <1>2. QED
    BY <1>1, GotoStep DEF NextEpisode, Others, StateTypeOK

LEMMA CompleteStep ==
    ASSUME StateTypeOK, NEW j \in Jobs, Complete(j)
    PROVE  /\ StateTypeOK'
           /\ task'[j].pc = "ended" /\ job'[j].status = "completed" /\ loop' = Base
           /\ SameCounters(j)
           /\ \A k \in Jobs \ {j} : job'[k] = job[k] /\ task'[k] = task[k]
           /\ UNCHANGED <<rows, adds>>
  <1>1. /\ task' \in [Jobs -> Coroutine] /\ task'[j].pc = "ended" /\ loop' = Base
        /\ \A k \in Jobs \ {j} : task'[k] = task[k]
    BY EndTyped DEF Complete
  <1>2. job' = [job EXCEPT ![j].status = "completed"]
    BY DEF Complete
  <1>3. /\ job' \in [Jobs -> Row] /\ job'[j].status = "completed" /\ SameCounters(j)
        /\ \A k \in Jobs \ {j} : job'[k] = job[k]
    BY <1>2, StatusTyped DEF SameCounters
  <1>4. StateTypeOK'
    BY <1>1, <1>3 DEF StateTypeOK, Row, Coroutine, Others, Projects, Complete
  <1>5. QED
    BY <1>1, <1>3, <1>4 DEF Complete, Others

LEMMA SelectStep ==
    ASSUME StateTypeOK, NEW j \in Jobs, Select(j)
    PROVE  /\ StateTypeOK'
           /\ task'[j].pc = "write" /\ task'[j].todo = task[j].todo
           /\ task'[j].found <=> rows[job[j].project][Head(task[j].todo)] > 0
           /\ \A k \in Jobs \ {j} : task'[k] = task[k]
           /\ UNCHANGED <<job, rows, loop, adds>>
  <1> DEFINE seen == rows[job[j].project][Head(task[j].todo)] > 0
  <1>1. task' = [task EXCEPT ![j].pc = "write", ![j].found = seen]
    BY DEF Select
  <1>2. seen \in BOOLEAN
    OBVIOUS
  <1> HIDE DEF seen
  <1>3. /\ task' \in [Jobs -> Coroutine]
        /\ task'[j].pc = "write" /\ task'[j].todo = task[j].todo /\ task'[j].found = seen
        /\ \A k \in Jobs \ {j} : task'[k] = task[k]
    BY <1>1, <1>2, Tables DEF Coroutine, PC
  <1>4. StateTypeOK'
    BY <1>3 DEF StateTypeOK, Row, Coroutine, Select, Others
  <1>5. QED
    BY <1>3, <1>4 DEF Select, Others, seen

\* Write stores the row, or it fails because the row has gone or is refused.
LEMMA WriteStep ==
    ASSUME StateTypeOK, NEW j \in Jobs, Write(j), task[j].todo # <<>>
    PROVE  LET p == job[j].project
               n == Head(task[j].todo)
           IN  /\ StateTypeOK'
               /\ p \in Projects /\ n \in Numbers
               /\ \/ /\ task'[j].pc = "file" /\ task'[j].todo = task[j].todo
                     /\ UNCHANGED <<job, loop>>
                     /\ rows' = IF task[j].found THEN rows ELSE [rows EXCEPT ![p][n] = @ + 1]
                  \/ /\ (task[j].found /\ rows[p][n] = 0) \/ n \in Rejected
                     /\ task'[j].pc = "ended" /\ loop' = Base /\ UNCHANGED job
                     /\ UNCHANGED rows
                  \/ /\ task[j].found /\ rows[p][n] = 0
                     /\ task'[j].pc = "ended" /\ loop' = Base /\ job'[j].status = "error"
                     /\ UNCHANGED rows
               /\ SameCounters(j)
               /\ \A k \in Jobs \ {j} : job'[k] = job[k] /\ task'[k] = task[k]
               /\ UNCHANGED adds
  <1> DEFINE p == job[j].project
             n == Head(task[j].todo)
  <1>1. p \in Projects /\ n \in Numbers
    BY Tables, HeadTailProperties DEF Row, Coroutine
  <1>2. exists' \subseteq Projects /\ Others /\ UNCHANGED exists
    BY DEF Write, StateTypeOK
  <1>3. CASE ((task[j].found /\ rows[p][n] = 0) \/ n \in Rejected) /\ Die(j) /\ UNCHANGED rows
    BY <1>1, <1>2, <1>3, DieStep DEF Others, SameCounters
  <1>4. CASE task[j].found /\ rows[p][n] = 0 /\ Fail(j) /\ UNCHANGED rows
    BY <1>1, <1>2, <1>4, FailStep DEF Others
  <1>5. CASE /\ rows' = IF task[j].found THEN rows ELSE [rows EXCEPT ![p][n] = @ + 1]
             /\ Goto(j, "file")
             /\ UNCHANGED <<job, loop>>
    <2>1. "file" \in PC
      BY DEF PC
    <2>2. rows' \in [Projects -> [Numbers -> Nat]]
      BY <1>1, <1>5, SMTT(30) DEF StateTypeOK
    <2>3. loop' \in Projects
      BY <1>5 DEF StateTypeOK
    <2>4. QED
      BY <1>1, <1>2, <1>5, <2>1, <2>2, <2>3, GotoStep DEF Others
  <1>6. QED
    BY <1>3, <1>4, <1>5 DEF Write

LEMMA WriteFileStep ==
    ASSUME StateTypeOK, NEW j \in Jobs, WriteFile(j)
    PROVE  /\ StateTypeOK'
           /\ task'[j].pc = "index" /\ task'[j].todo = task[j].todo /\ loop' = Base
           /\ \A k \in Jobs \ {j} : task'[k] = task[k]
           /\ UNCHANGED <<job, rows, adds>>
  <1>1. "index" \in PC /\ Base \in Projects
    BY DEF PC, Projects
  <1>2. QED
    BY <1>1, GotoStep DEF WriteFile, Others, StateTypeOK

LEMMA WriteFileFailsStep ==
    ASSUME StateTypeOK, NEW j \in Jobs, WriteFileFails(j)
    PROVE  /\ StateTypeOK'
           /\ task'[j].pc = "ended" /\ job'[j].status = "error" /\ loop' = Base
           /\ SameCounters(j)
           /\ \A k \in Jobs \ {j} : job'[k] = job[k] /\ task'[k] = task[k]
           /\ UNCHANGED <<rows, adds>>
  BY FailStep DEF WriteFileFails, Others, StateTypeOK

LEMMA CountStep ==
    ASSUME StateTypeOK, NEW j \in Jobs, Count(j), task[j].todo # <<>>
    PROVE  /\ StateTypeOK'
           /\ task'[j].pc = "next" /\ loop' = j
           /\ Len(task[j].todo) = Len(task'[j].todo) + 1
           /\ job'[j].status = job[j].status /\ job'[j].total = job[j].total
           /\ job'[j].processed = job[j].processed + 1
           /\ job'[j].created + job'[j].updated = job[j].created + job[j].updated + 1
           /\ \A k \in Jobs \ {j} : job'[k] = job[k] /\ task'[k] = task[k]
           /\ UNCHANGED <<rows, adds>>
  <1>1. /\ job[j].processed \in Nat /\ job[j].created \in Nat /\ job[j].updated \in Nat
    BY Tables DEF Row
  <1> DEFINE p == job[j].processed + 1
             c == job[j].created + IF task[j].found THEN 0 ELSE 1
             u == job[j].updated + IF task[j].found THEN 1 ELSE 0
  <1>2. /\ job' = [job EXCEPT ![j].processed = p, ![j].created = c, ![j].updated = u]
        /\ p \in Nat /\ c \in Nat /\ u \in Nat
        /\ p = job[j].processed + 1
        /\ c + u = job[j].created + job[j].updated + 1
    BY <1>1 DEF Count
  <1> HIDE DEF p, c, u
  <1>3. /\ job' \in [Jobs -> Row]
        /\ job'[j].status = job[j].status /\ job'[j].total = job[j].total
        /\ job'[j].processed = p /\ job'[j].created = c /\ job'[j].updated = u
        /\ \A k \in Jobs \ {j} : job'[k] = job[k]
    BY <1>2, Tables, ZenonT(40) DEF Row
  <1>4. PICK rest \in Seq(Numbers) :
            /\ task' = [task EXCEPT ![j].pc = "next", ![j].todo = rest]
            /\ Len(task[j].todo) = Len(rest) + 1
    <2>1. Tail(task[j].todo) \in Seq(Numbers) /\ Len(task[j].todo) = Len(Tail(task[j].todo)) + 1
      <3>1. task[j].todo \in Seq(Numbers) /\ Len(task[j].todo) \in Nat
        BY Tables, LenProperties DEF Coroutine
      <3>2. QED
        BY <3>1, HeadTailProperties
    <2>2. QED
      BY <2>1 DEF Count
  <1>5. /\ task' \in [Jobs -> Coroutine]
        /\ task'[j].pc = "next" /\ task'[j].todo = rest
        /\ \A k \in Jobs \ {j} : task'[k] = task[k]
    BY <1>4, Tables DEF Coroutine, PC
  <1>6. StateTypeOK'
    BY <1>3, <1>5 DEF StateTypeOK, Row, Coroutine, Count, Others, Projects
  <1>7. QED
    BY <1>2, <1>3, <1>4, <1>5, <1>6 DEF Count, Others

LEMMA RestartStep ==
    ASSUME StateTypeOK, Restart
    PROVE  /\ StateTypeOK'
           /\ \A j \in Jobs :
                 /\ SameCounters(j)
                 /\ job'[j].status = IF ShownAsActive(j) THEN "error" ELSE job[j].status
                 /\ task'[j].pc = IF Alive(j) THEN "ended" ELSE task[j].pc
                 /\ Alive(j) \/ task'[j] = task[j]
           /\ loop' = Base
           /\ UNCHANGED <<rows, adds>>
  <1>1. \A j \in Jobs : [job[j] EXCEPT !.status = "error"] \in Row
    BY Tables DEF Row
  <1>2. job' \in [Jobs -> Row]
    BY <1>1, Tables DEF Restart
  <1>3. task' \in [Jobs -> Coroutine]
    BY EndedTyped, Tables DEF Restart
  <1>4. restarts' \in 0..MaxRestarts
    BY BoundsAssumption DEF Restart, StateTypeOK
  <1>5. StateTypeOK'
    BY <1>2, <1>3, <1>4 DEF StateTypeOK, Row, Coroutine, Restart, Projects
  <1>6. ASSUME NEW j \in Jobs
        PROVE  /\ SameCounters(j)
               /\ job'[j].status = IF ShownAsActive(j) THEN "error" ELSE job[j].status
    BY Tables DEF Restart, SameCounters, ShownAsActive, Row
  <1>7. QED
    BY <1>5, <1>6, EndedTyped DEF Restart

-----------------------------------------------------------------------------
(***************************************************************************)
(* What the row of a job says of its task, and what the task knows of the  *)
(* project it fills.                                                       *)
(***************************************************************************)

\* Between two awaits the task has the event loop.
Holding == {"parse", "open", "next", "select", "write", "file"}

\* The task works on an episode of its file.
Inside == {"select", "write", "file", "index"}

\* The file has been parsed.
Parsed == {"open", "next"} \cup Inside

StatusOfTask(j) ==
    /\ task[j].pc = "none" <=> job[j].status = "none"
    /\ task[j].pc = "begin" => job[j].status = "queued"
    /\ task[j].pc \in Holding \cup {"index"} => job[j].status = "running"

CountersOfTask(j) ==
    /\ job[j].processed = job[j].created + job[j].updated
    /\ task[j].pc \in {"none", "begin", "parse"} => job[j].processed = 0 /\ job[j].total = 0
    /\ task[j].pc \in Parsed => job[j].processed + Len(task[j].todo) = job[j].total
    /\ task[j].pc \in Inside => task[j].todo # <<>>
    /\ job[j].processed <= job[j].total
    /\ job[j].status = "completed" => job[j].processed = job[j].total

\* What a lookup found is still there when the row is written, unless another
\* request has edited it.
LookupHolds(j) ==
    task[j].pc = "write" /\ j \notin overtaken
        => (task[j].found <=> rows[job[j].project][Head(task[j].todo)] > 0)

\* A task that is over has left a result, as long as the database accepts the
\* rows and nobody has edited the one in hand.
EndIsShown(j) ==
    Rejected = {} /\ j \notin overtaken /\ task[j].pc = "ended" =>
        job[j].status \in {"completed", "error"}

JobInv(j) ==
    /\ task[j].pc \in Holding => loop = j
    /\ StatusOfTask(j)
    /\ CountersOfTask(j)
    /\ LookupHolds(j)
    /\ EndIsShown(j)

IInv ==
    /\ StateTypeOK
    /\ \A j \in Jobs : JobInv(j)

LEMMA IInvInit == Init => IInv
  <1> SUFFICES ASSUME Init PROVE IInv
    OBVIOUS
  <1>1. StateTypeOK
    BY TypeInit
  <1>2. ASSUME NEW j \in Jobs PROVE JobInv(j)
    <2>1. job[j] = NoJob /\ task[j] = NoTask
      BY DEF Init
    <2>2. QED
      BY <2>1, NoJobTyped, NoTaskTyped
      DEF JobInv, StatusOfTask, CountersOfTask, LookupHolds, EndIsShown, Holding, Inside, Parsed
  <1>3. QED
    BY <1>1, <1>2 DEF IInv

\* A job that is not overtaken after a step was not before, nor by the step.
LEMMA NotOvertaken ==
    ASSUME Watch, NEW j \in Jobs, task'[j].pc \in {"write", "ended"}, j \notin overtaken'
    PROVE  j \notin overtaken /\ ~Overtakes(j)
  BY DEF Watch

\* A step of j, alone on the loop, or of a request changes nothing for the others.
LEMMA Bystander ==
    ASSUME IInv, Watch, NEW j \in Jobs, NEW k \in Jobs, k # j, loop \in {Base, j},
           job'[k] = job[k], task'[k] = task[k]
    PROVE  JobInv(k)'
  <1>1. task[k].pc \notin Holding
    BY JobsAssumption DEF IInv, JobInv
  <1>2. JobInv(k)
    BY DEF IInv
  <1>3. task'[k].pc # "write"
    BY <1>1 DEF Holding
  <1>4. task'[k].pc = "ended" /\ k \notin overtaken' => k \notin overtaken
    BY NotOvertaken
  <1>5. QED
    BY <1>1, <1>2, <1>3, <1>4 DEF JobInv, StatusOfTask, CountersOfTask, LookupHolds, EndIsShown

\* A step of j keeps the invariant when it keeps what is said of j.
LEMMA StepInv ==
    ASSUME IInv, Watch, NEW j \in Jobs, loop \in {Base, j}, StateTypeOK',
           \A k \in Jobs \ {j} : job'[k] = job[k] /\ task'[k] = task[k],
           JobInv(j)'
    PROVE  IInv'
  <1>1. ASSUME NEW k \in Jobs PROVE JobInv(k)'
    BY <1>1, Bystander
  <1>2. QED
    BY <1>1 DEF IInv

LEMMA Unfold ==
    ASSUME IInv, NEW j \in Jobs
    PROVE  /\ StateTypeOK
           /\ JobInv(j)
           /\ job[j] \in Row /\ task[j] \in Coroutine
           /\ Len(task[j].todo) \in Nat
           /\ (Len(task[j].todo) = 0 <=> task[j].todo = <<>>)
           /\ job[j].processed \in Nat /\ job[j].total \in Nat
           /\ job[j].created \in Nat /\ job[j].updated \in Nat
  BY Tables, EmptySeq, LenProperties DEF IInv, Coroutine, Row

LEMMA SubmitInv ==
    ASSUME IInv, Watch, NEW j \in Jobs, NEW mode \in Modes, NEW p \in Projects, NEW file \in Files,
           Submit(j, mode, p, file)
    PROVE  IInv'
  <1>1. loop \in {Base, j}
    BY DEF Submit
  <1>2. JobInv(j)'
    BY Unfold, SubmitStep DEF JobInv, StatusOfTask, CountersOfTask, LookupHolds, EndIsShown,
       Holding, Inside, Parsed
  <1>3. QED
    BY <1>1, <1>2, Unfold, SubmitStep, StepInv

\* Another request changes episodes only, and overtakes who has looked them up.
LEMMA EditInv ==
    ASSUME IInv, Watch, NEW p \in Projects, NEW n \in Numbers, AddEpisode(p, n) \/ DeleteEpisode(p, n)
    PROVE  IInv'
  <1>1. StateTypeOK' /\ adds' # adds /\ UNCHANGED <<job, task, loop>>
    BY EditStep DEF IInv
  <1>2. ASSUME NEW j \in Jobs PROVE JobInv(j)'
    <2>1. JobInv(j)
      BY DEF IInv
    <2>2. LookupHolds(j)'
      <3> SUFFICES ASSUME task[j].pc = "write", j \notin overtaken'
                   PROVE  LookupHolds(j)'
        BY <1>1 DEF LookupHolds
      <3>1. /\ j \notin overtaken
            /\ rows'[job[j].project][Head(task[j].todo)] = rows[job[j].project][Head(task[j].todo)]
        BY <1>1, NotOvertaken DEF Overtakes
      <3>2. QED
        BY <1>1, <2>1, <3>1 DEF JobInv, LookupHolds
    <2>3. EndIsShown(j)'
      BY <1>1, <2>1, NotOvertaken DEF JobInv, EndIsShown
    <2>4. QED
      BY <1>1, <2>1, <2>2, <2>3 DEF JobInv, StatusOfTask, CountersOfTask
  <1>3. QED
    BY <1>1, <1>2 DEF IInv

LEMMA BeginInv == ASSUME IInv, Watch, NEW j \in Jobs, Begin(j) PROVE IInv'
  <1>1. loop \in {Base, j}
    BY DEF Begin, At
  <1>2. JobInv(j)'
    BY <1>1, Unfold, BeginStep, ZenonT(40) DEF Begin, At, SameCounters,
       JobInv, StatusOfTask, CountersOfTask, LookupHolds, EndIsShown, Holding, Inside, Parsed
  <1>3. QED
    BY <1>1, <1>2, Unfold, BeginStep, StepInv

LEMMA ParseInv == ASSUME IInv, Watch, NEW j \in Jobs, Parse(j) PROVE IInv'
  <1>1. loop \in {Base, j}
    BY DEF Parse, At
  <1>a. /\ task[j].pc = "parse" /\ job[j].processed = 0 /\ job[j].status = "running"
        /\ Len(task'[j].todo) \in Nat
    BY Unfold, ParseStep, LenProperties
    DEF Parse, At, JobInv, StatusOfTask, CountersOfTask, Holding, StateTypeOK
  <1>2. JobInv(j)'
    <2>1. /\ task'[j].pc = "open" /\ job'[j].status = "running" /\ job'[j].processed = 0
          /\ job'[j].processed = job'[j].created + job'[j].updated
          /\ job'[j].total = Len(task'[j].todo) /\ loop' = j
      BY <1>a, Unfold, ParseStep DEF Parse, At, JobInv, CountersOfTask
    <2>2. CountersOfTask(j)'
      BY <1>a, <2>1 DEF CountersOfTask, Inside
    <2>3. QED
      BY <2>1, <2>2 DEF JobInv, StatusOfTask, LookupHolds, EndIsShown, Holding
  <1>3. QED
    BY <1>1, <1>2, Unfold, ParseStep, StepInv

LEMMA OpenInv == ASSUME IInv, Watch, NEW j \in Jobs, Open(j) PROVE IInv'
  <1>1. loop \in {Base, j}
    BY DEF Open, At
  <1>2. JobInv(j)'
    BY <1>1, Unfold, OpenStep DEF Open, At, SameCounters,
       JobInv, StatusOfTask, CountersOfTask, LookupHolds, EndIsShown, Holding, Inside, Parsed
  <1>3. QED
    BY <1>1, <1>2, Unfold, OpenStep, StepInv

LEMMA NextEpisodeInv == ASSUME IInv, Watch, NEW j \in Jobs, NextEpisode(j) PROVE IInv'
  <1>1. loop \in {Base, j}
    BY DEF NextEpisode, At
  <1>2. JobInv(j)'
    BY <1>1, Unfold, NextEpisodeStep DEF NextEpisode, At, SameCounters,
       JobInv, StatusOfTask, CountersOfTask, LookupHolds, EndIsShown, Holding, Inside, Parsed
  <1>3. QED
    BY <1>1, <1>2, Unfold, NextEpisodeStep, StepInv

LEMMA CompleteInv == ASSUME IInv, Watch, NEW j \in Jobs, Complete(j) PROVE IInv'
  <1>1. loop \in {Base, j}
    BY DEF Complete, At
  <1>a. job[j].processed = job[j].total /\ job[j].status = "running"
    BY Unfold DEF Complete, At, JobInv, StatusOfTask, CountersOfTask, Holding, Parsed
  <1>2. JobInv(j)'
    BY <1>1, <1>a, Unfold, CompleteStep, ZenonT(40) DEF Complete, At, SameCounters,
       JobInv, StatusOfTask, CountersOfTask, LookupHolds, EndIsShown, Holding, Inside, Parsed
  <1>3. QED
    BY <1>1, <1>2, Unfold, CompleteStep, StepInv

LEMMA SelectInv == ASSUME IInv, Watch, NEW j \in Jobs, Select(j) PROVE IInv'
  <1>1. loop \in {Base, j}
    BY DEF Select, At
  <1>2. JobInv(j)'
    BY <1>1, Unfold, SelectStep, ZenonT(40) DEF Select, At, SameCounters,
       JobInv, StatusOfTask, CountersOfTask, LookupHolds, EndIsShown, Holding, Inside, Parsed
  <1>3. QED
    BY <1>1, <1>2, Unfold, SelectStep, StepInv

LEMMA WriteFileInv == ASSUME IInv, Watch, NEW j \in Jobs, WriteFile(j) PROVE IInv'
  <1>1. loop \in {Base, j}
    BY DEF WriteFile, At
  <1>2. JobInv(j)'
    BY <1>1, Unfold, WriteFileStep DEF WriteFile, At, SameCounters,
       JobInv, StatusOfTask, CountersOfTask, LookupHolds, EndIsShown, Holding, Inside, Parsed
  <1>3. QED
    BY <1>1, <1>2, Unfold, WriteFileStep, StepInv

LEMMA WriteFileFailsInv == ASSUME IInv, Watch, NEW j \in Jobs, WriteFileFails(j) PROVE IInv'
  <1>1. loop \in {Base, j}
    BY DEF WriteFileFails, At
  <1>2. JobInv(j)'
    BY <1>1, Unfold, WriteFileFailsStep DEF WriteFileFails, At, SameCounters,
       JobInv, StatusOfTask, CountersOfTask, LookupHolds, EndIsShown, Holding, Inside, Parsed
  <1>3. QED
    BY <1>1, <1>2, Unfold, WriteFileFailsStep, StepInv

LEMMA Shift == \A a \in Nat, b \in Nat : a + (b + 1) = (a + 1) + b
  OBVIOUS

LEMMA CountInv == ASSUME IInv, Watch, NEW j \in Jobs, Count(j) PROVE IInv'
  <1>1. loop = Base /\ task[j].pc = "index"
    BY DEF Count
  <1>2. /\ task[j].todo # <<>> /\ Len(task[j].todo) \in Nat /\ Len(task[j].todo) # 0
        /\ job[j].processed + Len(task[j].todo) = job[j].total
        /\ job[j].processed = job[j].created + job[j].updated
        /\ job[j].status = "running"
    BY <1>1, Unfold DEF JobInv, StatusOfTask, CountersOfTask, Inside, Parsed
  <1>3. JobInv(j)'
    <2>1. StatusOfTask(j)' /\ LookupHolds(j)' /\ EndIsShown(j)' /\ (task[j].pc \in Holding => loop = j)'
      BY <1>1, <1>2, CountStep, Unfold DEF StatusOfTask, LookupHolds, EndIsShown, Holding
    <2>2. CountersOfTask(j)'
      <3>1. /\ task'[j].pc = "next" /\ Len(task[j].todo) = Len(task'[j].todo) + 1
            /\ job'[j].status = "running" /\ job'[j].total = job[j].total
            /\ job'[j].processed = job[j].processed + 1
            /\ job'[j].created + job'[j].updated = job[j].created + job[j].updated + 1
        BY <1>1, <1>2, CountStep, Unfold
      <3>2. /\ job'[j].processed = job'[j].created + job'[j].updated
            /\ job'[j].processed + Len(task'[j].todo) = job'[j].total
            /\ job'[j].processed <= job'[j].total
        <4>1. /\ job[j].processed \in Nat /\ job[j].total \in Nat /\ job[j].created \in Nat
              /\ job[j].updated \in Nat
          BY Unfold
        <4>2. job'[j].created \in Nat /\ job'[j].updated \in Nat /\ Len(task'[j].todo) \in Nat
          <5>1. job'[j] \in Row /\ task'[j] \in Coroutine
            BY <1>2, CountStep, Unfold DEF StateTypeOK, Row, Coroutine
          <5>2. QED
            BY <5>1, LenProperties DEF Row, Coroutine
        <4>3. Len(task[j].todo) \in Nat
          BY <1>2
        <4>4. job'[j].processed = job'[j].created + job'[j].updated
          BY <1>2, <3>1
        <4>5. job'[j].processed + Len(task'[j].todo) = job'[j].total
          <5>1. job'[j].total = job[j].processed + (Len(task'[j].todo) + 1)
            BY <1>2, <3>1, Zenon
          <5>2. job[j].processed + (Len(task'[j].todo) + 1) = (job[j].processed + 1) + Len(task'[j].todo)
            BY <4>1, <4>2, Shift, Zenon
          <5>3. QED
            BY <3>1, <5>1, <5>2, Zenon
        <4>6. job'[j].processed <= job'[j].total
          BY <4>2, <4>4, <4>5
        <4>7. QED
          BY <4>4, <4>5, <4>6
      <3>3. QED
        BY <3>1, <3>2 DEF CountersOfTask, Inside
    <2>3. QED
      BY <2>1, <2>2 DEF JobInv
  <1>4. QED
    BY <1>1, <1>2, <1>3, Unfold, CountStep, StepInv

LEMMA WriteInv == ASSUME IInv, Watch, NEW j \in Jobs, Write(j) PROVE IInv'
  <1> DEFINE p == job[j].project
             n == Head(task[j].todo)
  <1>1. task[j].pc = "write" /\ loop = j /\ job[j].status = "running" /\ task[j].todo # <<>>
    BY Unfold DEF Write, At, JobInv, StatusOfTask, CountersOfTask, Holding, Inside
  <1>2. /\ StateTypeOK /\ StateTypeOK'
        /\ SameCounters(j)
        /\ \A k \in Jobs \ {j} : job'[k] = job[k] /\ task'[k] = task[k]
    BY <1>1, WriteStep, Unfold
  <1>3. CASE /\ task'[j].pc = "file" /\ task'[j].todo = task[j].todo
             /\ UNCHANGED <<job, loop>>
    <2>1. JobInv(j)'
      BY <1>1, <1>2, <1>3, Unfold
      DEF JobInv, StatusOfTask, CountersOfTask, LookupHolds, EndIsShown, Holding, Inside, Parsed
    <2>2. QED
      BY <1>1, <1>2, <2>1, StepInv
  <1>4. CASE /\ (task[j].found /\ rows[p][n] = 0) \/ n \in Rejected
             /\ task'[j].pc = "ended" /\ loop' = Base /\ UNCHANGED job
    <2>1. ~(Rejected = {} /\ j \notin overtaken)
      BY <1>1, <1>4, Unfold DEF JobInv, LookupHolds
    <2>2. EndIsShown(j)'
      BY <1>4, <2>1, NotOvertaken DEF EndIsShown
    <2>3. JobInv(j)'
      BY <1>1, <1>2, <1>4, <2>2, Unfold
      DEF JobInv, StatusOfTask, CountersOfTask, LookupHolds, Holding, Inside, Parsed
    <2>4. QED
      BY <1>1, <1>2, <2>3, StepInv
  <1>5. CASE task'[j].pc = "ended" /\ loop' = Base /\ job'[j].status = "error"
    <2>1. JobInv(j)'
      BY <1>1, <1>2, <1>5, Unfold
      DEF JobInv, StatusOfTask, CountersOfTask, LookupHolds, EndIsShown, Holding, Inside, Parsed,
          SameCounters
    <2>2. QED
      BY <1>1, <1>2, <2>1, StepInv
  <1>6. QED
    BY <1>1, <1>3, <1>4, <1>5, WriteStep, Unfold

LEMMA RestartInv == IInv /\ Watch /\ Restart => IInv'
  <1> SUFFICES ASSUME IInv, Watch, Restart PROVE IInv'
    OBVIOUS
  <1>1. StateTypeOK
    BY DEF IInv
  <1>2. ASSUME NEW j \in Jobs PROVE JobInv(j)'
    <2>1. /\ SameCounters(j)
          /\ job'[j].status = IF ShownAsActive(j) THEN "error" ELSE job[j].status
          /\ task'[j].pc = IF Alive(j) THEN "ended" ELSE task[j].pc
      BY <1>1, RestartStep
    <2>2. task'[j].pc \in {"none", "ended"} /\ (task'[j].pc = "none" <=> task[j].pc = "none")
      BY <2>1 DEF Alive
    <2>3. (task'[j].pc \in Holding => loop' = j) /\ LookupHolds(j)'
      BY <2>2 DEF LookupHolds, Holding
    <2>4. StatusOfTask(j)'
      BY <2>1, <2>2, Unfold DEF JobInv, StatusOfTask, Holding, ShownAsActive
    <2>5. CountersOfTask(j)'
      BY <2>1, <2>2, Unfold DEF JobInv, CountersOfTask, SameCounters, Parsed, Inside
    <2>6. EndIsShown(j)'
      <3>1. j \notin overtaken' /\ task'[j].pc = "ended" => j \notin overtaken
        BY NotOvertaken
      <3>2. QED
        BY <2>1, <2>2, <3>1, Unfold
        DEF JobInv, EndIsShown, Row, Coroutine, PC, Holding, StatusOfTask, ShownAsActive, Alive
    <2>7. QED
      BY <2>3, <2>4, <2>5, <2>6 DEF JobInv
  <1>3. QED
    BY <1>1, <1>2, RestartStep DEF IInv

-----------------------------------------------------------------------------
(***************************************************************************)
(* Theorems.                                                               *)
(***************************************************************************)

LEMMA TaskInv == ASSUME IInv, Watch, NEW j \in Jobs, TaskStep(j) PROVE IInv'
  BY BeginInv, ParseInv, OpenInv, NextEpisodeInv, CompleteInv, SelectInv, WriteInv, WriteFileInv,
     WriteFileFailsInv, CountInv DEF TaskStep

LEMMA IInvNext == IInv /\ [Next]_vars => IInv'
  <1> SUFFICES ASSUME IInv, [Next]_vars PROVE IInv'
    OBVIOUS
  <1>1. CASE UNCHANGED vars
    <2>1. StateTypeOK'
      BY <1>1 DEF IInv, vars, StateTypeOK
    <2>2. \A j \in Jobs : JobInv(j)'
      BY <1>1 DEF IInv, vars, JobInv, StatusOfTask, CountersOfTask, LookupHolds, EndIsShown
    <2>3. QED
      BY <2>1, <2>2 DEF IInv
  <1>2. CASE Next
    BY <1>2, SubmitInv, EditInv, TaskInv, RestartInv DEF Next, Step
  <1>3. QED
    BY <1>1, <1>2

LEMMA IInvAlways == Spec => []IInv
  BY IInvInit, IInvNext, PTL DEF Spec

\* The rows of import_jobs, the tasks and the episodes stay typed.
THEOREM TypeCorrect == Spec => []TypeOK
  <1>1. Init => TypeOK
    BY TypeInit DEF Init, TypeOK
  <1>2. IInv /\ IInv' /\ TypeOK /\ [Next]_vars => TypeOK'
    BY DEF IInv, TypeOK, Next, Watch, vars
  <1>3. QED
    BY <1>1, <1>2, IInvAlways, PTL DEF Spec

\* The progress a client polls adds up at every moment of every import, and a
\* completed one has processed its whole file (run_import_job's counters).
THEOREM ProgressAddsUp == Spec => []CountersAgree
  <1>1. IInv => CountersAgree
    BY DEF IInv, CountersAgree, JobInv, CountersOfTask
  <1>2. QED
    BY <1>1, IInvAlways, PTL

\* However many imports overlap and whoever edits: an import gives a number twice
\* only when an edit came between its lookup and its insertion (_import_episode).
THEOREM DoublesAreRaces == Spec => DoublesOnlyWhenOvertaken
  <1>1. IInv /\ [Next]_vars =>
            [\A p \in Projects, n \in Numbers :
                adds' = adds /\ rows'[p][n] > rows[p][n] /\ rows[p][n] > 0 =>
                    \E j \in overtaken : /\ At(j, "write")
                                         /\ job[j].project = p /\ Head(task[j].todo) = n]_vars
    <2> SUFFICES ASSUME IInv, Next, NEW p \in Projects, NEW n \in Numbers,
                        adds' = adds, rows'[p][n] > rows[p][n], rows[p][n] > 0
                 PROVE  \E j \in overtaken : /\ At(j, "write")
                                             /\ job[j].project = p /\ Head(task[j].todo) = n
      OBVIOUS
    <2>1. StateTypeOK /\ rows[p][n] \in Nat
      BY DEF IInv, StateTypeOK
    <2>2. rows' # rows /\ adds' = adds
      BY <2>1
    <2>3. PICK j \in Jobs : Write(j)
      <3>1. \A j, mode, q, file : ~Submit(j, mode, q, file)
        BY <2>2 DEF Submit
      <3>2. \A q \in Projects, m \in Numbers : ~(AddEpisode(q, m) \/ DeleteEpisode(q, m))
        BY <2>1, <2>2, EditStep
      <3>3. \A j \in Jobs : ~(Begin(j) \/ Parse(j) \/ Open(j) \/ NextEpisode(j) \/ Complete(j))
        BY <2>2 DEF Begin, Parse, Open, NextEpisode, Complete
      <3>4. \A j \in Jobs : ~(Select(j) \/ WriteFile(j) \/ WriteFileFails(j) \/ Count(j))
        BY <2>2 DEF Select, WriteFile, WriteFileFails, Count
      <3>5. ~Restart
        BY <2>2 DEF Restart
      <3>6. QED
        BY <3>1, <3>2, <3>3, <3>4, <3>5 DEF Next, Step, TaskStep
    <2> DEFINE q == job[j].project
               m == Head(task[j].todo)
    <2>4. /\ task[j].pc = "write" /\ At(j, "write") /\ task[j].todo # <<>>
          /\ LookupHolds(j)
      BY <2>3, Unfold DEF Write, At, JobInv, CountersOfTask, Inside
    <2>5. /\ q \in Projects /\ m \in Numbers
          /\ ~task[j].found /\ rows' = [rows EXCEPT ![q][m] = @ + 1]
      BY <2>1, <2>2, <2>3, <2>4, WriteStep
    <2>6. q = p /\ m = n
      BY <2>1, <2>5 DEF StateTypeOK
    <2>7. j \in overtaken
      BY <2>4, <2>5, <2>6 DEF LookupHolds
    <2>8. QED
      BY <2>4, <2>6, <2>7
  <1>2. QED
    BY <1>1, IInvAlways, PTL DEF Spec, DoublesOnlyWhenOvertaken

\* Where the database refuses no row, a full disk, a failing index or a restart
\* leave no job that is shown as active and has no task; only an edit of the episode
\* in hand does.
THEOREM NoGhosts == ASSUME Rejected = {} PROVE Spec => []NoGhostUnlessOvertaken
  <1>1. IInv => NoGhostUnlessOvertaken
    <2> SUFFICES ASSUME IInv, NEW j \in Jobs, ShownAsActive(j), j \notin overtaken PROVE Alive(j)
      BY DEF NoGhostUnlessOvertaken
    <2> QED
      BY Unfold DEF JobInv, EndIsShown, StatusOfTask, ShownAsActive, Alive
  <1>2. QED
    BY <1>1, IInvAlways, PTL

\* The status of a job only moves forward, through restarts too, and its result
\* is final.
THEOREM StatusMovesForward == Spec => StatusIsFinal
  <1> DEFINE Forward(j) ==
         job'[j].status # job[j].status =>
              \/ job[j].status = "none" /\ job'[j].status = "queued"
              \/ job[j].status = "queued" /\ job'[j].status \in {"running", "error"}
              \/ job[j].status = "running" /\ job'[j].status \in {"completed", "error"}
  <1>1. IInv /\ [Next]_vars => [\A j \in Jobs : Forward(j)]_vars
    <2> SUFFICES ASSUME IInv, Next, NEW j \in Jobs PROVE Forward(j)
      OBVIOUS
    <2>1. StateTypeOK /\ JobInv(j)
      BY DEF IInv
    <2>2. ASSUME NEW k \in Jobs, NEW mode \in Modes, NEW p \in Projects, NEW file \in Files,
                 Submit(k, mode, p, file)
          PROVE  Forward(j)
      BY <2>1, <2>2, SubmitStep DEF Submit
    <2>3. ASSUME NEW p \in Projects, NEW n \in Numbers, AddEpisode(p, n) \/ DeleteEpisode(p, n)
          PROVE  Forward(j)
      BY <2>1, <2>3, EditStep
    <2>4. CASE Restart
      BY <2>1, <2>4, RestartStep DEF ShownAsActive
    <2>5. ASSUME NEW k \in Jobs, TaskStep(k) PROVE Forward(j)
      <3>1. JobInv(k)
        BY DEF IInv
      <3>2. CASE Begin(k)
        BY <2>1, <3>1, <3>2, BeginStep DEF Begin, JobInv, StatusOfTask
      <3>3. CASE Parse(k)
        BY <2>1, <3>3, ParseStep
      <3>4. CASE Open(k)
        BY <2>1, <3>1, <3>4, OpenStep DEF Open, At, JobInv, StatusOfTask, Holding
      <3>5. CASE Complete(k)
        BY <2>1, <3>1, <3>5, CompleteStep DEF Complete, At, JobInv, StatusOfTask, Holding
      <3>6. CASE NextEpisode(k) \/ Select(k) \/ WriteFile(k)
        BY <2>1, <3>6, NextEpisodeStep, SelectStep, WriteFileStep
      <3>7. CASE WriteFileFails(k)
        BY <2>1, <3>1, <3>7, WriteFileFailsStep
        DEF WriteFileFails, At, JobInv, StatusOfTask, Holding
      <3>8. CASE Count(k)
        BY <2>1, <3>1, <3>8, CountStep DEF Count, JobInv, CountersOfTask, Inside
      <3>9. CASE Write(k)
        BY <2>1, <3>1, <3>9, WriteStep
        DEF Write, At, JobInv, StatusOfTask, CountersOfTask, Holding, Inside
      <3>10. QED
        BY <2>5, <3>2, <3>3, <3>4, <3>5, <3>6, <3>7, <3>8, <3>9 DEF TaskStep
    <2>6. QED
      BY <2>2, <2>3, <2>4, <2>5 DEF Next, Step
  <1>2. QED
    BY <1>1, IInvAlways, PTL DEF Spec, StatusIsFinal

=============================================================================
