---------------------------- MODULE EpisodeStore ----------------------------
(***************************************************************************)
(* The text of the episodes and the four places that hold it: the row, its *)
(* revision history, the Markdown mirror on disk and the vectors of the    *)
(* semantic search (main.py, the episode, revision, replace-all and RAG    *)
(* handlers).                                                              *)
(*                                                                         *)
(* A handler declared with async def runs on the one event loop and keeps  *)
(* it until its next await; the others run on threads of their own.  Every *)
(* handler is a chain of steps, one per access to the database or to the   *)
(* disk, so that a thread may come between any two of them.  A request     *)
(* reads through its SQLAlchemy session: what it loaded stays in the       *)
(* session until a commit expires it, and an UPDATE is sent only for an    *)
(* attribute that differs from the loaded value.                           *)
(***************************************************************************)
EXTENDS Integers, Sequences, FiniteSets, SequencesExt

CONSTANTS
    Eps,        \* ids of episodes; their order stands for that of the numbers
    Texts,      \* the contents an episode may have
    First,      \* the content of the initial episodes
    Rewrite,    \* what a replace-all makes of a content
    None,       \* no row, no file, no vector, nothing loaded
    Reqs,       \* requests in flight at the same time
    RevCap,     \* the number of revisions kept per episode (20)
    Mixes       \* what the clients may do and what may fail, as below

OnLoop == {"put", "docx", "replace", "rebuild"}

AllKinds == OnLoop \cup {"restore", "add", "delete"}

\* One mix of requests: the episodes that exist at the start, the kinds, how many are in flight at the same time,
\* whether an upload may be too large to be held in memory (spools), whether
\* the embedding model or the vector store may fail (fails), and the bounds on
\* the number of requests and of restarts in a behaviour.
Mix == [initial : SUBSET Eps, kinds : SUBSET AllKinds, width : Nat, spools : BOOLEAN, fails : BOOLEAN,
        calls : Nat, crashes : Nat]

ASSUME ReqsAssumption == IsFiniteSet(Reqs)
ASSUME EpsAssumption == Eps \subseteq Nat /\ IsFiniteSet(Eps)
ASSUME TextsAssumption == First \in Texts /\ None \notin Texts /\ None \notin Reqs
ASSUME RewriteAssumption == Rewrite \in [Texts -> Texts]
ASSUME CapAssumption == RevCap \in Nat \ {0}
ASSUME MixesAssumption == Mixes \subseteq Mix

VARIABLES
    mix,        \* the mix of this behaviour; it never changes
    allocated,  \* the ids the database has handed out
    row,        \* row[e]: the committed content, or None
    history,    \* history[e]: the contents of the revisions, oldest first
    mirror,     \* mirror[e]: the content of the Markdown file, or None
    vectors,    \* vectors[e]: the content the search index was built from
    loop,       \* the request whose handler runs on the event loop, or None
    call,       \* call[r]: kind, progress, episode, new text, episodes to do
    session,    \* session[r][e]: the content loaded by the request's session
    calls,      \* number of requests so far
    crashes     \* number of restarts so far

stored == <<allocated, row, history, mirror, vectors>>
vars == <<mix, stored, loop, call, session, calls, crashes>>

Stages == {"idle", "upload", "scan", "commit", "refresh", "file", "index",
           "rebuild", "unlink", "drop"}

NoCall == [kind |-> "put", stage |-> "idle", ep |-> None, text |-> None, todo |-> {}]

Nothing == [e \in Eps |-> None]

TypeOK ==
    /\ mix \in Mixes
    /\ allocated \subseteq Eps
    /\ row \in [Eps -> Texts \cup {None}]
    /\ history \in [Eps -> Seq(Texts)]
    /\ mirror \in [Eps -> Texts \cup {None}]
    /\ vectors \in [Eps -> Texts \cup {None}]
    /\ loop \in Reqs \cup {None}
    /\ call \in [Reqs -> [kind : AllKinds, stage : Stages, ep : Eps \cup {None},
                          text : Texts \cup {None}, todo : SUBSET Eps]]
    /\ session \in [Reqs -> [Eps -> Texts \cup {None}]]
    /\ calls \in 0..mix.calls
    /\ crashes \in 0..mix.crashes

Init ==
    /\ mix \in Mixes
    /\ allocated = mix.initial
    /\ row = [e \in Eps |-> IF e \in mix.initial THEN First ELSE None]
    /\ history = [e \in Eps |-> <<>>]
    /\ mirror = row
    /\ vectors = row
    /\ loop = None
    /\ call = [r \in Reqs |-> NoCall]
    /\ session = [r \in Reqs |-> Nothing]
    /\ calls = 0
    /\ crashes = 0

-----------------------------------------------------------------------------
(***************************************************************************)
(* Helpers.                                                                *)
(***************************************************************************)

\* A pruning that keeps the newest revision only.
FaultyPushPrunesAll(h, e, r) ==
    IF Len(h) < RevCap THEN Append(h, session[r][e]) ELSE <<session[r][e]>>

\* snapshot_revision: the loaded content becomes the newest of at most RevCap
\* revisions.
PushRevision(h, e, r) ==
    LET kept == IF Len(h) < RevCap THEN h ELSE SubSeq(h, Len(h) - RevCap + 2, Len(h))
    IN  Append(kept, session[r][e])

\* Request r is at this stage, and where it needs the event loop it has it.
At(r, stage) ==
    /\ call[r].stage = stage
    /\ call[r].kind \in OnLoop => loop = r

\* A new request of this kind enters its handler.
Enter(r, kind) ==
    /\ kind \in mix.kinds
    /\ call[r].stage = "idle"
    /\ Cardinality({q \in Reqs : call[q].stage # "idle"}) < mix.width
    /\ kind \in OnLoop => loop = None
    /\ calls < mix.calls
    /\ calls' = calls + 1
    /\ UNCHANGED <<mix, crashes>>

\* The coroutine of r resumes: nobody else is running on the loop.
Resume(r, stage) == call[r].stage = stage /\ loop = None

\* A response whose coroutine never gives the loop back.
FaultyReply(r) ==
    /\ call' = [call EXCEPT ![r] = NoCall]
    /\ session' = [session EXCEPT ![r] = Nothing]
    /\ UNCHANGED loop

\* The response is sent (or an exception becomes one): the session is closed.
Reply(r) ==
    /\ call' = [call EXCEPT ![r] = NoCall]
    /\ session' = [session EXCEPT ![r] = Nothing]
    /\ loop' = IF loop = r THEN None ELSE loop

Same == UNCHANGED <<mix, calls, crashes>>

-----------------------------------------------------------------------------
(***************************************************************************)
(* Requests enter.  A missing episode is a 404, which changes nothing.     *)
(***************************************************************************)

\* A handler that takes its snapshot of an episode it has not loaded.
FaultyLoadForWrite(r, kind, e, t, stage) ==
    /\ Enter(r, kind)
    /\ row[e] # None
    /\ call' = [call EXCEPT ![r] = [NoCall EXCEPT !.kind = kind, !.stage = stage,
                                                  !.ep = e, !.text = t]]
    /\ UNCHANGED <<stored, session>>

\* A handler that loads episode e with db.get and is about to write content t.
LoadForWrite(r, kind, e, t, stage) ==
    /\ Enter(r, kind)
    /\ row[e] # None
    /\ call' = [call EXCEPT ![r] = [NoCall EXCEPT !.kind = kind, !.stage = stage,
                                                  !.ep = e, !.text = t]]
    /\ session' = [session EXCEPT ![r][e] = row[e]]
    /\ UNCHANGED stored

\* episode_put; a save that leaves the content alone is one with t = row[e].
Put(r, e, t) ==
    /\ LoadForWrite(r, "put", e, t, "commit")
    /\ loop' = r

\* episode_docx_import: an upload that fits in memory is read without leaving
\* the loop, a larger one is read by a thread while the handler awaits.
Docx(r, e, t) ==
    \/ LoadForWrite(r, "docx", e, t, "commit") /\ loop' = r
    \/ mix.spools /\ LoadForWrite(r, "docx", e, t, "upload") /\ UNCHANGED loop

\* `await file.read()` returns.
Uploaded(r) ==
    /\ Resume(r, "upload")
    /\ loop' = r
    /\ call' = [call EXCEPT ![r].stage = "commit"]
    /\ UNCHANGED <<stored, session>> /\ Same

\* project_text_replace: one SELECT loads the chosen episodes.
Replace(r, chosen) ==
    LET found == {e \in chosen : row[e] # None}
    IN  /\ Enter(r, "replace")
        /\ loop' = r
        /\ call' = [call EXCEPT ![r] = [NoCall EXCEPT !.kind = "replace",
                                                      !.stage = "scan", !.todo = found]]
        /\ session' = [session EXCEPT ![r] = [e \in Eps |-> IF e \in found THEN row[e]
                                                            ELSE None]]
        /\ UNCHANGED stored

\* rag_index: one SELECT, then every chunk is embedded and stored.
Rebuild(r) ==
    /\ Enter(r, "rebuild")
    /\ call' = [call EXCEPT ![r] = [NoCall EXCEPT !.kind = "rebuild", !.stage = "rebuild"]]
    /\ session' = [session EXCEPT ![r] = row]
    /\ UNCHANGED <<stored, loop>>

\* episode_revision_restore of a revision whose content is t (on a thread).
Restore(r, e, t) ==
    /\ Contains(history[e], t)
    /\ LoadForWrite(r, "restore", e, t, "commit")
    /\ UNCHANGED loop

\* episode_add (on a thread): the row is inserted under a new id.
Add(r, e, t) ==
    /\ Enter(r, "add")
    /\ e \notin allocated
    /\ allocated' = allocated \cup {e}
    /\ row' = [row EXCEPT ![e] = t]
    /\ call' = [call EXCEPT ![r] = [NoCall EXCEPT !.kind = "add", !.stage = "refresh",
                                                  !.ep = e, !.text = t]]
    /\ UNCHANGED <<history, mirror, vectors, loop, session>>

\* episode_delete (on a thread).
Delete(r, e) ==
    /\ LoadForWrite(r, "delete", e, None, "unlink")
    /\ UNCHANGED loop

-----------------------------------------------------------------------------
(***************************************************************************)
(* The steps of the handlers.                                              *)
(***************************************************************************)

\* e.content: what the session holds, or a fresh SELECT once it has expired.
Loaded(r, e) == IF session[r][e] # None THEN session[r][e] ELSE row[e]

\* One turn of the loop of project_text_replace.  An episode deleted since it
\* expired makes the handler fail; the ones already replaced stay replaced.
Scan(r) ==
    LET e == CHOOSE x \in call[r].todo : \A y \in call[r].todo : x <= y
    IN  /\ At(r, "scan")
        /\ IF call[r].todo = {} \/ Loaded(r, e) = None
           THEN Reply(r)
           ELSE /\ session' = [session EXCEPT ![r][e] = Loaded(r, e)]
                /\ call' = [call EXCEPT ![r].todo = @ \ {e},
                                        ![r].ep = e,
                                        ![r].text = Rewrite[Loaded(r, e)],
                                        ![r].stage = IF Rewrite[Loaded(r, e)] = Loaded(r, e)
                                                     THEN "scan" ELSE "commit"]
                /\ UNCHANGED loop
        /\ UNCHANGED stored /\ Same

\* A merge that inserts the row again when it is gone.
FaultyCommitMerges(r) ==
    LET e == call[r].ep
    IN  /\ At(r, "commit")
        /\ row' = [row EXCEPT ![e] = call[r].text]
        /\ history' = IF call[r].kind = "restore" \/ call[r].text # session[r][e]
                      THEN [history EXCEPT ![e] = PushRevision(history[e], e, r)]
                      ELSE history
        /\ session' = [session EXCEPT ![r] = Nothing]
        /\ call' = [call EXCEPT ![r].stage = "refresh"]
        /\ UNCHANGED <<allocated, mirror, vectors, loop>> /\ Same

\* A snapshot that is committed although the episode has just been deleted.
FaultyCommitOrphans(r) ==
    LET e == call[r].ep
    IN  /\ At(r, "commit")
        /\ row' = [row EXCEPT ![e] = IF @ = None THEN None ELSE call[r].text]
        /\ history' = [history EXCEPT ![e] = PushRevision(history[e], e, r)]
        /\ session' = [session EXCEPT ![r] = Nothing]
        /\ call' = [call EXCEPT ![r].stage = "refresh"]
        /\ UNCHANGED <<allocated, mirror, vectors, loop>> /\ Same

\* A handler that compares with nothing and takes no snapshot.
FaultyCommitWithoutSnapshot(r) ==
    LET e == call[r].ep
    IN  /\ At(r, "commit")
        /\ row[e] # None
        /\ row' = [row EXCEPT ![e] = call[r].text]
        /\ session' = [session EXCEPT ![r] = Nothing]
        /\ call' = [call EXCEPT ![r].stage = "refresh"]
        /\ UNCHANGED <<allocated, history, mirror, vectors, loop>> /\ Same

\* A restore that trusts the revision list to hold the current text already.
FaultyCommitRestoreUnsaved(r) ==
    LET e == call[r].ep
    IN  /\ At(r, "commit")
        /\ row' = [row EXCEPT ![e] = call[r].text]
        /\ history' = IF call[r].kind # "restore" /\ call[r].text # session[r][e]
                      THEN [history EXCEPT ![e] = PushRevision(history[e], e, r)]
                      ELSE history
        /\ session' = [session EXCEPT ![r] = Nothing]
        /\ call' = [call EXCEPT ![r].stage = "refresh"]
        /\ UNCHANGED <<allocated, mirror, vectors, loop>> /\ Same

\* A session made with expire_on_commit=False.
FaultyCommitKeepsLoaded(r) ==
    LET e == call[r].ep
        changed == call[r].text # session[r][e]
    IN  /\ At(r, "commit")
        /\ row[e] # None
        /\ row' = IF changed THEN [row EXCEPT ![e] = call[r].text] ELSE row
        /\ history' = IF changed
                      THEN [history EXCEPT ![e] = PushRevision(history[e], e, r)]
                      ELSE history
        /\ call' = [call EXCEPT ![r].stage = "refresh"]
        /\ UNCHANGED <<allocated, mirror, vectors, loop, session>> /\ Same

\* The snapshot and the UPDATE, made visible by one commit, which expires the
\* session.  When the row is gone the flush fails and nothing is stored.
Commit(r) ==
    LET e == call[r].ep
        changed == call[r].text # session[r][e]
    IN  /\ At(r, "commit")
        /\ IF row[e] = None
           THEN Reply(r) /\ UNCHANGED stored
           ELSE /\ row' = IF changed THEN [row EXCEPT ![e] = call[r].text] ELSE row
                /\ history' = IF changed \/ call[r].kind = "restore"
                              THEN [history EXCEPT ![e] = PushRevision(history[e], e, r)]
                              ELSE history
                /\ session' = [session EXCEPT ![r] = Nothing]
                /\ call' = [call EXCEPT ![r].stage = "refresh"]
                /\ UNCHANGED <<allocated, mirror, vectors, loop>>
        /\ Same

\* db.refresh(e); a row deleted meanwhile makes it raise.
Refresh(r) ==
    LET e == call[r].ep
    IN  /\ At(r, "refresh")
        /\ IF row[e] = None
           THEN Reply(r)
           ELSE /\ session' = [session EXCEPT ![r][e] = row[e]]
                /\ call' = [call EXCEPT ![r].stage = "file"]
                /\ UNCHANGED loop
        /\ UNCHANGED stored /\ Same

\* The loop given up before the mirror is written.
FaultyWriteFile(r) ==
    LET e == call[r].ep
    IN  /\ At(r, "file")
        /\ call[r].kind \in OnLoop
        /\ call' = [call EXCEPT ![r].stage = "index"]
        /\ loop' = None
        /\ UNCHANGED <<allocated, row, history, mirror, vectors, session>> /\ Same

\* file_sync.write_episode_file, after which a handler on the loop awaits
\* index() and one on a thread replies.
WriteFile(r) ==
    LET e == call[r].ep
    IN  /\ At(r, "file")
        /\ mirror' = [mirror EXCEPT ![e] = session[r][e]]
        /\ IF call[r].kind \in OnLoop
           THEN /\ call' = [call EXCEPT ![r].stage = "index"]
                /\ loop' = None
                /\ UNCHANGED session
           ELSE Reply(r)
        /\ UNCHANGED <<allocated, row, history, vectors>> /\ Same

\* An import whose caller is expected to rebuild the index.
FaultyIndexedNotDocx(r) ==
    LET e == call[r].ep
    IN  /\ Resume(r, "index")
        /\ vectors' = IF call[r].kind = "docx" THEN vectors
                      ELSE [vectors EXCEPT ![e] = session[r][e]]
        /\ IF call[r].kind = "replace"
           THEN /\ call' = [call EXCEPT ![r].stage = "scan"]
                /\ loop' = r
                /\ UNCHANGED session
           ELSE Reply(r)
        /\ UNCHANGED <<allocated, row, history, mirror>> /\ Same

\* index(chunks(e)) ends, with the content loaded before the await; a failure
\* is logged (episode_put adds a warning) and never undoes the save.
Indexed(r) ==
    LET e == call[r].ep
    IN  /\ Resume(r, "index")
        /\ \/ vectors' = [vectors EXCEPT ![e] = session[r][e]]
           \/ mix.fails /\ UNCHANGED vectors
        /\ IF call[r].kind = "replace"
           THEN /\ call' = [call EXCEPT ![r].stage = "scan"]
                /\ loop' = r
                /\ UNCHANGED session
           ELSE Reply(r)
        /\ UNCHANGED <<allocated, row, history, mirror>> /\ Same

\* The index() of rag_index ends or fails (503).
Rebuilt(r) ==
    /\ Resume(r, "rebuild")
    /\ \/ vectors' = [e \in Eps |-> IF session[r][e] # None THEN session[r][e]
                                    ELSE vectors[e]]
       \/ mix.fails /\ UNCHANGED vectors
    /\ Reply(r)
    /\ UNCHANGED <<allocated, row, history, mirror>> /\ Same

\* A deletion that leaves the Markdown file.
FaultyUnlink(r) ==
    /\ At(r, "unlink")
    /\ call' = [call EXCEPT ![r].stage = "drop"]
    /\ UNCHANGED <<stored, loop, session>> /\ Same

\* file_sync.delete_episode_file.
Unlink(r) ==
    /\ At(r, "unlink")
    /\ mirror' = [mirror EXCEPT ![call[r].ep] = None]
    /\ call' = [call EXCEPT ![r].stage = "drop"]
    /\ UNCHANGED <<allocated, row, history, vectors, loop, session>> /\ Same

\* db.delete and commit; the revisions go with the row (ON DELETE CASCADE),
\* the vectors stay.
Drop(r) ==
    /\ At(r, "drop")
    /\ row' = [row EXCEPT ![call[r].ep] = None]
    /\ history' = [history EXCEPT ![call[r].ep] = <<>>]
    /\ Reply(r)
    /\ UNCHANGED <<allocated, mirror, vectors>> /\ Same

\* The process dies and is started again.
Crash ==
    /\ crashes < mix.crashes
    /\ crashes' = crashes + 1
    /\ loop' = None
    /\ call' = [r \in Reqs |-> NoCall]
    /\ session' = [r \in Reqs |-> Nothing]
    /\ UNCHANGED <<mix, stored, calls>>

Arrive(r) ==
    \/ \E e \in Eps, t \in Texts : \/ Put(r, e, t)
                                   \/ Docx(r, e, t)
                                   \/ Restore(r, e, t)
                                   \/ Add(r, e, t)
    \/ \E e \in Eps : Delete(r, e)
    \/ \E chosen \in SUBSET Eps : Replace(r, chosen)
    \/ Rebuild(r)

Step(r) ==
    \/ Uploaded(r)
    \/ Scan(r)
    \/ Commit(r)
    \/ Refresh(r)
    \/ WriteFile(r)
    \/ Indexed(r)
    \/ Rebuilt(r)
    \/ Unlink(r)
    \/ Drop(r)

Next == Crash \/ \E r \in Reqs : Arrive(r) \/ Step(r)

Spec == Init /\ [][Next]_vars

(***************************************************************************)
(* A thread is scheduled, a coroutine that can resume is resumed sooner or *)
(* later although others enter the loop in between, and both the upload    *)
(* and the calls to the embedding model and to the vector store end (they  *)
(* have timeouts).                                                         *)
(***************************************************************************)
FairSpec == Spec /\ \A r \in Reqs : SF_vars(Step(r))

-----------------------------------------------------------------------------
(***************************************************************************)
(* Properties.                                                             *)
(***************************************************************************)

Idle == \A r \in Reqs : call[r].stage = "idle"

\* No await and no thread comes between the steps of two requests.
Serial == mix.width = 1
OnLoopOnly == mix.kinds \subseteq OnLoop /\ ~mix.spools

LeavesReplaced(e) ==
    row[e] # row'[e] /\ row[e] # None /\ row'[e] # None
        => history'[e] # <<>> /\ Last(history'[e]) = row[e]

\* Whoever replaces the text of an episode leaves the text it replaced as its
\* newest revision: handlers that run on the loop, or one at a time, never
\* throw away what another has saved (episode_put, docx-import, replace-all,
\* restore).
HistoryKeepsReplaced ==
    [][OnLoopOnly \/ Serial => \A e \in Eps : LeavesReplaced(e)]_vars

\* The same whatever the handlers: "every time you save different content than
\* what was there before, the previous version is snapshotted".
HistoryAlwaysKeepsReplaced == [][\A e \in Eps : LeavesReplaced(e)]_vars

\* Of the history of a living episode only the oldest revision is ever
\* dropped, and only when the cap is reached (snapshot_revision).  That the query, the
\* pruning (main.py:586) and db.commit (:588) see no other commit between them is taken
\* from Commit: two sessions that overlap there could leave one entry more than the cap.
HistoryDropsOnlyOldest ==
    [][\A e \in Eps :
          LET h == history[e] IN
          history'[e] # h /\ row'[e] # None =>
              /\ Len(history'[e]) = IF Len(h) < RevCap THEN Len(h) + 1 ELSE RevCap
              /\ IsSuffix(Front(history'[e]), h)]_vars

\* An episode that was deleted stays deleted, and so does its history, whatever
\* handler still holds it in its session.
NoResurrection ==
    [][\A e \in allocated : row[e] = None => row'[e] = None /\ history'[e] = <<>>]_vars

MirrorAgrees == \A e \in Eps : mirror[e] = row[e]

\* Until a crash comes between the two, row and file change together: for
\* handlers on the event loop between two awaits, so that no coroutine ever sees
\* them apart; with threads, but one request at a time, they agree whenever
\* nobody is at work.
MirrorInStep ==
    crashes = 0 =>
        /\ mix.kinds \subseteq OnLoop /\ loop = None => MirrorAgrees
        /\ Serial /\ Idle => MirrorAgrees

\* "a write-through mirror": when no handler is at work, the file of every
\* episode has the text of its row.
MirrorSettled == Idle => MirrorAgrees

\* Requests that index, one at a time and with no failing index call, leave the
\* search index built from the text of the row.
IndexInStep ==
    Serial /\ Idle /\ crashes = 0 /\ ~mix.fails /\ mix.kinds \subseteq {"put", "docx", "replace"}
        => \A e \in Eps : row[e] # None => vectors[e] = row[e]

\* Neither copy of a text falls behind the row: the Markdown file and the vectors
\* agree with it as far as the two statements above go.
CopiesInStep == MirrorInStep /\ IndexInStep

\* Where no thread can come between, replace-all rewrites the text that is there
\* when it commits, also after the awaits in its loop, never an older one.
ReplaceUsesCurrentText ==
    [][mix.kinds \subseteq OnLoop =>
          \A r \in Reqs :
              call[r].kind = "replace" /\ call[r].stage = "commit" /\ call'[r].stage = "refresh"
                  => row'[call[r].ep] = Rewrite[row[call[r].ep]]]_vars

\* Every request is answered.
EveryRequestAnswered ==
    \A r \in Reqs : call[r].stage # "idle" ~> call[r].stage = "idle"
=============================================================================
