---------------------------- MODULE EditorPanel ----------------------------
(***************************************************************************)
(* The write screen of one project in one browser tab: WritePanel.tsx with *)
(* the dialogs it opens (DiffView.tsx, ProofreadPanel.tsx), the stream     *)
(* reader of lib/api.ts, the activity list of lib/llmActivity.tsx and the  *)
(* voice input of lib/useVoiceInput.ts.                                    *)
(*                                                                         *)
(* JavaScript runs one callback at a time, so an action is one callback up *)
(* to its next await.  What a callback reads after an await is what was    *)
(* rendered when it started: a call in flight carries that closure.  The   *)
(* dialogs cover the screen but take no focus away from it, so that the    *)
(* keyboard reaches every control while one is open.                       *)
(*                                                                         *)
(* A text is the set of the pieces it is made of: enough to tell which     *)
(* writing is in it and which has been lost.  On the server a handler is   *)
(* one step here; EpisodeStore has its inside.                             *)
(***************************************************************************)
EXTENDS Integers, Sequences, FiniteSets

CONSTANTS
    Eps,        \* ids of episodes, in the order of the list
    None,       \* null
    MaxDiffs,   \* the largest number of corrections of one proofreading
    Gens,       \* names of the runs of the proofreading effect
    Mixes       \* what the writer does and how often, as below

Ops == {"type", "voice", "select", "save", "restore", "docx", "create", "ai", "adopt", "check", "leave"}

\* One mix: the episodes that exist at the start, what the writer does, whether
\* he finishes one thing before he starts another (careful), whether calls may
\* fail, and the bounds on the pieces he writes, on the calls, on the AI runs
\* and on the proofreading streams open at the same time.  Only a careful writer
\* starts with a project without episodes: a late empty list would take the
\* episode and the panel off the screen until the next list brings them back.
Mix == [initial : SUBSET Eps, ops : SUBSET Ops, careful : BOOLEAN, fails : BOOLEAN,
        typed : Nat, calls : Nat, runs : Nat, checks : Nat]

ASSUME EpsAssumption == Eps \subseteq Nat /\ IsFiniteSet(Eps) /\ None \notin Eps
ASSUME MixesAssumption == Mixes \subseteq Mix /\ \A m \in Mixes : m.initial = {} => m.careful
\* There is always a name left: every call and every piece of voice input can start
\* a check over once, a click in the list only below the bound on the streams.
ASSUME GensAssumption ==
    /\ MaxDiffs \in Nat
    /\ IsFiniteSet(Gens)
    /\ \A m \in Mixes : m.checks + m.typed + m.calls + 2 < Cardinality(Gens)

VARIABLES
    mix,        \* the mix of this behaviour; it never changes
    stored,     \* stored[k]: the text of the row on the server; its domain are the rows
    history,    \* history[k]: the texts of its revisions
    mounted,    \* the screen is shown
    es,         \* es[k]: the text of the list's copy of episode k
    e,          \* the episode in the editor: its id and text, or None
    busy,
    calls,      \* the calls in flight
    called,     \* number of calls so far
    written,    \* number of pieces written so far
    runs,       \* the AI streams in the order they were started
    ai,         \* the AI result on the screen, or None
    items,      \* the streams the activity list shows
    activity,   \* activityRef: the stream it refers to, or None
    diff,       \* diffTarget: the text before and the proposal, or None
    panel,      \* the open ProofreadPanel, or None
    checks,     \* the proofreading streams
    voice       \* the recognition: the closure it was started with, or None

server == <<stored, history>>
stream == <<runs, ai, items, activity>>
check == <<panel, checks>>
vars == <<mix, server, mounted, es, e, busy, calls, called, written, stream, diff, check, voice>>

Piece == [kind : {"old", "typed", "word", "ai", "fix"}, ep : Eps, n : Nat]
Text == SUBSET Piece

ThePiece(kind, k, n) == [kind |-> kind, ep |-> k, n |-> n]
Typed(x) == {p \in x : p.kind = "typed"}

Shown == [ep : Eps, text : Text]
IsList(l) == DOMAIN l \subseteq Eps /\ l \in [DOMAIN l -> Text]

\* A call that writes an episode, with the text it asks for, the list of its closure,
\* and the text in the editor when it was sent, which may have been saved or not.
Write(list) == [kind : {"save", "restore", "docx"}, ep : Eps, text : Text, list : {list},
                shown : Text, saved : BOOLEAN, done : BOOLEAN]
Other(list) == [kind : {"load", "create"}, list : {list}, done : BOOLEAN]

Result == [run : Nat, text : Text]
Comparison == [before : Text, after : Text]
Panel == [ep : Eps, gen : Gens, checked : Text, working : Text, loading : BOOLEAN,
          failed : BOOLEAN, diffs : 0..MaxDiffs, index : 0..MaxDiffs]
Recognition == [base : Shown, heard : Text, on : BOOLEAN]

ASSUME NoneAssumption ==
    /\ None \notin Shown /\ None \notin Result /\ None \notin Comparison
    /\ None \notin Panel /\ None \notin Recognition

TypeOK ==
    /\ mix \in Mixes
    /\ IsList(stored) /\ IsList(es)
    /\ history \in [Eps -> SUBSET Text]
    /\ mounted \in BOOLEAN
    /\ e = None \/ e \in Shown
    /\ busy \in BOOLEAN
    /\ \A c \in calls : IsList(c.list) /\ c \in Write(c.list) \cup Other(c.list)
    /\ called \in 0..mix.calls
    /\ written \in 0..mix.typed
    /\ runs \in Seq([ep : Eps, state : {"live", "aborted", "over"}]) /\ Len(runs) <= mix.runs
    /\ ai = None \/ ai \in Result
    /\ items \subseteq DOMAIN runs
    /\ activity \in DOMAIN runs \cup {None}
    /\ diff = None \/ diff \in Comparison
    /\ panel = None \/ panel \in Panel
    /\ checks \subseteq [gen : Gens, attempt : {0, 1}, aborted : BOOLEAN]
    /\ voice = None \/ voice \in Recognition

Nothing == [k \in {} |-> {}]
Load == [kind |-> "load", list |-> Nothing, done |-> FALSE]

\* The screen has been mounted and has asked for the list; every episode has a
\* text and an older version.
Init ==
    /\ mix \in Mixes
    /\ stored = [k \in mix.initial |-> {ThePiece("old", k, 0)}]
    /\ history = [k \in Eps |-> IF k \in mix.initial THEN {{}} ELSE {}]
    /\ mounted = TRUE
    /\ es = Nothing
    /\ e = None
    /\ busy = FALSE
    /\ calls = {Load}
    /\ called = 0
    /\ written = 0
    /\ runs = <<>>
    /\ ai = None
    /\ items = {}
    /\ activity = None
    /\ diff = None
    /\ panel = None
    /\ checks = {}
    /\ voice = None

-----------------------------------------------------------------------------
(***************************************************************************)
(* Helpers.                                                                *)
(***************************************************************************)

\* The id of the first episode of a list.
FirstOf(list) == CHOOSE k \in DOMAIN list : \A j \in DOMAIN list : k <= j

\* The stream of one run of the proofreading effect is aborted.
AbortCheck(gen) == {IF s.gen = gen THEN [s EXCEPT !.aborted = TRUE] ELSE s : s \in checks}

\* The panel is closed: unmounting it executes the cleanup.
Unmounted == panel' = None /\ checks' = IF panel = None THEN checks ELSE AbortCheck(panel.gen)

\* A name that no run of the effect is using.
FreeGen == CHOOSE g \in Gens : (panel # None => panel.gen # g) /\ \A s \in checks : s.gen # g

FirstTry(gen) == [gen |-> gen, attempt |-> 0, aborted |-> FALSE]

\* setE: the effect of an open ProofreadPanel depends on the id of the episode;
\* when it changes the check is started over, with the text, the corrections
\* and the index it has.
Show(x) ==
    /\ e' = x
    /\ IF panel # None /\ panel.ep # x.ep
       THEN LET g == FreeGen IN
            /\ panel' = [panel EXCEPT !.ep = x.ep, !.gen = g, !.loading = TRUE, !.failed = FALSE]
            /\ checks' = AbortCheck(panel.gen) \cup {FirstTry(g)}
       ELSE UNCHANGED check

\* The cleanup of a run of the effect has been executed.
Cancelled(gen) == panel # None => panel.gen # gen

\* A reference that aborts nothing.
FaultyAbortedRuns == runs

\* cancelStreamRef: it aborts the stream started last.
AbortedRuns ==
    IF runs # <<>> /\ runs[Len(runs)].state = "live"
    THEN [runs EXCEPT ![Len(runs)].state = "aborted"]
    ELSE runs

\* Nothing is under way: no call, no stream, no dialog, no recognition.
Settled ==
    /\ calls = {} /\ voice = None /\ diff = None /\ panel = None
    /\ \A r \in DOMAIN runs : runs[r].state = "over"

\* The writer may use this control.
May(op) ==
    /\ mounted
    /\ op \in mix.ops
    /\ mix.careful => Settled

Started(c) == calls' = calls \cup {c} /\ called < mix.calls /\ called' = called + 1

-----------------------------------------------------------------------------
(***************************************************************************)
(* Writing and choosing.                                                   *)
(***************************************************************************)

\* The writer types into the body.
Type ==
    /\ May("type")
    /\ e # None
    /\ written < mix.typed
    /\ Show([e EXCEPT !.text = @ \cup {ThePiece("typed", e.ep, written)}])
    /\ written' = written + 1
    /\ UNCHANGED <<mix, server, mounted, es, busy, calls, called, stream, diff, voice>>

\* A click in the list: the list's copy is shown, whatever was typed.
Select(k) ==
    /\ May("select")
    /\ mix.careful => ai = None
    /\ k \in DOMAIN es
    /\ panel # None => Cardinality(checks) < mix.checks
    /\ Show([ep |-> k, text |-> es[k]])
    /\ UNCHANGED <<mix, server, mounted, es, busy, calls, called, written, stream, diff, voice>>

\* toggle: a recognition is started; it calls back the closure of this render.
VoiceStart ==
    /\ May("voice")
    /\ e # None
    /\ voice = None
    /\ voice' = [base |-> e, heard |-> {}, on |-> TRUE]
    /\ UNCHANGED <<mix, server, mounted, es, e, busy, calls, called, written, stream, diff, check>>

VoiceStop ==
    /\ mounted
    /\ voice # None
    /\ voice.on
    /\ voice' = [voice EXCEPT !.on = FALSE]
    /\ UNCHANGED <<mix, server, mounted, es, e, busy, calls, called, written, stream, diff, check>>

\* onresult: everything heard so far is inserted into the text of the closure.
VoiceResult ==
    /\ voice # None
    /\ written < mix.typed
    /\ LET heard == voice.heard \cup {ThePiece("typed", voice.base.ep, written)} IN
       /\ voice' = [voice EXCEPT !.heard = heard]
       /\ IF mounted
          THEN Show([voice.base EXCEPT !.text = @ \cup heard])
          ELSE UNCHANGED <<e, check>>
    /\ written' = written + 1
    /\ UNCHANGED <<mix, server, mounted, es, busy, calls, called, stream, diff>>

\* onend or onerror.
VoiceEnd ==
    /\ voice # None
    /\ voice' = None
    /\ UNCHANGED <<mix, server, mounted, es, e, busy, calls, called, written, stream, diff, check>>

-----------------------------------------------------------------------------
(***************************************************************************)
(* Calls.                                                                  *)
(***************************************************************************)

WriteCall(kind, text) ==
    [kind |-> kind, ep |-> e.ep, text |-> text, list |-> es, shown |-> e.text,
     saved |-> e.text = stored[e.ep], done |-> FALSE]

Saved(c) ==
    /\ May("save")
    /\ e # None
    /\ Started(c)
    /\ busy' = TRUE
    /\ UNCHANGED <<mix, server, mounted, es, e, written, stream, diff, check, voice>>

\* A save of the copy in the list, and one under the id of the first episode.
FaultySave == Saved(WriteCall("save", es[e.ep]))

FaultySaveFirst == Saved([WriteCall("save", e.text) EXCEPT !.ep = FirstOf(es)])

\* save: the text of the editor is sent under the id of its episode.
Save == Saved(WriteCall("save", e.text))

\* restoreRevision, one of the versions of the history being chosen, and
\* handleDocxImportFile, both after the writer has confirmed.
Restore ==
    /\ May("restore")
    /\ e # None
    /\ \E version \in history[e.ep] : Started(WriteCall("restore", version))
    /\ UNCHANGED <<mix, server, mounted, es, e, busy, written, stream, diff, check, voice>>

DocxImport ==
    /\ May("docx")
    /\ e # None
    /\ Started(WriteCall("docx", {ThePiece("word", e.ep, 0)}))
    /\ UNCHANGED <<mix, server, mounted, es, e, busy, written, stream, diff, check, voice>>

\* createArticle: the new episode is posted, then the list is loaded again.
CreateArticle ==
    /\ May("create")
    /\ mix.careful => ai = None
    /\ DOMAIN stored # Eps
    /\ Started([Load EXCEPT !.kind = "create"])
    /\ UNCHANGED <<mix, server, mounted, es, e, busy, written, stream, diff, check, voice>>

Done(c) == calls' = (calls \ {c}) \cup {[c EXCEPT !.done = TRUE]}

\* A restore that keeps no version of the text it replaces.
FaultyKeepsRevision(c) == c.text # stored[c.ep] /\ c.kind # "restore"

\* episode_put and the import keep a revision when the text differs, a restore
\* always.
KeepsRevision(c) == c.text # stored[c.ep] \/ c.kind = "restore"

\* The server handles a call: it writes the episode, adds one or reads the list.
Serve(c) ==
    /\ ~c.done
    /\ \/ /\ c.kind \in {"save", "restore", "docx"}
          /\ stored' = [stored EXCEPT ![c.ep] = c.text]
          /\ history' = IF KeepsRevision(c)
                        THEN [history EXCEPT ![c.ep] = @ \cup {stored[c.ep]}]
                        ELSE history
          /\ Done(c)
       \/ /\ c.kind = "create"
          /\ DOMAIN stored # Eps
          /\ LET new == CHOOSE k \in Eps : k \notin DOMAIN stored IN
             stored' = [k \in DOMAIN stored \cup {new} |-> IF k = new THEN {} ELSE stored[k]]
          /\ Done(c)
          /\ UNCHANGED history
       \/ /\ c.kind = "load"
          /\ calls' = (calls \ {c}) \cup {[c EXCEPT !.done = TRUE, !.list = stored]}
          /\ UNCHANGED server
    /\ UNCHANGED <<mix, mounted, es, e, busy, called, written, stream, diff, check, voice>>

\* A list that does not get the response.
FaultyListWith(c) == es

\* es.map of the closure: the list it knows with the response in it.
ListWith(c) == [k \in DOMAIN c.list |-> IF k = c.ep THEN c.text ELSE c.list[k]]

\* The response of a write replaces what the editor shows, and the list.
AnswerWrite(c) ==
    /\ c.kind \in {"save", "restore", "docx"}
    /\ Show([ep |-> c.ep, text |-> c.text])
    /\ es' = ListWith(c)
    /\ busy' = IF c.kind = "save" THEN FALSE ELSE busy
    /\ calls' = calls \ {c}

\* load shows the first episode of the list, if there is one; without an episode
\* the panel is not there either.
AnswerLoad(c) ==
    /\ c.kind = "load"
    /\ es' = c.list
    /\ IF c.list = Nothing
       THEN e' = None /\ Unmounted
       ELSE Show([ep |-> FirstOf(c.list), text |-> c.list[FirstOf(c.list)]])
    /\ calls' = calls \ {c}
    /\ UNCHANGED busy

\* A new article that is shown before the list with its id is there.
FaultyAnswerCreate(c) ==
    /\ c.kind = "create"
    /\ calls' = (calls \ {c}) \cup {Load}
    /\ Show([ep |-> None, text |-> {}])
    /\ UNCHANGED <<es, busy>>

\* After the post of createArticle the list is loaded.
AnswerCreate(c) ==
    /\ c.kind = "create"
    /\ calls' = (calls \ {c}) \cup {Load}
    /\ UNCHANGED <<es, e, busy, check>>

\* A response arrives; after the screen has gone its setters do nothing.
Answer(c) ==
    /\ c.done
    /\ \/ mounted /\ (AnswerWrite(c) \/ AnswerLoad(c))
       \/ AnswerCreate(c)
       \/ /\ ~mounted /\ c.kind # "create"
          /\ calls' = calls \ {c}
          /\ UNCHANGED <<es, e, busy, check>>
    /\ UNCHANGED <<mix, server, mounted, called, written, stream, diff, voice>>

\* A failing save that leaves the screen busy.
FaultyFail(c) ==
    /\ mix.fails
    /\ calls' = calls \ {c}
    /\ UNCHANGED <<mix, server, mounted, es, e, busy, called, written, stream, diff, check, voice>>

\* A call fails, before or after the server has handled it: api throws, and of
\* the handler only the finally of save is executed.
Fail(c) ==
    /\ mix.fails
    /\ calls' = calls \ {c}
    /\ busy' = IF c.kind = "save" THEN FALSE ELSE busy
    /\ UNCHANGED <<mix, server, mounted, es, e, called, written, stream, diff, check, voice>>

-----------------------------------------------------------------------------
(***************************************************************************)
(* The AI stream.                                                          *)
(***************************************************************************)

\* aiRun: the previous stream is aborted and taken off the activity list, and a
\* new one is started for the open episode.
AiRun ==
    /\ May("ai")
    /\ e # None
    /\ Len(runs) < mix.runs
    /\ runs' = Append(AbortedRuns, [ep |-> e.ep, state |-> "live"])
    /\ items' = (items \ {activity}) \cup {Len(runs) + 1}
    /\ activity' = Len(runs) + 1
    /\ ai' = None
    /\ busy' = TRUE
    /\ UNCHANGED <<mix, server, mounted, es, e, calls, called, written, diff, check, voice>>

\* onMessage: the text so far, which may repeat the stored text of the episode
\* the run was started for, or the error the server reports, which is shown and
\* used like a text.
AiMessage(r) ==
    /\ runs[r].state = "live"
    /\ mounted
    /\ LET k == runs[r].ep IN
       \E repeated \in {{}, stored[k]} :
          ai' = [run |-> r, text |-> {ThePiece("ai", k, r)} \cup repeated]
    /\ UNCHANGED <<mix, server, mounted, es, e, busy, calls, called, written, runs, items, activity, diff,
                   check, voice>>

\* The end of a stream that clears the reference but not the activity.
FaultyAiOver(r) ==
    /\ runs[r].state # "over"
    /\ runs' = [runs EXCEPT ![r].state = "over"]
    /\ items' = IF activity = r THEN items ELSE items \ {r}
    /\ activity' = IF activity = r THEN None ELSE activity
    /\ busy' = FALSE
    /\ UNCHANGED <<mix, server, mounted, es, e, calls, called, written, ai, diff, check, voice>>

\* streamSSE calls onDone once, whether the stream has ended, failed or been
\* aborted.
AiOver(r) ==
    /\ runs[r].state # "over"
    /\ runs' = [runs EXCEPT ![r].state = "over"]
    /\ items' = items \ {r}
    /\ activity' = IF activity = r THEN None ELSE activity
    /\ busy' = FALSE
    /\ UNCHANGED <<mix, server, mounted, es, e, calls, called, written, ai, diff, check, voice>>

\* The cancel button of the progress dialog.
Cancel ==
    /\ items # {}
    /\ runs' = AbortedRuns
    /\ UNCHANGED <<mix, server, mounted, es, e, busy, calls, called, written, ai, items, activity, diff,
                   check, voice>>

\* The buttons below a result, which is shown while it arrives.
MayAdopt ==
    /\ mounted
    /\ "adopt" \in mix.ops
    /\ mix.careful => calls = {} /\ voice = None
    /\ e # None
    /\ ai # None

\* "append": the result is added to the text in the editor.
Adopt ==
    /\ MayAdopt
    /\ Show([e EXCEPT !.text = @ \cup ai.text])
    /\ ai' = None
    /\ UNCHANGED <<mix, server, mounted, es, busy, calls, called, written, runs, items, activity, diff, voice>>

\* openDiffAgainstAi.
OpenDiff ==
    /\ MayAdopt
    /\ diff' = [before |-> e.text, after |-> ai.text]
    /\ UNCHANGED <<mix, server, mounted, es, e, busy, calls, called, written, stream, check, voice>>

CloseDiff ==
    /\ mounted
    /\ diff # None
    /\ diff' = None
    /\ UNCHANGED <<mix, server, mounted, es, e, busy, calls, called, written, stream, check, voice>>

\* apply and applyDiff: what is in both texts and the additions that are
\* accepted become the text of the episode in the editor.
ApplyDiff ==
    /\ mounted
    /\ diff # None
    /\ e # None
    /\ \E accepted \in SUBSET (diff.after \ diff.before) :
          Show([e EXCEPT !.text = (diff.before \cap diff.after) \cup accepted])
    /\ diff' = None
    /\ ai' = None
    /\ UNCHANGED <<mix, server, mounted, es, busy, calls, called, written, runs, items, activity, voice>>

-----------------------------------------------------------------------------
(***************************************************************************)
(* Proofreading.                                                           *)
(***************************************************************************)

\* The panel is mounted with the text of the editor and starts its check.
OpenPanel ==
    /\ May("check")
    /\ e # None
    /\ panel = None
    /\ Cardinality(checks) < mix.checks
    /\ LET g == FreeGen IN
       /\ panel' = [ep |-> e.ep, gen |-> g, checked |-> e.text, working |-> e.text, loading |-> TRUE,
                    failed |-> FALSE, diffs |-> 0, index |-> 0]
       /\ checks' = checks \cup {FirstTry(g)}
    /\ UNCHANGED <<mix, server, mounted, es, e, busy, calls, called, written, stream, diff, voice>>

\* A stream whose cancellation is looked at only when its corrections come.
FaultyDropped(s) ==
    /\ Cancelled(s.gen)
    /\ checks' = (checks \ {s}) \cup {c \in {[s EXCEPT !.attempt = 1, !.aborted = FALSE]} : s.attempt = 0}
    /\ UNCHANGED panel

\* Nothing is done if the effect has been cleaned up.
Dropped(s) ==
    /\ Cancelled(s.gen)
    /\ checks' = checks \ {s}
    /\ UNCHANGED panel

\* The corrections have come; they are corrections of the text that was checked.
Corrected(s) ==
    /\ ~Cancelled(s.gen)
    /\ \E n \in 0..(IF panel.checked = {} THEN 0 ELSE MaxDiffs) :
          panel' = [panel EXCEPT !.diffs = n, !.loading = FALSE]
    /\ checks' = checks \ {s}

\* A retry that takes back the count of the one before.
FaultyRetried(s) ==
    /\ ~Cancelled(s.gen)
    /\ checks' = (checks \ {s}) \cup {[s EXCEPT !.attempt = 1 - @, !.aborted = FALSE]}
    /\ panel' = [panel EXCEPT !.loading = TRUE, !.failed = FALSE]

\* They have not come at the first attempt: one silent retry.
Retried(s) ==
    /\ ~Cancelled(s.gen)
    /\ s.attempt = 0
    /\ checks' = (checks \ {s}) \cup {[s EXCEPT !.attempt = 1, !.aborted = FALSE]}
    /\ panel' = [panel EXCEPT !.loading = TRUE, !.failed = FALSE]

Failed(s) ==
    /\ ~Cancelled(s.gen)
    /\ s.attempt = 1
    /\ checks' = checks \ {s}
    /\ panel' = [panel EXCEPT !.failed = TRUE, !.loading = FALSE]

\* onDone of a proofreading stream.
CheckOver(s) ==
    /\ Dropped(s) \/ Corrected(s) \/ Retried(s) \/ Failed(s)
    /\ UNCHANGED <<mix, server, mounted, es, e, busy, calls, called, written, stream, diff, voice>>

ClosePanel ==
    /\ mounted
    /\ panel # None
    /\ Unmounted
    /\ UNCHANGED <<mix, server, mounted, es, e, busy, calls, called, written, stream, diff, voice>>

\* applyCurrent and skipCurrent: a correction replaces the text it is about if
\* that is still there; after the last one the panel's text becomes the text of
\* the episode in the editor.
Review ==
    /\ mounted
    /\ panel # None /\ e # None
    /\ ~panel.failed
    /\ panel.diffs > 0
    /\ panel.loading \/ panel.index < panel.diffs
    /\ \E working \in {panel.working} \cup
              {(panel.working \ {p}) \cup {ThePiece("fix", p.ep, 0)} :
                  p \in IF panel.index < panel.diffs THEN panel.checked \cap panel.working ELSE {}} :
          IF panel.index + 1 >= panel.diffs
          THEN e' = [e EXCEPT !.text = working] /\ Unmounted
          ELSE /\ panel' = [panel EXCEPT !.working = working, !.index = @ + 1]
               /\ UNCHANGED <<e, checks>>
    /\ UNCHANGED <<mix, server, mounted, es, busy, calls, called, written, stream, diff, voice>>

-----------------------------------------------------------------------------

\* Another section is chosen: the screen and its dialogs are unmounted.
Leave ==
    /\ mounted
    /\ "leave" \in mix.ops
    /\ mounted' = FALSE
    /\ runs' = AbortedRuns
    /\ items' = items \ {activity}
    /\ Unmounted
    /\ UNCHANGED <<mix, server, es, e, busy, calls, called, written, ai, activity, diff, voice>>

Edit == Type \/ (\E k \in Eps : Select(k)) \/ VoiceStart \/ VoiceStop \/ VoiceResult \/ VoiceEnd
Ask == Save \/ Restore \/ DocxImport \/ CreateArticle
Dialogs == AiRun \/ Cancel \/ Adopt \/ OpenDiff \/ CloseDiff \/ ApplyDiff \/ OpenPanel \/ ClosePanel \/ Review
Network == \E c \in calls : Serve(c) \/ Answer(c) \/ Fail(c)

Next ==
    \/ Edit \/ Ask \/ Dialogs \/ Leave
    \/ Network
    \/ \E r \in DOMAIN runs : AiMessage(r) \/ AiOver(r)
    \/ \E s \in checks : CheckOver(s)

Spec == Init /\ [][Next]_vars

\* Every stream ends, because the server ends it or the connection fails, and
\* every call is answered or fails.  The writer owes nothing.
FairSpec ==
    /\ Spec
    /\ WF_vars(Network)
    /\ \A r \in UNION {1..m.runs : m \in Mixes} : WF_vars(r \in DOMAIN runs /\ AiOver(r))
    /\ WF_vars(\E s \in checks : CheckOver(s))

-----------------------------------------------------------------------------
(***************************************************************************)
(* Properties.                                                             *)
(***************************************************************************)

\* The result on the screen comes from the run started last, however late the
\* events of an earlier one are.
AiOfLatestRun == ai # None => ai.run = Len(runs)

\* No AI stream runs unseen: a live stream is the one the cancel button aborts,
\* the progress dialog shows it, and the screen it writes to is there.
NoHiddenStream ==
    /\ \A r \in DOMAIN runs : runs[r].state = "live" => r = Len(runs) /\ r \in items /\ mounted
    /\ \A r \in items : runs[r].state # "over"

\* The screen is not left busy, with its tools disabled, when nothing is under
\* way any more.
IdleIsNotBusy ==
    busy /\ mounted =>
        \/ \E c \in calls : c.kind = "save"
        \/ \E r \in DOMAIN runs : runs[r].state # "over"

\* A proofreading stream that is not aborted belongs to the panel that is open:
\* the retry never outlives the panel.
NoUnownedCheck ==
    \A s \in checks : ~s.aborted => panel # None /\ panel.gen = s.gen

\* Whatever runs belongs to something on the screen, and the screen waits for
\* nothing else.
StreamsAreOwned == AiOfLatestRun /\ NoHiddenStream /\ NoUnownedCheck /\ IdleIsNotBusy

\* What a careful writer types into one episode never reaches another.
TypedStaysInItsEpisode ==
    mix.careful =>
        /\ \A k \in DOMAIN stored : \A p \in Typed(stored[k]) : p.ep = k
        /\ e # None => \A p \in Typed(e.text) : p.ep = e.ep

\* For a careful writer whose calls are answered the list has the text of every row
\* whenever nothing is under way, so that selecting an episode shows its text.
ListInStep ==
    mix.careful /\ ~mix.fails /\ mounted /\ Settled => es = stored

Discards(c) == c.kind \in {"load", "restore", "docx"}

\* What a careful writer has typed leaves the editor only by what he asked for:
\* another episode, another version, a document, or a text he has reviewed.
NothingTypedVanishes ==
    [][mix.careful /\ e # None /\ ~(Typed(e.text) \subseteq Typed(e'.text)) =>
          \/ e'.ep # e.ep
          \/ e'.text = es[e.ep] /\ calls' = calls
          \/ \E c \in calls \ calls' : Discards(c)
          \/ diff # diff'
          \/ panel # panel']_vars

Replacing == {c \in calls : c.kind \in {"restore", "docx"} /\ c.done}

\* "restoring itself snapshots the version you're leaving": the text that was in
\* the editor when a restore was confirmed is in the history after it.
RestoreIsUndoable ==
    \A c \in Replacing : c.kind = "restore" => c.shown \in history[c.ep]

\* That holds of a text that had been saved, whatever other calls come between:
\* after the import or restore it is in the history or still stored.
SavedTextIsUndoable ==
    \A c \in Replacing : c.saved => c.shown \in history[c.ep] \cup {stored[c.ep]}

\* The progress dialog of an AI run closes, and a proofreading check that is not
\* disturbed ends, with corrections or with the failure.
DialogsEnd ==
    /\ items # {} ~> items = {}
    /\ mix.careful /\ panel # None /\ panel.loading ~> panel = None \/ ~panel.loading
=============================================================================
