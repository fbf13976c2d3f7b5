------------------------------ MODULE WriteSide ------------------------------
(***************************************************************************)
(* What the writing screen shows beside the text that EditorPanel models:  *)
(* the list with the form for a new article, the sources of an episode,    *)
(* its history and the comparison with an older text, in WritePanel.tsx,   *)
(* with the handlers of main.py.  Titles and templates are left out.       *)
(*                                                                         *)
(* Revision n of an episode k is <<k, n>>: a row belongs to one episode.   *)
(***************************************************************************)
EXTENDS MaterialsPanel

CONSTANT MaxSources     \* bound on the sources added

FreshWrite ==
    [kind |-> "write", list |-> {}, last |-> 0, form |-> FALSE, episode |-> None, sources |-> {}, typed |-> FALSE, open |-> FALSE,
     history |-> None, diff |-> None, checklist |-> FALSE]
WriteCalls == <<Call("episodes", None)>>

OnWrite == panel.kind = "write"
OnEpisode == OnWrite /\ panel.episode # None

\* The effect of [e?.id].
SourceCalls(k) == <<Call("sources", k)>>

\* The button of an episode: the panels that are open stay open.
SelectEpisode(k) ==
    /\ OnEpisode
    /\ k \in panel.list \ {panel.episode}
    /\ User("select")
    /\ panel' = [panel EXCEPT !.episode = k]
    /\ Send(SourceCalls(k))
    /\ UNCHANGED <<db, llm>>

\* openNewArticle and its Cancel button, which the answer of an earlier post works like.
NewArticleForm ==
    /\ OnEpisode
    /\ User("form")
    /\ panel' = [panel EXCEPT !.form = ~@]
    /\ UNCHANGED <<calls, db, llm>>

\* createArticle numbers the article after the last one of the list it has loaded; the
\* button answers to every click.
PostArticle ==
    /\ OnEpisode
    /\ panel.form
    /\ Len(db.numbers) < MaxRows
    /\ User("new article")
    /\ Send(<<Call("new article", panel.last + 1)>>)
    /\ UNCHANGED <<panel, db, llm>>

\* addSource takes what is typed; the form is cleared with the answer.
AddSource ==
    /\ User("source")
    /\ \/ ~panel.typed /\ panel' = [panel EXCEPT !.typed = TRUE] /\ UNCHANGED calls
       \/ panel.typed /\ Len(db.sources) < MaxSources /\ Send(<<Call("source", panel.episode)>>) /\ UNCHANGED panel
    /\ UNCHANGED <<db, llm>>

RemoveSource(s) ==
    /\ s \in panel.sources
    /\ User("unsource")
    /\ Send(<<Call("unsource", [id |-> s, ep |-> panel.episode])>>)
    /\ UNCHANGED <<panel, db, llm>>

\* The panel of the sources, by its button.
SourcesPanel ==
    /\ OnEpisode
    /\ \/ User("sources") /\ panel' = [panel EXCEPT !.open = ~@] /\ UNCHANGED <<calls, db, llm>>
       \/ panel.open /\ (AddSource \/ \E s \in DOMAIN db.sources : RemoveSource(s))

OpenHistory ==
    /\ OnEpisode
    /\ User("history")
    /\ Send(<<Call("revisions", panel.episode)>>)
    /\ UNCHANGED <<panel, db, llm>>

\* compareRevision asks for a revision of the episode that is open now.
CompareRevision(r) ==
    /\ r \in panel.history
    /\ User("compare")
    /\ Send(<<Call("revision", [row |-> r, ep |-> panel.episode])>>)
    /\ UNCHANGED <<panel, db, llm>>

HistoryPanel ==
    /\ OnEpisode
    /\ panel.history # None
    /\ \/ User("history") /\ panel' = [panel EXCEPT !.history = None] /\ UNCHANGED <<calls, db, llm>>
       \/ \E r \in (DOMAIN db.texts) \X {1} : CompareRevision(r)

Checklist ==
    /\ OnEpisode
    /\ User("checklist")
    /\ panel' = [panel EXCEPT !.checklist = ~@]
    /\ UNCHANGED <<calls, db, llm>>

\* What the last line of the checklist says.
SourceGiven == panel.sources # {}

\* A source is its place in the sequence of the episodes they were added to; 0
\* stands for one that was deleted.
SourcesOf(k) == {s \in DOMAIN db.sources : db.sources[s] = k}

\* Mutant: a revision is looked up by its id alone.
FaultyOfEpisode(c) == TRUE

\* episode_revision_get finds a revision only under the episode it belongs to.
OfEpisode(c) == c.row[1] = c.ep

WriteServed(i) ==
    /\ \/ Arrives(i, "source") /\ Serve(i, None) /\ db' = [db EXCEPT !.sources = Append(@, Arg(i))]
       \/ /\ Arrives(i, "unsource")
          /\ IF db.sources[Arg(i).id] = 0 THEN Refuse(i) /\ UNCHANGED db
             ELSE Serve(i, None) /\ db' = [db EXCEPT !.sources[Arg(i).id] = 0]
       \/ Arrives(i, "new article") /\ Serve(i, None) /\ db' = EpisodeAdded(Arg(i))
       \/ /\ UNCHANGED db
          /\ \/ Arrives(i, "episodes") /\ Serve(i, EpisodesListed)
             \/ Arrives(i, "sources") /\ Serve(i, SourcesOf(Arg(i)))
             \/ Arrives(i, "revisions") /\ Serve(i, {Arg(i)} \X {1})
             \/ Arrives(i, "revision") /\ IF OfEpisode(Arg(i)) THEN Serve(i, None) ELSE Refuse(i)
    /\ UNCHANGED <<acts, panel, llm>>

\* load shows the first of the list, whatever was open; its sources are loaded when
\* that was another one.
EpisodesLoaded(i) ==
    /\ Returned(i, "episodes")
    /\ IF calls[i].live
       THEN LET first == CHOOSE k \in Ans(i) : \A j \in Ans(i) \ {k} : Before(k, j) IN
            /\ panel' = [panel EXCEPT !.list = Ans(i), !.last = LastNumber(Ans(i)), !.episode = first]
            /\ Continue(i, IF first = panel.episode THEN <<>> ELSE SourceCalls(first))
       ELSE UNCHANGED panel /\ Continue(i, <<>>)
    /\ UNCHANGED <<acts, db, llm>>

ArticlePosted(i) ==
    /\ Returned(i, "new article")
    /\ panel' = IF calls[i].live THEN [panel EXCEPT !.form = FALSE] ELSE panel
    /\ Continue(i, <<[Call("episodes", None) EXCEPT !.live = calls[i].live]>>)
    /\ UNCHANGED <<acts, db, llm>>

\* The last answer to arrive is shown, whichever episode it is about.
SourcesLoaded(i) ==
    /\ Returned(i, "sources")
    /\ panel' = IF calls[i].live THEN [panel EXCEPT !.sources = Ans(i)] ELSE panel
    /\ Continue(i, <<>>)
    /\ UNCHANGED <<acts, db, llm>>

\* The sources of the episode that was open at the click are loaded again.
SourceChanged(i) ==
    /\ Returned(i, "source") \/ Returned(i, "unsource")
    /\ LET added == calls[i].op = "source"
           k == IF added THEN Arg(i) ELSE Arg(i).ep IN
       /\ panel' = IF calls[i].live /\ added THEN [panel EXCEPT !.typed = FALSE] ELSE panel
       /\ Continue(i, <<[Call("sources", k) EXCEPT !.live = calls[i].live]>>)
    /\ UNCHANGED <<acts, db, llm>>

HistoryShown(i) ==
    /\ Returned(i, "revisions")
    /\ panel' = IF calls[i].live THEN [panel EXCEPT !.history = Ans(i)] ELSE panel
    /\ Continue(i, <<>>)
    /\ UNCHANGED <<acts, db, llm>>

\* The older text beside that of the episode that was open at the click.
Compared(i) ==
    /\ Returned(i, "revision")
    /\ panel' = IF calls[i].live THEN [panel EXCEPT !.diff = Arg(i)] ELSE panel
    /\ Continue(i, <<>>)
    /\ UNCHANGED <<acts, db, llm>>

WriteThrown(i) ==
    /\ \E op \in {"episodes", "sources", "source", "unsource", "revisions", "revision", "new article"} : Thrown(i, op)
    /\ Continue(i, <<>>)
    /\ UNCHANGED <<acts, panel, db, llm>>

WriteNext ==
    \/ \E k \in DOMAIN db.texts : SelectEpisode(k)
    \/ NewArticleForm \/ PostArticle \/ SourcesPanel \/ OpenHistory \/ HistoryPanel \/ Checklist
    \/ \E i \in DOMAIN calls : \/ WriteServed(i) \/ EpisodesLoaded(i) \/ ArticlePosted(i) \/ SourcesLoaded(i) \/ SourceChanged(i)
                               \/ HistoryShown(i) \/ Compared(i) \/ WriteThrown(i)

-----------------------------------------------------------------------------
\* A comparison never puts a text of one episode beside that of another one, not
\* even while the list of an earlier episode is still on the screen.
ComparesOneEpisode == OnWrite /\ panel.diff # None => panel.diff.row[1] = panel.diff.ep

\* Part of ScreensInStep: the list has every episode while they fit into one page, and
\* the sources are those of the open one.
WriteInStep ==
    /\ OnEpisode => panel.sources = SourcesOf(panel.episode)
    /\ OnEpisode /\ Len(db.numbers) <= ListLimit => panel.list = DOMAIN db.numbers
=============================================================================
