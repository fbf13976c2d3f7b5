--------------------------- MODULE MaterialsPanel ---------------------------
(***************************************************************************)
(* The materials screen: MaterialsPanel.tsx with the handlers of memos,    *)
(* templates and drafts.  Its tabs are components of their own, which are  *)
(* unmounted when another tab is chosen; a call to the AI goes on and      *)
(* keeps its place in the activity list until it ends.                     *)
(***************************************************************************)
EXTENDS LlmActivity

CONSTANT MaxRows    \* bound on the memos, templates and episodes made

Tabs == {"research", "summarize", "memos", "templates"}
AiTabs == {"research", "summarize"}

\* A tab that asks the AI: the run whose result it shows, and the button beside it.
AiTab(tab) == [tab |-> tab, busy |-> FALSE, result |-> None, saved |-> FALSE]

\* A tab that lists rows and has a form for a new one.
ListTab(tab) == [tab |-> tab, list |-> {}, typed |-> FALSE]

FreshTab(tab) == IF tab \in AiTabs THEN AiTab(tab) ELSE ListTab(tab)
TabCalls(tab) == IF tab \in AiTabs THEN <<>> ELSE <<Call("rows", tab)>>

FreshMaterials == [kind |-> "materials", at |-> FreshTab("research")]

OnTab(tabs) == panel.kind = "materials" /\ panel.at.tab \in tabs

ChooseTab(tab) ==
    /\ OnTab(Tabs \ {tab})
    /\ User("tab")
    /\ panel' = [panel EXCEPT !.at = FreshTab(tab)]
    /\ calls' = Orphan(calls) \o TabCalls(tab)
    /\ UNCHANGED <<db, llm>>

\* Research and Summarize: one run at a time, in the activity list.
AskAi(tab) ==
    /\ OnTab({tab})
    /\ ~panel.at.busy
    /\ User(tab)
    /\ panel' = [panel EXCEPT !.at.busy = TRUE]
    /\ Begin(Call("ask", acts'))
    /\ UNCHANGED db

Research == AskAi("research")
Summarize == AskAi("summarize")

\* SaveAsMemoButton keeps its state for as long as the tab is shown, also when
\* another result takes the place of the saved one.
SaveAsMemo ==
    /\ OnTab(AiTabs)
    /\ panel.at.result # None
    /\ ~panel.at.saved
    /\ Cardinality(db.memos) < MaxRows
    /\ User("memo")
    /\ Send(<<Call("keep", acts')>>)
    /\ UNCHANGED <<panel, db, llm>>

TypeRow ==
    /\ OnTab({"memos", "templates"})
    /\ ~panel.at.typed
    /\ User("add")
    /\ panel' = [panel EXCEPT !.at.typed = TRUE]
    /\ UNCHANGED <<calls, db, llm>>

\* add: the form is cleared when the answer is there, and can be used until then.
AddRow(tab) ==
    /\ OnTab({tab})
    /\ panel.at.typed
    /\ Cardinality(db[tab]) < MaxRows
    /\ User("add")
    /\ Send(<<Call("add", [tab |-> tab, n |-> acts'])>>)
    /\ UNCHANGED <<panel, db, llm>>

AddMemo == AddRow("memos")
AddTemplate == AddRow("templates")

RemoveRow(n) ==
    /\ OnTab({"memos", "templates"})
    /\ n \in panel.at.list
    /\ User("remove")
    /\ Send(<<Call("remove", [tab |-> panel.at.tab, n |-> n])>>)
    /\ UNCHANGED <<panel, db, llm>>

\* createArticleFromMemo asks for a draft, then for the list, then adds an episode;
\* leaving the tab does not stop it.
CreateArticle ==
    /\ OnTab({"memos"})
    /\ panel.at.list # {}
    /\ Len(db.numbers) < MaxRows
    /\ User("article")
    /\ Begin(Call("draft", None))
    /\ UNCHANGED <<panel, db>>

\* episode_add: episode k has the number db.numbers[k]; nothing asks for a free one.
EpisodeAdded(n) ==
    LET k == Len(db.numbers) + 1 IN
    [db EXCEPT !.numbers = Append(@, n), !.texts = [j \in DOMAIN @ \cup {k} |-> IF j \in DOMAIN @ THEN @[j] ELSE {}]]

\* The listing of the episodes goes by their numbers and is cut short.
Before(j, k) == db.numbers[j] < db.numbers[k] \/ (db.numbers[j] = db.numbers[k] /\ j < k)
EpisodesListed == {k \in DOMAIN db.numbers : Cardinality({j \in DOMAIN db.numbers : Before(j, k)}) < ListLimit}

\* The number of the last one of a listing ks, 0 if there is none.
LastNumber(ks) == Max({0} \cup {db.numbers[k] : k \in ks})

\* The handlers; a row is named by the click that made it.  Memos and templates are few enough for one page of their listing.
MaterialsServed(i) ==
    /\ \/ Arrives(i, "rows") /\ Serve(i, db[Arg(i)]) /\ UNCHANGED db
       \/ Arrives(i, "ask") /\ Serve(i, None) /\ UNCHANGED db
       \/ Arrives(i, "draft") /\ Serve(i, None) /\ UNCHANGED db
       \/ Arrives(i, "numbers") /\ Serve(i, EpisodesListed) /\ UNCHANGED db
       \/ Arrives(i, "keep") /\ Serve(i, None) /\ db' = [db EXCEPT !.memos = @ \cup {Arg(i)}]
       \/ Arrives(i, "article") /\ Serve(i, None) /\ db' = EpisodeAdded(Arg(i))
       \/ /\ Arrives(i, "add")
          /\ Serve(i, None)
          /\ LET c == Arg(i) IN db' = [db EXCEPT ![c.tab] = @ \cup {c.n}]
       \/ /\ Arrives(i, "remove")
          /\ LET c == Arg(i) IN
             IF c.n \in db[c.tab] THEN Serve(i, None) /\ db' = [db EXCEPT ![c.tab] = @ \ {c.n}]
             ELSE Refuse(i) /\ UNCHANGED db
    /\ UNCHANGED <<acts, panel, llm>>

RowsLoaded(i) ==
    /\ Returned(i, "rows")
    /\ panel' = IF calls[i].live THEN [panel EXCEPT !.at.list = Ans(i)] ELSE panel
    /\ Continue(i, <<>>)
    /\ UNCHANGED <<acts, db, llm>>

\* After an add the form is cleared, after both the list is loaded again.
RowChanged(i) ==
    /\ Returned(i, "add") \/ Returned(i, "remove")
    /\ panel' = IF calls[i].live /\ calls[i].op = "add" THEN [panel EXCEPT !.at.typed = FALSE] ELSE panel
    /\ Continue(i, <<[Call("rows", Arg(i).tab) EXCEPT !.live = calls[i].live]>>)
    /\ UNCHANGED <<acts, db, llm>>

AiOver(i) ==
    /\ Returned(i, "ask") \/ Thrown(i, "ask")
    /\ panel' = IF ~calls[i].live THEN panel
                ELSE [panel EXCEPT !.at.busy = FALSE,
                                   !.at.result = IF calls[i].status = "ok" THEN Arg(i) ELSE @]
    /\ llm' = Ended
    /\ Continue(i, <<>>)
    /\ UNCHANGED <<acts, db>>

MemoKept(i) ==
    /\ Returned(i, "keep")
    /\ panel' = IF calls[i].live THEN [panel EXCEPT !.at.saved = TRUE] ELSE panel
    /\ Continue(i, <<>>)
    /\ UNCHANGED <<acts, db, llm>>

\* The number after the last one of the list, as it is when the draft is there.
Drafted(i) ==
    /\ Returned(i, "draft") \/ Thrown(i, "draft")
    /\ llm' = Ended
    /\ Continue(i, IF calls[i].status = "ok" THEN <<Call("numbers", None)>> ELSE <<>>)
    /\ UNCHANGED <<acts, panel, db>>

Numbered(i) ==
    /\ Returned(i, "numbers")
    /\ Continue(i, <<Call("article", LastNumber(Ans(i)) + 1)>>)
    /\ UNCHANGED <<acts, panel, db, llm>>

MaterialsThrown(i) ==
    /\ \/ \E op \in {"rows", "add", "remove", "keep", "numbers", "article"} : Thrown(i, op)
       \/ Returned(i, "article")
    /\ Continue(i, <<>>)
    /\ UNCHANGED <<acts, panel, db, llm>>

MaterialsNext ==
    \/ \E tab \in Tabs : ChooseTab(tab)
    \/ Research \/ Summarize \/ SaveAsMemo \/ TypeRow \/ AddMemo \/ AddTemplate \/ CreateArticle
    \/ \E n \in db.memos \cup db.templates : RemoveRow(n)
    \/ \E i \in DOMAIN calls :
          \/ MaterialsServed(i) \/ RowsLoaded(i) \/ RowChanged(i) \/ AiOver(i) \/ MemoKept(i)
          \/ Drafted(i) \/ Numbered(i) \/ MaterialsThrown(i)

-----------------------------------------------------------------------------
\* Part of ScreensInStep: the list on the screen is that of the rows, and drafts made
\* one after the other get numbers of their own while the episodes fit into one page
\* of the listing.  (Two drafts at once may take the same number.)
MaterialsInStep ==
    /\ OnTab({"memos", "templates"}) => panel.at.list = db[panel.at.tab]
    /\ Len(db.numbers) <= ListLimit => Cardinality(ToSet(db.numbers)) = Len(db.numbers)
=============================================================================
