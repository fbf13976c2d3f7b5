----------------------------- MODULE SearchPanel -----------------------------
(***************************************************************************)
(* The search screen of a project: SearchPanel.tsx with text-search and    *)
(* text-replace of main.py, whose inside is in EpisodeStore.               *)
(*                                                                         *)
(* A text is the set of the words in it; a word is a name in small or in   *)
(* capital letters.  What is typed in the replacement field is one word.   *)
(***************************************************************************)
EXTENDS LlmActivity

CONSTANT Names      \* what can be searched for

\* There is something to search for, and no replacement brings back what it replaces.
ASSUME NamesAssumption == Names # {} /\ "replacement" \notin Names

Word == [name : Names, capital : BOOLEAN]
Replacement == [name |-> "replacement", capital |-> FALSE]

\* _count and _snippets: the words a search finds; the query is in small letters.
Hits(text, q, cs) == {w \in text : w.name = q /\ (cs => ~w.capital)}

FreshSearch ==
    [kind |-> "search", mode |-> "semantic", all |-> FALSE, results |-> None, busy |-> FALSE,
     q |-> CHOOSE n \in Names : TRUE, cs |-> TRUE, matches |-> {}, memos |-> {}, selected |-> {},
     findBusy |-> FALSE, replaceBusy |-> FALSE, result |-> FALSE, searched |-> FALSE,
     found |-> None, asked |-> [arg |-> None, texts |-> <<>>, alone |-> FALSE]]
    \* found: what the matches are of; asked: what was confirmed last, in which texts,
    \* and whether no replacement was under way then (history)
SearchCalls == <<Call("names", None)>>

OnSearch == panel.kind = "search"

\* The tabs of the two modes, the box for all projects, the query and the letters
\* can be changed at any time; nothing is searched again by that.
ChangeSearch ==
    /\ OnSearch
    /\ User("query")
    /\ \/ panel' = [panel EXCEPT !.mode = IF @ = "semantic" THEN "replace" ELSE "semantic"]
       \/ panel.mode = "semantic" /\ panel' = [panel EXCEPT !.all = ~@]
       \/ panel.mode = "replace" /\ \E n \in Names \ {panel.q} : panel' = [panel EXCEPT !.q = n]
       \/ panel.mode = "replace" /\ panel' = [panel EXCEPT !.cs = ~@]
    /\ UNCHANGED <<calls, db, llm>>

\* search and reindex
Search ==
    /\ OnSearch
    /\ panel.mode = "semantic"
    /\ User("search")
    /\ \/ panel' = [panel EXCEPT !.busy = TRUE] /\ Send(<<Call("search", panel.all)>>)
       \/ ~panel.all /\ UNCHANGED panel /\ Send(<<Call("reindex", None)>>)
    /\ UNCHANGED <<db, llm>>

\* findAll; the button does not look at findBusy.
FindAll ==
    /\ OnSearch
    /\ panel.mode = "replace"
    /\ User("find")
    /\ panel' = [panel EXCEPT !.findBusy = TRUE, !.result = FALSE]
    /\ Send(<<Call("find", [q |-> panel.q, cs |-> panel.cs])>>)
    /\ UNCHANGED <<db, llm>>

\* toggleSelected
Toggle(k) ==
    /\ OnSearch
    /\ panel.mode = "replace"
    /\ k \in panel.matches
    /\ User("toggle")
    /\ panel' = [panel EXCEPT !.selected = SymDiff(@, {k})]
    /\ UNCHANGED <<calls, db, llm>>

\* replaceAll, with the query that is in the box now and the episodes selected from
\* the last search.
ReplaceFound ==
    /\ OnSearch
    /\ panel.mode = "replace"
    /\ panel.matches # {} /\ panel.selected # {}
    /\ ~panel.replaceBusy
    /\ User("replace")
    /\ LET arg == [q |-> panel.q, cs |-> panel.cs, ids |-> panel.selected] IN
       /\ panel' = [panel EXCEPT !.replaceBusy = TRUE,
                                 !.asked = [arg |-> arg, texts |-> db.texts, alone |-> \A i \in DOMAIN calls : calls[i].op # "replace"]]
       /\ Send(<<Call("replace", arg)>>)
    /\ UNCHANGED <<db, llm>>

FindServed(i) ==
    /\ Arrives(i, "find")
    /\ LET c == Arg(i) IN
       Serve(i, [matches |-> {k \in DOMAIN db.texts : Hits(db.texts[k], c.q, c.cs) # {}},
                 memos |-> {k \in DOMAIN db.notes : Hits(db.notes[k], c.q, c.cs) # {}}])
    /\ UNCHANGED <<acts, panel, db, llm>>

\* Mutant: what was unchecked is replaced as well.
FaultyReplaceServed(i) ==
    /\ Arrives(i, "replace")
    /\ LET c == Arg(i)
           After(text) == IF Hits(text, c.q, c.cs) = {} THEN text
                          ELSE (text \ Hits(text, c.q, c.cs)) \cup {Replacement} IN
       db' = [db EXCEPT !.texts = [k \in DOMAIN @ |-> After(@[k])]]
    /\ Serve(i, None)
    /\ UNCHANGED <<acts, panel, llm>>

\* text-replace: memos are searched but never changed.
ReplaceServed(i) ==
    /\ Arrives(i, "replace")
    /\ LET c == Arg(i)
           After(text) == IF Hits(text, c.q, c.cs) = {} THEN text
                          ELSE (text \ Hits(text, c.q, c.cs)) \cup {Replacement} IN
       db' = [db EXCEPT !.texts = [k \in DOMAIN @ |-> IF k \in c.ids THEN After(@[k]) ELSE @[k]]]
    /\ Serve(i, None)
    /\ UNCHANGED <<acts, panel, llm>>

SearchServed(i) ==
    /\ \E op \in {"search", "reindex", "names"} : Arrives(i, op)
    /\ Serve(i, None)
    /\ UNCHANGED <<acts, panel, db, llm>>

\* The last answer to arrive is shown, whichever search it answers.
Found(i) ==
    /\ Returned(i, "find")
    /\ LET x == Ans(i) IN
       panel' = IF calls[i].live
                THEN [panel EXCEPT !.matches = x.matches, !.memos = x.memos, !.selected = x.matches,
                                   !.searched = TRUE, !.findBusy = FALSE, !.found = Arg(i)]
                ELSE panel
    /\ Continue(i, <<>>)
    /\ UNCHANGED <<acts, db, llm>>

Replaced(i) ==
    /\ Returned(i, "replace")
    /\ panel' = IF calls[i].live
                THEN [panel EXCEPT !.matches = {}, !.memos = {}, !.selected = {}, !.searched = FALSE,
                                   !.result = TRUE, !.replaceBusy = FALSE, !.found = None]
                ELSE panel
    /\ Continue(i, <<>>)
    /\ UNCHANGED <<acts, db, llm>>

SearchOver(i) ==
    /\ Returned(i, "search") \/ Returned(i, "reindex") \/ Returned(i, "names")
    /\ panel' = IF calls[i].live /\ calls[i].op = "search"
                THEN [panel EXCEPT !.results = [all |-> Arg(i)], !.busy = FALSE] ELSE panel
    /\ Continue(i, <<>>)
    /\ UNCHANGED <<acts, db, llm>>

\* finally, without a catch: only the busy flag is cleared.
SearchThrown(i) ==
    /\ \E op \in {"find", "replace", "search", "reindex", "names"} : Thrown(i, op)
    /\ panel' = IF ~calls[i].live THEN panel
                ELSE CASE calls[i].op = "find" -> [panel EXCEPT !.findBusy = FALSE]
                       [] calls[i].op = "replace" -> [panel EXCEPT !.replaceBusy = FALSE]
                       [] calls[i].op = "search" -> [panel EXCEPT !.busy = FALSE]
                       [] OTHER -> panel
    /\ Continue(i, <<>>)
    /\ UNCHANGED <<acts, db, llm>>

SearchNext ==
    \/ ChangeSearch \/ Search \/ FindAll \/ ReplaceFound
    \/ \E k \in DOMAIN db.texts : Toggle(k)
    \/ \E i \in DOMAIN calls : \/ FindServed(i) \/ ReplaceServed(i) \/ SearchServed(i) \/ Found(i)
                               \/ Replaced(i) \/ SearchOver(i) \/ SearchThrown(i)

-----------------------------------------------------------------------------
\* When the screen says that a replacement is done, the word that was confirmed is
\* gone from every selected episode, and the others, those that were unchecked in
\* particular, are as they were, whatever is searched meanwhile.  (An answer that is
\* lost leaves the note of the replacement before it, and one that was still under way
\* when the screen was opened again may come in between.)
\* It speaks of episodes only: memos are listed, but never selected nor replaced, although
\* docs/user-guide.md:89 says so: README, Findings.
ReplaceIsExact ==
    OnSearch /\ panel.result /\ ~panel.replaceBusy /\ panel.asked.alone /\ ~mix.fails =>
        LET a == panel.asked.arg IN
        \A k \in DOMAIN panel.asked.texts :
            IF k \in a.ids THEN Hits(db.texts[k], a.q, a.cs) = {}
                                /\ panel.asked.texts[k] \ Hits(panel.asked.texts[k], a.q, a.cs) \subseteq db.texts[k]
            ELSE db.texts[k] = panel.asked.texts[k]

\* Part of ScreensInStep: what is listed is what the search finds in the rows.
SearchInStep ==
    OnSearch /\ panel.found # None =>
        panel.matches = {k \in DOMAIN db.texts : Hits(db.texts[k], panel.found.q, panel.found.cs) # {}}
=============================================================================
