------------------------------ MODULE ChatPanel ------------------------------
(***************************************************************************)
(* The AI chat of a project: ChatPanel.tsx and the three handlers of       *)
(* main.py it calls.  chat_send commits the question, waits for the model  *)
(* and commits the answer, so that the others may come in between.         *)
(***************************************************************************)
EXTENDS LlmActivity

FreshChat == [kind |-> "chat", messages |-> <<>>, input |-> FALSE, busy |-> FALSE]
ChatCalls == <<Call("history", None)>>

OnChat == panel.kind = "chat"

\* A row: whose turn it is, and the question it asks or answers.
Turn(role, q) == [role |-> role, q |-> q]

\* The oldest rows, in the order of their ids.
Listed(rows) == SubSeq(rows, 1, IF Len(rows) < ListLimit THEN Len(rows) ELSE ListLimit)

\* The field, like the button, is disabled while an answer is awaited.
TypeQuestion ==
    /\ OnChat
    /\ ~panel.input
    /\ ~panel.busy
    /\ User("ask")
    /\ panel' = [panel EXCEPT !.input = TRUE]
    /\ UNCHANGED <<calls, db, llm>>

\* send, by the button or the Enter key
SendQuestion ==
    /\ OnChat
    /\ panel.input
    /\ ~panel.busy
    /\ User("ask")
    /\ panel' = [panel EXCEPT !.input = FALSE, !.busy = TRUE]
    /\ Begin(Call("chat", acts'))
    /\ UNCHANGED db

\* clear, after the confirmation; it is there while there are messages.
Clear ==
    /\ OnChat
    /\ panel.messages # <<>>
    /\ User("clear")
    /\ Send(<<Call("clear", None)>>)
    /\ UNCHANGED <<panel, db, llm>>

HistoryServed(i) ==
    /\ Arrives(i, "history")
    /\ Serve(i, Listed(db.chat))
    /\ UNCHANGED <<acts, panel, db, llm>>

\* chat_send up to the model, which it waits for whether or not the client still does.
ChatAsked(i) ==
    /\ Arrives(i, "chat")
    /\ db' = [db EXCEPT !.chat = Append(@, Turn("user", Arg(i))), !.answering = @ \cup {Arg(i)}]
    /\ calls' = [calls EXCEPT ![i].status = "asked"]
    /\ UNCHANGED <<acts, panel, llm>>

\* The answer, or the text of an exception, is committed; the question, expired by
\* the commit, is read again for the response, which fails when it was cleared.
ChatReplied(q) ==
    /\ q \in db.answering
    /\ LET question == Turn("user", q)  answer == Turn("assistant", q)
           asking == {i \in DOMAIN calls : calls[i].status = "asked" /\ Arg(i) = q} IN
       /\ db' = [db EXCEPT !.chat = Append(@, answer), !.answering = @ \ {q}]
       /\ IF asking = {} THEN UNCHANGED calls
          ELSE \E i \in asking : IF question \in ToSet(db.chat) THEN Serve(i, <<question, answer>>) ELSE Refuse(i)
    /\ UNCHANGED <<acts, panel, llm>>

\* The server is restarted: what it was doing is not taken up again.
Restart ==
    /\ mix.fails
    /\ db.answering # {}
    /\ db' = [db EXCEPT !.answering = {}]
    /\ calls' = [i \in DOMAIN calls |->
                    IF calls[i].status \in {"sent", "asked"} THEN [calls[i] EXCEPT !.status = "failed"] ELSE calls[i]]
    /\ UNCHANGED <<acts, panel, llm>>

\* chat_clear deletes what it finds.
ClearServed(i) ==
    /\ Arrives(i, "clear")
    /\ db' = [db EXCEPT !.chat = <<>>]
    /\ Serve(i, None)
    /\ UNCHANGED <<acts, panel, llm>>

HistoryLoaded(i) ==
    /\ Returned(i, "history")
    /\ panel' = IF calls[i].live THEN [panel EXCEPT !.messages = Ans(i)] ELSE panel
    /\ Continue(i, <<>>)
    /\ UNCHANGED <<acts, db, llm>>

\* Mutant: the flag is cleared where the turns are appended, and not finally.
FaultyChatOver(i) ==
    /\ Returned(i, "chat") \/ Thrown(i, "chat")
    /\ panel' = IF calls[i].live /\ calls[i].status = "ok"
                THEN [panel EXCEPT !.busy = FALSE, !.messages = @ \o Ans(i)] ELSE panel
    /\ llm' = Ended
    /\ Continue(i, <<>>)
    /\ UNCHANGED <<acts, db>>

\* The turns are appended to what is shown by then; finally the activity ends.
ChatOver(i) ==
    /\ Returned(i, "chat") \/ Thrown(i, "chat")
    /\ panel' = IF ~calls[i].live THEN panel
                ELSE [panel EXCEPT !.busy = FALSE,
                                   !.messages = IF calls[i].status = "ok" THEN @ \o Ans(i) ELSE @]
    /\ llm' = Ended
    /\ Continue(i, <<>>)
    /\ UNCHANGED <<acts, db>>

Cleared(i) ==
    /\ Returned(i, "clear")
    /\ panel' = IF calls[i].live THEN [panel EXCEPT !.messages = <<>>] ELSE panel
    /\ Continue(i, <<>>)
    /\ UNCHANGED <<acts, db, llm>>

ChatThrown(i) ==
    /\ Thrown(i, "history") \/ Thrown(i, "clear")
    /\ Continue(i, <<>>)
    /\ UNCHANGED <<acts, panel, db, llm>>

ChatNext ==
    \/ TypeQuestion \/ SendQuestion \/ Clear \/ Restart
    \/ \E q \in db.answering : ChatReplied(q)
    \/ \E i \in DOMAIN calls :
          \/ HistoryServed(i) \/ ChatAsked(i) \/ ClearServed(i)
          \/ HistoryLoaded(i) \/ ChatOver(i) \/ Cleared(i) \/ ChatThrown(i)

-----------------------------------------------------------------------------
\* Part of ScreensInStep: every answer that is kept follows its question, and the
\* turns on the screen are the rows, so long as these fit into one page.
ChatInStep ==
    /\ \A n \in DOMAIN db.chat :
          db.chat[n].role = "assistant" => \E k \in 1..n - 1 : db.chat[k] = Turn("user", db.chat[n].q)
    /\ OnChat /\ Len(db.chat) <= ListLimit => panel.messages = db.chat
=============================================================================
