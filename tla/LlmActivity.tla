----------------------------- MODULE LlmActivity -----------------------------
(***************************************************************************)
(* LlmActivityProvider: the list of AI calls of this client, the panel     *)
(* that shows the queue of the server, and the poller that runs while one  *)
(* of the two is on the screen.  It outlives the screens of the workspace. *)
(***************************************************************************)
EXTENDS WebApi

VARIABLE llm        \* the state of the provider, or None outside the workspace

Activity == [items : Nat, open : BOOLEAN, queue : {None, "rows"}, me : BOOLEAN, poller : Nat \cup {None}]

ASSUME ActivityAssumption == None \notin Activity \cup Nat

NoActivity == [items |-> 0, open |-> FALSE, queue |-> None, me |-> FALSE, poller |-> None]

\* The calls that are on the list.
AiCalls == {"chat", "ask", "draft", "generate", "test"}

Active(a) == a.items > 0 \/ a.open

\* Mutant: the effect returns before it clears the interval.
FaultyEffects(a) ==
    IF ~Active(a) THEN [a EXCEPT !.queue = None]
    ELSE IF a.poller # None THEN a
    ELSE [a EXCEPT !.poller = acts']

\* The two effects after a render: the poller follows `active`, the queue of the
\* server is forgotten with it, and the name of the user is asked for once.  A run
\* of the poller is named by the click that began it.
Effects(a) ==
    IF ~Active(a) THEN [a EXCEPT !.queue = None, !.poller = None]
    ELSE IF a.poller # None THEN a
    ELSE [a EXCEPT !.poller = acts']

\* The first tick of a new run, where a mix has polls at all, and the question who I am.
EffectCalls(a) ==
    IF ~Active(a) \/ a.poller # None \/ mix.polls = 0 THEN <<>>
    ELSE <<Call("queue", acts')>> \o (IF a.me THEN <<>> ELSE <<Call("user", None)>>)

\* begin() puts an item on the list for the call c, and end() takes it off; after
\* the workspace was unmounted there is no list.
Begin(c) ==
    LET a == [llm EXCEPT !.items = @ + 1] IN
    /\ llm' = Effects(a)
    /\ Send(<<c>> \o EffectCalls(a))

Ended == IF llm = None THEN None ELSE Effects([llm EXCEPT !.items = @ - 1])

\* openQueue and its Close button.
ToggleQueue ==
    /\ llm # None
    /\ User("queue")
    /\ LET a == [llm EXCEPT !.open = ~@] IN
       /\ llm' = Effects(a)
       /\ Send(EffectCalls(a))
    /\ UNCHANGED <<panel, db>>

\* The interval of the effect.
Tick ==
    /\ llm # None
    /\ llm.poller # None
    /\ Cardinality({i \in DOMAIN calls : calls[i].op = "queue"}) < mix.polls
    /\ Send(<<Call("queue", llm.poller)>>)
    /\ UNCHANGED <<acts, panel, db, llm>>

\* llm_queue_state and auth_me only read.
ActivityServed(i) ==
    /\ \E op \in {"queue", "user"} : Arrives(i, op)
    /\ Serve(i, None)
    /\ UNCHANGED <<acts, panel, db, llm>>

\* What a tick brings is shown unless its run of the effect has been stopped.
TickAnswered(i) ==
    /\ Returned(i, "queue")
    /\ Continue(i, <<>>)
    /\ llm' = IF llm # None /\ llm.poller = Arg(i) THEN [llm EXCEPT !.queue = "rows"] ELSE llm
    /\ UNCHANGED <<acts, panel, db>>

UserAnswered(i) ==
    /\ Returned(i, "user")
    /\ Continue(i, <<>>)
    /\ llm' = IF llm = None THEN None ELSE [llm EXCEPT !.me = TRUE]
    /\ UNCHANGED <<acts, panel, db>>

\* .catch(() => {})
ActivityThrown(i) ==
    /\ Thrown(i, "queue") \/ Thrown(i, "user")
    /\ Continue(i, <<>>)
    /\ UNCHANGED <<acts, panel, db, llm>>

\* What the overlay shows: the progress of the newest item, which LlmProgressView
\* counts the seconds of, and the rows of the queue, or that there are none.
ProgressShown == llm # None /\ llm.items > 0

QueueShown == IF llm = None \/ ~Active(llm) THEN "closed"
              ELSE IF llm.queue # None THEN "rows"
              ELSE IF llm.items > 0 THEN "nothing" ELSE "none"

ActivityNext ==
    \/ ToggleQueue
    \/ Tick
    \/ \E i \in DOMAIN calls : \/ ActivityServed(i) \/ TickAnswered(i)
                               \/ UserAnswered(i) \/ ActivityThrown(i)

\* Part of TypeOK: the poller runs while the overlay is shown and at no other time,
\* and the list has an item for each AI call in flight, however it will end.
ActivityOK ==
    /\ QueueShown = "closed" <=> llm = None \/ llm.poller = None
    /\ llm # None => /\ llm \in Activity
                     /\ llm.items = Cardinality({i \in DOMAIN calls : calls[i].op \in AiCalls})
=============================================================================
