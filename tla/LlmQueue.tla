------------------------------ MODULE LlmQueue ------------------------------
(***************************************************************************)
(* The in-process queue in front of every LLM call (llm_queue.py) together *)
(* with the two ways the code enters it: the slot() context manager around *)
(* a buffered call (providers.generate) and submit()/release() around a    *)
(* streamed one (providers.generate_stream).                               *)
(*                                                                         *)
(* Everything runs on one event loop, so an action is the code between two *)
(* awaits (or between an await and a yield) of one coroutine.  A stream is *)
(* suspended in two different ways: at an await, where a cancellation is   *)
(* raised inside the generator, and at a yield, where it is not: when the  *)
(* client goes away there, the generator is dropped and runs its finally   *)
(* clause only when the event loop finalises it.                           *)
(***************************************************************************)
EXTENDS Integers, Sequences, SequencesExt

CONSTANTS
    Groups,     \* the provider groups: "ollama" and "cloud"
    Limit,      \* the number of concurrent calls allowed in each group
    MaxJobs,    \* bound: the number of calls submitted in a behaviour
    RecentMax   \* RECENT_MAX, the length of the list of finished jobs

ASSUME GroupsAssumption == Groups # {}
ASSUME LimitAssumption == Limit \in [Groups -> Nat \ {0}]
ASSUME BoundAssumption == MaxJobs \in Nat /\ RecentMax \in Nat \ {0}

VARIABLES
    lastId,     \* the number of jobs submitted so far; ids are 1..lastId
    group,      \* group[j]: the group job j was submitted to
    streamed,   \* streamed[j]: TRUE for generate_stream, FALSE for generate
    status,     \* status[j]: Job.status, or "none" before submit()
    started,    \* started[j]: the state of the future Job.started
    waiting,    \* waiting[g]: the deque of queued jobs
    running,    \* running[g]: the list of jobs that hold a slot
    recent,     \* the deque of finished jobs, newest last
    pc          \* pc[j]: where the coroutine that owns job j is suspended

vars == <<lastId, group, streamed, status, started, waiting, running, recent, pc>>

JobId == 1..MaxJobs

Submitted == 1..lastId

Released == {"done", "error", "cancelled"}

\* Places where the owning coroutine waits on the event loop.
AtAwait == {"waiting", "vendor"}

\* Places where a stream has handed an event to the response and is suspended.
AtYield == {"atQueued", "atDelta", "atDone"}

Status == {"none", "queued", "running"} \cup Released

PC == {"none", "abandoned", "finished"} \cup AtAwait \cup AtYield

\* One type invariant for the module.
TypeOK ==
    /\ lastId \in 0..MaxJobs
    /\ group \in [JobId -> Groups]
    /\ streamed \in [JobId -> BOOLEAN]
    /\ status \in [JobId -> Status]
    /\ started \in [JobId -> {"pending", "set", "cancelled"}]
    /\ waiting \in [Groups -> Seq(JobId)]
    /\ running \in [Groups -> Seq(JobId)]
    /\ recent \in Seq(JobId)
    /\ pc \in [JobId -> PC]

Init ==
    /\ lastId = 0
    /\ group = [j \in JobId |-> CHOOSE g \in Groups : TRUE]
    /\ streamed = [j \in JobId |-> FALSE]
    /\ status = [j \in JobId |-> "none"]
    /\ started = [j \in JobId |-> "pending"]
    /\ waiting = [g \in Groups |-> <<>>]
    /\ running = [g \in Groups |-> <<>>]
    /\ recent = <<>>
    /\ pc = [j \in JobId |-> "none"]

-----------------------------------------------------------------------------
(***************************************************************************)
(* The queue's own methods.                                                *)
(***************************************************************************)

\* Seeded faults (definitions named Faulty...) stand before the definition they
\* replace when the mutation runs ask whether a property can fail.

\* _promote with <= for <.
FaultyNumPromotedOffByOne(g, r, w) ==
    IF Len(r) > Limit[g] THEN 0
    ELSE IF Len(w) <= Limit[g] + 1 - Len(r) THEN Len(w)
    ELSE Limit[g] + 1 - Len(r)

\* _promote that starts a job only in an idle group.
FaultyNumPromotedIdleOnly(g, r, w) ==
    IF Len(r) > 0 \/ w = <<>> THEN 0 ELSE 1

\* How many jobs the loop of _promote moves when the group runs the list r and
\* the line is w.
NumPromoted(g, r, w) ==
    IF Len(r) >= Limit[g] THEN 0
    ELSE IF Len(w) <= Limit[g] - Len(r) THEN Len(w)
    ELSE Limit[g] - Len(r)

\* _promote with pop() for popleft().
FaultyPromoteNewest(g, r, w, st, fu) ==
    LET n    == NumPromoted(g, r, w)
        kept == Len(w) - n
        up   == {w[i] : i \in (kept + 1)..Len(w)}
    IN  /\ running' = [running EXCEPT ![g] = r \o SubSeq(w, kept + 1, Len(w))]
        /\ waiting' = [waiting EXCEPT ![g] = SubSeq(w, 1, kept)]
        /\ status' = [j \in JobId |-> IF j \in up THEN "running" ELSE st[j]]
        /\ started' = [j \in JobId |-> IF j \in up THEN "set" ELSE fu[j]]

\* _promote that forgets to resolve the future.
FaultyPromoteSilently(g, r, w, st, fu) ==
    LET n == NumPromoted(g, r, w)
    IN  /\ running' = [running EXCEPT ![g] = r \o SubSeq(w, 1, n)]
        /\ waiting' = [waiting EXCEPT ![g] = SubSeq(w, n + 1, Len(w))]
        /\ status' = [j \in JobId |-> IF j \in {w[i] : i \in 1..n} THEN "running" ELSE st[j]]
        /\ started' = fu

\* _promote(g) on the lists r and w, the statuses st and the futures fu that the
\* caller has just computed.
Promote(g, r, w, st, fu) ==
    LET n  == NumPromoted(g, r, w)
        up == {w[i] : i \in 1..n}
    IN  /\ running' = [running EXCEPT ![g] = r \o SubSeq(w, 1, n)]
        /\ waiting' = [waiting EXCEPT ![g] = SubSeq(w, n + 1, Len(w))]
        /\ status' = [j \in JobId |-> IF j \in up THEN "running" ELSE st[j]]
        /\ started' = [j \in JobId |-> IF j \in up /\ fu[j] = "pending"
                                       THEN "set" ELSE fu[j]]

\* append() on a deque whose maxlen is n.
PushRecent(s, j, n) ==
    IF Len(s) < n THEN Append(s, j) ELSE Append(Tail(s), j)

\* release() that believes a caller still waiting for its turn has no slot.
FaultyReleaseKeepsPromoted(j, outcome) ==
    LET g == group[j]
        r == IF pc[j] = "waiting" THEN running[g] ELSE RemoveFirst(running[g], j)
    IN  /\ status[j] \notin Released
        /\ Promote(g, r, RemoveFirst(waiting[g], j),
                   [status EXCEPT ![j] = outcome], started)
        /\ recent' = PushRecent(recent, j, RecentMax)
        /\ pc' = [pc EXCEPT ![j] = "finished"]
        /\ UNCHANGED <<lastId, group, streamed>>

\* release(j, outcome), always called from the finally clause of j's owner.
Release(j, outcome) ==
    LET g == group[j]
        queued == Contains(waiting[g], j)
    IN  /\ status[j] \notin Released
        /\ Promote(g, RemoveFirst(running[g], j), RemoveFirst(waiting[g], j),
                   [status EXCEPT ![j] = IF queued THEN "cancelled" ELSE outcome],
                   [started EXCEPT ![j] = IF @ = "pending" THEN "cancelled" ELSE @])
        /\ recent' = PushRecent(recent, j, RecentMax)
        /\ pc' = [pc EXCEPT ![j] = "finished"]
        /\ UNCHANGED <<lastId, group, streamed>>

-----------------------------------------------------------------------------
(***************************************************************************)
(* The coroutines.                                                         *)
(***************************************************************************)

Goto(j, from, to) ==
    /\ pc[j] \in from
    /\ pc' = [pc EXCEPT ![j] = to]

QueueUnchanged == UNCHANGED <<lastId, group, streamed, status, started,
                              waiting, running, recent>>

\* submit() and the code up to the first suspension: a call that got its slot
\* at once goes straight to the vendor; otherwise slot() awaits the future,
\* and a stream first yields its queued event.
Submit(g, isStream) ==
    LET j == lastId + 1
    IN  /\ lastId < MaxJobs
        /\ lastId' = j
        /\ group' = [group EXCEPT ![j] = g]
        /\ streamed' = [streamed EXCEPT ![j] = isStream]
        /\ Promote(g, running[g], Append(waiting[g], j),
                   [status EXCEPT ![j] = "queued"], started)
        /\ pc' = [pc EXCEPT ![j] = IF started'[j] = "set" THEN "vendor"
                                   ELSE IF isStream THEN "atQueued" ELSE "waiting"]
        /\ UNCHANGED recent

\* The future was resolved and the event loop resumes wait_started().
Wake(j) ==
    /\ started[j] = "set"
    /\ Goto(j, {"waiting"}, "vendor")
    /\ QueueUnchanged

\* A timeout of wait_started() taken for a start.
FaultyKeepAliveStarts(j) ==
    /\ streamed[j]
    /\ Goto(j, {"waiting"}, "vendor")
    /\ QueueUnchanged

\* wait_started(KEEPALIVE_SECONDS) times out.  The timeout may be delivered
\* although the future was resolved in the same turn of the event loop.
KeepAlive(j) ==
    /\ streamed[j]
    /\ Goto(j, {"waiting"}, "atQueued")
    /\ QueueUnchanged

\* The response has sent the queued event and asks for the next one.
QueuedSent(j) ==
    /\ Goto(j, {"atQueued"}, IF started[j] = "set" THEN "vendor" ELSE "waiting")
    /\ QueueUnchanged

\* The vendor's stream delivers a piece of text.
Delta(j) ==
    /\ streamed[j]
    /\ Goto(j, {"vendor"}, "atDelta")
    /\ QueueUnchanged

DeltaSent(j) ==
    /\ Goto(j, {"atDelta"}, "vendor")
    /\ QueueUnchanged

\* A buffered call returns: slot() exits normally.
VendorReply(j) ==
    /\ ~streamed[j]
    /\ pc[j] = "vendor"
    /\ Release(j, "done")

\* A stream reaches its end: usage is logged and the final event yielded while
\* the job still holds its slot.
StreamEnd(j) ==
    /\ streamed[j]
    /\ Goto(j, {"vendor"}, "atDone")
    /\ QueueUnchanged

DoneSent(j) ==
    /\ pc[j] = "atDone"
    /\ Release(j, "done")

\* The vendor call raises (HTTP error, timeout, missing API key).
VendorError(j) ==
    /\ pc[j] = "vendor"
    /\ Release(j, "error")

\* A status outside the vocabulary of Job.status.
FaultyCancelSpelling(j) ==
    /\ pc[j] \in AtAwait
    /\ Release(j, "canceled")

\* The task is cancelled while it awaits the queue or the vendor.
Cancel(j) ==
    /\ pc[j] \in AtAwait
    /\ Release(j, "cancelled")

\* A dropped generator that never runs its finally clause.
FaultyDisconnectForgets(j) ==
    /\ Goto(j, AtYield, "finished")
    /\ QueueUnchanged

\* The client disconnects while the response is sending an event: the response
\* is cancelled and the suspended generator is dropped, not closed.
Disconnect(j) ==
    /\ Goto(j, AtYield, "abandoned")
    /\ QueueUnchanged

\* The event loop's asynchronous-generator hook closes the dropped generator:
\* GeneratorExit is raised at the yield and the finally clause runs.
Finalize(j) ==
    /\ pc[j] = "abandoned"
    /\ Release(j, "cancelled")

Sent(j) == QueuedSent(j) \/ DeltaSent(j) \/ DoneSent(j)

VendorEnds(j) == VendorReply(j) \/ StreamEnd(j) \/ VendorError(j)

Next ==
    \/ \E g \in Groups, s \in BOOLEAN : Submit(g, s)
    \/ \E j \in JobId : \/ Wake(j)
                        \/ KeepAlive(j)
                        \/ QueuedSent(j)
                        \/ Delta(j)
                        \/ DeltaSent(j)
                        \/ VendorReply(j)
                        \/ StreamEnd(j)
                        \/ DoneSent(j)
                        \/ VendorError(j)
                        \/ Cancel(j)
                        \/ Disconnect(j)
                        \/ Finalize(j)

Spec == Init /\ [][Next]_vars

(***************************************************************************)
(* What the environment owes.  The event loop resumes a resolved future    *)
(* and finalises a dropped generator; an event is sent or its client is    *)
(* found gone; and a vendor's answer is finite (bounded tokens, and every  *)
(* read bounded by TIMEOUT), although it may come in any number of pieces. *)
(* Nobody is obliged to submit, and cancellations are never relied upon.   *)
(***************************************************************************)
Fairness ==
    \A j \in JobId : /\ WF_vars(Wake(j))
                     /\ WF_vars(Sent(j) \/ Disconnect(j))
                     /\ SF_vars(VendorEnds(j))
                     /\ WF_vars(Finalize(j))

FairSpec == Spec /\ Fairness

-----------------------------------------------------------------------------
(***************************************************************************)
(* Safety.                                                                 *)
(***************************************************************************)

\* The jobs of group g that were submitted and not released, in the order the
\* queue holds them.
Present(g) == running[g] \o waiting[g]

\* No group ever holds more slots than its limit, whatever mix of releases,
\* cancellations and abandoned streams promotes the next jobs (_promote).
ConcurrencyLimit == \A g \in Groups : Len(running[g]) <= Limit[g]

\* A job waits only while every slot of its group is taken: no way of leaving
\* the queue forgets to promote (submit, release).
WorkConserving ==
    \A g \in Groups : waiting[g] # <<>> => Len(running[g]) >= Limit[g]

\* Within a group the jobs are held in the order of their ids, the running
\* ones first: nobody is overtaken ("jobs start strictly FIFO") and no job is
\* held twice.
FifoOrder == \A g \in Groups : IsSorted(Present(g), <)

\* Every slot and every place in the line belongs to a coroutine that will
\* still run its finally clause, and the converse: the status, the lists and
\* the owner's position never disagree.
SlotsAreOwned ==
    /\ \A g \in Groups, j \in JobId :
          /\ Contains(running[g], j) <=> group[j] = g /\ status[j] = "running"
          /\ Contains(waiting[g], j) <=> group[j] = g /\ status[j] = "queued"
    /\ \A j \in JobId :
          status[j] \in {"queued", "running"} <=> pc[j] \notin {"none", "finished"}

\* A vendor is called, and its text forwarded, only by a job that holds a slot.
VendorHoldsSlot ==
    \A j \in JobId :
        pc[j] \in {"vendor", "atDelta", "atDone"} => Contains(running[group[j]], j)

\* A coroutine never sleeps on a future that nobody can resolve any more: it
\* is pending exactly while the job stands in the line, where a release will
\* reach it (wait_started, _promote).
NoLostWakeup ==
    \A j \in Submitted : started[j] = "pending" <=> Contains(waiting[group[j]], j)

\* What the owner of a job may conclude from its future: with the other
\* invariants, the inductive invariant of the proofs.
FuturesAgree ==
    \A j \in JobId :
        /\ status[j] = "none" <=> j > lastId
        /\ status[j] = "none" <=> pc[j] = "none"
        /\ status[j] \in {"none", "queued"} => started[j] = "pending"
        /\ status[j] = "running" => started[j] = "set"
        /\ status[j] \in Released => started[j] # "pending"
        /\ pc[j] \in {"vendor", "atDelta", "atDone"} => status[j] = "running"

(***************************************************************************)
(* Liveness.                                                               *)
(***************************************************************************)

\* "Release is guaranteed": every submitted call is released, whatever its
\* client does, and so every call behind it gets its turn.
EventuallyReleased ==
    \A j \in JobId : status[j] = "queued" \/ status[j] = "running"
                        ~> status[j] \in Released

(***************************************************************************)
(* Refinement: seen from outside, the queue is a server that always serves *)
(* the oldest Limit[g] jobs present.                                       *)
(***************************************************************************)
Gate == INSTANCE LlmGate WITH
            present <- [g \in Groups |-> Present(g)],
            serving <- running

ImplementsGate == Gate!Spec
=============================================================================
