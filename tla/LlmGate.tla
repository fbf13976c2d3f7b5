------------------------------ MODULE LlmGate ------------------------------
(***************************************************************************)
(* What the LLM queue promises, without its mechanism: jobs arrive at the  *)
(* end of a line, may leave from anywhere in it, and at every moment the   *)
(* Limit[g] jobs that came first are the ones being served.                *)
(***************************************************************************)
EXTENDS Integers, Sequences, SequencesExt

CONSTANTS Groups, Limit, MaxJobs

VARIABLES
    present,    \* present[g]: the jobs in the system, in order of arrival
    serving     \* serving[g]: those of them that are served

gateVars == <<present, serving>>

\* The first n jobs of the line p, or all of them.
Oldest(p, n) == SubSeq(p, 1, IF Len(p) < n THEN Len(p) ELSE n)

Init ==
    /\ present = [g \in Groups |-> <<>>]
    /\ serving = [g \in Groups |-> <<>>]

\* A new job joins the end of the line.
Arrive(g, j) ==
    /\ \A h \in Groups : ~Contains(present[h], j)
    /\ present' = [present EXCEPT ![g] = Append(@, j)]
    /\ serving' = [serving EXCEPT ![g] = Oldest(Append(present[g], j), Limit[g])]

\* The job at place i of the line leaves, served or not.
Leave(g, i) ==
    /\ present' = [present EXCEPT ![g] = RemoveAt(@, i)]
    /\ serving' = [serving EXCEPT ![g] = Oldest(RemoveAt(present[g], i), Limit[g])]

Next ==
    \E g \in Groups : \/ \E j \in 1..MaxJobs : Arrive(g, j)
                      \/ \E i \in 1..Len(present[g]) : Leave(g, i)

Spec == Init /\ [][Next]_gateVars
=============================================================================
