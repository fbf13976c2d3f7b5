--------------------------- MODULE MCEditorPanel ---------------------------
\* Instances of EditorPanel for TLC: two episodes, so that an answer can come
\* after the other one has been chosen.
EXTENDS EditorPanel

MCMix(initial, ops, careful, fails, nTyped, nCalls, nRuns, nChecks) ==
    [initial |-> initial, ops |-> ops, careful |-> careful, fails |-> fails, typed |-> nTyped,
     calls |-> nCalls, runs |-> nRuns, checks |-> nChecks]

Basic == {"type", "select", "save"}

\* Calls that overtake each other, with failures and an unmount; a careful writer
\* who also creates episodes, with and without failing calls, and from the first
\* episode on; AI runs that follow each other, without and with their results
\* being used; a check beside an answer that changes the episode; a recognition;
\* and a careful writer with the AI, with a check and with a recognition.
AllMixes ==
    {MCMix({1, 2}, Basic \cup {"restore", "docx", "leave"}, FALSE, TRUE, 1, 2, 0, 0),
     MCMix({1}, Basic \cup {"create", "restore", "docx"}, TRUE, TRUE, 2, 3, 0, 0),
     MCMix({1}, Basic \cup {"create", "restore", "docx"}, TRUE, FALSE, 2, 3, 0, 0),
     MCMix({}, Basic \cup {"create"}, TRUE, FALSE, 2, 4, 0, 0),
     MCMix({1, 2}, {"select", "save", "ai", "leave"}, FALSE, TRUE, 0, 2, 3, 0),
     MCMix({1}, {"save", "ai", "adopt", "leave"}, FALSE, TRUE, 0, 1, 2, 0),
     MCMix({1, 2}, {"select", "save", "check", "leave"}, FALSE, FALSE, 0, 1, 0, 2),
     MCMix({1, 2}, Basic \cup {"voice"}, FALSE, FALSE, 2, 1, 0, 0),
     MCMix({1, 2}, Basic \cup {"ai", "adopt"}, TRUE, FALSE, 2, 2, 1, 0),
     MCMix({1, 2}, Basic \cup {"voice", "check"}, TRUE, FALSE, 2, 2, 0, 1),
     MCMix({1}, {"type", "save", "restore", "voice", "ai", "adopt"}, TRUE, FALSE, 2, 2, 1, 0)}

RestoreMix == {MCMix({1}, {"type", "restore"}, TRUE, FALSE, 1, 1, 0, 0)}
=============================================================================
