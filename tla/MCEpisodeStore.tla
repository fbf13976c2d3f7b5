-------------------------- MODULE MCEpisodeStore --------------------------
\* Instances of EpisodeStore for TLC.  Two episodes are enough for a replace-all
\* to be suspended between them; of the contents, "old" is what replace-all
\* looks for.
EXTENDS EpisodeStore

MCRewrite == [t \in Texts |-> IF t = "old" THEN "new" ELSE t]

MCMix(initial, kinds, width, nCalls, nCrashes, spools, fails) ==
    [initial |-> initial, kinds |-> kinds, width |-> width, spools |-> spools,
     fails |-> fails, calls |-> nCalls, crashes |-> nCrashes]

\* Coroutines that interleave at their awaits only; every request, one at a time;
\* the requests that index, one at a time; and everything at once, with threads,
\* spooled uploads, failures and a restart.
AllMixes ==
    {MCMix({1, 2}, OnLoop, 2, 4, 0, FALSE, TRUE),
     MCMix({1}, AllKinds, 1, 4, 0, TRUE, TRUE),
     MCMix({1, 2}, {"put", "docx", "replace"}, 1, 4, 0, TRUE, FALSE),
     MCMix({1}, AllKinds, 2, 3, 1, TRUE, TRUE)}

\* A save beside an upload that is spooled; saves beside a restore.
UploadMix == {MCMix({1}, {"put", "docx"}, 2, 2, 0, TRUE, FALSE)}

RestoreMix == {MCMix({1}, {"put", "restore"}, 2, 3, 0, FALSE, FALSE)}
=============================================================================
