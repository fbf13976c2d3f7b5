---------------------------- MODULE MCLlmQueue ----------------------------
\* Instances of LlmQueue for TLC: the local group serves one call at a time, the
\* cloud group two (the code's defaults are 1 and 4; two is the smallest limit
\* at which a slot can be freed while another stays taken).
EXTENDS LlmQueue

MCGroups == {"ollama", "cloud"}

MCLimit == [g \in MCGroups |-> IF g = "ollama" THEN 1 ELSE 2]
=============================================================================
