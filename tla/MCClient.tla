------------------------------ MODULE MCClient ------------------------------
EXTENDS Client

MCMix(start, ops, nActs, careful, fails, storage, nInflight, nPolls) ==
    [start |-> start, ops |-> ops, acts |-> nActs, careful |-> careful, fails |-> fails,
     storage |-> storage, inflight |-> nInflight, polls |-> nPolls]

\* One who waits for every answer, and whose calls are answered.
Careful(start, ops, nActs) == MCMix(start, ops, nActs, TRUE, FALSE, TRUE, 9, 1)

\* One who does not wait, with a network that fails.
Hasty(start, ops, nActs, nInflight, nPolls) == MCMix(start, ops, nActs, FALSE, TRUE, TRUE, nInflight, nPolls)

CarefulMixes == {
    Careful("page", {"submit", "language", "logout", "oauth", "password"}, 4),
    Careful("page", {"submit", "forgot", "link", "reset", "back"}, 6),
    Careful("dashboard", {"create", "import", "finish", "logout", "open"}, 6),
    Careful("home", {"go", "dashboard", "open", "logout", "reload"}, 5),
    Careful("chat", {"ask", "clear", "go"}, 6),
    Careful("search", {"query", "find", "replace", "toggle", "search"}, 6),
    Careful("write", {"source", "sources", "unsource", "select", "checklist"}, 8),
    Careful("write", {"form", "new article", "source", "sources", "select"}, 7),
    Careful("materials", {"tab", "research", "summarize", "memo", "article", "add", "remove"}, 5),
    Careful("settings", {"to users", "to basic", "new user", "grant", "activate", "delete"}, 5),
    Careful("settings", {"to users", "emailFor", "resetFor", "own"}, 5),
    Careful("settings", {"to connection", "to basic", "connection", "put"}, 7),
    Careful("settings", {"to import", "to export", "import", "export"}, 3),
    Careful("settings", {"to usage", "to backup", "backup"}, 6),
    Careful("settings", {"guide", "save", "generate", "picker", "dashboard"}, 5)}

HastyMixes == {
    MCMix("page", {"submit", "language", "oauth"}, 3, FALSE, FALSE, TRUE, 2, 0),
    Hasty("dashboard", {"create", "cancel", "open"}, 3, 2, 0),
    Hasty("dashboard", {"import", "cancel"}, 3, 1, 1),
    Hasty("dashboard", {"logout", "reload"}, 2, 3, 0),
    Hasty("chat", {"ask", "clear"}, 4, 2, 0),
    Hasty("chat", {"queue"}, 2, 2, 1),
    MCMix("chat", {"ask", "queue"}, 3, FALSE, FALSE, TRUE, 2, 1),
    Hasty("materials", {"tab", "research", "memo", "article"}, 4, 2, 0),
    Hasty("settings", {"to connection", "connection", "put", "test"}, 4, 3, 0),
    Hasty("settings", {"save", "guide", "generate", "dashboard"}, 3, 3, 0),
    Hasty("settings", {"to import", "import", "go"}, 3, 2, 1),
    MCMix("settings", {"to import", "import"}, 2, FALSE, FALSE, TRUE, 2, 2),
    MCMix("settings", {"save", "dashboard", "create"}, 4, FALSE, FALSE, TRUE, 3, 0),
    MCMix("search", {"query", "find", "replace", "toggle"}, 6, FALSE, FALSE, TRUE, 2, 0),
    MCMix("write", {"history", "compare", "select"}, 4, FALSE, FALSE, TRUE, 4, 0),
    Hasty("page", {"forgot", "link"}, 3, 2, 0),
    Hasty("materials", {"tab", "add", "remove"}, 4, 2, 0),
    Hasty("write", {"source", "sources", "unsource", "dashboard"}, 5, 2, 0),
    Hasty("write", {"form", "new article", "select"}, 5, 2, 0),
    Hasty("settings", {"to connection", "put", "test", "dashboard"}, 3, 2, 0),
    Hasty("settings", {"to users", "own", "new user", "dashboard"}, 4, 2, 0),
    Hasty("settings", {"to usage", "to backup", "backup", "to export", "export", "dashboard"}, 3, 2, 0),
    MCMix("page", {"submit", "oauth", "reload"}, 2, TRUE, FALSE, FALSE, 9, 0)}

AllMixes == CarefulMixes \cup HastyMixes
=============================================================================
