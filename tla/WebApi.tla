------------------------------- MODULE WebApi -------------------------------
(***************************************************************************)
(* What the screens of the web client share: the requests of lib/api.ts,   *)
(* the credentials they carry, and the place where a person is in the      *)
(* workspace of studio.tsx.  The screens are modules of their own; one is  *)
(* mounted at a time, so that they share the variable `panel`, and Client  *)
(* composes them.                                                          *)
(*                                                                         *)
(* A request is sent by a callback of the client, handled by the server in *)
(* one step or several, and answered by running what follows its `await`.  *)
(* A failing network can lose the request or the answer.  The screen may   *)
(* have been unmounted by then: what React's setters do after that is      *)
(* nothing, what the rest of the continuation does still happens.          *)
(***************************************************************************)
EXTENDS Integers, Sequences, FiniteSets, SequencesExt

CONSTANTS
    None,       \* null
    Me,         \* the account of the person at this client
    Passwords,  \* the passwords the account has had or may get
    ListLimit,  \* the default of `limit` in the handlers that list rows
    Languages,  \* codes of LANGUAGES, the fallback first
    Mixes       \* what a person does and how often, as below

\* One mix: the screen at the start, what the person does and how many times
\* in all, whether he waits for every answer before he goes on (careful),
\* whether calls may fail and the browser's storage works, how many calls he
\* leaves in flight, and how many polls of one kind may be open together.
Mix == [start : {"page", "dashboard", "home", "write", "materials", "search", "chat", "settings"},
        ops : SUBSET STRING, acts : Nat, careful : BOOLEAN, fails : BOOLEAN, storage : BOOLEAN,
        inflight : Nat, polls : Nat]

ASSUME MixesAssumption == Mixes \subseteq Mix
ASSUME ListLimitAssumption == ListLimit \in Nat \ {0}
ASSUME PasswordsAssumption == Passwords # {} /\ None \notin Passwords
ASSUME LanguagesAssumption == Languages # {}

VARIABLES
    mix,        \* the mix of this behaviour; it never changes
    acts,       \* number of things the person did so far
    calls,      \* the calls in flight, in the order they were sent
    stored,     \* the password kept in localStorage, or None
    cookie,     \* the session cookie of an OAuth sign-in is set and valid
    password,   \* the password of the account on the server
    authed,     \* studio.tsx: null, true or false
    project,    \* the client's copy of the open project, or None
    section,    \* the section of the open project
    panel,      \* the state of the mounted screen
    db          \* the rows of the server that the screens are about

\* What is there while Studio renders nothing.
NoScreen == [kind |-> "none"]

auth == <<stored, cookie, password, authed>>
place == <<project, section>>

-----------------------------------------------------------------------------
\* A value marked with the operation it belongs to: kinds differ from op to op.
Tagged(op, x) == [o \in {op} |-> x]

\* getAuth: what the browser sends with a call; no copy is kept anywhere else.
CallWith(pw, ck, op, arg) ==
    [op |-> op, arg |-> Tagged(op, arg), cred |-> pw, cookie |-> ck, live |-> TRUE, status |-> "sent", ans |-> None]

\* What a call carries and what it was answered.
Arg(i) == calls[i].arg[CHOOSE op \in DOMAIN calls[i].arg : TRUE]
Ans(i) == calls[i].ans[CHOOSE op \in DOMAIN calls[i].ans : TRUE]

Call(op, arg) == CallWith(stored, cookie, op, arg)

\* setAuth and clearAuth: nothing happens where the storage is blocked.
SetAuth(pw) == stored' = IF mix.storage THEN pw ELSE stored
ClearAuth == stored' = IF mix.storage THEN None ELSE stored

\* A thing the person does: the mix bounds how often and in which company.
User(op) ==
    /\ op \in mix.ops
    /\ acts < mix.acts
    /\ acts' = acts + 1
    /\ Len(calls) < mix.inflight
    /\ mix.careful => calls = <<>>

\* post, put, postFile, postForm and del build the body and end in api(): to the
\* client they are one operation, the call that is put into flight.
Send(cs) == calls' = calls \o cs

\* The call is answered and its continuation sends the calls cs.
Continue(i, cs) == calls' = RemoveAt(calls, i) \o cs

\* The continuation of an answer, or of an error that api() threw.
Returned(i, op) == calls[i].op = op /\ calls[i].status = "ok"
Thrown(i, op) == calls[i].op = op /\ calls[i].status = "failed"

\* The screen that made these calls is unmounted; the whole workspace is, which
\* leaves nothing to do for most continuations.
Orphan(cs) == [i \in DOMAIN cs |-> [cs[i] EXCEPT !.live = FALSE]]
Void(cs) == [i \in DOMAIN cs |-> [cs[i] EXCEPT !.live = FALSE,
                                  !.op = IF @ \in {"import", "poll", "logout"} THEN @ ELSE "void"]]

\* auth.py lets a request of an active account through that carries the password or
\* the cookie; which of the two decides when they disagree is up to the middleware
\* of editor_common.
MayPass(c) == Me \in db.active /\ (c.cred = password \/ c.cookie)
MayDeny(c) == Me \notin db.active \/ IF c.cred = None THEN ~c.cookie ELSE c.cred # password

\* change_password: db.hash counts the hashes the account of Me has had.
Rehashed(d) == [d EXCEPT !.hash = @ + 1]

\* The server handles call i in one step, with this answer.
Serve(i, ans) == calls' = [calls EXCEPT ![i].status = "ok", ![i].ans = Tagged(calls[i].op, ans)]

\* It refuses, after it was let through, with an error that is not a 401.
Refuse(i) == calls' = [calls EXCEPT ![i].status = "failed"]

\* The routes that need no sign-in.
Public == {"providers", "forgot", "confirm", "logout"}

Arrives(i, op) ==
    /\ calls[i].op = op
    /\ calls[i].status = "sent"
    /\ op \in Public \/ MayPass(calls[i])

\* The network loses the call before or after it was handled, or the server is
\* restarted while it is: fetch() or api() throws.
Lost(i) ==
    /\ mix.fails
    /\ calls[i].status # "failed"
    /\ Refuse(i)

\* Mutant: every refusal is taken for a 401.
FaultyDenied(i) ==
    /\ \/ calls[i].status = "sent" /\ calls[i].op \notin Public /\ MayDeny(calls[i])
       \/ calls[i].status = "failed"
    /\ ClearAuth
    /\ authed' = "out"

\* A 401: onUnauthorized forgets the credentials and shows the login screen,
\* whatever has been stored since the call was sent.
Denied(i) ==
    /\ calls[i].status = "sent"
    /\ calls[i].op \notin Public
    /\ MayDeny(calls[i])
    /\ ClearAuth
    /\ authed' = "out"
=============================================================================
