---------------------------- MODULE ClientProofs ----------------------------
(***************************************************************************)
(* Proofs about Client, for any mixes, passwords, languages, names and     *)
(* bounds: the types of what the screens share, who is signed in and with  *)
(* which credentials, the language of the workspace, the comparison of the *)
(* writing screen and the replacement of the search screen.                *)
(***************************************************************************)
EXTENDS Client, WebApiProofs

\* The screens of the workspace, and the calls that nothing else makes.
Work == {"dashboard"} \cup Sections
WorkOps == AiCalls \cup {"create", "project", "save"}

CallFields == {"op", "arg", "cred", "cookie", "live", "status", "ans"}
DbFields == {"projects", "jobs", "chat", "answering", "texts", "notes", "memos", "templates", "numbers", "sources",
             "config", "backups", "users", "admins", "active", "mail", "hash"}

-----------------------------------------------------------------------------
(***************************************************************************)
(* The inductive invariant, in parts.                                      *)
(***************************************************************************)

\* What a call of op carries, x, and what it is answered, y, when the rows are d.
ArgOK(d, op, x) ==
    /\ op \in {"confirm", "own", "reset"} => x.pw \in Passwords
    /\ op = "save" => x.id \in DOMAIN d.projects
    /\ op = "project" => x \in DOMAIN d.projects
    /\ op = "import" => x.into = None \/ x.into \in DOMAIN d.projects
    /\ op = "poll" => x.job \in DOMAIN d.jobs
    /\ op \in {"add", "remove"} => x.tab \in {"memos", "templates"}

AnsOK(d, op, x, y) ==
    /\ op \in {"create", "project", "save"} => y.id \in DOMAIN d.projects
    /\ op = "projects" => IsList(y)
    /\ op = "import" => y \in DOMAIN d.jobs
    /\ op = "poll" /\ y = "completed" => d.jobs[x.job].status = "completed"
    /\ op = "revision" => OfEpisode(x)

CallOK(d, c) ==
    /\ DOMAIN c = CallFields
    /\ c.live \in BOOLEAN
    /\ c.status \in {"sent", "asked", "ok", "failed"}
    /\ c.status = "asked" => c.op \in {"chat", "void"}
    /\ c.op # "void" => DOMAIN c.arg = {c.op} /\ ArgOK(d, c.op, c.arg[c.op])
    /\ c.op # "void" /\ c.status = "ok" =>
          DOMAIN c.ans = {c.op} /\ AnsOK(d, c.op, c.arg[c.op], c.ans[c.op])

CallsOK == IsList(calls) /\ \A i \in DOMAIN calls : CallOK(db, calls[i])

\* Outside of the workspace its calls have been given up.
VoidOK == panel.kind \notin Work => \A i \in DOMAIN calls : calls[i].op \notin WorkOps

DbOK(d) ==
    /\ DOMAIN d = DbFields
    /\ IsList(d.projects) /\ IsList(d.jobs)
    /\ \A j \in DOMAIN d.jobs :
          /\ DOMAIN d.jobs[j] = {"status", "into"}
          /\ d.jobs[j].status \in {"queued", "running"} \cup over
          /\ d.jobs[j].into = None \/ d.jobs[j].into \in DOMAIN d.projects
          /\ d.jobs[j].status \in {"running", "completed"} => d.jobs[j].into \in DOMAIN d.projects
    /\ d.hash \in Nat

\* The import that a panel p follows.
ImportOK(p, d) ==
    "import" \in DOMAIN p /\ p.import # None =>
        /\ DOMAIN p.import = {"inst", "busy", "job"}
        /\ p.import.job # None /\ p.import.job.status = "completed" =>
              /\ p.import.job.id \in DOMAIN d.jobs
              /\ d.jobs[p.import.job.id].status = "completed"

PanelOK ==
    /\ "kind" \in DOMAIN panel
    /\ panel.kind \in {"none", "reset", "login"} \cup Work
    /\ panel.kind = "login" => "language" \in DOMAIN panel /\ panel.language \in Languages
    /\ panel.kind = "write" => "diff" \in DOMAIN panel
    /\ panel.kind = "search" => {"replaceBusy", "result", "asked", "q"} \subseteq DOMAIN panel /\ panel.q \in Names
    /\ panel.kind \in {"dashboard", "settings"} => "import" \in DOMAIN panel
    /\ ImportOK(panel, db)
    /\ ComparesOneEpisode

WatchOK == \A w \in watch : DOMAIN w = {"job", "inst", "on", "noticed"} /\ w.job \in DOMAIN db.jobs

PlaceOK ==
    /\ authed \in {"closed", "unknown", "in", "out"}
    /\ section \in Sections
    /\ panel.kind \in Work => authed = "in"
    /\ panel.kind = "login" => authed = "out"
    /\ panel.kind = "none" => authed \in {"closed", "unknown"}
    /\ authed \in {"closed", "unknown"} => panel.kind \in {"none", "reset"}
    /\ project # None => panel.kind \in Sections
    /\ panel.kind \in Sections => panel.kind = section /\ project.id \in DOMAIN db.projects
    /\ panel.kind \notin Work => shownIn = None

LlmOK ==
    IF panel.kind \in Work
    THEN /\ llm \in Activity
         /\ Active(llm) <=> llm.poller # None
         /\ llm.items = Number(calls, AiCalls)
    ELSE llm = None

AuthOK ==
    /\ mix \in Mixes
    /\ acts \in 0..mix.acts
    /\ stored \in Passwords \cup {None}
    /\ cookie \in BOOLEAN
    /\ password \in Passwords
    /\ mix.storage \/ stored = None
    /\ link \in Nat \cup {None}
    /\ {language, shownIn, chosen} \subseteq Languages \cup {None}

\* The choice is kept, shown on the login screen, and what the workspace is shown in.
ChoiceOK ==
    mix.storage /\ chosen # None =>
        /\ language = chosen
        /\ OnLogin => panel.language = chosen
        /\ shownIn # None => shownIn = chosen

\* One who is careful has no call in flight with other credentials than the stored ones.
CredsOK == mix.careful => stored = None \/ \A i \in DOMAIN calls : calls[i].cred = stored

\* One who has signed out has no credentials, nor has a call of his; none of those that
\* would let him in was let through.
LeftOK ==
    /\ signedOut \in {"no", "leaving", "yes"}
    /\ signedOut # "no" => stored = None
    /\ \A i \in DOMAIN calls : calls[i].op = "logout" /\ calls[i].status = "ok" => ~cookie
    /\ signedOut = "yes" =>
          /\ ~cookie
          /\ authed # "in"
          /\ \A i \in DOMAIN calls :
                /\ calls[i].cred = None /\ ~calls[i].cookie
                /\ calls[i].op \in {"me", "probe"} => calls[i].status # "ok"

\* The texts d as they were when the replacement was confirmed, and after it.
Untouched(d, asked) == \A k \in DOMAIN asked.texts : k \in DOMAIN d /\ d[k] = asked.texts[k]
Exact(d, asked) ==
    LET a == asked.arg IN
    \A k \in DOMAIN asked.texts :
        /\ k \in DOMAIN d
        /\ IF k \in a.ids THEN Hits(d[k], a.q, a.cs) = {}
                               /\ asked.texts[k] \ Hits(asked.texts[k], a.q, a.cs) \subseteq d[k]
           ELSE d[k] = asked.texts[k]

\* The replacement that was confirmed is the only one, and is still to come, has come,
\* or is over.
ReplaceOK ==
    panel.kind = "search" /\ panel.asked.alone /\ ~mix.fails =>
        IF panel.replaceBusy
        THEN /\ Number(calls, {"replace"}) = 1
             /\ panel.asked.arg.q \in Names
             /\ \A i \in DOMAIN calls : calls[i].op = "replace" =>
                   /\ calls[i].arg = Tagged("replace", panel.asked.arg)
                   /\ calls[i].live
                   /\ \/ calls[i].status = "sent" /\ Untouched(db.texts, panel.asked)
                      \/ calls[i].status = "ok" /\ Exact(db.texts, panel.asked)
        ELSE /\ Number(calls, {"replace"}) = 0
             /\ panel.result => Exact(db.texts, panel.asked)

Inv ==
    /\ AuthOK /\ PlaceOK /\ PanelOK /\ LlmOK /\ CallsOK /\ VoidOK /\ DbOK(db) /\ WatchOK
    /\ ChoiceOK /\ CredsOK /\ LeftOK /\ ReplaceOK

-----------------------------------------------------------------------------
(***************************************************************************)
(* What a step does to the calls and to the screen while nobody signs in   *)
(* or out and no other screen takes the place of this one.                 *)
(***************************************************************************)

NewCall(c) ==
    /\ CallOK(db', c)
    /\ c.status = "sent"
    /\ c.cred = stored' /\ c.cookie = cookie'
    /\ c.op \in WorkOps => panel'.kind \in Work

\* Call b is call c now.
OldCall(b, c) ==
    /\ CallOK(db', c)
    /\ c.op \in {b.op, "void"}
    /\ c.cred = b.cred /\ c.cookie = b.cookie
    /\ c.status = "ok" =>
          \/ b.status = "ok"
          \/ b.op \in (Public \ {"logout"}) \cup {"chat", "void"}
          \/ b.op = "logout" /\ ~cookie'
          \/ MayPass(b) /\ b.op \notin Public

CallsStep ==
    /\ IsList(calls')
    /\ \A k \in DOMAIN calls' : NewCall(calls'[k]) \/ \E j \in DOMAIN calls : OldCall(calls[j], calls'[k])

\* The replacements in flight are the same ones.
ReplacesKept ==
    /\ Number(calls', {"replace"}) = Number(calls, {"replace"})
    /\ \A k \in DOMAIN calls' : calls'[k].op = "replace" => \E j \in DOMAIN calls : calls'[k] = calls[j]

\* The rows of the server that calls refer to are still there.
DbGrows(d, e) ==
    /\ DOMAIN d.projects \subseteq DOMAIN e.projects
    /\ DOMAIN d.jobs \subseteq DOMAIN e.jobs
    /\ \A j \in DOMAIN d.jobs : d.jobs[j].status = "completed" => e.jobs[j].status = "completed"

TextsKept(d, e) == \A k \in DOMAIN d.texts : k \in DOMAIN e.texts /\ e.texts[k] = d.texts[k]

DbStep == DbOK(db') /\ DbGrows(db, db') /\ TextsKept(db, db')

\* A step that has nothing to do with them changes none of these.
DbKept ==
    /\ DOMAIN db' = DOMAIN db
    /\ \A f \in {"projects", "jobs", "texts", "hash"} : db'[f] = db[f]

PanelKept ==
    /\ DOMAIN panel' = DOMAIN panel
    /\ \A f \in {"kind", "language", "diff", "import", "replaceBusy", "result", "asked", "q"} :
          f \in DOMAIN panel => panel'[f] = panel[f]

LEMMA DbKeptStep ==
    ASSUME DbOK(db), DbKept
    PROVE  DbStep
  <1>1. db'.projects = db.projects /\ db'.jobs = db.jobs /\ db'.texts = db.texts /\ db'.hash = db.hash
    BY DEF DbKept
  <1> QED
    BY <1>1 DEF DbStep, DbOK, DbGrows, TextsKept, DbKept

\* What refers to rows of the server goes on to do so when these grow.
LEMMA CallStays ==
    ASSUME NEW d, NEW e, DbGrows(d, e), NEW c, CallOK(d, c)
    PROVE  CallOK(e, c)
  BY DEF CallOK, ArgOK, AnsOK, DbGrows

LEMMA ImportStays ==
    ASSUME NEW d, NEW e, DbGrows(d, e), NEW p, ImportOK(p, d)
    PROVE  ImportOK(p, e)
  BY DEF ImportOK, DbGrows

-----------------------------------------------------------------------------
LEMMA NewCallIs ==
    ASSUME NEW op, NEW x, NEW pw, NEW ck, pw = stored', ck = cookie', ArgOK(db', op, x),
           op \in WorkOps => panel'.kind \in Work
    PROVE  NewCall(CallWith(pw, ck, op, x)) /\ CallWith(pw, ck, op, x).op = op
  BY DEF NewCall, CallOK, CallWith, CallFields, Tagged

LEMMA ArgIs ==
    ASSUME CallsOK, NEW i \in DOMAIN calls, calls[i].op # "void"
    PROVE  /\ Arg(i) = calls[i].arg[calls[i].op]
           /\ ArgOK(db, calls[i].op, Arg(i))
           /\ calls[i].status = "ok" =>
                 Ans(i) = calls[i].ans[calls[i].op] /\ AnsOK(db, calls[i].op, Arg(i), Ans(i))
  <1>1. CallOK(db, calls[i])
    BY DEF CallsOK
  <1>2. DOMAIN calls[i].arg = {calls[i].op} /\ ArgOK(db, calls[i].op, calls[i].arg[calls[i].op])
    BY <1>1 DEF CallOK
  <1>3. Arg(i) = calls[i].arg[calls[i].op]
    BY <1>2 DEF Arg
  <1>4. ASSUME calls[i].status = "ok"
        PROVE  Ans(i) = calls[i].ans[calls[i].op] /\ AnsOK(db, calls[i].op, Arg(i), Ans(i))
    <2>1. DOMAIN calls[i].ans = {calls[i].op}
          /\ AnsOK(db, calls[i].op, calls[i].arg[calls[i].op], calls[i].ans[calls[i].op])
      BY <1>1, <1>4 DEF CallOK
    <2>2. Ans(i) = calls[i].ans[calls[i].op]
      BY <2>1 DEF Ans
    <2> QED
      BY <1>3, <2>1, <2>2
  <1> QED
    BY <1>2, <1>3, <1>4

LEMMA OldCallSame ==
    ASSUME NEW b, CallOK(db, b), DbGrows(db, db')
    PROVE  OldCall(b, b)
  BY CallStays DEF OldCall

LEMMA KeepCalls ==
    ASSUME CallsOK, DbGrows(db, db'), UNCHANGED calls
    PROVE  CallsStep /\ ReplacesKept /\ \A S : Number(calls', S) = Number(calls, S)
  BY OldCallSame DEF CallsOK, CallsStep, ReplacesKept

LEMMA SendCalls ==
    ASSUME CallsOK, DbGrows(db, db'), NEW cs, IsList(cs), \A k \in DOMAIN cs : NewCall(cs[k]), Send(cs)
    PROVE  CallsStep /\ \A S : Number(calls', S) = Number(calls, S) + Number(cs, S)
  <1>1. /\ calls' = calls \o cs
        /\ IsList(calls')
        /\ ToSet(calls') = ToSet(calls) \cup ToSet(cs)
    BY JoinList DEF Send, CallsOK
  <1>2. \A k \in DOMAIN calls' : calls'[k] \in ToSet(calls) \cup ToSet(cs)
    BY <1>1 DEF ToSet
  <1>3. \A k \in DOMAIN calls' : NewCall(calls'[k]) \/ \E j \in DOMAIN calls : OldCall(calls[j], calls'[k])
    BY <1>2, OldCallSame DEF ToSet, CallsOK
  <1>4. \A S : Number(calls', S) = Number(calls, S) + Number(cs, S)
    BY <1>1, NumberJoin DEF CallsOK
  <1> QED
    BY <1>1, <1>3, <1>4 DEF CallsStep

LEMMA ContinueCalls ==
    ASSUME CallsOK, DbGrows(db, db'), NEW cs, IsList(cs), \A k \in DOMAIN cs : NewCall(cs[k]),
           NEW i \in DOMAIN calls, Continue(i, cs)
    PROVE  /\ CallsStep
           /\ \A S : Number(calls', S) = Number(calls, S) - (IF calls[i].op \in S THEN 1 ELSE 0) + Number(cs, S)
           /\ \A k \in DOMAIN calls' : calls'[k] \in ToSet(calls) \cup ToSet(cs)
  <1>1. /\ IsList(RemoveAt(calls, i))
        /\ ToSet(RemoveAt(calls, i)) \subseteq ToSet(calls)
        /\ \A S : Number(RemoveAt(calls, i), S) = Number(calls, S) - IF calls[i].op \in S THEN 1 ELSE 0
    BY RemoveList, NumberRemove DEF CallsOK
  <1>2. /\ calls' = RemoveAt(calls, i) \o cs
        /\ IsList(calls')
        /\ ToSet(calls') \subseteq ToSet(calls) \cup ToSet(cs)
    BY <1>1, JoinList DEF Continue
  <1>3. \A k \in DOMAIN calls' : calls'[k] \in ToSet(calls) \cup ToSet(cs)
    BY <1>2 DEF ToSet
  <1>4. \A k \in DOMAIN calls' : NewCall(calls'[k]) \/ \E j \in DOMAIN calls : OldCall(calls[j], calls'[k])
    BY <1>3, OldCallSame DEF ToSet, CallsOK
  <1>5. \A S : Number(calls', S) = Number(RemoveAt(calls, i), S) + Number(cs, S)
    BY <1>1, <1>2, NumberJoin
  <1> QED
    BY <1>1, <1>2, <1>3, <1>4, <1>5 DEF CallsStep

\* Call i becomes c, as EXCEPT has it.
LEMMA ChangeCall ==
    ASSUME CallsOK, DbGrows(db, db'), NEW i \in DOMAIN calls, NEW c, calls' = [calls EXCEPT ![i] = c],
           OldCall(calls[i], c), c.op = calls[i].op
    PROVE  /\ CallsStep
           /\ \A S : Number(calls', S) = Number(calls, S)
           /\ \A k \in DOMAIN calls' : k \in DOMAIN calls /\ calls'[k] = IF k = i THEN c ELSE calls[k]
  <1>1. DOMAIN calls' = DOMAIN calls /\ \A k \in DOMAIN calls : calls'[k] = IF k = i THEN c ELSE calls[k]
    OBVIOUS
  <1>2. IsList(calls')
    BY MapList DEF CallsOK
  <1>3. \A k \in DOMAIN calls' : OldCall(calls[k], calls'[k])
    BY <1>1, OldCallSame DEF CallsOK
  <1>4. \A S : Number(calls', S) = Number(calls, S)
    BY <1>1, NumberSame
  <1> QED
    BY <1>1, <1>2, <1>3, <1>4 DEF CallsStep

LEMMA ServeCall ==
    ASSUME CallsOK, DbGrows(db, db'), NEW i \in DOMAIN calls, NEW y, Serve(i, y),
           calls[i].op # "void" => AnsOK(db', calls[i].op, Arg(i), y),
           \/ calls[i].op \in (Public \ {"logout"}) \cup {"chat", "void"}
           \/ calls[i].op = "logout" /\ ~cookie'
           \/ MayPass(calls[i]) /\ calls[i].op \notin Public
    PROVE  /\ CallsStep
           /\ \A S : Number(calls', S) = Number(calls, S)
           /\ \A k \in DOMAIN calls' : k \in DOMAIN calls /\ (k # i => calls'[k] = calls[k])
           /\ calls'[i] = [calls[i] EXCEPT !.status = "ok", !.ans = Tagged(calls[i].op, y)]
  <1> DEFINE c == [calls[i] EXCEPT !.status = "ok", !.ans = Tagged(calls[i].op, y)]
  <1>1. CallOK(db, calls[i]) /\ CallOK(db', calls[i])
    BY CallStays DEF CallsOK
  <1>2. calls' = [calls EXCEPT ![i] = c]
    BY DEF Serve
  <1>3. /\ DOMAIN c = CallFields
        /\ c.op = calls[i].op /\ c.arg = calls[i].arg /\ c.cred = calls[i].cred /\ c.cookie = calls[i].cookie
        /\ c.live = calls[i].live /\ c.status = "ok" /\ c.ans = Tagged(calls[i].op, y)
    BY <1>1 DEF CallOK, CallFields
  <1>4. calls[i].op # "void" => Arg(i) = calls[i].arg[calls[i].op]
    BY ArgIs
  <1>5. DOMAIN c.ans = {c.op} /\ c.ans[c.op] = y
    BY <1>3 DEF Tagged
  <1> HIDE DEF c
  <1>6. CallOK(db', c)
    BY <1>1, <1>3, <1>4, <1>5 DEF CallOK
  <1>7. OldCall(calls[i], c)
    BY <1>3, <1>6 DEF OldCall
  <1>8. /\ CallsStep
        /\ \A S : Number(calls', S) = Number(calls, S)
        /\ \A k \in DOMAIN calls' : k \in DOMAIN calls /\ calls'[k] = IF k = i THEN c ELSE calls[k]
    BY <1>2, <1>3, <1>7, ChangeCall
  <1>9. calls'[i] = c
    BY <1>2
  <1> QED
    BY <1>8, <1>9 DEF c

LEMMA RefuseCall ==
    ASSUME CallsOK, DbGrows(db, db'), NEW i \in DOMAIN calls, Refuse(i)
    PROVE  /\ CallsStep
           /\ \A S : Number(calls', S) = Number(calls, S)
           /\ \A k \in DOMAIN calls' : k \in DOMAIN calls /\ (k # i => calls'[k] = calls[k])
           /\ calls'[i] = [calls[i] EXCEPT !.status = "failed"]
  <1> DEFINE c == [calls[i] EXCEPT !.status = "failed"]
  <1>1. CallOK(db, calls[i]) /\ CallOK(db', calls[i])
    BY CallStays DEF CallsOK
  <1>2. calls' = [calls EXCEPT ![i] = c]
    BY DEF Refuse
  <1>3. /\ DOMAIN c = CallFields
        /\ c.op = calls[i].op /\ c.arg = calls[i].arg /\ c.cred = calls[i].cred /\ c.cookie = calls[i].cookie
        /\ c.live = calls[i].live /\ c.status = "failed"
    BY <1>1 DEF CallOK, CallFields
  <1> HIDE DEF c
  <1>4. OldCall(calls[i], c)
    BY <1>1, <1>3 DEF OldCall, CallOK
  <1>5. /\ CallsStep
        /\ \A S : Number(calls', S) = Number(calls, S)
        /\ \A k \in DOMAIN calls' : k \in DOMAIN calls /\ calls'[k] = IF k = i THEN c ELSE calls[k]
    BY <1>2, <1>3, <1>4, ChangeCall
  <1>6. calls'[i] = c
    BY <1>2
  <1> QED
    BY <1>5, <1>6 DEF c

-----------------------------------------------------------------------------
(***************************************************************************)
(* Steps that leave the calls to the AI and the replacements as they are.  *)
(***************************************************************************)
Apart == AiCalls \cup {"replace"}

CallsKept == CallsStep /\ ReplacesKept /\ Number(calls', AiCalls) = Number(calls, AiCalls)

\* New calls, none of which is one of those.
PlainCalls(cs) == IsList(cs) /\ \A k \in DOMAIN cs : NewCall(cs[k]) /\ cs[k].op \notin Apart

LEMMA NoneApart ==
    ASSUME NEW cs, PlainCalls(cs)
    PROVE  Number(cs, AiCalls) = 0 /\ Number(cs, {"replace"}) = 0
  BY NumberNone DEF Apart, PlainCalls

LEMMA PlainNone == PlainCalls(<<>>)
  BY EmptyList DEF PlainCalls

LEMMA PlainOne ==
    ASSUME NEW c, NewCall(c), c.op \notin Apart
    PROVE  PlainCalls(<<c>>)
  BY OneList DEF PlainCalls

LEMMA PlainJoin ==
    ASSUME NEW cs, NEW ds, PlainCalls(cs), PlainCalls(ds)
    PROVE  PlainCalls(cs \o ds)
  <1>1. IsList(cs \o ds) /\ ToSet(cs \o ds) = ToSet(cs) \cup ToSet(ds)
    BY JoinList DEF PlainCalls
  <1>2. \A k \in DOMAIN (cs \o ds) : (cs \o ds)[k] \in ToSet(cs) \cup ToSet(ds)
    BY <1>1 DEF ToSet
  <1> QED
    BY <1>1, <1>2 DEF PlainCalls, ToSet

\* Calls that something is claimed of; the others carry what they like.
TypedOps == Apart \cup {"create", "project", "save", "confirm", "own", "reset", "import", "poll", "add", "remove"}

LEMMA PlainCall ==
    ASSUME UNCHANGED <<stored, cookie>>, NEW op, op \notin TypedOps, NEW x
    PROVE  NewCall(Call(op, x)) /\ PlainCalls(<<Call(op, x)>>)
  <1>1. ArgOK(db', op, x) /\ op \notin WorkOps /\ op \notin Apart
    BY DEF ArgOK, TypedOps, WorkOps, Apart
  <1>2. NewCall(Call(op, x)) /\ Call(op, x).op = op
    BY <1>1, NewCallIs DEF Call
  <1> QED
    BY <1>1, <1>2, PlainOne

LEMMA PlainLive ==
    ASSUME UNCHANGED <<stored, cookie>>, NEW op, op \notin TypedOps, NEW x, NEW b \in BOOLEAN
    PROVE  PlainCalls(<<[Call(op, x) EXCEPT !.live = b]>>)
  <1>1. ArgOK(db', op, x) /\ op \notin WorkOps /\ op \notin Apart
    BY DEF ArgOK, TypedOps, WorkOps, Apart
  <1>2. NewCall([Call(op, x) EXCEPT !.live = b]) /\ [Call(op, x) EXCEPT !.live = b].op = op
    BY <1>1 DEF NewCall, CallOK, CallWith, Call, CallFields, Tagged
  <1> QED
    BY <1>1, <1>2, PlainOne

LEMMA WorkCall ==
    ASSUME UNCHANGED <<stored, cookie>>, NEW op, op \notin Apart, NEW x, ArgOK(db', op, x),
           op \in WorkOps => panel'.kind \in Work
    PROVE  NewCall(Call(op, x)) /\ PlainCalls(<<Call(op, x)>>)
  <1>1. NewCall(Call(op, x)) /\ Call(op, x).op = op
    BY NewCallIs DEF Call
  <1> QED
    BY <1>1, PlainOne

LEMMA SendPlain ==
    ASSUME CallsOK, DbGrows(db, db'), NEW cs, PlainCalls(cs), Send(cs)
    PROVE  CallsKept
  <1>1. CallsStep /\ \A S : Number(calls', S) = Number(calls, S) + Number(cs, S)
    BY SendCalls DEF PlainCalls
  <1>2. Number(cs, AiCalls) = 0 /\ Number(cs, {"replace"}) = 0
    BY NoneApart
  <1>3. Number(calls, AiCalls) \in Nat /\ Number(calls, {"replace"}) \in Nat
    BY NumberType DEF CallsOK
  <1>4. ASSUME NEW k \in DOMAIN calls', calls'[k].op = "replace" PROVE \E j \in DOMAIN calls : calls'[k] = calls[j]
    <2>1. calls'[k] \in ToSet(calls) \cup ToSet(cs)
      BY JoinList DEF Send, CallsOK, ToSet, PlainCalls
    <2> QED
      BY <2>1, <1>4 DEF ToSet, Apart, PlainCalls
  <1> QED
    BY <1>1, <1>2, <1>3, <1>4 DEF CallsKept, ReplacesKept

LEMMA ContinuePlain ==
    ASSUME CallsOK, DbGrows(db, db'), NEW cs, PlainCalls(cs),
           NEW i \in DOMAIN calls, calls[i].op \notin Apart, Continue(i, cs)
    PROVE  CallsKept
  <1>1. /\ CallsStep
        /\ \A S : Number(calls', S) = Number(calls, S) - (IF calls[i].op \in S THEN 1 ELSE 0) + Number(cs, S)
        /\ \A k \in DOMAIN calls' : calls'[k] \in ToSet(calls) \cup ToSet(cs)
    BY ContinueCalls DEF PlainCalls
  <1>2. Number(cs, AiCalls) = 0 /\ Number(cs, {"replace"}) = 0
    BY NoneApart
  <1>3. Number(calls, AiCalls) \in Nat /\ Number(calls, {"replace"}) \in Nat
    BY NumberType DEF CallsOK
  <1>4. calls[i].op \notin AiCalls /\ calls[i].op \notin {"replace"}
    BY DEF Apart
  <1>5. Number(calls', AiCalls) = Number(calls, AiCalls) /\ Number(calls', {"replace"}) = Number(calls, {"replace"})
    BY <1>1, <1>2, <1>3, <1>4
  <1>6. ASSUME NEW k \in DOMAIN calls', calls'[k].op = "replace" PROVE \E j \in DOMAIN calls : calls'[k] = calls[j]
    BY <1>1, <1>6 DEF ToSet, Apart, PlainCalls
  <1> QED
    BY <1>1, <1>5, <1>6 DEF CallsKept, ReplacesKept

LEMMA ContinueEnd ==
    ASSUME CallsOK, DbGrows(db, db'), NEW i \in DOMAIN calls, calls[i].op \notin Apart, Continue(i, <<>>)
    PROVE  CallsKept
  BY ContinuePlain, PlainNone

LEMMA ServePlain ==
    ASSUME CallsOK, DbGrows(db, db'), NEW i \in DOMAIN calls, NEW y, Serve(i, y), calls[i].op # "replace",
           calls[i].op # "void" => AnsOK(db', calls[i].op, Arg(i), y),
           \/ calls[i].op \in (Public \ {"logout"}) \cup {"chat", "void"}
           \/ calls[i].op = "logout" /\ ~cookie'
           \/ MayPass(calls[i]) /\ calls[i].op \notin Public
    PROVE  CallsKept
  <1>1. /\ CallsStep
        /\ \A S : Number(calls', S) = Number(calls, S)
        /\ \A k \in DOMAIN calls' : k \in DOMAIN calls /\ (k # i => calls'[k] = calls[k])
        /\ calls'[i] = [calls[i] EXCEPT !.status = "ok", !.ans = Tagged(calls[i].op, y)]
    BY ServeCall
  <1>2. "op" \in DOMAIN calls[i]
    BY DEF CallsOK, CallOK, CallFields
  <1>3. calls'[i].op # "replace"
    BY <1>1, <1>2
  <1> QED
    BY <1>1, <1>3 DEF CallsKept, ReplacesKept

LEMMA RefusePlain ==
    ASSUME CallsOK, DbGrows(db, db'), NEW i \in DOMAIN calls, Refuse(i), calls[i].op # "replace"
    PROVE  CallsKept
  <1>1. /\ CallsStep
        /\ \A S : Number(calls', S) = Number(calls, S)
        /\ \A k \in DOMAIN calls' : k \in DOMAIN calls /\ (k # i => calls'[k] = calls[k])
        /\ calls'[i] = [calls[i] EXCEPT !.status = "failed"]
    BY RefuseCall
  <1>2. "op" \in DOMAIN calls[i]
    BY DEF CallsOK, CallOK, CallFields
  <1>3. calls'[i].op # "replace"
    BY <1>1, <1>2
  <1> QED
    BY <1>1, <1>3 DEF CallsKept, ReplacesKept

\* Answers that something is claimed of.
AnswerOps == {"create", "project", "save", "projects", "import", "poll", "revision"}

LEMMA ServeQuiet ==
    ASSUME CallsOK, DbGrows(db, db'), NEW i \in DOMAIN calls, MayPass(calls[i]),
           calls[i].op \notin Public \cup AnswerOps \cup {"replace"}, (\E y : Serve(i, y)) \/ Refuse(i)
    PROVE  CallsKept
  <1>1. \A y : AnsOK(db', calls[i].op, Arg(i), y)
    BY DEF AnsOK, AnswerOps
  <1>2. ASSUME NEW y, Serve(i, y) PROVE CallsKept
    BY <1>1, <1>2, ServePlain
  <1> QED
    BY <1>2, RefusePlain

-----------------------------------------------------------------------------
(***************************************************************************)
(* Steps of the screens: one that Stays preserves the invariant, whatever  *)
(* screen it belongs to.                                                   *)
(***************************************************************************)
Still ==
    /\ UNCHANGED <<mix, stored, authed, place, language, shownIn, chosen, signedOut>>
    /\ cookie' \in {cookie, FALSE}

Stays ==
    /\ acts' \in 0..mix.acts /\ password' \in Passwords /\ link' \in Nat \cup {None}
    /\ panel'.kind = panel.kind
    /\ OnLogin => panel'.language = panel.language
    /\ CallsStep /\ DbOK(db') /\ DbGrows(db, db')
    /\ PanelOK' /\ LlmOK' /\ ReplaceOK' /\ WatchOK'

LEMMA PanelStays ==
    ASSUME PanelOK, DbGrows(db, db'), PanelKept
    PROVE  PanelOK' /\ panel'.kind = panel.kind /\ (OnLogin => panel'.language = panel.language)
  <1>1. panel'.kind = panel.kind
    BY DEF PanelOK, PanelKept
  <1>2. panel.kind = "login" => panel'.language = panel.language
    BY DEF PanelOK, PanelKept
  <1>3. ImportOK(panel, db')
    BY ImportStays DEF PanelOK
  <1>4. ImportOK(panel', db')
    <2>1. "import" \in DOMAIN panel' => "import" \in DOMAIN panel /\ panel'.import = panel.import
      BY DEF PanelKept
    <2> QED
      BY <1>3, <2>1 DEF ImportOK
  <1>5. ComparesOneEpisode'
    <2>1. panel.kind = "write" => panel'.diff = panel.diff
      BY DEF PanelOK, PanelKept
    <2> QED
      BY <1>1, <2>1 DEF PanelOK, ComparesOneEpisode, OnWrite
  <1>6. panel.kind = "search" => panel'.q = panel.q
    BY DEF PanelOK, PanelKept
  <1> QED
    BY <1>1, <1>2, <1>4, <1>5, <1>6 DEF PanelOK, PanelKept, OnLogin

\* No replacement is confirmed, ends, or is said to be done.
SearchKept ==
    /\ panel'.kind = panel.kind
    /\ panel.kind = "search" => /\ panel'.asked = panel.asked /\ panel'.replaceBusy = panel.replaceBusy
                                /\ panel'.result => panel.result

LEMMA ReplaceStays ==
    ASSUME ReplaceOK, SearchKept, ReplacesKept, TextsKept(db, db'), UNCHANGED mix
    PROVE  ReplaceOK'
  <1> SUFFICES ASSUME panel.kind = "search", panel.asked.alone, ~mix.fails
               PROVE  ReplaceOK'
    BY DEF ReplaceOK, SearchKept
  <1>1. /\ panel'.kind = "search" /\ panel'.asked = panel.asked
        /\ panel'.replaceBusy = panel.replaceBusy /\ (panel'.result => panel.result)
    BY DEF SearchKept
  <1>2. Number(calls', {"replace"}) = Number(calls, {"replace"})
    BY DEF ReplacesKept
  <1>3. Untouched(db.texts, panel.asked) => Untouched(db'.texts, panel.asked)
    BY DEF Untouched, TextsKept
  <1>4. Exact(db.texts, panel.asked) => Exact(db'.texts, panel.asked)
    BY DEF Exact, TextsKept
  <1>5. CASE panel.replaceBusy
    <2>1. /\ Number(calls, {"replace"}) = 1
          /\ panel.asked.arg.q \in Names
          /\ \A i \in DOMAIN calls : calls[i].op = "replace" =>
                /\ calls[i].arg = Tagged("replace", panel.asked.arg)
                /\ calls[i].live
                /\ \/ calls[i].status = "sent" /\ Untouched(db.texts, panel.asked)
                   \/ calls[i].status = "ok" /\ Exact(db.texts, panel.asked)
      BY <1>5 DEF ReplaceOK
    <2>2. \A i \in DOMAIN calls' : calls'[i].op = "replace" =>
             /\ calls'[i].arg = Tagged("replace", panel.asked.arg)
             /\ calls'[i].live
             /\ \/ calls'[i].status = "sent" /\ Untouched(db'.texts, panel.asked)
                \/ calls'[i].status = "ok" /\ Exact(db'.texts, panel.asked)
      BY <1>3, <1>4, <2>1 DEF ReplacesKept
    <2> QED
      BY <1>1, <1>2, <1>5, <2>1, <2>2 DEF ReplaceOK
  <1>6. CASE ~panel.replaceBusy
    <2>1. Number(calls, {"replace"}) = 0 /\ (panel.result => Exact(db.texts, panel.asked))
      BY <1>6 DEF ReplaceOK
    <2> QED
      BY <1>1, <1>2, <1>4, <1>6, <2>1 DEF ReplaceOK
  <1> QED
    BY <1>5, <1>6

LEMMA WatchStays ==
    ASSUME WatchOK, DbGrows(db, db'), UNCHANGED watch
    PROVE  WatchOK'
  BY DEF WatchOK, DbGrows

LEMMA LlmStays ==
    ASSUME LlmOK, panel'.kind = panel.kind, Number(calls', AiCalls) = Number(calls, AiCalls), UNCHANGED llm
    PROVE  LlmOK'
  BY DEF LlmOK, Active

\* What follows when a step touches only what nothing else depends on.
LEMMA ScreenStep ==
    ASSUME Inv, acts' \in 0..mix.acts, password' \in Passwords, link' \in Nat \cup {None},
           PanelOK', OnLogin => panel'.language = panel.language, SearchKept,
           DbStep, CallsStep, ReplacesKept, LlmOK', WatchOK', UNCHANGED mix
    PROVE  Stays
  <1>1. DbOK(db') /\ DbGrows(db, db') /\ TextsKept(db, db')
    BY DEF DbStep
  <1>2. ReplaceOK'
    BY <1>1, ReplaceStays DEF Inv
  <1> QED
    BY <1>1, <1>2 DEF Stays, SearchKept

LEMMA AiStep ==
    ASSUME Inv, acts' \in 0..mix.acts, password' \in Passwords, link' \in Nat \cup {None},
           PanelKept, DbStep, CallsStep, ReplacesKept, LlmOK', UNCHANGED <<mix, watch>>
    PROVE  Stays
  <1>1. PanelOK' /\ panel'.kind = panel.kind /\ (OnLogin => panel'.language = panel.language)
    BY PanelStays DEF Inv, DbStep
  <1>2. SearchKept
    BY <1>1 DEF SearchKept, PanelKept, PanelOK, Inv
  <1>3. WatchOK'
    BY WatchStays DEF Inv, DbStep
  <1> QED
    BY <1>1, <1>2, <1>3, ScreenStep

LEMMA PlainStep ==
    ASSUME Inv, acts' \in 0..mix.acts, password' \in Passwords, link' \in Nat \cup {None},
           PanelKept, DbStep, CallsKept, UNCHANGED <<mix, llm, watch>>
    PROVE  Stays
  <1>1. panel'.kind = panel.kind
    BY DEF PanelKept, PanelOK, Inv
  <1>2. CallsStep /\ ReplacesKept /\ LlmOK'
    BY <1>1, LlmStays DEF Inv, CallsKept
  <1> QED
    BY <1>2, AiStep

LEMMA CallsStepOK ==
    ASSUME CallsStep
    PROVE  CallsOK'
  BY DEF CallsStep, CallsOK, NewCall, OldCall

LEMMA CallsStepVoid ==
    ASSUME CallsStep, VoidOK, panel'.kind = panel.kind
    PROVE  VoidOK'
  <1> SUFFICES ASSUME panel.kind \notin Work, NEW k \in DOMAIN calls' PROVE calls'[k].op \notin WorkOps
    BY DEF VoidOK
  <1>1. CASE NewCall(calls'[k])
    BY <1>1 DEF NewCall
  <1>2. ASSUME NEW j \in DOMAIN calls, OldCall(calls[j], calls'[k]) PROVE calls'[k].op \notin WorkOps
    BY <1>2 DEF OldCall, VoidOK, WorkOps, AiCalls
  <1> QED
    BY <1>1, <1>2 DEF CallsStep

LEMMA CallsStepCreds ==
    ASSUME CallsStep, CredsOK, UNCHANGED <<mix, stored>>
    PROVE  CredsOK'
  <1> SUFFICES ASSUME mix.careful, stored # None, NEW k \in DOMAIN calls' PROVE calls'[k].cred = stored'
    BY DEF CredsOK
  <1> QED
    BY DEF CallsStep, CredsOK, NewCall, OldCall

LEMMA CallsStepLeft ==
    ASSUME CallsStep, LeftOK, PlaceOK, AuthOK, cookie' \in {cookie, FALSE},
           signedOut' \in {"no", "leaving", "yes"}, signedOut' # "no" => stored' = None,
           signedOut' = "yes" => signedOut = "yes" /\ authed' # "in"
    PROVE  LeftOK'
  <1>1. ASSUME signedOut' = "yes", NEW k \in DOMAIN calls'
        PROVE  /\ calls'[k].cred = None /\ ~calls'[k].cookie
               /\ calls'[k].op \in {"me", "probe"} => calls'[k].status # "ok"
    <2>1. stored' = None /\ signedOut = "yes" /\ None # password
      BY <1>1, PasswordsAssumption DEF AuthOK
    <2>4. ~cookie'
      BY <2>1 DEF LeftOK
    <2>2. CASE NewCall(calls'[k])
      BY <2>1, <2>2, <2>4 DEF NewCall
    <2>3. ASSUME NEW j \in DOMAIN calls, OldCall(calls[j], calls'[k])
          PROVE  /\ calls'[k].cred = None /\ ~calls'[k].cookie
                 /\ calls'[k].op \in {"me", "probe"} => calls'[k].status # "ok"
      <3>1. /\ calls[j].cred = None /\ ~calls[j].cookie
            /\ calls[j].op \in {"me", "probe"} => calls[j].status # "ok"
        BY <1>1 DEF LeftOK
      <3>2. ~MayPass(calls[j])
        BY <2>1, <3>1 DEF MayPass
      <3> QED
        BY <2>3, <3>1, <3>2 DEF OldCall, Public
    <2> QED
      BY <2>2, <2>3 DEF CallsStep
  <1>2. ASSUME NEW k \in DOMAIN calls', calls'[k].op = "logout", calls'[k].status = "ok" PROVE ~cookie'
    <2>1. CASE NewCall(calls'[k])
      BY <1>2, <2>1 DEF NewCall
    <2>2. ASSUME NEW j \in DOMAIN calls, OldCall(calls[j], calls'[k]) PROVE ~cookie'
      BY <1>2, <2>2 DEF OldCall, Public, LeftOK, AuthOK
    <2> QED
      BY <2>1, <2>2 DEF CallsStep
  <1>3. signedOut' = "yes" => ~cookie'
    BY DEF LeftOK
  <1> QED
    BY <1>1, <1>2, <1>3 DEF LeftOK

LEMMA StaysInv ==
    ASSUME Inv, Stays, Still
    PROVE  Inv'
  <1>1. AuthOK'
    BY DEF Inv, AuthOK, Stays, Still
  <1>2. PlaceOK'
    BY DEF Inv, PlaceOK, Stays, Still, place, DbGrows
  <1>3. PanelOK' /\ LlmOK' /\ ReplaceOK' /\ WatchOK' /\ DbOK(db)'
    BY DEF Stays
  <1>4. CallsOK' /\ VoidOK' /\ CredsOK'
    BY CallsStepOK, CallsStepVoid, CallsStepCreds DEF Inv, Stays, Still
  <1>5. ChoiceOK'
    BY DEF Inv, ChoiceOK, Stays, Still, OnLogin
  <1>6. LeftOK'
    BY CallsStepLeft DEF Inv, Stays, Still, LeftOK
  <1> QED
    BY <1>1, <1>2, <1>3, <1>4, <1>5, <1>6 DEF Inv

\* The same for a step that also says where the person is, or with what he came in.
LEMMA StaysBut ==
    ASSUME Inv, Stays, UNCHANGED mix, AuthOK', PlaceOK', ChoiceOK', CredsOK', LeftOK'
    PROVE  Inv'
  <1>1. CallsOK' /\ VoidOK'
    BY CallsStepOK, CallsStepVoid DEF Inv, Stays
  <1> QED
    BY <1>1 DEF Inv, Stays

-----------------------------------------------------------------------------
(***************************************************************************)
(* The list of AI calls.                                                   *)
(***************************************************************************)
LEMMA EffectsOK ==
    ASSUME NEW a \in Activity, acts' \in Nat
    PROVE  Effects(a) \in Activity /\ Effects(a).items = a.items /\ (Active(Effects(a)) <=> Effects(a).poller # None)
  BY ActivityAssumption DEF Effects, Active, Activity

LEMMA EffectCallsOK ==
    ASSUME NEW a, UNCHANGED <<stored, cookie>>
    PROVE  PlainCalls(EffectCalls(a))
  <1>1. PlainCalls(<<Call("queue", acts')>>) /\ PlainCalls(<<Call("user", None)>>)
    <2>1. "queue" \notin TypedOps /\ "user" \notin TypedOps
      BY DEF TypedOps, Apart, AiCalls
    <2> QED
      BY <2>1, PlainCall
  <1>2. PlainCalls(<<Call("queue", acts')>> \o (IF a.me THEN <<>> ELSE <<Call("user", None)>>))
    BY <1>1, PlainNone, PlainJoin
  <1> QED
    BY <1>2, PlainNone DEF EffectCalls

LEMMA BeginOK ==
    ASSUME Inv, panel.kind \in Work, panel'.kind = panel.kind, DbGrows(db, db'), acts' \in Nat,
           NEW c, NewCall(c), c.op \in AiCalls, Begin(c), UNCHANGED <<stored, cookie>>
    PROVE  CallsStep /\ ReplacesKept /\ LlmOK'
  <1> DEFINE a == [llm EXCEPT !.items = @ + 1]
             cs == <<c>> \o EffectCalls(a)
  <1>1. CallsOK /\ llm \in Activity /\ llm.items = Number(calls, AiCalls)
    BY DEF Inv, LlmOK
  <1>2. a \in Activity /\ a.items = llm.items + 1
    BY <1>1 DEF Activity
  <1>3. PlainCalls(EffectCalls(a)) /\ IsList(EffectCalls(a)) /\ IsList(<<c>>)
    BY EffectCallsOK, OneList DEF PlainCalls
  <1>4. llm' = Effects(a) /\ Send(cs)
    BY DEF Begin
  <1> HIDE DEF a
  <1>5. IsList(cs) /\ ToSet(cs) = ToSet(<<c>>) \cup ToSet(EffectCalls(a))
        /\ \A S : Number(cs, S) = Number(<<c>>, S) + Number(EffectCalls(a), S)
    BY <1>3, JoinList, NumberJoin
  <1> HIDE DEF cs
  <1>6. \A x \in ToSet(cs) : NewCall(x) /\ x.op # "replace"
    BY <1>3, <1>5, OneList DEF ToSet, PlainCalls, Apart, AiCalls
  <1>7. \A k \in DOMAIN cs : NewCall(cs[k])
    BY <1>6 DEF ToSet
  <1>8. CallsStep /\ \A S : Number(calls', S) = Number(calls, S) + Number(cs, S)
    BY <1>1, <1>4, <1>5, <1>7, SendCalls
  <1>9. Number(cs, AiCalls) = 1 /\ Number(cs, {"replace"}) = 0
    BY <1>3, <1>5, NoneApart, NumberOne DEF AiCalls
  <1>10. Number(calls, AiCalls) \in Nat /\ Number(calls, {"replace"}) \in Nat
    BY <1>1, NumberType DEF CallsOK
  <1>11. ReplacesKept
    <2>1. ASSUME NEW k \in DOMAIN calls', calls'[k].op = "replace" PROVE \E j \in DOMAIN calls : calls'[k] = calls[j]
      <3>1. calls'[k] \in ToSet(calls) \cup ToSet(cs)
        BY <1>1, <1>4, <1>5, JoinList DEF Send, CallsOK, ToSet
      <3> QED
        BY <2>1, <3>1, <1>6 DEF ToSet
    <2> QED
      BY <1>8, <1>9, <1>10, <2>1 DEF ReplacesKept
  <1>12. llm' \in Activity /\ llm'.items = llm.items + 1 /\ (Active(llm') <=> llm'.poller # None)
    BY <1>2, <1>4, EffectsOK
  <1>13. LlmOK'
    BY <1>1, <1>8, <1>9, <1>10, <1>12 DEF LlmOK, Active
  <1> QED
    BY <1>8, <1>11, <1>13

\* A call to the AI ends, one way or another, and its item leaves the list.
LEMMA EndedOK ==
    ASSUME Inv, panel'.kind = panel.kind, DbGrows(db, db'), acts' \in Nat,
           NEW i \in DOMAIN calls, calls[i].op \in AiCalls,
           NEW cs, PlainCalls(cs), Continue(i, cs), llm' = Ended
    PROVE  CallsStep /\ ReplacesKept /\ LlmOK'
  <1>1. CallsOK /\ panel.kind \in Work /\ llm \in Activity /\ llm.items = Number(calls, AiCalls)
    BY DEF Inv, LlmOK, VoidOK, WorkOps
  <1>2. Number(calls, AiCalls) \in Nat \ {0} /\ Number(calls, {"replace"}) \in Nat
    BY <1>1, NumberType, NumberNone DEF CallsOK
  <1>3. /\ CallsStep
        /\ \A S : Number(calls', S) = Number(calls, S) - (IF calls[i].op \in S THEN 1 ELSE 0) + Number(cs, S)
        /\ \A k \in DOMAIN calls' : calls'[k] \in ToSet(calls) \cup ToSet(cs)
    BY <1>1, ContinueCalls DEF PlainCalls
  <1>4. Number(cs, AiCalls) = 0 /\ Number(cs, {"replace"}) = 0
    BY NoneApart
  <1>5. Number(calls', AiCalls) = Number(calls, AiCalls) - 1
    BY <1>2, <1>3, <1>4
  <1>6. Number(calls', {"replace"}) = Number(calls, {"replace"})
    <2>1. calls[i].op \notin {"replace"}
      BY DEF AiCalls
    <2> QED
      BY <1>2, <1>3, <1>4, <2>1
  <1>7. ASSUME NEW k \in DOMAIN calls', calls'[k].op = "replace" PROVE \E j \in DOMAIN calls : calls'[k] = calls[j]
    BY <1>3, <1>7 DEF ToSet, Apart, PlainCalls
  <1>8. LlmOK'
    <2> DEFINE a == [llm EXCEPT !.items = @ - 1]
    <2>1. a \in Activity /\ a.items = llm.items - 1
      BY <1>1, <1>2 DEF Activity
    <2>2. llm' = Effects(a)
      BY <1>1, ActivityAssumption DEF Ended
    <2> HIDE DEF a
    <2>3. llm' \in Activity /\ llm'.items = llm.items - 1 /\ (Active(llm') <=> llm'.poller # None)
      BY <2>1, <2>2, EffectsOK
    <2> QED
      BY <1>1, <1>5, <2>3 DEF LlmOK, Active
  <1> QED
    BY <1>3, <1>6, <1>7, <1>8 DEF ReplacesKept

-----------------------------------------------------------------------------
(***************************************************************************)
(* The screens of a section, action by action.                             *)
(***************************************************************************)
Inside == UNCHANGED <<mix, auth, place, watch, session>>

LEMMA ActsType ==
    ASSUME Inv, UNCHANGED mix, acts' = acts \/ \E op : User(op)
    PROVE  acts' \in 0..mix.acts /\ acts' \in Nat
  BY MixesAssumption DEF User, Mix, Inv, AuthOK

LEMMA InsidePlain ==
    ASSUME Inv, Inside, acts' = acts \/ \E op : User(op), PanelKept, DbKept, CallsKept, UNCHANGED llm
    PROVE  Stays
  BY PlainStep, DbKeptStep, ActsType DEF Inside, Inv, AuthOK, auth, session

LEMMA InsideAi ==
    ASSUME Inv, Inside, acts' = acts \/ \E op : User(op), PanelKept, DbKept, CallsStep, ReplacesKept, LlmOK'
    PROVE  Stays
  BY AiStep, DbKeptStep, ActsType DEF Inside, Inv, AuthOK, auth, session

LEMMA Unchanged ==
    ASSUME Inv
    PROVE  /\ UNCHANGED panel => PanelKept
           /\ UNCHANGED db => DbKept
           /\ DbKept => DbStep /\ DbGrows(db, db')
           /\ DbKept /\ UNCHANGED calls => CallsKept
  <1>1. DbKept => DbStep /\ DbGrows(db, db')
    BY DbKeptStep DEF Inv, DbStep
  <1> QED
    BY <1>1, KeepCalls DEF PanelKept, DbKept, CallsKept, Inv

LEMMA ActivityStays ==
    ASSUME Inv, ActivityNext, Inside
    PROVE  Stays
  <1>1. PanelKept /\ DbKept /\ DbGrows(db, db') /\ UNCHANGED <<stored, cookie>>
    BY Unchanged DEF Inside, auth, ActivityNext, ToggleQueue, Tick, ActivityServed, TickAnswered, UserAnswered, ActivityThrown
  <1>2. CASE ToggleQueue
    <2> DEFINE a == [llm EXCEPT !.open = ~@]
    <2>1. acts' \in Nat /\ User("queue") /\ llm # None /\ llm' = Effects(a) /\ Send(EffectCalls(a))
      BY <1>2, ActsType DEF ToggleQueue, Inside
    <2>2. CallsKept
      BY <1>1, <2>1, EffectCallsOK, SendPlain DEF Inv
    <2>3. panel.kind \in Work /\ llm \in Activity /\ llm.items = Number(calls, AiCalls)
      BY <2>1 DEF Inv, LlmOK
    <2>4. a \in Activity /\ a.items = llm.items
      BY <2>3 DEF Activity
    <2> HIDE DEF a
    <2>5. LlmOK'
      BY <1>1, <2>1, <2>2, <2>3, <2>4, EffectsOK DEF LlmOK, Active, CallsKept, PanelKept, Inv, PanelOK
    <2> QED
      BY <1>1, <2>1, <2>2, <2>5, InsideAi DEF CallsKept
  <1>3. CASE Tick
    <2>1. PlainCalls(<<Call("queue", llm.poller)>>)
      BY <1>1, PlainCall DEF TypedOps, Apart, AiCalls
    <2>2. CallsKept
      BY <1>1, <1>3, <2>1, SendPlain DEF Tick, Inv
    <2> QED
      BY <1>1, <1>3, <2>2, InsidePlain DEF Tick
  <1>4. ASSUME NEW i \in DOMAIN calls, ActivityServed(i) PROVE Stays
    <2>1. CallsKept
      BY <1>1, <1>4, ServeQuiet DEF ActivityServed, Arrives, Inv, AnswerOps, Public
    <2> QED
      BY <1>1, <1>4, <2>1, InsidePlain DEF ActivityServed
  <1>5. ASSUME NEW i \in DOMAIN calls, TickAnswered(i) \/ UserAnswered(i) PROVE Stays
    <2>1. CallsKept /\ acts' = acts
      BY <1>1, <1>5, ContinueEnd DEF TickAnswered, UserAnswered, Returned, Inv, Apart, AiCalls
    <2>2. LlmOK'
      <3>1. panel'.kind = panel.kind
        BY <1>1 DEF PanelKept, Inv, PanelOK
      <3>2. llm # None => llm \in Activity
        BY DEF Inv, LlmOK
      <3>3. \/ llm' = llm
            \/ llm # None /\ llm' = [llm EXCEPT !.queue = "rows"]
            \/ llm # None /\ llm' = [llm EXCEPT !.me = TRUE]
        BY <1>5 DEF TickAnswered, UserAnswered
      <3>4. llm # None => /\ llm' \in Activity /\ llm'.items = llm.items
                          /\ llm'.poller = llm.poller /\ llm'.open = llm.open
        BY <3>2, <3>3 DEF Activity
      <3> QED
        BY <2>1, <3>1, <3>3, <3>4 DEF LlmOK, Active, CallsKept, Inv
    <2> QED
      BY <1>1, <2>1, <2>2, InsideAi DEF CallsKept
  <1>6. ASSUME NEW i \in DOMAIN calls, ActivityThrown(i) PROVE Stays
    <2>1. CallsKept
      BY <1>1, <1>6, ContinueEnd DEF ActivityThrown, Thrown, Inv, Apart, AiCalls
    <2> QED
      BY <1>1, <1>6, <2>1, InsidePlain DEF ActivityThrown
  <1> QED
    BY <1>2, <1>3, <1>4, <1>5, <1>6 DEF ActivityNext

LEMMA ChatStays ==
    ASSUME Inv, ChatNext, Inside
    PROVE  Stays
  <1>1. PanelKept
    BY Unchanged DEF PanelKept, ChatNext, TypeQuestion, SendQuestion, Clear, Restart, ChatReplied, HistoryServed,
       ChatAsked, ClearServed, HistoryLoaded, ChatOver, Cleared, ChatThrown
  <1>2. DbKept
    BY Unchanged DEF DbKept, Inv, DbOK, DbFields, ChatNext, TypeQuestion, SendQuestion, Clear, Restart, ChatReplied,
       HistoryServed, ChatAsked, ClearServed, HistoryLoaded, ChatOver, Cleared, ChatThrown
  <1>3. DbStep /\ DbGrows(db, db') /\ UNCHANGED <<stored, cookie, mix>> /\ CallsOK
        /\ panel'.kind = panel.kind
    BY <1>1, <1>2, Unchanged DEF Inside, auth, Inv, PanelKept, PanelOK
  <1>4. CASE TypeQuestion
    BY <1>1, <1>2, <1>4, Unchanged, InsidePlain DEF TypeQuestion
  <1>5. CASE SendQuestion
    <2>1. panel.kind \in Work /\ Begin(Call("chat", acts')) /\ acts' \in Nat
      BY <1>5, ActsType DEF SendQuestion, OnChat, Work, Sections, Inside
    <2>2. NewCall(Call("chat", acts')) /\ Call("chat", acts').op = "chat"
      BY <1>3, <2>1, NewCallIs DEF Call, ArgOK
    <2>3. CallsStep /\ ReplacesKept /\ LlmOK'
      BY <1>3, <2>1, <2>2, BeginOK DEF AiCalls
    <2> QED
      BY <1>1, <1>2, <1>5, <2>3, InsideAi DEF SendQuestion
  <1>6. CASE Clear
    <2>1. CallsKept
      BY <1>3, <1>6, PlainCall, SendPlain DEF Clear, TypedOps, Apart, AiCalls
    <2> QED
      BY <1>1, <1>2, <1>6, <2>1, InsidePlain DEF Clear
  <1>7. CASE Restart
    <2>1. /\ DOMAIN calls' = DOMAIN calls
          /\ \A i \in DOMAIN calls : calls'[i] = calls[i] \/ calls'[i] = [calls[i] EXCEPT !.status = "failed"]
      BY <1>7 DEF Restart
    <2>2. calls' = [i \in DOMAIN calls |-> calls'[i]]
      BY <1>7 DEF Restart
    <2>3. \A i \in DOMAIN calls : OldCall(calls[i], calls'[i]) /\ calls'[i].op = calls[i].op
      <3> SUFFICES ASSUME NEW i \in DOMAIN calls PROVE OldCall(calls[i], calls'[i]) /\ calls'[i].op = calls[i].op
        OBVIOUS
      <3>1. CallOK(db, calls[i]) /\ CallOK(db', calls[i]) /\ OldCall(calls[i], calls[i])
        BY <1>3, CallStays, OldCallSame DEF CallsOK
      <3>2. CASE calls'[i] = [calls[i] EXCEPT !.status = "failed"]
        BY <3>1, <3>2 DEF OldCall, CallOK, CallFields
      <3> QED
        BY <2>1, <3>1, <3>2
    <2>4. IsList(calls')
      BY <1>3, <2>2, MapList DEF CallsOK
    <2>5. CallsStep /\ Number(calls', AiCalls) = Number(calls, AiCalls)
      BY <2>1, <2>3, <2>4, NumberSame DEF CallsStep
    <2>6. LlmOK'
      BY <1>3, <1>7, <2>5, LlmStays DEF Restart, Inv
    <2>7. ReplaceOK'
      BY <1>3, <1>7 DEF Restart, ReplaceOK
    <2>8. PanelOK' /\ (OnLogin => panel'.language = panel.language) /\ WatchOK' /\ DbOK(db')
      BY <1>1, <1>3, PanelStays, WatchStays DEF Inv, Inside, DbStep
    <2>9. acts' \in 0..mix.acts /\ password' \in Passwords /\ link' \in Nat \cup {None}
      BY <1>3, <1>7, ActsType DEF Restart, Inside, auth, session, Inv, AuthOK
    <2> QED
      BY <1>3, <2>5, <2>6, <2>7, <2>8, <2>9 DEF Stays
  <1>8. ASSUME NEW q \in db.answering, ChatReplied(q) PROVE Stays
    <2>1. CallsKept
      <3>1. CASE UNCHANGED calls
        BY <1>2, <3>1, Unchanged
      <3>2. ASSUME NEW i \in DOMAIN calls, calls[i].status = "asked", NEW y, Serve(i, y) \/ Refuse(i) PROVE CallsKept
        <4>1. calls[i].op \in {"chat", "void"}
          BY <1>3, <3>2 DEF CallsOK, CallOK
        <4>2. CASE Serve(i, y)
          <5>1. calls[i].op # "void" => AnsOK(db', calls[i].op, Arg(i), y)
            BY <4>1 DEF AnsOK
          <5>2. calls[i].op # "replace" /\ calls[i].op \in (Public \ {"logout"}) \cup {"chat", "void"}
            BY <4>1 DEF Public
          <5> QED
            BY <1>3, <4>2, <5>1, <5>2, ServePlain
        <4>3. CASE Refuse(i)
          BY <1>3, <4>1, <4>3, RefusePlain
        <4> QED
          BY <3>2, <4>2, <4>3
      <3> QED
        BY <1>8, <3>1, <3>2 DEF ChatReplied
    <2> QED
      BY <1>1, <1>2, <1>8, <2>1, InsidePlain DEF ChatReplied
  <1>9. ASSUME NEW i \in DOMAIN calls, ChatAsked(i) PROVE Stays
    <2> DEFINE c == [calls[i] EXCEPT !.status = "asked"]
    <2>1. CallOK(db', calls[i]) /\ calls[i].op = "chat" /\ calls' = [calls EXCEPT ![i] = c]
      BY <1>3, <1>9, CallStays DEF CallsOK, ChatAsked, Arrives
    <2>2. /\ DOMAIN c = CallFields /\ c.op = "chat" /\ c.arg = calls[i].arg /\ c.cred = calls[i].cred
          /\ c.cookie = calls[i].cookie /\ c.live = calls[i].live /\ c.status = "asked"
      BY <2>1 DEF CallOK, CallFields
    <2> HIDE DEF c
    <2>3. OldCall(calls[i], c)
      BY <2>1, <2>2 DEF OldCall, CallOK
    <2>4. CallsKept
      BY <1>3, <2>1, <2>2, <2>3, ChangeCall DEF CallsKept, ReplacesKept
    <2> QED
      BY <1>1, <1>2, <1>9, <2>4, InsidePlain DEF ChatAsked
  <1>10. ASSUME NEW i \in DOMAIN calls, HistoryServed(i) \/ ClearServed(i) PROVE Stays
    <2>1. CallsKept
      BY <1>3, <1>10, ServeQuiet DEF HistoryServed, ClearServed, Arrives, AnswerOps, Public
    <2> QED
      BY <1>1, <1>2, <1>10, <2>1, InsidePlain DEF HistoryServed, ClearServed
  <1>11. ASSUME NEW i \in DOMAIN calls, HistoryLoaded(i) \/ Cleared(i) \/ ChatThrown(i) PROVE Stays
    <2>1. CallsKept
      BY <1>3, <1>11, ContinueEnd DEF HistoryLoaded, Cleared, ChatThrown, Returned, Thrown, Apart, AiCalls
    <2> QED
      BY <1>1, <1>2, <1>11, <2>1, InsidePlain DEF HistoryLoaded, Cleared, ChatThrown
  <1>12. ASSUME NEW i \in DOMAIN calls, ChatOver(i) PROVE Stays
    <2>1. calls[i].op \in AiCalls /\ acts' \in Nat
      BY <1>3, <1>12, ActsType DEF ChatOver, Returned, Thrown, AiCalls
    <2>2. CallsStep /\ ReplacesKept /\ LlmOK'
      BY <1>3, <1>12, <2>1, PlainNone, EndedOK DEF ChatOver
    <2> QED
      BY <1>1, <1>2, <1>12, <2>2, InsideAi DEF ChatOver
  <1> QED
    BY <1>4, <1>5, <1>6, <1>7, <1>8, <1>9, <1>10, <1>11, <1>12 DEF ChatNext

\* The calls that outlive a screen: those of cs go on without it.
LEMMA OrphanList ==
    ASSUME CallsOK, DbGrows(db, db'), NEW cs, IsList(cs), ToSet(cs) \subseteq ToSet(calls)
    PROVE  /\ IsList(Orphan(cs))
           /\ \A k \in DOMAIN Orphan(cs) : \E j \in DOMAIN calls : OldCall(calls[j], Orphan(cs)[k])
           /\ \A S : Number(Orphan(cs), S) = Number(cs, S)
  <1> DEFINE o == Orphan(cs)
  <1>1. DOMAIN o = DOMAIN cs /\ \A k \in DOMAIN cs : o[k] = [cs[k] EXCEPT !.live = FALSE]
    BY DEF Orphan
  <1>2. o = [k \in DOMAIN cs |-> o[k]]
    BY DEF Orphan
  <1> HIDE DEF o
  <1>3. IsList(o)
    BY <1>2, MapList
  <1>4. ASSUME NEW k \in DOMAIN cs
        PROVE  o[k].op = cs[k].op /\ \E j \in DOMAIN calls : OldCall(calls[j], o[k])
    <2>1. PICK j \in DOMAIN calls : calls[j] = cs[k]
      BY DEF ToSet
    <2>2. CallOK(db', calls[j])
      BY CallStays DEF CallsOK
    <2> DEFINE c == calls[j]
    <2>3. o[k] = [c EXCEPT !.live = FALSE] /\ DOMAIN c = CallFields
      BY <1>1, <2>1, <2>2 DEF CallOK
    <2>4. CallOK(db', c) /\ c = cs[k]
      BY <2>1, <2>2
    <2> HIDE DEF c
    <2>5. /\ DOMAIN o[k] = CallFields
          /\ o[k].op = c.op /\ o[k].arg = c.arg /\ o[k].cred = c.cred /\ o[k].cookie = c.cookie
          /\ o[k].live = FALSE /\ o[k].status = c.status /\ o[k].ans = c.ans
      BY <2>3 DEF CallFields
    <2>6. OldCall(c, o[k])
      BY <2>4, <2>5 DEF OldCall, CallOK
    <2> QED
      BY <2>4, <2>5, <2>6 DEF c
  <1>5. \A S : Number(o, S) = Number(cs, S)
    BY <1>1, <1>4, NumberSame
  <1> QED
    BY <1>1, <1>3, <1>4, <1>5 DEF o

LEMMA VoidList ==
    ASSUME CallsOK, DbGrows(db, db'), NEW cs, IsList(cs), ToSet(cs) \subseteq ToSet(calls)
    PROVE  /\ IsList(Void(cs))
           /\ \A k \in DOMAIN Void(cs) : /\ Void(cs)[k].op \in {"import", "poll", "logout", "void"}
                                         /\ \E j \in DOMAIN calls : OldCall(calls[j], Void(cs)[k])
  <1> DEFINE o == Void(cs)
             kept == {"import", "poll", "logout"}
  <1>1. DOMAIN o = DOMAIN cs /\ \A k \in DOMAIN cs : o[k] = [cs[k] EXCEPT !.live = FALSE, !.op = IF @ \in kept THEN @ ELSE "void"]
    BY DEF Void
  <1>2. o = [k \in DOMAIN cs |-> o[k]]
    BY DEF Void
  <1> HIDE DEF o
  <1>3. IsList(o)
    BY <1>2, MapList
  <1>4. ASSUME NEW k \in DOMAIN cs
        PROVE  o[k].op \in kept \cup {"void"} /\ \E j \in DOMAIN calls : OldCall(calls[j], o[k])
    <2>1. PICK j \in DOMAIN calls : calls[j] = cs[k]
      BY DEF ToSet
    <2> DEFINE c == calls[j]
    <2>2. CallOK(db', c)
      BY CallStays DEF CallsOK
    <2> HIDE DEF c
    <2>3. o[k] = [c EXCEPT !.live = FALSE, !.op = IF @ \in kept THEN @ ELSE "void"] /\ DOMAIN c = CallFields
      BY <1>1, <2>1, <2>2 DEF c, CallOK
    <2>4. /\ DOMAIN o[k] = CallFields
          /\ o[k].op = IF c.op \in kept THEN c.op ELSE "void"
          /\ o[k].arg = c.arg /\ o[k].cred = c.cred /\ o[k].cookie = c.cookie
          /\ o[k].live = FALSE /\ o[k].status = c.status /\ o[k].ans = c.ans
      BY <2>3 DEF CallFields
    <2>5. OldCall(c, o[k])
      BY <2>2, <2>4 DEF OldCall, CallOK
    <2> QED
      BY <2>4, <2>5 DEF c
  <1> QED
    BY <1>1, <1>3, <1>4 DEF o

\* The calls of the old screen and those of the new one.
LEMMA JoinCalls ==
    ASSUME NEW cs, IsList(cs), \A k \in DOMAIN cs : \E j \in DOMAIN calls : OldCall(calls[j], cs[k]),
           NEW ds, IsList(ds), \A k \in DOMAIN ds : NewCall(ds[k]), calls' = cs \o ds
    PROVE  /\ CallsStep
           /\ \A S : Number(calls', S) = Number(cs, S) + Number(ds, S)
           /\ \A k \in DOMAIN calls' : calls'[k] \in ToSet(cs) \cup ToSet(ds)
  <1>1. IsList(calls') /\ ToSet(calls') = ToSet(cs) \cup ToSet(ds)
    BY JoinList
  <1>2. \A k \in DOMAIN calls' : calls'[k] \in ToSet(cs) \cup ToSet(ds)
    BY <1>1 DEF ToSet
  <1>3. \A k \in DOMAIN calls' : NewCall(calls'[k]) \/ \E j \in DOMAIN calls : OldCall(calls[j], calls'[k])
    BY <1>2 DEF ToSet
  <1> QED
    BY <1>1, <1>2, <1>3, NumberJoin DEF CallsStep

LEMMA InsideRows ==
    ASSUME Inv, Inside, acts' = acts \/ \E op : User(op), PanelKept, DbStep, CallsKept, UNCHANGED llm
    PROVE  Stays
  BY PlainStep, ActsType DEF Inside, Inv, AuthOK, auth, session

\* A new episode.
LEMMA AddedStep ==
    ASSUME DbOK(db), NEW n, db' = EpisodeAdded(n)
    PROVE  DbStep /\ DbGrows(db, db')
  <1>1. /\ DOMAIN db' = DbFields
        /\ db'.projects = db.projects /\ db'.jobs = db.jobs /\ db'.hash = db.hash
        /\ TextsKept(db, db')
    BY DEF DbOK, DbFields, EpisodeAdded, TextsKept
  <1> QED
    BY <1>1 DEF DbStep, DbOK, DbGrows

LEMMA MaterialsStays ==
    ASSUME Inv, MaterialsNext, Inside
    PROVE  Stays
  <1>1. PanelKept
    BY Unchanged DEF PanelKept, MaterialsNext, ChooseTab, AskAi, Research, Summarize, SaveAsMemo, TypeRow, AddRow,
       AddMemo, AddTemplate, RemoveRow, CreateArticle, MaterialsServed, RowsLoaded, RowChanged, AiOver, MemoKept,
       Drafted, Numbered, MaterialsThrown
  <1>2. UNCHANGED <<stored, cookie, mix>> /\ CallsOK /\ DbOK(db) /\ panel'.kind = panel.kind
    BY <1>1, Unchanged DEF Inside, auth, Inv, PanelKept, PanelOK
  <1>3. UNCHANGED db => DbKept /\ DbStep /\ DbGrows(db, db')
    BY Unchanged
  <1>4. ASSUME NEW tab \in Tabs, ChooseTab(tab) PROVE Stays
    <2>1. panel.kind = "materials" /\ calls' = Orphan(calls) \o TabCalls(tab) /\ UNCHANGED <<db, llm>> /\ User("tab")
      BY <1>4 DEF ChooseTab, OnTab
    <2>2. DbStep /\ DbGrows(db, db') /\ DbOK(db')
      BY <1>3, <2>1 DEF DbStep
    <2>3. PlainCalls(TabCalls(tab))
      <3>1. "rows" \notin TypedOps
        BY DEF TypedOps, Apart, AiCalls
      <3> QED
        BY <1>2, <3>1, PlainNone, PlainCall DEF TabCalls
    <2>4. /\ IsList(Orphan(calls))
          /\ \A k \in DOMAIN Orphan(calls) : \E j \in DOMAIN calls : OldCall(calls[j], Orphan(calls)[k])
          /\ \A S : Number(Orphan(calls), S) = Number(calls, S)
      BY <1>2, <2>2, OrphanList DEF CallsOK
    <2>5. CallsStep /\ \A S : Number(calls', S) = Number(Orphan(calls), S) + Number(TabCalls(tab), S)
      BY <2>1, <2>3, <2>4, JoinCalls DEF PlainCalls
    <2>6. Number(calls, AiCalls) \in Nat /\ Number(TabCalls(tab), AiCalls) = 0
      BY <1>2, <2>3, NumberType, NoneApart DEF CallsOK
    <2>7. Number(calls', AiCalls) = Number(calls, AiCalls)
      BY <2>4, <2>5, <2>6
    <2>8. LlmOK' /\ WatchOK'
      BY <1>2, <2>1, <2>2, <2>7, LlmStays, WatchStays DEF Inv, Inside
    <2>9. PanelOK' /\ (OnLogin => panel'.language = panel.language)
      BY <1>1, <2>2, PanelStays DEF Inv
    <2>10. ReplaceOK'
      BY <1>2, <2>1 DEF ReplaceOK
    <2>11. acts' \in 0..mix.acts /\ password' \in Passwords /\ link' \in Nat \cup {None}
      BY <1>2, <2>1, ActsType DEF Inside, auth, session, Inv, AuthOK
    <2> QED
      BY <1>2, <2>2, <2>5, <2>8, <2>9, <2>10, <2>11 DEF Stays
  <1>5. ASSUME NEW tab, AskAi(tab) PROVE Stays
    <2>1. panel.kind \in Work /\ Begin(Call("ask", acts')) /\ acts' \in Nat /\ UNCHANGED db
      BY <1>5, ActsType DEF AskAi, OnTab, Work, Sections, Inside
    <2>2. NewCall(Call("ask", acts')) /\ Call("ask", acts').op = "ask"
      BY <1>2, <2>1, NewCallIs DEF Call, ArgOK
    <2>3. CallsStep /\ ReplacesKept /\ LlmOK'
      BY <1>2, <1>3, <2>1, <2>2, BeginOK DEF AiCalls
    <2> QED
      BY <1>1, <1>3, <1>5, <2>1, <2>3, InsideAi DEF AskAi
  <1>6. CASE CreateArticle
    <2>1. panel.kind \in Work /\ Begin(Call("draft", None)) /\ acts' \in Nat /\ UNCHANGED db
      BY <1>6, ActsType DEF CreateArticle, OnTab, Work, Sections, Inside
    <2>2. NewCall(Call("draft", None)) /\ Call("draft", None).op = "draft"
      BY <1>2, <2>1, NewCallIs DEF Call, ArgOK
    <2>3. CallsStep /\ ReplacesKept /\ LlmOK'
      BY <1>2, <1>3, <2>1, <2>2, BeginOK DEF AiCalls
    <2> QED
      BY <1>1, <1>3, <1>6, <2>1, <2>3, InsideAi DEF CreateArticle
  <1>7. CASE SaveAsMemo
    <2>1. CallsKept
      BY <1>2, <1>3, <1>7, PlainCall, SendPlain DEF SaveAsMemo, TypedOps, Apart, AiCalls
    <2> QED
      BY <1>1, <1>3, <1>7, <2>1, InsidePlain DEF SaveAsMemo
  <1>8. CASE TypeRow
    BY <1>1, <1>3, <1>8, Unchanged, InsidePlain DEF TypeRow
  <1>9. ASSUME NEW tab \in {"memos", "templates"}, AddRow(tab) PROVE Stays
    <2>1. PlainCalls(<<Call("add", [tab |-> tab, n |-> acts'])>>)
      BY <1>2, WorkCall DEF ArgOK, Apart, AiCalls, WorkOps
    <2>2. CallsKept
      BY <1>2, <1>3, <1>9, <2>1, SendPlain DEF AddRow
    <2> QED
      BY <1>1, <1>3, <1>9, <2>2, InsidePlain DEF AddRow
  <1>10. ASSUME NEW n, RemoveRow(n) PROVE Stays
    <2>1. panel.at.tab \in {"memos", "templates"}
      BY <1>10 DEF RemoveRow, OnTab
    <2>2. PlainCalls(<<Call("remove", [tab |-> panel.at.tab, n |-> n])>>)
      BY <1>2, <2>1, WorkCall DEF ArgOK, Apart, AiCalls, WorkOps
    <2>3. CallsKept
      BY <1>2, <1>3, <1>10, <2>2, SendPlain DEF RemoveRow
    <2> QED
      BY <1>1, <1>3, <1>10, <2>3, InsidePlain DEF RemoveRow
  <1>11. ASSUME NEW i \in DOMAIN calls, MaterialsServed(i) PROVE Stays
    <2>1. calls[i].op \in {"rows", "ask", "draft", "numbers", "keep", "article", "add", "remove"} /\ MayPass(calls[i])
      BY <1>11 DEF MaterialsServed, Arrives, Public
    <2>2. ArgOK(db, calls[i].op, Arg(i))
      BY <1>2, <2>1, ArgIs
    <2>3. DbStep /\ DbGrows(db, db')
      <3>1. CASE UNCHANGED db
        BY <1>3, <3>1
      <3>2. ASSUME NEW n, db' = EpisodeAdded(n) PROVE DbStep /\ DbGrows(db, db')
        BY <1>2, <3>2, AddedStep
      <3>3. ASSUME NEW f \in {"memos", "templates"}, NEW S, db' = [db EXCEPT ![f] = S] PROVE DbStep /\ DbGrows(db, db')
        <4>1. DbKept
          BY <1>2, <3>3 DEF DbKept, DbOK, DbFields
        <4> QED
          BY <4>1, Unchanged
      <3>4. \/ UNCHANGED db
            \/ db' = EpisodeAdded(Arg(i))
            \/ db' = [db EXCEPT !["memos"] = @ \cup {Arg(i)}]
            \/ /\ calls[i].op \in {"add", "remove"}
               /\ \E S : db' = [db EXCEPT ![Arg(i).tab] = S]
        BY <1>11 DEF MaterialsServed, Arrives
      <3>5. calls[i].op \in {"add", "remove"} => Arg(i).tab \in {"memos", "templates"}
        BY <2>2 DEF ArgOK
      <3> QED
        BY <3>1, <3>2, <3>3, <3>4, <3>5
    <2>4. CallsKept
      <3>1. (\E y : Serve(i, y)) \/ Refuse(i)
        BY <1>11 DEF MaterialsServed
      <3> QED
        BY <1>2, <2>1, <2>3, <3>1, ServeQuiet DEF AnswerOps, Public
    <2> QED
      BY <1>1, <1>11, <2>3, <2>4, InsideRows DEF MaterialsServed
  <1>12. ASSUME NEW i \in DOMAIN calls, RowsLoaded(i) \/ MemoKept(i) \/ MaterialsThrown(i) PROVE Stays
    <2>1. CallsKept
      BY <1>2, <1>3, <1>12, ContinueEnd DEF RowsLoaded, MemoKept, MaterialsThrown, Returned, Thrown, Apart, AiCalls
    <2> QED
      BY <1>1, <1>3, <1>12, <2>1, InsidePlain DEF RowsLoaded, MemoKept, MaterialsThrown
  <1>13. ASSUME NEW i \in DOMAIN calls, RowChanged(i) PROVE Stays
    <2>1. CallOK(db, calls[i]) /\ calls[i].op \notin Apart
      BY <1>2, <1>13 DEF CallsOK, RowChanged, Returned, Apart, AiCalls
    <2>2. PlainCalls(<<[Call("rows", Arg(i).tab) EXCEPT !.live = calls[i].live]>>)
      BY <1>2, <2>1, PlainLive DEF TypedOps, Apart, AiCalls, CallOK
    <2>3. CallsKept
      BY <1>2, <1>3, <1>13, <2>1, <2>2, ContinuePlain DEF RowChanged
    <2> QED
      BY <1>1, <1>3, <1>13, <2>3, InsidePlain DEF RowChanged
  <1>14. ASSUME NEW i \in DOMAIN calls, AiOver(i) PROVE Stays
    <2>1. calls[i].op \in AiCalls /\ acts' \in Nat
      BY <1>2, <1>14, ActsType DEF AiOver, Returned, Thrown, AiCalls
    <2>2. CallsStep /\ ReplacesKept /\ LlmOK'
      BY <1>2, <1>3, <1>14, <2>1, PlainNone, EndedOK DEF AiOver
    <2> QED
      BY <1>1, <1>3, <1>14, <2>2, InsideAi DEF AiOver
  <1>15. ASSUME NEW i \in DOMAIN calls, Drafted(i) PROVE Stays
    <2> DEFINE cs == IF calls[i].status = "ok" THEN <<Call("numbers", None)>> ELSE <<>>
    <2>1. calls[i].op \in AiCalls /\ acts' \in Nat
      BY <1>2, <1>15, ActsType DEF Drafted, Returned, Thrown, AiCalls
    <2>2. PlainCalls(<<Call("numbers", None)>>)
      BY <1>2, PlainCall DEF TypedOps, Apart, AiCalls
    <2>3. PlainCalls(cs)
      BY <2>2, PlainNone
    <2>4. Continue(i, cs) /\ llm' = Ended /\ UNCHANGED <<acts, panel, db>>
      BY <1>15 DEF Drafted
    <2> HIDE DEF cs
    <2>5. CallsStep /\ ReplacesKept /\ LlmOK'
      BY <1>2, <1>3, <2>1, <2>3, <2>4, EndedOK
    <2> QED
      BY <1>1, <1>3, <2>4, <2>5, InsideAi
  <1>16. ASSUME NEW i \in DOMAIN calls, Numbered(i) PROVE Stays
    <2>1. calls[i].op \notin Apart /\ UNCHANGED <<acts, panel, db, llm>>
      BY <1>16 DEF Numbered, Returned, Apart, AiCalls
    <2>2. \A x : PlainCalls(<<Call("article", x)>>)
      BY <1>2, PlainCall DEF TypedOps, Apart, AiCalls
    <2>3. CallsKept
      BY <1>2, <1>3, <1>16, <2>1, <2>2, ContinuePlain DEF Numbered
    <2> QED
      BY <1>1, <1>3, <2>1, <2>3, InsidePlain
  <1> QED
    BY <1>4, <1>5, <1>6, <1>7, <1>8, <1>9, <1>10, <1>11, <1>12, <1>13, <1>14, <1>15, <1>16
       DEF MaterialsNext, Research, Summarize, AddMemo, AddTemplate

LEMMA WriteStays ==
    ASSUME Inv, WriteNext, Inside
    PROVE  Stays
  <1>1. UNCHANGED <<stored, cookie, mix>> /\ CallsOK /\ DbOK(db) /\ (UNCHANGED db => DbKept /\ DbStep /\ DbGrows(db, db'))
    BY Unchanged DEF Inside, auth, Inv
  <1>2. ASSUME NEW i \in DOMAIN calls, Compared(i) PROVE Stays
    <2>1. calls[i].op = "revision" /\ calls[i].status = "ok" /\ Continue(i, <<>>) /\ UNCHANGED <<acts, db, llm>>
      BY <1>2 DEF Compared, Returned
    <2>2. CallsKept
      BY <1>1, <2>1, ContinueEnd DEF Apart, AiCalls
    <2>3. OfEpisode(Arg(i))
      BY <1>1, <2>1, ArgIs DEF AnsOK
    <2>4. /\ DOMAIN panel' = DOMAIN panel
          /\ \A f \in DOMAIN panel : f # "diff" => panel'[f] = panel[f]
          /\ "diff" \in DOMAIN panel => panel'.diff = panel.diff \/ panel'.diff = Arg(i)
      BY <1>2 DEF Compared
    <2>5. PanelOK /\ panel'.kind = panel.kind /\ (OnLogin => panel'.language = panel.language)
      BY <2>4 DEF Inv, PanelOK, OnLogin
    <2>6. SearchKept
      BY <2>4, <2>5 DEF PanelOK, SearchKept
    <2>7. ImportOK(panel', db')
      BY <2>1, <2>4, <2>5 DEF PanelOK, ImportOK
    <2>8. ComparesOneEpisode'
      BY <2>3, <2>4, <2>5 DEF PanelOK, ComparesOneEpisode, OnWrite, OfEpisode
    <2>9. PanelOK'
      BY <2>4, <2>5, <2>7, <2>8 DEF PanelOK, OnLogin
    <2>10. LlmOK' /\ WatchOK'
      BY <1>1, <2>1, <2>2, <2>5, LlmStays, WatchStays DEF CallsKept, Inv, Inside
    <2>11. acts' \in 0..mix.acts /\ password' \in Passwords /\ link' \in Nat \cup {None}
      BY <1>1, <2>1, ActsType DEF Inside, auth, session, Inv, AuthOK
    <2> QED
      BY <1>1, <2>1, <2>2, <2>5, <2>6, <2>9, <2>10, <2>11, ScreenStep DEF CallsKept
  <1> SUFFICES ASSUME \A i \in DOMAIN calls : ~Compared(i) PROVE Stays
    BY <1>2
  <1>3. PanelKept
    BY Unchanged DEF PanelKept, WriteNext, SelectEpisode, NewArticleForm, PostArticle, AddSource, RemoveSource, SourcesPanel,
       OpenHistory, CompareRevision, HistoryPanel, Checklist, WriteServed, EpisodesLoaded, ArticlePosted, SourcesLoaded,
       SourceChanged, HistoryShown, WriteThrown
  <1>4. \A x : /\ PlainCalls(<<Call("sources", x)>>) /\ PlainCalls(<<Call("new article", x)>>)
               /\ PlainCalls(<<Call("source", x)>>) /\ PlainCalls(<<Call("unsource", x)>>)
               /\ PlainCalls(<<Call("revisions", x)>>) /\ PlainCalls(<<Call("revision", x)>>)
    BY <1>1, PlainCall DEF TypedOps, Apart, AiCalls
  <1>5. ASSUME \/ \E k \in DOMAIN db.texts : SelectEpisode(k)
               \/ NewArticleForm \/ PostArticle \/ SourcesPanel \/ OpenHistory \/ HistoryPanel \/ Checklist
        PROVE  Stays
    <2>1. ASSUME NEW op, User(op), UNCHANGED <<calls, db, llm>> PROVE Stays
      <3>1. DbKept /\ CallsKept
        BY <2>1, Unchanged
      <3> QED
        BY <1>3, <2>1, <3>1, InsidePlain
    <2>2. ASSUME NEW op, User(op), NEW cs, PlainCalls(cs), Send(cs), UNCHANGED <<db, llm>> PROVE Stays
      <3>1. DbKept /\ CallsKept
        BY <1>1, <2>2, SendPlain
      <3> QED
        BY <1>3, <2>2, <3>1, InsidePlain
    <2>3. ASSUME NEW k, SelectEpisode(k) PROVE Stays
      BY <1>4, <2>2, <2>3 DEF SelectEpisode, SourceCalls
    <2>4. CASE NewArticleForm \/ Checklist
      BY <2>1, <2>4 DEF NewArticleForm, Checklist
    <2>5. CASE PostArticle \/ OpenHistory
      BY <1>4, <2>2, <2>5 DEF PostArticle, OpenHistory
    <2>6. CASE SourcesPanel
      <3>1. CASE AddSource
        <4>1. User("source") /\ UNCHANGED <<db, llm>>
              /\ (UNCHANGED calls \/ Send(<<Call("source", panel.episode)>>))
          BY <3>1 DEF AddSource
        <4> QED
          BY <1>4, <2>1, <2>2, <4>1
      <3>2. ASSUME NEW s, RemoveSource(s) PROVE Stays
        BY <1>4, <2>2, <3>2 DEF RemoveSource
      <3> QED
        BY <2>1, <2>6, <3>1, <3>2 DEF SourcesPanel
    <2>7. CASE HistoryPanel
      <3>1. ASSUME NEW r, CompareRevision(r) PROVE Stays
        BY <1>4, <2>2, <3>1 DEF CompareRevision
      <3> QED
        BY <2>1, <2>7, <3>1 DEF HistoryPanel
    <2> QED
      BY <1>5, <2>3, <2>4, <2>5, <2>6, <2>7
  <1>6. ASSUME NEW i \in DOMAIN calls, WriteServed(i) PROVE Stays
    <2>1. /\ calls[i].op \in {"source", "unsource", "new article", "episodes", "sources", "revisions", "revision"}
          /\ MayPass(calls[i])
      BY <1>6 DEF WriteServed, Arrives, Public
    <2>2. DbStep /\ DbGrows(db, db')
      <3>1. CASE UNCHANGED db
        BY <1>1, <3>1
      <3>2. CASE db' = EpisodeAdded(Arg(i))
        BY <1>1, <3>2, AddedStep
      <3>3. ASSUME NEW S, db' = [db EXCEPT !.sources = S] PROVE DbStep /\ DbGrows(db, db')
        <4>1. DbKept
          BY <1>1, <3>3 DEF DbKept, DbOK, DbFields
        <4> QED
          BY <4>1, Unchanged
      <3> QED
        BY <1>6, <3>1, <3>2, <3>3 DEF WriteServed
    <2>3. CallsKept
      <3>1. CASE calls[i].op # "revision"
        <4>1. (\E y : Serve(i, y)) \/ Refuse(i)
          BY <1>6 DEF WriteServed
        <4> QED
          BY <1>1, <2>1, <2>2, <3>1, <4>1, ServeQuiet DEF AnswerOps, Public
      <3>2. CASE calls[i].op = "revision"
        <4>1. \/ OfEpisode(Arg(i)) /\ Serve(i, None)
              \/ Refuse(i)
          BY <1>6, <3>2 DEF WriteServed, Arrives
        <4>2. OfEpisode(Arg(i)) => AnsOK(db', calls[i].op, Arg(i), None)
          BY <3>2 DEF AnsOK
        <4> QED
          BY <1>1, <2>1, <2>2, <3>2, <4>1, <4>2, ServePlain, RefusePlain DEF Public
      <3> QED
        BY <3>1, <3>2
    <2> QED
      BY <1>1, <1>3, <1>6, <2>2, <2>3, InsideRows DEF WriteServed
  <1>7. ASSUME NEW i \in DOMAIN calls, EpisodesLoaded(i) PROVE Stays
    <2>1. calls[i].op \notin Apart /\ UNCHANGED <<acts, db, llm>>
      BY <1>7 DEF EpisodesLoaded, Returned, Apart, AiCalls
    <2>2. Continue(i, <<>>) \/ \E x : Continue(i, <<Call("sources", x)>>)
      BY <1>7 DEF EpisodesLoaded, SourceCalls
    <2>3. CallsKept
      <3>1. ASSUME NEW x, Continue(i, <<Call("sources", x)>>) PROVE CallsKept
        <4>1. PlainCalls(<<Call("sources", x)>>)
          BY <1>4
        <4> QED
          BY <1>1, <2>1, <3>1, <4>1, ContinuePlain
      <3>2. CASE Continue(i, <<>>)
        BY <1>1, <2>1, <3>2, ContinueEnd
      <3> QED
        BY <2>2, <3>1, <3>2
    <2> QED
      BY <1>1, <1>3, <2>1, <2>3, InsidePlain
  <1>8. ASSUME NEW i \in DOMAIN calls, ArticlePosted(i) \/ SourceChanged(i) PROVE Stays
    <2>1. CallOK(db, calls[i]) /\ calls[i].op \notin Apart /\ UNCHANGED <<acts, db, llm>>
      BY <1>1, <1>8 DEF CallsOK, ArticlePosted, SourceChanged, Returned, Apart, AiCalls
    <2>2. ASSUME NEW op, op \notin TypedOps, NEW x, Continue(i, <<[Call(op, x) EXCEPT !.live = calls[i].live]>>)
          PROVE  CallsKept
      <3>1. PlainCalls(<<[Call(op, x) EXCEPT !.live = calls[i].live]>>)
        BY <1>1, <2>1, <2>2, PlainLive DEF CallOK
      <3> QED
        BY <1>1, <2>1, <2>2, <3>1, ContinuePlain
    <2>3. "episodes" \notin TypedOps /\ "sources" \notin TypedOps
      BY DEF TypedOps, Apart, AiCalls
    <2>4. CASE ArticlePosted(i)
      <3>1. CallsKept
        BY <2>2, <2>3, <2>4 DEF ArticlePosted
      <3> QED
        BY <1>1, <1>3, <2>1, <3>1, InsidePlain
    <2>5. CASE SourceChanged(i)
      <3>1. CallsKept
        BY <2>2, <2>3, <2>5 DEF SourceChanged
      <3> QED
        BY <1>1, <1>3, <2>1, <3>1, InsidePlain
    <2> QED
      BY <1>8, <2>4, <2>5
  <1>9. ASSUME NEW i \in DOMAIN calls, SourcesLoaded(i) \/ HistoryShown(i) \/ WriteThrown(i) PROVE Stays
    <2>1. CallsKept
      BY <1>1, <1>9, ContinueEnd DEF SourcesLoaded, HistoryShown, WriteThrown, Returned, Thrown, Apart, AiCalls
    <2> QED
      BY <1>1, <1>3, <1>9, <2>1, InsidePlain DEF SourcesLoaded, HistoryShown, WriteThrown
  <1> QED
    BY <1>5, <1>6, <1>7, <1>8, <1>9 DEF WriteNext

\* The text after a replacement holds no hit, and all that was no hit.
LEMMA AfterReplacement ==
    ASSUME NEW text, NEW q \in Names, NEW cs
    PROVE  LET after == IF Hits(text, q, cs) = {} THEN text ELSE (text \ Hits(text, q, cs)) \cup {Replacement} IN
           Hits(after, q, cs) = {} /\ text \ Hits(text, q, cs) \subseteq after
  <1>1. Replacement.name # q
    BY NamesAssumption DEF Replacement
  <1> QED
    BY <1>1 DEF Hits

LEMMA SearchStays ==
    ASSUME Inv, SearchNext, Inside
    PROVE  Stays
  <1>1. /\ UNCHANGED <<stored, cookie, mix>> /\ CallsOK /\ DbOK(db) /\ PanelOK /\ ReplaceOK
        /\ (UNCHANGED db => DbKept /\ DbStep /\ DbGrows(db, db'))
    BY Unchanged DEF Inside, auth, Inv
  <1>2. acts' = acts \/ (\E op : User(op)) => acts' \in 0..mix.acts /\ password' \in Passwords /\ link' \in Nat \cup {None}
    BY <1>1, ActsType DEF Inside, auth, session, Inv, AuthOK
  <1>3. \A op, x : op \in {"search", "reindex", "find"} => PlainCalls(<<Call(op, x)>>)
    BY <1>1, PlainCall DEF TypedOps, Apart, AiCalls
  \* What changes of the screen is not one of the things that matter here.
  <1>4. ASSUME \/ Search \/ \E k \in DOMAIN db.texts : Toggle(k)
               \/ \E i \in DOMAIN calls : FindServed(i) \/ SearchServed(i) \/ Found(i) \/ SearchOver(i)
               \/ \E i \in DOMAIN calls : SearchThrown(i) /\ calls[i].op # "replace"
        PROVE  Stays
    <2>1. PanelKept /\ UNCHANGED <<db, llm>> /\ (acts' = acts \/ \E op : User(op))
      BY <1>4, Unchanged DEF PanelKept, Search, Toggle, FindServed, SearchServed, Found, SearchOver, SearchThrown
    <2>2. ASSUME CallsKept PROVE Stays
      BY <1>1, <2>1, <2>2, InsidePlain
    <2>3. CASE Search
      <3>1. Send(<<Call("search", panel.all)>>) \/ Send(<<Call("reindex", None)>>)
        BY <2>3 DEF Search
      <3> QED
        BY <1>1, <1>3, <2>1, <2>2, <3>1, SendPlain
    <2>4. ASSUME NEW k, Toggle(k) PROVE Stays
      BY <1>1, <2>1, <2>2, <2>4, Unchanged DEF Toggle
    <2>5. ASSUME NEW i \in DOMAIN calls, FindServed(i) \/ SearchServed(i) PROVE Stays
      <3>1. MayPass(calls[i]) /\ calls[i].op \in {"find", "search", "reindex", "names"} /\ \E y : Serve(i, y)
        BY <2>5 DEF FindServed, SearchServed, Arrives, Public
      <3> QED
        BY <1>1, <2>1, <2>2, <3>1, ServeQuiet DEF AnswerOps, Public
    <2>6. ASSUME NEW i \in DOMAIN calls, Found(i) \/ SearchOver(i) \/ (SearchThrown(i) /\ calls[i].op # "replace") PROVE Stays
      <3>1. calls[i].op \notin Apart /\ Continue(i, <<>>)
        BY <2>6 DEF Found, SearchOver, SearchThrown, Returned, Thrown, Apart, AiCalls
      <3> QED
        BY <1>1, <2>1, <2>2, <3>1, ContinueEnd
    <2> QED
      BY <1>4, <2>3, <2>4, <2>5, <2>6
  \* The query is another one, or the note of the last replacement goes.
  <1>5. CASE ChangeSearch \/ FindAll
    <2>1. /\ panel.kind = "search" /\ UNCHANGED <<db, llm>> /\ \E op : User(op)
          /\ UNCHANGED calls \/ Send(<<Call("find", [q |-> panel.q, cs |-> panel.cs])>>)
      BY <1>5 DEF ChangeSearch, FindAll, OnSearch
    <2>2. CallsKept
      BY <1>1, <1>3, <2>1, SendPlain, Unchanged
    <2>3. /\ DOMAIN panel' = DOMAIN panel
          /\ \A f \in DOMAIN panel \ {"mode", "all", "q", "cs", "findBusy", "result"} : panel'[f] = panel[f]
          /\ panel'.result => panel.result
          /\ panel'.q \in Names
      BY <1>1, <1>5 DEF ChangeSearch, FindAll, PanelOK, OnSearch
    <2>4. SearchKept /\ panel'.kind = panel.kind /\ (OnLogin => panel'.language = panel.language)
      BY <1>1, <2>1, <2>3 DEF PanelOK, SearchKept, OnLogin
    <2>5. PanelOK'
      BY <1>1, <2>1, <2>3, <2>4 DEF PanelOK, ImportOK, ComparesOneEpisode, OnWrite
    <2>6. LlmOK' /\ WatchOK'
      BY <1>1, <2>1, <2>2, <2>4, LlmStays, WatchStays DEF CallsKept, Inv, Inside
    <2> QED
      BY <1>1, <1>2, <2>1, <2>2, <2>4, <2>5, <2>6, ScreenStep DEF CallsKept
  <1>6. CASE ReplaceFound
    <2> DEFINE arg == [q |-> panel.q, cs |-> panel.cs, ids |-> panel.selected]
               c == Call("replace", arg)
    <2>1. /\ panel.kind = "search" /\ UNCHANGED <<db, llm>> /\ User("replace") /\ Send(<<c>>)
          /\ DOMAIN panel' = DOMAIN panel
          /\ \A f \in DOMAIN panel \ {"replaceBusy", "asked"} : panel'[f] = panel[f]
          /\ panel'.replaceBusy
          /\ panel'.asked = [arg |-> arg, texts |-> db.texts, alone |-> \A i \in DOMAIN calls : calls[i].op # "replace"]
      BY <1>1, <1>6 DEF ReplaceFound, OnSearch, PanelOK
    <2>2. /\ NewCall(c) /\ c.op = "replace"
          /\ c.arg = Tagged("replace", arg) /\ c.live /\ c.status = "sent"
      BY <1>1, <2>1, NewCallIs DEF Call, CallWith, ArgOK, WorkOps, AiCalls
    <2> HIDE DEF c
    <2>3. IsList(<<c>>) /\ ToSet(<<c>>) = {c} /\ \A k \in DOMAIN <<c>> : NewCall(<<c>>[k])
      BY <2>2, OneList DEF ToSet
    <2>4. /\ CallsStep
          /\ \A S : Number(calls', S) = Number(calls, S) + Number(<<c>>, S)
          /\ \A k \in DOMAIN calls' : calls'[k] \in ToSet(calls) \cup {c}
      <3>1. CallsStep /\ \A S : Number(calls', S) = Number(calls, S) + Number(<<c>>, S)
        BY <1>1, <2>1, <2>3, SendCalls
      <3> QED
        BY <1>1, <2>1, <2>3, <3>1, JoinList DEF Send, CallsOK, ToSet
    <2>5. Number(calls, AiCalls) \in Nat /\ Number(<<c>>, AiCalls) = 0 /\ Number(<<c>>, {"replace"}) = 1
      BY <1>1, <2>2, NumberType, NumberOne DEF CallsOK, AiCalls
    <2>6. panel'.kind = panel.kind /\ (OnLogin => panel'.language = panel.language) /\ panel'.q = panel.q
      BY <1>1, <2>1 DEF PanelOK, OnLogin
    <2>7. PanelOK'
      BY <1>1, <2>1, <2>6 DEF PanelOK, ImportOK, ComparesOneEpisode, OnWrite
    <2>8. LlmOK' /\ WatchOK'
      BY <1>1, <2>1, <2>4, <2>5, <2>6, LlmStays, WatchStays DEF Inv, Inside
    <2>9. ReplaceOK'
      <3> SUFFICES ASSUME \A i \in DOMAIN calls : calls[i].op # "replace" PROVE ReplaceOK'
        BY <2>1 DEF ReplaceOK
      <3>1. Number(calls, {"replace"}) = 0
        BY <1>1, NumberNone DEF CallsOK
      <3>2. Number(calls', {"replace"}) = 1
        BY <2>4, <2>5, <3>1
      <3>3. \A k \in DOMAIN calls' : calls'[k].op = "replace" => calls'[k] = c
        BY <2>4 DEF ToSet
      <3>4. Untouched(db'.texts, panel'.asked) /\ panel'.asked.arg = arg /\ arg.q \in Names
        BY <1>1, <2>1 DEF Untouched, PanelOK
      <3> HIDE DEF arg
      <3> QED
        BY <2>1, <2>2, <3>2, <3>3, <3>4 DEF ReplaceOK
    <2> QED
      BY <1>1, <1>2, <2>1, <2>4, <2>6, <2>7, <2>8, <2>9 DEF Stays, DbStep
  <1>7. ASSUME NEW i \in DOMAIN calls, ReplaceServed(i) PROVE Stays
    <2> DEFINE c == Arg(i)
               After(text) == IF Hits(text, c.q, c.cs) = {} THEN text
                              ELSE (text \ Hits(text, c.q, c.cs)) \cup {Replacement}
    <2>1. /\ calls[i].op = "replace" /\ calls[i].status = "sent" /\ MayPass(calls[i]) /\ Serve(i, None)
          /\ UNCHANGED <<acts, panel, llm>>
          /\ db' = [db EXCEPT !.texts = [k \in DOMAIN @ |-> IF k \in c.ids THEN After(@[k]) ELSE @[k]]]
      BY <1>7 DEF ReplaceServed, Arrives, Public
    <2>2. /\ DOMAIN db' = DOMAIN db
          /\ \A f \in DOMAIN db \ {"texts"} : db'[f] = db[f]
          /\ DOMAIN db'.texts = DOMAIN db.texts
          /\ \A k \in DOMAIN db.texts : db'.texts[k] = IF k \in c.ids THEN After(db.texts[k]) ELSE db.texts[k]
      BY <1>1, <2>1 DEF DbOK, DbFields
    <2>3. DbOK(db') /\ DbGrows(db, db')
      BY <1>1, <2>2 DEF DbOK, DbFields, DbGrows
    <2>4. /\ CallsStep
          /\ \A S : Number(calls', S) = Number(calls, S)
          /\ \A k \in DOMAIN calls' : k \in DOMAIN calls /\ (k # i => calls'[k] = calls[k])
          /\ calls'[i] = [calls[i] EXCEPT !.status = "ok", !.ans = Tagged(calls[i].op, None)]
      <3>1. AnsOK(db', calls[i].op, Arg(i), None)
        BY <2>1 DEF AnsOK
      <3> QED
        BY <1>1, <2>1, <2>3, <3>1, ServeCall DEF Public
    <2>5. PanelKept /\ panel'.kind = panel.kind /\ PanelOK' /\ (OnLogin => panel'.language = panel.language)
      BY <1>1, <2>1, <2>3, Unchanged, PanelStays
    <2>6. LlmOK' /\ WatchOK'
      BY <2>1, <2>3, <2>4, <2>5, LlmStays, WatchStays DEF Inv, Inside
    <2>7. ReplaceOK'
      <3> SUFFICES ASSUME panel.kind = "search", panel.asked.alone, ~mix.fails PROVE ReplaceOK'
        BY <1>1, <2>1 DEF ReplaceOK
      <3>1. panel.replaceBusy
        <4>1. Number(calls, {"replace"}) # 0
          BY <1>1, <2>1, NumberNone DEF CallsOK
        <4> QED
          BY <1>1, <4>1 DEF ReplaceOK
      <3>2. /\ Number(calls, {"replace"}) = 1 /\ panel.asked.arg.q \in Names
            /\ calls[i].arg = Tagged("replace", panel.asked.arg) /\ calls[i].live
            /\ Untouched(db.texts, panel.asked)
        BY <1>1, <2>1, <3>1 DEF ReplaceOK
      <3>3. c = panel.asked.arg
        BY <1>1, <2>1, <3>2, ArgIs DEF Tagged
      <3>4. ASSUME NEW k \in DOMAIN calls', calls'[k].op = "replace" PROVE k = i
        <4>1. k # i => calls[k].op = "replace"
          BY <2>4, <3>4
        <4> QED
          BY <1>1, <2>1, <2>4, <3>2, <4>1, NumberUnique DEF CallsOK
      <3>5. /\ calls'[i].arg = calls[i].arg /\ calls'[i].live = calls[i].live /\ calls'[i].status = "ok"
        BY <1>1, <2>4 DEF CallsOK, CallOK, CallFields
      <3>6. Exact(db'.texts, panel.asked)
        <4> SUFFICES ASSUME NEW k \in DOMAIN panel.asked.texts
                     PROVE  /\ k \in DOMAIN db'.texts
                            /\ IF k \in c.ids
                               THEN /\ Hits(db'.texts[k], c.q, c.cs) = {}
                                    /\ panel.asked.texts[k] \ Hits(panel.asked.texts[k], c.q, c.cs) \subseteq db'.texts[k]
                               ELSE db'.texts[k] = panel.asked.texts[k]
          BY <3>3 DEF Exact
        <4>1. k \in DOMAIN db.texts /\ db.texts[k] = panel.asked.texts[k] /\ c.q \in Names
          BY <3>2, <3>3 DEF Untouched
        <4>2. Hits(After(db.texts[k]), c.q, c.cs) = {} /\ db.texts[k] \ Hits(db.texts[k], c.q, c.cs) \subseteq After(db.texts[k])
          BY <4>1, AfterReplacement
        <4> QED
          BY <2>2, <4>1, <4>2
      <3> QED
        BY <2>1, <2>4, <3>1, <3>2, <3>4, <3>5, <3>6 DEF ReplaceOK
    <2> QED
      BY <1>2, <2>1, <2>3, <2>4, <2>5, <2>6, <2>7 DEF Stays
  <1>8. ASSUME NEW i \in DOMAIN calls, calls[i].op = "replace", Replaced(i) \/ SearchThrown(i) PROVE Stays
    <2>1. /\ UNCHANGED <<acts, db, llm>> /\ Continue(i, <<>>)
          /\ calls[i].status \in {"ok", "failed"} /\ (calls[i].status = "ok" <=> Replaced(i))
      BY <1>8 DEF Replaced, SearchThrown, Returned, Thrown
    <2>2. /\ DOMAIN panel' = DOMAIN panel
          /\ \A f \in {"kind", "language", "diff", "import", "asked", "q"} \cap DOMAIN panel : panel'[f] = panel[f]
          /\ calls[i].status = "ok" /\ calls[i].live /\ panel.kind = "search" => ~panel'.replaceBusy
      BY <1>1, <1>8, <2>1 DEF Replaced, SearchThrown, Returned, Thrown, PanelOK
    <2>3. /\ CallsStep
          /\ \A S : Number(calls', S) = Number(calls, S) - (IF calls[i].op \in S THEN 1 ELSE 0) + Number(<<>>, S)
      BY <1>1, <2>1, EmptyList, ContinueCalls
    <2>4. \A S : Number(<<>>, S) = 0 /\ Number(calls, S) \in Nat
      BY <1>1, EmptyList, NumberNone, NumberType DEF CallsOK
    <2>5. Number(calls', AiCalls) = Number(calls, AiCalls)
      BY <1>8, <2>3, <2>4 DEF AiCalls
    <2>6. panel'.kind = panel.kind /\ (OnLogin => panel'.language = panel.language)
      BY <1>1, <2>2 DEF PanelOK, OnLogin
    <2>7. PanelOK'
      BY <1>1, <2>1, <2>2, <2>6 DEF PanelOK, ImportOK, ComparesOneEpisode, OnWrite
    <2>8. LlmOK' /\ WatchOK'
      BY <1>1, <2>1, <2>5, <2>6, LlmStays, WatchStays DEF Inv, Inside
    <2>9. ReplaceOK'
      <3> SUFFICES ASSUME panel.kind = "search", panel.asked.alone, ~mix.fails PROVE ReplaceOK'
        BY <1>1, <2>2, <2>6 DEF ReplaceOK, PanelOK
      <3>1. panel.replaceBusy
        <4>1. Number(calls, {"replace"}) # 0
          BY <1>1, <1>8, NumberNone DEF CallsOK
        <4> QED
          BY <1>1, <4>1 DEF ReplaceOK
      <3>2. Number(calls, {"replace"}) = 1 /\ calls[i].live /\ calls[i].status = "ok" /\ Exact(db.texts, panel.asked)
        BY <1>1, <1>8, <2>1, <3>1 DEF ReplaceOK
      <3>3. Number(calls', {"replace"}) = 0
        BY <1>8, <2>3, <2>4, <3>2
      <3>4. panel'.asked = panel.asked /\ ~panel'.replaceBusy
        BY <1>1, <2>2, <3>2 DEF PanelOK
      <3> QED
        BY <2>1, <3>2, <3>3, <3>4 DEF ReplaceOK
    <2> QED
      BY <1>1, <1>2, <2>1, <2>3, <2>6, <2>7, <2>8, <2>9 DEF Stays, DbStep
  <1> QED
    BY <1>4, <1>5, <1>6, <1>7, <1>8 DEF SearchNext, Replaced, Returned

\* Set changes the fields of r, none of which matters here.
LEMMA SetKept ==
    ASSUME NEW r, DOMAIN r \cap {"kind", "language", "diff", "import", "replaceBusy", "result", "asked", "q"} = {},
           Set(r) \/ UNCHANGED panel
    PROVE  PanelKept
  BY DEF Set, PanelKept

LEMMA PlainTwo ==
    ASSUME NEW c, NEW d, NewCall(c), NewCall(d), c.op \notin Apart, d.op \notin Apart
    PROVE  PlainCalls(<<c, d>>)
  BY TwoList DEF PlainCalls

\* Project p gets another style guide.
LEMMA GuideStep ==
    ASSUME DbOK(db), NEW p \in DOMAIN db.projects, NEW g, db' = [db EXCEPT !.projects[p] = g]
    PROVE  DbStep /\ DbGrows(db, db') /\ DOMAIN db'.projects = DOMAIN db.projects
  <1> DEFINE t == [db.projects EXCEPT ![p] = g]
  <1>1. /\ DOMAIN db' = DOMAIN db /\ db'.projects = t
        /\ \A f \in DOMAIN db \ {"projects"} : db'[f] = db[f]
    BY DEF DbOK, DbFields
  <1>2. t = [k \in DOMAIN db.projects |-> t[k]]
    OBVIOUS
  <1> HIDE DEF t
  <1>3. IsList(t) /\ DOMAIN t = DOMAIN db.projects
    BY <1>2, MapList DEF DbOK
  <1> QED
    BY <1>1, <1>3 DEF DbStep, DbOK, DbFields, DbGrows, TextsKept

\* What the person does in the settings, and what the server answers.
LEMMA SettingsClicks ==
    ASSUME Inv, Inside,
           \/ \E tab \in SettingsTabs : TabBar(tab)
           \/ BasicTab \/ Picker \/ ConnectionTab \/ UsersTab \/ BackupTab \/ ExportTab
    PROVE  Stays
  <1>1. /\ UNCHANGED <<stored, cookie, mix>> /\ CallsOK /\ DbOK(db)
        /\ (UNCHANGED db => DbKept) /\ (DbKept => DbStep /\ DbGrows(db, db'))
    BY Unchanged DEF Inside, auth, Inv
  <1>2. ASSUME NEW op, User(op), PanelKept, DbKept, UNCHANGED <<calls, llm>> PROVE Stays
    <2>1. CallsKept
      BY <1>2, Unchanged
    <2> QED
      BY <1>2, <2>1, InsidePlain
  <1>3. ASSUME NEW op, User(op), PanelKept, DbKept, UNCHANGED llm, NEW cs, PlainCalls(cs), Send(cs) PROVE Stays
    <2>1. CallsKept
      BY <1>1, <1>3, SendPlain
    <2> QED
      BY <1>3, <2>1, InsidePlain
  <1>4. ASSUME NEW op, User(op), PanelKept, UNCHANGED db, panel.kind \in Work,
               NEW ai \in {"generate", "test"}, NEW x, Begin(Call(ai, x))
        PROVE  Stays
    <2>1. panel'.kind = panel.kind /\ acts' \in Nat
      BY <1>1, <1>4, ActsType DEF PanelKept, PanelOK, Inv
    <2>2. NewCall(Call(ai, x)) /\ Call(ai, x).op = ai
      <3>1. ArgOK(db', ai, x)
        BY <1>4 DEF ArgOK
      <3> QED
        BY <1>1, <1>4, <2>1, <3>1, NewCallIs DEF Call
    <2>3. CallsStep /\ ReplacesKept /\ LlmOK'
      BY <1>1, <1>4, <2>1, <2>2, BeginOK DEF AiCalls
    <2> QED
      BY <1>1, <1>4, <2>3, InsideAi
  <1>5. ASSUME NEW op, op \notin TypedOps, NEW x PROVE NewCall(Call(op, x)) /\ PlainCalls(<<Call(op, x)>>)
    BY <1>1, <1>5, PlainCall
  <1>6. {"system", "usage", "admin", "users", "backups", "put", "new user", "grant", "activate", "delete", "email",
         "backup", "export"} \cap TypedOps = {}
    BY DEF TypedOps, Apart, AiCalls
  <1>7. ASSUME NEW tab \in SettingsTabs, TabBar(tab) PROVE Stays
    <2>1. PanelKept
      BY <1>7, SetKept DEF TabBar
    <2>2. \E op : User(op)
      BY <1>7 DEF TabBar
    <2>3. PlainCalls(EntryCalls(tab))
      <3>1. PlainCalls(<<Call("system", None)>>) /\ PlainCalls(<<Call("admin", None)>>)
            /\ PlainCalls(<<Call("users", None)>>) /\ PlainCalls(<<Call("backups", "tab")>>) /\ PlainCalls(<<>>)
        BY <1>5, <1>6, PlainNone
      <3>2. PlainCalls(<<Call("usage", "summary"), Call("usage", "recent")>>)
        <4>1. NewCall(Call("usage", "summary")) /\ NewCall(Call("usage", "recent"))
          BY <1>5, <1>6
        <4> QED
          BY <4>1, PlainTwo DEF Call, CallWith, Apart, AiCalls
      <3>3. PlainCalls(<<Call("admin", None)>> \o (IF panel.isAdmin = TRUE THEN <<Call("users", None)>> ELSE <<>>))
        BY <3>1, PlainJoin
      <3> QED
        BY <3>1, <3>2, <3>3 DEF EntryCalls, SettingsTabs
    <2> QED
      BY <1>1, <1>3, <1>7, <2>1, <2>2, <2>3 DEF TabBar
  <1>8. CASE BasicTab
    <2>1. CASE TypeGuide
      <3>1. PanelKept
        BY <2>1, SetKept DEF TypeGuide
      <3> QED
        BY <1>1, <1>2, <2>1, <3>1 DEF TypeGuide
    <2>2. CASE Save
      <3>1. PanelKept
        BY <2>2, SetKept DEF Save
      <3>2. panel.kind = "settings" /\ panel'.kind = "settings"
        BY <1>8, <3>1 DEF BasicTab, OnSettings, PanelKept, PanelOK, Inv
      <3>3. ArgOK(db', "save", [id |-> project.id, guide |-> panel.guide])
        BY <2>2, <3>2 DEF Save, ArgOK, Inv, PlaceOK, Sections
      <3>4. PlainCalls(<<Call("save", [id |-> project.id, guide |-> panel.guide])>>)
        BY <1>1, <3>2, <3>3, WorkCall DEF Apart, AiCalls, Work, Sections
      <3> QED
        BY <1>1, <1>3, <2>2, <3>1, <3>4 DEF Save
    <2> QED
      BY <1>8, <2>1, <2>2 DEF BasicTab
  <1>9. CASE Picker
    <2>1. panel.kind \in Work
      BY <1>9 DEF Picker, OnSettings, Work, Sections
    <2>2. CASE Generate
      <3>1. PanelKept
        BY <2>2, SetKept DEF Generate
      <3> QED
        BY <1>4, <2>1, <2>2, <3>1 DEF Generate
    <2>3. ASSUME NEW at, PickerStep(at) PROVE Stays
      <3>1. PanelKept
        BY <2>3, SetKept DEF PickerStep
      <3> QED
        BY <1>1, <1>2, <2>3, <3>1 DEF PickerStep
    <2> QED
      BY <1>9, <2>2, <2>3 DEF Picker
  <1>10. CASE ConnectionTab
    <2>1. panel.kind \in Work
      BY <1>10 DEF ConnectionTab, OnSettings, Work, Sections
    <2>2. CASE TypeConnection
      <3>1. PanelKept
        BY <2>2, SetKept DEF TypeConnection
      <3> QED
        BY <1>1, <1>2, <2>2, <3>1 DEF TypeConnection
    <2>3. ASSUME NEW x, NEW m, PutSettings(x, m) PROVE Stays
      <3>1. PanelKept
        BY <2>3, SetKept DEF PutSettings
      <3> QED
        BY <1>1, <1>3, <1>5, <1>6, <2>3, <3>1 DEF PutSettings
    <2>4. CASE SaveConnection \/ ResetField
      BY <2>3, <2>4 DEF SaveConnection, ResetField
    <2>5. ASSUME NEW k, TestConnection(k) PROVE Stays
      <3>1. PanelKept
        BY <2>5, SetKept DEF TestConnection
      <3> QED
        BY <1>4, <2>1, <2>5, <3>1 DEF TestConnection
    <2> QED
      BY <1>10, <2>2, <2>4, <2>5 DEF ConnectionTab
  <1>11. CASE UsersTab
    <2>1. CASE ChangeOwnPassword
      <3>1. PanelKept
        BY <2>1, SetKept DEF ChangeOwnPassword
      <3>2. \A right, pw : pw \in Passwords => PlainCalls(<<Call("own", [right |-> right, pw |-> pw])>>)
        BY <1>1, WorkCall DEF ArgOK, Apart, AiCalls, WorkOps
      <3>3. User("own") /\ UNCHANGED <<db, llm>>
            /\ (UNCHANGED calls \/ \E right \in BOOLEAN, pw \in Passwords : Send(<<Call("own", [right |-> right, pw |-> pw])>>))
        BY <2>1 DEF ChangeOwnPassword
      <3> QED
        BY <1>1, <1>2, <1>3, <3>1, <3>2, <3>3
    <2>2. CASE SubmitEmail
      <3>1. PanelKept
        BY <2>2, SetKept DEF SubmitEmail
      <3> QED
        BY <1>1, <1>3, <1>5, <1>6, <2>2, <3>1 DEF SubmitEmail
    <2>3. CASE SubmitPasswordReset
      <3>1. PanelKept
        BY <2>3, SetKept DEF SubmitPasswordReset
      <3>2. \A name, pw : pw \in Passwords => PlainCalls(<<Call("reset", [name |-> name, pw |-> pw])>>)
        BY <1>1, WorkCall DEF ArgOK, Apart, AiCalls, WorkOps
      <3> QED
        BY <1>1, <1>3, <2>3, <3>1, <3>2 DEF SubmitPasswordReset
    <2>4. ASSUME NEW u, CreateNewUser(u) PROVE Stays
      <3>1. PanelKept
        BY <2>4, SetKept DEF CreateNewUser
      <3>2. User("new user") /\ UNCHANGED <<db, llm>> /\ (UNCHANGED calls \/ Send(<<Call("new user", panel.newUser)>>))
        BY <2>4 DEF CreateNewUser
      <3> QED
        BY <1>1, <1>2, <1>3, <1>5, <1>6, <3>1, <3>2
    <2>5. ASSUME NEW u, NEW op \in {"grant", "activate", "delete"}, ChangeUser(op, u) PROVE Stays
      <3>1. PanelKept
        BY <2>5, SetKept DEF ChangeUser
      <3>2. op \notin TypedOps
        BY <1>6
      <3> QED
        BY <1>1, <1>3, <1>5, <2>5, <3>1, <3>2 DEF ChangeUser
    <2>6. ASSUME NEW u, NEW field \in {"emailFor", "resetFor"}, OpenEditor(field, u) PROVE Stays
      <3>1. PanelKept
        BY <2>6, SetKept DEF OpenEditor
      <3> QED
        BY <1>1, <1>2, <2>6, <3>1 DEF OpenEditor
    <2> QED
      BY <1>11, <2>1, <2>2, <2>3, <2>4, <2>5, <2>6 DEF UsersTab
  <1>12. CASE BackupTab
    <2>1. PanelKept
      BY <1>12, SetKept DEF BackupTab, RunBackupNow
    <2> QED
      BY <1>1, <1>3, <1>5, <1>6, <1>12, <2>1 DEF BackupTab, RunBackupNow
  <1>13. CASE ExportTab
    <2>1. PanelKept
      BY <1>13, SetKept DEF ExportTab, ExportAs
    <2> QED
      BY <1>1, <1>3, <1>5, <1>6, <1>13, <2>1 DEF ExportTab, ExportAs
  <1> QED
    BY <1>7, <1>8, <1>9, <1>10, <1>11, <1>12, <1>13

LEMMA SettingsStays ==
    ASSUME Inv, SettingsNext, Inside
    PROVE  Stays
  <1>1. /\ UNCHANGED <<stored, cookie, mix>> /\ CallsOK /\ DbOK(db)
        /\ (UNCHANGED db => DbKept) /\ (DbKept => DbStep /\ DbGrows(db, db')) /\ (UNCHANGED panel => PanelKept)
    BY Unchanged DEF Inside, auth, Inv
  <1>2. ASSUME NEW i \in DOMAIN calls, SettingsServed(i) PROVE Stays
    <2>1. /\ calls[i].op \in {"put", "save", "backup", "system", "admin", "backups", "usage", "generate", "test", "export"}
          /\ MayPass(calls[i]) /\ \E y : Serve(i, y)
          /\ UNCHANGED <<acts, panel, llm>>
      BY <1>2 DEF SettingsServed, Arrives, Public
    <2>2. CASE calls[i].op = "save"
      <3> DEFINE x == Arg(i)
      <3>1. Serve(i, x) /\ db' = [db EXCEPT !.projects[x.id] = x.guide]
        BY <1>2, <2>2 DEF SettingsServed, Arrives
      <3>2. x.id \in DOMAIN db.projects
        BY <1>1, <2>2, ArgIs DEF ArgOK
      <3> HIDE DEF x
      <3>3. DbStep /\ DbGrows(db, db') /\ DOMAIN db'.projects = DOMAIN db.projects
        BY <1>1, <3>1, <3>2, GuideStep
      <3>4. AnsOK(db', calls[i].op, Arg(i), x)
        BY <2>2, <3>2, <3>3 DEF AnsOK
      <3>5. CallsKept
        BY <1>1, <2>1, <2>2, <3>1, <3>3, <3>4, ServePlain DEF Public
      <3> QED
        BY <1>1, <2>1, <3>3, <3>5, InsideRows
    <2>3. CASE calls[i].op # "save"
      <3>1. \/ UNCHANGED db
            \/ \E c : db' = [db EXCEPT !.config = c]
            \/ db' = [db EXCEPT !.backups = @ + 1]
        BY <1>2, <2>3 DEF SettingsServed, Arrives
      <3>2. DbKept
        BY <1>1, <3>1 DEF DbKept, DbOK, DbFields
      <3>3. CallsKept
        BY <1>1, <2>1, <2>3, <3>2, ServeQuiet DEF AnswerOps, Public
      <3> QED
        BY <1>1, <2>1, <3>2, <3>3, InsidePlain
    <2> QED
      BY <2>2, <2>3
  \* Answers that end in the screen.
  <1>3. ASSUME NEW i \in DOMAIN calls, PanelKept, UNCHANGED <<acts, db, llm>>, calls[i].op \notin Apart, Continue(i, <<>>)
        PROVE  Stays
    <2>1. CallsKept
      BY <1>1, <1>3, ContinueEnd
    <2> QED
      BY <1>1, <1>3, <2>1, InsidePlain
  <1>4. ASSUME NEW i \in DOMAIN calls, NEW op, op \notin TypedOps, NEW x, NEW b \in BOOLEAN,
               PanelKept, UNCHANGED <<acts, db, llm>>, calls[i].op \notin Apart, Continue(i, <<[Call(op, x) EXCEPT !.live = b]>>)
        PROVE  Stays
    <2>1. PlainCalls(<<[Call(op, x) EXCEPT !.live = b]>>)
      BY <1>1, <1>4, PlainLive
    <2>2. CallsKept
      BY <1>1, <1>4, <2>1, ContinuePlain
    <2> QED
      BY <1>1, <1>4, <2>2, InsidePlain
  <1>5. ASSUME NEW i \in DOMAIN calls, PanelKept, UNCHANGED <<acts, db>>, calls[i].op \in AiCalls, llm' = Ended, Continue(i, <<>>)
        PROVE  Stays
    <2>1. acts' \in Nat /\ panel'.kind = panel.kind
      BY <1>1, <1>5, ActsType DEF PanelKept, PanelOK, Inv
    <2>2. CallsStep /\ ReplacesKept /\ LlmOK'
      BY <1>1, <1>5, <2>1, PlainNone, EndedOK
    <2> QED
      BY <1>1, <1>5, <2>2, InsideAi
  <1>6. \A i \in DOMAIN calls : calls[i].live \in BOOLEAN
    BY <1>1 DEF CallsOK, CallOK
  <1>7. "users" \notin TypedOps /\ "backups" \notin TypedOps
    BY DEF TypedOps, Apart, AiCalls
  <1>8. ASSUME NEW i \in DOMAIN calls, SystemLoaded(i) PROVE Stays
    <2>1. PanelKept
      BY <1>1, <1>8, SetKept DEF SystemLoaded, Shown, Applied
    <2> QED
      BY <1>3, <1>8, <2>1 DEF SystemLoaded, Returned, Apart, AiCalls
  <1>9. ASSUME NEW i \in DOMAIN calls, ConnectionSaved(i) PROVE Stays
    <2>1. PanelKept
      BY <1>1, <1>9, SetKept DEF ConnectionSaved, Shown, Saved
    <2> QED
      BY <1>3, <1>9, <2>1 DEF ConnectionSaved, Returned, Apart, AiCalls
  <1>10. ASSUME NEW i \in DOMAIN calls, Generated(i) PROVE Stays
    <2>1. PanelKept
      BY <1>1, <1>10, SetKept DEF Generated, Shown
    <2> QED
      BY <1>5, <1>10, <2>1 DEF Generated, Returned, Thrown, AiCalls
  <1>11. ASSUME NEW i \in DOMAIN calls, Tested(i) PROVE Stays
    <2>1. PanelKept
      BY <1>1, <1>11, SetKept DEF Tested, Shown
    <2> QED
      BY <1>5, <1>11, <2>1 DEF Tested, Returned, Thrown, AiCalls
  <1>12. ASSUME NEW i \in DOMAIN calls, UsageLoaded(i) PROVE Stays
    <2>1. PanelKept
      BY <1>1, <1>12, SetKept DEF UsageLoaded, Shown
    <2> QED
      BY <1>3, <1>12, <2>1 DEF UsageLoaded, Returned, Apart, AiCalls
  <1>13. ASSUME NEW i \in DOMAIN calls, AdminKnown(i) PROVE Stays
    <2>1. PanelKept
      BY <1>1, <1>13, SetKept DEF AdminKnown, Shown
    <2>2. calls[i].op \notin Apart /\ UNCHANGED <<acts, db, llm>>
          /\ (Continue(i, <<>>) \/ Continue(i, <<Call("users", None)>>))
      BY <1>13 DEF AdminKnown, Returned, Thrown, Apart, AiCalls
    <2>3. PlainCalls(<<Call("users", None)>>)
      BY <1>1, <1>7, PlainCall
    <2>4. CallsKept
      BY <1>1, <2>2, <2>3, ContinuePlain, ContinueEnd
    <2> QED
      BY <1>1, <2>1, <2>2, <2>4, InsidePlain
  <1>14. ASSUME NEW i \in DOMAIN calls, UsersLoaded(i) PROVE Stays
    <2>1. PanelKept
      BY <1>1, <1>14, SetKept DEF UsersLoaded, Shown
    <2> QED
      BY <1>3, <1>14, <2>1 DEF UsersLoaded, Returned, Apart, AiCalls
  <1>15. ASSUME NEW i \in DOMAIN calls, UserChanged(i) PROVE Stays
    <2>1. PanelKept
      <3>1. \/ Shown(i, [newUser |-> None, userBusy |-> FALSE, usersError |-> FALSE])
            \/ Shown(i, [emailFor |-> None, usersError |-> FALSE])
            \/ Shown(i, [resetFor |-> None])
            \/ Shown(i, [usersError |-> FALSE])
        BY <1>15 DEF UserChanged
      <3> QED
        BY <1>1, <3>1, SetKept DEF Shown
    <2>2. calls[i].op \notin Apart /\ UNCHANGED <<acts, db, llm>>
          /\ (Continue(i, <<>>) \/ Continue(i, <<[Call("users", None) EXCEPT !.live = calls[i].live]>>))
      BY <1>15 DEF UserChanged, Returned, AdminOps, Apart, AiCalls
    <2> QED
      BY <1>3, <1>4, <1>6, <1>7, <2>1, <2>2
  <1>16. ASSUME NEW i \in DOMAIN calls, UsersThrown(i) PROVE Stays
    <2>1. PanelKept
      BY <1>1, <1>16, SetKept DEF UsersThrown, Shown
    <2> QED
      BY <1>3, <1>16, <2>1 DEF UsersThrown, AdminOps, Thrown, Apart, AiCalls
  <1>17. ASSUME NEW i \in DOMAIN calls, OwnPasswordChanged(i) PROVE Stays
    <2>1. PanelKept
      BY <1>1, <1>17, SetKept DEF OwnPasswordChanged, Shown
    <2> QED
      BY <1>3, <1>17, <2>1 DEF OwnPasswordChanged, Returned, Thrown, Apart, AiCalls
  <1>18. ASSUME NEW i \in DOMAIN calls, BackedUp(i) PROVE Stays
    BY <1>1, <1>4, <1>6, <1>7, <1>18 DEF BackedUp, Returned, Apart, AiCalls
  <1>19. ASSUME NEW i \in DOMAIN calls, BackupsListed(i) PROVE Stays
    <2>1. PanelKept
      BY <1>1, <1>19, SetKept DEF BackupsListed, Shown
    <2> QED
      BY <1>3, <1>19, <2>1 DEF BackupsListed, Returned, Apart, AiCalls
  <1>20. ASSUME NEW i \in DOMAIN calls, Exported(i) PROVE Stays
    <2>1. PanelKept
      BY <1>1, <1>20, SetKept DEF Exported, Shown
    <2> QED
      BY <1>3, <1>20, <2>1 DEF Exported, Returned, Thrown, Apart, AiCalls
  <1>21. ASSUME NEW i \in DOMAIN calls, SettingsOver(i) PROVE Stays
    <2>1. PanelKept
      <3>1. DOMAIN <<>> = {}
        BY EmptyList
      <3>2. Shown(i, [sysBusy |-> FALSE]) \/ Shown(i, [busy |-> FALSE]) \/ Shown(i, [backupBusy |-> FALSE]) \/ Shown(i, <<>>)
        BY <1>21 DEF SettingsOver
      <3> QED
        BY <1>1, <3>1, <3>2, SetKept DEF Shown
    <2> QED
      BY <1>3, <1>21, <2>1 DEF SettingsOver, Thrown, Apart, AiCalls
  <1> QED
    BY <1>2, <1>8, <1>9, <1>10, <1>11, <1>12, <1>13, <1>14, <1>15, <1>16, <1>17, <1>18, <1>19, <1>20, <1>21,
       SettingsClicks DEF SettingsNext

-----------------------------------------------------------------------------
(***************************************************************************)
(* The accounts, the imports and the dashboard.                            *)
(***************************************************************************)
LEMMA AccountsStay ==
    ASSUME Inv, NEW i \in DOMAIN calls, AccountsServed(i) \/ OwnPasswordServed(i),
           UNCHANGED <<mix, stored, cookie, authed, place, watch, permission, session>>
    PROVE  Stays
  <1>1. CallsOK /\ DbOK(db) /\ UNCHANGED <<acts, panel, llm>>
    BY DEF Inv, AccountsServed, OwnPasswordServed
  <1>2. PanelKept /\ acts' \in 0..mix.acts /\ link' \in Nat \cup {None} /\ password \in Passwords
    BY <1>1, Unchanged DEF Inv, AuthOK, session
  <1>3. MayPass(calls[i]) /\ calls[i].op \in AdminOps \cup {"own"} /\ ((\E y : Serve(i, y)) \/ Refuse(i))
    BY DEF AccountsServed, OwnPasswordServed, Arrives, AdminOps, Public
  <1>4. ArgOK(db, calls[i].op, Arg(i))
    BY <1>1, <1>3, ArgIs DEF AdminOps
  <1>5. password' \in Passwords
    BY <1>2, <1>4 DEF AccountsServed, OwnPasswordServed, Arrives, ArgOK
  <1>6. /\ DOMAIN db' = DOMAIN db
        /\ db'.projects = db.projects /\ db'.jobs = db.jobs /\ db'.texts = db.texts
        /\ db'.hash \in Nat
    <2>1. CASE UNCHANGED db
      BY <1>1, <2>1 DEF DbOK
    <2>2. CASE db' = Rehashed(db)
      BY <1>1, <2>2 DEF DbOK, DbFields, Rehashed
    <2>3. ASSUME NEW u, NEW a, NEW m, NEW n, db' = [db EXCEPT !.users = u, !.active = a, !.admins = m, !.mail = n]
          PROVE  /\ DOMAIN db' = DOMAIN db
                 /\ db'.projects = db.projects /\ db'.jobs = db.jobs /\ db'.texts = db.texts
                 /\ db'.hash \in Nat
      BY <1>1, <2>3 DEF DbOK, DbFields
    <2>4. ASSUME NEW u, NEW a, NEW m, db' = [db EXCEPT !.users = u, !.active = a, !.admins = m]
          PROVE  /\ DOMAIN db' = DOMAIN db
                 /\ db'.projects = db.projects /\ db'.jobs = db.jobs /\ db'.texts = db.texts
                 /\ db'.hash \in Nat
      BY <1>1, <2>4 DEF DbOK, DbFields
    <2>5. ASSUME NEW f \in {"admins", "active", "mail"}, NEW a, db' = [db EXCEPT ![f] = a]
          PROVE  /\ DOMAIN db' = DOMAIN db
                 /\ db'.projects = db.projects /\ db'.jobs = db.jobs /\ db'.texts = db.texts
                 /\ db'.hash \in Nat
      BY <1>1, <2>5 DEF DbOK, DbFields
    <2>6. CASE AccountsServed(i)
      <3> DEFINE op == calls[i].op
                 x == Arg(i)
      <3>1. UNCHANGED db \/ (db' = AccountsAfter(op, x) /\ op \in AdminOps)
        BY <2>6 DEF AccountsServed, Arrives
      <3> HIDE DEF op, x
      <3>2. CASE db' = AccountsAfter(op, x) /\ op \in AdminOps
        <4>1. \/ UNCHANGED db
              \/ db' = Rehashed(db)
              \/ db' = [db EXCEPT !.users = @ \cup {x.name}, !.active = @ \cup {x.name}, !.admins = With(@, x.name, x.admin)]
              \/ db' = [db EXCEPT !.users = @ \ {x.name}, !.active = @ \ {x.name}, !.admins = @ \ {x.name}, !.mail = @ \ {x.name}]
              \/ db' = [db EXCEPT !["admins"] = With(@, x.name, x.to)]
              \/ db' = [db EXCEPT !["active"] = With(@, x.name, x.to)]
              \/ db' = [db EXCEPT !["mail"] = @ \cup {x.name}]
          BY <3>2 DEF AccountsAfter, AdminOps
        <4> QED
          <5>1. CASE \E f \in {"admins", "active", "mail"} : \E a : db' = [db EXCEPT ![f] = a]
            BY <2>5, <5>1
          <5>2. CASE db' = [db EXCEPT !.users = @ \cup {x.name}, !.active = @ \cup {x.name}, !.admins = With(@, x.name, x.admin)]
            BY <2>4, <5>2
          <5>3. CASE db' = [db EXCEPT !.users = @ \ {x.name}, !.active = @ \ {x.name}, !.admins = @ \ {x.name}, !.mail = @ \ {x.name}]
            BY <2>3, <5>3
          <5> QED
            BY <2>1, <2>2, <4>1, <5>1, <5>2, <5>3
      <3> QED
        BY <2>1, <3>1, <3>2
    <2> QED
      BY <2>1, <2>2, <2>6 DEF OwnPasswordServed
  <1>7. DbStep /\ DbGrows(db, db')
    BY <1>1, <1>6 DEF DbStep, DbOK, DbGrows, TextsKept
  <1>8. CallsKept
    BY <1>1, <1>3, <1>7, ServeQuiet DEF AnswerOps, Public, AdminOps
  <1> QED
    BY <1>1, <1>2, <1>5, <1>7, <1>8, PlainStep

\* The import that the screen follows changes, and nothing else that matters here.
LEMMA FollowStep ==
    ASSUME Inv, UNCHANGED <<mix, auth, session, llm>>, acts' = acts \/ \E op : User(op),
           DOMAIN panel' = DOMAIN panel,
           \A f \in {"kind", "language", "diff", "replaceBusy", "result", "asked", "q"} :
              f \in DOMAIN panel => panel'[f] = panel[f],
           ImportOK(panel', db'), DbStep, CallsKept, WatchOK'
    PROVE  Stays
  <1>1. PanelOK /\ panel'.kind = panel.kind /\ (OnLogin => panel'.language = panel.language)
    BY DEF Inv, PanelOK, OnLogin
  <1>2. SearchKept
    BY <1>1 DEF SearchKept, PanelOK
  <1>3. panel.kind = "write" => panel'.diff = panel.diff
    BY <1>1 DEF PanelOK
  <1>4. panel.kind = "search" => panel'.q = panel.q
    BY <1>1 DEF PanelOK
  <1>5. PanelOK'
    BY <1>1, <1>3, <1>4 DEF PanelOK, ComparesOneEpisode, OnWrite, OnLogin
  <1>6. acts' \in 0..mix.acts /\ password' \in Passwords /\ link' \in Nat \cup {None}
    BY ActsType DEF auth, session, Inv, AuthOK
  <1>7. CallsStep /\ ReplacesKept /\ LlmOK'
    BY <1>1, LlmStays DEF CallsKept, Inv
  <1> QED
    BY <1>1, <1>2, <1>5, <1>6, <1>7, ScreenStep

LEMMA StoppedOK ==
    ASSUME WatchOK, NEW inst
    PROVE  \A w \in Stopped(inst) : DOMAIN w = {"job", "inst", "on", "noticed"} /\ w.job \in DOMAIN db.jobs
  <1> SUFFICES ASSUME NEW v \in watch, NEW w \in {v, [v EXCEPT !.on = FALSE]}
               PROVE  DOMAIN w = {"job", "inst", "on", "noticed"} /\ w.job \in DOMAIN db.jobs
    BY DEF Stopped
  <1> QED
    BY DEF WatchOK

LEMMA UnwatchedOK ==
    ASSUME WatchOK, DbGrows(db, db'), watch' \in {watch, Unwatched, {}}
    PROVE  WatchOK'
  BY StoppedOK DEF Unwatched, WatchOK, DbGrows

\* A new project.
LEMMA ProjectAdded ==
    ASSUME DbOK(db), db' = [db EXCEPT !.projects = Append(@, None)]
    PROVE  DbStep /\ DbGrows(db, db') /\ Len(db.projects) + 1 \in DOMAIN db'.projects
  <1> DEFINE t == Append(db.projects, None)
  <1>1. /\ DOMAIN db' = DOMAIN db /\ db'.projects = t
        /\ \A f \in DOMAIN db \ {"projects"} : db'[f] = db[f]
    BY DEF DbOK, DbFields
  <1>2. IsList(t) /\ DOMAIN t = DOMAIN db.projects \cup {Len(db.projects) + 1}
    BY AppendList DEF DbOK
  <1> HIDE DEF t
  <1> QED
    BY <1>1, <1>2 DEF DbStep, DbOK, DbFields, DbGrows, TextsKept

\* A new import.
LEMMA JobAdded ==
    ASSUME DbOK(db), NEW into, into = None \/ into \in DOMAIN db.projects,
           db' = [db EXCEPT !.jobs = Append(@, [status |-> "queued", into |-> into])]
    PROVE  DbStep /\ DbGrows(db, db') /\ Len(db.jobs) + 1 \in DOMAIN db'.jobs
  <1> DEFINE c == [status |-> "queued", into |-> into]
             t == Append(db.jobs, c)
  <1>1. /\ DOMAIN db' = DOMAIN db /\ db'.jobs = t
        /\ \A f \in DOMAIN db \ {"jobs"} : db'[f] = db[f]
    BY DEF DbOK, DbFields
  <1>2. /\ DOMAIN c = {"status", "into"} /\ c.status = "queued" /\ c.into = into
    OBVIOUS
  <1> HIDE DEF c
  <1>3. /\ IsList(t) /\ DOMAIN t = DOMAIN db.jobs \cup {Len(db.jobs) + 1} /\ Len(db.jobs) + 1 \notin DOMAIN db.jobs
        /\ \A k \in DOMAIN db.jobs : t[k] = db.jobs[k]
        /\ t[Len(db.jobs) + 1] = c
    BY AppendList DEF DbOK
  <1> HIDE DEF t
  <1>4. ASSUME NEW k \in DOMAIN t
        PROVE  /\ DOMAIN t[k] = {"status", "into"}
               /\ t[k].status \in {"queued", "running"} \cup over
               /\ t[k].into = None \/ t[k].into \in DOMAIN db.projects
               /\ t[k].status \in {"running", "completed"} => t[k].into \in DOMAIN db.projects
    <2>1. CASE k = Len(db.jobs) + 1
      BY <1>2, <1>3, <2>1
    <2>2. CASE k \in DOMAIN db.jobs
      BY <1>3, <2>2 DEF DbOK
    <2> QED
      BY <1>3, <2>1, <2>2
  <1>5. DbOK(db')
    BY <1>1, <1>3, <1>4 DEF DbOK, DbFields
  <1> QED
    BY <1>1, <1>3, <1>5 DEF DbStep, DbOK, DbFields, DbGrows, TextsKept

\* A job goes on, and may make its project.
LEMMA JobMoved ==
    ASSUME DbOK(db), NEW j \in DOMAIN db.jobs, JobStep(j)
    PROVE  DbStep /\ DbGrows(db, db')
  <1>1. PICK s \in (IF db.jobs[j].status = "queued" THEN {"running", "error"} ELSE over) :
           LET makes == s = "running" /\ db.jobs[j].into = None IN
           db' = [db EXCEPT !.jobs[j].status = s,
                            !.jobs[j].into = IF makes THEN Len(db.projects) + 1 ELSE @,
                            !.projects = IF makes THEN Append(@, None) ELSE @]
    BY DEF JobStep
  <1> DEFINE makes == s = "running" /\ db.jobs[j].into = None
             c == [db.jobs[j] EXCEPT !.status = s, !.into = IF makes THEN Len(db.projects) + 1 ELSE @]
             t == [db.jobs EXCEPT ![j] = c]
             ps == IF makes THEN Append(db.projects, None) ELSE db.projects
  <1>2. /\ DOMAIN db' = DOMAIN db /\ db'.jobs = t /\ db'.projects = ps
        /\ \A f \in DOMAIN db \ {"jobs", "projects"} : db'[f] = db[f]
    <2>1. DOMAIN db' = DOMAIN db /\ \A f \in DOMAIN db \ {"jobs", "projects"} : db'[f] = db[f]
      BY <1>1
    <2>2. db'.projects = ps
      BY <1>1 DEF DbOK, DbFields
    <2>3. db'.jobs = t
      BY <1>1 DEF DbOK, DbFields
    <2> QED
      BY <2>1, <2>2, <2>3
  <1>3. t = [k \in DOMAIN db.jobs |-> t[k]] /\ DOMAIN t = DOMAIN db.jobs
        /\ \A k \in DOMAIN t : t[k] = IF k = j THEN c ELSE db.jobs[k]
    OBVIOUS
  <1>4. /\ IsList(ps) /\ DOMAIN db.projects \subseteq DOMAIN ps
        /\ makes => Len(db.projects) + 1 \in DOMAIN ps
    BY AppendList DEF DbOK
  <1>5. /\ db.jobs[j].status \in {"queued", "running"}
        /\ db.jobs[j].into = None \/ db.jobs[j].into \in DOMAIN db.projects
        /\ db.jobs[j].status = "running" => db.jobs[j].into \in DOMAIN db.projects
        /\ DOMAIN db.jobs[j] = {"status", "into"}
    BY DEF DbOK, JobStep, over
  <1>6. DOMAIN c = {"status", "into"} /\ c.status = s /\ c.into = IF makes THEN Len(db.projects) + 1 ELSE db.jobs[j].into
    BY <1>5
  <1>7. /\ s \in {"queued", "running"} \cup over
        /\ c.into = None \/ c.into \in DOMAIN ps
        /\ s \in {"running", "completed"} => c.into \in DOMAIN ps
    BY <1>4, <1>5, <1>6 DEF over
  <1>8. IsList(t)
    BY <1>3, MapList DEF DbOK
  <1> HIDE DEF t, ps, c
  <1>10. ASSUME NEW k \in DOMAIN t
         PROVE  /\ DOMAIN t[k] = {"status", "into"}
                /\ t[k].status \in {"queued", "running"} \cup over
                /\ t[k].into = None \/ t[k].into \in DOMAIN ps
                /\ t[k].status \in {"running", "completed"} => t[k].into \in DOMAIN ps
    <2>1. CASE k = j
      BY <1>3, <1>6, <1>7, <2>1
    <2>2. CASE k # j
      BY <1>3, <1>4, <2>2 DEF DbOK
    <2> QED
      BY <2>1, <2>2
  <1>11. DbOK(db')
    BY <1>2, <1>4, <1>8, <1>10 DEF DbOK, DbFields
  <1>12. \A k \in DOMAIN db.jobs : db.jobs[k].status = "completed" => t[k].status = "completed"
    BY <1>3, <1>5
  <1> QED
    BY <1>2, <1>3, <1>4, <1>11, <1>12 DEF DbStep, DbOK, DbFields, DbGrows, TextsKept

\* The post of the file, for a new project or into one of the rows.
LEMMA StartStays ==
    ASSUME Inv, NEW into, into = None \/ into \in DOMAIN db.projects, StartImport(into), UNCHANGED <<mix, auth, session>>
    PROVE  Stays
  <1> DEFINE x == [inst |-> panel.import.inst, into |-> into]
  <1>1. /\ UNCHANGED <<stored, cookie, db, llm, watch>> /\ CallsOK /\ DbKept /\ DbStep /\ DbGrows(db, db')
        /\ HasImport /\ User("import") /\ Send(<<Call("import", x)>>) /\ ImportOK(panel, db)
        /\ panel' = [panel EXCEPT !.import.busy = TRUE]
    BY Unchanged DEF StartImport, auth, Inv, PanelOK
  <1>2. ArgOK(db', "import", x)
    BY <1>1 DEF ArgOK
  <1>3. PlainCalls(<<Call("import", x)>>)
    BY <1>1, <1>2, WorkCall DEF Apart, AiCalls, WorkOps
  <1>4. CallsKept
    BY <1>1, <1>3, SendPlain
  <1>5. ImportOK(panel', db')
    BY <1>1 DEF ImportOK, HasImport
  <1>6. WatchOK'
    BY <1>1, UnwatchedOK DEF Inv
  <1> QED
    BY <1>1, <1>4, <1>5, <1>6, FollowStep

LEMMA ImportsStay ==
    ASSUME Inv, ImportNext, UNCHANGED <<mix, auth, place, session>>
    PROVE  Stays
  <1>1. UNCHANGED <<stored, cookie>> /\ CallsOK /\ DbOK(db) /\ PanelOK /\ ImportOK(panel, db) /\ WatchOK
    BY DEF auth, Inv, PanelOK
  <1>2. ASSUME UNCHANGED <<acts, panel, llm, watch>>, DbStep, CallsKept PROVE Stays
    <2>1. acts' \in 0..mix.acts /\ password' \in Passwords /\ link' \in Nat \cup {None} /\ PanelKept
      BY <1>2, Unchanged DEF auth, session, Inv, AuthOK
    <2> QED
      BY <1>2, <2>1, PlainStep
  <1>3. UNCHANGED db => DbKept /\ DbStep /\ DbGrows(db, db')
    BY Unchanged
  <1>4. ASSUME NEW j \in DOMAIN db.jobs, JobStep(j) PROVE Stays
    <2>1. DbStep /\ DbGrows(db, db')
      BY <1>1, <1>4, JobMoved
    <2>2. CallsKept
      BY <1>1, <1>4, <2>1, KeepCalls DEF JobStep, CallsKept
    <2> QED
      BY <1>2, <1>4, <2>1, <2>2 DEF JobStep
  <1>5. ASSUME NEW w \in watch, Poll(w) PROVE Stays
    <2>1. w.job \in DOMAIN db'.jobs /\ UNCHANGED db
      BY <1>1, <1>5 DEF WatchOK, Poll
    <2>2. ArgOK(db', "poll", [job |-> w.job, inst |-> w.inst])
      BY <2>1 DEF ArgOK
    <2>3. PlainCalls(<<Call("poll", [job |-> w.job, inst |-> w.inst])>>)
      BY <1>1, <2>2, WorkCall DEF Apart, AiCalls, WorkOps
    <2>4. CallsKept
      BY <1>1, <1>3, <1>5, <2>1, <2>3, SendPlain DEF Poll
    <2> QED
      BY <1>2, <1>3, <1>5, <2>1, <2>4 DEF Poll
  <1>6. ASSUME NEW i \in DOMAIN calls, ImportServed(i) PROVE Stays
    <2>1. calls[i].op = "import" /\ MayPass(calls[i]) /\ Serve(i, Len(db.jobs) + 1)
      BY <1>6 DEF ImportServed, Arrives, Public
    <2>2. Arg(i).into = None \/ Arg(i).into \in DOMAIN db.projects
      BY <1>1, <2>1, ArgIs DEF ArgOK
    <2>3. DbStep /\ DbGrows(db, db') /\ Len(db.jobs) + 1 \in DOMAIN db'.jobs
      BY <1>1, <1>6, <2>2, JobAdded DEF ImportServed
    <2>4. AnsOK(db', calls[i].op, Arg(i), Len(db.jobs) + 1)
      BY <2>1, <2>3 DEF AnsOK
    <2>5. CallsKept
      BY <1>1, <2>1, <2>3, <2>4, ServePlain DEF Public
    <2> QED
      BY <1>2, <1>6, <2>3, <2>5 DEF ImportServed
  <1>7. ASSUME NEW i \in DOMAIN calls, PollServed(i) PROVE Stays
    <2>1. calls[i].op = "poll" /\ MayPass(calls[i]) /\ Serve(i, db.jobs[Arg(i).job].status) /\ UNCHANGED db
      BY <1>7 DEF PollServed, Arrives, Public
    <2>2. AnsOK(db', calls[i].op, Arg(i), db.jobs[Arg(i).job].status)
      BY <2>1 DEF AnsOK
    <2>3. CallsKept
      BY <1>1, <1>3, <2>1, <2>2, ServePlain DEF Public
    <2> QED
      BY <1>2, <1>3, <1>7, <2>1, <2>3 DEF PollServed
  <1>8. ASSUME NEW i \in DOMAIN calls, PollThrown(i) PROVE Stays
    <2>1. CallsKept
      BY <1>1, <1>3, <1>8, ContinueEnd DEF PollThrown, Thrown, Apart, AiCalls
    <2> QED
      BY <1>2, <1>3, <1>8, <2>1 DEF PollThrown
  <1>9. ASSUME NEW i \in DOMAIN calls, ImportThrown(i) PROVE Stays
    <2>1. CallsKept
      BY <1>1, <1>3, <1>9, ContinueEnd DEF ImportThrown, Thrown, Apart, AiCalls
    <2>2. panel' = panel \/ (HasImport /\ panel' = [panel EXCEPT !.import.busy = FALSE])
      BY <1>9 DEF ImportThrown, Following
    <2>3. ImportOK(panel', db')
      BY <1>1, <1>9, <2>2 DEF ImportThrown, ImportOK, HasImport
    <2>4. WatchOK'
      BY <1>1, <1>3, <1>9, UnwatchedOK DEF ImportThrown
    <2> QED
      BY <1>3, <1>9, <2>1, <2>2, <2>3, <2>4, FollowStep DEF ImportThrown
  <1>10. ASSUME NEW i \in DOMAIN calls, ImportStarted(i) PROVE Stays
    <2> DEFINE j == Ans(i)
               w == [job |-> j, inst |-> Arg(i).inst, on |-> TRUE, noticed |-> 0]
               job == [id |-> j, status |-> "queued"]
    <2>1. /\ calls[i].op = "import" /\ calls[i].status = "ok" /\ Continue(i, <<>>) /\ UNCHANGED <<acts, db, llm>>
          /\ watch' = watch \cup {w}
          /\ panel' = panel \/ (HasImport /\ panel' = [panel EXCEPT !.import.job = job, !.import.busy = FALSE])
      BY <1>10 DEF ImportStarted, Returned, Following
    <2>2. j \in DOMAIN db.jobs
      BY <1>1, <2>1, ArgIs DEF AnsOK
    <2>3. CallsKept
      BY <1>1, <1>3, <2>1, ContinueEnd DEF Apart, AiCalls
    <2>4. DOMAIN w = {"job", "inst", "on", "noticed"} /\ w.job = j
      OBVIOUS
    <2>5. job.status # "completed"
      OBVIOUS
    <2> HIDE DEF j, w, job
    <2>6. WatchOK'
      BY <1>1, <2>1, <2>2, <2>4 DEF WatchOK
    <2>7. ImportOK(panel', db')
      BY <1>1, <2>1, <2>5 DEF ImportOK, HasImport
    <2> QED
      BY <1>3, <2>1, <2>3, <2>6, <2>7, FollowStep
  <1>11. ASSUME NEW i \in DOMAIN calls, PollAnswered(i) PROVE Stays
    <2> DEFINE j == Arg(i).job
               job == [id |-> j, status |-> Ans(i)]
    <2>1. /\ calls[i].op = "poll" /\ calls[i].status = "ok" /\ Continue(i, <<>>) /\ UNCHANGED <<acts, db, llm>>
          /\ panel' = panel \/ (HasImport /\ panel' = [panel EXCEPT !.import.job = job])
      BY <1>11 DEF PollAnswered, Returned, Following
    <2>2. j \in DOMAIN db.jobs /\ (Ans(i) = "completed" => db.jobs[j].status = "completed")
      BY <1>1, <2>1, ArgIs DEF ArgOK, AnsOK
    <2>3. CallsKept
      BY <1>1, <1>3, <2>1, ContinueEnd DEF Apart, AiCalls
    <2>4. job.id = j /\ job.status = Ans(i)
      OBVIOUS
    <2> HIDE DEF job
    <2>5. ImportOK(panel', db')
      BY <1>1, <2>1, <2>2, <2>4 DEF ImportOK, HasImport
    <2> HIDE DEF j
    <2>6. WatchOK'
      <3>1. watch' = watch \/ \E inst, k : watch' = {Notified(v, k) : v \in Stopped(inst)}
        BY <1>11 DEF PollAnswered
      <3>2. ASSUME NEW inst, NEW k, NEW v \in Stopped(inst)
            PROVE  DOMAIN Notified(v, k) = {"job", "inst", "on", "noticed"} /\ Notified(v, k).job \in DOMAIN db.jobs
        <4>1. DOMAIN v = {"job", "inst", "on", "noticed"} /\ v.job \in DOMAIN db.jobs
          BY <1>1, <3>2, StoppedOK
        <4> QED
          BY <4>1 DEF Notified
      <3> QED
        BY <1>1, <2>1, <3>1, <3>2 DEF WatchOK
    <2> QED
      BY <1>3, <2>1, <2>3, <2>5, <2>6, FollowStep
  <1> QED
    BY <1>4, <1>5, <1>6, <1>7, <1>8, <1>9, <1>10, <1>11 DEF ImportNext

\* What happens on the dashboard without a change of the screen.
LEMMA DashboardStays ==
    ASSUME Inv, DashboardNext, UNCHANGED <<mix, auth, session>>
    PROVE  \/ Stays /\ UNCHANGED place
           \/ \E p \in DOMAIN db.projects : ClickProject(p)
           \/ \E i \in DOMAIN calls : Created(i) \/ Finished(i)
  <1>1. /\ UNCHANGED <<stored, cookie>> /\ CallsOK /\ DbOK(db) /\ PanelOK /\ ImportOK(panel, db) /\ WatchOK
        /\ (UNCHANGED db => DbKept /\ DbStep /\ DbGrows(db, db')) /\ (UNCHANGED panel => PanelKept)
    BY Unchanged DEF auth, Inv, PanelOK
  <1>2. ASSUME UNCHANGED <<llm, watch>>, acts' = acts \/ \E op : User(op), PanelKept, DbStep, CallsKept PROVE Stays
    <2>1. acts' \in 0..mix.acts /\ password' \in Passwords /\ link' \in Nat \cup {None}
      BY <1>2, ActsType DEF auth, session, Inv, AuthOK
    <2> QED
      BY <1>2, <2>1, PlainStep
  <1>3. CASE ImportProject
    BY <1>3, StartStays DEF ImportProject
  <1>4. CASE OpenDialog
    <2>1. /\ UNCHANGED <<calls, place, db, llm, watch>> /\ \E op : User(op)
          /\ \/ panel' = [panel EXCEPT !.form = "empty"]
             \/ panel' = [panel EXCEPT !.import = NoImport(acts')]
      BY <1>4 DEF OpenDialog
    <2>2. CallsKept /\ WatchOK'
      BY <1>1, <2>1, Unchanged, UnwatchedOK
    <2>3. ImportOK(panel', db')
      BY <1>1, <2>1 DEF ImportOK, NoImport
    <2> QED
      BY <1>1, <2>1, <2>2, <2>3, FollowStep
  <1>5. CASE CancelDialog
    <2>1. /\ UNCHANGED <<calls, place, db, llm>> /\ User("cancel") /\ watch' \in {watch, Unwatched}
          /\ \/ panel' = [panel EXCEPT !.form = None]
             \/ panel' = [panel EXCEPT !.import = None]
      BY <1>5 DEF CancelDialog
    <2>2. CallsKept /\ WatchOK'
      BY <1>1, <2>1, Unchanged, UnwatchedOK
    <2>3. ImportOK(panel', db')
      BY <1>1, <2>1 DEF ImportOK
    <2> QED
      BY <1>1, <2>1, <2>2, <2>3, FollowStep
  <1>6. CASE CreateProject
    <2>1. PanelKept /\ panel'.kind \in Work /\ UNCHANGED <<place, db, llm, watch>> /\ User("create")
          /\ Send(<<Call("create", panel.inst)>>)
      BY <1>1, <1>6 DEF CreateProject, OnDashboard, PanelKept, PanelOK, Work
    <2>2. PlainCalls(<<Call("create", panel.inst)>>)
      BY <1>1, <2>1, WorkCall DEF ArgOK, Apart, AiCalls
    <2>3. CallsKept
      BY <1>1, <2>1, <2>2, SendPlain
    <2> QED
      BY <1>1, <1>2, <2>1, <2>3
  <1>7. CASE FinishImport
    <2> DEFINE p == db.jobs[panel.import.job.id].into
    <2>1. /\ UNCHANGED <<place, panel, db, llm, watch>> /\ User("finish") /\ Send(<<Call("project", p)>>)
          /\ panel.kind = "dashboard" /\ HasImport /\ panel.import.job # None /\ panel.import.job.status = "completed"
      BY <1>7 DEF FinishImport, OnDashboard, Showing
    <2>2. p \in DOMAIN db'.projects
      BY <1>1, <2>1 DEF ImportOK, HasImport, DbOK
    <2> HIDE DEF p
    <2>3. PlainCalls(<<Call("project", p)>>)
      BY <1>1, <2>1, <2>2, WorkCall DEF ArgOK, Apart, AiCalls, Work
    <2>4. CallsKept
      BY <1>1, <2>1, <2>3, SendPlain
    <2> QED
      BY <1>1, <1>2, <2>1, <2>4
  <1>8. ASSUME NEW i \in DOMAIN calls, DashboardServed(i) PROVE Stays
    <2>1. /\ UNCHANGED <<acts, place, panel, db, llm, watch>> /\ MayPass(calls[i])
          /\ calls[i].op \in {"whoami", "projects", "count", "home", "project"}
          /\ \E y : Serve(i, y) /\ (calls[i].op = "projects" => y = db.projects)
                                /\ (calls[i].op = "project" => y = Row(Arg(i), db.projects[Arg(i)]))
      BY <1>8 DEF DashboardServed, Arrives, Public
    <2>2. PICK y : Serve(i, y) /\ (calls[i].op = "projects" => y = db.projects)
                               /\ (calls[i].op = "project" => y = Row(Arg(i), db.projects[Arg(i)]))
      BY <2>1
    <2>3. calls[i].op = "project" => Arg(i) \in DOMAIN db'.projects
      BY <1>1, <2>1, ArgIs DEF ArgOK
    <2>4. AnsOK(db', calls[i].op, Arg(i), y)
      BY <1>1, <2>1, <2>2, <2>3 DEF AnsOK, Row, DbOK
    <2>5. CallsKept
      BY <1>1, <2>1, <2>2, <2>4, ServePlain DEF Public
    <2> QED
      BY <1>1, <1>2, <2>1, <2>5
  <1>9. ASSUME NEW i \in DOMAIN calls, Greeted(i) \/ Counted(i) \/ LoadFailed(i) \/ CreateThrown(i) \/ HomeLoaded(i) \/ NothingMore(i)
        PROVE  Stays
    <2>1. PanelKept
      BY <1>1, <1>9 DEF PanelKept, Greeted, Counted, LoadFailed, CreateThrown, HomeLoaded, NothingMore
    <2>2. UNCHANGED <<acts, place, db, llm, watch>> /\ calls[i].op \notin Apart /\ Continue(i, <<>>)
      BY <1>9 DEF Greeted, Counted, LoadFailed, CreateThrown, HomeLoaded, NothingMore, Returned, Thrown, Apart, AiCalls
    <2>3. CallsKept
      BY <1>1, <2>2, ContinueEnd
    <2> QED
      BY <1>1, <1>2, <2>1, <2>2, <2>3
  <1>10. ASSUME NEW i \in DOMAIN calls, ProjectsLoaded(i) PROVE Stays
    <2>1. PanelKept
      BY <1>1, <1>10 DEF PanelKept, ProjectsLoaded
    <2>2. UNCHANGED <<acts, place, db, llm, watch>> /\ calls[i].op = "projects" /\ calls[i].status = "ok"
      BY <1>10 DEF ProjectsLoaded, Returned
    <2> DEFINE cs == [n \in DOMAIN Ans(i) |-> Call("count", n)]
    <2>3. Continue(i, <<>>) \/ Continue(i, cs)
      BY <1>10 DEF ProjectsLoaded
    <2>4. IsList(Ans(i))
      BY <1>1, <2>2, ArgIs DEF AnsOK
    <2>5. PlainCalls(cs)
      <3>1. cs = [n \in DOMAIN Ans(i) |-> cs[n]]
        OBVIOUS
      <3>2. \A n \in DOMAIN cs : NewCall(cs[n]) /\ cs[n].op \notin Apart
        <4>1. \A n : NewCall(Call("count", n))
          BY <1>1, PlainCall DEF TypedOps, Apart, AiCalls
        <4> QED
          BY <4>1 DEF Call, CallWith, Apart, AiCalls
      <3> HIDE DEF cs
      <3> QED
        BY <2>4, <3>1, <3>2, MapList DEF PlainCalls
    <2> HIDE DEF cs
    <2>6. CallsKept
      BY <1>1, <2>2, <2>3, <2>5, ContinuePlain, ContinueEnd DEF Apart, AiCalls
    <2> QED
      BY <1>1, <1>2, <2>1, <2>2, <2>6
  <1>11. ASSUME NEW i \in DOMAIN calls, CreateServed(i) PROVE Stays
    <2>1. /\ calls[i].op = "create" /\ MayPass(calls[i]) /\ UNCHANGED <<acts, place, panel, llm, watch>>
          /\ Serve(i, Row(Len(db.projects) + 1, None)) /\ db' = [db EXCEPT !.projects = Append(@, None)]
      BY <1>11 DEF CreateServed, Arrives, Public
    <2>2. DbStep /\ DbGrows(db, db') /\ Len(db.projects) + 1 \in DOMAIN db'.projects
      BY <1>1, <2>1, ProjectAdded
    <2>3. AnsOK(db', calls[i].op, Arg(i), Row(Len(db.projects) + 1, None))
      BY <2>1, <2>2 DEF AnsOK, Row
    <2>4. CallsKept
      BY <1>1, <2>1, <2>2, <2>3, ServePlain DEF Public
    <2> QED
      BY <1>1, <1>2, <2>1, <2>2, <2>4
  <1>12. UNCHANGED place \/ (\E p \in DOMAIN db.projects : ClickProject(p)) \/ \E i \in DOMAIN calls : Created(i) \/ Finished(i)
    BY DEF DashboardNext, ImportProject, OpenDialog, CancelDialog, CreateProject, FinishImport, DashboardServed, Greeted,
       ProjectsLoaded, Counted, LoadFailed, CreateServed, CreateThrown, HomeLoaded, NothingMore
  <1> QED
    BY <1>3, <1>4, <1>5, <1>6, <1>7, <1>8, <1>9, <1>10, <1>11, <1>12 DEF DashboardNext


-----------------------------------------------------------------------------
(***************************************************************************)
(* Another screen takes the place of this one.                             *)
(***************************************************************************)
LEMMA MountInv ==
    ASSUME Inv, UNCHANGED <<mix, auth, session, llm, db>>, acts' \in 0..mix.acts,
           panel.kind \in Work, panel'.kind \in Work, PanelOK', panel'.kind = "search" => ~panel'.asked.alone,
           CallsStep, Number(calls', AiCalls) = Number(calls, AiCalls), WatchOK', section' \in Sections,
           project' # None => panel'.kind \in Sections,
           panel'.kind \in Sections => panel'.kind = section' /\ project'.id \in DOMAIN db.projects
    PROVE  Inv'
  <1>1. UNCHANGED <<stored, cookie, password, authed, language, shownIn, link, chosen, signedOut>>
    BY DEF auth, session
  <1>2. AuthOK' /\ DbOK(db)' /\ VoidOK'
    BY <1>1 DEF Inv, AuthOK, VoidOK
  <1>3. PlaceOK'
    BY <1>1 DEF Inv, PlaceOK, Work, Sections
  <1>4. LlmOK'
    BY DEF Inv, LlmOK, Active
  <1>5. CallsOK' /\ CredsOK'
    BY <1>1, CallsStepOK, CallsStepCreds DEF Inv
  <1>6. LeftOK'
    BY <1>1, CallsStepLeft DEF Inv, LeftOK
  <1>7. ChoiceOK'
    BY <1>1 DEF Inv, ChoiceOK, OnLogin, Work, Sections
  <1>8. ReplaceOK'
    BY DEF ReplaceOK
  <1> QED
    BY <1>2, <1>3, <1>4, <1>5, <1>6, <1>7, <1>8 DEF Inv

LEMMA MountCalls ==
    ASSUME CallsOK, DbGrows(db, db'), NEW cs, IsList(cs), ToSet(cs) \subseteq ToSet(calls), NEW ds, PlainCalls(ds),
           calls' = Orphan(cs) \o ds
    PROVE  CallsStep /\ Number(calls', AiCalls) = Number(cs, AiCalls)
  <1> DEFINE o == Orphan(cs)
  <1>1. /\ IsList(o)
        /\ \A k \in DOMAIN o : \E j \in DOMAIN calls : OldCall(calls[j], o[k])
        /\ Number(o, AiCalls) = Number(cs, AiCalls)
    BY OrphanList
  <1> HIDE DEF o
  <1>2. CallsStep /\ Number(calls', AiCalls) = Number(o, AiCalls) + Number(ds, AiCalls)
    BY <1>1, JoinCalls DEF PlainCalls, o
  <1>3. Number(o, AiCalls) \in Nat
    BY <1>1, NumberType
  <1>4. Number(ds, AiCalls) = 0
    BY NoneApart
  <1> QED
    BY <1>1, <1>2, <1>3, <1>4

\* The calls that are left when one continues, and when none does.
LEMMA RestIs ==
    ASSUME CallsOK, NEW i \in DOMAIN calls, calls[i].op \notin AiCalls
    PROVE  /\ IsList(RemoveAt(calls, i)) /\ ToSet(RemoveAt(calls, i)) \subseteq ToSet(calls)
           /\ Number(RemoveAt(calls, i), AiCalls) = Number(calls, AiCalls)
  <1>1. IsList(calls)
    BY DEF CallsOK
  <1>2. Number(RemoveAt(calls, i), AiCalls) = Number(calls, AiCalls) - 0
    BY <1>1, NumberRemove
  <1>3. Number(calls, AiCalls) \in Nat
    BY <1>1, NumberType
  <1> QED
    BY <1>1, <1>2, <1>3, RemoveList

LEMMA DashboardCallsPlain ==
    ASSUME NEW pw, NEW ck, pw = stored', ck = cookie'
    PROVE  PlainCalls(DashboardCalls(pw, ck))
  <1>1. NewCall(CallWith(pw, ck, "whoami", None)) /\ NewCall(CallWith(pw, ck, "projects", None))
    <2>1. \A x : ArgOK(db', "whoami", x) /\ ArgOK(db', "projects", x)
      BY DEF ArgOK
    <2>2. "whoami" \notin WorkOps /\ "projects" \notin WorkOps
      BY DEF WorkOps, AiCalls
    <2>3. NewCall(CallWith(pw, ck, "whoami", None))
      BY <2>1, <2>2, NewCallIs
    <2>4. NewCall(CallWith(pw, ck, "projects", None))
      BY <2>1, <2>2, NewCallIs
    <2> QED
      BY <2>3, <2>4
  <1> DEFINE c == CallWith(pw, ck, "whoami", None)
             d == CallWith(pw, ck, "projects", None)
  <1>2. c.op = "whoami" /\ d.op = "projects"
    BY DEF CallWith
  <1>3. NewCall(c) /\ NewCall(d) /\ DashboardCalls(pw, ck) = <<c, d>>
    BY <1>1 DEF DashboardCalls
  <1> HIDE DEF c, d
  <1> QED
    BY <1>2, <1>3, TwoList DEF PlainCalls, Apart, AiCalls

LEMMA ScreenCallsPlain ==
    ASSUME UNCHANGED <<stored, cookie>>, NEW s \in Sections, NEW row
    PROVE  PlainCalls(ScreenCalls(s, row))
  <1>1. \A x : /\ PlainCalls(<<Call("home", x)>>) /\ PlainCalls(<<Call("episodes", x)>>)
               /\ PlainCalls(<<Call("names", x)>>) /\ PlainCalls(<<Call("history", x)>>)
    BY PlainCall DEF TypedOps, Apart, AiCalls
  <1> QED
    BY <1>1, PlainNone DEF ScreenCalls, Sections, HomeCalls, WriteCalls, SearchCalls, ChatCalls

\* What a screen shows at first.
Fresh(s, p) ==
    /\ "kind" \in DOMAIN p /\ p.kind = s
    /\ s = "write" => "diff" \in DOMAIN p /\ p.diff = None
    /\ s = "search" => /\ {"replaceBusy", "result", "asked", "q"} \subseteq DOMAIN p
                       /\ p.q \in Names /\ ~p.asked.alone
    /\ s \in {"dashboard", "settings"} => "import" \in DOMAIN p
    /\ "import" \in DOMAIN p => p.import = None \/ \E inst : p.import = NoImport(inst)

LEMMA FreshScreen ==
    ASSUME NEW s \in Sections, NEW row, NEW inst
    PROVE  Fresh(s, Screen(s, row, inst))
  <1>1. CASE s = "home"
    BY <1>1 DEF Screen, FreshHome, Fresh
  <1>2. CASE s = "write"
    BY <1>2 DEF Screen, FreshWrite, Fresh
  <1>3. CASE s = "materials"
    BY <1>3 DEF Screen, FreshMaterials, Fresh
  <1>4. CASE s = "search"
    <2>1. (CHOOSE n \in Names : TRUE) \in Names
      BY NamesAssumption
    <2> QED
      BY <1>4, <2>1 DEF Screen, FreshSearch, Fresh
  <1>5. CASE s = "chat"
    BY <1>5 DEF Screen, FreshChat, Fresh
  <1>6. CASE s = "settings"
    <2> DEFINE p == Screen(s, row, inst)
    <2>1. p.kind = "settings" /\ "kind" \in DOMAIN p /\ "import" \in DOMAIN p /\ p.import = NoImport(inst)
      BY <1>6 DEF Screen, FreshSettings
    <2> HIDE DEF p
    <2>2. Fresh(s, p)
      BY <1>6, <2>1 DEF Fresh
    <2> QED
      BY <2>2 DEF p
  <1> QED
    BY <1>1, <1>2, <1>3, <1>4, <1>5, <1>6 DEF Sections

LEMMA FreshOK ==
    ASSUME NEW s \in Work, Fresh(s, panel')
    PROVE  panel'.kind = s /\ PanelOK' /\ (panel'.kind = "search" => ~panel'.asked.alone)
  <1>1. ImportOK(panel', db')
    BY DEF Fresh, ImportOK, NoImport
  <1> QED
    BY <1>1 DEF Fresh, PanelOK, ComparesOneEpisode, OnWrite, Work, Sections

LEMMA FreshBoard ==
    ASSUME NEW inst
    PROVE  /\ Fresh("dashboard", FreshDashboard(inst))
           /\ panel' = FreshDashboard(inst) => panel'.kind = "dashboard" /\ PanelOK'
  <1>1. Fresh("dashboard", FreshDashboard(inst))
    BY DEF FreshDashboard, Fresh
  <1> QED
    BY <1>1, FreshOK DEF Work


\* A project is opened, from the dashboard or from wherever an answer comes late.
LEMMA OpenInv ==
    ASSUME Inv, UNCHANGED <<mix, auth, session, llm, db>>, acts' \in 0..mix.acts, panel.kind \in Work,
           NEW row, row.id \in DOMAIN db.projects, NEW cs, IsList(cs), ToSet(cs) \subseteq ToSet(calls),
           Number(cs, AiCalls) = Number(calls, AiCalls), Open(row, cs)
    PROVE  Inv'
  <1>1. /\ UNCHANGED <<stored, cookie>> /\ CallsOK /\ WatchOK /\ DbGrows(db, db')
    BY Unchanged DEF auth, Inv, DbKept
  <1>2. /\ panel' = Screen("home", row, acts) /\ calls' = Orphan(cs) \o ScreenCalls("home", row)
        /\ project' = row /\ section' = "home" /\ watch' = Unwatched /\ "home" \in Sections
    BY DEF Open, Screen, ScreenCalls, Sections
  <1>3. panel'.kind = "home" /\ PanelOK'
    BY <1>2, FreshScreen, FreshOK DEF Work
  <1>4. PlainCalls(ScreenCalls("home", row))
    BY <1>1, <1>2, ScreenCallsPlain
  <1>5. CallsStep /\ Number(calls', AiCalls) = Number(calls, AiCalls)
    BY <1>1, <1>2, <1>4, MountCalls
  <1>6. WatchOK'
    BY <1>1, <1>2, UnwatchedOK
  <1> QED
    BY <1>2, <1>3, <1>5, <1>6, MountInv DEF Work, Sections

LEMMA MountedInv ==
    ASSUME Inv, UNCHANGED <<mix, auth, session, llm, db>>, acts' \in 0..mix.acts, panel.kind \in Work,
           NEW s \in Sections, NEW row, row.id \in DOMAIN db.projects, NEW cs, IsList(cs),
           ToSet(cs) \subseteq ToSet(calls), Number(cs, AiCalls) = Number(calls, AiCalls), Mount(s, row, cs)
    PROVE  Inv'
  <1>1. /\ UNCHANGED <<stored, cookie>> /\ CallsOK /\ WatchOK /\ DbGrows(db, db')
    BY Unchanged DEF auth, Inv, DbKept
  <1>2. /\ panel' = Screen(s, row, acts') /\ calls' = Orphan(cs) \o ScreenCalls(s, row)
        /\ project' = row /\ section' = s /\ watch' = Unwatched
    BY DEF Mount
  <1>3. panel'.kind = s /\ PanelOK' /\ (panel'.kind = "search" => ~panel'.asked.alone)
    BY <1>2, FreshScreen, FreshOK DEF Work
  <1>4. PlainCalls(ScreenCalls(s, row))
    BY <1>1, ScreenCallsPlain
  <1>5. CallsStep /\ Number(calls', AiCalls) = Number(calls, AiCalls)
    BY <1>1, <1>2, <1>4, MountCalls
  <1>6. WatchOK'
    BY <1>1, <1>2, UnwatchedOK
  <1> QED
    BY <1>2, <1>3, <1>5, <1>6, MountInv DEF Work

LEMMA AllCalls ==
    ASSUME CallsOK
    PROVE  IsList(calls) /\ ToSet(calls) \subseteq ToSet(calls)
  BY DEF CallsOK

LEMMA ToDashboardInv ==
    ASSUME Inv, ToDashboard, UNCHANGED mix
    PROVE  Inv'
  <1>1. /\ UNCHANGED <<stored, cookie>> /\ CallsOK /\ WatchOK /\ DbGrows(db, db') /\ acts' \in 0..mix.acts
    BY Unchanged, ActsType DEF ToDashboard, auth, Inv, DbKept
  <1>2. panel.kind \in Sections /\ section \in Sections
    BY DEF ToDashboard, Inv, PlaceOK
  <1>3. panel'.kind = "dashboard" /\ PanelOK'
    BY FreshBoard DEF ToDashboard
  <1>4. PlainCalls(DashboardCalls(stored, cookie))
    BY <1>1, DashboardCallsPlain
  <1>5. CallsStep /\ Number(calls', AiCalls) = Number(calls, AiCalls)
    BY <1>1, <1>4, AllCalls, MountCalls DEF ToDashboard
  <1>6. WatchOK'
    BY <1>1, UnwatchedOK DEF ToDashboard
  <1> QED
    BY <1>1, <1>2, <1>3, <1>5, <1>6, MountInv DEF Work, Sections, ToDashboard

LEMMA GoToInv ==
    ASSUME Inv, NEW s \in Sections, GoTo(s), UNCHANGED mix
    PROVE  Inv'
  <1>1. CallsOK /\ acts' \in 0..mix.acts
    BY ActsType DEF GoTo, Inv
  <1>2. panel.kind \in Work /\ project.id \in DOMAIN db.projects
    BY DEF GoTo, Inv, PlaceOK, Work
  <1> QED
    BY <1>1, <1>2, AllCalls, MountedInv DEF GoTo

\* Who has a call of the workspace answered is in it.
LEMMA WorkAnswer ==
    ASSUME Inv, NEW i \in DOMAIN calls, calls[i].op \in WorkOps, calls[i].op \notin AiCalls, calls[i].status = "ok"
    PROVE  /\ panel.kind \in Work /\ Ans(i).id \in DOMAIN db.projects
           /\ IsList(RemoveAt(calls, i)) /\ ToSet(RemoveAt(calls, i)) \subseteq ToSet(calls)
           /\ Number(RemoveAt(calls, i), AiCalls) = Number(calls, AiCalls)
  <1>1. panel.kind \in Work
    BY DEF Inv, VoidOK
  <1>2. calls[i].op \in {"create", "project", "save"} /\ CallsOK
    BY DEF WorkOps, Inv
  <1>3. Ans(i).id \in DOMAIN db.projects
    BY <1>2, ArgIs DEF AnsOK
  <1> QED
    BY <1>1, <1>2, <1>3, RestIs

LEMMA OpenedInv ==
    ASSUME Inv, UNCHANGED <<mix, auth, session>>,
           (\E p \in DOMAIN db.projects : ClickProject(p)) \/ (\E i \in DOMAIN calls : Created(i) \/ Finished(i))
    PROVE  Inv'
  <1>1. ASSUME NEW p \in DOMAIN db.projects, ClickProject(p) PROVE Inv'
    <2> DEFINE row == Row(p, panel.projects[p])
    <2>1. CallsOK /\ acts' \in 0..mix.acts /\ panel.kind \in Work /\ UNCHANGED <<db, llm>> /\ Open(row, calls)
      BY <1>1, ActsType DEF ClickProject, Inv, Uncovered, OnDashboard, Work
    <2>2. row.id \in DOMAIN db.projects
      BY DEF Row
    <2> HIDE DEF row
    <2> QED
      BY <2>1, <2>2, AllCalls, OpenInv
  <1>2. ASSUME NEW i \in DOMAIN calls, Created(i) \/ Finished(i) PROVE Inv'
    <2> DEFINE row == Ans(i)
               cs == RemoveAt(calls, i)
    <2>1. acts' \in 0..mix.acts /\ UNCHANGED <<db, llm>> /\ Open(row, cs)
          /\ calls[i].op \in {"create", "project"} /\ calls[i].status = "ok"
      BY <1>2 DEF Created, Finished, Returned, Inv, AuthOK
    <2>2. /\ panel.kind \in Work /\ row.id \in DOMAIN db.projects
          /\ IsList(cs) /\ ToSet(cs) \subseteq ToSet(calls)
          /\ Number(cs, AiCalls) = Number(calls, AiCalls)
      BY <2>1, WorkAnswer DEF WorkOps, AiCalls
    <2> HIDE DEF row, cs
    <2> QED
      BY <2>1, <2>2, OpenInv
  <1> QED
    BY <1>1, <1>2


LEMMA ReloadsPlain ==
    ASSUME UNCHANGED <<stored, cookie>>, section \in Sections, NEW row
    PROVE  PlainCalls(Reloads(row))
  <1>1. \A x : PlainCalls(<<Call("rows", x)>>)
    BY PlainCall DEF TypedOps, Apart, AiCalls
  <1>2. PlainCalls(TabCalls(panel.at.tab))
    BY <1>1, PlainNone DEF TabCalls
  <1> QED
    BY <1>2, ScreenCallsPlain DEF Reloads

LEMMA ProjectSavedInv ==
    ASSUME Inv, NEW i \in DOMAIN calls, ProjectSaved(i), UNCHANGED mix
    PROVE  Inv'
  <1> DEFINE row == Ans(i)
             cs == RemoveAt(calls, i)
             ds == IF row.id = project.id THEN <<>> ELSE Reloads(row)
  <1>1. /\ UNCHANGED <<auth, session, db, llm, permission, acts>> /\ acts' \in 0..mix.acts
        /\ UNCHANGED <<stored, cookie, password, authed, language, shownIn, link, chosen, signedOut>>
        /\ calls[i].op = "save" /\ calls[i].status = "ok"
        /\ CallsOK /\ section \in Sections /\ DbKept /\ DbStep /\ DbGrows(db, db')
    BY Unchanged DEF ProjectSaved, Returned, auth, session, Inv, AuthOK, PlaceOK
  <1>2. /\ panel.kind \in Work /\ row.id \in DOMAIN db.projects
        /\ IsList(cs) /\ ToSet(cs) \subseteq ToSet(calls) /\ Number(cs, AiCalls) = Number(calls, AiCalls)
    BY <1>1, WorkAnswer DEF WorkOps, AiCalls
  <1>3. CASE project = None
    <2>1. Mount(section, row, cs)
      BY <1>3 DEF ProjectSaved
    <2> HIDE DEF row, cs
    <2> QED
      BY <1>1, <1>2, <2>1, MountedInv
  <1>4. CASE project # None
    <2>1. /\ project' = row /\ UNCHANGED <<section, watch>> /\ Continue(i, ds)
          /\ Shown(i, [busy |-> FALSE, saved |-> TRUE])
      BY <1>4 DEF ProjectSaved
    <2>2. PanelKept
      BY <1>1, <2>1, SetKept, Unchanged DEF Shown
    <2>3. PlainCalls(ds)
      BY <1>1, PlainNone, ReloadsPlain
    <2> HIDE DEF row, cs, ds
    <2>4. CallsKept
      BY <1>1, <2>1, <2>3, ContinuePlain DEF Apart, AiCalls
    <2>5. Stays
      BY <1>1, <2>1, <2>2, <2>4, PlainStep DEF Inv, AuthOK
    <2>6. AuthOK' /\ ChoiceOK' /\ panel'.kind = panel.kind
      BY <1>1, <2>5 DEF Inv, AuthOK, ChoiceOK, Stays, OnLogin
    <2>7. PlaceOK'
      BY <1>1, <1>2, <1>4, <2>1, <2>6 DEF Inv, PlaceOK
    <2>8. CredsOK'
      BY <1>1, <2>5, CallsStepCreds DEF Inv, Stays
    <2>9. LeftOK'
      BY <1>1, <2>5, CallsStepLeft DEF Inv, Stays, LeftOK
    <2> QED
      BY <2>5, <2>6, <2>7, <2>8, <2>9, StaysBut
  <1> QED
    BY <1>3, <1>4


-----------------------------------------------------------------------------
(***************************************************************************)
(* Signing in and out.                                                     *)
(***************************************************************************)
LEMMA RehashedStep ==
    ASSUME DbOK(db), db' = Rehashed(db)
    PROVE  DbStep /\ DbGrows(db, db')
  <1>1. /\ DOMAIN db' = DOMAIN db /\ db'.projects = db.projects /\ db'.jobs = db.jobs /\ db'.texts = db.texts
        /\ db'.hash \in Nat
    BY DEF DbOK, DbFields, Rehashed
  <1> QED
    BY <1>1 DEF DbStep, DbOK, DbGrows, TextsKept

\* A call of the screens before the workspace is handled.
LEMMA SignInServed ==
    ASSUME Inv, NEW i \in DOMAIN calls, UNCHANGED <<mix, permission>>,
           MeServed(i) \/ LoginServed(i) \/ ConfirmServed(i) \/ LogoutServed(i)
    PROVE  Stays /\ Still
  <1>1. /\ CallsOK /\ DbOK(db) /\ PanelKept /\ UNCHANGED <<acts, panel, llm, watch>> /\ acts' \in 0..mix.acts
        /\ password \in Passwords /\ link \in Nat \cup {None}
        /\ (UNCHANGED db => DbStep /\ DbGrows(db, db'))
    BY Unchanged DEF Inv, AuthOK, MeServed, LoginServed, ConfirmServed, LogoutServed
  <1>2. Still
    BY DEF Still, MeServed, LoginServed, ConfirmServed, LogoutServed, auth, place, session
  <1>3. ASSUME DbGrows(db, db'), calls[i].op \in {"me", "probe", "providers", "forgot", "confirm", "logout"},
               calls[i].op \notin Public => MayPass(calls[i]), calls[i].op = "logout" => ~cookie',
               (\E y : Serve(i, y)) \/ Refuse(i)
        PROVE  CallsKept
    <2>1. \A y : AnsOK(db', calls[i].op, Arg(i), y)
      BY <1>3 DEF AnsOK
    <2>2. ASSUME NEW y, Serve(i, y) PROVE CallsKept
      BY <1>1, <1>3, <2>1, <2>2, ServePlain DEF Public
    <2>3. ASSUME Refuse(i) PROVE CallsKept
      BY <1>1, <1>3, <2>3, RefusePlain
    <2> QED
      BY <1>3, <2>2, <2>3
  <1>4. CASE MeServed(i)
    <2>1. /\ calls[i].op = "me" /\ MayPass(calls[i]) /\ Serve(i, None) /\ UNCHANGED <<db, password, link>>
      BY <1>4 DEF MeServed, Arrives, Public, auth, session
    <2> QED
      BY <1>1, <1>2, <1>3, <2>1, PlainStep
  <1>5. CASE LoginServed(i)
    <2>1. /\ calls[i].op \in {"probe", "providers", "forgot"} /\ (calls[i].op \notin Public => MayPass(calls[i]))
          /\ Serve(i, None) /\ UNCHANGED <<db, password>>
          /\ link' \in {link, db.hash}
      BY <1>5 DEF LoginServed, Arrives, auth
    <2>2. link' \in Nat \cup {None}
      BY <1>1, <2>1 DEF DbOK
    <2> QED
      BY <1>1, <1>2, <1>3, <2>1, <2>2, PlainStep
  <1>6. CASE ConfirmServed(i)
    <2>1. /\ calls[i].op = "confirm" /\ UNCHANGED link
          /\ \/ password' = Arg(i).pw /\ db' = Rehashed(db) /\ Serve(i, None)
             \/ UNCHANGED <<password, db>> /\ Refuse(i)
      BY <1>6 DEF ConfirmServed, Arrives, session
    <2>2. DbStep /\ DbGrows(db, db')
      BY <1>1, <2>1, RehashedStep
    <2>3. password' \in Passwords
      BY <1>1, <2>1, ArgIs DEF ArgOK
    <2>4. CallsKept
      BY <1>3, <2>1, <2>2 DEF Public
    <2> QED
      BY <1>1, <1>2, <2>1, <2>2, <2>3, <2>4, PlainStep
  <1>7. CASE LogoutServed(i)
    <2>1. calls[i].op = "logout" /\ cookie' = FALSE /\ Serve(i, None) /\ UNCHANGED <<db, password, link>>
      BY <1>7 DEF LogoutServed, Arrives, session
    <2>2. CallsKept
      BY <1>1, <1>3, <2>1 DEF Public
    <2> QED
      BY <1>1, <1>2, <2>1, <2>2, PlainStep
  <1> QED
    BY <1>4, <1>5, <1>6, <1>7

\* What follows an answer on these screens, and lets nobody in or out.
LEMMA SignInAnswered ==
    ASSUME Inv, NEW i \in DOMAIN calls, UNCHANGED <<mix, permission>>,
           \/ MeThrown(i) /\ authed # "unknown"
           \/ LoginThrown(i) \/ LoginAnswered(i) \/ ConfirmAnswered(i) \/ VoidOver(i)
    PROVE  Stays /\ Still
  <1>1. /\ UNCHANGED <<acts, auth, place, db, llm, watch, session>> /\ Continue(i, <<>>)
        /\ calls[i].op \in {"me", "probe", "providers", "forgot", "confirm", "void"}
    BY DEF MeThrown, LoginThrown, LoginAnswered, ConfirmAnswered, VoidOver, Returned, Thrown, auth
  <1>2. PanelKept
    BY Unchanged DEF PanelKept, MeThrown, LoginThrown, LoginAnswered, ConfirmAnswered, VoidOver
  <1>3. CallsOK /\ DbStep /\ DbGrows(db, db')
    BY <1>1, Unchanged DEF Inv
  <1>4. CallsKept
    BY <1>1, <1>3, ContinueEnd DEF Apart, AiCalls
  <1>5. Still /\ acts' \in 0..mix.acts /\ password' \in Passwords /\ link' \in Nat \cup {None}
    BY <1>1 DEF Still, auth, session, Inv, AuthOK
  <1> QED
    BY <1>1, <1>2, <1>3, <1>4, <1>5, PlainStep

LEMMA SignInClicks ==
    ASSUME Inv, UNCHANGED <<mix, permission>>, Forgot \/ ConfirmReset \/ PasswordChanges
    PROVE  Stays /\ Still
  <1>1. /\ CallsOK /\ DbOK(db) /\ acts' \in 0..mix.acts /\ UNCHANGED <<stored, cookie>>
        /\ (UNCHANGED db => DbStep /\ DbGrows(db, db') /\ DbKept)
    BY Unchanged, ActsType DEF Inv, Forgot, ConfirmReset, PasswordChanges, auth
  <1>2. Still /\ link' \in Nat \cup {None} /\ password' \in Passwords /\ UNCHANGED <<llm, watch>>
    BY DEF Still, Forgot, ConfirmReset, PasswordChanges, auth, place, session, Inv, AuthOK
  <1>3. PanelKept
    BY Unchanged DEF Forgot, ConfirmReset, PasswordChanges, PanelKept
  <1>4. DbStep /\ DbGrows(db, db')
    BY <1>1, RehashedStep DEF Forgot, ConfirmReset, PasswordChanges
  <1>5. CASE Forgot
    <2>1. PlainCalls(<<Call("forgot", None)>>)
      BY <1>1, PlainCall DEF TypedOps, Apart, AiCalls
    <2>2. (UNCHANGED calls /\ UNCHANGED db) \/ Send(<<Call("forgot", None)>>)
      BY <1>5 DEF Forgot
    <2>3. CallsKept
      BY <1>1, <1>4, <2>1, <2>2, Unchanged, SendPlain
    <2> QED
      BY <1>1, <1>2, <1>3, <1>4, <2>3, PlainStep
  <1>6. CASE ConfirmReset
    <2>1. PICK pw \in Passwords : Send(<<Call("confirm", [token |-> panel.token, pw |-> pw])>>)
      BY <1>6 DEF ConfirmReset
    <2> DEFINE x == [token |-> panel.token, pw |-> pw]
    <2>2. ArgOK(db', "confirm", x)
      BY DEF ArgOK
    <2> HIDE DEF x
    <2>3. PlainCalls(<<Call("confirm", x)>>)
      BY <1>1, <2>2, WorkCall DEF Apart, AiCalls, WorkOps
    <2>4. CallsKept
      BY <1>1, <1>4, <2>1, <2>3, SendPlain DEF x
    <2> QED
      BY <1>1, <1>2, <1>3, <1>4, <2>4, PlainStep
  <1>7. CASE PasswordChanges
    <2>1. CallsKept
      BY <1>1, <1>4, <1>7, KeepCalls DEF PasswordChanges, CallsKept
    <2> QED
      BY <1>1, <1>2, <1>3, <1>4, <2>1, PlainStep
  <1> QED
    BY <1>5, <1>6, <1>7

\* A call that is lost leaves no replacement to compare: calls fail then.
LEMMA LostStays ==
    ASSUME Inv, NEW i \in DOMAIN calls, LoseCall(i), UNCHANGED mix
    PROVE  Stays /\ Still
  <1>1. /\ UNCHANGED <<acts, auth, place, panel, db, llm, watch, session>> /\ Refuse(i) /\ mix.fails
    BY DEF LoseCall, Lost
  <1>2. CallsOK /\ DbOK(db)' /\ DbGrows(db, db') /\ PanelKept /\ PanelOK /\ WatchOK
    BY <1>1, Unchanged DEF Inv, DbStep
  <1>3. CallsStep /\ Number(calls', AiCalls) = Number(calls, AiCalls)
    BY <1>1, <1>2, RefuseCall
  <1>4. PanelOK' /\ panel'.kind = panel.kind /\ (OnLogin => panel'.language = panel.language)
    BY <1>2, PanelStays
  <1>5. LlmOK' /\ ReplaceOK' /\ WatchOK'
    BY <1>1, <1>2, <1>3, <1>4, LlmStays, WatchStays DEF ReplaceOK, Inv
  <1>6. Still /\ acts' \in 0..mix.acts /\ password' \in Passwords /\ link' \in Nat \cup {None}
    BY <1>1 DEF Still, auth, session, Inv, AuthOK
  <1> QED
    BY <1>2, <1>3, <1>4, <1>5, <1>6 DEF Stays


LEMMA Shows ==
    ASSUME Inv
    PROVE  /\ Provided \in Languages
           /\ mix.storage /\ chosen # None => Provided = chosen
           /\ mix.storage \/ stored = None
           /\ ClearAuth => stored' = None
  <1>1. Fallback \in Languages
    BY LanguagesAssumption DEF Fallback
  <1> QED
    BY <1>1 DEF Inv, AuthOK, ChoiceOK, Provided, Resolve, ClearAuth

LEMMA NoActivityOK ==
    NoActivity \in Activity /\ NoActivity.items = 0 /\ (Active(NoActivity) <=> NoActivity.poller # None)
  BY DEF NoActivity, Activity, Active

\* A page is loaded, with what the browser has kept.
LEMMA PageLoadInv ==
    ASSUME Inv, NEW token, PageLoad(stored', cookie', token), acts' \in 0..mix.acts,
           stored' \in {stored, None}, cookie' \in BOOLEAN, UNCHANGED <<mix, password, db, language, link, chosen>>,
           signedOut' \in {"no", "leaving", "yes"}, signedOut' # "no" => stored' = None, signedOut' = "yes" => ~cookie'
    PROVE  Inv'
  <1> DEFINE in == stored' # None
             c == CallWith(stored', cookie', "me", None)
             ds == IF in /\ token = None THEN DashboardCalls(stored', cookie') ELSE <<>>
  <1>1. /\ authed' = IF in THEN "in" ELSE "unknown"
        /\ calls' = <<c>> \o ds
        /\ panel' = IF token # None THEN [kind |-> "reset", token |-> token, state |-> "form"]
                    ELSE IF in THEN FreshDashboard(acts') ELSE NoScreen
        /\ llm' = IF in /\ token = None THEN NoActivity ELSE None
        /\ shownIn' = IF in /\ token = None THEN Provided ELSE None
        /\ project' = None /\ section' = "home" /\ watch' = {}
    BY DEF PageLoad
  <1>2. AuthOK'
    BY <1>1, Shows DEF Inv, AuthOK
  <1>3. /\ panel'.kind = IF token # None THEN "reset" ELSE IF in THEN "dashboard" ELSE "none"
        /\ PanelOK'
    <2>1. CASE token # None
      BY <1>1, <2>1 DEF PanelOK, ImportOK, ComparesOneEpisode, OnWrite, Work, Sections
    <2>2. CASE token = None /\ in
      BY <1>1, <2>2, FreshBoard
    <2>3. CASE token = None /\ ~in
      BY <1>1, <2>3 DEF NoScreen, PanelOK, ImportOK, ComparesOneEpisode, OnWrite, Work, Sections
    <2> QED
      BY <2>1, <2>2, <2>3
  <1>4. PlaceOK'
    BY <1>1, <1>3 DEF PlaceOK, Work, Sections
  <1>5. NewCall(c) /\ c.op = "me"
    <2>1. ArgOK(db', "me", None) /\ "me" \notin WorkOps
      BY DEF ArgOK, WorkOps, AiCalls
    <2> QED
      BY <2>1, NewCallIs
  <1> HIDE DEF c
  <1>6. PlainCalls(<<c>>)
    BY <1>5, PlainOne DEF Apart, AiCalls
  <1>7. PlainCalls(ds)
    BY PlainNone, DashboardCallsPlain
  <1> DEFINE cs == <<c>> \o ds
  <1>8. PlainCalls(cs) /\ calls' = cs
    BY <1>1, <1>6, <1>7, PlainJoin
  <1>9. ~(in /\ token = None) => cs = <<c>>
    <2>1. <<c>> \in Seq({c})
      OBVIOUS
    <2> QED
      BY <2>1, ConcatEmptySeq
  <1>10. \A k \in DOMAIN <<c>> : <<c>>[k] = c
    BY OneList
  <1> HIDE DEF cs, ds
  <1>11. IsList(calls') /\ \A k \in DOMAIN calls' : NewCall(calls'[k]) /\ calls'[k].op \notin AiCalls
    BY <1>8 DEF PlainCalls, Apart
  <1>12. CallsOK'
    BY <1>11 DEF CallsOK, NewCall
  <1>13. VoidOK'
    BY <1>3, <1>5, <1>8, <1>9, <1>10 DEF VoidOK, Work, WorkOps, AiCalls
  <1>14. DbOK(db)' /\ WatchOK' /\ ReplaceOK'
    BY <1>1, <1>3 DEF Inv, WatchOK, ReplaceOK
  <1>15. LlmOK'
    <2>1. Number(calls', AiCalls) = 0
      BY <1>8, NoneApart
    <2> QED
      BY <1>1, <1>3, <2>1, NoActivityOK DEF LlmOK, Work, Sections, Active
  <1>16. ChoiceOK'
    BY <1>1, <1>3, Shows DEF Inv, ChoiceOK, OnLogin
  <1>17. CredsOK'
    BY <1>11 DEF CredsOK, NewCall
  <1>18. LeftOK'
    <2>1. ASSUME NEW k \in DOMAIN calls' PROVE calls'[k].status = "sent" /\ calls'[k].cred = stored' /\ calls'[k].cookie = cookie'
      BY <1>11 DEF NewCall
    <2> QED
      BY <1>1, <2>1 DEF LeftOK
  <1> QED
    BY <1>2, <1>3, <1>4, <1>12, <1>13, <1>14, <1>15, <1>16, <1>17, <1>18 DEF Inv

LEMMA LoadedInv ==
    ASSUME Inv, UNCHANGED <<mix, permission>>,
           \/ OpenPage \/ OauthLogin \/ FollowLink \/ BackToLogin \/ Reload \/ SidebarLogout
           \/ \E i \in DOMAIN calls : LogoutDone(i)
    PROVE  Inv'
  <1>1. /\ UNCHANGED <<password, db, language, link, chosen>> /\ stored' \in {stored, None}
        /\ \E token : PageLoad(stored', cookie', token)
    BY Shows DEF OpenPage, OauthLogin, FollowLink, BackToLogin, Reload, SidebarLogout, LogoutDone
  <1>2. acts' \in 0..mix.acts
    BY ActsType DEF OpenPage, OauthLogin, FollowLink, BackToLogin, Reload, SidebarLogout, LogoutDone
  <1>3. cookie' \in BOOLEAN
    BY DEF OpenPage, OauthLogin, FollowLink, BackToLogin, Reload, SidebarLogout, LogoutDone, Inv, AuthOK
  <1>4. /\ signedOut' \in {"no", "leaving", "yes"}
        /\ signedOut' # "no" => stored' = None
        /\ signedOut' = "yes" => ~cookie'
    <2>1. CASE OauthLogin
      BY <2>1 DEF OauthLogin
    <2>2. ASSUME NEW i \in DOMAIN calls, LogoutDone(i)
          PROVE  /\ signedOut' \in {"no", "leaving", "yes"}
                 /\ signedOut' # "no" => stored' = None
                 /\ signedOut' = "yes" => ~cookie'
      BY <2>2 DEF LogoutDone, Returned, Thrown, Inv, LeftOK
    <2>3. CASE OpenPage \/ FollowLink \/ BackToLogin \/ Reload \/ SidebarLogout
      <3>1. UNCHANGED <<cookie, signedOut>>
        BY <2>3 DEF OpenPage, FollowLink, BackToLogin, Reload, SidebarLogout
      <3> QED
        BY <1>1, <3>1 DEF Inv, LeftOK
    <2> QED
      BY <2>1, <2>2, <2>3
  <1> QED
    BY <1>1, <1>2, <1>3, <1>4, PageLoadInv


\* The login screen takes the place of what is mounted.
LEMMA LoginInv ==
    ASSUME Inv, NEW i \in DOMAIN calls, ~OnLogin, ShowLogin(RemoveAt(calls, i)), authed' = "out",
           stored' \in {stored, None}, llm' = None, shownIn' = None, project' = None, section' \in Sections, WatchOK',
           UNCHANGED <<mix, acts, cookie, password, db, language, link, chosen, signedOut>>
    PROVE  Inv'
  <1> DEFINE rest == RemoveAt(calls, i)
  <1>1. /\ CallsOK /\ DbOK(db)' /\ DbGrows(db, db') /\ IsList(rest) /\ ToSet(rest) \subseteq ToSet(calls)
        /\ PanelOK /\ AuthOK
    BY RemoveList, Unchanged DEF Inv, DbKept, CallsOK, DbStep
  <1>2. AuthOK'
    BY <1>1 DEF AuthOK
  <1>3. panel'.kind \in {"reset", "login"} /\ PanelOK' /\ CallsStep /\ VoidOK' /\ (OnLogin' => panel'.language = Resolve(language))
    <2>1. CASE OnReset
      <3>1. UNCHANGED panel /\ calls' = rest /\ panel.kind = "reset"
        BY <2>1 DEF ShowLogin, OnReset
      <3>2. PanelOK'
        BY <1>1, <3>1, Unchanged, PanelStays
      <3>3. rest \in Seq(ToSet(rest))
        BY <1>1 DEF IsList
      <3>4. Continue(i, <<>>)
        BY <3>1, <3>3, ConcatEmptySeq DEF Continue
      <3>5. CallsStep
        BY <1>1, <3>4, ContinueCalls, EmptyList
      <3>6. VoidOK'
        BY <3>1, <3>5, CallsStepVoid DEF Inv
      <3> QED
        BY <3>1, <3>2, <3>5, <3>6 DEF OnLogin
    <2>2. CASE ~OnReset
      <3> DEFINE c == CallWith(stored', cookie', "providers", None)
                 v == Void(rest)
      <3>1. calls' = v \o <<c>> /\ panel' = FreshLogin(language)
        BY <2>2 DEF ShowLogin
      <3>2. /\ IsList(v)
            /\ \A k \in DOMAIN v : /\ v[k].op \in {"import", "poll", "logout", "void"}
                                   /\ \E j \in DOMAIN calls : OldCall(calls[j], v[k])
        BY <1>1, VoidList
      <3>3. NewCall(c) /\ c.op = "providers"
        <4>1. ArgOK(db', "providers", None) /\ "providers" \notin WorkOps
          BY DEF ArgOK, WorkOps, AiCalls
        <4> QED
          BY <4>1, NewCallIs
      <3>4. \A l \in Languages \cup {None} : Resolve(l) \in Languages
        BY LanguagesAssumption DEF Resolve, Fallback
      <3>5. panel'.kind = "login" /\ panel'.language = Resolve(language) /\ PanelOK'
        BY <1>1, <3>1, <3>4 DEF FreshLogin, PanelOK, ImportOK, ComparesOneEpisode, OnWrite, AuthOK, Work, Sections
      <3> HIDE DEF c, v
      <3>6. IsList(<<c>>) /\ \A k \in DOMAIN <<c>> : <<c>>[k] = c
        BY OneList
      <3>7. CallsStep /\ \A k \in DOMAIN calls' : calls'[k] \in ToSet(v) \cup ToSet(<<c>>)
        BY <3>1, <3>2, <3>3, <3>6, JoinCalls
      <3>8. VoidOK'
        BY <3>2, <3>3, <3>6, <3>7 DEF VoidOK, ToSet, WorkOps, AiCalls
      <3> QED
        BY <3>5, <3>7, <3>8
    <2> QED
      BY <2>1, <2>2
  <1>4. PlaceOK' /\ LlmOK' /\ ReplaceOK'
    BY <1>3 DEF PlaceOK, LlmOK, ReplaceOK, Work, Sections
  <1>5. CallsOK'
    BY <1>3, CallsStepOK
  <1>6. ChoiceOK'
    BY <1>3 DEF Inv, ChoiceOK, Resolve
  <1>7. CredsOK'
    <2>1. CASE stored' = None
      BY <2>1 DEF CredsOK
    <2>2. CASE stored' = stored
      BY <1>3, <2>2, CallsStepCreds DEF Inv
    <2> QED
      BY <2>1, <2>2
  <1>8. LeftOK'
    BY <1>3, CallsStepLeft DEF Inv, LeftOK
  <1> QED
    BY <1>1, <1>2, <1>3, <1>4, <1>5, <1>6, <1>7, <1>8 DEF Inv

LEMMA MeThrownInv ==
    ASSUME Inv, NEW i \in DOMAIN calls, MeThrown(i), authed = "unknown", UNCHANGED <<mix, permission>>
    PROVE  Inv'
  <1>1. /\ authed' = "out" /\ ShowLogin(RemoveAt(calls, i))
        /\ UNCHANGED <<acts, stored, cookie, password, place, db, llm, watch, session>>
    BY DEF MeThrown
  <1>2. panel.kind \in {"none", "reset"}
    BY DEF Inv, PlaceOK
  <1>3. project = None /\ llm = None /\ shownIn = None /\ section \in Sections
    BY <1>2 DEF Inv, PlaceOK, LlmOK, Work, Sections
  <1>4. WatchOK'
    BY <1>1 DEF Inv, WatchOK
  <1> QED
    BY <1>1, <1>2, <1>3, <1>4, LoginInv DEF place, session, OnLogin

\* A 401 takes whoever it comes to, back to the login screen.
LEMMA UnauthorizedInv ==
    ASSUME Inv, NEW i \in DOMAIN calls, Unauthorized(i), UNCHANGED <<mix, permission>>
    PROVE  Inv'
  <1>1. /\ authed' = "out" /\ stored' \in {stored, None}
        /\ UNCHANGED <<acts, cookie, password, db, language, link, chosen, signedOut>>
        /\ mix.storage \/ stored = None
        /\ ClearAuth => stored' = None
    BY Shows DEF Unauthorized, Denied, ClearAuth
  <1>2. CallsOK /\ DbOK(db)' /\ DbGrows(db, db')
    BY <1>1, Unchanged DEF Inv, DbStep
  <1>3. CASE ~OnLogin
    <2>1. /\ ShowLogin(RemoveAt(calls, i)) /\ llm' = None /\ shownIn' = None /\ project' = None /\ section' = "home"
          /\ watch' = Unwatched
      BY <1>3 DEF Unauthorized
    <2>2. WatchOK' /\ "home" \in Sections
      BY <1>2, <2>1, UnwatchedOK DEF Inv, Sections
    <2> QED
      BY <1>1, <1>3, <2>1, <2>2, LoginInv
  <1>4. CASE OnLogin
    <2>1. /\ panel' = panel \/ panel' = [panel EXCEPT !.busy = FALSE, !.error = "wrong"]
          /\ Continue(i, <<>>) /\ UNCHANGED <<cookie, place, llm, watch, shownIn>> /\ stored' = None
      BY <1>1, <1>4 DEF Unauthorized, Denied
    <2>2. PanelKept
      BY <2>1, Unchanged DEF PanelKept
    <2>3. PanelOK' /\ panel'.kind = "login" /\ panel.kind = "login" /\ panel'.language = panel.language
      BY <1>2, <1>4, <2>2, PanelStays DEF Inv, OnLogin
    <2>4. CallsStep
      BY <1>2, <2>1, ContinueCalls, EmptyList
    <2>5. WatchOK' /\ LlmOK' /\ ReplaceOK'
      BY <1>2, <2>1, <2>3, WatchStays DEF Inv, LlmOK, ReplaceOK, Work, Sections
    <2>6. Stays
      BY <1>1, <1>2, <2>3, <2>4, <2>5 DEF Stays, Inv, AuthOK
    <2>7. AuthOK' /\ PlaceOK' /\ ChoiceOK'
      BY <1>1, <1>2, <2>1, <2>3 DEF Inv, AuthOK, PlaceOK, ChoiceOK, OnLogin, place, Work, Sections
    <2>8. CredsOK' /\ LeftOK'
      BY <1>1, <2>1, <2>4, CallsStepLeft DEF CredsOK, Inv, LeftOK
    <2> QED
      BY <2>6, <2>7, <2>8, StaysBut
  <1> QED
    BY <1>3, <1>4

\* setAuthed(true): only an answer to one who has not signed out says so.
LEMMA AdmitInv ==
    ASSUME Inv, NEW i \in DOMAIN calls, MeAnswered(i) \/ SubmitAnswered(i), UNCHANGED <<mix, permission>>
    PROVE  Inv'
  <1> DEFINE rest == RemoveAt(calls, i)
  <1>1. /\ UNCHANGED <<acts, stored, cookie, password, db, watch, language, link, chosen, signedOut>>
        /\ calls[i].op \in {"me", "probe"} /\ calls[i].status = "ok" /\ Admit(rest)
    BY DEF MeAnswered, SubmitAnswered, Returned
  <1>2. /\ CallsOK /\ DbStep /\ DbGrows(db, db') /\ DbOK(db)' /\ signedOut # "yes"
    BY <1>1, Unchanged DEF Inv, DbStep, LeftOK
  <1>3. /\ IsList(rest) /\ ToSet(rest) \subseteq ToSet(calls) /\ Number(rest, AiCalls) = Number(calls, AiCalls)
    BY <1>1, <1>2, RestIs DEF AiCalls
  <1>4. CASE authed = "in" \/ OnReset
    <2>1. calls' = rest /\ UNCHANGED <<panel, llm, shownIn, place>> /\ authed' = "in"
      BY <1>1, <1>4 DEF Admit
    <2>2. rest \in Seq(ToSet(rest))
      BY <1>3 DEF IsList
    <2>3. Continue(i, <<>>)
      BY <2>1, <2>2, ConcatEmptySeq DEF Continue
    <2>4. CallsKept
      BY <1>1, <1>2, <2>3, ContinueEnd DEF Apart, AiCalls
    <2>5. Stays
      BY <1>1, <1>2, <2>1, <2>4, PlainStep, Unchanged DEF Inv, AuthOK
    <2>6. AuthOK' /\ ChoiceOK' /\ PlaceOK'
      BY <1>1, <1>4, <2>1 DEF Inv, AuthOK, ChoiceOK, PlaceOK, OnLogin, OnReset, place
    <2>7. CredsOK' /\ LeftOK'
      BY <1>1, <1>2, <2>5, CallsStepCreds, CallsStepLeft DEF Inv, Stays, LeftOK
    <2> QED
      BY <2>5, <2>6, <2>7, StaysBut
  <1>5. CASE ~(authed = "in" \/ OnReset)
    <2>1. /\ authed' = "in" /\ panel' = FreshDashboard(acts) /\ calls' = Orphan(rest) \o DashboardCalls(stored, cookie)
          /\ llm' = NoActivity /\ shownIn' = Provided /\ project' = None /\ section' = "home"
      BY <1>1, <1>5 DEF Admit
    <2>2. panel'.kind = "dashboard" /\ PanelOK' /\ panel.kind \notin Work
      BY <1>5, <2>1, FreshBoard DEF Inv, PlaceOK
    <2>3. PlainCalls(DashboardCalls(stored, cookie))
      BY <1>1, DashboardCallsPlain
    <2> HIDE DEF rest
    <2>4. CallsStep /\ Number(calls', AiCalls) = Number(rest, AiCalls)
      BY <1>2, <1>3, <2>1, <2>3, MountCalls
    <2>5. Number(calls, AiCalls) = 0
      <3>1. \A k \in DOMAIN calls : calls[k].op \notin AiCalls
        BY <2>2 DEF Inv, VoidOK, WorkOps
      <3> QED
        BY <1>2, <3>1, NumberNone DEF CallsOK
    <2>6. LlmOK'
      BY <1>3, <2>1, <2>2, <2>4, <2>5, NoActivityOK DEF LlmOK, Work, Active
    <2>7. AuthOK' /\ ChoiceOK'
      BY <1>1, <2>1, <2>2, Shows DEF Inv, AuthOK, ChoiceOK, OnLogin
    <2>8. PlaceOK' /\ VoidOK' /\ ReplaceOK' /\ WatchOK'
      BY <1>1, <2>1, <2>2 DEF PlaceOK, VoidOK, ReplaceOK, Inv, WatchOK, Work, Sections
    <2>9. CallsOK' /\ CredsOK' /\ LeftOK'
      BY <1>1, <1>2, <2>4, CallsStepOK, CallsStepCreds, CallsStepLeft DEF Inv, LeftOK
    <2> QED
      BY <1>2, <2>2, <2>6, <2>7, <2>8, <2>9 DEF Inv
  <1> QED
    BY <1>4, <1>5


LEMMA ChooseLanguageInv ==
    ASSUME Inv, ChooseLanguage, UNCHANGED <<mix, permission>>
    PROVE  Inv'
  <1>1. PICK l \in Languages : panel' = [panel EXCEPT !.language = l] /\ Keep(l) /\ chosen' = l
    BY DEF ChooseLanguage
  <1>2. /\ UNCHANGED <<mix, calls, stored, cookie, password, authed, place, db, llm, watch, shownIn, link, signedOut>>
        /\ panel.kind = "login" /\ acts' \in 0..mix.acts
    BY ActsType DEF ChooseLanguage, auth, OnLogin
  <1>4. /\ panel'.kind = "login" /\ panel'.language = l /\ DOMAIN panel' = DOMAIN panel
        /\ "import" \in DOMAIN panel => panel'.import = panel.import
    BY <1>1, <1>2 DEF Inv, PanelOK
  <1>5. PanelOK'
    BY <1>1, <1>2, <1>4 DEF Inv, PanelOK, ImportOK, ComparesOneEpisode, OnWrite
  <1>6. AuthOK'
    BY <1>1, <1>2 DEF Inv, AuthOK, Keep
  <1>7. PlaceOK' /\ LlmOK' /\ ReplaceOK' /\ VoidOK' /\ CallsOK' /\ DbOK(db)' /\ WatchOK' /\ CredsOK' /\ LeftOK'
    BY <1>2, <1>4 DEF Inv, PlaceOK, LlmOK, ReplaceOK, VoidOK, CallsOK, WatchOK, CredsOK, LeftOK, place, Work, Sections
  <1>8. shownIn = None
    BY <1>2 DEF Inv, PlaceOK, Work, Sections
  <1>9. ChoiceOK'
    BY <1>1, <1>2, <1>4, <1>8 DEF ChoiceOK, Keep
  <1> QED
    BY <1>5, <1>6, <1>7, <1>9 DEF Inv

\* The credentials are stored, and the first call with them is sent.
LEMMA SubmitInv ==
    ASSUME Inv, Submit, UNCHANGED <<mix, permission>>
    PROVE  Inv'
  <1>1. PICK pw \in Passwords : SetAuth(pw) /\ Send(<<CallWith(stored', cookie, "probe", None)>>)
    BY DEF Submit
  <1> DEFINE c == CallWith(stored', cookie, "probe", None)
  <1>2. /\ UNCHANGED <<cookie, password, authed, place, db, llm, watch, shownIn, link, chosen>>
        /\ panel.kind = "login" /\ panel.language \in Languages /\ acts' \in 0..mix.acts
        /\ panel' = [panel EXCEPT !.busy = TRUE, !.error = "none"]
        /\ Keep(panel.language) /\ signedOut' = "no" /\ (mix.careful => calls = <<>>)
    BY ActsType DEF Submit, OnLogin, Inv, PanelOK, User
  <1>3. CallsOK /\ DbStep /\ DbGrows(db, db')
    BY <1>2, Unchanged DEF Inv
  <1>4. NewCall(c) /\ c.op = "probe" /\ c.cred = stored'
    <2>1. ArgOK(db', "probe", None) /\ "probe" \notin WorkOps
      BY DEF ArgOK, WorkOps, AiCalls
    <2>2. NewCall(c) /\ c.op = "probe"
      BY <1>2, <2>1, NewCallIs
    <2> QED
      BY <2>2 DEF NewCall
  <1> HIDE DEF c
  <1>5. PlainCalls(<<c>>)
    BY <1>4, PlainOne DEF Apart, AiCalls
  <1>6. CallsKept
    BY <1>1, <1>3, <1>5, SendPlain DEF c
  <1>7. PanelKept
    BY <1>2 DEF PanelKept
  <1>8. Stays
    BY <1>2, <1>3, <1>6, <1>7, PlainStep DEF Inv, AuthOK
  <1>9. panel'.kind = "login" /\ panel'.language = panel.language
    BY <1>2, <1>8 DEF Stays, OnLogin
  <1>10. AuthOK' /\ PlaceOK'
    BY <1>1, <1>2, <1>9 DEF Inv, AuthOK, PlaceOK, SetAuth, Keep, place, Work, Sections
  <1>11. ChoiceOK'
    BY <1>2, <1>9 DEF Inv, ChoiceOK, Keep, OnLogin
  <1>12. CredsOK'
    <2>1. ASSUME mix.careful, NEW k \in DOMAIN calls' PROVE calls'[k].cred = stored'
      <3>1. calls' = calls \o <<c>> /\ calls = <<>> /\ DOMAIN calls = {}
        BY <1>1, <1>2, <2>1, EmptyList DEF Send, c
      <3>2. IsList(<<c>>) /\ \A j \in DOMAIN <<c>> : <<c>>[j] = c
        BY OneList
      <3>3. calls'[k] \in ToSet(calls) \cup ToSet(<<c>>)
        BY <1>3, <2>1, <3>1, <3>2, JoinList DEF CallsOK, ToSet
      <3> QED
        BY <1>4, <3>1, <3>2, <3>3 DEF ToSet
    <2> QED
      BY <2>1 DEF CredsOK
  <1>13. LeftOK'
    BY <1>2, <1>8, CallsStepLeft DEF Inv, Stays
  <1> QED
    BY <1>8, <1>10, <1>11, <1>12, <1>13, StaysBut

LEMMA LogoutInv ==
    ASSUME Inv, Logout, UNCHANGED <<mix, permission>>
    PROVE  Inv'
  <1> DEFINE c == CallWith(stored', cookie, "logout", None)
  <1>1. /\ UNCHANGED <<cookie, password, authed, place, panel, db, llm, watch, language, shownIn, link, chosen>>
        /\ stored' = None /\ signedOut' = "leaving" /\ Send(<<c>>) /\ acts' \in 0..mix.acts
    BY ActsType, Shows DEF Logout
  <1>2. CallsOK /\ DbStep /\ DbGrows(db, db') /\ PanelKept
    BY <1>1, Unchanged DEF Inv
  <1>3. NewCall(c) /\ c.op = "logout"
    <2>1. ArgOK(db', "logout", None) /\ "logout" \notin WorkOps
      BY DEF ArgOK, WorkOps, AiCalls
    <2> QED
      BY <1>1, <2>1, NewCallIs
  <1> HIDE DEF c
  <1>4. PlainCalls(<<c>>)
    BY <1>3, PlainOne DEF Apart, AiCalls
  <1>5. CallsKept
    BY <1>1, <1>2, <1>4, SendPlain
  <1>6. Stays
    BY <1>1, <1>2, <1>5, PlainStep DEF Inv, AuthOK
  <1>7. AuthOK' /\ PlaceOK' /\ ChoiceOK' /\ CredsOK'
    BY <1>1, <1>6 DEF Inv, AuthOK, PlaceOK, ChoiceOK, CredsOK, place, OnLogin
  <1>8. LeftOK'
    BY <1>1, <1>6, CallsStepLeft DEF Inv, Stays
  <1> QED
    BY <1>6, <1>7, <1>8, StaysBut


LEMMA SignInInv ==
    ASSUME Inv, SignInNext, UNCHANGED mix
    PROVE  Inv'
  <1>1. UNCHANGED permission
    BY DEF SignInNext
  <1>2. CASE Forgot \/ ConfirmReset \/ PasswordChanges
    BY <1>1, <1>2, SignInClicks, StaysInv
  <1>3. CASE OpenPage \/ OauthLogin \/ FollowLink \/ BackToLogin \/ Reload \/ SidebarLogout
    BY <1>1, <1>3, LoadedInv
  <1>4. CASE ChooseLanguage \/ Submit \/ Logout
    BY <1>1, <1>4, ChooseLanguageInv, SubmitInv, LogoutInv
  <1>5. ASSUME NEW i \in DOMAIN calls, MeServed(i) \/ LoginServed(i) \/ ConfirmServed(i) \/ LogoutServed(i) PROVE Inv'
    BY <1>1, <1>5, SignInServed, StaysInv
  <1>6. ASSUME NEW i \in DOMAIN calls, LoginThrown(i) \/ LoginAnswered(i) \/ ConfirmAnswered(i) \/ VoidOver(i) PROVE Inv'
    BY <1>1, <1>6, SignInAnswered, StaysInv
  <1>7. ASSUME NEW i \in DOMAIN calls, MeThrown(i) PROVE Inv'
    BY <1>1, <1>7, SignInAnswered, StaysInv, MeThrownInv
  <1>8. ASSUME NEW i \in DOMAIN calls, MeAnswered(i) \/ SubmitAnswered(i) PROVE Inv'
    BY <1>1, <1>8, AdmitInv
  <1>9. ASSUME NEW i \in DOMAIN calls, Unauthorized(i) \/ LogoutDone(i) PROVE Inv'
    BY <1>1, <1>9, UnauthorizedInv, LoadedInv
  <1> QED
    BY <1>2, <1>3, <1>4, <1>5, <1>6, <1>7, <1>8, <1>9 DEF SignInNext

\* The screens of the workspace are at work: nobody comes or goes.
LEMMA StillIs ==
    ASSUME UNCHANGED <<mix, stored, cookie, authed, place, session>>
    PROVE  Still
  BY DEF Still, session

LEMMA SectionInv ==
    ASSUME Inv, InSection, UNCHANGED <<mix, auth, place, watch, permission, session>>
    PROVE  Inv'
  <1>1. Inside /\ Still
    BY StillIs DEF Inside, auth
  <1>2. Stays
    BY <1>1, ActivityStays, ChatStays, SearchStays, MaterialsStays, WriteStays, SettingsStays DEF InSection
  <1> QED
    BY <1>1, <1>2, StaysInv

LEMMA NextInv ==
    ASSUME Inv, [Next]_vars
    PROVE  Inv'
  <1>1. CASE UNCHANGED vars
    <2>1. UNCHANGED <<mix, acts, calls, stored, cookie, password, authed, project, section, panel, db, llm, watch,
                      language, shownIn, link, chosen, signedOut>>
      BY <1>1 DEF vars, auth, place, session
    <2>2. AuthOK' /\ PlaceOK' /\ PanelOK' /\ LlmOK' /\ CallsOK' /\ VoidOK' /\ DbOK(db)' /\ WatchOK'
      BY <2>1 DEF Inv, AuthOK, PlaceOK, PanelOK, ComparesOneEpisode, OnWrite, LlmOK, Active, CallsOK, VoidOK, WatchOK
    <2>3. ChoiceOK' /\ CredsOK' /\ LeftOK' /\ ReplaceOK'
      BY <2>1 DEF Inv, ChoiceOK, OnLogin, CredsOK, LeftOK, ReplaceOK
    <2> QED
      BY <2>2, <2>3 DEF Inv
  <1>2. CASE Next
    <2>1. UNCHANGED mix
      BY <1>2 DEF Next
    <2>2. CASE SignInNext
      BY <2>1, <2>2, SignInInv
    <2>3. CASE DashboardNext /\ UNCHANGED <<auth, session>>
      <3>1. UNCHANGED place /\ Stays => Inv'
        BY <2>1, <2>3, StillIs, StaysInv DEF auth
      <3>2. (\E p \in DOMAIN db.projects : ClickProject(p)) \/ (\E i \in DOMAIN calls : Created(i) \/ Finished(i)) => Inv'
        BY <2>1, <2>3, OpenedInv
      <3> QED
        BY <2>1, <2>3, <3>1, <3>2, DashboardStays
    <2>4. CASE ImportNext /\ UNCHANGED <<auth, place, session>>
      BY <2>1, <2>4, ImportsStay, StillIs, StaysInv DEF auth
    <2>5. CASE ImportTab /\ UNCHANGED <<auth, place, session>>
      <3>1. project.id \in DOMAIN db.projects
        BY <2>5 DEF ImportTab, OnSettings, Inv, PlaceOK, Sections
      <3> QED
        BY <2>1, <2>5, <3>1, StartStays, StillIs, StaysInv DEF ImportTab, auth
    <2>6. CASE InSection /\ UNCHANGED <<auth, place, watch, permission, session>>
      BY <2>1, <2>6, SectionInv
    <2>7. ASSUME NEW i \in DOMAIN calls, AccountsServed(i) \/ OwnPasswordServed(i),
                 UNCHANGED <<stored, cookie, authed, place, watch, permission, session>>
          PROVE  Inv'
      BY <2>1, <2>7, AccountsStay, StillIs, StaysInv
    <2>8. CASE ToDashboard
      BY <2>1, <2>8, ToDashboardInv
    <2>9. ASSUME NEW s \in Sections, GoTo(s) PROVE Inv'
      BY <2>1, <2>9, GoToInv
    <2>10. ASSUME NEW i \in DOMAIN calls, ProjectSaved(i) \/ LoseCall(i) PROVE Inv'
      BY <2>1, <2>10, ProjectSavedInv, LostStays, StaysInv
    <2> QED
      BY <1>2, <2>2, <2>3, <2>4, <2>5, <2>6, <2>7, <2>8, <2>9, <2>10 DEF Next
  <1> QED
    BY <1>1, <1>2

-----------------------------------------------------------------------------
(***************************************************************************)
(* The start.                                                              *)
(***************************************************************************)
StartCalls(cs) ==
    /\ IsList(cs)
    /\ \A k \in DOMAIN cs : /\ CallOK(Rows, cs[k]) /\ cs[k].op \notin Apart \cup WorkOps
                            /\ cs[k].cred = stored /\ cs[k].status = "sent"

LEMMA StartCall ==
    ASSUME NEW op, op \notin TypedOps, op # "void", NEW x
    PROVE  StartCalls(<<Call(op, x)>>)
  <1> DEFINE c == Call(op, x)
  <1>1. ArgOK(Rows, op, x) /\ op \notin WorkOps /\ op \notin Apart
    BY DEF ArgOK, TypedOps, WorkOps, Apart
  <1>2. CallOK(Rows, c) /\ c.op = op /\ c.cred = stored /\ c.status = "sent"
    BY <1>1 DEF CallOK, Call, CallWith, CallFields, Tagged
  <1> HIDE DEF c
  <1>3. IsList(<<c>>) /\ \A k \in DOMAIN <<c>> : <<c>>[k] = c
    BY OneList
  <1>4. StartCalls(<<c>>)
    BY <1>1, <1>2, <1>3 DEF StartCalls
  <1> QED
    BY <1>4 DEF c

LEMMA RowsOK == DbOK(Rows) /\ 1 \in DOMAIN Rows.projects
  <1>1. DOMAIN Rows = DbFields /\ Rows.projects = <<None>> /\ Rows.jobs = <<>> /\ Rows.hash = 0
    BY DEF Rows, DbFields
  <1>2. IsList(<<None>>) /\ DOMAIN <<None>> = {1} /\ IsList(<<>>) /\ DOMAIN <<>> = {}
    BY OneList, EmptyList
  <1> QED
    BY <1>1, <1>2 DEF DbOK

LEMMA InitInv ==
    ASSUME Init
    PROVE  Inv
  <1>1. /\ mix \in Mixes /\ acts = 0 /\ password \in Passwords /\ db = Rows /\ watch = {}
        /\ language = None /\ link = None /\ chosen = None /\ signedOut = "no"
    BY PasswordsAssumption DEF Init
  <1>2. DbOK(db) /\ WatchOK /\ 1 \in DOMAIN db.projects
    BY <1>1, RowsOK DEF WatchOK
  <1>3. acts \in 0..mix.acts
    BY <1>1, MixesAssumption DEF Mix
  <1>4. CASE InitPage
    <2>1. /\ stored \in Passwords \cup {None} /\ cookie \in BOOLEAN /\ (mix.storage \/ stored = None)
          /\ authed = "closed" /\ calls = <<>> /\ panel = [kind |-> "none"] /\ llm = None /\ shownIn = None
          /\ project = None /\ section = "home"
      BY <1>4 DEF InitPage, NoScreen
    <2>2. PanelOK
      BY <2>1 DEF PanelOK, ImportOK, ComparesOneEpisode, OnWrite, Work, Sections
    <2>3. AuthOK /\ PlaceOK /\ LlmOK /\ ChoiceOK /\ ReplaceOK
      BY <1>1, <1>3, <2>1 DEF AuthOK, PlaceOK, LlmOK, ChoiceOK, ReplaceOK, Work, Sections
    <2>4. CallsOK /\ VoidOK /\ CredsOK /\ LeftOK
      BY <1>1, <2>1, EmptyList DEF CallsOK, VoidOK, CredsOK, LeftOK
    <2> QED
      BY <1>2, <2>2, <2>3, <2>4 DEF Inv
  <1>5. CASE InitInside
    <2> DEFINE row == Row(1, None)
    <2>1. /\ stored = password /\ mix.storage /\ cookie = FALSE /\ authed = "in" /\ llm = NoActivity /\ shownIn = Fallback
          /\ mix.start \in {"dashboard", "home", "write", "materials", "search", "chat", "settings"}
      BY <1>1, <1>5, MixesAssumption DEF InitInside, Mix
    <2>2. AuthOK
      BY <1>1, <1>3, <2>1, LanguagesAssumption DEF AuthOK, Fallback
    <2>3. /\ panel.kind \in Work /\ Fresh(panel.kind, panel) /\ section \in Sections /\ StartCalls(calls)
          /\ project # None => panel.kind \in Sections
          /\ panel.kind \in Sections => panel.kind = section /\ project.id = 1
      <3>1. CASE mix.start = "dashboard"
        <4>1. /\ project = None /\ section = "home" /\ panel = FreshDashboard(0)
              /\ calls = <<Call("whoami", None), Call("projects", None)>>
          BY <1>5, <3>1 DEF InitInside, DashboardCalls, Call
        <4> DEFINE c == Call("whoami", None)
                   d == Call("projects", None)
        <4>2. StartCalls(<<c>>) /\ StartCalls(<<d>>)
          BY StartCall DEF TypedOps, Apart, AiCalls
        <4> HIDE DEF c, d
        <4>3. calls = <<c, d>>
          BY <4>1 DEF c, d
        <4>4. StartCalls(calls)
          BY <4>2, <4>3, OneList, TwoList DEF StartCalls
        <4>5. panel.kind = "dashboard" /\ Fresh(panel.kind, panel)
          BY <4>1, FreshBoard DEF Fresh
        <4> QED
          BY <4>1, <4>4, <4>5 DEF Work, Sections
      <3>2. CASE mix.start # "dashboard"
        <4>1. /\ project = row /\ section = mix.start /\ panel = Screen(section, row, 0)
              /\ calls = ScreenCalls(section, row) /\ section \in Sections
          BY <1>5, <2>1, <3>2 DEF InitInside, Sections
        <4>2. Fresh(section, panel) /\ panel.kind = section
          BY <4>1, FreshScreen DEF Fresh
        <4>3. \A x : /\ StartCalls(<<Call("home", x)>>) /\ StartCalls(<<Call("episodes", x)>>)
                     /\ StartCalls(<<Call("names", x)>>) /\ StartCalls(<<Call("history", x)>>)
          BY StartCall DEF TypedOps, Apart, AiCalls
        <4>4. StartCalls(<<>>)
          BY EmptyList DEF StartCalls
        <4>5. StartCalls(calls)
          BY <4>1, <4>3, <4>4 DEF ScreenCalls, Sections, HomeCalls, WriteCalls, SearchCalls, ChatCalls
        <4> QED
          BY <4>1, <4>2, <4>5 DEF Work, Row
      <3> QED
        BY <3>1, <3>2
    <2>4. ImportOK(panel, db)
      BY <2>3 DEF Fresh, ImportOK, NoImport
    <2>5. PanelOK /\ ReplaceOK
      BY <2>3, <2>4 DEF Fresh, PanelOK, ComparesOneEpisode, OnWrite, ReplaceOK, Work, Sections
    <2>6. PlaceOK /\ ChoiceOK /\ VoidOK
      BY <1>1, <1>2, <2>1, <2>3 DEF PlaceOK, ChoiceOK, VoidOK, Work, Sections
    <2>7. CallsOK /\ CredsOK /\ LeftOK
      BY <1>1, <2>3 DEF StartCalls, CallsOK, CredsOK, LeftOK
    <2>8. LlmOK
      <3>1. Number(calls, AiCalls) = 0
        BY <2>3, NumberNone DEF StartCalls, Apart
      <3> QED
        BY <2>1, <2>3, <3>1, NoActivityOK DEF LlmOK
    <2> QED
      BY <1>2, <2>2, <2>4, <2>5, <2>6, <2>7, <2>8 DEF Inv
  <1> QED
    BY <1>4, <1>5 DEF Init


-----------------------------------------------------------------------------
(***************************************************************************)
(* The theorems.                                                           *)
(***************************************************************************)
THEOREM Invariance == Spec => []Inv
  <1>1. Init => Inv
    BY InitInv
  <1>2. Inv /\ [Next]_vars => Inv'
    BY NextInv
  <1> QED
    BY <1>1, <1>2, PTL DEF Spec

\* The types of what the screens share: among them that the open project is one the server
\* has, that the section is the one on the screen, that the poller of LlmActivityProvider
\* runs exactly while something is to be shown, and that its list counts the calls to the AI
\* that are in flight, those of screens that are gone included.
THEOREM TypeCorrect == Spec => []TypeOK
  <1>1. Inv => TypeOK
    <2> SUFFICES ASSUME Inv PROVE TypeOK
      OBVIOUS
    <2>1. \A i \in DOMAIN calls : calls[i].status \in {"sent", "asked", "ok", "failed"}
      BY DEF Inv, CallsOK, CallOK
    <2>2. project # None => project.id \in DOMAIN db.projects /\ panel.kind = section
      BY DEF Inv, PlaceOK
    <2>3. llm # None => llm \in Activity /\ llm.items = Number(calls, AiCalls) /\ (Active(llm) <=> llm.poller # None)
      BY DEF Inv, LlmOK
    <2>4. ActivityOK
      BY <2>3 DEF ActivityOK, QueueShown, Number
    <2> QED
      BY <2>1, <2>2, <2>4 DEF Inv, TypeOK, AuthOK, PlaceOK
  <1> QED
    BY <1>1, Invariance, PTL

\* One who has signed out from the dashboard, and has let the page be loaded again after the
\* server answered, is not let in by any call that is still in flight.
THEOREM SignedOutIsOut == Spec => []SignedOutStaysOut
  <1>1. Inv => SignedOutStaysOut
    BY DEF Inv, LeftOK, SignedOutStaysOut
  <1> QED
    BY <1>1, Invariance, PTL

\* The language picked last is the one the workspace is shown in, however it was entered.
THEOREM ChoiceIsKept == Spec => []ChoiceSurvives
  <1>1. Inv => ChoiceSurvives
    BY DEF Inv, ChoiceOK, ChoiceSurvives
  <1> QED
    BY <1>1, Invariance, PTL

\* The two texts of the comparison in the writing screen are of one episode, although the
\* answers of revisions asked for under other episodes come in late.
THEOREM ComparisonIsOfOne == Spec => []ComparesOneEpisode
  <1>1. Inv => ComparesOneEpisode
    BY DEF Inv, PanelOK
  <1> QED
    BY <1>1, Invariance, PTL

\* A replacement that the search screen says is done has replaced the confirmed word in the
\* selected episodes and nothing in the others.
THEOREM ReplacementIsExact == Spec => []ReplaceIsExact
  <1>1. Inv => ReplaceIsExact
    BY DEF Inv, ReplaceOK, ReplaceIsExact, OnSearch, Exact
  <1> QED
    BY <1>1, Invariance, PTL

\* What gives up the stored credentials, or stores others.
LEMMA StoredBy ==
    ASSUME Inv, Next, acts' = acts, stored' # stored
    PROVE  \E i \in DOMAIN calls : Unauthorized(i)
  <1>1. \A op : ~User(op)
    BY DEF User, Inv, AuthOK
  <1>2. SignInNext
    BY <1>1 DEF Next, auth, ToDashboard, GoTo, ProjectSaved, LoseCall
  <1>3. ~(Submit \/ Logout \/ SidebarLogout)
    BY <1>1 DEF Submit, Logout, SidebarLogout
  <1>4. ~(OpenPage \/ ChooseLanguage \/ Forgot \/ OauthLogin \/ FollowLink \/ ConfirmReset \/ BackToLogin \/ Reload \/ PasswordChanges)
    BY DEF OpenPage, ChooseLanguage, Forgot, OauthLogin, FollowLink, ConfirmReset, BackToLogin, Reload, PasswordChanges, auth
  <1>5. \A i \in DOMAIN calls : ~(MeServed(i) \/ MeAnswered(i) \/ MeThrown(i) \/ LoginServed(i) \/ SubmitAnswered(i) \/ LoginThrown(i))
    BY DEF MeServed, MeAnswered, MeThrown, LoginServed, SubmitAnswered, LoginThrown, auth
  <1>6. \A i \in DOMAIN calls : ~(LoginAnswered(i) \/ ConfirmServed(i) \/ ConfirmAnswered(i) \/ LogoutServed(i) \/ LogoutDone(i) \/ VoidOver(i))
    BY DEF LoginAnswered, ConfirmServed, ConfirmAnswered, LogoutServed, LogoutDone, VoidOver, auth
  <1> QED
    BY <1>2, <1>3, <1>4, <1>5, <1>6 DEF SignInNext

\* No 401 that is on its way throws away credentials the server accepts: api() clears
\* whatever is stored, but the calls of one who waits for his answers carry nothing else.
THEOREM CredentialsKept == Spec => ValidCredentialsKept
  <1> DEFINE A == mix.careful /\ stored = password /\ Me \in db.active /\ stored' # stored => acts' # acts
  <1>1. Inv /\ [Next]_vars => [A]_<<stored, acts>>
    <2> SUFFICES ASSUME Inv, [Next]_vars, mix.careful, stored = password, Me \in db.active, stored' # stored, acts' = acts
                 PROVE  FALSE
      OBVIOUS
    <2>1. Next
      BY DEF vars, auth
    <2>2. PICK i \in DOMAIN calls : Unauthorized(i)
      BY <2>1, StoredBy
    <2>3. stored # None
      BY PasswordsAssumption DEF Inv, AuthOK
    <2>4. calls[i].cred = stored
      BY <2>3 DEF Inv, CredsOK
    <2>5. ~MayDeny(calls[i])
      BY <2>3, <2>4 DEF MayDeny
    <2> QED
      BY <2>2, <2>5 DEF Unauthorized, Denied
  <1> QED
    BY <1>1, Invariance, PTL DEF Spec, ValidCredentialsKept
=============================================================================
