----------------------------- MODULE ScreenProofs -----------------------------
(***************************************************************************)
(* Proof that the screens of the client show what the server has           *)
(* (ScreensInStep), for any mixes, names and bounds: whatever is shown is  *)
(* right, or a call in flight owes it to the screen.                       *)
(***************************************************************************)
EXTENDS ClientProofs, WellFoundedInduction

Flight == ToSet(calls)

\* One whose calls are answered and who waits for them.
Calm == mix.careful /\ ~mix.fails

\* The requests of each screen that are about what it shows.
ChatOps == {"history", "chat", "clear"}
SearchOps == {"find", "replace"}
MaterialsOps == {"rows", "add", "remove", "keep", "draft", "numbers", "article"}
WriteOps == {"episodes", "sources", "source", "unsource", "new article"}
SettingsOps == {"system", "put", "save", "usage", "backups", "backup", "admin"} \cup AdminOps
BoardOps == {"create", "project"}

Duties == ChatOps \cup SearchOps \cup MaterialsOps \cup WriteOps \cup SettingsOps \cup BoardOps \cup {"projects"}

\* Those that change it or take the person elsewhere, and those that run beside them.
Writes == {"chat", "clear", "replace", "add", "remove", "keep", "draft", "numbers", "article",
           "source", "unsource", "new article", "put", "save", "backup", "create", "project"}
          \cup (AdminOps \ {"users"})
Passive == {"queue", "user", "poll"}

\* What the server may refuse to one who waits.
Refusable == {"remove", "unsource", "revision", "own", "confirm", "void"} \cup AdminOps

\* A request of a screen is in flight while the screen is mounted, and no longer.
AtHome(c) ==
    /\ c.op \in ChatOps => panel.kind = "chat"
    /\ c.op \in SearchOps => panel.kind = "search"
    /\ c.op \in MaterialsOps => panel.kind = "materials"
    /\ c.op \in WriteOps => panel.kind = "write"
    /\ c.op \in SettingsOps => panel.kind = "settings"
    /\ c.op \in BoardOps => panel.kind = "dashboard"
    /\ c.op \in ChatOps \cup SearchOps \cup MaterialsOps \cup WriteOps \cup SettingsOps => c.live
    /\ c.op = "void" /\ c.status = "asked" => panel.kind # "chat"

\* The words of a search in the texts d.
Matches(d, x) == {k \in DOMAIN d : Hits(d[k], x.q, x.cs) # {}}

\* A number of its own, so long as all the episodes are listed.
Free(n) == Len(db.numbers) <= ListLimit => n \in Nat /\ \A k \in DOMAIN db.numbers : db.numbers[k] # n

\* What a request x is about.
AboutThis(c, x) ==
    /\ c.op = "rows" => x = panel.at.tab /\ x \notin AiTabs
    /\ c.op \in {"add", "remove"} => x.tab = panel.at.tab
    /\ c.op = "keep" => panel.at.tab \in AiTabs
    /\ c.op \in {"sources", "source"} => x = panel.episode
    /\ c.op = "unsource" => x.ep = panel.episode
    /\ c.op \in {"article", "new article"} /\ c.status = "sent" => Free(x)
    /\ c.op = "put" /\ c.status = "sent" => ConfigAfter(x).key = panel.meant
    /\ c.op = "usage" => x \in {"summary", "recent"}
    /\ c.op = "chat" /\ c.status = "asked" /\ Len(db.chat) <= ListLimit =>
          db.chat = Append(panel.messages, Turn("user", x))

\* Its answer y is still right.
Answers(c, x, y) ==
    /\ c.op = "history" => y = Listed(db.chat)
    /\ c.op = "chat" => IsList(y) /\ (Len(db.chat) <= ListLimit => db.chat = panel.messages \o y)
    /\ c.op = "clear" => db.chat = <<>>
    /\ c.op = "rows" => y = db[x]
    /\ c.op = "find" => y.matches = Matches(db.texts, x)
    /\ c.op \in {"numbers", "episodes"} => y = EpisodesListed
    /\ c.op = "sources" => y = SourcesOf(x)
    /\ c.op \in {"system", "put"} => y = SystemOut
    /\ c.op = "users" => y = Listing
    /\ c.op = "reset" => Me \in db.admins
    /\ c.op = "backups" => y = db.backups
    /\ c.op = "projects" => \A p \in DOMAIN y : p \in DOMAIN db.projects /\ y[p] = db.projects[p]
    /\ c.op \in {"create", "project", "save"} => y.guide = db.projects[y.id]

Fact(c) ==
    /\ AtHome(c)
    /\ c.status = "failed" => c.op \in Refusable
    /\ c.status = "failed" /\ c.op = "users" => Me \notin db.admins
    /\ c.status = "asked" => DOMAIN c.arg = {"chat"}
    /\ AboutThis(c, c.arg[c.op])
    /\ c.status = "ok" => Answers(c, c.arg[c.op], c.ans[c.op])

\* While something is changed nothing else is under way but what only looks on.
Alone ==
    /\ Number(calls, Writes) <= 1
    /\ Number(calls, {"episodes", "sources"}) <= 1
    /\ \A c \in Flight : c.op \in Writes => \A e \in Flight : e.op \in Writes \cup Passive
    /\ \A c \in Flight : c.status = "asked" /\ c.op = "void" =>
          \A e \in Flight : e.op \notin Writes \cup {"history", "logout"}

\* The server answers no question that was given up.
AskedOK ==
    /\ \A q \in db.answering :
          /\ Turn("user", q) \in ToSet(db.chat)
          /\ \E c \in Flight : c.status = "asked" /\ c.arg["chat"] = q
    /\ authed = "closed" => db.answering = {}

FieldsOK ==
    /\ panel.kind = "chat" => "messages" \in DOMAIN panel /\ IsList(panel.messages)
    /\ panel.kind = "search" => {"matches", "found"} \subseteq DOMAIN panel
    /\ panel.kind = "materials" =>
          /\ "at" \in DOMAIN panel
          /\ "tab" \in DOMAIN panel.at
          /\ panel.at.tab \in Tabs
          /\ panel.at.tab \notin AiTabs => "list" \in DOMAIN panel.at
    /\ panel.kind = "write" => {"list", "last", "episode", "sources"} \subseteq DOMAIN panel
    /\ panel.kind = "settings" => {"tab", "sys", "meant", "users", "usersError", "backups", "usage"} \subseteq DOMAIN panel
    /\ panel.kind = "dashboard" => "projects" \in DOMAIN panel

Paired(rows) ==
    \A n \in DOMAIN rows :
        rows[n].role = "assistant" => \E k \in 1..n - 1 : rows[k] = Turn("user", rows[n].q)
Distinct(numbers) ==
    /\ \A k \in DOMAIN numbers : numbers[k] \in Nat
    /\ \A j, k \in DOMAIN numbers : numbers[j] = numbers[k] => j = k

StoreOK ==
    /\ IsList(db.chat) /\ IsList(db.numbers)
    /\ Paired(db.chat)
    /\ Len(db.numbers) <= ListLimit => Distinct(db.numbers)
    /\ panel.kind = "dashboard" =>
          \A p \in DOMAIN panel.projects : p \in DOMAIN db.projects /\ panel.projects[p] = db.projects[p]

\* The parts of what is shown, which calls owe each, and when it is right.
Parts == {"messages", "matches", "rows", "list", "sources", "sys", "key", "users", "backups",
          "summary", "recent", "copy"}

Owes(c, p) ==
    \/ p = "messages" /\ (c.op = "history" \/ (c.op = "chat" /\ c.status # "sent") \/ (c.op = "clear" /\ c.status = "ok"))
    \/ p = "matches" /\ c.op = "replace" /\ c.status = "ok"
    \/ p = "rows" /\ (c.op = "rows" \/ (c.op \in {"add", "remove"} /\ c.status = "ok"))
    \/ p = "list" /\ (c.op = "episodes" \/ (c.op = "new article" /\ c.status = "ok"))
    \/ p = "sources" /\ (c.op = "sources" \/ (c.op \in {"source", "unsource"} /\ c.status = "ok"))
    \/ p = "sys" /\ c.op = "put" /\ c.status = "ok"
    \/ p = "key" /\ c.op = "put" /\ c.status = "sent"
    \/ p = "users" /\ c.op \in AdminOps
                   /\ (c.op = "users" \/ Me \notin db.admins \/ (c.op # "reset" /\ c.status = "ok"))
    \/ p = "backups" /\ (c.op = "backups" \/ (c.op = "backup" /\ c.status = "ok"))
    \/ p \in {"summary", "recent"} /\ c.op = "usage" /\ c.arg["usage"] = p
    \/ p = "copy" /\ c.op = "save" /\ c.status = "ok"

IsRight(p) ==
    /\ p = "messages" /\ panel.kind = "chat" /\ Len(db.chat) <= ListLimit => panel.messages = db.chat
    /\ p = "matches" /\ panel.kind = "search" /\ panel.found # None => panel.matches = Matches(db.texts, panel.found)
    /\ p = "rows" /\ panel.kind = "materials" /\ panel.at.tab \notin AiTabs => panel.at.list = db[panel.at.tab]
    /\ p = "list" /\ panel.kind = "write" /\ panel.episode # None /\ Len(db.numbers) <= ListLimit =>
          /\ panel.list = DOMAIN db.numbers
          /\ panel.last \in Nat
          /\ \A k \in DOMAIN db.numbers : db.numbers[k] <= panel.last
    /\ p = "sources" /\ panel.kind = "write" /\ panel.episode # None => panel.sources = SourcesOf(panel.episode)
    /\ p = "sys" /\ panel.kind = "settings" /\ panel.sys # None => panel.sys = SystemOut
    /\ p = "key" /\ panel.kind = "settings" => db.config.key = panel.meant
    /\ p = "users" /\ panel.kind = "settings" /\ panel.users # None =>
          panel.users = Listing \/ (Me \notin db.admins /\ panel.usersError)
    /\ p = "backups" /\ panel.kind = "settings" /\ panel.backups # None => panel.backups = db.backups
    /\ p \in {"summary", "recent"} /\ panel.kind = "settings" /\ panel.tab = "usage" => p \in panel.usage
    /\ p = "copy" /\ project # None => project.guide = db.projects[project.id]

Owed(p) == \E c \in Flight : Owes(c, p)

ScreenInv ==
    /\ FieldsOK /\ StoreOK /\ Alone /\ AskedOK
    /\ \A c \in Flight : Fact(c)
    /\ \A p \in Parts : IsRight(p) \/ Owed(p)

CalmInv == Calm => ScreenInv

\* What the lemmas about a step begin with.
Here == Calm /\ Inv /\ Inv' /\ ScreenInv

-----------------------------------------------------------------------------
(***************************************************************************)
(* The calls in flight as a set, after one was sent, answered, or is over. *)
(***************************************************************************)
Rest(i) == {calls[k] : k \in DOMAIN calls \ {i}}

LEMMA RemoveRest ==
    ASSUME NEW s, IsList(s), NEW i \in DOMAIN s
    PROVE  ToSet(RemoveAt(s, i)) = {s[k] : k \in DOMAIN s \ {i}}
  <1> DEFINE r == RemoveAt(s, i)
  <1>1. Len(s) \in Nat /\ DOMAIN s = 1..Len(s) /\ i \in 1..Len(s)
    BY ListFacts
  <1>2. DOMAIN r = 1..Len(s) - 1 /\ \A k \in DOMAIN r : r[k] = IF k < i THEN s[k] ELSE s[k + 1]
    BY RemoveList
  <1> HIDE DEF r
  <1>3. ASSUME NEW k \in DOMAIN r PROVE \E j \in DOMAIN s \ {i} : r[k] = s[j]
    <2>1. CASE k < i
      BY <2>1, <1>1, <1>2
    <2>2. CASE ~(k < i)
      <3>1. k + 1 \in DOMAIN s \ {i} /\ r[k] = s[k + 1]
        BY <2>2, <1>1, <1>2
      <3> QED
        BY <3>1
    <2> QED
      BY <2>1, <2>2
  <1>4. ASSUME NEW j \in DOMAIN s \ {i} PROVE \E k \in DOMAIN r : r[k] = s[j]
    <2>1. CASE j < i
      <3>1. j \in DOMAIN r /\ r[j] = s[j]
        BY <2>1, <1>1, <1>2
      <3> QED
        BY <3>1
    <2>2. CASE ~(j < i)
      <3>1. j - 1 \in DOMAIN r /\ ~(j - 1 < i) /\ (j - 1) + 1 = j
        BY <2>2, <1>1, <1>2
      <3>2. r[j - 1] = s[j]
        BY <3>1, <1>2
      <3> QED
        BY <3>1, <3>2
    <2> QED
      BY <2>1, <2>2
  <1>5. ToSet(r) = {s[k] : k \in DOMAIN s \ {i}}
    BY <1>3, <1>4 DEF ToSet
  <1> QED
    BY <1>5 DEF r

LEMMA FlightIs ==
    ASSUME Inv
    PROVE  /\ IsList(calls)
           /\ \A i \in DOMAIN calls : calls[i] \in Flight /\ Flight = Rest(i) \cup {calls[i]}
           /\ \A c \in Flight : CallOK(db, c) /\ \E i \in DOMAIN calls : calls[i] = c
  BY DEF Inv, CallsOK, Flight, Rest, ToSet

LEMMA FlightSend ==
    ASSUME Inv, NEW cs, IsList(cs), Send(cs)
    PROVE  /\ Flight' = Flight \cup ToSet(cs)
           /\ \A S : Number(calls', S) = Number(calls, S) + Number(cs, S)
  BY FlightIs, JoinList, NumberJoin DEF Send, Flight

LEMMA FlightContinue ==
    ASSUME Inv, NEW i \in DOMAIN calls, NEW cs, IsList(cs), Continue(i, cs)
    PROVE  /\ Flight' = Rest(i) \cup ToSet(cs)
           /\ \A S : Number(calls', S) = Number(calls, S) - (IF calls[i].op \in S THEN 1 ELSE 0) + Number(cs, S)
  <1>1. IsList(calls)
    BY FlightIs
  <1>2. /\ IsList(RemoveAt(calls, i))
        /\ ToSet(RemoveAt(calls, i)) = Rest(i)
        /\ \A S : Number(RemoveAt(calls, i), S) = Number(calls, S) - IF calls[i].op \in S THEN 1 ELSE 0
    BY <1>1, RemoveList, RemoveRest, NumberRemove DEF Rest
  <1>3. calls' = RemoveAt(calls, i) \o cs
    BY DEF Continue
  <1>4. ToSet(calls') = Rest(i) \cup ToSet(cs)
    BY <1>2, <1>3, JoinList
  <1>5. \A S : Number(calls', S) = Number(RemoveAt(calls, i), S) + Number(cs, S)
    BY <1>2, <1>3, NumberJoin
  <1> QED
    BY <1>2, <1>4, <1>5 DEF Flight

LEMMA FlightChange ==
    ASSUME Inv, NEW i \in DOMAIN calls, NEW c, calls' = [calls EXCEPT ![i] = c]
    PROVE  Flight' = Rest(i) \cup {c}
  <1>1. DOMAIN calls' = DOMAIN calls /\ \A k \in DOMAIN calls : calls'[k] = IF k = i THEN c ELSE calls[k]
    OBVIOUS
  <1> QED
    BY <1>1 DEF Flight, Rest, ToSet

\* What Serve and Refuse make of a call.
ServedCall(c, y) == [c EXCEPT !.status = "ok", !.ans = Tagged(c.op, y)]
RefusedCall(c) == [c EXCEPT !.status = "failed"]

LEMMA ServedIs ==
    ASSUME NEW d, NEW c, CallOK(d, c), NEW y
    PROVE  /\ ServedCall(c, y).op = c.op /\ ServedCall(c, y).arg = c.arg /\ ServedCall(c, y).live = c.live
           /\ ServedCall(c, y).status = "ok" /\ ServedCall(c, y).ans[c.op] = y
           /\ RefusedCall(c).op = c.op /\ RefusedCall(c).arg = c.arg /\ RefusedCall(c).live = c.live
           /\ RefusedCall(c).status = "failed"
  BY DEF CallOK, CallFields, ServedCall, RefusedCall, Tagged

LEMMA FlightServe ==
    ASSUME Inv, NEW i \in DOMAIN calls, NEW y, Serve(i, y)
    PROVE  Flight' = Rest(i) \cup {ServedCall(calls[i], y)} /\ calls' = [calls EXCEPT ![i] = ServedCall(calls[i], y)]
  <1>1. calls' = [calls EXCEPT ![i] = ServedCall(calls[i], y)]
    BY DEF Serve, ServedCall
  <1> QED
    BY <1>1, FlightChange

LEMMA FlightRefuse ==
    ASSUME Inv, NEW i \in DOMAIN calls, Refuse(i)
    PROVE  Flight' = Rest(i) \cup {RefusedCall(calls[i])} /\ calls' = [calls EXCEPT ![i] = RefusedCall(calls[i])]
  <1>1. calls' = [calls EXCEPT ![i] = RefusedCall(calls[i])]
    BY DEF Refuse, RefusedCall
  <1> QED
    BY <1>1, FlightChange

\* A call that was made in this step.
LEMMA MadeCall ==
    ASSUME NEW pw, NEW ck, NEW op, NEW x, NEW c, c = CallWith(pw, ck, op, x)
    PROVE  c.op = op /\ c.status = "sent" /\ c.live = TRUE /\ c.arg[op] = x /\ DOMAIN c = CallFields
  BY DEF CallWith, Tagged, CallFields

LEMMA SetOfOne ==
    ASSUME NEW c
    PROVE  ToSet(<<c>>) = {c}
  BY OneList DEF ToSet

LEMMA SetOfTwo ==
    ASSUME NEW c, NEW d
    PROVE  ToSet(<<c, d>>) = {c, d}
  BY TwoList DEF ToSet

LEMMA SetOfNone == ToSet(<<>>) = {}
  BY EmptyList DEF ToSet

-----------------------------------------------------------------------------
(***************************************************************************)
(* What is under way beside one another.                                   *)
(***************************************************************************)
Bare(c) ==
    /\ c.op \notin Duties
    /\ c.status = "failed" => c.op \in Refusable
    /\ c.status = "asked" => DOMAIN c.arg = {"chat"} /\ (c.op = "void" => panel.kind # "chat")

LEMMA OpsApart ==
    /\ Passive \cap Writes = {} /\ Passive \cap Duties = {} /\ Passive \cap Refusable = {}
    /\ Passive \cap {"chat", "void", "history", "logout", "episodes", "sources"} = {}
    /\ Writes \cap {"history", "logout", "episodes", "sources", "void"} = {} /\ Writes \subseteq Duties
    /\ {"history", "episodes", "sources"} \subseteq Duties /\ {"logout", "void"} \cap Duties = {}
  BY DEF Passive, Writes, Duties, Refusable, AdminOps, ChatOps, SearchOps, MaterialsOps, WriteOps, SettingsOps, BoardOps

LEMMA BareFact ==
    ASSUME NEW c, Bare(c)
    PROVE  Fact(c) /\ \A p : ~Owes(c, p)
  <1>1. c.op \notin Duties
    BY DEF Bare
  <1>2. AtHome(c) /\ AboutThis(c, c.arg[c.op]) /\ Answers(c, c.arg[c.op], c.ans[c.op])
    BY <1>1 DEF Bare, Duties, AdminOps, ChatOps, SearchOps, MaterialsOps, WriteOps, SettingsOps, BoardOps, AtHome, AboutThis, Answers
  <1>3. Fact(c)
    BY <1>1, <1>2 DEF Bare, Fact, Duties, SettingsOps, AdminOps
  <1>4. \A p : ~Owes(c, p)
    BY <1>1 DEF Duties, AdminOps, ChatOps, SearchOps, MaterialsOps, WriteOps, SettingsOps, BoardOps, Owes
  <1> QED
    BY <1>3, <1>4

LEMMA BareFactNext ==
    ASSUME NEW c, Bare(c)'
    PROVE  Fact(c)' /\ \A p : ~Owes(c, p)'
  <1>1. c.op \notin Duties
    BY DEF Bare
  <1>2. AtHome(c)' /\ AboutThis(c, c.arg[c.op])' /\ Answers(c, c.arg[c.op], c.ans[c.op])'
    BY <1>1 DEF Bare, Duties, AdminOps, ChatOps, SearchOps, MaterialsOps, WriteOps, SettingsOps, BoardOps, AtHome, AboutThis, Answers
  <1>3. Fact(c)'
    BY <1>1, <1>2 DEF Bare, Fact, Duties, SettingsOps, AdminOps
  <1>4. \A p : ~Owes(c, p)'
    BY <1>1 DEF Duties, AdminOps, ChatOps, SearchOps, MaterialsOps, WriteOps, SettingsOps, BoardOps, Owes
  <1> QED
    BY <1>3, <1>4

\* Those that look on stay what they are wherever the person goes.
LEMMA PassiveBare ==
    ASSUME Inv, ScreenInv, NEW c \in Flight, c.op \in Passive
    PROVE  c.status \in {"sent", "ok"} /\ Bare(c) /\ Bare(c)'
  <1>1. c.op \notin Refusable /\ c.op \notin {"chat", "void"} /\ c.op \notin Duties
    BY OpsApart
  <1>2. CallOK(db, c) /\ Fact(c)
    BY FlightIs DEF ScreenInv
  <1>3. c.status \in {"sent", "ok"}
    BY <1>1, <1>2 DEF Fact, CallOK
  <1> QED
    BY <1>1, <1>3 DEF Bare

\* Beside a change there are only those.
LEMMA RestPassive ==
    ASSUME Inv, ScreenInv, NEW i \in DOMAIN calls, calls[i].op \in Writes
    PROVE  \A c \in Rest(i) : c \in Flight /\ c.op \in Passive /\ Bare(c) /\ Bare(c)'
  <1>1. IsList(calls) /\ Number(calls, Writes) \in Nat /\ Number(calls, Writes) <= 1
    BY FlightIs, NumberType DEF ScreenInv, Alone
  <1>2. Number(calls, Writes) = 1
    BY <1>1, NumberNone
  <1>3. ASSUME NEW k \in DOMAIN calls \ {i} PROVE calls[k] \in Flight /\ calls[k].op \in Passive
    <2>1. calls[k].op \notin Writes
      BY <1>1, <1>2, NumberUnique
    <2>2. calls[k] \in Flight /\ calls[i] \in Flight
      BY FlightIs
    <2> QED
      BY <2>1, <2>2 DEF ScreenInv, Alone
  <1> QED
    BY <1>3, PassiveBare DEF Rest

\* Where nothing is changed or asked that somebody waits for.
LEMMA NoWrites ==
    ASSUME ScreenInv, NEW c \in Flight, c.op \notin Writes \cup Passive
    PROVE  \A e \in Flight : e.op \notin Writes
  BY DEF ScreenInv, Alone

OneByOne(cs) ==
    /\ IsList(cs)
    /\ Number(cs, Writes) <= 1
    /\ Number(cs, {"episodes", "sources"}) <= 1
    /\ (\E c \in ToSet(cs) : c.op \in Writes) => \A c \in ToSet(cs) : c.op \in Writes \cup Passive
    /\ \A c \in ToSet(cs) : c.status = "sent"

LEMMA OneByOneNone == OneByOne(<<>>)
  BY SetOfNone, EmptyList, NumberNone DEF OneByOne

LEMMA OneByOneCall ==
    ASSUME NEW c, c.status = "sent"
    PROVE  OneByOne(<<c>>)
  BY SetOfOne, OneList, NumberOne DEF OneByOne

\* No change, and at most one of the two that load a list of the writing screen.
LEMMA OneByOneReads ==
    ASSUME NEW cs, IsList(cs),
           \A c \in ToSet(cs) : c.op \notin Writes \cup {"episodes", "sources"} /\ c.status = "sent"
    PROVE  OneByOne(cs)
  <1>1. \A k \in DOMAIN cs : cs[k] \in ToSet(cs)
    BY DEF ToSet
  <1>2. Number(cs, Writes) = 0 /\ Number(cs, {"episodes", "sources"}) = 0
    BY <1>1, NumberNone
  <1> QED
    BY <1>2 DEF OneByOne

LEMMA OneByOneMore ==
    ASSUME NEW c, NEW cs, IsList(cs), c.status = "sent", \A e \in ToSet(cs) : e.op \in Passive /\ e.status = "sent"
    PROVE  OneByOne(<<c>> \o cs) /\ ToSet(<<c>> \o cs) = {c} \cup ToSet(cs)
  <1>1. \A k \in DOMAIN cs : cs[k] \in ToSet(cs)
    BY DEF ToSet
  <1>2. Number(cs, Writes) = 0 /\ Number(cs, {"episodes", "sources"}) = 0
    BY <1>1, NumberNone, OpsApart
  <1>3. IsList(<<c>>) /\ ToSet(<<c>>) = {c}
    BY OneList, SetOfOne
  <1>4. IsList(<<c>> \o cs) /\ ToSet(<<c>> \o cs) = {c} \cup ToSet(cs)
    BY <1>3, JoinList
  <1>5. \A S : Number(<<c>> \o cs, S) = Number(<<c>>, S) + Number(cs, S)
    BY <1>3, NumberJoin
  <1>6. Number(<<c>> \o cs, Writes) <= 1 /\ Number(<<c>> \o cs, {"episodes", "sources"}) <= 1
    BY <1>2, <1>5, NumberOne
  <1> QED
    BY <1>4, <1>6, OpsApart DEF OneByOne

\* The calls cs follow r, of which nothing is left but what looks on.
LEMMA AloneJoin ==
    ASSUME NEW r, NEW cs, IsList(r), \A c \in ToSet(r) : c.op \in Passive, OneByOne(cs), calls' = r \o cs
    PROVE  Alone'
  <1>1. \A k \in DOMAIN r : r[k] \in ToSet(r)
    BY DEF ToSet
  <1>2. Number(r, Writes) = 0 /\ Number(r, {"episodes", "sources"}) = 0
    BY <1>1, NumberNone, OpsApart
  <1>3. Flight' = ToSet(r) \cup ToSet(cs) /\ \A S : Number(calls', S) = Number(r, S) + Number(cs, S)
    BY JoinList, NumberJoin DEF OneByOne, Flight
  <1>4. Number(calls', Writes) <= 1 /\ Number(calls', {"episodes", "sources"}) <= 1
    <2>1. Number(cs, Writes) \in Nat /\ Number(cs, {"episodes", "sources"}) \in Nat
      BY NumberType DEF OneByOne
    <2> QED
      BY <2>1, <1>2, <1>3 DEF OneByOne
  <1>5. \A c \in Flight' : ~(c.status = "asked" /\ c.op = "void")
    BY <1>3, OpsApart DEF OneByOne
  <1>6. ASSUME NEW c \in Flight', c.op \in Writes PROVE \A e \in Flight' : e.op \in Writes \cup Passive
    BY <1>6, <1>3, OpsApart DEF OneByOne
  <1> QED
    BY <1>4, <1>5, <1>6 DEF Alone

\* The calls are the same ones, and none that was given up is asked from now on.
LEMMA AloneChange ==
    ASSUME Inv, ScreenInv, NEW i \in DOMAIN calls, NEW c, calls' = [calls EXCEPT ![i] = c], c.op = calls[i].op,
           c.status # "asked" \/ c.op # "void"
    PROVE  Alone'
  <1>1. DOMAIN calls' = DOMAIN calls /\ \A k \in DOMAIN calls : calls'[k] = IF k = i THEN c ELSE calls[k]
    OBVIOUS
  <1>2. \A S : Number(calls', S) = Number(calls, S)
    BY <1>1, NumberSame
  <1>3. ASSUME NEW e \in Flight'
        PROVE  \E b \in Flight : b.op = e.op /\ (e.op = "void" /\ e.status = "asked" => b.status = "asked")
    <2>1. PICK k \in DOMAIN calls : e = calls'[k]
      BY <1>1 DEF Flight, ToSet
    <2>2. calls[k] \in Flight
      BY DEF Flight, ToSet
    <2> QED
      BY <2>1, <2>2, <1>1
  <1> QED
    BY <1>2, <1>3 DEF Alone, ScreenInv

\* A call is over or one more looks on.
LEMMA AloneLess ==
    ASSUME Inv, ScreenInv, NEW i \in DOMAIN calls, Continue(i, <<>>)
    PROVE  Alone'
  <1>1. Flight' = Rest(i) /\ \A S : Number(calls', S) = Number(calls, S) - (IF calls[i].op \in S THEN 1 ELSE 0) + Number(<<>>, S)
    BY EmptyList, FlightContinue, SetOfNone
  <1>2. \A S : Number(<<>>, S) = 0
    BY EmptyList, NumberNone
  <1>3. Flight' \subseteq Flight
    BY <1>1, FlightIs
  <1>4. \A S : Number(calls, S) \in Nat
    BY FlightIs, NumberType
  <1>5. Number(calls', Writes) <= 1 /\ Number(calls', {"episodes", "sources"}) <= 1
    BY <1>1, <1>2, <1>4 DEF Alone, ScreenInv
  <1> QED
    BY <1>3, <1>5 DEF Alone, ScreenInv

LEMMA AloneTick ==
    ASSUME Inv, ScreenInv, NEW cs, IsList(cs), \A c \in ToSet(cs) : c.op \in Passive, Send(cs)
    PROVE  Alone'
  <1>1. Flight' = Flight \cup ToSet(cs) /\ \A S : Number(calls', S) = Number(calls, S) + Number(cs, S)
    BY FlightSend
  <1>2. \A k \in DOMAIN cs : cs[k] \in ToSet(cs)
    BY DEF ToSet
  <1>3. Number(cs, Writes) = 0 /\ Number(cs, {"episodes", "sources"}) = 0
    BY <1>2, NumberNone, OpsApart
  <1>4. \A S : Number(calls, S) \in Nat
    BY FlightIs, NumberType
  <1>5. Number(calls', Writes) <= 1 /\ Number(calls', {"episodes", "sources"}) <= 1
    BY <1>1, <1>3, <1>4 DEF Alone, ScreenInv
  <1> QED
    BY <1>1, <1>5, OpsApart DEF Alone, ScreenInv

\* What was read leads to more to read.
LEMMA AloneRead ==
    ASSUME Inv, ScreenInv, NEW i \in DOMAIN calls, NEW cs, OneByOne(cs), Continue(i, cs),
           calls[i].op \notin Writes \cup Passive,
           \A c \in ToSet(cs) : c.op \notin Writes \cup {"history", "logout"},
           (\E c \in ToSet(cs) : c.op \in {"episodes", "sources"}) => calls[i].op \in {"episodes", "sources"}
    PROVE  Alone'
  <1>1. /\ Flight' = Rest(i) \cup ToSet(cs)
        /\ \A S : Number(calls', S) = Number(calls, S) - (IF calls[i].op \in S THEN 1 ELSE 0) + Number(cs, S)
    BY FlightContinue DEF OneByOne
  <1>2. calls[i] \in Flight /\ Rest(i) \subseteq Flight
    BY FlightIs
  <1>3. \A e \in Flight' : e.op \notin Writes
    BY <1>1, <1>2, NoWrites
  <1>4. IsList(calls')
    BY FlightIs, RemoveList, JoinList DEF Continue, OneByOne
  <1>5. Number(calls', Writes) = 0
    BY <1>3, <1>4, NumberNone DEF Flight, ToSet
  <1>6. Number(calls', {"episodes", "sources"}) <= 1
    <2> DEFINE E == {"episodes", "sources"}
    <2>1. Number(calls, E) \in Nat /\ Number(calls, E) <= 1 /\ Number(cs, E) \in Nat /\ Number(cs, E) <= 1
      BY FlightIs, NumberType DEF Alone, ScreenInv, OneByOne
    <2>2. Number(calls', E) = Number(calls, E) - (IF calls[i].op \in E THEN 1 ELSE 0) + Number(cs, E)
      BY <1>1
    <2>3. CASE calls[i].op \in E
      BY <2>1, <2>2, <2>3
    <2>4. CASE calls[i].op \notin E
      <3>1. \A k \in DOMAIN cs : cs[k].op \notin E
        BY <2>4 DEF ToSet
      <3>2. Number(cs, E) = 0
        BY <3>1, NumberNone DEF OneByOne
      <3> QED
        BY <2>1, <2>2, <2>4, <3>2
    <2> QED
      BY <2>3, <2>4
  <1>7. ASSUME NEW c \in Flight', c.status = "asked", c.op = "void"
        PROVE  \A e \in Flight' : e.op \notin Writes \cup {"history", "logout"}
    <2>1. c \in Flight
      BY <1>7, <1>1, <1>2 DEF OneByOne
    <2>2. \A e \in Flight : e.op \notin {"history", "logout"}
      BY <1>7, <2>1 DEF Alone, ScreenInv
    <2> QED
      BY <2>2, <1>1, <1>2, <1>3
  <1> QED
    BY <1>3, <1>5, <1>6, <1>7 DEF Alone

-----------------------------------------------------------------------------
(***************************************************************************)
(* Steps that change nothing of what is shown and of the rows it is about. *)
(***************************************************************************)
ShownFields == {"kind", "messages", "matches", "found", "list", "last", "episode", "sources", "tab", "sys", "meant", "users",
          "usersError", "backups", "usage", "projects"}

PanelStill ==
    /\ DOMAIN panel' = DOMAIN panel
    /\ \A f \in ShownFields : f \in DOMAIN panel => panel'[f] = panel[f]
    /\ "at" \in DOMAIN panel =>
          /\ DOMAIN panel'.at = DOMAIN panel.at
          /\ \A f \in {"tab", "list"} : f \in DOMAIN panel.at => panel'.at[f] = panel.at[f]

Rowed == {"chat", "answering", "texts", "memos", "templates", "numbers", "sources", "config", "users", "admins", "active",
          "mail", "backups"}

ProjectsStay ==
    /\ DOMAIN db.projects \subseteq DOMAIN db'.projects
    /\ \A p \in DOMAIN db.projects : db'.projects[p] = db.projects[p]
RowsStill == ProjectsStay /\ \A f \in Rowed : db'[f] = db[f]

LEMMA SameIsStill ==
    /\ panel' = panel => PanelStill
    /\ db' = db => RowsStill
  <1>1. ASSUME panel' = panel PROVE PanelStill
    BY <1>1 DEF PanelStill
  <1>2. ASSUME db' = db PROVE RowsStill
    BY <1>2 DEF RowsStill, ProjectsStay
  <1> QED
    BY <1>1, <1>2

LEMMA RowsAre ==
    ASSUME RowsStill
    PROVE  /\ db'.chat = db.chat /\ db'.answering = db.answering /\ db'.texts = db.texts /\ db'.memos = db.memos
           /\ db'.templates = db.templates /\ db'.numbers = db.numbers /\ db'.sources = db.sources
           /\ db'.config = db.config /\ db'.users = db.users /\ db'.admins = db.admins /\ db'.active = db.active
           /\ db'.mail = db.mail /\ db'.backups = db.backups
           /\ EpisodesListed' = EpisodesListed /\ SystemOut' = SystemOut /\ Listing' = Listing
           /\ \A x : Matches(db'.texts, x) = Matches(db.texts, x)
           /\ \A k : SourcesOf(k)' = SourcesOf(k)
           /\ \A n : Free(n)' <=> Free(n)
           /\ \A x : ConfigAfter(x)' = ConfigAfter(x)
  <1>1. /\ db'.chat = db.chat /\ db'.answering = db.answering /\ db'.texts = db.texts /\ db'.memos = db.memos
        /\ db'.templates = db.templates /\ db'.numbers = db.numbers /\ db'.sources = db.sources
        /\ db'.config = db.config /\ db'.users = db.users /\ db'.admins = db.admins /\ db'.active = db.active
        /\ db'.mail = db.mail /\ db'.backups = db.backups
    BY DEF RowsStill, Rowed
  <1>2. EpisodesListed' = EpisodesListed
    BY <1>1 DEF EpisodesListed, Before
  <1>3. SystemOut' = SystemOut /\ Listing' = Listing
    BY <1>1 DEF SystemOut, Effective, Listing
  <1>4. \A k : SourcesOf(k)' = SourcesOf(k)
    BY <1>1 DEF SourcesOf
  <1>5. \A n : Free(n)' <=> Free(n)
    BY <1>1 DEF Free
  <1>6. \A x : ConfigAfter(x)' = ConfigAfter(x)
    BY <1>1 DEF ConfigAfter
  <1> QED
    BY <1>1, <1>2, <1>3, <1>4, <1>5, <1>6

\* A screen has the fields that it shows.
LEMMA ShownAre ==
    ASSUME Inv, FieldsOK, PanelStill
    PROVE  /\ panel'.kind = panel.kind
           /\ panel.kind = "chat" => panel'.messages = panel.messages
           /\ panel.kind = "search" => panel'.matches = panel.matches /\ panel'.found = panel.found
           /\ panel.kind = "materials" =>
                 panel'.at.tab = panel.at.tab /\ (panel.at.tab \notin AiTabs => panel'.at.list = panel.at.list)
           /\ panel.kind = "write" => /\ panel'.list = panel.list /\ panel'.last = panel.last
                                      /\ panel'.episode = panel.episode /\ panel'.sources = panel.sources
           /\ panel.kind = "settings" =>
                 /\ panel'.tab = panel.tab /\ panel'.sys = panel.sys /\ panel'.meant = panel.meant
                 /\ panel'.users = panel.users /\ panel'.usersError = panel.usersError
                 /\ panel'.backups = panel.backups /\ panel'.usage = panel.usage
           /\ panel.kind = "dashboard" => panel'.projects = panel.projects
  <1>1. "kind" \in DOMAIN panel
    BY DEF Inv, PanelOK
  <1> QED
    BY <1>1 DEF FieldsOK, PanelStill, ShownFields

LEMMA FieldsStay ==
    ASSUME Inv, FieldsOK, PanelStill
    PROVE  FieldsOK'
  <1>1. panel'.kind = panel.kind /\ (panel.kind = "chat" => panel'.messages = panel.messages)
        /\ (panel.kind = "materials" => panel'.at.tab = panel.at.tab)
    BY ShownAre
  <1> QED
    BY <1>1 DEF FieldsOK, PanelStill

LEMMA StoreStays ==
    ASSUME Inv, FieldsOK, StoreOK, PanelStill, RowsStill
    PROVE  StoreOK'
  <1>1. /\ panel'.kind = panel.kind /\ (panel.kind = "dashboard" => panel'.projects = panel.projects)
        /\ db'.chat = db.chat /\ db'.numbers = db.numbers
    BY ShownAre, RowsAre
  <1> QED
    BY <1>1 DEF StoreOK, RowsStill, ProjectsStay

LEMMA AtHomeStays ==
    ASSUME panel'.kind = panel.kind, NEW c, AtHome(c)
    PROVE  AtHome(c)'
  BY DEF AtHome

LEMMA AnswersStay ==
    ASSUME Inv, NEW c, CallOK(db, c), c.status = "ok", AtHome(c), AboutThis(c, c.arg[c.op]), FieldsOK, PanelStill, RowsStill,
           Answers(c, c.arg[c.op], c.ans[c.op])
    PROVE  Answers(c, c.arg[c.op], c.ans[c.op])'
  <1> DEFINE x == c.arg[c.op]
             y == c.ans[c.op]
  <1>1. c.op = "chat" => panel'.messages = panel.messages
    BY ShownAre DEF AtHome, ChatOps
  <1>2. c.op = "rows" => x \in {"memos", "templates"}
    BY DEF AtHome, MaterialsOps, AboutThis, FieldsOK, Tabs, AiTabs
  <1>3. c.op \in {"create", "project", "save"} => y.id \in DOMAIN db.projects
    BY DEF CallOK, AnsOK
  <1> HIDE DEF x, y
  <1>4. Answers(c, x, y)
    BY DEF x, y
  <1>5. c.op = "rows" => db'[x] = db[x]
    BY <1>2, RowsAre
  <1>6. ASSUME c.op \in {"history", "chat", "clear", "rows", "find"} PROVE Answers(c, x, y)'
    BY <1>1, <1>4, <1>5, <1>6, RowsAre DEF Answers, Listed
  <1>7. ASSUME c.op \in {"numbers", "episodes", "sources", "system", "put", "users", "reset", "backups"} PROVE Answers(c, x, y)'
    BY <1>4, <1>7, RowsAre DEF Answers
  <1>8. ASSUME c.op \in {"projects", "create", "project", "save"} PROVE Answers(c, x, y)'
    BY <1>3, <1>4, <1>8 DEF Answers, RowsStill, ProjectsStay
  <1>9. Answers(c, x, y)'
    BY <1>6, <1>7, <1>8 DEF Answers
  <1> QED
    BY <1>9 DEF x, y

LEMMA AboutStays ==
    ASSUME Inv, NEW c, AtHome(c), AboutThis(c, c.arg[c.op]), FieldsOK, PanelStill, RowsStill
    PROVE  AboutThis(c, c.arg[c.op])'
  <1> DEFINE x == c.arg[c.op]
  <1>1. /\ c.op \in MaterialsOps => panel'.at.tab = panel.at.tab
        /\ c.op \in WriteOps => panel'.episode = panel.episode
        /\ c.op \in ChatOps => panel'.messages = panel.messages
        /\ c.op \in SettingsOps => panel'.meant = panel.meant
    BY ShownAre DEF AtHome
  <1>2. db'.chat = db.chat /\ (Free(x)' <=> Free(x)) /\ ConfigAfter(x)' = ConfigAfter(x)
    BY RowsAre
  <1> HIDE DEF x
  <1>3. AboutThis(c, x)
    BY DEF x
  <1>4. AboutThis(c, x)'
    BY <1>1, <1>2, <1>3 DEF AboutThis, MaterialsOps, WriteOps, ChatOps, SettingsOps
  <1> QED
    BY <1>4 DEF x

LEMMA FactStays ==
    ASSUME Inv, ScreenInv, NEW c \in Flight, PanelStill, RowsStill
    PROVE  Fact(c)' /\ \A p : Owes(c, p)' <=> Owes(c, p)
  <1>1. Fact(c) /\ FieldsOK /\ CallOK(db, c)
    BY FlightIs DEF ScreenInv
  <1>2. AtHome(c)' /\ AboutThis(c, c.arg[c.op])'
    BY <1>1, AboutStays, AtHomeStays, ShownAre DEF Fact
  <1>3. c.status = "ok" => Answers(c, c.arg[c.op], c.ans[c.op])'
    BY <1>1, AnswersStay DEF Fact
  <1>4. db'.admins = db.admins
    BY RowsAre
  <1>5. Fact(c)'
    BY <1>1, <1>2, <1>3, <1>4 DEF Fact
  <1>6. \A p : Owes(c, p)' <=> Owes(c, p)
    BY <1>4 DEF Owes
  <1> QED
    BY <1>5, <1>6

LEMMA RightElse ==
    ASSUME Inv, FieldsOK, NEW p \in Parts \ {"copy"}, IsRight(p), PanelStill, RowsStill
    PROVE  IsRight(p)'
  <1>1. CASE p \in {"messages", "matches", "list", "sources"}
    BY <1>1, ShownAre, RowsAre DEF IsRight
  <1>2. CASE p = "rows"
    <2>1. panel.kind = "materials" /\ panel.at.tab \notin AiTabs =>
             /\ panel.at.tab \in {"memos", "templates"} /\ panel'.at.tab = panel.at.tab
             /\ db'[panel'.at.tab] = db[panel.at.tab]
      BY ShownAre, RowsAre DEF FieldsOK, Tabs, AiTabs
    <2> QED
      BY <1>2, <2>1, ShownAre DEF IsRight
  <1>3. CASE p \in {"sys", "key", "users", "backups", "summary", "recent"}
    BY <1>3, ShownAre, RowsAre DEF IsRight
  <1> QED
    BY <1>1, <1>2, <1>3 DEF Parts

LEMMA RightStays ==
    ASSUME Inv, FieldsOK, NEW p \in Parts, IsRight(p), PanelStill, RowsStill, project' \in {project, None}
    PROVE  IsRight(p)'
  <1>1. CASE p = "copy"
    <2>1. project # None => project.id \in DOMAIN db.projects
      BY DEF Inv, PlaceOK
    <2> QED
      BY <1>1, <2>1 DEF IsRight, RowsStill, ProjectsStay
  <1> QED
    BY <1>1, RightElse

\* Nothing is shown that is not owed by a call once it was right.
LEMMA PartsStay ==
    ASSUME Inv, ScreenInv, PanelStill, RowsStill, project' \in {project, None},
           NEW G, Flight \subseteq Flight' \cup G, \A g \in G, p \in Parts : ~Owes(g, p)
    PROVE  \A p \in Parts : IsRight(p)' \/ Owed(p)'
  <1> SUFFICES ASSUME NEW p \in Parts
               PROVE  IsRight(p)' \/ Owed(p)'
    OBVIOUS
  <1>1. CASE IsRight(p)
    BY <1>1, RightStays DEF ScreenInv
  <1>2. CASE Owed(p)
    <2>1. PICK c \in Flight : Owes(c, p)
      BY <1>2 DEF Owed
    <2>2. c \in Flight'
      BY <2>1
    <2>3. Owes(c, p)'
      BY <2>1, FactStays
    <2> QED
      BY <2>2, <2>3 DEF Owed
  <1> QED
    BY <1>1, <1>2 DEF ScreenInv

LEMMA AskedStays ==
    ASSUME ScreenInv, db'.answering = db.answering, db'.chat = db.chat, authed' = "closed" => authed = "closed",
           NEW G, Flight \subseteq Flight' \cup G, \A g \in G : g.status # "asked"
    PROVE  AskedOK'
  BY DEF ScreenInv, AskedOK

\* The calls of G end and owe nothing, those of N begin that nobody waits for.
LEMMA QuietStep ==
    ASSUME Here, PanelStill, RowsStill, project' \in {project, None}, authed' = "closed" => authed = "closed", Alone',
           NEW G, NEW N, Flight' \subseteq Flight \cup N, Flight \subseteq Flight' \cup G,
           \A c \in N : Bare(c)', \A g \in G : g.status # "asked" /\ \A p \in Parts : ~Owes(g, p)
    PROVE  ScreenInv'
  <1>1. FieldsOK' /\ StoreOK'
    BY FieldsStay, StoreStays DEF Here, ScreenInv
  <1>2. AskedOK'
    BY AskedStays, RowsAre DEF Here
  <1>3. \A c \in Flight' : Fact(c)'
    BY FactStays, BareFactNext DEF Here
  <1>4. \A p \in Parts : IsRight(p)' \/ Owed(p)'
    BY PartsStay DEF Here
  <1> QED
    BY <1>1, <1>2, <1>3, <1>4 DEF ScreenInv

-----------------------------------------------------------------------------
(***************************************************************************)
(* Steps by what they do to the calls: a click, an answer that is given,   *)
(* an answer that arrives.  A screen has parts of its own; what it shows   *)
(* of others is nothing.                                                   *)
(***************************************************************************)
Own(kind) ==
    CASE kind = "chat" -> {"messages"}
      [] kind = "search" -> {"matches"}
      [] kind = "materials" -> {"rows"}
      [] kind = "write" -> {"list", "sources"}
      [] kind = "settings" -> {"sys", "key", "users", "backups", "summary", "recent"}
      [] OTHER -> {}

LEMMA OwnParts ==
    /\ Own("chat") = {"messages"} /\ Own("search") = {"matches"} /\ Own("materials") = {"rows"}
    /\ Own("write") = {"list", "sources"}
    /\ Own("settings") = {"sys", "key", "users", "backups", "summary", "recent"}
    /\ \A kind : kind \notin {"chat", "search", "materials", "write", "settings"} => Own(kind) = {}
    /\ \A kind : Own(kind) \subseteq Parts \ {"copy"}
  BY DEF Own, Parts

LEMMA Elsewhere ==
    ASSUME NEW p \in Parts \ {"copy"}, p \notin Own(panel'.kind)
    PROVE  IsRight(p)'
  BY OwnParts DEF IsRight, Parts

LEMMA CopyStays ==
    ASSUME Inv, IsRight("copy"), project' = project, ProjectsStay
    PROVE  IsRight("copy")'
  BY DEF Inv, PlaceOK, IsRight, ProjectsStay

LEMMA OwesCopy ==
    ASSUME NEW c, Owes(c, "copy")
    PROVE  c.op = "save" /\ c.status = "ok"
  BY DEF Owes

LEMMA NobodyAsked ==
    ASSUME Inv, ScreenInv, \A c \in Flight : c.status # "asked"
    PROVE  db.answering = {}
  BY DEF ScreenInv, AskedOK

LEMMA NotAsked ==
    ASSUME Inv, ScreenInv, NEW i \in DOMAIN calls, calls[i].op \in Writes, calls[i].status # "asked"
    PROVE  db.answering = {}
  <1>1. \A c \in Rest(i) : c.status # "asked"
    BY RestPassive, PassiveBare
  <1> QED
    BY <1>1, FlightIs, NobodyAsked

\* Before the step there are the calls of O beside those that nobody waits for, after
\* it those of D.
LEMMA OnlyStep ==
    ASSUME Here, NEW O, \A c \in Flight : c \in O \/ Bare(c),
           NEW D, D \subseteq Flight', \A c \in Flight' : c \in D \/ Bare(c)', \A c \in D : Fact(c)',
           \A p \in Parts : IsRight(p) \/ (\E c \in O : Owes(c, p)) => IsRight(p)' \/ \E c \in D : Owes(c, p)',
           FieldsOK', StoreOK', Alone', AskedOK'
    PROVE  ScreenInv'
  <1>1. \A c \in Flight' : Fact(c)'
    BY BareFactNext
  <1>2. ASSUME NEW p \in Parts PROVE IsRight(p)' \/ Owed(p)'
    <2>1. IsRight(p) \/ \E c \in O : Owes(c, p)
      BY BareFact DEF Here, ScreenInv, Owed
    <2>2. IsRight(p)' \/ \E c \in D : Owes(c, p)'
      BY <2>1
    <2> QED
      BY <2>2 DEF Owed
  <1> QED
    BY <1>1, <1>2 DEF ScreenInv

\* What is shown on the dashboard is right as it was.
LEMMA StoreKept ==
    ASSUME StoreOK, db' = db,
           panel'.kind = "dashboard" => panel.kind = "dashboard" /\ panel'.projects = panel.projects
    PROVE  StoreOK'
  BY DEF StoreOK

\* One who waits for every answer finds everything right when he does something.
LEMMA ClickStep ==
    ASSUME Here, calls = <<>>, NEW cs, OneByOne(cs), Send(cs), db' = db, project' = project, authed' = authed,
           FieldsOK', panel'.kind = "dashboard" => panel.kind = "dashboard" /\ panel'.projects = panel.projects,
           \A c \in ToSet(cs) : Fact(c)',
           \A p \in Own(panel'.kind) : IsRight(p) => IsRight(p)' \/ \E c \in ToSet(cs) : Owes(c, p)'
    PROVE  ScreenInv'
  <1>1. Flight = {} /\ Flight' = ToSet(cs)
    BY SetOfNone, FlightSend DEF Here, OneByOne, Flight
  <1>2. StoreOK'
    BY StoreKept DEF Here, ScreenInv
  <1>3. Alone'
    BY <1>1, AloneJoin, EmptyList DEF Here, Send, Flight
  <1>4. AskedOK'
    BY <1>1 DEF Here, ScreenInv, AskedOK
  <1>5. ASSUME NEW p \in Parts, IsRight(p) PROVE IsRight(p)' \/ \E c \in ToSet(cs) : Owes(c, p)'
    <2>1. CASE p = "copy"
      BY <1>5, <2>1, CopyStays DEF Here, ProjectsStay
    <2>2. CASE p # "copy"
      BY <1>5, <2>2, Elsewhere
    <2> QED
      BY <2>1, <2>2
  <1> DEFINE D == ToSet(cs)
  <1> HIDE DEF D
  <1>6. \A p \in Parts : IsRight(p) \/ (\E c \in Flight : Owes(c, p)) => IsRight(p)' \/ \E c \in D : Owes(c, p)'
    BY <1>1, <1>5 DEF D
  <1>7. D \subseteq Flight' /\ (\A c \in Flight' : c \in D) /\ \A c \in D : Fact(c)'
    BY <1>1 DEF D
  <1> QED
    BY <1>1, <1>2, <1>3, <1>4, <1>6, <1>7, OnlyStep

\* The server does what it was asked to change.
LEMMA WriteServedStep ==
    ASSUME Here, NEW i \in DOMAIN calls, calls[i].op \in Writes, calls[i].status = "sent",
           NEW c, calls' = [calls EXCEPT ![i] = c], c.op = calls[i].op, c.status \in {"ok", "failed"},
           panel' = panel, project' = project, authed' = authed, ProjectsStay \/ Owes(c, "copy")', db'.answering = db.answering,
           StoreOK', Fact(c)',
           \A p \in Own(panel.kind) : IsRight(p) \/ Owes(calls[i], p) => IsRight(p)' \/ Owes(c, p)'
    PROVE  ScreenInv'
  <1>1. Flight = Rest(i) \cup {calls[i]} /\ Flight' = Rest(i) \cup {c}
    BY FlightIs, FlightChange DEF Here
  <1>2. \A e \in Rest(i) : Bare(e) /\ Bare(e)'
    BY RestPassive DEF Here
  <1>3. FieldsOK' /\ Alone'
    BY AloneChange, FieldsStay, SameIsStill DEF Here, ScreenInv
  <1>4. AskedOK'
    BY NotAsked DEF Here, AskedOK
  <1>5. ASSUME NEW p \in Parts, IsRight(p) \/ Owes(calls[i], p) PROVE IsRight(p)' \/ Owes(c, p)'
    <2>1. CASE p = "copy"
      BY <1>5, <2>1, CopyStays, OwesCopy DEF Here
    <2>2. CASE p # "copy"
      BY <1>5, <2>2, Elsewhere
    <2> QED
      BY <2>1, <2>2
  <1> DEFINE O == {calls[i]}
             D == {c}
  <1>6. \A p \in Parts : IsRight(p) \/ (\E e \in O : Owes(e, p)) => IsRight(p)' \/ \E e \in D : Owes(e, p)'
    BY <1>5
  <1>7. \A e \in Flight : e \in O \/ Bare(e)
    BY <1>1, <1>2
  <1>8. D \subseteq Flight' /\ (\A e \in Flight' : e \in D \/ Bare(e)') /\ \A e \in D : Fact(e)'
    BY <1>1, <1>2
  <1> HIDE DEF D, O
  <1> QED
    BY <1>3, <1>4, <1>6, <1>7, <1>8, OnlyStep

\* What it answered arrives.
LEMMA WriteOverStep ==
    ASSUME Here, NEW i \in DOMAIN calls, calls[i].op \in Writes \ {"save"}, calls[i].status \in {"ok", "failed"},
           NEW cs, OneByOne(cs), Continue(i, cs), db' = db, project' = project, authed' = authed,
           FieldsOK', panel'.kind = "dashboard" => panel.kind = "dashboard" /\ panel'.projects = panel.projects,
           \A c \in ToSet(cs) : Fact(c)',
           \A p \in Own(panel'.kind) :
              IsRight(p) \/ Owes(calls[i], p) => IsRight(p)' \/ \E c \in ToSet(cs) : Owes(c, p)'
    PROVE  ScreenInv'
  <1>1. Flight = Rest(i) \cup {calls[i]} /\ Flight' = Rest(i) \cup ToSet(cs)
    BY FlightIs, FlightContinue DEF Here, OneByOne
  <1>2. \A e \in Rest(i) : e.op \in Passive /\ Bare(e) /\ Bare(e)'
    BY RestPassive DEF Here
  <1>3. Alone'
    <2>1. IsList(RemoveAt(calls, i)) /\ ToSet(RemoveAt(calls, i)) = Rest(i)
      BY FlightIs, RemoveList, RemoveRest DEF Here, Rest
    <2> QED
      BY <2>1, <1>2, AloneJoin DEF Continue
  <1>4. AskedOK' /\ StoreOK'
    BY NotAsked, StoreKept DEF Here, ScreenInv, AskedOK
  <1>5. ASSUME NEW p \in Parts, IsRight(p) \/ Owes(calls[i], p) PROVE IsRight(p)' \/ \E c \in ToSet(cs) : Owes(c, p)'
    <2>1. CASE p = "copy"
      BY <1>5, <2>1, CopyStays, OwesCopy DEF Here, ProjectsStay
    <2>2. CASE p # "copy"
      BY <1>5, <2>2, Elsewhere
    <2> QED
      BY <2>1, <2>2
  <1> DEFINE O == {calls[i]}
             D == ToSet(cs)
  <1>6. \A p \in Parts : IsRight(p) \/ (\E e \in O : Owes(e, p)) => IsRight(p)' \/ \E e \in D : Owes(e, p)'
    BY <1>5
  <1>7. \A e \in Flight : e \in O \/ Bare(e)
    BY <1>1, <1>2
  <1>8. D \subseteq Flight' /\ (\A e \in Flight' : e \in D \/ Bare(e)') /\ \A e \in D : Fact(e)'
    BY <1>1, <1>2
  <1> HIDE DEF D, O
  <1> QED
    BY <1>3, <1>4, <1>6, <1>7, <1>8, OnlyStep

LEMMA AnswersByOp ==
    ASSUME NEW b, NEW c, c.op = b.op, NEW x, NEW y, Answers(b, x, y)
    PROVE  Answers(c, x, y)
  BY DEF Answers

LEMMA AboutByOp ==
    ASSUME NEW b, NEW c, c.op = b.op, NEW x, AboutThis(b, x), c.status \in {"ok", "failed"}
    PROVE  AboutThis(c, x)
  BY DEF AboutThis

LEMMA SameAnswers ==
    ASSUME panel' = panel, db' = db, NEW c, NEW x, NEW y, Answers(c, x, y)
    PROVE  Answers(c, x, y)'
  <1>1. EpisodesListed' = EpisodesListed /\ SystemOut' = SystemOut /\ Listing' = Listing /\ SourcesOf(x)' = SourcesOf(x)
    BY RowsAre, SameIsStill
  <1>2. /\ c.op = "history" => y = Listed(db'.chat)
        /\ c.op = "find" => y.matches = Matches(db'.texts, x)
    BY DEF Answers
  <1>3. /\ c.op = "history" => y = Listed(db.chat)'
        /\ c.op = "find" => y.matches = Matches(db.texts, x)'
    BY <1>2 DEF Listed, Matches
  <1> QED
    BY <1>1, <1>3 DEF Answers

LEMMA SameAbout ==
    ASSUME panel' = panel, db' = db, NEW c, NEW x, AboutThis(c, x)
    PROVE  AboutThis(c, x)'
  BY DEF AboutThis, Free, ConfigAfter

LEMMA ServedFact ==
    ASSUME Here, NEW i \in DOMAIN calls, NEW y, panel' = panel, db' = db, calls[i].op # "void",
           Answers(calls[i], Arg(i), y), NEW c, c = ServedCall(calls[i], y)
    PROVE  Fact(c)'
  <1>1. /\ c.op = calls[i].op /\ c.arg = calls[i].arg /\ c.live = calls[i].live /\ c.status = "ok" /\ c.ans[c.op] = y
        /\ Arg(i) = c.arg[c.op]
    BY ServedIs, FlightIs, ArgIs DEF Here, Inv
  <1>2. AtHome(calls[i]) /\ AboutThis(calls[i], c.arg[c.op])
    BY <1>1, FlightIs DEF Here, ScreenInv, Fact
  <1>3. AtHome(c)'
    BY <1>1, <1>2 DEF AtHome
  <1>4. AboutThis(c, c.arg[c.op]) /\ Answers(c, c.arg[c.op], c.ans[c.op])
    BY <1>1, <1>2, AboutByOp, AnswersByOp
  <1>5. AboutThis(c, c.arg[c.op])'
    BY <1>4, SameAbout
  <1>6. Answers(c, c.arg[c.op], c.ans[c.op])'
    BY <1>4, SameAnswers
  <1> QED
    BY <1>1, <1>3, <1>5, <1>6 DEF Fact

\* It is asked what there is.
LEMMA ReadServedStep ==
    ASSUME Here, NEW i \in DOMAIN calls, calls[i].op \notin {"put", "chat", "void"}, calls[i].status = "sent",
           NEW y, Serve(i, y), panel' = panel, db' = db, project' = project, authed' = authed,
           Answers(calls[i], Arg(i), y)
    PROVE  ScreenInv'
  <1> DEFINE c == ServedCall(calls[i], y)
  <1>1. /\ Flight = Rest(i) \cup {calls[i]} /\ Flight' = Rest(i) \cup {c}
        /\ calls' = [calls EXCEPT ![i] = c]
        /\ c.op = calls[i].op /\ c.arg = calls[i].arg /\ c.status = "ok"
    BY FlightIs, FlightServe, ServedIs DEF Here
  <1>2. PICK b : b = c
    OBVIOUS
  <1>3. Fact(b)'
    BY <1>2, ServedFact
  <1> HIDE DEF c
  <1>4. PanelStill /\ RowsStill
    BY SameIsStill
  <1>5. Alone'
    BY <1>1, AloneChange DEF Here
  <1>6. AskedOK'
    <2>1. Flight \subseteq Flight' \cup {calls[i]} /\ \A g \in {calls[i]} : g.status # "asked"
      BY <1>1
    <2> QED
      BY <2>1, AskedStays DEF Here
  <1>7. FieldsOK' /\ StoreOK'
    BY <1>4, FieldsStay, StoreStays DEF Here, ScreenInv
  <1>8. \A e \in Flight' : Fact(e)'
    BY <1>1, <1>2, <1>3, <1>4, FactStays DEF Here
  <1>9. ASSUME NEW p \in Parts PROVE IsRight(p)' \/ Owed(p)'
    <2>1. CASE IsRight(p)
      BY <1>4, <2>1, RightStays DEF Here, ScreenInv
    <2>2. CASE Owed(p)
      <3>1. PICK e \in Flight : Owes(e, p)
        BY <2>2 DEF Owed
      <3>2. CASE e \in Rest(i)
        BY <3>1, <3>2, <1>1, <1>4, FactStays DEF Here, Owed
      <3>3. CASE e = calls[i]
        <4>1. Owes(b, p)'
          BY <3>1, <3>3, <1>1, <1>2 DEF Owes
        <4> QED
          BY <4>1, <1>1, <1>2 DEF Owed
      <3> QED
        BY <3>2, <3>3, <1>1
    <2> QED
      BY <2>1, <2>2 DEF Here, ScreenInv
  <1> QED
    BY <1>5, <1>6, <1>7, <1>8, <1>9 DEF ScreenInv

\* The facts about reading depend on a few fields only.
LEMMA ReadFactStays ==
    ASSUME Here, NEW c \in Flight, c.op \notin Writes, panel'.kind = panel.kind, db' = db,
           c.op \in MaterialsOps => panel'.at.tab = panel.at.tab,
           c.op = "sources" => panel'.episode = panel.episode
    PROVE  Fact(c)' /\ \A p : Owes(c, p)' <=> Owes(c, p)
  <1>1. Fact(c)
    BY DEF Here, ScreenInv
  <1>2. AtHome(c)'
    BY <1>1 DEF AtHome, Fact
  <1>3. AboutThis(c, c.arg[c.op])'
    <2>1. AboutThis(c, c.arg[c.op])
      BY <1>1 DEF Fact
    <2> QED
      BY <2>1 DEF AboutThis, Writes, MaterialsOps
  <1>4. Answers(c, c.arg[c.op], c.ans[c.op]) => Answers(c, c.arg[c.op], c.ans[c.op])'
    <2> SUFFICES ASSUME NEW x, NEW y, Answers(c, x, y) PROVE Answers(c, x, y)'
      OBVIOUS
    <2>1. EpisodesListed' = EpisodesListed /\ SystemOut' = SystemOut /\ Listing' = Listing /\ SourcesOf(x)' = SourcesOf(x)
      BY RowsAre, SameIsStill
    <2>2. /\ c.op = "history" => y = Listed(db'.chat)
          /\ c.op = "find" => y.matches = Matches(db'.texts, x)
      BY DEF Answers
    <2>3. /\ c.op = "history" => y = Listed(db.chat)'
          /\ c.op = "find" => y.matches = Matches(db.texts, x)'
      BY <2>2 DEF Listed, Matches
    <2>4. c.op # "chat"
      BY DEF Writes
    <2> QED
      BY <2>1, <2>3, <2>4 DEF Answers
  <1>5. Fact(c)'
    BY <1>1, <1>2, <1>3, <1>4 DEF Fact
  <1>6. \A p : Owes(c, p)' <=> Owes(c, p)
    BY DEF Owes
  <1> QED
    BY <1>5, <1>6

\* What there is arrives.
LEMMA ReadOverStep ==
    ASSUME Here, NEW i \in DOMAIN calls, calls[i].op \notin Writes \cup Passive, calls[i].status \in {"ok", "failed"},
           NEW cs, IsList(cs), Continue(i, cs), Alone', db' = db, project' = project, authed' = authed,
           panel'.kind = panel.kind, FieldsOK', StoreOK',
           panel.kind = "materials" => panel'.at.tab = panel.at.tab,
           panel.kind = "write" => calls[i].op = "episodes" \/ panel'.episode = panel.episode,
           \A c \in ToSet(cs) : Fact(c)',
           \A p \in Own(panel.kind) :
              IsRight(p) \/ Owes(calls[i], p) => IsRight(p)' \/ \E c \in ToSet(cs) : Owes(c, p)'
    PROVE  ScreenInv'
  <1>1. Flight = Rest(i) \cup {calls[i]} /\ Flight' = Rest(i) \cup ToSet(cs) /\ IsList(calls)
    BY FlightIs, FlightContinue DEF Here
  <1>2. \A e \in Flight : e.op \notin Writes /\ AtHome(e)
    BY <1>1, NoWrites DEF Here, ScreenInv, Fact
  <1>3. calls[i].op = "episodes" => \A e \in Rest(i) : e.op # "sources"
    <2>1. ASSUME calls[i].op = "episodes", NEW k \in DOMAIN calls, calls[k].op = "sources" PROVE FALSE
      <3>1. Number(calls, {"episodes", "sources"}) \in Nat /\ Number(calls, {"episodes", "sources"}) <= 1
        BY <1>1, NumberType DEF Here, ScreenInv, Alone
      <3>2. Number(calls, {"episodes", "sources"}) # 0
        BY <1>1, <2>1, NumberNone
      <3>3. Number(calls, {"episodes", "sources"}) = 1
        BY <3>1, <3>2
      <3>4. i = k
        BY <1>1, <2>1, <3>3, NumberUnique
      <3> QED
        BY <2>1, <3>4
    <2> QED
      BY <2>1 DEF Rest
  <1>4. ASSUME NEW e \in Rest(i) PROVE Fact(e)' /\ \A p : Owes(e, p)' <=> Owes(e, p)
    <2>1. e \in Flight /\ e.op \notin Writes /\ AtHome(e)
      BY <1>1, <1>2
    <2>2. e.op \in MaterialsOps => panel'.at.tab = panel.at.tab
      BY <2>1 DEF AtHome
    <2>3. e.op = "sources" => panel'.episode = panel.episode
      BY <1>3, <2>1 DEF AtHome, WriteOps
    <2> QED
      BY <2>1, <2>2, <2>3, ReadFactStays
  <1>5. AskedOK'
    <2>1. Flight \subseteq Flight' \cup {calls[i]} /\ \A g \in {calls[i]} : g.status # "asked"
      BY <1>1
    <2> QED
      BY <2>1, AskedStays DEF Here
  <1>6. ASSUME NEW p \in Parts PROVE IsRight(p)' \/ Owed(p)'
    <2>1. CASE p = "copy"
      <3>1. \A e \in Flight : ~Owes(e, p)
        BY <2>1, <1>2, OwesCopy DEF Writes
      <3>2. IsRight(p)
        BY <3>1 DEF Here, ScreenInv, Owed
      <3> QED
        BY <2>1, <3>2, CopyStays DEF Here, ProjectsStay
    <2>2. CASE p # "copy" /\ p \notin Own(panel.kind)
      BY <2>2, Elsewhere
    <2>3. CASE p \in Own(panel.kind)
      <3>1. CASE IsRight(p) \/ Owes(calls[i], p)
        BY <2>3, <3>1, <1>1 DEF Owed
      <3>2. CASE \E e \in Rest(i) : Owes(e, p)
        BY <3>2, <1>1, <1>4 DEF Owed
      <3> QED
        BY <3>1, <3>2, <1>1 DEF Here, ScreenInv, Owed
    <2> QED
      BY <2>1, <2>2, <2>3
  <1> QED
    BY <1>1, <1>4, <1>5, <1>6 DEF ScreenInv

\* Another screen takes the place of this one, beside calls that are nobody's.
LEMMA MountStep ==
    ASSUME Here, NEW r, NEW cs, IsList(r), \A c \in ToSet(r) : c \in Flight /\ c.op \in Passive,
           OneByOne(cs), calls' = Orphan(r) \o cs, db.answering = {}, db' = db, FieldsOK', StoreOK',
           \A c \in ToSet(cs) : Fact(c)',
           \A p \in Own(panel'.kind) : IsRight(p)' \/ \E c \in ToSet(cs) : Owes(c, p)',
           IsRight("copy")'
    PROVE  ScreenInv'
  <1> DEFINE o == Orphan(r)
             D == ToSet(cs)
  <1>1. IsList(o) /\ DOMAIN o = DOMAIN r
    BY MapList DEF Orphan
  <1>2. ASSUME NEW c \in ToSet(o) PROVE c.op \in Passive /\ Bare(c)'
    <2>1. PICK k \in DOMAIN r : c = [r[k] EXCEPT !.live = FALSE]
      BY <1>1 DEF ToSet, Orphan
    <2>2. r[k] \in Flight /\ r[k].op \in Passive
      BY DEF ToSet
    <2>3. DOMAIN r[k] = CallFields /\ r[k].status \in {"sent", "ok"} /\ Bare(r[k])'
      BY <2>2, PassiveBare, FlightIs DEF Here, CallOK
    <2>4. c.op = r[k].op /\ c.status = r[k].status
      BY <2>1, <2>3 DEF CallFields
    <2>5. c.op \notin Duties
      BY <2>2, <2>4, OpsApart
    <2> QED
      BY <2>2, <2>3, <2>4, <2>5 DEF Bare
  <1> HIDE DEF o
  <1>3. Flight' = ToSet(o) \cup D /\ Alone'
    <2>1. calls' = o \o cs
      BY DEF o
    <2> QED
      BY <2>1, <1>1, <1>2, AloneJoin, JoinList DEF OneByOne, Flight
  <1>4. AskedOK'
    BY DEF AskedOK
  <1>5. ASSUME NEW p \in Parts PROVE IsRight(p)' \/ \E c \in D : Owes(c, p)'
    BY Elsewhere
  <1>6. D \subseteq Flight' /\ (\A c \in Flight' : c \in D \/ Bare(c)') /\ \A c \in D : Fact(c)'
    BY <1>2, <1>3
  <1> HIDE DEF D
  <1>7. \A c \in Flight' : Fact(c)'
    BY <1>6, BareFactNext
  <1>8. \A p \in Parts : IsRight(p)' \/ Owed(p)'
    BY <1>5, <1>6 DEF Owed
  <1> QED
    BY <1>3, <1>4, <1>7, <1>8 DEF ScreenInv

-----------------------------------------------------------------------------
(***************************************************************************)
(* The same for the calls that no screen waits for to be right.            *)
(***************************************************************************)
LEMMA OwesNothing ==
    ASSUME NEW c, c.op \notin Duties
    PROVE  \A p : ~Owes(c, p)
  BY DEF Duties, AdminOps, ChatOps, SearchOps, MaterialsOps, WriteOps, SettingsOps, BoardOps, Owes

\* What else is the case in such a step.
Quiet ==
    /\ PanelStill /\ RowsStill
    /\ project' \in {project, None}
    /\ authed' = "closed" => authed = "closed"

LEMMA QuietStay ==
    ASSUME Here, Quiet, UNCHANGED calls
    PROVE  ScreenInv'
  <1>1. Alone'
    BY DEF Here, ScreenInv, Alone, Flight
  <1> DEFINE none == {}
  <1>2. Flight' \subseteq Flight \cup none /\ Flight \subseteq Flight' \cup none
    BY DEF Flight
  <1>3. (\A c \in none : Bare(c)') /\ \A g \in none : g.status # "asked" /\ \A p \in Parts : ~Owes(g, p)
    OBVIOUS
  <1> HIDE DEF none
  <1> QED
    BY <1>1, <1>2, <1>3, QuietStep DEF Quiet

LEMMA QuietServe ==
    ASSUME Here, Quiet, NEW i \in DOMAIN calls, calls[i].op \notin Duties, calls[i].status = "sent",
           NEW y, Serve(i, y) \/ (Refuse(i) /\ calls[i].op \in Refusable)
    PROVE  ScreenInv'
  <1>1. PICK c : /\ Flight' = Rest(i) \cup {c} /\ calls' = [calls EXCEPT ![i] = c] /\ c.op = calls[i].op
                 /\ c.status = "ok" \/ (c.status = "failed" /\ c.op \in Refusable)
    BY FlightIs, FlightServe, FlightRefuse, ServedIs DEF Here
  <1>2. Flight = Rest(i) \cup {calls[i]}
    BY FlightIs DEF Here
  <1>3. Alone'
    BY <1>1, AloneChange DEF Here
  <1>4. Bare(c)'
    BY <1>1 DEF Bare
  <1> DEFINE G == {calls[i]}
             N == {c}
  <1>5. Flight' \subseteq Flight \cup N /\ Flight \subseteq Flight' \cup G
    BY <1>1, <1>2
  <1>6. (\A e \in N : Bare(e)') /\ \A g \in G : g.status # "asked" /\ \A p \in Parts : ~Owes(g, p)
    BY <1>4, OwesNothing
  <1> HIDE DEF G, N
  <1> QED
    BY <1>3, <1>5, <1>6, QuietStep DEF Quiet

LEMMA QuietOver ==
    ASSUME Here, Quiet, NEW i \in DOMAIN calls, calls[i].op \notin Duties \/ (\A p \in Parts : ~Owes(calls[i], p)),
           calls[i].status # "asked", Continue(i, <<>>)
    PROVE  ScreenInv'
  <1>1. Flight = Rest(i) \cup {calls[i]} /\ Flight' = Rest(i)
    <2>1. Flight' = Rest(i) \cup ToSet(<<>>)
      BY FlightContinue, EmptyList DEF Here
    <2> QED
      BY <2>1, FlightIs, SetOfNone DEF Here
  <1>2. Alone'
    BY AloneLess DEF Here
  <1> DEFINE G == {calls[i]}
             none == {}
  <1>3. Flight' \subseteq Flight \cup none /\ Flight \subseteq Flight' \cup G
    BY <1>1
  <1>4. (\A c \in none : Bare(c)') /\ \A g \in G : g.status # "asked" /\ \A p \in Parts : ~Owes(g, p)
    BY OwesNothing
  <1> HIDE DEF G, none
  <1> QED
    BY <1>2, <1>3, <1>4, QuietStep DEF Quiet

LEMMA QuietSend ==
    ASSUME Here, Quiet, NEW cs, OneByOne(cs), \A c \in ToSet(cs) : c.op \notin Duties, Send(cs),
           calls = <<>> \/ \A c \in ToSet(cs) : c.op \in Passive
    PROVE  ScreenInv'
  <1>1. Flight' = Flight \cup ToSet(cs)
    BY FlightSend DEF Here, OneByOne
  <1>2. Alone'
    <2>1. CASE calls = <<>>
      BY <2>1, AloneJoin, EmptyList, SetOfNone DEF Send
    <2>2. CASE \A c \in ToSet(cs) : c.op \in Passive
      BY <2>2, AloneTick DEF Here, OneByOne
    <2> QED
      BY <2>1, <2>2
  <1>3. \A c \in ToSet(cs) : Bare(c)'
    BY DEF OneByOne, Bare
  <1> DEFINE N == ToSet(cs)
  <1> DEFINE none == {}
  <1>4. Flight' \subseteq Flight \cup N /\ Flight \subseteq Flight' \cup none /\ \A c \in N : Bare(c)'
    BY <1>1, <1>3
  <1>5. \A g \in none : g.status # "asked" /\ \A p \in Parts : ~Owes(g, p)
    OBVIOUS
  <1> HIDE DEF N, none
  <1> QED
    BY <1>2, <1>4, <1>5, QuietStep DEF Quiet

-----------------------------------------------------------------------------
(***************************************************************************)
(* One page of a listing: while the rows fit into it, nothing is missing.  *)
(***************************************************************************)
LEMMA ListedIs ==
    ASSUME NEW rows, IsList(rows)
    PROVE  IsList(Listed(rows)) /\ (Len(rows) <= ListLimit => Listed(rows) = rows)
  <1> DEFINE n == IF Len(rows) < ListLimit THEN Len(rows) ELSE ListLimit
             T == ToSet(rows)
             l == SubSeq(rows, 1, n)
  <1>1. rows \in Seq(T) /\ Len(rows) \in Nat /\ DOMAIN rows = 1..Len(rows)
    BY ListFacts DEF IsList
  <1>2. n \in Nat /\ n <= Len(rows) /\ (Len(rows) <= ListLimit => n = Len(rows))
    BY ListFacts, ListLimitAssumption
  <1>3. \A k \in 1..n : rows[k] \in T
    BY <1>1, <1>2 DEF ToSet
  <1>4. l \in Seq(T) /\ Len(l) = (IF 1 <= n THEN n - 1 + 1 ELSE 0) /\ \A k \in 1..n - 1 + 1 : l[k] = rows[1 + k - 1]
    <2>1. 1 \in Int /\ n \in Int
      BY <1>2
    <2> HIDE DEF n, T
    <2>2. /\ SubSeq(rows, 1, n) \in Seq(T)
          /\ Len(SubSeq(rows, 1, n)) = (IF 1 <= n THEN n - 1 + 1 ELSE 0)
          /\ \A k \in 1..n - 1 + 1 : SubSeq(rows, 1, n)[k] = rows[1 + k - 1]
      BY <2>1, <1>3, SubSeqProperties
    <2> QED
      BY <2>2
  <1> HIDE DEF n, T
  <1> HIDE DEF l
  <1>5. Len(l) = n /\ \A k \in 1..n : l[k] = rows[k]
    <2>1. Len(l) = n
      BY <1>2, <1>4
    <2>2. ASSUME NEW k \in 1..n PROVE l[k] = rows[k]
      <3>1. k \in 1..n - 1 + 1 /\ 1 + k - 1 = k
        BY <1>2
      <3> QED
        BY <3>1, <1>4
    <2> QED
      BY <2>1, <2>2
  <1>6. IsList(l)
    BY <1>4, ListIntro
  <1>7. ASSUME Len(rows) <= ListLimit PROVE l = rows
    BY <1>7, <1>1, <1>2, <1>4, <1>5, SeqEqual
  <1> QED
    BY <1>6, <1>7 DEF Listed, l, n

LEMMA IndicesWhole ==
    ASSUME NEW s, IsList(s)
    PROVE  IsFiniteSet(DOMAIN s) /\ Cardinality(DOMAIN s) = Len(s)
  <1>1. Len(s) \in Nat /\ DOMAIN s = 1..Len(s)
    BY ListFacts
  <1>2. ASSUME NEW n \in Nat PROVE IsFiniteSet(1..n) /\ Cardinality(1..n) = n
    BY FS_Interval
  <1> QED
    BY <1>1, <1>2

LEMMA IndicesFinite ==
    ASSUME NEW s, IsList(s), NEW A, A \subseteq DOMAIN s
    PROVE  IsFiniteSet(A) /\ Cardinality(A) \in Nat /\ Cardinality(A) <= Len(s)
  BY IndicesWhole, FS_Subset, FS_CardinalityType

\* The listing of the episodes.
LEMMA AllListed ==
    ASSUME IsList(db.numbers), Distinct(db.numbers), Len(db.numbers) <= ListLimit
    PROVE  EpisodesListed = DOMAIN db.numbers
  <1> SUFFICES ASSUME NEW k \in DOMAIN db.numbers
               PROVE  Cardinality({j \in DOMAIN db.numbers : Before(j, k)}) < ListLimit
    BY DEF EpisodesListed
  <1> DEFINE A == {j \in DOMAIN db.numbers : Before(j, k)}
  <1>1. Len(db.numbers) \in Nat /\ DOMAIN db.numbers = 1..Len(db.numbers)
    BY ListFacts
  <1>2. k \notin A
    BY <1>1 DEF Before, Distinct
  <1>3. IsFiniteSet(DOMAIN db.numbers) /\ Cardinality(DOMAIN db.numbers) = Len(db.numbers)
    BY <1>1, FS_Interval
  <1>4. Cardinality(A) \in Nat /\ Cardinality(A) <= Cardinality(DOMAIN db.numbers)
        /\ (Cardinality(DOMAIN db.numbers) = Cardinality(A) => DOMAIN db.numbers = A)
    <2>1. A \in SUBSET (DOMAIN db.numbers)
      OBVIOUS
    <2> HIDE DEF A
    <2> QED
      BY <2>1, <1>3, FS_Subset, FS_CardinalityType
  <1> QED
    BY <1>1, <1>2, <1>3, <1>4, ListLimitAssumption

\* There is a greatest number: the index with the fewest greater ones has none.
LEMMA GreatestNumber ==
    ASSUME NEW s, IsList(s), \A k \in DOMAIN s : s[k] \in Nat, DOMAIN s # {}
    PROVE  \E k \in DOMAIN s : \A j \in DOMAIN s : s[j] <= s[k]
  <1> DEFINE Above(k) == {j \in DOMAIN s : s[j] > s[k]}
             Counts == {Cardinality(Above(k)) : k \in DOMAIN s}
  <1>1. \A k \in DOMAIN s : IsFiniteSet(Above(k)) /\ Cardinality(Above(k)) \in Nat
    BY IndicesFinite
  <1>2. Counts \subseteq Nat /\ Counts # {}
    BY <1>1
  <1>3. PICK n \in Counts : \A m \in Counts : ~(<<m, n>> \in OpToRel(<, Nat))
    BY <1>2, NatLessThanWellFounded, WFMin
  <1>4. PICK k \in DOMAIN s : n = Cardinality(Above(k))
    OBVIOUS
  <1>5. ASSUME NEW j \in DOMAIN s, s[j] > s[k] PROVE FALSE
    <2>1. Above(j) \in SUBSET Above(k) /\ j \in Above(k) /\ j \notin Above(j)
      BY <1>5
    <2>2. IsFiniteSet(Above(k)) /\ Cardinality(Above(k)) \in Nat /\ Cardinality(Above(j)) \in Nat
      BY <1>1
    <2>3. Cardinality(Above(j)) \in Counts
      OBVIOUS
    <2> DEFINE A == Above(j)
               B == Above(k)
    <2> HIDE DEF A, B
    <2>4. Cardinality(A) <= Cardinality(B) /\ (Cardinality(B) = Cardinality(A) => B = A)
      <3>1. A \in SUBSET B /\ IsFiniteSet(B)
        BY <2>1, <2>2 DEF A, B
      <3> QED
        BY <3>1, FS_Subset
    <2>5. Cardinality(Above(j)) < Cardinality(Above(k))
      BY <2>1, <2>2, <2>4 DEF A, B
    <2> HIDE DEF Counts, Above
    <2>6. ~(<<Cardinality(Above(j)), n>> \in OpToRel(<, Nat))
      BY <1>3, <2>3
    <2> QED
      BY <1>4, <2>2, <2>5, <2>6 DEF OpToRel
  <1>6. \A j \in DOMAIN s : s[j] <= s[k]
    BY <1>5
  <1> QED
    BY <1>6

LEMMA LastNumberIs ==
    ASSUME IsList(db.numbers), Distinct(db.numbers)
    PROVE  LastNumber(DOMAIN db.numbers) \in Nat /\ \A k \in DOMAIN db.numbers : db.numbers[k] <= LastNumber(DOMAIN db.numbers)
  <1> DEFINE S == {0} \cup {db.numbers[k] : k \in DOMAIN db.numbers}
  <1>1. S \subseteq Nat
    BY DEF Distinct
  <1>2. \E m \in S : \A n \in S : m >= n
    <2>1. CASE DOMAIN db.numbers = {}
      BY <2>1
    <2>2. CASE DOMAIN db.numbers # {}
      <3>1. PICK k \in DOMAIN db.numbers : \A j \in DOMAIN db.numbers : db.numbers[j] <= db.numbers[k]
        BY <2>2, GreatestNumber DEF Distinct
      <3>2. db.numbers[k] \in S /\ db.numbers[k] \in Nat
        BY DEF Distinct
      <3>3. \A n \in S : db.numbers[k] >= n
        BY <3>1, <3>2, <1>1
      <3> QED
        BY <3>2, <3>3
    <2> QED
      BY <2>1, <2>2
  <1>3. \A k \in DOMAIN db.numbers : db.numbers[k] \in S
    OBVIOUS
  <1> HIDE DEF S
  <1>4. Max(S) \in S /\ \A n \in S : Max(S) >= n
    BY <1>2 DEF Max
  <1>5. LastNumber(DOMAIN db.numbers) = Max(S)
    BY DEF LastNumber, S
  <1> QED
    BY <1>1, <1>3, <1>4, <1>5

\* As many numbers as episodes.
LEMMA NumbersApart ==
    ASSUME NEW s, IsList(s), Distinct(s)
    PROVE  Cardinality(ToSet(s)) = Len(s)
  <1> DEFINE f == [k \in DOMAIN s |-> s[k]]
  <1>1. Len(s) \in Nat /\ DOMAIN s = 1..Len(s)
    BY ListFacts
  <1>2. IsFiniteSet(DOMAIN s) /\ Cardinality(DOMAIN s) = Len(s)
    BY <1>1, IndicesWhole
  <1>3. f \in Surjection(DOMAIN s, ToSet(s)) /\ f \in Injection(DOMAIN s, ToSet(s))
    <2>1. f \in [DOMAIN s -> ToSet(s)]
      <3>1. \A k \in DOMAIN s : s[k] \in ToSet(s)
        BY DEF ToSet
      <3> QED
        BY <3>1
    <2>2. \A t \in ToSet(s) : \E k \in DOMAIN s : f[k] = t
      BY DEF ToSet
    <2>3. \A j, k \in DOMAIN s : f[j] = f[k] => j = k
      BY DEF Distinct
    <2> HIDE DEF f
    <2> QED
      BY <2>1, <2>2, <2>3 DEF Surjection, Injection, IsInjective
  <1> HIDE DEF f
  <1>4. f \in Bijection(DOMAIN s, ToSet(s))
    BY <1>3 DEF Bijection
  <1>5. ExistsBijection(DOMAIN s, ToSet(s))
    BY <1>4 DEF ExistsBijection
  <1> QED
    BY <1>2, <1>5, FS_Bijection

-----------------------------------------------------------------------------
(***************************************************************************)
(* Handlers of one kind: what the person does, and the calls it makes.     *)
(***************************************************************************)
LEMMA CallHas ==
    ASSUME Here, NEW i \in DOMAIN calls
    PROVE  /\ calls[i] \in Flight /\ Fact(calls[i]) /\ CallOK(db, calls[i])
           /\ calls[i].op # "void" =>
                 /\ Arg(i) = calls[i].arg[calls[i].op] /\ ArgOK(db, calls[i].op, Arg(i)) /\ AboutThis(calls[i], Arg(i))
                 /\ calls[i].status = "ok" =>
                       /\ Ans(i) = calls[i].ans[calls[i].op] /\ AnsOK(db, calls[i].op, Arg(i), Ans(i))
                       /\ Answers(calls[i], Arg(i), Ans(i))
  <1>1. calls[i] \in Flight /\ Fact(calls[i]) /\ CallOK(db, calls[i])
    BY FlightIs DEF Here, ScreenInv
  <1>2. calls[i].op # "void" =>
           /\ Arg(i) = calls[i].arg[calls[i].op] /\ ArgOK(db, calls[i].op, Arg(i))
           /\ calls[i].status = "ok" => Ans(i) = calls[i].ans[calls[i].op] /\ AnsOK(db, calls[i].op, Arg(i), Ans(i))
    BY ArgIs DEF Here, Inv
  <1> QED
    BY <1>1, <1>2 DEF Fact

\* One who waits acts when nothing is in flight, so that everything is right.
LEMMA Waited ==
    ASSUME Here, NEW op, User(op)
    PROVE  /\ calls = <<>> /\ Flight = {} /\ db.answering = {} /\ acts' = acts + 1
           /\ \A p \in Parts : IsRight(p)
  <1>1. calls = <<>> /\ acts' = acts + 1
    BY DEF Here, Calm, User
  <1>2. Flight = {}
    BY <1>1, SetOfNone DEF Flight
  <1>3. db.answering = {}
    BY <1>2, NobodyAsked DEF Here
  <1> QED
    BY <1>1, <1>2, <1>3 DEF Here, ScreenInv, Owed

LEMMA FailedIs ==
    ASSUME Here, NEW i \in DOMAIN calls, calls[i].status = "failed"
    PROVE  calls[i].op \in Refusable
  BY CallHas DEF Fact

\* The operations of each screen.
HomeOps(kind) ==
    CASE kind = "chat" -> ChatOps
      [] kind = "search" -> SearchOps
      [] kind = "materials" -> MaterialsOps
      [] kind = "write" -> WriteOps
      [] kind = "settings" -> SettingsOps
      [] kind = "dashboard" -> BoardOps \cup {"projects"}
      [] OTHER -> {}

LEMMA HomeOpsAre ==
    /\ HomeOps("chat") = ChatOps /\ HomeOps("search") = SearchOps /\ HomeOps("materials") = MaterialsOps
    /\ HomeOps("write") = WriteOps /\ HomeOps("settings") = SettingsOps /\ HomeOps("dashboard") = BoardOps \cup {"projects"}
    /\ \A kind, op : op \in HomeOps(kind) =>
          /\ op \in ChatOps => kind = "chat"
          /\ op \in SearchOps => kind = "search"
          /\ op \in MaterialsOps => kind = "materials"
          /\ op \in WriteOps => kind = "write"
          /\ op \in SettingsOps => kind = "settings"
          /\ op \in BoardOps => kind = "dashboard"
          /\ op # "void"
  <1>1. /\ HomeOps("chat") = ChatOps /\ HomeOps("search") = SearchOps /\ HomeOps("materials") = MaterialsOps
        /\ HomeOps("write") = WriteOps /\ HomeOps("settings") = SettingsOps /\ HomeOps("dashboard") = BoardOps \cup {"projects"}
    BY DEF HomeOps
  <1>2. ASSUME NEW kind, NEW op \in HomeOps(kind)
        PROVE  \/ kind = "chat" /\ op \in ChatOps
               \/ kind = "search" /\ op \in SearchOps
               \/ kind = "materials" /\ op \in MaterialsOps
               \/ kind = "write" /\ op \in WriteOps
               \/ kind = "settings" /\ op \in SettingsOps
               \/ kind = "dashboard" /\ op \in BoardOps \cup {"projects"}
    BY DEF HomeOps
  <1>3. /\ "void" \notin ChatOps \cup SearchOps \cup MaterialsOps \cup WriteOps \cup SettingsOps \cup BoardOps
        /\ ChatOps \cap (SearchOps \cup MaterialsOps \cup WriteOps \cup SettingsOps \cup BoardOps \cup {"projects"}) = {}
        /\ SearchOps \cap (MaterialsOps \cup WriteOps \cup SettingsOps \cup BoardOps \cup {"projects"}) = {}
        /\ MaterialsOps \cap (WriteOps \cup SettingsOps \cup BoardOps \cup {"projects"}) = {}
        /\ WriteOps \cap (SettingsOps \cup BoardOps \cup {"projects"}) = {}
        /\ SettingsOps \cap (BoardOps \cup {"projects"}) = {}
    BY DEF AdminOps, ChatOps, SearchOps, MaterialsOps, WriteOps, SettingsOps, BoardOps
  <1> QED
    BY <1>1, <1>2, <1>3

LEMMA NewFact ==
    ASSUME NEW pw, NEW ck, NEW op, NEW x, NEW c, c = CallWith(pw, ck, op, x), op \in HomeOps(panel'.kind), AboutThis(c, x)'
    PROVE  c.op = op /\ c.status = "sent" /\ c.arg[op] = x /\ c.live = TRUE /\ Fact(c)'
  <1>1. c.op = op /\ c.status = "sent" /\ c.arg[op] = x /\ c.live = TRUE
    BY DEF CallWith, Tagged
  <1>2. AtHome(c)'
    BY <1>1, HomeOpsAre DEF AtHome
  <1> QED
    BY <1>1, <1>2 DEF Fact

LEMMA CallFact ==
    ASSUME NEW op, NEW x, NEW c, c = Call(op, x), op \in HomeOps(panel'.kind), AboutThis(c, x)'
    PROVE  c.op = op /\ c.status = "sent" /\ c.arg[op] = x /\ c.live = TRUE /\ Fact(c)'
  <1>1. c.op = op /\ c.status = "sent" /\ c.arg[op] = x /\ c.live = TRUE
    BY DEF Call, CallWith, Tagged
  <1>2. AtHome(c)'
    BY <1>1, HomeOpsAre DEF AtHome
  <1> QED
    BY <1>1, <1>2 DEF Fact

LEMMA LiveCall ==
    ASSUME NEW op, NEW x
    PROVE  [Call(op, x) EXCEPT !.live = TRUE] = Call(op, x)
  <1>1. PICK c : c = Call(op, x)
    OBVIOUS
  <1>2. c = [f \in {"op", "arg", "cred", "cookie", "live", "status", "ans"} |-> c[f]] /\ c.live = TRUE
    BY <1>1 DEF Call, CallWith
  <1>3. [c EXCEPT !.live = TRUE] = c
    BY <1>2
  <1> QED
    BY <1>1, <1>3

LEMMA OneSent ==
    ASSUME NEW c, c.status = "sent"
    PROVE  OneByOne(<<c>>) /\ ToSet(<<c>>) = {c} /\ IsList(<<c>>)
  BY OneByOneCall, SetOfOne, OneList

\* A click that changes nothing of what is shown.
LEMMA ClickStill ==
    ASSUME Here, calls = <<>>, PanelStill, db' = db, project' = project, authed' = authed,
           NEW cs, OneByOne(cs), Send(cs), \A c \in ToSet(cs) : Fact(c)'
    PROVE  ScreenInv'
  <1>1. FieldsOK' /\ panel'.kind = panel.kind /\ (panel.kind = "dashboard" => panel'.projects = panel.projects)
    BY FieldsStay, ShownAre DEF Here, ScreenInv
  <1>2. \A p \in Own(panel'.kind) : IsRight(p) => IsRight(p)'
    BY OwnParts, RightStays, SameIsStill DEF Here, ScreenInv
  <1> QED
    BY <1>1, <1>2, ClickStep

LEMMA ClickOne ==
    ASSUME Here, calls = <<>>, PanelStill, db' = db, project' = project, authed' = authed,
           NEW c, c.status = "sent", Send(<<c>>), Fact(c)'
    PROVE  ScreenInv'
  <1> DEFINE cs == <<c>>
  <1>1. OneByOne(cs) /\ Send(cs) /\ \A e \in ToSet(cs) : Fact(e)'
    BY OneSent
  <1> HIDE DEF cs
  <1> QED
    BY <1>1, ClickStill

LEMMA EffectCallsAre ==
    ASSUME NEW a
    PROVE  IsList(EffectCalls(a)) /\ \A e \in ToSet(EffectCalls(a)) : e.op \in Passive /\ e.status = "sent"
  <1>1. PICK q : q = Call("queue", acts')
    OBVIOUS
  <1>2. PICK u : u = Call("user", None)
    OBVIOUS
  <1>3. q.op \in Passive /\ q.status = "sent" /\ u.op \in Passive /\ u.status = "sent"
    BY <1>1, <1>2 DEF Call, CallWith, Passive
  <1>4. EffectCalls(a) \in {<<>>, <<q>> \o <<>>, <<q>> \o <<u>>}
    BY <1>1, <1>2 DEF EffectCalls
  <1>5. /\ IsList(<<q>>) /\ IsList(<<u>>) /\ IsList(<<>>)
        /\ ToSet(<<q>>) = {q} /\ ToSet(<<u>>) = {u} /\ ToSet(<<>>) = {}
    BY OneList, EmptyList, SetOfOne, SetOfNone
  <1>6. IsList(<<q>> \o <<>>) /\ ToSet(<<q>> \o <<>>) = {q} \cup {}
    BY <1>5, JoinList
  <1>7. IsList(<<q>> \o <<u>>) /\ ToSet(<<q>> \o <<u>>) = {q} \cup {u}
    BY <1>5, JoinList
  <1> QED
    BY <1>3, <1>4, <1>5, <1>6, <1>7

\* A click that begins a call to the AI.
LEMMA ClickBegin ==
    ASSUME Here, calls = <<>>, PanelStill, db' = db, project' = project, authed' = authed,
           NEW c, c.status = "sent", Begin(c), Fact(c)'
    PROVE  ScreenInv'
  <1>1. PICK cs : /\ IsList(cs) /\ \A e \in ToSet(cs) : e.op \in Passive /\ e.status = "sent"
                  /\ Send(<<c>> \o cs)
    BY EffectCallsAre DEF Begin
  <1> DEFINE all == <<c>> \o cs
  <1>2. OneByOne(all) /\ ToSet(all) = {c} \cup ToSet(cs) /\ Send(all)
    BY <1>1, OneByOneMore
  <1> HIDE DEF all
  <1>3. \A e \in ToSet(cs) : Bare(e)'
    BY <1>1, OpsApart DEF Bare
  <1>4. \A e \in ToSet(all) : Fact(e)'
    BY <1>2, <1>3, BareFactNext
  <1> QED
    BY <1>2, <1>4, ClickStill

\* A call that nothing on the screen waits for.
LEMMA AsideFact ==
    ASSUME NEW op, NEW x, NEW c, c = Call(op, x), op \notin Duties
    PROVE  c.op = op /\ c.status = "sent" /\ Fact(c)'
  <1>1. c.op = op /\ c.status = "sent"
    BY DEF Call, CallWith
  <1>2. Bare(c)'
    BY <1>1 DEF Bare
  <1> QED
    BY <1>1, <1>2, BareFactNext

\* Nothing of what is shown changes, nor do the rows.
LEMMA QuietHere ==
    ASSUME Inside, PanelStill, db' = db
    PROVE  Quiet
  BY SameIsStill DEF Inside, auth, place, Quiet

LEMMA NoneSent == OneByOne(<<>>) /\ ToSet(<<>>) = {} /\ IsList(<<>>)
  BY OneByOneNone, SetOfNone, EmptyList

LEMMA WriteOverNone ==
    ASSUME Here, NEW i \in DOMAIN calls, calls[i].op \in Writes \ {"save"}, calls[i].status \in {"ok", "failed"},
           Continue(i, <<>>), db' = db, project' = project, authed' = authed,
           FieldsOK', panel'.kind = "dashboard" => panel.kind = "dashboard" /\ panel'.projects = panel.projects,
           \A p \in Own(panel'.kind) : IsRight(p) \/ Owes(calls[i], p) => IsRight(p)'
    PROVE  ScreenInv'
  <1> DEFINE none == <<>>
  <1>1. OneByOne(none) /\ ToSet(none) = {} /\ Continue(i, none)
    BY NoneSent
  <1> HIDE DEF none
  <1> QED
    BY <1>1, WriteOverStep

LEMMA WriteOverOne ==
    ASSUME Here, NEW i \in DOMAIN calls, calls[i].op \in Writes \ {"save"}, calls[i].status \in {"ok", "failed"},
           NEW c, c.status = "sent", Fact(c)', Continue(i, <<c>>), db' = db, project' = project, authed' = authed,
           FieldsOK', panel'.kind = "dashboard" => panel.kind = "dashboard" /\ panel'.projects = panel.projects,
           \A p \in Own(panel'.kind) : IsRight(p) \/ Owes(calls[i], p) => IsRight(p)' \/ Owes(c, p)'
    PROVE  ScreenInv'
  <1> DEFINE cs == <<c>>
  <1>1. OneByOne(cs) /\ ToSet(cs) = {c} /\ Continue(i, cs)
    BY OneSent
  <1> HIDE DEF cs
  <1> QED
    BY <1>1, WriteOverStep

\* What was changed is loaded again.
LEMMA WriteOverStill ==
    ASSUME Here, Inside, NEW i \in DOMAIN calls, calls[i].op \in Writes \ {"save"}, calls[i].status = "ok",
           PanelStill, db' = db, NEW c, c.status = "sent", Fact(c)', Continue(i, <<c>>),
           \A p \in Own(panel.kind) : Owes(calls[i], p) => Owes(c, p)'
    PROVE  ScreenInv'
  <1>1. FieldsOK' /\ panel'.kind = panel.kind /\ (panel.kind = "dashboard" => panel'.projects = panel.projects)
    BY FieldsStay, ShownAre DEF Here, ScreenInv
  <1>2. project' = project /\ authed' = authed
    BY DEF Inside, auth, place
  <1>3. \A p \in Own(panel'.kind) : IsRight(p) => IsRight(p)'
    BY <1>1, <1>2, OwnParts, RightStays, SameIsStill DEF Here, ScreenInv
  <1> QED
    BY <1>1, <1>2, <1>3, WriteOverOne

LEMMA ReadOverNone ==
    ASSUME Here, Inside, NEW i \in DOMAIN calls, calls[i].op \notin Writes \cup Passive, calls[i].status \in {"ok", "failed"},
           Continue(i, <<>>), db' = db, panel'.kind = panel.kind, FieldsOK', StoreOK',
           panel.kind = "materials" => panel'.at.tab = panel.at.tab,
           panel.kind = "write" => calls[i].op = "episodes" \/ panel'.episode = panel.episode,
           \A p \in Own(panel.kind) : IsRight(p) \/ Owes(calls[i], p) => IsRight(p)'
    PROVE  ScreenInv'
  <1> DEFINE none == <<>>
  <1>1. IsList(none) /\ ToSet(none) = {} /\ Continue(i, none)
    BY NoneSent
  <1>2. Alone'
    BY AloneLess DEF Here
  <1>3. project' = project /\ authed' = authed
    BY DEF Inside, auth, place
  <1> HIDE DEF none
  <1> QED
    BY <1>1, <1>2, <1>3, ReadOverStep

\* The effects of the activity list send nothing but what looks on.
LEMMA EffectsAside ==
    ASSUME NEW a
    PROVE  /\ OneByOne(EffectCalls(a))
           /\ \A c \in ToSet(EffectCalls(a)) : c.op \notin Duties
  <1>1. IsList(EffectCalls(a)) /\ \A e \in ToSet(EffectCalls(a)) : e.op \in Passive /\ e.status = "sent"
    BY EffectCallsAre
  <1> DEFINE cs == EffectCalls(a)
  <1>2. IsList(cs) /\ \A e \in ToSet(cs) : e.op \in Passive /\ e.status = "sent"
    BY <1>1
  <1> HIDE DEF cs
  <1>3. \A e \in ToSet(cs) : e.op \notin Writes \cup {"episodes", "sources"} /\ e.op \notin Duties /\ e.status = "sent"
    BY <1>2, OpsApart
  <1>4. OneByOne(cs)
    BY <1>2, <1>3, OneByOneReads
  <1> QED
    BY <1>3, <1>4 DEF cs

-----------------------------------------------------------------------------
(***************************************************************************)
(* The activity list.                                                      *)
(***************************************************************************)
LEMMA ActivityScreens ==
    ASSUME Here, ActivityNext, Inside
    PROVE  ScreenInv'
  <1>1. panel' = panel /\ db' = db /\ Quiet
    BY SameIsStill, QuietHere DEF ActivityNext, ToggleQueue, Tick, ActivityServed, TickAnswered, UserAnswered, ActivityThrown
  <1>2. CASE ToggleQueue
    <2>1. PICK a : Send(EffectCalls(a))
      BY <1>2 DEF ToggleQueue
    <2>2. calls = <<>>
      BY <1>2, Waited DEF ToggleQueue
    <2> DEFINE cs == EffectCalls(a)
    <2>3. OneByOne(cs) /\ Send(cs) /\ \A c \in ToSet(cs) : c.op \notin Duties
      BY <2>1, EffectsAside
    <2> HIDE DEF cs
    <2> QED
      BY <1>1, <2>2, <2>3, QuietSend
  <1>3. CASE Tick
    <2>1. PICK c : c = Call("queue", llm.poller)
      OBVIOUS
    <2>2. c.op = "queue" /\ c.status = "sent"
      BY <2>1 DEF Call, CallWith
    <2> DEFINE cs == <<c>>
    <2>3. OneByOne(cs) /\ ToSet(cs) = {c} /\ Send(cs)
      BY <1>3, <2>1, <2>2, OneSent DEF Tick
    <2> HIDE DEF cs
    <2>4. c.op \in Passive /\ c.op \notin Duties
      BY <2>2, OpsApart DEF Passive
    <2> QED
      BY <1>1, <2>3, <2>4, QuietSend
  <1>4. ASSUME NEW i \in DOMAIN calls, ActivityServed(i) PROVE ScreenInv'
    <2>1. calls[i].op \in Passive /\ calls[i].status = "sent" /\ Serve(i, None)
      BY <1>4 DEF ActivityServed, Arrives, Passive
    <2> QED
      BY <1>1, <2>1, OpsApart, QuietServe
  <1>5. ASSUME NEW i \in DOMAIN calls, TickAnswered(i) \/ UserAnswered(i) \/ ActivityThrown(i) PROVE ScreenInv'
    <2>1. calls[i].op \in Passive /\ calls[i].status # "asked" /\ Continue(i, <<>>)
      BY <1>5 DEF TickAnswered, UserAnswered, ActivityThrown, Returned, Thrown, Passive
    <2> QED
      BY <1>1, <2>1, OpsApart, QuietOver
  <1> QED
    BY <1>2, <1>3, <1>4, <1>5 DEF ActivityNext

-----------------------------------------------------------------------------
(***************************************************************************)
(* The AI chat.                                                            *)
(***************************************************************************)
LEMMA AppendTwo ==
    ASSUME NEW m, IsList(m), NEW a, NEW b
    PROVE  Append(Append(m, a), b) = m \o <<a, b>> /\ IsList(Append(m, a)) /\ IsList(<<a, b>>)
           /\ Len(Append(m, a)) = Len(m) + 1
  <1> DEFINE T == ToSet(m) \cup {a, b}
  <1>1. m \in Seq(T) /\ a \in T /\ b \in T
    BY SeqMonotonic DEF IsList
  <1> HIDE DEF T
  <1>2. Append(Append(m, a), b) = m \o <<a, b>> /\ Len(Append(m, a)) = Len(m) + 1
    BY <1>1
  <1> QED
    BY <1>2, AppendList, TwoList

LEMMA AppendFacts ==
    ASSUME NEW m, IsList(m), NEW a
    PROVE  /\ IsList(Append(m, a)) /\ Len(Append(m, a)) = Len(m) + 1 /\ Len(m) \in Nat
           /\ ToSet(Append(m, a)) = ToSet(m) \cup {a}
  <1>1. /\ IsList(Append(m, a)) /\ DOMAIN Append(m, a) = DOMAIN m \cup {Len(m) + 1}
        /\ \A i \in DOMAIN m : Append(m, a)[i] = m[i]
        /\ Append(m, a)[Len(m) + 1] = a /\ Len(m) + 1 \notin DOMAIN m
    BY AppendList
  <1>2. ToSet(Append(m, a)) = ToSet(m) \cup {a}
    BY <1>1 DEF ToSet
  <1>3. Len(m) \in Nat
    BY ListFacts
  <1> QED
    BY <1>1, <1>2, <1>3, AppendTwo

LEMMA PairedMore ==
    ASSUME NEW m, IsList(m), Paired(m), NEW t, t.role = "assistant" => Turn("user", t.q) \in ToSet(m)
    PROVE  Paired(Append(m, t))
  <1>1. /\ Len(m) \in Nat /\ DOMAIN m = 1..Len(m)
        /\ DOMAIN Append(m, t) = DOMAIN m \cup {Len(m) + 1}
        /\ \A k \in DOMAIN m : Append(m, t)[k] = m[k]
        /\ Append(m, t)[Len(m) + 1] = t
    BY AppendList, ListFacts
  <1> SUFFICES ASSUME NEW n \in DOMAIN Append(m, t), Append(m, t)[n].role = "assistant"
               PROVE  \E k \in 1..n - 1 : Append(m, t)[k] = Turn("user", Append(m, t)[n].q)
    BY DEF Paired
  <1>2. CASE n \in DOMAIN m
    <2>1. PICK k \in 1..n - 1 : m[k] = Turn("user", m[n].q)
      BY <1>1, <1>2 DEF Paired
    <2>2. k \in DOMAIN m
      BY <1>1, <1>2
    <2> QED
      BY <1>1, <1>2, <2>1, <2>2
  <1>3. CASE n = Len(m) + 1
    <2>1. PICK k \in DOMAIN m : m[k] = Turn("user", t.q)
      BY <1>1, <1>3 DEF ToSet
    <2>2. k \in 1..n - 1
      BY <1>1, <1>3
    <2> QED
      BY <1>1, <1>3, <2>1, <2>2
  <1> QED
    BY <1>1, <1>2, <1>3

\* The rows of the chat are nobody's business but that of its own calls.
ChatOnly == DOMAIN db' = DOMAIN db /\ \A f \in DbFields \ {"chat", "answering"} : db'[f] = db[f]

LEMMA ChatApart ==
    ASSUME Inv, panel' = panel, ChatOnly, NEW c, c.op \notin ChatOps, Fact(c),
           c.op = "rows" => c.arg[c.op] \in {"memos", "templates"}
    PROVE  Fact(c)' /\ \A p : Owes(c, p)' <=> Owes(c, p)
  <1> DEFINE x == c.arg[c.op]
             y == c.ans[c.op]
  <1>1. /\ db'.texts = db.texts /\ db'.memos = db.memos /\ db'.templates = db.templates /\ db'.numbers = db.numbers
        /\ db'.sources = db.sources /\ db'.config = db.config /\ db'.users = db.users /\ db'.admins = db.admins
        /\ db'.active = db.active /\ db'.mail = db.mail /\ db'.backups = db.backups /\ db'.projects = db.projects
    BY DEF ChatOnly, DbFields
  <1>2. EpisodesListed' = EpisodesListed /\ SystemOut' = SystemOut /\ Listing' = Listing
    BY <1>1 DEF EpisodesListed, Before, SystemOut, Effective, Listing
  <1>3. c.op = "rows" => db'[x] = db[x]
    BY <1>1
  <1> HIDE DEF x, y
  <1>4. SourcesOf(x)' = SourcesOf(x) /\ (Free(x)' <=> Free(x)) /\ ConfigAfter(x)' = ConfigAfter(x)
    BY <1>1 DEF SourcesOf, Free, ConfigAfter
  <1>5. AtHome(c) /\ AboutThis(c, x) /\ (c.status = "ok" => Answers(c, x, y))
    BY DEF Fact, x, y
  <1>6. AtHome(c)' /\ AboutThis(c, x)'
    BY <1>1, <1>4, <1>5 DEF AtHome, AboutThis, ChatOps
  <1>7. ASSUME c.status = "ok" PROVE Answers(c, x, y)'
    <2>1. c.op = "find" => y.matches = Matches(db'.texts, x)
      BY <1>1, <1>5, <1>7 DEF Answers
    <2> QED
      BY <1>1, <1>2, <1>3, <1>4, <1>5, <1>7, <2>1 DEF Answers, ChatOps
  <1>8. Fact(c)'
    BY <1>1, <1>6, <1>7 DEF Fact, x, y
  <1>9. \A p : Owes(c, p)' <=> Owes(c, p)
    BY <1>1 DEF Owes
  <1> QED
    BY <1>8, <1>9

\* Where a question is asked for one who is on the screen, nothing else is owed.
LEMMA ChatAskedStep ==
    ASSUME Here, Inside, NEW i \in DOMAIN calls, ChatAsked(i)
    PROVE  ScreenInv'
  <1> DEFINE c == [calls[i] EXCEPT !.status = "asked"]
             x == Arg(i)
  <1>1. calls[i].op = "chat" /\ calls[i].status = "sent" /\ panel' = panel
    BY DEF ChatAsked, Arrives
  <1>2. /\ calls[i] \in Flight /\ Fact(calls[i]) /\ CallOK(db, calls[i]) /\ x = calls[i].arg["chat"]
    BY <1>1, CallHas DEF CallOK
  <1>3. panel.kind = "chat" /\ calls[i].live /\ DOMAIN calls[i].arg = {"chat"}
    BY <1>1, <1>2 DEF Fact, AtHome, ChatOps, CallOK
  <1>4. c.op = "chat" /\ c.status = "asked" /\ c.arg = calls[i].arg /\ c.live = calls[i].live /\ calls' = [calls EXCEPT ![i] = c]
    BY <1>1, <1>2 DEF CallOK, CallFields, ChatAsked
  <1>5. PICK b : b = c
    OBVIOUS
  <1>6. PICK z : z = x
    OBVIOUS
  <1> HIDE DEF c, x
  <1>7. /\ Flight = Rest(i) \cup {calls[i]} /\ Flight' = Rest(i) \cup {b}
        /\ \A e \in Rest(i) : e.op \in Passive /\ Bare(e) /\ Bare(e)'
    BY <1>1, <1>4, <1>5, FlightIs, FlightChange, RestPassive DEF Here, Writes
  <1>8. db.answering = {}
    BY <1>1, NotAsked DEF Here, Writes
  <1>9. db' = [db EXCEPT !.chat = Append(@, Turn("user", z)), !.answering = @ \cup {z}]
    BY <1>6 DEF ChatAsked, x
  <1>10. db'.chat = Append(db.chat, Turn("user", z)) /\ db'.answering = {z} /\ ChatOnly
    BY <1>8, <1>9 DEF Here, Inv, DbOK, DbFields, ChatOnly
  <1>11. IsRight("messages")
    <2>1. ~Owes(calls[i], "messages") /\ \A e \in Rest(i) : ~Owes(e, "messages")
      BY <1>1, <1>7, BareFact DEF Owes
    <2>2. "messages" \in Parts
      BY DEF Parts
    <2> QED
      BY <1>7, <2>1, <2>2 DEF Here, ScreenInv, Owed
  <1>12. IsList(db.chat) /\ Paired(db.chat) /\ IsList(panel.messages) /\ "messages" \in DOMAIN panel
    BY <1>3 DEF Here, ScreenInv, StoreOK, FieldsOK
  <1>13. /\ IsList(db'.chat) /\ Len(db'.chat) = Len(db.chat) + 1 /\ Len(db.chat) \in Nat
         /\ ToSet(db'.chat) = ToSet(db.chat) \cup {Turn("user", z)}
    BY <1>10, <1>12, AppendFacts
  <1>14. Fact(b)'
    <2>1. AtHome(b)'
      BY <1>1, <1>3, <1>4, <1>5 DEF AtHome, ChatOps, SearchOps, MaterialsOps, WriteOps, SettingsOps, AdminOps, BoardOps
    <2>2. Len(db'.chat) <= ListLimit => db'.chat = Append(panel.messages, Turn("user", z))
      BY <1>3, <1>10, <1>11, <1>13, ListLimitAssumption DEF IsRight
    <2>3. b.arg[b.op] = z
      BY <1>2, <1>4, <1>5, <1>6
    <2>4. AboutThis(b, z)'
      BY <1>1, <1>4, <1>5, <2>2 DEF AboutThis
    <2>5. AboutThis(b, b.arg[b.op])'
      BY <2>3, <2>4
    <2> QED
      BY <1>3, <1>4, <1>5, <2>1, <2>5 DEF Fact
  <1>15. StoreOK'
    <2>1. Paired(db'.chat)
      BY <1>10, <1>12, PairedMore DEF Turn
    <2>2. db'.numbers = db.numbers /\ db'.projects = db.projects
      BY <1>10 DEF ChatOnly, DbFields
    <2> QED
      BY <1>1, <1>13, <2>1, <2>2 DEF StoreOK, Here, ScreenInv
  <1>16. FieldsOK' /\ Alone'
    BY <1>1, <1>4, AloneChange, FieldsStay, SameIsStill DEF Here, ScreenInv
  <1>17. AskedOK'
    <2>1. authed' # "closed"
      BY <1>3 DEF Here, Inv, PlaceOK, Work, Sections, Inside, auth
    <2>2. b \in Flight' /\ b.status = "asked" /\ b.arg["chat"] = z
      BY <1>2, <1>4, <1>5, <1>6, <1>7
    <2> QED
      BY <1>10, <1>13, <2>1, <2>2 DEF AskedOK
  <1>18. ASSUME NEW p \in Parts, IsRight(p) \/ Owes(calls[i], p) PROVE IsRight(p)' \/ Owes(b, p)'
    <2>1. CASE p = "messages"
      BY <2>1, <1>4, <1>5 DEF Owes
    <2>2. CASE p = "copy"
      <3>1. ProjectsStay
        BY <1>10 DEF ChatOnly, DbFields, ProjectsStay
      <3>2. project' = project
        BY DEF Inside, place
      <3> QED
        BY <1>18, <2>2, <1>1, <3>1, <3>2, CopyStays, OwesCopy DEF Here
    <2>3. CASE p \notin {"messages", "copy"}
      BY <2>3, <1>1, <1>3, Elsewhere, OwnParts
    <2> QED
      BY <2>1, <2>2, <2>3
  <1> DEFINE O == {calls[i]}
             D == {b}
  <1>19. /\ \A p \in Parts : IsRight(p) \/ (\E e \in O : Owes(e, p)) => IsRight(p)' \/ \E e \in D : Owes(e, p)'
         /\ \A e \in Flight : e \in O \/ Bare(e)
         /\ D \subseteq Flight' /\ (\A e \in Flight' : e \in D \/ Bare(e)') /\ \A e \in D : Fact(e)'
    BY <1>7, <1>14, <1>18
  <1> HIDE DEF D, O
  <1> QED
    BY <1>15, <1>16, <1>17, <1>19, OnlyStep

\* Who asked, and that nobody else is asked about.
LEMMA Asking ==
    ASSUME Here, NEW q \in db.answering, ChatReplied(q)
    PROVE  \E i \in DOMAIN calls :
              /\ calls[i].status = "asked" /\ DOMAIN calls[i].arg = {"chat"} /\ calls[i].arg["chat"] = q
              /\ calls[i].op \in {"chat", "void"}
              /\ Serve(i, <<Turn("user", q), Turn("assistant", q)>>)
  <1> DEFINE asking == {i \in DOMAIN calls : calls[i].status = "asked" /\ Arg(i) = q}
  <1>1. PICK e \in Flight : e.status = "asked" /\ e.arg["chat"] = q
    BY DEF Here, ScreenInv, AskedOK
  <1>2. ASSUME NEW i \in DOMAIN calls, calls[i].status = "asked"
        PROVE  DOMAIN calls[i].arg = {"chat"} /\ Arg(i) = calls[i].arg["chat"] /\ calls[i].op \in {"chat", "void"}
    <2>1. Fact(calls[i]) /\ CallOK(db, calls[i])
      BY CallHas
    <2>2. DOMAIN calls[i].arg = {"chat"} /\ calls[i].op \in {"chat", "void"}
      BY <1>2, <2>1 DEF Fact, CallOK
    <2> QED
      BY <2>2 DEF Arg
  <1>3. asking # {}
    <2>1. PICK i \in DOMAIN calls : calls[i] = e
      BY <1>1, FlightIs DEF Here
    <2>2. i \in asking
      BY <1>1, <1>2, <2>1
    <2> QED
      BY <2>2
  <1>4. Turn("user", q) \in ToSet(db.chat)
    BY DEF Here, ScreenInv, AskedOK
  <1>5. PICK i \in asking : Serve(i, <<Turn("user", q), Turn("assistant", q)>>)
    BY <1>3, <1>4 DEF ChatReplied
  <1> QED
    BY <1>2, <1>5

\* The rows after an answer was committed.
LEMMA RepliedRows ==
    ASSUME Here, NEW q \in db.answering, ChatReplied(q)
    PROVE  /\ db'.chat = Append(db.chat, Turn("assistant", q)) /\ db'.answering = db.answering \ {q} /\ ChatOnly
           /\ IsList(db.chat) /\ IsList(db'.chat) /\ Len(db'.chat) = Len(db.chat) + 1 /\ Len(db.chat) \in Nat
           /\ ToSet(db.chat) \subseteq ToSet(db'.chat)
           /\ StoreOK' /\ FieldsOK' /\ ProjectsStay
  <1>1. panel' = panel /\ db' = [db EXCEPT !.chat = Append(@, Turn("assistant", q)), !.answering = @ \ {q}]
    BY DEF ChatReplied
  <1>2. db'.chat = Append(db.chat, Turn("assistant", q)) /\ db'.answering = db.answering \ {q} /\ ChatOnly
    BY <1>1 DEF Here, Inv, DbOK, DbFields, ChatOnly
  <1>3. IsList(db.chat) /\ Paired(db.chat) /\ Turn("user", q) \in ToSet(db.chat)
    BY DEF Here, ScreenInv, StoreOK, AskedOK
  <1>4. /\ IsList(db'.chat) /\ Len(db'.chat) = Len(db.chat) + 1 /\ Len(db.chat) \in Nat
        /\ ToSet(db.chat) \subseteq ToSet(db'.chat)
    BY <1>2, <1>3, AppendFacts
  <1>5. Turn("assistant", q).role = "assistant" /\ Turn("assistant", q).q = q
    BY DEF Turn
  <1>6. Paired(db'.chat)
    BY <1>2, <1>3, <1>5, PairedMore
  <1>7. db'.numbers = db.numbers /\ db'.projects = db.projects
    BY <1>2 DEF ChatOnly, DbFields
  <1>8. StoreOK'
    BY <1>1, <1>4, <1>6, <1>7 DEF StoreOK, Here, ScreenInv
  <1>9. FieldsOK'
    BY <1>1, FieldsStay, SameIsStill DEF Here, ScreenInv
  <1> QED
    BY <1>2, <1>3, <1>4, <1>7, <1>8, <1>9 DEF ProjectsStay

LEMMA RepliedToScreen ==
    ASSUME Here, Inside, NEW q \in db.answering, ChatReplied(q), NEW i \in DOMAIN calls,
           calls[i].status = "asked", calls[i].op = "chat", calls[i].arg["chat"] = q,
           Serve(i, <<Turn("user", q), Turn("assistant", q)>>)
    PROVE  ScreenInv'
  <1> DEFINE y == <<Turn("user", q), Turn("assistant", q)>>
             c == ServedCall(calls[i], y)
  <1>1. /\ db'.chat = Append(db.chat, Turn("assistant", q)) /\ db'.answering = db.answering \ {q} /\ ChatOnly
        /\ IsList(db.chat) /\ IsList(db'.chat) /\ Len(db'.chat) = Len(db.chat) + 1 /\ Len(db.chat) \in Nat
        /\ StoreOK' /\ FieldsOK' /\ ProjectsStay
    BY RepliedRows
  <1>2. Fact(calls[i]) /\ CallOK(db, calls[i])
    BY CallHas
  <1>3. panel.kind = "chat" /\ calls[i].live /\ panel' = panel /\ IsList(panel.messages)
    BY <1>2 DEF Fact, AtHome, ChatOps, ChatReplied, Here, ScreenInv, FieldsOK
  <1>4. /\ calls' = [calls EXCEPT ![i] = c] /\ c.op = "chat" /\ c.status = "ok" /\ c.arg = calls[i].arg
        /\ c.live = calls[i].live /\ c.ans["chat"] = y
    BY <1>2, FlightServe, ServedIs DEF Here
  <1>5. PICK b : b = c
    OBVIOUS
  <1> HIDE DEF c
  <1>6. /\ Flight = Rest(i) \cup {calls[i]} /\ Flight' = Rest(i) \cup {b}
        /\ \A e \in Rest(i) : e \in Flight /\ e.op \in Passive /\ Bare(e) /\ Bare(e)'
    BY <1>4, <1>5, FlightIs, FlightChange, RestPassive DEF Here, Writes
  <1>7. db.answering = {q}
    <2>1. ASSUME NEW a \in db.answering PROVE a = q
      <3>1. PICK e \in Flight : e.status = "asked" /\ e.arg["chat"] = a
        BY DEF Here, ScreenInv, AskedOK
      <3>2. e \notin Rest(i)
        BY <1>6, <3>1, PassiveBare DEF Here
      <3> QED
        BY <1>6, <3>1, <3>2
    <2> QED
      BY <2>1
  <1>8. Fact(b)'
    <2>1. AtHome(b)'
      BY <1>3, <1>4, <1>5 DEF AtHome, ChatOps, SearchOps, MaterialsOps, WriteOps, SettingsOps, AdminOps, BoardOps
    <2>2. AboutThis(b, b.arg[b.op])'
      BY <1>4, <1>5 DEF AboutThis
    <2>3. Len(db.chat) <= ListLimit => db.chat = Append(panel.messages, Turn("user", q))
      BY <1>2 DEF Fact, AboutThis
    <2>4. Append(Append(panel.messages, Turn("user", q)), Turn("assistant", q)) = panel.messages \o y /\ IsList(y)
      BY <1>3, AppendTwo
    <2> HIDE DEF y
    <2>5. ASSUME Len(db'.chat) <= ListLimit PROVE db'.chat = panel.messages \o y
      <3>1. Len(db'.chat) = Len(db.chat) + 1 /\ Len(db.chat) \in Nat /\ ListLimit \in Nat
        BY <1>1, ListLimitAssumption
      <3>2. Len(db.chat) <= ListLimit
        BY <3>1, <2>5
      <3>3. db.chat = Append(panel.messages, Turn("user", q))
        BY <3>2, <2>3
      <3>4. db'.chat = Append(Append(panel.messages, Turn("user", q)), Turn("assistant", q))
        BY <1>1, <3>3
      <3> QED
        BY <3>4, <2>4
    <2>6. b.ans[b.op] = y /\ b.op = "chat"
      BY <1>4, <1>5
    <2>7. Answers(b, b.arg[b.op], y)'
      BY <1>3, <2>4, <2>5, <2>6 DEF Answers
    <2>8. Answers(b, b.arg[b.op], b.ans[b.op])'
      BY <2>6, <2>7
    <2> QED
      BY <1>4, <1>5, <2>1, <2>2, <2>8 DEF Fact
  <1>9. Alone' /\ AskedOK'
    BY <1>1, <1>4, <1>7, AloneChange DEF Here, AskedOK
  <1>10. ASSUME NEW p \in Parts, IsRight(p) \/ Owes(calls[i], p) PROVE IsRight(p)' \/ Owes(b, p)'
    <2>1. CASE p = "messages"
      BY <2>1, <1>4, <1>5 DEF Owes
    <2>2. CASE p = "copy"
      <3>1. project' = project
        BY DEF Inside, place
      <3> QED
        BY <1>10, <2>2, <1>1, <3>1, CopyStays, OwesCopy DEF Here
    <2>3. CASE p \notin {"messages", "copy"}
      BY <2>3, <1>3, Elsewhere, OwnParts
    <2> QED
      BY <2>1, <2>2, <2>3
  <1> DEFINE O == {calls[i]}
             D == {b}
  <1>11. /\ \A p \in Parts : IsRight(p) \/ (\E e \in O : Owes(e, p)) => IsRight(p)' \/ \E e \in D : Owes(e, p)'
         /\ \A e \in Flight : e \in O \/ Bare(e)
         /\ D \subseteq Flight' /\ (\A e \in Flight' : e \in D \/ Bare(e)') /\ \A e \in D : Fact(e)'
    BY <1>6, <1>8, <1>10
  <1> HIDE DEF D, O
  <1> QED
    BY <1>1, <1>9, <1>11, OnlyStep

\* One who has left before is not shown the answer.
LEMMA RepliedToNobody ==
    ASSUME Here, Inside, NEW q \in db.answering, ChatReplied(q), NEW i \in DOMAIN calls,
           calls[i].status = "asked", calls[i].op = "void", calls[i].arg["chat"] = q, DOMAIN calls[i].arg = {"chat"},
           Serve(i, <<Turn("user", q), Turn("assistant", q)>>)
    PROVE  ScreenInv'
  <1> DEFINE y == <<Turn("user", q), Turn("assistant", q)>>
             c == ServedCall(calls[i], y)
  <1>1. /\ db'.chat = Append(db.chat, Turn("assistant", q)) /\ db'.answering = db.answering \ {q} /\ ChatOnly
        /\ ToSet(db.chat) \subseteq ToSet(db'.chat) /\ StoreOK' /\ FieldsOK' /\ ProjectsStay
    BY RepliedRows
  <1>2. Fact(calls[i]) /\ CallOK(db, calls[i]) /\ calls[i] \in Flight
    BY CallHas
  <1>3. panel.kind # "chat" /\ panel' = panel
    BY <1>2 DEF Fact, AtHome, ChatReplied
  <1>4. calls' = [calls EXCEPT ![i] = c] /\ c.op = "void" /\ c.status = "ok"
    BY <1>2, FlightServe, ServedIs DEF Here
  <1>5. PICK b : b = c
    OBVIOUS
  <1> HIDE DEF c, y
  <1>6. Flight = Rest(i) \cup {calls[i]} /\ Flight' = Rest(i) \cup {b}
    BY <1>4, <1>5, FlightIs, FlightChange DEF Here
  <1>7. ASSUME NEW e \in Rest(i) PROVE Fact(e)' /\ \A p : Owes(e, p)' <=> Owes(e, p)
    <2>1. e \in Flight /\ Fact(e) /\ CallOK(db, e)
      BY <1>6, FlightIs DEF Here, ScreenInv
    <2>2. e.op \notin ChatOps
      BY <1>2, <2>1 DEF Here, ScreenInv, Alone, ChatOps, Writes
    <2>3. e.op = "rows" => e.arg[e.op] \in {"memos", "templates"}
      BY <2>1 DEF Fact, AtHome, AboutThis, MaterialsOps, Here, ScreenInv, FieldsOK, Tabs, AiTabs
    <2> QED
      BY <1>1, <1>3, <2>1, <2>2, <2>3, ChatApart DEF Here
  <1>8. Fact(b)' /\ \A p : ~Owes(calls[i], p)
    <2>1. Bare(b)' /\ calls[i].op \notin Duties
      BY <1>4, <1>5, OpsApart DEF Bare
    <2> QED
      BY <2>1, BareFactNext, OwesNothing
  <1>9. Alone'
    BY <1>4, AloneChange DEF Here
  <1>10. AskedOK'
    <2>1. ASSUME NEW a \in db'.answering
          PROVE  Turn("user", a) \in ToSet(db'.chat) /\ \E e \in Flight' : e.status = "asked" /\ e.arg["chat"] = a
      <3>1. a \in db.answering /\ a # q
        BY <1>1
      <3>2. Turn("user", a) \in ToSet(db.chat)
        BY <3>1 DEF Here, ScreenInv, AskedOK
      <3>3. PICK e \in Flight : e.status = "asked" /\ e.arg["chat"] = a
        BY <3>1 DEF Here, ScreenInv, AskedOK
      <3>4. e \in Rest(i)
        BY <1>6, <3>1, <3>3
      <3> QED
        BY <1>1, <1>6, <3>2, <3>3, <3>4
    <2>2. authed' = "closed" => db'.answering = {}
      BY <1>1 DEF Here, ScreenInv, AskedOK, Inside, auth
    <2> QED
      BY <2>1, <2>2 DEF AskedOK
  <1>11. ASSUME NEW p \in Parts PROVE IsRight(p)' \/ Owed(p)'
    <2>1. CASE \E e \in Flight : Owes(e, p)
      BY <2>1, <1>6, <1>7, <1>8 DEF Owed
    <2>2. CASE IsRight(p)
      <3>1. /\ db'.texts = db.texts /\ db'.memos = db.memos /\ db'.templates = db.templates /\ db'.numbers = db.numbers
            /\ db'.sources = db.sources /\ db'.config = db.config /\ db'.users = db.users /\ db'.admins = db.admins
            /\ db'.active = db.active /\ db'.mail = db.mail /\ db'.backups = db.backups
        BY <1>1 DEF ChatOnly, DbFields
      <3>2. CASE p = "copy"
        BY <2>2, <3>2, <1>1, CopyStays DEF Here, Inside, place
      <3>3. CASE p = "messages"
        BY <3>3, <1>3 DEF IsRight
      <3>4. CASE p = "rows"
        <4>1. panel.kind = "materials" => panel.at.tab \in Tabs
          BY DEF Here, ScreenInv, FieldsOK
        <4>2. panel.kind = "materials" /\ panel.at.tab \notin AiTabs => db'[panel.at.tab] = db[panel.at.tab]
          BY <3>1, <4>1 DEF Tabs, AiTabs
        <4> QED
          BY <2>2, <3>4, <4>2, <1>3 DEF IsRight
      <3>5. SystemOut' = SystemOut /\ Listing' = Listing /\ \A k : SourcesOf(k)' = SourcesOf(k)
        BY <3>1 DEF SystemOut, Effective, Listing, SourcesOf
      <3>6. CASE p \in {"matches", "list", "sources"}
        BY <2>2, <3>1, <3>5, <3>6, <1>3 DEF IsRight
      <3>7. CASE p \in {"sys", "key", "users", "backups", "summary", "recent"}
        BY <2>2, <3>1, <3>5, <3>7, <1>3 DEF IsRight
      <3> QED
        BY <3>2, <3>3, <3>4, <3>6, <3>7 DEF Parts
    <2> QED
      BY <2>1, <2>2 DEF Here, ScreenInv, Owed
  <1>12. \A e \in Flight' : Fact(e)'
    BY <1>6, <1>7, <1>8
  <1> QED
    BY <1>1, <1>9, <1>10, <1>11, <1>12 DEF ScreenInv

LEMMA ChatClicks ==
    ASSUME Here, Inside, TypeQuestion \/ SendQuestion \/ Clear
    PROVE  ScreenInv'
  <1>1. PanelStill /\ db' = db
    BY DEF PanelStill, ShownFields, TypeQuestion, SendQuestion, Clear
  <1>2. calls = <<>> /\ panel'.kind = "chat" /\ project' = project /\ authed' = authed
    BY <1>1, Waited, ShownAre DEF TypeQuestion, SendQuestion, Clear, OnChat, Inside, auth, place, Here, ScreenInv
  <1>3. CASE TypeQuestion
    BY <1>1, <1>3, QuietHere, QuietStay DEF TypeQuestion
  <1>4. CASE SendQuestion
    <2>1. PICK n : n = acts'
      OBVIOUS
    <2>2. PICK c : c = Call("chat", n)
      OBVIOUS
    <2>3. Begin(c)
      BY <1>4, <2>1, <2>2 DEF SendQuestion
    <2>4. AboutThis(c, n)' /\ "chat" \in HomeOps(panel'.kind)
      BY <1>2, <2>2, HomeOpsAre DEF AboutThis, ChatOps, Call, CallWith
    <2>5. Fact(c)' /\ c.status = "sent"
      BY <2>2, <2>4, CallFact
    <2> QED
      BY <1>1, <1>2, <2>3, <2>5, ClickBegin
  <1>5. CASE Clear
    <2>1. PICK c : c = Call("clear", None)
      OBVIOUS
    <2>2. Send(<<c>>)
      BY <1>5, <2>1 DEF Clear
    <2>3. AboutThis(c, None)' /\ "clear" \in HomeOps(panel'.kind)
      BY <1>2, <2>1, HomeOpsAre DEF AboutThis, ChatOps, Call, CallWith
    <2>4. Fact(c)' /\ c.status = "sent"
      BY <2>1, <2>3, CallFact
    <2> QED
      BY <1>1, <1>2, <2>2, <2>4, ClickOne
  <1> QED
    BY <1>3, <1>4, <1>5

LEMMA ClearServedStep ==
    ASSUME Here, Inside, NEW i \in DOMAIN calls, ClearServed(i)
    PROVE  ScreenInv'
  <1> DEFINE c == ServedCall(calls[i], None)
  <1>1. /\ calls[i].op = "clear" /\ calls[i].status = "sent" /\ panel' = panel
        /\ db' = [db EXCEPT !.chat = <<>>] /\ Serve(i, None)
    BY DEF ClearServed, Arrives
  <1>2. Fact(calls[i]) /\ CallOK(db, calls[i])
    BY CallHas
  <1>3. panel.kind = "chat" /\ calls[i].live
    BY <1>1, <1>2 DEF Fact, AtHome, ChatOps
  <1>4. calls' = [calls EXCEPT ![i] = c] /\ c.op = "clear" /\ c.status = "ok" /\ c.live = calls[i].live
    BY <1>1, <1>2, FlightServe, ServedIs DEF Here
  <1>5. PICK b : b = c
    OBVIOUS
  <1> HIDE DEF c
  <1>6. db'.chat = <<>> /\ db'.answering = db.answering /\ db'.numbers = db.numbers /\ db'.projects = db.projects
    BY <1>1 DEF Here, Inv, DbOK, DbFields
  <1>7. ProjectsStay /\ StoreOK'
    <2>1. IsList(db'.chat) /\ Paired(db'.chat)
      BY <1>6, EmptyList DEF Paired
    <2> QED
      BY <1>1, <1>6, <2>1 DEF ProjectsStay, StoreOK, Here, ScreenInv
  <1>8. Fact(b)'
    <2>1. AtHome(b)'
      BY <1>1, <1>3, <1>4, <1>5 DEF AtHome, ChatOps, SearchOps, MaterialsOps, WriteOps, SettingsOps, AdminOps, BoardOps
    <2>2. AboutThis(b, b.arg[b.op])' /\ Answers(b, b.arg[b.op], b.ans[b.op])'
      BY <1>4, <1>5, <1>6 DEF AboutThis, Answers
    <2> QED
      BY <1>4, <1>5, <2>1, <2>2 DEF Fact
  <1>9. \A p \in Own(panel.kind) : Owes(b, p)'
    BY <1>3, <1>4, <1>5, OwnParts DEF Owes
  <1>10. project' = project /\ authed' = authed
    BY DEF Inside, auth, place
  <1> QED
    BY <1>1, <1>4, <1>5, <1>6, <1>7, <1>8, <1>9, <1>10, WriteServedStep DEF Writes

LEMMA ChatAnswers ==
    ASSUME Here, Inside, NEW i \in DOMAIN calls, HistoryLoaded(i) \/ ChatOver(i) \/ Cleared(i)
    PROVE  ScreenInv'
  <1>1. /\ calls[i].op \in ChatOps /\ calls[i].status = "ok" /\ Continue(i, <<>>) /\ db' = db
        /\ calls[i].op # "void"
    BY FailedIs DEF HistoryLoaded, ChatOver, Cleared, Returned, Thrown, ChatOps, Refusable, AdminOps
  <1>2. Fact(calls[i]) /\ Answers(calls[i], Arg(i), Ans(i))
    BY <1>1, CallHas
  <1>3. panel.kind = "chat" /\ calls[i].live
    BY <1>1, <1>2 DEF Fact, AtHome
  <1>4. "messages" \in DOMAIN panel /\ IsList(panel.messages) /\ IsList(db.chat) /\ "kind" \in DOMAIN panel
    BY <1>3 DEF Here, ScreenInv, FieldsOK, StoreOK, Inv, PanelOK
  <1>5. /\ DOMAIN panel' = DOMAIN panel /\ panel'.kind = "chat"
        /\ calls[i].op = "history" => panel'.messages = Ans(i)
        /\ calls[i].op = "chat" => panel'.messages = panel.messages \o Ans(i)
        /\ calls[i].op = "clear" => panel'.messages = <<>>
    BY <1>1, <1>3, <1>4 DEF HistoryLoaded, ChatOver, Cleared, Returned, Thrown
  <1>6. IsList(panel'.messages) /\ (Len(db.chat) <= ListLimit => panel'.messages = db.chat)
    <2>1. CASE calls[i].op = "history"
      BY <2>1, <1>2, <1>4, <1>5, ListedIs DEF Answers
    <2>2. CASE calls[i].op = "chat"
      BY <2>2, <1>2, <1>4, <1>5, JoinList DEF Answers
    <2>3. CASE calls[i].op = "clear"
      BY <2>3, <1>2, <1>5, EmptyList DEF Answers
    <2> QED
      BY <1>1, <2>1, <2>2, <2>3 DEF ChatOps
  <1>7. FieldsOK' /\ StoreOK'
    BY <1>1, <1>4, <1>5, <1>6, StoreKept DEF FieldsOK, Here, ScreenInv
  <1>8. \A p \in Own(panel'.kind) : IsRight(p)'
    BY <1>1, <1>5, <1>6, OwnParts DEF IsRight
  <1>9. project' = project /\ authed' = authed
    BY DEF Inside, auth, place
  <1>10. CASE calls[i].op = "history"
    BY <1>1, <1>3, <1>5, <1>7, <1>8, <1>10, ReadOverNone DEF Writes, Passive, AdminOps
  <1>11. CASE calls[i].op \in {"chat", "clear"}
    BY <1>1, <1>5, <1>7, <1>8, <1>9, <1>11, WriteOverNone DEF Writes
  <1> QED
    BY <1>1, <1>10, <1>11 DEF ChatOps

LEMMA ChatScreens ==
    ASSUME Here, ChatNext, Inside
    PROVE  ScreenInv'
  <1>1. ~Restart
    BY DEF Restart, Here, Calm
  <1>2. ASSUME NEW q \in db.answering, ChatReplied(q) PROVE ScreenInv'
    BY <1>2, Asking, RepliedToScreen, RepliedToNobody
  <1>3. ASSUME NEW i \in DOMAIN calls, HistoryServed(i) PROVE ScreenInv'
    <2>1. /\ calls[i].op = "history" /\ calls[i].status = "sent" /\ Serve(i, Listed(db.chat))
          /\ panel' = panel /\ db' = db /\ project' = project /\ authed' = authed
      BY <1>3 DEF HistoryServed, Arrives, Inside, auth, place
    <2>2. Answers(calls[i], Arg(i), Listed(db.chat))
      BY <2>1 DEF Answers
    <2> QED
      BY <2>1, <2>2, ReadServedStep
  <1>4. ASSUME NEW i \in DOMAIN calls PROVE ~ChatThrown(i)
    BY FailedIs DEF ChatThrown, Thrown, Refusable, AdminOps
  <1> QED
    BY <1>1, <1>2, <1>3, <1>4, ChatClicks, ChatAskedStep, ClearServedStep, ChatAnswers DEF ChatNext

-----------------------------------------------------------------------------
(***************************************************************************)
(* More of what handlers have in common.                                   *)
(***************************************************************************)
\* Requests about which nothing has to be so.
LEMMA PlainAbout ==
    ASSUME NEW op, op \notin {"rows", "add", "remove", "keep", "sources", "source", "unsource", "article", "new article",
                              "put", "usage"},
           NEW c, c.op = op, c.status # "asked", NEW x
    PROVE  AboutThis(c, x) /\ AboutThis(c, x)'
  BY DEF AboutThis

\* A click that sends a request of the screen.
LEMMA ClickCall ==
    ASSUME Here, Inside, calls = <<>>, PanelStill, db' = db,
           NEW op, NEW x, NEW c, c = Call(op, x), Send(<<c>>), op \in HomeOps(panel'.kind), AboutThis(c, x)'
    PROVE  ScreenInv'
  BY CallFact, ClickOne DEF Inside, auth, place

\* A click that sends a request which nothing on the screen waits for.
LEMMA ClickAside ==
    ASSUME Here, Quiet, calls = <<>>, NEW op, NEW x, op \notin Duties, Send(<<Call(op, x)>>)
    PROVE  ScreenInv'
  <1>1. PICK c : c = Call(op, x)
    OBVIOUS
  <1>2. c.op = op /\ c.status = "sent"
    BY <1>1 DEF Call, CallWith
  <1> DEFINE cs == <<c>>
  <1>3. OneByOne(cs) /\ ToSet(cs) = {c} /\ Send(cs)
    BY <1>1, <1>2, OneSent
  <1> HIDE DEF cs
  <1> QED
    BY <1>2, <1>3, QuietSend

\* A call that was served, and the facts about what it was answered.
LEMMA WrittenFact ==
    ASSUME Here, NEW i \in DOMAIN calls, calls[i].op # "void", NEW y, Serve(i, y), panel' = panel,
           NEW c, c = ServedCall(calls[i], y), NEW x, x = Arg(i), AboutThis(c, x)', Answers(c, x, y)'
    PROVE  calls' = [calls EXCEPT ![i] = c] /\ c.op = calls[i].op /\ c.status = "ok" /\ c.arg = calls[i].arg /\ Fact(c)'
  <1>1. /\ calls' = [calls EXCEPT ![i] = c] /\ c.op = calls[i].op /\ c.arg = calls[i].arg /\ c.live = calls[i].live
        /\ c.status = "ok" /\ c.ans[c.op] = y /\ c.arg[c.op] = x
    BY FlightServe, ServedIs, FlightIs, ArgIs DEF Here, Inv
  <1>2. AtHome(c)'
    BY <1>1, CallHas DEF Fact, AtHome
  <1>3. AboutThis(c, c.arg[c.op])' /\ Answers(c, c.arg[c.op], c.ans[c.op])'
    BY <1>1
  <1> QED
    BY <1>1, <1>2, <1>3 DEF Fact

LEMMA StoreOther ==
    ASSUME StoreOK, panel' = panel, db'.chat = db.chat, db'.numbers = db.numbers, db'.projects = db.projects
    PROVE  StoreOK' /\ ProjectsStay
  BY DEF StoreOK, ProjectsStay

LEMMA InsideSame ==
    ASSUME Inside
    PROVE  project' = project /\ authed' = authed /\ section' = section
  BY DEF Inside, auth, place

-----------------------------------------------------------------------------
(***************************************************************************)
(* The search screen.                                                      *)
(***************************************************************************)
LEMMA SearchClicks ==
    ASSUME Here, Inside, ChangeSearch \/ Search \/ FindAll \/ ReplaceFound \/ \E k \in DOMAIN db.texts : Toggle(k)
    PROVE  ScreenInv'
  <1>1. PanelStill /\ db' = db /\ panel.kind = "search"
    BY DEF PanelStill, ShownFields, ChangeSearch, Search, FindAll, ReplaceFound, Toggle, OnSearch
  <1>2. calls = <<>> /\ panel'.kind = "search" /\ Quiet
    BY <1>1, Waited, ShownAre, QuietHere DEF ChangeSearch, Search, FindAll, ReplaceFound, Toggle, Here, ScreenInv
  <1>3. CASE ChangeSearch \/ \E k \in DOMAIN db.texts : Toggle(k)
    BY <1>2, <1>3, QuietStay DEF ChangeSearch, Toggle
  <1>4. CASE Search
    <2>1. Send(<<Call("search", panel.all)>>) \/ Send(<<Call("reindex", None)>>)
      BY <1>4 DEF Search
    <2>2. "search" \notin Duties /\ "reindex" \notin Duties
      BY DEF Duties, AdminOps, ChatOps, SearchOps, MaterialsOps, WriteOps, SettingsOps, BoardOps
    <2> QED
      BY <1>2, <2>1, <2>2, ClickAside
  <1>5. CASE FindAll
    <2>1. PICK x : Send(<<Call("find", x)>>)
      BY <1>5 DEF FindAll
    <2>2. PICK c : c = Call("find", x)
      OBVIOUS
    <2>3. AboutThis(c, x)' /\ "find" \in HomeOps(panel'.kind)
      BY <1>2, <2>2, PlainAbout, HomeOpsAre DEF SearchOps, Call, CallWith
    <2> QED
      BY <1>1, <1>2, <2>1, <2>2, <2>3, ClickCall
  <1>6. CASE ReplaceFound
    <2>1. PICK x : Send(<<Call("replace", x)>>)
      BY <1>6 DEF ReplaceFound
    <2>2. PICK c : c = Call("replace", x)
      OBVIOUS
    <2>3. AboutThis(c, x)' /\ "replace" \in HomeOps(panel'.kind)
      BY <1>2, <2>2, PlainAbout, HomeOpsAre DEF SearchOps, Call, CallWith
    <2> QED
      BY <1>1, <1>2, <2>1, <2>2, <2>3, ClickCall
  <1> QED
    BY <1>3, <1>4, <1>5, <1>6

LEMMA ReplaceServedStep ==
    ASSUME Here, Inside, NEW i \in DOMAIN calls, ReplaceServed(i)
    PROVE  ScreenInv'
  <1>1. calls[i].op = "replace" /\ calls[i].status = "sent" /\ panel' = panel /\ Serve(i, None)
    BY DEF ReplaceServed, Arrives
  <1>2. /\ db'.chat = db.chat /\ db'.numbers = db.numbers /\ db'.projects = db.projects /\ db'.answering = db.answering
    BY DEF ReplaceServed
  <1>3. PICK c : c = ServedCall(calls[i], None)
    OBVIOUS
  <1>4. PICK x : x = Arg(i)
    OBVIOUS
  <1>5. c.op = "replace" /\ c.status = "ok"
    BY <1>1, <1>3, CallHas, ServedIs
  <1>6. AboutThis(c, x)' /\ Answers(c, x, None)'
    BY <1>5 DEF AboutThis, Answers
  <1>7. calls' = [calls EXCEPT ![i] = c] /\ Fact(c)'
    BY <1>1, <1>3, <1>4, <1>6, WrittenFact
  <1>8. panel.kind = "search"
    BY <1>1, CallHas DEF Fact, AtHome, SearchOps
  <1>9. \A p \in Own(panel.kind) : Owes(c, p)'
    BY <1>5, <1>8, OwnParts DEF Owes
  <1>10. StoreOK' /\ ProjectsStay
    BY <1>1, <1>2, StoreOther DEF Here, ScreenInv
  <1> QED
    BY <1>1, <1>2, <1>5, <1>7, <1>9, <1>10, InsideSame, WriteServedStep DEF Writes

LEMMA SearchAnswers ==
    ASSUME Here, Inside, NEW i \in DOMAIN calls, Found(i) \/ Replaced(i)
    PROVE  ScreenInv'
  <1>1. /\ calls[i].op \in {"find", "replace"} /\ calls[i].status = "ok" /\ Continue(i, <<>>) /\ db' = db
    BY DEF Found, Replaced, Returned
  <1>2. Fact(calls[i]) /\ Answers(calls[i], Arg(i), Ans(i))
    BY <1>1, CallHas
  <1>3. panel.kind = "search" /\ calls[i].live
    BY <1>1, <1>2 DEF Fact, AtHome, SearchOps
  <1>4. {"matches", "found", "kind"} \subseteq DOMAIN panel
    BY <1>3 DEF Here, ScreenInv, FieldsOK, Inv, PanelOK
  <1>5. /\ DOMAIN panel' = DOMAIN panel /\ panel'.kind = "search"
        /\ calls[i].op = "find" => panel'.matches = Ans(i).matches /\ panel'.found = Arg(i)
        /\ calls[i].op = "replace" => panel'.found = None
    BY <1>1, <1>3, <1>4 DEF Found, Replaced, Returned
  <1>6. FieldsOK' /\ StoreOK'
    BY <1>1, <1>4, <1>5, StoreKept DEF FieldsOK, Here, ScreenInv
  <1>7. calls[i].op = "find" => Ans(i).matches = Matches(db.texts, Arg(i))
    BY <1>2 DEF Answers
  <1>8. panel'.found # None => panel'.matches = Matches(db'.texts, panel'.found)
    BY <1>1, <1>5, <1>7
  <1>9. \A p \in Own(panel'.kind) : IsRight(p)'
    <2>1. IsRight("matches")'
      BY <1>8 DEF IsRight, Matches
    <2> QED
      BY <1>5, <2>1, OwnParts
  <1>10. CASE calls[i].op = "find"
    BY <1>1, <1>3, <1>5, <1>6, <1>9, <1>10, ReadOverNone DEF Writes, Passive, AdminOps
  <1>11. CASE calls[i].op = "replace"
    BY <1>1, <1>5, <1>6, <1>9, <1>11, InsideSame, WriteOverNone DEF Writes
  <1> QED
    BY <1>1, <1>10, <1>11

LEMMA SearchScreens ==
    ASSUME Here, SearchNext, Inside
    PROVE  ScreenInv'
  <1>1. ASSUME NEW i \in DOMAIN calls, FindServed(i) PROVE ScreenInv'
    <2>1. PICK y : Serve(i, y) /\ y.matches = Matches(db.texts, Arg(i))
      BY <1>1 DEF FindServed, Matches
    <2>2. calls[i].op = "find" /\ calls[i].status = "sent" /\ panel' = panel /\ db' = db
      BY <1>1 DEF FindServed, Arrives
    <2>3. Answers(calls[i], Arg(i), y)
      BY <2>1, <2>2 DEF Answers
    <2> QED
      BY <2>1, <2>2, <2>3, InsideSame, ReadServedStep
  <1>2. {"search", "reindex", "names"} \cap Duties = {}
    BY DEF Duties, AdminOps, ChatOps, SearchOps, MaterialsOps, WriteOps, SettingsOps, BoardOps
  <1>3. ASSUME NEW i \in DOMAIN calls, SearchServed(i) PROVE ScreenInv'
    <2>1. calls[i].op \in {"search", "reindex", "names"} /\ calls[i].status = "sent" /\ Serve(i, None) /\ panel' = panel /\ db' = db
      BY <1>3 DEF SearchServed, Arrives
    <2>2. Quiet
      BY <2>1, QuietHere, SameIsStill
    <2> QED
      BY <1>2, <2>1, <2>2, QuietServe
  <1>4. ASSUME NEW i \in DOMAIN calls, SearchOver(i) PROVE ScreenInv'
    <2>1. calls[i].op \in {"search", "reindex", "names"} /\ calls[i].status = "ok" /\ Continue(i, <<>>) /\ db' = db
      BY <1>4 DEF SearchOver, Returned
    <2>2. PanelStill
      BY <1>4 DEF SearchOver, PanelStill, ShownFields
    <2> QED
      BY <1>2, <2>1, <2>2, QuietHere, QuietOver
  <1>5. ASSUME NEW i \in DOMAIN calls PROVE ~SearchThrown(i)
    BY FailedIs DEF SearchThrown, Thrown, Refusable, AdminOps
  <1> QED
    BY <1>1, <1>3, <1>4, <1>5, SearchClicks, ReplaceServedStep, SearchAnswers DEF SearchNext

-----------------------------------------------------------------------------
(***************************************************************************)
(* The materials.                                                          *)
(***************************************************************************)
\* A run of the AI that nothing on the screen waits for to be right.
LEMMA AsideBegin ==
    ASSUME Here, Quiet, calls = <<>>, NEW op, NEW x, op \notin Duties, Begin(Call(op, x))
    PROVE  ScreenInv'
  <1>1. PICK c : c = Call(op, x)
    OBVIOUS
  <1>2. c.op = op /\ c.status = "sent"
    BY <1>1 DEF Call, CallWith
  <1>3. PICK cs : /\ IsList(cs) /\ \A e \in ToSet(cs) : e.op \in Passive /\ e.status = "sent"
                  /\ Send(<<c>> \o cs)
    BY <1>1, EffectCallsAre DEF Begin
  <1> DEFINE all == <<c>> \o cs
  <1>4. OneByOne(all) /\ ToSet(all) = {c} \cup ToSet(cs) /\ Send(all)
    BY <1>2, <1>3, OneByOneMore
  <1>5. \A e \in ToSet(all) : e.op \notin Duties
    BY <1>2, <1>3, <1>4, OpsApart
  <1> HIDE DEF all
  <1> QED
    BY <1>4, <1>5, QuietSend

LEMMA BeginCall ==
    ASSUME Here, Inside, calls = <<>>, PanelStill, db' = db,
           NEW op, NEW x, NEW c, c = Call(op, x), Begin(c), op \in HomeOps(panel'.kind), AboutThis(c, x)'
    PROVE  ScreenInv'
  BY CallFact, ClickBegin DEF Inside, auth, place

\* A change that is refused.
LEMMA WriteRefused ==
    ASSUME Here, Inside \/ (project' = project /\ authed' = authed), NEW i \in DOMAIN calls,
           calls[i].op \in Writes \cap Refusable, calls[i].status = "sent",
           Refuse(i), panel' = panel, db' = db
    PROVE  ScreenInv'
  <1>1. PICK c : c = RefusedCall(calls[i])
    OBVIOUS
  <1>2. /\ calls' = [calls EXCEPT ![i] = c] /\ c.op = calls[i].op /\ c.arg = calls[i].arg /\ c.live = calls[i].live
        /\ c.status = "failed"
    BY <1>1, CallHas, FlightRefuse, ServedIs DEF Here
  <1>3. AtHome(c)' /\ Fact(calls[i])
    BY <1>2, CallHas DEF Fact, AtHome
  <1>4. AboutThis(c, c.arg[c.op])'
    <2>1. AboutThis(c, c.arg[c.op])
      BY <1>2, <1>3, AboutByOp DEF Fact
    <2> QED
      BY <2>1, SameAbout
  <1>5. Fact(c)'
    BY <1>2, <1>3, <1>4 DEF Fact, Writes
  <1>6. PanelStill /\ RowsStill /\ project' = project /\ authed' = authed
    BY SameIsStill, InsideSame
  <1>7. StoreOK' /\ ProjectsStay /\ db'.answering = db.answering
    BY <1>6, StoreStays DEF Here, ScreenInv, RowsStill
  <1>8. ASSUME NEW p \in Own(panel.kind), IsRight(p) \/ Owes(calls[i], p) PROVE IsRight(p)' \/ Owes(c, p)'
    <2>1. CASE IsRight(p)
      BY <2>1, <1>6, OwnParts, RightStays DEF Here, ScreenInv
    <2>2. CASE Owes(calls[i], p)
      BY <2>2, <1>2 DEF Owes, Writes, Refusable, AdminOps
    <2> QED
      BY <1>8, <2>1, <2>2
  <1> QED
    BY <1>2, <1>5, <1>6, <1>7, <1>8, WriteServedStep

LEMMA TabStep ==
    ASSUME Here, Inside, NEW tab \in Tabs, ChooseTab(tab)
    PROVE  ScreenInv'
  <1>1. /\ panel.kind = "materials" /\ panel' = [panel EXCEPT !.at = FreshTab(tab)] /\ db' = db
        /\ calls = <<>> /\ db.answering = {} /\ IsRight("copy") /\ calls' = Orphan(calls) \o TabCalls(tab)
    BY Waited DEF ChooseTab, OnTab, Parts
  <1>2. panel'.kind = "materials" /\ panel'.at = FreshTab(tab) /\ "at" \in DOMAIN panel'
    BY <1>1 DEF Here, ScreenInv, FieldsOK, Inv, PanelOK
  <1>3. FreshTab(tab).tab = tab /\ "tab" \in DOMAIN FreshTab(tab) /\ (tab \notin AiTabs => "list" \in DOMAIN FreshTab(tab))
    BY DEF FreshTab, AiTab, ListTab
  <1>4. FieldsOK' /\ StoreOK'
    BY <1>1, <1>2, <1>3, StoreKept DEF FieldsOK, Here, ScreenInv
  <1>5. IsRight("copy")'
    BY <1>1, InsideSame, CopyStays DEF Here, ProjectsStay
  <1>6. PICK c : c = Call("rows", tab)
    OBVIOUS
  <1> DEFINE cs == TabCalls(tab)
             r == calls
  <1>7. IsList(r) /\ \A e \in ToSet(r) : e \in Flight /\ e.op \in Passive
    BY <1>1, EmptyList, SetOfNone
  <1>8. CASE tab \in AiTabs
    <2>1. OneByOne(cs) /\ ToSet(cs) = {}
      BY <1>8, NoneSent DEF TabCalls
    <2>2. \A p \in Own(panel'.kind) : IsRight(p)'
      BY <1>2, <1>3, <1>8, OwnParts DEF IsRight
    <2>3. calls' = Orphan(r) \o cs
      BY <1>1
    <2> HIDE DEF cs, r
    <2> QED
      BY <1>1, <1>4, <1>5, <1>7, <2>1, <2>2, <2>3, MountStep
  <1>9. CASE tab \notin AiTabs
    <2>1. OneByOne(cs) /\ ToSet(cs) = {c} /\ c.op = "rows"
      BY <1>6, <1>9, OneSent DEF TabCalls, Call, CallWith
    <2>2. AboutThis(c, tab)' /\ "rows" \in HomeOps(panel'.kind)
      BY <1>2, <1>3, <1>9, <2>1, HomeOpsAre DEF AboutThis, MaterialsOps
    <2>3. Fact(c)'
      BY <1>6, <2>2, CallFact
    <2>4. \A p \in Own(panel'.kind) : Owes(c, p)'
      BY <1>2, <2>1, OwnParts DEF Owes
    <2>5. calls' = Orphan(r) \o cs
      BY <1>1
    <2> HIDE DEF cs, r
    <2> QED
      BY <1>1, <1>4, <1>5, <1>7, <2>1, <2>3, <2>4, <2>5, MountStep
  <1> QED
    BY <1>8, <1>9

LEMMA MaterialsClicks ==
    ASSUME Here, Inside,
           Research \/ Summarize \/ SaveAsMemo \/ TypeRow \/ AddMemo \/ AddTemplate \/ CreateArticle
              \/ \E n \in db.memos \cup db.templates : RemoveRow(n)
    PROVE  ScreenInv'
  <1>1. PanelStill /\ db' = db /\ panel.kind = "materials" /\ \E op : User(op)
    BY DEF PanelStill, ShownFields, Research, Summarize, AskAi, SaveAsMemo, TypeRow, AddMemo, AddTemplate, AddRow,
       CreateArticle, RemoveRow, OnTab
  <1>2. calls = <<>> /\ panel'.kind = "materials" /\ Quiet /\ panel'.at.tab = panel.at.tab
    BY <1>1, Waited, ShownAre, QuietHere DEF Here, ScreenInv
  <1>3. CASE Research \/ Summarize
    <2>1. PICK n : Begin(Call("ask", n))
      BY <1>3 DEF Research, Summarize, AskAi
    <2>2. "ask" \notin Duties
      BY DEF Duties, AdminOps, ChatOps, SearchOps, MaterialsOps, WriteOps, SettingsOps, BoardOps
    <2> QED
      BY <1>2, <2>1, <2>2, AsideBegin
  <1>4. CASE SaveAsMemo
    <2>1. PICK n : Send(<<Call("keep", n)>>) /\ panel.at.tab \in AiTabs
      BY <1>4 DEF SaveAsMemo, OnTab
    <2>2. PICK c : c = Call("keep", n)
      OBVIOUS
    <2>3. AboutThis(c, n)' /\ "keep" \in HomeOps(panel'.kind)
      BY <1>2, <2>1, <2>2, HomeOpsAre DEF AboutThis, MaterialsOps, Call, CallWith
    <2> QED
      BY <1>1, <1>2, <2>1, <2>2, <2>3, ClickCall
  <1>5. CASE TypeRow
    BY <1>2, <1>5, QuietStay DEF TypeRow
  <1>6. CASE AddMemo \/ AddTemplate
    <2>1. PICK x : Send(<<Call("add", x)>>) /\ x.tab = panel.at.tab
      BY <1>6 DEF AddMemo, AddTemplate, AddRow, OnTab
    <2>2. PICK c : c = Call("add", x)
      OBVIOUS
    <2>3. AboutThis(c, x)' /\ "add" \in HomeOps(panel'.kind)
      BY <1>2, <2>1, <2>2, HomeOpsAre DEF AboutThis, MaterialsOps, Call, CallWith
    <2> QED
      BY <1>1, <1>2, <2>1, <2>2, <2>3, ClickCall
  <1>7. CASE CreateArticle
    <2>1. PICK c : c = Call("draft", None)
      OBVIOUS
    <2>2. Begin(c)
      BY <1>7, <2>1 DEF CreateArticle
    <2>3. AboutThis(c, None)' /\ "draft" \in HomeOps(panel'.kind)
      BY <1>2, <2>1, PlainAbout, HomeOpsAre DEF MaterialsOps, Call, CallWith
    <2> QED
      BY <1>1, <1>2, <2>1, <2>2, <2>3, BeginCall
  <1>8. CASE \E n \in db.memos \cup db.templates : RemoveRow(n)
    <2>1. PICK x : Send(<<Call("remove", x)>>) /\ x.tab = panel.at.tab
      BY <1>8 DEF RemoveRow
    <2>2. PICK c : c = Call("remove", x)
      OBVIOUS
    <2>3. AboutThis(c, x)' /\ "remove" \in HomeOps(panel'.kind)
      BY <1>2, <2>1, <2>2, HomeOpsAre DEF AboutThis, MaterialsOps, Call, CallWith
    <2> QED
      BY <1>1, <1>2, <2>1, <2>2, <2>3, ClickCall
  <1> QED
    BY <1>3, <1>4, <1>5, <1>6, <1>7, <1>8

\* An episode with a number of its own is added.
LEMMA EpisodeMore ==
    ASSUME Here, NEW n, Free(n), db' = EpisodeAdded(n), panel' = panel
    PROVE  /\ StoreOK' /\ ProjectsStay /\ db'.answering = db.answering /\ db'.numbers = Append(db.numbers, n)
           /\ db'.memos = db.memos /\ db'.templates = db.templates /\ db'.sources = db.sources
  <1>1. /\ db'.numbers = Append(db.numbers, n) /\ db'.chat = db.chat /\ db'.projects = db.projects
        /\ db'.answering = db.answering /\ db'.memos = db.memos /\ db'.templates = db.templates /\ db'.sources = db.sources
    BY DEF EpisodeAdded, Here, Inv, DbOK, DbFields
  <1>2. IsList(db.numbers) /\ (Len(db.numbers) <= ListLimit => Distinct(db.numbers))
    BY DEF Here, ScreenInv, StoreOK
  <1>3. IsList(db'.numbers) /\ Len(db'.numbers) = Len(db.numbers) + 1 /\ Len(db.numbers) \in Nat
    BY <1>1, <1>2, AppendFacts
  <1>4. /\ DOMAIN db'.numbers = DOMAIN db.numbers \cup {Len(db.numbers) + 1}
        /\ \A i \in DOMAIN db.numbers : db'.numbers[i] = db.numbers[i]
        /\ db'.numbers[Len(db.numbers) + 1] = n
    BY <1>1, <1>2, AppendList
  <1>5. ASSUME Len(db'.numbers) <= ListLimit PROVE Distinct(db'.numbers)
    <2>1. Len(db.numbers) <= ListLimit
      BY <1>3, <1>5, ListLimitAssumption
    <2>2. Distinct(db.numbers) /\ n \in Nat /\ \A k \in DOMAIN db.numbers : db.numbers[k] # n
      BY <1>2, <2>1 DEF Free
    <2> QED
      BY <1>4, <2>2 DEF Distinct
  <1>6. StoreOK'
    BY <1>1, <1>3, <1>5 DEF StoreOK, Here, ScreenInv
  <1> QED
    BY <1>1, <1>6 DEF ProjectsStay

LEMMA MaterialsRead ==
    ASSUME Here, Inside, NEW i \in DOMAIN calls, panel' = panel, db' = db,
           \/ Arrives(i, "rows") /\ Serve(i, db[Arg(i)])
           \/ Arrives(i, "ask") /\ Serve(i, None)
           \/ Arrives(i, "draft") /\ Serve(i, None)
           \/ Arrives(i, "numbers") /\ Serve(i, EpisodesListed)
    PROVE  ScreenInv'
  <1>1. CASE calls[i].op = "ask"
    <2>1. "ask" \notin Duties
      BY DEF Duties, AdminOps, ChatOps, SearchOps, MaterialsOps, WriteOps, SettingsOps, BoardOps
    <2> QED
      BY <1>1, <2>1, QuietHere, SameIsStill, QuietServe DEF Arrives
  <1>2. CASE calls[i].op \in {"rows", "draft", "numbers"}
    <2>1. PICK y : /\ Serve(i, y)
                   /\ calls[i].op = "rows" => y = db[Arg(i)]
                   /\ calls[i].op = "numbers" => y = EpisodesListed
      BY <1>2 DEF Arrives
    <2>2. Answers(calls[i], Arg(i), y) /\ calls[i].status = "sent"
      BY <1>2, <2>1 DEF Answers, Arrives
    <2> QED
      BY <1>2, <2>1, <2>2, InsideSame, ReadServedStep
  <1> QED
    BY <1>1, <1>2 DEF Arrives

LEMMA MaterialsWritten ==
    ASSUME Here, Inside, NEW i \in DOMAIN calls, panel' = panel,
           \/ Arrives(i, "keep") /\ Serve(i, None) /\ db' = [db EXCEPT !.memos = @ \cup {Arg(i)}]
           \/ Arrives(i, "article") /\ Serve(i, None) /\ db' = EpisodeAdded(Arg(i))
           \/ /\ Arrives(i, "add") \/ Arrives(i, "remove")
              /\ Serve(i, None)
              /\ \E rows : db' = [db EXCEPT ![Arg(i).tab] = rows]
    PROVE  ScreenInv'
  <1>1. calls[i].op \in {"keep", "article", "add", "remove"} /\ calls[i].status = "sent" /\ Serve(i, None)
    BY DEF Arrives
  <1>2. Fact(calls[i]) /\ AboutThis(calls[i], Arg(i)) /\ ArgOK(db, calls[i].op, Arg(i))
    BY <1>1, CallHas
  <1>3. panel.kind = "materials"
    BY <1>1, <1>2 DEF Fact, AtHome, MaterialsOps
  <1>4. PICK c : c = ServedCall(calls[i], None)
    OBVIOUS
  <1>5. PICK x : x = Arg(i)
    OBVIOUS
  <1>6. c.op = calls[i].op /\ c.status = "ok"
    BY <1>4, CallHas, ServedIs
  <1>7. AboutThis(c, x)' /\ Answers(c, x, None)'
    BY <1>1, <1>2, <1>5, <1>6 DEF AboutThis, Answers
  <1>8. calls' = [calls EXCEPT ![i] = c] /\ Fact(c)'
    BY <1>1, <1>4, <1>5, <1>7, WrittenFact
  <1>9. StoreOK' /\ ProjectsStay /\ db'.answering = db.answering
    <2>1. CASE calls[i].op = "article"
      <3>1. Free(Arg(i)) /\ db' = EpisodeAdded(Arg(i))
        BY <1>1, <1>2, <2>1 DEF AboutThis, Arrives
      <3> QED
        BY <3>1, EpisodeMore
    <2>2. CASE calls[i].op \in {"keep", "add", "remove"}
      <3>1. PICK f \in {"memos", "templates"} : \E rows : db' = [db EXCEPT ![f] = rows]
        BY <1>2, <2>2 DEF Arrives, ArgOK
      <3>2. db'.chat = db.chat /\ db'.numbers = db.numbers /\ db'.projects = db.projects /\ db'.answering = db.answering
        BY <3>1
      <3> QED
        BY <3>2, StoreOther DEF Here, ScreenInv
    <2> QED
      BY <1>1, <2>1, <2>2
  <1>10. ASSUME NEW p \in Own(panel.kind), IsRight(p) \/ Owes(calls[i], p) PROVE IsRight(p)' \/ Owes(c, p)'
    <2>1. p = "rows"
      BY <1>3, <1>10, OwnParts
    <2>2. CASE calls[i].op \in {"add", "remove"}
      BY <2>1, <2>2, <1>6 DEF Owes
    <2>3. CASE calls[i].op = "keep"
      <3>1. panel'.at.tab \in AiTabs
        BY <1>2, <2>3 DEF AboutThis
      <3> QED
        BY <2>1, <3>1 DEF IsRight
    <2>4. CASE calls[i].op = "article"
      <3>1. Free(Arg(i)) /\ db' = EpisodeAdded(Arg(i))
        BY <1>1, <1>2, <2>4 DEF AboutThis, Arrives
      <3>2. db'.memos = db.memos /\ db'.templates = db.templates /\ panel.at.tab \in Tabs
        BY <3>1, <1>3, EpisodeMore DEF Here, ScreenInv, FieldsOK
      <3>3. panel.at.tab \notin AiTabs => db'[panel.at.tab] = db[panel.at.tab]
        BY <3>2 DEF Tabs, AiTabs
      <3>4. IsRight("rows")
        BY <1>10, <2>1, <2>4 DEF Owes
      <3> QED
        BY <2>1, <3>3, <3>4 DEF IsRight
    <2> QED
      BY <1>1, <2>2, <2>3, <2>4
  <1> QED
    BY <1>1, <1>6, <1>8, <1>9, <1>10, InsideSame, WriteServedStep DEF Writes

LEMMA MaterialsServedStep ==
    ASSUME Here, Inside, NEW i \in DOMAIN calls, MaterialsServed(i)
    PROVE  ScreenInv'
  <1>1. panel' = panel
    BY DEF MaterialsServed
  <1>2. \/ \/ Arrives(i, "rows") /\ Serve(i, db[Arg(i)]) /\ db' = db
           \/ Arrives(i, "ask") /\ Serve(i, None) /\ db' = db
           \/ Arrives(i, "draft") /\ Serve(i, None) /\ db' = db
           \/ Arrives(i, "numbers") /\ Serve(i, EpisodesListed) /\ db' = db
        \/ Arrives(i, "keep") /\ Serve(i, None) /\ db' = [db EXCEPT !.memos = @ \cup {Arg(i)}]
        \/ Arrives(i, "article") /\ Serve(i, None) /\ db' = EpisodeAdded(Arg(i))
        \/ /\ Arrives(i, "add") \/ Arrives(i, "remove")
           /\ Serve(i, None)
           /\ \E rows : db' = [db EXCEPT ![Arg(i).tab] = rows]
        \/ Arrives(i, "remove") /\ Refuse(i) /\ db' = db
    BY DEF MaterialsServed
  <1>3. CASE Arrives(i, "remove") /\ Refuse(i) /\ db' = db
    BY <1>1, <1>3, WriteRefused DEF Arrives, Writes, Refusable
  <1> QED
    BY <1>1, <1>2, <1>3, MaterialsRead, MaterialsWritten

LEMMA RowsLoadedStep ==
    ASSUME Here, Inside, NEW i \in DOMAIN calls, RowsLoaded(i)
    PROVE  ScreenInv'
  <1>1. calls[i].op = "rows" /\ calls[i].status = "ok" /\ Continue(i, <<>>) /\ db' = db
    BY DEF RowsLoaded, Returned
  <1>2. Fact(calls[i]) /\ AboutThis(calls[i], Arg(i)) /\ Answers(calls[i], Arg(i), Ans(i))
    BY <1>1, CallHas
  <1>3. panel.kind = "materials" /\ calls[i].live /\ Arg(i) = panel.at.tab /\ Arg(i) \notin AiTabs /\ Ans(i) = db[Arg(i)]
    BY <1>1, <1>2 DEF Fact, AtHome, MaterialsOps, AboutThis, Answers
  <1>4. {"at", "kind"} \subseteq DOMAIN panel /\ {"tab", "list"} \subseteq DOMAIN panel.at /\ panel.at.tab \in Tabs
    BY <1>3 DEF Here, ScreenInv, FieldsOK, Inv, PanelOK
  <1>5. /\ panel' = [panel EXCEPT !.at.list = Ans(i)]
        /\ DOMAIN panel' = DOMAIN panel /\ DOMAIN panel'.at = DOMAIN panel.at /\ panel'.kind = "materials"
        /\ panel'.at.tab = panel.at.tab /\ panel'.at.list = Ans(i)
    BY <1>3, <1>4 DEF RowsLoaded
  <1>6. FieldsOK' /\ StoreOK'
    BY <1>1, <1>3, <1>4, <1>5, StoreKept DEF FieldsOK, Here, ScreenInv
  <1>7. \A p \in Own(panel.kind) : IsRight(p)'
    <2>1. IsRight("rows")'
      BY <1>1, <1>3, <1>5 DEF IsRight
    <2> QED
      BY <1>3, <2>1, OwnParts
  <1> QED
    BY <1>1, <1>3, <1>5, <1>6, <1>7, ReadOverNone DEF Writes, Passive, AdminOps

LEMMA RowChangedStep ==
    ASSUME Here, Inside, NEW i \in DOMAIN calls, RowChanged(i)
    PROVE  ScreenInv'
  <1>1. calls[i].op \in {"add", "remove"} /\ calls[i].status = "ok" /\ db' = db
    BY DEF RowChanged, Returned
  <1>2. Fact(calls[i]) /\ AboutThis(calls[i], Arg(i)) /\ ArgOK(db, calls[i].op, Arg(i))
    BY <1>1, CallHas
  <1>3. panel.kind = "materials" /\ calls[i].live = TRUE
    BY <1>1, <1>2, CallHas DEF Fact, AtHome, MaterialsOps, CallOK
  <1>4. PanelStill
    BY DEF PanelStill, ShownFields, RowChanged
  <1>5. panel'.kind = "materials" /\ panel'.at.tab = panel.at.tab
    BY <1>3, <1>4, ShownAre DEF Here, ScreenInv
  <1>6. PICK x : x = Arg(i).tab
    OBVIOUS
  <1>7. PICK c : c = Call("rows", x)
    OBVIOUS
  <1>8. Continue(i, <<c>>)
    BY <1>3, <1>6, <1>7, LiveCall DEF RowChanged
  <1>9. AboutThis(c, x)' /\ "rows" \in HomeOps(panel'.kind)
    BY <1>1, <1>2, <1>5, <1>6, <1>7, HomeOpsAre DEF AboutThis, MaterialsOps, ArgOK, AiTabs, Call, CallWith
  <1>10. Fact(c)' /\ c.status = "sent" /\ c.op = "rows"
    BY <1>7, <1>9, CallFact
  <1>11. \A p \in Own(panel.kind) : Owes(c, p)'
    BY <1>3, <1>10, OwnParts DEF Owes
  <1> QED
    BY <1>1, <1>4, <1>8, <1>10, <1>11, WriteOverStill DEF Writes

\* A draft is numbered after the episodes there are, so long as all of them are listed.
LEMMA DraftStep ==
    ASSUME Here, Inside, NEW i \in DOMAIN calls, Drafted(i) \/ Numbered(i)
    PROVE  ScreenInv'
  <1>1. calls[i].op \in {"draft", "numbers"} /\ calls[i].status = "ok" /\ db' = db /\ panel' = panel
    BY FailedIs DEF Drafted, Numbered, Returned, Thrown, Refusable, AdminOps
  <1>2. Fact(calls[i]) /\ Answers(calls[i], Arg(i), Ans(i))
    BY <1>1, CallHas
  <1>3. panel.kind = "materials" /\ PanelStill
    BY <1>1, <1>2, SameIsStill DEF Fact, AtHome, MaterialsOps
  <1>4. \A p \in Own(panel.kind) : ~Owes(calls[i], p)
    BY <1>1, <1>3, OwnParts DEF Owes
  <1>5. CASE calls[i].op = "draft"
    <2>1. PICK c : c = Call("numbers", None)
      OBVIOUS
    <2>2. Continue(i, <<c>>)
      BY <1>1, <1>5, <2>1 DEF Drafted, Numbered, Returned
    <2>3. AboutThis(c, None)' /\ "numbers" \in HomeOps(panel'.kind)
      BY <1>1, <1>3, <2>1, PlainAbout, HomeOpsAre DEF MaterialsOps, Call, CallWith
    <2>4. Fact(c)' /\ c.status = "sent"
      BY <2>1, <2>3, CallFact
    <2> QED
      BY <1>1, <1>3, <1>4, <1>5, <2>2, <2>4, WriteOverStill DEF Writes
  <1>6. CASE calls[i].op = "numbers"
    <2>1. PICK n : n = LastNumber(Ans(i)) + 1
      OBVIOUS
    <2>2. PICK c : c = Call("article", n)
      OBVIOUS
    <2>3. Continue(i, <<c>>)
      BY <1>6, <2>1, <2>2 DEF Numbered, Drafted, Returned, Thrown
    <2>4. ASSUME Len(db.numbers) <= ListLimit PROVE n \in Nat /\ \A k \in DOMAIN db.numbers : db.numbers[k] # n
      <3>1. IsList(db.numbers) /\ Distinct(db.numbers)
        BY <2>4 DEF Here, ScreenInv, StoreOK
      <3>2. Ans(i) = DOMAIN db.numbers
        BY <1>2, <1>6, <2>4, <3>1, AllListed DEF Answers
      <3>3. LastNumber(DOMAIN db.numbers) \in Nat /\ \A k \in DOMAIN db.numbers : db.numbers[k] <= LastNumber(DOMAIN db.numbers)
        BY <3>1, LastNumberIs
      <3>4. n = LastNumber(DOMAIN db.numbers) + 1
        BY <2>1, <3>2
      <3>5. \A k \in DOMAIN db.numbers : db.numbers[k] \in Nat
        BY <3>1 DEF Distinct
      <3> DEFINE last == LastNumber(DOMAIN db.numbers)
      <3> HIDE DEF last
      <3>6. last \in Nat /\ n = last + 1 /\ \A k \in DOMAIN db.numbers : db.numbers[k] <= last
        BY <3>3, <3>4 DEF last
      <3> QED
        BY <3>5, <3>6
    <2>5. Free(n)'
      BY <1>1, <2>4 DEF Free
    <2>6. AboutThis(c, n)' /\ "article" \in HomeOps(panel'.kind)
      BY <1>1, <1>3, <2>2, <2>5, HomeOpsAre DEF AboutThis, MaterialsOps, Call, CallWith
    <2>7. Fact(c)' /\ c.status = "sent"
      BY <2>2, <2>6, CallFact
    <2> QED
      BY <1>1, <1>3, <1>4, <1>6, <2>3, <2>7, WriteOverStill DEF Writes
  <1> QED
    BY <1>1, <1>5, <1>6

LEMMA MaterialsScreens ==
    ASSUME Here, MaterialsNext, Inside
    PROVE  ScreenInv'
  <1>1. ASSUME NEW i \in DOMAIN calls, AiOver(i) PROVE ScreenInv'
    <2>1. calls[i].op = "ask" /\ calls[i].status # "asked" /\ Continue(i, <<>>) /\ db' = db /\ PanelStill
      BY <1>1 DEF AiOver, Returned, Thrown, PanelStill, ShownFields
    <2>2. "ask" \notin Duties
      BY DEF Duties, AdminOps, ChatOps, SearchOps, MaterialsOps, WriteOps, SettingsOps, BoardOps
    <2> QED
      BY <2>1, <2>2, QuietHere, QuietOver
  <1>2. ASSUME NEW i \in DOMAIN calls, MemoKept(i) PROVE ScreenInv'
    <2>1. calls[i].op = "keep" /\ calls[i].status # "asked" /\ Continue(i, <<>>) /\ db' = db /\ PanelStill
      BY <1>2 DEF MemoKept, Returned, PanelStill, ShownFields
    <2>2. \A p \in Parts : ~Owes(calls[i], p)
      BY <2>1 DEF Owes, AdminOps
    <2> QED
      BY <2>1, <2>2, QuietHere, QuietOver
  <1>3. ASSUME NEW i \in DOMAIN calls, MaterialsThrown(i) PROVE ScreenInv'
    <2>1. Continue(i, <<>>) /\ db' = db /\ panel' = panel
      BY <1>3 DEF MaterialsThrown
    <2>2. Returned(i, "article") \/ Thrown(i, "remove")
      BY <1>3, FailedIs DEF MaterialsThrown, Thrown, Refusable, AdminOps
    <2>3. calls[i].status # "asked" /\ \A p \in Parts : ~Owes(calls[i], p)
      BY <2>2 DEF Returned, Thrown, Owes, AdminOps
    <2> QED
      BY <2>1, <2>3, QuietHere, SameIsStill, QuietOver
  <1> QED
    BY <1>1, <1>2, <1>3, TabStep, MaterialsClicks, MaterialsServedStep, RowsLoadedStep, RowChangedStep, DraftStep DEF MaterialsNext


-----------------------------------------------------------------------------
(***************************************************************************)
(* The writing screen.                                                     *)
(***************************************************************************)
LEMMA SelectStep ==
    ASSUME Here, Inside, NEW k, SelectEpisode(k)
    PROVE  ScreenInv'
  <1>1. /\ panel.kind = "write" /\ panel.episode # None /\ panel' = [panel EXCEPT !.episode = k] /\ db' = db
        /\ calls = <<>> /\ Send(SourceCalls(k))
    BY Waited DEF SelectEpisode, OnEpisode, OnWrite
  <1>2. {"list", "last", "episode", "sources", "kind"} \subseteq DOMAIN panel
    BY <1>1 DEF Here, ScreenInv, FieldsOK, Inv, PanelOK
  <1>3. /\ panel'.kind = "write" /\ panel'.episode = k /\ panel'.list = panel.list /\ panel'.last = panel.last
        /\ panel'.sources = panel.sources /\ DOMAIN panel' = DOMAIN panel
    BY <1>1, <1>2
  <1>4. FieldsOK'
    BY <1>2, <1>3 DEF FieldsOK
  <1>5. PICK c : c = Call("sources", k)
    OBVIOUS
  <1>6. AboutThis(c, k)' /\ "sources" \in HomeOps(panel'.kind)
    BY <1>3, <1>5, HomeOpsAre DEF AboutThis, WriteOps, Call, CallWith
  <1>7. Fact(c)' /\ c.status = "sent" /\ c.op = "sources"
    BY <1>5, <1>6, CallFact
  <1>8. ASSUME NEW p \in Own(panel'.kind), IsRight(p) PROVE IsRight(p)' \/ Owes(c, p)'
    <2>1. CASE p = "list"
      BY <1>1, <1>3, <1>8, <2>1 DEF IsRight
    <2>2. CASE p = "sources"
      BY <1>7, <2>2 DEF Owes
    <2> QED
      BY <1>3, <1>8, <2>1, <2>2, OwnParts
  <1> DEFINE cs == <<c>>
  <1>9. OneByOne(cs) /\ ToSet(cs) = {c} /\ Send(cs)
    BY <1>1, <1>5, <1>7, OneSent DEF SourceCalls
  <1> HIDE DEF cs
  <1> QED
    BY <1>1, <1>3, <1>4, <1>7, <1>8, <1>9, InsideSame, ClickStep

\* The next number is free while the list has every episode.
LEMMA NextNumber ==
    ASSUME Here, panel.kind = "write", panel.episode # None, IsRight("list")
    PROVE  Free(panel.last + 1)
  <1>1. ASSUME Len(db.numbers) <= ListLimit
        PROVE  panel.last + 1 \in Nat /\ \A k \in DOMAIN db.numbers : db.numbers[k] # panel.last + 1
    <2>1. panel.last \in Nat /\ \A k \in DOMAIN db.numbers : db.numbers[k] <= panel.last
      BY <1>1 DEF IsRight
    <2>2. \A k \in DOMAIN db.numbers : db.numbers[k] \in Nat
      BY <1>1 DEF Here, ScreenInv, StoreOK, Distinct
    <2> QED
      BY <2>1, <2>2
  <1> QED
    BY <1>1 DEF Free

LEMMA WriteClicks ==
    ASSUME Here, Inside, NewArticleForm \/ PostArticle \/ SourcesPanel \/ OpenHistory \/ HistoryPanel \/ Checklist
    PROVE  ScreenInv'
  <1>1. PanelStill /\ db' = db /\ panel.kind = "write" /\ panel.episode # None /\ \E op : User(op)
    BY DEF PanelStill, ShownFields, NewArticleForm, PostArticle, SourcesPanel, AddSource, RemoveSource, OpenHistory,
       HistoryPanel, CompareRevision, Checklist, OnEpisode, OnWrite
  <1>2. calls = <<>> /\ panel'.kind = "write" /\ Quiet /\ panel'.episode = panel.episode /\ \A p \in Parts : IsRight(p)
    BY <1>1, Waited, ShownAre, QuietHere DEF Here, ScreenInv
  <1>3. CASE UNCHANGED calls
    BY <1>2, <1>3, QuietStay
  <1>4. CASE PostArticle
    <2>1. PICK n : n = panel.last + 1
      OBVIOUS
    <2>2. PICK c : c = Call("new article", n)
      OBVIOUS
    <2>3. Send(<<c>>)
      BY <1>4, <2>1, <2>2 DEF PostArticle
    <2>4. Free(n)
      BY <1>1, <1>2, <2>1, NextNumber DEF Parts
    <2>5. AboutThis(c, n)' /\ "new article" \in HomeOps(panel'.kind)
      BY <1>1, <1>2, <2>2, <2>4, HomeOpsAre DEF AboutThis, Free, WriteOps, Call, CallWith
    <2> QED
      BY <1>1, <1>2, <2>2, <2>3, <2>5, ClickCall
  <1>5. CASE Send(<<Call("source", panel.episode)>>)
    <2>1. PICK x : x = panel.episode
      OBVIOUS
    <2>2. PICK c : c = Call("source", x)
      OBVIOUS
    <2>3. AboutThis(c, x)' /\ "source" \in HomeOps(panel'.kind)
      BY <1>2, <2>1, <2>2, HomeOpsAre DEF AboutThis, WriteOps, Call, CallWith
    <2>4. Send(<<c>>)
      BY <1>5, <2>1, <2>2
    <2> QED
      BY <1>1, <1>2, <2>2, <2>3, <2>4, ClickCall
  <1>6. ASSUME NEW s, Send(<<Call("unsource", [id |-> s, ep |-> panel.episode])>>) PROVE ScreenInv'
    <2>1. PICK x : x = [id |-> s, ep |-> panel.episode]
      OBVIOUS
    <2>2. PICK c : c = Call("unsource", x)
      OBVIOUS
    <2>3. AboutThis(c, x)' /\ "unsource" \in HomeOps(panel'.kind)
      BY <1>2, <2>1, <2>2, HomeOpsAre DEF AboutThis, WriteOps, Call, CallWith
    <2>4. Send(<<c>>)
      BY <1>6, <2>1, <2>2
    <2> QED
      BY <1>1, <1>2, <2>2, <2>3, <2>4, ClickCall
  <1>7. ASSUME NEW op, NEW x, op \in {"revisions", "revision"}, Send(<<Call(op, x)>>) PROVE ScreenInv'
    <2>1. op \notin Duties
      BY <1>7 DEF Duties, AdminOps, ChatOps, SearchOps, MaterialsOps, WriteOps, SettingsOps, BoardOps
    <2> QED
      BY <1>2, <1>7, <2>1, ClickAside
  <1>8. CASE NewArticleForm \/ Checklist
    BY <1>3, <1>8 DEF NewArticleForm, Checklist
  <1>9. CASE SourcesPanel
    <2>1. CASE UNCHANGED calls
      BY <1>3, <2>1
    <2>2. CASE AddSource
      BY <1>3, <1>5, <2>2 DEF AddSource
    <2>3. CASE \E s \in DOMAIN db.sources : RemoveSource(s)
      BY <1>6, <2>3 DEF RemoveSource
    <2> QED
      BY <1>9, <2>1, <2>2, <2>3 DEF SourcesPanel
  <1>10. CASE OpenHistory
    <2>1. PICK x : Send(<<Call("revisions", x)>>)
      BY <1>10 DEF OpenHistory
    <2> QED
      BY <1>7, <2>1
  <1>11. CASE HistoryPanel
    <2>1. CASE UNCHANGED calls
      BY <1>3, <2>1
    <2>2. ASSUME NEW r, CompareRevision(r) PROVE ScreenInv'
      <3>1. PICK x : Send(<<Call("revision", x)>>)
        BY <2>2 DEF CompareRevision
      <3> QED
        BY <1>7, <3>1
    <2> QED
      BY <1>11, <2>1, <2>2 DEF HistoryPanel
  <1> QED
    BY <1>4, <1>8, <1>9, <1>10, <1>11


LEMMA WriteRead ==
    ASSUME Here, Inside, NEW i \in DOMAIN calls, panel' = panel, db' = db,
           \/ Arrives(i, "episodes") /\ Serve(i, EpisodesListed)
           \/ Arrives(i, "sources") /\ Serve(i, SourcesOf(Arg(i)))
           \/ Arrives(i, "revisions") /\ Serve(i, {Arg(i)} \X {1})
           \/ Arrives(i, "revision") /\ (Serve(i, None) \/ Refuse(i))
    PROVE  ScreenInv'
  <1>1. CASE calls[i].op \in {"revisions", "revision"}
    <2>1. {"revisions", "revision"} \cap Duties = {} /\ "revision" \in Refusable
      BY DEF Duties, AdminOps, ChatOps, SearchOps, MaterialsOps, WriteOps, SettingsOps, BoardOps, Refusable
    <2>2. PICK y : Serve(i, y) \/ (Refuse(i) /\ calls[i].op = "revision")
      BY <1>1 DEF Arrives
    <2> QED
      BY <1>1, <2>1, <2>2, QuietHere, SameIsStill, QuietServe DEF Arrives
  <1>2. CASE calls[i].op \in {"episodes", "sources"}
    <2>1. PICK y : /\ Serve(i, y)
                   /\ calls[i].op = "episodes" => y = EpisodesListed
                   /\ calls[i].op = "sources" => y = SourcesOf(Arg(i))
      BY <1>2 DEF Arrives
    <2>2. Answers(calls[i], Arg(i), y) /\ calls[i].status = "sent"
      BY <1>2, <2>1 DEF Answers, Arrives
    <2> QED
      BY <1>2, <2>1, <2>2, InsideSame, ReadServedStep
  <1> QED
    BY <1>1, <1>2 DEF Arrives

LEMMA SourceWritten ==
    ASSUME Here, Inside, NEW i \in DOMAIN calls, panel' = panel,
           Arrives(i, "source") \/ Arrives(i, "unsource"), Serve(i, None), \E s : db' = [db EXCEPT !.sources = s]
    PROVE  ScreenInv'
  <1>1. calls[i].op \in {"source", "unsource"} /\ calls[i].status = "sent"
    BY DEF Arrives
  <1>2. Fact(calls[i]) /\ AboutThis(calls[i], Arg(i))
    BY <1>1, CallHas
  <1>3. panel.kind = "write"
    BY <1>1, <1>2 DEF Fact, AtHome, WriteOps
  <1>4. PICK c : c = ServedCall(calls[i], None)
    OBVIOUS
  <1>5. PICK x : x = Arg(i)
    OBVIOUS
  <1>6. c.op = calls[i].op /\ c.status = "ok"
    BY <1>4, CallHas, ServedIs
  <1>7. AboutThis(c, x)' /\ Answers(c, x, None)'
    BY <1>1, <1>2, <1>5, <1>6 DEF AboutThis, Answers
  <1>8. calls' = [calls EXCEPT ![i] = c] /\ Fact(c)'
    BY <1>1, <1>4, <1>5, <1>7, WrittenFact
  <1>9. db'.chat = db.chat /\ db'.numbers = db.numbers /\ db'.projects = db.projects /\ db'.answering = db.answering
    OBVIOUS
  <1>10. StoreOK' /\ ProjectsStay
    BY <1>9, StoreOther DEF Here, ScreenInv
  <1>11. ASSUME NEW p \in Own(panel.kind), IsRight(p) \/ Owes(calls[i], p) PROVE IsRight(p)' \/ Owes(c, p)'
    <2>1. CASE p = "list"
      <3>1. ~Owes(calls[i], p)
        BY <1>1, <2>1 DEF Owes
      <3>2. IsRight(p)
        BY <1>11, <3>1
      <3> QED
        BY <1>9, <2>1, <3>2 DEF IsRight
    <2>2. CASE p = "sources"
      BY <1>1, <1>6, <2>2 DEF Owes
    <2> QED
      BY <1>3, <1>11, <2>1, <2>2, OwnParts
  <1> QED
    BY <1>1, <1>6, <1>8, <1>9, <1>10, <1>11, InsideSame, WriteServedStep DEF Writes

AddsArticle(i) == calls[i].op = "new article"

LEMMA ArticleWritten ==
    ASSUME Here, Inside, NEW i \in DOMAIN calls, panel' = panel,
           AddsArticle(i), calls[i].status = "sent", Serve(i, None), db' = EpisodeAdded(Arg(i))
    PROVE  ScreenInv'
  <1>1. calls[i].op \in Writes /\ calls[i].op \in WriteOps /\ calls[i].op # "void"
    BY DEF AddsArticle, Writes, WriteOps
  <1>2. Fact(calls[i]) /\ AboutThis(calls[i], Arg(i))
    BY <1>1, CallHas
  <1>3. panel.kind = "write"
    BY <1>1, <1>2 DEF Fact, AtHome
  <1>4. PICK c : c = ServedCall(calls[i], None)
    OBVIOUS
  <1>5. PICK x : x = Arg(i)
    OBVIOUS
  <1>6. c.op = calls[i].op /\ c.status = "ok"
    BY <1>4, CallHas, ServedIs
  <1>7. AboutThis(c, x)' /\ Answers(c, x, None)'
    BY <1>6 DEF AboutThis, Answers, AddsArticle
  <1>8. calls' = [calls EXCEPT ![i] = c] /\ Fact(c)'
    BY <1>1, <1>4, <1>5, <1>7, WrittenFact
  <1>9. Free(Arg(i))
    BY <1>2 DEF AboutThis, AddsArticle
  <1>10. StoreOK' /\ ProjectsStay /\ db'.answering = db.answering /\ db'.sources = db.sources
    BY <1>9, EpisodeMore
  <1>11. ASSUME NEW p \in Own(panel.kind), IsRight(p) \/ Owes(calls[i], p) PROVE IsRight(p)' \/ Owes(c, p)'
    <2>1. CASE p = "list"
      BY <1>6, <2>1 DEF Owes, AddsArticle
    <2>2. CASE p = "sources"
      <3>1. ~Owes(calls[i], p)
        BY <2>2 DEF Owes, AddsArticle
      <3>2. IsRight(p)
        BY <1>11, <3>1
      <3> QED
        BY <1>10, <2>2, <3>2 DEF IsRight, SourcesOf
    <2> QED
      BY <1>3, <1>11, <2>1, <2>2, OwnParts
  <1> QED
    BY <1>1, <1>6, <1>8, <1>10, <1>11, InsideSame, WriteServedStep

LEMMA WriteServedAll ==
    ASSUME Here, Inside, NEW i \in DOMAIN calls, WriteServed(i)
    PROVE  ScreenInv'
  <1>1. panel' = panel
    BY DEF WriteServed
  <1>2. CASE Arrives(i, "unsource") /\ Refuse(i) /\ db' = db
    BY <1>1, <1>2, WriteRefused DEF Arrives, Writes, Refusable
  <1>3. CASE (Arrives(i, "source") \/ Arrives(i, "unsource")) /\ Serve(i, None) /\ \E s : db' = [db EXCEPT !.sources = s]
    BY <1>1, <1>3, SourceWritten
  <1>4. CASE Arrives(i, "new article") /\ Serve(i, None) /\ db' = EpisodeAdded(Arg(i))
    BY <1>1, <1>4, ArticleWritten DEF Arrives, AddsArticle
  <1>5. CASE /\ db' = db
             /\ \/ Arrives(i, "episodes") /\ Serve(i, EpisodesListed)
                \/ Arrives(i, "sources") /\ Serve(i, SourcesOf(Arg(i)))
                \/ Arrives(i, "revisions") /\ Serve(i, {Arg(i)} \X {1})
                \/ Arrives(i, "revision") /\ (Serve(i, None) \/ Refuse(i))
    BY <1>1, <1>5, WriteRead
  <1> QED
    BY <1>2, <1>3, <1>4, <1>5 DEF WriteServed

LEMMA EpisodesLoadedStep ==
    ASSUME Here, Inside, NEW i \in DOMAIN calls, EpisodesLoaded(i)
    PROVE  ScreenInv'
  <1>1. calls[i].op = "episodes" /\ calls[i].status = "ok" /\ db' = db
    BY DEF EpisodesLoaded, Returned
  <1>2. Fact(calls[i]) /\ Answers(calls[i], Arg(i), Ans(i))
    BY <1>1, CallHas
  <1>3. panel.kind = "write" /\ calls[i].live /\ Ans(i) = EpisodesListed
    BY <1>1, <1>2 DEF Fact, AtHome, WriteOps, Answers
  <1>4. {"list", "last", "episode", "sources", "kind"} \subseteq DOMAIN panel
    BY <1>3 DEF Here, ScreenInv, FieldsOK, Inv, PanelOK
  <1>5. PICK first : /\ panel' = [panel EXCEPT !.list = Ans(i), !.last = LastNumber(Ans(i)), !.episode = first]
                     /\ Continue(i, IF first = panel.episode THEN <<>> ELSE SourceCalls(first))
    BY <1>3 DEF EpisodesLoaded
  <1>6. /\ DOMAIN panel' = DOMAIN panel /\ panel'.kind = "write" /\ panel'.list = Ans(i) /\ panel'.last = LastNumber(Ans(i))
        /\ panel'.episode = first /\ panel'.sources = panel.sources
    BY <1>3, <1>4, <1>5
  <1>7. FieldsOK' /\ StoreOK'
    BY <1>1, <1>4, <1>6, StoreKept DEF FieldsOK, Here, ScreenInv
  <1>8. IsRight("list")'
    <2>1. ASSUME Len(db.numbers) <= ListLimit
          PROVE  /\ panel'.list = DOMAIN db.numbers
                 /\ panel'.last \in Nat
                 /\ \A k \in DOMAIN db.numbers : db.numbers[k] <= panel'.last
      <3>1. IsList(db.numbers) /\ Distinct(db.numbers)
        BY <2>1 DEF Here, ScreenInv, StoreOK
      <3>2. Ans(i) = DOMAIN db.numbers
        BY <1>3, <2>1, <3>1, AllListed
      <3>3. panel'.last = LastNumber(DOMAIN db.numbers)
        BY <1>6, <3>2
      <3> QED
        BY <1>6, <3>1, <3>2, <3>3, LastNumberIs
    <2> QED
      BY <1>1, <2>1 DEF IsRight
  <1>9. CASE first = panel.episode
    <2>1. Continue(i, <<>>)
      BY <1>5, <1>9
    <2>2. ASSUME NEW p \in Own(panel.kind), IsRight(p) \/ Owes(calls[i], p) PROVE IsRight(p)'
      <3>1. CASE p = "sources"
        <4>1. ~Owes(calls[i], p)
          BY <1>1, <3>1 DEF Owes
        <4>2. IsRight(p)
          BY <2>2, <4>1
        <4> QED
          BY <1>1, <1>3, <1>6, <1>9, <3>1, <4>2 DEF IsRight, SourcesOf
      <3> QED
        BY <1>3, <1>8, <2>2, <3>1, OwnParts
    <2> QED
      BY <1>1, <1>3, <1>6, <1>7, <2>1, <2>2, ReadOverNone DEF Writes, Passive, AdminOps
  <1>10. CASE first # panel.episode
    <2>1. PICK c : c = Call("sources", first)
      OBVIOUS
    <2> DEFINE cs == <<c>>
    <2>2. Continue(i, cs)
      BY <1>5, <1>10, <2>1 DEF SourceCalls
    <2>3. AboutThis(c, first)' /\ "sources" \in HomeOps(panel'.kind)
      BY <1>6, <2>1, HomeOpsAre DEF AboutThis, WriteOps, Call, CallWith
    <2>4. Fact(c)' /\ c.status = "sent" /\ c.op = "sources"
      BY <2>1, <2>3, CallFact
    <2>5. OneByOne(cs) /\ ToSet(cs) = {c} /\ IsList(cs)
      BY <2>4, OneSent
    <2> HIDE DEF cs
    <2>6. Alone'
      BY <1>1, <2>2, <2>4, <2>5, AloneRead DEF Here, Writes, Passive, AdminOps
    <2>7. ASSUME NEW p \in Own(panel.kind) PROVE IsRight(p)' \/ Owes(c, p)'
      BY <1>3, <1>8, <2>4, <2>7, OwnParts DEF Owes
    <2> QED
      BY <1>1, <1>3, <1>6, <1>7, <2>2, <2>4, <2>5, <2>6, <2>7, InsideSame, ReadOverStep DEF Writes, Passive, AdminOps
  <1> QED
    BY <1>9, <1>10

LEMMA SourcesLoadedStep ==
    ASSUME Here, Inside, NEW i \in DOMAIN calls, SourcesLoaded(i)
    PROVE  ScreenInv'
  <1>1. calls[i].op = "sources" /\ calls[i].status = "ok" /\ Continue(i, <<>>) /\ db' = db
    BY DEF SourcesLoaded, Returned
  <1>2. Fact(calls[i]) /\ AboutThis(calls[i], Arg(i)) /\ Answers(calls[i], Arg(i), Ans(i))
    BY <1>1, CallHas
  <1>3. panel.kind = "write" /\ calls[i].live /\ Ans(i) = SourcesOf(panel.episode)
    BY <1>1, <1>2 DEF Fact, AtHome, WriteOps, AboutThis, Answers
  <1>4. {"list", "last", "episode", "sources", "kind"} \subseteq DOMAIN panel
    BY <1>3 DEF Here, ScreenInv, FieldsOK, Inv, PanelOK
  <1>5. panel' = [panel EXCEPT !.sources = Ans(i)]
    BY <1>3 DEF SourcesLoaded
  <1>6. /\ DOMAIN panel' = DOMAIN panel /\ panel'.kind = "write" /\ panel'.list = panel.list /\ panel'.last = panel.last
        /\ panel'.episode = panel.episode /\ panel'.sources = Ans(i)
    BY <1>3, <1>4, <1>5
  <1>7. FieldsOK' /\ StoreOK'
    BY <1>1, <1>4, <1>6, StoreKept DEF FieldsOK, Here, ScreenInv
  <1>8. ASSUME NEW p \in Own(panel.kind), IsRight(p) \/ Owes(calls[i], p) PROVE IsRight(p)'
    <2>1. CASE p = "list"
      <3>1. ~Owes(calls[i], p)
        BY <1>1, <2>1 DEF Owes
      <3>2. IsRight(p)
        BY <1>8, <3>1
      <3> QED
        BY <1>1, <1>3, <1>6, <2>1, <3>2 DEF IsRight
    <2>2. CASE p = "sources"
      BY <1>1, <1>3, <1>6, <2>2 DEF IsRight, SourcesOf
    <2> QED
      BY <1>3, <1>8, <2>1, <2>2, OwnParts
  <1> QED
    BY <1>1, <1>3, <1>6, <1>7, <1>8, ReadOverNone DEF Writes, Passive, AdminOps

LEMMA WriteChangedStep ==
    ASSUME Here, Inside, NEW i \in DOMAIN calls, ArticlePosted(i) \/ SourceChanged(i)
    PROVE  ScreenInv'
  <1>1. calls[i].op \in {"new article", "source", "unsource"} /\ calls[i].status = "ok" /\ db' = db
    BY DEF ArticlePosted, SourceChanged, Returned
  <1>2. Fact(calls[i]) /\ AboutThis(calls[i], Arg(i))
    BY <1>1, CallHas
  <1>3. panel.kind = "write" /\ calls[i].live = TRUE
    BY <1>1, <1>2, CallHas DEF Fact, AtHome, WriteOps, CallOK
  <1>4. PanelStill
    BY DEF PanelStill, ShownFields, ArticlePosted, SourceChanged
  <1>5. panel'.kind = "write" /\ panel'.episode = panel.episode
    BY <1>3, <1>4, ShownAre DEF Here, ScreenInv
  <1>6. CASE calls[i].op = "new article"
    <2>1. PICK c : c = Call("episodes", None)
      OBVIOUS
    <2>2. Continue(i, <<c>>)
      BY <1>3, <1>6, <2>1, LiveCall DEF ArticlePosted, SourceChanged, Returned
    <2>3. AboutThis(c, None)' /\ "episodes" \in HomeOps(panel'.kind)
      BY <1>5, <2>1, PlainAbout, HomeOpsAre DEF WriteOps, Call, CallWith
    <2>4. Fact(c)' /\ c.status = "sent" /\ c.op = "episodes"
      BY <2>1, <2>3, CallFact
    <2>5. \A p \in Own(panel.kind) : Owes(calls[i], p) => Owes(c, p)'
      BY <1>3, <1>6, <2>4, OwnParts DEF Owes
    <2> QED
      BY <1>1, <1>4, <1>6, <2>2, <2>4, <2>5, WriteOverStill DEF Writes
  <1>7. CASE calls[i].op \in {"source", "unsource"}
    <2>1. PICK k : k = panel.episode
      OBVIOUS
    <2>2. (IF calls[i].op = "source" THEN Arg(i) ELSE Arg(i).ep) = k
      BY <1>2, <1>7, <2>1 DEF AboutThis
    <2>3. PICK c : c = Call("sources", k)
      OBVIOUS
    <2>4. Continue(i, <<c>>)
      BY <1>3, <1>7, <2>2, <2>3, LiveCall DEF ArticlePosted, SourceChanged, Returned
    <2>5. AboutThis(c, k)' /\ "sources" \in HomeOps(panel'.kind)
      BY <1>5, <2>1, <2>3, HomeOpsAre DEF AboutThis, WriteOps, Call, CallWith
    <2>6. Fact(c)' /\ c.status = "sent" /\ c.op = "sources"
      BY <2>3, <2>5, CallFact
    <2>7. \A p \in Own(panel.kind) : Owes(calls[i], p) => Owes(c, p)'
      BY <1>3, <1>7, <2>6, OwnParts DEF Owes
    <2> QED
      BY <1>1, <1>4, <1>7, <2>4, <2>6, <2>7, WriteOverStill DEF Writes
  <1> QED
    BY <1>1, <1>6, <1>7

LEMMA WriteScreens ==
    ASSUME Here, WriteNext, Inside
    PROVE  ScreenInv'
  <1>1. ASSUME NEW i \in DOMAIN calls, HistoryShown(i) \/ Compared(i) PROVE ScreenInv'
    <2>1. calls[i].op \in {"revisions", "revision"} /\ calls[i].status # "asked" /\ Continue(i, <<>>) /\ db' = db /\ PanelStill
      BY <1>1 DEF HistoryShown, Compared, Returned, PanelStill, ShownFields
    <2>2. {"revisions", "revision"} \cap Duties = {}
      BY DEF Duties, AdminOps, ChatOps, SearchOps, MaterialsOps, WriteOps, SettingsOps, BoardOps
    <2> QED
      BY <2>1, <2>2, QuietHere, QuietOver
  <1>2. ASSUME NEW i \in DOMAIN calls, WriteThrown(i) PROVE ScreenInv'
    <2>1. Continue(i, <<>>) /\ db' = db /\ panel' = panel
      BY <1>2 DEF WriteThrown
    <2>2. calls[i].op \in {"unsource", "revision"} /\ calls[i].status = "failed"
      BY <1>2, FailedIs DEF WriteThrown, Thrown, Refusable, AdminOps
    <2>3. calls[i].status # "asked" /\ \A p \in Parts : ~Owes(calls[i], p)
      BY <2>2 DEF Owes, AdminOps
    <2> QED
      BY <2>1, <2>3, QuietHere, SameIsStill, QuietOver
  <1> QED
    BY <1>1, <1>2, SelectStep, WriteClicks, WriteServedAll, EpisodesLoadedStep, SourcesLoadedStep, WriteChangedStep DEF WriteNext


-----------------------------------------------------------------------------
(***************************************************************************)
(* Background imports.                                                     *)
(***************************************************************************)
LEMMA QuietThere ==
    ASSUME UNCHANGED <<auth, place>>, PanelStill, RowsStill
    PROVE  Quiet
  BY DEF auth, place, Quiet

\* Following an import is no business of what the screen shows.
LEMMA ImportApart ==
    /\ {"import", "poll"} \cap Duties = {}
    /\ {"import", "poll"} \cap Refusable = {}
    /\ "poll" \in Passive
  BY DEF Duties, AdminOps, ChatOps, SearchOps, MaterialsOps, WriteOps, SettingsOps, BoardOps, Refusable, Passive

LEMMA StartScreens ==
    ASSUME Here, UNCHANGED <<auth, place>>, NEW into, StartImport(into)
    PROVE  ScreenInv'
  <1>1. calls = <<>> /\ db' = db /\ PanelStill
    BY Waited DEF StartImport, PanelStill, ShownFields
  <1>2. PICK x : Send(<<Call("import", x)>>)
    BY DEF StartImport
  <1> QED
    BY <1>1, <1>2, SameIsStill, QuietThere, ImportApart, ClickAside

LEMMA JobMovedStill ==
    ASSUME Here, NEW j \in DOMAIN db.jobs, JobStep(j)
    PROVE  RowsStill
  <1>1. PICK s \in (IF db.jobs[j].status = "queued" THEN {"running", "error"} ELSE over) :
           LET makes == s = "running" /\ db.jobs[j].into = None IN
           db' = [db EXCEPT !.jobs[j].status = s,
                            !.jobs[j].into = IF makes THEN Len(db.projects) + 1 ELSE @,
                            !.projects = IF makes THEN Append(@, None) ELSE @]
    BY DEF JobStep
  <1> DEFINE t == db'.projects
  <1>2. (t = db.projects \/ t = Append(db.projects, None)) /\ \A f \in Rowed : db'[f] = db[f]
    BY <1>1 DEF Here, Inv, DbOK, DbFields, Rowed
  <1>3. IsList(db.projects)
    BY DEF Here, Inv, DbOK
  <1>4. ProjectsStay
    BY <1>1, <1>2, <1>3, AppendList DEF ProjectsStay
  <1> QED
    BY <1>2, <1>4 DEF RowsStill

LEMMA ImportScreens ==
    ASSUME Here, ImportNext, UNCHANGED <<auth, place>>
    PROVE  ScreenInv'
  <1>1. ASSUME NEW j \in DOMAIN db.jobs, JobStep(j) PROVE ScreenInv'
    <2>1. RowsStill /\ PanelStill /\ UNCHANGED calls
      BY <1>1, JobMovedStill, SameIsStill DEF JobStep
    <2> QED
      BY <2>1, QuietThere, QuietStay
  <1>2. ASSUME NEW w \in watch, Poll(w) PROVE ScreenInv'
    <2>1. PICK x : Send(<<Call("poll", x)>>)
      BY <1>2 DEF Poll
    <2>2. PICK c : c = Call("poll", x)
      OBVIOUS
    <2>3. c.op = "poll" /\ c.status = "sent"
      BY <2>2 DEF Call, CallWith
    <2> DEFINE cs == <<c>>
    <2>4. OneByOne(cs) /\ ToSet(cs) = {c} /\ Send(cs)
      BY <2>1, <2>2, <2>3, OneSent
    <2> HIDE DEF cs
    <2>5. Quiet
      BY <1>2, SameIsStill, QuietThere DEF Poll
    <2> QED
      BY <2>3, <2>4, <2>5, ImportApart, QuietSend
  <1>3. ASSUME NEW i \in DOMAIN calls, ImportServed(i) PROVE ScreenInv'
    <2>1. PICK y : Serve(i, y) /\ calls[i].op = "import" /\ calls[i].status = "sent"
      BY <1>3 DEF ImportServed, Arrives
    <2>2. db'.projects = db.projects /\ \A f \in Rowed : db'[f] = db[f]
      BY <1>3 DEF ImportServed, Rowed
    <2>3. Quiet
      BY <1>3, <2>2, SameIsStill, QuietThere DEF ImportServed, RowsStill, ProjectsStay
    <2> QED
      BY <2>1, <2>3, ImportApart, QuietServe
  <1>4. ASSUME NEW i \in DOMAIN calls, PollServed(i) PROVE ScreenInv'
    <2>1. PICK y : Serve(i, y) /\ calls[i].op = "poll" /\ calls[i].status = "sent"
      BY <1>4 DEF PollServed, Arrives
    <2>2. Quiet
      BY <1>4, SameIsStill, QuietThere DEF PollServed
    <2> QED
      BY <2>1, <2>2, ImportApart, QuietServe
  <1>5. ASSUME NEW i \in DOMAIN calls, ImportStarted(i) \/ ImportThrown(i) \/ PollAnswered(i) \/ PollThrown(i) PROVE ScreenInv'
    <2>1. calls[i].op \in {"import", "poll"} /\ calls[i].status # "asked" /\ Continue(i, <<>>) /\ db' = db
      BY <1>5 DEF ImportStarted, ImportThrown, PollAnswered, PollThrown, Returned, Thrown
    <2>2. PanelStill
      BY <1>5 DEF ImportStarted, ImportThrown, PollAnswered, PollThrown, PanelStill, ShownFields
    <2>3. Quiet
      BY <2>1, <2>2, SameIsStill, QuietThere
    <2> QED
      BY <2>1, <2>3, ImportApart, QuietOver
  <1> QED
    BY <1>1, <1>2, <1>3, <1>4, <1>5 DEF ImportNext


-----------------------------------------------------------------------------
(***************************************************************************)
(* The settings.                                                           *)
(***************************************************************************)
LEMMA SetStill ==
    ASSUME NEW ch, Set(ch), DOMAIN ch \cap (ShownFields \cup {"at"}) = {}
    PROVE  PanelStill
  BY DEF Set, PanelStill

\* What the answers bring into one of the fields that are shown.
LEMMA SettingsSet ==
    ASSUME Here, panel.kind = "settings", NEW ch, Set(ch), "kind" \notin DOMAIN ch
    PROVE  /\ panel'.kind = "settings" /\ FieldsOK' /\ DOMAIN panel' = DOMAIN panel
           /\ {"tab", "sys", "meant", "users", "usersError", "backups", "usage"} \subseteq DOMAIN panel
           /\ \A f \in DOMAIN panel : panel'[f] = IF f \in DOMAIN ch THEN ch[f] ELSE panel[f]
  <1>1. "kind" \in DOMAIN panel
    BY DEF Here, Inv, PanelOK
  <1>2. {"tab", "sys", "meant", "users", "usersError", "backups", "usage"} \subseteq DOMAIN panel
    BY DEF Here, ScreenInv, FieldsOK
  <1>3. panel'.kind = "settings" /\ DOMAIN panel' = DOMAIN panel
        /\ \A f \in DOMAIN panel : panel'[f] = IF f \in DOMAIN ch THEN ch[f] ELSE panel[f]
    BY <1>1 DEF Set
  <1> QED
    BY <1>2, <1>3 DEF FieldsOK

LEMMA AdminAbout ==
    ASSUME NEW c, c.op \in AdminOps, NEW x
    PROVE  AboutThis(c, x) /\ AboutThis(c, x)'
  BY DEF AboutThis, AdminOps

LEMMA SettingsApart ==
    {"generate", "test", "own", "export"} \cap Duties = {}
  BY DEF Duties, AdminOps, ChatOps, SearchOps, MaterialsOps, WriteOps, SettingsOps, BoardOps

LEMMA SetQuiet ==
    ASSUME Here, Inside, NEW ch, Set(ch), DOMAIN ch \cap (ShownFields \cup {"at"}) = {}, db' = db
    PROVE  PanelStill /\ Quiet /\ (UNCHANGED calls => ScreenInv')
  BY SetStill, QuietHere, QuietStay

LEMMA SettingsTyping ==
    ASSUME Here, Inside,
           TypeGuide \/ TypeConnection \/ (\E at : PickerStep(at))
              \/ \E u, field : field \in {"emailFor", "resetFor"} /\ OpenEditor(field, u)
    PROVE  ScreenInv'
  <1>1. PICK ch : Set(ch) /\ DOMAIN ch \cap (ShownFields \cup {"at"}) = {}
    <2>1. CASE TypeGuide
      <3>1. PICK g : Set([guide |-> g])
        BY <2>1 DEF TypeGuide
      <3>2. DOMAIN [guide |-> g] \cap (ShownFields \cup {"at"}) = {}
        BY DEF ShownFields
      <3> QED
        BY <3>1, <3>2
    <2>2. CASE TypeConnection
      <3>1. PICK v : Set([model |-> v]) \/ Set([key |-> v])
        BY <2>2 DEF TypeConnection
      <3>2. /\ DOMAIN [model |-> v] \cap (ShownFields \cup {"at"}) = {}
            /\ DOMAIN [key |-> v] \cap (ShownFields \cup {"at"}) = {}
        BY DEF ShownFields
      <3> QED
        BY <3>1, <3>2
    <2>3. ASSUME NEW at, PickerStep(at) PROVE \E ch : Set(ch) /\ DOMAIN ch \cap (ShownFields \cup {"at"}) = {}
      <3>1. Set([picker |-> at])
        BY <2>3 DEF PickerStep
      <3>2. DOMAIN [picker |-> at] \cap (ShownFields \cup {"at"}) = {}
        BY DEF ShownFields
      <3> QED
        BY <3>1, <3>2
    <2>4. ASSUME NEW u, NEW field \in {"emailFor", "resetFor"}, OpenEditor(field, u)
          PROVE  \E ch : Set(ch) /\ DOMAIN ch \cap (ShownFields \cup {"at"}) = {}
      <3>1. PICK ch : Set(ch) /\ ch = [x \in {field} |-> IF panel[field] = u THEN None ELSE u]
        BY <2>4 DEF OpenEditor
      <3>2. DOMAIN ch = {field} /\ field \notin ShownFields \cup {"at"}
        BY <3>1 DEF ShownFields
      <3> QED
        BY <3>1, <3>2
    <2> QED
      BY <2>1, <2>2, <2>3, <2>4
  <1>2. UNCHANGED calls /\ db' = db
    BY DEF TypeGuide, TypeConnection, PickerStep, OpenEditor
  <1> QED
    BY <1>1, <1>2, SetQuiet

LEMMA SettingsAside ==
    ASSUME Here, Inside, Generate \/ ExportAs \/ ChangeOwnPassword \/ \E k \in Tests : TestConnection(k)
    PROVE  ScreenInv'
  <1>1. CASE Generate
    <2>1. /\ calls = <<>> /\ db' = db /\ Set([guideBusy |-> TRUE]) /\ Begin(Call("generate", project.id))
      BY <1>1, Waited DEF Generate
    <2>2. DOMAIN [guideBusy |-> TRUE] \cap (ShownFields \cup {"at"}) = {}
      BY DEF ShownFields
    <2>3. Quiet
      BY <2>1, <2>2, SetQuiet
    <2> QED
      BY <2>1, <2>3, SettingsApart, AsideBegin
  <1>2. CASE ExportAs
    <2>1. /\ calls = <<>> /\ db' = db /\ Set([exporting |-> TRUE]) /\ Send(<<Call("export", project.id)>>)
      BY <1>2, Waited DEF ExportAs
    <2>2. DOMAIN [exporting |-> TRUE] \cap (ShownFields \cup {"at"}) = {}
      BY DEF ShownFields
    <2>3. Quiet
      BY <2>1, <2>2, SetQuiet
    <2> QED
      BY <2>1, <2>3, SettingsApart, ClickAside
  <1>3. ASSUME NEW k \in Tests, TestConnection(k) PROVE ScreenInv'
    <2>1. PICK t : /\ calls = <<>> /\ db' = db /\ Set([tests |-> t]) /\ Begin(Call("test", k))
      BY <1>3, Waited DEF TestConnection
    <2>2. DOMAIN [tests |-> t] \cap (ShownFields \cup {"at"}) = {}
      BY DEF ShownFields
    <2>3. Quiet
      BY <2>1, <2>2, SetQuiet
    <2> QED
      BY <2>1, <2>3, SettingsApart, AsideBegin
  <1>4. CASE ChangeOwnPassword
    <2>1. calls = <<>> /\ db' = db
      BY <1>4, Waited DEF ChangeOwnPassword
    <2>2. \/ Set([self |-> "mismatch"]) /\ UNCHANGED calls
          \/ Set([selfBusy |-> TRUE, self |-> None]) /\ \E x : Send(<<Call("own", x)>>)
      BY <1>4 DEF ChangeOwnPassword
    <2>3. /\ DOMAIN [self |-> "mismatch"] \cap (ShownFields \cup {"at"}) = {}
          /\ DOMAIN [selfBusy |-> TRUE, self |-> None] \cap (ShownFields \cup {"at"}) = {}
      BY DEF ShownFields
    <2>4. CASE Set([self |-> "mismatch"]) /\ UNCHANGED calls
      BY <2>1, <2>3, <2>4, SetQuiet
    <2>5. ASSUME Set([selfBusy |-> TRUE, self |-> None]), NEW x, Send(<<Call("own", x)>>) PROVE ScreenInv'
      <3>1. Quiet
        BY <2>1, <2>3, <2>5, SetQuiet
      <3> QED
        BY <2>1, <2>5, <3>1, SettingsApart, ClickAside
    <2> QED
      BY <2>2, <2>4, <2>5
  <1> QED
    BY <1>1, <1>2, <1>3, <1>4


\* The requests of this screen that need nothing more to be as they should.
SettingsPlain == {"system", "admin", "backups", "save", "backup"} \cup AdminOps

LEMMA PlainOps ==
    /\ {"system", "admin", "backups", "save", "backup", "users"} \subseteq SettingsPlain
    /\ AdminOps \subseteq SettingsPlain /\ SettingsPlain \subseteq SettingsOps /\ "users" \in AdminOps
  BY DEF SettingsPlain, SettingsOps, AdminOps

LEMMA SettingsCall ==
    ASSUME SettingsOps \subseteq HomeOps(panel'.kind), NEW op \in SettingsPlain, NEW x, NEW c, c = Call(op, x)
    PROVE  Fact(c)'
  <1>1. c.op = op /\ c.status = "sent"
    BY DEF Call, CallWith
  <1>2. AboutThis(c, x)'
    <2>1. CASE op \in AdminOps
      BY <1>1, <2>1, AdminAbout
    <2>2. CASE op \in {"system", "admin", "backups", "save", "backup"}
      BY <1>1, <2>2, PlainAbout
    <2> QED
      BY <2>1, <2>2 DEF SettingsPlain
  <1>3. op \in HomeOps(panel'.kind)
    BY PlainOps
  <1> QED
    BY <1>2, <1>3, CallFact

LEMMA UsageCall ==
    ASSUME SettingsOps \subseteq HomeOps(panel'.kind), NEW x \in {"summary", "recent"}, NEW c, c = Call("usage", x)
    PROVE  Fact(c)'
  <1>1. c.op = "usage" /\ c.status = "sent"
    BY DEF Call, CallWith
  <1>2. AboutThis(c, x)'
    BY <1>1 DEF AboutThis
  <1>3. "usage" \in HomeOps(panel'.kind)
    BY DEF SettingsOps
  <1> QED
    BY <1>2, <1>3, CallFact

LEMMA EntryCallsAre ==
    ASSUME SettingsOps \subseteq HomeOps(panel'.kind), NEW tab
    PROVE  /\ OneByOne(EntryCalls(tab)) /\ \A c \in ToSet(EntryCalls(tab)) : Fact(c)'
           /\ tab = "users" /\ panel.isAdmin = TRUE => \E c \in ToSet(EntryCalls(tab)) : Owes(c, "users")'
           /\ tab = "usage" => \A p \in {"summary", "recent"} : \E c \in ToSet(EntryCalls(tab)) : Owes(c, p)'
  <1>1. PICK s : s = Call("system", None)
    OBVIOUS
  <1>2. PICK x : x = Call("usage", "summary")
    OBVIOUS
  <1>3. PICK y : y = Call("usage", "recent")
    OBVIOUS
  <1>4. PICK a : a = Call("admin", None)
    OBVIOUS
  <1>5. PICK u : u = Call("users", None)
    OBVIOUS
  <1>6. PICK b : b = Call("backups", "tab")
    OBVIOUS
  <1>7. "users" \in AdminOps
    BY DEF AdminOps
  <1>8. /\ s.op = "system" /\ s.status = "sent" /\ Fact(s)'
        /\ x.op = "usage" /\ x.status = "sent" /\ x.arg["usage"] = "summary" /\ Fact(x)'
        /\ y.op = "usage" /\ y.status = "sent" /\ y.arg["usage"] = "recent" /\ Fact(y)'
        /\ a.op = "admin" /\ a.status = "sent" /\ Fact(a)'
        /\ u.op = "users" /\ u.status = "sent" /\ Fact(u)'
        /\ b.op = "backups" /\ b.status = "sent" /\ Fact(b)'
    <2>1. Fact(s)' /\ Fact(a)' /\ Fact(u)' /\ Fact(b)'
      BY <1>1, <1>4, <1>5, <1>6, PlainOps, SettingsCall
    <2>2. Fact(x)' /\ Fact(y)'
      BY <1>2, <1>3, UsageCall
    <2> QED
      BY <1>1, <1>2, <1>3, <1>4, <1>5, <1>6, <2>1, <2>2 DEF Call, CallWith, Tagged
  <1> DEFINE cs == EntryCalls(tab)
  <1>9. /\ IsList(<<s>>) /\ ToSet(<<s>>) = {s}
        /\ IsList(<<x, y>>) /\ ToSet(<<x, y>>) = {x, y}
        /\ IsList(<<b>>) /\ ToSet(<<b>>) = {b}
        /\ IsList(<<a>>) /\ ToSet(<<a>>) = {a}
        /\ IsList(<<u>>) /\ ToSet(<<u>>) = {u}
        /\ IsList(<<>>) /\ ToSet(<<>>) = {}
    BY OneList, TwoList, SetOfOne, SetOfTwo, NoneSent
  <1>10. /\ IsList(<<a>> \o <<u>>) /\ ToSet(<<a>> \o <<u>>) = {a} \cup {u}
         /\ IsList(<<a>> \o <<>>) /\ ToSet(<<a>> \o <<>>) = {a} \cup {}
    BY <1>9, JoinList
  <1>11. /\ IsList(cs)
         /\ ToSet(cs) \subseteq {s, x, y, a, u, b}
         /\ tab = "usage" => x \in ToSet(cs) /\ y \in ToSet(cs)
         /\ tab = "users" /\ panel.isAdmin = TRUE => u \in ToSet(cs)
    <2>1. CASE tab = "connection"
      BY <2>1, <1>1, <1>9 DEF EntryCalls
    <2>2. CASE tab = "usage"
      BY <2>2, <1>2, <1>3, <1>9 DEF EntryCalls
    <2>3. CASE tab = "users"
      BY <2>3, <1>4, <1>5, <1>9, <1>10 DEF EntryCalls
    <2>4. CASE tab = "backup"
      BY <2>4, <1>6, <1>9 DEF EntryCalls
    <2>5. CASE tab \notin {"connection", "usage", "users", "backup"}
      BY <2>5, <1>9 DEF EntryCalls
    <2> QED
      BY <2>1, <2>2, <2>3, <2>4, <2>5
  <1> HIDE DEF cs
  <1>12. {"system", "usage", "admin", "users", "backups"} \cap (Writes \cup {"episodes", "sources"}) = {}
    BY DEF Writes, AdminOps
  <1>13. OneByOne(cs)
    BY <1>8, <1>11, <1>12, OneByOneReads
  <1>14. \A c \in ToSet(cs) : Fact(c)'
    BY <1>8, <1>11
  <1>15. Owes(u, "users")'
    BY <1>7, <1>8 DEF Owes
  <1>16. Owes(x, "summary")' /\ Owes(y, "recent")'
    BY <1>8 DEF Owes
  <1>17. tab = "usage" => \A p \in {"summary", "recent"} : \E c \in ToSet(cs) : Owes(c, p)'
    BY <1>11, <1>16
  <1>18. tab = "users" /\ panel.isAdmin = TRUE => \E c \in ToSet(cs) : Owes(c, "users")'
    BY <1>11, <1>15
  <1> QED
    BY <1>13, <1>14, <1>17, <1>18 DEF cs

\* What of the settings is right stays right where the rows and what is shown of them stay.
LEMMA SettingsRight ==
    ASSUME Here, panel.kind = "settings", panel'.kind = "settings", db' = db, NEW p \in Own("settings"), IsRight(p)
    PROVE  /\ p = "sys" /\ panel'.sys = panel.sys => IsRight(p)'
           /\ p = "key" /\ panel'.meant = panel.meant => IsRight(p)'
           /\ p = "users" /\ panel'.users = panel.users /\ (panel.usersError => panel'.usersError) => IsRight(p)'
           /\ p = "backups" /\ panel'.backups = panel.backups => IsRight(p)'
           /\ p \in {"summary", "recent"} /\ panel'.usage = panel.usage /\ (panel'.tab = "usage" => panel.tab = "usage") => IsRight(p)'
  <1>1. SystemOut' = SystemOut /\ Listing' = Listing
    BY RowsAre, SameIsStill
  <1>2. p = "sys" /\ panel'.sys = panel.sys => IsRight(p)'
    BY <1>1 DEF IsRight
  <1>3. p = "key" /\ panel'.meant = panel.meant => IsRight(p)'
    BY DEF IsRight
  <1>4. p = "users" /\ panel'.users = panel.users /\ (panel.usersError => panel'.usersError) => IsRight(p)'
    BY <1>1 DEF IsRight
  <1>5. p = "backups" /\ panel'.backups = panel.backups => IsRight(p)'
    BY DEF IsRight
  <1>6. p \in {"summary", "recent"} /\ panel'.usage = panel.usage /\ (panel'.tab = "usage" => panel.tab = "usage") => IsRight(p)'
    BY DEF IsRight
  <1> QED
    BY <1>2, <1>3, <1>4, <1>5, <1>6

LEMMA TabBarStep ==
    ASSUME Here, Inside, NEW tab, TabBar(tab)
    PROVE  ScreenInv'
  <1>1. panel.kind = "settings" /\ Send(EntryCalls(tab)) /\ db' = db /\ calls = <<>>
    <2>1. PICK op : User(op)
      BY DEF TabBar
    <2> QED
      BY <2>1, Waited DEF TabBar, OnSettings
  <1>2. PICK g : Set([tab |-> tab, guide |-> g, usersError |-> panel.usersError /\ ~(tab = "users" /\ panel.isAdmin = TRUE)])
    BY DEF TabBar
  <1>3. PICK ch : ch = [tab |-> tab, guide |-> g, usersError |-> panel.usersError /\ ~(tab = "users" /\ panel.isAdmin = TRUE)]
    OBVIOUS
  <1>4. /\ DOMAIN ch = {"tab", "guide", "usersError"} /\ ch.tab = tab /\ Set(ch)
        /\ ch.usersError <=> panel.usersError /\ ~(tab = "users" /\ panel.isAdmin = TRUE)
    BY <1>2, <1>3
  <1>5. /\ panel'.kind = "settings" /\ FieldsOK' /\ panel'.sys = panel.sys /\ panel'.meant = panel.meant
        /\ panel'.users = panel.users /\ panel'.backups = panel.backups /\ panel'.usage = panel.usage
        /\ panel'.tab = tab /\ (panel.usersError => panel'.usersError \/ (tab = "users" /\ panel.isAdmin = TRUE))
    BY <1>1, <1>4, SettingsSet
  <1> DEFINE cs == EntryCalls(tab)
  <1>6. /\ OneByOne(cs) /\ (\A c \in ToSet(cs) : Fact(c)') /\ Send(cs)
        /\ tab = "users" /\ panel.isAdmin = TRUE => \E c \in ToSet(cs) : Owes(c, "users")'
        /\ tab = "usage" => \A p \in {"summary", "recent"} : \E c \in ToSet(cs) : Owes(c, p)'
    <2>1. SettingsOps \subseteq HomeOps(panel'.kind)
      BY <1>5, HomeOpsAre
    <2> QED
      BY <1>1, <2>1, EntryCallsAre
  <1> HIDE DEF cs
  <1>7. ASSUME NEW p \in Own(panel'.kind), IsRight(p) PROVE IsRight(p)' \/ \E c \in ToSet(cs) : Owes(c, p)'
    <2>1. p \in Own("settings")
      BY <1>5
    <2>2. CASE p \in {"sys", "key", "backups"}
      BY <1>1, <1>5, <1>7, <2>1, <2>2, SettingsRight
    <2>3. CASE p = "users"
      BY <1>1, <1>5, <1>6, <1>7, <2>1, <2>3, SettingsRight
    <2>4. CASE p \in {"summary", "recent"}
      <3>1. CASE tab = "usage"
        BY <1>6, <2>4, <3>1
      <3>2. CASE tab # "usage"
        BY <1>1, <1>5, <1>7, <2>1, <2>4, <3>2, SettingsRight
      <3> QED
        BY <3>1, <3>2
    <2> QED
      BY <2>1, <2>2, <2>3, <2>4, OwnParts
  <1> QED
    BY <1>1, <1>5, <1>6, <1>7, InsideSame, ClickStep


LEMMA OnSettingsHome ==
    ASSUME panel'.kind = "settings"
    PROVE  SettingsOps \subseteq HomeOps(panel'.kind)
  BY HomeOpsAre

LEMMA SettingsClick ==
    ASSUME Here, Inside, calls = <<>>, panel.kind = "settings", panel'.kind = "settings", PanelStill, db' = db,
           NEW op \in SettingsPlain, NEW x, Send(<<Call(op, x)>>)
    PROVE  ScreenInv'
  <1>1. PICK c : c = Call(op, x)
    OBVIOUS
  <1>2. Fact(c)'
    BY <1>1, OnSettingsHome, SettingsCall
  <1>3. c.status = "sent" /\ Send(<<c>>)
    BY <1>1 DEF Call, CallWith
  <1> QED
    BY <1>2, <1>3, InsideSame, ClickOne

LEMMA SaveClicks ==
    ASSUME Here, Inside, panel.kind = "settings", Save \/ RunBackupNow
    PROVE  ScreenInv'
  <1>1. PICK ch, op, x : Set(ch) /\ DOMAIN ch \cap (ShownFields \cup {"at"}) = {} /\ op \in SettingsPlain /\ Send(<<Call(op, x)>>)
    <2>1. CASE Save
      <3>1. PICK x : Set([busy |-> TRUE, saved |-> FALSE]) /\ Send(<<Call("save", x)>>)
        BY <2>1 DEF Save
      <3>2. DOMAIN [busy |-> TRUE, saved |-> FALSE] \cap (ShownFields \cup {"at"}) = {}
        BY DEF ShownFields
      <3> QED
        BY <3>1, <3>2, PlainOps
    <2>2. CASE RunBackupNow
      <3>1. Set([backupBusy |-> TRUE]) /\ Send(<<Call("backup", None)>>)
        BY <2>2 DEF RunBackupNow
      <3>2. DOMAIN [backupBusy |-> TRUE] \cap (ShownFields \cup {"at"}) = {}
        BY DEF ShownFields
      <3> QED
        BY <3>1, <3>2, PlainOps
    <2> QED
      BY <2>1, <2>2
  <1>2. db' = db /\ calls = <<>>
    BY Waited DEF Save, RunBackupNow
  <1>3. PanelStill
    BY <1>1, SetStill
  <1>4. panel'.kind = "settings"
    BY <1>3, ShownAre DEF Here, ScreenInv
  <1> QED
    BY <1>1, <1>2, <1>3, <1>4, SettingsClick

\* The server keeps or takes the key that is meant.
LEMMA KeyMeant ==
    ASSUME NEW x, NEW m,
           \/ "key" \notin DOMAIN x /\ m = db.config["key"]
           \/ "key" \in DOMAIN x /\ x["key"] = Blank /\ m = None
           \/ "key" \in DOMAIN x /\ x["key"] # Blank /\ m = x["key"]
    PROVE  ConfigAfter(x).key = m
  BY DEF ConfigAfter

LEMMA PutStep ==
    ASSUME Here, Inside, panel.kind = "settings", NEW x, NEW m, PutSettings(x, m), ConfigAfter(x).key = m
    PROVE  ScreenInv'
  <1>1. calls = <<>> /\ db' = db /\ Set([sysBusy |-> TRUE, sysSaved |-> FALSE, meant |-> m]) /\ Send(<<Call("put", x)>>)
    BY Waited DEF PutSettings
  <1>2. PICK ch : ch = [sysBusy |-> TRUE, sysSaved |-> FALSE, meant |-> m]
    OBVIOUS
  <1>3. DOMAIN ch = {"sysBusy", "sysSaved", "meant"} /\ ch.meant = m /\ Set(ch)
    BY <1>1, <1>2
  <1>4. /\ panel'.kind = "settings" /\ FieldsOK' /\ panel'.sys = panel.sys /\ panel'.meant = m
        /\ panel'.users = panel.users /\ panel'.backups = panel.backups /\ panel'.usage = panel.usage
        /\ panel'.tab = panel.tab /\ panel'.usersError = panel.usersError
    BY <1>3, SettingsSet
  <1>5. PICK c : c = Call("put", x)
    OBVIOUS
  <1>6. c.op = "put" /\ c.status = "sent"
    BY <1>5 DEF Call, CallWith
  <1>7. ConfigAfter(x)' = ConfigAfter(x)
    BY <1>1 DEF ConfigAfter
  <1>8. AboutThis(c, x)'
    BY <1>4, <1>6, <1>7 DEF AboutThis
  <1>9. "put" \in HomeOps(panel'.kind)
    BY <1>4, OnSettingsHome DEF SettingsOps
  <1>10. Fact(c)'
    BY <1>5, <1>8, <1>9, CallFact
  <1> DEFINE cs == <<c>>
  <1>11. OneByOne(cs) /\ ToSet(cs) = {c} /\ Send(cs)
    BY <1>1, <1>5, <1>6, OneSent
  <1> HIDE DEF cs
  <1>12. ASSUME NEW p \in Own(panel'.kind), IsRight(p) PROVE IsRight(p)' \/ Owes(c, p)'
    <2>1. p \in Own("settings")
      BY <1>4
    <2>2. CASE p = "key"
      BY <1>6, <2>2 DEF Owes
    <2>3. CASE p \in {"sys", "backups", "users", "summary", "recent"}
      BY <1>1, <1>4, <1>12, <2>1, <2>3, SettingsRight
    <2> QED
      BY <2>1, <2>2, <2>3, OwnParts
  <1> QED
    BY <1>1, <1>4, <1>10, <1>11, <1>12, InsideSame, ClickStep

LEMMA PutClicks ==
    ASSUME Here, Inside, panel.kind = "settings", SaveConnection \/ ResetField
    PROVE  ScreenInv'
  <1>1. PICK x, m : PutSettings(x, m) /\ \/ "key" \notin DOMAIN x /\ m = panel.meant
                                         \/ "key" \in DOMAIN x /\ x["key"] = Blank /\ m = None
                                         \/ "key" \in DOMAIN x /\ x["key"] # Blank /\ m = x["key"]
    <2>1. CASE SaveConnection
      <3>1. CASE panel.key = Blank
        <4>1. PutSettings([model |-> panel.model], panel.meant)
          BY <2>1, <3>1 DEF SaveConnection, Payload
        <4>2. "key" \notin DOMAIN [model |-> panel.model]
          OBVIOUS
        <4> QED
          BY <4>1, <4>2
      <3>2. CASE panel.key # Blank
        <4>1. PutSettings([model |-> panel.model, key |-> panel.key], panel.key)
          BY <2>1, <3>2 DEF SaveConnection, Payload
        <4>2. /\ "key" \in DOMAIN [model |-> panel.model, key |-> panel.key]
              /\ [model |-> panel.model, key |-> panel.key]["key"] = panel.key
          OBVIOUS
        <4> QED
          BY <3>2, <4>1, <4>2
      <3> QED
        BY <3>1, <3>2
    <2>2. CASE ResetField
      <3>1. PutSettings([model |-> Blank], panel.meant) \/ PutSettings([key |-> Blank], None)
        BY <2>2 DEF ResetField
      <3>2. /\ "key" \notin DOMAIN [model |-> Blank]
            /\ "key" \in DOMAIN [key |-> Blank] /\ [key |-> Blank]["key"] = Blank
        OBVIOUS
      <3> QED
        BY <3>1, <3>2
    <2> QED
      BY <2>1, <2>2
  <1>2. db.config["key"] = panel.meant
    <2>1. IsRight("key")
      BY <1>1, Waited DEF PutSettings, Parts
    <2> QED
      BY <2>1 DEF IsRight
  <1>3. ConfigAfter(x).key = m
    BY <1>1, <1>2, KeyMeant
  <1> QED
    BY <1>1, <1>3, PutStep

\* One who is an administrator no longer is told so by the answer.
LEMMA UserAsked ==
    ASSUME Here, Inside, calls = <<>>, panel.kind = "settings", NEW ch, Set(ch), DOMAIN ch \subseteq {"userBusy", "usersError"},
           db' = db, NEW op \in AdminOps, NEW x, Send(<<Call(op, x)>>)
    PROVE  ScreenInv'
  <1>1. /\ panel'.kind = "settings" /\ FieldsOK' /\ panel'.sys = panel.sys /\ panel'.meant = panel.meant
        /\ panel'.users = panel.users /\ panel'.backups = panel.backups /\ panel'.usage = panel.usage
        /\ panel'.tab = panel.tab
    BY SettingsSet
  <1>2. PICK c : c = Call(op, x)
    OBVIOUS
  <1>3. c.op = op /\ c.status = "sent"
    BY <1>2 DEF Call, CallWith
  <1>4. Fact(c)'
    BY <1>1, <1>2, PlainOps, OnSettingsHome, SettingsCall
  <1> DEFINE cs == <<c>>
  <1>5. OneByOne(cs) /\ ToSet(cs) = {c} /\ Send(cs)
    BY <1>2, <1>3, OneSent
  <1> HIDE DEF cs
  <1>6. Me \notin db.admins => Owes(c, "users")'
    BY <1>3 DEF Owes
  <1>7. ASSUME NEW p \in Own(panel'.kind), IsRight(p) PROVE IsRight(p)' \/ Owes(c, p)'
    <2>1. p \in Own("settings")
      BY <1>1
    <2>2. CASE p = "users"
      <3>1. CASE Me \notin db.admins
        BY <1>6, <2>2, <3>1
      <3>2. CASE Me \in db.admins
        <4>1. panel.users # None => panel.users = Listing
          BY <1>7, <2>2, <3>2 DEF IsRight
        <4>2. Listing' = Listing
          BY RowsAre, SameIsStill
        <4>3. panel'.users # None => panel'.users = Listing'
          BY <1>1, <4>1, <4>2
        <4> QED
          BY <2>2, <4>3 DEF IsRight
      <3> QED
        BY <3>1, <3>2
    <2>3. CASE p \in {"sys", "key", "backups", "summary", "recent"}
      BY <1>1, <1>7, <2>1, <2>3, SettingsRight
    <2> QED
      BY <2>1, <2>2, <2>3, OwnParts
  <1> QED
    BY <1>1, <1>4, <1>5, <1>7, InsideSame, ClickStep


LEMMA NewUserSent ==
    ASSUME NEW u, CreateNewUser(u)
    PROVE  \/ (\E v : Set([newUser |-> v])) /\ UNCHANGED calls
           \/ Set([userBusy |-> TRUE, usersError |-> FALSE]) /\ \E o, x : o \in AdminOps /\ Send(<<Call(o, x)>>)
  <1>1. PICK o : o = "new user"
    OBVIOUS
  <1>2. o \in AdminOps
    BY <1>1 DEF AdminOps
  <1>3. CASE (\E v : Set([newUser |-> v])) /\ UNCHANGED calls
    BY <1>3
  <1>4. CASE Set([userBusy |-> TRUE, usersError |-> FALSE]) /\ Send(<<Call(o, panel.newUser)>>)
    BY <1>2, <1>4
  <1>5. \/ (\E admin : Set([newUser |-> [name |-> u, admin |-> admin]])) /\ UNCHANGED calls
        \/ Set([userBusy |-> TRUE, usersError |-> FALSE]) /\ Send(<<Call(o, panel.newUser)>>)
    BY <1>1, Zenon DEF CreateNewUser
  <1> QED
    BY <1>3, <1>4, <1>5

LEMMA UserClicks ==
    ASSUME Here, Inside, panel.kind = "settings",
           \/ SubmitEmail \/ SubmitPasswordReset
           \/ \E u \in People : CreateNewUser(u) \/ \E op \in {"grant", "activate", "delete"} : ChangeUser(op, u)
    PROVE  ScreenInv'
  <1>1. PICK op : User(op) /\ db' = db
    BY DEF SubmitEmail, SubmitPasswordReset, CreateNewUser, ChangeUser
  <1>2. calls = <<>> /\ db' = db
    BY <1>1, Waited
  <1>3. ASSUME NEW ch, ch = [usersError |-> FALSE] \/ ch = [userBusy |-> TRUE, usersError |-> FALSE], Set(ch),
               NEW o \in AdminOps, NEW x, Send(<<Call(o, x)>>)
        PROVE  ScreenInv'
    <2>1. DOMAIN ch \subseteq {"userBusy", "usersError"}
      BY <1>3
    <2> QED
      BY <1>2, <1>3, <2>1, UserAsked
  <1>4. CASE SubmitEmail
    <2>1. PICK o, x : o \in AdminOps /\ Set([usersError |-> FALSE]) /\ Send(<<Call(o, x)>>)
      BY <1>4 DEF SubmitEmail, AdminOps
    <2> QED
      BY <1>3, <2>1
  <1>5. CASE SubmitPasswordReset
    <2>1. PICK o, x : o \in AdminOps /\ Set([usersError |-> FALSE]) /\ Send(<<Call(o, x)>>)
      BY <1>5 DEF SubmitPasswordReset, AdminOps
    <2> QED
      BY <1>3, <2>1
  <1>6. ASSUME NEW u, NEW o \in {"grant", "activate", "delete"}, ChangeUser(o, u) PROVE ScreenInv'
    <2>1. o \in AdminOps
      BY DEF AdminOps
    <2>2. PICK x : Set([usersError |-> FALSE]) /\ Send(<<Call(o, x)>>)
      BY <1>6 DEF ChangeUser
    <2> QED
      BY <1>3, <2>1, <2>2
  <1>7. ASSUME NEW u, CreateNewUser(u) PROVE ScreenInv'
    <2>1. \/ (\E v : Set([newUser |-> v])) /\ UNCHANGED calls
          \/ Set([userBusy |-> TRUE, usersError |-> FALSE]) /\ \E o, x : o \in AdminOps /\ Send(<<Call(o, x)>>)
      BY <1>7, NewUserSent
    <2>2. ASSUME NEW v, Set([newUser |-> v]), UNCHANGED calls PROVE ScreenInv'
      <3>1. DOMAIN [newUser |-> v] \cap (ShownFields \cup {"at"}) = {}
        BY DEF ShownFields
      <3> QED
        BY <1>2, <2>2, <3>1, SetQuiet
    <2> QED
      BY <1>3, <2>1, <2>2
  <1> QED
    BY <1>4, <1>5, <1>6, <1>7

LEMMA SettingsActs ==
    ASSUME Here, Inside, BasicTab \/ Picker \/ ConnectionTab \/ UsersTab \/ BackupTab \/ ExportTab \/ \E tab \in SettingsTabs : TabBar(tab)
    PROVE  ScreenInv'
  <1>1. CASE \E tab \in SettingsTabs : TabBar(tab)
    BY <1>1, TabBarStep
  <1>2. CASE BasicTab
    BY <1>2, SettingsTyping, SaveClicks DEF BasicTab, OnSettings
  <1>3. CASE Picker
    BY <1>3, SettingsTyping, SettingsAside DEF Picker
  <1>4. CASE ConnectionTab
    BY <1>4, SettingsTyping, PutClicks, SettingsAside DEF ConnectionTab, OnSettings
  <1>5. CASE UsersTab
    <2>1. /\ panel.kind = "settings"
          /\ \/ ChangeOwnPassword \/ SubmitEmail \/ SubmitPasswordReset
             \/ \E u \in People : \/ CreateNewUser(u)
                                  \/ \E op \in {"grant", "activate", "delete"} : ChangeUser(op, u)
                                  \/ \E field \in {"emailFor", "resetFor"} : OpenEditor(field, u)
      BY <1>5 DEF UsersTab, OnSettings
    <2> QED
      BY <2>1, SettingsAside, UserClicks, SettingsTyping
  <1>6. CASE BackupTab
    BY <1>6, SaveClicks DEF BackupTab, OnSettings
  <1>7. CASE ExportTab
    BY <1>7, SettingsAside DEF ExportTab
  <1> QED
    BY <1>1, <1>2, <1>3, <1>4, <1>5, <1>6, <1>7


\* A request that reads is answered or refused.
LEMMA ReadChangedStep ==
    ASSUME Here, NEW i \in DOMAIN calls, calls[i].op # "void", calls[i].status = "sent",
           NEW c, calls' = [calls EXCEPT ![i] = c], c.op = calls[i].op, Fact(c)',
           panel' = panel, db' = db, project' = project, authed' = authed,
           \A p \in Parts : Owes(calls[i], p) => Owes(c, p)'
    PROVE  ScreenInv'
  <1>1. Flight = Rest(i) \cup {calls[i]} /\ Flight' = Rest(i) \cup {c}
    BY FlightIs, FlightChange DEF Here
  <1>2. PanelStill /\ RowsStill
    BY SameIsStill
  <1>3. Alone'
    BY AloneChange DEF Here
  <1>4. AskedOK'
    <2> DEFINE G == {calls[i]}
    <2>1. Flight \subseteq Flight' \cup G /\ \A g \in G : g.status # "asked"
      BY <1>1
    <2> HIDE DEF G
    <2> QED
      BY <2>1, AskedStays DEF Here
  <1>5. FieldsOK' /\ StoreOK'
    BY <1>2, FieldsStay, StoreStays DEF Here, ScreenInv
  <1>6. \A e \in Flight' : Fact(e)'
    BY <1>1, <1>2, FactStays DEF Here
  <1>7. ASSUME NEW p \in Parts PROVE IsRight(p)' \/ Owed(p)'
    <2>1. CASE IsRight(p)
      BY <1>2, <2>1, RightStays DEF Here, ScreenInv
    <2>2. CASE Owed(p)
      <3>1. PICK e \in Flight : Owes(e, p)
        BY <2>2 DEF Owed
      <3>2. CASE e \in Rest(i)
        BY <3>1, <3>2, <1>1, <1>2, FactStays DEF Here, Owed
      <3>3. CASE e = calls[i]
        BY <3>1, <3>3, <1>1 DEF Owed
      <3> QED
        BY <3>2, <3>3, <1>1
    <2> QED
      BY <2>1, <2>2 DEF Here, ScreenInv
  <1> QED
    BY <1>3, <1>4, <1>5, <1>6, <1>7 DEF ScreenInv

\* What a change to the accounts leaves alone.
LEMMA AccountRows ==
    ASSUME Here, NEW op \in AdminOps, NEW x, db' = AccountsAfter(op, x)
    PROVE  /\ \A f \in DbFields \ {"users", "active", "admins", "mail", "hash"} : db'[f] = db[f]
           /\ op = "reset" => \A f \in DbFields \ {"hash"} : db'[f] = db[f]
           /\ op = "users" => db' = db
  <1>1. DOMAIN db = DbFields
    BY DEF Here, Inv, DbOK
  <1>2. op = "users" => db' = db
    BY DEF AccountsAfter
  <1>3. op = "reset" => db' = db \/ db' = Rehashed(db)
    BY DEF AccountsAfter
  <1>4. db' = Rehashed(db) => \A f \in DbFields \ {"hash"} : db'[f] = db[f]
    BY <1>1 DEF Rehashed
  <1>5. \/ UNCHANGED db
        \/ db' = Rehashed(db)
        \/ db' = [db EXCEPT !.users = @ \cup {x.name}, !.active = @ \cup {x.name}, !.admins = With(@, x.name, x.admin)]
        \/ db' = [db EXCEPT !.users = @ \ {x.name}, !.active = @ \ {x.name}, !.admins = @ \ {x.name}, !.mail = @ \ {x.name}]
        \/ db' = [db EXCEPT !["admins"] = With(@, x.name, x.to)]
        \/ db' = [db EXCEPT !["active"] = With(@, x.name, x.to)]
        \/ db' = [db EXCEPT !["mail"] = @ \cup {x.name}]
    BY DEF AccountsAfter, AdminOps
  <1> DEFINE Left == \A f \in DbFields \ {"users", "active", "admins", "mail", "hash"} : db'[f] = db[f]
  <1>6. ASSUME NEW u, NEW a, NEW m, NEW n, db' = [db EXCEPT !.users = u, !.active = a, !.admins = m, !.mail = n] PROVE Left
    BY <1>1, <1>6
  <1>7. ASSUME NEW u, NEW a, NEW m, db' = [db EXCEPT !.users = u, !.active = a, !.admins = m] PROVE Left
    BY <1>1, <1>7
  <1>8. ASSUME NEW f \in {"admins", "active", "mail"}, NEW a, db' = [db EXCEPT ![f] = a] PROVE Left
    BY <1>1, <1>8
  <1>9. Left
    <2>1. CASE \E f \in {"admins", "active", "mail"} : \E a : db' = [db EXCEPT ![f] = a]
      BY <1>8, <2>1
    <2>2. CASE db' = [db EXCEPT !.users = @ \cup {x.name}, !.active = @ \cup {x.name}, !.admins = With(@, x.name, x.admin)]
      BY <1>7, <2>2
    <2>3. CASE db' = [db EXCEPT !.users = @ \ {x.name}, !.active = @ \ {x.name}, !.admins = @ \ {x.name}, !.mail = @ \ {x.name}]
      <3>1. PICK u, a, m, n : u = db.users \ {x.name} /\ a = db.active \ {x.name} /\ m = db.admins \ {x.name} /\ n = db.mail \ {x.name}
        OBVIOUS
      <3>2. db' = [db EXCEPT !.users = u, !.active = a, !.admins = m, !.mail = n]
        BY <2>3, <3>1
      <3> QED
        BY <1>6, <3>2
    <2>4. CASE db' = db \/ db' = Rehashed(db)
      BY <1>4, <2>4
    <2> QED
      BY <1>5, <2>1, <2>2, <2>3, <2>4
  <1>10. op = "reset" => \A f \in DbFields \ {"hash"} : db'[f] = db[f]
    BY <1>3, <1>4
  <1> QED
    BY <1>2, <1>9, <1>10 DEF Left

LEMMA AdminAnswers ==
    ASSUME NEW c, c.op \in AdminOps \ {"users"}, NEW x, NEW y
    PROVE  (c.op = "reset" => Me \in db'.admins) => Answers(c, x, y)'
  BY DEF Answers, AdminOps

\* The requests about the accounts are not among those of the other screens.
LEMMA AdminApart ==
    /\ AdminOps \cap {"void", "put", "backup", "save", "usage", "backups", "history", "chat", "system", "admin", "own"} = {}
    /\ AdminOps \subseteq Refusable /\ AdminOps \ {"users"} \subseteq Writes \cap Refusable
    /\ "users" \notin Writes \cup Passive /\ AdminOps \subseteq SettingsOps
  BY DEF AdminOps, Refusable, Writes, Passive, SettingsOps

\* What a change of the accounts does not touch of what the settings show.
LEMMA SettingsRows ==
    ASSUME Here, panel.kind = "settings", panel' = panel, NEW p \in Own("settings"), IsRight(p)
    PROVE  /\ p \in {"sys", "key"} /\ db'.config = db.config => IsRight(p)'
           /\ p = "backups" /\ db'.backups = db.backups => IsRight(p)'
           /\ p \in {"summary", "recent"} => IsRight(p)'
           /\ p = "users" /\ db'.users = db.users /\ db'.admins = db.admins /\ db'.active = db.active /\ db'.mail = db.mail => IsRight(p)'
  <1>1. db'.config = db.config => SystemOut' = SystemOut
    BY DEF SystemOut, Effective
  <1>2. p \in {"sys", "key"} /\ db'.config = db.config => IsRight(p)'
    BY <1>1 DEF IsRight
  <1>3. p = "backups" /\ db'.backups = db.backups => IsRight(p)'
    BY DEF IsRight
  <1>4. p \in {"summary", "recent"} => IsRight(p)'
    BY DEF IsRight
  <1>5. db'.users = db.users /\ db'.admins = db.admins /\ db'.active = db.active /\ db'.mail = db.mail => Listing' = Listing
    BY DEF Listing
  <1>6. p = "users" /\ db'.users = db.users /\ db'.admins = db.admins /\ db'.active = db.active /\ db'.mail = db.mail => IsRight(p)'
    BY <1>5 DEF IsRight
  <1> QED
    BY <1>2, <1>3, <1>4, <1>6


LEMMA AccountsServedStep ==
    ASSUME Here, NEW i \in DOMAIN calls, AccountsServed(i), project' = project, authed' = authed
    PROVE  ScreenInv'
  <1>1. calls[i].op \in AdminOps /\ calls[i].status = "sent" /\ panel' = panel /\ calls[i].op # "void"
    BY AdminApart DEF AccountsServed, Arrives
  <1>2. panel.kind = "settings" /\ Fact(calls[i])
    BY <1>1, AdminApart, CallHas DEF Fact, AtHome
  <1>3. CASE Refused(calls[i].op, Arg(i))
    <2>1. Refuse(i) /\ db' = db
      BY <1>3 DEF AccountsServed
    <2>2. CASE calls[i].op # "users"
      BY <1>1, <2>1, <2>2, AdminApart, WriteRefused
    <2>3. CASE calls[i].op = "users"
      <3>1. Me \notin db.admins
        BY <1>3, <2>3 DEF Refused
      <3>2. PICK c : c = RefusedCall(calls[i])
        OBVIOUS
      <3>3. /\ calls' = [calls EXCEPT ![i] = c] /\ c.op = calls[i].op /\ c.live = calls[i].live /\ c.status = "failed"
        BY <2>1, <3>2, CallHas, FlightRefuse, ServedIs DEF Here
      <3>4. AtHome(c)'
        BY <1>1, <1>2, <2>3, <3>3 DEF Fact, AtHome
      <3>5. AboutThis(c, c.arg[c.op])'
        BY <1>1, <3>3, AdminAbout
      <3>6. c.op \in Refusable /\ Me \notin db'.admins
        BY <1>1, <2>1, <3>1, <3>3, AdminApart
      <3>7. Fact(c)'
        BY <3>3, <3>4, <3>5, <3>6 DEF Fact
      <3>8. \A p \in Parts : Owes(calls[i], p) => Owes(c, p)'
        <4>1. ASSUME NEW p \in Parts, Owes(calls[i], p) PROVE p = "users"
          BY <2>3, <4>1 DEF Owes
        <4>2. Owes(c, "users")'
          BY <1>1, <2>3, <3>3 DEF Owes
        <4> QED
          BY <4>1, <4>2
      <3> QED
        BY <1>1, <2>1, <3>3, <3>7, <3>8, ReadChangedStep
    <2> QED
      BY <2>2, <2>3
  <1>4. CASE ~Refused(calls[i].op, Arg(i))
    <2>1. PICK y : y = Listing
      OBVIOUS
    <2>2. Serve(i, y) /\ db' = AccountsAfter(calls[i].op, Arg(i)) /\ Me \in db.admins
      BY <1>4, <2>1 DEF AccountsServed, Refused
    <2>3. /\ \A f \in DbFields \ {"users", "active", "admins", "mail", "hash"} : db'[f] = db[f]
          /\ calls[i].op = "reset" => \A f \in DbFields \ {"hash"} : db'[f] = db[f]
          /\ calls[i].op = "users" => db' = db
      BY <1>1, <2>2, AccountRows
    <2>4. CASE calls[i].op = "users"
      <3>1. Answers(calls[i], Arg(i), y)
        BY <2>1, <2>4 DEF Answers
      <3> QED
        BY <1>1, <2>2, <2>3, <2>4, <3>1, ReadServedStep
    <2>5. CASE calls[i].op # "users"
      <3>1. PICK c : c = ServedCall(calls[i], y)
        OBVIOUS
      <3>2. PICK x : x = Arg(i)
        OBVIOUS
      <3>3. c.op = calls[i].op /\ c.status = "ok"
        BY <3>1, CallHas, ServedIs
      <3>4. calls[i].op = "reset" => Me \in db'.admins
        BY <2>2, <2>3 DEF DbFields
      <3>5. AboutThis(c, x)' /\ Answers(c, x, y)'
        BY <1>1, <2>5, <3>3, <3>4, AdminAbout, AdminAnswers
      <3>6. calls' = [calls EXCEPT ![i] = c] /\ Fact(c)'
        BY <1>1, <2>2, <3>1, <3>2, <3>5, WrittenFact
      <3>7. /\ db'.chat = db.chat /\ db'.numbers = db.numbers /\ db'.projects = db.projects /\ db'.answering = db.answering
            /\ db'.config = db.config /\ db'.backups = db.backups
            /\ calls[i].op = "reset" => /\ db'.users = db.users /\ db'.admins = db.admins
                                        /\ db'.active = db.active /\ db'.mail = db.mail
        BY <2>3 DEF DbFields
      <3>8. StoreOK' /\ ProjectsStay
        BY <1>1, <3>7, StoreOther DEF Here, ScreenInv
      <3>9. ASSUME NEW p \in Own(panel.kind), IsRight(p) \/ Owes(calls[i], p) PROVE IsRight(p)' \/ Owes(c, p)'
        <4>1. ~Owes(calls[i], p)
          <5>1. p = "users" => ~Owes(calls[i], p)
            BY <1>1, <2>2, <2>5 DEF Owes
          <5>2. p # "users" => ~Owes(calls[i], p)
            BY <1>1 DEF Owes, AdminOps
          <5> QED
            BY <5>1, <5>2
        <4>2. p \in Own("settings") /\ IsRight(p)
          BY <1>2, <3>9, <4>1
        <4>3. CASE p = "users"
          <5>1. CASE calls[i].op = "reset"
            BY <1>1, <1>2, <3>7, <4>2, <4>3, <5>1, SettingsRows
          <5>2. CASE calls[i].op # "reset"
            BY <1>1, <3>3, <4>3, <5>2 DEF Owes
          <5> QED
            BY <5>1, <5>2
        <4>4. CASE p # "users"
          BY <1>1, <1>2, <3>7, <4>2, <4>4, SettingsRows, OwnParts
        <4> QED
          BY <4>3, <4>4
      <3>10. calls[i].op \in Writes
        BY <1>1, <2>5, AdminApart
      <3> QED
        BY <1>1, <3>3, <3>6, <3>7, <3>8, <3>9, <3>10, WriteServedStep
    <2> QED
      BY <2>4, <2>5
  <1> QED
    BY <1>3, <1>4

LEMMA OwnPasswordStep ==
    ASSUME Here, NEW i \in DOMAIN calls, OwnPasswordServed(i), project' = project, authed' = authed
    PROVE  ScreenInv'
  <1>1. calls[i].op = "own" /\ calls[i].status = "sent" /\ panel' = panel
    BY DEF OwnPasswordServed, Arrives
  <1>2. db' = db \/ db' = Rehashed(db)
    BY DEF OwnPasswordServed
  <1>3. db'.projects = db.projects /\ \A f \in Rowed : db'[f] = db[f]
    BY <1>2 DEF Rehashed, Rowed, Here, Inv, DbOK, DbFields
  <1>4. Quiet
    BY <1>1, <1>3, SameIsStill DEF Quiet, RowsStill, ProjectsStay
  <1>5. Serve(i, None) \/ Refuse(i)
    BY DEF OwnPasswordServed
  <1>6. calls[i].op \notin Duties /\ calls[i].op \in Refusable
    BY <1>1, SettingsApart DEF Refusable
  <1> QED
    BY <1>1, <1>4, <1>5, <1>6, QuietServe


\* The server takes the connection, makes a backup, or keeps the project.
LEMMA SettingsWritten ==
    ASSUME Here, Inside, NEW i \in DOMAIN calls, panel' = panel,
           \/ Arrives(i, "put") /\ Serve(i, SystemOut') /\ db' = [db EXCEPT !.config = ConfigAfter(Arg(i))]
           \/ Arrives(i, "save") /\ Serve(i, Arg(i)) /\ db' = [db EXCEPT !.projects[Arg(i).id] = Arg(i).guide]
           \/ Arrives(i, "backup") /\ Serve(i, None) /\ db' = [db EXCEPT !.backups = @ + 1]
    PROVE  ScreenInv'
  <1>1. calls[i].op \in {"put", "save", "backup"} /\ calls[i].status = "sent" /\ DOMAIN db = DbFields
    BY DEF Arrives, Here, Inv, DbOK
  <1>2. panel.kind = "settings" /\ Fact(calls[i])
    BY <1>1, CallHas DEF Fact, AtHome, SettingsOps
  <1>3. PICK y : Serve(i, y) /\ y = IF calls[i].op = "put" THEN SystemOut' ELSE IF calls[i].op = "save" THEN Arg(i) ELSE None
    BY DEF Arrives
  <1>4. PICK x : x = Arg(i)
    OBVIOUS
  <1>5. PICK c : c = ServedCall(calls[i], y)
    OBVIOUS
  <1>6. c.op = calls[i].op /\ c.status = "ok"
    BY <1>5, CallHas, ServedIs
  <1>7. AboutThis(c, x)'
    BY <1>1, <1>6 DEF AboutThis
  <1>8. /\ db'.chat = db.chat /\ db'.numbers = db.numbers /\ db'.answering = db.answering
        /\ db'.users = db.users /\ db'.admins = db.admins /\ db'.active = db.active /\ db'.mail = db.mail
        /\ calls[i].op = "put" => db'.config = ConfigAfter(x) /\ db'.backups = db.backups /\ db'.projects = db.projects
        /\ calls[i].op = "save" => /\ db'.config = db.config /\ db'.backups = db.backups
                                   /\ db'.projects = [db.projects EXCEPT ![x.id] = x.guide]
        /\ calls[i].op = "backup" => db'.config = db.config /\ db'.projects = db.projects
    BY <1>1, <1>4 DEF DbFields, Arrives
  <1>9. Answers(c, x, y)'
    <2>1. CASE calls[i].op = "put"
      BY <1>3, <1>6, <2>1 DEF Answers
    <2>2. CASE calls[i].op = "save"
      <3>1. x.id \in DOMAIN db.projects
        BY <1>4, <2>2, CallHas DEF ArgOK
      <3>2. y = x /\ db'.projects[y.id] = y.guide
        BY <1>3, <1>4, <1>8, <2>2, <3>1
      <3> QED
        BY <1>6, <2>2, <3>2 DEF Answers
    <2>3. CASE calls[i].op = "backup"
      BY <1>6, <2>3 DEF Answers
    <2> QED
      BY <1>1, <2>1, <2>2, <2>3
  <1>10. calls' = [calls EXCEPT ![i] = c] /\ Fact(c)'
    BY <1>1, <1>3, <1>4, <1>5, <1>7, <1>9, WrittenFact
  <1>11. StoreOK'
    BY <1>2, <1>8 DEF Here, ScreenInv, StoreOK
  <1>12. ProjectsStay \/ Owes(c, "copy")'
    BY <1>1, <1>6, <1>8 DEF ProjectsStay, Owes
  <1>13. ASSUME NEW p \in Own(panel.kind), IsRight(p) \/ Owes(calls[i], p) PROVE IsRight(p)' \/ Owes(c, p)'
    <2>1. p \in Own("settings")
      BY <1>2, <1>13
    <2>2. CASE calls[i].op = "put" /\ p = "sys"
      BY <1>6, <2>2 DEF Owes
    <2>3. CASE calls[i].op = "put" /\ p = "key"
      <3>1. AboutThis(calls[i], x)
        BY <1>1, <1>4, CallHas
      <3>2. ConfigAfter(x).key = panel.meant
        BY <1>1, <2>3, <3>1 DEF AboutThis
      <3>3. db'.config.key = panel'.meant
        BY <1>8, <2>3, <3>2
      <3> QED
        BY <2>3, <3>3 DEF IsRight
    <2>4. CASE calls[i].op = "backup" /\ p = "backups"
      BY <1>6, <2>4 DEF Owes
    <2>5. CASE /\ calls[i].op = "put" => p \notin {"sys", "key"}
               /\ calls[i].op = "backup" => p # "backups"
      <3>1. ~Owes(calls[i], p)
        <4>1. p = "users" => ~Owes(calls[i], p)
          BY <1>1, AdminApart DEF Owes
        <4>2. p # "users" => ~Owes(calls[i], p)
          BY <1>1, <2>1, <2>5, OwnParts DEF Owes
        <4> QED
          BY <4>1, <4>2
      <3> QED
        BY <1>1, <1>2, <1>8, <1>13, <2>1, <2>5, <3>1, SettingsRows, OwnParts
    <2> QED
      BY <2>2, <2>3, <2>4, <2>5
  <1> QED
    BY <1>1, <1>6, <1>8, <1>10, <1>11, <1>12, <1>13, InsideSame, WriteServedStep DEF Writes

LEMMA SettingsServedStep ==
    ASSUME Here, Inside, NEW i \in DOMAIN calls, SettingsServed(i)
    PROVE  ScreenInv'
  <1>1. panel' = panel
    BY DEF SettingsServed
  <1>2. CASE Arrives(i, "put") /\ db' = [db EXCEPT !.config = ConfigAfter(Arg(i))] /\ Serve(i, SystemOut')
    BY <1>1, <1>2, SettingsWritten
  <1>3. CASE Arrives(i, "save") /\ Serve(i, Arg(i)) /\ db' = [db EXCEPT !.projects[Arg(i).id] = Arg(i).guide]
    BY <1>1, <1>3, SettingsWritten
  <1>4. CASE Arrives(i, "backup") /\ Serve(i, None) /\ db' = [db EXCEPT !.backups = @ + 1]
    BY <1>1, <1>4, SettingsWritten
  <1>5. CASE /\ UNCHANGED db
             /\ \/ Arrives(i, "system") /\ Serve(i, SystemOut)
                \/ Arrives(i, "admin") /\ Serve(i, Me \in db.admins)
                \/ Arrives(i, "backups") /\ Serve(i, db.backups)
                \/ Arrives(i, "usage") /\ Serve(i, None)
    <2>1. PICK y : /\ Serve(i, y)
                   /\ calls[i].op = "system" => y = SystemOut
                   /\ calls[i].op = "backups" => y = db.backups
      BY <1>5 DEF Arrives
    <2>2. calls[i].op \in {"system", "admin", "backups", "usage"} /\ calls[i].status = "sent"
      BY <1>5 DEF Arrives
    <2>3. Answers(calls[i], Arg(i), y)
      BY <2>1, <2>2 DEF Answers
    <2> QED
      BY <1>1, <1>5, <2>1, <2>2, <2>3, InsideSame, ReadServedStep
  <1>6. ASSUME UNCHANGED db, NEW op \in {"generate", "test", "export"}, Arrives(i, op), Serve(i, None) PROVE ScreenInv'
    <2>1. calls[i].op \notin Duties /\ calls[i].status = "sent"
      BY <1>6, SettingsApart DEF Arrives
    <2>2. Quiet
      BY <1>1, <1>6, SameIsStill, QuietHere
    <2> QED
      BY <1>6, <2>1, <2>2, QuietServe
  <1> QED
    BY <1>2, <1>3, <1>4, <1>5, <1>6 DEF SettingsServed


\* A request of the screen is answered while it is mounted.
LEMMA SettingsShown ==
    ASSUME Here, NEW i \in DOMAIN calls, calls[i].op \in SettingsOps, NEW ch, Shown(i, ch)
    PROVE  panel.kind = "settings" /\ calls[i].live /\ Set(ch)
  <1>1. AtHome(calls[i])
    BY CallHas DEF Fact
  <1> QED
    BY <1>1 DEF AtHome, Shown

\* A load is over.
LEMMA SettingsReadOver ==
    ASSUME Here, Inside, NEW i \in DOMAIN calls, calls[i].op \in SettingsOps, calls[i].op \notin Writes \cup Passive,
           calls[i].status \in {"ok", "failed"}, panel.kind = "settings", NEW ch, Set(ch), "kind" \notin DOMAIN ch,
           Continue(i, <<>>), db' = db,
           \A p \in Own("settings") : IsRight(p) \/ Owes(calls[i], p) => IsRight(p)'
    PROVE  ScreenInv'
  <1>1. panel'.kind = "settings" /\ FieldsOK'
    BY SettingsSet
  <1>2. StoreOK'
    BY <1>1, StoreKept DEF Here, ScreenInv
  <1> QED
    BY <1>1, <1>2, ReadOverNone

LEMMA SettingsReads == {"system", "usage", "users", "backups", "admin"} \cap (Writes \cup Passive) = {}
  BY AdminApart DEF Writes, Passive

LEMMA SettingsLoads == {"system", "usage", "users", "backups", "admin", "put", "backup"} \subseteq SettingsOps
  <1>1. "users" \in AdminOps
    BY PlainOps
  <1> QED
    BY <1>1 DEF SettingsOps

LEMMA SystemLoadedStep ==
    ASSUME Here, Inside, NEW i \in DOMAIN calls, SystemLoaded(i)
    PROVE  ScreenInv'
  <1>1. calls[i].op = "system" /\ calls[i].status = "ok" /\ Continue(i, <<>>) /\ db' = db
    BY DEF SystemLoaded, Returned
  <1>2. PICK ch : ch = Applied(Ans(i)) /\ Shown(i, ch)
    BY DEF SystemLoaded
  <1>3. panel.kind = "settings" /\ Set(ch) /\ calls[i].op \in SettingsOps /\ calls[i].op \notin Writes \cup Passive
    BY <1>1, <1>2, SettingsShown, SettingsReads, SettingsLoads
  <1>4. DOMAIN ch = {"sys", "model", "key"} /\ ch.sys = SystemOut
    BY <1>1, <1>2, CallHas DEF Applied, Answers
  <1>5. /\ panel'.kind = "settings" /\ panel'.sys = SystemOut /\ panel'.meant = panel.meant /\ panel'.users = panel.users
        /\ panel'.usersError = panel.usersError /\ panel'.backups = panel.backups /\ panel'.usage = panel.usage
        /\ panel'.tab = panel.tab
    BY <1>3, <1>4, SettingsSet
  <1>6. SystemOut' = SystemOut
    BY <1>1 DEF SystemOut
  <1>7. ASSUME NEW p \in Own("settings"), IsRight(p) \/ Owes(calls[i], p) PROVE IsRight(p)'
    <2>1. ~Owes(calls[i], p)
      <3>1. p = "users" => ~Owes(calls[i], p)
        BY <1>1, AdminApart DEF Owes
      <3>2. p # "users" => ~Owes(calls[i], p)
        BY <1>1 DEF Owes
      <3> QED
        BY <3>1, <3>2
    <2>2. CASE p = "sys"
      BY <1>5, <1>6, <2>2 DEF IsRight
    <2>3. CASE p # "sys"
      BY <1>1, <1>3, <1>5, <1>7, <2>1, <2>3, SettingsRight, OwnParts
    <2> QED
      BY <2>2, <2>3
  <1> QED
    BY <1>1, <1>3, <1>4, <1>7, SettingsReadOver

LEMMA UsageLoadedStep ==
    ASSUME Here, Inside, NEW i \in DOMAIN calls, UsageLoaded(i)
    PROVE  ScreenInv'
  <1>1. calls[i].op = "usage" /\ calls[i].status = "ok" /\ Continue(i, <<>>) /\ db' = db
    BY DEF UsageLoaded, Returned
  <1>2. PICK ch : ch = [usage |-> panel.usage \cup {Arg(i)}] /\ Shown(i, ch)
    BY DEF UsageLoaded
  <1>3. panel.kind = "settings" /\ Set(ch) /\ calls[i].op \in SettingsOps /\ calls[i].op \notin Writes \cup Passive
    BY <1>1, <1>2, SettingsShown, SettingsReads, SettingsLoads
  <1>4. Arg(i) = calls[i].arg["usage"]
    BY <1>1, CallHas
  <1>5. /\ panel'.kind = "settings" /\ panel'.usage = panel.usage \cup {Arg(i)} /\ panel'.sys = panel.sys
        /\ panel'.meant = panel.meant /\ panel'.users = panel.users
        /\ panel'.usersError = panel.usersError /\ panel'.backups = panel.backups
        /\ panel'.tab = panel.tab
    BY <1>2, <1>3, SettingsSet
  <1>7. ASSUME NEW p \in Own("settings"), IsRight(p) \/ Owes(calls[i], p) PROVE IsRight(p)'
    <2>1. p \notin {"summary", "recent"} => ~Owes(calls[i], p)
      <3>1. p = "users" => ~Owes(calls[i], p)
        BY <1>1, AdminApart DEF Owes
      <3>2. p \notin {"users", "summary", "recent"} => ~Owes(calls[i], p)
        BY <1>1 DEF Owes
      <3> QED
        BY <3>1, <3>2
    <2>2. CASE p \in {"summary", "recent"}
      <3>1. Owes(calls[i], p) => calls[i].arg["usage"] = p
        <4>1. p # "users"
          BY <2>2
        <4> QED
          BY <2>2 DEF Owes
      <3>2. p = Arg(i) \/ IsRight(p)
        BY <1>4, <1>7, <3>1
      <3>3. panel'.tab = "usage" => p \in panel'.usage
        BY <1>3, <1>5, <2>2, <3>2 DEF IsRight
      <3> QED
        BY <2>2, <3>3 DEF IsRight
    <2>3. CASE p \notin {"summary", "recent"}
      BY <1>1, <1>3, <1>5, <1>7, <2>1, <2>3, SettingsRight, OwnParts
    <2> QED
      BY <2>2, <2>3
  <1> QED
    BY <1>1, <1>2, <1>3, <1>7, SettingsReadOver

LEMMA UsersLoadedStep ==
    ASSUME Here, Inside, NEW i \in DOMAIN calls, UsersLoaded(i)
    PROVE  ScreenInv'
  <1>1. calls[i].op = "users" /\ calls[i].status = "ok" /\ Continue(i, <<>>) /\ db' = db
    BY DEF UsersLoaded, Returned
  <1>2. PICK ch : ch = [users |-> Ans(i)] /\ Shown(i, ch)
    BY DEF UsersLoaded
  <1>3. panel.kind = "settings" /\ Set(ch) /\ calls[i].op \in SettingsOps /\ calls[i].op \notin Writes \cup Passive
    BY <1>1, <1>2, SettingsShown, SettingsReads, SettingsLoads
  <1>4. Ans(i) = Listing /\ Listing' = Listing
    BY <1>1, CallHas DEF Answers, Listing
  <1>5. /\ panel'.kind = "settings" /\ panel'.users = Listing /\ panel'.sys = panel.sys
        /\ panel'.meant = panel.meant /\ panel'.backups = panel.backups
        /\ panel'.tab = panel.tab /\ panel'.usage = panel.usage
    BY <1>2, <1>3, <1>4, SettingsSet
  <1>7. ASSUME NEW p \in Own("settings"), IsRight(p) \/ Owes(calls[i], p) PROVE IsRight(p)'
    <2>1. CASE p = "users"
      BY <1>4, <1>5, <2>1 DEF IsRight
    <2>2. CASE p # "users"
      <3>1. ~Owes(calls[i], p)
        BY <1>1, <2>2 DEF Owes
      <3> QED
        BY <1>1, <1>3, <1>5, <1>7, <2>2, <3>1, SettingsRight, OwnParts
    <2> QED
      BY <2>1, <2>2
  <1> QED
    BY <1>1, <1>2, <1>3, <1>7, SettingsReadOver

LEMMA BackupsListedStep ==
    ASSUME Here, Inside, NEW i \in DOMAIN calls, BackupsListed(i)
    PROVE  ScreenInv'
  <1>1. calls[i].op = "backups" /\ calls[i].status = "ok" /\ Continue(i, <<>>) /\ db' = db
    BY DEF BackupsListed, Returned
  <1>2. PICK ch : ch = [backups |-> Ans(i), backupBusy |-> panel.backupBusy /\ Arg(i) = "tab"] /\ Shown(i, ch)
    BY DEF BackupsListed
  <1>3. panel.kind = "settings" /\ Set(ch) /\ calls[i].op \in SettingsOps /\ calls[i].op \notin Writes \cup Passive
    BY <1>1, <1>2, SettingsShown, SettingsReads, SettingsLoads
  <1>4. Ans(i) = db.backups
    BY <1>1, CallHas DEF Answers
  <1>5. /\ panel'.kind = "settings" /\ panel'.backups = db.backups /\ panel'.sys = panel.sys
        /\ panel'.meant = panel.meant /\ panel'.users = panel.users /\ panel'.usersError = panel.usersError
        /\ panel'.tab = panel.tab /\ panel'.usage = panel.usage
    BY <1>2, <1>3, <1>4, SettingsSet
  <1>7. ASSUME NEW p \in Own("settings"), IsRight(p) \/ Owes(calls[i], p) PROVE IsRight(p)'
    <2>1. CASE p = "backups"
      BY <1>1, <1>5, <2>1 DEF IsRight
    <2>2. CASE p # "backups"
      <3>1. ~Owes(calls[i], p)
        <4>1. p = "users" => ~Owes(calls[i], p)
          BY <1>1, AdminApart DEF Owes
        <4>2. p # "users" => ~Owes(calls[i], p)
          BY <1>1, <2>2 DEF Owes
        <4> QED
          BY <4>1, <4>2
      <3> QED
        BY <1>1, <1>3, <1>5, <1>7, <2>2, <3>1, SettingsRight, OwnParts
    <2> QED
      BY <2>1, <2>2
  <1> QED
    BY <1>1, <1>2, <1>3, <1>7, SettingsReadOver


LEMMA AdminKnownStep ==
    ASSUME Here, Inside, NEW i \in DOMAIN calls, AdminKnown(i)
    PROVE  ScreenInv'
  <1>1. calls[i].op = "admin" /\ calls[i].status \in {"ok", "failed"} /\ db' = db
    BY DEF AdminKnown, Returned, Thrown
  <1>2. PICK ch, loads :
           /\ loads \in BOOLEAN
           /\ DOMAIN ch = {"isAdmin", "usersError"} /\ ch["usersError"] = (panel.usersError /\ ~loads) /\ Shown(i, ch)
           /\ Continue(i, IF loads THEN <<Call("users", None)>> ELSE <<>>)
    <2> DEFINE yes == calls[i].status = "ok" /\ Ans(i)
               ld == yes /\ calls[i].live /\ panel.isAdmin # TRUE /\ panel.tab = "users"
               rec == [isAdmin |-> yes, usersError |-> panel.usersError /\ ~ld]
    <2>1. /\ Shown(i, rec) /\ Continue(i, IF ld THEN <<Call("users", None)>> ELSE <<>>)
          /\ ld \in BOOLEAN /\ DOMAIN rec = {"isAdmin", "usersError"} /\ rec["usersError"] = (panel.usersError /\ ~ld)
      BY DEF AdminKnown
    <2> HIDE DEF ld, rec
    <2> QED
      BY <2>1
  <1>3. panel.kind = "settings" /\ Set(ch) /\ calls[i].op \in SettingsOps /\ calls[i].op \notin Writes \cup Passive
    BY <1>1, <1>2, SettingsShown, SettingsReads, SettingsLoads
  <1>5. /\ panel'.kind = "settings" /\ panel'.sys = panel.sys /\ panel'.backups = panel.backups
        /\ panel'.meant = panel.meant /\ panel'.users = panel.users /\ panel'.usersError = (panel.usersError /\ ~loads)
        /\ panel'.tab = panel.tab /\ panel'.usage = panel.usage /\ FieldsOK'
    BY <1>2, <1>3, SettingsSet
  <1>6. \A p : ~Owes(calls[i], p)
    <2>1. ASSUME NEW p PROVE ~Owes(calls[i], p)
      <3>1. p = "users" => ~Owes(calls[i], p)
        BY <1>1, AdminApart DEF Owes
      <3>2. p # "users" => ~Owes(calls[i], p)
        BY <1>1 DEF Owes
      <3> QED
        BY <3>1, <3>2
    <2> QED
      BY <2>1
  <1>7. ASSUME NEW p \in Own("settings"), IsRight(p), p # "users" \/ ~loads PROVE IsRight(p)'
    BY <1>1, <1>3, <1>5, <1>7, SettingsRight, OwnParts
  <1>8. CASE ~loads
    <2>1. Continue(i, <<>>)
      BY <1>2, <1>8
    <2> QED
      BY <1>1, <1>2, <1>3, <1>6, <1>7, <1>8, <2>1, SettingsReadOver
  <1>9. CASE loads
    <2>1. PICK c : c = Call("users", None)
      OBVIOUS
    <2>2. Continue(i, <<c>>)
      BY <1>2, <1>9, <2>1
    <2>3. Fact(c)' /\ c.status = "sent" /\ c.op = "users"
      <3>1. Fact(c)'
        BY <1>5, <2>1, OnSettingsHome, SettingsCall, PlainOps
      <3> QED
        BY <2>1, <3>1 DEF Call, CallWith
    <2> DEFINE cs == <<c>>
    <2>4. OneByOne(cs) /\ IsList(cs) /\ ToSet(cs) = {c}
      BY <2>3, OneSent
    <2>5. Continue(i, cs)
      BY <2>2
    <2> HIDE DEF cs
    <2>6. c.op \notin Writes \cup {"history", "logout", "episodes", "sources"}
      BY <2>3, AdminApart, PlainOps
    <2>7. Alone'
      BY <1>3, <2>4, <2>5, <2>6, AloneRead DEF Here
    <2>8. StoreOK'
      BY <1>1, <1>5, StoreKept DEF Here, ScreenInv
    <2>9. Owes(c, "users")'
      BY <2>3, PlainOps DEF Owes
    <2>10. \A p \in Own("settings") : IsRight(p) \/ Owes(calls[i], p) => IsRight(p)' \/ \E e \in ToSet(cs) : Owes(e, p)'
      BY <1>6, <1>7, <2>4, <2>9
    <2> QED
      BY <1>1, <1>3, <1>5, <2>3, <2>4, <2>5, <2>7, <2>8, <2>10, InsideSame, ReadOverStep
  <1> QED
    BY <1>2, <1>8, <1>9

\* A change is over, and nothing is loaded again.
LEMMA SettingsWriteOver ==
    ASSUME Here, Inside, NEW i \in DOMAIN calls, calls[i].op \in Writes \ {"save"}, calls[i].status \in {"ok", "failed"},
           panel.kind = "settings", NEW ch, Set(ch), "kind" \notin DOMAIN ch, Continue(i, <<>>), db' = db,
           \A p \in Own("settings") : IsRight(p) \/ Owes(calls[i], p) => IsRight(p)'
    PROVE  ScreenInv'
  <1>1. panel'.kind = "settings" /\ FieldsOK'
    BY SettingsSet
  <1> QED
    BY <1>1, InsideSame, WriteOverNone

LEMMA ConnectionSavedStep ==
    ASSUME Here, Inside, NEW i \in DOMAIN calls, ConnectionSaved(i)
    PROVE  ScreenInv'
  <1>1. calls[i].op = "put" /\ calls[i].status = "ok" /\ Continue(i, <<>>) /\ db' = db
    BY DEF ConnectionSaved, Returned
  <1>2. PICK ch : ch = Saved(Ans(i)) /\ Shown(i, ch)
    BY DEF ConnectionSaved
  <1>3. panel.kind = "settings" /\ Set(ch) /\ calls[i].op \in Writes \ {"save"}
    BY <1>1, <1>2, SettingsShown, SettingsLoads DEF Writes
  <1>4. DOMAIN ch = {"sys", "model", "key", "sysSaved", "sysBusy"} /\ ch.sys = SystemOut
    BY <1>1, <1>2, CallHas DEF Saved, Answers
  <1>5. /\ panel'.kind = "settings" /\ panel'.sys = SystemOut /\ panel'.meant = panel.meant /\ panel'.users = panel.users
        /\ panel'.usersError = panel.usersError /\ panel'.backups = panel.backups /\ panel'.usage = panel.usage
        /\ panel'.tab = panel.tab
    BY <1>3, <1>4, SettingsSet
  <1>6. SystemOut' = SystemOut
    BY <1>1 DEF SystemOut
  <1>7. ASSUME NEW p \in Own("settings"), IsRight(p) \/ Owes(calls[i], p) PROVE IsRight(p)'
    <2>1. p # "sys" => ~Owes(calls[i], p)
      <3>1. p = "users" => ~Owes(calls[i], p)
        BY <1>1, AdminApart DEF Owes
      <3>2. p \notin {"users", "sys"} => ~Owes(calls[i], p)
        BY <1>1 DEF Owes
      <3> QED
        BY <3>1, <3>2
    <2>2. CASE p = "sys"
      BY <1>5, <1>6, <2>2 DEF IsRight
    <2>3. CASE p # "sys"
      BY <1>1, <1>3, <1>5, <1>7, <2>1, <2>3, SettingsRight, OwnParts
    <2> QED
      BY <2>2, <2>3
  <1> QED
    BY <1>1, <1>3, <1>4, <1>7, SettingsWriteOver

LEMMA BackedUpStep ==
    ASSUME Here, Inside, NEW i \in DOMAIN calls, BackedUp(i)
    PROVE  ScreenInv'
  <1>1. calls[i].op = "backup" /\ calls[i].status = "ok" /\ panel' = panel /\ db' = db
    BY DEF BackedUp, Returned
  <1>2. panel.kind = "settings" /\ calls[i].live
    BY <1>1, CallHas, SettingsLoads DEF Fact, AtHome
  <1>3. PICK c : c = Call("backups", "run")
    OBVIOUS
  <1>4. Continue(i, <<c>>)
    <2>1. [Call("backups", "run") EXCEPT !.live = TRUE] = Call("backups", "run")
      BY LiveCall
    <2>2. calls[i].live = TRUE
      BY <1>2, CallHas DEF CallOK
    <2> QED
      BY <1>3, <2>1, <2>2 DEF BackedUp
  <1>5. Fact(c)' /\ c.status = "sent" /\ c.op = "backups"
    <2>1. Fact(c)'
      BY <1>1, <1>2, <1>3, OnSettingsHome, SettingsCall, PlainOps
    <2> QED
      BY <1>3, <2>1 DEF Call, CallWith
  <1>6. ASSUME NEW p \in Own(panel.kind), Owes(calls[i], p) PROVE Owes(c, p)'
    <2>1. p # "users"
      BY <1>1, <1>6, AdminApart DEF Owes
    <2>2. p = "backups"
      BY <1>1, <1>6, <2>1 DEF Owes
    <2> QED
      BY <1>5, <2>2 DEF Owes
  <1> QED
    BY <1>1, <1>4, <1>5, <1>6, SameIsStill, WriteOverStill DEF Writes


\* What the table of the accounts shows after an answer.
LEMMA UsersShown ==
    ASSUME NEW i, UsersThrown(i) \/ UserChanged(i)
    PROVE  \E ch : /\ DOMAIN ch \subseteq {"usersError", "userBusy", "newUser", "emailFor", "resetFor"} /\ Shown(i, ch)
                   /\ UsersThrown(i) => "usersError" \in DOMAIN ch /\ ch["usersError"] = TRUE
                   /\ UserChanged(i) /\ calls[i].op = "reset" => "usersError" \notin DOMAIN ch
  <1>1. CASE UsersThrown(i) /\ ~UserChanged(i)
    <2> DEFINE a == [usersError |-> TRUE, userBusy |-> FALSE]
               b == [usersError |-> TRUE]
    <2>1. Shown(i, a) \/ Shown(i, b)
      BY <1>1, Zenon DEF UsersThrown
    <2>2. DOMAIN a = {"usersError", "userBusy"} /\ a["usersError"] = TRUE /\ DOMAIN b = {"usersError"} /\ b["usersError"] = TRUE
      OBVIOUS
    <2> HIDE DEF a, b
    <2> QED
      BY <1>1, <2>1, <2>2
  <1>2. CASE UserChanged(i)
    <2> DEFINE a == [newUser |-> None, userBusy |-> FALSE, usersError |-> FALSE]
               b == [emailFor |-> None, usersError |-> FALSE]
               c == [resetFor |-> None]
               d == [usersError |-> FALSE]
    <2>1. ~UsersThrown(i)
      BY <1>2, Zenon DEF UsersThrown, UserChanged, Returned, Thrown
    <2>2. calls[i].op = "reset" => Shown(i, c)
      BY <1>2, Zenon DEF UserChanged
    <2>3. Shown(i, a) \/ Shown(i, b) \/ Shown(i, c) \/ Shown(i, d)
      BY <1>2, Zenon DEF UserChanged
    <2>4. /\ DOMAIN a = {"usersError", "userBusy", "newUser"} /\ DOMAIN b = {"usersError", "emailFor"}
          /\ DOMAIN c = {"resetFor"} /\ DOMAIN d = {"usersError"}
      OBVIOUS
    <2> HIDE DEF a, b, c, d
    <2>5. CASE calls[i].op = "reset"
      BY <2>1, <2>2, <2>4, <2>5
    <2>6. CASE calls[i].op # "reset"
      BY <2>1, <2>3, <2>4, <2>6
    <2> QED
      BY <2>5, <2>6
  <1> QED
    BY <1>1, <1>2

\* A request about the accounts owes only their table.
LEMMA AdminOwes ==
    ASSUME NEW c, c.op \in AdminOps, NEW p \in Own("settings"), p # "users"
    PROVE  ~Owes(c, p)
  <1>1. c.op # "put" /\ c.op # "backups" /\ c.op # "backup" /\ c.op # "usage"
    BY AdminApart
  <1>2. p = "sys" \/ p = "key" \/ p = "backups" \/ p = "summary" \/ p = "recent"
    BY OwnParts
  <1> QED
    BY <1>1, <1>2, Zenon DEF Owes

LEMMA UserChangedStep ==
    ASSUME Here, Inside, NEW i \in DOMAIN calls, UserChanged(i)
    PROVE  ScreenInv'
  <1>1. calls[i].op \in AdminOps \ {"users"} /\ calls[i].status = "ok" /\ db' = db
    BY DEF UserChanged, Returned
  <1>2. PICK ch : /\ DOMAIN ch \subseteq {"usersError", "userBusy", "newUser", "emailFor", "resetFor"} /\ Shown(i, ch)
                  /\ calls[i].op = "reset" => "usersError" \notin DOMAIN ch
    BY UsersShown
  <1>3. panel.kind = "settings" /\ calls[i].live /\ Set(ch) /\ calls[i].op \in Writes \ {"save"}
    BY <1>1, <1>2, SettingsShown, AdminApart
  <1>4. /\ panel'.kind = "settings" /\ panel'.sys = panel.sys /\ panel'.meant = panel.meant /\ panel'.users = panel.users
        /\ panel'.backups = panel.backups /\ panel'.usage = panel.usage /\ panel'.tab = panel.tab
        /\ calls[i].op = "reset" => panel'.usersError = panel.usersError
        /\ FieldsOK'
    BY <1>2, <1>3, SettingsSet
  <1>5. ASSUME NEW p \in Own("settings"), p # "users" PROVE ~Owes(calls[i], p)
    BY <1>1, <1>5, AdminOwes
  <1>6. ASSUME NEW p \in Own("settings"), IsRight(p), p # "users" \/ calls[i].op = "reset" PROVE IsRight(p)'
    BY <1>1, <1>3, <1>4, <1>6, SettingsRight, OwnParts
  <1>7. CASE calls[i].op = "reset"
    <2>1. Continue(i, <<>>)
      BY <1>7, Zenon DEF UserChanged
    <2>2. Me \in db.admins
      <3>1. Answers(calls[i], Arg(i), Ans(i))
        BY <1>1, <1>7, CallHas, AdminApart
      <3> QED
        BY <1>7, <3>1 DEF Answers
    <2>3. ~Owes(calls[i], "users")
      BY <1>7, <2>2 DEF Owes
    <2> QED
      BY <1>1, <1>2, <1>3, <1>5, <1>6, <1>7, <2>1, <2>3, SettingsWriteOver
  <1>8. CASE calls[i].op # "reset"
    <2>1. PICK c : c = Call("users", None)
      OBVIOUS
    <2>2. Continue(i, <<c>>)
      <3>1. [Call("users", None) EXCEPT !.live = TRUE] = Call("users", None)
        BY LiveCall
      <3>2. calls[i].live = TRUE
        BY <1>3, CallHas DEF CallOK
      <3>3. Continue(i, <<[Call("users", None) EXCEPT !.live = calls[i].live]>>)
        BY <1>8, Zenon DEF UserChanged
      <3> QED
        BY <2>1, <3>1, <3>2, <3>3
    <2>3. Fact(c)' /\ c.status = "sent" /\ c.op = "users"
      <3>1. Fact(c)'
        BY <1>4, <2>1, OnSettingsHome, SettingsCall, PlainOps
      <3> QED
        BY <2>1, <3>1 DEF Call, CallWith
    <2>4. Owes(c, "users")'
      BY <2>3, PlainOps DEF Owes
    <2>5. \A p \in Own(panel'.kind) : IsRight(p) \/ Owes(calls[i], p) => IsRight(p)' \/ Owes(c, p)'
      BY <1>4, <1>5, <1>6, <2>4
    <2> QED
      BY <1>1, <1>3, <1>4, <2>2, <2>3, <2>5, InsideSame, WriteOverOne
  <1> QED
    BY <1>7, <1>8

LEMMA UsersThrownStep ==
    ASSUME Here, Inside, NEW i \in DOMAIN calls, UsersThrown(i)
    PROVE  ScreenInv'
  <1>1. calls[i].op \in AdminOps /\ calls[i].status = "failed" /\ db' = db /\ Continue(i, <<>>)
    BY DEF UsersThrown, Thrown
  <1>2. PICK ch : /\ DOMAIN ch \subseteq {"usersError", "userBusy", "newUser", "emailFor", "resetFor"} /\ Shown(i, ch)
                  /\ "usersError" \in DOMAIN ch /\ ch["usersError"] = TRUE
    BY UsersShown
  <1>3. panel.kind = "settings" /\ Set(ch) /\ calls[i].op \in SettingsOps
    BY <1>1, <1>2, SettingsShown, AdminApart
  <1>4. /\ panel'.kind = "settings" /\ panel'.sys = panel.sys /\ panel'.meant = panel.meant /\ panel'.users = panel.users
        /\ panel'.backups = panel.backups /\ panel'.usage = panel.usage /\ panel'.tab = panel.tab
        /\ panel'.usersError = TRUE
    BY <1>2, <1>3, SettingsSet
  <1>5. ASSUME NEW p \in Own("settings"), IsRight(p) \/ Owes(calls[i], p) PROVE IsRight(p)'
    <2>1. p # "users" => ~Owes(calls[i], p)
      BY <1>1, AdminOwes
    <2>2. CASE IsRight(p)
      BY <1>1, <1>3, <1>4, <2>2, SettingsRight, OwnParts
    <2>3. CASE ~IsRight(p)
      <3>1. p = "users" /\ Owes(calls[i], "users")
        BY <1>5, <2>1, <2>3
      <3>2. Me \notin db.admins
        <4>1. calls[i].op = "users" => Me \notin db.admins
          BY <1>1, CallHas DEF Fact
        <4>2. calls[i].op # "users" => Me \notin db.admins
          BY <1>1, <3>1 DEF Owes
        <4> QED
          BY <4>1, <4>2
      <3>3. Me \notin db'.admins /\ panel'.usersError
        BY <1>1, <1>4, <3>2
      <3> QED
        BY <3>1, <3>3 DEF IsRight
    <2> QED
      BY <2>2, <2>3
  <1>6. CASE calls[i].op = "users"
    <2>1. calls[i].op \notin Writes \cup Passive
      BY <1>6, AdminApart
    <2> QED
      BY <1>1, <1>2, <1>3, <1>5, <2>1, SettingsReadOver
  <1>7. CASE calls[i].op # "users"
    <2>1. calls[i].op \in Writes \ {"save"}
      BY <1>1, <1>7, AdminApart
    <2> QED
      BY <1>1, <1>2, <1>3, <1>5, <2>1, SettingsWriteOver
  <1> QED
    BY <1>6, <1>7

\* What follows an answer that is about nothing the server keeps.
LEMMA SettingsQuiet ==
    ASSUME Here, Inside, NEW i \in DOMAIN calls, Generated(i) \/ Tested(i) \/ OwnPasswordChanged(i) \/ Exported(i)
    PROVE  ScreenInv'
  <1>1. /\ calls[i].op \in {"generate", "test", "own", "export"} /\ calls[i].status # "asked"
        /\ Continue(i, <<>>) /\ db' = db
    BY DEF Generated, Tested, OwnPasswordChanged, Exported, Returned, Thrown
  <1>2. \E ch : DOMAIN ch \cap (ShownFields \cup {"at"}) = {} /\ Shown(i, ch)
    <2> DEFINE a == [guide |-> "generated", picker |-> "closed", guideBusy |-> FALSE]
               b == [guideBusy |-> FALSE]
               c == [tests |-> [panel.tests EXCEPT ![Arg(i)] = calls[i].status]]
               d == [selfBusy |-> FALSE, self |-> calls[i].status]
               e == [exporting |-> FALSE]
    <2>1. Shown(i, a) \/ Shown(i, b) \/ Shown(i, c) \/ Shown(i, d) \/ Shown(i, e)
      BY DEF Generated, Tested, OwnPasswordChanged, Exported
    <2>2. /\ DOMAIN a = {"guide", "picker", "guideBusy"} /\ DOMAIN b = {"guideBusy"} /\ DOMAIN c = {"tests"}
          /\ DOMAIN d = {"selfBusy", "self"} /\ DOMAIN e = {"exporting"}
      OBVIOUS
    <2> HIDE DEF a, b, c, d, e
    <2>3. /\ DOMAIN a \cap (ShownFields \cup {"at"}) = {} /\ DOMAIN b \cap (ShownFields \cup {"at"}) = {}
          /\ DOMAIN c \cap (ShownFields \cup {"at"}) = {} /\ DOMAIN d \cap (ShownFields \cup {"at"}) = {}
          /\ DOMAIN e \cap (ShownFields \cup {"at"}) = {}
      BY <2>2 DEF ShownFields
    <2> QED
      BY <2>1, <2>3
  <1>3. PICK ch : DOMAIN ch \cap (ShownFields \cup {"at"}) = {} /\ Shown(i, ch)
    BY <1>2
  <1>4. Quiet
    <2>1. CASE Set(ch)
      BY <1>1, <1>3, <2>1, SetQuiet
    <2>2. CASE panel' = panel
      BY <1>1, <2>2, SameIsStill, QuietHere
    <2> QED
      BY <1>3, <2>1, <2>2 DEF Shown
  <1>5. calls[i].op \notin Duties
    BY <1>1, SettingsApart
  <1> QED
    BY <1>1, <1>4, <1>5, QuietOver

LEMMA SettingsScreens ==
    ASSUME Here, SettingsNext, Inside
    PROVE  ScreenInv'
  <1>1. ASSUME NEW i \in DOMAIN calls, SettingsOver(i) PROVE FALSE
    <2>1. calls[i].status = "failed" /\ calls[i].op \in {"system", "usage", "put", "backup", "backups", "save"}
      BY <1>1 DEF SettingsOver, Thrown
    <2>2. calls[i].op \in Refusable
      BY <2>1, FailedIs
    <2> QED
      BY <2>1, <2>2, AdminApart DEF Refusable
  <1>2. CASE BasicTab \/ Picker \/ ConnectionTab \/ UsersTab \/ BackupTab \/ ExportTab \/ \E tab \in SettingsTabs : TabBar(tab)
    BY <1>2, SettingsActs
  <1>3. ASSUME NEW i \in DOMAIN calls,
               SettingsServed(i) \/ SystemLoaded(i) \/ ConnectionSaved(i) \/ UsageLoaded(i) \/ AdminKnown(i)
                  \/ UsersLoaded(i) \/ UserChanged(i) \/ UsersThrown(i) \/ BackedUp(i) \/ BackupsListed(i)
        PROVE  ScreenInv'
    BY <1>3, SettingsServedStep, SystemLoadedStep, ConnectionSavedStep, UsageLoadedStep, AdminKnownStep, UsersLoadedStep,
       UserChangedStep, UsersThrownStep, BackedUpStep, BackupsListedStep
  <1> QED
    BY <1>1, <1>2, <1>3, SettingsQuiet DEF SettingsNext


-----------------------------------------------------------------------------
(***************************************************************************)
(* Another screen is mounted.                                              *)
(***************************************************************************)

\* What a screen shows at first is right, or is loaded by its effects.
LEMMA FreshIsRight ==
    ASSUME NEW s \in Sections, NEW row, NEW inst, panel' = Screen(s, row, inst), db' = db
    PROVE  /\ panel'.kind = s /\ FieldsOK'
           /\ OneByOne(ScreenCalls(s, row))
           /\ \A c \in ToSet(ScreenCalls(s, row)) : Fact(c)'
           /\ \A p \in Own(s) : IsRight(p)' \/ \E c \in ToSet(ScreenCalls(s, row)) : Owes(c, p)'
  <1>1. CASE s = "home"
    <2>1. PICK c : c = Call("home", row.id)
      OBVIOUS
    <2>2. panel' = [kind |-> "home", loaded |-> FALSE] /\ ScreenCalls(s, row) = <<c>>
      BY <1>1, <2>1 DEF Screen, FreshHome, ScreenCalls, HomeCalls
    <2>3. c.status = "sent" /\ Fact(c)'
      <3>1. "home" \notin Duties
        BY AdminApart DEF Duties, ChatOps, SearchOps, MaterialsOps, WriteOps, SettingsOps, BoardOps, AdminOps
      <3> QED
        BY <2>1, <3>1, AsideFact
    <2>4. OneByOne(<<c>>) /\ ToSet(<<c>>) = {c}
      BY <2>3, OneSent
    <2>5. FieldsOK'
      BY <2>2 DEF FieldsOK
    <2> QED
      BY <1>1, <2>2, <2>3, <2>4, <2>5, OwnParts
  <1>2. CASE s = "write"
    <2>1. PICK c : c = Call("episodes", None)
      OBVIOUS
    <2>2. panel' = FreshWrite /\ ScreenCalls(s, row) = <<c>>
      BY <1>2, <2>1 DEF Screen, ScreenCalls, WriteCalls
    <2>3. panel'.kind = "write" /\ panel'.episode = None /\ FieldsOK'
      BY <2>2 DEF FreshWrite, FieldsOK
    <2>4. c.status = "sent" /\ Fact(c)'
      <3>1. c.op = "episodes" /\ c.status = "sent"
        BY <2>1 DEF Call, CallWith
      <3>2. AboutThis(c, None)'
        BY <3>1, PlainAbout
      <3>3. "episodes" \in HomeOps(panel'.kind)
        BY <2>3, HomeOpsAre DEF WriteOps
      <3> QED
        BY <2>1, <3>1, <3>2, <3>3, CallFact
    <2>5. OneByOne(<<c>>) /\ ToSet(<<c>>) = {c}
      BY <2>4, OneSent
    <2>6. IsRight("list")' /\ IsRight("sources")'
      BY <2>3 DEF IsRight
    <2> QED
      BY <1>2, <2>2, <2>3, <2>4, <2>5, <2>6, OwnParts
  <1>3. CASE s = "materials"
    <2>1. panel' = FreshMaterials /\ ScreenCalls(s, row) = <<>>
      BY <1>3 DEF Screen, ScreenCalls
    <2>2. panel'.kind = "materials" /\ panel'.at.tab \in AiTabs /\ FieldsOK'
      BY <2>1 DEF FreshMaterials, FreshTab, AiTab, AiTabs, Tabs, FieldsOK
    <2>3. IsRight("rows")'
      BY <2>2 DEF IsRight
    <2> QED
      BY <1>3, <2>1, <2>2, <2>3, NoneSent, OwnParts
  <1>4. CASE s = "search"
    <2>1. PICK c : c = Call("names", None)
      OBVIOUS
    <2>2. panel' = FreshSearch /\ ScreenCalls(s, row) = <<c>>
      BY <1>4, <2>1 DEF Screen, ScreenCalls, SearchCalls
    <2>3. panel'.kind = "search" /\ panel'.found = None /\ FieldsOK'
      BY <2>2 DEF FreshSearch, FieldsOK
    <2>4. c.status = "sent" /\ Fact(c)'
      <3>1. "names" \notin Duties
        BY DEF Duties, ChatOps, SearchOps, MaterialsOps, WriteOps, SettingsOps, BoardOps, AdminOps
      <3> QED
        BY <2>1, <3>1, AsideFact
    <2>5. OneByOne(<<c>>) /\ ToSet(<<c>>) = {c}
      BY <2>4, OneSent
    <2>6. IsRight("matches")'
      BY <2>3 DEF IsRight
    <2> QED
      BY <1>4, <2>2, <2>3, <2>4, <2>5, <2>6, OwnParts
  <1>5. CASE s = "chat"
    <2>1. PICK c : c = Call("history", None)
      OBVIOUS
    <2>2. panel' = FreshChat /\ ScreenCalls(s, row) = <<c>>
      BY <1>5, <2>1 DEF Screen, ScreenCalls, ChatCalls
    <2>3. panel'.kind = "chat" /\ FieldsOK'
      <3>1. IsList(<<>>)
        BY NoneSent
      <3> QED
        BY <2>2, <3>1 DEF FreshChat, FieldsOK
    <2>4. c.op = "history" /\ c.status = "sent" /\ Fact(c)'
      <3>1. c.op = "history" /\ c.status = "sent"
        BY <2>1 DEF Call, CallWith
      <3>2. AboutThis(c, None)'
        BY <3>1, PlainAbout
      <3>3. "history" \in HomeOps(panel'.kind)
        BY <2>3, HomeOpsAre DEF ChatOps
      <3> QED
        BY <2>1, <3>1, <3>2, <3>3, CallFact
    <2>5. OneByOne(<<c>>) /\ ToSet(<<c>>) = {c}
      BY <2>4, OneSent
    <2>6. Owes(c, "messages")'
      BY <2>4 DEF Owes
    <2> QED
      BY <1>5, <2>2, <2>3, <2>4, <2>5, <2>6, OwnParts
  <1>6. CASE s = "settings"
    <2>1. panel' = FreshSettings(inst, row) /\ ScreenCalls(s, row) = <<>>
      BY <1>6 DEF Screen, ScreenCalls
    <2>2. /\ panel'.kind = "settings" /\ panel'.sys = None /\ panel'.meant = db.config.key /\ panel'.users = None
          /\ panel'.backups = None /\ panel'.tab = "basic"
          /\ {"tab", "sys", "meant", "users", "usersError", "backups", "usage"} \subseteq DOMAIN panel'
      BY <2>1 DEF FreshSettings
    <2>3. FieldsOK'
      BY <2>2 DEF FieldsOK
    <2>4. ASSUME NEW p \in Own("settings") PROVE IsRight(p)'
      BY <2>2, <2>4, OwnParts DEF IsRight
    <2> QED
      BY <1>6, <2>1, <2>2, <2>3, <2>4, NoneSent
  <1> QED
    BY <1>1, <1>2, <1>3, <1>4, <1>5, <1>6 DEF Sections

LEMMA MountScreen ==
    ASSUME Here, db.answering = {}, db' = db, NEW s \in Sections, NEW row, row.guide = db.projects[row.id], NEW inst,
           panel' = Screen(s, row, inst), project' = row,
           NEW r, IsList(r), \A c \in ToSet(r) : c \in Flight /\ c.op \in Passive,
           calls' = Orphan(r) \o ScreenCalls(s, row)
    PROVE  ScreenInv'
  <1> DEFINE cs == ScreenCalls(s, row)
  <1>1. /\ panel'.kind = s /\ FieldsOK' /\ OneByOne(cs) /\ \A c \in ToSet(cs) : Fact(c)'
        /\ \A p \in Own(s) : IsRight(p)' \/ \E c \in ToSet(cs) : Owes(c, p)'
    BY FreshIsRight
  <1>2. calls' = Orphan(r) \o cs
    OBVIOUS
  <1> HIDE DEF cs
  <1>3. StoreOK'
    BY <1>1, StoreKept DEF Here, ScreenInv, Sections
  <1>4. IsRight("copy")'
    BY DEF IsRight
  <1> QED
    BY <1>1, <1>2, <1>3, <1>4, MountStep

\* The calls of the dashboard when it is mounted.
LEMMA BoardCallsAre ==
    ASSUME NEW pw, NEW ck
    PROVE  /\ OneByOne(DashboardCalls(pw, ck))
           /\ \A c \in ToSet(DashboardCalls(pw, ck)) : c.status = "sent" /\ c.op \in {"whoami", "projects"} /\ Fact(c)'
  <1> DEFINE c == CallWith(pw, ck, "whoami", None)
             d == CallWith(pw, ck, "projects", None)
  <1>1. c.op = "whoami" /\ d.op = "projects" /\ c.status = "sent" /\ d.status = "sent" /\ DashboardCalls(pw, ck) = <<c, d>>
    BY DEF CallWith, DashboardCalls
  <1> HIDE DEF c, d
  <1>2. ToSet(<<c, d>>) = {c, d} /\ IsList(<<c, d>>)
    BY SetOfTwo, TwoList
  <1>3. OneByOne(<<c, d>>)
    <2>1. \A e \in ToSet(<<c, d>>) : e.op \notin Writes \cup {"episodes", "sources"} /\ e.status = "sent"
      BY <1>1, <1>2 DEF Writes, AdminOps
    <2> QED
      BY <1>2, <2>1, OneByOneReads
  <1>4. ASSUME NEW e \in {c, d} PROVE Fact(e)'
    <2>1. AtHome(e)'
      BY <1>1 DEF AtHome, ChatOps, SearchOps, MaterialsOps, WriteOps, SettingsOps, BoardOps, AdminOps
    <2>2. AboutThis(e, e.arg[e.op])'
      BY <1>1, PlainAbout
    <2> QED
      BY <1>1, <2>1, <2>2 DEF Fact
  <1> QED
    BY <1>1, <1>2, <1>3, <1>4


\* A screen that shows no rows but the list of the projects, before that is loaded.
ShowsNothing ==
    /\ panel.kind \notin Sections
    /\ panel.kind = "dashboard" => "projects" \in DOMAIN panel /\ panel.projects = <<>>

LEMMA OutsideStep ==
    ASSUME Here, db' = db, project' = None, ShowsNothing', Alone', AskedOK', \A c \in Flight' : Fact(c)'
    PROVE  ScreenInv'
  <1>1. panel'.kind \notin {"chat", "search", "materials", "write", "settings"}
    BY DEF ShowsNothing, Sections
  <1>2. FieldsOK'
    BY <1>1 DEF FieldsOK, ShowsNothing
  <1>3. StoreOK'
    BY <1>1, EmptyList DEF Here, ScreenInv, StoreOK, ShowsNothing
  <1>4. ASSUME NEW p \in Parts PROVE IsRight(p)'
    <2>1. CASE p = "copy"
      BY <2>1 DEF IsRight
    <2>2. CASE p # "copy"
      <3>1. p \notin Own(panel'.kind)
        BY <1>1, OwnParts
      <3> QED
        BY <2>2, <3>1, Elsewhere
    <2> QED
      BY <2>1, <2>2
  <1> QED
    BY <1>2, <1>3, <1>4 DEF ScreenInv

LEMMA NobodyWaits ==
    ASSUME db' = db, db.answering = {}
    PROVE  AskedOK'
  BY DEF AskedOK

\* Nothing of the old page runs on.
LEMMA PageStep ==
    ASSUME Here, db' = db, db.answering = {}, NEW pw, NEW ck, NEW token, PageLoad(pw, ck, token)
    PROVE  ScreenInv'
  <1> DEFINE in == pw # None
             bs == IF in /\ token = None THEN DashboardCalls(pw, ck) ELSE <<>>
  <1>1. PICK c : c = CallWith(pw, ck, "me", None)
    OBVIOUS
  <1>2. calls' = <<c>> \o bs /\ project' = None
    BY <1>1 DEF PageLoad
  <1>3. ShowsNothing'
    <2>1. \/ panel' = [kind |-> "reset", token |-> token, state |-> "form"]
          \/ panel' = FreshDashboard(acts')
          \/ panel' = NoScreen
      BY DEF PageLoad
    <2>2. panel' = FreshDashboard(acts') => panel'.kind = "dashboard" /\ "projects" \in DOMAIN panel' /\ panel'.projects = <<>>
      BY DEF FreshDashboard
    <2>3. panel' = NoScreen \/ panel' = [kind |-> "reset", token |-> token, state |-> "form"] => panel'.kind \in {"none", "reset"}
      BY DEF NoScreen
    <2> QED
      BY <2>1, <2>2, <2>3 DEF ShowsNothing, Sections
  <1>4. c.status = "sent" /\ c.op = "me" /\ Fact(c)'
    <2>1. c.status = "sent" /\ c.op = "me"
      BY <1>1 DEF CallWith
    <2>2. AtHome(c)'
      BY <2>1 DEF AtHome, ChatOps, SearchOps, MaterialsOps, WriteOps, SettingsOps, BoardOps, AdminOps
    <2>3. AboutThis(c, c.arg[c.op])'
      BY <2>1, PlainAbout
    <2> QED
      BY <2>1, <2>2, <2>3 DEF Fact
  <1>5. IsList(bs) /\ \A e \in ToSet(bs) : e.status = "sent" /\ e.op \in {"whoami", "projects"} /\ Fact(e)'
    <2>1. CASE in /\ token = None
      <3>1. bs = DashboardCalls(pw, ck)
        BY <2>1
      <3> HIDE DEF bs
      <3> QED
        BY <3>1, BoardCallsAre DEF OneByOne
    <2>2. CASE ~(in /\ token = None)
      BY <2>2, NoneSent
    <2> QED
      BY <2>1, <2>2
  <1> HIDE DEF bs
  <1> DEFINE cs == <<c>> \o bs
  <1>6. IsList(<<c>>) /\ ToSet(<<c>>) = {c}
    BY <1>4, OneSent
  <1>7. IsList(cs) /\ ToSet(cs) = {c} \cup ToSet(bs)
    BY <1>5, <1>6, JoinList
  <1>8. calls' = cs
    BY <1>2
  <1> HIDE DEF cs
  <1>9. OneByOne(cs)
    <2>1. \A e \in ToSet(cs) : e.op \notin Writes \cup {"episodes", "sources"} /\ e.status = "sent"
      BY <1>4, <1>5, <1>7 DEF Writes, AdminOps
    <2> QED
      BY <1>7, <2>1, OneByOneReads
  <1>10. Alone'
    <2>1. calls' = <<>> \o cs
      BY <1>8, <1>7, ListFacts DEF IsList
    <2> QED
      BY <1>9, <2>1, EmptyList, SetOfNone, AloneJoin
  <1>11. \A e \in Flight' : Fact(e)'
    BY <1>4, <1>5, <1>7, <1>8 DEF Flight
  <1> QED
    BY <1>2, <1>3, <1>10, <1>11, NobodyWaits, OutsideStep

\* Back on the dashboard.
LEMMA BoardStep ==
    ASSUME Here, calls = <<>>, db.answering = {}, db' = db, project' = None, NEW inst, panel' = FreshDashboard(inst),
           NEW pw, NEW ck, calls' = Orphan(calls) \o DashboardCalls(pw, ck)
    PROVE  ScreenInv'
  <1> DEFINE cs == DashboardCalls(pw, ck)
  <1>1. OneByOne(cs) /\ \A c \in ToSet(cs) : Fact(c)'
    BY BoardCallsAre
  <1>2. calls' = <<>> \o cs
    <2>1. Orphan(calls) = <<>>
      BY EmptyList DEF Orphan
    <2> QED
      BY <2>1
  <1> HIDE DEF cs
  <1>3. calls' = cs
    BY <1>1, <1>2 DEF OneByOne, IsList
  <1>4. Alone'
    BY <1>1, <1>2, EmptyList, SetOfNone, AloneJoin
  <1>5. ShowsNothing'
    BY DEF FreshDashboard, ShowsNothing, Sections
  <1>6. \A c \in Flight' : Fact(c)'
    BY <1>1, <1>3 DEF Flight
  <1> QED
    BY <1>4, <1>5, <1>6, NobodyWaits, OutsideStep


\* The calls that run on where the workspace is left, or is entered.
Outside(b, c) ==
    /\ c.status = b.status /\ c.arg = b.arg
    /\ c.op = "void" \/ (c.op = b.op /\ c.ans = b.ans)
    /\ c.op \notin Duties \ {"projects"}

LEMMA OutsideFact ==
    ASSUME Here, db' = db, ShowsNothing', NEW b \in Flight, NEW c, Outside(b, c)
    PROVE  Fact(c)'
  <1>1. Fact(b) /\ CallOK(db, b)
    BY FlightIs DEF Here, ScreenInv
  <1>2. panel'.kind # "chat"
    BY DEF ShowsNothing, Sections
  <1>3. c.status = "failed" => c.op \in Refusable
    BY <1>1 DEF Outside, Fact, Refusable
  <1>4. c.status = "asked" => DOMAIN c.arg = {"chat"}
    BY <1>1 DEF Outside, Fact
  <1>5. CASE c.op # "projects"
    <2>1. Bare(c)'
      BY <1>2, <1>3, <1>4, <1>5 DEF Outside, Bare
    <2> QED
      BY <2>1, BareFactNext
  <1>6. CASE c.op = "projects"
    <2>1. b.op = "projects" /\ c.ans = b.ans /\ c.arg = b.arg /\ c.status = b.status
      BY <1>6 DEF Outside
    <2>2. c.status # "asked"
      BY <1>1, <2>1 DEF CallOK
    <2>3. AtHome(c)'
      BY <1>6 DEF AtHome, ChatOps, SearchOps, MaterialsOps, WriteOps, SettingsOps, BoardOps, AdminOps
    <2>4. AboutThis(c, c.arg[c.op])'
      BY <1>6, <2>2, PlainAbout
    <2>5. c.status = "ok" => Answers(c, c.arg[c.op], c.ans[c.op])'
      <3>1. b.status = "ok" => Answers(b, b.arg[b.op], b.ans[b.op])
        BY <1>1 DEF Fact
      <3> QED
        BY <1>6, <2>1, <3>1 DEF Answers
    <2> QED
      BY <1>3, <1>6, <2>2, <2>3, <2>4, <2>5, AdminApart DEF Fact
  <1> QED
    BY <1>5, <1>6

\* The workspace is left, or entered: its calls have been given up.
LEMMA LeaveStep ==
    ASSUME Here, db' = db, project' = None, authed' # "closed", ShowsNothing',
           NEW i \in DOMAIN calls, calls[i].status # "asked",
           NEW r, r = RemoveAt(calls, i), NEW o, IsList(o), DOMAIN o = DOMAIN r, \A k \in DOMAIN r : Outside(r[k], o[k]),
           NEW cs, OneByOne(cs), calls' = o \o cs,
           \A c \in ToSet(cs) : c.op \notin Writes \cup {"episodes", "sources", "history", "logout"} /\ Fact(c)'
    PROVE  ScreenInv'
  <1>1. IsList(calls) /\ ToSet(r) = Rest(i) /\ Flight = Rest(i) \cup {calls[i]}
    BY FlightIs, RemoveRest DEF Here, Rest
  <1>2. \A k \in DOMAIN r : r[k] \in Flight /\ r[k] \in Rest(i)
    BY <1>1 DEF ToSet
  <1>3. \A c \in ToSet(o) : \E b \in Rest(i) : b \in Flight /\ Outside(b, c)
    BY <1>2 DEF ToSet
  <1>4. Flight' = ToSet(o) \cup ToSet(cs) /\ IsList(cs)
    BY JoinList DEF OneByOne, Flight
  <1>5. \A c \in Flight' : Fact(c)'
    BY <1>3, <1>4, OutsideFact
  <1>6. AskedOK'
    <2>1. ASSUME NEW q \in db'.answering
          PROVE  Turn("user", q) \in ToSet(db'.chat) /\ \E c \in Flight' : c.status = "asked" /\ c.arg["chat"] = q
      <3>1. PICK b \in Flight : b.status = "asked" /\ b.arg["chat"] = q
        BY <2>1 DEF Here, ScreenInv, AskedOK
      <3>2. b \in ToSet(r)
        BY <1>1, <3>1
      <3>3. PICK k \in DOMAIN r : r[k] = b
        BY <3>2 DEF ToSet
      <3>4. o[k] \in Flight' /\ o[k].status = "asked" /\ o[k].arg["chat"] = q
        BY <1>4, <3>1, <3>3 DEF Outside, ToSet
      <3>5. Turn("user", q) \in ToSet(db.chat)
        BY <2>1 DEF Here, ScreenInv, AskedOK
      <3> QED
        BY <3>4, <3>5
    <2> QED
      BY <2>1 DEF AskedOK
  <1>7. Alone'
    <2>1. \A c \in Flight' : c.op \notin Writes \cup {"episodes", "sources", "history"}
      <3>1. \A c \in ToSet(o) : c.op \notin Writes \cup {"episodes", "sources", "history"}
        <4>1. "projects" \notin Writes
          BY DEF Writes, AdminOps
        <4>2. \A op : op \in Writes \cup {"episodes", "sources", "history"} => op \in Duties \ {"projects"}
          BY <4>1, OpsApart
        <4> QED
          BY <1>3, <4>2 DEF Outside
      <3> QED
        BY <1>4, <3>1
    <2>2. IsList(calls') /\ \A k \in DOMAIN calls' : calls'[k] \in Flight'
      BY <1>4, JoinList DEF Flight, ToSet
    <2>3. Number(calls', Writes) = 0 /\ Number(calls', {"episodes", "sources"}) = 0
      BY <2>1, <2>2, NumberNone
    <2>4. ASSUME NEW c \in Flight', c.status = "asked", c.op = "void", NEW e \in Flight' PROVE e.op # "logout"
      <3>1. c \in ToSet(o)
        BY <1>4, <2>4 DEF OneByOne
      <3>2. PICK b \in Flight : Outside(b, c)
        BY <1>3, <3>1
      <3>3. b.status = "asked" /\ b.op \in {"chat", "void"}
        BY <2>4, <3>2, FlightIs DEF Outside, Here, CallOK
      <3>4. \A d \in Flight : d.op # "logout"
        <4>1. CASE b.op = "chat"
          <5>1. \A d \in Flight : d.op \in Writes \cup Passive
            BY <4>1 DEF Here, ScreenInv, Alone, Writes
          <5> QED
            BY <5>1, OpsApart
        <4>2. CASE b.op = "void"
          BY <3>3, <4>2 DEF Here, ScreenInv, Alone
        <4> QED
          BY <3>3, <4>1, <4>2
      <3>5. CASE e \in ToSet(o)
        BY <1>3, <3>4, <3>5 DEF Outside
      <3>6. CASE e \in ToSet(cs)
        BY <3>6
      <3> QED
        BY <1>4, <3>5, <3>6
    <2> QED
      BY <2>1, <2>3, <2>4 DEF Alone
  <1> QED
    BY <1>5, <1>6, <1>7, OutsideStep


-----------------------------------------------------------------------------
(***************************************************************************)
(* The dashboard.                                                          *)
(***************************************************************************)
LEMMA BoardApart ==
    /\ {"whoami", "count", "home"} \cap (Duties \cup Refusable) = {}
    /\ {"projects", "create", "project"} \cap Refusable = {}
    /\ "projects" \notin Writes \cup Passive
    /\ {"create", "project"} \subseteq Writes \ {"save"} /\ {"create", "project"} \subseteq HomeOps("dashboard")
    /\ {"create", "project"} \cap AdminOps = {}
  <1>1. {"whoami", "count", "home", "projects", "create", "project"} \cap AdminOps = {}
    BY DEF AdminOps
  <1>2. {"create", "project"} \subseteq HomeOps("dashboard")
    BY HomeOpsAre DEF BoardOps
  <1>3. {"whoami", "count", "home"} \cap Duties = {}
    BY <1>1 DEF Duties, ChatOps, SearchOps, MaterialsOps, WriteOps, SettingsOps, BoardOps
  <1> QED
    BY <1>1, <1>2, <1>3 DEF Refusable, Writes, Passive

LEMMA BoardOwes ==
    ASSUME NEW c, c.op \in {"projects", "create", "project"}, NEW p
    PROVE  ~Owes(c, p)
  <1>1. c.op \notin AdminOps
    BY DEF AdminOps
  <1>2. c.op = "projects" \/ c.op = "create" \/ c.op = "project"
    OBVIOUS
  <1> QED
    BY <1>1, <1>2, Zenon DEF Owes

\* The list of the projects is shown by no other screen.
LEMMA BoardRight ==
    ASSUME Inv, FieldsOK, DOMAIN panel' = DOMAIN panel, \A f \in DOMAIN panel \ {"projects", "pending", "busy"} : panel'[f] = panel[f],
           db' = db, NEW p \in Own(panel.kind), IsRight(p)
    PROVE  IsRight(p)'
  <1>0. "kind" \in DOMAIN panel
    BY DEF Inv, PanelOK
  <1>1. /\ EpisodesListed' = EpisodesListed /\ SystemOut' = SystemOut /\ Listing' = Listing
        /\ \A k : SourcesOf(k)' = SourcesOf(k)
    BY SameIsStill, RowsAre
  <1>2. panel'.kind = panel.kind
    BY <1>0
  <1>3. CASE panel.kind = "chat"
    <2>1. p = "messages" /\ "messages" \in DOMAIN panel
      BY <1>3, OwnParts DEF FieldsOK
    <2> QED
      BY <1>2, <2>1 DEF IsRight
  <1>4. CASE panel.kind = "search"
    <2>1. p = "matches" /\ {"matches", "found"} \subseteq DOMAIN panel
      BY <1>4, OwnParts DEF FieldsOK
    <2> QED
      BY <1>2, <2>1 DEF IsRight
  <1>5. CASE panel.kind = "materials"
    <2>1. p = "rows" /\ "at" \in DOMAIN panel
      BY <1>5, OwnParts DEF FieldsOK
    <2>2. panel'.at = panel.at
      BY <2>1
    <2> QED
      BY <1>2, <2>1, <2>2 DEF IsRight
  <1>6. CASE panel.kind = "write"
    <2>1. p \in {"list", "sources"} /\ {"list", "last", "episode", "sources"} \subseteq DOMAIN panel
      BY <1>6, OwnParts DEF FieldsOK
    <2>2. panel'.list = panel.list /\ panel'.last = panel.last /\ panel'.episode = panel.episode /\ panel'.sources = panel.sources
      BY <2>1
    <2> QED
      BY <1>1, <1>2, <2>1, <2>2 DEF IsRight
  <1>7. CASE panel.kind = "settings"
    <2>1. /\ p \in {"sys", "key", "users", "backups", "summary", "recent"}
          /\ {"tab", "sys", "meant", "users", "usersError", "backups", "usage"} \subseteq DOMAIN panel
      BY <1>7, OwnParts DEF FieldsOK
    <2>2. /\ panel'.tab = panel.tab /\ panel'.sys = panel.sys /\ panel'.meant = panel.meant
          /\ panel'.users = panel.users /\ panel'.usersError = panel.usersError
          /\ panel'.backups = panel.backups /\ panel'.usage = panel.usage
      BY <2>1
    <2> QED
      BY <1>1, <1>2, <2>1, <2>2 DEF IsRight
  <1> QED
    BY <1>3, <1>4, <1>5, <1>6, <1>7, OwnParts

LEMMA CountCalls ==
    ASSUME NEW list, IsList(list)
    PROVE  \E cs : /\ cs = [n \in DOMAIN list |-> Call("count", n)] /\ OneByOne(cs)
                   /\ \A c \in ToSet(cs) : c.op = "count" /\ Fact(c)'
  <1> DEFINE cs == [n \in DOMAIN list |-> Call("count", n)]
  <1>1. cs = [n \in DOMAIN list |-> cs[n]] /\ \A n \in DOMAIN list : cs[n] = Call("count", n)
    OBVIOUS
  <1> HIDE DEF cs
  <1>2. IsList(cs) /\ DOMAIN cs = DOMAIN list
    BY <1>1, MapList
  <1>3. ASSUME NEW c \in ToSet(cs) PROVE c.op = "count" /\ c.status = "sent" /\ Fact(c)'
    <2>1. PICK n \in DOMAIN list : c = Call("count", n)
      BY <1>1, <1>2 DEF ToSet
    <2> QED
      BY <2>1, BoardApart, AsideFact
  <1>4. \A c \in ToSet(cs) : c.op \notin Writes \cup {"episodes", "sources"} /\ c.status = "sent"
    BY <1>3, BoardApart, OpsApart
  <1>5. OneByOne(cs)
    BY <1>2, <1>4, OneByOneReads
  <1> QED
    BY <1>3, <1>5 DEF cs

LEMMA ProjectsLoadedStep ==
    ASSUME Here, UNCHANGED <<mix, auth, session>>, NEW i \in DOMAIN calls, ProjectsLoaded(i)
    PROVE  ScreenInv'
  <1>1. /\ calls[i].op = "projects" /\ calls[i].status = "ok" /\ db' = db /\ project' = project /\ authed' = authed
    BY DEF ProjectsLoaded, Returned, place, auth
  <1>2. PICK list : list = Ans(i)
    OBVIOUS
  <1>3. IsList(list) /\ \A p \in DOMAIN list : p \in DOMAIN db.projects /\ list[p] = db.projects[p]
    BY <1>1, <1>2, CallHas DEF AnsOK, Answers
  <1>4. \A p : ~Owes(calls[i], p)
    BY <1>1, BoardOwes
  <1>5. CASE calls[i].live
    <2>1. /\ panel' = [panel EXCEPT !.projects = list, !.pending = DOMAIN list, !.busy = list # <<>>]
          /\ Continue(i, [n \in DOMAIN list |-> Call("count", n)])
      BY <1>2, <1>5 DEF ProjectsLoaded
    <2>2. PICK cs : Continue(i, cs) /\ OneByOne(cs) /\ \A c \in ToSet(cs) : c.op = "count" /\ Fact(c)'
      BY <1>3, <2>1, CountCalls
    <2>3. /\ DOMAIN panel' = DOMAIN panel /\ \A f \in DOMAIN panel \ {"projects", "pending", "busy"} : panel'[f] = panel[f]
          /\ "projects" \in DOMAIN panel => panel'.projects = list
      BY <2>1
    <2>4. "kind" \in DOMAIN panel
      BY DEF Here, Inv, PanelOK
    <2>5. panel'.kind = panel.kind
      BY <2>3, <2>4
    <2>6. /\ panel.kind = "chat" => "messages" \in DOMAIN panel /\ panel'.messages = panel.messages
          /\ panel.kind = "materials" => "at" \in DOMAIN panel /\ panel'.at = panel.at
          /\ panel.kind = "write" => panel'.episode = panel.episode
          /\ panel.kind = "dashboard" => "projects" \in DOMAIN panel /\ panel'.projects = list
      BY <2>3 DEF Here, ScreenInv, FieldsOK
    <2>7. FieldsOK'
      BY <2>3, <2>5, <2>6 DEF Here, ScreenInv, FieldsOK
    <2>8. StoreOK'
      BY <1>1, <1>3, <2>5, <2>6 DEF Here, ScreenInv, StoreOK
    <2>9. calls[i].op \notin Writes \cup Passive
      BY <1>1, BoardApart
    <2>10. \A c \in ToSet(cs) : c.op \notin Writes \cup {"history", "logout"} /\ c.op \notin {"episodes", "sources"}
      BY <2>2, BoardApart, OpsApart
    <2>11. Alone'
      BY <2>2, <2>9, <2>10, AloneRead DEF Here
    <2>12. \A p \in Own(panel.kind) : IsRight(p) \/ Owes(calls[i], p) => IsRight(p)'
      BY <1>1, <1>4, <2>3, BoardRight DEF Here, ScreenInv
    <2>13. IsList(cs)
      BY <2>2 DEF OneByOne
    <2> QED
      BY <1>1, <2>2, <2>5, <2>6, <2>7, <2>8, <2>9, <2>11, <2>12, <2>13, ReadOverStep
  <1>6. CASE ~calls[i].live
    <2>1. panel' = panel /\ Continue(i, <<>>)
      BY <1>6 DEF ProjectsLoaded
    <2>2. Quiet
      BY <1>1, <2>1, SameIsStill DEF Quiet
    <2> QED
      BY <1>1, <1>4, <2>1, <2>2, QuietOver
  <1> QED
    BY <1>5, <1>6


\* What the page does by itself, or shows of an answer that is about no rows.
LEMMA BoardQuiet ==
    ASSUME Here, UNCHANGED <<mix, auth, session>>,
           \/ OpenDialog \/ CancelDialog
           \/ \E i \in DOMAIN calls : Greeted(i) \/ Counted(i) \/ HomeLoaded(i)
    PROVE  ScreenInv'
  <1>1. ASSUME db' = db, place' = place, PanelStill PROVE Quiet
    BY <1>1, SameIsStill DEF Quiet, auth, place
  <1>2. CASE OpenDialog \/ CancelDialog
    <2>1. UNCHANGED <<calls, place, db>>
      BY <1>2 DEF OpenDialog, CancelDialog
    <2>2. PanelStill
      BY <1>2 DEF OpenDialog, CancelDialog, PanelStill, ShownFields
    <2> QED
      BY <1>1, <2>1, <2>2, QuietStay
  <1>3. ASSUME NEW i \in DOMAIN calls, Greeted(i) \/ Counted(i) \/ HomeLoaded(i) PROVE ScreenInv'
    <2>1. /\ calls[i].op \in {"whoami", "count", "home"} /\ calls[i].status = "ok" /\ Continue(i, <<>>)
          /\ UNCHANGED <<place, db>>
      BY <1>3 DEF Greeted, Counted, HomeLoaded, Returned
    <2>2. PanelStill
      BY <1>3 DEF Greeted, Counted, HomeLoaded, PanelStill, ShownFields
    <2> QED
      BY <1>1, <2>1, <2>2, BoardApart, QuietOver
  <1> QED
    BY <1>2, <1>3

LEMMA BoardClicks ==
    ASSUME Here, UNCHANGED <<mix, auth, session>>, CreateProject \/ FinishImport
    PROVE  ScreenInv'
  <1>1. /\ \E op : User(op)
        /\ panel.kind = "dashboard" /\ UNCHANGED <<place, db>>
        /\ \E op, x : op \in {"create", "project"} /\ Send(<<Call(op, x)>>)
    BY DEF CreateProject, FinishImport, OnDashboard
  <1>2. PanelStill
    BY DEF CreateProject, FinishImport, PanelStill, ShownFields
  <1>3. calls = <<>>
    BY <1>1, Waited
  <1>4. PICK op, x : op \in {"create", "project"} /\ Send(<<Call(op, x)>>)
    BY <1>1
  <1>5. PICK c : c = Call(op, x)
    OBVIOUS
  <1>6. c.op = op /\ c.status = "sent"
    BY <1>5 DEF Call, CallWith
  <1>7. panel'.kind = "dashboard"
    BY <1>1, <1>2, ShownAre DEF Here, ScreenInv
  <1>8. op \in HomeOps(panel'.kind)
    BY <1>4, <1>7, BoardApart
  <1>9. AboutThis(c, x)'
    BY <1>4, <1>6, PlainAbout
  <1>10. Fact(c)'
    BY <1>5, <1>8, <1>9, CallFact
  <1>11. project' = project /\ authed' = authed /\ db' = db /\ Send(<<c>>)
    BY <1>1, <1>4, <1>5 DEF place, auth
  <1> QED
    BY <1>2, <1>3, <1>6, <1>10, <1>11, ClickOne

LEMMA DashboardServedStep ==
    ASSUME Here, UNCHANGED <<mix, auth, session>>, NEW i \in DOMAIN calls, DashboardServed(i)
    PROVE  ScreenInv'
  <1>1. /\ panel' = panel /\ db' = db /\ project' = project /\ authed' = authed /\ calls[i].status = "sent"
        /\ calls[i].op \in {"whoami", "projects", "count", "home", "project"}
    BY DEF DashboardServed, Arrives, auth, place
  <1>2. PICK y : /\ Serve(i, y)
                 /\ calls[i].op = "projects" => y = db.projects
                 /\ calls[i].op = "project" => y = Row(Arg(i), db.projects[Arg(i)])
    BY DEF DashboardServed, Arrives
  <1>3. CASE calls[i].op \in {"whoami", "count", "home"}
    <2>1. Quiet
      BY <1>1, SameIsStill DEF Quiet
    <2> QED
      BY <1>1, <1>2, <1>3, <2>1, BoardApart, QuietServe
  <1>4. CASE calls[i].op \in {"projects", "project"}
    <2>1. Answers(calls[i], Arg(i), y)
      BY <1>2, <1>4 DEF Answers, Row
    <2> QED
      BY <1>1, <1>2, <1>4, <2>1, ReadServedStep
  <1> QED
    BY <1>1, <1>3, <1>4

LEMMA CreateServedStep ==
    ASSUME Here, UNCHANGED <<mix, auth, session>>, NEW i \in DOMAIN calls, CreateServed(i)
    PROVE  ScreenInv'
  <1>1. /\ calls[i].op = "create" /\ calls[i].status = "sent" /\ panel' = panel /\ project' = project /\ authed' = authed
        /\ db' = [db EXCEPT !.projects = Append(@, None)]
    BY DEF CreateServed, Arrives, auth, place
  <1>2. PICK y : y = Row(Len(db.projects) + 1, None) /\ Serve(i, y)
    BY DEF CreateServed
  <1>3. PICK c : c = ServedCall(calls[i], y)
    OBVIOUS
  <1>4. c.op = "create" /\ c.status = "ok"
    BY <1>1, <1>3, CallHas, ServedIs
  <1>5. /\ DOMAIN db = DbFields /\ IsList(db.projects)
        /\ db'.projects = Append(db.projects, None) /\ \A f \in Rowed : db'[f] = db[f]
    BY <1>1 DEF Here, Inv, DbOK, DbFields, Rowed
  <1>6. /\ DOMAIN db'.projects = DOMAIN db.projects \cup {Len(db.projects) + 1}
        /\ \A k \in DOMAIN db.projects : db'.projects[k] = db.projects[k]
        /\ db'.projects[Len(db.projects) + 1] = None
    BY <1>5, AppendList
  <1>7. RowsStill /\ ProjectsStay
    BY <1>5, <1>6 DEF RowsStill, ProjectsStay
  <1>8. PICK x : x = Arg(i)
    OBVIOUS
  <1>9. AboutThis(c, x)'
    BY <1>4, PlainAbout
  <1>10. Answers(c, x, y)'
    BY <1>2, <1>4, <1>6 DEF Answers, Row
  <1>11. calls' = [calls EXCEPT ![i] = c] /\ Fact(c)'
    BY <1>1, <1>2, <1>3, <1>8, <1>9, <1>10, WrittenFact
  <1>12. StoreOK' /\ db'.answering = db.answering
    BY <1>1, <1>7, SameIsStill, StoreStays, RowsAre DEF Here, ScreenInv
  <1>13. panel.kind = "dashboard"
    BY <1>1, CallHas DEF Fact, AtHome, BoardOps
  <1>14. Own(panel.kind) = {}
    BY <1>13, OwnParts
  <1>15. calls[i].op \in Writes
    BY <1>1, BoardApart
  <1> QED
    BY <1>1, <1>4, <1>7, <1>11, <1>12, <1>14, <1>15, WriteServedStep

\* The start page of a project takes the place of the screen.
LEMMA OpenStep ==
    ASSUME Here, db.answering = {}, db' = db, NEW row, row.guide = db.projects[row.id],
           NEW r, IsList(r), \A c \in ToSet(r) : c \in Flight /\ c.op \in Passive, Open(row, r)
    PROVE  ScreenInv'
  <1>1. /\ panel' = Screen("home", row, 0) /\ project' = row /\ "home" \in Sections
        /\ calls' = Orphan(r) \o ScreenCalls("home", row)
    BY DEF Open, Screen, ScreenCalls, Sections
  <1> QED
    BY <1>1, MountScreen

\* What is left when a change is over only looks on.
LEMMA RestLooksOn ==
    ASSUME Here, NEW i \in DOMAIN calls, calls[i].op \in Writes, calls[i].status # "asked"
    PROVE  /\ db.answering = {} /\ IsList(RemoveAt(calls, i))
           /\ \A c \in ToSet(RemoveAt(calls, i)) : c \in Flight /\ c.op \in Passive
  <1>1. IsList(calls)
    BY FlightIs DEF Here
  <1>2. ToSet(RemoveAt(calls, i)) = Rest(i)
    BY <1>1, RemoveRest DEF Rest
  <1> QED
    BY <1>1, <1>2, RemoveList, RestPassive, NotAsked DEF Here

LEMMA OpenedStep ==
    ASSUME Here, UNCHANGED <<mix, auth, session>>, NEW i \in DOMAIN calls, Created(i) \/ Finished(i)
    PROVE  ScreenInv'
  <1>1. /\ calls[i].op \in {"create", "project"} /\ calls[i].status = "ok" /\ db' = db
        /\ Open(Ans(i), RemoveAt(calls, i))
    BY DEF Created, Finished, Returned
  <1>2. Ans(i).guide = db.projects[Ans(i).id]
    BY <1>1, CallHas DEF Answers
  <1>3. calls[i].op \in Writes
    BY <1>1, BoardApart
  <1>4. /\ db.answering = {} /\ IsList(RemoveAt(calls, i))
        /\ \A c \in ToSet(RemoveAt(calls, i)) : c \in Flight /\ c.op \in Passive
    BY <1>1, <1>3, RestLooksOn
  <1>5. PICK row, r : row = Ans(i) /\ r = RemoveAt(calls, i)
    OBVIOUS
  <1> QED
    BY <1>1, <1>2, <1>4, <1>5, OpenStep

LEMMA ClickProjectStep ==
    ASSUME Here, UNCHANGED <<mix, auth, session>>, NEW p, ClickProject(p)
    PROVE  ScreenInv'
  <1>1. /\ panel.kind = "dashboard" /\ p \in DOMAIN panel.projects /\ User("open") /\ db' = db
        /\ Open(Row(p, panel.projects[p]), calls)
    BY DEF ClickProject, Uncovered, OnDashboard
  <1>2. panel.projects[p] = db.projects[p]
    BY <1>1 DEF Here, ScreenInv, StoreOK
  <1>3. calls = <<>> /\ db.answering = {}
    BY <1>1, Waited
  <1>4. PICK row, r : row = Row(p, panel.projects[p]) /\ r = calls
    OBVIOUS
  <1>5. row.guide = db.projects[row.id]
    BY <1>2, <1>4 DEF Row
  <1>6. IsList(r) /\ ToSet(r) = {} /\ Open(row, r)
    BY <1>1, <1>3, <1>4, NoneSent
  <1> QED
    BY <1>1, <1>3, <1>5, <1>6, OpenStep

LEMMA DashboardScreens ==
    ASSUME Here, DashboardNext, UNCHANGED <<mix, auth, session>>
    PROVE  ScreenInv'
  <1>1. ASSUME NEW i \in DOMAIN calls, LoadFailed(i) \/ CreateThrown(i) \/ NothingMore(i) PROVE FALSE
    <2>1. calls[i].status = "failed" /\ calls[i].op \in {"whoami", "projects", "count", "create", "home", "project"}
      BY <1>1 DEF LoadFailed, CreateThrown, NothingMore, Thrown
    <2>2. calls[i].op \in Refusable
      BY <2>1, FailedIs
    <2> QED
      BY <2>1, <2>2, BoardApart
  <1>2. CASE ImportProject
    BY <1>2, StartScreens DEF ImportProject
  <1>3. ASSUME NEW i \in DOMAIN calls, Created(i) \/ Finished(i) PROVE ScreenInv'
    BY <1>3, OpenedStep
  <1>4. CASE OpenDialog \/ CancelDialog \/ \E i \in DOMAIN calls : Greeted(i) \/ Counted(i) \/ HomeLoaded(i)
    BY <1>4, BoardQuiet
  <1>5. CASE CreateProject \/ FinishImport
    BY <1>5, BoardClicks
  <1> QED
    BY <1>1, <1>2, <1>3, <1>4, <1>5, ClickProjectStep, DashboardServedStep, ProjectsLoadedStep, CreateServedStep DEF DashboardNext


-----------------------------------------------------------------------------
(***************************************************************************)
(* Signing in and out.                                                     *)
(***************************************************************************)
LEMMA SignInApart ==
    /\ {"me", "probe", "providers", "forgot", "confirm", "logout", "void"} \cap Duties = {}
    /\ {"me", "probe", "providers", "forgot"} \cap Refusable = {}
  <1>1. {"me", "probe", "providers", "forgot", "confirm", "logout", "void"} \cap AdminOps = {}
    BY DEF AdminOps
  <1> QED
    BY <1>1 DEF Duties, ChatOps, SearchOps, MaterialsOps, WriteOps, SettingsOps, BoardOps, Refusable

\* Outside of the workspace no screen waits for its calls.
LEMMA NoneOutside ==
    ASSUME Here, panel.kind \notin Work, NEW c \in Flight
    PROVE  c.op \notin Duties \ {"projects"}
  <1>1. AtHome(c)
    BY DEF Here, ScreenInv, Fact
  <1> QED
    BY <1>1 DEF AtHome, Work, Sections, Duties

\* An answer that concerns nothing that is shown.
LEMMA OutsideOver ==
    ASSUME Here, Quiet, NEW i \in DOMAIN calls, calls[i].op \notin Duties \ {"projects"}, calls[i].status # "asked",
           calls' = RemoveAt(calls, i)
    PROVE  ScreenInv'
  <1>1. IsList(RemoveAt(calls, i))
    BY FlightIs, RemoveList DEF Here
  <1>2. Continue(i, <<>>)
    BY <1>1, ConcatEmptySeq DEF Continue, IsList
  <1>3. calls[i].op \notin Duties \/ (\A p \in Parts : ~Owes(calls[i], p))
    BY BoardOwes
  <1> QED
    BY <1>2, <1>3, QuietOver

\* The other calls are in flight as well.
LEMMA RestFlight ==
    ASSUME Here, NEW i \in DOMAIN calls, NEW r, r = RemoveAt(calls, i)
    PROVE  IsList(r) /\ \A k \in DOMAIN r : r[k] \in Flight
  <1>1. IsList(calls)
    BY FlightIs DEF Here
  <1>2. IsList(r) /\ ToSet(r) \subseteq Flight
    BY <1>1, RemoveList DEF Flight
  <1>3. \A k \in DOMAIN r : r[k] \in ToSet(r)
    BY DEF ToSet
  <1> QED
    BY <1>2, <1>3

\* The workspace is entered.
LEMMA AdmitStep ==
    ASSUME Here, NEW i \in DOMAIN calls, MeAnswered(i) \/ SubmitAnswered(i)
    PROVE  ScreenInv'
  <1>1. /\ calls[i].op \in {"me", "probe"} /\ calls[i].status = "ok" /\ db' = db /\ Admit(RemoveAt(calls, i))
    BY DEF MeAnswered, SubmitAnswered, Returned
  <1>2. CASE authed = "in" \/ OnReset
    <2>1. calls' = RemoveAt(calls, i) /\ UNCHANGED <<panel, place>> /\ authed' = "in"
      BY <1>1, <1>2 DEF Admit
    <2>2. Quiet
      BY <1>1, <2>1, SameIsStill DEF Quiet, place
    <2> QED
      BY <1>1, <2>1, <2>2, SignInApart, OutsideOver
  <1>3. CASE ~(authed = "in" \/ OnReset)
    <2>1. PICK r : r = RemoveAt(calls, i)
      OBVIOUS
    <2>2. /\ authed' = "in" /\ panel' = FreshDashboard(acts) /\ calls' = Orphan(r) \o DashboardCalls(stored, cookie)
          /\ project' = None
      BY <1>1, <1>3, <2>1 DEF Admit
    <2>3. panel.kind \notin Work
      BY <1>3 DEF Here, Inv, PlaceOK
    <2>4. IsList(r) /\ \A k \in DOMAIN r : r[k] \in Flight
      BY <2>1, RestFlight
    <2>5. PICK o : o = Orphan(r)
      OBVIOUS
    <2>6. DOMAIN o = DOMAIN r /\ \A k \in DOMAIN r : o[k] = [r[k] EXCEPT !.live = FALSE]
      BY <2>5 DEF Orphan
    <2>7. IsList(o)
      <3>1. o = [k \in DOMAIN r |-> o[k]]
        BY <2>5 DEF Orphan
      <3> QED
        BY <2>4, <3>1, MapList
    <2>8. \A k \in DOMAIN r : Outside(r[k], o[k])
      <3>1. ASSUME NEW k \in DOMAIN r PROVE Outside(r[k], o[k])
        <4>1. DOMAIN r[k] = CallFields
          BY <2>4, FlightIs DEF Here, CallOK
        <4>2. o[k].op = r[k].op /\ o[k].status = r[k].status /\ o[k].arg = r[k].arg /\ o[k].ans = r[k].ans
          BY <2>6, <4>1 DEF CallFields
        <4>3. r[k].op \notin Duties \ {"projects"}
          BY <2>3, <2>4, NoneOutside
        <4> QED
          BY <4>2, <4>3 DEF Outside
      <3> QED
        BY <3>1
    <2>9. ShowsNothing'
      BY <2>2 DEF FreshDashboard, ShowsNothing, Sections
    <2>10. PICK cs : cs = DashboardCalls(stored, cookie)
      OBVIOUS
    <2>11. /\ OneByOne(cs)
           /\ \A c \in ToSet(cs) : c.op \notin Writes \cup {"episodes", "sources", "history", "logout"} /\ Fact(c)'
      <3>1. OneByOne(cs) /\ \A c \in ToSet(cs) : c.op \in {"whoami", "projects"} /\ Fact(c)'
        BY <2>10, BoardCallsAre
      <3>2. {"whoami", "projects"} \cap (Writes \cup {"episodes", "sources", "history", "logout"}) = {}
        BY BoardApart, OpsApart
      <3> QED
        BY <3>1, <3>2
    <2>12. calls' = o \o cs /\ authed' # "closed" /\ calls[i].status # "asked"
      BY <1>1, <2>2, <2>5, <2>10
    <2> QED
      BY <1>1, <2>1, <2>2, <2>6, <2>7, <2>8, <2>9, <2>11, <2>12, LeaveStep
  <1> QED
    BY <1>2, <1>3

\* A 401 ends the session.
LEMMA UnauthorizedStep ==
    ASSUME Here, NEW i \in DOMAIN calls, Unauthorized(i)
    PROVE  ScreenInv'
  <1>1. calls[i].status = "sent" /\ db' = db /\ authed' = "out"
    BY DEF Unauthorized, Denied
  <1>2. CASE OnLogin
    <2>1. Continue(i, <<>>) /\ UNCHANGED place
      BY <1>2 DEF Unauthorized
    <2>2. PanelStill
      BY <1>2 DEF Unauthorized, PanelStill, ShownFields
    <2>3. Quiet
      BY <1>1, <2>1, <2>2, SameIsStill DEF Quiet, place
    <2>4. calls[i].op \notin Duties \ {"projects"}
      BY <1>2, NoneOutside, FlightIs DEF OnLogin, Work, Sections, Here
    <2>5. calls[i].op \notin Duties \/ (\A p \in Parts : ~Owes(calls[i], p))
      BY <2>4, BoardOwes
    <2> QED
      BY <1>1, <2>1, <2>3, <2>5, QuietOver
  <1>3. CASE OnReset
    <2>1. calls' = RemoveAt(calls, i) /\ panel' = panel /\ project' = None
      BY <1>3 DEF Unauthorized, ShowLogin, OnLogin, OnReset
    <2>2. Quiet
      BY <1>1, <2>1, SameIsStill DEF Quiet
    <2>3. calls[i].op \notin Duties \ {"projects"}
      BY <1>3, NoneOutside, FlightIs DEF OnReset, Work, Sections, Here
    <2> QED
      BY <1>1, <2>1, <2>2, <2>3, OutsideOver
  <1>4. CASE ~OnLogin /\ ~OnReset
    <2>1. PICK r : r = RemoveAt(calls, i)
      OBVIOUS
    <2>2. PICK d : d = CallWith(stored', cookie', "providers", None)
      OBVIOUS
    <2>3. calls' = Void(r) \o <<d>> /\ panel' = FreshLogin(language) /\ project' = None
      BY <1>4, <2>1, <2>2 DEF Unauthorized, ShowLogin
    <2>4. IsList(r) /\ \A k \in DOMAIN r : r[k] \in Flight
      BY <2>1, RestFlight
    <2>5. PICK o : o = Void(r)
      OBVIOUS
    <2> DEFINE kept == {"import", "poll", "logout"}
    <2>6. DOMAIN o = DOMAIN r /\ \A k \in DOMAIN r : o[k] = [r[k] EXCEPT !.live = FALSE, !.op = IF @ \in kept THEN @ ELSE "void"]
      BY <2>5 DEF Void
    <2>7. IsList(o)
      <3>1. o = [k \in DOMAIN r |-> o[k]]
        BY <2>5 DEF Void
      <3> QED
        BY <2>4, <3>1, MapList
    <2>8. \A k \in DOMAIN r : Outside(r[k], o[k])
      <3>1. ASSUME NEW k \in DOMAIN r PROVE Outside(r[k], o[k])
        <4>1. DOMAIN r[k] = CallFields
          BY <2>4, FlightIs DEF Here, CallOK
        <4>2. /\ o[k].op = IF r[k].op \in kept THEN r[k].op ELSE "void"
              /\ o[k].status = r[k].status /\ o[k].arg = r[k].arg /\ o[k].ans = r[k].ans
          BY <2>6, <4>1 DEF CallFields
        <4>3. o[k].op \notin Duties
          BY <4>2, SignInApart, ImportApart
        <4> QED
          BY <4>2, <4>3 DEF Outside
      <3> QED
        BY <3>1
    <2>9. ShowsNothing'
      BY <2>3 DEF FreshLogin, ShowsNothing, Sections
    <2>10. d.op = "providers" /\ d.status = "sent" /\ Fact(d)'
      <3>1. d.op = "providers" /\ d.status = "sent"
        BY <2>2 DEF CallWith
      <3>2. Bare(d)'
        BY <3>1, SignInApart DEF Bare
      <3> QED
        BY <3>1, <3>2, BareFactNext
    <2>11. PICK cs : cs = <<d>>
      OBVIOUS
    <2>12. /\ OneByOne(cs)
           /\ \A c \in ToSet(cs) : c.op \notin Writes \cup {"episodes", "sources", "history", "logout"} /\ Fact(c)'
      <3>1. OneByOne(cs) /\ ToSet(cs) = {d}
        BY <2>10, <2>11, OneSent
      <3>2. "providers" \notin Writes
        BY SignInApart, OpsApart
      <3> QED
        BY <2>10, <3>1, <3>2
    <2>13. calls' = o \o cs /\ authed' # "closed" /\ calls[i].status # "asked"
      BY <1>1, <2>3, <2>5, <2>11
    <2> HIDE DEF kept
    <2> QED
      BY <1>1, <2>1, <2>3, <2>6, <2>7, <2>8, <2>9, <2>12, <2>13, LeaveStep
  <1> QED
    BY <1>2, <1>3, <1>4


LEMMA RehashedStill ==
    ASSUME Inv, db' = Rehashed(db)
    PROVE  RowsStill
  BY DEF RowsStill, ProjectsStay, Rehashed, Rowed, Inv, DbOK, DbFields

\* Nobody waits for an answer in the chat while he signs out.
LEMMA NoneWhileLeaving ==
    ASSUME Here, NEW i \in DOMAIN calls, calls[i].op = "logout"
    PROVE  db.answering = {}
  <1>1. calls[i] \in Flight
    BY FlightIs DEF Here
  <1>2. ASSUME NEW c \in Flight, c.status = "asked" PROVE FALSE
    <2>1. c.op = "chat" \/ c.op = "void"
      BY <1>2, FlightIs DEF Here, CallOK
    <2>2. CASE c.op = "chat"
      <3>1. "chat" \in Writes
        BY DEF Writes
      <3>2. calls[i].op \in Writes \cup Passive
        BY <1>1, <2>2, <3>1 DEF Here, ScreenInv, Alone
      <3> QED
        BY <3>2, OpsApart
    <2>3. CASE c.op = "void"
      BY <1>1, <1>2, <2>3 DEF Here, ScreenInv, Alone
    <2> QED
      BY <2>1, <2>2, <2>3
  <1> QED
    BY <1>2, NobodyAsked DEF Here

\* The page is loaded.
LEMMA PageLoads ==
    ASSUME Here, \/ OpenPage \/ OauthLogin \/ FollowLink \/ BackToLogin \/ Reload \/ SidebarLogout
                 \/ \E i \in DOMAIN calls : LogoutDone(i)
    PROVE  ScreenInv'
  <1>1. db' = db
    BY DEF OpenPage, OauthLogin, FollowLink, BackToLogin, Reload, SidebarLogout, LogoutDone
  <1>2. \E pw, ck, token : PageLoad(pw, ck, token)
    BY DEF OpenPage, OauthLogin, FollowLink, BackToLogin, Reload, SidebarLogout, LogoutDone
  <1>3. db.answering = {}
    <2>1. CASE OpenPage
      BY <2>1 DEF OpenPage, Here, ScreenInv, AskedOK
    <2>2. CASE OauthLogin \/ FollowLink \/ BackToLogin \/ Reload \/ SidebarLogout
      <3>1. \E op : User(op)
        BY <2>2 DEF OauthLogin, FollowLink, BackToLogin, Reload, SidebarLogout
      <3> QED
        BY <3>1, Waited
    <2>3. ASSUME NEW i \in DOMAIN calls, LogoutDone(i) PROVE db.answering = {}
      BY <2>3, NoneWhileLeaving DEF LogoutDone, Returned, Thrown
    <2> QED
      BY <2>1, <2>2, <2>3
  <1> QED
    BY <1>1, <1>2, <1>3, PageStep

LEMMA SignInClicksStep ==
    ASSUME Here, UNCHANGED mix, ChooseLanguage \/ Submit \/ Forgot \/ ConfirmReset \/ Logout \/ PasswordChanges
    PROVE  ScreenInv'
  <1>1. RowsStill /\ project' = project /\ authed' = authed
    <2>1. CASE PasswordChanges
      BY <2>1, RehashedStill DEF PasswordChanges, Here, place
    <2>2. CASE ChooseLanguage \/ Submit \/ Forgot \/ ConfirmReset \/ Logout
      BY <2>2, SameIsStill DEF ChooseLanguage, Submit, Forgot, ConfirmReset, Logout, auth, place
    <2> QED
      BY <2>1, <2>2
  <1>2. PanelStill
    <2>1. CASE ChooseLanguage
      BY <2>1 DEF ChooseLanguage, PanelStill, ShownFields
    <2>2. CASE Submit
      BY <2>2 DEF Submit, PanelStill, ShownFields
    <2>3. CASE Forgot
      BY <2>3, SameIsStill DEF Forgot, PanelStill, ShownFields
    <2>4. CASE ConfirmReset
      BY <2>4 DEF ConfirmReset, PanelStill, ShownFields
    <2>5. CASE Logout \/ PasswordChanges
      BY <2>5, SameIsStill DEF Logout, PasswordChanges
    <2> QED
      BY <2>1, <2>2, <2>3, <2>4, <2>5
  <1>3. Quiet
    BY <1>1, <1>2 DEF Quiet
  <1>4. calls = <<>>
    <2>1. \E op : User(op)
      BY DEF ChooseLanguage, Submit, Forgot, ConfirmReset, Logout, PasswordChanges
    <2> QED
      BY <2>1, Waited
  <1> DEFINE Sends(op) == \E pw, ck, x : Send(<<CallWith(pw, ck, op, x)>>)
  <1>5. UNCHANGED calls \/ Sends("probe") \/ Sends("forgot") \/ Sends("confirm") \/ Sends("logout")
    <2>1. CASE ChooseLanguage \/ PasswordChanges
      BY <2>1 DEF ChooseLanguage, PasswordChanges
    <2>2. CASE Submit
      BY <2>2 DEF Submit
    <2>3. CASE Forgot
      BY <2>3 DEF Forgot, Call
    <2>4. CASE ConfirmReset
      BY <2>4 DEF ConfirmReset, Call
    <2>5. CASE Logout
      BY <2>5 DEF Logout
    <2> QED
      BY <2>1, <2>2, <2>3, <2>4, <2>5
  <1>6. CASE UNCHANGED calls
    BY <1>3, <1>6, QuietStay
  <1>7. ASSUME NEW pw, NEW ck, NEW op \in {"probe", "forgot", "confirm", "logout"}, NEW x, Send(<<CallWith(pw, ck, op, x)>>)
        PROVE  ScreenInv'
    <2>1. PICK c : c = CallWith(pw, ck, op, x)
      OBVIOUS
    <2>2. c.op = op /\ c.status = "sent"
      BY <2>1 DEF CallWith
    <2>3. PICK cs : cs = <<c>>
      OBVIOUS
    <2>4. OneByOne(cs) /\ ToSet(cs) = {c} /\ Send(cs)
      BY <1>7, <2>1, <2>2, <2>3, OneSent
    <2>5. op \notin Duties
      BY SignInApart
    <2> QED
      BY <1>3, <1>4, <2>2, <2>4, <2>5, QuietSend
  <1> QED
    BY <1>5, <1>6, <1>7

LEMMA SignInServedStep ==
    ASSUME Here, NEW i \in DOMAIN calls, MeServed(i) \/ LoginServed(i) \/ ConfirmServed(i) \/ LogoutServed(i)
    PROVE  ScreenInv'
  <1>1. calls[i].status = "sent" /\ calls[i].op \in {"me", "probe", "providers", "forgot", "confirm", "logout"}
    BY DEF MeServed, LoginServed, ConfirmServed, LogoutServed, Arrives
  <1>2. Serve(i, None) \/ (Refuse(i) /\ calls[i].op = "confirm")
    <2>1. CASE MeServed(i) \/ LoginServed(i) \/ LogoutServed(i)
      BY <2>1 DEF MeServed, LoginServed, LogoutServed
    <2>2. CASE ConfirmServed(i)
      BY <2>2 DEF ConfirmServed, Arrives
    <2> QED
      BY <2>1, <2>2
  <1>3. panel' = panel /\ project' = project /\ authed' = authed
    BY DEF MeServed, LoginServed, ConfirmServed, LogoutServed, auth, place
  <1>4. db' = db \/ db' = Rehashed(db)
    BY DEF MeServed, LoginServed, ConfirmServed, LogoutServed
  <1>5. Quiet
    BY <1>3, <1>4, SameIsStill, RehashedStill DEF Quiet, Here
  <1>6. calls[i].op \notin Duties
    BY <1>1, SignInApart
  <1>7. "confirm" \in Refusable
    BY DEF Refusable
  <1> QED
    BY <1>1, <1>2, <1>5, <1>6, <1>7, QuietServe

LEMMA SignInOverStep ==
    ASSUME Here, NEW i \in DOMAIN calls, LoginAnswered(i) \/ ConfirmAnswered(i) \/ VoidOver(i)
    PROVE  ScreenInv'
  <1>1. Continue(i, <<>>) /\ db' = db /\ project' = project /\ authed' = authed
    BY DEF LoginAnswered, ConfirmAnswered, VoidOver, auth, place
  <1>2. calls[i].status # "asked" /\ calls[i].op \in {"providers", "forgot", "confirm", "void"}
    BY DEF LoginAnswered, ConfirmAnswered, VoidOver, Returned, Thrown, Arrives
  <1>3. PanelStill
    <2>1. CASE LoginAnswered(i)
      BY <2>1, SameIsStill DEF LoginAnswered, PanelStill, ShownFields
    <2>2. CASE ConfirmAnswered(i)
      BY <2>2, SameIsStill DEF ConfirmAnswered, PanelStill, ShownFields
    <2>3. CASE VoidOver(i)
      BY <2>3, SameIsStill DEF VoidOver
    <2> QED
      BY <2>1, <2>2, <2>3
  <1>4. Quiet
    BY <1>1, <1>3, SameIsStill DEF Quiet
  <1>5. calls[i].op \notin Duties
    BY <1>2, SignInApart
  <1> QED
    BY <1>1, <1>2, <1>4, <1>5, QuietOver

LEMMA SignInScreens ==
    ASSUME Here, SignInNext, UNCHANGED mix
    PROVE  ScreenInv'
  <1>1. ASSUME NEW i \in DOMAIN calls, MeThrown(i) \/ LoginThrown(i) PROVE FALSE
    <2>1. calls[i].status = "failed" /\ calls[i].op \in {"me", "probe", "providers", "forgot"}
      BY <1>1 DEF MeThrown, LoginThrown, Thrown
    <2> QED
      BY <2>1, FailedIs, SignInApart
  <1>2. CASE OpenPage \/ OauthLogin \/ FollowLink \/ BackToLogin \/ Reload \/ SidebarLogout \/ \E i \in DOMAIN calls : LogoutDone(i)
    BY <1>2, PageLoads
  <1>3. CASE ChooseLanguage \/ Submit \/ Forgot \/ ConfirmReset \/ Logout \/ PasswordChanges
    BY <1>3, SignInClicksStep
  <1> QED
    BY <1>1, <1>2, <1>3, SignInServedStep, SignInOverStep, AdmitStep, UnauthorizedStep DEF SignInNext



-----------------------------------------------------------------------------
(***************************************************************************)
(* The workspace.                                                          *)
(***************************************************************************)
LEMMA ToDashboardStep ==
    ASSUME Here, ToDashboard
    PROVE  ScreenInv'
  <1>1. calls = <<>> /\ db.answering = {} /\ db' = db /\ project' = None
    BY Waited DEF ToDashboard
  <1>2. PICK inst, pw, ck : inst = acts' /\ pw = stored /\ ck = cookie
    OBVIOUS
  <1>3. panel' = FreshDashboard(inst) /\ calls' = Orphan(calls) \o DashboardCalls(pw, ck)
    BY <1>2 DEF ToDashboard
  <1> QED
    BY <1>1, <1>3, BoardStep

LEMMA GoToStep ==
    ASSUME Here, NEW s \in Sections, GoTo(s)
    PROVE  ScreenInv'
  <1>1. calls = <<>> /\ db.answering = {} /\ db' = db /\ IsRight("copy")
    BY Waited DEF GoTo, Parts
  <1>2. PICK row, r, inst : row = project /\ r = calls /\ inst = acts'
    OBVIOUS
  <1>3. row.guide = db.projects[row.id]
    BY <1>1, <1>2 DEF IsRight, GoTo
  <1>4. /\ panel' = Screen(s, row, inst) /\ project' = row
        /\ calls' = Orphan(r) \o ScreenCalls(s, row)
    BY <1>2 DEF GoTo, Mount
  <1>5. IsList(r) /\ ToSet(r) = {}
    BY <1>1, <1>2, NoneSent
  <1> QED
    BY <1>1, <1>3, <1>4, <1>5, MountScreen

LEMMA SaveOwes ==
    ASSUME NEW c, c.op = "save", NEW p, p # "copy"
    PROVE  ~Owes(c, p)
  <1>1. c.op \notin AdminOps
    BY AdminApart
  <1> QED
    BY <1>1, Zenon DEF Owes

LEMMA ProjectSavedStep ==
    ASSUME Here, NEW i \in DOMAIN calls, ProjectSaved(i)
    PROVE  ScreenInv'
  <1>1. calls[i].op = "save" /\ calls[i].status = "ok" /\ db' = db /\ authed' = authed
    BY DEF ProjectSaved, Returned, auth
  <1>2. Ans(i).guide = db.projects[Ans(i).id] /\ panel.kind = "settings" /\ calls[i].live
    BY <1>1, CallHas DEF Answers, Fact, AtHome, SettingsOps
  <1>3. calls[i].op \in Writes
    BY <1>1 DEF Writes
  <1>4. CASE project = None
    <2>1. /\ db.answering = {} /\ IsList(RemoveAt(calls, i))
          /\ \A c \in ToSet(RemoveAt(calls, i)) : c \in Flight /\ c.op \in Passive
      BY <1>1, <1>3, RestLooksOn
    <2>2. PICK row, r, inst, s : row = Ans(i) /\ r = RemoveAt(calls, i) /\ inst = acts' /\ s = section
      OBVIOUS
    <2>3. /\ panel' = Screen(s, row, inst) /\ project' = row
          /\ calls' = Orphan(r) \o ScreenCalls(s, row)
      BY <1>4, <2>2 DEF ProjectSaved, Mount
    <2>4. s \in Sections
      BY <2>2 DEF Here, Inv, PlaceOK
    <2>5. row.guide = db.projects[row.id]
      BY <1>2, <2>2
    <2> QED
      BY <1>1, <2>1, <2>2, <2>3, <2>4, <2>5, MountScreen
  <1>5. CASE project # None
    <2>1. section = "settings"
      BY <1>2 DEF Here, Inv, PlaceOK, Sections
    <2>2. Continue(i, <<>>) /\ project' = Ans(i) /\ Set([busy |-> FALSE, saved |-> TRUE])
      BY <1>2, <1>5, <2>1 DEF ProjectSaved, Reloads, ScreenCalls, Shown
    <2>3. PanelStill /\ RowsStill
      <3>1. PICK ch : ch = [busy |-> FALSE, saved |-> TRUE]
        OBVIOUS
      <3>2. DOMAIN ch \cap (ShownFields \cup {"at"}) = {}
        BY <3>1 DEF ShownFields
      <3> QED
        BY <1>1, <2>2, <3>1, <3>2, SetStill, SameIsStill
    <2>4. Flight' = Rest(i) /\ Flight = Rest(i) \cup {calls[i]}
      <3>1. PICK cs : cs = <<>>
        OBVIOUS
      <3>2. Continue(i, cs) /\ IsList(cs) /\ ToSet(cs) = {}
        BY <2>2, <3>1, NoneSent
      <3>3. Flight' = Rest(i) \cup ToSet(cs)
        BY <3>2, FlightContinue DEF Here
      <3> QED
        BY <3>2, <3>3, FlightIs DEF Here
    <2>5. \A c \in Rest(i) : Bare(c) /\ Bare(c)'
      BY <1>3, RestPassive DEF Here
    <2>6. ASSUME NEW p \in Parts, IsRight(p) \/ Owes(calls[i], p) PROVE IsRight(p)'
      <3>1. CASE p = "copy"
        BY <1>1, <1>2, <2>2, <3>1 DEF IsRight
      <3>2. CASE p # "copy"
        <4>1. ~Owes(calls[i], p)
          BY <1>1, <3>2, SaveOwes
        <4> QED
          BY <2>3, <2>6, <3>2, <4>1, RightElse DEF Here, ScreenInv
      <3> QED
        BY <3>1, <3>2
    <2>7. FieldsOK' /\ StoreOK' /\ Alone'
      BY <2>2, <2>3, FieldsStay, StoreStays, AloneLess DEF Here, ScreenInv
    <2>8. AskedOK'
      <3>1. PICK G : G = {calls[i]}
        OBVIOUS
      <3>2. Flight \subseteq Flight' \cup G /\ \A g \in G : g.status # "asked"
        BY <1>1, <2>4, <3>1
      <3> QED
        BY <1>1, <3>2, AskedStays DEF Here
    <2>9. PICK O, D : O = {calls[i]} /\ D = {}
      OBVIOUS
    <2>10. /\ \A c \in Flight : c \in O \/ Bare(c)
           /\ D \subseteq Flight' /\ \A c \in Flight' : c \in D \/ Bare(c)'
           /\ \A c \in D : Fact(c)'
           /\ \A p \in Parts : IsRight(p) \/ (\E c \in O : Owes(c, p)) => IsRight(p)' \/ \E c \in D : Owes(c, p)'
      BY <2>4, <2>5, <2>6, <2>9
    <2> QED
      BY <2>7, <2>8, <2>10, OnlyStep
  <1> QED
    BY <1>4, <1>5

LEMMA SectionScreens ==
    ASSUME Here, InSection, UNCHANGED <<mix, auth, place, watch, permission, session>>
    PROVE  ScreenInv'
  <1>1. Inside
    BY DEF Inside
  <1> QED
    BY <1>1, ActivityScreens, ChatScreens, SearchScreens, MaterialsScreens, WriteScreens, SettingsScreens DEF InSection

LEMMA ScreenNext ==
    ASSUME Here, [Next]_vars
    PROVE  ScreenInv'
  <1>1. CASE UNCHANGED vars
    <2>1. UNCHANGED <<calls, panel, db, project, authed>>
      BY <1>1 DEF vars, auth, place
    <2>2. Quiet
      BY <2>1, SameIsStill DEF Quiet
    <2> QED
      BY <2>1, <2>2, QuietStay
  <1>2. CASE Next
    <2>1. UNCHANGED mix
      BY <1>2 DEF Next
    <2>2. CASE SignInNext
      BY <2>1, <2>2, SignInScreens
    <2>3. CASE DashboardNext /\ UNCHANGED <<auth, session>>
      BY <2>1, <2>3, DashboardScreens
    <2>4. CASE ImportNext /\ UNCHANGED <<auth, place, session>>
      BY <2>4, ImportScreens
    <2>5. CASE ImportTab /\ UNCHANGED <<auth, place, session>>
      <3>1. PICK into : into = project.id
        OBVIOUS
      <3>2. StartImport(into)
        BY <2>5, <3>1 DEF ImportTab
      <3> QED
        BY <2>5, <3>2, StartScreens
    <2>6. CASE InSection /\ UNCHANGED <<auth, place, watch, permission, session>>
      BY <2>1, <2>6, SectionScreens
    <2>7. ASSUME NEW i \in DOMAIN calls, AccountsServed(i) \/ OwnPasswordServed(i),
                 UNCHANGED <<stored, cookie, authed, place, watch, permission, session>>
          PROVE  ScreenInv'
      <3>1. project' = project /\ authed' = authed
        BY <2>7 DEF place
      <3> QED
        BY <2>7, <3>1, AccountsServedStep, OwnPasswordStep
    <2>8. CASE ToDashboard
      BY <2>8, ToDashboardStep
    <2>9. ASSUME NEW s \in Sections, GoTo(s) PROVE ScreenInv'
      BY <2>9, GoToStep
    <2>10. ASSUME NEW i \in DOMAIN calls, LoseCall(i) PROVE FALSE
      BY <2>10 DEF LoseCall, Lost, Here, Calm
    <2> QED
      BY <1>2, <2>2, <2>3, <2>4, <2>5, <2>6, <2>7, <2>8, <2>9, <2>10, ProjectSavedStep DEF Next
  <1> QED
    BY <1>1, <1>2



-----------------------------------------------------------------------------
(***************************************************************************)
(* The start.                                                              *)
(***************************************************************************)
LEMMA RowsAtFirst ==
    ASSUME db = Rows
    PROVE  /\ db.chat = <<>> /\ db.answering = {} /\ db.numbers = <<1, 3>> /\ db.projects[1] = None
           /\ IsList(db.chat) /\ IsList(db.numbers) /\ Paired(db.chat) /\ Distinct(db.numbers)
  <1>1. /\ db.chat = <<>> /\ db.answering = {} /\ db.numbers = <<1, 3>> /\ db.projects = <<None>>
    BY DEF Rows
  <1>2. db.projects[1] = None
    BY <1>1, OneList
  <1>3. IsList(db.chat) /\ DOMAIN db.chat = {}
    BY <1>1, EmptyList
  <1>4. Paired(db.chat)
    BY <1>3 DEF Paired
  <1>5. /\ IsList(db.numbers) /\ DOMAIN db.numbers = {1, 2}
        /\ db.numbers[1] = 1 /\ db.numbers[2] = 3
    BY <1>1, TwoList
  <1>6. Distinct(db.numbers)
    BY <1>5 DEF Distinct
  <1> QED
    BY <1>1, <1>2, <1>3, <1>4, <1>5, <1>6

LEMMA StartFact ==
    ASSUME NEW c, c.status = "sent", c.live = TRUE, c.op \in {"home", "names", "whoami", "projects", "episodes", "history"},
           c.op = "episodes" => panel.kind = "write", c.op = "history" => panel.kind = "chat"
    PROVE  Fact(c)
  <1>1. AtHome(c)
    BY DEF AtHome, ChatOps, SearchOps, MaterialsOps, WriteOps, SettingsOps, BoardOps, AdminOps
  <1>2. AboutThis(c, c.arg[c.op])
    BY PlainAbout
  <1> QED
    BY <1>1, <1>2 DEF Fact

LEMMA StartAlone ==
    ASSUME OneByOne(calls)
    PROVE  Alone
  <1>1. \A c \in Flight : c.status = "sent"
    BY DEF OneByOne, Flight
  <1> QED
    BY <1>1 DEF OneByOne, Alone, Flight

LEMMA StartRight ==
    ASSUME db = Rows,
           panel.kind = "chat" => panel.messages = <<>>,
           panel.kind = "search" => panel.found = None,
           panel.kind = "materials" => panel.at.tab \in AiTabs,
           panel.kind = "write" => panel.episode = None,
           panel.kind = "settings" => /\ panel.sys = None /\ panel.users = None /\ panel.backups = None
                                      /\ panel.meant = db.config.key /\ panel.tab = "basic",
           project # None => project = Row(1, None),
           NEW p \in Parts
    PROVE  IsRight(p)
  <1>1. CASE p = "copy"
    BY <1>1, RowsAtFirst DEF IsRight, Row
  <1>2. CASE p # "copy"
    BY <1>2, RowsAtFirst DEF IsRight
  <1> QED
    BY <1>1, <1>2

\* What is there at first, by the screen that is.
LEMMA StartPage ==
    ASSUME db = Rows, InitPage
    PROVE  /\ OneByOne(calls) /\ (\A c \in Flight : Fact(c)) /\ FieldsOK
           /\ panel.kind \notin Sections \cup {"dashboard"} /\ project = None
  <1>1. panel.kind = "none" /\ project = None /\ calls = <<>>
    BY DEF InitPage, NoScreen
  <1>2. OneByOne(calls) /\ Flight = {}
    BY <1>1, NoneSent DEF Flight
  <1>3. FieldsOK
    BY <1>1 DEF FieldsOK
  <1> QED
    BY <1>1, <1>2, <1>3 DEF Sections

LEMMA StartBoard ==
    ASSUME InitInside, mix.start = "dashboard"
    PROVE  /\ OneByOne(calls) /\ (\A c \in Flight : Fact(c)) /\ FieldsOK
           /\ panel.kind = "dashboard" /\ panel.projects = <<>> /\ project = None
  <1>1. project = None /\ panel = FreshDashboard(0) /\ calls = DashboardCalls(stored, cookie)
    BY DEF InitInside
  <1>2. panel.kind = "dashboard" /\ panel.projects = <<>> /\ FieldsOK
    BY <1>1 DEF FreshDashboard, FieldsOK
  <1>3. PICK c, d : c = CallWith(stored, cookie, "whoami", None) /\ d = CallWith(stored, cookie, "projects", None)
    OBVIOUS
  <1>4. /\ c.op = "whoami" /\ d.op = "projects" /\ c.status = "sent" /\ d.status = "sent"
        /\ c.live = TRUE /\ d.live = TRUE /\ calls = <<c, d>>
    BY <1>1, <1>3 DEF CallWith, DashboardCalls
  <1>5. IsList(calls) /\ ToSet(calls) = {c, d}
    BY <1>4, SetOfTwo, TwoList
  <1>6. OneByOne(calls)
    <2>1. \A e \in ToSet(calls) : e.op \notin Writes \cup {"episodes", "sources"} /\ e.status = "sent"
      BY <1>4, <1>5 DEF Writes, AdminOps
    <2> QED
      BY <1>5, <2>1, OneByOneReads
  <1>7. Fact(c) /\ Fact(d)
    BY <1>4, StartFact
  <1>8. \A e \in Flight : Fact(e)
    BY <1>5, <1>7 DEF Flight
  <1> QED
    BY <1>1, <1>2, <1>6, <1>8

LEMMA StartSection ==
    ASSUME db = Rows, NEW s \in Sections, NEW row, panel = Screen(s, row, 0)
    PROVE  /\ FieldsOK /\ panel.kind = s
           /\ panel.kind = "chat" => panel.messages = <<>>
           /\ panel.kind = "search" => panel.found = None
           /\ panel.kind = "materials" => panel.at.tab \in AiTabs
           /\ panel.kind = "write" => panel.episode = None
           /\ panel.kind = "settings" => /\ panel.sys = None /\ panel.users = None /\ panel.backups = None
                                         /\ panel.meant = db.config.key /\ panel.tab = "basic"
  <1>1. CASE s = "home"
    BY <1>1 DEF Screen, FreshHome, FieldsOK
  <1>2. CASE s = "write"
    BY <1>2 DEF Screen, FreshWrite, FieldsOK
  <1>3. CASE s = "materials"
    BY <1>3 DEF Screen, FreshMaterials, FreshTab, AiTab, AiTabs, Tabs, FieldsOK
  <1>4. CASE s = "search"
    BY <1>4 DEF Screen, FreshSearch, FieldsOK
  <1>5. CASE s = "chat"
    BY <1>5, NoneSent DEF Screen, FreshChat, FieldsOK
  <1>6. CASE s = "settings"
    BY <1>6 DEF Screen, FreshSettings, FieldsOK
  <1> QED
    BY <1>1, <1>2, <1>3, <1>4, <1>5, <1>6 DEF Sections

LEMMA StartCalled ==
    ASSUME NEW s \in Sections, NEW row, panel.kind = s, calls = ScreenCalls(s, row)
    PROVE  OneByOne(calls) /\ \A c \in Flight : Fact(c)
  <1> DEFINE Sends(op, x) == calls = <<Call(op, x)>>
  <1>1. \/ calls = <<>>
        \/ s = "home" /\ Sends("home", row.id)
        \/ s = "write" /\ Sends("episodes", None)
        \/ s = "search" /\ Sends("names", None)
        \/ s = "chat" /\ Sends("history", None)
    BY DEF ScreenCalls, Sections, HomeCalls, WriteCalls, SearchCalls, ChatCalls
  <1>2. CASE calls = <<>>
    BY <1>2, NoneSent DEF Flight
  <1>3. ASSUME NEW op \in {"home", "names", "episodes", "history"}, NEW x, Sends(op, x),
               op = "episodes" => s = "write", op = "history" => s = "chat"
        PROVE  OneByOne(calls) /\ \A c \in Flight : Fact(c)
    <2>1. PICK c : c = Call(op, x)
      OBVIOUS
    <2>2. c.op = op /\ c.status = "sent" /\ c.live = TRUE /\ calls = <<c>>
      BY <1>3, <2>1 DEF Call, CallWith
    <2>3. Fact(c)
      BY <1>3, <2>2, StartFact
    <2> QED
      BY <2>2, <2>3, OneSent DEF Flight
  <1> HIDE DEF Sends
  <1> QED
    BY <1>1, <1>2, <1>3

LEMMA StartInv ==
    ASSUME Init
    PROVE  ScreenInv
  <1>1. db = Rows /\ mix \in Mixes
    BY DEF Init
  <1>2. /\ OneByOne(calls) /\ (\A c \in Flight : Fact(c)) /\ FieldsOK
        /\ panel.kind = "dashboard" => panel.projects = <<>>
        /\ \A p \in Parts : IsRight(p)
    <2>1. CASE InitPage
      <3>1. panel.kind \notin Sections /\ project = None
        BY <1>1, <2>1, StartPage
      <3>2. \A p \in Parts : IsRight(p)
        BY <1>1, <3>1, StartRight DEF Sections
      <3> QED
        BY <1>1, <2>1, <3>2, StartPage
    <2>2. CASE InitInside /\ mix.start = "dashboard"
      <3>1. \A p \in Parts : IsRight(p)
        BY <1>1, <2>2, StartBoard, StartRight
      <3> QED
        BY <2>2, <3>1, StartBoard
    <2>3. CASE InitInside /\ mix.start # "dashboard"
      <3>1. PICK s, row : s = section /\ row = Row(1, None)
        OBVIOUS
      <3>2. /\ project = row /\ s \in Sections /\ panel = Screen(s, row, 0) /\ calls = ScreenCalls(s, row)
        BY <1>1, <2>3, <3>1, MixesAssumption DEF InitInside, Mix, Sections
      <3>3. panel.kind = s /\ FieldsOK
        BY <1>1, <3>2, StartSection
      <3>4. \A p \in Parts : IsRight(p)
        BY <1>1, <3>1, <3>2, StartSection, StartRight
      <3>5. OneByOne(calls) /\ \A c \in Flight : Fact(c)
        BY <3>2, <3>3, StartCalled
      <3> QED
        BY <3>2, <3>3, <3>4, <3>5 DEF Sections
    <2> QED
      BY <2>1, <2>2, <2>3 DEF Init
  <1>3. StoreOK
    BY <1>1, <1>2, RowsAtFirst, EmptyList DEF StoreOK
  <1>4. Alone /\ AskedOK
    BY <1>1, <1>2, RowsAtFirst, StartAlone DEF AskedOK
  <1> QED
    BY <1>2, <1>3, <1>4 DEF ScreenInv

-----------------------------------------------------------------------------
(***************************************************************************)
(* The theorem.                                                            *)
(***************************************************************************)
\* At every moment what a screen shows is right or owed by a call in flight, and what such a
\* call will bring is right too.
THEOREM ScreensKeepUp == Spec => []CalmInv
  <1>1. Init => Inv /\ CalmInv
    BY InitInv, StartInv DEF CalmInv
  <1>2. Inv /\ Inv' /\ CalmInv /\ [Next]_vars => CalmInv'
    <2> SUFFICES ASSUME Inv, Inv', CalmInv, [Next]_vars, Calm'
                 PROVE  ScreenInv'
      BY DEF CalmInv
    <2>1. mix' = mix
      BY DEF Next, vars
    <2>2. Calm
      BY <2>1 DEF Calm
    <2> QED
      BY <2>2, ScreenNext DEF CalmInv, Here
  <1> QED
    BY <1>1, <1>2, Invariance, PTL DEF Spec

LEMMA InStep ==
    ASSUME ScreenInv, calls = <<>>
    PROVE  ChatInStep /\ SearchInStep /\ MaterialsInStep /\ WriteInStep /\ SettingsInStep /\ CopyInStep
  <1>1. Flight = {}
    BY NoneSent DEF Flight
  <1>2. \A p \in Parts : IsRight(p)
    BY <1>1 DEF ScreenInv, Owed
  <1>3. /\ IsRight("messages") /\ IsRight("matches") /\ IsRight("rows") /\ IsRight("list") /\ IsRight("sources")
        /\ IsRight("sys") /\ IsRight("key") /\ IsRight("users") /\ IsRight("backups")
        /\ IsRight("summary") /\ IsRight("recent") /\ IsRight("copy")
    BY <1>2 DEF Parts
  <1>4. ChatInStep
    BY <1>3 DEF ScreenInv, StoreOK, Paired, IsRight, ChatInStep, OnChat
  <1>5. SearchInStep
    BY <1>3 DEF IsRight, SearchInStep, OnSearch, Matches
  <1>6. MaterialsInStep
    <2>1. OnTab({"memos", "templates"}) => panel.at.list = db[panel.at.tab]
      BY <1>3 DEF IsRight, OnTab, AiTabs
    <2>2. Len(db.numbers) <= ListLimit => Cardinality(ToSet(db.numbers)) = Len(db.numbers)
      BY NumbersApart DEF ScreenInv, StoreOK
    <2> QED
      BY <2>1, <2>2 DEF MaterialsInStep
  <1>7. WriteInStep
    BY <1>3 DEF IsRight, WriteInStep, OnEpisode, OnWrite
  <1>8. SettingsInStep
    BY <1>3 DEF IsRight, SettingsInStep, UsageShown
  <1>9. CopyInStep
    BY <1>3 DEF IsRight, CopyInStep
  <1> QED
    BY <1>4, <1>5, <1>6, <1>7, <1>8, <1>9

\* For one who waits for the answers, and whose calls are answered, every screen shows what
\* the server has whenever nothing is under way: the turns of the chat, the matches of the
\* search in the texts as they are now, memos and templates, the list and the sources of the
\* write screen, the connection, the accounts, the backups and the usage of the settings, and
\* Workspace's own copy of the open project.
THEOREM ScreensAreInStep == Spec => []ScreensInStep
  <1>1. CalmInv => ScreensInStep
    BY InStep DEF CalmInv, Calm, ScreensInStep
  <1> QED
    BY <1>1, ScreensKeepUp, PTL
=============================================================================
