-------------------------- MODULE EditorPanelProofs --------------------------
(***************************************************************************)
(* Proofs about EditorPanel, for any episodes and any bounds of the mixes: *)
(* streams belong to what is on the screen, whatever answers late; a saved *)
(* text is kept by imports and restores; and for a careful writer texts    *)
(* stay in their episodes, the list follows the server and nothing typed   *)
(* vanishes.                                                               *)
(***************************************************************************)
EXTENDS EditorPanel, FiniteSetTheorems, SequenceTheorems, WellFoundedInduction, TLAPS

Writing == {"save", "restore", "docx"}
IsCall(c) == IsList(c.list) /\ c \in Write(c.list) \cup Other(c.list)
Run == [ep : Eps, state : {"live", "aborted", "over"}]
CheckStream == [gen : Gens, attempt : {0, 1}, aborted : BOOLEAN]

-----------------------------------------------------------------------------
(***************************************************************************)
(* The inductive invariant.                                                *)
(***************************************************************************)

\* An open panel is that of the episode in the editor.
PanelFollows == panel # None => e # None /\ panel.ep = e.ep

\* A check is started over at most once by every call and every piece of writing.
Bounded ==
    /\ IsFiniteSet(calls) /\ IsFiniteSet(checks)
    /\ Cardinality(calls) <= called + 1
    /\ Cardinality(checks) + Cardinality(calls) <= mix.checks + written + called + 1

\* What the client knows of is on the server, where no row is deleted.
Known ==
    /\ DOMAIN es \subseteq DOMAIN stored
    /\ e # None => e.ep \in DOMAIN stored
    /\ voice # None => voice.base.ep \in DOMAIN stored
    /\ \A c \in calls : /\ DOMAIN c.list \subseteq DOMAIN stored
                        /\ c.kind \in Writing => c.ep \in DOMAIN stored
    /\ \A r \in DOMAIN runs : runs[r].ep \in DOMAIN stored

\* A text that was saved when its replacement was asked for has been kept.
SavedIsKept ==
    \A c \in calls : c.kind \in {"restore", "docx"} /\ c.saved =>
        c.shown \in history[c.ep] \cup {stored[c.ep]}

TInv == TypeOK /\ PanelFollows /\ Bounded /\ Known

\* Nothing that was typed is in a text of another episode.
Pure(k, t) == \A p \in Typed(t) : p.ep = k
PureList(l) == \A k \in DOMAIN l : Pure(k, l[k])

PureTexts ==
    /\ PureList(stored) /\ PureList(es)
    /\ \A k \in Eps : \A t \in history[k] : Pure(k, t)
    /\ e # None => Pure(e.ep, e.text)
    /\ \A c \in calls : PureList(c.list) /\ (c.kind \in Writing => Pure(c.ep, c.text))
    /\ voice # None => Pure(voice.base.ep, voice.base.text) /\ Pure(voice.base.ep, voice.heard)
    /\ ai # None => ai.run \in DOMAIN runs /\ Pure(runs[ai.run].ep, ai.text)
    /\ diff # None => e # None /\ Pure(e.ep, diff.before) /\ Pure(e.ep, diff.after)
    /\ panel # None => Pure(panel.ep, panel.checked) /\ Pure(panel.ep, panel.working)

\* A careful writer does one thing at a time, and all of it is about the episode in
\* the editor.
OneThing ==
    /\ \A c, d \in calls : c = d
    /\ voice # None \/ panel # None \/ diff # None => calls = {}
    /\ voice = None \/ (panel = None /\ diff = None)
    /\ \A c \in calls : c.kind \in Writing => e # None /\ c.ep = e.ep /\ c.ep \in DOMAIN c.list
    /\ \A c \in calls : c.kind \notin Writing => ai = None /\ \A r \in DOMAIN runs : runs[r].state # "live"
    /\ voice # None => /\ e # None /\ voice.base.ep = e.ep
                       /\ Typed(e.text) \subseteq voice.base.text \cup voice.heard
    /\ \A r \in DOMAIN runs : runs[r].state = "live" => e # None /\ runs[r].ep = e.ep
    /\ ai # None => ai.run \in DOMAIN runs /\ e # None /\ runs[ai.run].ep = e.ep
    /\ \A c \in calls : c.kind = "save" => Typed(e.text) \subseteq c.text
    /\ e # None => e.ep \in DOMAIN es

\* What the list lacks is in the answer that is awaited.
ListOwed ==
    ~mix.fails /\ mounted =>
        /\ calls = {} => es = stored
        /\ \A c \in calls : c.kind \in Writing =>
              IF c.done THEN stored = ListWith(c) ELSE stored = c.list
        /\ \A c \in calls : c.kind = "load" /\ c.done => c.list = stored

Care == mix.careful => PureTexts /\ OneThing /\ ListOwed

-----------------------------------------------------------------------------
(***************************************************************************)
(* Operators.                                                              *)
(***************************************************************************)

LEMMA Countable == ASSUME NEW S, IsFiniteSet(S) PROVE Cardinality(S) \in Nat
  BY FS_CardinalityType

LEMMA AddOne ==
    ASSUME NEW S, NEW x, IsFiniteSet(S)
    PROVE  IsFiniteSet(S \cup {x}) /\ Cardinality(S \cup {x}) <= Cardinality(S) + 1
  <1>1. Cardinality(S) \in Nat
    BY Countable
  <1>2. CASE x \in S
    BY <1>1, <1>2, FS_AddElement
  <1>3. CASE x \notin S
    BY <1>1, <1>3, FS_AddElement
  <1>4. QED
    BY <1>2, <1>3

LEMMA LeastOfNats ==
    ASSUME NEW S \in SUBSET Nat, S # {}
    PROVE  \E x \in S : \A y \in S : x <= y
  <1>1. PICK x \in S : \A y \in S : ~(<<y, x>> \in OpToRel(<, Nat))
    BY NatLessThanWellFounded, WFMin
  <1>2. ASSUME NEW y \in S PROVE x <= y
    <2>1. x \in Nat /\ y \in Nat /\ <<y, x>> \in Nat \X Nat
      OBVIOUS
    <2>2. ~(y < x)
      BY <1>1, <2>1 DEF OpToRel
    <2>3. QED
      BY <2>1, <2>2
  <1>3. QED
    BY <1>2

LEMMA FirstOfIsListed ==
    ASSUME NEW l, IsList(l), l # Nothing
    PROVE  FirstOf(l) \in DOMAIN l /\ [ep |-> FirstOf(l), text |-> l[FirstOf(l)]] \in Shown
  <1>1. DOMAIN l # {}
    BY DEF IsList, Nothing
  <1>2. FirstOf(l) \in DOMAIN l
    BY <1>1, LeastOfNats, EpsAssumption DEF IsList, FirstOf
  <1>3. QED
    BY <1>2 DEF IsList, Shown

LEMMA MixTyped ==
    ASSUME TypeOK
    PROVE  /\ mix \in Mix /\ mix.typed \in Nat /\ mix.calls \in Nat /\ mix.runs \in Nat /\ mix.checks \in Nat
           /\ called \in Nat /\ written \in Nat /\ called <= mix.calls /\ written <= mix.typed
  BY MixesAssumption DEF TypeOK, Mix

\* The names in use are fewer than the names, so that one is free.
LEMMA FreeGenIsFree ==
    ASSUME TypeOK, Bounded
    PROVE  FreeGen \in Gens /\ (panel # None => panel.gen # FreeGen) /\ \A s \in checks : s.gen # FreeGen
  <1> DEFINE Taken == {s.gen : s \in checks}
             Used == Taken \cup {panel.gen}
  <1>1. Cardinality(checks) \in Nat /\ Cardinality(calls) \in Nat
    BY FS_CardinalityType DEF Bounded
  <1>2. IsFiniteSet(Taken) /\ Cardinality(Taken) <= Cardinality(checks) /\ Cardinality(Taken) \in Nat
    <2> DEFINE f == [s \in checks |-> s.gen]
    <2>1. f \in Surjection(checks, Taken)
      BY DEF Surjection
    <2>2. QED
      BY <2>1, FS_Surjection, FS_CardinalityType DEF Bounded
  <1> HIDE DEF Taken
  <1>3. IsFiniteSet(Used) /\ Cardinality(Used) <= Cardinality(checks) + 1 /\ Cardinality(Used) \in Nat
    BY <1>1, <1>2, AddOne, Countable
  <1>4. Cardinality(checks) + 1 < Cardinality(Gens) /\ Cardinality(Gens) \in Nat
    <2>1. mix \in Mixes /\ mix.checks + mix.typed + mix.calls + 2 < Cardinality(Gens)
      BY GensAssumption DEF TypeOK
    <2>2. Cardinality(Gens) \in Nat
      BY GensAssumption, Countable
    <2>3. Cardinality(checks) <= mix.checks + written + called + 1
      BY <1>1, MixTyped DEF Bounded
    <2>4. QED
      BY <1>1, <2>1, <2>2, <2>3, MixTyped
  <1>5. ~(Gens \subseteq Used)
    BY <1>1, <1>3, <1>4, FS_Subset
  <1>6. PICK g \in Gens : g \notin Used
    BY <1>5
  <1>7. (panel # None => panel.gen # g) /\ \A s \in checks : s.gen # g
    BY <1>6 DEF Taken
  <1>8. QED
    BY <1>7 DEF FreeGen

\* Aborting marks the streams of one run of the effect and leaves the others.
LEMMA AbortTyped ==
    ASSUME NEW gen, checks \subseteq CheckStream, IsFiniteSet(checks)
    PROVE  /\ AbortCheck(gen) \subseteq CheckStream
           /\ IsFiniteSet(AbortCheck(gen)) /\ Cardinality(AbortCheck(gen)) <= Cardinality(checks)
           /\ \A s \in AbortCheck(gen) : ~s.aborted => s \in checks /\ s.gen # gen
  <1> DEFINE f == [s \in checks |-> IF s.gen = gen THEN [s EXCEPT !.aborted = TRUE] ELSE s]
  <1>1. f \in Surjection(checks, AbortCheck(gen))
    BY DEF Surjection, AbortCheck
  <1>2. IsFiniteSet(AbortCheck(gen)) /\ Cardinality(AbortCheck(gen)) <= Cardinality(checks)
    BY <1>1, FS_Surjection
  <1>3. ASSUME NEW s \in AbortCheck(gen)
        PROVE  s \in CheckStream /\ (~s.aborted => s \in checks /\ s.gen # gen)
    <2>1. PICK s0 \in checks : s = IF s0.gen = gen THEN [s0 EXCEPT !.aborted = TRUE] ELSE s0
      BY <1>3 DEF AbortCheck
    <2>2. s0 \in CheckStream
      OBVIOUS
    <2>3. CASE s0.gen = gen
      <3>1. s = [s0 EXCEPT !.aborted = TRUE]
        BY <2>1, <2>3
      <3>2. QED
        BY <2>2, <3>1 DEF CheckStream
    <2>4. CASE s0.gen # gen
      BY <2>1, <2>2, <2>4
    <2>5. QED
      BY <2>3, <2>4
  <1>4. QED
    BY <1>2, <1>3

\* Streams that are not aborted belong to the panel.
Owned == \A s \in checks : ~s.aborted => panel # None /\ panel.gen = s.gen

\* What showing an episode does to an open check.
LEMMA ShowSteps ==
    ASSUME TypeOK, Bounded, NEW x \in Shown, Show(x)
    PROVE  /\ e' = x /\ x.ep \in Eps /\ x.text \in Text /\ x # None
           /\ panel' = None \/ panel' \in Panel
           /\ checks' \subseteq CheckStream
           /\ panel' # None => panel # None /\ panel'.ep = (IF panel.ep = x.ep THEN panel.ep ELSE x.ep)
           /\ (panel # None /\ panel.ep # x.ep) \/ UNCHANGED check
           /\ IsFiniteSet(checks') /\ Cardinality(checks') <= Cardinality(checks) + 1
           /\ Cardinality(checks') \in Nat
           /\ Owned => Owned'
  <1>1. e' = x /\ x.ep \in Eps /\ x.text \in Text /\ x # None
    BY NoneAssumption DEF Show, Shown
  <1>2. Cardinality(checks) \in Nat /\ checks \subseteq CheckStream /\ IsFiniteSet(checks)
    BY FS_CardinalityType DEF Bounded, TypeOK, CheckStream
  <1>3. CASE ~(panel # None /\ panel.ep # x.ep)
    <2>1. UNCHANGED <<panel, checks>>
      BY <1>3 DEF Show, check
    <2>2. QED
      BY <1>1, <1>2, <1>3, <2>1 DEF TypeOK, Owned, check
  <1>4. CASE panel # None /\ panel.ep # x.ep
    <2> DEFINE g == FreeGen
    <2>1. g \in Gens
      BY FreeGenIsFree
    <2>2. /\ panel' = [panel EXCEPT !.ep = x.ep, !.gen = g, !.loading = TRUE, !.failed = FALSE]
          /\ checks' = AbortCheck(panel.gen) \cup {FirstTry(g)}
      BY <1>4 DEF Show
    <2> HIDE DEF g
    <2>3. panel \in Panel
      BY <1>4 DEF TypeOK
    <2>4. panel' \in Panel /\ panel'.gen = g /\ panel'.ep = x.ep /\ panel' # None
      BY <1>1, <2>1, <2>2, <2>3, NoneAssumption DEF Panel
    <2>5. FirstTry(g) \in CheckStream /\ FirstTry(g).gen = g
      BY <2>1 DEF FirstTry, CheckStream
    <2>6. checks' \subseteq CheckStream
      BY <1>2, <2>2, <2>5, AbortTyped
    <2>7. IsFiniteSet(checks') /\ Cardinality(checks') <= Cardinality(checks) + 1 /\ Cardinality(checks') \in Nat
      <3> DEFINE A == AbortCheck(panel.gen)
      <3>1. IsFiniteSet(A) /\ Cardinality(A) <= Cardinality(checks) /\ Cardinality(A) \in Nat
        BY <1>2, AbortTyped, FS_CardinalityType
      <3> HIDE DEF A
      <3>2. IsFiniteSet(A \cup {FirstTry(g)}) /\ Cardinality(A \cup {FirstTry(g)}) <= Cardinality(A) + 1
        BY <3>1, AddOne
      <3>3. QED
        BY <1>2, <2>2, <3>1, <3>2, Countable DEF A
    <2>8. Owned => Owned'
      <3> SUFFICES ASSUME Owned, NEW s \in checks', ~s.aborted PROVE panel'.gen = s.gen
        BY <2>4 DEF Owned
      <3>1. CASE s \in AbortCheck(panel.gen)
        BY <1>2, <3>1, AbortTyped DEF Owned
      <3>2. CASE s = FirstTry(g)
        BY <2>4, <2>5, <3>2
      <3>3. QED
        BY <2>2, <3>1, <3>2
    <2>9. QED
      BY <1>1, <1>4, <2>4, <2>6, <2>7, <2>8
  <1>5. QED
    BY <1>3, <1>4

-----------------------------------------------------------------------------
(***************************************************************************)
(* Types, and what the client knows.                                       *)
(***************************************************************************)

LEMMA NothingIsList == IsList(Nothing) /\ DOMAIN Nothing = {} /\ IsCall(Load)
  BY DEF IsList, Nothing, IsCall, Load, Other

LEMMA TInit == Init => TInv
  <1> SUFFICES ASSUME Init PROVE TInv
    OBVIOUS
  <1>1. mix \in Mix /\ mix.initial \subseteq Eps /\ mix.calls \in Nat /\ mix.checks \in Nat
        /\ mix.typed \in Nat /\ mix.runs \in Nat
    BY MixesAssumption DEF Init, Mix
  <1>2. IsList(stored) /\ DOMAIN stored = mix.initial
    BY <1>1 DEF Init, IsList, Text, Piece, ThePiece
  <1>3. \A c \in calls : IsCall(c) /\ c = Load
    BY NothingIsList DEF Init
  <1>4. runs = <<>> /\ Len(runs) = 0 /\ runs \in Seq(Run) /\ DOMAIN runs = {}
    BY DEF Init
  <1>5. TypeOK
    <2>1. history \in [Eps -> SUBSET Text]
      BY DEF Init, Text
    <2>2. IsList(es) /\ IsList(stored) /\ \A c \in calls : IsList(c.list) /\ c \in Write(c.list) \cup Other(c.list)
      BY <1>2, <1>3, NothingIsList DEF Init, IsCall
    <2>3. runs \in Seq([ep : Eps, state : {"live", "aborted", "over"}]) /\ Len(runs) <= mix.runs
      BY <1>1, <1>4 DEF Run
    <2>4. /\ called = 0 /\ written = 0 /\ mix \in Mixes
          /\ mounted = TRUE /\ busy = FALSE /\ e = None /\ ai = None /\ diff = None
          /\ panel = None /\ voice = None /\ activity = None /\ items = {} /\ checks = {}
      BY Zenon DEF Init
    <2>5. called \in 0..mix.calls /\ written \in 0..mix.typed
      BY <1>1, <2>4
    <2>6. QED
      BY <2>1, <2>2, <2>3, <2>4, <2>5 DEF TypeOK
  <1>6. Bounded
    <2>1. IsFiniteSet(calls) /\ Cardinality(calls) = 1
      BY FS_Singleton DEF Init
    <2>2. IsFiniteSet(checks) /\ Cardinality(checks) = 0
      BY FS_EmptySet DEF Init
    <2>3. QED
      BY <1>1, <2>1, <2>2 DEF Init, Bounded
  <1>7. Known /\ PanelFollows
    BY <1>3, <1>4, NothingIsList DEF Init, Known, PanelFollows, Load, Writing
  <1>8. QED
    BY <1>5, <1>6, <1>7 DEF TInv

\* What TInv says, in the form the steps use it.
LEMMA Unfold ==
    ASSUME TInv
    PROVE  /\ TypeOK /\ Bounded /\ Known
           /\ IsList(stored) /\ IsList(es)
           /\ \A c \in calls : IsCall(c)
           /\ e # None => e \in Shown /\ e.ep \in Eps /\ e.text \in Text /\ e.ep \in DOMAIN stored
           /\ panel # None => panel \in Panel /\ e # None /\ panel.ep = e.ep
           /\ checks \subseteq CheckStream
           /\ runs \in Seq(Run)
           /\ Cardinality(calls) \in Nat /\ Cardinality(checks) \in Nat
  BY Countable DEF TInv, TypeOK, IsCall, Shown, CheckStream, Run, Bounded, PanelFollows, Known

\* A call is started.
LEMMA StartT ==
    ASSUME TInv, NEW c, IsCall(c), Started(c), DOMAIN c.list \subseteq DOMAIN stored,
           c.kind \in Writing => c.ep \in DOMAIN stored, busy' \in BOOLEAN,
           UNCHANGED <<mix, server, mounted, es, e, written, stream, diff, check, voice>>
    PROVE  TInv'
  <1>1. calls' = calls \cup {c} /\ called < mix.calls /\ called' = called + 1
    BY DEF Started
  <1>2. TypeOK'
    BY <1>1, Unfold, MixTyped DEF TypeOK, server, stream, check, IsCall
  <1>3. Bounded'
    <2>1. IsFiniteSet(calls') /\ Cardinality(calls') <= Cardinality(calls) + 1 /\ Cardinality(calls') \in Nat
      BY <1>1, AddOne, Countable, Unfold DEF Bounded
    <2>2. /\ Cardinality(calls) <= called + 1
          /\ Cardinality(checks) + Cardinality(calls) <= mix.checks + written + called + 1
          /\ checks' = checks /\ IsFiniteSet(checks) /\ mix' = mix /\ written' = written
      BY Unfold DEF Bounded, check
    <2>3. called' = called + 1 /\ called \in Nat /\ written \in Nat /\ mix.checks \in Nat
      BY <1>1, Unfold, MixTyped
    <2>4. /\ Cardinality(calls') <= called' + 1
          /\ Cardinality(checks') + Cardinality(calls') <= mix'.checks + written' + called' + 1
      <3>1. Cardinality(calls) \in Nat /\ Cardinality(checks) \in Nat
        BY Unfold
      <3>2. QED
        BY <2>1, <2>2, <2>3, <3>1
    <2>5. QED
      BY <2>1, <2>2, <2>4 DEF Bounded
  <1>4. Known' /\ PanelFollows'
    BY <1>1, Unfold DEF Known, TInv, PanelFollows, server, stream, check
  <1>5. QED
    BY <1>2, <1>3, <1>4 DEF TInv

\* A call that writes the episode in the editor.
LEMMA WriteCallTyped ==
    ASSUME TInv, e # None, NEW kind \in Writing, NEW text \in Text
    PROVE  LET c == WriteCall(kind, text)
           IN  /\ IsCall(c) /\ DOMAIN c.list \subseteq DOMAIN stored
               /\ c.kind = kind /\ c.ep = e.ep /\ c.ep \in DOMAIN stored /\ c.text = text
               /\ c.list = es /\ c.shown = e.text /\ (c.saved <=> e.text = stored[e.ep]) /\ c.done = FALSE
  BY Unfold DEF WriteCall, IsCall, Write, Writing, Known

LEMMA AskT == TInv /\ Ask => TInv'
  <1> SUFFICES ASSUME TInv, Ask PROVE TInv'
    OBVIOUS
  <1>1. CASE Save
    <2>1. e # None /\ Started(WriteCall("save", e.text)) /\ e.text \in Text
      BY <1>1, Unfold DEF Save, Saved
    <2>2. QED
      BY <1>1, <2>1, WriteCallTyped, StartT DEF Save, Saved, Writing
  <1>2. CASE Restore
    <2>1. e # None /\ e.ep \in Eps
      BY <1>2, Unfold DEF Restore
    <2>2. PICK version \in history[e.ep] : Started(WriteCall("restore", version))
      BY <1>2 DEF Restore
    <2>3. version \in Text
      BY <2>1, <2>2, Unfold DEF TypeOK
    <2>4. QED
      BY <1>2, <2>1, <2>2, <2>3, WriteCallTyped, StartT, Unfold DEF Restore, Writing, TypeOK
  <1>3. CASE DocxImport
    <2>1. e # None /\ Started(WriteCall("docx", {ThePiece("word", e.ep, 0)})) /\ e.ep \in Eps
      BY <1>3, Unfold DEF DocxImport
    <2>2. {ThePiece("word", e.ep, 0)} \in Text
      BY <2>1 DEF Text, Piece, ThePiece
    <2>3. QED
      BY <1>3, <2>1, <2>2, WriteCallTyped, StartT, Unfold DEF DocxImport, Writing, TypeOK
  <1>4. CASE CreateArticle
    <2>1. Started([Load EXCEPT !.kind = "create"])
      BY <1>4 DEF CreateArticle
    <2>2. LET c == [Load EXCEPT !.kind = "create"]
          IN  IsCall(c) /\ DOMAIN c.list = {} /\ c.kind = "create"
      BY NothingIsList DEF Load, IsCall, Other
    <2>3. QED
      BY <1>4, <2>1, <2>2, StartT, Unfold DEF CreateArticle, Writing, TypeOK
  <1>5. QED
    BY <1>1, <1>2, <1>3, <1>4 DEF Ask

\* An episode is shown: by an answer, which leaves the calls in flight, by a piece
\* of writing, or by a click below the bound on the streams.
LEMMA ShowT ==
    ASSUME TInv, NEW x \in Shown, x.ep \in DOMAIN stored, Show(x),
           IsList(es'), DOMAIN es' \subseteq DOMAIN stored,
           calls' \subseteq calls, written' \in {written, written + 1}, written' <= mix.typed,
           \/ panel # None => panel.ep = x.ep
           \/ Cardinality(checks) < mix.checks
           \/ written' = written + 1
           \/ calls' # calls,
           busy' \in BOOLEAN, ai' \in {ai, None}, diff' \in {diff, None},
           voice' = None \/ (voice' \in Recognition /\ voice'.base.ep \in DOMAIN stored),
           UNCHANGED <<mix, server, mounted, called, runs, items, activity>>
    PROVE  TInv'
  <1>1. /\ e' = x /\ x.ep \in Eps /\ x.text \in Text /\ x # None
        /\ panel' = None \/ panel' \in Panel
        /\ checks' \subseteq CheckStream
        /\ panel' # None => panel # None /\ panel'.ep = (IF panel.ep = x.ep THEN panel.ep ELSE x.ep)
        /\ (panel # None /\ panel.ep # x.ep) \/ UNCHANGED check
        /\ IsFiniteSet(checks') /\ Cardinality(checks') <= Cardinality(checks) + 1
        /\ Cardinality(checks') \in Nat
    BY ShowSteps, Unfold
  <1>2. written' \in 0..mix.typed
    BY Unfold, MixTyped
  <1>3. TypeOK'
    BY <1>1, <1>2, Unfold DEF TypeOK, server, CheckStream, IsCall
  <1>4. Bounded'
    <2>1. IsFiniteSet(calls') /\ Cardinality(calls') \in Nat /\ Cardinality(calls') <= Cardinality(calls)
          /\ (calls' # calls => Cardinality(calls') # Cardinality(calls))
      BY FS_Subset, Countable, Unfold DEF Bounded
    <2>2. /\ Cardinality(calls) <= called + 1 /\ Cardinality(calls) \in Nat /\ Cardinality(checks) \in Nat
          /\ Cardinality(checks) + Cardinality(calls) <= mix.checks + written + called + 1
          /\ mix' = mix /\ called' = called /\ mix.checks \in Nat /\ written \in Nat /\ called \in Nat
      BY Unfold, MixTyped DEF Bounded
    <2>3. Cardinality(calls') <= called' + 1
      BY <2>1, <2>2
    <2>4. Cardinality(checks') + Cardinality(calls') <= mix'.checks + written' + called' + 1
      <3>1. CASE panel # None => panel.ep = x.ep
        <4>1. checks' = checks
          BY <1>1, <3>1 DEF check
        <4>2. QED
          BY <2>1, <2>2, <4>1
      <3>2. CASE Cardinality(checks) < mix.checks
        BY <1>1, <2>1, <2>2, <3>2
      <3>3. CASE written' = written + 1
        BY <1>1, <2>1, <2>2, <3>3
      <3>4. CASE calls' # calls
        BY <1>1, <2>1, <2>2, <3>4
      <3>5. QED
        BY <3>1, <3>2, <3>3, <3>4
    <2>5. QED
      BY <1>1, <2>1, <2>3, <2>4 DEF Bounded
  <1>5. Known'
    BY <1>1, Unfold DEF Known, server
  <1>6. PanelFollows'
    BY <1>1, Unfold DEF PanelFollows
  <1>7. QED
    BY <1>3, <1>4, <1>5, <1>6 DEF TInv

\* The text on the screen changes within its episode.
LEMMA RewriteT ==
    ASSUME TInv, e # None, NEW text \in Text, Show([e EXCEPT !.text = text]),
           written' \in {written, written + 1}, written' <= mix.typed, ai' \in {ai, None}, diff' \in {diff, None},
           UNCHANGED <<mix, server, mounted, es, busy, calls, called, runs, items, activity, voice>>
    PROVE  TInv'
  <1> DEFINE x == [e EXCEPT !.text = text]
  <1>1. x \in Shown /\ x.ep = e.ep /\ x.ep \in DOMAIN stored /\ Show(x)
    BY Unfold DEF Shown
  <1>2. IsList(es') /\ DOMAIN es' \subseteq DOMAIN stored /\ busy' \in BOOLEAN /\ calls' \subseteq calls
    BY Unfold DEF Known, TypeOK
  <1>3. voice' = None \/ (voice' \in Recognition /\ voice'.base.ep \in DOMAIN stored)
    BY Unfold DEF Known, TypeOK
  <1>4. panel # None => panel.ep = e.ep
    BY Unfold
  <1> HIDE DEF x
  <1>5. QED
    BY <1>1, <1>2, <1>3, <1>4, ShowT

LEMMA PieceTyped == \A k \in Eps, n \in Nat, kind \in {"old", "typed", "word", "ai", "fix"} :
                        {ThePiece(kind, k, n)} \in Text
  BY DEF ThePiece, Piece, Text

LEMMA EditT == TInv /\ Edit => TInv'
  <1> SUFFICES ASSUME TInv, Edit PROVE TInv'
    OBVIOUS
  <1>1. CASE Type
    <2>1. /\ e # None /\ written < mix.typed /\ written' = written + 1
          /\ Show([e EXCEPT !.text = e.text \cup {ThePiece("typed", e.ep, written)}])
      BY <1>1 DEF Type
    <2>2. e.text \cup {ThePiece("typed", e.ep, written)} \in Text
      BY <2>1, Unfold, MixTyped, PieceTyped DEF Text
    <2>3. written' <= mix.typed
      BY <2>1, Unfold, MixTyped
    <2>4. QED
      BY <1>1, <2>1, <2>2, <2>3, RewriteT DEF Type, stream
  <1>2. ASSUME NEW k \in Eps, Select(k) PROVE TInv'
    <2>1. LET x == [ep |-> k, text |-> es[k]]
          IN  x \in Shown /\ x.ep \in DOMAIN stored /\ Show(x)
      BY <1>2, Unfold DEF Select, IsList, Shown, Known
    <2>2. panel # None => Cardinality(checks) < mix.checks
      BY <1>2 DEF Select
    <2>3. IsList(es') /\ DOMAIN es' \subseteq DOMAIN stored /\ busy' \in BOOLEAN /\ calls' \subseteq calls
          /\ written' = written /\ written' <= mix.typed
      BY <1>2, Unfold, MixTyped DEF Known, TypeOK, Select
    <2>4. voice' = None \/ (voice' \in Recognition /\ voice'.base.ep \in DOMAIN stored)
      BY <1>2, Unfold DEF Known, TypeOK, Select
    <2>5. QED
      BY <1>2, <2>1, <2>2, <2>3, <2>4, ShowT DEF Select, stream
  <1>3. CASE VoiceStart \/ VoiceStop \/ VoiceEnd
    <2>1. voice' = None \/ (voice' \in Recognition /\ voice'.base.ep \in DOMAIN stored)
      <3>1. CASE VoiceStart
        BY <3>1, Unfold DEF VoiceStart, Recognition, Text
      <3>2. CASE VoiceStop
        BY <3>2, Unfold DEF VoiceStop, Recognition, TypeOK, Known
      <3>3. CASE VoiceEnd
        BY <3>3 DEF VoiceEnd
      <3>4. QED
        BY <1>3, <3>1, <3>2, <3>3
    <2>2. UNCHANGED <<mix, server, mounted, es, e, busy, calls, called, written, stream, diff, check>>
      BY <1>3 DEF VoiceStart, VoiceStop, VoiceEnd
    <2>3. TypeOK'
      BY <2>1, <2>2, Unfold DEF TypeOK, server, stream, check
    <2>4. Bounded' /\ Known' /\ PanelFollows'
      BY <2>1, <2>2, Unfold DEF Bounded, Known, TInv, PanelFollows, server, stream, check
    <2>5. QED
      BY <2>3, <2>4 DEF TInv
  <1>4. CASE VoiceResult
    <2> DEFINE piece == ThePiece("typed", voice.base.ep, written)
               heard == voice.heard \cup {piece}
    <2>1. /\ voice # None /\ voice \in Recognition /\ voice.base.ep \in DOMAIN stored /\ voice.base \in Shown
          /\ voice.base.ep \in Eps /\ voice.base.text \in Text /\ voice.heard \in Text
      BY <1>4, Unfold DEF VoiceResult, TypeOK, Known, Recognition, Shown
    <2>2. heard \in Text
      BY <2>1, Unfold, MixTyped, PieceTyped DEF Text
    <2>3. /\ voice' = [voice EXCEPT !.heard = heard] /\ written < mix.typed /\ written' = written + 1
          /\ IF mounted THEN Show([voice.base EXCEPT !.text = voice.base.text \cup heard]) ELSE UNCHANGED <<e, check>>
          /\ UNCHANGED <<mix, server, mounted, es, busy, calls, called, stream, diff>>
      BY <1>4 DEF VoiceResult
    <2> HIDE DEF heard
    <2>4. voice' \in Recognition /\ voice'.base.ep \in DOMAIN stored /\ written' <= mix.typed
      BY <2>1, <2>2, <2>3, Unfold, MixTyped DEF Recognition
    <2>5. CASE mounted
      <3>1. LET x == [voice.base EXCEPT !.text = voice.base.text \cup heard]
            IN  x \in Shown /\ x.ep = voice.base.ep /\ Show(x)
        BY <2>1, <2>2, <2>3, <2>5 DEF Shown, Text
      <3>2. IsList(es') /\ DOMAIN es' \subseteq DOMAIN stored /\ busy' \in BOOLEAN /\ calls' \subseteq calls
        BY <2>3, Unfold DEF Known, TypeOK
      <3>3. QED
        BY <2>1, <2>3, <2>4, <3>1, <3>2, ShowT DEF stream
    <2>6. CASE ~mounted
      <3>1. /\ UNCHANGED <<mix, server, mounted, es, e, busy, calls, called, stream, diff, check>>
            /\ written' \in 0..mix.typed
        BY <2>3, <2>4, <2>6, Unfold, MixTyped
      <3>2. TypeOK'
        BY <2>4, <3>1, Unfold DEF TypeOK, server, stream, check
      <3>3. Bounded'
        BY <2>3, <3>1, Unfold, MixTyped DEF Bounded, check
      <3>4. Known' /\ PanelFollows'
        BY <2>4, <3>1, Unfold DEF Known, TInv, PanelFollows, server, stream, check
      <3>5. QED
        BY <3>2, <3>3, <3>4 DEF TInv
    <2>7. QED
      BY <2>5, <2>6
  <1>5. QED
    BY <1>1, <1>2, <1>3, <1>4 DEF Edit

\* What aborting the last stream does to the runs.
LEMMA AbortedRunsTyped ==
    ASSUME runs \in Seq(Run)
    PROVE  /\ AbortedRuns \in Seq(Run) /\ Len(AbortedRuns) = Len(runs) /\ Len(runs) \in Nat
           /\ DOMAIN AbortedRuns = 1..Len(runs) /\ DOMAIN runs = 1..Len(runs)
           /\ \A r \in 1..Len(runs) :
                 /\ AbortedRuns[r].ep = runs[r].ep
                 /\ AbortedRuns[r].state = "live" => runs[r].state = "live" /\ r # Len(runs)
                 /\ AbortedRuns[r].state = "over" <=> runs[r].state = "over"
  <1>1. Len(runs) \in Nat /\ DOMAIN runs = 1..Len(runs) /\ \A r \in 1..Len(runs) : runs[r] \in Run
    BY LenProperties, ElementOfSeq
  <1>2. CASE runs # <<>> /\ runs[Len(runs)].state = "live"
    <2> DEFINE last == [runs[Len(runs)] EXCEPT !.state = "aborted"]
    <2>1. Len(runs) \in 1..Len(runs)
      BY <1>1, <1>2, EmptySeq
    <2>2. last \in Run /\ last.ep = runs[Len(runs)].ep /\ last.state = "aborted"
      BY <1>1, <2>1 DEF Run
    <2>3. AbortedRuns = [runs EXCEPT ![Len(runs)] = last]
      BY <1>2, Zenon DEF AbortedRuns
    <2> HIDE DEF last
    <2>4. AbortedRuns \in Seq(Run) /\ Len(AbortedRuns) = Len(runs)
      BY <2>1, <2>2, <2>3, ExceptSeq
    <2>5. /\ DOMAIN AbortedRuns = 1..Len(runs)
          /\ \A r \in 1..Len(runs) : AbortedRuns[r] = IF r = Len(runs) THEN last ELSE runs[r]
      BY <1>1, <2>3
    <2>6. QED
      BY <1>1, <1>2, <2>2, <2>4, <2>5
  <1>3. CASE ~(runs # <<>> /\ runs[Len(runs)].state = "live")
    <2>1. AbortedRuns = runs
      BY <1>3 DEF AbortedRuns
    <2>2. runs = <<>> => Len(runs) = 0
      BY EmptySeq
    <2>3. ASSUME NEW r \in 1..Len(runs), runs[r].state = "live" PROVE r # Len(runs)
      <3>1. runs # <<>>
        BY <1>1, <2>2
      <3>2. QED
        BY <1>3, <2>3, <3>1, Zenon
    <2>4. QED
      BY <1>1, <2>1, <2>3
  <1>4. QED
    BY <1>2, <1>3

LEMMA RunOver ==
    ASSUME runs \in Seq(Run), NEW r \in DOMAIN runs
    PROVE  LET over == [runs EXCEPT ![r].state = "over"]
           IN  /\ over \in Seq(Run) /\ Len(over) = Len(runs) /\ Len(runs) \in Nat
               /\ DOMAIN over = 1..Len(runs) /\ DOMAIN runs = 1..Len(runs)
               /\ over[r].state = "over" /\ over[r].ep = runs[r].ep
               /\ \A q \in 1..Len(runs) : q # r => over[q] = runs[q]
  <1>1. Len(runs) \in Nat /\ DOMAIN runs = 1..Len(runs) /\ \A q \in 1..Len(runs) : runs[q] \in Run
    BY LenProperties, ElementOfSeq
  <1> DEFINE new == [runs[r] EXCEPT !.state = "over"]
             over == [runs EXCEPT ![r].state = "over"]
  <1>2. new \in Run /\ new.ep = runs[r].ep /\ new.state = "over"
    BY <1>1 DEF Run
  <1>3. over = [runs EXCEPT ![r] = new]
    BY Zenon
  <1> HIDE DEF new, over
  <1>4. over \in Seq(Run) /\ Len(over) = Len(runs)
    BY <1>1, <1>2, <1>3, ExceptSeq
  <1>5. DOMAIN over = 1..Len(runs) /\ over[r] = new /\ \A q \in 1..Len(runs) : q # r => over[q] = runs[q]
    BY <1>1, <1>3
  <1>6. QED
    BY <1>1, <1>2, <1>4, <1>5 DEF over

\* Only the AI streams, their place in the list and the result change.
LEMMA StreamT ==
    ASSUME TInv, runs' \in Seq(Run), Len(runs') <= mix.runs, \A r \in DOMAIN runs' : runs'[r].ep \in DOMAIN stored,
           ai' = None \/ ai' \in Result, items' \subseteq DOMAIN runs', activity' \in DOMAIN runs' \cup {None},
           busy' \in BOOLEAN,
           UNCHANGED <<mix, server, mounted, es, e, calls, called, written, diff, check, voice>>
    PROVE  TInv'
  <1>1. TypeOK'
    BY Unfold DEF TypeOK, server, check, Run
  <1>2. Bounded' /\ Known' /\ PanelFollows'
    BY Unfold DEF Bounded, Known, TInv, PanelFollows, server, check
  <1>3. QED
    BY <1>1, <1>2 DEF TInv

LEMMA AiRunT == TInv /\ AiRun => TInv'
  <1> SUFFICES ASSUME TInv, AiRun PROVE TInv'
    OBVIOUS
  <1> DEFINE new == [ep |-> e.ep, state |-> "live"]
  <1>1. new \in Run /\ new.ep \in DOMAIN stored
    BY Unfold DEF AiRun, Run
  <1>2. /\ runs' = Append(AbortedRuns, new) /\ items' = (items \ {activity}) \cup {Len(runs) + 1}
        /\ activity' = Len(runs) + 1 /\ ai' = None /\ busy' = TRUE /\ Len(runs) < mix.runs
        /\ UNCHANGED <<mix, server, mounted, es, e, calls, called, written, diff, check, voice>>
    BY DEF AiRun
  <1> HIDE DEF new
  <1>3. /\ runs' \in Seq(Run) /\ Len(runs') = Len(runs) + 1 /\ DOMAIN runs' = 1..(Len(runs) + 1)
        /\ runs'[Len(runs) + 1] = new /\ \A r \in 1..Len(runs) : runs'[r] = AbortedRuns[r]
    <2>1. AbortedRuns \in Seq(Run) /\ Len(AbortedRuns) = Len(runs) /\ Len(runs) \in Nat
      BY Unfold, AbortedRunsTyped
    <2>2. /\ runs' \in Seq(Run) /\ Len(runs') = Len(runs) + 1
          /\ runs'[Len(runs) + 1] = new /\ \A r \in 1..Len(runs) : runs'[r] = AbortedRuns[r]
      BY <1>1, <1>2, <2>1, AppendProperties
    <2>3. QED
      BY <2>1, <2>2, LenProperties
  <1>4. \A r \in DOMAIN runs' : runs'[r].ep \in DOMAIN stored
    <2>1. \A r \in 1..Len(runs) : runs'[r].ep \in DOMAIN stored
      BY <1>3, Unfold, AbortedRunsTyped DEF Known
    <2>2. Len(runs) \in Nat
      BY Unfold, LenProperties
    <2>3. \A r \in DOMAIN runs' : r \in 1..Len(runs) \/ r = Len(runs) + 1
      BY <1>3, <2>2
    <2>4. runs'[Len(runs) + 1].ep \in DOMAIN stored
      BY <1>1, <1>3
    <2>5. QED
      BY <2>1, <2>3, <2>4
  <1>5. /\ Len(runs') <= mix.runs /\ items' \subseteq DOMAIN runs' /\ activity' \in DOMAIN runs'
    <2>1. Len(runs) \in Nat /\ DOMAIN runs = 1..Len(runs) /\ mix.runs \in Nat /\ items \subseteq DOMAIN runs
      BY Unfold, MixTyped, LenProperties DEF TypeOK
    <2>2. 1..Len(runs) \subseteq 1..(Len(runs) + 1) /\ Len(runs) + 1 \in 1..(Len(runs) + 1)
      BY <2>1
    <2>3. QED
      BY <1>2, <1>3, <2>1, <2>2
  <1>6. QED
    BY <1>2, <1>3, <1>4, <1>5, StreamT

LEMMA AiMessageT == ASSUME TInv, NEW r \in DOMAIN runs, AiMessage(r) PROVE TInv'
  <1>1. r \in Nat /\ runs[r].ep \in Eps /\ runs[r].ep \in DOMAIN stored /\ DOMAIN runs = 1..Len(runs) /\ runs[r] \in Run
    <2>1. runs \in Seq(Run) /\ DOMAIN runs = 1..Len(runs) /\ Len(runs) \in Nat
      BY Unfold, LenProperties
    <2>2. runs[r] \in Run
      BY <2>1, ElementOfSeq
    <2>3. QED
      BY <2>1, <2>2, Unfold DEF Known, Run
  <1>2. {ThePiece("ai", runs[r].ep, r)} \in Text /\ {} \in Text /\ stored[runs[r].ep] \in Text
    BY <1>1, PieceTyped, Unfold DEF Text, IsList
  <1>3. PICK repeated \in {{}, stored[runs[r].ep]} :
            ai' = [run |-> r, text |-> {ThePiece("ai", runs[r].ep, r)} \cup repeated]
    BY DEF AiMessage
  <1>4. {ThePiece("ai", runs[r].ep, r)} \cup repeated \in Text
    BY <1>2, <1>3 DEF Text
  <1>5. ai' \in Result
    BY <1>1, <1>3, <1>4 DEF Result
  <1>6. UNCHANGED <<mix, server, mounted, es, e, busy, calls, called, written, runs, items, activity, diff, check, voice>>
    BY DEF AiMessage
  <1>7. QED
    BY <1>5, <1>6, Unfold, StreamT DEF TypeOK, Known, Run

LEMMA AiOverT == ASSUME TInv, NEW r \in DOMAIN runs, AiOver(r) PROVE TInv'
  <1>1. /\ runs' = [runs EXCEPT ![r].state = "over"] /\ items' = items \ {r}
        /\ activity' = (IF activity = r THEN None ELSE activity) /\ busy' = FALSE
        /\ UNCHANGED <<mix, server, mounted, es, e, calls, called, written, ai, diff, check, voice>>
    BY DEF AiOver
  <1>2. /\ runs' \in Seq(Run) /\ Len(runs') = Len(runs) /\ DOMAIN runs' = DOMAIN runs
        /\ \A q \in DOMAIN runs : runs'[q].ep = runs[q].ep
    BY <1>1, RunOver, Unfold
  <1>3. QED
    BY <1>1, <1>2, Unfold, StreamT DEF TypeOK, Known

\* The dialogs and their streams change, and the text within its episode.
LEMMA PanelT ==
    ASSUME TInv, panel' = None \/ (panel' \in Panel /\ e # None /\ panel'.ep = e.ep),
           e' = e \/ (e # None /\ e' \in Shown /\ e'.ep = e.ep), diff' = None \/ diff' \in Comparison,
           checks' \subseteq CheckStream, IsFiniteSet(checks'),
           \/ Cardinality(checks') <= Cardinality(checks)
           \/ Cardinality(checks') <= Cardinality(checks) + 1 /\ Cardinality(checks) < mix.checks,
           UNCHANGED <<mix, server, mounted, es, busy, calls, called, written, stream, voice>>
    PROVE  TInv'
  <1>1. e' = None <=> e = None
    BY NoneAssumption
  <1>2. TypeOK'
    BY Unfold DEF TypeOK, server, stream, CheckStream, IsCall
  <1>3. Bounded'
    <2>1. Cardinality(checks') \in Nat /\ Cardinality(calls) \in Nat /\ Cardinality(checks) \in Nat
      BY Countable, Unfold
    <2>2. calls' = calls /\ called' = called /\ mix' = mix /\ written' = written
      OBVIOUS
    <2>3. /\ Cardinality(calls) <= called + 1 /\ IsFiniteSet(calls)
          /\ Cardinality(checks) + Cardinality(calls) <= mix.checks + written + called + 1
      BY Unfold DEF Bounded
    <2>4. Cardinality(checks') + Cardinality(calls) <= mix.checks + written + called + 1
      BY <2>1, <2>3, Unfold, MixTyped
    <2>5. QED
      BY <2>2, <2>3, <2>4 DEF Bounded
  <1>4. Known' /\ PanelFollows'
    BY <1>1, Unfold, NoneAssumption DEF Known, PanelFollows, server, stream
  <1>5. QED
    BY <1>2, <1>3, <1>4 DEF TInv

\* Closing the panel aborts its streams.
LEMMA UnmountedTyped ==
    ASSUME TInv, Unmounted
    PROVE  /\ panel' = None /\ checks' \subseteq CheckStream /\ IsFiniteSet(checks')
           /\ Cardinality(checks') <= Cardinality(checks)
           /\ Owned => Owned'
  <1>1. checks \subseteq CheckStream /\ IsFiniteSet(checks) /\ Cardinality(checks) \in Nat
    BY Unfold DEF Bounded
  <1>2. CASE panel = None
    BY <1>1, <1>2 DEF Unmounted, Owned
  <1>3. CASE panel # None
    BY <1>1, <1>3, AbortTyped DEF Unmounted, Owned
  <1>4. QED
    BY <1>2, <1>3

\* A correction is used or skipped; after the last one the panel is closed.
LEMMA ReviewSteps ==
    ASSUME TInv, Review
    PROVE  \E working \in Text :
              /\ \/ working = panel.working
                 \/ \E p \in panel.checked \cap panel.working :
                       working = (panel.working \ {p}) \cup {ThePiece("fix", p.ep, 0)}
              /\ \/ e' = [e EXCEPT !.text = working] /\ e' \in Shown /\ e'.ep = e.ep /\ Unmounted
                 \/ /\ panel' \in Panel /\ panel'.ep = panel.ep /\ panel'.gen = panel.gen
                    /\ panel'.checked = panel.checked /\ panel'.working = working
                    /\ UNCHANGED <<e, checks>>
  <1>1. panel # None /\ e # None /\ panel \in Panel /\ e \in Shown /\ panel.ep = e.ep
    BY Unfold DEF Review
  <1>2. PICK working \in {panel.working} \cup
                 {(panel.working \ {p}) \cup {ThePiece("fix", p.ep, 0)} :
                     p \in IF panel.index < panel.diffs THEN panel.checked \cap panel.working ELSE {}} :
            IF panel.index + 1 >= panel.diffs
            THEN e' = [e EXCEPT !.text = working] /\ Unmounted
            ELSE /\ panel' = [panel EXCEPT !.working = working, !.index = panel.index + 1]
                 /\ UNCHANGED <<e, checks>>
    BY DEF Review
  <1> DEFINE Corrects(w) == \/ w = panel.working
                            \/ \E p \in panel.checked \cap panel.working :
                                  w = (panel.working \ {p}) \cup {ThePiece("fix", p.ep, 0)}
             Closes(w) == e' = [e EXCEPT !.text = w] /\ e' \in Shown /\ e'.ep = e.ep /\ Unmounted
             GoesOn(w) == /\ panel' \in Panel /\ panel'.ep = panel.ep /\ panel'.gen = panel.gen
                          /\ panel'.checked = panel.checked /\ panel'.working = w
                          /\ UNCHANGED <<e, checks>>
  <1>3. Corrects(working)
    BY <1>1, <1>2
  <1>4. working \in Text
    BY <1>1, <1>3 DEF Panel, Text, Piece, ThePiece
  <1>5. Closes(working) \/ GoesOn(working)
    <2> HIDE DEF Corrects
    <2>1. CASE panel.index + 1 >= panel.diffs
      <3>1. e' = [e EXCEPT !.text = working] /\ Unmounted
        BY <1>2, <2>1
      <3>2. e' \in Shown /\ e'.ep = e.ep
        BY <1>1, <1>4, <3>1 DEF Shown
      <3>3. QED
        BY <3>1, <3>2
    <2>2. CASE ~(panel.index + 1 >= panel.diffs)
      <3>1. panel.index \in Nat /\ panel.diffs \in Nat /\ panel.diffs <= MaxDiffs /\ MaxDiffs \in Nat
        BY <1>1, GensAssumption DEF Panel
      <3>2. panel.index + 1 \in 0..MaxDiffs
        BY <2>2, <3>1
      <3>3. panel' = [panel EXCEPT !.working = working, !.index = panel.index + 1] /\ UNCHANGED <<e, checks>>
        BY <1>2, <2>2
      <3>4. QED
        BY <1>1, <1>4, <3>2, <3>3 DEF Panel
    <2>3. QED
      BY <2>1, <2>2
  <1>6. QED
    <2> HIDE DEF Corrects, Closes, GoesOn
    <2>1. \E w \in Text : Corrects(w) /\ (Closes(w) \/ GoesOn(w))
      BY <1>3, <1>4, <1>5
    <2>2. QED
      BY <2>1 DEF Corrects, Closes, GoesOn

LEMMA DialogsT == TInv /\ Dialogs => TInv'
  <1> SUFFICES ASSUME TInv, Dialogs PROVE TInv'
    OBVIOUS
  <1>1. CASE AiRun
    BY <1>1, AiRunT
  <1>2. CASE Cancel
    <2>1. /\ runs' \in Seq(Run) /\ Len(runs') <= mix.runs /\ DOMAIN runs' = DOMAIN runs
          /\ \A r \in DOMAIN runs' : runs'[r].ep \in DOMAIN stored
      BY <1>2, AbortedRunsTyped, Unfold DEF Cancel, TypeOK, Known
    <2>2. QED
      BY <1>2, <2>1, Unfold, StreamT DEF Cancel, TypeOK
  <1>3. CASE Adopt
    <2>1. e # None /\ ai # None /\ Show([e EXCEPT !.text = e.text \cup ai.text]) /\ ai' = None
      BY <1>3 DEF Adopt, MayAdopt
    <2>2. e.text \cup ai.text \in Text
      BY <2>1, Unfold DEF TypeOK, Result, Text
    <2>3. QED
      BY <1>3, <2>1, <2>2, Unfold, MixTyped, RewriteT DEF Adopt
  <1>4. CASE OpenDiff \/ CloseDiff
    <2>1. diff' = None \/ diff' \in Comparison
      BY <1>4, Unfold DEF OpenDiff, CloseDiff, MayAdopt, TypeOK, Result, Comparison
    <2>2. UNCHANGED <<mix, server, mounted, es, e, busy, calls, called, written, stream, check, voice>>
      BY <1>4 DEF OpenDiff, CloseDiff
    <2>3. QED
      BY <2>1, <2>2, Unfold, PanelT DEF check, TypeOK, Bounded
  <1>5. CASE ApplyDiff
    <2>1. PICK accepted \in SUBSET (diff.after \ diff.before) :
              Show([e EXCEPT !.text = (diff.before \cap diff.after) \cup accepted])
      BY <1>5 DEF ApplyDiff
    <2>2. diff \in Comparison /\ e # None
      BY <1>5, Unfold DEF ApplyDiff, TypeOK
    <2>3. (diff.before \cap diff.after) \cup accepted \in Text
      BY <2>1, <2>2 DEF Comparison, Text
    <2>4. QED
      BY <1>5, <2>1, <2>2, <2>3, Unfold, MixTyped, RewriteT DEF ApplyDiff
  <1>6. CASE OpenPanel
    <2> DEFINE g == FreeGen
    <2>1. e # None /\ panel = None /\ Cardinality(checks) < mix.checks /\ g \in Gens /\ MaxDiffs \in Nat
      BY <1>6, Unfold, FreeGenIsFree, GensAssumption DEF OpenPanel
    <2>2. /\ panel' = [ep |-> e.ep, gen |-> g, checked |-> e.text, working |-> e.text, loading |-> TRUE,
                       failed |-> FALSE, diffs |-> 0, index |-> 0]
          /\ checks' = checks \cup {FirstTry(g)}
      BY <1>6 DEF OpenPanel
    <2> HIDE DEF g
    <2>3. panel' \in Panel /\ panel'.ep = e.ep
      BY <2>1, <2>2, Unfold DEF Panel
    <2>4. FirstTry(g) \in CheckStream
      BY <2>1 DEF FirstTry, CheckStream
    <2>5. checks' \subseteq CheckStream /\ IsFiniteSet(checks') /\ Cardinality(checks') <= Cardinality(checks) + 1
      BY <2>2, <2>4, Unfold, AddOne DEF Bounded
    <2>6. QED
      BY <1>6, <2>1, <2>3, <2>5, Unfold, PanelT DEF OpenPanel, TypeOK
  <1>7. CASE ClosePanel
    BY <1>7, Unfold, UnmountedTyped, PanelT DEF ClosePanel, TypeOK
  <1>8. CASE Review
    <2>1. panel # None /\ e # None /\ panel \in Panel /\ e \in Shown /\ panel.ep = e.ep
      BY <1>8, Unfold DEF Review
    <2>2. UNCHANGED <<mix, server, mounted, es, busy, calls, called, written, stream, diff, voice>>
      BY <1>8 DEF Review
    <2>3. PICK working \in Text :
              \/ e' = [e EXCEPT !.text = working] /\ e' \in Shown /\ e'.ep = e.ep /\ Unmounted
              \/ /\ panel' \in Panel /\ panel'.ep = panel.ep
                 /\ UNCHANGED <<e, checks>>
      BY <1>8, ReviewSteps
    <2>4. CASE e' \in Shown /\ e'.ep = e.ep /\ Unmounted
      BY <2>1, <2>2, <2>4, Unfold, UnmountedTyped, PanelT DEF TypeOK
    <2>5. CASE panel' \in Panel /\ panel'.ep = panel.ep /\ UNCHANGED <<e, checks>>
      BY <2>1, <2>2, <2>5, Unfold, PanelT DEF TypeOK, Bounded
    <2>6. QED
      BY <2>3, <2>4, <2>5
  <1>9. QED
    BY <1>1, <1>2, <1>3, <1>4, <1>5, <1>6, <1>7, <1>8 DEF Dialogs

LEMMA LeaveT == TInv /\ Leave => TInv'
  <1> SUFFICES ASSUME TInv, Leave PROVE TInv'
    OBVIOUS
  <1>1. /\ runs' \in Seq(Run) /\ Len(runs') <= mix.runs /\ DOMAIN runs' = DOMAIN runs
        /\ \A r \in DOMAIN runs' : runs'[r].ep \in DOMAIN stored
    BY AbortedRunsTyped, Unfold DEF Leave, TypeOK, Known
  <1>2. /\ panel' = None /\ checks' \subseteq CheckStream /\ IsFiniteSet(checks')
        /\ Cardinality(checks') <= Cardinality(checks)
    BY UnmountedTyped DEF Leave
  <1>3. /\ mounted' = FALSE /\ items' = items \ {activity}
        /\ UNCHANGED <<mix, server, es, e, busy, calls, called, written, ai, activity, diff, voice>>
    BY DEF Leave
  <1>4. TypeOK'
    BY <1>1, <1>2, <1>3, Unfold DEF TypeOK, server, Run, CheckStream
  <1>5. Bounded'
    <2>1. Cardinality(checks') \in Nat /\ Cardinality(calls) \in Nat /\ Cardinality(checks) \in Nat
      BY <1>2, Countable, Unfold
    <2>2. calls' = calls /\ called' = called /\ mix' = mix /\ written' = written
      BY <1>3
    <2>3. QED
      BY <1>2, <2>1, <2>2, Unfold, MixTyped DEF Bounded
  <1>6. Known' /\ PanelFollows'
    BY <1>1, <1>2, <1>3, Unfold DEF Known, PanelFollows, server
  <1>7. QED
    BY <1>4, <1>5, <1>6 DEF TInv

LEMMA CheckOverT == ASSUME TInv, NEW s \in checks, CheckOver(s) PROVE TInv'
  <1>1. UNCHANGED <<mix, server, mounted, es, e, busy, calls, called, written, stream, diff, voice>>
    BY DEF CheckOver
  <1>2. /\ s \in CheckStream /\ IsFiniteSet(checks) /\ checks \subseteq CheckStream
        /\ Cardinality(checks) \in Nat
    BY Unfold DEF Bounded
  <1>3. /\ IsFiniteSet(checks \ {s}) /\ Cardinality(checks \ {s}) = Cardinality(checks) - 1
    BY <1>2, FS_RemoveElement
  <1> DEFINE again == [s EXCEPT !.attempt = 1, !.aborted = FALSE]
  <1>4. again \in CheckStream
    BY <1>2 DEF CheckStream
  <1>5. checks' \subseteq CheckStream /\ IsFiniteSet(checks') /\ Cardinality(checks') <= Cardinality(checks)
    <2>1. CASE checks' = checks \ {s}
      BY <1>2, <1>3, <2>1
    <2>2. CASE checks' = (checks \ {s}) \cup {again}
      <3> HIDE DEF again
      <3>1. IsFiniteSet(checks') /\ Cardinality(checks') <= Cardinality(checks \ {s}) + 1
        BY <1>3, <2>2, AddOne
      <3>2. Cardinality(checks') \in Nat
        BY <3>1, Countable
      <3>3. QED
        BY <1>2, <1>3, <1>4, <2>2, <3>1, <3>2
    <2>3. QED
      BY <2>1, <2>2 DEF CheckOver, Dropped, Corrected, Retried, Failed
  <1>6. panel' = None \/ (panel' \in Panel /\ e # None /\ panel'.ep = e.ep)
    <2>1. panel # None => panel \in Panel /\ e # None /\ panel.ep = e.ep
      BY Unfold
    <2>2. CASE Dropped(s)
      BY <2>1, <2>2 DEF Dropped
    <2>3. CASE Corrected(s)
      <3>1. panel # None
        BY <2>3 DEF Corrected, Cancelled
      <3>2. PICK n \in 0..(IF panel.checked = {} THEN 0 ELSE MaxDiffs) :
                panel' = [panel EXCEPT !.diffs = n, !.loading = FALSE]
        BY <2>3 DEF Corrected
      <3>3. n \in 0..MaxDiffs
        BY <3>2, GensAssumption
      <3>4. QED
        BY <2>1, <3>1, <3>2, <3>3 DEF Panel
    <2>4. CASE Retried(s) \/ Failed(s)
      BY <2>1, <2>4 DEF Retried, Failed, Cancelled, Panel
    <2>5. QED
      BY <2>2, <2>3, <2>4 DEF CheckOver
  <1>7. QED
    BY <1>1, <1>5, <1>6, Unfold, PanelT DEF TypeOK

\* A call is taken away, or another takes its place; the server may have a new row
\* and a new text.
LEMMA CallsT ==
    ASSUME TInv, NEW c \in calls, NEW d, IsCall(d),
           calls' = calls \ {c} \/ calls' = (calls \ {c}) \cup {d},
           IsList(stored'), DOMAIN stored \subseteq DOMAIN stored', history' \in [Eps -> SUBSET Text],
           DOMAIN d.list \subseteq DOMAIN stored', d.kind \in Writing => d.ep \in DOMAIN stored',
           busy' \in BOOLEAN,
           UNCHANGED <<mix, mounted, es, e, called, written, stream, diff, check, voice>>
    PROVE  TInv'
  <1>1. TypeOK'
    BY Unfold DEF TypeOK, stream, check, CheckStream, IsCall
  <1>2. Bounded'
    <2>1. IsFiniteSet(calls) /\ Cardinality(calls) \in Nat /\ Cardinality(checks) \in Nat
      BY Unfold DEF Bounded
    <2>2. IsFiniteSet(calls \ {c}) /\ Cardinality(calls \ {c}) = Cardinality(calls) - 1
      BY <2>1, FS_RemoveElement
    <2>3. IsFiniteSet((calls \ {c}) \cup {d}) /\ Cardinality((calls \ {c}) \cup {d}) <= Cardinality(calls \ {c}) + 1
      BY <2>2, AddOne
    <2>4. IsFiniteSet(calls') /\ Cardinality(calls') \in Nat
      BY <2>2, <2>3, Countable
    <2>5. Cardinality(calls') <= Cardinality(calls)
      <3> DEFINE less == calls \ {c}
                 more == (calls \ {c}) \cup {d}
      <3>1. calls' = less \/ calls' = more
        OBVIOUS
      <3>2. Cardinality(less) = Cardinality(calls) - 1 /\ Cardinality(more) <= Cardinality(less) + 1
        BY <2>2, <2>3
      <3>3. Cardinality(less) \in Nat /\ Cardinality(more) \in Nat
        BY <2>2, <2>3, Countable
      <3> HIDE DEF less, more
      <3>4. QED
        BY <2>1, <3>1, <3>2, <3>3
    <2>6. /\ checks' = checks /\ called' = called /\ mix' = mix /\ written' = written
      BY DEF check
    <2>7. /\ Cardinality(calls) <= called + 1 /\ IsFiniteSet(checks)
          /\ Cardinality(checks) + Cardinality(calls) <= mix.checks + written + called + 1
      BY Unfold DEF Bounded
    <2>8. Cardinality(calls') <= called + 1 /\ Cardinality(checks) + Cardinality(calls') <= mix.checks + written + called + 1
      BY <2>1, <2>4, <2>5, <2>7, Unfold, MixTyped
    <2>9. QED
      BY <2>4, <2>6, <2>7, <2>8 DEF Bounded
  <1>3. Known'
    BY Unfold DEF Known, stream
  <1>4. PanelFollows'
    BY Unfold DEF PanelFollows, check
  <1>5. QED
    BY <1>1, <1>2, <1>3, <1>4 DEF TInv

\* What the server does with a call of each kind.
LEMMA ServeSteps ==
    ASSUME TInv, NEW c \in calls, Serve(c)
    PROVE  \/ /\ c.kind \in Writing /\ c.ep \in DOMAIN stored /\ c.text \in Text
              /\ stored' = [stored EXCEPT ![c.ep] = c.text] /\ DOMAIN stored' = DOMAIN stored
              /\ history' = (IF KeepsRevision(c)
                             THEN [history EXCEPT ![c.ep] = history[c.ep] \cup {stored[c.ep]}] ELSE history)
              /\ Done(c)
           \/ /\ c.kind = "create" /\ Done(c) /\ history' = history
              /\ \E k \in Eps \ DOMAIN stored :
                    stored' = [j \in DOMAIN stored \cup {k} |-> IF j = k THEN {} ELSE stored[j]]
           \/ /\ c.kind = "load" /\ UNCHANGED server
              /\ calls' = (calls \ {c}) \cup {[c EXCEPT !.done = TRUE, !.list = stored]}
  <1>1. IsCall(c) /\ (c.kind \in Writing => c.ep \in DOMAIN stored)
    BY Unfold DEF Known
  <1>2. CASE c.kind \in {"save", "restore", "docx"}
    <2>1. c.text \in Text /\ c.kind \notin {"load", "create"}
      BY <1>1, <1>2 DEF IsCall, Write, Other
    <2>2. /\ stored' = [stored EXCEPT ![c.ep] = c.text]
          /\ history' = (IF KeepsRevision(c)
                         THEN [history EXCEPT ![c.ep] = history[c.ep] \cup {stored[c.ep]}] ELSE history)
          /\ Done(c)
      BY <1>2, <2>1 DEF Serve
    <2>3. DOMAIN stored' = DOMAIN stored
      BY <2>2
    <2>4. QED
      BY <1>1, <1>2, <2>1, <2>2, <2>3 DEF Writing
  <1>3. CASE c.kind = "create"
    <2> DEFINE new == CHOOSE k \in Eps : k \notin DOMAIN stored
    <2>1. /\ DOMAIN stored # Eps /\ Done(c) /\ history' = history
          /\ stored' = [k \in DOMAIN stored \cup {new} |-> IF k = new THEN {} ELSE stored[k]]
      BY <1>3 DEF Serve
    <2>2. \E k \in Eps : k \notin DOMAIN stored
      BY <2>1, Unfold DEF IsList
    <2>3. new \in Eps \ DOMAIN stored
      BY <2>2
    <2> HIDE DEF new
    <2>4. QED
      BY <1>3, <2>1, <2>3
  <1>4. CASE c.kind \notin {"save", "restore", "docx", "create"}
    BY <1>4 DEF Serve
  <1>5. QED
    BY <1>2, <1>3, <1>4

\* A call that has been served, with the list of its answer.
LEMMA ServedTyped ==
    ASSUME NEW c, IsCall(c)
    PROVE  LET d == [c EXCEPT !.done = TRUE]
           IN  /\ IsCall(d) /\ d.kind = c.kind /\ d.list = c.list /\ d.done = TRUE
               /\ c.kind \in Writing => /\ d.ep = c.ep /\ d.text = c.text /\ d.shown = c.shown
                                        /\ d.saved <=> c.saved
  <1>1. CASE c \in Write(c.list)
    BY <1>1 DEF IsCall, Write, Writing
  <1>2. CASE c \in Other(c.list)
    BY <1>2 DEF IsCall, Other, Writing
  <1>3. QED
    BY <1>1, <1>2 DEF IsCall

LEMMA ListedTyped ==
    ASSUME NEW c, IsCall(c), c.kind = "load", NEW l, IsList(l)
    PROVE  LET d == [c EXCEPT !.done = TRUE, !.list = l]
           IN  IsCall(d) /\ d.kind = "load" /\ d.list = l /\ d.done = TRUE
  BY DEF IsCall, Write, Other

LEMMA ServeChanges ==
    ASSUME TInv, NEW c \in calls, Serve(c)
    PROVE  \E d : /\ IsCall(d) /\ d.kind = c.kind /\ d.done = TRUE
                  /\ calls' = (calls \ {c}) \cup {d}
  <1>1. IsCall(c) /\ IsList(stored)
    BY Unfold
  <1> DEFINE d == [c EXCEPT !.done = TRUE]
             l == [c EXCEPT !.done = TRUE, !.list = stored]
  <1>2. calls' = (calls \ {c}) \cup {d} \/ (c.kind = "load" /\ calls' = (calls \ {c}) \cup {l})
    BY ServeSteps DEF Done
  <1>3. IsCall(d) /\ d.kind = c.kind /\ d.done = TRUE
    BY <1>1, ServedTyped
  <1>4. ASSUME c.kind = "load" PROVE IsCall(l) /\ l.kind = "load" /\ l.done = TRUE
    BY <1>1, <1>4, ListedTyped, ZenonT(30)
  <1> HIDE DEF d, l
  <1>5. QED
    BY <1>2, <1>3, <1>4

LEMMA ServeT == ASSUME TInv, NEW c \in calls, Serve(c) PROVE TInv'
  <1> DEFINE d == [c EXCEPT !.done = TRUE]
  <1>1. UNCHANGED <<mix, mounted, es, e, busy, called, written, stream, diff, check, voice>>
    BY DEF Serve
  <1>2. /\ IsCall(c) /\ DOMAIN c.list \subseteq DOMAIN stored /\ (c.kind \in Writing => c.ep \in DOMAIN stored)
        /\ IsList(stored) /\ history \in [Eps -> SUBSET Text] /\ busy \in BOOLEAN
    BY Unfold DEF Known, TypeOK
  <1>3. IsCall(d) /\ d.kind = c.kind /\ d.list = c.list /\ (c.kind \in Writing => d.ep = c.ep)
    BY <1>2, ServedTyped
  <1>4. CASE c.kind \in Writing /\ c.ep \in DOMAIN stored /\ Done(c) /\ c.text \in Text
             /\ stored' = [stored EXCEPT ![c.ep] = c.text]
             /\ history' = (IF KeepsRevision(c)
                            THEN [history EXCEPT ![c.ep] = history[c.ep] \cup {stored[c.ep]}] ELSE history)
    <2>1. calls' = (calls \ {c}) \cup {d}
      BY <1>4 DEF Done
    <2> HIDE DEF d
    <2>2. IsList(stored') /\ DOMAIN stored' = DOMAIN stored
      BY <1>2, <1>4 DEF IsList
    <2>3. history' \in [Eps -> SUBSET Text]
      <3>1. c.ep \in Eps /\ stored[c.ep] \in Text
        BY <1>2, <1>4 DEF IsList
      <3>2. history[c.ep] \cup {stored[c.ep]} \in SUBSET Text
        BY <1>2, <3>1
      <3>3. QED
        BY <1>2, <1>4, <3>1, <3>2
    <2>4. QED
      BY <1>1, <1>2, <1>3, <2>1, <2>2, <2>3, CallsT
  <1>5. CASE /\ c.kind = "create" /\ Done(c) /\ history' = history
             /\ \E k \in Eps \ DOMAIN stored :
                   stored' = [j \in DOMAIN stored \cup {k} |-> IF j = k THEN {} ELSE stored[j]]
    <2>1. calls' = (calls \ {c}) \cup {d}
      BY <1>5 DEF Done
    <2> HIDE DEF d
    <2>2. PICK k \in Eps \ DOMAIN stored :
              stored' = [j \in DOMAIN stored \cup {k} |-> IF j = k THEN {} ELSE stored[j]]
      BY <1>5
    <2>3. IsList(stored') /\ DOMAIN stored \subseteq DOMAIN stored'
      BY <1>2, <2>2 DEF IsList, Text
    <2>4. QED
      BY <1>1, <1>2, <1>3, <1>5, <2>1, <2>3, CallsT
  <1>6. CASE /\ c.kind = "load" /\ UNCHANGED server
             /\ calls' = (calls \ {c}) \cup {[c EXCEPT !.done = TRUE, !.list = stored]}
    <2> DEFINE l == [c EXCEPT !.done = TRUE, !.list = stored]
    <2>1. IsCall(l) /\ l.kind = "load" /\ l.list = stored /\ calls' = (calls \ {c}) \cup {l}
      BY <1>2, <1>6, ListedTyped
    <2> HIDE DEF l
    <2>2. QED
      BY <1>1, <1>2, <1>6, <2>1, CallsT DEF server, Writing
  <1>7. QED
    BY <1>4, <1>5, <1>6, ServeSteps

LEMMA ListWithTyped ==
    ASSUME NEW c, IsCall(c), c.kind \in Writing
    PROVE  IsList(ListWith(c)) /\ DOMAIN ListWith(c) = DOMAIN c.list
  BY DEF IsCall, Write, Other, Writing, IsList, ListWith

LEMMA AnswerT == ASSUME TInv, NEW c \in calls, Answer(c) PROVE TInv'
  <1>1. UNCHANGED <<mix, server, mounted, called, written, stream, diff, voice>> /\ c.done
    BY DEF Answer
  <1>2. /\ IsCall(c) /\ DOMAIN c.list \subseteq DOMAIN stored /\ (c.kind \in Writing => c.ep \in DOMAIN stored)
        /\ IsList(stored) /\ history \in [Eps -> SUBSET Text] /\ busy \in BOOLEAN
    BY Unfold DEF Known, TypeOK
  <1>3. voice' = None \/ (voice' \in Recognition /\ voice'.base.ep \in DOMAIN stored)
    BY <1>1, Unfold DEF Known, TypeOK
  <1>4. CASE AnswerWrite(c)
    <2>1. c.kind \in Writing /\ calls' = calls \ {c} /\ busy' \in BOOLEAN /\ es' = ListWith(c)
      BY <1>2, <1>4 DEF AnswerWrite, Writing
    <2>2. LET x == [ep |-> c.ep, text |-> c.text]
          IN  x \in Shown /\ x.ep \in DOMAIN stored /\ Show(x)
      BY <1>2, <1>4, <2>1 DEF AnswerWrite, IsCall, Write, Other, Writing, Shown
    <2>3. IsList(es') /\ DOMAIN es' \subseteq DOMAIN stored
      BY <1>2, <2>1, ListWithTyped
    <2>4. calls' # calls /\ calls' \subseteq calls /\ written' = written /\ written' <= mix.typed
      BY <1>1, <2>1, Unfold, MixTyped
    <2>5. QED
      BY <1>1, <1>3, <2>1, <2>2, <2>3, <2>4, ShowT DEF stream
  <1>5. CASE AnswerLoad(c) /\ c.list # Nothing
    <2>1. es' = c.list /\ calls' = calls \ {c} /\ busy' = busy
      BY <1>5 DEF AnswerLoad
    <2>2. LET x == [ep |-> FirstOf(c.list), text |-> c.list[FirstOf(c.list)]]
          IN  x \in Shown /\ x.ep \in DOMAIN stored /\ Show(x)
      BY <1>2, <1>5, FirstOfIsListed DEF AnswerLoad, IsCall
    <2>3. IsList(es') /\ DOMAIN es' \subseteq DOMAIN stored
      BY <1>2, <2>1 DEF IsCall
    <2>4. calls' # calls /\ calls' \subseteq calls /\ written' = written /\ written' <= mix.typed
      BY <1>1, <2>1, Unfold, MixTyped
    <2>5. QED
      BY <1>1, <1>2, <1>3, <2>1, <2>2, <2>3, <2>4, ShowT DEF stream
  <1>6. CASE AnswerLoad(c) /\ c.list = Nothing
    <2>1. /\ es' = Nothing /\ calls' = calls \ {c} /\ busy' = busy /\ e' = None /\ Unmounted
      BY <1>6 DEF AnswerLoad
    <2>2. /\ panel' = None /\ checks' \subseteq CheckStream /\ IsFiniteSet(checks')
          /\ Cardinality(checks') <= Cardinality(checks)
      BY <2>1, UnmountedTyped
    <2>3. TypeOK'
      BY <1>1, <2>1, <2>2, NothingIsList, Unfold DEF TypeOK, server, stream, CheckStream, IsCall
    <2>4. Bounded'
      <3>1. IsFiniteSet(calls') /\ Cardinality(calls') <= Cardinality(calls) /\ Cardinality(calls') \in Nat
            /\ Cardinality(checks') \in Nat /\ Cardinality(calls) \in Nat /\ Cardinality(checks) \in Nat
        BY <2>1, <2>2, FS_Subset, Countable, Unfold DEF Bounded
      <3>2. called' = called /\ mix' = mix /\ written' = written
        BY <1>1
      <3>3. QED
        <4>1. /\ Cardinality(calls) <= called + 1 /\ called \in Nat /\ written \in Nat /\ mix.checks \in Nat
              /\ Cardinality(checks) + Cardinality(calls) <= mix.checks + written + called + 1
          BY Unfold, MixTyped DEF Bounded
        <4>2. /\ Cardinality(calls') <= called + 1
              /\ Cardinality(checks') + Cardinality(calls') <= mix.checks + written + called + 1
          BY <2>2, <3>1, <4>1
        <4>3. QED
          BY <2>2, <3>1, <3>2, <4>2 DEF Bounded
    <2>5. Known' /\ PanelFollows'
      BY <1>1, <2>1, <2>2, NothingIsList, Unfold DEF Known, PanelFollows, server, stream
    <2>6. QED
      BY <2>3, <2>4, <2>5 DEF TInv
  <1>7. CASE AnswerCreate(c) \/ (~mounted /\ calls' = calls \ {c} /\ UNCHANGED <<es, e, busy, check>>)
    <2>1. calls' = calls \ {c} \/ calls' = (calls \ {c}) \cup {Load}
      BY <1>7 DEF AnswerCreate
    <2>2. UNCHANGED <<es, e, busy, check>>
      BY <1>7 DEF AnswerCreate
    <2>3. IsCall(Load) /\ DOMAIN Load.list = {} /\ Load.kind \notin Writing
      BY NothingIsList DEF Load, Writing
    <2>4. stored' = stored /\ history' = history
      BY <1>1 DEF server
    <2>5. QED
      BY <1>1, <1>2, <2>1, <2>2, <2>3, <2>4, CallsT
  <1>8. QED
    BY <1>4, <1>5, <1>6, <1>7 DEF Answer

LEMMA FailT == ASSUME TInv, NEW c \in calls, Fail(c) PROVE TInv'
  <1>1. /\ calls' = calls \ {c} /\ busy' = (IF c.kind = "save" THEN FALSE ELSE busy)
        /\ UNCHANGED <<mix, server, mounted, es, e, called, written, stream, diff, check, voice>>
    BY DEF Fail
  <1>2. busy' \in BOOLEAN /\ stored' = stored /\ history' = history /\ history \in [Eps -> SUBSET Text]
    BY <1>1, Unfold DEF TypeOK, server
  <1>3. IsCall(c) /\ DOMAIN c.list \subseteq DOMAIN stored /\ (c.kind \in Writing => c.ep \in DOMAIN stored)
    BY Unfold DEF Known
  <1>4. QED
    BY <1>1, <1>2, <1>3, Unfold, CallsT

LEMMA StutterT == TInv /\ UNCHANGED vars => TInv'
  <1> SUFFICES ASSUME TInv, UNCHANGED vars PROVE TInv'
    OBVIOUS
  <1>1. UNCHANGED <<mix, server, mounted, es, e, calls, called, written, ai, diff, check, voice, busy, runs, items, activity>>
    BY DEF vars, stream
  <1>2. QED
    BY <1>1, Unfold, StreamT DEF TypeOK, Known

LEMMA NextT == TInv /\ [Next]_vars => TInv'
  BY EditT, AskT, DialogsT, LeaveT, ServeT, AnswerT, FailT, AiMessageT, AiOverT, CheckOverT, StutterT
  DEF Next, Network

\* The variables keep their types whatever answers late, and a check that is started
\* over always finds a name of its own.
THEOREM TypeCorrect == Spec => []TypeOK
  <1>1. TInv => TypeOK
    BY DEF TInv
  <1>2. QED
    BY <1>1, TInit, NextT, PTL DEF Spec

-----------------------------------------------------------------------------
(***************************************************************************)
(* Streams belong to what is on the screen.                                *)
(***************************************************************************)

\* The steps that do not touch the AI streams.
Quiet == UNCHANGED <<runs, items, activity, mounted>> /\ ai' \in {ai, None}

LEMMA OtherStepsAreQuiet ==
    ASSUME [Next]_vars
    PROVE  \/ Quiet \/ AiRun \/ Cancel \/ Leave
           \/ \E r \in DOMAIN runs : AiMessage(r) \/ AiOver(r)
  <1>1. CASE Edit
    BY <1>1 DEF Edit, Type, Select, VoiceStart, VoiceStop, VoiceResult, VoiceEnd, Quiet, stream
  <1>2. CASE Ask
    BY <1>2 DEF Ask, Save, Saved, Restore, DocxImport, CreateArticle, Quiet, stream
  <1>3. CASE Dialogs
    BY <1>3 DEF Dialogs, Adopt, OpenDiff, CloseDiff, ApplyDiff, OpenPanel, ClosePanel, Review, Quiet, stream
  <1>4. CASE Network
    BY <1>4 DEF Network, Serve, Answer, Fail, Quiet, stream
  <1>5. ASSUME NEW s \in checks, CheckOver(s) PROVE Quiet
    BY <1>5 DEF CheckOver, Quiet, stream
  <1>6. CASE UNCHANGED vars
    BY <1>6 DEF vars, Quiet, stream
  <1>7. QED
    BY <1>1, <1>2, <1>3, <1>4, <1>5, <1>6 DEF Next

\* What the steps that do touch them do.
LEMMA AiRunSteps ==
    ASSUME TInv, AiRun
    PROVE  /\ Len(runs) \in Nat /\ Len(runs') = Len(runs) + 1
           /\ DOMAIN runs = 1..Len(runs) /\ DOMAIN runs' = 1..(Len(runs) + 1)
           /\ runs'[Len(runs) + 1] = [ep |-> e.ep, state |-> "live"]
           /\ \A r \in 1..Len(runs) :
                 /\ runs'[r].ep = runs[r].ep
                 /\ runs'[r].state = "live" => runs[r].state = "live" /\ r # Len(runs)
                 /\ runs'[r].state = "over" <=> runs[r].state = "over"
           /\ items' = (items \ {activity}) \cup {Len(runs) + 1}
           /\ items \subseteq 1..Len(runs)
           /\ ai' = None /\ mounted /\ mounted' /\ busy' = TRUE /\ e # None
  <1> DEFINE new == [ep |-> e.ep, state |-> "live"]
  <1>1. new \in Run
    BY Unfold DEF AiRun, Run
  <1>2. /\ runs' = Append(AbortedRuns, new) /\ items' = (items \ {activity}) \cup {Len(runs) + 1}
        /\ ai' = None /\ mounted /\ mounted' /\ busy' = TRUE /\ e # None
    BY DEF AiRun, May
  <1> HIDE DEF new
  <1>3. /\ AbortedRuns \in Seq(Run) /\ Len(AbortedRuns) = Len(runs) /\ Len(runs) \in Nat
        /\ DOMAIN runs = 1..Len(runs)
    BY Unfold, AbortedRunsTyped
  <1>4. /\ runs' \in Seq(Run) /\ Len(runs') = Len(runs) + 1
        /\ runs'[Len(runs) + 1] = new /\ \A r \in 1..Len(runs) : runs'[r] = AbortedRuns[r]
    BY <1>1, <1>2, <1>3, AppendProperties
  <1>5. DOMAIN runs' = 1..(Len(runs) + 1)
    BY <1>3, <1>4, LenProperties
  <1>6. \A r \in 1..Len(runs) :
            /\ runs'[r].ep = runs[r].ep
            /\ runs'[r].state = "live" => runs[r].state = "live" /\ r # Len(runs)
            /\ runs'[r].state = "over" <=> runs[r].state = "over"
    BY <1>4, Unfold, AbortedRunsTyped
  <1>7. items \subseteq 1..Len(runs)
    BY <1>3, Unfold DEF TypeOK
  <1>8. QED
    BY <1>2, <1>3, <1>4, <1>5, <1>6, <1>7 DEF new

LEMMA AbortSteps ==
    ASSUME TInv, Cancel \/ Leave
    PROVE  /\ Len(runs) \in Nat /\ Len(runs') = Len(runs)
           /\ DOMAIN runs = 1..Len(runs) /\ DOMAIN runs' = 1..Len(runs)
           /\ \A r \in 1..Len(runs) :
                 /\ runs'[r].ep = runs[r].ep
                 /\ runs'[r].state = "live" => runs[r].state = "live" /\ r # Len(runs)
                 /\ runs'[r].state = "over" <=> runs[r].state = "over"
           /\ items' \subseteq items /\ items \subseteq 1..Len(runs)
           /\ ai' = ai /\ busy' = busy /\ calls' = calls
           /\ Cancel => mounted' = mounted
           /\ Leave => mounted' = FALSE
  <1>1. runs' = AbortedRuns
    BY DEF Cancel, Leave
  <1>2. /\ items' \subseteq items /\ ai' = ai /\ busy' = busy /\ calls' = calls
        /\ Cancel => mounted' = mounted
        /\ Leave => mounted' = FALSE
    BY DEF Cancel, Leave
  <1>3. runs \in Seq(Run) /\ items \subseteq DOMAIN runs
    BY Unfold DEF TypeOK
  <1>4. QED
    BY <1>1, <1>2, <1>3, AbortedRunsTyped

LEMMA AiOverSteps ==
    ASSUME TInv, NEW r \in DOMAIN runs, AiOver(r)
    PROVE  /\ Len(runs') = Len(runs) /\ DOMAIN runs' = DOMAIN runs
           /\ runs'[r].state = "over" /\ runs'[r].ep = runs[r].ep
           /\ \A q \in DOMAIN runs : q # r => runs'[q] = runs[q]
           /\ items' = items \ {r} /\ ai' = ai /\ busy' = FALSE /\ mounted' = mounted
  <1>1. /\ runs' = [runs EXCEPT ![r].state = "over"] /\ runs \in Seq(Run)
        /\ items' = items \ {r} /\ ai' = ai /\ busy' = FALSE /\ mounted' = mounted
    BY Unfold DEF AiOver
  <1>2. QED
    BY <1>1, RunOver

LEMMA HiddenStep == TInv /\ NoHiddenStream /\ [Next]_vars => NoHiddenStream'
  <1> SUFFICES ASSUME TInv, NoHiddenStream, [Next]_vars PROVE NoHiddenStream'
    OBVIOUS
  <1>1. CASE Quiet
    BY <1>1 DEF Quiet, NoHiddenStream
  <1>2. CASE AiRun
    <2>1. ASSUME NEW r \in DOMAIN runs', runs'[r].state = "live"
          PROVE  r = Len(runs') /\ r \in items' /\ mounted'
      <3>1. r \notin 1..Len(runs)
        BY <1>2, <2>1, AiRunSteps DEF NoHiddenStream
      <3>2. r = Len(runs) + 1
        <4>1. r \in 1..(Len(runs) + 1) /\ Len(runs) \in Nat
          BY <1>2, <2>1, AiRunSteps
        <4>2. QED
          BY <3>1, <4>1
      <3>3. QED
        BY <1>2, <3>2, AiRunSteps
    <2>2. ASSUME NEW r \in items' PROVE runs'[r].state # "over"
      <3>1. CASE r = Len(runs) + 1
        <4>1. runs'[r] = [ep |-> e.ep, state |-> "live"]
          BY <1>2, <3>1, AiRunSteps
        <4>2. QED
          BY <4>1
      <3>2. CASE r \in items
        <4>1. r \in 1..Len(runs) /\ runs[r].state # "over"
          BY <1>2, <3>2, AiRunSteps DEF NoHiddenStream
        <4>2. QED
          BY <1>2, <4>1, AiRunSteps
      <3>3. QED
        BY <1>2, <2>2, <3>1, <3>2, AiRunSteps
    <2>3. QED
      BY <2>1, <2>2 DEF NoHiddenStream
  <1>3. CASE Cancel \/ Leave
    BY <1>3, AbortSteps DEF NoHiddenStream
  <1>4. ASSUME NEW r \in DOMAIN runs, AiMessage(r) PROVE NoHiddenStream'
    BY <1>4 DEF AiMessage, NoHiddenStream
  <1>5. ASSUME NEW r \in DOMAIN runs, AiOver(r) PROVE NoHiddenStream'
    <2>1. ASSUME NEW q \in DOMAIN runs', runs'[q].state = "live"
          PROVE  q = Len(runs') /\ q \in items' /\ mounted'
      <3>1. q # r /\ q \in DOMAIN runs /\ runs'[q] = runs[q]
        BY <1>5, <2>1, AiOverSteps
      <3>2. q = Len(runs) /\ q \in items /\ mounted
        BY <2>1, <3>1 DEF NoHiddenStream
      <3>3. QED
        BY <1>5, <3>1, <3>2, AiOverSteps
    <2>2. ASSUME NEW q \in items' PROVE runs'[q].state # "over"
      <3>1. q # r /\ q \in items /\ items \subseteq DOMAIN runs
        BY <1>5, <2>2, AiOverSteps, Unfold DEF TypeOK
      <3>2. QED
        BY <1>5, <3>1, AiOverSteps DEF NoHiddenStream
    <2>3. QED
      BY <2>1, <2>2 DEF NoHiddenStream
  <1>6. QED
    BY <1>1, <1>2, <1>3, <1>4, <1>5, OtherStepsAreQuiet

LEMMA LatestStep == TInv /\ NoHiddenStream /\ AiOfLatestRun /\ [Next]_vars => AiOfLatestRun'
  <1> SUFFICES ASSUME TInv, NoHiddenStream, AiOfLatestRun, [Next]_vars PROVE AiOfLatestRun'
    OBVIOUS
  <1>1. CASE Quiet
    BY <1>1 DEF Quiet, AiOfLatestRun
  <1>2. CASE AiRun
    BY <1>2, AiRunSteps DEF AiOfLatestRun
  <1>3. CASE Cancel \/ Leave
    BY <1>3, AbortSteps DEF AiOfLatestRun
  <1>4. ASSUME NEW r \in DOMAIN runs, AiMessage(r) PROVE AiOfLatestRun'
    <2>1. r = Len(runs) /\ runs' = runs
      BY <1>4 DEF AiMessage, NoHiddenStream
    <2>2. ai'.run = r
      BY <1>4 DEF AiMessage
    <2>3. QED
      BY <2>1, <2>2 DEF AiOfLatestRun
  <1>5. ASSUME NEW r \in DOMAIN runs, AiOver(r) PROVE AiOfLatestRun'
    BY <1>5, AiOverSteps DEF AiOfLatestRun
  <1>6. QED
    BY <1>1, <1>2, <1>3, <1>4, <1>5, OtherStepsAreQuiet

LEMMA OwnedStep == TInv /\ NoUnownedCheck /\ [Next]_vars => NoUnownedCheck'
  <1> SUFFICES ASSUME TInv, NoUnownedCheck, [Next]_vars PROVE NoUnownedCheck'
    OBVIOUS
  <1>1. Owned <=> NoUnownedCheck
    BY DEF Owned, NoUnownedCheck
  <1>2. CASE UNCHANGED check
    BY <1>2 DEF check, NoUnownedCheck
  <1>3. ASSUME NEW x \in Shown, Show(x) PROVE NoUnownedCheck'
    BY <1>1, <1>3, ShowSteps, Unfold DEF Owned, NoUnownedCheck
  <1>4. ASSUME Unmounted PROVE NoUnownedCheck'
    BY <1>1, <1>4, UnmountedTyped DEF Owned, NoUnownedCheck
  <1>5. CASE Edit
    <2>1. CASE Type
      <3>1. [e EXCEPT !.text = e.text \cup {ThePiece("typed", e.ep, written)}] \in Shown
        BY <2>1, Unfold, MixTyped, PieceTyped DEF Type, Shown, Text
      <3>2. QED
        BY <1>3, <2>1, <3>1 DEF Type
    <2>2. ASSUME NEW k \in Eps, Select(k) PROVE NoUnownedCheck'
      <3>1. [ep |-> k, text |-> es[k]] \in Shown
        BY <2>2, Unfold DEF Select, IsList, Shown
      <3>2. QED
        BY <1>3, <2>2, <3>1 DEF Select
    <2>3. CASE VoiceStart \/ VoiceStop \/ VoiceEnd
      BY <1>2, <2>3 DEF VoiceStart, VoiceStop, VoiceEnd
    <2>4. CASE VoiceResult
      <3> DEFINE heard == voice.heard \cup {ThePiece("typed", voice.base.ep, written)}
                 x == [voice.base EXCEPT !.text = voice.base.text \cup heard]
      <3>1. voice \in Recognition
        BY <2>4, Unfold DEF VoiceResult, TypeOK
      <3>2. x \in Shown
        BY <3>1, Unfold, MixTyped, PieceTyped DEF Recognition, Shown, Text
      <3>3. (IF mounted THEN Show(x) ELSE UNCHANGED <<e, check>>)
        BY <2>4 DEF VoiceResult
      <3> HIDE DEF x
      <3>4. QED
        BY <1>2, <1>3, <3>2, <3>3
    <2>5. QED
      BY <1>5, <2>1, <2>2, <2>3, <2>4 DEF Edit
  <1>6. CASE Ask
    BY <1>2, <1>6 DEF Ask, Save, Saved, Restore, DocxImport, CreateArticle
  <1>7. CASE Dialogs
    <2>1. CASE Adopt
      <3>1. [e EXCEPT !.text = e.text \cup ai.text] \in Shown
        BY <2>1, Unfold DEF Adopt, MayAdopt, TypeOK, Result, Shown, Text
      <3>2. QED
        BY <1>3, <2>1, <3>1 DEF Adopt
    <2>2. CASE ApplyDiff
      <3>1. PICK accepted \in SUBSET (diff.after \ diff.before) :
                Show([e EXCEPT !.text = (diff.before \cap diff.after) \cup accepted])
        BY <2>2 DEF ApplyDiff
      <3>2. [e EXCEPT !.text = (diff.before \cap diff.after) \cup accepted] \in Shown
        BY <2>2, <3>1, Unfold DEF ApplyDiff, TypeOK, Comparison, Shown, Text
      <3>3. QED
        BY <1>3, <3>1, <3>2
    <2>3. CASE OpenPanel
      <3>1. FreeGen \in Gens /\ (\A s \in checks : s.gen # FreeGen) /\ panel = None
        BY <2>3, FreeGenIsFree, Unfold DEF OpenPanel
      <3> DEFINE g == FreeGen
      <3>2. panel' = [ep |-> e.ep, gen |-> g, checked |-> e.text, working |-> e.text, loading |-> TRUE,
                      failed |-> FALSE, diffs |-> 0, index |-> 0] /\ checks' = checks \cup {FirstTry(g)}
        BY <2>3 DEF OpenPanel
      <3> HIDE DEF g
      <3>3. panel' \in Panel /\ panel'.gen = g
        BY <2>3, <3>1, <3>2, Unfold, GensAssumption DEF Panel, OpenPanel, g
      <3>4. FirstTry(g).gen = g
        BY DEF FirstTry
      <3>5. QED
        BY <3>1, <3>2, <3>3, <3>4, NoneAssumption DEF NoUnownedCheck
    <2>4. CASE ClosePanel
      BY <1>4, <2>4 DEF ClosePanel
    <2>5. CASE Review
      <3>1. Unmounted \/ (panel' \in Panel /\ panel'.gen = panel.gen /\ UNCHANGED <<e, checks>>)
        BY <2>5, ReviewSteps
      <3>2. QED
        BY <1>4, <3>1, NoneAssumption DEF NoUnownedCheck
    <2>6. CASE AiRun \/ Cancel \/ OpenDiff \/ CloseDiff
      BY <1>2, <2>6 DEF AiRun, Cancel, OpenDiff, CloseDiff
    <2>7. QED
      BY <1>7, <2>1, <2>2, <2>3, <2>4, <2>5, <2>6 DEF Dialogs
  <1>8. CASE Leave
    BY <1>4, <1>8 DEF Leave
  <1>9. ASSUME NEW c \in calls, Serve(c) \/ Answer(c) \/ Fail(c) PROVE NoUnownedCheck'
    <2>1. IsCall(c)
      BY Unfold
    <2>2. CASE AnswerWrite(c)
      <3>1. [ep |-> c.ep, text |-> c.text] \in Shown
        BY <2>1, <2>2 DEF AnswerWrite, IsCall, Write, Other, Shown
      <3>2. QED
        BY <1>3, <2>2, <3>1 DEF AnswerWrite
    <2>3. CASE AnswerLoad(c)
      <3>1. CASE c.list = Nothing
        BY <1>4, <2>3, <3>1 DEF AnswerLoad
      <3>2. CASE c.list # Nothing
        BY <1>3, <2>1, <2>3, <3>2, FirstOfIsListed DEF AnswerLoad, IsCall
      <3>3. QED
        BY <3>1, <3>2
    <2>4. CASE ~AnswerWrite(c) /\ ~AnswerLoad(c)
      BY <1>2, <1>9, <2>4 DEF Serve, Answer, AnswerCreate, Fail
    <2>5. QED
      BY <2>2, <2>3, <2>4
  <1>10. ASSUME NEW s \in checks, CheckOver(s) PROVE NoUnownedCheck'
    <2>1. CASE Dropped(s)
      BY <2>1 DEF Dropped, NoUnownedCheck
    <2>2. CASE Corrected(s) \/ Retried(s) \/ Failed(s)
      <3>1. panel # None /\ panel.gen = s.gen /\ panel \in Panel
        BY <2>2, Unfold DEF Corrected, Retried, Failed, Cancelled
      <3>2. panel' # None /\ panel'.gen = s.gen
        <4>1. panel' \in Panel /\ panel'.gen = panel.gen
          <5>1. CASE Corrected(s)
            <6>1. PICK n \in 0..(IF panel.checked = {} THEN 0 ELSE MaxDiffs) :
                      panel' = [panel EXCEPT !.diffs = n, !.loading = FALSE]
              BY <5>1 DEF Corrected
            <6>2. n \in 0..MaxDiffs
              BY <6>1, GensAssumption
            <6>3. QED
              BY <3>1, <6>1, <6>2 DEF Panel
          <5>2. CASE Retried(s) \/ Failed(s)
            BY <3>1, <5>2 DEF Retried, Failed, Panel
          <5>3. QED
            BY <2>2, <5>1, <5>2
        <4>2. QED
          BY <3>1, <4>1, NoneAssumption
      <3>3. \A t \in checks' : t \in checks \/ t.gen = s.gen
        <4>1. s \in CheckStream
          BY Unfold
        <4>2. [s EXCEPT !.attempt = 1, !.aborted = FALSE].gen = s.gen
          BY <4>1 DEF CheckStream
        <4>3. QED
          BY <2>2, <4>2 DEF Corrected, Retried, Failed
      <3>4. QED
        BY <3>1, <3>2, <3>3 DEF NoUnownedCheck
    <2>3. QED
      BY <1>10, <2>1, <2>2 DEF CheckOver
  <1>11. ASSUME NEW r \in DOMAIN runs, AiMessage(r) \/ AiOver(r) PROVE NoUnownedCheck'
    BY <1>2, <1>11 DEF AiMessage, AiOver
  <1>12. CASE UNCHANGED vars
    BY <1>2, <1>12 DEF vars
  <1>13. QED
    BY <1>5, <1>6, <1>7, <1>8, <1>9, <1>10, <1>11, <1>12 DEF Next, Network

LEMMA BusyStep == TInv /\ IdleIsNotBusy /\ [Next]_vars => IdleIsNotBusy'
  <1> SUFFICES ASSUME TInv, IdleIsNotBusy, [Next]_vars PROVE IdleIsNotBusy'
    OBVIOUS
  <1>1. CASE UNCHANGED <<busy, mounted, calls, runs>>
    BY <1>1 DEF IdleIsNotBusy
  <1>2. CASE Edit
    BY <1>1, <1>2 DEF Edit, Type, Select, VoiceStart, VoiceStop, VoiceResult, VoiceEnd, stream
  <1>3. CASE Ask
    <2>1. CASE Save
      <3>1. e # None /\ WriteCall("save", e.text) \in calls'
        BY <2>1 DEF Save, Saved, Started
      <3>2. WriteCall("save", e.text).kind = "save"
        BY DEF WriteCall
      <3>3. QED
        BY <3>1, <3>2 DEF IdleIsNotBusy
    <2>2. CASE Restore \/ DocxImport \/ CreateArticle
      <3>1. calls \subseteq calls' /\ UNCHANGED <<busy, mounted, runs>>
        BY <2>2 DEF Restore, DocxImport, CreateArticle, Started, stream
      <3>2. QED
        BY <3>1 DEF IdleIsNotBusy
    <2>3. QED
      BY <1>3, <2>1, <2>2 DEF Ask
  <1>4. CASE AiRun
    <2>1. runs'[Len(runs) + 1] = [ep |-> e.ep, state |-> "live"] /\ Len(runs) + 1 \in DOMAIN runs'
      <3>1. Len(runs) \in Nat /\ DOMAIN runs' = 1..(Len(runs) + 1)
        BY <1>4, AiRunSteps
      <3>2. Len(runs) + 1 \in 1..(Len(runs) + 1)
        BY <3>1
      <3>3. QED
        BY <1>4, <3>1, <3>2, AiRunSteps
    <2>2. runs'[Len(runs) + 1].state # "over"
      BY <2>1
    <2>3. QED
      BY <2>1, <2>2 DEF IdleIsNotBusy
  <1>5. CASE Cancel \/ Leave
    <2>1. busy' /\ mounted' => busy /\ mounted
      BY <1>5, AbortSteps
    <2>2. calls' = calls
      BY <1>5, AbortSteps
    <2>3. \A r \in DOMAIN runs : runs[r].state # "over" => r \in DOMAIN runs' /\ runs'[r].state # "over"
      BY <1>5, AbortSteps
    <2>4. QED
      BY <2>1, <2>2, <2>3 DEF IdleIsNotBusy
  <1>6. CASE Dialogs
    BY <1>1, <1>4, <1>5, <1>6 DEF Dialogs, Adopt, OpenDiff, CloseDiff, ApplyDiff, OpenPanel, ClosePanel, Review, stream
  <1>7. ASSUME NEW c \in calls, Serve(c) \/ Answer(c) \/ Fail(c) PROVE IdleIsNotBusy'
    <2>1. runs' = runs /\ mounted' = mounted
      BY <1>7 DEF Serve, Answer, Fail, stream
    <2>2. CASE Serve(c)
      <3>1. busy' = busy
        BY <2>2 DEF Serve
      <3>2. \A b \in calls : b.kind = "save" => \E d \in calls' : d.kind = "save"
        <4>1. \E d : d.kind = c.kind /\ calls' = (calls \ {c}) \cup {d}
          BY <2>2, ServeChanges
        <4>2. QED
          BY <4>1
      <3>3. QED
        BY <2>1, <3>1, <3>2 DEF IdleIsNotBusy
    <2>3. CASE Answer(c) \/ Fail(c)
      <3>1. (calls \ {c}) \subseteq calls'
        BY <2>3 DEF Answer, AnswerWrite, AnswerLoad, AnswerCreate, Fail
      <3>2. c.kind = "save" => busy' = FALSE \/ ~mounted'
        BY <2>1, <2>3 DEF Answer, AnswerWrite, AnswerLoad, AnswerCreate, Fail
      <3>3. c.kind # "save" => busy' = busy
        BY <2>3 DEF Answer, AnswerWrite, AnswerLoad, AnswerCreate, Fail
      <3>4. QED
        BY <2>1, <3>1, <3>2, <3>3 DEF IdleIsNotBusy
    <2>4. QED
      BY <1>7, <2>2, <2>3
  <1>8. ASSUME NEW s \in checks, CheckOver(s) PROVE IdleIsNotBusy'
    BY <1>1, <1>8 DEF CheckOver, stream
  <1>9. ASSUME NEW r \in DOMAIN runs, AiMessage(r) PROVE IdleIsNotBusy'
    BY <1>1, <1>9 DEF AiMessage
  <1>10. ASSUME NEW r \in DOMAIN runs, AiOver(r) PROVE IdleIsNotBusy'
    BY <1>10 DEF AiOver, IdleIsNotBusy
  <1>11. CASE UNCHANGED vars
    BY <1>1, <1>11 DEF vars, stream
  <1>12. QED
    BY <1>2, <1>3, <1>5, <1>6, <1>7, <1>8, <1>9, <1>10, <1>11 DEF Next, Network

\* However late the streams and the calls answer: the result on the screen is that of
\* the run started last, no stream runs unseen, a check that is not aborted belongs to
\* the open panel, and a busy screen waits for something.
THEOREM StreamsBelong == Spec => []StreamsAreOwned
  <1>1. Init => StreamsAreOwned
    <2> SUFFICES ASSUME Init PROVE StreamsAreOwned
      OBVIOUS
    <2>1. ai = None /\ runs = <<>> /\ items = {} /\ checks = {}
      BY DEF Init
    <2>2. DOMAIN runs = {}
      BY <2>1
    <2>3. ~busy
      BY Zenon DEF Init
    <2>4. QED
      BY <2>1, <2>2, <2>3 DEF StreamsAreOwned, AiOfLatestRun, NoHiddenStream, NoUnownedCheck, IdleIsNotBusy
  <1>2. TInv /\ StreamsAreOwned /\ [Next]_vars => StreamsAreOwned'
    BY LatestStep, HiddenStep, OwnedStep, BusyStep DEF StreamsAreOwned
  <1>3. QED
    BY <1>1, <1>2, TInit, NextT, PTL DEF Spec

-----------------------------------------------------------------------------
(***************************************************************************)
(* A saved text is kept.                                                   *)
(***************************************************************************)

Kept(c) == c.kind \in {"restore", "docx"} /\ c.saved => c.shown \in history[c.ep] \cup {stored[c.ep]}

LEMMA KeptStep == TInv /\ SavedIsKept /\ [Next]_vars => SavedIsKept'
  <1> SUFFICES ASSUME TInv, SavedIsKept, [Next]_vars PROVE SavedIsKept'
    OBVIOUS
  <1>1. \A c \in calls : Kept(c) /\ IsCall(c) /\ (c.kind \in Writing => c.ep \in DOMAIN stored)
    BY Unfold DEF SavedIsKept, Kept, Known
  <1>2. CASE UNCHANGED server /\ \A c \in calls' : c \in calls \/ c.kind \notin {"restore", "docx"}
    BY <1>1, <1>2 DEF SavedIsKept, Kept, server
  <1>3. CASE UNCHANGED <<server, calls>>
    BY <1>2, <1>3
  <1>4. CASE Edit
    BY <1>3, <1>4 DEF Edit, Type, Select, VoiceStart, VoiceStop, VoiceResult, VoiceEnd
  <1>5. CASE Ask
    <2>1. ASSUME NEW kind \in Writing, NEW text \in Text, e # None, Started(WriteCall(kind, text)), UNCHANGED server
          PROVE  SavedIsKept'
      <3>1. LET c == WriteCall(kind, text)
            IN  c.ep = e.ep /\ c.shown = e.text /\ (c.saved <=> e.text = stored[e.ep])
        BY <2>1, WriteCallTyped
      <3>2. calls' = calls \cup {WriteCall(kind, text)}
        BY <2>1 DEF Started
      <3>3. QED
        BY <1>1, <2>1, <3>1, <3>2 DEF SavedIsKept, Kept, server
    <2>2. CASE Save
      <3>1. e # None /\ e.text \in Text /\ Started(WriteCall("save", e.text)) /\ UNCHANGED server
        BY <2>2, Unfold DEF Save, Saved
      <3>2. QED
        BY <2>1, <3>1 DEF Writing
    <2>3. CASE Restore
      <3>1. e # None /\ UNCHANGED server /\ e.ep \in Eps
        BY <2>3, Unfold DEF Restore
      <3>2. PICK version \in history[e.ep] : Started(WriteCall("restore", version))
        BY <2>3 DEF Restore
      <3>3. version \in Text
        BY <3>1, <3>2, Unfold DEF TypeOK
      <3>4. QED
        BY <2>1, <3>1, <3>2, <3>3 DEF Writing
    <2>4. CASE DocxImport
      <3>1. e # None /\ e.ep \in Eps /\ Started(WriteCall("docx", {ThePiece("word", e.ep, 0)})) /\ UNCHANGED server
        BY <2>4, Unfold DEF DocxImport
      <3>2. {ThePiece("word", e.ep, 0)} \in Text
        BY <3>1 DEF Text, Piece, ThePiece
      <3>3. QED
        BY <2>1, <3>1, <3>2 DEF Writing
    <2>5. CASE CreateArticle
      <3>1. calls' = calls \cup {[Load EXCEPT !.kind = "create"]} /\ UNCHANGED server
        BY <2>5 DEF CreateArticle, Started
      <3>2. [Load EXCEPT !.kind = "create"].kind = "create"
        BY DEF Load
      <3>3. QED
        BY <1>2, <3>1, <3>2
    <2>6. QED
      BY <1>5, <2>2, <2>3, <2>4, <2>5 DEF Ask
  <1>6. ASSUME NEW c \in calls, Serve(c) PROVE SavedIsKept'
    <2> DEFINE d == [c EXCEPT !.done = TRUE]
    <2>1. /\ IsCall(c) /\ d.kind = c.kind
          /\ c.kind \in Writing => d.ep = c.ep /\ d.shown = c.shown /\ (d.saved <=> c.saved)
      BY <1>1, ServedTyped
    <2>2. CASE Done(c) /\ \A b \in calls : Kept(b) /\ b.kind \in Writing =>
                  (b.kind \in {"restore", "docx"} /\ b.saved => b.shown \in history'[b.ep] \cup {stored'[b.ep]})
      <3>1. calls' = (calls \ {c}) \cup {d}
        BY <2>2 DEF Done
      <3> HIDE DEF d
      <3>2. ASSUME NEW b \in calls', b.kind \in {"restore", "docx"}, b.saved
            PROVE  b.shown \in history'[b.ep] \cup {stored'[b.ep]}
        <4>1. CASE b \in calls
          BY <1>1, <2>2, <3>2, <4>1 DEF Writing
        <4>2. CASE b = d
          BY <1>1, <2>1, <2>2, <3>2, <4>2 DEF Writing
        <4>3. QED
          BY <3>1, <4>1, <4>2
      <3>3. QED
        BY <3>2 DEF SavedIsKept
    <2>3. CASE /\ c.kind \in Writing /\ c.ep \in DOMAIN stored /\ Done(c)
               /\ stored' = [stored EXCEPT ![c.ep] = c.text]
               /\ history' = (IF KeepsRevision(c)
                              THEN [history EXCEPT ![c.ep] = history[c.ep] \cup {stored[c.ep]}] ELSE history)
      <3>1. c.ep \in Eps /\ history \in [Eps -> SUBSET Text] /\ DOMAIN stored \subseteq Eps
        BY <2>3, Unfold DEF IsList, TypeOK
      <3>2. ASSUME NEW b \in calls, Kept(b), b.kind \in {"restore", "docx"}, b.saved
            PROVE  b.shown \in history'[b.ep] \cup {stored'[b.ep]}
        <4>1. b.ep \in DOMAIN stored /\ b.shown \in history[b.ep] \cup {stored[b.ep]}
          BY <1>1, <3>2 DEF Kept, Writing
        <4>2. CASE b.ep # c.ep
          BY <2>3, <3>1, <4>1, <4>2
        <4>3. CASE b.ep = c.ep /\ KeepsRevision(c)
          <5>1. history'[c.ep] = history[c.ep] \cup {stored[c.ep]}
            BY <2>3, <3>1, <4>3
          <5>2. QED
            BY <4>1, <4>3, <5>1
        <4>4. CASE b.ep = c.ep /\ ~KeepsRevision(c)
          <5>1. history' = history /\ stored'[c.ep] = stored[c.ep]
            BY <2>3, <4>4 DEF KeepsRevision
          <5>2. QED
            BY <4>1, <4>4, <5>1
        <4>5. QED
          BY <4>2, <4>3, <4>4
      <3>3. QED
        BY <2>2, <2>3, <3>2
    <2>4. CASE /\ c.kind = "create" /\ Done(c) /\ history' = history
               /\ \E k \in Eps \ DOMAIN stored :
                     stored' = [j \in DOMAIN stored \cup {k} |-> IF j = k THEN {} ELSE stored[j]]
      <3>1. \A k \in DOMAIN stored : stored'[k] = stored[k]
        BY <2>4
      <3>2. QED
        BY <1>1, <2>2, <2>4, <3>1 DEF Kept
    <2>5. CASE /\ c.kind = "load" /\ UNCHANGED server
               /\ calls' = (calls \ {c}) \cup {[c EXCEPT !.done = TRUE, !.list = stored]}
      <3>1. [c EXCEPT !.done = TRUE, !.list = stored].kind = "load"
        BY <1>1, <2>5, ListedTyped, Unfold
      <3>2. QED
        BY <1>2, <2>5, <3>1
    <2>6. QED
      BY <1>6, <2>3, <2>4, <2>5, ServeSteps
  <1>7. ASSUME NEW c \in calls, Answer(c) \/ Fail(c) PROVE SavedIsKept'
    <2>1. calls' \subseteq calls \cup {Load} /\ UNCHANGED server
      BY <1>7 DEF Answer, AnswerWrite, AnswerLoad, AnswerCreate, Fail
    <2>2. Load.kind = "load"
      BY DEF Load
    <2>3. QED
      BY <1>2, <2>1, <2>2
  <1>8. CASE Dialogs
    BY <1>3, <1>8
    DEF Dialogs, AiRun, Cancel, Adopt, OpenDiff, CloseDiff, ApplyDiff, OpenPanel, ClosePanel, Review
  <1>9. CASE Leave
    BY <1>3, <1>9 DEF Leave
  <1>10. ASSUME NEW s \in checks, CheckOver(s) PROVE SavedIsKept'
    BY <1>3, <1>10 DEF CheckOver
  <1>11. ASSUME NEW r \in DOMAIN runs, AiMessage(r) \/ AiOver(r) PROVE SavedIsKept'
    BY <1>3, <1>11 DEF AiMessage, AiOver
  <1>12. CASE UNCHANGED vars
    BY <1>3, <1>12 DEF vars
  <1>13. QED
    BY <1>4, <1>5, <1>6, <1>7, <1>8, <1>9, <1>10, <1>11, <1>12 DEF Next, Network

\* Whatever other calls come between, a text that was saved when its replacement by a
\* restore or an import was asked for is in the history or still stored after it.
THEOREM SavedTextIsKept == Spec => []SavedTextIsUndoable
  <1>1. Init => SavedIsKept
    BY DEF Init, SavedIsKept, Load
  <1>2. SavedIsKept => SavedTextIsUndoable
    BY DEF SavedIsKept, SavedTextIsUndoable, Replacing
  <1>3. QED
    BY <1>1, <1>2, TInit, NextT, KeptStep, PTL DEF Spec

-----------------------------------------------------------------------------
(***************************************************************************)
(* A careful writer.                                                       *)
(***************************************************************************)

Careful == TInv /\ mix.careful /\ PureTexts /\ OneThing /\ ListOwed

LEMMA PureUnion == ASSUME NEW k, NEW s, NEW t, Pure(k, s), Pure(k, t) PROVE Pure(k, s \cup t)
  BY DEF Pure, Typed

LEMMA PureSubset == ASSUME NEW k, NEW s, NEW t, Pure(k, t), s \subseteq t PROVE Pure(k, s)
  BY DEF Pure, Typed

LEMMA PurePieces ==
    ASSUME NEW k
    PROVE  /\ \A n : Pure(k, {ThePiece("typed", k, n)})
           /\ \A j, n : \A kind \in {"word", "ai", "fix"} : Pure(k, {ThePiece(kind, j, n)})
           /\ Pure(k, {})
  BY DEF Pure, Typed, ThePiece

\* A careful writer may use a control only when nothing is under way.
LEMMA CarefulMay ==
    ASSUME mix.careful, NEW op, May(op)
    PROVE  /\ calls = {} /\ voice = None /\ diff = None /\ panel = None /\ mounted
           /\ \A r \in DOMAIN runs : runs[r].state # "live"
  <1>1. Settled /\ mounted
    BY DEF May
  <1>2. \A r \in DOMAIN runs : runs[r].state = "over"
    BY <1>1 DEF Settled
  <1>3. QED
    BY <1>1, <1>2 DEF Settled

\* The episode of the open panel, or any episode without one, is shown.
LEMMA ShowHere ==
    ASSUME NEW x, Show(x), panel # None => panel.ep = x.ep
    PROVE  e' = x /\ panel' = panel
  BY DEF Show, check

\* Nothing changes that the texts and the list depend on.
LEMMA StayC ==
    ASSUME Careful, UNCHANGED <<mix, server, mounted, es, e, calls, voice, ai, diff, panel, runs>>
    PROVE  PureTexts' /\ OneThing' /\ ListOwed'
  <1>1. PureTexts'
    BY DEF Careful, PureTexts, PureList, Pure, server
  <1>2. OneThing'
    BY DEF Careful, OneThing
  <1>3. ListOwed'
    BY DEF Careful, ListOwed, ListWith, server
  <1>4. QED
    BY <1>1, <1>2, <1>3

\* Something is written in the episode on the screen, or a dialog or the voice input
\* is opened, goes on or ends there.
LEMMA HereC ==
    ASSUME Careful, calls = {}, e # None, e' \in Shown, e'.ep = e.ep, Pure(e.ep, e'.text),
           voice' # None => /\ panel' = None /\ diff' = None
                            /\ voice'.base.ep = e.ep /\ Pure(e.ep, voice'.base.text) /\ Pure(e.ep, voice'.heard)
                            /\ Typed(e'.text) \subseteq voice'.base.text \cup voice'.heard,
           diff' # None => Pure(e.ep, diff'.before) /\ Pure(e.ep, diff'.after),
           panel' # None => panel'.ep = e.ep /\ Pure(e.ep, panel'.checked) /\ Pure(e.ep, panel'.working),
           ai' \in {ai, None},
           UNCHANGED <<mix, server, mounted, es, calls, runs>>
    PROVE  PureTexts' /\ OneThing' /\ ListOwed'
  <1>1. e' # None
    BY NoneAssumption
  <1>2. PureTexts'
    <2>1. PureList(stored') /\ PureList(es') /\ \A k \in Eps : \A t \in history'[k] : Pure(k, t)
      BY DEF Careful, PureTexts, PureList, Pure, server
    <2>2. ai' # None => ai'.run \in DOMAIN runs' /\ Pure(runs'[ai'.run].ep, ai'.text)
      BY DEF Careful, PureTexts
    <2>3. QED
      BY <1>1, <2>1, <2>2 DEF PureTexts
  <1>3. OneThing'
    BY <1>1 DEF Careful, OneThing
  <1>4. ListOwed'
    BY DEF Careful, ListOwed, server
  <1>5. QED
    BY <1>2, <1>3, <1>4

\* A stream starts for the episode on the screen, is aborted or ends; the screen may go.
LEMMA StreamC ==
    ASSUME Careful, DOMAIN runs \subseteq DOMAIN runs', \A r \in DOMAIN runs : runs'[r].ep = runs[r].ep,
           \A r \in DOMAIN runs' : runs'[r].state = "live" =>
               \/ r \in DOMAIN runs /\ runs[r].state = "live"
               \/ calls = {} /\ e # None /\ runs'[r].ep = e.ep,
           ai' \in {ai, None}, panel' \in {panel, None}, mounted' => mounted,
           UNCHANGED <<mix, server, es, e, calls, diff, voice>>
    PROVE  PureTexts' /\ OneThing' /\ ListOwed'
  <1>1. PureTexts'
    <2>1. PureList(stored') /\ PureList(es') /\ \A k \in Eps : \A t \in history'[k] : Pure(k, t)
      BY DEF Careful, PureTexts, server
    <2>2. ai' # None => ai'.run \in DOMAIN runs' /\ Pure(runs'[ai'.run].ep, ai'.text)
      BY DEF Careful, PureTexts
    <2>3. QED
      BY <2>1, <2>2 DEF Careful, PureTexts
  <1>2. OneThing'
    <2>1. \A r \in DOMAIN runs' : runs'[r].state = "live" => e' # None /\ runs'[r].ep = e'.ep
      BY DEF Careful, OneThing
    <2>2. ai' # None => ai'.run \in DOMAIN runs' /\ e' # None /\ runs'[ai'.run].ep = e'.ep
      BY DEF Careful, OneThing
    <2>3. \A c \in calls' : c.kind \notin Writing => ai' = None /\ \A r \in DOMAIN runs' : runs'[r].state # "live"
      BY DEF Careful, OneThing
    <2>4. QED
      BY <2>1, <2>2, <2>3 DEF Careful, OneThing
  <1>3. ListOwed'
    BY DEF Careful, ListOwed, ListWith, server
  <1>4. QED
    BY <1>1, <1>2, <1>3

\* Another text, another episode or another list comes to the screen, and nothing is
\* under way any more.
LEMMA ArriveC ==
    ASSUME Careful, calls' = {}, voice = None, diff = None, panel = None,
           e' = None \/ (e' \in Shown /\ Pure(e'.ep, e'.text) /\ e'.ep \in DOMAIN es'),
           \/ e # None /\ e' # None /\ e'.ep = e.ep
           \/ ai = None /\ \A r \in DOMAIN runs : runs[r].state # "live",
           PureList(es'), mix.fails \/ ~mounted \/ es' = stored,
           UNCHANGED <<mix, server, mounted, ai, runs, voice, diff, panel>>
    PROVE  PureTexts' /\ OneThing' /\ ListOwed'
  <1>1. PureTexts'
    BY DEF Careful, PureTexts, server
  <1>2. OneThing'
    BY DEF Careful, OneThing
  <1>3. ListOwed'
    BY DEF Careful, ListOwed, server
  <1>4. QED
    BY <1>1, <1>2, <1>3

\* A call is sent when none is in flight.
LEMMA AskC ==
    ASSUME Careful, calls = {}, voice = None, diff = None, panel = None,
           NEW c, IsCall(c), calls' = {c}, PureList(c.list), c.done = FALSE,
           c.kind \in Writing => /\ e # None /\ c.ep = e.ep /\ c.list = es /\ Pure(c.ep, c.text)
                                 /\ c.kind = "save" => c.text = e.text,
           c.kind \notin Writing => ai = None /\ \A r \in DOMAIN runs : runs[r].state # "live",
           UNCHANGED <<mix, server, mounted, es, e, ai, runs, voice, diff, panel>>
    PROVE  PureTexts' /\ OneThing' /\ ListOwed'
  <1>1. PureTexts'
    <2>1. PureList(stored') /\ PureList(es') /\ \A k \in Eps : \A t \in history'[k] : Pure(k, t)
      BY DEF Careful, PureTexts, server
    <2>2. \A b \in calls' : PureList(b.list) /\ (b.kind \in Writing => Pure(b.ep, b.text))
      OBVIOUS
    <2>3. QED
      BY <2>1, <2>2 DEF Careful, PureTexts
  <1>2. OneThing'
    BY DEF Careful, OneThing, Typed, Writing
  <1>3. ListOwed'
    <2>1. ~mix.fails /\ mounted => es = stored
      BY DEF Careful, ListOwed
    <2>2. QED
      BY <2>1 DEF ListOwed, server, Writing
  <1>4. QED
    BY <1>1, <1>2, <1>3

LEMMA EditC ==
    ASSUME Careful, Edit
    PROVE  PureTexts' /\ OneThing' /\ ListOwed'
  <1> USE DEF Careful
  <1>1. TInv /\ mix.careful
    OBVIOUS
  <1>2. e # None => e \in Shown /\ Pure(e.ep, e.text)
    BY Unfold DEF PureTexts
  <1>3. CASE Type
    <2> DEFINE x == [e EXCEPT !.text = e.text \cup {ThePiece("typed", e.ep, written)}]
    <2>1. /\ calls = {} /\ voice = None /\ diff = None /\ panel = None /\ e # None /\ Show(x)
          /\ UNCHANGED <<mix, server, mounted, es, calls, diff, voice, ai, runs>>
      BY <1>3, CarefulMay DEF Type, stream
    <2>2. x \in Shown /\ x.ep = e.ep /\ Pure(e.ep, x.text)
      <3>1. x \in Shown /\ x.ep = e.ep /\ x.text = e.text \cup {ThePiece("typed", e.ep, written)}
        BY <2>1, Unfold, MixTyped, PieceTyped DEF Shown, Text
      <3>2. Pure(e.ep, {ThePiece("typed", e.ep, written)})
        BY PurePieces
      <3>3. QED
        BY <1>2, <2>1, <3>1, <3>2, PureUnion
    <2> HIDE DEF x
    <2>3. e' = x /\ panel' = None
      BY <2>1, ShowHere
    <2>4. QED
      BY <2>1, <2>2, <2>3, HereC
  <1>4. ASSUME NEW k \in Eps, Select(k) PROVE PureTexts' /\ OneThing' /\ ListOwed'
    <2> DEFINE x == [ep |-> k, text |-> es[k]]
    <2>1. /\ calls = {} /\ voice = None /\ diff = None /\ panel = None /\ mounted /\ ai = None
          /\ k \in DOMAIN es /\ Show(x) /\ \A r \in DOMAIN runs : runs[r].state # "live"
          /\ UNCHANGED <<mix, server, mounted, es, calls, diff, voice, ai, runs>>
      BY <1>4, CarefulMay DEF Select, stream
    <2>2. x \in Shown /\ Pure(x.ep, x.text) /\ x.ep \in DOMAIN es
      BY <2>1, Unfold DEF PureTexts, PureList, IsList, Shown
    <2> HIDE DEF x
    <2>3. e' = x /\ panel' = None
      BY <2>1, ShowHere
    <2>4. PureList(es') /\ (mix.fails \/ ~mounted \/ es' = stored)
      BY <2>1 DEF PureTexts, ListOwed
    <2>5. QED
      BY <2>1, <2>2, <2>3, <2>4, ArriveC
  <1>5. CASE VoiceStart
    <2>1. /\ calls = {} /\ diff = None /\ panel = None /\ e # None
          /\ voice' = [base |-> e, heard |-> {}, on |-> TRUE]
          /\ UNCHANGED <<mix, server, mounted, es, e, calls, diff, panel, ai, runs>>
      BY <1>5, CarefulMay DEF VoiceStart, stream, check
    <2>2. Pure(e.ep, {}) /\ Typed(e.text) \subseteq e.text
      BY PurePieces DEF Typed
    <2>3. QED
      BY <1>2, <2>1, <2>2, HereC
  <1>6. CASE VoiceStop \/ VoiceResult \/ VoiceEnd
    <2>1. /\ voice # None /\ voice \in Recognition /\ voice.base \in Shown /\ calls = {} /\ diff = None /\ panel = None
          /\ e # None /\ voice.base.ep = e.ep /\ Pure(e.ep, voice.base.text) /\ Pure(e.ep, voice.heard)
          /\ Typed(e.text) \subseteq voice.base.text \cup voice.heard
      BY <1>6, Unfold DEF VoiceStop, VoiceResult, VoiceEnd, TypeOK, Recognition, OneThing, PureTexts
    <2>2. CASE VoiceStop \/ VoiceEnd
      <3>1. UNCHANGED <<mix, server, mounted, es, e, calls, diff, panel, ai, runs>>
        BY <2>2 DEF VoiceStop, VoiceEnd, stream, check
      <3>2. voice' = None \/ (voice'.base = voice.base /\ voice'.heard = voice.heard)
        BY <2>1, <2>2 DEF VoiceStop, VoiceEnd, Recognition
      <3>3. QED
        BY <1>2, <2>1, <3>1, <3>2, HereC
    <2>3. CASE VoiceResult
      <3> DEFINE heard == voice.heard \cup {ThePiece("typed", voice.base.ep, written)}
                 x == [voice.base EXCEPT !.text = voice.base.text \cup heard]
      <3>1. /\ voice' = [voice EXCEPT !.heard = heard]
            /\ IF mounted THEN Show(x) ELSE UNCHANGED <<e, check>>
            /\ UNCHANGED <<mix, server, mounted, es, calls, diff, ai, runs>>
        BY <2>3 DEF VoiceResult, stream
      <3>2. heard \in Text /\ Pure(e.ep, heard) /\ voice.heard \subseteq heard
        <4>1. {ThePiece("typed", voice.base.ep, written)} \in Text
          BY <2>1, Unfold, MixTyped, PieceTyped DEF Shown
        <4>2. Pure(e.ep, {ThePiece("typed", voice.base.ep, written)})
          BY <2>1, PurePieces
        <4>3. QED
          BY <2>1, <4>1, <4>2, PureUnion DEF Text, Recognition
      <3> HIDE DEF heard
      <3>3. voice'.base = voice.base /\ voice'.heard = heard
        BY <2>1, <3>1 DEF Recognition
      <3>4. x \in Shown /\ x.ep = e.ep /\ x.text = voice.base.text \cup heard
        BY <2>1, <3>2 DEF Shown, Text
      <3>5. Pure(e.ep, x.text) /\ Typed(x.text) \subseteq voice.base.text \cup heard
        BY <2>1, <3>2, <3>4, PureUnion DEF Typed
      <3> HIDE DEF x
      <3>6. panel' = None /\ (e' = x \/ e' = e)
        BY <2>1, <3>1, ShowHere DEF check
      <3>7. e' \in Shown /\ e'.ep = e.ep /\ Pure(e.ep, e'.text) /\ Typed(e'.text) \subseteq voice.base.text \cup heard
        BY <1>2, <2>1, <3>2, <3>4, <3>5, <3>6
      <3>8. QED
        BY <2>1, <3>1, <3>2, <3>3, <3>6, <3>7, HereC
    <2>4. QED
      BY <1>6, <2>2, <2>3
  <1>7. QED
    BY <1>3, <1>4, <1>5, <1>6 DEF Edit

LEMMA WriteAskC ==
    ASSUME Careful, NEW op, May(op), e # None, NEW kind \in Writing, NEW text \in Text, Pure(e.ep, text),
           Started(WriteCall(kind, text)), kind = "save" => text = e.text,
           UNCHANGED <<mix, server, mounted, es, e, written, stream, diff, check, voice>>
    PROVE  PureTexts' /\ OneThing' /\ ListOwed'
  <1> DEFINE c == WriteCall(kind, text)
  <1>1. TInv /\ calls = {} /\ voice = None /\ diff = None /\ panel = None
    BY CarefulMay DEF Careful
  <1>2. /\ IsCall(c) /\ c.kind = kind /\ c.ep = e.ep /\ c.text = text /\ c.list = es /\ c.done = FALSE
    BY <1>1, WriteCallTyped
  <1>3. calls' = calls \cup {c}
    BY DEF Started
  <1> HIDE DEF c
  <1>4. PureList(c.list)
    BY <1>2 DEF Careful, PureTexts
  <1>5. calls' = {c}
    BY <1>1, <1>3
  <1>6. QED
    BY <1>1, <1>2, <1>4, <1>5, AskC DEF stream, check

LEMMA AskingC ==
    ASSUME Careful, Ask
    PROVE  PureTexts' /\ OneThing' /\ ListOwed'
  <1>1. TInv /\ mix.careful /\ (e # None => e.ep \in Eps /\ e.text \in Text /\ Pure(e.ep, e.text))
    BY Unfold DEF Careful, PureTexts
  <1>2. CASE Save
    BY <1>1, <1>2, WriteAskC DEF Save, Saved, Writing
  <1>3. CASE Restore
    <2>1. e # None /\ May("restore") /\ UNCHANGED <<mix, server, mounted, es, e, written, stream, diff, check, voice>>
      BY <1>3 DEF Restore
    <2>2. PICK version \in history[e.ep] : Started(WriteCall("restore", version))
      BY <1>3 DEF Restore
    <2>3. version \in Text
      BY <1>1, <2>1, <2>2, Unfold DEF TypeOK
    <2>4. Pure(e.ep, version)
      BY <1>1, <2>1, <2>2 DEF Careful, PureTexts
    <2>5. QED
      BY <2>1, <2>2, <2>3, <2>4, WriteAskC DEF Writing
  <1>4. CASE DocxImport
    <2>1. /\ e # None /\ May("docx") /\ UNCHANGED <<mix, server, mounted, es, e, written, stream, diff, check, voice>>
          /\ Started(WriteCall("docx", {ThePiece("word", e.ep, 0)}))
      BY <1>4 DEF DocxImport
    <2>2. {ThePiece("word", e.ep, 0)} \in Text /\ Pure(e.ep, {ThePiece("word", e.ep, 0)})
      BY <1>1, <2>1, PieceTyped, PurePieces
    <2>3. QED
      BY <2>1, <2>2, WriteAskC DEF Writing
  <1>5. CASE CreateArticle
    <2> DEFINE c == [Load EXCEPT !.kind = "create"]
    <2>1. /\ calls = {} /\ voice = None /\ diff = None /\ panel = None /\ ai = None
          /\ \A r \in DOMAIN runs : runs[r].state # "live"
      BY <1>1, <1>5, CarefulMay DEF CreateArticle
    <2>2. calls' = calls \cup {c} /\ UNCHANGED <<mix, server, mounted, es, e, stream, diff, check, voice>>
      BY <1>5 DEF CreateArticle, Started
    <2>3. IsCall(c) /\ c.kind \notin Writing /\ c.done = FALSE /\ c.list = Nothing
      BY NothingIsList DEF Load, IsCall, Other, Writing
    <2> HIDE DEF c
    <2>4. PureList(c.list) /\ calls' = {c}
      BY <2>1, <2>2, <2>3, NothingIsList DEF PureList
    <2>5. QED
      BY <2>1, <2>2, <2>3, <2>4, AskC DEF stream, check
  <1>6. QED
    BY <1>2, <1>3, <1>4, <1>5 DEF Ask

LEMMA DialogC ==
    ASSUME Careful, Dialogs
    PROVE  PureTexts' /\ OneThing' /\ ListOwed'
  <1>1. TInv /\ mix.careful /\ (e # None => e \in Shown /\ Pure(e.ep, e.text))
    BY Unfold DEF Careful, PureTexts
  <1>2. /\ voice # None \/ panel # None \/ diff # None => calls = {}
        /\ voice = None \/ (panel = None /\ diff = None)
        /\ panel # None => panel.ep = e.ep /\ Pure(e.ep, panel.checked) /\ Pure(e.ep, panel.working)
        /\ diff # None => e # None /\ Pure(e.ep, diff.before) /\ Pure(e.ep, diff.after)
        /\ ai # None => e # None /\ Pure(e.ep, ai.text)
    BY <1>1, Unfold DEF Careful, OneThing, PureTexts
  <1>3. CASE AiRun
    <2>1. /\ calls = {} /\ ai' = None
          /\ UNCHANGED <<mix, server, mounted, es, e, calls, diff, panel, voice>>
      BY <1>1, <1>3, CarefulMay DEF AiRun, check
    <2>2. \A r \in DOMAIN runs' : runs'[r].state = "live" => e # None /\ runs'[r].ep = e.ep
      <3>1. ASSUME NEW r \in 1..Len(runs) PROVE runs'[r].state # "live"
        <4>1. runs[r].state # "live"
          BY <1>1, <1>3, <3>1, CarefulMay, AiRunSteps DEF AiRun
        <4>2. QED
          BY <1>1, <1>3, <4>1, AiRunSteps
      <3>2. e # None /\ Len(runs) \in Nat /\ DOMAIN runs' = 1..(Len(runs) + 1)
            /\ runs'[Len(runs) + 1] = [ep |-> e.ep, state |-> "live"]
        BY <1>1, <1>3, AiRunSteps
      <3>3. ASSUME NEW r \in DOMAIN runs' PROVE r \in 1..Len(runs) \/ r = Len(runs) + 1
        BY <3>2
      <3>4. QED
        BY <3>1, <3>2, <3>3
    <2>3. DOMAIN runs \subseteq DOMAIN runs' /\ \A r \in DOMAIN runs : runs'[r].ep = runs[r].ep
      <3>1. Len(runs) \in Nat /\ DOMAIN runs = 1..Len(runs) /\ DOMAIN runs' = 1..(Len(runs) + 1)
        BY <1>1, <1>3, AiRunSteps
      <3>2. 1..Len(runs) \subseteq 1..(Len(runs) + 1)
        BY <3>1
      <3>3. QED
        BY <1>1, <1>3, <3>1, <3>2, AiRunSteps
    <2>4. QED
      BY <2>1, <2>2, <2>3, StreamC
  <1>4. CASE Cancel
    <2>1. /\ DOMAIN runs' = DOMAIN runs /\ ai' = ai /\ mounted' = mounted
          /\ \A r \in DOMAIN runs : runs'[r].ep = runs[r].ep /\ (runs'[r].state = "live" => runs[r].state = "live")
      BY <1>1, <1>4, AbortSteps
    <2>2. UNCHANGED <<mix, server, es, e, calls, diff, voice, panel>>
      BY <1>4 DEF Cancel, check
    <2>3. QED
      BY <2>1, <2>2, StreamC
  <1>5. CASE Adopt
    <2> DEFINE x == [e EXCEPT !.text = e.text \cup ai.text]
    <2>1. /\ calls = {} /\ voice = None /\ e # None /\ ai # None /\ Show(x) /\ ai' = None
          /\ UNCHANGED <<mix, server, mounted, es, calls, runs, diff, voice>>
      BY <1>1, <1>5 DEF Adopt, MayAdopt
    <2>2. x \in Shown /\ x.ep = e.ep /\ x.text = e.text \cup ai.text
      BY <1>1, <2>1, Unfold DEF TypeOK, Result, Shown, Text
    <2>3. Pure(e.ep, x.text)
      BY <1>1, <1>2, <2>1, <2>2, PureUnion
    <2> HIDE DEF x
    <2>4. e' = x /\ panel' = panel
      BY <1>1, <2>1, <2>2, Unfold, ShowHere
    <2>5. QED
      BY <1>2, <2>1, <2>2, <2>3, <2>4, HereC
  <1>6. CASE OpenDiff
    <2>1. /\ calls = {} /\ voice = None /\ e # None /\ ai # None
          /\ diff' = [before |-> e.text, after |-> ai.text]
          /\ UNCHANGED <<mix, server, mounted, es, e, calls, runs, ai, panel, voice>>
      BY <1>1, <1>6 DEF OpenDiff, MayAdopt, stream, check
    <2>2. QED
      BY <1>1, <1>2, <2>1, HereC
  <1>7. CASE CloseDiff
    <2>1. /\ diff # None /\ diff' = None /\ UNCHANGED <<mix, server, mounted, es, e, calls, runs, ai, panel, voice>>
      BY <1>7 DEF CloseDiff, stream, check
    <2>2. QED
      BY <1>1, <1>2, <2>1, HereC
  <1>8. CASE ApplyDiff
    <2>1. /\ diff # None /\ diff' = None /\ ai' = None /\ e # None
          /\ UNCHANGED <<mix, server, mounted, es, calls, runs, voice>>
      BY <1>8 DEF ApplyDiff
    <2>2. PICK accepted \in SUBSET (diff.after \ diff.before) :
              Show([e EXCEPT !.text = (diff.before \cap diff.after) \cup accepted])
      BY <1>8 DEF ApplyDiff
    <2> DEFINE new == (diff.before \cap diff.after) \cup accepted
               x == [e EXCEPT !.text = new]
    <2>3. new \in Text /\ Pure(e.ep, new)
      <3>1. diff \in Comparison
        BY <1>1, <2>1, Unfold DEF TypeOK
      <3>2. new \subseteq diff.after
        OBVIOUS
      <3>3. QED
        BY <1>2, <2>1, <3>1, <3>2, PureSubset DEF Comparison, Text
    <2>4. Show(x)
      BY <2>2
    <2> HIDE DEF new
    <2>5. x \in Shown /\ x.ep = e.ep /\ x.text = new
      BY <1>1, <2>1, <2>3 DEF Shown
    <2> HIDE DEF x
    <2>6. e' = x /\ panel' = panel
      BY <1>1, <2>4, <2>5, Unfold, ShowHere
    <2>7. QED
      BY <1>2, <2>1, <2>3, <2>5, <2>6, HereC
  <1>9. CASE OpenPanel
    <2>1. /\ calls = {} /\ voice = None /\ diff = None /\ e # None
          /\ panel'.ep = e.ep /\ panel'.checked = e.text /\ panel'.working = e.text
          /\ UNCHANGED <<mix, server, mounted, es, e, calls, runs, ai, diff, voice>>
      BY <1>1, <1>9, CarefulMay DEF OpenPanel, stream
    <2>2. QED
      BY <1>1, <2>1, HereC
  <1>10. CASE ClosePanel
    <2>1. /\ panel # None /\ panel' = None /\ e # None
          /\ UNCHANGED <<mix, server, mounted, es, e, calls, runs, ai, diff, voice>>
      BY <1>1, <1>10, Unfold DEF ClosePanel, Unmounted, stream
    <2>2. QED
      BY <1>1, <1>2, <2>1, HereC
  <1>11. CASE Review
    <2>1. /\ panel # None /\ e # None /\ calls = {} /\ voice = None
          /\ UNCHANGED <<mix, server, mounted, es, calls, runs, ai, diff, voice>>
      BY <1>2, <1>11 DEF Review, stream
    <2>2. PICK working \in Text :
              /\ \/ working = panel.working
                 \/ \E p \in panel.checked \cap panel.working :
                       working = (panel.working \ {p}) \cup {ThePiece("fix", p.ep, 0)}
              /\ \/ e' = [e EXCEPT !.text = working] /\ e' \in Shown /\ e'.ep = e.ep /\ Unmounted
                 \/ /\ panel' \in Panel /\ panel'.ep = panel.ep /\ panel'.gen = panel.gen
                    /\ panel'.checked = panel.checked /\ panel'.working = working
                    /\ UNCHANGED <<e, checks>>
      BY <1>1, <1>11, ReviewSteps
    <2>3. Pure(e.ep, working)
      <3>1. CASE working = panel.working
        BY <1>2, <2>1, <3>1
      <3>2. ASSUME NEW p, working = (panel.working \ {p}) \cup {ThePiece("fix", p.ep, 0)} PROVE Pure(e.ep, working)
        <4>1. Pure(e.ep, panel.working \ {p})
          BY <1>2, <2>1, PureSubset
        <4>2. Pure(e.ep, {ThePiece("fix", p.ep, 0)})
          BY PurePieces
        <4>3. QED
          BY <3>2, <4>1, <4>2, PureUnion
      <3>3. QED
        BY <2>2, <3>1, <3>2
    <2>4. CASE e' = [e EXCEPT !.text = working] /\ e' \in Shown /\ e'.ep = e.ep /\ Unmounted
      <3>1. panel' = None /\ e'.text = working
        BY <1>1, <2>1, <2>4 DEF Unmounted, Shown
      <3>2. QED
        BY <1>2, <2>1, <2>3, <2>4, <3>1, HereC
    <2>5. CASE /\ panel' \in Panel /\ panel'.ep = panel.ep
               /\ panel'.checked = panel.checked /\ panel'.working = working /\ UNCHANGED <<e, checks>>
      BY <1>1, <1>2, <2>1, <2>3, <2>5, HereC
    <2>6. QED
      BY <2>2, <2>4, <2>5
  <1>12. QED
    BY <1>3, <1>4, <1>5, <1>6, <1>7, <1>8, <1>9, <1>10, <1>11 DEF Dialogs

LEMMA LeaveC ==
    ASSUME Careful, Leave
    PROVE  PureTexts' /\ OneThing' /\ ListOwed'
  <1>1. TInv
    BY DEF Careful
  <1>2. /\ DOMAIN runs' = DOMAIN runs /\ ai' = ai
        /\ \A r \in DOMAIN runs : runs'[r].ep = runs[r].ep /\ (runs'[r].state = "live" => runs[r].state = "live")
    BY <1>1, AbortSteps
  <1>3. /\ mounted' = FALSE /\ panel' = None
        /\ UNCHANGED <<mix, server, es, e, calls, diff, voice>>
    BY DEF Leave, Unmounted
  <1>4. QED
    BY <1>2, <1>3, StreamC

\* The only call in flight, and what is not there while it is.
LEMMA OneCall ==
    ASSUME Careful, NEW c \in calls
    PROVE  /\ calls = {c} /\ voice = None /\ diff = None /\ panel = None
           /\ IsCall(c) /\ PureList(c.list) /\ TInv
           /\ c.kind \in Writing => /\ e # None /\ c.ep = e.ep /\ c.ep \in DOMAIN c.list /\ c.ep \in DOMAIN stored
                                    /\ Pure(c.ep, c.text)
           /\ c.kind \notin Writing => ai = None /\ \A r \in DOMAIN runs : runs[r].state # "live"
  <1>1. calls # {} /\ calls = {c}
    BY DEF Careful, OneThing
  <1>2. QED
    BY <1>1, Unfold DEF Careful, OneThing, PureTexts, Known

LEMMA ServeC ==
    ASSUME Careful, NEW c \in calls, Serve(c)
    PROVE  PureTexts' /\ OneThing' /\ ListOwed'
  <1>1. /\ calls = {c} /\ voice = None /\ diff = None /\ panel = None
        /\ IsCall(c) /\ PureList(c.list) /\ TInv
        /\ c.kind \in Writing => /\ e # None /\ c.ep = e.ep /\ c.ep \in DOMAIN c.list /\ c.ep \in DOMAIN stored
                                 /\ Pure(c.ep, c.text)
        /\ c.kind \notin Writing => ai = None /\ \A r \in DOMAIN runs : runs[r].state # "live"
    BY OneCall
  <1>2. UNCHANGED <<mix, mounted, es, e, stream, diff, check, voice>> /\ c.done = FALSE
    <2>1. ~c.done /\ UNCHANGED <<mix, mounted, es, e, stream, diff, check, voice>>
      BY DEF Serve
    <2>2. c.done \in BOOLEAN
      BY <1>1 DEF IsCall, Write, Other
    <2>3. QED
      BY <2>1, <2>2
  <1>3. PureList(stored) /\ PureList(es) /\ IsList(stored) /\ history \in [Eps -> SUBSET Text]
        /\ \A k \in Eps : \A t \in history[k] : Pure(k, t)
    BY <1>1, Unfold DEF Careful, PureTexts, TypeOK
  <1> DEFINE d == [c EXCEPT !.done = TRUE]
             l == [c EXCEPT !.done = TRUE, !.list = stored]
  <1>4. /\ IsCall(d) /\ d.kind = c.kind /\ d.list = c.list /\ d.done = TRUE
        /\ c.kind \in Writing => d.ep = c.ep /\ d.text = c.text
    BY <1>1, ServedTyped
  <1>5. c.kind = "load" => IsCall(l) /\ l.kind = "load" /\ l.list = stored /\ l.done = TRUE
    BY <1>1, <1>3, ListedTyped
  <1>6. Done(c) => calls' = {d}
    BY <1>1 DEF Done
  <1>7. calls' = (calls \ {c}) \cup {l} => calls' = {l}
    BY <1>1
  <1> HIDE DEF d, l
  <1>8. ASSUME NEW b, calls' = {b}, b.kind = c.kind, PureList(b.list), PureList(stored'),
               \A k \in Eps : \A t \in history'[k] : Pure(k, t),
               c.kind \in Writing => b.ep = c.ep /\ b.text = c.text /\ b.list = c.list
        PROVE  PureTexts' /\ OneThing'
    <2>1. PureTexts'
      <3>1. \A x \in calls' : PureList(x.list) /\ (x.kind \in Writing => Pure(x.ep, x.text))
        BY <1>1, <1>8
      <3>2. PureList(es')
        BY <1>2, <1>3
      <3>3. QED
        BY <1>2, <1>8, <3>1, <3>2 DEF Careful, PureTexts, stream, check
    <2>2. OneThing'
      <3>1. c.kind = "save" => Typed(e.text) \subseteq c.text
        BY DEF Careful, OneThing
      <3>2. /\ voice' = None /\ panel' = None /\ diff' = None /\ ai' = ai /\ runs' = runs /\ e' = e /\ es' = es
        BY <1>1, <1>2 DEF stream, check
      <3>3. /\ \A r \in DOMAIN runs : runs[r].state = "live" => e # None /\ runs[r].ep = e.ep
            /\ ai # None => ai.run \in DOMAIN runs /\ e # None /\ runs[ai.run].ep = e.ep
            /\ e # None => e.ep \in DOMAIN es
        BY DEF Careful, OneThing
      <3>4. QED
        BY <1>1, <1>8, <3>1, <3>2, <3>3 DEF OneThing, Writing
    <2>3. QED
      BY <2>1, <2>2
  <1>9. CASE /\ c.kind \in Writing /\ c.ep \in DOMAIN stored /\ c.text \in Text /\ Done(c)
             /\ stored' = [stored EXCEPT ![c.ep] = c.text]
             /\ history' = (IF KeepsRevision(c)
                            THEN [history EXCEPT ![c.ep] = history[c.ep] \cup {stored[c.ep]}] ELSE history)
    <2>1. PureList(stored')
      BY <1>1, <1>3, <1>9 DEF PureList
    <2>2. \A k \in Eps : \A t \in history'[k] : Pure(k, t)
      <3>1. c.ep \in Eps /\ Pure(c.ep, stored[c.ep])
        BY <1>3, <1>9 DEF PureList, IsList
      <3>2. ASSUME NEW k \in Eps, NEW t \in history'[k] PROVE t \in history[k] \/ (k = c.ep /\ t = stored[c.ep])
        BY <1>3, <1>9, <3>1, <3>2
      <3>3. QED
        BY <1>3, <3>1, <3>2
    <2>3. PureTexts' /\ OneThing'
      BY <1>1, <1>4, <1>6, <1>8, <1>9, <2>1, <2>2
    <2>4. ListOwed'
      <3>1. ~mix.fails /\ mounted => stored = c.list
        BY <1>2, <1>9 DEF Careful, ListOwed
      <3>2. stored = c.list => stored' = [k \in DOMAIN d.list |-> IF k = d.ep THEN d.text ELSE d.list[k]]
        BY <1>3, <1>4, <1>9 DEF IsList
      <3>3. stored = c.list => stored' = ListWith(d)
        BY <3>2 DEF ListWith
      <3>4. d.done /\ d.kind # "load"
        BY <1>4, <1>9 DEF Writing
      <3>5. QED
        BY <1>2, <1>6, <1>9, <3>1, <3>3, <3>4 DEF ListOwed, ListWith
    <2>5. QED
      BY <2>3, <2>4
  <1>10. CASE /\ c.kind = "create" /\ Done(c) /\ history' = history
              /\ \E k \in Eps \ DOMAIN stored :
                    stored' = [j \in DOMAIN stored \cup {k} |-> IF j = k THEN {} ELSE stored[j]]
    <2>1. PureList(stored')
      BY <1>3, <1>10, PurePieces DEF PureList
    <2>2. PureTexts' /\ OneThing'
      BY <1>1, <1>3, <1>4, <1>6, <1>8, <1>10, <2>1 DEF Writing
    <2>3. ListOwed'
      <3>1. calls' = {d} /\ d.kind = "create"
        BY <1>4, <1>6, <1>10
      <3>2. QED
        BY <3>1 DEF ListOwed, Writing
    <2>4. QED
      BY <2>2, <2>3
  <1>11. CASE c.kind = "load" /\ UNCHANGED server /\ calls' = {l}
    <2>1. PureTexts' /\ OneThing'
      BY <1>1, <1>3, <1>5, <1>8, <1>11 DEF Writing, server
    <2>2. ListOwed'
      BY <1>5, <1>11 DEF ListOwed, Writing, server
    <2>3. QED
      BY <2>1, <2>2
  <1>12. QED
    BY <1>7, <1>1, <1>9, <1>10, <1>11, ServeSteps DEF l

\* The call is over, and brought nothing.
LEMMA GoneC ==
    ASSUME Careful, calls' = {}, mix.fails \/ ~mounted,
           UNCHANGED <<mix, server, mounted, es, e, ai, runs, voice, diff, panel>>
    PROVE  PureTexts' /\ OneThing' /\ ListOwed'
  <1>1. PureTexts'
    <2>1. PureList(stored') /\ PureList(es') /\ \A k \in Eps : \A t \in history'[k] : Pure(k, t)
      BY DEF Careful, PureTexts, server
    <2>2. QED
      BY <2>1 DEF Careful, PureTexts
  <1>2. OneThing'
    BY DEF Careful, OneThing
  <1>3. ListOwed'
    BY DEF ListOwed
  <1>4. QED
    BY <1>1, <1>2, <1>3

LEMMA AnswerC ==
    ASSUME Careful, NEW c \in calls, Answer(c)
    PROVE  PureTexts' /\ OneThing' /\ ListOwed'
  <1>1. /\ calls = {c} /\ voice = None /\ diff = None /\ panel = None
        /\ IsCall(c) /\ PureList(c.list) /\ TInv
        /\ c.kind \in Writing => /\ e # None /\ c.ep = e.ep /\ c.ep \in DOMAIN c.list /\ c.ep \in DOMAIN stored
                                 /\ Pure(c.ep, c.text)
        /\ c.kind \notin Writing => ai = None /\ \A r \in DOMAIN runs : runs[r].state # "live"
    BY OneCall
  <1>2. UNCHANGED <<mix, server, mounted, stream, diff, voice>> /\ c.done
    BY DEF Answer
  <1>3. CASE AnswerWrite(c)
    <2> DEFINE x == [ep |-> c.ep, text |-> c.text]
    <2>1. c.kind \in Writing /\ Show(x) /\ es' = ListWith(c) /\ calls' = {}
      BY <1>1, <1>3 DEF AnswerWrite, Writing
    <2>2. x \in Shown /\ Pure(x.ep, x.text) /\ x.ep \in DOMAIN ListWith(c) /\ x.ep = e.ep
      BY <1>1, <2>1, ListWithTyped DEF IsCall, Write, Other, Writing, Shown
    <2> HIDE DEF x
    <2>3. e' = x /\ panel' = None
      BY <1>1, <2>1, ShowHere
    <2>4. PureList(es')
      <3>1. \A k \in DOMAIN c.list : Pure(k, IF k = c.ep THEN c.text ELSE c.list[k])
        BY <1>1, <2>1 DEF PureList
      <3>2. QED
        BY <2>1, <3>1 DEF PureList, ListWith
    <2>5. mix.fails \/ ~mounted \/ es' = stored
      BY <1>2, <2>1 DEF Careful, ListOwed
    <2>6. e # None /\ e' # None
      BY <1>1, <2>1, <2>2, <2>3, NoneAssumption
    <2>7. QED
      BY <1>1, <1>2, <2>1, <2>2, <2>3, <2>4, <2>5, <2>6, ArriveC DEF stream
  <1>4. CASE AnswerLoad(c)
    <2>1. c.kind = "load" /\ es' = c.list /\ calls' = {}
      BY <1>1, <1>4 DEF AnswerLoad
    <2>2. panel' = None /\ (e' = None \/ (e' \in Shown /\ Pure(e'.ep, e'.text) /\ e'.ep \in DOMAIN es'))
      <3>1. CASE c.list = Nothing
        BY <1>1, <1>4, <3>1 DEF AnswerLoad, Unmounted
      <3>2. CASE c.list # Nothing
        <4> DEFINE x == [ep |-> FirstOf(c.list), text |-> c.list[FirstOf(c.list)]]
        <4>1. Show(x)
          BY <1>4, <3>2 DEF AnswerLoad
        <4>2. x.ep \in DOMAIN c.list /\ x \in Shown /\ x.text = c.list[x.ep]
          BY <1>1, <3>2, FirstOfIsListed DEF IsCall
        <4>3. Pure(x.ep, x.text)
          BY <1>1, <4>2 DEF PureList
        <4> HIDE DEF x
        <4>4. e' = x /\ panel' = None
          BY <1>1, <4>1, ShowHere
        <4>5. QED
          BY <2>1, <4>2, <4>3, <4>4
      <3>3. QED
        BY <3>1, <3>2
    <2>3. mix.fails \/ ~mounted \/ es' = stored
      BY <1>2, <2>1 DEF Careful, ListOwed
    <2>4. c.kind \notin Writing /\ PureList(es')
      BY <1>1, <2>1 DEF Writing
    <2>5. QED
      BY <1>1, <1>2, <2>1, <2>2, <2>3, <2>4, ArriveC DEF stream
  <1>5. CASE AnswerCreate(c)
    <2>1. c.kind \notin Writing /\ calls' = {Load} /\ UNCHANGED <<es, e, check>>
      BY <1>1, <1>5 DEF AnswerCreate, Writing
    <2>2. Load.list = Nothing /\ Load.kind \notin Writing /\ Load.done = FALSE
      BY DEF Load, Writing
    <2>3. PureList(Load.list)
      BY <2>2, NothingIsList DEF PureList
    <2>4. PureTexts'
      <3>1. \A b \in calls' : PureList(b.list) /\ (b.kind \in Writing => Pure(b.ep, b.text))
        BY <2>1, <2>2, <2>3
      <3>2. PureList(stored') /\ PureList(es') /\ \A k \in Eps : \A t \in history'[k] : Pure(k, t)
        BY <1>2, <2>1 DEF Careful, PureTexts, server
      <3>3. QED
        BY <1>2, <2>1, <3>1, <3>2 DEF Careful, PureTexts, stream, check
    <2>5. OneThing'
      <3>1. voice' = None /\ panel' = None /\ diff' = None /\ ai' = None /\ \A r \in DOMAIN runs' : runs'[r].state # "live"
        BY <1>1, <1>2, <2>1 DEF stream, check
      <3>2. e' # None => e'.ep \in DOMAIN es'
        BY <2>1 DEF Careful, OneThing
      <3>3. QED
        BY <2>1, <2>2, <3>1, <3>2 DEF OneThing, Writing
    <2>6. ListOwed'
      BY <2>1, <2>2 DEF ListOwed
    <2>7. QED
      BY <2>4, <2>5, <2>6
  <1>6. CASE ~mounted /\ calls' = calls \ {c} /\ UNCHANGED <<es, e, check>>
    BY <1>1, <1>2, <1>6, GoneC DEF stream, check
  <1>7. QED
    BY <1>3, <1>4, <1>5, <1>6 DEF Answer

LEMMA FailC ==
    ASSUME Careful, NEW c \in calls, Fail(c)
    PROVE  PureTexts' /\ OneThing' /\ ListOwed'
  <1>1. mix.fails /\ calls' = {} /\ UNCHANGED <<mix, server, mounted, es, e, ai, runs, diff, panel, voice>>
    BY OneCall DEF Fail, stream, check
  <1>2. QED
    BY <1>1, GoneC

LEMMA StreamStepC ==
    ASSUME Careful, NEW r \in DOMAIN runs, AiMessage(r) \/ AiOver(r)
    PROVE  PureTexts' /\ OneThing' /\ ListOwed'
  <1>1. TInv
    BY DEF Careful
  <1>2. CASE AiOver(r)
    <2>1. /\ DOMAIN runs' = DOMAIN runs /\ ai' = ai
          /\ \A q \in DOMAIN runs : runs'[q].ep = runs[q].ep /\ (runs'[q].state = "live" => runs[q].state = "live")
      BY <1>1, <1>2, AiOverSteps
    <2>2. UNCHANGED <<mix, server, mounted, es, e, calls, diff, voice, panel>>
      BY <1>2 DEF AiOver, check
    <2>3. QED
      BY <2>1, <2>2, StreamC
  <1>3. CASE AiMessage(r)
    <2>1. /\ runs[r].state = "live"
          /\ UNCHANGED <<mix, server, mounted, es, e, calls, runs, diff, voice, panel>>
      BY <1>3 DEF AiMessage, check
    <2>2. PICK repeated \in {{}, stored[runs[r].ep]} :
              ai' = [run |-> r, text |-> {ThePiece("ai", runs[r].ep, r)} \cup repeated]
      BY <1>3 DEF AiMessage
    <2>3. /\ e # None /\ runs[r].ep = e.ep /\ runs[r].ep \in DOMAIN stored
          /\ \A c \in calls : c.kind \in Writing
      BY <1>1, <2>1, Unfold DEF Careful, OneThing, Known
    <2>4. Pure(runs[r].ep, ai'.text) /\ ai'.run = r
      <3>1. Pure(runs[r].ep, {ThePiece("ai", runs[r].ep, r)})
        BY PurePieces
      <3>2. Pure(runs[r].ep, repeated)
        BY <2>2, <2>3, PurePieces DEF Careful, PureTexts, PureList
      <3>3. QED
        BY <2>2, <3>1, <3>2, PureUnion
    <2>5. PureTexts'
      <3>1. PureList(stored') /\ PureList(es') /\ \A k \in Eps : \A t \in history'[k] : Pure(k, t)
        BY <2>1 DEF Careful, PureTexts, server
      <3>2. QED
        BY <2>1, <2>4, <3>1 DEF Careful, PureTexts
    <2>6. OneThing'
      BY <2>1, <2>3, <2>4 DEF Careful, OneThing
    <2>7. ListOwed'
      BY <2>1 DEF Careful, ListOwed, ListWith, server
    <2>8. QED
      BY <2>5, <2>6, <2>7
  <1>4. QED
    BY <1>2, <1>3

LEMMA CheckC ==
    ASSUME Careful, NEW s \in checks, CheckOver(s)
    PROVE  PureTexts' /\ OneThing' /\ ListOwed'
  <1>1. UNCHANGED <<mix, server, mounted, es, e, calls, voice, ai, diff, runs>>
    BY DEF CheckOver, stream
  <1>2. CASE Dropped(s)
    <2>1. panel' = panel
      BY <1>2 DEF Dropped
    <2>2. QED
      BY <1>1, <2>1, StayC
  <1>3. CASE Corrected(s) \/ Retried(s) \/ Failed(s)
    <2>1. /\ panel # None /\ panel \in Panel /\ e # None /\ e \in Shown /\ panel.ep = e.ep
          /\ calls = {} /\ voice = None
      BY <1>3, Unfold DEF Corrected, Retried, Failed, Cancelled, Careful, OneThing
    <2>2. panel'.ep = panel.ep /\ panel'.checked = panel.checked /\ panel'.working = panel.working
      BY <1>3, <2>1 DEF Corrected, Retried, Failed, Panel
    <2>3. /\ Pure(e.ep, e.text) /\ Pure(e.ep, panel.checked) /\ Pure(e.ep, panel.working)
          /\ diff # None => Pure(e.ep, diff.before) /\ Pure(e.ep, diff.after)
      BY <2>1 DEF Careful, PureTexts
    <2>4. QED
      BY <1>1, <2>1, <2>2, <2>3, HereC
  <1>4. QED
    BY <1>2, <1>3 DEF CheckOver

LEMMA NextC == Careful /\ [Next]_vars => PureTexts' /\ OneThing' /\ ListOwed'
  <1>1. Careful /\ UNCHANGED vars => PureTexts' /\ OneThing' /\ ListOwed'
    BY StayC DEF vars, stream, check
  <1>2. QED
    BY <1>1, EditC, AskingC, DialogC, LeaveC, ServeC, AnswerC, FailC, StreamStepC, CheckC DEF Next, Network

LEMMA CareStep == TInv /\ Care /\ [Next]_vars => Care'
  <1>1. [Next]_vars => mix' = mix
    BY DEF Next, Edit, Type, Select, VoiceStart, VoiceStop, VoiceResult, VoiceEnd, Ask, Save, Saved, Restore,
           DocxImport, CreateArticle, Dialogs, AiRun, Cancel, Adopt, OpenDiff, CloseDiff, ApplyDiff, OpenPanel,
           ClosePanel, Review, Leave, Network, Serve, Answer, Fail, AiMessage, AiOver, CheckOver, vars
  <1>2. QED
    BY <1>1, NextC DEF Care, Careful

LEMMA CareInit == Init => Care
  <1> SUFFICES ASSUME Init PROVE PureTexts /\ OneThing /\ ListOwed
    BY DEF Care
  <1>1. /\ e = None /\ ai = None /\ diff = None /\ panel = None /\ voice = None /\ calls = {Load} /\ es = Nothing
        /\ runs = <<>> /\ DOMAIN runs = {}
    BY DEF Init
  <1>2. Load.list = Nothing /\ Load.kind \notin Writing /\ ~Load.done /\ DOMAIN Nothing = {}
    <2>1. Load.done = FALSE
      BY DEF Load
    <2>2. QED
      BY <2>1, NothingIsList DEF Load, Writing
  <1>3. PureTexts
    <2>1. PureList(stored)
      BY PurePieces DEF Init, PureList, Pure, Typed, ThePiece
    <2>2. \A k \in Eps : \A t \in history[k] : Pure(k, t)
      BY PurePieces DEF Init
    <2>3. QED
      BY <1>1, <1>2, <2>1, <2>2 DEF PureTexts, PureList
  <1>4. OneThing /\ ListOwed
    BY <1>1, <1>2 DEF OneThing, ListOwed, Writing
  <1>5. QED
    BY <1>3, <1>4

LEMMA CareAlways == Spec => [](TInv /\ Care)
  BY TInit, CareInit, NextT, CareStep, PTL DEF Spec

\* What a careful writer types into one episode never reaches another, neither in the
\* editor nor on the server, whatever the AI, the dialogs and the voice input add.
THEOREM TextsStayApart == Spec => []TypedStaysInItsEpisode
  <1>1. TInv /\ Care => TypedStaysInItsEpisode
    <2> SUFFICES ASSUME PureTexts PROVE TypedStaysInItsEpisode
      BY DEF Care, TypedStaysInItsEpisode
    <2>1. PureList(stored) /\ (e # None => Pure(e.ep, e.text))
      BY DEF PureTexts
    <2>2. QED
      BY <2>1 DEF PureList, Pure, TypedStaysInItsEpisode
  <1>2. QED
    BY <1>1, CareAlways, PTL

\* For a careful writer whose calls are answered, the list shows what the server has
\* whenever nothing is under way.
THEOREM ListFollows == Spec => []ListInStep
  <1>1. TInv /\ Care => ListInStep
    BY DEF Care, ListOwed, ListInStep, Settled
  <1>2. QED
    BY <1>1, CareAlways, PTL

\* What NothingTypedVanishes says of one step.
TypedRemains ==
    mix.careful /\ e # None /\ ~(Typed(e.text) \subseteq Typed(e'.text)) =>
        \/ e'.ep # e.ep
        \/ e'.text = es[e.ep] /\ calls' = calls
        \/ \E c \in calls \ calls' : Discards(c)
        \/ diff # diff'
        \/ panel # panel'

LEMMA RemainsStep == TInv /\ Care /\ [Next]_vars => TypedRemains
  <1> SUFFICES ASSUME TInv, Care, [Next]_vars, mix.careful, e # None,
                      ~(Typed(e.text) \subseteq Typed(e'.text)),
                      e'.ep = e.ep, calls' = calls => e'.text # es[e.ep],
                      \A c \in calls \ calls' : ~Discards(c), diff' = diff, panel' = panel
               PROVE  FALSE
    BY DEF TypedRemains
  <1>1. Careful /\ e \in Shown /\ e' # e
    BY Unfold DEF Careful, Care
  <1>2. CASE Edit
    <2>1. CASE Type
      <3>1. Show([e EXCEPT !.text = e.text \cup {ThePiece("typed", e.ep, written)}])
        BY <2>1 DEF Type
      <3>2. e' = [e EXCEPT !.text = e.text \cup {ThePiece("typed", e.ep, written)}]
        BY <3>1 DEF Show
      <3>3. QED
        BY <1>1, <3>2 DEF Shown, Typed
    <2>2. ASSUME NEW k \in Eps, Select(k) PROVE FALSE
      <3>1. e' = [ep |-> k, text |-> es[k]] /\ calls' = calls
        BY <2>2 DEF Select, Show
      <3>2. QED
        BY <3>1
    <2>3. CASE VoiceStart \/ VoiceStop \/ VoiceEnd
      BY <1>1, <2>3 DEF VoiceStart, VoiceStop, VoiceEnd
    <2>4. CASE VoiceResult
      <3> DEFINE heard == voice.heard \cup {ThePiece("typed", voice.base.ep, written)}
                 x == [voice.base EXCEPT !.text = voice.base.text \cup heard]
      <3>1. voice # None /\ (e' = x \/ e' = e)
        BY <2>4 DEF VoiceResult, Show
      <3>2. voice.base \in Shown /\ Typed(e.text) \subseteq voice.base.text \cup voice.heard
        BY <1>1, <3>1, Unfold DEF Careful, OneThing, TypeOK, Recognition
      <3>3. x.text = voice.base.text \cup heard
        BY <3>2 DEF Shown
      <3>4. Typed(e.text) \subseteq x.text
        BY <3>2, <3>3
      <3> HIDE DEF x, heard
      <3>5. Typed(e.text) \subseteq Typed(x.text)
        BY <3>4 DEF Typed
      <3>6. QED
        BY <1>1, <3>1, <3>5
    <2>5. QED
      BY <1>2, <2>1, <2>2, <2>3, <2>4 DEF Edit
  <1>3. ASSUME NEW c \in calls, Serve(c) \/ Answer(c) \/ Fail(c) PROVE FALSE
    <2>1. calls = {c} /\ IsCall(c)
      BY <1>1, OneCall
    <2>2. CASE AnswerWrite(c)
      <3>1. c \in calls \ calls' /\ e' = [ep |-> c.ep, text |-> c.text] /\ c.kind \in {"save", "restore", "docx"}
        BY <2>2 DEF AnswerWrite, Show
      <3>2. c.kind = "save"
        BY <3>1 DEF Discards
      <3>3. Typed(e.text) \subseteq c.text
        BY <1>1, <3>2 DEF Careful, OneThing
      <3>4. Typed(e.text) \subseteq Typed(c.text)
        BY <3>3 DEF Typed
      <3>5. QED
        BY <3>1, <3>4
    <2>3. CASE AnswerLoad(c)
      BY <2>3 DEF AnswerLoad, Discards
    <2>4. CASE ~AnswerWrite(c) /\ ~AnswerLoad(c)
      BY <1>1, <1>3, <2>4 DEF Serve, Answer, AnswerCreate, Fail
    <2>5. QED
      BY <2>2, <2>3, <2>4
  <1>4. CASE Dialogs
    <2>1. CASE Adopt
      <3>1. e' = [e EXCEPT !.text = e.text \cup ai.text]
        BY <2>1 DEF Adopt, Show
      <3>2. QED
        BY <1>1, <3>1 DEF Shown, Typed
    <2>2. CASE ApplyDiff
      BY <2>2 DEF ApplyDiff
    <2>3. CASE Review
      <3>1. Unmounted \/ e' = e
        BY <2>3 DEF Review
      <3>2. panel # None /\ (Unmounted => panel' = None)
        BY <2>3 DEF Review, Unmounted
      <3>3. QED
        BY <1>1, <3>1, <3>2
    <2>4. CASE AiRun \/ Cancel \/ OpenDiff \/ CloseDiff \/ OpenPanel \/ ClosePanel
      BY <1>1, <2>4 DEF AiRun, Cancel, OpenDiff, CloseDiff, OpenPanel, ClosePanel
    <2>5. QED
      BY <1>4, <2>1, <2>2, <2>3, <2>4 DEF Dialogs
  <1>5. CASE Ask \/ Leave
    BY <1>1, <1>5 DEF Ask, Save, Saved, Restore, DocxImport, CreateArticle, Leave
  <1>6. ASSUME NEW r \in DOMAIN runs, AiMessage(r) \/ AiOver(r) PROVE FALSE
    BY <1>1, <1>6 DEF AiMessage, AiOver
  <1>7. ASSUME NEW s \in checks, CheckOver(s) PROVE FALSE
    BY <1>1, <1>7 DEF CheckOver
  <1>8. CASE UNCHANGED vars
    BY <1>1, <1>8 DEF vars
  <1>9. QED
    BY <1>2, <1>3, <1>4, <1>5, <1>6, <1>7, <1>8 DEF Next, Network

\* What a careful writer has typed leaves the editor only by what he asked for, and no
\* late answer, stream or check takes it away.
THEOREM NothingIsLost == Spec => NothingTypedVanishes
  <1>1. TInv /\ Care /\ [Next]_vars => [TypedRemains]_vars
    BY RemainsStep
  <1>2. QED
    BY <1>1, CareAlways, PTL DEF Spec, NothingTypedVanishes, TypedRemains
=============================================================================
