------------------------- MODULE EpisodeStoreProofs -------------------------
(***************************************************************************)
(* Proofs about EpisodeStore, for any episodes, texts, requests and mixes: *)
(* the types, what is never lost from a history or brought back from the   *)
(* dead, and when a handler writes over the text it has read.              *)
(***************************************************************************)
EXTENDS EpisodeStore, SequenceTheorems, FiniteSetTheorems, WellFoundedInduction, TLAPS

\* A request as TypeOK has it.
Handler == [kind : AllKinds, stage : Stages, ep : Eps \cup {None},
            text : Texts \cup {None}, todo : SUBSET Eps]

-----------------------------------------------------------------------------
(***************************************************************************)
(* Data: revisions, and the order of a replace-all.                        *)
(***************************************************************************)

\* The next episode of a replace-all is one of those that are left.
LEMMA FirstIsMember ==
    ASSUME NEW S \in SUBSET Eps, S # {}
    PROVE  (CHOOSE x \in S : \A y \in S : x <= y) \in S
  <1>1. S \subseteq Nat
    BY EpsAssumption
  <1>2. PICK x \in S : \A y \in S : ~(<<y, x>> \in OpToRel(<, Nat))
    BY <1>1, NatLessThanWellFounded, WFMin
  <1>3. ASSUME NEW y \in S PROVE x <= y
    <2>1. x \in Nat /\ y \in Nat /\ <<y, x>> \in Nat \X Nat
      BY <1>1
    <2>2. ~(y < x)
      BY <1>2, <2>1 DEF OpToRel
    <2>3. QED
      BY <2>1, <2>2
  <1>4. QED
    BY <1>3

\* The revisions that snapshot_revision keeps, before it adds its own.
Kept(h) == IF Len(h) < RevCap THEN h ELSE SubSeq(h, Len(h) - RevCap + 2, Len(h))

LEMMA KeptTyped ==
    ASSUME NEW h \in Seq(Texts)
    PROVE  /\ Kept(h) \in Seq(Texts)
           /\ Len(Kept(h)) = IF Len(h) < RevCap THEN Len(h) ELSE RevCap - 1
           /\ \A i \in 1..Len(Kept(h)) : Kept(h)[i] = h[Len(h) - Len(Kept(h)) + i]
  <1>1. Len(h) \in Nat /\ RevCap \in Nat \ {0}
    BY LenProperties, CapAssumption
  <1>2. CASE Len(h) < RevCap
    BY <1>1, <1>2 DEF Kept
  <1>3. CASE ~(Len(h) < RevCap)
    <2> DEFINE m == Len(h) - RevCap + 2
    <2>1. m \in Int /\ m >= 2 /\ Len(h) - m + 1 = RevCap - 1 /\ m <= Len(h) + 1
      BY <1>1, <1>3
    <2>2. \A i \in m..Len(h) : h[i] \in Texts
      BY <1>1, <2>1, ElementOfSeq
    <2> HIDE DEF m
    <2>3. /\ SubSeq(h, m, Len(h)) \in Seq(Texts)
          /\ Len(SubSeq(h, m, Len(h))) = RevCap - 1
          /\ \A i \in 1..Len(h) - m + 1 : SubSeq(h, m, Len(h))[i] = h[m + i - 1]
      BY <1>1, <2>1, <2>2, SubSeqProperties
    <2>4. Kept(h) = SubSeq(h, m, Len(h))
      BY <1>3 DEF Kept, m
    <2>5. \A i \in 1..RevCap - 1 : m + i - 1 = Len(h) - (RevCap - 1) + i
      BY <1>1 DEF m
    <2>6. QED
      BY <1>3, <2>1, <2>3, <2>4, <2>5
  <1>4. QED
    BY <1>2, <1>3

\* What is kept is the end of what was there.
LEMMA KeptIsSuffix == ASSUME NEW h \in Seq(Texts) PROVE IsSuffix(Kept(h), h)
  <1> DEFINE k == Kept(h)
  <1>1. /\ Len(k) \in Nat /\ Len(h) \in Nat /\ RevCap \in Nat \ {0} /\ Len(k) <= Len(h)
        /\ k \in Seq(Texts) /\ \A i \in 1..Len(k) : k[i] = h[Len(h) - Len(k) + i]
    BY KeptTyped, LenProperties, CapAssumption
  <1> HIDE DEF k
  <1>2. ASSUME NEW s \in Seq(Texts)
        PROVE  /\ Reverse(s) \in Seq(Texts) /\ Len(Reverse(s)) = Len(s)
               /\ \A i \in 1..Len(s) : Reverse(s)[i] = s[Len(s) - i + 1]
    <2>1. Len(s) \in Nat
      BY LenProperties
    <2>2. Reverse(s) \in [1..Len(s) -> Texts]
      BY <2>1, ElementOfSeq DEF Reverse
    <2>3. QED
      BY <2>1, <2>2, SeqDef DEF Reverse
  <1> DEFINE rk == Reverse(k)
             rh == Reverse(h)
  <1>3. /\ rk \in Seq(Texts) /\ Len(rk) = Len(k) /\ rh \in Seq(Texts) /\ Len(rh) = Len(h)
        /\ \A i \in 1..Len(k) : rk[i] = rh[i]
    <2>1. /\ rk \in Seq(Texts) /\ Len(rk) = Len(k) /\ rh \in Seq(Texts) /\ Len(rh) = Len(h)
          /\ \A i \in 1..Len(k) : rk[i] = k[Len(k) - i + 1]
          /\ \A i \in 1..Len(h) : rh[i] = h[Len(h) - i + 1]
      BY <1>1, <1>2
    <2> HIDE DEF rk, rh
    <2>2. ASSUME NEW i \in 1..Len(k) PROVE rk[i] = rh[i]
      <3>1. i \in 1..Len(h) /\ Len(k) - i + 1 \in 1..Len(k)
        BY <1>1
      <3>2. Len(h) - Len(k) + (Len(k) - i + 1) = Len(h) - i + 1
        BY <1>1
      <3>3. k[Len(k) - i + 1] = h[Len(h) - Len(k) + (Len(k) - i + 1)]
        BY <1>1, <3>1
      <3>4. rk[i] = k[Len(k) - i + 1] /\ rh[i] = h[Len(h) - i + 1]
        BY <2>1, <2>2, <3>1
      <3>5. QED
        BY <3>2, <3>3, <3>4
    <2>3. QED
      BY <2>1, <2>2
  <1> HIDE DEF rk, rh
  <1>4. /\ SubSeq(rk, 1, Len(k)) \in Seq(Texts) /\ Len(SubSeq(rk, 1, Len(k))) = Len(k)
        /\ \A i \in 1..Len(k) : SubSeq(rk, 1, Len(k))[i] = rk[i]
    BY <1>1, <1>3, SubSeqProperties, ElementOfSeq
  <1>5. /\ SubSeq(rh, 1, Len(k)) \in Seq(Texts) /\ Len(SubSeq(rh, 1, Len(k))) = Len(k)
        /\ \A i \in 1..Len(k) : SubSeq(rh, 1, Len(k))[i] = rh[i]
    BY <1>1, <1>3, SubSeqProperties, ElementOfSeq
  <1>6. SubSeq(rk, 1, Len(k)) = SubSeq(rh, 1, Len(k))
    BY <1>3, <1>4, <1>5, SeqEqual
  <1>7. IsPrefix(rk, rh)
    BY <1>1, <1>3, <1>6 DEF IsPrefix
  <1>8. QED
    BY <1>7 DEF IsSuffix, rk, rh, k

\* snapshot_revision drops the oldest revision, and only when the cap is reached.
LEMMA PushKeeps ==
    ASSUME NEW h \in Seq(Texts), NEW e, NEW r, session[r][e] \in Texts
    PROVE  /\ PushRevision(h, e, r) \in Seq(Texts)
           /\ PushRevision(h, e, r) # <<>>
           /\ Len(PushRevision(h, e, r)) = IF Len(h) < RevCap THEN Len(h) + 1 ELSE RevCap
           /\ Front(PushRevision(h, e, r)) = Kept(h)
           /\ Last(PushRevision(h, e, r)) = session[r][e]
  <1> DEFINE k == Kept(h)
             new == Append(k, session[r][e])
  <1>1. PushRevision(h, e, r) = new
    BY DEF PushRevision, Kept
  <1>2. /\ k \in Seq(Texts) /\ Len(k) \in Nat /\ RevCap \in Nat \ {0}
        /\ Len(k) = IF Len(h) < RevCap THEN Len(h) ELSE RevCap - 1
    BY KeptTyped, LenProperties, CapAssumption
  <1> HIDE DEF k
  <1>3. /\ new \in Seq(Texts) /\ new # <<>> /\ Len(new) = Len(k) + 1
        /\ \A i \in 1..Len(k) : new[i] = k[i]
        /\ new[Len(k) + 1] = session[r][e]
    BY <1>2, AppendProperties
  <1> HIDE DEF new
  <1>4. /\ SubSeq(new, 1, Len(k)) \in Seq(Texts) /\ Len(SubSeq(new, 1, Len(k))) = Len(k)
        /\ \A i \in 1..Len(k) : SubSeq(new, 1, Len(k))[i] = new[i]
    BY <1>2, <1>3, SubSeqProperties, ElementOfSeq
  <1>5. SubSeq(new, 1, Len(k)) = k
    BY <1>2, <1>3, <1>4, SeqEqual
  <1>6. Front(new) = k
    BY <1>2, <1>3, <1>5 DEF Front
  <1>7. Last(new) = session[r][e]
    BY <1>3 DEF Last
  <1>8. QED
    BY <1>1, <1>2, <1>3, <1>6, <1>7 DEF k

-----------------------------------------------------------------------------
(***************************************************************************)
(* What every step of a request has in common.                             *)
(***************************************************************************)

Active(r) == call[r].stage # "idle"

\* A step of r leaves the other requests alone, and the loop too unless it is
\* free or its own.
Frame(r) ==
    /\ UNCHANGED <<mix, crashes>>
    /\ \A q \in Reqs \ {r} : call'[q] = call[q] /\ session'[q] = session[q]
    /\ UNCHANGED loop \/ loop \in {None, r}

\* What TypeOK says of one request.
LEMMA Typed ==
    ASSUME TypeOK
    PROVE  /\ call \in [Reqs -> Handler]
           /\ \A r \in Reqs : call[r] \in Handler /\ session[r] \in [Eps -> Texts \cup {None}]
           /\ mix \in Mix
  BY MixesAssumption DEF TypeOK, Handler

LEMMA NoCallTyped ==
    /\ NoCall \in Handler /\ NoCall.stage = "idle" /\ NoCall.ep = None
    /\ NoCall.text = None /\ NoCall.todo = {}
  BY DEF NoCall, Handler, AllKinds, OnLoop, Stages

LEMMA NothingTyped == Nothing \in [Eps -> Texts \cup {None}] /\ \A e \in Eps : Nothing[e] = None
  BY DEF Nothing

\* A request is replaced by v in the table.
LEMMA CallStep ==
    ASSUME TypeOK, NEW r \in Reqs, NEW v \in Handler, call' = [call EXCEPT ![r] = v]
    PROVE  /\ call' \in [Reqs -> Handler] /\ call'[r] = v
           /\ \A q \in Reqs \ {r} : call'[q] = call[q]
  BY Typed

LEMMA StageStep ==
    ASSUME TypeOK, NEW r \in Reqs, NEW stage \in Stages, call' = [call EXCEPT ![r].stage = stage]
    PROVE  /\ call' \in [Reqs -> Handler]
           /\ call'[r].stage = stage /\ call'[r].kind = call[r].kind /\ call'[r].ep = call[r].ep
           /\ call'[r].text = call[r].text /\ call'[r].todo = call[r].todo
           /\ \A q \in Reqs \ {r} : call'[q] = call[q]
  BY Typed DEF Handler

LEMMA ReplyStep ==
    ASSUME TypeOK, NEW r \in Reqs, Reply(r)
    PROVE  /\ call' \in [Reqs -> Handler] /\ session' \in [Reqs -> [Eps -> Texts \cup {None}]]
           /\ loop' \in Reqs \cup {None}
           /\ call'[r].stage = "idle"
           /\ \A q \in Reqs \ {r} : call'[q] = call[q] /\ session'[q] = session[q]
           /\ UNCHANGED loop \/ loop = r
  <1>1. call' \in [Reqs -> Handler] /\ call'[r].stage = "idle" /\ \A q \in Reqs \ {r} : call'[q] = call[q]
    BY NoCallTyped, CallStep DEF Reply
  <1>2. /\ session' \in [Reqs -> [Eps -> Texts \cup {None}]]
        /\ \A q \in Reqs \ {r} : session'[q] = session[q]
    BY NothingTyped DEF Reply, TypeOK
  <1>3. loop' \in Reqs \cup {None} /\ (UNCHANGED loop \/ loop = r)
    BY DEF Reply, TypeOK
  <1>4. QED
    BY <1>1, <1>2, <1>3

\* An episode is loaded into the session of r.
LEMMA LoadStep ==
    ASSUME TypeOK, NEW r \in Reqs, NEW e \in Eps, NEW t \in Texts \cup {None},
           session' = [session EXCEPT ![r][e] = t]
    PROVE  /\ session' \in [Reqs -> [Eps -> Texts \cup {None}]]
           /\ session'[r][e] = t
           /\ \A x \in Eps \ {e} : session'[r][x] = session[r][x]
           /\ \A q \in Reqs \ {r} : session'[q] = session[q]
  BY DEF TypeOK

LEMMA EnterStep ==
    ASSUME TypeOK, NEW r \in Reqs, NEW kind \in AllKinds, Enter(r, kind)
    PROVE  /\ kind \in mix.kinds /\ call[r].stage = "idle"
           /\ kind \in OnLoop => loop = None
           /\ Serial => \A q \in Reqs : ~Active(q)
           /\ calls' \in 0..mix.calls
           /\ UNCHANGED <<mix, crashes>>
  <1>1. mix.calls \in Nat
    BY Typed DEF Mix
  <1>2. calls' \in 0..mix.calls
    BY <1>1 DEF Enter, TypeOK
  <1>3. ASSUME Serial, NEW q \in Reqs PROVE ~Active(q)
    <2> DEFINE S == {p \in Reqs : call[p].stage # "idle"}
    <2>1. Cardinality(S) < 1
      BY <1>3 DEF Enter, Serial
    <2>2. IsFiniteSet(S)
      BY ReqsAssumption, FS_Subset
    <2>3. S = {}
      BY <2>1, <2>2, FS_CardinalityType, FS_EmptySet
    <2>4. QED
      BY <2>3 DEF Active
  <1>4. QED
    BY <1>2, <1>3 DEF Enter

-----------------------------------------------------------------------------
(***************************************************************************)
(* The parts of the invariant.                                             *)
(***************************************************************************)

\* What a handler that has got this far has loaded.
Ready(r) ==
    /\ call[r].stage \in {"upload", "commit"} =>
           call[r].ep \in Eps /\ call[r].text \in Texts /\ session[r][call[r].ep] \in Texts
    /\ call[r].stage \in {"refresh", "file", "index", "unlink", "drop"} => call[r].ep \in Eps

\* Which handlers reach a stage, and which of them hold the loop there.
Kinds(r) ==
    /\ Active(r) => call[r].kind \in mix.kinds
    /\ call[r].stage \in {"scan", "commit", "refresh", "file"} /\ call[r].kind \in OnLoop => loop = r
    /\ call[r].stage = "scan" => call[r].kind = "replace"
    /\ call[r].stage = "upload" => call[r].kind = "docx" /\ mix.spools
    /\ call[r].stage \in {"unlink", "drop"} => call[r].kind = "delete"
    /\ call[r].stage = "commit" => call[r].kind # "delete"
    /\ call[r].stage = "index" => call[r].kind \in OnLoop
    /\ call[r].stage = "rebuild" => call[r].kind = "rebuild"

\* Either no thread works on the episodes, or the requests come one at a time.
Exclusive == mix.kinds \subseteq OnLoop \/ Serial

\* Then a handler knows the text that is there.
Fresh(r) ==
    LET c == call[r]
        s == session[r]
    IN  /\ c.stage = "upload" /\ Serial => s[c.ep] = row[c.ep]
        /\ c.stage = "scan" => \A x \in c.todo : s[x] \in {None, row[x]}
        /\ c.stage = "commit" /\ c.kind = "replace" =>
               /\ c.ep \notin c.todo /\ s[c.ep] = row[c.ep] /\ c.text = Rewrite[s[c.ep]]
               /\ \A x \in c.todo : s[x] \in {None, row[x]}
        /\ c.stage = "commit" /\ (Serial \/ ~mix.spools) => s[c.ep] = row[c.ep]
        /\ c.stage \in {"refresh", "file", "index"} /\ c.kind = "replace" =>
               c.ep \notin c.todo /\ \A x \in c.todo : s[x] = None
        /\ c.stage = "refresh" => row[c.ep] # None
        /\ c.stage = "file" => s[c.ep] = row[c.ep]
        /\ c.stage = "index" /\ Serial => s[c.ep] = row[c.ep]
        /\ c.stage = "drop" => mirror[c.ep] = None

OneAtATime == Serial => \A r, q \in Reqs : Active(r) /\ Active(q) => r = q

\* An episode that does not exist has no revisions; one that does has an id.
HistoryOfRow == \A e \in Eps : IF row[e] = None THEN history[e] = <<>> ELSE e \in allocated

OwesFile(r, e) == call[r].stage \in {"refresh", "file", "drop"} /\ call[r].ep = e

OwesIndex(r, e) == call[r].stage \in {"refresh", "file", "index"} /\ call[r].ep = e

\* A file that differs from its row is about to be written.
MirrorOwed ==
    Exclusive /\ crashes = 0 =>
        \A e \in Eps : \/ mirror[e] = row[e]
                       \/ \E r \in Reqs : OwesFile(r, e)

IndexesAll == Serial /\ crashes = 0 /\ ~mix.fails /\ mix.kinds \subseteq {"put", "docx", "replace"}

\* A text that is not the one indexed is about to be indexed.
IndexOwed ==
    IndexesAll =>
        \A e \in Eps : \/ row[e] = None \/ vectors[e] = row[e]
                       \/ \E r \in Reqs : OwesIndex(r, e)

IInv ==
    /\ TypeOK
    /\ \A r \in Reqs : Ready(r) /\ Kinds(r) /\ (Exclusive => Fresh(r))
    /\ OneAtATime
    /\ HistoryOfRow
    /\ MirrorOwed
    /\ IndexOwed

LEMMA IInvInit == Init => IInv
  <1> SUFFICES ASSUME Init PROVE IInv
    OBVIOUS
  <1>1. mix \in Mix /\ mix.initial \subseteq Eps /\ mix.calls \in Nat /\ mix.crashes \in Nat
    BY MixesAssumption DEF Init, Mix
  <1>2. \A r \in Reqs : call[r] = NoCall /\ call[r].stage = "idle"
    BY NoCallTyped DEF Init
  <1>3. TypeOK
    <2>1. call \in [Reqs -> Handler] /\ session \in [Reqs -> [Eps -> Texts \cup {None}]]
      BY NoCallTyped, NothingTyped DEF Init
    <2>2. history \in [Eps -> Seq(Texts)]
      BY EmptySeq DEF Init
    <2>3. row \in [Eps -> Texts \cup {None}]
      BY TextsAssumption DEF Init
    <2>4. QED
      BY <1>1, <2>1, <2>2, <2>3 DEF Init, TypeOK, Handler
  <1>4. \A r \in Reqs : Ready(r) /\ Kinds(r) /\ Fresh(r)
    BY <1>2 DEF Ready, Kinds, Fresh, Active
  <1>5. OneAtATime /\ HistoryOfRow
    BY <1>2 DEF OneAtATime, HistoryOfRow, Active, Init
  <1>6. MirrorOwed /\ IndexOwed
    BY DEF MirrorOwed, IndexOwed, Init
  <1>7. QED
    BY <1>3, <1>4, <1>5, <1>6 DEF IInv

\* The invariant of the other requests survives a step of r that leaves rows and
\* files alone, or holds the loop, or is the only one.
LEMMA StepKeeps ==
    ASSUME IInv, NEW r \in Reqs, Frame(r), TypeOK',
           Serial => \A q \in Reqs \ {r} : ~Active(q),
           Exclusive => Serial \/ loop = r \/ UNCHANGED <<row, mirror>>,
           Ready(r)', Kinds(r)', Exclusive => Fresh(r)',
           HistoryOfRow', MirrorOwed', IndexOwed'
    PROVE  IInv'
  <1>1. None \notin Reqs /\ mix' = mix
    BY TextsAssumption DEF Frame
  <1>2. ASSUME NEW q \in Reqs, q # r PROVE Ready(q)' /\ Kinds(q)' /\ (Exclusive' => Fresh(q)')
    <2>1. call'[q] = call[q] /\ session'[q] = session[q] /\ (loop = q => loop' = q)
      BY <1>1, <1>2 DEF Frame
    <2>2. Ready(q) /\ Kinds(q) /\ (Exclusive => Fresh(q))
      BY DEF IInv
    <2>3. Ready(q)'
      BY <2>1, <2>2 DEF Ready
    <2>4. Kinds(q)'
      BY <1>1, <2>1, <2>2 DEF Kinds, Active
    <2>5. ASSUME Exclusive PROVE Fresh(q)'
      <3>1. CASE UNCHANGED <<row, mirror>>
        BY <1>1, <2>1, <2>2, <2>5, <3>1 DEF Fresh, Serial
      <3>2. CASE Serial
        BY <1>2, <2>1, <3>2 DEF Fresh, Active
      <3>3. CASE ~Serial /\ loop = r
        <4>1. call[q].stage \notin {"scan", "commit", "refresh", "file", "drop"}
          BY <1>2, <2>2, <2>5, <3>3 DEF Kinds, Active, Exclusive, OnLoop
        <4>2. QED
          BY <1>1, <2>1, <2>2, <2>5, <3>3, <4>1 DEF Fresh, Serial
      <3>4. QED
        BY <2>5, <3>1, <3>2, <3>3
    <2>6. QED
      BY <1>1, <2>3, <2>4, <2>5 DEF Exclusive, Serial
  <1>3. OneAtATime'
    BY <1>1 DEF OneAtATime, Serial, Active, Frame
  <1>4. Exclusive' = Exclusive
    BY <1>1 DEF Exclusive, Serial
  <1>5. QED
    BY <1>2, <1>3, <1>4 DEF IInv

\* The other requests are idle where one is served at a time.
LEMMA OthersIdle ==
    ASSUME IInv, NEW r \in Reqs, Active(r)
    PROVE  Serial => \A q \in Reqs \ {r} : ~Active(q)
  BY DEF IInv, OneAtATime

\* Row and file agree after a step of r, or r is about to write the file.
LEMMA MirrorKept ==
    ASSUME IInv, NEW r \in Reqs, Frame(r),
           Exclusive /\ crashes = 0 => \A e \in Eps :
               \/ mirror'[e] = row'[e]
               \/ OwesFile(r, e)'
               \/ mirror'[e] = mirror[e] /\ row'[e] = row[e] /\ ~OwesFile(r, e)
    PROVE  MirrorOwed'
  <1>1. SUFFICES ASSUME Exclusive, crashes = 0, NEW e \in Eps
                 PROVE  mirror'[e] = row'[e] \/ \E q \in Reqs : OwesFile(q, e)'
    BY DEF MirrorOwed, Exclusive, Serial, Frame
  <1>2. mirror[e] = row[e] \/ \E q \in Reqs : OwesFile(q, e)
    BY <1>1 DEF IInv, MirrorOwed
  <1>3. \A q \in Reqs \ {r} : OwesFile(q, e)' <=> OwesFile(q, e)
    BY DEF Frame, OwesFile
  <1>4. QED
    BY <1>1, <1>2, <1>3

LEMMA IndexKept ==
    ASSUME IInv, NEW r \in Reqs, Frame(r),
           IndexesAll => \A e \in Eps :
               \/ row'[e] = None \/ vectors'[e] = row'[e]
               \/ OwesIndex(r, e)'
               \/ vectors'[e] = vectors[e] /\ row'[e] = row[e] /\ ~OwesIndex(r, e)
    PROVE  IndexOwed'
  <1>1. SUFFICES ASSUME IndexesAll, NEW e \in Eps
                 PROVE  \/ row'[e] = None \/ vectors'[e] = row'[e]
                        \/ \E q \in Reqs : OwesIndex(q, e)'
    BY DEF IndexOwed, IndexesAll, Serial, Frame
  <1>2. row[e] = None \/ vectors[e] = row[e] \/ \E q \in Reqs : OwesIndex(q, e)
    BY <1>1 DEF IInv, IndexOwed
  <1>3. \A q \in Reqs \ {r} : OwesIndex(q, e)' <=> OwesIndex(q, e)
    BY DEF Frame, OwesIndex
  <1>4. QED
    BY <1>1, <1>2, <1>3

-----------------------------------------------------------------------------
(***************************************************************************)
(* Requests enter.                                                         *)
(***************************************************************************)

\* A new request in its first stage, whose session is s.
LEMMA Entered ==
    ASSUME TypeOK, NEW r \in Reqs, NEW kind \in AllKinds, Enter(r, kind),
           NEW c \in Handler, call' = [call EXCEPT ![r] = c],
           session' \in [Reqs -> [Eps -> Texts \cup {None}]],
           \A q \in Reqs \ {r} : session'[q] = session[q],
           loop' = r \/ UNCHANGED loop, kind \notin OnLoop => UNCHANGED loop,
           allocated' \subseteq Eps, row' \in [Eps -> Texts \cup {None}],
           UNCHANGED <<history, mirror, vectors>>
    PROVE  /\ TypeOK' /\ Frame(r) /\ call'[r] = c
           /\ call[r].stage = "idle" /\ kind \in mix.kinds
           /\ Serial => \A q \in Reqs \ {r} : ~Active(q)
  <1>1. /\ call' \in [Reqs -> Handler] /\ call'[r] = c
        /\ \A q \in Reqs \ {r} : call'[q] = call[q]
    BY CallStep
  <1>2. /\ kind \in mix.kinds /\ call[r].stage = "idle"
        /\ kind \in OnLoop => loop = None
        /\ Serial => \A q \in Reqs : ~Active(q)
        /\ calls' \in 0..mix.calls
        /\ UNCHANGED <<mix, crashes>>
    BY EnterStep
  <1>3. TypeOK'
    BY <1>1, <1>2 DEF TypeOK, Handler
  <1>4. Frame(r)
    BY <1>1, <1>2 DEF Frame
  <1>5. QED
    BY <1>1, <1>2, <1>3, <1>4

LEMMA LoadForWriteStep ==
    ASSUME TypeOK, NEW r \in Reqs, NEW kind \in AllKinds, NEW e \in Eps,
           NEW t \in Texts \cup {None}, NEW stage \in Stages, LoadForWrite(r, kind, e, t, stage),
           loop' = r \/ UNCHANGED loop, kind \notin OnLoop => UNCHANGED loop
    PROVE  /\ TypeOK' /\ Frame(r)
           /\ call[r].stage = "idle" /\ kind \in mix.kinds
           /\ Serial => \A q \in Reqs \ {r} : ~Active(q)
           /\ call'[r].kind = kind /\ call'[r].stage = stage /\ call'[r].ep = e
           /\ call'[r].text = t /\ call'[r].todo = {}
           /\ session'[r][e] = row[e] /\ row[e] \in Texts
           /\ UNCHANGED stored
  <1> DEFINE c == [NoCall EXCEPT !.kind = kind, !.stage = stage, !.ep = e, !.text = t]
  <1>1. /\ c \in Handler /\ c.kind = kind /\ c.stage = stage /\ c.ep = e /\ c.text = t
        /\ c.todo = {}
    BY NoCallTyped DEF Handler
  <1>2. row[e] \in Texts /\ Enter(r, kind) /\ UNCHANGED stored
    BY DEF LoadForWrite, TypeOK
  <1>3. call' = [call EXCEPT ![r] = c]
    BY DEF LoadForWrite
  <1> HIDE DEF c
  <1>4. /\ session' \in [Reqs -> [Eps -> Texts \cup {None}]] /\ session'[r][e] = row[e]
        /\ \A q \in Reqs \ {r} : session'[q] = session[q]
    BY <1>2, LoadStep DEF LoadForWrite
  <1>5. /\ TypeOK' /\ Frame(r) /\ call'[r] = c
        /\ call[r].stage = "idle" /\ kind \in mix.kinds
        /\ Serial => \A q \in Reqs \ {r} : ~Active(q)
    BY <1>1, <1>2, <1>3, <1>4, Entered DEF stored, TypeOK
  <1>6. QED
    BY <1>1, <1>2, <1>4, <1>5

\* A handler that has loaded an episode keeps the invariant.
LEMMA LoadForWriteInv ==
    ASSUME IInv, NEW r \in Reqs, NEW kind \in AllKinds, NEW e \in Eps,
           NEW t \in Texts \cup {None}, NEW stage \in {"upload", "commit", "unlink"},
           LoadForWrite(r, kind, e, t, stage),
           stage # "unlink" => t \in Texts /\ kind # "delete" /\ kind # "replace",
           stage = "unlink" => kind = "delete",
           stage = "upload" => kind = "docx" /\ mix.spools,
           loop' = r \/ UNCHANGED loop, kind \notin OnLoop => UNCHANGED loop,
           stage = "commit" /\ kind \in OnLoop => loop' = r
    PROVE  IInv'
  <1>1. TypeOK /\ stage \in Stages /\ HistoryOfRow
    BY DEF IInv, Stages
  <1>2. /\ TypeOK' /\ Frame(r)
        /\ call[r].stage = "idle" /\ kind \in mix.kinds
        /\ Serial => \A q \in Reqs \ {r} : ~Active(q)
        /\ call'[r].kind = kind /\ call'[r].stage = stage /\ call'[r].ep = e
        /\ call'[r].text = t /\ call'[r].todo = {}
        /\ session'[r][e] = row[e] /\ row[e] \in Texts
        /\ UNCHANGED stored
    BY <1>1, LoadForWriteStep
  <1>3. Ready(r)'
    BY <1>2 DEF Ready
  <1>4. Kinds(r)'
    BY <1>2 DEF Kinds, Frame
  <1>5. Fresh(r)'
    BY <1>2 DEF Fresh, stored
  <1>6. HistoryOfRow'
    BY <1>1, <1>2 DEF HistoryOfRow, stored
  <1>7. MirrorOwed'
    BY <1>2, MirrorKept DEF OwesFile, stored
  <1>8. IndexOwed'
    BY <1>2, IndexKept DEF OwesIndex, stored
  <1>9. QED
    BY <1>2, <1>3, <1>4, <1>5, <1>6, <1>7, <1>8, StepKeeps DEF stored

LEMMA PutInv ==
    ASSUME IInv, NEW r \in Reqs, NEW e \in Eps, NEW t \in Texts,
           Put(r, e, t) \/ Docx(r, e, t) \/ Restore(r, e, t)
    PROVE  IInv'
  <1>1. CASE Put(r, e, t)
    BY <1>1, LoadForWriteInv DEF Put, AllKinds, OnLoop
  <1>2. CASE Docx(r, e, t)
    BY <1>2, LoadForWriteInv DEF Docx, AllKinds, OnLoop
  <1>3. CASE Restore(r, e, t)
    BY <1>3, LoadForWriteInv DEF Restore, AllKinds, OnLoop
  <1>4. QED
    BY <1>1, <1>2, <1>3

LEMMA DeleteInv == ASSUME IInv, NEW r \in Reqs, NEW e \in Eps, Delete(r, e) PROVE IInv'
  BY LoadForWriteInv DEF Delete, AllKinds, OnLoop

LEMMA ReplaceInv ==
    ASSUME IInv, NEW r \in Reqs, NEW chosen \in SUBSET Eps, Replace(r, chosen)
    PROVE  IInv'
  <1> DEFINE found == {e \in chosen : row[e] # None}
             c == [NoCall EXCEPT !.kind = "replace", !.stage = "scan", !.todo = found]
             s == [e \in Eps |-> IF e \in found THEN row[e] ELSE None]
  <1>1. TypeOK /\ HistoryOfRow
    BY DEF IInv
  <1>2. c \in Handler /\ c.kind = "replace" /\ c.stage = "scan" /\ c.todo = found
    BY NoCallTyped DEF Handler, AllKinds, OnLoop, Stages
  <1>3. /\ s \in [Eps -> Texts \cup {None}] /\ \A x \in found : s[x] = row[x]
    BY <1>1 DEF TypeOK
  <1>4. call' = [call EXCEPT ![r] = c] /\ session' = [session EXCEPT ![r] = s]
    BY DEF Replace
  <1> HIDE DEF c, s
  <1>5. /\ session' \in [Reqs -> [Eps -> Texts \cup {None}]] /\ session'[r] = s
        /\ \A q \in Reqs \ {r} : session'[q] = session[q]
    BY <1>1, <1>3, <1>4 DEF TypeOK
  <1>6. "replace" \in AllKinds /\ "replace" \in OnLoop
    BY DEF AllKinds, OnLoop
  <1>7. Enter(r, "replace") /\ loop' = r /\ UNCHANGED stored
    BY DEF Replace
  <1>8. /\ TypeOK' /\ Frame(r) /\ call'[r] = c
        /\ call[r].stage = "idle" /\ "replace" \in mix.kinds
        /\ Serial => \A q \in Reqs \ {r} : ~Active(q)
    BY <1>1, <1>2, <1>4, <1>5, <1>6, <1>7, Entered DEF stored, TypeOK
  <1>9. Ready(r)' /\ Kinds(r)' /\ Fresh(r)'
    BY <1>2, <1>3, <1>5, <1>7, <1>8 DEF Ready, Kinds, Fresh, Frame, stored
  <1>10. HistoryOfRow'
    BY <1>1, <1>7 DEF HistoryOfRow, stored
  <1>11. MirrorOwed' /\ IndexOwed'
    BY <1>7, <1>8, MirrorKept, IndexKept DEF OwesFile, OwesIndex, stored
  <1>12. QED
    BY <1>7, <1>8, <1>9, <1>10, <1>11, StepKeeps DEF stored

LEMMA RebuildInv == ASSUME IInv, NEW r \in Reqs, Rebuild(r) PROVE IInv'
  <1> DEFINE c == [NoCall EXCEPT !.kind = "rebuild", !.stage = "rebuild"]
  <1>1. TypeOK /\ HistoryOfRow
    BY DEF IInv
  <1>2. c \in Handler /\ c.kind = "rebuild" /\ c.stage = "rebuild"
    BY NoCallTyped DEF Handler, AllKinds, OnLoop, Stages
  <1>3. call' = [call EXCEPT ![r] = c] /\ session' = [session EXCEPT ![r] = row]
    BY DEF Rebuild
  <1> HIDE DEF c
  <1>4. /\ session' \in [Reqs -> [Eps -> Texts \cup {None}]]
        /\ \A q \in Reqs \ {r} : session'[q] = session[q]
    BY <1>1, <1>3 DEF TypeOK
  <1>5. "rebuild" \in AllKinds /\ Enter(r, "rebuild") /\ UNCHANGED <<stored, loop>>
    BY DEF AllKinds, OnLoop, Rebuild
  <1>6. /\ TypeOK' /\ Frame(r) /\ call'[r] = c
        /\ call[r].stage = "idle" /\ "rebuild" \in mix.kinds
        /\ Serial => \A q \in Reqs \ {r} : ~Active(q)
    BY <1>1, <1>2, <1>3, <1>4, <1>5, Entered DEF stored, TypeOK
  <1>7. Ready(r)' /\ Kinds(r)' /\ Fresh(r)'
    BY <1>2, <1>6 DEF Ready, Kinds, Fresh, Frame
  <1>8. HistoryOfRow'
    BY <1>1, <1>5 DEF HistoryOfRow, stored
  <1>9. MirrorOwed' /\ IndexOwed'
    BY <1>5, <1>6, MirrorKept, IndexKept DEF OwesFile, OwesIndex, stored
  <1>10. QED
    BY <1>5, <1>6, <1>7, <1>8, <1>9, StepKeeps DEF stored

LEMMA AddInv == ASSUME IInv, NEW r \in Reqs, NEW e \in Eps, NEW t \in Texts, Add(r, e, t) PROVE IInv'
  <1> DEFINE c == [NoCall EXCEPT !.kind = "add", !.stage = "refresh", !.ep = e, !.text = t]
  <1>1. TypeOK /\ HistoryOfRow
    BY DEF IInv
  <1>2. c \in Handler /\ c.kind = "add" /\ c.stage = "refresh" /\ c.ep = e /\ c.todo = {}
    BY NoCallTyped DEF Handler, AllKinds, OnLoop, Stages
  <1>3. call' = [call EXCEPT ![r] = c]
    BY DEF Add
  <1> HIDE DEF c
  <1>4. "add" \in AllKinds /\ "add" \notin OnLoop
    BY DEF AllKinds, OnLoop
  <1>5. /\ Enter(r, "add") /\ UNCHANGED <<history, mirror, vectors, loop, session>>
        /\ row' = [row EXCEPT ![e] = t] /\ row' \in [Eps -> Texts \cup {None}]
        /\ t # None
        /\ allocated' \subseteq Eps
    BY <1>1, TextsAssumption DEF Add, TypeOK
  <1>6. /\ TypeOK' /\ Frame(r) /\ call'[r] = c
        /\ call[r].stage = "idle" /\ "add" \in mix.kinds
        /\ Serial => \A q \in Reqs \ {r} : ~Active(q)
    BY <1>1, <1>2, <1>3, <1>4, <1>5, Entered DEF TypeOK
  <1>7. row'[e] = t /\ \A x \in Eps \ {e} : row'[x] = row[x]
    BY <1>1, <1>5 DEF TypeOK
  <1>8. Ready(r)' /\ Kinds(r)' /\ Fresh(r)'
    BY <1>2, <1>4, <1>5, <1>6, <1>7 DEF Ready, Kinds, Fresh, Frame
  <1>9. HistoryOfRow'
    BY <1>1, <1>5, <1>7 DEF HistoryOfRow, Add
  <1>10. MirrorOwed'
    BY <1>2, <1>5, <1>6, <1>7, MirrorKept DEF OwesFile
  <1>11. IndexOwed'
    BY <1>2, <1>5, <1>6, <1>7, IndexKept DEF OwesIndex
  <1>12. Exclusive => Serial
    BY <1>4, <1>6 DEF Exclusive
  <1>13. QED
    BY <1>6, <1>8, <1>9, <1>10, <1>11, <1>12, StepKeeps

-----------------------------------------------------------------------------
(***************************************************************************)
(* The steps of the handlers.                                              *)
(***************************************************************************)

\* What the invariant says of a request at work.
LEMMA Unfold ==
    ASSUME IInv, NEW r \in Reqs
    PROVE  /\ TypeOK /\ HistoryOfRow /\ Ready(r) /\ Kinds(r) /\ (Exclusive => Fresh(r))
           /\ call[r] \in Handler /\ session[r] \in [Eps -> Texts \cup {None}]
           /\ None \notin Texts /\ None \notin Reqs
           /\ Active(r) => (Serial => \A q \in Reqs \ {r} : ~Active(q))
           /\ Exclusive /\ ~Serial => mix.kinds \subseteq OnLoop
  BY Typed, OthersIdle, TextsAssumption DEF IInv, Exclusive

\* A handler that replies and leaves the texts alone, at a stage where it owes
\* no file and no vectors.
LEMMA ReplyInv ==
    ASSUME IInv, NEW r \in Reqs, Active(r), Reply(r), UNCHANGED stored, Same,
           Exclusive => call[r].stage \notin {"refresh", "file", "drop"},
           Serial => call[r].stage \notin {"refresh", "file", "index"}
    PROVE  IInv'
  <1>1. /\ call' \in [Reqs -> Handler] /\ session' \in [Reqs -> [Eps -> Texts \cup {None}]]
        /\ loop' \in Reqs \cup {None}
        /\ call'[r].stage = "idle"
        /\ \A q \in Reqs \ {r} : call'[q] = call[q] /\ session'[q] = session[q]
        /\ UNCHANGED loop \/ loop = r
    BY Unfold, ReplyStep
  <1>2. TypeOK'
    BY <1>1, Unfold DEF TypeOK, Handler, stored, Same
  <1>3. Frame(r)
    BY <1>1 DEF Frame, Same
  <1>4. Ready(r)' /\ Kinds(r)' /\ Fresh(r)'
    BY <1>1 DEF Ready, Kinds, Fresh, Active
  <1>5. HistoryOfRow'
    BY Unfold DEF HistoryOfRow, stored
  <1>6. MirrorOwed'
    BY <1>3, MirrorKept DEF OwesFile, stored
  <1>7. IndexOwed'
    BY <1>3, IndexKept DEF OwesIndex, stored, IndexesAll
  <1>8. QED
    BY <1>2, <1>3, <1>4, <1>5, <1>6, <1>7, Unfold, StepKeeps DEF stored

LEMMA UploadedInv == ASSUME IInv, NEW r \in Reqs, Uploaded(r) PROVE IInv'
  <1>1. /\ call[r].stage = "upload" /\ loop = None /\ loop' = r /\ UNCHANGED <<stored, session>>
        /\ UNCHANGED <<mix, calls, crashes>>
        /\ call' = [call EXCEPT ![r].stage = "commit"] /\ "commit" \in Stages
    BY DEF Uploaded, Resume, Same, Stages
  <1>2. /\ call' \in [Reqs -> Handler]
        /\ call'[r].stage = "commit" /\ call'[r].kind = call[r].kind /\ call'[r].ep = call[r].ep
        /\ call'[r].text = call[r].text /\ call'[r].todo = call[r].todo
        /\ \A q \in Reqs \ {r} : call'[q] = call[q]
    BY <1>1, Unfold, StageStep
  <1>3. TypeOK'
    BY <1>1, <1>2, Unfold DEF TypeOK, Handler, stored
  <1>4. Frame(r)
    BY <1>1, <1>2 DEF Frame
  <1>5. Ready(r)' /\ Kinds(r)' /\ (Exclusive => Fresh(r)')
    BY <1>1, <1>2, Unfold DEF Ready, Kinds, Fresh, Active, Serial, stored
  <1>6. HistoryOfRow'
    BY <1>1, Unfold DEF HistoryOfRow, stored
  <1>7. MirrorOwed' /\ IndexOwed'
    BY <1>1, <1>4, MirrorKept, IndexKept DEF OwesFile, OwesIndex, stored
  <1>8. QED
    BY <1>1, <1>3, <1>4, <1>5, <1>6, <1>7, Unfold, StepKeeps DEF stored, Active

\* A turn of the loop of replace-all that takes an episode.
LEMMA ScanStep ==
    ASSUME IInv, NEW r \in Reqs, Scan(r)
    PROVE  \/ Reply(r) /\ call[r].stage = "scan" /\ UNCHANGED stored /\ Same
           \/ \E e \in call[r].todo :
                 /\ call[r].stage = "scan" /\ loop = r /\ UNCHANGED <<stored, loop>> /\ Same
                 /\ Loaded(r, e) \in Texts
                 /\ session' = [session EXCEPT ![r][e] = Loaded(r, e)]
                 /\ call' \in [Reqs -> Handler]
                 /\ call'[r].kind = call[r].kind /\ call'[r].todo = call[r].todo \ {e}
                 /\ call'[r].ep = e /\ call'[r].text = Rewrite[Loaded(r, e)]
                 /\ call'[r].stage \in {"scan", "commit"}
                 /\ \A q \in Reqs \ {r} : call'[q] = call[q]
  <1> DEFINE e == CHOOSE x \in call[r].todo : \A y \in call[r].todo : x <= y
  <1>1. /\ call[r].stage = "scan" /\ UNCHANGED stored /\ Same
        /\ call[r].kind = "replace" /\ loop = r
    BY Unfold DEF Scan, At, Kinds, OnLoop
  <1>2. CASE call[r].todo = {} \/ Loaded(r, e) = None
    BY <1>1, <1>2 DEF Scan
  <1>3. CASE ~(call[r].todo = {} \/ Loaded(r, e) = None)
    <2>1. call[r].todo \in SUBSET Eps
      BY Unfold DEF Handler
    <2>2. e \in call[r].todo
      BY <1>3, <2>1, FirstIsMember
    <2>3. /\ session' = [session EXCEPT ![r][e] = Loaded(r, e)]
          /\ call' = [call EXCEPT ![r].todo = @ \ {e},
                                  ![r].ep = e,
                                  ![r].text = Rewrite[Loaded(r, e)],
                                  ![r].stage = IF Rewrite[Loaded(r, e)] = Loaded(r, e)
                                               THEN "scan" ELSE "commit"]
          /\ UNCHANGED loop
      BY <1>3 DEF Scan
    <2> HIDE DEF e
    <2>4. Loaded(r, e) \in Texts
      BY <1>3, <2>1, <2>2, Unfold DEF Loaded, TypeOK
    <2>5. Rewrite[Loaded(r, e)] \in Texts
      BY <2>4, RewriteAssumption
    <2> DEFINE text == Rewrite[Loaded(r, e)]
               stage == IF Rewrite[Loaded(r, e)] = Loaded(r, e) THEN "scan" ELSE "commit"
               todo == call[r].todo \ {e}
    <2>6. /\ call' = [call EXCEPT ![r].todo = todo, ![r].ep = e, ![r].text = text, ![r].stage = stage]
          /\ todo \in SUBSET Eps /\ e \in Eps /\ text \in Texts /\ stage \in {"scan", "commit"}
      BY <2>1, <2>2, <2>3, <2>5
    <2> HIDE DEF text, stage, todo
    <2>7. /\ call' \in [Reqs -> Handler]
          /\ call'[r].kind = call[r].kind /\ call'[r].todo = todo
          /\ call'[r].ep = e /\ call'[r].text = text /\ call'[r].stage = stage
          /\ \A q \in Reqs \ {r} : call'[q] = call[q]
      <3> DEFINE c == [call[r] EXCEPT !.todo = todo, !.ep = e, !.text = text, !.stage = stage]
      <3>1. call \in [Reqs -> Handler] /\ call[r] \in Handler
        BY Unfold, Typed
      <3>2. /\ c \in Handler /\ c.kind = call[r].kind /\ c.todo = todo
            /\ c.ep = e /\ c.text = text /\ c.stage = stage
        BY <2>6, <3>1 DEF Handler, Stages
      <3>3. call' = [call EXCEPT ![r] = c]
        BY <2>6, Zenon
      <3> HIDE DEF c
      <3>4. QED
        BY <3>1, <3>2, <3>3
    <2>8. QED
      BY <1>1, <2>2, <2>3, <2>4, <2>6, <2>7 DEF todo, text
  <1>4. QED
    BY <1>2, <1>3

LEMMA ScanInv == ASSUME IInv, NEW r \in Reqs, Scan(r) PROVE IInv'
  <1>1. CASE Reply(r) /\ call[r].stage = "scan" /\ UNCHANGED stored /\ Same
    BY <1>1, ReplyInv DEF Active
  <1>2. ASSUME NEW e \in call[r].todo,
               call[r].stage = "scan", loop = r, UNCHANGED <<stored, loop>>, Same,
               Loaded(r, e) \in Texts,
               session' = [session EXCEPT ![r][e] = Loaded(r, e)],
               call' \in [Reqs -> Handler],
               call'[r].kind = call[r].kind, call'[r].todo = call[r].todo \ {e},
               call'[r].ep = e, call'[r].text = Rewrite[Loaded(r, e)],
               call'[r].stage \in {"scan", "commit"},
               \A q \in Reqs \ {r} : call'[q] = call[q]
        PROVE  IInv'
    <2>1. e \in Eps /\ call[r].todo \subseteq Eps /\ call[r].kind = "replace"
      BY <1>2, Unfold DEF Handler, Kinds
    <2>2. /\ session' \in [Reqs -> [Eps -> Texts \cup {None}]]
          /\ session'[r][e] = Loaded(r, e)
          /\ \A x \in Eps \ {e} : session'[r][x] = session[r][x]
          /\ \A q \in Reqs \ {r} : session'[q] = session[q]
      BY <1>2, <2>1, Unfold, LoadStep, ZenonT(40)
    <2>3. TypeOK' /\ Frame(r)
      BY <1>2, <2>2, Unfold DEF TypeOK, Handler, stored, Same, Frame
    <2>4. Ready(r)'
      BY <1>2, <2>1, <2>2, RewriteAssumption DEF Ready
    <2>5. Kinds(r)'
      BY <1>2, <2>1, Unfold DEF Kinds, Active, Same
    <2>6. ASSUME Exclusive PROVE Fresh(r)'
      <3>1. \A x \in call[r].todo : session[r][x] \in {None, row[x]}
        BY <1>2, <2>6, Unfold DEF Fresh
      <3>2. Loaded(r, e) = row[e] /\ row'= row
        BY <1>2, <3>1 DEF Loaded, stored
      <3>3. \A x \in call'[r].todo : session'[r][x] \in {None, row'[x]}
        BY <1>2, <2>1, <2>2, <3>1, <3>2
      <3>4. QED
        BY <1>2, <2>1, <2>2, <3>2, <3>3 DEF Fresh
    <2>7. HistoryOfRow'
      BY <1>2, Unfold DEF HistoryOfRow, stored
    <2>8. MirrorOwed' /\ IndexOwed'
      BY <1>2, <2>3, MirrorKept, IndexKept DEF OwesFile, OwesIndex, stored
    <2>9. QED
      BY <1>2, <2>3, <2>4, <2>5, <2>6, <2>7, <2>8, Unfold, StepKeeps DEF stored, Active
  <1>3. QED
    BY <1>1, <1>2, ScanStep

LEMMA CommitStep ==
    ASSUME IInv, NEW r \in Reqs, Commit(r), row[call[r].ep] # None
    PROVE  LET e == call[r].ep
           IN  /\ TypeOK' /\ Frame(r) /\ e \in Eps
               /\ call'[r].stage = "refresh" /\ call'[r].kind = call[r].kind /\ call'[r].ep = e
               /\ call'[r].todo = call[r].todo
               /\ session'[r] = Nothing
               /\ row'[e] = (IF call[r].text # session[r][e] THEN call[r].text ELSE row[e])
               /\ row'[e] \in Texts
               /\ history'[e] = (IF call[r].text # session[r][e] \/ call[r].kind = "restore"
                                 THEN PushRevision(history[e], e, r) ELSE history[e])
               /\ \A x \in Eps \ {e} : row'[x] = row[x] /\ history'[x] = history[x]
               /\ call[r].stage = "commit" /\ (call[r].kind \in OnLoop => loop = r)
               /\ UNCHANGED <<allocated, mirror, vectors, loop>>
  <1> DEFINE e == call[r].ep
             changed == call[r].text # session[r][e]
  <1>1. /\ call[r].stage = "commit" /\ (call[r].kind \in OnLoop => loop = r)
        /\ row' = (IF changed THEN [row EXCEPT ![e] = call[r].text] ELSE row)
        /\ history' = (IF changed \/ call[r].kind = "restore"
                       THEN [history EXCEPT ![e] = PushRevision(history[e], e, r)] ELSE history)
        /\ session' = [session EXCEPT ![r] = Nothing]
        /\ call' = [call EXCEPT ![r].stage = "refresh"]
        /\ UNCHANGED <<allocated, mirror, vectors, loop>>
        /\ UNCHANGED <<mix, calls, crashes>>
    BY DEF Commit, At, Same
  <1>2. e \in Eps /\ call[r].text \in Texts /\ session[r][e] \in Texts /\ row[e] \in Texts
    BY <1>1, Unfold DEF Ready, TypeOK
  <1>3. history[e] \in Seq(Texts)
    BY <1>2, Unfold DEF TypeOK
  <1>4. PushRevision(history[e], e, r) \in Seq(Texts)
    BY <1>2, <1>3, PushKeeps
  <1> DEFINE pushed == PushRevision(history[e], e, r)
  <1>5. /\ history' \in [Eps -> Seq(Texts)]
        /\ history'[e] = (IF changed \/ call[r].kind = "restore" THEN pushed ELSE history[e])
        /\ \A x \in Eps \ {e} : history'[x] = history[x]
    <2>1. history \in [Eps -> Seq(Texts)] /\ pushed \in Seq(Texts)
      BY <1>4, Unfold DEF TypeOK
    <2>2. history' = (IF changed \/ call[r].kind = "restore"
                      THEN [history EXCEPT ![e] = pushed] ELSE history)
      BY <1>1
    <2> HIDE DEF pushed, changed, e
    <2>3. QED
      BY <1>2, <2>1, <2>2
  <1>6. /\ row' \in [Eps -> Texts \cup {None}]
        /\ row'[e] = (IF changed THEN call[r].text ELSE row[e])
        /\ \A x \in Eps \ {e} : row'[x] = row[x]
    BY <1>1, <1>2, Unfold DEF TypeOK
  <1>7. /\ session' \in [Reqs -> [Eps -> Texts \cup {None}]] /\ session'[r] = Nothing
        /\ \A q \in Reqs \ {r} : session'[q] = session[q]
    BY <1>1, NothingTyped, Unfold DEF TypeOK
  <1>8. /\ call' \in [Reqs -> Handler] /\ call'[r].stage = "refresh"
        /\ call'[r].kind = call[r].kind /\ call'[r].ep = e /\ call'[r].todo = call[r].todo
        /\ \A q \in Reqs \ {r} : call'[q] = call[q]
    BY <1>1, Unfold, StageStep DEF Stages
  <1>9. TypeOK'
    BY <1>1, <1>5, <1>6, <1>7, <1>8, Unfold DEF TypeOK, Handler
  <1>10. Frame(r)
    BY <1>1, <1>7, <1>8 DEF Frame
  <1>11. QED
    BY <1>1, <1>2, <1>5, <1>6, <1>7, <1>8, <1>9, <1>10

LEMMA CommitInv == ASSUME IInv, NEW r \in Reqs, Commit(r) PROVE IInv'
  <1> DEFINE e == call[r].ep
  <1>1. CASE row[e] = None
    <2>1. /\ Reply(r) /\ UNCHANGED stored /\ Same /\ call[r].stage = "commit"
      BY <1>1 DEF Commit, At
    <2>2. QED
      BY <2>1, ReplyInv DEF Active
  <1>2. CASE row[e] # None
    <2>1. /\ TypeOK' /\ Frame(r) /\ e \in Eps
          /\ call'[r].stage = "refresh" /\ call'[r].kind = call[r].kind /\ call'[r].ep = e
          /\ call'[r].todo = call[r].todo
          /\ session'[r] = Nothing
          /\ row'[e] \in Texts
          /\ \A x \in Eps \ {e} : row'[x] = row[x] /\ history'[x] = history[x]
          /\ call[r].stage = "commit" /\ (call[r].kind \in OnLoop => loop = r)
          /\ UNCHANGED <<allocated, mirror, vectors, loop>>
      BY <1>2, CommitStep
    <2> HIDE DEF e
    <2>2. Ready(r)'
      BY <2>1 DEF Ready
    <2>3. Kinds(r)'
      BY <2>1, Unfold DEF Kinds, Active, Frame
    <2>4. ASSUME Exclusive PROVE Fresh(r)'
      <3>1. \A x \in call'[r].todo : session'[r][x] = None
        BY <2>1, NothingTyped, Unfold DEF Handler
      <3>2. call[r].kind = "replace" => call[r].ep \notin call[r].todo
        BY <2>1, <2>4, Unfold DEF Fresh
      <3>3. QED
        BY <2>1, <3>1, <3>2, Unfold DEF Fresh, e
    <2>5. HistoryOfRow'
      BY <1>2, <2>1, Unfold DEF HistoryOfRow, e
    <2>6. MirrorOwed'
      BY <2>1, MirrorKept DEF OwesFile
    <2>7. IndexOwed'
      BY <2>1, IndexKept DEF OwesIndex
    <2>8. Exclusive => Serial \/ loop = r
      BY <2>1, Unfold DEF Kinds, Active
    <2>9. Active(r)
      BY <2>1 DEF Active
    <2>10. QED
      BY <2>1, <2>2, <2>3, <2>4, <2>5, <2>6, <2>7, <2>8, <2>9, Unfold, StepKeeps
  <1>3. QED
    BY <1>1, <1>2

LEMMA RefreshInv == ASSUME IInv, NEW r \in Reqs, Refresh(r) PROVE IInv'
  <1> DEFINE e == call[r].ep
  <1>1. /\ call[r].stage = "refresh" /\ (call[r].kind \in OnLoop => loop = r)
        /\ UNCHANGED stored /\ Same /\ e \in Eps /\ Active(r)
    BY Unfold DEF Refresh, At, Ready, Active
  <1>2. CASE row[e] = None
    <2>1. Reply(r)
      BY <1>2 DEF Refresh
    <2>2. ~Exclusive /\ ~Serial
      BY <1>1, <1>2, Unfold DEF Fresh, Exclusive
    <2>3. QED
      BY <1>1, <2>1, <2>2, ReplyInv
  <1>3. CASE row[e] # None
    <2>1. /\ session' = [session EXCEPT ![r][e] = row[e]]
          /\ call' = [call EXCEPT ![r].stage = "file"]
          /\ UNCHANGED loop
      BY <1>3 DEF Refresh
    <2>2. /\ call' \in [Reqs -> Handler] /\ call'[r].stage = "file"
          /\ call'[r].kind = call[r].kind /\ call'[r].ep = e /\ call'[r].todo = call[r].todo
          /\ \A q \in Reqs \ {r} : call'[q] = call[q]
      BY <2>1, Unfold, StageStep DEF Stages
    <2>3. row[e] \in Texts \cup {None}
      BY <1>1, Unfold DEF TypeOK
    <2>4. /\ session' \in [Reqs -> [Eps -> Texts \cup {None}]]
          /\ session'[r][e] = row[e]
          /\ \A x \in Eps \ {e} : session'[r][x] = session[r][x]
          /\ \A q \in Reqs \ {r} : session'[q] = session[q]
      <3>1. TypeOK
        BY Unfold
      <3> HIDE DEF e
      <3>2. QED
        BY <1>1, <2>1, <2>3, <3>1, LoadStep
    <2>5. TypeOK' /\ Frame(r)
      BY <1>1, <2>1, <2>2, <2>4, Unfold DEF TypeOK, Handler, stored, Same, Frame
    <2>6. Ready(r)' /\ Kinds(r)'
      BY <1>1, <2>1, <2>2, Unfold DEF Ready, Kinds, Active, Same
    <2>7. ASSUME Exclusive PROVE Fresh(r)'
      <3>1. call[r].todo \subseteq Eps
        BY Unfold DEF Handler
      <3>2. QED
        BY <1>1, <2>2, <2>4, <2>7, <3>1, Unfold DEF Fresh, stored
    <2>8. HistoryOfRow'
      BY <1>1, Unfold DEF HistoryOfRow, stored
    <2>9. MirrorOwed' /\ IndexOwed'
      BY <1>1, <2>2, <2>5, MirrorKept, IndexKept DEF OwesFile, OwesIndex, stored
    <2>10. QED
      BY <1>1, <2>5, <2>6, <2>7, <2>8, <2>9, Unfold, StepKeeps DEF stored
  <1>4. QED
    BY <1>2, <1>3

\* The loop is given up for index().
LEMMA WriteFileInv == ASSUME IInv, NEW r \in Reqs, WriteFile(r) PROVE IInv'
  <1> DEFINE e == call[r].ep
  <1>1. /\ call[r].stage = "file" /\ (call[r].kind \in OnLoop => loop = r)
        /\ UNCHANGED <<allocated, row, history, vectors>> /\ Same /\ e \in Eps /\ Active(r)
        /\ mirror' = [mirror EXCEPT ![e] = session[r][e]]
    BY Unfold DEF WriteFile, At, Ready, Active
  <1>2. /\ mirror' \in [Eps -> Texts \cup {None}] /\ mirror'[e] = session[r][e]
        /\ \A x \in Eps \ {e} : mirror'[x] = mirror[x]
    BY <1>1, Unfold DEF TypeOK
  <1>3. Exclusive => mirror'[e] = row'[e] /\ (Serial \/ loop = r)
    BY <1>1, <1>2, Unfold DEF Fresh, Kinds, Active
  <1>4. ASSUME Frame(r), call'[r].stage \in {"idle", "index"} PROVE MirrorOwed'
    BY <1>1, <1>2, <1>3, <1>4, MirrorKept DEF OwesFile
  <1>5. HistoryOfRow'
    BY <1>1, Unfold DEF HistoryOfRow
  <1>6. CASE call[r].kind \in OnLoop
    <2>1. call' = [call EXCEPT ![r].stage = "index"] /\ loop' = None /\ UNCHANGED session
      BY <1>6 DEF WriteFile
    <2>2. /\ call' \in [Reqs -> Handler] /\ call'[r].stage = "index"
          /\ call'[r].kind = call[r].kind /\ call'[r].ep = e /\ call'[r].todo = call[r].todo
          /\ \A q \in Reqs \ {r} : call'[q] = call[q]
      BY <2>1, Unfold, StageStep DEF Stages
    <2>3. TypeOK' /\ Frame(r)
      BY <1>1, <1>2, <1>6, <2>1, <2>2, Unfold DEF TypeOK, Handler, Same, Frame
    <2>4. Ready(r)' /\ Kinds(r)'
      BY <1>1, <1>6, <2>1, <2>2, Unfold DEF Ready, Kinds, Active, Same
    <2>5. ASSUME Exclusive PROVE Fresh(r)'
      BY <1>1, <2>1, <2>2, <2>5, Unfold DEF Fresh
    <2>6. MirrorOwed' /\ IndexOwed'
      BY <1>1, <1>4, <2>2, <2>3, IndexKept DEF OwesIndex
    <2>7. QED
      BY <1>1, <1>3, <1>5, <2>3, <2>4, <2>5, <2>6, Unfold, StepKeeps
  <1>7. CASE call[r].kind \notin OnLoop
    <2>1. Reply(r)
      BY <1>7 DEF WriteFile
    <2>2. /\ call' \in [Reqs -> Handler] /\ session' \in [Reqs -> [Eps -> Texts \cup {None}]]
          /\ loop' \in Reqs \cup {None}
          /\ call'[r].stage = "idle"
          /\ \A q \in Reqs \ {r} : call'[q] = call[q] /\ session'[q] = session[q]
          /\ UNCHANGED loop \/ loop = r
      BY <2>1, Unfold, ReplyStep
    <2>3. TypeOK' /\ Frame(r)
      BY <1>1, <1>2, <2>2, Unfold DEF TypeOK, Handler, Same, Frame
    <2>4. Ready(r)' /\ Kinds(r)' /\ Fresh(r)'
      BY <2>2 DEF Ready, Kinds, Fresh, Active
    <2>5. ~IndexesAll
      BY <1>1, <1>7, Unfold DEF IndexesAll, Kinds, Active, OnLoop
    <2>6. MirrorOwed' /\ IndexOwed'
      BY <1>1, <1>4, <2>2, <2>3, <2>5, IndexKept
    <2>7. QED
      BY <1>1, <1>3, <1>5, <2>3, <2>4, <2>6, Unfold, StepKeeps
  <1>8. QED
    BY <1>6, <1>7

LEMMA IndexedInv == ASSUME IInv, NEW r \in Reqs, Indexed(r) PROVE IInv'
  <1> DEFINE e == call[r].ep
  <1>1. /\ call[r].stage = "index" /\ loop = None
        /\ UNCHANGED <<allocated, row, history, mirror>> /\ Same /\ e \in Eps /\ Active(r)
    BY Unfold DEF Indexed, Resume, Ready, Active
  <1>2. /\ vectors' \in [Eps -> Texts \cup {None}]
        /\ \A x \in Eps \ {e} : vectors'[x] = vectors[x]
        /\ vectors'[e] = session[r][e] \/ mix.fails
    <2>1. session[r][e] \in Texts \cup {None}
      BY <1>1, Unfold
    <2>2. CASE vectors' = [vectors EXCEPT ![e] = session[r][e]]
      BY <1>1, <2>1, <2>2, Unfold DEF TypeOK
    <2>3. CASE mix.fails /\ UNCHANGED vectors
      BY <2>3, Unfold DEF TypeOK
    <2>4. QED
      BY <2>2, <2>3 DEF Indexed
  <1>3. IndexesAll => vectors'[e] = row'[e]
    BY <1>1, <1>2, Unfold DEF IndexesAll, Fresh, Exclusive
  <1>4. ASSUME Frame(r), call'[r].stage \in {"idle", "scan"} PROVE MirrorOwed' /\ IndexOwed'
    <2>1. MirrorOwed'
      BY <1>1, <1>4, MirrorKept DEF OwesFile
    <2>2. IndexOwed'
      BY <1>1, <1>2, <1>3, <1>4, IndexKept DEF OwesIndex
    <2>3. QED
      BY <2>1, <2>2
  <1>5. HistoryOfRow'
    BY <1>1, Unfold DEF HistoryOfRow
  <1>6. CASE call[r].kind = "replace"
    <2>1. call' = [call EXCEPT ![r].stage = "scan"] /\ loop' = r /\ UNCHANGED session
      BY <1>6 DEF Indexed
    <2>2. /\ call' \in [Reqs -> Handler] /\ call'[r].stage = "scan"
          /\ call'[r].kind = call[r].kind /\ call'[r].ep = e /\ call'[r].todo = call[r].todo
          /\ \A q \in Reqs \ {r} : call'[q] = call[q]
      BY <2>1, Unfold, StageStep DEF Stages
    <2>3. TypeOK' /\ Frame(r)
      BY <1>1, <1>2, <2>1, <2>2, Unfold DEF TypeOK, Handler, Same, Frame
    <2>4. Ready(r)' /\ Kinds(r)'
      BY <1>1, <1>6, <2>1, <2>2, Unfold DEF Ready, Kinds, Active, Same
    <2>5. ASSUME Exclusive PROVE Fresh(r)'
      BY <1>1, <1>6, <2>1, <2>2, <2>5, Unfold DEF Fresh
    <2>6. QED
      BY <1>1, <1>4, <1>5, <2>2, <2>3, <2>4, <2>5, Unfold, StepKeeps
  <1>7. CASE call[r].kind # "replace"
    <2>1. Reply(r)
      BY <1>7 DEF Indexed
    <2>2. /\ call' \in [Reqs -> Handler] /\ session' \in [Reqs -> [Eps -> Texts \cup {None}]]
          /\ loop' \in Reqs \cup {None}
          /\ call'[r].stage = "idle"
          /\ \A q \in Reqs \ {r} : call'[q] = call[q] /\ session'[q] = session[q]
          /\ UNCHANGED loop \/ loop = r
      BY <2>1, Unfold, ReplyStep
    <2>3. TypeOK' /\ Frame(r)
      BY <1>1, <1>2, <2>2, Unfold DEF TypeOK, Handler, Same, Frame
    <2>4. Ready(r)' /\ Kinds(r)' /\ Fresh(r)'
      BY <2>2 DEF Ready, Kinds, Fresh, Active
    <2>5. QED
      BY <1>1, <1>4, <1>5, <2>2, <2>3, <2>4, Unfold, StepKeeps
  <1>8. QED
    BY <1>6, <1>7

LEMMA RebuiltInv == ASSUME IInv, NEW r \in Reqs, Rebuilt(r) PROVE IInv'
  <1>1. /\ call[r].stage = "rebuild" /\ Reply(r) /\ Active(r) /\ Same
        /\ UNCHANGED <<allocated, row, history, mirror>>
    BY DEF Rebuilt, Resume, Active
  <1>2. /\ call' \in [Reqs -> Handler] /\ session' \in [Reqs -> [Eps -> Texts \cup {None}]]
        /\ loop' \in Reqs \cup {None}
        /\ call'[r].stage = "idle"
        /\ \A q \in Reqs \ {r} : call'[q] = call[q] /\ session'[q] = session[q]
        /\ UNCHANGED loop \/ loop = r
    BY <1>1, Unfold, ReplyStep
  <1>3. vectors' \in [Eps -> Texts \cup {None}]
    BY Unfold, ZenonT(40) DEF Rebuilt, TypeOK
  <1>4. TypeOK' /\ Frame(r)
    BY <1>1, <1>2, <1>3, Unfold DEF TypeOK, Handler, Same, Frame
  <1>5. Ready(r)' /\ Kinds(r)' /\ Fresh(r)'
    BY <1>2 DEF Ready, Kinds, Fresh, Active
  <1>6. HistoryOfRow'
    BY <1>1, Unfold DEF HistoryOfRow
  <1>7. MirrorOwed'
    BY <1>1, <1>4, MirrorKept DEF OwesFile
  <1>8. ~IndexesAll
    BY <1>1, Unfold DEF IndexesAll, Kinds
  <1>9. IndexOwed'
    BY <1>4, <1>8, IndexKept
  <1>10. QED
    BY <1>1, <1>4, <1>5, <1>6, <1>7, <1>9, Unfold, StepKeeps

LEMMA UnlinkInv == ASSUME IInv, NEW r \in Reqs, Unlink(r) PROVE IInv'
  <1> DEFINE e == call[r].ep
  <1>1. /\ call[r].stage = "unlink" /\ Active(r) /\ Same /\ e \in Eps
        /\ call[r].kind = "delete" /\ "delete" \notin OnLoop
        /\ UNCHANGED <<allocated, row, history, vectors, loop, session>>
        /\ mirror' = [mirror EXCEPT ![e] = None] /\ call' = [call EXCEPT ![r].stage = "drop"]
    BY Unfold DEF Unlink, At, Active, Ready, Kinds, OnLoop
  <1>2. /\ call' \in [Reqs -> Handler] /\ call'[r].stage = "drop"
        /\ call'[r].kind = call[r].kind /\ call'[r].ep = e
        /\ \A q \in Reqs \ {r} : call'[q] = call[q]
    BY <1>1, Unfold, StageStep DEF Stages
  <1>3. /\ mirror' \in [Eps -> Texts \cup {None}] /\ mirror'[e] = None
        /\ \A x \in Eps \ {e} : mirror'[x] = mirror[x]
    BY <1>1, Unfold DEF TypeOK
  <1>4. TypeOK' /\ Frame(r)
    BY <1>1, <1>2, <1>3, Unfold DEF TypeOK, Handler, Same, Frame
  <1>5. Ready(r)' /\ Kinds(r)' /\ Fresh(r)'
    BY <1>1, <1>2, <1>3, Unfold DEF Ready, Kinds, Fresh, Active, Same
  <1>6. HistoryOfRow'
    BY <1>1, Unfold DEF HistoryOfRow
  <1>7. MirrorOwed' /\ IndexOwed'
    BY <1>1, <1>2, <1>3, <1>4, MirrorKept, IndexKept DEF OwesFile, OwesIndex
  <1>8. Exclusive => Serial
    BY <1>1, Unfold DEF Exclusive, Kinds
  <1>9. QED
    BY <1>1, <1>4, <1>5, <1>6, <1>7, <1>8, Unfold, StepKeeps

LEMMA DropInv == ASSUME IInv, NEW r \in Reqs, Drop(r) PROVE IInv'
  <1> DEFINE e == call[r].ep
  <1>1. /\ call[r].stage = "drop" /\ Active(r) /\ Same /\ e \in Eps
        /\ call[r].kind = "delete" /\ "delete" \notin OnLoop
        /\ UNCHANGED <<allocated, mirror, vectors>> /\ Reply(r)
        /\ row' = [row EXCEPT ![e] = None] /\ history' = [history EXCEPT ![e] = <<>>]
    BY Unfold DEF Drop, At, Active, Ready, Kinds, OnLoop
  <1>2. /\ call' \in [Reqs -> Handler] /\ session' \in [Reqs -> [Eps -> Texts \cup {None}]]
        /\ loop' \in Reqs \cup {None}
        /\ call'[r].stage = "idle"
        /\ \A q \in Reqs \ {r} : call'[q] = call[q] /\ session'[q] = session[q]
        /\ UNCHANGED loop \/ loop = r
    BY <1>1, Unfold, ReplyStep
  <1>3. /\ row' \in [Eps -> Texts \cup {None}] /\ row'[e] = None
        /\ history' \in [Eps -> Seq(Texts)] /\ history'[e] = <<>>
        /\ \A x \in Eps \ {e} : row'[x] = row[x] /\ history'[x] = history[x]
    BY <1>1, EmptySeq, Unfold DEF TypeOK
  <1>4. TypeOK' /\ Frame(r)
    BY <1>1, <1>2, <1>3, Unfold DEF TypeOK, Handler, Same, Frame
  <1>5. Ready(r)' /\ Kinds(r)' /\ Fresh(r)'
    BY <1>2 DEF Ready, Kinds, Fresh, Active
  <1>6. HistoryOfRow'
    BY <1>1, <1>3, Unfold DEF HistoryOfRow
  <1>7. MirrorOwed'
    BY <1>1, <1>2, <1>3, <1>4, Unfold, MirrorKept DEF OwesFile, Fresh
  <1>8. IndexOwed'
    BY <1>1, <1>2, <1>3, <1>4, IndexKept DEF OwesIndex
  <1>9. Exclusive => Serial
    BY <1>1, Unfold DEF Exclusive, Kinds
  <1>10. QED
    BY <1>1, <1>4, <1>5, <1>6, <1>7, <1>8, <1>9, Unfold, StepKeeps

LEMMA CrashInv == IInv /\ Crash => IInv'
  <1> SUFFICES ASSUME IInv, Crash PROVE IInv'
    OBVIOUS
  <1>1. /\ TypeOK /\ HistoryOfRow /\ UNCHANGED <<stored, mix, calls>>
        /\ mix.crashes \in Nat /\ crashes \in 0..mix.crashes
    BY Typed DEF IInv, Crash, TypeOK, Mix
  <1>2. /\ call' \in [Reqs -> Handler] /\ session' \in [Reqs -> [Eps -> Texts \cup {None}]]
        /\ \A r \in Reqs : call'[r].stage = "idle"
    BY NoCallTyped, NothingTyped DEF Crash
  <1>3. crashes' \in 0..mix.crashes /\ crashes' # 0
    BY <1>1 DEF Crash
  <1>4. TypeOK'
    BY <1>1, <1>2, <1>3 DEF TypeOK, Handler, stored, Crash
  <1>5. \A r \in Reqs : Ready(r)' /\ Kinds(r)' /\ Fresh(r)'
    BY <1>2 DEF Ready, Kinds, Fresh, Active
  <1>6. OneAtATime' /\ HistoryOfRow'
    BY <1>1, <1>2 DEF OneAtATime, Active, HistoryOfRow, stored
  <1>7. MirrorOwed' /\ IndexOwed'
    BY <1>3 DEF MirrorOwed, IndexOwed, IndexesAll
  <1>8. QED
    BY <1>4, <1>5, <1>6, <1>7 DEF IInv

-----------------------------------------------------------------------------
(***************************************************************************)
(* Theorems.                                                               *)
(***************************************************************************)

LEMMA IInvNext == IInv /\ [Next]_vars => IInv'
  <1> SUFFICES ASSUME IInv, [Next]_vars PROVE IInv'
    OBVIOUS
  <1>1. CASE UNCHANGED vars
    <2>1. TypeOK' /\ OneAtATime' /\ HistoryOfRow'
      BY <1>1 DEF IInv, vars, stored, TypeOK, OneAtATime, HistoryOfRow, Serial, Active
    <2>2. MirrorOwed' /\ IndexOwed'
      BY <1>1 DEF IInv, vars, stored, MirrorOwed, IndexOwed, OwesFile, OwesIndex, Exclusive,
                  IndexesAll, Serial
    <2>3. \A r \in Reqs : Ready(r)' /\ Kinds(r)' /\ (Exclusive' => Fresh(r)')
      BY <1>1 DEF IInv, vars, stored, Ready, Kinds, Fresh, Exclusive, Serial, Active
    <2>4. QED
      BY <2>1, <2>2, <2>3 DEF IInv
  <1>2. ASSUME NEW r \in Reqs, Arrive(r) PROVE IInv'
    BY <1>2, PutInv, AddInv, DeleteInv, ReplaceInv, RebuildInv DEF Arrive
  <1>3. ASSUME NEW r \in Reqs, Step(r) PROVE IInv'
    BY <1>3, UploadedInv, ScanInv, CommitInv, RefreshInv, WriteFileInv, IndexedInv, RebuiltInv,
       UnlinkInv, DropInv DEF Step
  <1>4. QED
    BY <1>1, <1>2, <1>3, CrashInv DEF Next

LEMMA IInvAlways == Spec => []IInv
  BY IInvInit, IInvNext, PTL DEF Spec

\* The rows, revisions, files, vectors, sessions and requests stay typed.
THEOREM TypeCorrect == Spec => []TypeOK
  <1>1. IInv => TypeOK
    BY DEF IInv
  <1>2. QED
    BY <1>1, IInvAlways, PTL

\* The Markdown file follows the row wherever no thread can come between the two
\* or the requests come one at a time, and so does the index when nothing fails.
THEOREM CopiesFollow == Spec => []CopiesInStep
  <1>1. IInv => MirrorInStep
    <2>1. ASSUME IInv, crashes = 0, Exclusive, \A r \in Reqs, e \in Eps : ~OwesFile(r, e)
          PROVE  MirrorAgrees
      BY <2>1 DEF IInv, MirrorOwed, MirrorAgrees
    <2>2. ASSUME IInv, mix.kinds \subseteq OnLoop, loop = None, NEW r \in Reqs, NEW e \in Eps
          PROVE  ~OwesFile(r, e)
      BY <2>2, Unfold DEF OwesFile, Kinds, Active, OnLoop
    <2>3. ASSUME Idle, NEW r \in Reqs, NEW e \in Eps PROVE ~OwesFile(r, e)
      BY <2>3 DEF OwesFile, Idle
    <2>4. QED
      BY <2>1, <2>2, <2>3 DEF MirrorInStep, Exclusive
  <1>2. IInv => IndexInStep
    <2> SUFFICES ASSUME IInv, IndexesAll, Idle, NEW e \in Eps, row[e] # None
                 PROVE  vectors[e] = row[e]
      BY DEF IndexInStep, IndexesAll
    <2>1. \A r \in Reqs : ~OwesIndex(r, e)
      BY DEF OwesIndex, Idle
    <2>2. QED
      BY <2>1 DEF IInv, IndexOwed
  <1>3. IInv => CopiesInStep
    BY <1>1, <1>2 DEF CopiesInStep
  <1>4. QED
    BY <1>3, IInvAlways, PTL

\* A step that touches a text or a history is a commit, a deletion or an insertion.
LEMMA TextSteps ==
    ASSUME IInv, Next
    PROVE  \/ UNCHANGED <<row, history>>
           \/ \E r \in Reqs : Commit(r) /\ row[call[r].ep] # None
           \/ \E r \in Reqs : Drop(r) /\ call[r].ep \in Eps
           \/ \E r \in Reqs, e \in Eps, t \in Texts : Add(r, e, t)
  <1>1. CASE Crash
    BY <1>1 DEF Crash, stored
  <1>2. ASSUME NEW r \in Reqs, Arrive(r)
        PROVE  UNCHANGED <<row, history>> \/ \E e \in Eps, t \in Texts : Add(r, e, t)
    BY <1>2 DEF Arrive, Put, Docx, Restore, Delete, Replace, Rebuild, LoadForWrite, stored
  <1>3. ASSUME NEW r \in Reqs, Step(r)
        PROVE  \/ UNCHANGED <<row, history>>
               \/ Commit(r) /\ row[call[r].ep] # None
               \/ Drop(r) /\ call[r].ep \in Eps
    <2>1. CASE Commit(r)
      BY <2>1 DEF Commit, stored
    <2>2. CASE Drop(r)
      BY <2>2, Unfold DEF Drop, At, Ready
    <2>3. CASE Uploaded(r) \/ Scan(r) \/ Refresh(r)
      BY <2>3 DEF Uploaded, Scan, Refresh, stored
    <2>4. CASE WriteFile(r) \/ Indexed(r) \/ Rebuilt(r) \/ Unlink(r)
      BY <2>4 DEF WriteFile, Indexed, Rebuilt, Unlink
    <2>5. QED
      BY <1>3, <2>1, <2>2, <2>3, <2>4 DEF Step
  <1>4. QED
    BY <1>1, <1>2, <1>3 DEF Next

LEMMA DropStep ==
    ASSUME IInv, NEW r \in Reqs, Drop(r), call[r].ep \in Eps
    PROVE  /\ row'[call[r].ep] = None /\ history'[call[r].ep] = <<>>
           /\ \A x \in Eps \ {call[r].ep} : row'[x] = row[x] /\ history'[x] = history[x]
  BY Unfold DEF Drop, TypeOK

LEMMA AddStep ==
    ASSUME IInv, NEW r \in Reqs, NEW e \in Eps, NEW t \in Texts, Add(r, e, t)
    PROVE  /\ e \notin allocated /\ UNCHANGED history
           /\ \A x \in Eps \ {e} : row'[x] = row[x]
  BY Unfold DEF Add, TypeOK

\* snapshot_revision only ever drops the oldest revision of an episode, and only at
\* the cap, whatever handlers commit, restore, delete or fail beside each other.
THEOREM OnlyOldestIsDropped == Spec => HistoryDropsOnlyOldest
  <1> DEFINE Keeps(e) ==
         LET h == history[e] IN
         history'[e] # h /\ row'[e] # None =>
             /\ Len(history'[e]) = IF Len(h) < RevCap THEN Len(h) + 1 ELSE RevCap
             /\ IsSuffix(Front(history'[e]), h)
  <1>1. IInv /\ [Next]_vars => [\A e \in Eps : Keeps(e)]_vars
    <2> SUFFICES ASSUME IInv, Next, NEW e \in Eps, history'[e] # history[e], row'[e] # None
                 PROVE  /\ Len(history'[e]) = IF Len(history[e]) < RevCap
                                              THEN Len(history[e]) + 1 ELSE RevCap
                        /\ IsSuffix(Front(history'[e]), history[e])
      OBVIOUS
    <2>1. PICK r \in Reqs : Commit(r) /\ row[call[r].ep] # None
      BY TextSteps, DropStep, AddStep
    <2>2. /\ call[r].ep = e /\ call[r].stage = "commit"
          /\ history'[e] = PushRevision(history[e], e, r)
      BY <2>1, CommitStep
    <2>3. session[r][e] \in Texts /\ history[e] \in Seq(Texts)
      BY <2>2, Unfold DEF Ready, TypeOK
    <2>4. QED
      BY <2>2, <2>3, PushKeeps, KeptIsSuffix
  <1>2. QED
    BY <1>1, IInvAlways, PTL DEF Spec, HistoryDropsOnlyOldest

\* A deleted episode never comes back, nor do revisions of it, although handlers on
\* other threads and suspended coroutines still hold it (ON DELETE CASCADE, flush).
THEOREM DeletedStaysDeleted == Spec => NoResurrection
  <1>1. IInv /\ [Next]_vars =>
          [\A e \in allocated : row[e] = None => row'[e] = None /\ history'[e] = <<>>]_vars
    <2> SUFFICES ASSUME IInv, Next, NEW e \in allocated, row[e] = None
                 PROVE  row'[e] = None /\ history'[e] = <<>>
      OBVIOUS
    <2>1. e \in Eps /\ history[e] = <<>>
      BY DEF IInv, TypeOK, HistoryOfRow
    <2>2. CASE UNCHANGED <<row, history>>
      BY <2>1, <2>2
    <2>3. ASSUME NEW r \in Reqs, Commit(r), row[call[r].ep] # None
          PROVE  row'[e] = None /\ history'[e] = <<>>
      BY <2>1, <2>3, CommitStep
    <2>4. ASSUME NEW r \in Reqs, Drop(r), call[r].ep \in Eps
          PROVE  row'[e] = None /\ history'[e] = <<>>
      BY <2>1, <2>4, DropStep
    <2>5. ASSUME NEW r \in Reqs, NEW x \in Eps, NEW t \in Texts, Add(r, x, t)
          PROVE  row'[e] = None /\ history'[e] = <<>>
      BY <2>1, <2>5, AddStep
    <2>6. QED
      BY <2>2, <2>3, <2>4, <2>5, TextSteps
  <1>2. QED
    BY <1>1, IInvAlways, PTL DEF Spec, NoResurrection

\* Handlers on the loop, or one at a time, never throw away what another has
\* saved: the text they replace is the newest revision.
THEOREM ReplacedTextIsKept == Spec => HistoryKeepsReplaced
  <1>1. IInv /\ [Next]_vars =>
          [OnLoopOnly \/ Serial => \A e \in Eps : LeavesReplaced(e)]_vars
    <2> SUFFICES ASSUME IInv, Next, OnLoopOnly \/ Serial, NEW e \in Eps,
                        row[e] # row'[e], row[e] # None, row'[e] # None
                 PROVE  history'[e] # <<>> /\ Last(history'[e]) = row[e]
      BY DEF LeavesReplaced
    <2>1. CASE \E r \in Reqs : Commit(r) /\ row[call[r].ep] # None
      <3>1. PICK r \in Reqs : Commit(r) /\ row[call[r].ep] # None
        BY <2>1
      <3>2. /\ call[r].ep = e /\ call[r].stage = "commit"
            /\ history'[e] = PushRevision(history[e], e, r)
        BY <3>1, CommitStep
      <3>3. session[r][e] \in Texts /\ history[e] \in Seq(Texts)
        BY <3>2, Unfold DEF Ready, TypeOK
      <3>4. session[r][e] = row[e]
        BY <3>2, Unfold DEF Fresh, Exclusive, OnLoopOnly
      <3>5. QED
        BY <3>2, <3>3, <3>4, PushKeeps
    <2>2. CASE \E r \in Reqs, x \in Eps, t \in Texts : Add(r, x, t)
      <3>1. PICK r \in Reqs, x \in Eps, t \in Texts : Add(r, x, t)
        BY <2>2
      <3>2. e = x /\ e \notin allocated
        BY <3>1, AddStep
      <3>3. QED
        BY <3>2 DEF IInv, HistoryOfRow
    <2>3. QED
      BY <2>1, <2>2, TextSteps, DropStep
  <1>2. QED
    BY <1>1, IInvAlways, PTL DEF Spec, HistoryKeepsReplaced

\* The step in which a replace-all writes an episode.
LEMMA CommitOnly ==
    ASSUME IInv, Next, NEW r \in Reqs, call[r].stage = "commit", call'[r].stage = "refresh"
    PROVE  Commit(r) /\ row[call[r].ep] # None
  <1>1. call \in [Reqs -> Handler] /\ NoCall.stage = "idle"
    BY Unfold, Typed, NoCallTyped
  <1>2. ~Crash
    BY <1>1 DEF Crash
  <1>3. ASSUME NEW q \in Reqs, Arrive(q) PROVE FALSE
    <2>1. call[q].stage = "idle" /\ \E v : call' = [call EXCEPT ![q] = v]
      BY <1>3 DEF Arrive, Put, Docx, Restore, Delete, Replace, Rebuild, Add, LoadForWrite, Enter
    <2>2. QED
      BY <1>1, <2>1
  <1>4. ASSUME NEW q \in Reqs, q # r, Step(q) PROVE FALSE
    <2>1. call'[r] = call[r]
      BY <1>1, <1>4 DEF Step, Uploaded, Scan, Commit, Refresh, WriteFile, Indexed, Rebuilt, Unlink,
                        Drop, Reply
    <2>2. QED
      BY <2>1
  <1>5. ASSUME Step(r) PROVE Commit(r) /\ row[call[r].ep] # None
    <2>1. Commit(r)
      BY <1>5 DEF Step, Uploaded, Scan, Refresh, WriteFile, Indexed, Rebuilt, Unlink, Drop,
                  At, Resume
    <2>2. CASE row[call[r].ep] = None
      BY <1>1, <2>1, <2>2 DEF Commit, Reply
    <2>3. QED
      BY <2>1, <2>2
  <1>6. QED
    BY <1>2, <1>3, <1>4, <1>5 DEF Next

\* Where no thread can come between, replace-all rewrites the text that is there
\* when it commits, however long it was suspended before (project_text_replace).
THEOREM ReplaceIsCurrent == Spec => ReplaceUsesCurrentText
  <1>1. IInv /\ [Next]_vars =>
          [mix.kinds \subseteq OnLoop =>
              \A r \in Reqs :
                  call[r].kind = "replace" /\ call[r].stage = "commit" /\ call'[r].stage = "refresh"
                      => row'[call[r].ep] = Rewrite[row[call[r].ep]]]_vars
    <2> SUFFICES ASSUME IInv, Next, mix.kinds \subseteq OnLoop, NEW r \in Reqs,
                        call[r].kind = "replace", call[r].stage = "commit", call'[r].stage = "refresh"
                 PROVE  row'[call[r].ep] = Rewrite[row[call[r].ep]]
      OBVIOUS
    <2>1. Commit(r) /\ row[call[r].ep] # None
      BY CommitOnly
    <2>2. /\ session[r][call[r].ep] = row[call[r].ep]
          /\ call[r].text = Rewrite[session[r][call[r].ep]]
      BY Unfold DEF Fresh, Exclusive
    <2>3. QED
      BY <2>1, <2>2, CommitStep
  <1>2. QED
    BY <1>1, IInvAlways, PTL DEF Spec, ReplaceUsesCurrentText

=============================================================================
