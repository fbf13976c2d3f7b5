--------------------------- MODULE AccountsProofs ---------------------------
(***************************************************************************)
(* Proofs about Accounts, for every set of accounts and any number of      *)
(* requests, however they interleave: the types, and the two guarantees of *)
(* the handlers with the one way in which each can fail (the run           *)
(* accounts_demote_race shows such a failure).                             *)
(***************************************************************************)
EXTENDS Accounts, TLAPS

\* A request as TypeOK has it.
Request == [kind : AllKinds, stage : Stages, caller : Users, target : Users,
            admin : Wish, active : Wish, wasAdmin : BOOLEAN, wasActive : BOOLEAN, fp : Hash]

-----------------------------------------------------------------------------
(***************************************************************************)
(* Types.                                                                  *)
(***************************************************************************)

LEMMA NoCallTyped == NoCall \in Request /\ NoCall.stage = "idle" /\ NoCall.kind = "update"
  <1>1. (CHOOSE u \in Users : TRUE) \in Users
    BY UsersAssumption
  <1>2. 0 \in Hash
    BY BoundsAssumption DEF Hash
  <1>3. QED
    BY <1>1, <1>2 DEF NoCall, Idle, Request, AllKinds, Stages, Wish

LEMMA TypeInit == Init => TypeOK
  <1> SUFFICES ASSUME Init PROVE TypeOK
    OBVIOUS
  <1>1. 0 \in Hash /\ 0 \in 0..MaxCalls
    BY BoundsAssumption DEF Hash
  <1>2. QED
    BY <1>1, NoCallTyped, UsersAssumption DEF Init, TypeOK, Link, Request

\* The table of requests stays typed when one of them enters, goes on or ends.
LEMMA EnterTyped ==
    ASSUME TypeOK, NEW r \in Reqs, NEW c \in Request, Enter(r, c), overtaken' \subseteq Reqs
    PROVE  TypeOK'
  <1>1. call' \in [Reqs -> Request]
    BY DEF Enter, TypeOK, Request, Stages
  <1>2. calls' \in 0..MaxCalls
    BY BoundsAssumption DEF Enter, TypeOK
  <1>3. QED
    BY <1>1, <1>2 DEF Enter, TypeOK, Request, accounts

LEMMA ReplyTyped ==
    ASSUME TypeOK, NEW r \in Reqs, Reply(r)
    PROVE  call' \in [Reqs -> Request]
  BY NoCallTyped DEF Reply, TypeOK, Request

LEMMA SetHashTyped ==
    ASSUME TypeOK, NEW u \in Users, lastHash < MaxHash, SetHash(u)
    PROVE  hash' \in [Users -> Hash] /\ lastHash' \in Hash
  BY BoundsAssumption DEF TypeOK, SetHash, Hash

\* The password that WritePassword sets belongs to an account, its link is typed.
LEMMA OwnerTyped ==
    ASSUME TypeOK, NEW r \in Reqs
    PROVE  LET u == IF call[r].kind = "ownPassword" THEN call[r].caller ELSE call[r].target
           IN  u \in Users /\ [user |-> u, fp |-> call[r].fp] \in Link
  BY DEF TypeOK, Link

LEMMA TypeNext == TypeOK /\ [Next]_vars => TypeOK'
  <1> SUFFICES ASSUME TypeOK, [Next]_vars PROVE TypeOK'
    OBVIOUS
  <1>0. overtaken' \subseteq Reqs
    BY DEF Next, Watch, vars, TypeOK
  <1>1. ASSUME NEW r \in Reqs, NEW c \in Users, NEW u \in Users, NEW admin \in Wish, NEW active \in Wish,
               Update(r, c, u, admin, active)
        PROVE  TypeOK'
    <2>1. [NoCall EXCEPT !.caller = c, !.target = u, !.admin = admin, !.active = active] \in Request
      BY NoCallTyped DEF Request
    <2>2. QED
      BY <1>0, <1>1, <2>1, EnterTyped DEF Update
  <1>2. ASSUME NEW r \in Reqs, NEW c \in Users, NEW u \in Users, NEW admin \in BOOLEAN,
               Create(r, c, u, admin)
        PROVE  TypeOK'
    <2>1. [NoCall EXCEPT !.kind = "create", !.caller = c, !.target = u,
                         !.admin = IF admin THEN "on" ELSE "off"] \in Request
      BY NoCallTyped DEF Request, AllKinds, Wish
    <2>2. QED
      BY <1>0, <1>2, <2>1, EnterTyped DEF Create
  <1>3. ASSUME NEW r \in Reqs, NEW c \in Users, NEW u \in Users,
               NEW kind \in {"delete", "setPassword", "ownPassword"}, Manage(r, kind, c, u)
        PROVE  TypeOK'
    <2>1. [NoCall EXCEPT !.kind = kind, !.caller = c, !.target = u] \in Request
      BY NoCallTyped DEF Request, AllKinds
    <2>2. QED
      BY <1>0, <1>3, <2>1, EnterTyped DEF Manage
  <1>4. ASSUME NEW r \in Reqs, NEW l \in links, Confirm(r, l) PROVE TypeOK'
    <2>1. l.user \in Users /\ l.fp \in Hash
      BY DEF TypeOK, Link
    <2>2. [NoCall EXCEPT !.kind = "confirm", !.stage = "write", !.target = l.user, !.fp = l.fp] \in Request
      BY <2>1, NoCallTyped DEF Request, AllKinds, Stages
    <2>3. call' \in [Reqs -> Request]
      BY <1>4, <2>2 DEF Confirm, TypeOK, Request
    <2>4. QED
      BY <1>0, <1>4, <2>3, BoundsAssumption DEF Confirm, TypeOK, Request, accounts
  <1>5. ASSUME NEW r \in Reqs, LoadCaller(r) PROVE TypeOK'
    <2>1. call[r] \in Request /\ call[r].caller \in Users
      BY DEF TypeOK, Request
    <2>2. isAdmin[call[r].caller] \in BOOLEAN /\ isActive[call[r].caller] \in BOOLEAN
      BY <2>1 DEF TypeOK
    <2>3. [call[r] EXCEPT !.wasAdmin = isAdmin[call[r].caller], !.wasActive = isActive[call[r].caller],
                          !.stage = IF call[r].kind = "update" THEN "target"
                                    ELSE IF call[r].kind = "create" THEN "commit"
                                    ELSE IF call[r].kind = "delete" THEN "guard" ELSE "write"] \in Request
      BY <2>1, <2>2 DEF Request, Stages
    <2>4. call' \in [Reqs -> Request]
      BY <1>5, <2>3, ReplyTyped, ZenonT(40) DEF LoadCaller, TypeOK, Request
    <2>5. QED
      BY <1>0, <1>5, <2>4 DEF LoadCaller, Same, TypeOK, Request, accounts
  <1>6. ASSUME NEW r \in Reqs, LoadTarget(r) PROVE TypeOK'
    <2>1. call[r] \in Request /\ call[r].target \in Users
      BY DEF TypeOK, Request
    <2>2. isAdmin[call[r].target] \in BOOLEAN /\ isActive[call[r].target] \in BOOLEAN
      BY <2>1 DEF TypeOK
    <2>3. [call[r] EXCEPT !.stage = "guard",
              !.wasAdmin = IF call[r].target = call[r].caller THEN @ ELSE isAdmin[call[r].target],
              !.wasActive = IF call[r].target = call[r].caller THEN @ ELSE isActive[call[r].target]] \in Request
      BY <2>1, <2>2 DEF Request, Stages
    <2>4. call' \in [Reqs -> Request]
      BY <1>6, <2>3, ReplyTyped DEF LoadTarget, TypeOK, Request
    <2>5. QED
      BY <1>0, <1>6, <2>4 DEF LoadTarget, Same, TypeOK, Request, accounts
  <1>7. ASSUME NEW r \in Reqs, Guard(r) PROVE TypeOK'
    <2>1. call' \in [Reqs -> Request]
      BY <1>7, ReplyTyped DEF Guard, Goto, TypeOK, Request, Stages
    <2>2. QED
      BY <1>0, <1>7, <2>1 DEF Guard, Same, TypeOK, Request, accounts
  <1>8. ASSUME NEW r \in Reqs, CommitUpdate(r) PROVE TypeOK'
    <2>1. isAdmin' \in [Users -> BOOLEAN] /\ isActive' \in [Users -> BOOLEAN]
      BY <1>8, ZenonT(40) DEF CommitUpdate, TypeOK
    <2>2. QED
      BY <1>0, <1>8, <2>1, ReplyTyped DEF CommitUpdate, Same, TypeOK, Request
  <1>9. ASSUME NEW r \in Reqs, CommitCreate(r) PROVE TypeOK'
    <2>1. call[r].target \in Users
      BY DEF TypeOK
    <2>2. hash' \in [Users -> Hash] /\ lastHash' \in Hash
      BY <1>9, <2>1, SetHashTyped DEF CommitCreate, TypeOK
    <2>3. present' \subseteq born' /\ born' \subseteq Users /\ isAdmin' \in [Users -> BOOLEAN]
      BY <1>9, <2>1 DEF CommitCreate, TypeOK
    <2>4. QED
      BY <1>0, <1>9, <2>2, <2>3, ReplyTyped DEF CommitCreate, Same, TypeOK, Request
  <1>10. ASSUME NEW r \in Reqs, CommitDelete(r) PROVE TypeOK'
    BY <1>0, <1>10, ReplyTyped DEF CommitDelete, Same, TypeOK, Request
  <1>11. ASSUME NEW r \in Reqs, WritePassword(r) PROVE TypeOK'
    <2>1. hash' \in [Users -> Hash] /\ lastHash' \in Hash
      BY <1>11, OwnerTyped, SetHashTyped DEF WritePassword, TypeOK
    <2>2. spent' \in [Link -> Nat]
      BY <1>11, OwnerTyped DEF WritePassword, TypeOK
    <2>3. QED
      BY <1>0, <1>11, <2>1, <2>2, ReplyTyped DEF WritePassword, TypeOK, Request
  <1>12. ASSUME NEW u \in Users, RequestReset(u) PROVE TypeOK'
    BY <1>0, <1>12 DEF RequestReset, TypeOK, accounts, Link
  <1>13. ASSUME NEW l \in links, Expire(l) PROVE TypeOK'
    BY <1>0, <1>13 DEF Expire, TypeOK, accounts
  <1>14. CASE UNCHANGED vars
    BY <1>0, <1>14 DEF vars, accounts, TypeOK
  <1>15. QED
    BY <1>1, <1>2, <1>3, <1>4, <1>5, <1>6, <1>7, <1>8, <1>9, <1>10, <1>11, <1>12, <1>13, <1>14 DEF Next, Step

\* Every reachable state is well typed, however the requests interleave.
THEOREM TypeCorrect == Spec => []TypeOK
  BY TypeInit, TypeNext, PTL DEF Spec

-----------------------------------------------------------------------------
(***************************************************************************)
(* What a request has checked is still so when it commits, unless another  *)
(* commit has overtaken it.                                                *)
(***************************************************************************)

\* The caller is what the middleware and require_admin found; the session knows it
\* as such; and what the guard has let pass is still admissible.
Stands(r) ==
    LET c == call[r] IN
    r \notin overtaken /\ c.kind # "confirm" =>
        /\ c.stage # "idle" => c.caller \in present /\ isActive[c.caller]
        /\ c.stage \in {"target", "guard", "commit"} =>
              /\ isAdmin[c.caller]
              /\ c.target = c.caller => c.wasAdmin /\ c.wasActive
        /\ c.stage = "commit" /\ c.kind = "update" /\ c.target = c.caller =>
              \/ c.admin # "off" /\ c.active # "off"
              \/ OtherActiveAdminsRemain(c.target)
        /\ c.stage = "commit" /\ c.kind = "delete" => c.target # c.caller

\* A use of a link is about the password it was issued for, or an older one.
UseStands(r) ==
    LET c == call[r] IN
    c.kind = "confirm" =>
        /\ c.stage = "write"
        /\ c.fp <= hash[c.target]
        /\ r \notin overtaken => c.fp = hash[c.target]

\* Every password gets a hash of its own, and a link once used is out of date.
HashesStand ==
    /\ \A u \in Users : hash[u] <= lastHash
    /\ \A l \in Link : spent[l] > 0 => l.fp < hash[l.user]

IInv == TypeOK /\ HashesStand /\ \A r \in Reqs : Stands(r) /\ UseStands(r)

LEMMA IInvInit == Init => IInv
  <1> SUFFICES ASSUME Init PROVE IInv
    OBVIOUS
  <1>1. TypeOK
    BY TypeInit
  <1>2. HashesStand
    BY DEF Init, HashesStand, Link
  <1>3. ASSUME NEW r \in Reqs PROVE Stands(r) /\ UseStands(r)
    BY NoCallTyped DEF Init, Stands, UseStands
  <1>4. QED
    BY <1>1, <1>2, <1>3 DEF IInv

LEMMA HashNumbers ==
    ASSUME TypeOK
    PROVE  /\ \A u \in Users : hash[u] \in Nat
           /\ \A r \in Reqs : call[r].target \in Users /\ call[r].fp \in Nat
           /\ \A l \in Link : l.user \in Users /\ l.fp \in Nat
           /\ lastHash \in Nat
  BY BoundsAssumption DEF TypeOK, Hash, Link

\* Nothing is lost to a request in hand that is not overtaken.
LEMMA NotOvertaken ==
    ASSUME Watch, NEW r \in Reqs, call[r].stage # "idle", call'[r].stage # "idle", r \notin overtaken'
    PROVE  r \notin overtaken /\ ~Overtakes(r)
  BY DEF Watch

\* A request that does nothing in this step.
LEMMA BystanderStands ==
    ASSUME IInv, Watch, NEW q \in Reqs, call'[q] = call[q]
    PROVE  Stands(q)'
  <1> SUFFICES ASSUME q \notin overtaken', call[q].kind # "confirm", call[q].stage # "idle"
               PROVE  Stands(q)'
    BY DEF Stands
  <1>1. q \notin overtaken /\ \A u \in Users : ~Loses(u)
    BY NotOvertaken DEF Overtakes
  <1>2. present \subseteq Users /\ call[q].caller \in Users
    BY DEF IInv, TypeOK
  <1>3. \A u \in present : u \in present' /\ (isAdmin[u] => isAdmin'[u]) /\ (isActive[u] => isActive'[u])
    BY <1>1, <1>2 DEF Loses
  <1>4. \A u : OtherActiveAdminsRemain(u) => OtherActiveAdminsRemain(u)'
    BY <1>3 DEF OtherActiveAdminsRemain
  <1>5. Stands(q)
    BY DEF IInv
  <1>6. QED
    BY <1>1, <1>3, <1>4, <1>5 DEF Stands

LEMMA BystanderUse ==
    ASSUME IInv, Watch, NEW q \in Reqs, call'[q] = call[q],
           TypeOK', \A u \in Users : hash[u] <= hash'[u]
    PROVE  UseStands(q)'
  <1> SUFFICES ASSUME call[q].kind = "confirm" PROVE UseStands(q)'
    BY DEF UseStands
  <1>1. UseStands(q)
    BY DEF IInv
  <1>2. /\ call[q].target \in Users /\ call[q].fp \in Nat
        /\ hash[call[q].target] \in Nat
    BY HashNumbers DEF IInv
  <1>3. hash'[call[q].target] \in Nat
    BY <1>2, BoundsAssumption DEF TypeOK, Hash
  <1>4. call[q].fp <= hash'[call[q].target]
    BY <1>1, <1>2, <1>3 DEF UseStands
  <1>5. ASSUME q \notin overtaken' PROVE call[q].fp = hash'[call[q].target]
    BY <1>1, <1>5, NotOvertaken DEF UseStands, Overtakes
  <1>6. QED
    BY <1>1, <1>4, <1>5 DEF UseStands

\* A step of one request keeps the invariant when it keeps that request's part.
LEMMA StepStands ==
    ASSUME IInv, Watch, TypeOK', NEW r \in Reqs,
           \A q \in Reqs \ {r} : call'[q] = call[q],
           HashesStand', \A u \in Users : hash[u] <= hash'[u],
           Stands(r)', UseStands(r)'
    PROVE  IInv'
  BY BystanderStands, BystanderUse DEF IInv

\* A request that ends leaves nothing to be said of it.
LEMMA ReplyStands ==
    ASSUME IInv, NEW r \in Reqs, Reply(r)
    PROVE  /\ call'[r] = NoCall /\ call'[r].stage = "idle"
           /\ \A q \in Reqs \ {r} : call'[q] = call[q]
           /\ Stands(r)' /\ UseStands(r)'
  BY NoCallTyped DEF IInv, TypeOK, Reply, Stands, UseStands

\* Steps that set no password.
LEMMA SameHashes ==
    ASSUME IInv, UNCHANGED <<hash, lastHash, spent>>
    PROVE  HashesStand' /\ \A u \in Users : hash[u] <= hash'[u]
  BY HashNumbers DEF IInv, HashesStand

\* A new hash is newer than any other.
LEMMA NewHash ==
    ASSUME IInv, NEW u \in Users, SetHash(u)
    PROVE  /\ \A v \in Users : hash[v] <= hash'[v] /\ hash'[v] <= lastHash'
           /\ \A v \in Users : hash'[v] \in Nat
           /\ hash[u] < hash'[u]
  <1>1. /\ hash' = [hash EXCEPT ![u] = lastHash + 1] /\ lastHash' = lastHash + 1
        /\ \A v \in Users : hash[v] \in Nat /\ hash[v] <= lastHash
        /\ lastHash \in Nat
    BY HashNumbers DEF SetHash, IInv, HashesStand
  <1>2. \A v \in Users : hash'[v] = IF v = u THEN lastHash + 1 ELSE hash[v]
    BY <1>1 DEF IInv, TypeOK
  <1>3. QED
    BY <1>1, <1>2

\* A request that enters has an active caller and has loaded nothing.
LEMMA EnterStands ==
    ASSUME IInv, Watch, TypeOK', NEW r \in Reqs, NEW c \in Request, c.kind # "confirm", Enter(r, c)
    PROVE  IInv'
  <1>1. /\ call'[r] = [c EXCEPT !.stage = "auth"]
        /\ \A q \in Reqs \ {r} : call'[q] = call[q]
    BY DEF Enter, IInv, TypeOK
  <1>2. /\ call'[r].kind = c.kind /\ call'[r].stage = "auth" /\ call'[r].caller = c.caller
    BY <1>1 DEF Request
  <1>3. Stands(r)' /\ UseStands(r)'
    BY <1>2 DEF Enter, accounts, Stands, UseStands
  <1>4. QED
    BY <1>1, <1>3, SameHashes, StepStands DEF Enter, accounts

LEMMA ConfirmStands ==
    ASSUME IInv, Watch, TypeOK', NEW r \in Reqs, NEW l \in links, Confirm(r, l)
    PROVE  IInv'
  <1>1. /\ call'[r] = [NoCall EXCEPT !.kind = "confirm", !.stage = "write", !.target = l.user, !.fp = l.fp]
        /\ \A q \in Reqs \ {r} : call'[q] = call[q]
    BY DEF Confirm, IInv, TypeOK
  <1>2. /\ call'[r].kind = "confirm" /\ call'[r].stage = "write"
        /\ call'[r].target = l.user /\ call'[r].fp = l.fp
    BY <1>1, NoCallTyped DEF Request
  <1>3. l.fp = hash'[l.user] /\ l.fp \in Nat
    BY HashNumbers DEF Confirm, accounts, IInv, TypeOK
  <1>4. Stands(r)' /\ UseStands(r)'
    BY <1>2, <1>3 DEF Stands, UseStands
  <1>5. QED
    BY <1>1, <1>4, SameHashes, StepStands DEF Confirm, accounts

LEMMA LoadCallerStands ==
    ASSUME IInv, Watch, TypeOK', NEW r \in Reqs, LoadCaller(r)
    PROVE  IInv'
  <1>1. HashesStand' /\ \A u \in Users : hash[u] <= hash'[u]
    BY SameHashes DEF LoadCaller, accounts, Same
  <1>2. CASE Reply(r)
    BY <1>1, <1>2, ReplyStands, StepStands
  <1>3. CASE ~Reply(r)
    <2> DEFINE c == call[r]
               u == c.caller
    <2>1. call' = [call EXCEPT ![r] = [c EXCEPT
                      !.wasAdmin = isAdmin[u], !.wasActive = isActive[u],
                      !.stage = IF c.kind = "update" THEN "target"
                                ELSE IF c.kind = "create" THEN "commit"
                                ELSE IF c.kind = "delete" THEN "guard" ELSE "write"]]
      BY <1>3 DEF LoadCaller
    <2>2. c \in Request /\ c.stage = "auth" /\ call \in [Reqs -> Request]
      BY DEF LoadCaller, At, IInv, TypeOK, Request
    <2>3. \A q \in Reqs \ {r} : call'[q] = call[q]
      BY <2>1, <2>2
    <2>4. /\ call'[r].kind = c.kind /\ call'[r].caller = u /\ call'[r].target = c.target
          /\ call'[r].wasAdmin = isAdmin[u] /\ call'[r].wasActive = isActive[u]
          /\ call'[r].stage = IF c.kind = "update" THEN "target"
                              ELSE IF c.kind = "create" THEN "commit"
                              ELSE IF c.kind = "delete" THEN "guard" ELSE "write"
      BY <2>1, <2>2, ZenonT(40) DEF Request
    <2>5. c.kind # "ownPassword" => isAdmin[u]
      BY <1>3 DEF LoadCaller
    <2>6. c.kind # "confirm"
      BY <2>2 DEF IInv, UseStands
    <2>7. UseStands(r)'
      BY <2>4, <2>6 DEF UseStands
    <2>8. Stands(r)'
      <3> SUFFICES ASSUME r \notin overtaken' PROVE Stands(r)'
        BY DEF Stands
      <3>1. r \notin overtaken
        BY <2>2, <2>4, NotOvertaken
      <3>2. u \in present /\ isActive[u] /\ UNCHANGED <<present, isAdmin, isActive>>
        BY <2>2, <2>6, <3>1 DEF IInv, Stands, LoadCaller, accounts
      <3>3. QED
        BY <2>4, <2>5, <3>2 DEF Stands
    <2>9. QED
      BY <1>1, <2>3, <2>7, <2>8, StepStands
  <1>4. QED
    BY <1>2, <1>3

LEMMA LoadTargetStands ==
    ASSUME IInv, Watch, TypeOK', NEW r \in Reqs, LoadTarget(r)
    PROVE  IInv'
  <1>1. HashesStand' /\ \A u \in Users : hash[u] <= hash'[u]
    BY SameHashes DEF LoadTarget, accounts, Same
  <1>2. CASE Reply(r)
    BY <1>1, <1>2, ReplyStands, StepStands
  <1>3. CASE ~Reply(r)
    <2> DEFINE c == call[r]
               u == c.target
               was == IF u = c.caller THEN c.wasAdmin ELSE isAdmin[u]
               did == IF u = c.caller THEN c.wasActive ELSE isActive[u]
    <2>1. call' = [call EXCEPT ![r] = [c EXCEPT !.stage = "guard", !.wasAdmin = was, !.wasActive = did]]
      <3>1. call[r] \in Request
        BY DEF IInv, TypeOK, Request
      <3>2. QED
        BY <1>3, <3>1 DEF LoadTarget, Request
    <2>2. c \in Request /\ c.stage = "target" /\ call \in [Reqs -> Request]
      BY DEF LoadTarget, At, IInv, TypeOK, Request
    <2>3. \A q \in Reqs \ {r} : call'[q] = call[q]
      BY <2>1, <2>2
    <2>4. /\ call'[r].kind = c.kind /\ call'[r].caller = c.caller /\ call'[r].target = u
          /\ call'[r].wasAdmin = was /\ call'[r].wasActive = did
          /\ call'[r].stage = "guard"
      BY <2>1, <2>2, ZenonT(40) DEF Request
    <2>5. c.kind # "confirm"
      BY <2>2 DEF IInv, UseStands
    <2>6. UseStands(r)'
      BY <2>4, <2>5 DEF UseStands
    <2>7. Stands(r)'
      <3> SUFFICES ASSUME r \notin overtaken' PROVE Stands(r)'
        BY DEF Stands
      <3>1. r \notin overtaken
        BY <2>2, <2>4, NotOvertaken
      <3>2. Stands(r) /\ UNCHANGED <<present, isAdmin, isActive>>
        BY DEF IInv, LoadTarget, accounts
      <3>3. QED
        BY <2>2, <2>4, <2>5, <3>1, <3>2 DEF Stands
    <2>8. QED
      BY <1>1, <2>3, <2>6, <2>7, StepStands
  <1>4. QED
    BY <1>2, <1>3

LEMMA GuardStands ==
    ASSUME IInv, Watch, TypeOK', NEW r \in Reqs, Guard(r)
    PROVE  IInv'
  <1>1. HashesStand' /\ \A u \in Users : hash[u] <= hash'[u]
    BY SameHashes DEF Guard, accounts, Same
  <1>2. CASE Reply(r)
    BY <1>1, <1>2, ReplyStands, StepStands
  <1>3. CASE ~Reply(r)
    <2> DEFINE c == call[r]
    <2>1. call' = [call EXCEPT ![r].stage = "commit"]
      BY <1>3 DEF Guard, Goto
    <2>2. c \in Request /\ c.stage = "guard" /\ call \in [Reqs -> Request]
      BY DEF Guard, At, IInv, TypeOK, Request
    <2>3. \A q \in Reqs \ {r} : call'[q] = call[q]
      BY <2>1, <2>2
    <2>4. /\ call'[r].kind = c.kind /\ call'[r].caller = c.caller /\ call'[r].target = c.target
          /\ call'[r].wasAdmin = c.wasAdmin /\ call'[r].wasActive = c.wasActive
          /\ call'[r].admin = c.admin /\ call'[r].active = c.active
          /\ call'[r].stage = "commit"
      BY <2>1, <2>2 DEF Request
    <2>5. c.kind # "confirm"
      BY <2>2 DEF IInv, UseStands
    <2>6. UseStands(r)'
      BY <2>4, <2>5 DEF UseStands
    <2>7. Stands(r)'
      <3> SUFFICES ASSUME r \notin overtaken' PROVE Stands(r)'
        BY DEF Stands
      <3>1. r \notin overtaken
        BY <2>2, <2>4, NotOvertaken
      <3>2. Stands(r) /\ UNCHANGED <<present, isAdmin, isActive>>
        BY DEF IInv, Guard, accounts
      <3>3. /\ c.caller \in present /\ isActive[c.caller] /\ isAdmin[c.caller]
            /\ c.target = c.caller => c.wasAdmin /\ c.wasActive
        BY <2>2, <2>5, <3>1, <3>2 DEF Stands
      <3>4. /\ c.kind = "delete" => c.target # c.caller
            /\ c.kind = "update" /\ c.target = c.caller =>
                  \/ ~((c.admin = "off" /\ c.wasAdmin) \/ (c.active = "off" /\ c.wasActive))
                  \/ OtherActiveAdminsRemain(c.target)
        BY <1>3 DEF Guard
      <3>5. OtherActiveAdminsRemain(c.target)' <=> \E v \in present' \ {c.target} : isAdmin'[v] /\ isActive'[v]
        BY <2>4 DEF OtherActiveAdminsRemain
      <3>6. QED
        BY <2>4, <3>2, <3>3, <3>4 DEF Stands, OtherActiveAdminsRemain
    <2>8. QED
      BY <1>1, <2>3, <2>6, <2>7, StepStands
  <1>4. QED
    BY <1>2, <1>3

LEMMA CommitCreateStands ==
    ASSUME IInv, Watch, TypeOK', NEW r \in Reqs, CommitCreate(r)
    PROVE  IInv'
  <1>1. call[r].target \in Users /\ spent' = spent
    BY HashNumbers DEF IInv, CommitCreate, Same
  <1>2. HashesStand' /\ \A u \in Users : hash[u] <= hash'[u]
    <2>1. CASE UNCHANGED <<hash, lastHash>>
      BY <1>1, <2>1, SameHashes
    <2>2. CASE SetHash(call[r].target)
      <3>1. /\ \A v \in Users : hash[v] <= hash'[v] /\ hash'[v] <= lastHash'
            /\ \A v \in Users : hash'[v] \in Nat /\ hash[v] \in Nat
            /\ \A l \in Link : l.user \in Users /\ l.fp \in Nat
        BY <1>1, <2>2, NewHash, HashNumbers DEF IInv
      <3>2. \A l \in Link : spent[l] > 0 => l.fp < hash'[l.user]
        BY <3>1 DEF IInv, HashesStand
      <3>3. QED
        BY <1>1, <3>1, <3>2 DEF HashesStand
    <2>3. QED
      BY <2>1, <2>2 DEF CommitCreate
  <1>3. QED
    BY <1>2, ReplyStands, StepStands DEF CommitCreate

LEMMA WritePasswordStands ==
    ASSUME IInv, Watch, TypeOK', NEW r \in Reqs, WritePassword(r)
    PROVE  IInv'
  <1> DEFINE u == IF call[r].kind = "ownPassword" THEN call[r].caller ELSE call[r].target
             k == [user |-> u, fp |-> call[r].fp]
  <1>1. u \in Users /\ k \in Link /\ spent \in [Link -> Nat]
    BY OwnerTyped DEF IInv, TypeOK
  <1>2. CASE u \notin present
    BY <1>2, SameHashes, ReplyStands, StepStands DEF WritePassword
  <1>3. CASE u \in present
    <2>1. SetHash(u) /\ spent' = IF call[r].kind = "confirm" THEN [spent EXCEPT ![k] = @ + 1] ELSE spent
      BY <1>3 DEF WritePassword
    <2>2. /\ \A v \in Users : hash[v] <= hash'[v] /\ hash'[v] <= lastHash'
          /\ \A v \in Users : hash'[v] \in Nat /\ hash[v] \in Nat
          /\ hash[u] < hash'[u]
          /\ \A l \in Link : l.user \in Users /\ l.fp \in Nat
      BY <1>1, <2>1, NewHash, HashNumbers DEF IInv
    <2>3. ASSUME NEW l \in Link, spent'[l] > 0 PROVE l.fp < hash'[l.user]
      <3>1. CASE spent[l] > 0
        <4>1. l.fp < hash[l.user]
          BY <3>1 DEF IInv, HashesStand
        <4>2. QED
          BY <4>1, <2>2
      <3>2. CASE ~(spent[l] > 0)
        <4>1. l = k /\ call[r].kind = "confirm"
          BY <3>2, <2>3, <1>1, <2>1
        <4>2. l.user = u /\ l.fp = call[r].fp /\ l.fp <= hash[u]
          BY <4>1 DEF IInv, UseStands
        <4>3. QED
          BY <4>2, <2>2, <1>1
      <3>3. QED
        BY <3>1, <3>2
    <2>4. HashesStand'
      BY <2>2, <2>3 DEF HashesStand
    <2>5. QED
      BY <2>2, <2>4, ReplyStands, StepStands DEF WritePassword
  <1>4. QED
    BY <1>2, <1>3

LEMMA IInvNext == IInv /\ [Next]_vars => IInv'
  <1> SUFFICES ASSUME IInv, [Next]_vars PROVE IInv'
    OBVIOUS
  <1>0. TypeOK'
    BY TypeNext DEF IInv
  <1>1. CASE UNCHANGED vars
    BY <1>0, <1>1 DEF vars, accounts, IInv, HashesStand, Stands, UseStands, OtherActiveAdminsRemain
  <1>2. ASSUME Watch, Step PROVE IInv'
    <2>1. ASSUME NEW r \in Reqs, NEW c \in Users, NEW u \in Users, NEW admin \in Wish, NEW active \in Wish,
                 Update(r, c, u, admin, active)
          PROVE  IInv'
      <3>1. [NoCall EXCEPT !.caller = c, !.target = u, !.admin = admin, !.active = active] \in Request
        BY NoCallTyped DEF Request
      <3>2. QED
        BY <1>0, <1>2, <2>1, <3>1, EnterStands, NoCallTyped DEF Update, Request
    <2>2. ASSUME NEW r \in Reqs, NEW c \in Users, NEW u \in Users, NEW admin \in BOOLEAN,
                 Create(r, c, u, admin)
          PROVE  IInv'
      <3>1. [NoCall EXCEPT !.kind = "create", !.caller = c, !.target = u,
                           !.admin = IF admin THEN "on" ELSE "off"] \in Request
        BY NoCallTyped DEF Request, AllKinds, Wish
      <3>2. QED
        BY <1>0, <1>2, <2>2, <3>1, EnterStands, NoCallTyped DEF Create, Request
    <2>3. ASSUME NEW r \in Reqs, NEW c \in Users, NEW u \in Users,
                 NEW kind \in {"delete", "setPassword", "ownPassword"}, Manage(r, kind, c, u)
          PROVE  IInv'
      <3>1. [NoCall EXCEPT !.kind = kind, !.caller = c, !.target = u] \in Request
        BY NoCallTyped DEF Request, AllKinds
      <3>2. QED
        BY <1>0, <1>2, <2>3, <3>1, EnterStands, NoCallTyped DEF Manage, Request
    <2>4. ASSUME NEW r \in Reqs, NEW l \in links, Confirm(r, l) PROVE IInv'
      BY <1>0, <1>2, <2>4, ConfirmStands
    <2>5. ASSUME NEW r \in Reqs, LoadCaller(r) \/ LoadTarget(r) \/ Guard(r) PROVE IInv'
      BY <1>0, <1>2, <2>5, LoadCallerStands, LoadTargetStands, GuardStands
    <2>6. ASSUME NEW r \in Reqs, CommitUpdate(r) \/ CommitDelete(r) PROVE IInv'
      <3>1. Reply(r) /\ UNCHANGED <<hash, lastHash, spent>>
        BY <2>6 DEF CommitUpdate, CommitDelete, Same
      <3>2. QED
        BY <1>0, <1>2, <3>1, SameHashes, ReplyStands, StepStands
    <2>7. ASSUME NEW r \in Reqs, CommitCreate(r) \/ WritePassword(r) PROVE IInv'
      BY <1>0, <1>2, <2>7, CommitCreateStands, WritePasswordStands
    <2>8. CASE UNCHANGED <<accounts, spent, call>>
      <3>1. HashesStand' /\ \A u \in Users : hash[u] <= hash'[u]
        BY <2>8, SameHashes DEF accounts
      <3>2. \A q \in Reqs : Stands(q)' /\ UseStands(q)'
        BY <1>0, <1>2, <2>8, <3>1, BystanderStands, BystanderUse
      <3>3. QED
        BY <1>0, <3>1, <3>2 DEF IInv
    <2>9. QED
      BY <1>2, <2>1, <2>2, <2>3, <2>4, <2>5, <2>6, <2>7, <2>8 DEF Step, RequestReset, Expire
  <1>3. QED
    BY <1>1, <1>2 DEF Next

-----------------------------------------------------------------------------
(***************************************************************************)
(* The two guarantees.                                                     *)
(***************************************************************************)

\* A commit that nothing has overtaken leaves its caller, or somebody whom the guard
\* has seen, as an active admin.
LEMMA CommitLeavesAdmin ==
    ASSUME IInv, NEW r \in Reqs, r \notin overtaken, CommitUpdate(r) \/ CommitDelete(r)
    PROVE  SomeActiveAdmin'
  <1> DEFINE c == call[r]
             a == c.caller
             u == c.target
  <1>1. /\ a \in Users /\ u \in Users /\ present \subseteq Users
        /\ isAdmin \in [Users -> BOOLEAN] /\ isActive \in [Users -> BOOLEAN]
        /\ c.admin \in Wish /\ c.active \in Wish
    BY DEF IInv, TypeOK
  <1>2. c.stage = "commit" /\ c.kind \in {"update", "delete"} /\ Stands(r)
    BY DEF CommitUpdate, CommitDelete, At, IInv
  <1>3. /\ a \in present /\ isActive[a] /\ isAdmin[a]
        /\ u = a => c.wasAdmin /\ c.wasActive
    BY <1>2 DEF Stands
  <1>4. CASE CommitDelete(r)
    <2>1. u # a
      BY <1>2, <1>4 DEF CommitDelete, Stands
    <2>2. QED
      BY <1>3, <1>4, <2>1 DEF CommitDelete, SomeActiveAdmin
  <1>5. CASE CommitUpdate(r)
    <2>1. present' = present /\ \A v \in Users \ {u} : isAdmin'[v] = isAdmin[v] /\ isActive'[v] = isActive[v]
      BY <1>1, <1>5 DEF CommitUpdate
    <2>2. CASE u # a
      BY <1>1, <1>3, <2>1, <2>2 DEF SomeActiveAdmin
    <2>3. CASE OtherActiveAdminsRemain(u)
      BY <1>1, <2>1, <2>3 DEF SomeActiveAdmin, OtherActiveAdminsRemain
    <2>4. CASE u = a /\ c.admin # "off" /\ c.active # "off"
      <3>1. c.wasAdmin = TRUE /\ c.wasActive = TRUE
        BY <1>3, <2>4 DEF IInv, TypeOK
      <3>2. Wants(c.admin, c.wasAdmin) = c.wasAdmin /\ Wants(c.active, c.wasActive) = c.wasActive
        BY <1>1, <2>4, <3>1 DEF Wants, Wish
      <3>3. isAdmin' = isAdmin /\ isActive' = isActive
        BY <1>1, <1>5, <3>2 DEF CommitUpdate
      <3>4. QED
        BY <1>3, <2>1, <3>3 DEF SomeActiveAdmin
    <2>5. QED
      <3>1. c.kind = "update"
        BY <1>5 DEF CommitUpdate
      <3>2. QED
        BY <1>2, <2>2, <2>3, <2>4, <3>1 DEF Stands
  <1>6. QED
    BY <1>4, <1>5

\* Whoever is promoted, demoted, deactivated, created or deleted, by however many
\* requests at the same time: the last active admin goes only by the commit of a
\* request that another one's commit has overtaken (users_update, users_delete).
THEOREM AdminsLostInRaces == Spec => AdminsLostInRacesOnly
  <1>1. IInv /\ [Next]_vars =>
            [SomeActiveAdmin /\ ~SomeActiveAdmin' => \E r \in overtaken : Finishes(r, "commit")]_vars
    <2> SUFFICES ASSUME IInv, Step, SomeActiveAdmin, ~SomeActiveAdmin'
                 PROVE  \E r \in overtaken : Finishes(r, "commit")
      BY DEF Next
    <2>1. ~UNCHANGED <<present, isAdmin, isActive>>
      BY DEF SomeActiveAdmin
    <2>2. PICK r \in Reqs : CommitUpdate(r) \/ CommitCreate(r) \/ CommitDelete(r)
      <3>1. \A r \in Reqs : \A c : ~Enter(r, c)
        BY <2>1 DEF Enter, accounts
      <3>2. \A r \in Reqs : ~(LoadCaller(r) \/ LoadTarget(r) \/ Guard(r) \/ WritePassword(r))
        BY <2>1 DEF LoadCaller, LoadTarget, Guard, WritePassword, accounts
      <3>3. \A k : ~Expire(k) /\ ~RequestReset(k) /\ \A r \in Reqs : ~Confirm(r, k)
        BY <2>1 DEF Expire, RequestReset, Confirm, accounts
      <3>4. QED
        BY <3>1, <3>2, <3>3 DEF Step, Update, Create, Manage
    <2>3. ~CommitCreate(r)
      <3> SUFFICES ASSUME CommitCreate(r) PROVE FALSE
        OBVIOUS
      <3>1. PICK v \in present : isAdmin[v] /\ isActive[v]
        BY DEF SomeActiveAdmin
      <3>2. v \in present' /\ isActive' = isActive
        BY <3>1 DEF CommitCreate
      <3>3. isAdmin'[v] = isAdmin[v]
        BY <3>1 DEF CommitCreate, IInv, TypeOK
      <3>4. QED
        BY <3>1, <3>2, <3>3 DEF SomeActiveAdmin
    <2>4. r \in overtaken
      BY <2>2, <2>3, CommitLeavesAdmin
    <2>5. At(r, "commit") /\ Reply(r)
      BY <2>2, <2>3 DEF CommitUpdate, CommitDelete
    <2>6. QED
      BY <2>4, <2>5, ReplyStands DEF Finishes
  <1>2. QED
    BY <1>1, IInvNext, IInvInit, PTL DEF Spec, AdminsLostInRacesOnly

\* However many requests use a link at the same time: it sets one password, in
\* place of the one it was issued for, except by a request that had compared the
\* fingerprint before another password was set (password_reset_confirm).
THEOREM ALinkWorksOnce == Spec => LinkWorksOnce
  <1>1. IInv /\ [Next]_vars =>
            [\A l \in Link :
                spent'[l] > spent[l] =>
                    \/ spent[l] = 0 /\ hash[l.user] = l.fp
                    \/ \E r \in overtaken :
                          /\ Finishes(r, "write") /\ call[r].kind = "confirm"
                          /\ call[r].target = l.user /\ call[r].fp = l.fp]_vars
    <2> SUFFICES ASSUME IInv, Step, NEW l \in Link, spent'[l] > spent[l]
                 PROVE  \/ spent[l] = 0 /\ hash[l.user] = l.fp
                        \/ \E r \in overtaken :
                              /\ Finishes(r, "write") /\ call[r].kind = "confirm"
                              /\ call[r].target = l.user /\ call[r].fp = l.fp
      BY DEF Next
    <2>1. /\ spent \in [Link -> Nat] /\ l.user \in Users /\ l.fp \in Nat
          /\ hash[l.user] \in Nat
      BY HashNumbers DEF IInv, TypeOK
    <2>2. spent' # spent
      BY <2>1
    <2>3. PICK r \in Reqs : WritePassword(r)
      <3>1. \A r \in Reqs : \A c : ~Enter(r, c)
        BY <2>2 DEF Enter
      <3>2. \A r \in Reqs : ~(LoadCaller(r) \/ LoadTarget(r) \/ Guard(r))
        BY <2>2 DEF LoadCaller, LoadTarget, Guard, Same
      <3>3. \A r \in Reqs : ~(CommitUpdate(r) \/ CommitCreate(r) \/ CommitDelete(r))
        BY <2>2 DEF CommitUpdate, CommitCreate, CommitDelete, Same
      <3>4. \A k : ~Expire(k) /\ ~RequestReset(k) /\ \A r \in Reqs : ~Confirm(r, k)
        BY <2>2 DEF Expire, RequestReset, Confirm
      <3>5. QED
        BY <3>1, <3>2, <3>3, <3>4 DEF Step, Update, Create, Manage
    <2>4. call[r].kind = "confirm" /\ l = [user |-> call[r].target, fp |-> call[r].fp]
      BY <2>1, <2>3 DEF WritePassword
    <2>5. call[r].target = l.user /\ call[r].fp = l.fp
      BY <2>4
    <2>6. CASE r \in overtaken
      <3>1. At(r, "write") /\ Reply(r)
        BY <2>3 DEF WritePassword
      <3>2. Finishes(r, "write")
        BY <3>1, ReplyStands DEF Finishes
      <3>3. QED
        BY <2>4, <2>5, <2>6, <3>2
    <2>7. CASE r \notin overtaken
      <3>1. hash[l.user] = l.fp
        BY <2>4, <2>5, <2>7 DEF IInv, UseStands
      <3>2. ~(spent[l] > 0)
        BY <2>1, <3>1 DEF IInv, HashesStand
      <3>3. QED
        BY <2>1, <3>1, <3>2
    <2>8. QED
      BY <2>6, <2>7
  <1>2. QED
    BY <1>1, IInvNext, IInvInit, PTL DEF Spec, LinkWorksOnce
=============================================================================
