------------------------------ MODULE Accounts ------------------------------
(***************************************************************************)
(* User accounts, the right to administer them and password resets (the    *)
(* users_* and password_reset_* handlers of main.py).                      *)
(*                                                                         *)
(* All of them are def handlers: each request runs on a thread of its own, *)
(* with a READ COMMITTED session, and others come between its steps, which *)
(* are the accesses to the database.  The session remembers the caller it  *)
(* loaded, so that a request about the caller's own account judges it by   *)
(* what it was then; an UPDATE is sent for changed attributes only.        *)
(* A password is its salted hash, which no two changes ever share.         *)
(***************************************************************************)
EXTENDS Integers, FiniteSets

CONSTANTS
    Users,      \* accounts that may exist
    Admins,     \* the accounts of the start, all of them active admins
    Reqs,       \* requests in flight at the same time
    Kinds,      \* the kinds of request the clients send
    MaxCalls,   \* bound: requests in a behaviour
    MaxHash     \* bound: passwords set in a behaviour

AllKinds == {"create", "update", "delete", "setPassword", "ownPassword", "confirm"}

ASSUME UsersAssumption == Admins \subseteq Users /\ Admins # {}
ASSUME KindsAssumption == Kinds \subseteq AllKinds
ASSUME BoundsAssumption == MaxCalls \in Nat /\ MaxHash \in Nat

VARIABLES
    present,    \* the accounts that exist
    born,       \* the accounts that were ever created
    isAdmin,    \* User.is_admin
    isActive,   \* User.is_active
    hash,       \* User.password_hash
    lastHash,   \* the newest hash
    links,      \* reset links mailed and not expired: user and fingerprint
    spent,      \* spent[l]: how many times link l has set a password
    call,       \* call[r]: the request in hand
    calls,      \* requests so far
    overtaken   \* history: the requests in hand from which another one's commit has
                \* taken away something they may have checked

accounts == <<present, born, isAdmin, isActive, hash, lastHash>>
vars == <<accounts, links, spent, call, calls, overtaken>>

Hash == 0..MaxHash
Link == [user : Users, fp : Hash]

\* What UserUpdateRequest asks of a flag.
Wish == {"keep", "on", "off"}

Stages == {"idle", "auth", "admin", "target", "guard", "commit", "write"}

TypeOK ==
    /\ present \subseteq born /\ born \subseteq Users
    /\ isAdmin \in [Users -> BOOLEAN]
    /\ isActive \in [Users -> BOOLEAN]
    /\ hash \in [Users -> Hash]
    /\ lastHash \in Hash
    /\ links \subseteq Link
    /\ spent \in [Link -> Nat]
    /\ call \in [Reqs -> [kind : AllKinds, stage : Stages, caller : Users, target : Users,
                          admin : Wish, active : Wish,
                          wasAdmin : BOOLEAN, wasActive : BOOLEAN, fp : Hash]]
    /\ calls \in 0..MaxCalls
    /\ overtaken \subseteq Reqs

Idle(u) == [kind |-> "update", stage |-> "idle", caller |-> u, target |-> u,
            admin |-> "keep", active |-> "keep", wasAdmin |-> FALSE, wasActive |-> FALSE,
            fp |-> 0]

NoCall == Idle(CHOOSE u \in Users : TRUE)

\* ensure_bootstrap_user makes the first admin; with several, the others were
\* promoted before the behaviour starts.
Init ==
    /\ present = Admins
    /\ born = Admins
    /\ isAdmin = [u \in Users |-> u \in Admins]
    /\ isActive = [u \in Users |-> TRUE]
    /\ hash = [u \in Users |-> 0]
    /\ lastHash = 0
    /\ links = {}
    /\ spent = [l \in Link |-> 0]
    /\ call = [r \in Reqs |-> NoCall]
    /\ calls = 0
    /\ overtaken = {}

-----------------------------------------------------------------------------
(***************************************************************************)
(* Helpers.                                                                *)
(***************************************************************************)

At(r, stage) == call[r].stage = stage

Goto(r, stage) == call' = [call EXCEPT ![r].stage = stage]

\* The response is sent; the guards that refuse a request end here too.
Reply(r) == call' = [call EXCEPT ![r] = NoCall]

Same == UNCHANGED <<links, spent, calls>>

Wants(wish, old) == IF wish = "keep" THEN old ELSE wish = "on"

\* change_password: a new hash.
SetHash(u) ==
    /\ hash' = [hash EXCEPT ![u] = lastHash + 1]
    /\ lastHash' = lastHash + 1

\* _other_active_admins_remain.
OtherActiveAdminsRemain(u) == \E v \in present \ {u} : isAdmin[v] /\ isActive[v]

-----------------------------------------------------------------------------
(***************************************************************************)
(* A request arrives and the middleware lets it in: its caller exists, is  *)
(* active and knows the password.                                          *)
(***************************************************************************)
Enter(r, c) ==
    /\ c.kind \in Kinds
    /\ At(r, "idle")
    /\ calls < MaxCalls
    /\ calls' = calls + 1
    /\ c.caller \in present /\ isActive[c.caller]
    /\ call' = [call EXCEPT ![r] = [c EXCEPT !.stage = "auth"]]
    /\ UNCHANGED <<accounts, links, spent>>

Update(r, caller, target, admin, active) ==
    Enter(r, [NoCall EXCEPT !.caller = caller, !.target = target,
                            !.admin = admin, !.active = active])

Manage(r, kind, caller, target) ==
    Enter(r, [NoCall EXCEPT !.kind = kind, !.caller = caller, !.target = target])

Create(r, caller, target, admin) ==
    Enter(r, [NoCall EXCEPT !.kind = "create", !.caller = caller, !.target = target,
                            !.admin = IF admin THEN "on" ELSE "off"])

\* password_reset_request: a link is mailed to an active account.
RequestReset(u) ==
    /\ "confirm" \in Kinds
    /\ u \in present /\ isActive[u]
    /\ links' = links \cup {[user |-> u, fp |-> hash[u]]}
    /\ UNCHANGED <<accounts, spent, call, calls>>

\* The link outlives its 30 minutes.
Expire(l) ==
    /\ l \in links
    /\ links' = links \ {l}
    /\ UNCHANGED <<accounts, spent, call, calls>>

\* A check of the signature and the age of the link only.
FaultyConfirm(r, l) ==
    /\ "confirm" \in Kinds
    /\ At(r, "idle")
    /\ calls < MaxCalls
    /\ calls' = calls + 1
    /\ l.user \in present
    /\ call' = [call EXCEPT ![r] = [NoCall EXCEPT !.kind = "confirm", !.stage = "write",
                                                  !.target = l.user, !.fp = l.fp]]
    /\ UNCHANGED <<accounts, links, spent>>

\* password_reset_confirm up to change_password: the link is authentic and not
\* expired, and its fingerprint is that of the password loaded.
Confirm(r, l) ==
    /\ "confirm" \in Kinds
    /\ At(r, "idle")
    /\ calls < MaxCalls
    /\ calls' = calls + 1
    /\ l.user \in present
    /\ hash[l.user] = l.fp
    /\ call' = [call EXCEPT ![r] = [NoCall EXCEPT !.kind = "confirm", !.stage = "write",
                                                  !.target = l.user, !.fp = l.fp]]
    /\ UNCHANGED <<accounts, links, spent>>

-----------------------------------------------------------------------------
(***************************************************************************)
(* The steps of a request.                                                 *)
(***************************************************************************)

\* get_current_user and require_admin load the caller.  A user changing the own
\* password need not be an admin; authenticate_user checks the old one again.
LoadCaller(r) ==
    LET c == call[r]
        u == c.caller
        own == c.kind = "ownPassword"
    IN  /\ At(r, "auth")
        /\ IF u \notin present \/ (IF own THEN ~isActive[u] ELSE ~isAdmin[u])
           THEN Reply(r)
           ELSE call' = [call EXCEPT ![r] = [c EXCEPT
                            !.wasAdmin = isAdmin[u], !.wasActive = isActive[u],
                            !.stage = IF c.kind = "update" THEN "target"
                                      ELSE IF c.kind = "create" THEN "commit"
                                      ELSE IF c.kind = "delete" THEN "guard" ELSE "write"]]
        /\ UNCHANGED accounts /\ Same

\* users_update loads the account; the caller's own is already in the session.
LoadTarget(r) ==
    LET c == call[r]
        u == c.target
    IN  /\ At(r, "target")
        /\ IF u \notin present
           THEN Reply(r)
           ELSE call' = [call EXCEPT ![r] = [c EXCEPT
                            !.stage = "guard",
                            !.wasAdmin = IF u = c.caller THEN @ ELSE isAdmin[u],
                            !.wasActive = IF u = c.caller THEN @ ELSE isActive[u]]]
        /\ UNCHANGED accounts /\ Same

\* A guard that looks at demotions only.
FaultyGuard(r) ==
    LET c == call[r]
    IN  /\ At(r, "guard")
        /\ IF \/ c.kind = "delete" /\ c.target = c.caller
              \/ /\ c.kind = "update" /\ c.target = c.caller
                 /\ c.admin = "off" /\ c.wasAdmin
                 /\ ~OtherActiveAdminsRemain(c.target)
           THEN Reply(r)
           ELSE Goto(r, "commit")
        /\ UNCHANGED accounts /\ Same

\* Nobody deletes the own account; an admin gives up the own rights or account
\* only when another active admin remains.
Guard(r) ==
    LET c == call[r]
        weakens == (c.admin = "off" /\ c.wasAdmin) \/ (c.active = "off" /\ c.wasActive)
    IN  /\ At(r, "guard")
        /\ IF \/ c.kind = "delete" /\ c.target = c.caller
              \/ /\ c.kind = "update" /\ c.target = c.caller
                 /\ weakens /\ ~OtherActiveAdminsRemain(c.target)
           THEN Reply(r)
           ELSE Goto(r, "commit")
        /\ UNCHANGED accounts /\ Same

\* users_update commits the flags that differ from the loaded ones; it fails
\* when the account has been deleted since.
CommitUpdate(r) ==
    LET c == call[r]
        u == c.target
    IN  /\ At(r, "commit") /\ c.kind = "update"
        /\ IF u \in present
           THEN /\ isAdmin' = [isAdmin EXCEPT ![u] =
                     IF Wants(c.admin, c.wasAdmin) = c.wasAdmin THEN @ ELSE ~c.wasAdmin]
                /\ isActive' = [isActive EXCEPT ![u] =
                     IF Wants(c.active, c.wasActive) = c.wasActive THEN @ ELSE ~c.wasActive]
           ELSE UNCHANGED <<isAdmin, isActive>>
        /\ Reply(r)
        /\ UNCHANGED <<present, born, hash, lastHash>> /\ Same

\* An id that the next account may receive again.
FaultyCommitCreate(r) ==
    LET u == call[r].target
    IN  /\ At(r, "commit") /\ call[r].kind = "create"
        /\ u \notin born /\ lastHash < MaxHash
        /\ present' = present \cup {u}
        /\ isAdmin' = [isAdmin EXCEPT ![u] = call[r].admin = "on"]
        /\ SetHash(u)
        /\ Reply(r)
        /\ UNCHANGED <<born, isActive>> /\ Same

\* create_user: a new account, or a refusal (409) when the name is taken.
CommitCreate(r) ==
    LET c == call[r]
        u == c.target
    IN  /\ At(r, "commit") /\ c.kind = "create"
        /\ \/ /\ u \notin born
              /\ lastHash < MaxHash
              /\ present' = present \cup {u}
              /\ born' = born \cup {u}
              /\ isAdmin' = [isAdmin EXCEPT ![u] = c.admin = "on"]
              /\ SetHash(u)
           \/ /\ u \in born
              /\ UNCHANGED <<present, born, isAdmin, hash, lastHash>>
        /\ Reply(r)
        /\ UNCHANGED isActive /\ Same

\* delete_user.
CommitDelete(r) ==
    /\ At(r, "commit") /\ call[r].kind = "delete"
    /\ present' = present \ {call[r].target}
    /\ Reply(r)
    /\ UNCHANGED <<born, isAdmin, isActive, hash, lastHash>> /\ Same

\* change_password, on behalf of an admin, of the user or of a reset link.
WritePassword(r) ==
    LET c == call[r]
        u == IF c.kind = "ownPassword" THEN c.caller ELSE c.target
        l == [user |-> u, fp |-> c.fp]
    IN  /\ At(r, "write")
        /\ IF u \in present
           THEN /\ lastHash < MaxHash
                /\ SetHash(u)
                /\ spent' = IF c.kind = "confirm" THEN [spent EXCEPT ![l] = @ + 1] ELSE spent
           ELSE UNCHANGED <<hash, lastHash, spent>>
        /\ Reply(r)
        /\ UNCHANGED <<present, born, isAdmin, isActive, links, calls>>

Step ==
    \/ \E r \in Reqs :
          \/ \E c, u \in Users :
                \/ \E admin, active \in Wish : Update(r, c, u, admin, active)
                \/ \E admin \in BOOLEAN : Create(r, c, u, admin)
                \/ \E kind \in {"delete", "setPassword"} : Manage(r, kind, c, u)
          \/ \E c \in Users : Manage(r, "ownPassword", c, c)
          \/ \E l \in links : Confirm(r, l)
          \/ LoadCaller(r)
          \/ LoadTarget(r)
          \/ Guard(r)
          \/ CommitUpdate(r)
          \/ CommitCreate(r)
          \/ CommitDelete(r)
          \/ WritePassword(r)
    \/ \E u \in Users : RequestReset(u)
    \/ \E l \in links : Expire(l)

-----------------------------------------------------------------------------
(***************************************************************************)
(* The history variable, which no action reads.                            *)
(***************************************************************************)

\* This step deletes the account, demotes it or deactivates it.
Loses(u) ==
    /\ u \in present
    /\ u \in present' => (isAdmin[u] /\ ~isAdmin'[u]) \/ (isActive[u] /\ ~isActive'[u])

\* What this step changes is something the request may have checked: the password
\* of a reset link, and who has which rights for every other request.
Overtakes(r) ==
    IF call[r].kind = "confirm" THEN hash'[call[r].target] # hash[call[r].target]
                                ELSE \E u \in Users : Loses(u)

Watch ==
    overtaken' = {r \in Reqs : /\ call[r].stage # "idle" /\ call'[r].stage # "idle"
                               /\ r \in overtaken \/ Overtakes(r)}

Next == Step /\ Watch

Spec == Init /\ [][Next]_vars

-----------------------------------------------------------------------------
(***************************************************************************)
(* Properties.                                                             *)
(***************************************************************************)

\* Somebody can always administer the accounts: no sequence of promotions,
\* demotions, deactivations and deletions leaves the installation without an
\* active admin (users_update, users_delete).
SomeActiveAdmin == \E u \in present : isAdmin[u] /\ isActive[u]

\* The request commits a change of an account or sets a password in this step.
Finishes(r, stage) == At(r, stage) /\ call'[r].stage = "idle"

\* The last active admin is lost in a race only: by the commit of a request under
\* way while another one's commit deleted, demoted or deactivated somebody.  When
\* requests do not overlap in this way, one active admin always remains, whatever
\* was loaded before others promoted or reactivated the account (users_update).
AdminsLostInRacesOnly ==
    [][SomeActiveAdmin /\ ~SomeActiveAdmin' => \E r \in overtaken : Finishes(r, "commit")]_vars

\* A reset link sets a password once, in place of the one it was issued for.  The
\* only use that may be a second one, or replace another password, is that of a
\* request which had compared the fingerprint before that password was set
\* (password_reset_confirm compares it once and holds nothing until it writes).
LinkWorksOnce ==
    [][\A l \in Link :
          spent'[l] > spent[l] =>
              \/ spent[l] = 0 /\ hash[l.user] = l.fp
              \/ \E r \in overtaken :
                    /\ Finishes(r, "write") /\ call[r].kind = "confirm"
                    /\ call[r].target = l.user /\ call[r].fp = l.fp]_vars
=============================================================================
