---------------------------- MODULE SettingsPanel ----------------------------
(***************************************************************************)
(* The settings screen: SettingsPanel.tsx with the handlers of main.py for *)
(* the project's row, the connection settings, the accounts and backups.   *)
(* The seven tabs share one component, so that what a tab holds survives   *)
(* the change to another one, and what it loads is loaded again on return. *)
(*                                                                         *)
(* Fields with the same life stand for each other: the style guide for     *)
(* those of the project, one model name and one key for the connection,    *)
(* two tests.                                                              *)
(***************************************************************************)
EXTENDS ImportWatch

CONSTANT People     \* names of accounts that exist or may be made

SettingsTabs == {"basic", "connection", "usage", "users", "import", "backup", "export"}
Tests == {"database", "ollama"}
Blank == ""

\* The effect of the basic tab fills an empty style guide with a default; it is not
\* saved before the form is.
Filled(row, guide) == IF row.guide = None /\ guide = None THEN "default" ELSE guide

\* The states of one mount.  The form begins with the client's copy of the project; in
\* the tab of the accounts one address and one password can be edited at a time.
FreshSettings(inst, row) ==
    [kind |-> "settings", tab |-> "basic", guide |-> Filled(row, row.guide), busy |-> FALSE, saved |-> FALSE,
     picker |-> "closed", guideBusy |-> FALSE,
     sys |-> None, model |-> Blank, key |-> Blank, sysBusy |-> FALSE, sysSaved |-> FALSE,
     tests |-> [k \in Tests |-> "none"], usage |-> {},
     backups |-> None, backupBusy |-> FALSE, exporting |-> FALSE, import |-> NoImport(inst),
     meant |-> db.config.key, isAdmin |-> None, users |-> None, usersError |-> FALSE, newUser |-> None, userBusy |-> FALSE,
     emailFor |-> None, resetFor |-> None, self |-> None, selfBusy |-> FALSE]
    \* meant: the key that is there when the screen is opened, or typed or cleared since (history)

OnSettings(tab) == panel.kind = "settings" /\ panel.tab = tab
Set(changed) == panel' = [f \in DOMAIN panel |-> IF f \in DOMAIN changed THEN changed[f] ELSE panel[f]]
Shown(i, changed) == IF calls[i].live THEN Set(changed) ELSE UNCHANGED panel

\* What an entry to a tab loads: loadUsers runs at once for one known as an administrator.
EntryCalls(tab) ==
    CASE tab = "connection" -> <<Call("system", None)>>
      [] tab = "usage" -> <<Call("usage", "summary"), Call("usage", "recent")>>
      [] tab = "users" -> <<Call("admin", None)>> \o (IF panel.isAdmin = TRUE THEN <<Call("users", None)>> ELSE <<>>)
      [] tab = "backup" -> <<Call("backups", "tab")>>
      [] OTHER -> <<>>

TabBar(tab) ==
    /\ OnSettings(panel.tab)
    /\ tab # panel.tab
    /\ User("to " \o tab)
    /\ Set([tab |-> tab, guide |-> IF tab = "basic" THEN Filled(project, panel.guide) ELSE panel.guide,
            usersError |-> panel.usersError /\ ~(tab = "users" /\ panel.isAdmin = TRUE)])
    /\ Send(EntryCalls(tab))
    /\ UNCHANGED <<db, llm>>

-----------------------------------------------------------------------------
\* Basic data

TypeGuide ==
    /\ User("guide")
    /\ \E g \in {None, "typed"} \ {panel.guide} : Set([guide |-> g])
    /\ UNCHANGED <<calls, db, llm>>

\* save
Save ==
    /\ ~panel.busy
    /\ User("save")
    /\ Set([busy |-> TRUE, saved |-> FALSE])
    /\ Send(<<Call("save", [id |-> project.id, guide |-> panel.guide])>>)
    /\ UNCHANGED <<db, llm>>

BasicTab == OnSettings("basic") /\ (TypeGuide \/ Save)

\* The picker of a kind of guide: an academic one is asked for in a second step.
\* generateStyleGuide puts the run into the activity list.
Generate ==
    /\ ~panel.guideBusy
    /\ User("generate")
    /\ Set([guideBusy |-> TRUE])
    /\ Begin(Call("generate", project.id))
    /\ UNCHANGED db

PickerStep(at) ==
    /\ User("picker")
    /\ Set([picker |-> at])
    /\ UNCHANGED <<calls, db, llm>>

Picker ==
    /\ OnSettings(panel.tab)
    /\ \/ panel.tab = "basic" /\ panel.picker = "closed" /\ ~panel.guideBusy /\ PickerStep("kinds")
       \/ panel.picker = "kinds" /\ ~panel.guideBusy /\ PickerStep("academic")
       \/ panel.picker = "academic" /\ PickerStep("kinds")
       \/ panel.picker # "closed" /\ (PickerStep("closed") \/ Generate)

-----------------------------------------------------------------------------
\* Connection

\* get_effective_config: an empty override is none.
Effective(config) == IF config.model = None THEN "environment" ELSE config.model

\* _system_settings_out: a key is never given back.
SystemOut == [model |-> Effective(db.config), override |-> db.config.model # None, isSet |-> db.config.key # None]

\* applySettingsResponse, and the same lines after the load: the form is replaced.
Applied(s) == [sys |-> s, model |-> s.model, key |-> Blank]
Saved(s) == [sys |-> s, model |-> s.model, key |-> Blank, sysSaved |-> TRUE, sysBusy |-> FALSE]

TypeConnection ==
    /\ User("connection")
    /\ \/ \E v \in {Blank, "typed"} \ {panel.model} : Set([model |-> v])
       \/ panel.key = Blank /\ Set([key |-> "typed"])
    /\ UNCHANGED <<calls, db, llm>>

\* saveConnection: all plain fields, of the keys those that were typed.  An empty field
\* of a key means "leave unchanged" (SettingsPanel.tsx:322).
Payload == IF panel.key = Blank THEN [model |-> panel.model] ELSE [model |-> panel.model, key |-> panel.key]

PutSettings(payload, meant) ==
    /\ ~panel.sysBusy
    /\ User("put")
    /\ Set([sysBusy |-> TRUE, sysSaved |-> FALSE, meant |-> meant])
    /\ Send(<<Call("put", payload)>>)
    /\ UNCHANGED <<db, llm>>

SaveConnection == PutSettings(Payload, IF panel.key = Blank THEN panel.meant ELSE panel.key)

\* resetField, for one field and whatever else has been typed.
ResetField ==
    \/ panel.sys.override /\ PutSettings([model |-> Blank], panel.meant)
    \/ panel.sys.isSet /\ PutSettings([key |-> Blank], None)

\* testConnection, of what stands in the fields.
TestConnection(k) ==
    /\ panel.tests[k] # "testing"
    /\ User("test")
    /\ Set([tests |-> [panel.tests EXCEPT ![k] = "testing"]])
    /\ Begin(Call("test", k))
    /\ UNCHANGED db

ConnectionTab ==
    /\ OnSettings("connection")
    /\ panel.sys # None
    /\ TypeConnection \/ SaveConnection \/ ResetField \/ \E k \in Tests : TestConnection(k)

-----------------------------------------------------------------------------
\* Accounts

\* What the table shows: its buttons are there once it was loaded.
Listing == [admins |-> db.admins, active |-> db.active, mail |-> db.mail, users |-> db.users]

\* changeOwnPassword, after the two fields were compared: the stored credentials are
\* left as they are.
ChangeOwnPassword ==
    /\ ~panel.selfBusy
    /\ User("own")
    /\ \/ Set([self |-> "mismatch"]) /\ UNCHANGED calls
       \/ /\ Set([selfBusy |-> TRUE, self |-> None])
          /\ \E right \in BOOLEAN, pw \in Passwords : Send(<<Call("own", [right |-> right, pw |-> pw])>>)
    /\ UNCHANGED <<db, llm>>

\* createNewUser, with what is typed into its row; the button waits for the answer.
CreateNewUser(u) ==
    /\ \/ /\ panel.newUser = None
          /\ \E admin \in BOOLEAN : Set([newUser |-> [name |-> u, admin |-> admin]])
          /\ UNCHANGED calls
       \/ /\ panel.newUser # None
          /\ ~panel.userBusy
          /\ Set([userBusy |-> TRUE, usersError |-> FALSE])
          /\ Send(<<Call("new user", panel.newUser)>>)
    /\ User("new user")
    /\ UNCHANGED <<db, llm>>

\* setUserAdmin, setUserActive and deleteUserAccount answer to nothing but a click.
ChangeUser(op, u) ==
    /\ u \in panel.users.users
    /\ op = "delete" => u # Me
    /\ User(op)
    /\ Set([usersError |-> FALSE])
    /\ Send(<<Call(op, [name |-> u, to |-> CASE op = "grant" -> u \notin panel.users.admins
                                             [] op = "activate" -> u \notin panel.users.active
                                             [] OTHER -> FALSE])>>)
    /\ UNCHANGED <<db, llm>>

OpenEditor(field, u) ==
    /\ u \in panel.users.users
    /\ User(field)
    /\ Set([x \in {field} |-> IF panel[field] = u THEN None ELSE u])
    /\ UNCHANGED <<calls, db, llm>>

\* submitEmailEdit: an empty field is sent as null.
SubmitEmail ==
    /\ panel.emailFor # None
    /\ User("emailFor")
    /\ Set([usersError |-> FALSE])
    /\ \E typed \in {None, "address"} : Send(<<Call("email", [name |-> panel.emailFor, to |-> typed])>>)
    /\ UNCHANGED <<db, llm>>

SubmitPasswordReset ==
    /\ panel.resetFor # None
    /\ User("resetFor")
    /\ Set([usersError |-> FALSE])
    /\ \E pw \in Passwords : Send(<<Call("reset", [name |-> panel.resetFor, pw |-> pw])>>)
    /\ UNCHANGED <<db, llm>>

UsersTab ==
    /\ OnSettings("users")
    /\ \/ ChangeOwnPassword
       \/ /\ panel.isAdmin = TRUE
          /\ panel.users # None
          /\ \/ SubmitEmail
             \/ SubmitPasswordReset
             \/ \E u \in People : \/ CreateNewUser(u)
                                  \/ \E op \in {"grant", "activate", "delete"} : ChangeUser(op, u)
                                  \/ \E field \in {"emailFor", "resetFor"} : OpenEditor(field, u)

-----------------------------------------------------------------------------
\* Import, backup and export

ImportTab ==
    /\ OnSettings("import")
    /\ Showing \in over \cup {"form"}
    /\ StartImport(project.id)

\* runBackupNow
RunBackupNow ==
    /\ ~panel.backupBusy
    /\ db.backups < 2
    /\ User("backup")
    /\ Set([backupBusy |-> TRUE])
    /\ Send(<<Call("backup", None)>>)
    /\ UNCHANGED <<db, llm>>

BackupTab == OnSettings("backup") /\ panel.backups # None /\ RunBackupNow

\* exportAs
ExportAs ==
    /\ ~panel.exporting
    /\ User("export")
    /\ Set([exporting |-> TRUE])
    /\ Send(<<Call("export", project.id)>>)
    /\ UNCHANGED <<db, llm>>

ExportTab == OnSettings("export") /\ ExportAs

-----------------------------------------------------------------------------
\* The server

AdminOps == {"users", "new user", "grant", "activate", "delete", "email", "reset"}

\* _other_active_admins_remain
OthersRemain(u) == (db.admins \cap db.active) \ {u} # {}

With(S, u, in) == IF in THEN S \cup {u} ELSE S \ {u}

\* A request of an administrator, or of one who is none, that is refused, and what
\* another one makes of the accounts.
Refused(op, x) ==
    \/ Me \notin db.admins
    \/ op # "users" /\ (op = "new user" <=> x.name \in db.users)
    \/ op \in {"grant", "activate"} /\ x.name = Me /\ ~x.to /\ ~OthersRemain(Me)
    \/ op = "delete" /\ x.name = Me

AccountsAfter(op, x) ==
    CASE op = "new user" -> [db EXCEPT !.users = @ \cup {x.name}, !.active = @ \cup {x.name},
                                       !.admins = With(@, x.name, x.admin)]
      [] op = "grant" -> [db EXCEPT !.admins = With(@, x.name, x.to)]
      [] op = "activate" -> [db EXCEPT !.active = With(@, x.name, x.to)]
      [] op = "email" -> IF x.to = None THEN db ELSE [db EXCEPT !.mail = @ \cup {x.name}]
      [] op = "delete" -> [db EXCEPT !.users = @ \ {x.name}, !.active = @ \ {x.name},
                                     !.admins = @ \ {x.name}, !.mail = @ \ {x.name}]
      [] op = "reset" -> IF x.name = Me THEN Rehashed(db) ELSE db
      [] OTHER -> db

AccountsServed(i) ==
    /\ \E op \in AdminOps : Arrives(i, op)
    /\ LET op == calls[i].op  x == Arg(i) IN
       IF Refused(op, x) THEN Refuse(i) /\ UNCHANGED <<db, password>>
       ELSE /\ db' = AccountsAfter(op, x)
            /\ Serve(i, Listing)
            /\ password' = IF op = "reset" /\ x.name = Me THEN x.pw ELSE password
    /\ UNCHANGED <<acts, panel, llm>>

OwnPasswordServed(i) ==
    /\ Arrives(i, "own")
    /\ IF Arg(i).right THEN Serve(i, None) /\ password' = Arg(i).pw /\ db' = Rehashed(db)
       ELSE Refuse(i) /\ UNCHANGED <<password, db>>
    /\ UNCHANGED <<acts, panel, llm>>

\* Mutant: the fields that were not sent are set too, to the null they have by default.
FaultyConfigAfter(payload) ==
    [f \in {"model", "key"} |-> IF f \notin DOMAIN payload \/ payload[f] = Blank THEN None ELSE payload[f]]

\* system_settings_put sets the fields it was sent, the empty ones to null.
ConfigAfter(payload) ==
    [f \in {"model", "key"} |-> IF f \notin DOMAIN payload THEN db.config[f]
                                ELSE IF payload[f] = Blank THEN None ELSE payload[f]]

SettingsServed(i) ==
    /\ \/ Arrives(i, "put") /\ db' = [db EXCEPT !.config = ConfigAfter(Arg(i))]
          /\ Serve(i, SystemOut')
       \/ Arrives(i, "save") /\ Serve(i, Arg(i)) /\ db' = [db EXCEPT !.projects[Arg(i).id] = Arg(i).guide]
       \/ Arrives(i, "backup") /\ Serve(i, None) /\ db' = [db EXCEPT !.backups = @ + 1]
       \/ /\ UNCHANGED db
          /\ \/ Arrives(i, "system") /\ Serve(i, SystemOut)
             \/ Arrives(i, "admin") /\ Serve(i, Me \in db.admins)
             \/ Arrives(i, "backups") /\ Serve(i, db.backups)
             \/ \E op \in {"usage", "generate", "test", "export"} : Arrives(i, op) /\ Serve(i, None)
    /\ UNCHANGED <<acts, panel, llm>>

-----------------------------------------------------------------------------
\* What follows the answers

SystemLoaded(i) ==
    /\ Returned(i, "system")
    /\ Shown(i, Applied(Ans(i)))
    /\ Continue(i, <<>>)
    /\ UNCHANGED <<acts, db, llm>>

ConnectionSaved(i) ==
    /\ Returned(i, "put")
    /\ Shown(i, Saved(Ans(i)))
    /\ Continue(i, <<>>)
    /\ UNCHANGED <<acts, db, llm>>

\* The functional update keeps what else was typed meanwhile.
Generated(i) ==
    /\ Returned(i, "generate") \/ Thrown(i, "generate")
    /\ Shown(i, IF calls[i].status = "ok" THEN [guide |-> "generated", picker |-> "closed", guideBusy |-> FALSE]
                ELSE [guideBusy |-> FALSE])
    /\ llm' = Ended
    /\ Continue(i, <<>>)
    /\ UNCHANGED <<acts, db>>

Tested(i) ==
    /\ Returned(i, "test") \/ Thrown(i, "test")
    /\ Shown(i, [tests |-> [panel.tests EXCEPT ![Arg(i)] = calls[i].status]])
    /\ llm' = Ended
    /\ Continue(i, <<>>)
    /\ UNCHANGED <<acts, db>>

UsageLoaded(i) ==
    /\ Returned(i, "usage")
    /\ Shown(i, [usage |-> panel.usage \cup {Arg(i)}])
    /\ Continue(i, <<>>)
    /\ UNCHANGED <<acts, db, llm>>

\* What the tab shows: the recent calls stand below the summary.
UsageShown == IF "summary" \notin panel.usage THEN "loading" ELSE IF "recent" \in panel.usage THEN "all" ELSE "summary"

\* One who turns out to be an administrator sees the accounts.
AdminKnown(i) ==
    /\ Returned(i, "admin") \/ Thrown(i, "admin")
    /\ LET yes == calls[i].status = "ok" /\ Ans(i)
           loads == yes /\ calls[i].live /\ panel.isAdmin # TRUE /\ panel.tab = "users" IN
       /\ Shown(i, [isAdmin |-> yes, usersError |-> panel.usersError /\ ~loads])
       /\ Continue(i, IF loads THEN <<Call("users", None)>> ELSE <<>>)
    /\ UNCHANGED <<acts, db, llm>>

UsersLoaded(i) ==
    /\ Returned(i, "users")
    /\ Shown(i, [users |-> Ans(i)])
    /\ Continue(i, <<>>)
    /\ UNCHANGED <<acts, db, llm>>

\* loadUsers follows every change but that of a password.
UserChanged(i) ==
    /\ \E op \in AdminOps \ {"users"} : Returned(i, op)
    /\ LET op == calls[i].op IN
       /\ Shown(i, CASE op = "new user" -> [newUser |-> None, userBusy |-> FALSE, usersError |-> FALSE]
                     [] op = "email" -> [emailFor |-> None, usersError |-> FALSE]
                     [] op = "reset" -> [resetFor |-> None]
                     [] OTHER -> [usersError |-> FALSE])
       /\ Continue(i, IF op = "reset" THEN <<>> ELSE <<[Call("users", None) EXCEPT !.live = calls[i].live]>>)
    /\ UNCHANGED <<acts, db, llm>>

UsersThrown(i) ==
    /\ \E op \in AdminOps : Thrown(i, op)
    /\ Shown(i, IF calls[i].op = "new user" THEN [usersError |-> TRUE, userBusy |-> FALSE] ELSE [usersError |-> TRUE])
    /\ Continue(i, <<>>)
    /\ UNCHANGED <<acts, db, llm>>

OwnPasswordChanged(i) ==
    /\ Returned(i, "own") \/ Thrown(i, "own")
    /\ Shown(i, [selfBusy |-> FALSE, self |-> calls[i].status])
    /\ Continue(i, <<>>)
    /\ UNCHANGED <<acts, db, llm>>

\* The backups are listed again before the button can be used again.
BackedUp(i) ==
    /\ Returned(i, "backup")
    /\ UNCHANGED panel
    /\ Continue(i, <<[Call("backups", "run") EXCEPT !.live = calls[i].live]>>)
    /\ UNCHANGED <<acts, db, llm>>

BackupsListed(i) ==
    /\ Returned(i, "backups")
    /\ Shown(i, [backups |-> Ans(i), backupBusy |-> panel.backupBusy /\ Arg(i) = "tab"])
    /\ Continue(i, <<>>)
    /\ UNCHANGED <<acts, db, llm>>

\* downloadFile makes no difference between a failure and a refusal but for a 401.
Exported(i) ==
    /\ Returned(i, "export") \/ Thrown(i, "export")
    /\ Shown(i, [exporting |-> FALSE])
    /\ Continue(i, <<>>)
    /\ UNCHANGED <<acts, db, llm>>

\* The other ends: the note that it is loading stays where the load has failed, a
\* busy flag is cleared either way.
SettingsOver(i) ==
    /\ \/ Thrown(i, "system") \/ Thrown(i, "usage") \/ Thrown(i, "put") \/ Thrown(i, "backup") \/ Thrown(i, "backups")
       \/ Thrown(i, "save")
    /\ Shown(i, CASE calls[i].op = "put" -> [sysBusy |-> FALSE]
                  [] calls[i].op = "save" -> [busy |-> FALSE]
                  [] calls[i].op = "backup" -> [backupBusy |-> FALSE]
                  [] calls[i].op = "backups" /\ Arg(i) = "run" -> [backupBusy |-> FALSE]
                  [] OTHER -> <<>>)
    /\ Continue(i, <<>>)
    /\ UNCHANGED <<acts, db, llm>>

SettingsNext ==
    \/ \E tab \in SettingsTabs : TabBar(tab)
    \/ BasicTab \/ Picker \/ ConnectionTab \/ UsersTab \/ BackupTab \/ ExportTab
    \/ \E i \in DOMAIN calls :
          \/ SettingsServed(i) \/ SystemLoaded(i) \/ ConnectionSaved(i) \/ Generated(i) \/ Tested(i) \/ UsageLoaded(i) \/ AdminKnown(i)
          \/ UsersLoaded(i) \/ UserChanged(i) \/ UsersThrown(i) \/ OwnPasswordChanged(i)
          \/ BackedUp(i) \/ BackupsListed(i) \/ Exported(i) \/ SettingsOver(i)

-----------------------------------------------------------------------------
\* Part of ScreensInStep: the notes beside the fields are those of the
\* server, a key is kept unless the person typed another one or cleared it with its
\* button, the table and the backups are those of the server, and the usage has come.
\* That an empty field keeps the key is what the code says and does ("re-saving
\* unrelated fields can't accidentally wipe a previously-stored key",
\* SettingsPanel.tsx:311; "Clearing a key is a separate explicit action", :323).
\* docs/user-guide.md:112 says that an empty value clears it, which is true of the
\* request but not of the form: README, Findings.
SettingsInStep ==
    panel.kind = "settings" =>
        /\ panel.sys # None => panel.sys = SystemOut
        /\ db.config.key = panel.meant
        /\ panel.users # None /\ ~panel.usersError => panel.users = Listing
        /\ panel.backups # None => panel.backups = db.backups
        /\ panel.tab = "usage" => UsageShown = "all"
=============================================================================
