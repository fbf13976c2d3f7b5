------------------------------- MODULE SignIn -------------------------------
(***************************************************************************)
(* Who is signed in: Studio and PasswordResetScreen of studio.tsx,         *)
(* Login.tsx, both ways to sign out, the change of one's own password, and *)
(* the choice of the language in lib/i18n.tsx.  Accounts has the server's  *)
(* side of the passwords; here it is one password and one reset link.      *)
(***************************************************************************)
EXTENDS Dashboard

VARIABLES
    language,   \* the language kept in localStorage, or None
    shownIn,    \* the language of the workspace, or None outside of it
    link,       \* what the mailed reset link was issued for, or None
    chosen,     \* the language picked last, or None (history)
    signedOut   \* "yes" when signed out from the dashboard and not signed in since (history)

session == <<language, shownIn, link, chosen, signedOut>>

\* resolveLanguage: the stored choice, else what languageFromNavigator makes of the
\* browser's language, which may be one that is not offered.
Fallback == CHOOSE l \in Languages : TRUE
Resolve(choice) == IF choice = None THEN Fallback ELSE choice

\* I18nProvider keeps the language it is mounted with.
Provided == Resolve(language)

\* setStoredLanguage
Keep(l) == language' = IF mix.storage THEN l ELSE language

OnLogin == panel.kind = "login"
OnReset == panel.kind = "reset"

FreshLogin(choice) ==
    [kind |-> "login", language |-> Resolve(choice), busy |-> FALSE, error |-> "none",
     providers |-> FALSE, forgot |-> "closed"]

\* A page load: nothing of the old page runs on.  Studio takes stored credentials
\* on trust and asks the server in any case; a link with a token comes before both.
PageLoad(pw, ck, token) ==
    LET in == pw # None IN
    /\ authed' = IF in THEN "in" ELSE "unknown"
    /\ calls' = <<CallWith(pw, ck, "me", None)>>
                \o (IF in /\ token = None THEN DashboardCalls(pw, ck) ELSE <<>>)
    /\ panel' = IF token # None THEN [kind |-> "reset", token |-> token, state |-> "form"]
                ELSE IF in THEN FreshDashboard(acts') ELSE NoScreen
    /\ llm' = IF in /\ token = None THEN NoActivity ELSE None
    /\ shownIn' = IF in /\ token = None THEN Provided ELSE None
    /\ project' = None
    /\ section' = "home"
    /\ watch' = {}

\* setAuthed(true), which changes nothing in one who is in: the provider takes the
\* language when it is mounted, and the dashboard loads.
Admit(rest) ==
    IF authed = "in" \/ OnReset
    THEN calls' = rest /\ UNCHANGED <<panel, llm, shownIn, place>> /\ authed' = "in"
    ELSE /\ authed' = "in"
         /\ panel' = FreshDashboard(acts)
         /\ calls' = Orphan(rest) \o DashboardCalls(stored, cookie)
         /\ llm' = NoActivity
         /\ shownIn' = Provided
         /\ project' = None
         /\ section' = "home"

\* The login screen takes the place of what is mounted.
ShowLogin(rest) ==
    IF OnReset THEN calls' = rest /\ UNCHANGED panel
    ELSE /\ calls' = Void(rest) \o <<CallWith(stored', cookie', "providers", None)>>
         /\ panel' = FreshLogin(language)

\* The tab is opened.
OpenPage ==
    /\ authed = "closed"
    /\ acts' = acts
    /\ PageLoad(stored, cookie, None)
    /\ UNCHANGED <<stored, cookie, password, db, language, link, chosen, signedOut>>

\* Studio's question who is signed in.
MeServed(i) ==
    /\ Arrives(i, "me")
    /\ Serve(i, None)
    /\ UNCHANGED <<acts, auth, place, panel, db, llm, watch, session>>

MeAnswered(i) ==
    /\ Returned(i, "me")
    /\ Admit(RemoveAt(calls, i))
    /\ UNCHANGED <<acts, stored, cookie, password, db, watch, language, link, chosen, signedOut>>

\* .catch: one who is in stays in, another one sees the login screen.
MeThrown(i) ==
    /\ Thrown(i, "me")
    /\ IF authed = "unknown"
       THEN /\ authed' = "out"
            /\ UNCHANGED <<stored, cookie>>
            /\ ShowLogin(RemoveAt(calls, i))
       ELSE UNCHANGED <<authed, stored, cookie, panel>> /\ Continue(i, <<>>)
    /\ UNCHANGED <<acts, password, place, db, llm, watch, session>>

\* A 401 to any call: the handler set by Studio.  The login screen that is already
\* shown stays, with an error when the call was its own.
Unauthorized(i) ==
    /\ Denied(i)
    /\ IF OnLogin
       THEN /\ panel' = IF calls[i].op = "probe" /\ calls[i].live
                        THEN [panel EXCEPT !.busy = FALSE, !.error = "wrong"] ELSE panel
            /\ Continue(i, <<>>)
            /\ UNCHANGED <<cookie, place, llm, watch, shownIn>>
       ELSE /\ UNCHANGED cookie
            /\ ShowLogin(RemoveAt(calls, i))
            /\ llm' = None
            /\ shownIn' = None
            /\ watch' = Unwatched
            /\ project' = None
            /\ section' = "home"
    /\ UNCHANGED <<acts, password, db, language, link, chosen, signedOut>>

-----------------------------------------------------------------------------
\* Login.tsx

\* Mutant: the choice is kept by the submission only.
FaultyChooseLanguage ==
    /\ OnLogin
    /\ User("language")
    /\ \E l \in Languages : panel' = [panel EXCEPT !.language = l] /\ chosen' = l
    /\ UNCHANGED <<calls, auth, place, db, llm, watch, language, shownIn, link, signedOut>>

ChooseLanguage ==
    /\ OnLogin
    /\ User("language")
    /\ \E l \in Languages :
          /\ panel' = [panel EXCEPT !.language = l]
          /\ Keep(l)
          /\ chosen' = l
    /\ UNCHANGED <<calls, auth, place, db, llm, watch, shownIn, link, signedOut>>

\* submit: the credentials are stored before they are tried.
Submit ==
    /\ OnLogin
    /\ ~panel.busy
    /\ User("submit")
    /\ \E pw \in Passwords :
          /\ SetAuth(pw)
          /\ Send(<<CallWith(stored', cookie, "probe", None)>>)
    /\ panel' = [panel EXCEPT !.busy = TRUE, !.error = "none"]
    /\ Keep(panel.language)
    /\ signedOut' = "no"
    /\ UNCHANGED <<cookie, password, authed, place, db, llm, watch, shownIn, link, chosen>>

LoginServed(i) ==
    /\ \/ Arrives(i, "probe") /\ Serve(i, None) /\ UNCHANGED link
       \/ Arrives(i, "providers") /\ Serve(i, None) /\ UNCHANGED link
       \/ Arrives(i, "forgot") /\ Serve(i, None) /\ link' = IF Me \in db.active THEN db.hash ELSE link
    /\ UNCHANGED <<acts, auth, place, panel, db, llm, watch, language, shownIn, chosen, signedOut>>

SubmitAnswered(i) ==
    /\ Returned(i, "probe")
    /\ Admit(RemoveAt(calls, i))
    /\ UNCHANGED <<acts, stored, cookie, password, db, watch, language, link, chosen, signedOut>>

\* The lock-out or the network: the credentials stay where they are.
LoginThrown(i) ==
    /\ \E op \in {"probe", "providers", "forgot"} : Thrown(i, op)
    /\ panel' = IF ~calls[i].live THEN panel
                ELSE CASE calls[i].op = "probe" -> [panel EXCEPT !.busy = FALSE, !.error = "other"]
                       [] calls[i].op = "forgot" -> [panel EXCEPT !.forgot = "message"]
                       [] OTHER -> panel
    /\ Continue(i, <<>>)
    /\ UNCHANGED <<acts, auth, place, db, llm, watch, session>>

LoginAnswered(i) ==
    /\ \E op \in {"providers", "forgot"} : Returned(i, op)
    /\ panel' = IF ~calls[i].live THEN panel
                ELSE IF calls[i].op = "providers" THEN [panel EXCEPT !.providers = TRUE]
                ELSE [panel EXCEPT !.forgot = "message"]
    /\ Continue(i, <<>>)
    /\ UNCHANGED <<acts, auth, place, db, llm, watch, session>>

\* The form for a forgotten password; the Enter key does not look at the busy flag.
Forgot ==
    /\ OnLogin
    /\ User("forgot")
    /\ \/ /\ panel' = [panel EXCEPT !.forgot = IF @ = "closed" THEN "form" ELSE "closed"]
          /\ UNCHANGED calls
       \/ /\ panel.forgot = "form"
          /\ Send(<<Call("forgot", None)>>)
          /\ UNCHANGED panel
    /\ UNCHANGED <<auth, place, db, llm, watch, session>>

\* The page of a provider, and back with a cookie or without one.
OauthLogin ==
    /\ OnLogin
    /\ panel.providers
    /\ User("oauth")
    /\ cookie' \in {TRUE, cookie}
    /\ signedOut' = "no"
    /\ PageLoad(stored, cookie', None)
    /\ UNCHANGED <<stored, password, db, language, link, chosen>>

-----------------------------------------------------------------------------
\* PasswordResetScreen

FollowLink ==
    /\ link # None
    /\ User("link")
    /\ PageLoad(stored, cookie, link)
    /\ UNCHANGED <<stored, cookie, password, db, language, link, chosen, signedOut>>

ConfirmReset ==
    /\ OnReset
    /\ panel.state \in {"form", "failed"}
    /\ User("reset")
    /\ \E pw \in Passwords : Send(<<Call("confirm", [token |-> panel.token, pw |-> pw])>>)
    /\ panel' = [panel EXCEPT !.state = "busy"]
    /\ UNCHANGED <<auth, place, db, llm, watch, session>>

\* The token holds the fingerprint of the salted hash it was issued for, which every
\* change makes another one, also that to the same password.
ConfirmServed(i) ==
    /\ Arrives(i, "confirm")
    /\ IF Arg(i).token = db.hash
       THEN password' = Arg(i).pw /\ db' = Rehashed(db) /\ Serve(i, None)
       ELSE UNCHANGED <<password, db>> /\ Refuse(i)
    /\ UNCHANGED <<acts, stored, cookie, authed, place, panel, llm, watch, session>>

ConfirmAnswered(i) ==
    /\ Returned(i, "confirm") \/ Thrown(i, "confirm")
    /\ panel' = IF OnReset THEN [panel EXCEPT !.state = IF calls[i].status = "ok" THEN "done" ELSE "failed"]
                ELSE panel
    /\ Continue(i, <<>>)
    /\ UNCHANGED <<acts, auth, place, db, llm, watch, session>>

BackToLogin ==
    /\ OnReset
    /\ panel.state = "done"
    /\ User("back")
    /\ PageLoad(stored, cookie, None)
    /\ UNCHANGED <<stored, cookie, password, db, language, link, chosen, signedOut>>

-----------------------------------------------------------------------------
\* Leaving

Reload ==
    /\ User("reload")
    /\ PageLoad(stored, cookie, None)
    /\ UNCHANGED <<stored, cookie, password, db, language, link, chosen, signedOut>>

\* Mutant: only the cookie is given up.
FaultyLogout ==
    /\ Uncovered
    /\ User("logout")
    /\ Send(<<Call("logout", None)>>)
    /\ signedOut' = "leaving"
    /\ UNCHANGED <<auth, place, panel, db, llm, watch, language, shownIn, link, chosen>>

\* Dashboard.logout: the credentials go at once, the cookie by a request whose
\* failure is ignored, and then the page is loaded again.
Logout ==
    /\ Uncovered
    /\ User("logout")
    /\ ClearAuth
    /\ Send(<<CallWith(stored', cookie, "logout", None)>>)
    /\ signedOut' = "leaving"
    /\ UNCHANGED <<cookie, password, authed, place, panel, db, llm, watch, language, shownIn, link, chosen>>

LogoutServed(i) ==
    /\ Arrives(i, "logout")
    /\ cookie' = FALSE
    /\ Serve(i, None)
    /\ UNCHANGED <<acts, stored, password, authed, place, panel, db, llm, watch, session>>

LogoutDone(i) ==
    /\ Returned(i, "logout") \/ Thrown(i, "logout")
    /\ acts' = acts
    /\ PageLoad(stored, cookie, None)
    /\ signedOut' = IF signedOut = "leaving" /\ calls[i].status = "ok" THEN "yes" ELSE "no"
    /\ UNCHANGED <<stored, cookie, password, db, language, link, chosen>>

\* Sidebar: the credentials only.
SidebarLogout ==
    /\ authed = "in" /\ project # None
    /\ User("logout")
    /\ ClearAuth
    /\ PageLoad(stored', cookie, None)
    /\ UNCHANGED <<cookie, password, db, language, link, chosen, signedOut>>

\* An administrator gives the account another password, or its owner does elsewhere.
PasswordChanges ==
    /\ authed = "in"
    /\ User("password")
    /\ password' \in Passwords \ {password}
    /\ db' = Rehashed(db)
    /\ UNCHANGED <<stored, cookie, authed, place, panel, calls, llm, watch, session>>

VoidOver(i) ==
    /\ calls[i].op = "void"
    /\ \/ calls[i].status = "failed"
       \/ calls[i].status = "ok"
       \/ Arrives(i, "void")
    /\ Continue(i, <<>>)
    /\ UNCHANGED <<acts, auth, place, panel, db, llm, watch, session>>

SignInNext ==
    /\ \/ OpenPage \/ ChooseLanguage \/ Submit \/ Forgot \/ OauthLogin \/ FollowLink \/ ConfirmReset \/ BackToLogin
       \/ Reload \/ Logout \/ SidebarLogout \/ PasswordChanges
       \/ \E i \in DOMAIN calls :
             \/ MeServed(i) \/ MeAnswered(i) \/ MeThrown(i) \/ Unauthorized(i)
             \/ LoginServed(i) \/ SubmitAnswered(i) \/ LoginThrown(i) \/ LoginAnswered(i)
             \/ ConfirmServed(i) \/ ConfirmAnswered(i) \/ LogoutServed(i) \/ LogoutDone(i)
             \/ VoidOver(i)
    /\ UNCHANGED permission

-----------------------------------------------------------------------------
\* "required for an OAuth-only user, who has nothing in localStorage to clear"
\* (Dashboard.tsx:46-49): one who has signed out from the dashboard is not let in
\* again before he signs in, whatever is still in flight or is loaded again.
SignedOutStaysOut == signedOut = "yes" => authed # "in"

\* The credentials that the server accepts are given up only by something the person
\* does, so long as he does not sign in over the heels of older calls.
ValidCredentialsKept ==
    [][mix.careful /\ stored = password /\ Me \in db.active /\ stored' # stored => acts' # acts]_<<stored, acts>>

\* The choice "survives the full-page OAuth2 redirect" (Login.tsx:28): a workspace
\* is shown in the language picked last, however it was entered.
ChoiceSurvives == mix.storage /\ chosen # None /\ shownIn # None => shownIn = chosen
=============================================================================
