------------------------------ MODULE Console ------------------------------
(***************************************************************************)
(* The session of the administration UI in one tab: the login page         *)
(* (Login.vue), the guard of the router (router/index.js), the store of the*)
(* account (store/auth.js), the dialogs of the account (Layout.vue), the   *)
(* import of a backup (SystemMaintenance.vue) and what a refused request   *)
(* does to all of them (api/index.js): it unloads the page.                *)
(*                                                                         *)
(* The dashboard and the frame around every page ask the server on timers, *)
(* so a session that ends on the server unloads the page soon, whatever the*)
(* user is doing in it.                                                    *)
(***************************************************************************)
EXTENDS Integers

CONSTANTS
    User,    \* the request of the user
    Health,  \* the request of the frame's timer
    Poll,    \* the request of the dashboard's timer
    MaxLost  \* bound on the requests that fail

VARIABLES
    session,  \* the server accepts the session of this tab
    totp,     \* the server asks for a second factor
    must,     \* the server has the initial password still
    pending,  \* the server has a two-factor setup that waits for its first code
    route,    \* the page: login, dashboard, other
    user,     \* the store: unknown (not asked yet), none, in
    mustSeen, \* the store: needChangePassword
    step,     \* the login form: password, code
    dialog,   \* the open dialog; recovery shows new recovery codes
    setupId,  \* the tab knows a setup that is not finished
    health,   \* the frame's timer runs
    deferred, \* a refused request does not unload the page
    warnings, \* the warnings of a restore are shown
    req,      \* req[s]: a request under way
    lost      \* requests that failed so far

vars == <<session, totp, must, pending, route, user, mustSeen, step, dialog,
          setupId, health, deferred, warnings, req, lost>>
server == <<session, totp, must, pending>>
store  == <<user, mustSeen>>
page   == <<route, step, dialog, setupId, health, deferred>>

Names   == {User, Health, Poll}
Free    == [what |-> "none"]
Kinds   == {"enter", "security", "login", "code", "logout", "password", "setup", "enable",
            "disable", "regenerate", "import", "poll"}
Dialogs == {"none", "security", "setup", "verify", "disable", "regenerate", "recovery", "import"}
Public  == {"login", "code", "logout"}

\* begun: the restore has ended the sessions and goes on; denied: status 401.
\* flag: what the answer says (the initial password is still in use, a second
\* factor is needed, there are warnings).
Requests == [what : Kinds, at : {"sent", "begun", "ok", "denied"}, flag : BOOLEAN]

TypeOK ==
    /\ {session, totp, must, pending, mustSeen, setupId, health, deferred, warnings}
          \subseteq BOOLEAN
    /\ route \in {"login", "dashboard", "other"} /\ user \in {"unknown", "none", "in"}
    /\ step \in {"password", "code"} /\ dialog \in Dialogs
    /\ req \in [Names -> {Free} \cup Requests]
    /\ lost \in 0 .. MaxLost

Asked(s, what) ==
    /\ req[s] = Free
    /\ req' = [req EXCEPT ![s] = [what |-> what, at |-> "sent", flag |-> FALSE]]

Done(s) == req' = [req EXCEPT ![s] = Free]

-----------------------------------------------------------------------------
(* The server                                                              *)

\* What an accepted request does, and what it is answered.
Effect(what, flag) ==
    CASE what \in {"enter", "security"} -> flag = must /\ UNCHANGED server
      [] what = "login" -> flag = totp /\ session' = (session \/ ~totp) /\ UNCHANGED <<totp, must, pending>>
      [] what = "code" -> totp /\ ~flag /\ session' = TRUE /\ UNCHANGED <<totp, must, pending>>
      [] what = "logout" -> ~flag /\ session' = FALSE /\ UNCHANGED <<totp, must, pending>>
      [] what = "password" -> ~flag /\ session' = FALSE /\ must' = FALSE /\ pending' = FALSE /\ UNCHANGED totp
      [] what = "setup" -> ~flag /\ ~must /\ ~totp /\ pending' = TRUE /\ UNCHANGED <<session, totp, must>>
      [] what = "enable" -> ~flag /\ pending /\ session' = FALSE /\ totp' = TRUE /\ pending' = FALSE /\ UNCHANGED must
      [] what = "disable" -> ~flag /\ totp /\ session' = FALSE /\ totp' = FALSE /\ UNCHANGED <<must, pending>>
      [] what = "regenerate" -> ~flag /\ totp /\ session' = FALSE /\ UNCHANGED <<totp, must, pending>>

Serve(s) ==
    LET c == req[s]
        Answer(at, flag) == req' = [req EXCEPT ![s].at = at, ![s].flag = flag]
    IN  /\ c # Free /\ c.at = "sent"
        /\ \/ c.what \notin Public /\ ~session /\ Answer("denied", FALSE) /\ UNCHANGED server
           \/ c.what = "poll" /\ session /\ Done(s) /\ UNCHANGED server
           \/ /\ c.what \notin {"import", "poll"} /\ (c.what \in Public \/ session)
              /\ \E flag \in BOOLEAN : Effect(c.what, flag) /\ Answer("ok", flag)
           \/ /\ c.what = "import" /\ session
              /\ session' = FALSE /\ pending' = FALSE
              /\ totp' \in BOOLEAN /\ must' \in BOOLEAN /\ (totp' => ~must')
              /\ Answer("begun", FALSE)
        /\ UNCHANGED <<page, store, warnings, lost>>

\* The restored services have been started; some may have failed.
RestoreEnds(s) ==
    /\ req[s].what = "import" /\ req[s].at = "begun"
    /\ \E flag \in BOOLEAN : req' = [req EXCEPT ![s].at = "ok", ![s].flag = flag]
    /\ UNCHANGED <<server, page, store, warnings, lost>>

\* Another tab changes the password, or the session is a week old.
SessionEnds ==
    /\ session
    /\ session' = FALSE
    /\ UNCHANGED <<totp, must, pending, page, store, warnings, req, lost>>

-----------------------------------------------------------------------------
(* Getting in                                                              *)

\* The address of a page is opened: the guard asks who is logged in.
Enter ==
    /\ route = "login" /\ dialog = "none" /\ user = "unknown"
    /\ Asked(User, "enter")
    /\ UNCHANGED <<server, page, store, warnings, lost>>

\* The frame is mounted: its timer starts, the dialog of a must-change opens.
Mounted(to, mustNow) ==
    /\ route' = (IF mustNow THEN "dashboard" ELSE to)
    /\ dialog' = (IF mustNow THEN "security" ELSE "none")
    /\ health' = TRUE

\* Back in the history of the tab, with an account in the store.
Back(to) ==
    /\ route = "login" /\ user = "in" /\ req[User] = Free
    /\ Mounted(to, mustSeen)
    /\ UNCHANGED <<server, store, step, setupId, deferred, warnings, req, lost>>

Submit ==
    /\ route = "login"
    /\ Asked(User, IF step = "password" THEN "login" ELSE "code")
    /\ UNCHANGED <<server, page, store, warnings, lost>>

BackToPassword ==
    /\ route = "login" /\ step = "code"
    /\ step' = "password"
    /\ UNCHANGED <<server, route, dialog, setupId, health, deferred, store,
                   warnings, req, lost>>

-----------------------------------------------------------------------------
(* What the user does on a page                                            *)

OnPage == route # "login"

\* The guard keeps an account with its initial password on the dashboard, and
\* sends one without a name to the login page.
Go(to) ==
    /\ OnPage /\ dialog = "none" /\ to # route
    /\ route' = (IF user # "in" THEN "login" ELSE IF mustSeen THEN "dashboard" ELSE to)
    /\ health' = (health /\ route' # "login")
    /\ UNCHANGED <<server, step, dialog, setupId, deferred, store, warnings, req, lost>>

\* Of the dialogs, the import belongs to the settings, the others to the frame.
Open(what) ==
    /\ OnPage
    /\ \/ what = "import" /\ route = "other" /\ dialog = "none" /\ UNCHANGED setupId
       \/ what = "setup" /\ dialog = "security" /\ ~mustSeen /\ setupId' = FALSE
       \/ what \in {"disable", "regenerate"} /\ dialog = "security" /\ ~mustSeen /\ UNCHANGED setupId
    /\ dialog' = what
    /\ UNCHANGED <<server, route, step, health, deferred, store, warnings, req, lost>>

\* The account menu reads who is logged in before it opens the dialog.
OpenSecurity ==
    /\ OnPage /\ dialog = "none"
    /\ Asked(User, "security")
    /\ UNCHANGED <<server, page, store, warnings, lost>>

Logout ==
    /\ OnPage /\ dialog = "none"
    /\ Asked(User, "logout")
    /\ UNCHANGED <<server, page, store, warnings, lost>>

Send ==
    /\ OnPage
    /\ \/ dialog = "security" /\ Asked(User, "password")
       \/ dialog = "setup" /\ Asked(User, "setup")
       \/ dialog = "verify" /\ Asked(User, "enable")
       \/ dialog \in {"disable", "regenerate"} /\ Asked(User, dialog)
    /\ UNCHANGED <<server, page, store, warnings, lost>>

\* Mutant: refused requests of the timers are not deferred.
ImportBackup_undeferred ==
    /\ OnPage /\ dialog = "import"
    /\ Asked(User, "import")
    /\ UNCHANGED <<server, page, store, warnings, lost>>

\* deferUnauthorizedRedirects
ImportBackup ==
    /\ OnPage /\ dialog = "import"
    /\ Asked(User, "import")
    /\ deferred' = TRUE
    /\ UNCHANGED <<server, route, step, dialog, setupId, health, store, warnings, lost>>

\* Closing the setup cancels it on the server, if the tab knows it by then and
\* the cancellation arrives; nobody waits for its answer.
Close ==
    /\ OnPage /\ dialog \notin {"none", "recovery"}
    /\ dialog = "security" => ~mustSeen
    /\ dialog' = (IF dialog \in {"setup", "verify", "disable", "regenerate"} THEN "security" ELSE "none")
    /\ IF dialog \in {"setup", "verify"}
       THEN setupId' = FALSE /\ pending' \in {pending, pending /\ ~(setupId /\ session)}
       ELSE UNCHANGED <<setupId, pending>>
    /\ UNCHANGED <<session, totp, must, route, step, health, deferred, store, warnings, req, lost>>

FinishRecovery ==
    /\ dialog = "recovery"
    /\ dialog' = "none"
    /\ route' = "login"
    /\ health' = FALSE
    /\ UNCHANGED <<server, step, setupId, deferred, store, warnings, req, lost>>

Acknowledge ==
    /\ warnings
    /\ warnings' = FALSE
    /\ UNCHANGED <<server, page, store, req, lost>>

HealthTick ==
    /\ health
    /\ Asked(Health, "poll")
    /\ UNCHANGED <<server, page, store, warnings, lost>>

PageTick ==
    /\ route = "dashboard"
    /\ Asked(Poll, "poll")
    /\ UNCHANGED <<server, page, store, warnings, lost>>

-----------------------------------------------------------------------------
(* Answers                                                                 *)

\* redirectToLogin: the tab loads the login page anew and forgets everything
\* but the warnings, which the session storage keeps.
Unload ==
    /\ route' = "login" /\ step' = "password" /\ dialog' = "none"
    /\ setupId' = FALSE /\ health' = FALSE /\ deferred' = FALSE
    /\ user' = "unknown" /\ mustSeen' = FALSE
    /\ req' = [s \in Names |-> Free]

\* A refused import goes to the login page by itself.  An address that is typed
\* in loads the login page anew, one in the history of the tab does not.
Denied(s) ==
    /\ req[s] # Free /\ req[s].at = "denied"
    /\ IF ~deferred /\ OnPage THEN Unload
       ELSE /\ Done(s)
            /\ IF req[s].what = "import"
               THEN /\ route' = "login" /\ dialog' = "none" /\ health' = FALSE
                    /\ deferred' = FALSE
                    /\ UNCHANGED <<step, setupId>>
               ELSE UNCHANGED page
            /\ CASE req[s].what = "enter" -> user' \in {"none", "unknown"} /\ mustSeen' = FALSE
                 [] req[s].what = "security" -> user' = "none" /\ mustSeen' = FALSE
                 [] OTHER -> UNCHANGED store
    /\ UNCHANGED <<server, warnings, lost>>

\* Mutant: the deferral outlives an import that failed.
AfterFailure_keepsDeferral(s) ==
    /\ Done(s)
    /\ IF req[s].what \in {"enter", "security", "logout"}
       THEN user' = "none" /\ mustSeen' = FALSE ELSE UNCHANGED store
    /\ dialog' = (IF req[s].what = "security" /\ OnPage THEN "security" ELSE dialog)
    /\ UNCHANGED <<server, route, step, setupId, health, deferred, warnings>>

\* The page after a request that failed: fetchMe forgets the account, logout
\* does too, an import no longer defers.
AfterFailure(s) ==
    /\ Done(s)
    /\ IF req[s].what \in {"enter", "security", "logout"}
       THEN user' = "none" /\ mustSeen' = FALSE ELSE UNCHANGED store
    /\ deferred' = (deferred /\ req[s].what # "import")
    /\ dialog' = (IF req[s].what = "security" /\ OnPage THEN "security" ELSE dialog)
    /\ UNCHANGED <<server, route, step, setupId, health, warnings>>

\* An accepted request that is answered with an error has changed nothing.
Failed(s) ==
    /\ req[s] # Free /\ req[s].at = "sent" /\ req[s].what # "poll"
    /\ req[s].what \in Public \/ session
    /\ AfterFailure(s)
    /\ UNCHANGED lost

Lost(s) ==
    /\ req[s] # Free
    /\ lost < MaxLost /\ lost' = lost + 1
    /\ AfterFailure(s)

\* Getting in: by the guard, or by the login form in one step or two.
LetIn(s) ==
    LET c == req[s] IN
    /\ c.what \in {"enter", "login", "code"} /\ c.at = "ok"
    /\ Done(s)
    /\ IF c.what = "login" /\ c.flag
       THEN step' = "code" /\ UNCHANGED <<route, dialog, health, store>>
       ELSE /\ user' = "in"
            /\ mustSeen' = (IF c.what = "enter" THEN c.flag ELSE must)
            /\ step' = "password"
            /\ \E to \in {"dashboard", "other"} : Mounted(to, mustSeen')
    /\ UNCHANGED <<server, setupId, deferred, warnings, lost>>

\* To the login page within the tab: the frame goes, and its timer with it.
ToLogin == route' = "login" /\ dialog' = "none" /\ health' = FALSE

Answered(s) ==
    LET c == req[s] IN
    /\ c.what \in {"security", "logout", "password", "disable"} /\ c.at = "ok"
    /\ Done(s)
    /\ CASE c.what = "security" -> user' = "in" /\ mustSeen' = c.flag
         [] c.what = "logout" -> user' = "none" /\ mustSeen' = FALSE
         [] OTHER -> UNCHANGED store
    /\ CASE c.what = "security" /\ OnPage -> dialog' = "security" /\ UNCHANGED <<route, health>>
         [] c.what \in {"logout", "password", "disable"} -> ToLogin
         [] OTHER -> UNCHANGED <<route, dialog, health>>
    /\ UNCHANGED <<server, step, setupId, deferred, warnings, lost>>

\* The answer to a setup is taken even when the dialog was closed meanwhile.
SetupStarted(s) ==
    /\ req[s].what = "setup" /\ req[s].at = "ok"
    /\ Done(s)
    /\ setupId' = OnPage
    /\ dialog' = (IF dialog = "setup" THEN "verify" ELSE dialog)
    /\ UNCHANGED <<server, route, step, health, deferred, store, warnings, lost>>

\* Enabling, or new recovery codes: only the frame's timer is stopped.
CodesIssued(s) ==
    /\ req[s].what \in {"enable", "regenerate"} /\ req[s].at = "ok"
    /\ Done(s)
    /\ dialog' = (IF OnPage THEN "recovery" ELSE dialog)
    /\ health' = FALSE
    /\ setupId' = (setupId /\ req[s].what # "enable")
    /\ UNCHANGED <<server, route, step, deferred, store, warnings, lost>>

\* The warnings are saved, the login page opens, then refusals count again.
Imported(s) ==
    /\ req[s].what = "import" /\ req[s].at = "ok"
    /\ Done(s)
    /\ warnings' = req[s].flag
    /\ ToLogin
    /\ deferred' = FALSE
    /\ UNCHANGED <<server, step, setupId, store, lost>>

-----------------------------------------------------------------------------
Begin ==
    /\ session = FALSE /\ totp \in BOOLEAN /\ must \in BOOLEAN /\ (totp => ~must)
    /\ pending = FALSE
    /\ route = "login" /\ user = "unknown" /\ mustSeen = FALSE /\ step = "password"
    /\ dialog = "none" /\ setupId = FALSE
    /\ health = FALSE /\ deferred = FALSE /\ warnings = FALSE
    /\ req = [s \in Names |-> Free]
    /\ lost = 0

Init == Begin

Answers(s) ==
    \/ Serve(s) \/ RestoreEnds(s)
    \/ Denied(s) \/ Failed(s) \/ LetIn(s) \/ Answered(s) \/ SetupStarted(s)
    \/ CodesIssued(s) \/ Imported(s)

Ticks == HealthTick \/ PageTick

Next ==
    \/ SessionEnds \/ Enter \/ Submit \/ BackToPassword
    \/ OpenSecurity \/ Logout \/ Send \/ ImportBackup \/ Close \/ FinishRecovery
    \/ Acknowledge \/ Ticks
    \/ \E to \in {"dashboard", "other"} : Back(to) \/ Go(to)
    \/ \E what \in {"import", "setup", "disable", "regenerate"} : Open(what)
    \/ \E s \in Names : Answers(s) \/ Lost(s)

\* Requests are answered or given up after their timeout, and the timer of the
\* frame fires as long as it runs: a hidden tab is shown again in the end.
Fairness ==
    /\ \A s \in Names : WF_vars(Answers(s))
    /\ WF_vars(HealthTick)

Spec == Init /\ [][Next]_vars /\ Fairness

-----------------------------------------------------------------------------
Restoring(s) == req[s].what = "import" /\ req[s].at \in {"begun", "ok"}

\* A restore that has ended the sessions is followed to its end: the page goes on
\* waiting for it until its warnings are shown, whatever requests of the timers are
\* refused meanwhile, and stays even when the answer is lost (the comment on
\* deferUnauthorizedRedirects).  Shown warnings outlive the login page that is
\* loaded anew: only the user, or the result of another restore, takes them away.
RestoreResultKept ==
    [][/\ \A s \in Names :
             Restoring(s) => \/ Restoring(s)'
                             \/ req[s].at = "ok" /\ warnings' = req[s].flag
                             \/ lost' # lost /\ UNCHANGED <<route, warnings>>
       /\ warnings /\ ~warnings' =>
             \/ UNCHANGED req
             \/ \E s \in Names : Restoring(s) /\ req[s].at = "ok"]_vars

\* A tab whose session has ended comes to the login page, unless it shows new
\* recovery codes: the frame's timer, the refusal and the end of the deferral.
DeadSessionLeaves ==
    (route # "login" /\ ~session) ~> (route = "login" \/ session \/ dialog = "recovery")

=============================================================================
