----------------------------- MODULE ListPages -----------------------------
(***************************************************************************)
(* The pages and panels of the administration UI that show a list the      *)
(* server keeps and change it: port forwarding, certificates with their    *)
(* mappings, shared protection, access groups, the port trap,              *)
(* notifications, dynamic DNS with its records, DNS credentials, the       *)
(* routes of a tunnel and the backend pools.  They differ in what the      *)
(* interval timer does, in whether a load can start while another one is   *)
(* under way, in what they do when a change is answered, in which dialogs  *)
(* share a flag, and in whether the server compares revisions.             *)
(*                                                                         *)
(* What the server keeps for a page is abstracted to a version, a number   *)
(* that every change makes one larger.  Where a page reads several lists   *)
(* at once, the version is that of any one of them, and its part of the    *)
(* load arrives or fails on its own.  A behaviour is about one page, from  *)
(* the moment it is mounted until some time after it is left; other tabs   *)
(* and the server itself change what it shows.                             *)
(***************************************************************************)
EXTENDS Integers, FiniteSets

CONSTANTS
    Slots,      \* names of the requests of the user that can be under way
    Timer,      \* the request of the interval timer
    MaxVersion, \* bound on the changes
    MaxLost     \* bound on the requests that fail for want of an answer

VARIABLES
    page,      \* the page of this behaviour
    mounted,   \* the page is on the screen of its tab
    hidden,    \* the tab is in the background
    truth,     \* the version the server has
    issuing,   \* the server is obtaining a certificate
    shown,     \* the version the page shows
    loading,   \* the page's flag of that name
    polling,   \* the page's interval timer runs
    dialog,    \* dialog[w]: what the window w edits, "none" if it is closed
    seen,      \* seen[w]: the version it was filled from
    conflict,  \* the windows that say their item changed elsewhere
    saving,    \* the flags of that name that are on
    req,       \* req[s]: a request under way
    lost       \* requests that failed so far

vars == <<page, mounted, hidden, truth, issuing, shown, loading, polling,
          dialog, seen, conflict, saving, req, lost>>
tab    == <<mounted, hidden>>
server == <<truth, issuing>>
draft  == <<dialog, seen, conflict>>

Pages    == {"forward", "certs", "protection", "access", "trap", "notify", "ddns",
             "providers", "routes", "pools"}
Versions == 0 .. MaxVersion
Names    == Slots \cup {Timer}
Free     == [what |-> "none"]

\* A page's own dialog, that of an access user, and a second one: certificate
\* mappings, a ban, an access grant, or a DNS record.
Windows == {"main", "user", "side"}
Modes   == {"none", "new", "edit"}

\* A list that was asked for, or will be at the end of a timeout (due): by a save
\* that keeps its flag until the list is there (ends), or to fill a window anew.
Loads == [what : {"load"}, at : {"due", "sent", "ok"}, got : Versions, busy : BOOLEAN,
          ends : {"none"} \cup Windows, reopen : {"none"} \cup Windows]

\* A change: what the user did, the window whose flag it holds, and the version it
\* was made on.
Clicks  == {"switch", "remove", "drop", "run", "sync", "obtain", "revoke", "reconcile"}
Changes == [what : {"new", "edit"} \cup Clicks, w : {"none"} \cup Windows,
            at : {"sent", "ok", "conflict", "failed"}, on : Versions, got : Versions]

TypeOK ==
    /\ page \in Pages
    /\ {mounted, hidden, issuing, loading, polling} \subseteq BOOLEAN
    /\ polling => mounted \/ page = "certs"
    /\ truth \in Versions /\ shown \in 0 .. truth
    /\ dialog \in [Windows -> Modes] /\ seen \in [Windows -> 0 .. truth]
    /\ conflict \subseteq Windows /\ saving \subseteq Windows
    /\ req \in [Names -> {Free} \cup Loads \cup Changes]
    /\ lost \in 0 .. MaxLost

NoDialog == \A w \in Windows : dialog[w] = "none"

-----------------------------------------------------------------------------
(* What a load waits for                                                   *)

ForwardLoads    == TRUE
CertsLoads      == TRUE
DDNSLoads       == TRUE
NotifyLoads     == TRUE
ProvidersLoads  == TRUE
RoutesLoads     == TRUE
PoolsLoads      == TRUE
ProtectionLoads == ~loading
AccessLoads     == ~loading
TrapLoads       == ~loading /\ dialog["main"] = "none"

Loadable ==
    CASE page = "forward"    -> ForwardLoads
      [] page = "certs"      -> CertsLoads
      [] page = "ddns"       -> DDNSLoads
      [] page = "notify"     -> NotifyLoads
      [] page = "providers"  -> ProvidersLoads
      [] page = "routes"     -> RoutesLoads
      [] page = "pools"      -> PoolsLoads
      [] page = "protection" -> ProtectionLoads
      [] page = "access"     -> AccessLoads
      [] page = "trap"       -> TrapLoads

-----------------------------------------------------------------------------
(* What the interval timer does.  The one of notifications reloads events, *)
(* the one of port forwarding the log of a rule: neither reloads the list. *)

ProtectionPolls == NoDialog
AccessPolls     == NoDialog
DDNSPolls       == NoDialog

PollLoads ==
    \/ page = "protection" /\ ProtectionPolls
    \/ page = "access" /\ AccessPolls
    \/ page = "ddns" /\ DDNSPolls
    \/ page \in {"trap", "certs"}

PollsFromStart == page \in {"protection", "access", "trap", "ddns"}

-----------------------------------------------------------------------------
(* What the user can do on the page.  While a list loads a cover lies over *)
(* its rows, on some pages over the whole page.                            *)

ForwardOffers    == {"new", "edit", "switch", "remove"}
CertsOffers      == {"new", "edit", "mappings", "switch", "remove", "obtain"}
ProtectionOffers == {"new", "edit", "ban", "remove"}
AccessOffers     == {"new", "edit", "newUser", "editUser", "grant", "remove", "revoke"}
TrapOffers       == {"edit"}
NotifyOffers     == {"edit", "remove"}
DDNSOffers       == {"new", "edit", "record", "switch", "remove", "drop", "run"}
ProvidersOffers  == {"new", "edit", "remove"}
RoutesOffers     == {"new", "edit", "remove"}
                    \cup (IF "main" \in saving THEN {} ELSE {"reconcile"})
PoolsOffers      == {"new", "edit", "remove"}

Offers ==
    CASE page = "forward"    -> ForwardOffers
      [] page = "certs"      -> CertsOffers
      [] page = "protection" -> ProtectionOffers
      [] page = "access"     -> AccessOffers
      [] page = "trap"       -> TrapOffers
      [] page = "notify"     -> NotifyOffers
      [] page = "ddns"       -> DDNSOffers
      [] page = "providers"  -> ProvidersOffers
      [] page = "routes"     -> RoutesOffers
      [] page = "pools"      -> PoolsOffers

Screen  == mounted /\ ~hidden /\ NoDialog
Covered == loading /\ page \in {"access", "trap", "notify", "routes"}
Rows    == Screen /\ ~loading

\* A refresh button that shows its own progress is not pressed twice, one under
\* the cover is not pressed at all, and the credentials have none.
RefreshOffered ==
    /\ Screen /\ ~Covered
    /\ page \notin {"providers"}
    /\ page = "forward" => ~loading

\* The window a button opens, and what for.
WindowOf(button) ==
    CASE button \in {"new", "edit"}         -> "main"
      [] button \in {"newUser", "editUser"} -> "user"
      [] button \in {"mappings", "ban", "grant", "record"} -> "side"

ModeOf(button) == IF button \in {"new", "newUser", "ban", "grant"} THEN "new" ELSE "edit"

-----------------------------------------------------------------------------
(* The dialogs: when their save buttons can be pressed.  Shared protection *)
(* and access groups have one flag for all their dialogs.                  *)

Flag(w) == IF page \in {"protection", "access"} THEN "main" ELSE w

\* The warning of a changed item is the same for an access group and a user.
Warning(w) == IF page = "access" /\ w = "user" THEN "main" ELSE w

ForwardSaves(w)    == w \notin saving
CertsSaves(w)      == w \notin saving
MappingsSaves(w)   == w \notin saving /\ w \notin conflict
ProtectionSaves(w) == "main" \notin saving
AccessSaves(w)     == "main" \notin saving /\ (w # "side" => "main" \notin conflict)
TrapSaves(w)       == w \notin saving
NotifySaves(w)     == w \notin saving
DDNSSaves(w)       == w \notin saving /\ w \notin conflict
ProvidersSaves(w)  == w \notin saving
RoutesSaves(w)     == w \notin saving
PoolsSaves(w)      == w \notin saving /\ w \notin conflict

Savable(w) ==
    CASE page = "forward"    -> ForwardSaves(w)
      [] page = "certs" /\ w # "side" -> CertsSaves(w)
      [] page = "certs" /\ w = "side" -> MappingsSaves(w)
      [] page = "protection" -> ProtectionSaves(w)
      [] page = "access"     -> AccessSaves(w)
      [] page = "trap"       -> TrapSaves(w)
      [] page = "notify"     -> NotifySaves(w)
      [] page = "ddns"       -> DDNSSaves(w)
      [] page = "providers"  -> ProvidersSaves(w)
      [] page = "routes"     -> RoutesSaves(w)
      [] page = "pools"      -> PoolsSaves(w)

-----------------------------------------------------------------------------
(* What the server does with a change: which ones it refuses when they were*)
(* made on another version                                                 *)

CertsCompares(c)  == c.w = "side"
AccessCompares(c) == c.what \in {"edit", "remove"}
DDNSCompares(c)   == c.w = "side" \/ c.what \in {"edit", "switch", "remove", "drop"}
RoutesCompares(c) == c.what = "reconcile"
PoolsCompares(c)  == c.what \in {"edit", "remove"}

Compared(c) ==
    \/ page = "certs" /\ CertsCompares(c)
    \/ page = "access" /\ AccessCompares(c)
    \/ page = "ddns" /\ DDNSCompares(c)
    \/ page = "routes" /\ RoutesCompares(c)
    \/ page = "pools" /\ PoolsCompares(c)

-----------------------------------------------------------------------------
(* What the page does with the answer to a change                          *)

ForwardReloads(c)    == c.at = "ok" \/ c.what = "switch"
CertsReloads(c)      == c.at = "ok" \/ c.what = "switch"
ProtectionReloads(c) == c.at = "ok"
AccessReloads(c)     == c.at = "ok"
ProvidersReloads(c)  == c.at = "ok"
RoutesReloads(c)     == c.at = "ok"
PoolsReloads(c)      == c.at = "ok"

\* A task that cannot be saved is read again after a conflict only, and not at all
\* when it cannot be deleted; a record, a switch or a run always.
DDNSReloads(c) ==
    \/ c.at = "ok"
    \/ c.w = "main" /\ c.at = "conflict"
    \/ c.w = "side" \/ c.what \in {"switch", "run", "drop"}

Reloads(c) ==
    \/ page = "forward" /\ ForwardReloads(c)
    \/ page = "certs" /\ CertsReloads(c)
    \/ page = "protection" /\ ProtectionReloads(c)
    \/ page = "access" /\ AccessReloads(c)
    \/ page = "ddns" /\ DDNSReloads(c)
    \/ page = "providers" /\ ProvidersReloads(c)
    \/ page = "routes" /\ RoutesReloads(c)
    \/ page = "pools" /\ PoolsReloads(c)

\* The answer itself is what the page shows from now on.
TrapShows(c)   == c.at = "ok"
NotifyShows(c) == c.at = "ok"
RoutesShows(c) == c.at = "ok" /\ c.what # "reconcile"

Shows(c) ==
    \/ page = "trap" /\ TrapShows(c)
    \/ page = "notify" /\ NotifyShows(c)
    \/ page = "routes" /\ RoutesShows(c)

\* The flag stays on until the list is there again.
ProtectionBusy(c) == c.at = "ok"
AccessBusy(c)     == c.w = "side" /\ c.at = "ok"
DDNSBusy(c)       == c.w = "side" \/ c.at = "conflict"
RoutesBusy(c)     == c.at = "ok"
PoolsBusy(c)      == c.at = "ok"

BusyUntilLoaded(c) ==
    /\ c.w # "none"
    /\ \/ page = "protection" /\ ProtectionBusy(c)
       \/ page = "access" /\ AccessBusy(c)
       \/ page = "ddns" /\ DDNSBusy(c)
       \/ page = "routes" /\ RoutesBusy(c)
       \/ page = "pools" /\ PoolsBusy(c)

-----------------------------------------------------------------------------
(* Requests                                                                *)

Load(at, ends, reopen) ==
    [what |-> "load", at |-> at, got |-> 0, busy |-> FALSE, ends |-> ends, reopen |-> reopen]

AskLoad(s) ==
    /\ Loadable
    /\ req[s] = Free
    /\ req' = [req EXCEPT ![s] = Load("sent", "none", "none")]
    /\ loading' = TRUE

AskChange(s, what, w, on) ==
    /\ req[s] = Free
    /\ req' = [req EXCEPT ![s] = [what |-> what, w |-> w, at |-> "sent", on |-> on, got |-> 0]]

NoneUnderWay(what) == \A s \in Names : req[s].what # what

\* The timeout after a certificate was asked for, also on a page that was left.
LoadDue(s) ==
    /\ req[s].what = "load" /\ req[s].at = "due"
    /\ req' = [req EXCEPT ![s].at = "sent"]
    /\ loading' = TRUE
    /\ UNCHANGED <<page, tab, server, shown, polling, draft, saving, lost>>

\* The server answers with what it has now.
ServeLoad(s) ==
    /\ req[s].what = "load" /\ req[s].at = "sent"
    /\ req' = [req EXCEPT ![s].at = "ok", ![s].got = truth, ![s].busy = issuing]
    /\ UNCHANGED <<page, tab, server, shown, loading, polling, draft, saving, lost>>

\* The server makes the change, unless its item changed since or something else
\* is wrong with it.  Obtaining a certificate only begins, once at a time.
ServeChange(s) ==
    LET c == req[s]
        Answer(at) == req' = [req EXCEPT ![s].at = at, ![s].got = truth']
    IN  /\ c.what \notin {"none", "load"} /\ c.at = "sent"
        /\ \/ UNCHANGED server /\ Answer("failed")
           \/ Compared(c) /\ c.on # truth /\ UNCHANGED server /\ Answer("conflict")
           \/ /\ Compared(c) => c.on = truth
              /\ c.what = "obtain" => ~issuing
              /\ truth' = IF c.what = "obtain" THEN truth ELSE truth + 1
              /\ truth' <= MaxVersion
              /\ issuing' = (issuing \/ c.what = "obtain")
              /\ Answer("ok")
        /\ UNCHANGED <<page, tab, shown, loading, polling, draft, saving, lost>>

\* Another tab changes the list, or the server does.
OtherChange ==
    /\ truth < MaxVersion
    /\ truth' = truth + 1
    /\ UNCHANGED <<page, tab, issuing, shown, loading, polling, draft, saving, req, lost>>

IssueEnds ==
    /\ issuing
    /\ truth' \in {truth, truth + 1} \cap Versions
    /\ issuing' = FALSE
    /\ UNCHANGED <<page, tab, shown, loading, polling, draft, saving, req, lost>>

\* Only the certificates page starts and stops its timer with what it reads,
\* and does so even when the page has been left meanwhile.
CertsPolling(l) == IF page = "certs" THEN l.busy ELSE polling

\* The window l was asked for shows the version that is there now, or closes when
\* its item is gone from it.
Reopen(l, version) ==
    IF l.reopen = "none" THEN UNCHANGED draft
    ELSE \/ /\ dialog' = [dialog EXCEPT ![l.reopen] = "edit"]
            /\ seen' = [seen EXCEPT ![l.reopen] = version]
            /\ conflict' = conflict \ {l.reopen}
         \/ /\ version # seen[l.reopen]
            /\ dialog' = [dialog EXCEPT ![l.reopen] = "none"]
            /\ UNCHANGED <<seen, conflict>>

LoadArrives(s) ==
    LET l == req[s] IN
    /\ l.what = "load" /\ l.at = "ok"
    /\ req' = [req EXCEPT ![s] = Free]
    /\ shown' = l.got
    /\ loading' = FALSE
    /\ polling' = CertsPolling(l)
    /\ saving' = saving \ {l.ends}
    /\ Reopen(l, l.got)
    /\ UNCHANGED <<page, tab, server, lost>>

\* Mutant: a load that fails leaves the flag set.
LoadFails_keepsLoading(s) ==
    LET l == req[s] IN
    /\ l.what = "load" /\ l.at # "due"
    /\ lost < MaxLost /\ lost' = lost + 1
    /\ req' = [req EXCEPT ![s] = Free]
    /\ saving' = saving \ {l.ends}
    /\ Reopen(l, shown)
    /\ UNCHANGED <<page, tab, server, shown, loading, polling>>

LoadFails(s) ==
    LET l == req[s] IN
    /\ l.what = "load" /\ l.at # "due"
    /\ lost < MaxLost /\ lost' = lost + 1
    /\ req' = [req EXCEPT ![s] = Free]
    /\ loading' = FALSE
    /\ saving' = saving \ {l.ends}
    /\ Reopen(l, shown)
    /\ UNCHANGED <<page, tab, server, shown, polling>>

\* Saved mappings stay open and go on from the answer; the answer to anything else
\* that holds a dialog's flag closes that dialog, but not the recovery of a route.
Closes(c) == c.w # "none" /\ c.at = "ok" /\ c.what # "reconcile"

\* A conflict is told by the dialog, and the next refusal for another reason takes
\* that back, but not on the page of dynamic DNS.
Warns(c) == c.at = "conflict" /\ c.w # "none" /\ page # "routes"
Excuses(c) ==
    /\ c.at = "failed"
    /\ \/ page = "certs" /\ c.w = "side"
       \/ page = "access" /\ c.w \in {"main", "user"}
       \/ page = "pools" /\ c.w = "main"

\* The dialog after an answer.  That it may have been opened again for another
\* item in between makes no difference to the code.
DialogAfter(c) ==
    /\ IF Closes(c) /\ page = "certs" /\ c.w = "side"
       THEN seen' = [seen EXCEPT !["side"] = c.got] /\ UNCHANGED dialog
       ELSE IF Closes(c) THEN dialog' = [dialog EXCEPT ![c.w] = "none"] /\ UNCHANGED seen
       ELSE UNCHANGED <<dialog, seen>>
    /\ conflict' = IF Warns(c) THEN conflict \cup {Warning(c.w)}
                   ELSE IF Excuses(c) THEN conflict \ {Warning(c.w)} ELSE conflict

\* The page takes the answer to a change: it reloads the list, if it can; after a
\* certificate was asked for only at the end of a timeout.
Takes(s, c) ==
    LET reloading == Reloads(c) /\ Loadable
        held      == reloading /\ BusyUntilLoaded(c)
    IN  /\ req' = [req EXCEPT ![s] =
                      IF reloading
                      THEN Load(IF c.what = "obtain" THEN "due" ELSE "sent",
                                IF held THEN Flag(c.w) ELSE "none", "none")
                      ELSE Free]
        /\ loading' = (loading \/ (reloading /\ c.what # "obtain"))
        /\ shown' = IF Shows(c) THEN c.got ELSE shown
        /\ saving' = IF c.w = "none" \/ held THEN saving ELSE saving \ {Flag(c.w)}
        /\ DialogAfter(c)
        /\ UNCHANGED <<page, tab, server, polling>>

ChangeArrives(s) ==
    /\ req[s].what \notin {"none", "load"} /\ req[s].at # "sent"
    /\ Takes(s, req[s])
    /\ UNCHANGED lost

\* No answer comes, or one that the change failed after it was made: the server
\* may have made it or not.
ChangeFails(s) ==
    /\ req[s].what \notin {"none", "load"}
    /\ lost < MaxLost /\ lost' = lost + 1
    /\ Takes(s, [req[s] EXCEPT !.at = "failed"])

-----------------------------------------------------------------------------
(* The timer (useIntervalFn), and the page coming and going                *)

\* A tick does nothing while the request of the tick before is under way.
Tick ==
    /\ polling /\ ~hidden
    /\ PollLoads
    /\ AskLoad(Timer)
    /\ UNCHANGED <<page, tab, server, shown, polling, draft, saving, lost>>

Hide ==
    /\ hidden' = ~hidden
    /\ UNCHANGED <<page, mounted, server, shown, loading, polling, draft, saving, req, lost>>

\* onUnmounted: the timer stops.  Requests under way go on.
Leave ==
    /\ mounted
    /\ mounted' = FALSE
    /\ polling' = FALSE
    /\ dialog' = [w \in Windows |-> "none"]
    /\ UNCHANGED <<page, hidden, server, shown, loading, seen, conflict, saving, req, lost>>

-----------------------------------------------------------------------------
(* The user                                                                *)

Refresh(s) ==
    /\ RefreshOffered
    /\ AskLoad(s)
    /\ UNCHANGED <<page, tab, server, shown, polling, draft, saving, lost>>

\* A switch or button of a row.  A certificate that is shown as being obtained is
\* not asked for again, nor a task that runs; removing and recovering a route
\* hold the flag of the route's dialog.
Click(s, what) ==
    /\ Rows /\ what \in Offers
    /\ what = "obtain" => ~polling
    /\ what = "run" => NoneUnderWay("run")
    /\ AskChange(s, what, IF page = "routes" THEN "main" ELSE "none", shown)
    /\ saving' = IF page = "routes" THEN saving \cup {"main"} ELSE saving
    /\ UNCHANGED <<page, tab, server, shown, loading, polling, draft, lost>>

\* The dialog of mappings runs the saved ones.
SyncMappings(s) ==
    /\ page = "certs" /\ mounted /\ ~hidden /\ dialog["side"] = "edit"
    /\ NoneUnderWay("sync")
    /\ AskChange(s, "sync", "none", seen["side"])
    /\ UNCHANGED <<page, tab, server, shown, loading, polling, draft, saving, lost>>

\* Opening a grant leaves the warning of the group's dialog as it is.
Open(button) ==
    LET w == WindowOf(button) IN
    /\ button \in Offers
    /\ IF ModeOf(button) = "new" THEN Screen /\ ~Covered ELSE Rows
    /\ dialog' = [dialog EXCEPT ![w] = ModeOf(button)]
    /\ seen' = [seen EXCEPT ![w] = shown]
    /\ conflict' = IF button = "grant" THEN conflict ELSE conflict \ {Warning(w)}
    /\ UNCHANGED <<page, tab, server, shown, loading, polling, saving, req, lost>>

Save(s, w) ==
    /\ mounted /\ ~hidden /\ dialog[w] # "none" /\ Savable(w)
    /\ AskChange(s, dialog[w], w, seen[w])
    /\ saving' = saving \cup {Flag(w)}
    /\ UNCHANGED <<page, tab, server, shown, loading, polling, draft, lost>>

\* Dynamic DNS only: after a confirmation the list is read and the window
\* filled from it.
ReloadDraft(s, w) ==
    /\ page = "ddns" /\ mounted /\ ~hidden /\ dialog[w] # "none" /\ w \in conflict
    /\ req[s] = Free
    /\ req' = [req EXCEPT ![s] = Load("sent", "none", w)]
    /\ loading' = TRUE
    /\ UNCHANGED <<page, tab, server, shown, polling, draft, saving, lost>>

Close(w) ==
    /\ page # "trap" /\ mounted /\ ~hidden /\ dialog[w] # "none"
    /\ dialog' = [dialog EXCEPT ![w] = "none"]
    /\ UNCHANGED <<page, tab, server, shown, loading, polling, seen, conflict, saving, req, lost>>

\* The port trap reloads when its form is closed, and does not close while it
\* saves.
CloseTrap(s) ==
    /\ page = "trap" /\ mounted /\ ~hidden /\ dialog["main"] # "none" /\ saving = {}
    /\ dialog' = [dialog EXCEPT !["main"] = "none"]
    /\ IF loading THEN UNCHANGED <<req, loading>>
       ELSE /\ req[s] = Free
            /\ req' = [req EXCEPT ![s] = Load("sent", "none", "none")]
            /\ loading' = TRUE
    /\ UNCHANGED <<page, tab, server, shown, polling, seen, conflict, saving, lost>>

-----------------------------------------------------------------------------
FirstSlot == CHOOSE s \in Slots : TRUE

\* onMounted: the list is asked for and the timer started.
Start(p) ==
    /\ page = p
    /\ mounted = TRUE /\ hidden = FALSE
    /\ truth = 0 /\ issuing = FALSE /\ shown = 0
    /\ loading = TRUE /\ polling = PollsFromStart
    /\ dialog = [w \in Windows |-> "none"] /\ seen = [w \in Windows |-> 0]
    /\ conflict = {} /\ saving = {}
    /\ req = [s \in Names |-> IF s = FirstSlot THEN Load("sent", "none", "none") ELSE Free]
    /\ lost = 0

Init == \E p \in Pages : Start(p)

Answers(s) ==
    \/ LoadDue(s) \/ ServeLoad(s) \/ LoadArrives(s)
    \/ ServeChange(s) \/ ChangeArrives(s)

Next ==
    \/ OtherChange \/ IssueEnds \/ Hide \/ Leave \/ Tick
    \/ \E s \in Names : Answers(s) \/ LoadFails(s) \/ ChangeFails(s)
    \/ \E s \in Slots :
          \/ Refresh(s) \/ SyncMappings(s) \/ CloseTrap(s)
          \/ \E what \in Clicks \ {"sync"} : Click(s, what)
          \/ \E w \in Windows : Save(s, w) \/ ReloadDraft(s, w)
    \/ \E w \in Windows : Close(w)
    \/ \E button \in {"new", "edit", "newUser", "editUser", "mappings", "ban", "grant", "record"} :
          Open(button)

\* Requests are answered or given up after their timeout, a timer that runs
\* fires, and the certificate authority answers in the end.
Fairness ==
    /\ \A s \in Names : WF_vars(Answers(s))
    /\ WF_vars(Tick)
    /\ WF_vars(IssueEnds)

Spec == Init /\ [][Next]_vars /\ Fairness

-----------------------------------------------------------------------------
Calm == mounted /\ ~hidden /\ NoDialog

\* A page with a timer that stays on the screen with no dialog open shows the
\* server's list in the end, whatever requests were lost or overtook each
\* other before (the timers of Protection, AccessGroups, TCPTrap and DDNS).
ListsCatchUp ==
    PollsFromStart => (<>[]Calm => <>[](shown = truth))

=============================================================================
