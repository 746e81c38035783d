------------------------------- MODULE Views -------------------------------
(***************************************************************************)
(* The pages of the administration UI whose answers may overtake each      *)
(* other: the scan of the network, the two charts of the dashboard, the    *)
(* log, and the session with its login page and the dialogs of the         *)
(* account.  A behaviour is about one of them: which one is chosen at      *)
(* first, and the variables of the others stay as they are.                *)
(***************************************************************************)
EXTENDS Integers, FiniteSets

CONSTANTS
    Slots,    \* names of the requests of a page that can be under way
    Sites,    \* the sites there are at first
    Ranges,   \* the ranges of a chart that can be selected
    NoSite,   \* no site is chosen
    Timer,    \* the request of the timer of a scan
    User,     \* the requests of the account: the user's,
    Health,   \* the frame's timer's,
    Poll,     \* the page's timer's
    MaxScans, \* bound on the scans
    MaxLost   \* bound on the requests that fail

ASSUME PagesAssumption ==
    /\ Slots # {} /\ Ranges # {}
    /\ MaxScans \in Nat /\ MaxLost \in Nat

VARIABLES
    page, mounted, lost,
    visible, scan, status, starting, scanPolling, scans, running, stopping, scanReq, forgotten,
    metricPolling, disk, others, persistent, saving, range, drawn, loading, pending, load, save,
    sites, listed, site, chartRange, chart, chartLoading, list, seriesReq, replaced,
    paused, pagedOut, more, stream, logPolling, retry, clearing, logReq,
    session, totp, must, setup, route, account, mustSeen, step, accountDialog, setupId,
    health, deferred, warnings, accountReq

scanning == <<visible, scan, status, starting, scanPolling, scans, running, stopping, scanReq,
              forgotten>>
history  == <<metricPolling, disk, others, persistent, saving, range, drawn, loading, pending,
              load, save>>
traffic  == <<sites, listed, site, chartRange, chart, chartLoading, list, seriesReq, replaced>>
log      == <<paused, pagedOut, more, stream, logPolling, retry, clearing, logReq>>
console  == <<session, totp, must, setup, route, account, mustSeen, step, accountDialog,
              setupId, health, deferred, warnings, accountReq>>
vars     == <<page, mounted, lost, scanning, history, traffic, log, console>>

D == INSTANCE Discovery WITH job <- scan, polling <- scanPolling, req <- scanReq
H == INSTANCE Dashboard WITH polling <- metricPolling
T == INSTANCE SiteSeries WITH range <- chartRange, waiting <- chartLoading, req <- seriesReq
S == INSTANCE LogStream WITH polling <- logPolling, req <- logReq
C == INSTANCE Console WITH pending <- setup, user <- account, dialog <- accountDialog,
                           req <- accountReq

FirstRange == CHOOSE r \in Ranges : TRUE

-----------------------------------------------------------------------------
(* The variables of a page that is not shown                               *)

NoScans ==
    /\ visible = FALSE /\ scan = 0 /\ status = "none" /\ starting = FALSE /\ scanPolling = FALSE
    /\ scans = 0 /\ running = {} /\ stopping = {} /\ forgotten = {}
    /\ scanReq = [s \in D!Names |-> D!Free]

NoHistory ==
    /\ metricPolling = FALSE /\ disk = FALSE /\ others = FALSE /\ persistent = FALSE
    /\ saving = FALSE /\ loading = FALSE /\ pending = FALSE
    /\ range = FirstRange /\ drawn = {} /\ load = H!Free /\ save = H!Free

NoTraffic ==
    /\ sites = {} /\ listed = {} /\ site = NoSite /\ chartRange = FirstRange /\ chart = {}
    /\ chartLoading = FALSE /\ list = T!Free /\ replaced = FALSE
    /\ seriesReq = [s \in Slots |-> T!Free]

NoLog ==
    /\ paused = FALSE /\ pagedOut = FALSE /\ more = FALSE /\ stream = FALSE
    /\ logPolling = FALSE /\ retry = FALSE /\ clearing = FALSE
    /\ logReq = [s \in Slots |-> S!Free]

NoConsole ==
    /\ session = FALSE /\ totp = FALSE /\ must = FALSE /\ setup = FALSE
    /\ route = "login" /\ account = "unknown" /\ mustSeen = FALSE /\ step = "password"
    /\ accountDialog = "none" /\ setupId = FALSE /\ health = FALSE /\ deferred = FALSE
    /\ warnings = FALSE
    /\ accountReq = [s \in C!Names |-> C!Free]

-----------------------------------------------------------------------------
Init ==
    /\ \/ page = "discovery" /\ D!Begin
       \/ page = "history" /\ H!Begin
       \/ page = "traffic" /\ T!Begin
       \/ page = "log" /\ S!Begin
       \/ page = "console" /\ mounted = FALSE /\ C!Begin
    /\ page = "discovery" \/ NoScans
    /\ page = "history" \/ NoHistory
    /\ page = "traffic" \/ NoTraffic
    /\ page = "log" \/ NoLog
    /\ page = "console" \/ NoConsole

Next ==
    /\ UNCHANGED page
    /\ \/ page = "discovery" /\ D!Next /\ UNCHANGED <<history, traffic, log, console>>
       \/ page = "history" /\ H!Next /\ UNCHANGED <<scanning, traffic, log, console>>
       \/ page = "traffic" /\ T!Next /\ UNCHANGED <<scanning, history, log, console>>
       \/ page = "log" /\ S!Next /\ UNCHANGED <<scanning, history, traffic, console>>
       \/ page = "console" /\ C!Next /\ UNCHANGED <<mounted, scanning, history, traffic, log>>

Spec == Init /\ [][Next]_vars /\ C!Fairness

-----------------------------------------------------------------------------
\* Every page keeps its variables in their types.
TypeOK ==
    /\ page = "discovery" => D!TypeOK
    /\ page = "history" => H!TypeOK
    /\ page = "traffic" => T!TypeOK
    /\ page = "log" => S!TypeOK
    /\ page = "console" => C!TypeOK

\* A scan of the network that runs is on the screen, was told to stop or is about
\* to be: closing the dialog, opening it anew or leaving the page never leaves one
\* behind, even when the answer to its start comes after that.  Only a request
\* that fails can (ServiceDiscovery.vue, the generation and cancelId).
NoOrphanScan == page = "discovery" => D!NoOrphanScan

\* Once no request is under way the switch shows what the server does, and the
\* curves, if there are any, are of the selected range, however loads, changes
\* of the range and the switch overtook each other; the user need not wait for
\* the timer (loadMetrics, metricsPending and the comparison of the ranges).
HistoryIsTrue == page = "history" => H!HistoryIsTrue

\* Unless it is being loaded, the chart is of what is chosen, in whatever order
\* the answers come (seriesGeneration).  Only when the chosen site is deleted
\* elsewhere may its chart stay under the name of the site put in its place: the
\* watch loads a chart only where there is none.
ChartIsChosen == page = "traffic" => T!ChartIsChosen

\* While the log page is on the screen it follows the log exactly when it says
\* so: paused it neither streams nor polls, with older entries shown it does
\* not stream, and otherwise it streams, polls or is loading, whatever was under
\* way when the user paused, resumed or asked for older entries.  Only a load
\* that fails leaves it without either (startStream, stopStream, the watch on
\* paused).
FollowsAsShown == page = "log" => S!FollowsAsShown

\* A restore that has ended the sessions is followed to its end: the page goes on
\* waiting for it until its warnings are shown, whatever requests of the timers are
\* refused meanwhile, and stays even when the answer is lost (the comment on
\* deferUnauthorizedRedirects).  Shown warnings outlive the login page that is
\* loaded anew: only the user, or the result of another restore, takes them away.
RestoreResultKept == C!RestoreResultKept

\* A tab whose session has ended comes to the login page, unless it shows new
\* recovery codes: the frame's timer, the refusal and the end of the deferral.
DeadSessionLeaves == C!DeadSessionLeaves

=============================================================================
