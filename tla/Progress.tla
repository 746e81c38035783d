------------------------------ MODULE Progress ------------------------------
(***************************************************************************)
(* Long operations that the administration UI starts and then follows with *)
(* repeated requests: cloud operations of a tunnel (useTunnels.js), the    *)
(* installation of the tunnel runtime (TunnelRuntime.vue) and of a program *)
(* update (SystemMaintenance.vue).                                         *)
(*                                                                         *)
(* The server runs one operation at a time.  An operation is known by its  *)
(* number; for an update "ready" is an inspected package and "none" the    *)
(* idle state.  What the server answers may be late, lost, or overtaken by *)
(* a later answer, and the page may be left while requests are under way.  *)
(***************************************************************************)
EXTENDS Integers, FiniteSets

CONSTANTS
    Slots,   \* names of the requests of the user that can be under way
    Timer,   \* the request of the timer
    MaxJobs, \* bound on the operations
    MaxLost  \* bound on the requests that fail

VARIABLES
    page,    \* the page of this behaviour
    mounted, \* it is on the screen
    job,     \* the server's latest operation, 0 if there was none
    state,   \* how far that one is
    shown,   \* the operation the page shows, and how far
    timer,   \* the page's timer runs
    req,     \* req[s]: a request under way
    lost     \* requests that failed so far

vars == <<page, mounted, job, state, shown, timer, req, lost>>

Pages  == {"tunnels", "runtime", "update"}
Jobs   == 0 .. MaxJobs
States == {"none", "ready", "running", "ended"}
Names  == Slots \cup {Timer}
Free   == [what |-> "none"]

\* start: begin an operation; list: what is the latest operation;
\* poll: how far is this one; save: an instance of a tunnel, after which the list
\* is read (relist) and its tunnel created (create).
Kinds    == {"start", "list", "poll", "save", "relist", "create"}
Requests == [what : Kinds, at : {"sent", "ok", "failed"}, job : Jobs, state : States]

TypeOK ==
    /\ page \in Pages /\ mounted \in BOOLEAN /\ timer \in BOOLEAN
    /\ timer => mounted \/ page = "update"
    /\ job \in Jobs /\ state \in States
    /\ shown \in [job : Jobs, state : States] /\ shown.job <= job
    /\ req \in [Names -> {Free} \cup Requests]
    /\ lost \in 0 .. MaxLost

Busy == shown.state = "running"

Ask(s, what, j) == [req EXCEPT ![s] =
                       [what |-> what, at |-> "sent", job |-> j, state |-> "none"]]

-----------------------------------------------------------------------------
(* The server                                                              *)

\* submit, the runtime's install, the update's install: one at a time.
Begin(s) ==
    LET accepted == IF page = "update" THEN state = "ready"
                    ELSE state # "running" /\ job < MaxJobs
    IN  /\ req[s].what \in {"start", "create"} /\ req[s].at = "sent"
        /\ \/ ~accepted
              /\ req' = [req EXCEPT ![s].at = "failed"]
              /\ UNCHANGED <<job, state>>
           \/ /\ accepted
              /\ job' = IF page = "update" THEN job ELSE job + 1
              /\ state' = "running"
              /\ req' = [req EXCEPT ![s].at = "ok", ![s].job = job', ![s].state = "running"]
        /\ UNCHANGED <<page, mounted, shown, timer, lost>>

\* The operation ends: done, failed, cut off after its deadline, or
\* interrupted by a restart of the program.
Finish ==
    /\ state = "running"
    /\ state' = "ended"
    /\ UNCHANGED <<page, mounted, job, shown, timer, req, lost>>

Read(s) ==
    LET c == req[s] IN
    /\ c.what \in {"list", "relist", "poll"} /\ c.at = "sent"
    /\ req' = [req EXCEPT ![s] =
          IF c.what # "poll" \/ page = "update"
          THEN [@ EXCEPT !.at = "ok", !.job = job, !.state = state]
          ELSE [@ EXCEPT !.at = "ok", !.state = IF c.job = job THEN state ELSE "ended"]]
    /\ UNCHANGED <<page, mounted, job, state, shown, timer, lost>>

\* Another tab starts an operation, or uploads a package.
OtherBegins ==
    /\ state # "running" /\ job < MaxJobs
    /\ job' = job + 1
    /\ state' = IF page = "update" THEN "ready" ELSE "running"
    /\ UNCHANGED <<page, mounted, shown, timer, req, lost>>

-----------------------------------------------------------------------------
(* Tunnels: useTunnels.js                                                  *)

\* restoreOperation: the latest operation, if the page shows none.
Restored(c) == IF shown.job = 0 THEN [job |-> c.job, state |-> c.state] ELSE shown

Refresh(s) ==
    /\ page \in {"tunnels", "runtime"} /\ mounted
    /\ req[s] = Free
    /\ req' = Ask(s, "list", 0)
    /\ UNCHANGED <<page, mounted, job, state, shown, timer, lost>>

\* Mutant: an answer that comes after the page was left starts the timer.
TunnelList_startsAnyway(s) ==
    LET c == req[s] IN
    /\ page = "tunnels"
    /\ c.what = "list" /\ c.at = "ok"
    /\ shown' = IF mounted THEN Restored(c) ELSE shown
    /\ req' = IF s = Timer /\ mounted /\ shown'.state = "running"
              THEN Ask(s, "poll", shown'.job) ELSE [req EXCEPT ![s] = Free]
    /\ timer' = TRUE
    /\ UNCHANGED <<page, mounted, job, state, lost>>

\* A list arrives.  The one of a tick goes on to the operation shown; the
\* first one of the page starts the timer, if the page is still there.
TunnelList(s) ==
    LET c == req[s] IN
    /\ page = "tunnels"
    /\ c.what = "list" /\ c.at = "ok"
    /\ shown' = IF mounted THEN Restored(c) ELSE shown
    /\ req' = IF s = Timer /\ mounted /\ shown'.state = "running"
              THEN Ask(s, "poll", shown'.job) ELSE [req EXCEPT ![s] = Free]
    /\ timer' = mounted
    /\ UNCHANGED <<page, mounted, job, state, lost>>

TunnelTick ==
    /\ page = "tunnels" /\ timer /\ mounted
    /\ req[Timer] = Free
    /\ req' = Ask(Timer, "list", 0)
    /\ UNCHANGED <<page, mounted, job, state, shown, timer, lost>>

\* The buttons of an instance wait for the operation that is shown.
ActionsOffered == page = "tunnels" /\ mounted /\ ~Busy

RunOperation(s) ==
    /\ ActionsOffered
    /\ req[s] = Free
    /\ req' = Ask(s, "start", 0)
    /\ UNCHANGED <<page, mounted, job, state, shown, timer, lost>>

\* The dialog of an instance, which is saved once at a time.
SaveInstance(s) ==
    /\ ActionsOffered
    /\ \A o \in Names : req[o].what \notin {"save", "relist", "create"}
    /\ req[s] = Free
    /\ req' = Ask(s, "save", 0)
    /\ UNCHANGED <<page, mounted, job, state, shown, timer, lost>>

\* A saved instance is read back, one that was refused is not.
Saved(s) ==
    /\ page = "tunnels" /\ req[s].what = "save"
    /\ \/ req' = Ask(s, "relist", 0)
       \/ req' = [req EXCEPT ![s] = Free]
    /\ UNCHANGED <<page, mounted, job, state, shown, timer, lost>>

\* The tunnel of a new instance is created next, whatever operation the list has
\* brought up, and even when the page has been left.
AfterRelist(s) ==
    \/ req' = Ask(s, "create", 0)
    \/ req' = [req EXCEPT ![s] = Free]

Relisted(s) ==
    LET c == req[s] IN
    /\ page = "tunnels"
    /\ c.what = "relist" /\ c.at = "ok"
    /\ shown' = IF mounted THEN Restored(c) ELSE shown
    /\ AfterRelist(s)
    /\ UNCHANGED <<page, mounted, job, state, timer, lost>>

-----------------------------------------------------------------------------
(* The tunnel runtime: TunnelRuntime.vue                                   *)

\* The page above hands down what it read.
RuntimeList(s) ==
    LET c == req[s] IN
    /\ page = "runtime"
    /\ c.what = "list" /\ c.at = "ok"
    /\ shown' = IF mounted THEN Restored(c) ELSE shown
    /\ req' = [req EXCEPT ![s] = Free]
    /\ UNCHANGED <<page, mounted, job, state, timer, lost>>

\* The button of the confirmation shows its own progress.
InstallOffered ==
    /\ page = "runtime" /\ mounted /\ ~Busy
    /\ \A o \in Names : req[o].what # "start"

Install(s) ==
    /\ InstallOffered
    /\ req[s] = Free
    /\ req' = Ask(s, "start", 0)
    /\ UNCHANGED <<page, mounted, job, state, shown, timer, lost>>

\* setTimeout(poll, 1000): after a change of the status to running and after
\* every answer that is not the end.
RuntimeTick ==
    /\ page = "runtime" /\ mounted /\ Busy
    /\ req[Timer] = Free
    /\ req' = Ask(Timer, "poll", shown.job)
    /\ UNCHANGED <<page, mounted, job, state, shown, timer, lost>>

-----------------------------------------------------------------------------
(* Answers for both                                                        *)

Started(s) ==
    LET c == req[s] IN
    /\ page \in {"tunnels", "runtime"}
    /\ c.what \in {"start", "create"} /\ c.at # "sent"
    /\ shown' = IF c.at = "ok" THEN [job |-> c.job, state |-> c.state] ELSE shown
    /\ req' = [req EXCEPT ![s] = Free]
    /\ UNCHANGED <<page, mounted, job, state, timer, lost>>

Polled(s) ==
    LET c == req[s] IN
    /\ page \in {"tunnels", "runtime"}
    /\ c.what = "poll" /\ c.at = "ok"
    /\ shown' = IF mounted THEN [job |-> c.job, state |-> c.state] ELSE shown
    /\ req' = [req EXCEPT ![s] = Free]
    /\ UNCHANGED <<page, mounted, job, state, timer, lost>>

-----------------------------------------------------------------------------
(* The program update: SystemMaintenance.vue                               *)

\* inspectPackage, or cancelPackage.  The status the page shows is that of the
\* last poll.
Inspect ==
    /\ page = "update" /\ mounted
    /\ state \in {"none", "ended"} /\ job < MaxJobs
    /\ job' = job + 1
    /\ state' = "ready"
    /\ UNCHANGED <<page, mounted, shown, timer, req, lost>>

CancelPackage ==
    /\ page = "update" /\ mounted /\ state = "ready"
    /\ state' = "none"
    /\ UNCHANGED <<page, mounted, job, shown, timer, req, lost>>

InstallPackage(s) ==
    /\ page = "update" /\ mounted /\ state = "ready"
    /\ \A o \in Names : req[o].what # "start"
    /\ req[s] = Free
    /\ req' = Ask(s, "start", job)
    /\ UNCHANGED <<page, mounted, job, state, shown, timer, lost>>

\* startStatusPoll: the timer starts over and one poll goes out at once.
StartStatusPoll(s) ==
    /\ timer' = TRUE
    /\ req' = Ask(s, "poll", 0)

\* Also when the page was left meanwhile.
InstallAnswered(s) ==
    LET c == req[s] IN
    /\ page = "update"
    /\ c.what = "start" /\ c.at # "sent"
    /\ IF c.at = "ok" THEN StartStatusPoll(s)
       ELSE req' = [req EXCEPT ![s] = Free] /\ UNCHANGED timer
    /\ UNCHANGED <<page, mounted, job, state, shown, lost>>

\* Mutant: nothing watches the state.
Watched_never(was, now) == FALSE

\* The watch on the state: polling starts again when an installation shows.
Watched(was, now) == mounted /\ now # was /\ now = "running"

PollStatus(s) ==
    LET c == req[s]
        on == timer /\ c.state \notin {"none", "ended"}
    IN  /\ page = "update"
        /\ c.what = "poll" /\ c.at = "ok"
        /\ shown' = [job |-> c.job, state |-> c.state]
        /\ IF Watched(shown.state, c.state) /\ ~on THEN StartStatusPoll(s)
           ELSE timer' = on /\ req' = [req EXCEPT ![s] = Free]
        /\ UNCHANGED <<page, mounted, job, state, lost>>

StatusTick ==
    /\ page = "update" /\ timer
    /\ req[Timer] = Free
    /\ req' = Ask(Timer, "poll", 0)
    /\ UNCHANGED <<page, mounted, job, state, shown, timer, lost>>

-----------------------------------------------------------------------------
\* No answer comes.  The first list of the tunnels page starts its timer even
\* then, and a saved instance is gone on with.
Lost(s) ==
    /\ req[s] # Free
    /\ lost < MaxLost /\ lost' = lost + 1
    /\ IF req[s].what = "relist" THEN AfterRelist(s) ELSE req' = [req EXCEPT ![s] = Free]
    /\ timer' = (timer \/ (page = "tunnels" /\ req[s].what = "list" /\ mounted))
    /\ UNCHANGED <<page, mounted, job, state, shown>>

\* onUnmounted
Leave ==
    /\ mounted
    /\ mounted' = FALSE
    /\ timer' = FALSE
    /\ UNCHANGED <<page, job, state, shown, req, lost>>

FirstSlot == CHOOSE s \in Slots : TRUE

\* onMounted: one request goes out.
Start(p) ==
    /\ page = p
    /\ mounted = TRUE
    /\ job = 0 /\ state = "none"
    /\ shown = [job |-> 0, state |-> "none"]
    /\ timer = FALSE
    /\ req = [s \in Names |-> IF s # FirstSlot THEN Free
                 ELSE [what |-> IF p = "update" THEN "poll" ELSE "list",
                       at |-> "sent", job |-> 0, state |-> "none"]]
    /\ lost = 0

Init == \E p \in Pages : Start(p)

Tick == TunnelTick \/ RuntimeTick \/ StatusTick

Answers(s) ==
    \/ Begin(s) \/ Read(s)
    \/ Saved(s) \/ Relisted(s)
    \/ TunnelList(s) \/ RuntimeList(s) \/ Started(s) \/ Polled(s)
    \/ InstallAnswered(s) \/ PollStatus(s)

Next ==
    \/ Finish \/ OtherBegins \/ Inspect \/ CancelPackage \/ Leave
    \/ Tick
    \/ \E s \in Names : Answers(s) \/ Lost(s)
    \/ \E s \in Slots :
          \/ Refresh(s) \/ RunOperation(s) \/ SaveInstance(s)
          \/ Install(s) \/ InstallPackage(s)

\* Requests are answered or given up, timers that run fire, and every
\* operation has a deadline.
Fairness ==
    /\ \A s \in Names : WF_vars(Answers(s))
    /\ WF_vars(Tick)
    /\ WF_vars(Finish)

Spec == Init /\ [][Next]_vars /\ Fairness

-----------------------------------------------------------------------------
\* No page goes on showing that an operation runs when it has ended, whatever
\* answers were lost or overtook each other: the next tick, the restarted
\* timer or the watch on the state sees to it.
ProgressEnds ==
    (mounted /\ shown.state = "running") ~> (~mounted \/ shown.state # "running")

=============================================================================
