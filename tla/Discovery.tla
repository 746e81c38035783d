----------------------------- MODULE Discovery -----------------------------
(***************************************************************************)
(* The dialog that scans the local network for services                    *)
(* (ServiceDiscovery.vue) and the scans of the server                      *)
(* (webproxy/discovery.go).                                                *)
(*                                                                         *)
(* A scan costs the router sixteen connections at a time for up to a       *)
(* minute, and only two may run: a dialog that is closed, or a page that is*)
(* left, is to take its scan with it, also when the scan has been asked for*)
(* and its answer is still under way.  The generation the dialog counts is *)
(* modelled by marking what is under way as stale when it is counted up.   *)
(***************************************************************************)
EXTENDS Integers, FiniteSets

CONSTANTS
    Slots,    \* names of the requests that can be under way
    Timer,    \* the request of the interval timer
    MaxScans, \* bound on the scans
    MaxLost   \* bound on the requests that fail

VARIABLES
    mounted,  \* the page is on the screen
    visible,  \* the dialog is open
    job,      \* the scan the dialog shows, 0 for none
    status,   \* what it shows of it: none, running, ended
    starting, \* the dialog's flag of that name
    polling,  \* the interval timer runs
    scans,    \* the scans of this page so far
    running,  \* those the server still works on
    stopping, \* of these the ones it was told to stop
    req,      \* req[s]: a request under way
    lost,     \* requests that failed so far
    forgotten \* history: scans whose start or cancellation failed that way

vars == <<mounted, visible, job, status, starting, polling, scans, running,
          stopping, req, lost, forgotten>>
dialog == <<visible, job, status, starting>>
server == <<scans, running, stopping>>

Scans == 1 .. MaxScans
Names == Slots \cup {Timer}
Free  == [what |-> "none"]

\* A load may follow the cancellation; stale: of an earlier generation.
Requests == [what : {"start", "load", "cancel"}, at : {"sent", "ok", "failed"},
             id : 0 .. MaxScans, status : {"running", "ended"},
             then : BOOLEAN, stale : BOOLEAN]

TypeOK ==
    /\ {mounted, visible, starting, polling} \subseteq BOOLEAN
    /\ job \in 0 .. scans /\ status \in {"none", "running", "ended"}
    /\ scans \in 0 .. MaxScans /\ running \subseteq 1 .. scans /\ stopping \subseteq running
    /\ req \in [Names -> {Free} \cup Requests]
    /\ lost \in 0 .. MaxLost /\ forgotten \subseteq 1 .. scans

Request(what, id, then, stale) ==
    [what |-> what, at |-> "sent", id |-> id, status |-> "running",
     then |-> then, stale |-> stale]

\* generation++: what is under way is of an earlier generation now.
NextGeneration == [s \in Names |-> IF req[s] = Free THEN Free ELSE [req[s] EXCEPT !.stale = TRUE]]

IsRunning == status = "running"

-----------------------------------------------------------------------------
(* The server                                                              *)

\* start: refused when two scans run already, those of other tabs included.  A scan
\* that ended is forgotten after eight more: it is not found then.  One that is told
\* to stop runs on until its connections are closed.
Serve(s) ==
    LET c == req[s] IN
    /\ c # Free /\ c.at = "sent"
    /\ \/ /\ c.what = "start"
          /\ req' = [req EXCEPT ![s].at = "failed"]
          /\ UNCHANGED server
       \/ /\ c.what = "start" /\ Cardinality(running) < 2 /\ scans < MaxScans
          /\ scans' = scans + 1
          /\ running' = running \cup {scans'}
          /\ req' = [req EXCEPT ![s].at = "ok", ![s].id = scans']
          /\ UNCHANGED stopping
       \/ /\ c.what = "load" /\ c.id \notin running
          /\ req' = [req EXCEPT ![s].at = "failed"]
          /\ UNCHANGED server
       \/ /\ c.what = "load"
          /\ req' = [req EXCEPT ![s].at = "ok",
                                ![s].status = IF c.id \in running THEN "running" ELSE "ended"]
          /\ UNCHANGED server
       \/ /\ c.what = "cancel"
          /\ stopping' = stopping \cup ({c.id} \cap running)
          /\ req' = [req EXCEPT ![s].at = "ok"]
          /\ UNCHANGED <<scans, running>>
    /\ UNCHANGED <<mounted, dialog, polling, lost, forgotten>>

\* A scan is through its addresses, its minute is over, or it has stopped.
ScanEnds ==
    /\ \E j \in running : running' = running \ {j} /\ stopping' = stopping \ {j}
    /\ UNCHANGED <<mounted, dialog, polling, scans, req, lost, forgotten>>

-----------------------------------------------------------------------------
(* The dialog                                                              *)

Open ==
    /\ mounted /\ ~visible
    /\ visible' = TRUE
    /\ job' = 0 /\ status' = "none" /\ starting' = FALSE
    /\ req' = NextGeneration
    /\ UNCHANGED <<mounted, polling, server, lost, forgotten>>

Start(s) ==
    /\ mounted /\ visible /\ ~starting /\ ~IsRunning
    /\ req[s] = Free
    /\ req' = [req EXCEPT ![s] = Request("start", 0, FALSE, FALSE)]
    /\ starting' = TRUE
    /\ UNCHANGED <<mounted, visible, job, status, polling, server, lost, forgotten>>

\* The scan shown is cancelled if the dialog takes it for running.
CancelShown(s) ==
    IF IsRunning
    THEN /\ req[s] = Free
         /\ req' = [NextGeneration EXCEPT ![s] = Request("cancel", job, FALSE, TRUE)]
    ELSE req' = NextGeneration

\* Also when a result is chosen: the rule editor opens instead.
Close(s) ==
    /\ mounted /\ visible
    /\ visible' = FALSE
    /\ polling' = FALSE
    /\ CancelShown(s)
    /\ UNCHANGED <<mounted, job, status, starting, server, lost, forgotten>>

\* The page is left, with the dialog open or not.
Leave(s) ==
    /\ mounted
    /\ mounted' = FALSE
    /\ polling' = FALSE
    /\ CancelShown(s)
    /\ UNCHANGED <<dialog, server, lost, forgotten>>

Cancel(s) ==
    /\ mounted /\ visible /\ IsRunning
    /\ req[s] = Free
    /\ req' = [req EXCEPT ![s] = Request("cancel", job, TRUE, FALSE)]
    /\ UNCHANGED <<mounted, dialog, polling, server, lost, forgotten>>

Tick ==
    /\ polling /\ visible /\ IsRunning
    /\ req[Timer] = Free
    /\ req' = [req EXCEPT ![Timer] = Request("load", job, FALSE, FALSE)]
    /\ UNCHANGED <<mounted, dialog, polling, server, lost, forgotten>>

-----------------------------------------------------------------------------
(* Answers                                                                 *)

\* Mutant: the generation is not compared.
Outdated_never(c) == FALSE

Outdated(c) == c.stale \/ ~visible

\* A scan nobody waits for any more is cancelled at once.
Started(s) ==
    LET c == req[s] IN
    /\ c.what = "start" /\ c.at # "sent"
    /\ starting' = (starting /\ c.stale)
    /\ IF c.at = "ok" /\ Outdated(c)
       THEN /\ req' = [req EXCEPT ![s] = Request("cancel", c.id, FALSE, TRUE)]
            /\ UNCHANGED <<job, status, polling>>
       ELSE /\ req' = [req EXCEPT ![s] = Free]
            /\ IF c.at = "ok" THEN job' = c.id /\ status' = c.status /\ polling' = TRUE
                              ELSE UNCHANGED <<job, status, polling>>
    /\ UNCHANGED <<mounted, visible, server, lost, forgotten>>

Loaded(s) ==
    LET c == req[s] IN
    /\ c.what = "load" /\ c.at # "sent"
    /\ req' = [req EXCEPT ![s] = Free]
    /\ \/ c.at = "failed" /\ polling' = (polling /\ c.stale) /\ UNCHANGED status
       \/ c.at = "ok" /\ (Outdated(c) \/ job # c.id) /\ UNCHANGED <<status, polling>>
       \/ /\ c.at = "ok" /\ ~Outdated(c) /\ job = c.id
          /\ status' = c.status /\ polling' = (polling /\ c.status = "running")
    /\ UNCHANGED <<mounted, visible, job, starting, server, lost, forgotten>>

\* cancelId's failure is ignored: the load follows all the same.
AfterCancel(s) ==
    req' = [req EXCEPT ![s] = IF req[s].then /\ visible /\ IsRunning
                              THEN Request("load", job, FALSE, FALSE) ELSE Free]

Cancelled(s) ==
    /\ req[s].what = "cancel" /\ req[s].at = "ok"
    /\ AfterCancel(s)
    /\ UNCHANGED <<mounted, dialog, polling, server, lost, forgotten>>

\* No answer comes.  A failed load of this generation stops the timer.
Lost(s) ==
    LET c == req[s] IN
    /\ c # Free
    /\ lost < MaxLost /\ lost' = lost + 1
    /\ IF c.what = "cancel" THEN AfterCancel(s) ELSE req' = [req EXCEPT ![s] = Free]
    /\ starting' = (starting /\ (c.what # "start" \/ c.stale))
    /\ polling' = (polling /\ (c.what # "load" \/ c.stale))
    /\ forgotten' = IF c.what # "load" /\ c.id # 0 THEN forgotten \cup {c.id} ELSE forgotten
    /\ UNCHANGED <<mounted, visible, job, status, server>>

-----------------------------------------------------------------------------
Begin ==
    /\ mounted = TRUE /\ visible = FALSE
    /\ job = 0 /\ status = "none" /\ starting = FALSE /\ polling = FALSE
    /\ scans = 0 /\ running = {} /\ stopping = {}
    /\ req = [s \in Names |-> Free]
    /\ lost = 0 /\ forgotten = {}

Init == Begin

Answers(s) == Serve(s) \/ Started(s) \/ Loaded(s) \/ Cancelled(s)

Next ==
    \/ ScanEnds \/ Open \/ Tick
    \/ \E s \in Names : Answers(s) \/ Lost(s)
    \/ \E s \in Slots : Start(s) \/ Close(s) \/ Leave(s) \/ Cancel(s)

Spec == Init /\ [][Next]_vars

-----------------------------------------------------------------------------
Shown(j) == mounted /\ visible /\ job = j

\* Its start is being answered, or its cancellation is under way.
Handled(j) == \E s \in Names : req[s] # Free /\ req[s].what # "load" /\ req[s].id = j

\* A scan that runs is on the screen, was told to stop or is about to be: closing
\* the dialog, opening it anew or leaving the page never leaves one behind, even
\* when the answer to its start comes after that.  Only a request that fails can
\* (ServiceDiscovery.vue, the generation and cancelId).
NoOrphanScan == \A j \in running \ (forgotten \cup stopping) : Shown(j) \/ Handled(j)

=============================================================================
