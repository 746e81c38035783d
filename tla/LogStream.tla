----------------------------- MODULE LogStream -----------------------------
(***************************************************************************)
(* The log page (Logs.vue): a list that is loaded, then followed by a      *)
(* stream of the server; when the stream breaks the page polls and loads   *)
(* again after ten seconds.  Pausing, older entries, filters and clearing  *)
(* the log all load or stop something while other loads are under way.     *)
(***************************************************************************)
EXTENDS Integers

CONSTANTS
    Slots,  \* names of the requests that can be under way
    MaxLost \* bound on the requests that fail

VARIABLES
    mounted,  \* the page is on the screen
    paused,   \* the user has stopped the updates
    pagedOut, \* older entries are shown
    more,     \* there are still older ones (nextCursor)
    stream,   \* a stream is open (es)
    polling,  \* pollTimer runs
    retry,    \* retryTimer runs
    clearing, \* the dialog is busy clearing the log
    req,      \* req[s]: a request under way
    lost      \* requests that failed so far

vars == <<mounted, paused, pagedOut, more, stream, polling, retry, clearing, req, lost>>

Free     == [what |-> "none"]

\* clears: clearLogs waits for it.
Requests == [what : {"reload", "more", "clear"}, at : {"sent", "ok", "failed"},
             more : BOOLEAN, clears : BOOLEAN]

TypeOK ==
    /\ {mounted, paused, pagedOut, more, stream, polling, retry, clearing} \subseteq BOOLEAN
    /\ req \in [Slots -> {Free} \cup Requests]
    /\ lost \in 0 .. MaxLost

Request(what, clears) == [what |-> what, at |-> "sent", more |-> FALSE, clears |-> clears]

-----------------------------------------------------------------------------
\* reload: the newest entries are asked for.
Reload(s) ==
    /\ req' = [req EXCEPT ![s] = Request("reload", FALSE)]
    /\ pagedOut' = FALSE

\* Mutant: an answer opens the stream although the page is not to follow.
StartStream_always == stream' = TRUE /\ polling' = FALSE

\* startStream: any stream is closed; a new one opens, and polling ends, unless
\* the page is not to follow.
StartStream ==
    IF paused \/ pagedOut
    THEN stream' = FALSE /\ UNCHANGED polling
    ELSE stream' = TRUE /\ polling' = FALSE

\* The log is cleared only with the password of the administrator.
Serve(s) ==
    LET c == req[s] IN
    /\ c # Free /\ c.at = "sent"
    /\ \/ /\ c.what = "clear"
          /\ \E at \in {"ok", "failed"} : req' = [req EXCEPT ![s].at = at]
       \/ /\ c.what # "clear"
          /\ \E m \in BOOLEAN : req' = [req EXCEPT ![s].at = "ok", ![s].more = m]
    /\ UNCHANGED <<mounted, paused, pagedOut, more, stream, polling, retry, clearing, lost>>

ReloadArrives(s) ==
    /\ req[s].what = "reload" /\ req[s].at = "ok"
    /\ req' = [req EXCEPT ![s] = Free]
    /\ more' = req[s].more
    /\ StartStream
    /\ clearing' = (clearing /\ ~req[s].clears)
    /\ UNCHANGED <<mounted, paused, pagedOut, retry, lost>>

MoreArrives(s) ==
    /\ req[s].what = "more" /\ req[s].at = "ok"
    /\ req' = [req EXCEPT ![s] = Free]
    /\ more' = req[s].more
    /\ pagedOut' = TRUE
    /\ stream' = FALSE
    /\ UNCHANGED <<mounted, paused, polling, retry, clearing, lost>>

\* clearLogs goes on to reload and is busy until that has ended, too.
ClearArrives(s) ==
    /\ req[s].what = "clear" /\ req[s].at # "sent"
    /\ IF req[s].at = "ok"
       THEN req' = [req EXCEPT ![s] = Request("reload", TRUE)] /\ pagedOut' = FALSE /\ UNCHANGED clearing
       ELSE req' = [req EXCEPT ![s] = Free] /\ clearing' = FALSE /\ UNCHANGED pagedOut
    /\ UNCHANGED <<mounted, paused, more, stream, polling, retry, lost>>

\* No answer comes: the page stays as it is.
Lost(s) ==
    /\ req[s] # Free
    /\ lost < MaxLost /\ lost' = lost + 1
    /\ req' = [req EXCEPT ![s] = Free]
    /\ clearing' = (clearing /\ ~req[s].clears)
    /\ UNCHANGED <<mounted, paused, pagedOut, more, stream, polling, retry>>

\* onerror: the network, the end of the session, too many streams.
StreamBreaks ==
    /\ stream
    /\ stream' = FALSE
    /\ polling' = TRUE
    /\ retry' = TRUE
    /\ UNCHANGED <<mounted, paused, pagedOut, more, clearing, req, lost>>

RetryFires(s) ==
    /\ retry
    /\ retry' = FALSE
    /\ IF ~paused /\ ~pagedOut
       THEN req[s] = Free /\ Reload(s)
       ELSE UNCHANGED <<req, pagedOut>>
    /\ UNCHANGED <<mounted, paused, more, stream, polling, clearing, lost>>

-----------------------------------------------------------------------------
\* The filter button, the type, and resuming from older entries.
Filter(s) ==
    /\ mounted
    /\ req[s] = Free /\ Reload(s)
    /\ UNCHANGED <<mounted, paused, more, stream, polling, retry, clearing, lost>>

LoadMore(s) ==
    /\ mounted /\ more
    /\ req[s] = Free
    /\ req' = [req EXCEPT ![s] = Request("more", FALSE)]
    /\ UNCHANGED <<mounted, paused, pagedOut, more, stream, polling, retry, clearing, lost>>

\* The button waits until the log was cleared, the key Enter does not.
ClearLogs(s) ==
    /\ mounted
    /\ req[s] = Free
    /\ req' = [req EXCEPT ![s] = Request("clear", TRUE)]
    /\ clearing' = TRUE
    /\ UNCHANGED <<mounted, paused, pagedOut, more, stream, polling, retry, lost>>

Pause ==
    /\ mounted /\ ~paused
    /\ paused' = TRUE
    /\ stream' = FALSE /\ polling' = FALSE /\ retry' = FALSE
    /\ UNCHANGED <<mounted, pagedOut, more, clearing, req, lost>>

Resume(s) ==
    /\ mounted /\ paused
    /\ paused' = FALSE
    /\ req[s] = Free /\ Reload(s)
    /\ UNCHANGED <<mounted, more, stream, polling, retry, clearing, lost>>

Leave ==
    /\ mounted
    /\ mounted' = FALSE
    /\ stream' = FALSE /\ polling' = FALSE /\ retry' = FALSE
    /\ UNCHANGED <<paused, pagedOut, more, clearing, req, lost>>

FirstSlot == CHOOSE s \in Slots : TRUE

\* onMounted(reload)
Begin ==
    /\ mounted = TRUE
    /\ paused = FALSE /\ pagedOut = FALSE /\ more = FALSE
    /\ stream = FALSE /\ polling = FALSE /\ retry = FALSE /\ clearing = FALSE
    /\ req = [s \in Slots |-> IF s = FirstSlot THEN Request("reload", FALSE) ELSE Free]
    /\ lost = 0

Init == Begin

Next ==
    \/ StreamBreaks \/ Pause \/ Leave
    \/ \E s \in Slots :
          \/ Serve(s) \/ ReloadArrives(s) \/ MoreArrives(s) \/ ClearArrives(s) \/ Lost(s)
          \/ RetryFires(s) \/ Filter(s) \/ LoadMore(s) \/ ClearLogs(s) \/ Resume(s)

Spec == Init /\ [][Next]_vars

-----------------------------------------------------------------------------
Reloading == \E s \in Slots : req[s].what = "reload"

\* While the page is on the screen it follows the log exactly when it says so:
\* paused it neither streams nor polls, with older entries shown it does not
\* stream, and otherwise it streams, polls or is loading, whatever was under way
\* when the user paused, resumed or asked for older entries.  Only a load that
\* fails leaves it without either (startStream, stopStream, the watch on paused).
FollowsAsShown ==
    mounted =>
        /\ paused => ~stream /\ ~polling
        /\ pagedOut => ~stream
        /\ (~paused /\ ~pagedOut /\ ~Reloading /\ lost = 0) => (stream \/ polling)

=============================================================================
