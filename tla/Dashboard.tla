----------------------------- MODULE Dashboard -----------------------------
(***************************************************************************)
(* The resource history of the dashboard (Dashboard.vue): it is loaded by a*)
(* timer, by the user and by every change of the range, one load at a time;*)
(* what asks meanwhile is remembered and starts the next load.  The same   *)
(* answers say whether the server keeps the history on disk, which the user*)
(* switches with a request of its own.                                     *)
(***************************************************************************)
EXTENDS Integers, FiniteSets

CONSTANTS
    Ranges, \* the ranges that can be selected
    MaxLost \* bound on the requests that fail

VARIABLES
    mounted,     \* the page is on the screen
    polling,     \* the interval timer runs
    disk,        \* the server keeps the history on disk
    others,      \* history: another tab has switched that
    persistent,  \* what the switch shows
    saving,      \* the switch is busy
    range,       \* the selected range
    drawn,       \* the range the curves are of, {} when there are none
    loading,     \* metricsLoading
    pending,     \* metricsPending
    load,        \* the load under way
    save,        \* the change of the switch under way
    lost         \* requests that failed so far

vars == <<mounted, polling, disk, others, persistent, saving, range, drawn,
          loading, pending, load, save, lost>>
server == <<disk, others>>
shown  == <<persistent, range, drawn>>

Free  == [at |-> "none"]

\* tick: the timer waits for it; busy: the switch does.
Loads == [at : {"sent", "ok"}, range : Ranges, disk : BOOLEAN, tick : BOOLEAN, busy : BOOLEAN]
Saves == [at : {"sent", "ok", "failed"}, on : BOOLEAN]

TypeOK ==
    /\ {mounted, polling, disk, others, persistent, saving, loading, pending} \subseteq BOOLEAN
    /\ range \in Ranges /\ drawn \subseteq Ranges
    /\ load \in {Free} \cup Loads /\ save \in {Free} \cup Saves
    /\ loading <=> (load # Free)
    /\ lost \in 0 .. MaxLost

-----------------------------------------------------------------------------
(* loadMetrics                                                             *)

Load(r, tick, busy) ==
    [at |-> "sent", range |-> r, disk |-> FALSE, tick |-> tick, busy |-> busy]

\* Mutant: what asks during a load is forgotten.
LoadMetrics_drops(r, tick, busy) ==
    IF loading THEN UNCHANGED <<loading, pending, load>>
               ELSE loading' = TRUE /\ load' = Load(r, tick, busy) /\ UNCHANGED pending

\* One load at a time: what asks meanwhile waits for the next one.
LoadMetrics(r, tick, busy) ==
    IF loading THEN pending' = TRUE /\ UNCHANGED <<loading, load>>
               ELSE loading' = TRUE /\ load' = Load(r, tick, busy) /\ UNCHANGED pending

\* Mutant: the flag stays set.
LoadEnds_keepsLoading ==
    IF pending /\ mounted
    THEN load' = Load(range, FALSE, FALSE) /\ pending' = FALSE /\ UNCHANGED loading
    ELSE load' = Free /\ UNCHANGED <<loading, pending>>

\* A load is over: the next one starts if something asked for it.
LoadEnds ==
    IF pending /\ mounted
    THEN load' = Load(range, FALSE, FALSE) /\ pending' = FALSE /\ UNCHANGED loading
    ELSE load' = Free /\ loading' = FALSE /\ UNCHANGED pending

ServeLoad ==
    /\ load.at = "sent"
    /\ load' = [load EXCEPT !.at = "ok", !.disk = disk]
    /\ UNCHANGED <<mounted, polling, server, shown, saving, loading, pending, save, lost>>

\* An answer of another range than the one selected by now is not drawn.
Drawable(l) == l.range = range /\ mounted

LoadArrives ==
    /\ load.at = "ok"
    /\ IF Drawable(load) THEN drawn' = {load.range} /\ persistent' = load.disk
                         ELSE UNCHANGED <<drawn, persistent>>
    /\ saving' = (saving /\ ~load.busy)
    /\ LoadEnds
    /\ UNCHANGED <<mounted, polling, server, range, save, lost>>

LoadFails ==
    /\ load # Free
    /\ lost < MaxLost /\ lost' = lost + 1
    /\ saving' = (saving /\ ~load.busy)
    /\ LoadEnds
    /\ UNCHANGED <<mounted, polling, server, shown, save>>

-----------------------------------------------------------------------------
(* setHistoryPersistence                                                   *)

SetHistoryPersistence(enabled) ==
    /\ mounted /\ ~saving /\ enabled # persistent
    /\ saving' = TRUE
    /\ save' = [at |-> "sent", on |-> enabled]
    /\ UNCHANGED <<mounted, polling, server, shown, loading, pending, load, lost>>

ServeSave ==
    /\ save.at = "sent"
    /\ \/ disk' = save.on /\ save' = [save EXCEPT !.at = "ok"]
       \/ save' = [save EXCEPT !.at = "failed"] /\ UNCHANGED disk
    /\ UNCHANGED <<mounted, polling, others, shown, saving, loading, pending, load, lost>>

\* The switch shows what was asked for, and the history is read again; it is
\* busy until then, unless that read has to wait for another.
SaveArrives ==
    /\ save.at \in {"ok", "failed"}
    /\ save' = Free
    /\ IF save.at = "ok" /\ mounted
       THEN /\ persistent' = save.on
            /\ saving' = ~loading
            /\ LoadMetrics(range, FALSE, TRUE)
       ELSE saving' = FALSE /\ UNCHANGED <<persistent, loading, pending, load>>
    /\ UNCHANGED <<mounted, polling, server, range, drawn, lost>>

SaveFails ==
    /\ save # Free
    /\ lost < MaxLost /\ lost' = lost + 1
    /\ save' = Free
    /\ saving' = FALSE
    /\ UNCHANGED <<mounted, polling, server, shown, loading, pending, load>>

-----------------------------------------------------------------------------
\* refreshHistory: the curves of the old range go at once.
SelectRange(r) ==
    /\ mounted /\ r # range
    /\ range' = r
    /\ drawn' = {}
    /\ LoadMetrics(r, FALSE, FALSE)
    /\ UNCHANGED <<mounted, polling, server, persistent, saving, save, lost>>

\* The timer skips a tick while the load of its last one is under way.
Tick ==
    /\ polling
    /\ load # Free => ~load.tick
    /\ LoadMetrics(range, TRUE, FALSE)
    /\ UNCHANGED <<mounted, polling, server, shown, saving, save, lost>>

Refresh ==
    /\ mounted
    /\ LoadMetrics(range, FALSE, FALSE)
    /\ UNCHANGED <<mounted, polling, server, shown, saving, save, lost>>

\* toggleRefresh: going on reads at once.
ToggleRefresh ==
    /\ mounted
    /\ polling' = ~polling
    /\ IF polling' THEN LoadMetrics(range, FALSE, FALSE)
                   ELSE UNCHANGED <<loading, pending, load>>
    /\ UNCHANGED <<mounted, server, shown, saving, save, lost>>

Leave ==
    /\ mounted
    /\ mounted' = FALSE
    /\ polling' = FALSE
    /\ UNCHANGED <<server, shown, saving, loading, pending, load, save, lost>>

OtherSwitches ==
    /\ ~others
    /\ disk' = ~disk
    /\ others' = TRUE
    /\ UNCHANGED <<mounted, polling, shown, saving, loading, pending, load, save, lost>>

-----------------------------------------------------------------------------
\* onMounted: the first load is under way and the timer runs.
Begin ==
    /\ mounted = TRUE /\ polling = TRUE
    /\ disk \in BOOLEAN /\ others = FALSE /\ persistent = FALSE /\ saving = FALSE
    /\ range = CHOOSE r \in Ranges : TRUE
    /\ drawn = {}
    /\ loading = TRUE /\ pending = FALSE
    /\ load = Load(range, FALSE, FALSE) /\ save = Free
    /\ lost = 0

Init == Begin

Answers == ServeLoad \/ LoadArrives \/ ServeSave \/ SaveArrives

Next ==
    \/ Answers \/ LoadFails \/ SaveFails
    \/ Tick \/ Refresh \/ ToggleRefresh \/ Leave \/ OtherSwitches
    \/ \E b \in BOOLEAN : SetHistoryPersistence(b)
    \/ \E r \in Ranges : SelectRange(r)

Spec == Init /\ [][Next]_vars

-----------------------------------------------------------------------------
\* Once no request is under way the switch shows what the server does, and the
\* curves, if there are any, are of the selected range, however loads, changes
\* of the range and the switch overtook each other; the user need not wait for
\* the timer (loadMetrics, metricsPending and the comparison of the ranges).
HistoryIsTrue ==
    /\ drawn \subseteq {range}
    /\ mounted /\ ~loading /\ save = Free /\ lost = 0 /\ ~others => persistent = disk

=============================================================================
