---------------------------- MODULE ViewsProofs ----------------------------
(***************************************************************************)
(* What the pages show, for any number of requests under way, of sites, of *)
(* ranges and of requests that fail.                                       *)
(*                                                                         *)
(* A page is what it is for the whole of a behaviour, so each has an       *)
(* invariant of its own.  HistoryIsTrue speaks of the moments at which no  *)
(* request is under way; what makes it true then is what is known of the   *)
(* last load and of the last change of the switch while they still are     *)
(* (SwitchKnown, LoadKnown).  ChartIsChosen needs to know what the current *)
(* load of the chart is of (CurrentIsChosen).  FollowsAsShown is inductive *)
(* on its own.  RestoreResultKept needs that refusals are deferred for as  *)
(* long as the import is under way (ImportDefers).  That no scan is left is*)
(* what DiscoveryProofs proves, carried over to the variables of Views.    *)
(* The types need little more: that one load of the chart at most is       *)
(* current, and the bounds (TypesInv).                                     *)
(***************************************************************************)
EXTENDS Views, FiniteSetTheorems, TLAPS

P == INSTANCE DiscoveryProofs WITH job <- scan, polling <- scanPolling, req <- scanReq

-----------------------------------------------------------------------------
(* The resource history                                                    *)

HistoryTyped ==
    /\ {mounted, disk, others, persistent, saving, loading, pending} \subseteq BOOLEAN
    /\ range \in Ranges /\ lost \in Nat
    /\ load \in {H!Free} \cup H!Loads /\ save \in {H!Free} \cup H!Saves
    /\ loading <=> (load # H!Free)

\* The switch is busy while it is being changed and while a load that it waits
\* for is under way: there is one change at a time.
OneChange ==
    /\ save # H!Free => saving
    /\ load # H!Free => (load.busy => saving /\ save = H!Free)

\* Nothing has failed and nobody else has changed the switch.
Undisturbed == mounted /\ lost = 0 /\ ~others

\* A change that was accepted is what the server does; unless one was and is
\* not known yet, the switch shows it, once the page has loaded.
SwitchKnown ==
    /\ Undisturbed /\ save.at = "ok" => disk = save.on
    /\ Undisturbed /\ save.at # "ok" /\ load = H!Free => persistent = disk

\* A load that no other one waits for is of the selected range and, when it has
\* been answered, of what the server does.
LoadKnown ==
    ~pending =>
        /\ load # H!Free => load.range = range
        /\ Undisturbed /\ save.at # "ok" /\ load.at = "ok" => load.disk = disk

HistoryInv ==
    /\ HistoryTyped
    /\ OneChange
    /\ SwitchKnown
    /\ LoadKnown
    /\ drawn \subseteq {range}

-----------------------------------------------------------------------------
(* The traffic chart                                                       *)

TrafficTyped ==
    /\ {mounted, chartLoading, replaced} \subseteq BOOLEAN
    /\ sites \subseteq Sites /\ listed \subseteq Sites
    /\ site \in Sites \cup {NoSite} /\ chartRange \in Ranges
    /\ chart \subseteq T!Choices
    /\ list \in {T!Free} \cup T!Lists
    /\ seriesReq \in [Slots -> {T!Free} \cup T!Charts]

Chosen == [site |-> site, range |-> chartRange]
Current(s) == seriesReq[s] # T!Free /\ seriesReq[s].current

\* As long as no chosen site was replaced, the current load is of what is
\* chosen, and without a chosen site there is neither a load nor a chart.
CurrentIsChosen ==
    ~replaced =>
        /\ \A s \in Slots : Current(s) => seriesReq[s].of = Chosen /\ site # NoSite
        /\ site = NoSite => chart = {}

TrafficInv ==
    /\ TrafficTyped
    /\ CurrentIsChosen
    /\ T!ChartIsChosen

-----------------------------------------------------------------------------
(* The log                                                                 *)

LogTyped ==
    /\ {mounted, paused, pagedOut, stream, logPolling} \subseteq BOOLEAN
    /\ logReq \in [Slots -> {S!Free} \cup S!Requests]
    /\ lost \in Nat

LogInv ==
    /\ LogTyped
    /\ S!FollowsAsShown

-----------------------------------------------------------------------------
(* The session                                                             *)

AccountTyped ==
    /\ deferred \in BOOLEAN
    /\ accountReq \in [C!Names -> {C!Free} \cup C!Requests]
    /\ lost \in Nat

\* While an import is under way refusals do not unload the page.
ImportDefers ==
    \A s \in C!Names : accountReq[s].what = "import" => s = User /\ deferred

ConsoleInv ==
    /\ AccountTyped
    /\ ImportDefers

-----------------------------------------------------------------------------
PagesInv ==
    /\ page \in {"discovery", "history", "traffic", "log", "console"}
    /\ page = "discovery" => P!IInv
    /\ page = "history" => HistoryInv
    /\ page = "traffic" => TrafficInv
    /\ page = "log" => LogInv
    /\ page = "console" => ConsoleInv
    /\ page # "console" => accountReq = [s \in C!Names |-> C!Free]

-----------------------------------------------------------------------------
(* The scan of the network                                                 *)

\* DiscoveryProofs is about the same dialog.
LEMMA SameScan ==
  /\ D!Begin => P!Init
  /\ D!Next => P!Next
  /\ P!NoOrphanScan => D!NoOrphanScan
  <1> USE DEF D!Free, P!Free, D!Names, P!Names, D!Request, P!Request,
              D!NextGeneration, P!NextGeneration, D!IsRunning, P!IsRunning,
              D!dialog, P!dialog, D!server, P!server
  <1>1. D!Begin => P!Init
    BY DEF D!Begin, P!Begin, P!Init
  <1>2. (D!ScanEnds => P!ScanEnds) /\ (D!Open => P!Open) /\ (D!Tick => P!Tick)
    BY DEF D!ScanEnds, P!ScanEnds, D!Open, P!Open, D!Tick, P!Tick
  <1>3. ASSUME NEW s \in D!Names PROVE D!Answers(s) \/ D!Lost(s) => P!Answers(s) \/ P!Lost(s)
    <2>1. D!Serve(s) => P!Serve(s)
      BY DEF D!Serve, P!Serve, D!Cardinality, P!Cardinality
    <2>2. D!Started(s) => P!Started(s)
      BY DEF D!Started, P!Started, D!Outdated, P!Outdated
    <2>3. D!Loaded(s) => P!Loaded(s)
      BY DEF D!Loaded, P!Loaded, D!Outdated, P!Outdated
    <2>4. D!Cancelled(s) => P!Cancelled(s)
      BY DEF D!Cancelled, P!Cancelled, D!AfterCancel, P!AfterCancel
    <2>5. D!Lost(s) => P!Lost(s)
      BY DEF D!Lost, P!Lost, D!AfterCancel, P!AfterCancel
    <2> QED
      BY <2>1, <2>2, <2>3, <2>4, <2>5 DEF D!Answers, P!Answers
  <1>4. ASSUME NEW s \in Slots
        PROVE  /\ D!Start(s) => P!Start(s)
               /\ D!Close(s) => P!Close(s)
               /\ D!Leave(s) => P!Leave(s)
               /\ D!Cancel(s) => P!Cancel(s)
    BY DEF D!Start, P!Start, D!Close, P!Close, D!Leave, P!Leave, D!Cancel, P!Cancel,
           D!CancelShown, P!CancelShown
  <1>5. D!Next => P!Next
    BY <1>2, <1>3, <1>4 DEF D!Next, P!Next
  <1>6. P!NoOrphanScan => D!NoOrphanScan
    BY DEF P!NoOrphanScan, D!NoOrphanScan, P!Shown, D!Shown, P!Handled, D!Handled
  <1> QED
    BY <1>1, <1>5, <1>6

-----------------------------------------------------------------------------
(* The resource history                                                    *)

LEMMA NewLoad ==
  ASSUME NEW r \in Ranges, NEW tick \in BOOLEAN, NEW busy \in BOOLEAN
  PROVE  /\ H!Load(r, tick, busy) \in H!Loads /\ H!Load(r, tick, busy) # H!Free
         /\ H!Load(r, tick, busy).at = "sent" /\ H!Load(r, tick, busy).range = r
         /\ H!Load(r, tick, busy).busy = busy
  BY DEF H!Load, H!Loads, H!Free

LEMMA HistoryRecords ==
  /\ \A l \in H!Loads :
        /\ l # H!Free /\ l.at \in {"sent", "ok"} /\ l.range \in Ranges
        /\ l.disk \in BOOLEAN /\ l.tick \in BOOLEAN /\ l.busy \in BOOLEAN
  /\ \A c \in H!Saves : c # H!Free /\ c.at \in {"sent", "ok", "failed"} /\ c.on \in BOOLEAN
  /\ H!Free.at = "none"
  BY DEF H!Loads, H!Saves, H!Free

LEMMA HistoryBegins == H!Begin => HistoryInv
  <1> SUFFICES ASSUME H!Begin PROVE HistoryInv
    OBVIOUS
  <1>1. range \in Ranges
    BY PagesAssumption DEF H!Begin
  <1>2. load = H!Load(range, FALSE, FALSE)
    BY DEF H!Begin
  <1>3. /\ load \in H!Loads /\ load # H!Free /\ load.at = "sent" /\ load.range = range
        /\ ~load.busy
    BY <1>1, <1>2, NewLoad
  <1>4. save = H!Free /\ save.at = "none"
    BY HistoryRecords DEF H!Begin
  <1> QED
    BY <1>1, <1>3, <1>4
    DEF H!Begin, HistoryInv, HistoryTyped, OneChange, SwitchKnown, LoadKnown, Undisturbed

\* Asking for a load, from the timer, the user or a change of the range.
LEMMA AskedFor ==
  ASSUME HistoryInv, NEW tick \in BOOLEAN, NEW r \in Ranges,
         H!LoadMetrics(r, tick, FALSE), range' = r,
         drawn' = drawn \/ drawn' = {}, range # range' => drawn' = {},
         mounted' = mounted,
         UNCHANGED <<disk, others, persistent, saving, save, lost>>
  PROVE  HistoryInv'
  <1>1. CASE loading
    BY <1>1 DEF H!LoadMetrics, HistoryInv, HistoryTyped, OneChange, SwitchKnown, LoadKnown,
                Undisturbed
  <1>2. CASE ~loading
    <2>1. load' = H!Load(r, tick, FALSE) /\ loading' /\ pending' = pending
      BY <1>2 DEF H!LoadMetrics
    <2>2. /\ load' \in H!Loads /\ load' # H!Free /\ load'.at = "sent" /\ load'.range = r
          /\ ~load'.busy
      BY <2>1, NewLoad
    <2> QED
      BY <2>1, <2>2
      DEF HistoryInv, HistoryTyped, OneChange, SwitchKnown, LoadKnown, Undisturbed
  <1> QED
    BY <1>1, <1>2 DEF HistoryInv, HistoryTyped

LEMMA LoadOver ==
  ASSUME HistoryInv, load # H!Free, H!LoadEnds,
         saving' = (saving /\ ~load.busy), drawn' \subseteq {range}, persistent' \in BOOLEAN,
         lost' \in Nat,
         UNCHANGED <<mounted, disk, others, range, save>>,
         lost' = 0 => lost = 0,
         Undisturbed' /\ save.at # "ok" /\ ~pending => persistent' = disk
  PROVE  HistoryInv'
  <1>1. load \in H!Loads /\ load.busy \in BOOLEAN
    BY HistoryRecords DEF HistoryInv, HistoryTyped
  <1>2. saving' \in BOOLEAN /\ (save' # H!Free => saving')
    BY <1>1 DEF HistoryInv, HistoryTyped, OneChange
  <1>3. Undisturbed' => Undisturbed
    BY DEF Undisturbed
  <1>4. CASE pending /\ mounted
    <2>1. load' = H!Load(range, FALSE, FALSE) /\ loading' = loading /\ ~pending'
      BY <1>4 DEF H!LoadEnds
    <2>2. range \in Ranges
      BY DEF HistoryInv, HistoryTyped
    <2>3. /\ load' \in H!Loads /\ load' # H!Free /\ load'.at = "sent" /\ load'.range = range
          /\ ~load'.busy
      BY <2>1, <2>2, NewLoad
    <2>4. loading' /\ pending' \in BOOLEAN
      BY <2>1, <1>4 DEF HistoryInv, HistoryTyped, H!LoadEnds
    <2> QED
      BY <2>1, <2>3, <2>4, <1>2, <1>3
      DEF HistoryInv, HistoryTyped, OneChange, SwitchKnown, LoadKnown
  <1>5. CASE ~(pending /\ mounted)
    <2>1. load' = H!Free /\ ~loading' /\ pending' = pending
      BY <1>5 DEF H!LoadEnds
    <2>2. load'.at = "none" /\ loading' \in BOOLEAN
      BY <2>1, <1>5, HistoryRecords DEF H!LoadEnds
    <2>3. Undisturbed' => ~pending
      BY <1>5 DEF Undisturbed
    <2> QED
      BY <2>1, <2>2, <2>3, <1>2, <1>3
      DEF HistoryInv, HistoryTyped, OneChange, SwitchKnown, LoadKnown
  <1> QED
    BY <1>4, <1>5

LEMMA HistoryKept ==
  ASSUME HistoryInv, H!Next
  PROVE  HistoryInv'
  <1> USE DEF Undisturbed
  <1>1. load = H!Free \/ load \in H!Loads
    BY DEF HistoryInv, HistoryTyped
  <1>2. save = H!Free \/ save \in H!Saves
    BY DEF HistoryInv, HistoryTyped
  <1>3. ASSUME H!ServeLoad PROVE HistoryInv'
    <2>1. load \in H!Loads /\ loading
      BY <1>1, <1>3, HistoryRecords DEF H!ServeLoad, HistoryInv, HistoryTyped
    <2>2. /\ load' \in H!Loads /\ load'.range = load.range /\ load'.busy = load.busy
          /\ load'.disk = disk /\ load'.at = "ok"
      BY <2>1, <1>3 DEF H!ServeLoad, H!Loads, HistoryInv, HistoryTyped
    <2>3. load' # H!Free /\ load # H!Free
      BY <2>1, <2>2, HistoryRecords
    <2> QED
      BY <2>1, <2>2, <2>3, <1>3
      DEF H!ServeLoad, H!server, H!shown, HistoryInv, HistoryTyped, OneChange, SwitchKnown,
          LoadKnown
  <1>4. ASSUME H!LoadArrives PROVE HistoryInv'
    <2>1. load \in H!Loads /\ load # H!Free
      BY <1>1, <1>4, HistoryRecords DEF H!LoadArrives
    <2>2. drawn' \subseteq {range} /\ persistent' \in BOOLEAN
      BY <2>1, <1>4, HistoryRecords DEF H!LoadArrives, H!Drawable, HistoryInv, HistoryTyped
    <2>3. Undisturbed /\ save.at # "ok" /\ ~pending => persistent' = disk
      BY <2>1, <1>4 DEF H!LoadArrives, H!Drawable, HistoryInv, LoadKnown
    <2>4. UNCHANGED <<mounted, disk, others, range, save, lost>>
      BY <1>4 DEF H!LoadArrives, H!server
    <2>5. lost' \in Nat
      BY <2>4 DEF HistoryInv, HistoryTyped
    <2>6. saving' = (saving /\ ~load.busy) /\ H!LoadEnds
      BY <1>4 DEF H!LoadArrives
    <2> QED
      BY <2>1, <2>2, <2>3, <2>4, <2>5, <2>6, LoadOver
  <1>5. ASSUME H!LoadFails PROVE HistoryInv'
    <2>1. /\ UNCHANGED <<mounted, disk, others, range, save, persistent, drawn>>
          /\ lost' = lost + 1 /\ load # H!Free
          /\ saving' = (saving /\ ~load.busy) /\ H!LoadEnds
      BY <1>5 DEF H!LoadFails, H!server, H!shown
    <2>2. lost' \in Nat /\ lost' # 0 /\ persistent' \in BOOLEAN /\ drawn' \subseteq {range}
      BY <2>1 DEF HistoryInv, HistoryTyped
    <2> QED
      BY <2>1, <2>2, LoadOver
  <1>6. ASSUME NEW on \in BOOLEAN, H!SetHistoryPersistence(on) PROVE HistoryInv'
    <2>1. save = H!Free /\ save.at = "none"
      BY <1>6, HistoryRecords DEF H!SetHistoryPersistence, HistoryInv, OneChange
    <2>2. save' \in H!Saves /\ save'.at = "sent"
      BY <1>6 DEF H!SetHistoryPersistence, H!Saves
    <2>3. load # H!Free => ~load.busy
      BY <1>6, <1>1, HistoryRecords DEF H!SetHistoryPersistence, HistoryInv, OneChange
    <2> QED
      BY <2>1, <2>2, <2>3, <1>6
      DEF H!SetHistoryPersistence, H!server, H!shown, HistoryInv, HistoryTyped, OneChange,
          SwitchKnown, LoadKnown
  <1>7. ASSUME H!ServeSave PROVE HistoryInv'
    <2>1. save \in H!Saves /\ save # H!Free
      BY <1>2, <1>7, HistoryRecords DEF H!ServeSave
    <2>2. /\ save' \in H!Saves /\ save'.on = save.on
          /\ \/ save'.at = "ok" /\ disk' = save.on
             \/ save'.at = "failed" /\ disk' = disk
      BY <2>1, <1>7 DEF H!ServeSave, H!Saves
    <2>3. load # H!Free => ~load.busy
      BY <2>1, <1>1, HistoryRecords DEF HistoryInv, OneChange
    <2>4. disk' \in BOOLEAN /\ save' # H!Free
      BY <2>1, <2>2, HistoryRecords DEF HistoryInv, HistoryTyped
    <2>5. save.at = "sent"
      BY <1>7 DEF H!ServeSave
    <2> QED
      BY <2>1, <2>2, <2>3, <2>4, <2>5, <1>7
      DEF H!ServeSave, H!shown, HistoryInv, HistoryTyped, OneChange, SwitchKnown, LoadKnown
  <1>8. ASSUME H!SaveArrives PROVE HistoryInv'
    <2>1. save \in H!Saves /\ save # H!Free /\ save.on \in BOOLEAN
      BY <1>2, <1>8, HistoryRecords DEF H!SaveArrives
    <2>2. load # H!Free => ~load.busy
      BY <2>1, <1>1, HistoryRecords DEF HistoryInv, OneChange
    <2>3. save' = H!Free /\ save'.at = "none"
      BY <1>8, HistoryRecords DEF H!SaveArrives
    <2>4. UNCHANGED <<mounted, disk, others, range, drawn, lost>>
      BY <1>8 DEF H!SaveArrives, H!server
    <2>5. CASE save.at = "ok" /\ mounted /\ loading
      <3>1. /\ persistent' = save.on /\ saving' = FALSE /\ pending' = TRUE
            /\ UNCHANGED <<loading, load>>
        BY <2>5, <1>8 DEF H!SaveArrives, H!LoadMetrics
      <3> QED
        BY <3>1, <2>1, <2>2, <2>3, <2>4, <2>5
        DEF HistoryInv, HistoryTyped, OneChange, SwitchKnown, LoadKnown
    <2>6. CASE save.at = "ok" /\ mounted /\ ~loading
      <3>1. /\ persistent' = save.on /\ saving' = TRUE /\ pending' = pending
            /\ loading' = TRUE /\ load' = H!Load(range, FALSE, TRUE)
        BY <2>6, <1>8 DEF H!SaveArrives, H!LoadMetrics
      <3>2. /\ load' \in H!Loads /\ load' # H!Free /\ load'.at = "sent" /\ load'.range = range
        BY <3>1, NewLoad DEF HistoryInv, HistoryTyped
      <3> QED
        BY <3>1, <3>2, <2>1, <2>3, <2>4, <2>6
        DEF HistoryInv, HistoryTyped, OneChange, SwitchKnown, LoadKnown
    <2>7. CASE ~(save.at = "ok" /\ mounted)
      <3>1. saving' = FALSE /\ UNCHANGED <<persistent, loading, pending, load>>
        BY <2>7, <1>8 DEF H!SaveArrives
      <3> QED
        BY <3>1, <2>2, <2>3, <2>4, <2>7
        DEF HistoryInv, HistoryTyped, OneChange, SwitchKnown, LoadKnown
    <2> QED
      BY <2>5, <2>6, <2>7 DEF HistoryInv, HistoryTyped
  <1>9. ASSUME H!SaveFails PROVE HistoryInv'
    <2>1. load # H!Free => ~load.busy
      BY <1>9, <1>1, HistoryRecords DEF H!SaveFails, HistoryInv, OneChange
    <2>2. lost' \in Nat /\ lost' # 0
      BY <1>9 DEF H!SaveFails, HistoryInv, HistoryTyped
    <2> QED
      BY <2>1, <2>2, <1>9
      DEF H!SaveFails, H!server, H!shown, HistoryInv, HistoryTyped, OneChange, SwitchKnown,
          LoadKnown
  <1>10. ASSUME NEW r \in Ranges, H!SelectRange(r) PROVE HistoryInv'
    <2>1. mounted \in BOOLEAN
      BY DEF HistoryInv, HistoryTyped
    <2> QED
      BY <2>1, <1>10, AskedFor DEF H!SelectRange, H!server
  <1>11. ASSUME H!Tick \/ H!Refresh PROVE HistoryInv'
    <2>1. mounted \in BOOLEAN /\ range \in Ranges
      BY DEF HistoryInv, HistoryTyped
    <2>2. /\ H!LoadMetrics(range, TRUE, FALSE) \/ H!LoadMetrics(range, FALSE, FALSE)
          /\ UNCHANGED <<mounted, metricPolling, disk, others, persistent, range, drawn, saving,
                         save, lost>>
      BY <1>11 DEF H!Tick, H!Refresh, H!server, H!shown
    <2> QED
      BY <2>1, <2>2, AskedFor
  <1>12. ASSUME H!ToggleRefresh PROVE HistoryInv'
    <2>1. mounted \in BOOLEAN /\ range \in Ranges
      BY DEF HistoryInv, HistoryTyped
    <2>2. UNCHANGED <<mounted, disk, others, persistent, range, drawn, saving, save, lost>>
      BY <1>12 DEF H!ToggleRefresh, H!server, H!shown
    <2>3. CASE metricPolling'
      BY <2>1, <2>2, <2>3, <1>12, AskedFor DEF H!ToggleRefresh
    <2>4. CASE ~metricPolling'
      BY <2>2, <2>4, <1>12
      DEF H!ToggleRefresh, HistoryInv, HistoryTyped, OneChange, SwitchKnown, LoadKnown
    <2> QED
      BY <2>3, <2>4
  <1>13. ASSUME H!Leave PROVE HistoryInv'
    <2>1. /\ mounted' = FALSE
          /\ UNCHANGED <<disk, others, persistent, range, drawn, saving, loading, pending,
                         load, save, lost>>
      BY <1>13 DEF H!Leave, H!server, H!shown
    <2> QED
      BY <2>1 DEF HistoryInv, HistoryTyped, OneChange, SwitchKnown, LoadKnown
  <1>14. ASSUME H!OtherSwitches PROVE HistoryInv'
    <2>1. /\ others' = TRUE /\ disk' = ~disk
          /\ UNCHANGED <<mounted, persistent, range, drawn, saving, loading, pending, load,
                         save, lost>>
      BY <1>14 DEF H!OtherSwitches, H!shown
    <2> QED
      BY <2>1 DEF HistoryInv, HistoryTyped, OneChange, SwitchKnown, LoadKnown
  <1> QED
    BY <1>3, <1>4, <1>5, <1>6, <1>7, <1>8, <1>9, <1>10, <1>11, <1>12, <1>13, <1>14
    DEF H!Next, H!Answers

-----------------------------------------------------------------------------
(* The traffic chart                                                       *)

LEMMA TrafficRecords ==
  /\ \A c \in T!Charts :
        c # T!Free /\ c.at \in {"sent", "ok", "failed"} /\ c.of \in T!Choices /\ c.current \in BOOLEAN
  /\ \A l \in T!Lists : l # T!Free /\ l.got \in SUBSET Sites
  /\ T!Free.at = "none"
  BY DEF T!Charts, T!Lists, T!Free

LEMMA TrafficBegins == T!Begin => TrafficInv
  <1> SUFFICES ASSUME T!Begin PROVE TrafficInv
    OBVIOUS
  <1>1. chartRange \in Ranges
    BY PagesAssumption DEF T!Begin
  <1>2. list \in T!Lists /\ \A s \in Slots : seriesReq[s] = T!Free
    BY DEF T!Begin, T!Lists
  <1>3. TrafficTyped
    BY <1>1, <1>2 DEF T!Begin, TrafficTyped
  <1> QED
    BY <1>2, <1>3 DEF T!Begin, TrafficInv, CurrentIsChosen, Current, T!ChartIsChosen

LEMMA NothingCurrent ==
  ASSUME seriesReq \in [Slots -> {T!Free} \cup T!Charts]
  PROVE  /\ T!NextGeneration \in [Slots -> {T!Free} \cup T!Charts]
         /\ \A s \in Slots : T!NextGeneration[s] = T!Free \/ ~T!NextGeneration[s].current
  <1> SUFFICES ASSUME NEW s \in Slots
               PROVE  \/ T!NextGeneration[s] = T!Free
                      \/ T!NextGeneration[s] \in T!Charts /\ ~T!NextGeneration[s].current
    BY DEF T!NextGeneration
  <1>1. CASE seriesReq[s] = T!Free
    BY <1>1 DEF T!NextGeneration
  <1>2. CASE seriesReq[s] \in T!Charts
    <2>1. T!NextGeneration[s] = [seriesReq[s] EXCEPT !.current = FALSE]
      BY <1>2, TrafficRecords DEF T!NextGeneration
    <2> QED
      BY <2>1, <1>2 DEF T!Charts
  <1> QED
    BY <1>1, <1>2

\* A load of the choice (st, r), which is the one that is made.
LEMMA SeriesAsked ==
  ASSUME TrafficInv, NEW s \in Slots, NEW st \in Sites \cup {NoSite}, NEW r \in Ranges,
         T!LoadSeries(s, st, r), site' = st, chartRange' = r,
         mounted' \in BOOLEAN, replaced' \in BOOLEAN,
         sites' \subseteq Sites, listed' \subseteq Sites, list' \in {T!Free} \cup T!Lists
  PROVE  TrafficInv'
  <1> DEFINE next == T!NextGeneration
  <1>1. /\ next \in [Slots -> {T!Free} \cup T!Charts]
        /\ \A t \in Slots : next[t] = T!Free \/ ~next[t].current
    BY NothingCurrent DEF TrafficInv, TrafficTyped
  <1>2. CASE st = NoSite
    <2>1. seriesReq' = next /\ chart' = {} /\ chartLoading' = chartLoading
      BY <1>2 DEF T!LoadSeries
    <2> QED
      BY <1>1, <2>1
      DEF TrafficInv, TrafficTyped, CurrentIsChosen, Current, T!ChartIsChosen
  <1>3. CASE st # NoSite
    <2> DEFINE new == [at |-> "sent", of |-> [site |-> st, range |-> r], current |-> TRUE]
    <2>1. seriesReq' = [next EXCEPT ![s] = new] /\ chartLoading' = TRUE /\ chart' = chart
      BY <1>3 DEF T!LoadSeries
    <2>2. new \in T!Charts /\ new.of = Chosen'
      BY <1>3 DEF T!Charts, T!Choices, Chosen
    <2> HIDE DEF next, new
    <2>3. seriesReq' \in [Slots -> {T!Free} \cup T!Charts] /\ seriesReq'[s] = new
      BY <1>1, <2>1, <2>2
    <2>4. \A t \in Slots : Current(t)' => seriesReq'[t].of = Chosen'
      BY <1>1, <2>1, <2>2, <2>3 DEF Current
    <2> QED
      BY <1>3, <2>1, <2>3, <2>4
      DEF TrafficInv, TrafficTyped, CurrentIsChosen, T!ChartIsChosen
  <1> QED
    BY <1>2, <1>3

\* An answer to a load of the chart, or its failure: the load is over.
LEMMA SeriesOver ==
  ASSUME TrafficInv, NEW s \in Slots, seriesReq[s] # T!Free,
         seriesReq' = [seriesReq EXCEPT ![s] = T!Free],
         chartLoading' = (chartLoading /\ ~seriesReq[s].current),
         \/ chart' = chart /\ ~seriesReq[s].current
         \/ chart' = chart /\ seriesReq[s].current /\ seriesReq[s].of # Chosen
         \/ chart' = {}
         \/ chart' = {seriesReq[s].of} /\ seriesReq[s].current /\ seriesReq[s].of = Chosen,
         UNCHANGED <<mounted, sites, listed, site, chartRange, list, replaced>>
  PROVE  TrafficInv'
  <1>1. seriesReq[s] \in T!Charts
    BY DEF TrafficInv, TrafficTyped
  <1>2. /\ seriesReq' \in [Slots -> {T!Free} \cup T!Charts]
        /\ chartLoading' \in BOOLEAN /\ chart' \subseteq T!Choices
    BY <1>1, TrafficRecords DEF TrafficInv, TrafficTyped
  <1>3. \A t \in Slots : Current(t)' => Current(t) /\ seriesReq'[t] = seriesReq[t]
    BY DEF TrafficInv, TrafficTyped, Current
  <1>4. CurrentIsChosen'
    <2>1. Chosen' = Chosen
      BY DEF Chosen
    <2>2. SUFFICES ASSUME ~replaced
                   PROVE  site = NoSite => chart' = {}
      BY <1>3, <2>1 DEF TrafficInv, CurrentIsChosen
    <2> QED
      BY <2>2 DEF TrafficInv, CurrentIsChosen, Current
  <1>5. (T!ChartIsChosen)'
    BY DEF TrafficInv, CurrentIsChosen, Current, T!ChartIsChosen, Chosen
  <1> QED
    BY <1>2, <1>4, <1>5 DEF TrafficInv, TrafficTyped

LEMMA TrafficKept ==
  ASSUME TrafficInv, T!Next
  PROVE  TrafficInv'
  <1> USE DEF T!choice
  <1>1. ASSUME T!Refresh \/ T!ServeList \/ T!ListFails \/ T!SiteGone \/ T!Leave
        PROVE  TrafficInv'
    <2>1. UNCHANGED <<listed, site, chartRange, chart, chartLoading, seriesReq, replaced>>
      BY <1>1 DEF T!Refresh, T!ServeList, T!ListFails, T!SiteGone, T!Leave
    <2>2. /\ mounted' \in BOOLEAN /\ sites' \subseteq Sites
          /\ list' \in {T!Free} \cup T!Lists
      <3>1. CASE T!ServeList
        <4>1. list \in T!Lists
          BY <3>1, TrafficRecords DEF T!ServeList, TrafficInv, TrafficTyped
        <4> QED
          BY <3>1, <4>1 DEF T!ServeList, T!Lists, TrafficInv, TrafficTyped
      <3>2. CASE T!Refresh
        BY <3>2 DEF T!Refresh, T!Lists, TrafficInv, TrafficTyped
      <3>3. CASE T!ListFails \/ T!SiteGone \/ T!Leave
        BY <3>3 DEF T!ListFails, T!SiteGone, T!Leave, TrafficInv, TrafficTyped
      <3> QED
        BY <1>1, <3>1, <3>2, <3>3
    <2> QED
      BY <2>1, <2>2
      DEF TrafficInv, TrafficTyped, CurrentIsChosen, Current, Chosen, T!ChartIsChosen
  <1>2. ASSUME NEW s \in Slots, T!ServeSeries(s) PROVE TrafficInv'
    <2>1. seriesReq[s] \in T!Charts
      BY <1>2, TrafficRecords DEF T!ServeSeries, TrafficInv, TrafficTyped
    <2>2. PICK at \in {"ok", "failed"} : seriesReq' = [seriesReq EXCEPT ![s].at = at]
      BY <1>2 DEF T!ServeSeries
    <2>3. /\ seriesReq'[s] \in T!Charts /\ seriesReq'[s].of = seriesReq[s].of
          /\ seriesReq'[s].current = seriesReq[s].current
      BY <2>1, <2>2 DEF T!Charts, TrafficInv, TrafficTyped
    <2>4. seriesReq' \in [Slots -> {T!Free} \cup T!Charts]
      BY <2>2, <2>3 DEF TrafficInv, TrafficTyped
    <2>5. \A t \in Slots : Current(t)' => Current(t) /\ seriesReq'[t].of = seriesReq[t].of
      BY <2>1, <2>2, <2>3, TrafficRecords DEF TrafficInv, TrafficTyped, Current
    <2> QED
      BY <2>4, <2>5, <1>2
      DEF T!ServeSeries, TrafficInv, TrafficTyped, CurrentIsChosen, Chosen, T!ChartIsChosen
  <1>3. ASSUME NEW s \in Slots, T!SeriesArrives(s) PROVE TrafficInv'
    <2>1. seriesReq[s] # T!Free /\ seriesReq[s].current \in BOOLEAN
      BY <1>3, TrafficRecords DEF T!SeriesArrives, TrafficInv, TrafficTyped
    <2> QED
      BY <2>1, <1>3, SeriesOver DEF T!SeriesArrives, T!Drawn, Chosen
  <1>4. ASSUME NEW s \in Slots, T!SeriesFails(s) PROVE TrafficInv'
    BY <1>4, SeriesOver DEF T!SeriesFails
  <1>5. ASSUME NEW s \in Slots, T!ListArrives(s) PROVE TrafficInv'
    <2>1. list \in T!Lists /\ list.got \subseteq Sites /\ list' = T!Free
      BY <1>5, TrafficRecords DEF T!ListArrives, TrafficInv, TrafficTyped
    <2>2. UNCHANGED <<mounted, sites, chartRange>>
      BY <1>5 DEF T!ListArrives
    <2>3. CASE mounted
      <3>1. /\ listed' = list.got /\ site' \in Sites \cup {NoSite}
            /\ replaced' = (replaced \/ (site # NoSite /\ site' # site))
        BY <1>5, <2>1, <2>3 DEF T!ListArrives
      <3>2. CASE site' # NoSite /\ chart = {}
        <4>1. T!LoadSeries(s, site', chartRange)
          BY <1>5, <2>3, <3>2 DEF T!ListArrives
        <4> QED
          BY <4>1, <3>1, <2>1, <2>2, SeriesAsked DEF TrafficInv, TrafficTyped
      <3>3. CASE ~(site' # NoSite /\ chart = {})
        <4>1. UNCHANGED <<chart, chartLoading, seriesReq>>
          BY <1>5, <2>3, <3>3 DEF T!ListArrives
        <4>2. ~replaced' => ~replaced /\ site' = site
          BY <3>1, <3>3 DEF TrafficInv, CurrentIsChosen
        <4> QED
          BY <4>1, <4>2, <3>1, <2>1, <2>2
          DEF TrafficInv, TrafficTyped, CurrentIsChosen, Current, Chosen, T!ChartIsChosen
      <3> QED
        BY <3>2, <3>3
    <2>4. CASE ~mounted
      <3>1. UNCHANGED <<listed, site, chart, chartLoading, seriesReq, replaced>>
        BY <1>5, <2>4 DEF T!ListArrives
      <3> QED
        BY <3>1, <2>1, <2>2
        DEF TrafficInv, TrafficTyped, CurrentIsChosen, Current, Chosen, T!ChartIsChosen
    <2> QED
      BY <2>3, <2>4 DEF TrafficInv, TrafficTyped
  <1>6. ASSUME NEW s \in Slots, NEW st \in Sites, T!SelectSite(s, st) PROVE TrafficInv'
    BY <1>6, SeriesAsked DEF T!SelectSite, TrafficInv, TrafficTyped
  <1>7. ASSUME NEW s \in Slots, NEW r \in Ranges, T!SelectRange(s, r) PROVE TrafficInv'
    BY <1>7, SeriesAsked DEF T!SelectRange, TrafficInv, TrafficTyped
  <1> QED
    BY <1>1, <1>2, <1>3, <1>4, <1>5, <1>6, <1>7 DEF T!Next

-----------------------------------------------------------------------------
(* The log                                                                 *)

LEMMA LogRecords ==
  /\ \A c \in S!Requests :
        /\ c # S!Free /\ c.what \in {"reload", "more", "clear"}
        /\ c.at \in {"sent", "ok", "failed"} /\ c.more \in BOOLEAN
  /\ S!Free.what = "none"
  /\ \A what \in {"reload", "more", "clear"}, clears \in BOOLEAN :
        S!Request(what, clears) \in S!Requests /\ S!Request(what, clears).what = what
  BY DEF S!Requests, S!Free, S!Request

LEMMA LogBegins == S!Begin => LogInv
  <1> SUFFICES ASSUME S!Begin PROVE LogInv
    OBVIOUS
  <1>1. S!FirstSlot \in Slots
    BY PagesAssumption DEF S!FirstSlot
  <1>2. logReq \in [Slots -> {S!Free} \cup S!Requests]
    BY LogRecords DEF S!Begin
  <1>3. logReq[S!FirstSlot].what = "reload"
    BY <1>1, LogRecords DEF S!Begin
  <1> QED
    BY <1>1, <1>2, <1>3 DEF S!Begin, LogInv, LogTyped, S!FollowsAsShown, S!Reloading

\* The entry of one request is put in place of another one's.
LEMMA LogEntry ==
  ASSUME LogTyped, NEW s \in Slots, NEW new \in {S!Free} \cup S!Requests,
         logReq' = [logReq EXCEPT ![s] = new]
  PROVE  /\ logReq' \in [Slots -> {S!Free} \cup S!Requests]
         /\ new.what = "reload" => S!Reloading'
         /\ S!Reloading /\ logReq[s].what # "reload" => S!Reloading'
         /\ S!Reloading /\ new.what = logReq[s].what => S!Reloading'
  BY DEF LogTyped, S!Reloading

LEMMA LogKept ==
  ASSUME LogInv, S!Next
  PROVE  LogInv'
  <1> USE DEF LogInv, S!FollowsAsShown
  <1>1. ASSUME S!StreamBreaks \/ S!Pause \/ S!Leave PROVE LogInv'
    <2>1. /\ S!Reloading => S!Reloading'
          /\ UNCHANGED <<pagedOut, logReq, lost>>
      BY <1>1 DEF S!StreamBreaks, S!Pause, S!Leave, S!Reloading
    <2>2. CASE S!StreamBreaks
      BY <2>1, <2>2 DEF S!StreamBreaks, LogTyped
    <2>3. CASE S!Pause
      BY <2>1, <2>3 DEF S!Pause, LogTyped
    <2>4. CASE S!Leave
      BY <2>1, <2>4 DEF S!Leave, LogTyped
    <2> QED
      BY <1>1, <2>2, <2>3, <2>4
  <1> SUFFICES ASSUME NEW s \in Slots,
                      \/ S!Serve(s) \/ S!ReloadArrives(s) \/ S!MoreArrives(s)
                      \/ S!ClearArrives(s) \/ S!Lost(s) \/ S!RetryFires(s) \/ S!Filter(s)
                      \/ S!LoadMore(s) \/ S!ClearLogs(s) \/ S!Resume(s)
               PROVE  LogInv'
    BY <1>1 DEF S!Next
  <1>2. logReq[s] = S!Free \/ logReq[s] \in S!Requests
    BY DEF LogTyped
  <1>3. ASSUME S!Serve(s) PROVE LogInv'
    <2>1. PICK at \in {"ok", "failed"}, m \in BOOLEAN :
             logReq' = [logReq EXCEPT ![s] = [logReq[s] EXCEPT !.at = at, !.more = m]]
      <3>1. logReq[s] \in S!Requests
        BY <1>2, <1>3 DEF S!Serve
      <3>2. CASE logReq[s].what = "clear"
        <4>1. PICK at \in {"ok", "failed"} : logReq' = [logReq EXCEPT ![s].at = at]
          BY <1>3, <3>2 DEF S!Serve
        <4>2. [logReq[s] EXCEPT !.at = at]
                 = [logReq[s] EXCEPT !.at = at, !.more = logReq[s].more]
          BY <3>1 DEF S!Requests
        <4> QED
          BY ZenonT(60), <4>1, <4>2, <3>1, LogRecords
      <3>3. CASE logReq[s].what # "clear"
        BY <1>3, <3>3 DEF S!Serve, LogTyped
      <3> QED
        BY <3>2, <3>3
    <2> DEFINE new == [logReq[s] EXCEPT !.at = at, !.more = m]
    <2>2. new \in S!Requests /\ new.what = logReq[s].what
      BY <1>2, <1>3 DEF S!Requests, S!Serve
    <2> HIDE DEF new
    <2>3. S!Reloading => S!Reloading'
      BY <2>1, <2>2, LogEntry DEF new
    <2>4. logReq' \in [Slots -> {S!Free} \cup S!Requests]
      BY <2>1, <2>2, LogEntry DEF new
    <2> QED
      BY <2>3, <2>4, <1>3 DEF S!Serve, LogTyped
  <1>4. ASSUME S!ReloadArrives(s) \/ S!MoreArrives(s) PROVE LogInv'
    <2>1. logReq' = [logReq EXCEPT ![s] = S!Free]
      BY <1>4 DEF S!ReloadArrives, S!MoreArrives
    <2>2. /\ logReq' \in [Slots -> {S!Free} \cup S!Requests]
          /\ S!Reloading /\ logReq[s].what # "reload" => S!Reloading'
      BY <2>1, LogEntry
    <2>3. CASE S!ReloadArrives(s)
      <3>1. UNCHANGED <<mounted, paused, pagedOut, lost>>
        BY <2>3 DEF S!ReloadArrives
      <3>2. CASE paused \/ pagedOut
        <4>1. stream' = FALSE /\ logPolling' = logPolling
          BY <2>3, <3>2 DEF S!ReloadArrives, S!StartStream
        <4> QED
          BY <2>2, <3>1, <3>2, <4>1 DEF LogTyped
      <3>3. CASE ~(paused \/ pagedOut)
        <4>1. stream' = TRUE /\ logPolling' = FALSE
          BY <2>3, <3>3 DEF S!ReloadArrives, S!StartStream
        <4> QED
          BY <2>2, <3>1, <3>3, <4>1 DEF LogTyped
      <3> QED
        BY <3>2, <3>3
    <2>4. CASE S!MoreArrives(s)
      BY <2>2, <2>4 DEF S!MoreArrives, LogTyped
    <2> QED
      BY <1>4, <2>3, <2>4
  <1>5. ASSUME S!ClearArrives(s) PROVE LogInv'
    <2>1. CASE logReq[s].at = "ok"
      <3>1. logReq' = [logReq EXCEPT ![s] = S!Request("reload", TRUE)] /\ pagedOut' = FALSE
        BY <1>5, <2>1 DEF S!ClearArrives, S!Reload
      <3>2. logReq' \in [Slots -> {S!Free} \cup S!Requests] /\ S!Reloading'
        BY ZenonT(60), <3>1, LogEntry, LogRecords
      <3> QED
        BY <3>1, <3>2, <1>5 DEF S!ClearArrives, LogTyped
    <2>2. CASE logReq[s].at # "ok"
      <3>1. logReq' = [logReq EXCEPT ![s] = S!Free] /\ pagedOut' = pagedOut
        BY <1>5, <2>2 DEF S!ClearArrives
      <3>2. logReq' \in [Slots -> {S!Free} \cup S!Requests] /\ (S!Reloading => S!Reloading')
        BY <3>1, <1>5, LogEntry DEF S!ClearArrives
      <3> QED
        BY <3>1, <3>2, <1>5 DEF S!ClearArrives, LogTyped
    <2> QED
      BY <2>1, <2>2
  <1>6. ASSUME S!Lost(s) PROVE LogInv'
    <2>1. logReq' \in [Slots -> {S!Free} \cup S!Requests]
      BY <1>6, LogEntry DEF S!Lost
    <2>2. lost' \in Nat /\ lost' # 0
      BY <1>6 DEF S!Lost, LogTyped
    <2> QED
      BY <2>1, <2>2, <1>6 DEF S!Lost, LogTyped
  <1>7. ASSUME S!RetryFires(s) \/ S!Filter(s) \/ S!Resume(s) PROVE LogInv'
    <2>1. UNCHANGED <<mounted, stream, logPolling, lost>> /\ paused' \in BOOLEAN
      BY <1>7 DEF S!RetryFires, S!Filter, S!Resume, LogTyped
    <2>2. paused' => paused
      BY <1>7 DEF S!RetryFires, S!Filter, S!Resume
    <2>3. CASE S!Reload(s)
      <3>1. logReq' \in [Slots -> {S!Free} \cup S!Requests] /\ S!Reloading' /\ pagedOut' = FALSE
        BY ZenonT(60), <2>3, LogEntry, LogRecords DEF S!Reload
      <3> QED
        BY <3>1, <2>1, <2>2 DEF LogTyped
    <2>4. CASE UNCHANGED <<logReq, pagedOut, paused>>
      BY <2>1, <2>4 DEF LogTyped, S!Reloading
    <2> QED
      BY <2>3, <2>4, <1>7 DEF S!RetryFires, S!Filter, S!Resume
  <1>8. ASSUME S!LoadMore(s) \/ S!ClearLogs(s) PROVE LogInv'
    <2>1. PICK new \in S!Requests : logReq' = [logReq EXCEPT ![s] = new]
      BY <1>8, LogRecords DEF S!LoadMore, S!ClearLogs
    <2>2. logReq[s].what # "reload"
      BY <1>8, LogRecords DEF S!LoadMore, S!ClearLogs
    <2>3. logReq' \in [Slots -> {S!Free} \cup S!Requests] /\ (S!Reloading => S!Reloading')
      BY <2>1, <2>2, LogEntry
    <2>4. UNCHANGED <<mounted, paused, pagedOut, stream, logPolling, lost>>
      BY <1>8 DEF S!LoadMore, S!ClearLogs
    <2> QED
      BY <2>3, <2>4 DEF LogTyped
  <1> QED
    BY <1>3, <1>4, <1>5, <1>6, <1>7, <1>8

-----------------------------------------------------------------------------
(* The session                                                             *)

\* What RestoreResultKept says of a step: of a restore, and of shown warnings.
Followed ==
    \A s \in C!Names :
        C!Restoring(s) => \/ C!Restoring(s)'
                          \/ accountReq[s].at = "ok" /\ warnings' = accountReq[s].flag
                          \/ lost' # lost /\ UNCHANGED <<route, warnings>>

StaysShown ==
    warnings /\ ~warnings' =>
        \/ UNCHANGED accountReq
        \/ \E s \in C!Names : C!Restoring(s) /\ accountReq[s].at = "ok"

LEMMA AccountRecords ==
  /\ \A c \in C!Requests :
        /\ c # C!Free /\ c.what \in C!Kinds /\ c.at \in {"sent", "begun", "ok", "denied"}
        /\ c.flag \in BOOLEAN
  /\ C!Free.what = "none"
  BY DEF C!Requests, C!Free, C!Kinds

LEMMA ConsoleBegins == C!Begin => ConsoleInv
  <1> SUFFICES ASSUME C!Begin PROVE ConsoleInv
    OBVIOUS
  <1>1. /\ accountReq = [s \in C!Names |-> C!Free]
        /\ deferred \in BOOLEAN /\ lost \in Nat
    BY DEF C!Begin
  <1>2. \A s \in C!Names : accountReq[s].what # "import"
    BY <1>1, AccountRecords
  <1> QED
    BY <1>1, <1>2 DEF ConsoleInv, AccountTyped, ImportDefers

\* A request in place of another one that is not an import, or is over.
LEMMA AccountEntry ==
  ASSUME ConsoleInv, NEW s \in C!Names, NEW new \in {C!Free} \cup C!Requests,
         accountReq' = [accountReq EXCEPT ![s] = new],
         deferred' \in BOOLEAN, lost' \in Nat,
         new.what = "import" => s = User /\ deferred',
         accountReq[s].what # "import" => (deferred => deferred'),
         C!Restoring(s) => \/ new.what = "import" /\ new.at \in {"begun", "ok"}
                           \/ accountReq[s].at = "ok" /\ warnings' = accountReq[s].flag
                           \/ lost' # lost /\ UNCHANGED <<route, warnings>>
  PROVE  ConsoleInv' /\ Followed
  <1>1. accountReq' \in [C!Names -> {C!Free} \cup C!Requests] /\ accountReq'[s] = new
    BY DEF ConsoleInv, AccountTyped
  <1>2. \A t \in C!Names \ {s} : accountReq'[t] = accountReq[t]
    BY DEF ConsoleInv, AccountTyped
  <1>3. ImportDefers'
    <2> SUFFICES ASSUME NEW t \in C!Names, accountReq'[t].what = "import"
                 PROVE  t = User /\ deferred'
      BY DEF ImportDefers, C!Names
    <2>1. CASE t = s
      BY <1>1, <2>1
    <2>2. CASE t # s
      <3>1. accountReq[t].what = "import" /\ t = User /\ deferred
        BY <1>2, <2>2 DEF ConsoleInv, ImportDefers
      <3>2. accountReq[s].what # "import"
        BY <3>1, <2>2 DEF ConsoleInv, ImportDefers
      <3> QED
        BY <3>1, <3>2
    <2> QED
      BY <2>1, <2>2
  <1>4. Followed
    <2> SUFFICES ASSUME NEW t \in C!Names, C!Restoring(t)
                 PROVE  \/ C!Restoring(t)'
                        \/ accountReq[t].at = "ok" /\ warnings' = accountReq[t].flag
                        \/ lost' # lost /\ UNCHANGED <<route, warnings>>
      BY DEF Followed
    <2> QED
      BY <1>1, <1>2 DEF C!Restoring
  <1> QED
    BY <1>1, <1>3, <1>4 DEF ConsoleInv, AccountTyped

LEMMA AskedKept ==
  ASSUME ConsoleInv, NEW s \in C!Names, NEW what \in C!Kinds, C!Asked(s, what),
         deferred' \in BOOLEAN, lost' = lost, deferred => deferred',
         what = "import" => s = User /\ deferred'
  PROVE  ConsoleInv' /\ Followed
  <1> DEFINE new == [what |-> what, at |-> "sent", flag |-> FALSE]
  <1>1. new \in C!Requests /\ new.what = what
    BY DEF C!Requests
  <1>2. accountReq[s] = C!Free /\ accountReq' = [accountReq EXCEPT ![s] = new]
    BY DEF C!Asked
  <1>3. ~C!Restoring(s) /\ lost' \in Nat
    BY <1>2, AccountRecords DEF C!Restoring, ConsoleInv, AccountTyped
  <1> HIDE DEF new
  <1> QED
    BY <1>1, <1>2, <1>3, AccountEntry

LEMMA AnswerKept ==
  ASSUME ConsoleInv, NEW s \in C!Names, accountReq[s] \in C!Requests,
         NEW at \in {"sent", "begun", "ok", "denied"}, NEW flag \in BOOLEAN,
         C!Restoring(s) => at \in {"begun", "ok"},
         accountReq' = [accountReq EXCEPT ![s].at = at, ![s].flag = flag],
         UNCHANGED <<deferred, lost>>
  PROVE  ConsoleInv' /\ Followed
  <1> DEFINE new == [accountReq[s] EXCEPT !.at = at, !.flag = flag]
  <1>1. new \in C!Requests /\ new.what = accountReq[s].what /\ new.at = at
    BY DEF C!Requests
  <1>2. accountReq' = [accountReq EXCEPT ![s] = new]
    BY DEF ConsoleInv, AccountTyped
  <1> HIDE DEF new
  <1>3. /\ C!Restoring(s) => new.what = "import" /\ new.at \in {"begun", "ok"}
        /\ new.what = "import" => s = User /\ deferred'
    BY <1>1 DEF C!Restoring, ConsoleInv, ImportDefers
  <1>4. deferred' \in BOOLEAN /\ lost' \in Nat
    BY DEF ConsoleInv, AccountTyped
  <1> QED
    BY <1>1, <1>2, <1>3, <1>4, AccountEntry

LEMMA DoneKept ==
  ASSUME ConsoleInv, NEW s \in C!Names, C!Done(s),
         deferred' \in BOOLEAN, lost' \in Nat,
         accountReq[s].what # "import" => (deferred => deferred'),
         C!Restoring(s) => \/ accountReq[s].at = "ok" /\ warnings' = accountReq[s].flag
                           \/ lost' # lost /\ UNCHANGED <<route, warnings>>
  PROVE  ConsoleInv' /\ Followed
  BY AccountEntry, AccountRecords DEF C!Done

LEMMA ConsoleKept ==
  ASSUME ConsoleInv, C!Next
  PROVE  ConsoleInv' /\ Followed
  <1> DEFINE Goal == ConsoleInv' /\ Followed
  <1>1. deferred \in BOOLEAN /\ lost \in Nat
    BY DEF ConsoleInv, AccountTyped
  <1>2. ASSUME UNCHANGED <<accountReq, deferred, lost>> PROVE Goal
    BY <1>2 DEF ConsoleInv, AccountTyped, ImportDefers, Followed, C!Restoring
  <1>3. ASSUME C!SessionEnds \/ C!BackToPassword \/ C!Close \/ C!FinishRecovery \/ C!Acknowledge
        PROVE  Goal
    BY <1>2, <1>3 DEF C!SessionEnds, C!BackToPassword, C!Close, C!FinishRecovery, C!Acknowledge,
                      C!page
  <1>4. ASSUME \/ \E to \in {"dashboard", "other"} : C!Back(to) \/ C!Go(to)
               \/ \E what \in {"import", "setup", "disable", "regenerate"} : C!Open(what)
        PROVE  Goal
    BY <1>2, <1>4 DEF C!Back, C!Go, C!Open
  <1>5. ASSUME C!Enter \/ C!Submit \/ C!OpenSecurity \/ C!Logout \/ C!Send \/ C!Ticks PROVE Goal
    <2>1. \E s \in C!Names : \E what \in C!Kinds \ {"import"} : C!Asked(s, what)
      BY <1>5 DEF C!Enter, C!Submit, C!OpenSecurity, C!Logout, C!Send, C!Ticks, C!HealthTick,
                  C!PageTick, C!Names, C!Kinds
    <2>2. UNCHANGED <<deferred, lost>>
      BY <1>5 DEF C!Enter, C!Submit, C!OpenSecurity, C!Logout, C!Send, C!Ticks, C!HealthTick,
                  C!PageTick, C!page
    <2> QED
      BY <2>1, <2>2, <1>1, AskedKept
  <1>6. ASSUME C!ImportBackup PROVE Goal
    <2>1. User \in C!Names /\ "import" \in C!Kinds
      BY DEF C!Names, C!Kinds
    <2> QED
      BY <2>1, <1>6, AskedKept DEF C!ImportBackup
  <1> SUFFICES ASSUME NEW s \in C!Names, C!Answers(s) \/ C!Lost(s)
               PROVE  Goal
    BY <1>3, <1>4, <1>5, <1>6 DEF C!Next
  <1>7. accountReq[s] = C!Free \/ accountReq[s] \in C!Requests
    BY DEF ConsoleInv, AccountTyped
  <1>8. ASSUME C!Serve(s) PROVE Goal
    <2>1. UNCHANGED <<deferred, lost>>
      BY <1>8 DEF C!Serve, C!page
    <2>2. accountReq[s] \in C!Requests /\ accountReq[s].at = "sent"
      BY <1>7, <1>8 DEF C!Serve
    <2>3. CASE C!Done(s)
      BY <2>1, <2>2, <2>3, <1>1, DoneKept DEF C!Restoring
    <2>4. CASE \E at \in {"ok", "begun", "denied"}, flag \in BOOLEAN :
                  accountReq' = [accountReq EXCEPT ![s].at = at, ![s].flag = flag]
      BY <2>1, <2>2, <2>4, AnswerKept DEF C!Restoring
    <2> QED
      BY <2>3, <2>4, <1>8 DEF C!Serve
  <1>9. ASSUME C!RestoreEnds(s) PROVE Goal
    <2>1. accountReq[s] \in C!Requests /\ UNCHANGED <<deferred, lost>>
      BY <1>7, <1>9, AccountRecords DEF C!RestoreEnds, C!page
    <2>2. PICK flag \in BOOLEAN : accountReq' = [accountReq EXCEPT ![s].at = "ok", ![s].flag = flag]
      BY <1>9 DEF C!RestoreEnds
    <2> QED
      BY <2>1, <2>2, AnswerKept
  <1>10. ASSUME C!Denied(s) PROVE Goal
    <2>1. lost' = lost /\ warnings' = warnings /\ ~C!Restoring(s)
      BY <1>10 DEF C!Denied, C!Restoring
    <2>2. CASE ~deferred /\ C!OnPage
      <3>1. accountReq' = [t \in C!Names |-> C!Free] /\ deferred' = FALSE
        BY <1>10, <2>2 DEF C!Denied, C!Unload
      <3>2. \A t \in C!Names : ~C!Restoring(t)
        BY <2>2 DEF ConsoleInv, ImportDefers, C!Restoring
      <3> QED
        BY <3>1, <3>2, <2>1, <1>1, AccountRecords
        DEF ConsoleInv, AccountTyped, ImportDefers, Followed
    <2>3. CASE ~(~deferred /\ C!OnPage)
      <3>1. C!Done(s)
        BY <1>10, <2>3 DEF C!Denied
      <3>2. IF accountReq[s].what = "import" THEN deferred' = FALSE ELSE deferred' = deferred
        BY <1>10, <2>3 DEF C!Denied, C!page
      <3> QED
        BY <3>1, <3>2, <2>1, <1>1, DoneKept
    <2> QED
      BY <2>2, <2>3
  <1>11. ASSUME C!Failed(s) \/ C!Lost(s) PROVE Goal
    <2>1. C!Done(s) /\ deferred' = (deferred /\ accountReq[s].what # "import")
      BY <1>11 DEF C!Failed, C!Lost, C!AfterFailure
    <2>2. lost' \in Nat /\ (C!Restoring(s) => lost' # lost /\ UNCHANGED <<route, warnings>>)
      BY <1>11, <1>1 DEF C!Failed, C!Lost, C!AfterFailure, C!Restoring
    <2> QED
      BY <2>1, <2>2, <1>1, DoneKept
  <1>12. ASSUME C!LetIn(s) \/ C!Answered(s) \/ C!SetupStarted(s) \/ C!CodesIssued(s) PROVE Goal
    <2>1. C!Done(s) /\ UNCHANGED <<deferred, lost>> /\ accountReq[s].what # "import"
      BY <1>12 DEF C!LetIn, C!Answered, C!SetupStarted, C!CodesIssued
    <2> QED
      BY <2>1, <1>1, DoneKept DEF C!Restoring
  <1>13. ASSUME C!Imported(s) PROVE Goal
    BY <1>13, <1>1, DoneKept DEF C!Imported
  <1> QED
    BY <1>8, <1>9, <1>10, <1>11, <1>12, <1>13 DEF C!Answers

\* Warnings that are shown are taken away by the user or by another restore.
LEMMA WarningsStay ==
  ASSUME C!Next
  PROVE  StaysShown
  <1>1. ASSUME NEW s \in C!Names, C!Imported(s) PROVE StaysShown
    BY <1>1 DEF C!Imported, C!Restoring, StaysShown
  <1>2. ASSUME C!Acknowledge PROVE StaysShown
    BY <1>2 DEF C!Acknowledge, StaysShown
  <1>3. ASSUME \/ C!SessionEnds \/ C!Enter \/ C!Submit \/ C!BackToPassword
               \/ C!OpenSecurity \/ C!Logout \/ C!Send \/ C!ImportBackup \/ C!Close
               \/ C!FinishRecovery \/ C!Ticks
               \/ \E to \in {"dashboard", "other"} : C!Back(to) \/ C!Go(to)
               \/ \E what \in {"import", "setup", "disable", "regenerate"} : C!Open(what)
        PROVE  warnings' = warnings
    BY <1>3 DEF C!SessionEnds, C!Enter, C!Submit, C!BackToPassword, C!OpenSecurity, C!Logout,
                C!Send, C!ImportBackup, C!Close, C!FinishRecovery, C!Ticks, C!HealthTick,
                C!PageTick, C!Back, C!Go, C!Open
  <1>4. ASSUME NEW s \in C!Names,
               \/ C!Serve(s) \/ C!RestoreEnds(s) \/ C!Denied(s) \/ C!Failed(s) \/ C!LetIn(s)
               \/ C!Answered(s) \/ C!SetupStarted(s) \/ C!CodesIssued(s) \/ C!Lost(s)
        PROVE  warnings' = warnings
    BY <1>4 DEF C!Serve, C!RestoreEnds, C!Denied, C!Failed, C!AfterFailure, C!LetIn, C!Answered,
                C!SetupStarted, C!CodesIssued, C!Lost
  <1>5. warnings' = warnings => StaysShown
    BY DEF StaysShown
  <1> QED
    BY <1>1, <1>2, <1>3, <1>4, <1>5 DEF C!Next, C!Answers

-----------------------------------------------------------------------------
(* The types: what the invariants above leave open is which other variables *)
(* of a page are Boolean, that the bounds are kept, and that one load of    *)
(* the chart at most is current and one choice at most is drawn             *)

AtMostOne(set) == \A a, b \in set : a = b

LEMMA OneAtMost ==
  ASSUME NEW set, AtMostOne(set)
  PROVE  Cardinality(set) <= 1
  <1>1. CASE set = {}
    BY <1>1, FS_EmptySet
  <1>2. CASE set # {}
    <2>1. PICK a : a \in set
      BY <1>2
    <2>2. set = {a}
      BY <2>1 DEF AtMostOne
    <2>3. Cardinality({a}) = 1
      BY FS_Singleton
    <2> QED
      BY <2>2, <2>3
  <1> QED
    BY <1>1, <1>2

CurrentLoads == {s \in Slots : Current(s)}

TypesInv ==
    /\ lost \in 0 .. MaxLost
    /\ page = "discovery" =>
          scanPolling \in BOOLEAN /\ scans <= MaxScans /\ forgotten \subseteq 1 .. scans
    /\ page = "history" => metricPolling \in BOOLEAN
    /\ page = "traffic" => AtMostOne(CurrentLoads) /\ AtMostOne(chart)
    /\ page = "log" => {more, retry, clearing} \subseteq BOOLEAN
    /\ page = "console" => C!TypeOK

LEMMA ScanTypes ==
  ASSUME P!IInv, lost \in 0 .. MaxLost, scanPolling \in BOOLEAN, scans <= MaxScans,
         forgotten \subseteq 1 .. scans, P!Next
  PROVE  /\ lost' \in 0 .. MaxLost
         /\ scanPolling' \in BOOLEAN /\ scans' <= MaxScans /\ forgotten' \subseteq 1 .. scans'
  <1> USE PagesAssumption DEF P!dialog, P!server
  <1>1. /\ scans \in Nat
        /\ \A s \in P!Names : scanReq[s] # P!Free => scanReq[s].id \in 0 .. scans
    BY DEF P!IInv, P!Typed, P!Shapes, P!AnswersTrue
  <1>2. CASE P!ScanEnds \/ P!Open \/ P!Tick
    BY <1>2 DEF P!ScanEnds, P!Open, P!Tick
  <1>3. CASE \E s \in Slots : P!Start(s) \/ P!Close(s) \/ P!Leave(s) \/ P!Cancel(s)
    BY <1>3 DEF P!Start, P!Close, P!Leave, P!Cancel
  <1>4. ASSUME NEW s \in P!Names, P!Serve(s)
        PROVE  UNCHANGED <<lost, scanPolling, forgotten>> /\ scans' \in {scans, scans + 1}
               /\ scans' <= MaxScans
    BY <1>1, <1>4 DEF P!Serve
  <1>5. ASSUME NEW s \in P!Names, P!Started(s) \/ P!Loaded(s) \/ P!Cancelled(s)
        PROVE  UNCHANGED <<lost, forgotten, scans>> /\ scanPolling' \in BOOLEAN
    BY <1>5 DEF P!Started, P!Loaded, P!Cancelled
  <1>6. ASSUME NEW s \in P!Names, P!Lost(s)
        PROVE  /\ lost' \in 0 .. MaxLost /\ scanPolling' \in BOOLEAN /\ scans' = scans
               /\ forgotten' \subseteq 1 .. scans
    <2>1. lost < MaxLost /\ lost' = lost + 1 /\ scans' = scans /\ scanReq[s] # P!Free
      BY <1>6 DEF P!Lost
    <2>2. scanPolling' \in BOOLEAN
      BY <1>6 DEF P!Lost
    <2>3. \/ forgotten' = forgotten
          \/ scanReq[s].id # 0 /\ forgotten' = forgotten \cup {scanReq[s].id}
      BY <1>6 DEF P!Lost
    <2>4. scanReq[s].id \in 0 .. scans
      BY <1>1, <2>1
    <2>5. forgotten' \subseteq 1 .. scans
      <3>1. scanReq[s].id # 0 => scanReq[s].id \in 1 .. scans
        BY <1>1, <2>4
      <3>2. CASE forgotten' = forgotten
        BY <3>2
      <3>3. CASE scanReq[s].id # 0 /\ forgotten' = forgotten \cup {scanReq[s].id}
        BY <3>1, <3>3
      <3> QED
        BY <2>3, <3>2, <3>3
    <2>6. lost' \in 0 .. MaxLost
      BY <2>1
    <2> QED
      BY <2>1, <2>2, <2>5, <2>6
  <1>7. CASE \E s \in P!Names : P!Answers(s) \/ P!Lost(s)
    <2>1. scans' \in {scans, scans + 1} => 1 .. scans \subseteq 1 .. scans'
      BY <1>1
    <2> QED
      BY <1>1, <1>4, <1>5, <1>6, <1>7, <2>1 DEF P!Answers
  <1> QED
    BY <1>2, <1>3, <1>7 DEF P!Next

LEMMA HistoryTypes ==
  ASSUME HistoryInv, lost \in 0 .. MaxLost, metricPolling \in BOOLEAN, H!Next
  PROVE  lost' \in 0 .. MaxLost /\ metricPolling' \in BOOLEAN
  <1>1. CASE H!LoadFails \/ H!SaveFails
    BY <1>1, PagesAssumption DEF H!LoadFails, H!SaveFails
  <1>2. CASE H!ToggleRefresh \/ H!Leave
    BY <1>2 DEF H!ToggleRefresh, H!Leave
  <1>3. CASE H!Answers \/ H!Tick \/ H!Refresh \/ H!OtherSwitches
    BY <1>3 DEF H!Answers, H!ServeLoad, H!LoadArrives, H!ServeSave, H!SaveArrives, H!Tick,
                H!Refresh, H!OtherSwitches
  <1>4. CASE \/ \E b \in BOOLEAN : H!SetHistoryPersistence(b)
             \/ \E r \in Ranges : H!SelectRange(r)
    BY <1>4 DEF H!SetHistoryPersistence, H!SelectRange
  <1> QED
    BY <1>1, <1>2, <1>3, <1>4 DEF H!Next

\* What asking for the chart does to the number of current loads and of charts.
LEMMA SeriesTypes ==
  ASSUME TrafficTyped, AtMostOne(CurrentLoads), AtMostOne(chart), NEW s \in Slots, NEW st, NEW r,
         T!LoadSeries(s, st, r)
  PROVE  AtMostOne(CurrentLoads') /\ AtMostOne(chart')
  <1> DEFINE next == T!NextGeneration
  <1>1. /\ next \in [Slots -> {T!Free} \cup T!Charts]
        /\ \A t \in Slots : next[t] = T!Free \/ ~next[t].current
    BY NothingCurrent DEF TrafficTyped
  <1> HIDE DEF next
  <1>2. CASE st = NoSite
    BY <1>1, <1>2 DEF T!LoadSeries, next, AtMostOne, CurrentLoads, Current
  <1>3. CASE st # NoSite
    <2>1. PICK new : seriesReq' = [next EXCEPT ![s] = new] /\ chart' = chart
      BY <1>3 DEF T!LoadSeries, next
    <2>2. \A t \in CurrentLoads' : t = s
      BY <1>1, <2>1 DEF CurrentLoads, Current
    <2> QED
      BY <2>1, <2>2 DEF AtMostOne
  <1> QED
    BY <1>2, <1>3

LEMMA TrafficTypes ==
  ASSUME TrafficInv, lost \in 0 .. MaxLost, AtMostOne(CurrentLoads), AtMostOne(chart), T!Next
  PROVE  /\ lost' \in 0 .. MaxLost
         /\ AtMostOne(CurrentLoads') /\ AtMostOne(chart')
  <1> USE DEF T!choice
  <1>1. TrafficTyped
    BY DEF TrafficInv
  <1>2. ASSUME UNCHANGED <<chart, seriesReq>>
        PROVE  AtMostOne(CurrentLoads') /\ AtMostOne(chart')
    BY <1>2 DEF AtMostOne, CurrentLoads, Current
  <1>3. CASE T!Refresh \/ T!ServeList \/ T!ListFails \/ T!SiteGone \/ T!Leave
    BY <1>2, <1>3, PagesAssumption DEF T!Refresh, T!ServeList, T!ListFails, T!SiteGone, T!Leave
  <1> SUFFICES ASSUME NEW s \in Slots,
                      \/ T!ServeSeries(s) \/ T!SeriesArrives(s) \/ T!SeriesFails(s)
                      \/ T!ListArrives(s)
                      \/ \E st \in Sites : T!SelectSite(s, st)
                      \/ \E r \in Ranges : T!SelectRange(s, r)
               PROVE  /\ lost' \in 0 .. MaxLost
                      /\ AtMostOne(CurrentLoads') /\ AtMostOne(chart')
    BY <1>3 DEF T!Next
  <1>4. CASE T!ServeSeries(s)
    <2>1. seriesReq[s] \in T!Charts
      BY <1>1, <1>4, TrafficRecords DEF T!ServeSeries, TrafficTyped
    <2>2. PICK at \in {"ok", "failed"} : seriesReq' = [seriesReq EXCEPT ![s].at = at]
      BY <1>4 DEF T!ServeSeries
    <2>3. seriesReq'[s].current = seriesReq[s].current
      BY <1>1, <2>1, <2>2 DEF T!Charts, TrafficTyped
    <2>4. CurrentLoads' \subseteq CurrentLoads
      BY <1>1, <2>1, <2>2, <2>3, TrafficRecords DEF CurrentLoads, Current, TrafficTyped
    <2> QED
      BY <2>4, <1>4 DEF T!ServeSeries, AtMostOne
  <1>5. CASE T!SeriesArrives(s) \/ T!SeriesFails(s)
    <2>1. seriesReq' = [seriesReq EXCEPT ![s] = T!Free]
      BY <1>5 DEF T!SeriesArrives, T!SeriesFails
    <2>2. CurrentLoads' \subseteq CurrentLoads
      BY <1>1, <2>1 DEF CurrentLoads, Current, TrafficTyped
    <2>3. chart' \in {chart, {}, {seriesReq[s].of}}
      BY <1>5 DEF T!SeriesArrives, T!SeriesFails
    <2>4. lost' \in 0 .. MaxLost
      BY <1>5, PagesAssumption DEF T!SeriesArrives, T!SeriesFails
    <2> QED
      BY <2>2, <2>3, <2>4 DEF AtMostOne
  <1>6. CASE T!ListArrives(s)
    <2>1. (\E st : T!LoadSeries(s, st, chartRange)) \/ UNCHANGED <<chart, seriesReq>>
      BY <1>6 DEF T!ListArrives
    <2> QED
      BY <2>1, <1>1, <1>2, <1>6, SeriesTypes DEF T!ListArrives
  <1>7. CASE \E st \in Sites : T!SelectSite(s, st)
    BY <1>7, <1>1, SeriesTypes DEF T!SelectSite
  <1>8. CASE \E r \in Ranges : T!SelectRange(s, r)
    BY <1>8, <1>1, SeriesTypes DEF T!SelectRange
  <1> QED
    BY <1>4, <1>5, <1>6, <1>7, <1>8

LEMMA LogTypes ==
  ASSUME LogInv, lost \in 0 .. MaxLost, {more, retry, clearing} \subseteq BOOLEAN, S!Next
  PROVE  lost' \in 0 .. MaxLost /\ {more', retry', clearing'} \subseteq BOOLEAN
  <1>1. CASE S!StreamBreaks \/ S!Pause \/ S!Leave
    BY <1>1 DEF S!StreamBreaks, S!Pause, S!Leave
  <1> SUFFICES ASSUME NEW s \in Slots,
                      \/ S!Serve(s) \/ S!ReloadArrives(s) \/ S!MoreArrives(s)
                      \/ S!ClearArrives(s) \/ S!Lost(s) \/ S!RetryFires(s) \/ S!Filter(s)
                      \/ S!LoadMore(s) \/ S!ClearLogs(s) \/ S!Resume(s)
               PROVE  lost' \in 0 .. MaxLost /\ {more', retry', clearing'} \subseteq BOOLEAN
    BY <1>1 DEF S!Next
  <1>2. CASE S!ReloadArrives(s) \/ S!MoreArrives(s)
    <2>1. logReq[s] \in S!Requests
      BY <1>2, LogRecords DEF S!ReloadArrives, S!MoreArrives, LogInv, LogTyped
    <2>2. more' \in BOOLEAN
      BY <1>2, <2>1, LogRecords DEF S!ReloadArrives, S!MoreArrives
    <2> QED
      BY <1>2, <2>2 DEF S!ReloadArrives, S!MoreArrives
  <1>3. CASE S!Lost(s)
    BY <1>3, PagesAssumption DEF S!Lost
  <1>4. CASE \/ S!Serve(s) \/ S!ClearArrives(s) \/ S!RetryFires(s) \/ S!Filter(s)
             \/ S!LoadMore(s) \/ S!ClearLogs(s) \/ S!Resume(s)
    BY <1>4 DEF S!Serve, S!ClearArrives, S!RetryFires, S!Filter, S!LoadMore, S!ClearLogs, S!Resume
  <1> QED
    BY <1>2, <1>3, <1>4

LEMMA EffectTypes ==
  ASSUME {session, totp, must, setup} \subseteq BOOLEAN,
         NEW what \in C!Kinds \ {"import", "poll"}, NEW flag \in BOOLEAN, C!Effect(what, flag)
  PROVE  {session', totp', must', setup'} \subseteq BOOLEAN
  <1>1. CASE what \in {"enter", "security", "login", "code", "logout"}
    BY <1>1 DEF C!Effect, C!server
  <1>2. CASE what \in {"password", "setup"}
    BY <1>2 DEF C!Effect
  <1>3. CASE what \in {"enable", "disable", "regenerate"}
    BY <1>3 DEF C!Effect
  <1> QED
    BY <1>1, <1>2, <1>3 DEF C!Kinds

LEMMA ConsoleTypes ==
  ASSUME ConsoleInv, ConsoleInv', C!TypeOK, C!Next
  PROVE  C!TypeOK'
  <1> USE DEF C!server, C!store, C!page
  <1>1. accountReq' \in [C!Names -> {C!Free} \cup C!Requests] /\ deferred' \in BOOLEAN
    BY DEF ConsoleInv, AccountTyped
  <1>2. \A s \in C!Names : accountReq[s] # C!Free => accountReq[s].flag \in BOOLEAN
    BY AccountRecords DEF ConsoleInv, AccountTyped
  <1>3. ASSUME \/ C!SessionEnds \/ C!BackToPassword \/ C!Close \/ C!FinishRecovery
               \/ C!Acknowledge
        PROVE  C!TypeOK'
    BY ZenonT(60), <1>1, <1>3 DEF C!SessionEnds, C!BackToPassword, C!Close, C!FinishRecovery, C!Acknowledge,
                      C!Dialogs, C!TypeOK
  <1>4. ASSUME \/ \E to \in {"dashboard", "other"} : C!Back(to) \/ C!Go(to)
               \/ \E what \in {"import", "setup", "disable", "regenerate"} : C!Open(what)
        PROVE  C!TypeOK'
    <2>1. ASSUME NEW to \in {"dashboard", "other"}, C!Back(to) PROVE C!TypeOK'
      BY <1>1, <2>1 DEF C!Back, C!Mounted, C!Dialogs, C!TypeOK
    <2>2. ASSUME NEW to \in {"dashboard", "other"}, C!Go(to) PROVE C!TypeOK'
      BY <1>1, <2>2 DEF C!Go, C!TypeOK
    <2>3. ASSUME NEW what \in {"import", "setup", "disable", "regenerate"}, C!Open(what)
          PROVE  C!TypeOK'
      BY <1>1, <2>3 DEF C!Open, C!Dialogs, C!TypeOK
    <2> QED
      BY <1>4, <2>1, <2>2, <2>3
  <1>5. ASSUME \/ C!Enter \/ C!Submit \/ C!OpenSecurity \/ C!Logout \/ C!Send \/ C!Ticks
               \/ C!ImportBackup
        PROVE  C!TypeOK'
    BY <1>1, <1>5 DEF C!Enter, C!Submit, C!OpenSecurity, C!Logout, C!Send, C!Ticks, C!HealthTick,
                      C!PageTick, C!ImportBackup, C!TypeOK
  <1> SUFFICES ASSUME NEW s \in C!Names, C!Answers(s) \/ C!Lost(s)
               PROVE  C!TypeOK'
    BY <1>3, <1>4, <1>5 DEF C!Next
  <1>6. ASSUME C!Serve(s) PROVE C!TypeOK'
    <2>1. UNCHANGED <<route, account, mustSeen, step, accountDialog, setupId, health, warnings,
                      lost>>
      BY <1>6 DEF C!Serve
    <2>2. {session', totp', must', setup'} \subseteq BOOLEAN
      <3>1. {session, totp, must, setup} \subseteq BOOLEAN
        BY DEF C!TypeOK
      <3>2. accountReq[s].what \in C!Kinds
        BY <1>1, <1>6, AccountRecords DEF C!Serve, ConsoleInv, AccountTyped
      <3>3. CASE UNCHANGED C!server
        BY <3>1, <3>3
      <3>4. CASE session' = FALSE /\ setup' = FALSE /\ totp' \in BOOLEAN /\ must' \in BOOLEAN
        BY <3>4
      <3>5. CASE /\ accountReq[s].what \notin {"import", "poll"}
                 /\ \E flag \in BOOLEAN : C!Effect(accountReq[s].what, flag)
        BY <3>1, <3>2, <3>5, EffectTypes
      <3> QED
        BY <1>6, <3>3, <3>4, <3>5 DEF C!Serve
    <2> QED
      BY <1>1, <2>1, <2>2 DEF C!TypeOK
  <1>7. ASSUME C!RestoreEnds(s) PROVE C!TypeOK'
    BY <1>1, <1>7 DEF C!RestoreEnds, C!TypeOK
  <1>8. ASSUME C!Denied(s) PROVE C!TypeOK'
    BY <1>1, <1>8 DEF C!Denied, C!Unload, C!Dialogs, C!TypeOK
  <1>9. ASSUME C!Failed(s) \/ C!Lost(s) PROVE C!TypeOK'
    <2>1. lost' \in 0 .. MaxLost
      BY <1>9, PagesAssumption DEF C!Failed, C!Lost, C!TypeOK
    <2> QED
      BY ZenonT(60), <1>1, <1>9, <2>1 DEF C!Failed, C!Lost, C!AfterFailure, C!Dialogs, C!TypeOK
  <1>10. ASSUME C!LetIn(s) PROVE C!TypeOK'
    <2>1. accountReq[s].flag \in BOOLEAN
      BY <1>2, <1>10, AccountRecords DEF C!LetIn
    <2>2. UNCHANGED <<session, totp, must, setup, setupId, warnings, lost>>
      BY <1>10 DEF C!LetIn
    <2>3. CASE accountReq[s].what = "login" /\ accountReq[s].flag
      BY <1>1, <1>10, <2>2, <2>3 DEF C!LetIn, C!TypeOK
    <2>4. CASE ~(accountReq[s].what = "login" /\ accountReq[s].flag)
      <3>1. account' = "in" /\ step' = "password"
        BY <1>10, <2>4 DEF C!LetIn
      <3>2. mustSeen' \in BOOLEAN
        BY <1>10, <2>1, <2>4 DEF C!LetIn, C!TypeOK
      <3>3. /\ route' \in {"dashboard", "other"} /\ health' = TRUE
            /\ accountDialog' \in {"security", "none"}
        BY <1>10, <2>4 DEF C!LetIn, C!Mounted
      <3> QED
        BY <1>1, <2>2, <3>1, <3>2, <3>3 DEF C!TypeOK, C!Dialogs
    <2> QED
      BY <2>3, <2>4
  <1>11. ASSUME C!Answered(s) PROVE C!TypeOK'
    <2>1. accountReq[s].flag \in BOOLEAN
      BY <1>2, <1>11, AccountRecords DEF C!Answered
    <2>2. UNCHANGED <<session, totp, must, setup, step, setupId, warnings, lost>>
      BY <1>11 DEF C!Answered
    <2>3. /\ account' \in {"in", "none", account}
          /\ mustSeen' \in {FALSE, mustSeen, accountReq[s].flag}
      BY <1>11 DEF C!Answered
    <2>4. /\ route' \in {"login", route} /\ health' \in {FALSE, health}
          /\ accountDialog' \in {"security", "none", accountDialog}
      BY <1>11 DEF C!Answered, C!ToLogin
    <2>5. account' \in {"unknown", "none", "in"} /\ mustSeen' \in BOOLEAN
      BY <2>1, <2>3 DEF C!TypeOK
    <2>6. /\ route' \in {"login", "dashboard", "other"} /\ health' \in BOOLEAN
          /\ accountDialog' \in C!Dialogs
      BY <2>4 DEF C!TypeOK, C!Dialogs
    <2> QED
      BY <1>1, <2>2, <2>5, <2>6 DEF C!TypeOK
  <1>12. ASSUME C!SetupStarted(s) \/ C!CodesIssued(s) PROVE C!TypeOK'
    BY <1>1, <1>12 DEF C!SetupStarted, C!CodesIssued, C!OnPage, C!Dialogs, C!TypeOK
  <1>13. ASSUME C!Imported(s) PROVE C!TypeOK'
    <2>1. accountReq[s].flag \in BOOLEAN
      BY <1>2, <1>13, AccountRecords DEF C!Imported
    <2> QED
      BY <1>1, <2>1, <1>13 DEF C!Imported, C!ToLogin, C!Dialogs, C!TypeOK
  <1> QED
    BY <1>6, <1>7, <1>8, <1>9, <1>10, <1>11, <1>12, <1>13 DEF C!Answers

-----------------------------------------------------------------------------
(* All of the pages                                                        *)

LEMMA PagesBegin == Init => PagesInv
  BY SameScan, P!InitHolds, HistoryBegins, TrafficBegins, LogBegins, ConsoleBegins
  DEF Init, NoConsole, PagesInv

LEMMA PagesKept == PagesInv /\ [Next]_vars => PagesInv'
  <1> SUFFICES ASSUME PagesInv, [Next]_vars PROVE PagesInv'
    OBVIOUS
  <1>1. page' = page
    BY DEF Next, vars
  <1>2. page # "console" => accountReq' = accountReq
    BY <1>1 DEF Next, vars, console, PagesInv
  <1>3. accountReq' = accountReq => (page # "console" => accountReq' = [s \in C!Names |-> C!Free])
    BY DEF PagesInv
  <1>4. ASSUME page = "discovery" PROVE P!IInv'
    <2>1. CASE Next
      BY <1>4, <2>1, SameScan, P!StepKeeps DEF PagesInv, Next
    <2>2. CASE UNCHANGED vars
      <3>1. UNCHANGED P!vars
        BY <2>2 DEF vars, scanning, P!vars
      <3> QED
        BY <1>4, <3>1, P!StepKeeps DEF PagesInv
    <2> QED
      BY <2>1, <2>2
  <1>5. ASSUME page = "history" PROVE HistoryInv'
    <2>1. CASE Next
      BY <1>5, <2>1, HistoryKept DEF PagesInv, Next
    <2>2. CASE UNCHANGED vars
      BY <1>5, <2>2
      DEF PagesInv, vars, history, HistoryInv, HistoryTyped, OneChange, SwitchKnown, LoadKnown,
          Undisturbed
    <2> QED
      BY <2>1, <2>2
  <1>6. ASSUME page = "traffic" PROVE TrafficInv'
    <2>1. CASE Next
      BY <1>6, <2>1, TrafficKept DEF PagesInv, Next
    <2>2. CASE UNCHANGED vars
      BY <1>6, <2>2
      DEF PagesInv, vars, traffic, TrafficInv, TrafficTyped, CurrentIsChosen, Current, Chosen,
          T!ChartIsChosen
    <2> QED
      BY <2>1, <2>2
  <1>7. ASSUME page = "log" PROVE LogInv'
    <2>1. CASE Next
      BY <1>7, <2>1, LogKept DEF PagesInv, Next
    <2>2. CASE UNCHANGED vars
      BY <1>7, <2>2
      DEF PagesInv, vars, log, LogInv, LogTyped, S!FollowsAsShown, S!Reloading
    <2> QED
      BY <2>1, <2>2
  <1>8. ASSUME page = "console" PROVE ConsoleInv'
    <2>1. CASE Next
      BY <1>8, <2>1, ConsoleKept DEF PagesInv, Next
    <2>2. CASE UNCHANGED vars
      BY <1>8, <2>2 DEF PagesInv, vars, console, ConsoleInv, AccountTyped, ImportDefers
    <2> QED
      BY <2>1, <2>2
  <1> QED
    BY <1>1, <1>2, <1>3, <1>4, <1>5, <1>6, <1>7, <1>8 DEF PagesInv

LEMMA PagesHold == Spec => []PagesInv
  <1>1. Init => PagesInv
    BY PagesBegin
  <1>2. PagesInv /\ [Next]_vars => PagesInv'
    BY PagesKept
  <1> QED
    BY <1>1, <1>2, PTL DEF Spec

\* Closing the dialog, opening it anew or leaving the page never leaves a scan
\* running that nobody sees and nobody is about to cancel, unless a request
\* failed (ServiceDiscovery.vue, the generation and cancelId).
THEOREM ScansAreSeen == Spec => []NoOrphanScan
  <1>1. PagesInv => NoOrphanScan
    <2> SUFFICES ASSUME P!IInv PROVE D!NoOrphanScan
      BY DEF PagesInv, NoOrphanScan
    <2> QED
      BY SameScan DEF P!IInv
  <1> QED
    BY <1>1, PagesHold, PTL

\* Whatever overtakes what on the dashboard - loads of the timer, of the user and
\* of every change of the range, and the change of the switch - once no request is
\* under way the switch shows what the server does and the curves are of the
\* selected range (Dashboard.vue, loadMetrics and setHistoryPersistence).
THEOREM HistoryStaysTrue == Spec => []HistoryIsTrue
  <1>1. PagesInv => HistoryIsTrue
    <2> SUFFICES ASSUME PagesInv, page = "history" PROVE H!HistoryIsTrue
      BY DEF HistoryIsTrue
    <2>1. HistoryInv
      BY DEF PagesInv
    <2>2. save = H!Free => save.at # "ok"
      BY HistoryRecords
    <2> QED
      BY <2>1, <2>2
      DEF HistoryInv, HistoryTyped, SwitchKnown, Undisturbed, H!HistoryIsTrue
  <1> QED
    BY <1>1, PagesHold, PTL

\* For any number of loads of the chart under way, of sites and of ranges: the
\* chart that is drawn while none is being waited for is of what is chosen, unless
\* a deleted site was replaced (Dashboard.vue, loadSeries and seriesGeneration).
THEOREM ChartOfTheChosen == Spec => []ChartIsChosen
  <1>1. PagesInv => ChartIsChosen
    BY DEF PagesInv, TrafficInv, ChartIsChosen
  <1> QED
    BY <1>1, PagesHold, PTL

\* For any number of requests of the log page under way: it streams or polls only
\* when it says so, and does one of them when it says so unless a load has failed
\* (Logs.vue, startStream, stopStream and the watch on paused).
THEOREM LogFollows == Spec => []FollowsAsShown
  <1>1. PagesInv => FollowsAsShown
    BY DEF PagesInv, LogInv, FollowsAsShown
  <1> QED
    BY <1>1, PagesHold, PTL

\* A restore that has ended the sessions is followed until its warnings are shown,
\* and the page stays where it is if its answer is lost; what is shown then stays
\* until the user, or another restore, takes it away (SystemMaintenance.vue,
\* restore-notice.js and deferUnauthorizedRedirects of api/index.js).
THEOREM RestoreIsFollowed == Spec => RestoreResultKept
  <1>1. PagesInv /\ [Next]_vars => [Followed /\ StaysShown]_(C!vars)
    <2> SUFFICES ASSUME PagesInv, Next, C!vars' # C!vars PROVE Followed /\ StaysShown
      BY DEF vars, console, C!vars
    <2>1. CASE page = "console"
      BY <2>1, ConsoleKept, WarningsStay DEF Next, PagesInv
    <2>2. CASE page # "console"
      <3>1. warnings' = warnings
        BY <2>2 DEF Next, console
      <3> QED
        BY <2>2, <3>1, AccountRecords DEF PagesInv, Followed, StaysShown, C!Restoring
    <2> QED
      BY <2>1, <2>2
  <1> QED
    BY <1>1, PagesHold, PTL
    DEF Spec, RestoreResultKept, C!RestoreResultKept, Followed, StaysShown

-----------------------------------------------------------------------------
(* The types of all pages                                                  *)

LEMMA TypesBegin == Init => TypesInv
  <1> SUFFICES ASSUME Init PROVE TypesInv
    OBVIOUS
  <1>1. lost \in 0 .. MaxLost
    <2>1. lost = 0
      BY DEF Init, D!Begin, H!Begin, T!Begin, S!Begin, C!Begin
    <2> QED
      BY <2>1, PagesAssumption
  <1>2. ASSUME page = "discovery"
        PROVE  scanPolling \in BOOLEAN /\ scans <= MaxScans /\ forgotten \subseteq 1 .. scans
    <2>1. scanPolling = FALSE /\ scans = 0 /\ forgotten = {}
      BY <1>2 DEF Init, D!Begin
    <2>2. scans <= MaxScans
      BY <2>1, PagesAssumption
    <2>3. forgotten \subseteq 1 .. scans
      BY <2>1
    <2> QED
      BY <2>1, <2>2, <2>3
  <1>3. ASSUME page = "history" PROVE metricPolling \in BOOLEAN
    BY <1>3 DEF Init, H!Begin
  <1>4. ASSUME page = "traffic" PROVE AtMostOne(CurrentLoads) /\ AtMostOne(chart)
    BY <1>4 DEF Init, T!Begin, AtMostOne, CurrentLoads, Current
  <1>5. ASSUME page = "log" PROVE {more, retry, clearing} \subseteq BOOLEAN
    BY <1>5 DEF Init, S!Begin
  <1>6. ASSUME page = "console" PROVE C!TypeOK
    BY <1>1, <1>6 DEF Init, C!Begin, C!TypeOK, C!Dialogs
  <1> QED
    BY <1>1, <1>2, <1>3, <1>4, <1>5, <1>6 DEF TypesInv

LEMMA TypesKept == PagesInv /\ PagesInv' /\ TypesInv /\ [Next]_vars => TypesInv'
  <1> SUFFICES ASSUME PagesInv, PagesInv', TypesInv, [Next]_vars PROVE TypesInv'
    OBVIOUS
  <1>1. CASE UNCHANGED vars
    BY <1>1
    DEF TypesInv, vars, scanning, history, traffic, log, console, AtMostOne, CurrentLoads,
        Current, C!TypeOK
  <1>2. CASE Next
    <2>1. page' = page /\ lost \in 0 .. MaxLost
      BY <1>2 DEF Next, TypesInv
    <2>2. CASE page = "discovery"
      BY <1>2, <2>1, <2>2, SameScan, ScanTypes DEF Next, PagesInv, TypesInv
    <2>3. CASE page = "history"
      BY <1>2, <2>1, <2>3, HistoryTypes DEF Next, PagesInv, TypesInv
    <2>4. CASE page = "traffic"
      <3>1. AtMostOne(CurrentLoads') /\ AtMostOne(chart') /\ lost' \in 0 .. MaxLost
        BY <1>2, <2>4, TrafficTypes DEF Next, PagesInv, TypesInv
      <3> QED
        BY <2>1, <2>4, <3>1 DEF TypesInv, AtMostOne
    <2>5. CASE page = "log"
      BY <1>2, <2>1, <2>5, LogTypes DEF Next, PagesInv, TypesInv
    <2>6. CASE page = "console"
      <3>1. (C!TypeOK)'
        BY <1>2, <2>1, <2>6, ConsoleTypes DEF Next, PagesInv, TypesInv
      <3> QED
        BY <2>1, <2>6, <3>1 DEF TypesInv, C!TypeOK
    <2> QED
      BY <2>2, <2>3, <2>4, <2>5, <2>6 DEF PagesInv
  <1> QED
    BY <1>1, <1>2

LEMMA TypesHold == PagesInv /\ TypesInv => TypeOK
  <1> SUFFICES ASSUME PagesInv, TypesInv PROVE TypeOK
    OBVIOUS
  <1>1. ASSUME page = "discovery" PROVE D!TypeOK
    <2>1. P!IInv /\ P!Typed /\ P!AnswersTrue
      BY <1>1 DEF PagesInv, P!IInv
    <2>2. /\ scanPolling \in BOOLEAN /\ scans <= MaxScans /\ forgotten \subseteq 1 .. scans
          /\ lost \in 0 .. MaxLost
      BY <1>1 DEF TypesInv
    <2>3. scans \in 0 .. MaxScans
      BY <2>1, <2>2, PagesAssumption DEF P!Typed
    <2>4. scanReq \in [D!Names -> {D!Free} \cup D!Requests]
      <3> SUFFICES ASSUME NEW s \in D!Names, scanReq[s] # D!Free
                   PROVE  scanReq[s] \in D!Requests
        BY <2>1 DEF P!Typed, P!Names, D!Names
      <3>1. scanReq[s] \in P!Shapes /\ scanReq[s].id <= scans
        BY <2>1 DEF P!Typed, P!AnswersTrue, P!Names, D!Names, P!Free, D!Free
      <3>2. scanReq[s].id \in 0 .. MaxScans
        BY <2>3, <3>1, PagesAssumption DEF P!Shapes
      <3> QED
        BY <3>1, <3>2 DEF P!Shapes, D!Requests
    <2> QED
      BY <2>1, <2>2, <2>3, <2>4 DEF P!Typed, D!TypeOK
  <1>2. ASSUME page = "history" PROVE H!TypeOK
    BY <1>2 DEF PagesInv, TypesInv, HistoryInv, HistoryTyped, H!TypeOK
  <1>3. ASSUME page = "traffic" PROVE T!TypeOK
    <2>1. TrafficTyped /\ lost \in 0 .. MaxLost /\ AtMostOne(CurrentLoads) /\ AtMostOne(chart)
      BY <1>3 DEF PagesInv, TypesInv, TrafficInv
    <2>2. Cardinality(CurrentLoads) <= 1 /\ Cardinality(chart) <= 1
      BY <2>1, OneAtMost
    <2>3. CurrentLoads = {s \in Slots : seriesReq[s] # T!Free /\ seriesReq[s].current}
      BY DEF CurrentLoads, Current
    <2>4. \A set : T!Cardinality(set) = Cardinality(set)
      BY DEF T!Cardinality, Cardinality
    <2> QED
      BY <2>1, <2>2, <2>3, <2>4 DEF TrafficTyped, T!TypeOK
  <1>4. ASSUME page = "log" PROVE S!TypeOK
    BY <1>4 DEF PagesInv, TypesInv, LogInv, LogTyped, S!TypeOK
  <1>5. ASSUME page = "console" PROVE C!TypeOK
    BY <1>5 DEF TypesInv
  <1> QED
    BY <1>1, <1>2, <1>3, <1>4, <1>5 DEF TypeOK

\* Every page keeps its variables in their types: among others, one load of the
\* chart at most is of the current generation and one choice at most is drawn, a
\* load is under way exactly while metricsLoading says so, and the dialog of the
\* scan shows none that was never started (Dashboard.vue, Logs.vue,
\* ServiceDiscovery.vue, Layout.vue).
THEOREM PagesTyped == Spec => []TypeOK
  <1>1. Init => TypesInv
    BY TypesBegin
  <1>2. PagesInv /\ PagesInv' /\ TypesInv /\ [Next]_vars => TypesInv'
    BY TypesKept
  <1>3. PagesInv /\ TypesInv => TypeOK
    BY TypesHold
  <1> QED
    BY <1>1, <1>2, <1>3, PagesHold, PTL DEF Spec

=============================================================================
