-------------------------- MODULE DiscoveryProofs --------------------------
(***************************************************************************)
(* No scan is left behind, for any number of requests under way, of scans  *)
(* and of requests that fail.                                              *)
(*                                                                         *)
(* NoOrphanScan is not inductive.  Closing the dialog cancels the scan it  *)
(* shows only if it takes it for running, so what it takes for ended must  *)
(* have ended (ShowsEnd, AnswersTrue); the answer to a start puts its scan *)
(* in the place of the one shown, which must have ended too, and only one  *)
(* start of this generation may be under way (OneStart).                   *)
(***************************************************************************)
EXTENDS Discovery, TLAPS

Shapes == [what : {"start", "load", "cancel"}, at : {"sent", "ok", "failed"},
           id : Nat, status : {"running", "ended"}, then : BOOLEAN, stale : BOOLEAN]

Typed ==
    /\ mounted \in BOOLEAN /\ visible \in BOOLEAN /\ starting \in BOOLEAN
    /\ scans \in Nat /\ running \subseteq 1 .. scans /\ stopping \subseteq running
    /\ job \in 0 .. scans /\ status \in {"none", "running", "ended"}
    /\ req \in [Names -> {Free} \cup Shapes]

Of(what, s) == req[s] # Free /\ req[s].what = what

\* A start has a scan, one that was made, when it succeeded; before that it has none.
StartsHaveScans ==
    \A s \in Names : Of("start", s) =>
        /\ req[s].status = "running"
        /\ req[s].at = "ok" => req[s].id \in 1 .. scans
        /\ req[s].at # "ok" => req[s].id = 0

\* What the server has said to have ended has ended, and what it was asked to stop
\* is stopping.
AnswersTrue ==
    \A s \in Names :
        /\ req[s] # Free => req[s].id <= scans
        /\ Of("cancel", s) /\ req[s].at = "ok" => req[s].id \notin running \ stopping
        /\ Of("load", s) /\ req[s].at = "ok" /\ req[s].status = "ended" => req[s].id \notin running

\* The dialog takes a scan for ended only if it has.
ShowsEnd == job \in running => status = "running"

\* One start of this generation is under way at most, while starting is set, on
\* a page that is on the screen, and what the dialog shows meanwhile has ended.
Starts(s) == Of("start", s) /\ ~req[s].stale
OneStart ==
    /\ \A s \in Names : Starts(s) => starting /\ mounted /\ job \notin running
    /\ \A s, t \in Names : Starts(s) /\ Starts(t) => s = t

IInv ==
    /\ Typed
    /\ StartsHaveScans
    /\ AnswersTrue
    /\ ShowsEnd
    /\ OneStart
    /\ NoOrphanScan


-----------------------------------------------------------------------------
LEMMA FreeHasNoShape == \A c \in Shapes : c # Free
  BY DEF Shapes, Free

LEMMA RequestHasShape ==
    ASSUME NEW what \in {"start", "load", "cancel"}, NEW id \in Nat, NEW then \in BOOLEAN,
           NEW stale \in BOOLEAN
    PROVE  Request(what, id, then, stale) \in Shapes
  BY DEF Request, Shapes

\* Request t after the generation was counted up: what it was, and stale.
Aged(t) ==
    IF req[t] = Free THEN req'[t] = Free
    ELSE /\ req'[t] \in Shapes /\ req'[t] # Free
         /\ req'[t].what = req[t].what /\ req'[t].at = req[t].at
         /\ req'[t].id = req[t].id /\ req'[t].status = req[t].status
         /\ req'[t].stale

LEMMA StaleIsAged ==
    ASSUME Typed, NEW t \in Names, req'[t] = NextGeneration[t]
    PROVE  Aged(t)
  <1>1. req'[t] = IF req[t] = Free THEN Free ELSE [req[t] EXCEPT !.stale = TRUE]
    BY DEF NextGeneration
  <1>2. CASE req[t] = Free
    BY <1>1, <1>2 DEF Aged
  <1>3. CASE req[t] # Free
    <2>1. req[t] \in Shapes
      BY <1>3 DEF Typed
    <2>2. req'[t] = [req[t] EXCEPT !.stale = TRUE]
      BY <1>1, <1>3
    <2>3. req'[t] \in Shapes
      BY <2>1, <2>2 DEF Shapes
    <2>4. /\ req'[t].what = req[t].what /\ req'[t].at = req[t].at
          /\ req'[t].id = req[t].id /\ req'[t].status = req[t].status
          /\ req'[t].stale
      BY <2>1, <2>2 DEF Shapes
    <2> QED BY <1>3, <2>3, <2>4, FreeHasNoShape DEF Aged
  <1> QED BY <1>2, <1>3

\* What the end of the dialog does to the requests.
LEMMA CancelShownAges ==
    ASSUME Typed, NEW s \in Slots, CancelShown(s)
    PROVE  /\ req' \in [Names -> {Free} \cup Shapes]
           /\ \A t \in Names :
                 \/ Aged(t)
                 \/ req[t] = Free /\ req'[t] = Request("cancel", job, FALSE, TRUE)
           /\ status = "running" => req'[s] = Request("cancel", job, FALSE, TRUE)
  <1> DEFINE cancel == Request("cancel", job, FALSE, TRUE)
  <1>1. cancel \in Shapes
    <2>1. job \in Nat
      BY DEF Typed
    <2> QED BY <2>1, RequestHasShape
  <1>2. DOMAIN NextGeneration = Names /\ s \in Names
    BY DEF NextGeneration, Names
  <1> HIDE DEF cancel
  <1>3. CASE IsRunning
    <2>1. req[s] = Free /\ req' = [NextGeneration EXCEPT ![s] = cancel]
      BY <1>3 DEF CancelShown, cancel
    <2>2. \A t \in Names \ {s} : Aged(t)
      BY <1>2, <2>1, StaleIsAged
    <2>3. req'[s] = cancel /\ req' = [t \in Names |-> req'[t]]
      BY <1>2, <2>1 DEF NextGeneration
    <2> QED BY <1>1, <2>1, <2>2, <2>3 DEF Aged, cancel
  <1>4. CASE ~IsRunning
    <2>1. req' = NextGeneration
      BY <1>4 DEF CancelShown
    <2>2. \A t \in Names : Aged(t)
      BY <2>1, StaleIsAged
    <2>3. req' = [t \in Names |-> req'[t]]
      BY <2>1 DEF NextGeneration
    <2> QED BY <1>4, <2>2, <2>3 DEF Aged, IsRunning
  <1> QED BY <1>3, <1>4

-----------------------------------------------------------------------------
LEMMA ScanEndsKeeps ==
    ASSUME IInv, ScanEnds
    PROVE  IInv'
  <1> USE DEF ScanEnds, Names, dialog, server
  <1>1. Typed'
    BY DEF IInv, Typed, Shapes, Free
  <1>2. StartsHaveScans'
    BY DEF IInv, StartsHaveScans, Typed, Of, Shapes, Free
  <1>3. AnswersTrue'
    BY DEF IInv, AnswersTrue, StartsHaveScans, Typed, Of, Shapes, Free
  <1>4. ShowsEnd'
    BY DEF IInv, ShowsEnd, AnswersTrue, StartsHaveScans, OneStart, Starts, Typed, Of, Shapes, Free
  <1>5. OneStart'
    BY DEF IInv, OneStart, ShowsEnd, Starts, StartsHaveScans, Typed, Of, Shapes, Free
  <1>6. NoOrphanScan'
    BY DEF IInv, NoOrphanScan, Shown, Handled, ShowsEnd, OneStart, Starts, AnswersTrue,
              StartsHaveScans, Typed, Of, Shapes, Free
  <1> QED BY <1>1, <1>2, <1>3, <1>4, <1>5, <1>6 DEF IInv

LEMMA OpenKeeps ==
    ASSUME IInv, Open
    PROVE  IInv'
  <1> USE DEF Open, server
  <1>0. req' \in [Names -> {Free} \cup Shapes] /\ \A t \in Names : Aged(t)
    <2>1. req' = NextGeneration
      OBVIOUS
    <2>2. \A t \in Names : Aged(t)
      BY <2>1, StaleIsAged DEF IInv
    <2>3. req' = [t \in Names |-> req'[t]]
      BY <2>1 DEF NextGeneration
    <2> QED BY <2>2, <2>3 DEF Aged
  <1>1. Typed'
    <2>1. job' \in 0 .. scans'
      BY DEF IInv, Typed
    <2> QED BY <1>0, <2>1 DEF IInv, Typed
  <1>2. StartsHaveScans'
    BY <1>0 DEF IInv, StartsHaveScans, Of, Aged, Free
  <1>3. AnswersTrue'
    BY <1>0 DEF IInv, AnswersTrue, Of, Aged, Free, Typed
  <1>4. ShowsEnd'
    BY DEF IInv, ShowsEnd, Typed
  <1>5. OneStart'
    BY <1>0 DEF IInv, OneStart, Starts, Of, Aged, Free
  <1>6. NoOrphanScan'
    BY <1>0 DEF IInv, NoOrphanScan, Shown, Handled, Aged, Free
  <1> QED BY <1>1, <1>2, <1>3, <1>4, <1>5, <1>6 DEF IInv

LEMMA TickKeeps ==
    ASSUME IInv, Tick
    PROVE  IInv'
  <1> USE DEF Tick, Names, dialog, server, Request, IsRunning
  <1>1. Typed'
    BY DEF IInv, Typed, Shapes, Free
  <1>2. StartsHaveScans'
    BY DEF IInv, StartsHaveScans, Typed, Of, Shapes, Free
  <1>3. AnswersTrue'
    BY DEF IInv, AnswersTrue, StartsHaveScans, Typed, Of, Shapes, Free
  <1>4. ShowsEnd'
    BY DEF IInv, ShowsEnd, AnswersTrue, StartsHaveScans, OneStart, Starts, Typed, Of, Shapes, Free
  <1>5. OneStart'
    BY DEF IInv, OneStart, ShowsEnd, Starts, StartsHaveScans, Typed, Of, Shapes, Free
  <1>6. NoOrphanScan'
    BY DEF IInv, NoOrphanScan, Shown, Handled, ShowsEnd, OneStart, Starts, AnswersTrue,
              StartsHaveScans, Typed, Of, Shapes, Free
  <1> QED BY <1>1, <1>2, <1>3, <1>4, <1>5, <1>6 DEF IInv

LEMMA ServeKeeps ==
    ASSUME IInv, NEW s \in Names, Serve(s)
    PROVE  IInv'
  <1> USE DEF Serve, Names, dialog, server
  <1>1. Typed'
    BY DEF IInv, Typed, Shapes, Free
  <1>2. StartsHaveScans'
    BY DEF IInv, StartsHaveScans, Typed, Of, Shapes, Free
  <1>3. AnswersTrue'
    BY DEF IInv, AnswersTrue, StartsHaveScans, Typed, Of, Shapes, Free
  <1>4. ShowsEnd'
    BY DEF IInv, ShowsEnd, AnswersTrue, StartsHaveScans, OneStart, Starts, Typed, Of, Shapes, Free
  <1>5. OneStart'
    BY DEF IInv, OneStart, ShowsEnd, Starts, StartsHaveScans, Typed, Of, Shapes, Free
  <1>6. NoOrphanScan'
    BY DEF IInv, NoOrphanScan, Shown, Handled, ShowsEnd, OneStart, Starts, AnswersTrue,
              StartsHaveScans, Typed, Of, Shapes, Free
  <1> QED BY <1>1, <1>2, <1>3, <1>4, <1>5, <1>6 DEF IInv

LEMMA StartedKeeps ==
    ASSUME IInv, NEW s \in Names, Started(s)
    PROVE  IInv'
  <1> USE DEF Started, Names, dialog, server, Request, Outdated
  <1>1. Typed'
    <2>1. req' \in [Names -> {Free} \cup Shapes]
      <3>1. CASE req' = [req EXCEPT ![s] = Request("cancel", req[s].id, FALSE, TRUE)]
        <4>1. req[s] \in Shapes
          BY DEF IInv, Typed, Free
        <4>2. req[s].id \in Nat
          BY <4>1 DEF Shapes
        <4>3. Request("cancel", req[s].id, FALSE, TRUE) \in Shapes
          BY <4>2, RequestHasShape
        <4> HIDE DEF Request
        <4> QED BY <3>1, <4>3 DEF IInv, Typed
      <3>2. CASE req' = [req EXCEPT ![s] = Free]
        BY <3>2 DEF IInv, Typed
      <3> QED BY <3>1, <3>2
    <2>2. job' \in 0 .. scans'
      BY DEF IInv, Typed, AnswersTrue, StartsHaveScans, Of, Shapes, Free
    <2>3. status' \in {"none", "running", "ended"}
      BY DEF IInv, Typed, Shapes, Free
    <2>4. mounted' \in BOOLEAN /\ visible' \in BOOLEAN /\ starting' \in BOOLEAN
      BY DEF IInv, Typed
    <2> QED BY <2>1, <2>2, <2>3, <2>4 DEF IInv, Typed
  <1>2. StartsHaveScans'
    BY DEF IInv, StartsHaveScans, Typed, Of, Shapes, Free
  <1>3. AnswersTrue'
    BY DEF IInv, AnswersTrue, StartsHaveScans, Typed, Of, Shapes, Free
  <1>4. ShowsEnd'
    BY DEF IInv, ShowsEnd, AnswersTrue, StartsHaveScans, OneStart, Starts, Typed, Of, Shapes, Free
  <1>5. OneStart'
    BY DEF IInv, OneStart, ShowsEnd, Starts, StartsHaveScans, Typed, Of, Shapes, Free
  <1>6. NoOrphanScan'
    BY DEF IInv, NoOrphanScan, Shown, Handled, ShowsEnd, OneStart, Starts, AnswersTrue,
              StartsHaveScans, Typed, Of, Shapes, Free
  <1> QED BY <1>1, <1>2, <1>3, <1>4, <1>5, <1>6 DEF IInv

LEMMA LoadedKeeps ==
    ASSUME IInv, NEW s \in Names, Loaded(s)
    PROVE  IInv'
  <1> USE DEF Loaded, Names, dialog, server, Outdated
  <1>1. Typed'
    BY DEF IInv, Typed, Shapes, Free
  <1>2. StartsHaveScans'
    BY DEF IInv, StartsHaveScans, Typed, Of, Shapes, Free
  <1>3. AnswersTrue'
    BY DEF IInv, AnswersTrue, StartsHaveScans, Typed, Of, Shapes, Free
  <1>4. ShowsEnd'
    BY DEF IInv, ShowsEnd, AnswersTrue, StartsHaveScans, OneStart, Starts, Typed, Of, Shapes, Free
  <1>5. OneStart'
    BY DEF IInv, OneStart, ShowsEnd, Starts, StartsHaveScans, Typed, Of, Shapes, Free
  <1>6. NoOrphanScan'
    BY DEF IInv, NoOrphanScan, Shown, Handled, ShowsEnd, OneStart, Starts, AnswersTrue,
              StartsHaveScans, Typed, Of, Shapes, Free
  <1> QED BY <1>1, <1>2, <1>3, <1>4, <1>5, <1>6 DEF IInv

LEMMA CancelledKeeps ==
    ASSUME IInv, NEW s \in Names, Cancelled(s)
    PROVE  IInv'
  <1> USE DEF Cancelled, Names, dialog, server, AfterCancel, Request, IsRunning
  <1>1. Typed'
    BY DEF IInv, Typed, Shapes, Free
  <1>2. StartsHaveScans'
    BY DEF IInv, StartsHaveScans, Typed, Of, Shapes, Free
  <1>3. AnswersTrue'
    BY DEF IInv, AnswersTrue, StartsHaveScans, Typed, Of, Shapes, Free
  <1>4. ShowsEnd'
    BY DEF IInv, ShowsEnd, AnswersTrue, StartsHaveScans, OneStart, Starts, Typed, Of, Shapes, Free
  <1>5. OneStart'
    BY DEF IInv, OneStart, ShowsEnd, Starts, StartsHaveScans, Typed, Of, Shapes, Free
  <1>6. NoOrphanScan'
    <2> SUFFICES ASSUME NEW j \in running \ (forgotten \cup stopping) PROVE Shown(j)' \/ Handled(j)'
      BY DEF NoOrphanScan
    <2>1. CASE Shown(j)
      BY <2>1 DEF Shown
    <2>2. CASE Handled(j)
      <3>1. PICK t \in Names : req[t] # Free /\ req[t].what # "load" /\ req[t].id = j
        BY <2>2 DEF Handled
      <3>2. t # s
        BY <3>1 DEF IInv, AnswersTrue, Of
      <3>3. req'[t] = req[t]
        BY <3>2 DEF IInv, Typed
      <3> QED BY <3>1, <3>3 DEF Handled
    <2> QED BY <2>1, <2>2 DEF IInv, NoOrphanScan
  <1> QED BY <1>1, <1>2, <1>3, <1>4, <1>5, <1>6 DEF IInv

LEMMA LostKeeps ==
    ASSUME IInv, NEW s \in Names, Lost(s)
    PROVE  IInv'
  <1> USE DEF Lost, Names, dialog, server, AfterCancel, Request, IsRunning
  <1>1. Typed'
    <2>1. req' \in [Names -> {Free} \cup Shapes]
      <3>1. Request("load", job, FALSE, FALSE) \in Shapes
        <4>1. job \in Nat
          BY DEF IInv, Typed
        <4> QED BY <4>1, RequestHasShape
      <3> HIDE DEF Request
      <3> QED BY <3>1 DEF IInv, Typed
    <2>2. starting' \in BOOLEAN
      BY DEF IInv, Typed
    <2> QED BY <2>1, <2>2 DEF IInv, Typed
  <1>2. StartsHaveScans'
    BY DEF IInv, StartsHaveScans, Typed, Of, Shapes, Free
  <1>3. AnswersTrue'
    BY DEF IInv, AnswersTrue, StartsHaveScans, Typed, Of, Shapes, Free
  <1>4. ShowsEnd'
    BY DEF IInv, ShowsEnd, AnswersTrue, StartsHaveScans, OneStart, Starts, Typed, Of, Shapes, Free
  <1>5. OneStart'
    BY DEF IInv, OneStart, ShowsEnd, Starts, StartsHaveScans, Typed, Of, Shapes, Free
  <1>6. NoOrphanScan'
    BY DEF IInv, NoOrphanScan, Shown, Handled, ShowsEnd, OneStart, Starts, AnswersTrue,
              StartsHaveScans, Typed, Of, Shapes, Free
  <1> QED BY <1>1, <1>2, <1>3, <1>4, <1>5, <1>6 DEF IInv

LEMMA StartKeeps ==
    ASSUME IInv, NEW s \in Slots, Start(s)
    PROVE  IInv'
  <1> USE DEF Start, Names, dialog, server, Request, IsRunning
  <1>1. Typed'
    BY DEF IInv, Typed, Shapes, Free
  <1>2. StartsHaveScans'
    BY DEF IInv, StartsHaveScans, Typed, Of, Shapes, Free
  <1>3. AnswersTrue'
    BY DEF IInv, AnswersTrue, StartsHaveScans, Typed, Of, Shapes, Free
  <1>4. ShowsEnd'
    BY DEF IInv, ShowsEnd, AnswersTrue, StartsHaveScans, OneStart, Starts, Typed, Of, Shapes, Free
  <1>5. OneStart'
    BY DEF IInv, OneStart, ShowsEnd, Starts, StartsHaveScans, Typed, Of, Shapes, Free
  <1>6. NoOrphanScan'
    BY DEF IInv, NoOrphanScan, Shown, Handled, ShowsEnd, OneStart, Starts, AnswersTrue,
              StartsHaveScans, Typed, Of, Shapes, Free
  <1> QED BY <1>1, <1>2, <1>3, <1>4, <1>5, <1>6 DEF IInv

LEMMA CloseKeeps ==
    ASSUME IInv, NEW s \in Slots, Close(s)
    PROVE  IInv'
  <1> USE DEF Close, server
  <1>0. /\ req' \in [Names -> {Free} \cup Shapes]
        /\ \A t \in Names : Aged(t) \/ req'[t] = Request("cancel", job, FALSE, TRUE)
        /\ \A t \in Names : req[t] # Free => Aged(t)
        /\ status = "running" => req'[s] = Request("cancel", job, FALSE, TRUE)
    BY CancelShownAges DEF IInv
  <1>1. Typed'
    BY <1>0 DEF IInv, Typed
  <1>2. StartsHaveScans'
    BY <1>0 DEF IInv, StartsHaveScans, Of, Aged, Free, Request
  <1>3. AnswersTrue'
    BY <1>0 DEF IInv, AnswersTrue, Of, Aged, Free, Typed, Request
  <1>4. ShowsEnd'
    BY DEF IInv, ShowsEnd, Typed
  <1>5. OneStart'
    BY <1>0 DEF IInv, OneStart, Starts, Of, Aged, Free, Request
  <1>6. NoOrphanScan'
    <2> SUFFICES ASSUME NEW j \in running \ (forgotten \cup stopping) PROVE Handled(j)'
      BY DEF NoOrphanScan
    <2>1. CASE Handled(j)
      BY <1>0, <2>1 DEF Handled, Aged, Free
    <2>2. CASE Shown(j)
      <3>1. status = "running" /\ job = j
        BY <2>2 DEF IInv, ShowsEnd, Shown
      <3> QED BY <1>0, <3>1 DEF Handled, Request, Free, Names
    <2> QED BY <2>1, <2>2 DEF IInv, NoOrphanScan
  <1> QED BY <1>1, <1>2, <1>3, <1>4, <1>5, <1>6 DEF IInv

LEMMA LeaveKeeps ==
    ASSUME IInv, NEW s \in Slots, Leave(s)
    PROVE  IInv'
  <1> USE DEF Leave, dialog, server
  <1>0. /\ req' \in [Names -> {Free} \cup Shapes]
        /\ \A t \in Names : Aged(t) \/ req'[t] = Request("cancel", job, FALSE, TRUE)
        /\ \A t \in Names : req[t] # Free => Aged(t)
        /\ status = "running" => req'[s] = Request("cancel", job, FALSE, TRUE)
    BY CancelShownAges DEF IInv
  <1>1. Typed'
    BY <1>0 DEF IInv, Typed
  <1>2. StartsHaveScans'
    BY <1>0 DEF IInv, StartsHaveScans, Of, Aged, Free, Request
  <1>3. AnswersTrue'
    BY <1>0 DEF IInv, AnswersTrue, Of, Aged, Free, Typed, Request
  <1>4. ShowsEnd'
    BY DEF IInv, ShowsEnd, Typed
  <1>5. OneStart'
    BY <1>0 DEF IInv, OneStart, Starts, Of, Aged, Free, Request
  <1>6. NoOrphanScan'
    <2> SUFFICES ASSUME NEW j \in running \ (forgotten \cup stopping) PROVE Handled(j)'
      BY DEF NoOrphanScan
    <2>1. CASE Handled(j)
      BY <1>0, <2>1 DEF Handled, Aged, Free
    <2>2. CASE Shown(j)
      <3>1. status = "running" /\ job = j
        BY <2>2 DEF IInv, ShowsEnd, Shown
      <3> QED BY <1>0, <3>1 DEF Handled, Request, Free, Names
    <2> QED BY <2>1, <2>2 DEF IInv, NoOrphanScan
  <1> QED BY <1>1, <1>2, <1>3, <1>4, <1>5, <1>6 DEF IInv

LEMMA CancelKeeps ==
    ASSUME IInv, NEW s \in Slots, Cancel(s)
    PROVE  IInv'
  <1> USE DEF Cancel, Names, dialog, server, Request, IsRunning
  <1>1. Typed'
    BY DEF IInv, Typed, Shapes, Free
  <1>2. StartsHaveScans'
    BY DEF IInv, StartsHaveScans, Typed, Of, Shapes, Free
  <1>3. AnswersTrue'
    BY DEF IInv, AnswersTrue, StartsHaveScans, Typed, Of, Shapes, Free
  <1>4. ShowsEnd'
    BY DEF IInv, ShowsEnd, AnswersTrue, StartsHaveScans, OneStart, Starts, Typed, Of, Shapes, Free
  <1>5. OneStart'
    BY DEF IInv, OneStart, ShowsEnd, Starts, StartsHaveScans, Typed, Of, Shapes, Free
  <1>6. NoOrphanScan'
    BY DEF IInv, NoOrphanScan, Shown, Handled, ShowsEnd, OneStart, Starts, AnswersTrue,
              StartsHaveScans, Typed, Of, Shapes, Free
  <1> QED BY <1>1, <1>2, <1>3, <1>4, <1>5, <1>6 DEF IInv

-----------------------------------------------------------------------------
LEMMA InitHolds == Init => IInv
  <1> SUFFICES ASSUME Init PROVE IInv
    OBVIOUS
  <1>1. Typed
    <2>1. scans \in Nat /\ job \in 0 .. scans
      BY DEF Init, Begin
    <2>2. running \subseteq 1 .. scans /\ stopping \subseteq running
      BY DEF Init, Begin
    <2>3. req \in [Names -> {Free} \cup Shapes]
      BY DEF Init, Begin
    <2> QED BY <2>1, <2>2, <2>3 DEF Init, Begin, Typed
  <1>2. \A s \in Names : req[s] = Free
    BY DEF Init, Begin
  <1>3. StartsHaveScans /\ AnswersTrue /\ OneStart
    BY <1>2 DEF StartsHaveScans, AnswersTrue, OneStart, Starts, Of
  <1>4. ShowsEnd /\ NoOrphanScan
    BY DEF Init, Begin, ShowsEnd, NoOrphanScan
  <1> QED BY <1>1, <1>3, <1>4 DEF IInv

LEMMA StepKeeps == IInv /\ [Next]_vars => IInv'
  <1> SUFFICES ASSUME IInv, [Next]_vars PROVE IInv'
    OBVIOUS
  <1>1. CASE UNCHANGED vars
    BY <1>1 DEF vars, IInv, Typed, StartsHaveScans, AnswersTrue, ShowsEnd, OneStart, Starts, Of,
                NoOrphanScan, Shown, Handled
  <1>2. CASE ScanEnds \/ Open \/ Tick
    BY <1>2, ScanEndsKeeps, OpenKeeps, TickKeeps
  <1>3. CASE \E s \in Names : Answers(s) \/ Lost(s)
    BY <1>3, ServeKeeps, StartedKeeps, LoadedKeeps, CancelledKeeps, LostKeeps DEF Answers
  <1>4. CASE \E s \in Slots : Start(s) \/ Close(s) \/ Leave(s) \/ Cancel(s)
    BY <1>4, StartKeeps, CloseKeeps, LeaveKeeps, CancelKeeps
  <1> QED BY <1>1, <1>2, <1>3, <1>4 DEF Next

\* Closing the dialog, opening it anew or leaving the page never leaves a scan
\* running that nobody sees, has stopped or is about to cancel, unless a request
\* failed (ServiceDiscovery.vue, the generation and cancelId).
THEOREM NoScanIsLeft == Spec => []NoOrphanScan
<1>1. IInv => NoOrphanScan
  BY DEF IInv
<1> QED BY <1>1, InitHolds, StepKeeps, PTL DEF Spec

=============================================================================
