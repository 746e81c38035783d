-------------------------- MODULE StateStoreProofs --------------------------
(***************************************************************************)
(* Proofs about StateStore, for any number of callers, timer goroutines,   *)
(* keys, updates, failures and restarts.                                   *)
(***************************************************************************)
EXTENDS StateStore, TLAPS

-----------------------------------------------------------------------------
(* The order on versions                                                   *)

\* Upto is reflexive.
LEMMA UptoReflexive == ASSUME NEW a \in Versions PROVE Upto(a, a)
BY DEF Upto, Versions

\* Upto is transitive.
LEMMA UptoTransitive ==
    ASSUME NEW a \in Versions, NEW b \in Versions, NEW c \in Versions,
           Upto(a, b), Upto(b, c)
    PROVE  Upto(a, c)
<1> SUFFICES ASSUME NEW k \in Keys PROVE a[k] <= c[k]
  BY DEF Upto
<1>1. a[k] \in Nat /\ b[k] \in Nat /\ c[k] \in Nat
  BY DEF Versions
<1>2. a[k] <= b[k] /\ b[k] <= c[k]
  BY DEF Upto
<1> QED BY <1>1, <1>2

\* Join is the least upper bound of two versions.
LEMMA JoinBound ==
    ASSUME NEW a \in Versions, NEW b \in Versions
    PROVE  /\ Join(a, b) \in Versions
           /\ Upto(a, Join(a, b))
           /\ \A c \in Versions : Upto(a, c) /\ Upto(b, c) => Upto(Join(a, b), c)
BY DEF Upto, Versions, Join

\* Meet is a lower bound of two versions.
LEMMA MeetBound ==
    ASSUME NEW a \in Versions, NEW b \in Versions
    PROVE  Meet(a, b) \in Versions /\ Upto(Meet(a, b), b)
BY DEF Upto, Versions, Meet

\* A write keeps the type of a state and moves its versions forward.
LEMMA WrittenForward ==
    ASSUME NEW s \in States, NEW K \in SUBSET Keys, NEW value \in BOOLEAN
    PROVE  Written(s, K, value) \in States /\ Upto(s.ver, Written(s, K, value).ver)
BY DEF Written, States, Versions, Upto

\* The empty state is a state below every other.
LEMMA EmptyState ==
    /\ Empty \in States /\ NoVer \in Versions /\ Empty.ver = NoVer
    /\ \A v \in Versions : Upto(NoVer, v)
BY DEF Empty, States, Versions, NoVer, Upto

\* The two components of a state.
LEMMA StateParts ==
    ASSUME NEW s \in States PROVE s.ver \in Versions /\ s.has \in SUBSET Keys
BY DEF States

-----------------------------------------------------------------------------
(* The inductive invariant                                                 *)

\* A store that has just been created satisfies the invariant.
LEMMA InvInit == Init => IInv
<1> SUFFICES ASSUME Init PROVE IInv
  OBVIOUS
<1> USE ProcsAssumption, BudgetAssumption, EmptyState DEF Init
<1>1. TypeOK
  BY DEF TypeOK, Procs
<1>2. Mutex /\ Snapshot /\ InTmp /\ InFile
  BY DEF Mutex, Snapshot, InTmp, InFile, Holding
<1>3. FileOrder /\ Wanted
  BY DEF FileOrder, Wanted, Holding, Procs
<1>4. Synced /\ CleanMeansSaved /\ AckedIsSaved
  BY DEF Synced, CleanMeansSaved, AckedIsSaved
<1> QED BY <1>1, <1>2, <1>3, <1>4 DEF IInv



\* What the orders above are applied to are versions.
LEMMA Typed ==
    ASSUME TypeOK
    PROVE  /\ state.ver \in Versions /\ view.ver \in Versions /\ durable.ver \in Versions
           /\ acked \in Versions
           /\ \A c \in Callers : want[c] \in Versions
           /\ \A p \in Procs : snap[p] \in States /\ snap[p].ver \in Versions
BY StateParts DEF TypeOK


\* What the operations of a caller have in common: memory stays, or moves
\* forward with dirty set and gen counted; a caller that goes on to Flush wants
\* what is then in memory.
CallerChange(c) ==
    /\ pc[c] = "idle"
    /\ state' \in States /\ Upto(state.ver, state'.ver)
    /\ dirty' \in BOOLEAN /\ gen' \in Nat
    /\ \/ state' = state /\ dirty' = dirty /\ gen' = gen
       \/ dirty' = TRUE /\ gen' = gen + 1
    /\ timer' \in {"none", "armed", "fired"} /\ closed' \in BOOLEAN
    /\ left' \in [Bounded -> Nat]
    /\ \/ pc' = pc /\ want' = want
       \/ Calls(c, state'.ver)
    /\ UNCHANGED <<flushMu, locals, files, acked, cut>>

\* Every operation of a caller is such a change.
LEMMA CallerChanges ==
    ASSUME TypeOK, NEW c \in Callers, CallerStep(c)
    PROVE  CallerChange(c)
<1> USE Typed, UptoReflexive DEF TypeOK
<1>1. CASE \E k \in Keys, value \in BOOLEAN : Update(c, k, value)
  BY <1>1, WrittenForward, BudgetAssumption DEF Update, CallerChange, Spend, Armed, Bounded
<1>2. CASE Flush(c)
  BY <1>2 DEF Flush, CallerChange, store
<1>3. CASE \E legacy \in (SUBSET Keys) \ {{}} : Seed(c, legacy)
  <2>1. PICK legacy \in (SUBSET Keys) \ {{}} : Seed(c, legacy)
    BY <1>3
  <2> DEFINE filled == legacy \ state.has
  <2>2. state' = Written(state, filled, TRUE) /\ filled \in SUBSET Keys
    BY <2>1 DEF Seed
  <2>3. filled = {} => Written(state, filled, TRUE) = state
    BY DEF Written, States, Versions
  <2>4. \/ filled = {} /\ dirty' = dirty /\ gen' = gen
        \/ filled # {} /\ dirty' = TRUE /\ gen' = gen + 1
    BY <2>1, Zenon DEF Seed
  <2>5. state' \in States /\ Upto(state.ver, state'.ver)
    BY <2>2, WrittenForward
  <2>6. left' \in [Bounded -> Nat]
    BY <2>1, BudgetAssumption DEF Seed, Spend, Bounded
  <2>7. /\ pc[c] = "idle" /\ Calls(c, state'.ver)
        /\ UNCHANGED <<timer, closed, flushMu, locals, files, acked, cut>>
    BY <2>1 DEF Seed
  <2> HIDE DEF filled
  <2>8. dirty' \in BOOLEAN /\ gen' \in Nat
    <3>1. CASE filled = {} /\ dirty' = dirty /\ gen' = gen
      BY <3>1, Zenon
    <3>2. CASE filled # {} /\ dirty' = TRUE /\ gen' = gen + 1
      BY <3>2
    <3> QED BY <2>4, <3>1, <3>2
  <2> QED BY <2>2, <2>3, <2>4, <2>5, <2>6, <2>7, <2>8, Zenon DEF CallerChange
<1>4. CASE Close(c)
  BY <1>4 DEF Close, CallerChange
<1> QED BY <1>1, <1>2, <1>3, <1>4 DEF CallerStep

\* The operations of the callers preserve the invariant.
LEMMA CallerInv ==
    ASSUME IInv, NEW c \in Callers, CallerStep(c)
    PROVE  IInv'
<1> USE Typed, UptoReflexive, UptoTransitive DEF IInv
<1>1. CallerChange(c) /\ state'.ver \in Versions
  BY CallerChanges, StateParts DEF CallerChange
<1> USE <1>1 DEF CallerChange, Calls, locals, files
<1>2. TypeOK'
  <2>1. /\ pc' \in [Procs -> {"idle", "flush", "write", "rename", "dirsync", "finish",
                             "expired", "rearm"}]
        /\ want' \in [Callers -> Versions]
    BY DEF TypeOK, Procs
  <2> QED BY <2>1 DEF TypeOK
<1>3. Mutex' /\ InTmp' /\ InFile'
  BY DEF TypeOK, Mutex, InTmp, InFile, Holding
<1>4. Snapshot'
  BY DEF TypeOK, Snapshot, Holding
<1>5. FileOrder'
  BY DEF TypeOK, FileOrder, Holding
<1>6. Wanted'
  BY DEF TypeOK, Wanted, Holding, Procs
<1>7. Synced' /\ CleanMeansSaved' /\ AckedIsSaved'
  BY DEF TypeOK, Synced, CleanMeansSaved, AckedIsSaved
<1> QED BY <1>2, <1>3, <1>4, <1>5, <1>6, <1>7

\* The timer and flushAsync only touch the timer and their own pc.
LEMMA TimerInv ==
    ASSUME IInv, NEW f \in Flushers, TimerStep(f)
    PROVE  IInv'
<1> USE ProcsAssumption DEF IInv
<1>1. /\ timer' \in {"none", "armed", "fired"}
      /\ \E to \in {"expired", "flush", "idle"} : pc' = [pc EXCEPT ![f] = to]
      /\ UNCHANGED <<state, dirty, gen, closed, flushMu, snap, sgen, tmp, view, durable,
                     want, acked, cut, left>>
      /\ pc[f] \in {"idle", "expired", "rearm"}
  BY DEF TimerStep, TimerExpires, AsyncClear, AsyncRearm, Armed, locals, files, TypeOK
<1>2. TypeOK'
  BY <1>1 DEF TypeOK, Procs
<1>3. Mutex' /\ Snapshot' /\ InTmp' /\ InFile' /\ FileOrder'
  BY <1>1 DEF TypeOK, Mutex, Snapshot, InTmp, InFile, FileOrder, Holding
<1>4. Wanted'
  BY <1>1 DEF TypeOK, Wanted, Holding
<1>5. Synced' /\ CleanMeansSaved' /\ AckedIsSaved'
  BY <1>1 DEF TypeOK, Synced, CleanMeansSaved, AckedIsSaved
<1> QED BY <1>2, <1>3, <1>4, <1>5

\* Flush finds nothing to do: memory is in the file, so what its caller wants
\* is saved already.
LEMMA FlushCleanInv ==
    ASSUME IInv, NEW p \in Procs, FlushClean(p)
    PROVE  IInv'
<1> USE Typed, EmptyState, UptoTransitive DEF IInv, FlushClean, Returns, Forget, store, files
<1>1. /\ acked' \in Versions /\ Upto(acked', view.ver)
      /\ ~cut => Upto(acked', durable.ver)
  <2>1. CASE p \in Callers
    <3>1. Upto(acked, view.ver) /\ Upto(want[p], view.ver)
      BY <2>1 DEF AckedIsSaved, Wanted, CleanMeansSaved
    <3>2. ~cut => durable = view
      BY DEF Synced, Snapshot, Holding
    <3> QED BY <2>1, <3>1, <3>2, JoinBound
  <2>2. CASE p \notin Callers
    BY <2>2 DEF AckedIsSaved
  <2> QED BY <2>1, <2>2
<1>2. want' \in [Callers -> Versions] /\ \A c \in Callers : want'[c] \in {want[c], NoVer}
  OBVIOUS
<1>3. TypeOK'
  BY <1>1, <1>2 DEF TypeOK
<1>4. Mutex' /\ Snapshot' /\ InTmp' /\ InFile' /\ FileOrder'
  BY DEF TypeOK, Mutex, Snapshot, InTmp, InFile, FileOrder, Holding
<1>5. Wanted'
  BY <1>2 DEF TypeOK, Wanted, Holding, Procs
<1>6. Synced' /\ CleanMeansSaved' /\ AckedIsSaved'
  BY <1>1 DEF TypeOK, Synced, CleanMeansSaved, AckedIsSaved
<1> QED BY <1>3, <1>4, <1>5, <1>6

\* Flush takes flushMu and its snapshot.
LEMMA FlushSnapshotInv ==
    ASSUME IInv, NEW p \in Procs, FlushSnapshot(p)
    PROVE  IInv'
<1> USE ProcsAssumption, Typed, UptoReflexive DEF IInv, FlushSnapshot, store, files
<1>1. TypeOK'
  BY DEF TypeOK
<1>2. Mutex' /\ Snapshot' /\ InTmp' /\ InFile' /\ FileOrder'
  BY DEF TypeOK, Mutex, Snapshot, InTmp, InFile, FileOrder, Holding
<1>3. Wanted'
  BY DEF TypeOK, Wanted, Holding, Procs
<1>4. Synced' /\ CleanMeansSaved' /\ AckedIsSaved'
  BY DEF TypeOK, Synced, CleanMeansSaved, AckedIsSaved
<1> QED BY <1>1, <1>2, <1>3, <1>4

\* The temporary file is written from the snapshot.
LEMMA WriteTmpInv ==
    ASSUME IInv, NEW p \in Procs, WriteTmp(p)
    PROVE  IInv'
<1> USE ProcsAssumption, Typed DEF IInv, WriteTmp, store, locals
<1>1. TypeOK'
  BY DEF TypeOK
<1>2. Mutex' /\ Snapshot' /\ InTmp' /\ InFile' /\ FileOrder'
  BY DEF TypeOK, Mutex, Snapshot, InTmp, InFile, FileOrder, Holding
<1>3. Wanted'
  BY DEF TypeOK, Wanted, Holding, Procs
<1>4. Synced' /\ CleanMeansSaved' /\ AckedIsSaved'
  BY DEF TypeOK, Synced, CleanMeansSaved, AckedIsSaved
<1> QED BY <1>1, <1>2, <1>3, <1>4

\* A failing write or rename leaves memory dirty and the file alone.
LEMMA WriteFailsInv ==
    ASSUME IInv, NEW p \in Procs, WriteFails(p)
    PROVE  IInv'
<1> USE ProcsAssumption, Typed, EmptyState, BudgetAssumption
    DEF IInv, WriteFails, Fails, Forget, store, Spend, Bounded
<1>1. want' \in [Callers -> Versions] /\ \A c \in Callers : want'[c] \in {want[c], NoVer}
  OBVIOUS
<1>2. TypeOK'
  BY <1>1 DEF TypeOK
<1>3. Mutex' /\ Snapshot' /\ InTmp' /\ InFile' /\ FileOrder'
  BY DEF TypeOK, Mutex, Snapshot, InTmp, InFile, FileOrder, Holding
<1>4. Wanted'
  BY <1>1 DEF TypeOK, Wanted, Holding, Procs
<1>5. Synced' /\ CleanMeansSaved' /\ AckedIsSaved'
  BY DEF TypeOK, Synced, CleanMeansSaved, AckedIsSaved
<1> QED BY <1>2, <1>3, <1>4, <1>5

\* The rename puts the snapshot in the place of an older file.
LEMMA RenameInv ==
    ASSUME IInv, NEW p \in Procs, Rename(p)
    PROVE  IInv'
<1> USE ProcsAssumption, Typed, UptoReflexive, UptoTransitive DEF IInv, Rename, store, locals
<1>1. /\ view' = snap[p] /\ view'.ver \in Versions /\ dirty
      /\ Upto(view.ver, view'.ver) /\ Upto(view'.ver, state.ver)
  BY DEF InTmp, FileOrder, Snapshot, Holding
<1>2. TypeOK'
  BY <1>1 DEF TypeOK
<1>3. Mutex' /\ Snapshot' /\ InTmp' /\ InFile'
  BY <1>1 DEF TypeOK, Mutex, Snapshot, InTmp, InFile, Holding
<1>4. FileOrder'
  BY <1>1 DEF TypeOK, FileOrder, Mutex, Holding
<1>5. Wanted'
  BY DEF TypeOK, Wanted, Holding, Procs
<1>6. Synced' /\ CleanMeansSaved'
  BY <1>1 DEF TypeOK, Synced, CleanMeansSaved
<1>7. AckedIsSaved'
  BY <1>1 DEF AckedIsSaved
<1> QED BY <1>2, <1>3, <1>4, <1>5, <1>6, <1>7

\* The directory sync, and the one that fails unnoticed.
LEMMA DirSyncInv ==
    ASSUME IInv, NEW p \in Procs, DirSync(p) \/ DirSyncFails(p)
    PROVE  IInv'
<1> USE ProcsAssumption, Typed, UptoReflexive, BudgetAssumption
    DEF IInv, DirSync, DirSyncFails, store, locals, files, Spend, Bounded
<1>1. TypeOK'
  <2>1. CASE DirSync(p)
    BY <2>1 DEF TypeOK
  <2>2. CASE DirSyncFails(p)
    BY <2>2 DEF TypeOK
  <2> QED BY <2>1, <2>2
<1>2. Mutex' /\ Snapshot' /\ InTmp' /\ InFile'
  BY DEF TypeOK, Mutex, Snapshot, InTmp, InFile, Holding
<1>3. FileOrder'
  BY DEF TypeOK, FileOrder, Holding
<1>4. Wanted'
  BY DEF TypeOK, Wanted, Holding, Procs
<1>5. Synced' /\ CleanMeansSaved'
  BY DEF TypeOK, Synced, CleanMeansSaved, Mutex, Holding
<1>6. AckedIsSaved'
  BY DEF AckedIsSaved
<1> QED BY <1>1, <1>2, <1>3, <1>4, <1>5, <1>6

\* Flush returns nil: the snapshot is the file, and holds what its caller
\* wants; dirty stays if memory has moved on.
LEMMA FlushFinishInv ==
    ASSUME IInv, NEW p \in Procs, FlushFinish(p)
    PROVE  IInv'
<1> USE ProcsAssumption, Typed, EmptyState, UptoTransitive
    DEF IInv, FlushFinish, Returns, Forget, files
<1>1. /\ view = snap[p] /\ dirty /\ sgen[p] <= gen /\ (sgen[p] = gen => view = state)
      /\ ~cut => durable = view
  <2>1. ~cut => \A q \in Procs : pc[q] # "dirsync"
    BY DEF Mutex, Holding
  <2> QED BY <2>1 DEF InFile, Snapshot, Synced, Holding
<1>2. /\ acked' \in Versions /\ Upto(acked', view.ver)
      /\ ~cut => Upto(acked', durable.ver)
  <2>1. CASE p \in Callers
    <3>1. Upto(acked, view.ver) /\ Upto(want[p], view.ver)
      BY <1>1, <2>1 DEF AckedIsSaved, Wanted, Holding
    <3> QED BY <1>1, <2>1, <3>1, JoinBound
  <2>2. CASE p \notin Callers
    BY <2>2 DEF AckedIsSaved
  <2> QED BY <2>1, <2>2
<1>3. want' \in [Callers -> Versions] /\ \A c \in Callers : want'[c] \in {want[c], NoVer}
  OBVIOUS
<1>4. dirty' \in BOOLEAN /\ (~dirty' => view = state)
  BY <1>1 DEF TypeOK
<1>5. TypeOK'
  BY <1>2, <1>3, <1>4 DEF TypeOK
<1>6. Mutex' /\ InTmp' /\ InFile' /\ FileOrder'
  BY DEF TypeOK, Mutex, InTmp, InFile, FileOrder, Holding
<1>7. Snapshot'
  BY DEF TypeOK, Snapshot, Mutex, Holding
<1>8. Wanted'
  BY <1>3 DEF TypeOK, Wanted, Holding, Procs
<1>9. Synced' /\ CleanMeansSaved' /\ AckedIsSaved'
  BY <1>1, <1>2, <1>4 DEF TypeOK, Synced, CleanMeansSaved, AckedIsSaved
<1> QED BY <1>5, <1>6, <1>7, <1>8, <1>9

\* A restart finds what is in the file, or what a power failure left of it.
LEMMA RestartInv ==
    ASSUME IInv, Restart
    PROVE  IInv'
<1> USE ProcsAssumption, BudgetAssumption, Typed, EmptyState
<1>1. PICK d \in {durable, view} :
        /\ Loaded(d) /\ view' \in {d, view} /\ state' = view'
        /\ durable' \in {d, durable} /\ tmp' = tmp
        /\ Upto(durable'.ver, view'.ver)
        /\ acked' \in Versions /\ Upto(acked', view'.ver)
        /\ cut' \in BOOLEAN
        /\ ~cut' => durable' = view' /\ Upto(acked', durable'.ver)
        /\ left' \in [Bounded -> Nat]
  <2>1. CASE ProcessDies
    <3>1. /\ Upto(durable.ver, view.ver) /\ Upto(acked, view.ver) /\ acked \in Versions
          /\ cut' \in BOOLEAN /\ (~cut' => durable = view)
      BY <2>1 DEF ProcessDies, IInv, TypeOK, FileOrder, AckedIsSaved
    <3> QED BY <2>1, <3>1 DEF ProcessDies, Loaded, Spend, files, IInv, TypeOK, Bounded
  <2>2. CASE \E d \in {durable, view} : PowerFails(d)
    <3>1. PICK d \in {durable, view} : PowerFails(d)
      BY <2>2
    <3>2. acked' \in Versions /\ Upto(acked', d.ver)
      BY <3>1, MeetBound DEF PowerFails, IInv, TypeOK, AckedIsSaved
    <3>3. Upto(d.ver, d.ver)
      BY UptoReflexive DEF IInv
    <3> QED BY <3>1, <3>2, <3>3 DEF PowerFails, Loaded, Spend, IInv, TypeOK, Bounded
  <2> QED BY <2>1, <2>2 DEF Restart
<1> USE <1>1 DEF Loaded
<1>2. TypeOK'
  BY DEF IInv, TypeOK
<1>3. Mutex' /\ Snapshot' /\ InTmp' /\ InFile'
  BY DEF Mutex, Snapshot, InTmp, InFile, Holding
<1>4. FileOrder'
  BY UptoReflexive DEF IInv, FileOrder, Holding
<1>5. Wanted'
  BY DEF IInv, Wanted, Holding, Procs
<1>6. Synced' /\ CleanMeansSaved' /\ AckedIsSaved'
  BY DEF Synced, CleanMeansSaved, AckedIsSaved
<1> QED BY <1>2, <1>3, <1>4, <1>5, <1>6 DEF IInv

\* Every step preserves the invariant.
LEMMA InvStep == IInv /\ [Next]_vars => IInv'
<1> SUFFICES ASSUME IInv, [Next]_vars PROVE IInv'
  OBVIOUS
<1>1. CASE \E c \in Callers : CallerStep(c)
  BY <1>1, CallerInv
<1>2. CASE \E f \in Flushers : TimerStep(f)
  BY <1>2, TimerInv
<1>3. CASE \E p \in Procs : LockStep(p)
  BY <1>3, FlushCleanInv, FlushSnapshotInv DEF LockStep
<1>4. CASE \E p \in Procs : FileStep(p)
  BY <1>4, WriteTmpInv, WriteFailsInv, RenameInv, DirSyncInv, FlushFinishInv DEF FileStep
<1>5. CASE Restart
  BY <1>5, RestartInv
<1>6. CASE UNCHANGED vars
  BY <1>6 DEF vars, store, locals, files, IInv, TypeOK, Mutex, Snapshot, FileOrder, InTmp, InFile,
              Wanted, Synced, CleanMeansSaved, AckedIsSaved
<1> QED BY <1>1, <1>2, <1>3, <1>4, <1>5, <1>6 DEF Next

\* The invariant holds in every reachable state.
LEMMA Invariant == Spec => []IInv
BY InvInit, InvStep, PTL DEF Spec

-----------------------------------------------------------------------------
(* The properties of the store                                             *)

\* Memory, the files and the locals of every Flush keep their types; that the
\* temporary file exists when it is renamed is part of it.
THEOREM TypeCorrect == Spec => []TypeOK
<1>1. IInv => TypeOK
  BY DEF IInv
<1> QED BY <1>1, Invariant, PTL

\* Whatever Flush, seed or Close has acknowledged is in state.json, and on the
\* platter unless a directory sync was missed.
THEOREM AcknowledgedIsSaved == Spec => []AckedIsSaved
<1>1. IInv => AckedIsSaved
  BY DEF IInv
<1> QED BY <1>1, Invariant, PTL

\* A clean store has nothing to write.
THEOREM CleanIsSaved == Spec => []CleanMeansSaved
<1>1. IInv => CleanMeansSaved
  BY DEF IInv
<1> QED BY <1>1, Invariant, PTL

\* The only step that replaces what is on the platter takes what is in the
\* file, and the file is never behind the platter.
THEOREM PlatterMovesForward == Spec => NeverGoesBack
<1>1. IInv /\ [Next]_vars => [Upto(durable.ver, durable'.ver)]_vars
  <2> SUFFICES ASSUME IInv, Next PROVE Upto(durable.ver, durable'.ver)
    OBVIOUS
  <2>1. Upto(durable.ver, durable.ver) /\ Upto(durable.ver, view.ver)
    BY Typed, UptoReflexive DEF IInv, FileOrder
  <2>2. durable' \in {durable, view}
    <3>1. CASE \E c \in Callers : CallerStep(c)
      BY <3>1 DEF CallerStep, Update, Flush, Seed, Close, files
    <3>2. CASE \E f \in Flushers : TimerStep(f)
      BY <3>2 DEF TimerStep, TimerExpires, AsyncClear, AsyncRearm, files
    <3>3. CASE \E p \in Procs : LockStep(p)
      BY <3>3 DEF LockStep, FlushClean, FlushSnapshot, files
    <3>4. CASE \E p \in Procs : FileStep(p)
      BY <3>4 DEF FileStep, WriteTmp, WriteFails, Rename, DirSync, DirSyncFails, FlushFinish, files
    <3>5. CASE Restart
      BY <3>5 DEF Restart, ProcessDies, PowerFails, files
    <3> QED BY <3>1, <3>2, <3>3, <3>4, <3>5 DEF Next
  <2> QED BY <2>1, <2>2
<1> QED BY <1>1, Invariant, PTL DEF Spec, NeverGoesBack

-----------------------------------------------------------------------------
(* No update is forgotten                                                  *)

\* When memory has moved on since the snapshot of the writer under way, the
\* update that moved it has armed the timer, and somebody else will flush.
OvertakenIsScheduled ==
    \A p \in Procs : pc[p] \in Holding /\ gen # sgen[p] /\ ~closed =>
        \/ timer # "none"
        \/ \E f \in Flushers : pc[f] \in {"expired", "flush"}

NoSeed == left["seed"] = 0

LEMMA ScheduledStep ==
    IInv /\ NoSeed /\ DirtyIsScheduled /\ OvertakenIsScheduled /\ [Next]_vars
        => NoSeed' /\ DirtyIsScheduled' /\ OvertakenIsScheduled'
<1> SUFFICES ASSUME IInv, NoSeed, DirtyIsScheduled, OvertakenIsScheduled, [Next]_vars
             PROVE  NoSeed' /\ DirtyIsScheduled' /\ OvertakenIsScheduled'
  OBVIOUS
<1> USE ProcsAssumption DEF NoSeed, DirtyIsScheduled, OvertakenIsScheduled, Holding, Procs
<1>1. ASSUME NEW c \in Callers, CallerStep(c)
      PROVE  NoSeed' /\ DirtyIsScheduled' /\ OvertakenIsScheduled'
  <2>1. CASE \E k \in Keys, value \in BOOLEAN : Update(c, k, value)
    BY <2>1 DEF Update, Spend, Armed, locals, IInv, TypeOK, Bounded
  <2>2. CASE Flush(c)
    BY <2>2 DEF Flush, Calls, store, locals, IInv, TypeOK
  <2>3. CASE \E legacy \in (SUBSET Keys) \ {{}} : Seed(c, legacy)
    BY <2>3 DEF Seed, Spend
  <2>4. CASE Close(c)
    BY <2>4 DEF Close, locals
  <2> QED BY <1>1, <2>1, <2>2, <2>3, <2>4 DEF CallerStep
<1>2. ASSUME NEW f \in Flushers, TimerStep(f)
      PROVE  NoSeed' /\ DirtyIsScheduled' /\ OvertakenIsScheduled'
  <2>1. CASE TimerExpires(f)
    BY <2>1 DEF TimerExpires, locals, IInv, TypeOK
  <2>2. CASE AsyncClear(f)
    BY <2>2 DEF AsyncClear, locals, IInv, TypeOK
  <2>3. CASE AsyncRearm(f)
    BY <2>3 DEF AsyncRearm, Armed, locals, IInv, TypeOK, Snapshot
  <2> QED BY <1>2, <2>1, <2>2, <2>3 DEF TimerStep
<1>3. ASSUME NEW p \in Procs, LockStep(p)
      PROVE  NoSeed' /\ DirtyIsScheduled' /\ OvertakenIsScheduled'
  <2>1. CASE FlushClean(p)
    BY <2>1 DEF FlushClean, Returns, Forget, store, IInv, TypeOK, Snapshot
  <2>2. CASE FlushSnapshot(p)
    BY <2>2 DEF FlushSnapshot, store, IInv, TypeOK, Mutex
  <2> QED BY <1>3, <2>1, <2>2 DEF LockStep
<1>4. ASSUME NEW p \in Procs, FileStep(p)
      PROVE  NoSeed' /\ DirtyIsScheduled' /\ OvertakenIsScheduled'
  <2>1. CASE WriteTmp(p) \/ Rename(p) \/ DirSync(p)
    BY <2>1 DEF WriteTmp, Rename, DirSync, store, locals, IInv, TypeOK
  <2>2. CASE DirSyncFails(p)
    BY <2>2 DEF DirSyncFails, Spend, store, locals, IInv, TypeOK, Bounded
  <2>3. CASE WriteFails(p)
    BY <2>3 DEF WriteFails, Fails, Forget, Spend, store, IInv, TypeOK, Bounded, Mutex
  <2>4. CASE FlushFinish(p)
    BY <2>4 DEF FlushFinish, Returns, Forget, IInv, TypeOK, Mutex
  <2> QED BY <1>4, <2>1, <2>2, <2>3, <2>4 DEF FileStep
<1>5. CASE Restart
  BY <1>5 DEF Restart, ProcessDies, PowerFails, Loaded, Spend, IInv, TypeOK, Bounded
<1>6. CASE UNCHANGED vars
  BY <1>6 DEF vars, store, locals
<1> QED BY <1>1, <1>2, <1>3, <1>4, <1>5, <1>6 DEF Next

\* As long as no legacy counters are seeded, no update is left without a timer
\* or a flush on its way, however many flushes overlap and fail.
THEOREM UnsavedIsScheduled ==
    ASSUME Budget["seed"] = 0
    PROVE  Spec => []DirtyIsScheduled
<1>1. Init => NoSeed /\ DirtyIsScheduled /\ OvertakenIsScheduled
  BY DEF Init, NoSeed, DirtyIsScheduled, OvertakenIsScheduled, Holding
<1> QED BY <1>1, ScheduledStep, Invariant, PTL DEF Spec

-----------------------------------------------------------------------------
(* The store implements DurableMap                                         *)

\* What the abstract map calls versions and their order is what the store does.
LEMMA SameOrder ==
    /\ Promised!Versions = Versions
    /\ \A a, b : Promised!Upto(a, b) <=> Upto(a, b)
    /\ \A a, b : Promised!Meet(a, b) = Meet(a, b)
    /\ Promised!Zero = NoVer
BY DEF Promised!Versions, Versions, Promised!Upto, Upto, Promised!Meet, Meet, Promised!Zero, NoVer

\* Every step of the store is a step of DurableMap, or none.
LEMMA StepImplements == IInv /\ [Next]_vars => [Promised!Next]_(Promised!vars)
<1> SUFFICES ASSUME IInv, [Next]_vars PROVE Promised!Next \/ UNCHANGED Promised!vars
  OBVIOUS
<1> USE DEF Promised!vars, Promised!Next
<1>1. ASSUME NEW c \in Callers, CallerStep(c)
      PROVE  Promised!Next \/ UNCHANGED Promised!vars
  <2>1. ASSUME NEW K \in SUBSET Keys, NEW value \in BOOLEAN, state' = Written(state, K, value),
               UNCHANGED <<files, acked, cut>>
        PROVE  Promised!Put(K)
    BY <2>1 DEF Promised!Put, Written, files
  <2>2. CASE \E k \in Keys, value \in BOOLEAN : Update(c, k, value)
    BY <2>1, <2>2 DEF Update
  <2>3. CASE \E legacy \in (SUBSET Keys) \ {{}} : Seed(c, legacy)
    BY <2>1, <2>3 DEF Seed
  <2>4. CASE Flush(c) \/ Close(c)
    BY <2>4 DEF Flush, Close, store, files
  <2> QED BY <1>1, <2>2, <2>3, <2>4 DEF CallerStep
<1>2. CASE \E f \in Flushers : TimerStep(f)
  BY <1>2 DEF TimerStep, TimerExpires, AsyncClear, AsyncRearm, files
<1>3. ASSUME NEW p \in Procs, FlushClean(p) \/ FlushFinish(p)
      PROVE  Promised!Acknowledge
  <2>1. acked' \in Versions /\ Upto(acked, acked') /\ Upto(acked', view.ver)
    <3>1. IInv'
      BY InvStep
    <3>2. view' = view
      BY <1>3 DEF FlushClean, FlushFinish, files
    <3>3. acked' \in Versions /\ Upto(acked', view.ver)
      BY <3>1, <3>2 DEF IInv, TypeOK, AckedIsSaved
    <3>4. Upto(acked, acked')
      BY <1>3, Typed, UptoReflexive, JoinBound DEF FlushClean, FlushFinish, Returns, IInv
    <3> QED BY <3>3, <3>4
  <2> QED BY <1>3, <2>1, SameOrder DEF Promised!Acknowledge, FlushClean, FlushFinish, store, files
<1>4. ASSUME NEW p \in Procs, Rename(p)
      PROVE  Promised!Save
  <2>1. view' = snap[p] /\ snap[p].ver \in Versions
    BY <1>4, Typed DEF Rename, IInv, InTmp
  <2>2. Upto(view.ver, snap[p].ver) /\ Upto(snap[p].ver, state.ver)
    BY <1>4 DEF Rename, IInv, FileOrder, Snapshot, Holding
  <2> QED BY <1>4, <2>1, <2>2, SameOrder DEF Promised!Save, Rename, store
<1>5. ASSUME NEW p \in Procs, DirSyncFails(p)
      PROVE  Promised!Weaken
  BY <1>5 DEF Promised!Weaken, DirSyncFails, store, files
<1>6. ASSUME NEW p \in Procs, FlushSnapshot(p) \/ WriteTmp(p) \/ WriteFails(p) \/ DirSync(p)
      PROVE  UNCHANGED Promised!vars
  BY <1>6 DEF FlushSnapshot, WriteTmp, WriteFails, DirSync, store, files
<1>7. CASE ProcessDies
  BY <1>7 DEF ProcessDies, Loaded, files, Promised!Restart, IInv, TypeOK
<1>8. ASSUME NEW d \in {durable, view}, PowerFails(d)
      PROVE  Promised!PowerFailure
  <2>1. d.ver \in Versions /\ Upto(d.ver, view.ver)
    BY Typed, UptoReflexive DEF IInv, FileOrder
  <2>2. ~cut => Upto(acked, d.ver)
    BY DEF IInv, AckedIsSaved
  <2> QED BY <1>8, <2>1, <2>2, SameOrder DEF PowerFails, Loaded, Promised!PowerFailure
<1>9. CASE UNCHANGED vars
  BY <1>9 DEF vars, store, files
<1> QED BY <1>1, <1>2, <1>3, <1>4, <1>5, <1>6, <1>7, <1>8, <1>9
        DEF Next, LockStep, FileStep, Restart

\* The store implements the durable map: its updates are puts, its renames
\* save something memory has held, its flushes acknowledge only what is saved,
\* and its restarts lose nothing that was acknowledged.
THEOREM StoreImplementsDurableMap == Spec => ImplementsDurableMap
<1>1. Init => Promised!Init
  BY SameOrder, EmptyState DEF Init, Promised!Init
<1> QED BY <1>1, StepImplements, Invariant, PTL DEF Spec, ImplementsDurableMap, Promised!Spec

=============================================================================
