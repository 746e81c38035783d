----------------------------- MODULE StateStore -----------------------------
(***************************************************************************)
(* The runtime state store (src/internal/config/state.go): an in-memory    *)
(* state that handlers and jobs update under st.mu, written to state.json  *)
(* by a debounced timer, by explicit Flush calls and by Close, with        *)
(* tmp + rename + fsync.                                                   *)
(*                                                                         *)
(* What a value is does not matter here, only which write of a key it is:  *)
(* ver counts the writes of a key, has says whether the key holds a value  *)
(* (an Update may delete a certificate or zero the TOTP counter; seed      *)
(* fills only what is missing).                                            *)
(*                                                                         *)
(* A step is one critical section of st.mu, or one file-system call made   *)
(* while st.flushMu is held and st.mu is not.                              *)
(***************************************************************************)
EXTENDS Naturals

CONSTANTS
    Keys,      \* entries of the state: the TOTP counter, one per certificate, ...
    Callers,   \* goroutines that call Update, Flush, seed or Close
    Flushers,  \* timer goroutines that may be in flushAsync at the same time
    NoProc,    \* nobody holds flushMu
    NoFile,    \* state.json.tmp does not exist
    Budget     \* how often each bounded event may happen, see Bounded

Procs == Callers \cup Flushers

\* The bounded events: updates, seeds, failing writes, failing directory
\* syncs, and restarts of the process.
Bounded == {"update", "seed", "write", "dir", "crash"}

ASSUME ProcsAssumption == NoProc \notin Procs /\ Callers \cap Flushers = {}
ASSUME BudgetAssumption == Budget \in [Bounded -> Nat]

VARIABLES
    state, dirty, gen, timer, closed,   \* the fields of StateStore
    flushMu,                            \* holder of st.flushMu
    pc, snap, sgen,                     \* where each goroutine is; data and gen in Flush
    tmp, view, durable,                 \* state.json.tmp; state.json as read; as on the platter
    want, acked,                        \* history: what a caller asked to save, what was promised
    cut,                                \* history: a rename was left without its directory sync
    left                                \* what is left of Budget

store  == <<state, dirty, gen, timer, closed>>
locals == <<snap, sgen>>
files  == <<tmp, view, durable>>
vars   == <<store, flushMu, pc, locals, files, want, acked, cut, left>>

-----------------------------------------------------------------------------

Versions == [Keys -> Nat]
States   == [ver : Versions, has : SUBSET Keys]
NoVer    == [k \in Keys |-> 0]
Empty    == [ver |-> NoVer, has |-> {}]

Upto(a, b) == \A k \in Keys : a[k] <= b[k]
Join(a, b) == [k \in Keys |-> IF a[k] <= b[k] THEN b[k] ELSE a[k]]
Meet(a, b) == [k \in Keys |-> IF a[k] <= b[k] THEN a[k] ELSE b[k]]

\* s with the keys of K written once more, set to a value or cleared.
Written(s, K, value) ==
    [ver |-> [k \in Keys |-> IF k \in K THEN s.ver[k] + 1 ELSE s.ver[k]],
     has |-> IF value THEN s.has \cup K ELSE s.has \ K]

Spend(what) == left[what] > 0 /\ left' = [left EXCEPT ![what] = @ - 1]

Init ==
    /\ state = Empty /\ dirty = FALSE /\ gen = 0
    /\ timer = "none" /\ closed = FALSE
    /\ flushMu = NoProc
    /\ pc = [p \in Procs |-> "idle"]
    /\ snap = [p \in Procs |-> Empty] /\ sgen = [p \in Procs |-> 0]
    /\ tmp = NoFile /\ view = Empty /\ durable = Empty
    /\ want = [c \in Callers |-> NoVer] /\ acked = NoVer /\ cut = FALSE
    /\ left = Budget

-----------------------------------------------------------------------------
(* Operations of the callers                                               *)

\* armFlushLocked: the timer after a call made when dirty is d.
Armed(d) == IF timer # "none" \/ closed \/ ~d THEN timer ELSE "armed"

Update(c, k, value) ==
    /\ pc[c] = "idle" /\ Spend("update")
    /\ state' = Written(state, {k}, value)
    /\ dirty' = TRUE /\ gen' = gen + 1
    /\ timer' = Armed(TRUE)
    /\ UNCHANGED <<closed, flushMu, pc, locals, files, want, acked, cut>>

\* The caller goes on to Flush; what it sees in memory is what it wants saved.
Calls(c, seen) ==
    /\ pc' = [pc EXCEPT ![c] = "flush"]
    /\ want' = [want EXCEPT ![c] = seen]

Flush(c) ==
    /\ pc[c] = "idle"
    /\ Calls(c, state.ver)
    /\ UNCHANGED <<store, flushMu, locals, files, acked, cut, left>>

\* seed fills the keys of legacy that hold nothing and flushes; unlike Update
\* it does not arm the timer.
Seed(c, legacy) ==
    LET filled == legacy \ state.has IN
    /\ pc[c] = "idle" /\ Spend("seed")
    /\ state' = Written(state, filled, TRUE)
    /\ dirty' = (dirty \/ filled # {})
    /\ gen' = IF filled # {} THEN gen + 1 ELSE gen
    /\ Calls(c, state'.ver)
    /\ UNCHANGED <<timer, closed, flushMu, locals, files, acked, cut>>

Close(c) ==
    /\ pc[c] = "idle" /\ ~closed
    /\ closed' = TRUE /\ timer' = "none"
    /\ Calls(c, state.ver)
    /\ UNCHANGED <<state, dirty, gen, flushMu, locals, files, acked, cut, left>>

-----------------------------------------------------------------------------
(* The timer and flushAsync                                                *)

\* The debounce delay is over: the runtime starts flushAsync in a goroutine,
\* st.timer still points to the expired timer.
TimerExpires(f) ==
    /\ timer = "armed" /\ pc[f] = "idle"
    /\ timer' = "fired"
    /\ pc' = [pc EXCEPT ![f] = "expired"]
    /\ UNCHANGED <<state, dirty, gen, closed, flushMu, locals, files, want, acked, cut, left>>

\* Bug variant: st.timer is not cleared when the timer has fired.
AsyncClear_keepsTimer(f) ==
    /\ pc[f] = "expired"
    /\ pc' = [pc EXCEPT ![f] = "flush"]
    /\ UNCHANGED <<store, flushMu, locals, files, want, acked, cut, left>>

AsyncClear(f) ==
    /\ pc[f] = "expired"
    /\ timer' = "none"
    /\ pc' = [pc EXCEPT ![f] = "flush"]
    /\ UNCHANGED <<state, dirty, gen, closed, flushMu, locals, files, want, acked, cut, left>>

\* Bug variant: a failed write is only logged.
AsyncRearm_never(f) ==
    /\ pc[f] = "rearm"
    /\ pc' = [pc EXCEPT ![f] = "idle"]
    /\ UNCHANGED <<store, flushMu, locals, files, want, acked, cut, left>>

AsyncRearm(f) ==
    /\ pc[f] = "rearm"
    /\ timer' = Armed(dirty)
    /\ pc' = [pc EXCEPT ![f] = "idle"]
    /\ UNCHANGED <<state, dirty, gen, closed, flushMu, locals, files, want, acked, cut, left>>

-----------------------------------------------------------------------------
(* Flush and writeStateFile                                                *)

\* The locals of Flush are gone when it ends.
Forget(p) == snap' = [snap EXCEPT ![p] = Empty] /\ sgen' = [sgen EXCEPT ![p] = 0]

Returns(p) ==
    /\ Forget(p)
    /\ pc' = [pc EXCEPT ![p] = "idle"]
    /\ acked' = IF p \in Callers THEN Join(acked, want[p]) ELSE acked
    /\ want' = [c \in Callers |-> IF c = p THEN NoVer ELSE want[c]]

Fails(p) ==
    /\ Forget(p)
    /\ flushMu' = NoProc
    /\ pc' = [pc EXCEPT ![p] = IF p \in Flushers THEN "rearm" ELSE "idle"]
    /\ want' = [c \in Callers |-> IF c = p THEN NoVer ELSE want[c]]

FlushClean(p) ==
    /\ pc[p] = "flush" /\ flushMu = NoProc /\ ~dirty
    /\ Returns(p)
    /\ UNCHANGED <<store, flushMu, files, cut, left>>

\* Bug variant: dirty is cleared with the snapshot, before the file is written.
FlushSnapshot_clearsEarly(p) ==
    /\ pc[p] = "flush" /\ flushMu = NoProc /\ dirty
    /\ flushMu' = p
    /\ snap' = [snap EXCEPT ![p] = state]
    /\ sgen' = [sgen EXCEPT ![p] = gen]
    /\ dirty' = FALSE
    /\ pc' = [pc EXCEPT ![p] = "write"]
    /\ UNCHANGED <<state, gen, timer, closed, files, want, acked, cut, left>>

FlushSnapshot(p) ==
    /\ pc[p] = "flush" /\ flushMu = NoProc /\ dirty
    /\ flushMu' = p
    /\ snap' = [snap EXCEPT ![p] = state]
    /\ sgen' = [sgen EXCEPT ![p] = gen]
    /\ pc' = [pc EXCEPT ![p] = "write"]
    /\ UNCHANGED <<store, files, want, acked, cut, left>>

WriteTmp(p) ==
    /\ pc[p] = "write"
    /\ tmp' = snap[p]
    /\ pc' = [pc EXCEPT ![p] = "rename"]
    /\ UNCHANGED <<store, flushMu, locals, view, durable, want, acked, cut, left>>

\* Bug variants: the error is lost on the way to the caller; the error of the
\* write is overlooked and the rename is tried.
WriteFails_returnsNil(p) ==
    /\ pc[p] \in {"write", "rename"} /\ Spend("write")
    /\ tmp' = NoFile /\ flushMu' = NoProc
    /\ Returns(p)
    /\ UNCHANGED <<store, view, durable, cut>>

WriteFails_goesOn(p) ==
    /\ pc[p] = "write" /\ Spend("write")
    /\ tmp' = NoFile
    /\ pc' = [pc EXCEPT ![p] = "rename"]
    /\ UNCHANGED <<store, flushMu, locals, view, durable, want, acked, cut>>

\* Opening, writing, syncing or closing the temporary file fails, or the
\* rename does: the temporary file is removed and Flush returns the error.
WriteFails(p) ==
    /\ pc[p] \in {"write", "rename"} /\ Spend("write")
    /\ tmp' = NoFile
    /\ Fails(p)
    /\ UNCHANGED <<store, view, durable, acked, cut>>

Rename(p) ==
    /\ pc[p] = "rename"
    /\ view' = tmp /\ tmp' = NoFile
    /\ pc' = [pc EXCEPT ![p] = "dirsync"]
    /\ UNCHANGED <<store, flushMu, locals, durable, want, acked, cut, left>>

DirSync(p) ==
    /\ pc[p] = "dirsync"
    /\ durable' = view
    /\ pc' = [pc EXCEPT ![p] = "finish"]
    /\ UNCHANGED <<store, flushMu, locals, tmp, view, want, acked, cut, left>>

\* The directory cannot be opened or synced: the code ignores the error.
DirSyncFails(p) ==
    /\ pc[p] = "dirsync" /\ Spend("dir")
    /\ cut' = TRUE
    /\ pc' = [pc EXCEPT ![p] = "finish"]
    /\ UNCHANGED <<store, flushMu, locals, files, want, acked>>

FlushFinish(p) ==
    /\ pc[p] = "finish"
    /\ dirty' = (dirty /\ gen # sgen[p])
    /\ flushMu' = NoProc
    /\ Returns(p)
    /\ UNCHANGED <<state, gen, timer, closed, files, cut, left>>

-----------------------------------------------------------------------------
(* The process dies, or the power fails, and the program starts again      *)

\* Bug variant: the file is not read, the store starts empty.
Loaded_empty(s) ==
    /\ state' = Empty /\ dirty' = FALSE /\ gen' = 0
    /\ timer' = "none" /\ closed' = FALSE
    /\ flushMu' = NoProc
    /\ pc' = [p \in Procs |-> "idle"]
    /\ snap' = [p \in Procs |-> Empty] /\ sgen' = [p \in Procs |-> 0]
    /\ want' = [c \in Callers |-> NoVer]

\* LoadState of what is read from state.json.  A file that cannot be read or is
\* damaged, which would be taken for an empty one, is none that a step of this module
\* leaves behind: only a synced file is renamed to it.
Loaded(s) ==
    /\ state' = s /\ dirty' = FALSE /\ gen' = 0
    /\ timer' = "none" /\ closed' = FALSE
    /\ flushMu' = NoProc
    /\ pc' = [p \in Procs |-> "idle"]
    /\ snap' = [p \in Procs |-> Empty] /\ sgen' = [p \in Procs |-> 0]
    /\ want' = [c \in Callers |-> NoVer]

ProcessDies ==
    /\ Spend("crash")
    /\ Loaded(view)
    /\ cut' = (cut \/ view # durable)
    /\ UNCHANGED <<files, acked>>

\* A rename that was not followed by a directory sync may be lost. What was
\* acknowledged and lost that way is written off, so that the model can go on.
PowerFails(d) ==
    /\ Spend("crash")
    /\ view' = d /\ durable' = d /\ tmp' = tmp
    /\ Loaded(d)
    /\ acked' = IF cut THEN Meet(acked, d.ver) ELSE acked
    /\ cut' = cut

-----------------------------------------------------------------------------

CallerStep(c) ==
    \/ \E k \in Keys, value \in BOOLEAN : Update(c, k, value)
    \/ Flush(c)
    \/ \E legacy \in (SUBSET Keys) \ {{}} : Seed(c, legacy)
    \/ Close(c)

TimerStep(f) == TimerExpires(f) \/ AsyncClear(f) \/ AsyncRearm(f)

LockStep(p)  == FlushClean(p) \/ FlushSnapshot(p)

FileStep(p)  ==
    WriteTmp(p) \/ WriteFails(p) \/ Rename(p) \/ DirSync(p) \/ DirSyncFails(p) \/ FlushFinish(p)

Restart == ProcessDies \/ \E d \in {durable, view} : PowerFails(d)

Next ==
    \/ \E c \in Callers : CallerStep(c)
    \/ \E f \in Flushers : TimerStep(f)
    \/ \E p \in Procs : LockStep(p) \/ FileStep(p)
    \/ Restart

Spec == Init /\ [][Next]_vars

\* Timers fire, goroutines run, and a goroutine waiting for flushMu gets it in
\* the end (sync.Mutex hands over in FIFO order once a waiter has starved for
\* a millisecond). Nobody is obliged to call an operation.
Fairness ==
    /\ \A f \in Flushers : WF_vars(TimerStep(f))
    /\ \A p \in Procs : SF_vars(LockStep(p)) /\ WF_vars(FileStep(p))

FairSpec == Spec /\ Fairness

-----------------------------------------------------------------------------
(* Properties                                                              *)

Promised == INSTANCE DurableMap
            WITH mem <- state.ver, disk <- view.ver, safe <- acked, weak <- cut

TypeOK ==
    /\ state \in States /\ dirty \in BOOLEAN /\ gen \in Nat
    /\ timer \in {"none", "armed", "fired"} /\ closed \in BOOLEAN
    /\ flushMu \in Procs \cup {NoProc}
    /\ pc \in [Procs -> {"idle", "flush", "write", "rename", "dirsync", "finish",
                         "expired", "rearm"}]
    /\ snap \in [Procs -> States] /\ sgen \in [Procs -> Nat]
    /\ tmp \in States \cup {NoFile} /\ view \in States /\ durable \in States
    /\ want \in [Callers -> Versions] /\ acked \in Versions /\ cut \in BOOLEAN
    /\ left \in [Bounded -> Nat]

\* A Flush (or seed, or Close) that returned nil keeps its promise: every write
\* its caller had seen when it called is in state.json, and, unless a directory
\* sync has failed unnoticed or was cut short by a restart, survives a power
\* failure. It holds although a
\* call may return at once because somebody else's write has cleared dirty.
AckedIsSaved ==
    /\ Upto(acked, view.ver)
    /\ ~cut => Upto(acked, durable.ver)

\* dirty is the only thing that makes the store write: when it is false and no
\* write is under way, memory and state.json agree.
CleanMeansSaved == ~dirty => view = state

\* A failed write is rescheduled and no update is forgotten: as long as the
\* store is open, whatever is not yet saved has a timer running or a flushAsync
\* on its way, whoever else is flushing and however those flushes end.
DirtyIsScheduled ==
    dirty /\ ~closed =>
        \/ timer # "none"
        \/ \E f \in Flushers : pc[f] # "idle"

\* What is on the platter is only ever replaced by something newer: a slow
\* writer never puts an older snapshot over a newer one, and neither a seed
\* nor a restart brings an older value back.
NeverGoesBack == [][Upto(durable.ver, durable'.ver)]_vars

\* The store is a durable map: whatever timers, locks and files do, its steps
\* are those of DurableMap. In particular state.json only moves forward to
\* something memory has held, and a restart finds what was acknowledged.
ImplementsDurableMap == Promised!Spec

\* Every write reaches state.json without anybody asking for it, unless the
\* store is closed or the process restarts first; failed writes are retried.
UpdatesReachDisk ==
    \A k \in Keys : \A n \in 1..Budget["update"] :
        state.ver[k] >= n ~> (view.ver[k] >= n \/ closed \/ state.ver[k] < n)

-----------------------------------------------------------------------------
(* The inductive invariant: what makes AckedIsSaved and CleanMeansSaved    *)
(* hold, see StateStoreProofs.                                             *)

Holding == {"write", "rename", "dirsync", "finish"}

\* Only the holder of flushMu is past its snapshot.
Mutex == \A p \in Procs : pc[p] \in Holding => flushMu = p

\* The snapshot being written lies between the file and memory, and is memory
\* itself as long as gen has not moved.
Snapshot ==
    \A p \in Procs : pc[p] \in Holding =>
        /\ dirty
        /\ Upto(snap[p].ver, state.ver)
        /\ sgen[p] <= gen
        /\ sgen[p] = gen => snap[p] = state

FileOrder ==
    /\ Upto(durable.ver, view.ver) /\ Upto(view.ver, state.ver)
    /\ \A p \in Procs : pc[p] \in Holding => Upto(view.ver, snap[p].ver)

InTmp  == \A p \in Procs : pc[p] = "rename" => tmp = snap[p]
InFile == \A p \in Procs : pc[p] \in {"dirsync", "finish"} => view = snap[p]

\* What a caller wants saved is in memory, and in the snapshot it writes.
Wanted ==
    \A c \in Callers :
        /\ Upto(want[c], state.ver)
        /\ pc[c] \in Holding => Upto(want[c], snap[c].ver)

\* Between a rename and its directory sync is the only time the platter lags.
Synced == ~cut /\ (\A p \in Procs : pc[p] # "dirsync") => durable = view

IInv ==
    /\ TypeOK /\ Mutex /\ Snapshot /\ FileOrder /\ InTmp /\ InFile
    /\ Wanted /\ Synced /\ CleanMeansSaved /\ AckedIsSaved

=============================================================================
