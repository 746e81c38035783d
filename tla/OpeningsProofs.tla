--------------------------- MODULE OpeningsProofs ---------------------------
(***************************************************************************)
(* Proofs about the firewall manager and about port forwarding, alone and  *)
(* together, for any requests, rules, addresses, edits and faults.  No     *)
(* listener is forgotten and no deleted rule comes back, however reloads   *)
(* overlap, and what is proved of the firewall manager holds of it within  *)
(* the program.  As long as reloads do not overlap, what runs and what is  *)
(* open at rest is what is configured, and Stop leaves nothing.            *)
(***************************************************************************)
EXTENDS Openings, TLAPS

-----------------------------------------------------------------------------
(* The firewall manager by itself, for any sources, keys, ports, sections  *)
(* and faults: what the map shows is staged, and at rest the firewall      *)
(* opens what is wanted.  The second needs an invariant that says what a   *)
(* job still has to do (Planned) and that the three copies agree at rest.  *)

\* Every section is finished, and no two are for one key.
Complete(f) == \A s \in DOMAIN f : f[s].set = Attributes
Unique(f) == \A s, t \in DOMAIN f : f[s].key = f[t].key => s = t

JobShape ==
    /\ job.pc = "idle" => job = NoJob
    /\ job.pc # "idle" => scanned
    /\ \A k \in job.add : wanted[k] # None
    /\ job.pc = "reloading" => job.del = {} /\ job.add = {} /\ committed = staged /\ ~pendingCommit

\* What the job does not touch is as wanted, what is to be added has no section once
\* the deletions are done, and what is only to be deleted is not wanted.
Planned ==
    \A k \in Keys :
        /\ k \notin job.del \cup job.add => added[k] = wanted[k]
        /\ k \in job.add \ job.del => added[k] = None
        /\ k \in job.del \ job.add => wanted[k] = None

AllKnown == \A k \in Keys : added[k] = None => Named(staged, k) = {}

Tidy ==
    /\ Complete(staged) /\ Unique(staged) /\ Complete(committed) /\ Unique(committed)
    /\ scanned => AllKnown /\ Planned
    /\ job.pc = "idle" /\ ~pendingCommit => committed = staged /\ effective = staged

FirewallInv == FirewallTypeOK /\ ShownIsStaged /\ JobShape /\ (exact => Tidy)

-----------------------------------------------------------------------------
(* Files and readings                                                      *)

\* A section that shows a port is a section, and what it shows is not None.
LEMMA PortType ==
    ASSUME NEW f, File(f), NEW s \in DOMAIN f
    PROVE  Port(f[s]) \in Ports \cup {NoPort} /\ Port(f[s]) # None
  BY FirewallAssumption DEF File, Section, Port

\* A new section is added to a file: it was not there, the others stay as they are.
LEMMA StagedIsFile ==
    ASSUME File(staged), wanted \in [Keys -> Ports \cup {None}],
           NEW k \in Keys, NEW n \in 0..Attributes, wanted[k] # None, Staged(k, n)
    PROVE  /\ File(staged')
           /\ \E s \in Sections : /\ s \notin DOMAIN staged
                                  /\ DOMAIN staged' = DOMAIN staged \cup {s}
                                  /\ staged'[s] = [key |-> k, port |-> wanted[k], set |-> n]
                                  /\ \A t \in DOMAIN staged : staged'[t] = staged[t]
<1> DEFINE s == CHOOSE t \in Sections : t \notin DOMAIN staged
           new == [key |-> k, port |-> wanted[k], set |-> n]
<1>1. s \in Sections /\ s \notin DOMAIN staged
  <2>1. \E t \in Sections : t \notin DOMAIN staged  BY DEF Staged, File
  <2> QED  BY <2>1
<1>2. staged' = [t \in DOMAIN staged \cup {s} |-> IF t = s THEN new ELSE staged[t]]
  BY DEF Staged
<1> HIDE DEF s
<1>3. new \in Section
  BY DEF Section
<1>4. /\ DOMAIN staged' = DOMAIN staged \cup {s}
      /\ staged'[s] = new
      /\ \A t \in DOMAIN staged : staged'[t] = staged[t]
  BY <1>1, <1>2
<1>5. File(staged')
  BY <1>1, <1>2, <1>3 DEF File
<1> QED  BY <1>1, <1>4, <1>5

\* A file without one of its sections.
LEMMA RestrictedIsFile ==
    ASSUME File(staged), NEW s \in DOMAIN staged, staged' = Restrict(staged, DOMAIN staged \ {s})
    PROVE  /\ File(staged') /\ DOMAIN staged' = DOMAIN staged \ {s}
           /\ \A t \in DOMAIN staged' : staged'[t] = staged[t]
  BY DEF File, Restrict

\* What a reading shows is typed.
LEMMA ReadingType == \A shown \in Readings(staged) : shown \in Shown
  BY DEF Readings

\* The empty file.
LEMMA EmptyIsFile == File(<<>>)
<1>1. DOMAIN <<>> = {}  OBVIOUS
<1>2. <<>> = [s \in {} |-> <<>>[s]]  OBVIOUS
<1> QED  BY <1>1, <1>2 DEF File

\* A fault leaves a budget.
LEMMA FaultType ==
    ASSUME faults \in [DOMAIN Faults -> Nat], NEW what \in FirewallFaults, Fault(what)
    PROVE  faults' \in [DOMAIN Faults -> Nat]
  BY FirewallAssumption DEF Fault

-----------------------------------------------------------------------------
(* The invariant is preserved, action by action                            *)

LEMMA InitHolds == FirewallInit => FirewallInv
<1> SUFFICES ASSUME FirewallInit PROVE FirewallInv  OBVIOUS
<1> USE DEF FirewallInit
<1>1. FirewallTypeOK
  <2>1. File(staged) /\ File(committed) /\ File(effective)  BY EmptyIsFile
  <2> QED  BY <2>1, FirewallAssumption DEF FirewallTypeOK, Nothing, Shown, NoJob
<1>2. ShownIsStaged
  BY DEF ShownIsStaged, Nothing
<1>3. JobShape
  BY DEF JobShape, NoJob
<1>4. Tidy
  <2>1. DOMAIN staged = {}  OBVIOUS
  <2> QED  BY <2>1 DEF Tidy, Complete, Unique, NoJob
<1> QED  BY <1>1, <1>2, <1>3, <1>4 DEF FirewallInv

\* A report scans at most once, and plans what differs.
LEMMA ReportKeeps ==
    ASSUME FirewallInv, NEW src \in Sources, NEW rules \in [Keys -> Ports \cup {None}],
           Report(src, rules)
    PROVE  FirewallInv'
<1> USE DEF Report, FirewallInv
<1> DEFINE D == ToDelete(added', wanted')
           A == ToAdd(added', wanted')
<1>1. added' \in Shown
  <2>1. CASE scanned  BY <2>1 DEF FirewallTypeOK, Fault
  <2>2. CASE ~scanned  BY <2>2, ReadingType DEF FirewallTypeOK, Fault
  <2> QED  BY <2>1, <2>2
<1>2. wanted' \in [Keys -> Ports \cup {None}]
  BY DEF FirewallTypeOK
<1>3. \/ job' = NoJob /\ D \cup A = {} /\ ~pendingCommit
      \/ job' = [pc |-> "changing", del |-> D, add |-> A]
  BY DEF Compared
<1>4. D \subseteq Keys /\ A \subseteq Keys
  BY DEF ToDelete, ToAdd
<1>5. faults' \in [DOMAIN Faults -> Nat]
  <2>1. CASE faults' = faults  BY <2>1 DEF FirewallTypeOK
  <2>2. CASE Fault("command")  BY <2>2, FaultType DEF FirewallTypeOK, FirewallFaults
  <2> QED  BY <2>1, <2>2
<1>6. FirewallTypeOK'
  <2>1. job' \in [pc : {"idle", "changing", "reloading"}, del : SUBSET Keys, add : SUBSET Keys]
    BY <1>3, <1>4 DEF NoJob
  <2>2. exact' \in BOOLEAN
    BY DEF FirewallTypeOK
  <2> QED  BY <1>1, <1>2, <1>5, <2>1, <2>2 DEF FirewallTypeOK, uci, Shown, File
<1>7. ShownIsStaged'
  <2>1. CASE added' = added  BY <2>1 DEF ShownIsStaged, uci, Named
  <2>2. CASE added' \in Readings(staged)
    BY <2>2 DEF ShownIsStaged, uci, Named, Readings
  <2> QED  BY <2>1, <2>2 DEF Fault
<1>8. JobShape'
  <2>1. \A k \in A : wanted'[k] # None
    BY DEF ToAdd
  <2>2. scanned' = TRUE
    OBVIOUS
  <2> HIDE DEF A, D
  <2> QED  BY <1>3, <2>1, <2>2 DEF JobShape, NoJob
<1>9. ASSUME exact' PROVE Tidy'
  <2>1. exact /\ (IF scanned THEN added' = added ELSE added' \in Readings(staged))
    BY <1>9
  <2>2. Tidy
    BY <2>1
  <2>3. AllKnown'
    <3>1. CASE scanned  BY <2>1, <2>2, <3>1 DEF Tidy, AllKnown, uci, Named
    <3>2. CASE ~scanned
      <4>1. \A t \in DOMAIN staged : Port(staged[t]) # None
        BY PortType DEF FirewallTypeOK
      <4> QED  BY <2>1, <3>2, <4>1 DEF AllKnown, Readings, uci, Named
    <3> QED  BY <3>1, <3>2
  <2>4. Planned'
    BY <1>1, <1>2, <1>3 DEF Planned, ToDelete, ToAdd, NoJob
  <2>5. job.pc = "idle"
    OBVIOUS
  <2> QED  BY <1>3, <2>2, <2>3, <2>4, <2>5 DEF Tidy, uci, Complete, Unique
<1> QED  BY <1>6, <1>7, <1>8, <1>9

\* A deletion takes one section of k, and there was only one if no command had failed.
LEMMA DeleteKeeps ==
    ASSUME FirewallInv, NEW k \in Keys, Delete(k)
    PROVE  FirewallInv'
<1> USE DEF Delete, FirewallInv
<1> PICK s \in Named(staged, k) : staged' = Restrict(staged, DOMAIN staged \ {s})
  OBVIOUS
<1>1. s \in DOMAIN staged /\ staged[s].key = k
  BY DEF Named
<1>2. /\ File(staged') /\ DOMAIN staged' = DOMAIN staged \ {s}
      /\ \A t \in DOMAIN staged' : staged'[t] = staged[t]
  BY <1>1, RestrictedIsFile DEF FirewallTypeOK
<1>3. /\ job' \in [pc : {"idle", "changing", "reloading"}, del : SUBSET Keys, add : SUBSET Keys]
      /\ job'.pc = "changing" /\ job'.del = job.del \ {k} /\ job'.add = job.add
  BY DEF FirewallTypeOK
<1>4. /\ added' \in Shown /\ added'[k] = None
      /\ \A l \in Keys \ {k} : added'[l] = added[l]
  BY DEF FirewallTypeOK, Shown
<1>5. FirewallTypeOK'
  BY <1>2, <1>3, <1>4 DEF FirewallTypeOK, Shown, File
<1>6. ShownIsStaged'
  <2> SUFFICES ASSUME NEW l \in Keys, added'[l] # None
               PROVE  \E t \in Named(staged, l)' : Port(staged[t])' = added'[l]
    BY DEF ShownIsStaged
  <2>1. l # k /\ added[l] # None
    BY <1>4
  <2>2. PICK t \in Named(staged, l) : Port(staged[t]) = added[l]
    BY <2>1 DEF ShownIsStaged
  <2>3. t \in DOMAIN staged' /\ staged'[t] = staged[t]
    BY <1>1, <1>2, <2>1, <2>2 DEF Named
  <2> QED  BY <1>4, <2>1, <2>2, <2>3 DEF Named, Port
<1>7. JobShape'
  BY <1>3 DEF JobShape
<1>8. ASSUME exact' PROVE Tidy'
  <2>1. exact /\ Tidy /\ scanned
    BY <1>8 DEF JobShape
  <2>2. Complete(staged') /\ Unique(staged')
    <3>1. Complete(staged) /\ Unique(staged)
      BY <2>1 DEF Tidy
    <3>2. \A t \in DOMAIN staged' : t \in DOMAIN staged /\ staged'[t] = staged[t]
      BY <1>2
    <3> HIDE DEF Delete, FirewallInv
    <3>3. Complete(staged')
      BY <3>1, <3>2 DEF Complete
    <3>4. Unique(staged')
      BY <3>1, <3>2 DEF Unique
    <3> QED  BY <3>3, <3>4
  <2>3. AllKnown'
    <3> SUFFICES ASSUME NEW l \in Keys, added'[l] = None PROVE Named(staged, l)' = {}
      BY DEF AllKnown
    <3>1. CASE l = k
      BY <1>1, <1>2, <2>1, <3>1 DEF Tidy, Unique, Named
    <3>2. CASE l # k
      <4>1. Named(staged, l) = {}
        BY <1>4, <2>1, <3>2 DEF Tidy, AllKnown
      <4> QED  BY <1>2, <4>1 DEF Named
    <3> QED  BY <3>1, <3>2
  <2>4. Planned'
    BY <1>3, <1>4, <2>1 DEF Tidy, Planned, FirewallTypeOK
  <2> QED  BY <1>3, <2>1, <2>2, <2>3, <2>4 DEF Tidy, Complete, Unique
<1> QED  BY <1>5, <1>6, <1>7, <1>8

LEMMA DeleteFailsKeeps ==
    ASSUME FirewallInv, NEW k \in Keys, DeleteFails(k)
    PROVE  FirewallInv'
<1> USE DEF DeleteFails, FirewallInv
<1>1. /\ job' \in [pc : {"idle", "changing", "reloading"}, del : SUBSET Keys, add : SUBSET Keys]
      /\ job'.pc = "changing"
  BY DEF FirewallTypeOK
<1>2. faults' \in [DOMAIN Faults -> Nat]
  BY FaultType DEF FirewallTypeOK, FirewallFaults
<1>3. FirewallTypeOK'
  BY <1>1, <1>2 DEF FirewallTypeOK, uci, File, Shown
<1>4. ShownIsStaged' /\ JobShape'
  BY <1>1 DEF ShownIsStaged, Named, Port, JobShape, uci
<1> QED  BY <1>3, <1>4

\* An addition is of a key without a section, if no command had failed.
LEMMA AddKeeps ==
    ASSUME FirewallInv, NEW k \in Keys, Add(k)
    PROVE  FirewallInv'
<1> USE DEF Add, FirewallInv
<1>1. /\ job' \in [pc : {"idle", "changing", "reloading"}, del : SUBSET Keys, add : SUBSET Keys]
      /\ job'.pc = "changing" /\ job'.del = job.del /\ job'.add = job.add \ {k}
  BY DEF FirewallTypeOK
<1>2. wanted[k] # None /\ Staged(k, Attributes) /\ Attributes \in 0..Attributes
  BY DEF JobShape, Attributes
<1>3. File(staged')
  BY <1>2, StagedIsFile DEF FirewallTypeOK
<1>4. PICK s \in Sections : /\ s \notin DOMAIN staged
                            /\ DOMAIN staged' = DOMAIN staged \cup {s}
                            /\ staged'[s] = [key |-> k, port |-> wanted[k], set |-> Attributes]
                            /\ \A t \in DOMAIN staged : staged'[t] = staged[t]
  BY <1>2, StagedIsFile DEF FirewallTypeOK
<1>5. /\ added' \in Shown /\ added'[k] = wanted[k]
      /\ \A l \in Keys \ {k} : added'[l] = added[l]
  BY DEF FirewallTypeOK, Shown
<1>6. FirewallTypeOK'
  BY <1>1, <1>3, <1>5 DEF FirewallTypeOK, Shown, File
<1>7. ShownIsStaged'
  <2> SUFFICES ASSUME NEW l \in Keys, added'[l] # None
               PROVE  \E t \in Named(staged, l)' : Port(staged[t])' = added'[l]
    BY DEF ShownIsStaged
  <2>1. CASE l = k
    BY <1>4, <1>5, <2>1 DEF Named, Port, Attributes
  <2>2. CASE l # k
    <3>1. PICK t \in Named(staged, l) : Port(staged[t]) = added[l]
      BY <1>5, <2>2 DEF ShownIsStaged
    <3>2. t \in DOMAIN staged' /\ staged'[t] = staged[t]
      BY <1>4, <3>1 DEF Named
    <3> QED  BY <1>5, <2>2, <3>1, <3>2 DEF Named, Port
  <2> QED  BY <2>1, <2>2
<1>8. JobShape'
  BY <1>1 DEF JobShape
<1>9. ASSUME exact' PROVE Tidy'
  <2>1. exact /\ Tidy /\ scanned /\ AllKnown /\ Planned
    BY <1>9 DEF JobShape, Tidy
  <2>2. added[k] = None /\ Named(staged, k) = {}
    BY <2>1 DEF AllKnown, Planned
  <2>3. Complete(staged) /\ Unique(staged)
    BY <2>1 DEF Tidy
  <2>4. \A t \in DOMAIN staged : staged[t].key # k
    BY <2>2, <2>3 DEF Named, Complete, Attributes
  <2>5. Complete(staged') /\ Unique(staged')
    BY <1>4, <2>3, <2>4 DEF Complete, Unique
  <2>6. AllKnown'
    <3> SUFFICES ASSUME NEW l \in Keys, added'[l] = None PROVE Named(staged, l)' = {}
      BY DEF AllKnown
    <3>1. l # k /\ Named(staged, l) = {}
      BY <1>2, <1>5, <2>1 DEF AllKnown
    <3> QED  BY <1>4, <3>1 DEF Named
  <2>7. Planned'
    BY <1>1, <1>5, <2>1 DEF Planned, FirewallTypeOK
  <2> QED  BY <1>1, <2>1, <2>5, <2>6, <2>7 DEF Tidy, Complete, Unique
<1> QED  BY <1>6, <1>7, <1>8, <1>9

LEMMA AddFailsKeeps ==
    ASSUME FirewallInv, NEW k \in Keys, NEW n \in 0..(Attributes - 1), AddFails(k, n)
    PROVE  FirewallInv'
<1> USE DEF AddFails, FirewallInv
<1>1. /\ job' \in [pc : {"idle", "changing", "reloading"}, del : SUBSET Keys, add : SUBSET Keys]
      /\ job'.pc = "changing" /\ job'.add \subseteq job.add
  BY DEF FirewallTypeOK
<1>2. wanted[k] # None /\ n \in 0..Attributes
  BY DEF JobShape, Attributes
<1>3. faults' \in [DOMAIN Faults -> Nat]
  BY FaultType DEF FirewallTypeOK, FirewallFaults
<1>4. File(staged') /\ \A t \in DOMAIN staged : t \in DOMAIN staged' /\ staged'[t] = staged[t]
  <2>1. CASE Staged(k, n)
    BY <1>2, <2>1, StagedIsFile DEF FirewallTypeOK
  <2>2. CASE UNCHANGED staged
    BY <2>2 DEF FirewallTypeOK
  <2> QED  BY <2>1, <2>2
<1>5. FirewallTypeOK'
  BY <1>1, <1>3, <1>4 DEF FirewallTypeOK, Shown, File
<1>6. ShownIsStaged'
  <2> SUFFICES ASSUME NEW l \in Keys, added'[l] # None
               PROVE  \E t \in Named(staged, l)' : Port(staged[t])' = added'[l]
    BY DEF ShownIsStaged
  <2>1. PICK t \in Named(staged, l) : Port(staged[t]) = added[l]
    BY DEF ShownIsStaged
  <2> QED  BY <1>4, <2>1 DEF Named, Port
<1>7. JobShape'
  BY <1>1 DEF JobShape
<1> QED  BY <1>5, <1>6, <1>7

LEMMA CommitKeeps == FirewallInv /\ Commit => FirewallInv'
<1> SUFFICES ASSUME FirewallInv, Commit PROVE FirewallInv'  OBVIOUS
<1> USE DEF Commit, Changed, FirewallInv
<1>1. /\ job' \in [pc : {"idle", "changing", "reloading"}, del : SUBSET Keys, add : SUBSET Keys]
      /\ job'.pc = "reloading" /\ job'.del = {} /\ job'.add = {} /\ job.del = {} /\ job.add = {}
  BY DEF FirewallTypeOK
<1>2. FirewallTypeOK'
  BY <1>1 DEF FirewallTypeOK, Shown, File
<1>3. ShownIsStaged' /\ JobShape'
  BY <1>1 DEF ShownIsStaged, Named, Port, JobShape
<1>4. ASSUME exact' PROVE Tidy'
  BY <1>1, <1>4 DEF Tidy, Complete, Unique, AllKnown, Planned, Named
<1> QED  BY <1>2, <1>3, <1>4

LEMMA CommitFailsKeeps == FirewallInv /\ CommitFails => FirewallInv'
<1> SUFFICES ASSUME FirewallInv, CommitFails PROVE FirewallInv'  OBVIOUS
<1> USE DEF CommitFails, Changed, FirewallInv, NoJob
<1>1. faults' \in [DOMAIN Faults -> Nat]
  BY FaultType DEF FirewallTypeOK, FirewallFaults
<1>2. FirewallTypeOK'
  BY <1>1 DEF FirewallTypeOK, Shown, File, uci
<1>3. ShownIsStaged' /\ JobShape'
  BY DEF ShownIsStaged, Named, Port, JobShape, uci
<1>4. ASSUME exact' PROVE Tidy'
  BY <1>4 DEF Tidy, Complete, Unique, AllKnown, Planned, Named, uci, JobShape
<1> QED  BY <1>2, <1>3, <1>4

LEMMA ReloadKeeps == FirewallInv /\ ReloadFirewall => FirewallInv'
<1> SUFFICES ASSUME FirewallInv, ReloadFirewall PROVE FirewallInv'  OBVIOUS
<1> USE DEF ReloadFirewall, FirewallInv, NoJob
<1>1. faults' \in [DOMAIN Faults -> Nat] /\ exact' \in BOOLEAN /\ File(effective')
  <2>1. CASE UNCHANGED <<exact, faults>> /\ effective' = committed
    BY <2>1 DEF FirewallTypeOK
  <2>2. CASE Fault("command") /\ exact' = FALSE /\ UNCHANGED effective
    BY <2>2, FaultType DEF FirewallTypeOK, FirewallFaults
  <2> QED  BY <2>1, <2>2
<1>2. FirewallTypeOK'
  BY <1>1 DEF FirewallTypeOK, Shown, File
<1>3. ShownIsStaged' /\ JobShape'
  BY DEF ShownIsStaged, Named, Port, JobShape
<1>4. ASSUME exact' PROVE Tidy'
  BY <1>4 DEF Tidy, Complete, Unique, AllKnown, Planned, Named, JobShape
<1> QED  BY <1>2, <1>3, <1>4

LEMMA DiesKeeps ==
    ASSUME FirewallInv, ManagerDies, faults' \in [DOMAIN Faults -> Nat]
    PROVE  FirewallInv'
<1> USE DEF ManagerDies, Forgotten, FirewallInv, NoJob, Nothing
<1>1. FirewallTypeOK'
  BY DEF FirewallTypeOK, Shown, File, uci
<1>2. ShownIsStaged' /\ JobShape'
  BY DEF ShownIsStaged, JobShape
<1>3. ASSUME exact' PROVE Tidy'
  BY <1>3 DEF Tidy, Complete, Unique, uci
<1> QED  BY <1>1, <1>2, <1>3

LEMMA RebootKeeps ==
    ASSUME FirewallInv, Reboot, faults' \in [DOMAIN Faults -> Nat]
    PROVE  FirewallInv'
<1> USE DEF Reboot, Forgotten, FirewallInv, NoJob, Nothing
<1>1. FirewallTypeOK'
  BY DEF FirewallTypeOK, Shown, File
<1>2. ShownIsStaged' /\ JobShape'
  BY DEF ShownIsStaged, JobShape
<1>3. ASSUME exact' PROVE Tidy'
  BY <1>3 DEF Tidy, Complete, Unique
<1> QED  BY <1>1, <1>2, <1>3

LEMMA StepKeeps == FirewallInv /\ [FirewallNext]_fwVars => FirewallInv'
<1> SUFFICES ASSUME FirewallInv, [FirewallNext]_fwVars PROVE FirewallInv'  OBVIOUS
<1>1. ASSUME NEW src \in Sources, NEW rules \in [Keys -> Ports \cup {None}], Report(src, rules)
      PROVE  FirewallInv'
  BY <1>1, ReportKeeps
<1>2. CASE Reconcile
  <2>1. ASSUME NEW k \in Keys, Delete(k) PROVE FirewallInv'  BY <2>1, DeleteKeeps
  <2>2. ASSUME NEW k \in Keys, DeleteFails(k) PROVE FirewallInv'  BY <2>2, DeleteFailsKeeps
  <2>3. ASSUME NEW k \in Keys, Add(k) PROVE FirewallInv'  BY <2>3, AddKeeps
  <2>4. ASSUME NEW k \in Keys, NEW n \in 0..(Attributes - 1), AddFails(k, n) PROVE FirewallInv'
    BY <2>4, AddFailsKeeps
  <2> QED  BY <1>2, <2>1, <2>2, <2>3, <2>4, CommitKeeps, CommitFailsKeeps, ReloadKeeps DEF Reconcile
<1>3. CASE (ManagerDies \/ Reboot) /\ (Fault("restart") \/ UNCHANGED faults)
  <2>1. faults' \in [DOMAIN Faults -> Nat]
    <3>1. CASE Fault("restart")
      BY <3>1, FaultType DEF FirewallInv, FirewallTypeOK, FirewallFaults
    <3>2. CASE UNCHANGED faults
      BY <3>2 DEF FirewallInv, FirewallTypeOK
    <3> QED  BY <1>3, <3>1, <3>2
  <2> QED  BY <1>3, <2>1, DiesKeeps, RebootKeeps
<1>4. CASE UNCHANGED fwVars
  BY <1>4 DEF fwVars, manager, uci, FirewallInv, FirewallTypeOK, ShownIsStaged, JobShape, Tidy,
              Complete, Unique, AllKnown, Planned, Named, Port, File, Shown
<1> QED  BY <1>1, <1>2, <1>3, <1>4 DEF FirewallNext

\* The strengthened invariant holds always.
THEOREM FirewallInvariant == FirewallSpec => []FirewallInv
  BY InitHolds, StepKeeps, PTL DEF FirewallSpec

-----------------------------------------------------------------------------
(* The properties                                                          *)

\* At rest, with what is loaded equal to what is staged, and that to what is shown.
LEMMA InvImpliesOpen == FirewallInv => OpenAsWanted
<1> SUFFICES ASSUME FirewallInv, job = NoJob, scanned, ~pendingCommit, exact
             PROVE  Opens(effective) = Wanted(wanted)
  BY DEF OpenAsWanted
<1>1. /\ Complete(staged) /\ Unique(staged) /\ AllKnown /\ effective = staged
      /\ \A k \in Keys : added[k] = wanted[k]
  BY DEF FirewallInv, Tidy, Planned, NoJob
<1>2. \A s \in DOMAIN staged : /\ staged[s].set = Attributes /\ staged[s].key \in Keys
                               /\ s \in Named(staged, staged[s].key)
                               /\ Port(staged[s]) = staged[s].port
  BY <1>1 DEF FirewallInv, FirewallTypeOK, File, Section, Complete, Named, Port, Attributes
<1>3. \A s \in DOMAIN staged : added[staged[s].key] = staged[s].port
  <2> SUFFICES ASSUME NEW s \in DOMAIN staged PROVE added[staged[s].key] = staged[s].port
    OBVIOUS
  <2>1. added[staged[s].key] # None
    BY <1>1, <1>2 DEF AllKnown
  <2>2. PICK t \in Named(staged, staged[s].key) : Port(staged[t]) = added[staged[s].key]
    BY <1>2, <2>1 DEF FirewallInv, ShownIsStaged
  <2>3. t = s
    BY <1>1, <2>2 DEF Unique, Named
  <2> QED  BY <1>2, <2>2, <2>3
<1>4. \A k \in Keys : wanted[k] # None =>
         \E s \in DOMAIN staged : staged[s].key = k /\ staged[s].port = wanted[k]
  BY <1>1, <1>2 DEF FirewallInv, ShownIsStaged, Named
<1>5. \A s \in DOMAIN staged : wanted[staged[s].key] = staged[s].port /\ wanted[staged[s].key] # None
  <2>1. \A s \in DOMAIN staged : staged[s].port # None
    BY <1>2, PortType DEF FirewallInv, FirewallTypeOK
  <2> QED  BY <1>1, <1>2, <1>3, <2>1
<1>6. Opens(staged) = {<<staged[s].key, staged[s].port>> : s \in DOMAIN staged}
  BY <1>2 DEF Opens
<1>7. Opens(staged) \subseteq Wanted(wanted)
  BY <1>2, <1>5, <1>6 DEF Wanted
<1>8. Wanted(wanted) \subseteq Opens(staged)
  BY <1>4, <1>6 DEF Wanted
<1> QED  BY <1>1, <1>7, <1>8

\* Every reachable state of the manager and of uci has its type.
THEOREM FirewallTypeCorrect == FirewallSpec => []FirewallTypeOK
  BY FirewallInvariant, PTL DEF FirewallInv

\* Whatever commands fail and whenever the program dies, every rule that the status page
\* shows has a section in the configuration.
THEOREM ShownIsInConfiguration == FirewallSpec => []ShownIsStaged
  BY FirewallInvariant, PTL DEF FirewallInv

\* After any reports, restarts and commits that were made good, the firewall at rest opens
\* exactly what its sources want.
THEOREM OpensWhatIsWanted == FirewallSpec => []OpenAsWanted
  BY FirewallInvariant, InvImpliesOpen, PTL

-----------------------------------------------------------------------------
(* Port forwarding                                                         *)

\* What is remembered for a rollback, and whose rules are being started.
Shape(q) ==
    /\ q.undo.op \in {"put", "toggle"} => q.undo.conf \in Conf
    /\ q.pc = "put" => q.undo.op = "put"
    /\ q.pc = "rollback" => q.undo.op # "none"
    /\ q.pc # "start" => q.todo = {}
    /\ \A i \in q.todo : q.snap[i] # NoRule

Starting(p) == At(p, "start") => mu = p /\ \A i \in proc[p].todo : running[i] = 0

\* Requests are served when main has started everything.
Booting == proc[Main].pc \notin Late => \A q \in Requests : At(q, "idle")

ForwardInv ==
    /\ ForwardTypeOK /\ NoListenerForgotten /\ Booting
    /\ \A p \in Procs : Shape(proc[p]) /\ Starting(p)

-----------------------------------------------------------------------------

LEMMA LimitType ==
    ASSUME limits \in [DOMAIN Limits -> Nat], NEW what \in ForwardLimits, Spend(what)
    PROVE  limits' \in [DOMAIN Limits -> Nat]
  BY ForwardAssumption DEF Spend

LEMMA NoUndoType == NoUndo \in Undo /\ NoUndo.op = "none" /\ NoRules \in [Rules -> Conf \cup {NoRule}]
<1>1. (CHOOSE i \in Rules : TRUE) \in Rules
  <2>1. \E i \in Rules : TRUE  BY ForwardAssumption
  <2> QED  BY <2>1
<1> QED  BY <1>1 DEF NoUndo, NoRules, Undo

LEMMA IdleType == Idle \in Process /\ Shape(Idle) /\ Idle.pc = "idle" /\ Idle.stopped = {}
  BY NoUndoType DEF Idle, Process, Late, Shape

\* A process goes on, and leaves the listeners alone. Nobody starts or stops serving.
LEMMA GoesOn ==
    ASSUME ForwardInv, NEW p \in Procs, NEW new \in Process,
           proc' = [proc EXCEPT ![p] = new], UNCHANGED <<running, runners, mu>>,
           forwards' \in [Rules -> Conf \cup {NoRule}], posted' \subseteq Rules,
           failed' \subseteq Rules, met' \in BOOLEAN, limits' \in [DOMAIN Limits -> Nat],
           new.stopped \subseteq DOMAIN runners, Shape(new), new.pc # "start",
           p = Main => new.pc \in Late \/ proc[Main].pc \notin Late,
           p # Main => new.pc = "idle" \/ proc[p].pc # "idle" \/ Serving
    PROVE  ForwardInv'
<1> USE DEF ForwardInv
<1>1. proc' \in [Procs -> Process] /\ proc'[p] = new
      /\ \A q \in Procs \ {p} : proc'[q] = proc[q]
  BY DEF ForwardTypeOK
<1>2. ForwardTypeOK'
  BY <1>1 DEF ForwardTypeOK
<1>3. NoListenerForgotten'
  BY DEF NoListenerForgotten
<1>4. Booting'
  <2>1. Main \in Procs /\ Requests \subseteq Procs /\ Main \notin Requests
    BY ForwardAssumption DEF Procs
  <2> QED  BY <1>1, <2>1 DEF Booting, At, Serving, Late, Procs
<1>5. ASSUME NEW q \in Procs PROVE Shape(proc'[q]) /\ Starting(q)'
  BY <1>1 DEF Starting, At
<1> QED  BY <1>2, <1>3, <1>4, <1>5

-----------------------------------------------------------------------------
(* The steps that leave the listeners alone                                *)

LEMMA TypeOfAt ==
    ASSUME ForwardInv, NEW p \in Procs
    PROVE  /\ proc[p] \in Process /\ Shape(proc[p]) /\ proc[p].stopped \subseteq DOMAIN runners
           /\ Main \in Procs /\ Requests \subseteq Procs \ {Main}
  BY ForwardAssumption DEF ForwardInv, ForwardTypeOK, Procs

LEMMA ReadPreviousKeeps ==
    ASSUME ForwardInv, NEW q \in Requests, NEW e \in Edits, ReadPrevious(q, e)
    PROVE  ForwardInv'
<1> DEFINE u == [op |-> "put", rule |-> e.rule, conf |-> forwards[e.rule]]
           new == [Idle EXCEPT !.pc = "put", !.undo = u]
<1> USE DEF ReadPrevious
<1>1. e.rule \in Rules /\ forwards[e.rule] \in Conf
  BY ForwardAssumption DEF ForwardInv, ForwardTypeOK
<1>2. new \in Process /\ Shape(new) /\ new.stopped = {} /\ new.pc = "put"
  BY <1>1, IdleType DEF Process, Undo, Shape, Late
<1>3. limits' \in [DOMAIN Limits -> Nat]
  BY LimitType DEF ForwardInv, ForwardTypeOK, ForwardLimits
<1>4. met' \in BOOLEAN
  OBVIOUS
<1>5. proc' = [proc EXCEPT ![q] = new]
  OBVIOUS
<1>6. q \in Procs /\ q # Main
  BY ForwardAssumption DEF Procs
<1> HIDE DEF new
<1> QED  BY <1>2, <1>3, <1>4, <1>5, <1>6, GoesOn DEF ForwardInv, ForwardTypeOK

LEMMA PutKeeps ==
    ASSUME ForwardInv, NEW q \in Requests, NEW e \in Edits, Put(q, e)
    PROVE  ForwardInv'
<1> DEFINE new == [proc[q] EXCEPT !.pc = "reload"]
<1> USE DEF Put
<1>1. q \in Procs /\ q # Main /\ proc[q] \in Process /\ Shape(proc[q]) /\ proc[q].stopped \subseteq DOMAIN runners
  BY TypeOfAt, ForwardAssumption DEF Procs
<1>2. new \in Process /\ Shape(new) /\ new.stopped \subseteq DOMAIN runners /\ new.pc = "reload"
  BY <1>1 DEF Process, Shape, At
<1>3. forwards' \in [Rules -> Conf \cup {NoRule}]
  BY ForwardAssumption DEF ForwardInv, ForwardTypeOK
<1>4. proc' = [proc EXCEPT ![q] = new] /\ proc[q].pc # "idle"
  BY DEF Go, At
<1> HIDE DEF new
<1> QED  BY <1>1, <1>2, <1>3, <1>4, GoesOn DEF ForwardInv, ForwardTypeOK

LEMMA PutRefusedKeeps ==
    ASSUME ForwardInv, NEW q \in Requests, PutRefused(q)
    PROVE  ForwardInv'
<1> USE DEF PutRefused
<1>1. q \in Procs /\ q # Main
  BY ForwardAssumption DEF Procs
<1>2. limits' \in [DOMAIN Limits -> Nat]
  BY LimitType DEF ForwardInv, ForwardTypeOK, ForwardLimits
<1> QED  BY <1>1, <1>2, IdleType, GoesOn DEF ForwardInv, ForwardTypeOK

LEMMA EditKeeps ==
    ASSUME ForwardInv, NEW q \in Requests, NEW e \in Edits, Edit(q, e)
    PROVE  ForwardInv'
<1> DEFINE u == IF e.op = "delete" THEN NoUndo
                ELSE [op |-> e.op, rule |-> e.rule, conf |-> forwards[e.rule]]
           new == [Idle EXCEPT !.pc = "reload", !.undo = u]
<1> USE DEF Edit
<1>1. /\ e.op \in {"post", "delete", "toggle"} /\ e.rule \in Rules /\ e.conf \in Conf
      /\ forwards[e.rule] \in Conf \cup {NoRule}
      /\ e.op # "post" => forwards[e.rule] \in Conf
  BY ForwardAssumption DEF ForwardInv, ForwardTypeOK
<1>2. u \in Undo /\ (u.op \in {"put", "toggle"} => u.conf \in Conf)
  BY <1>1, NoUndoType DEF Undo
<1>3. new \in Process /\ Shape(new) /\ new.stopped = {} /\ new.pc = "reload"
  <2> HIDE DEF u
  <2> QED  BY <1>2, IdleType DEF Process, Shape, Late
<1>4. NewValue(e) \in Conf \cup {NoRule}
  <2>1. CASE e.op = "post"  BY <1>1, <2>1 DEF NewValue
  <2>2. CASE e.op = "delete"  BY <2>2 DEF NewValue
  <2>3. CASE e.op = "toggle"
    <3>1. forwards[e.rule] \in Conf  BY <1>1, <2>3
    <3>2. NewValue(e) = [forwards[e.rule] EXCEPT !.enabled = ~@]  BY <2>3 DEF NewValue
    <3> QED  BY <3>1, <3>2 DEF Conf
  <2> QED  BY <1>1, <2>1, <2>2, <2>3
<1>5. forwards' \in [Rules -> Conf \cup {NoRule}] /\ posted' \subseteq Rules
  BY <1>1, <1>4 DEF ForwardInv, ForwardTypeOK
<1>6. limits' \in [DOMAIN Limits -> Nat]
  BY LimitType DEF ForwardInv, ForwardTypeOK, ForwardLimits
<1>7. proc' = [proc EXCEPT ![q] = new] /\ met' \in BOOLEAN
  OBVIOUS
<1>8. q \in Procs /\ q # Main
  BY ForwardAssumption DEF Procs
<1> HIDE DEF new, u
<1> QED  BY <1>3, <1>5, <1>6, <1>7, <1>8, GoesOn DEF ForwardInv, ForwardTypeOK

LEMMA RollbackKeeps ==
    ASSUME ForwardInv, NEW q \in Requests, Rollback(q)
    PROVE  ForwardInv'
<1> DEFINE u == proc[q].undo
           new == [proc[q] EXCEPT !.pc = "reload", !.undo = NoUndo, !.err = FALSE]
<1> USE DEF Rollback
<1>1. q \in Procs /\ q # Main /\ proc[q] \in Process /\ Shape(proc[q]) /\ proc[q].stopped \subseteq DOMAIN runners
  BY TypeOfAt, ForwardAssumption DEF Procs
<1>2. new \in Process /\ Shape(new) /\ new.stopped \subseteq DOMAIN runners /\ new.pc = "reload"
  BY <1>1, NoUndoType DEF Process, Shape, At
<1>3. u \in Undo /\ u.op # "none" /\ (u.op \in {"put", "toggle"} => u.conf \in Conf)
  BY <1>1 DEF Process, Shape, At
<1>4. Undone(u) \in [Rules -> Conf \cup {NoRule}]
  <2> HIDE DEF u
  <2>0. u.rule \in Rules /\ u.op \in {"post", "put", "toggle"} /\ forwards \in [Rules -> Conf \cup {NoRule}]
    BY SMTT(40), <1>3 DEF Undo, ForwardInv, ForwardTypeOK
  <2>1. CASE u.op = "post" \/ forwards[u.rule] = NoRule  BY <2>0, <2>1 DEF Undone
  <2>3. CASE u.op = "put" /\ forwards[u.rule] # NoRule  BY <1>3, <2>0, <2>3 DEF Undone
  <2>4. CASE u.op = "toggle" /\ forwards[u.rule] # NoRule
    <3>1. forwards[u.rule] \in Conf /\ u.conf.enabled \in BOOLEAN  BY SMTT(40), <1>3, <2>0, <2>4 DEF Conf
    <3>2. Undone(u) = [forwards EXCEPT ![u.rule] = [forwards[u.rule] EXCEPT !.enabled = u.conf.enabled]]
      BY <2>4 DEF Undone
    <3>3. [forwards[u.rule] EXCEPT !.enabled = u.conf.enabled] \in Conf  BY <3>1 DEF Conf
    <3> QED  BY <2>0, <3>2, <3>3
  <2> QED  BY <2>0, <2>1, <2>3, <2>4
<1>5. forwards' \in [Rules -> Conf \cup {NoRule}] /\ limits' \in [DOMAIN Limits -> Nat]
  BY <1>4, LimitType DEF ForwardInv, ForwardTypeOK, ForwardLimits
<1>6. proc' = [proc EXCEPT ![q] = new] /\ proc[q].pc # "idle"
  BY DEF At
<1> HIDE DEF new
<1> QED  BY <1>1, <1>2, <1>5, <1>6, GoesOn DEF ForwardInv, ForwardTypeOK

LEMMA ReadKeeps ==
    ASSUME ForwardInv, NEW p \in Procs, ReadRules(p) \/ ReadWanted(p)
    PROVE  ForwardInv'
<1> DEFINE new == [proc[p] EXCEPT !.pc = IF At(p, "reload") THEN "cancel" ELSE "report", !.snap = forwards]
<1> USE DEF ReadRules, ReadWanted
<1>1. proc[p] \in Process /\ Shape(proc[p]) /\ proc[p].stopped \subseteq DOMAIN runners
      /\ proc[p].pc \in {"reload", "sync"}
  BY TypeOfAt DEF At
<1>2. new \in Process /\ Shape(new) /\ new.stopped \subseteq DOMAIN runners /\ new.pc \in {"cancel", "report"}
  BY <1>1 DEF Process, Shape, At, ForwardInv, ForwardTypeOK
<1>3. proc' = [proc EXCEPT ![p] = new]
  BY DEF At
<1>4. p = Main => proc[Main].pc \notin Late
  BY <1>1 DEF Late
<1> HIDE DEF new
<1> QED  BY <1>1, <1>2, <1>3, <1>4, GoesOn DEF ForwardInv, ForwardTypeOK

LEMMA SyncKeeps == ASSUME ForwardInv, NEW p \in Procs, Sync(p) PROVE ForwardInv'
<1> DEFINE new == [proc[p] EXCEPT !.pc = "reported", !.snap = NoRules]
<1> USE DEF Sync
<1>1. proc[p] \in Process /\ Shape(proc[p]) /\ proc[p].stopped \subseteq DOMAIN runners /\ proc[p].pc = "report"
  BY TypeOfAt DEF At
<1>2. new \in Process /\ Shape(new) /\ new.stopped \subseteq DOMAIN runners /\ new.pc = "reported"
  BY <1>1, NoUndoType DEF Process, Shape
<1>3. p = Main => proc[Main].pc \notin Late
  BY <1>1 DEF Late
<1>4. proc' = [proc EXCEPT ![p] = new]
  OBVIOUS
<1> HIDE DEF new
<1> QED  BY <1>1, <1>2, <1>3, <1>4, GoesOn DEF ForwardInv, ForwardTypeOK

LEMMA AnswerKeeps == ASSUME ForwardInv, NEW p \in Procs, Answer(p) PROVE ForwardInv'
<1> DEFINE new == IF proc[p].err /\ proc[p].undo.op # "none" THEN [proc[p] EXCEPT !.pc = "rollback"] ELSE Idle
<1> USE DEF Answer
<1>1. proc[p] \in Process /\ Shape(proc[p]) /\ proc[p].stopped \subseteq DOMAIN runners /\ proc[p].pc = "reported"
  BY TypeOfAt DEF At
<1>2. new \in Process /\ Shape(new) /\ new.stopped \subseteq DOMAIN runners /\ new.pc \in {"rollback", "idle"}
  BY <1>1, IdleType DEF Process, Shape
<1>3. p = Main => proc[Main].pc \notin Late
  BY <1>1 DEF Late
<1>4. proc' = [proc EXCEPT ![p] = new]
  OBVIOUS
<1> HIDE DEF new
<1> QED  BY <1>1, <1>2, <1>3, <1>4, GoesOn DEF ForwardInv, ForwardTypeOK

\* main goes from one step to the next.
LEMMA MainGoesOn ==
    ASSUME ForwardInv, NEW to \in {"reload", "drained", "closing", "closed"}, Go(Main, to),
           to = "reload" => At(Main, "boot"),
           UNCHANGED <<forwards, posted, running, runners, mu, failed, met, limits>>,
           ~At(Main, "start")
    PROVE  ForwardInv'
<1> DEFINE new == [proc[Main] EXCEPT !.pc = to]
<1>1. /\ Main \in Procs /\ proc[Main] \in Process /\ Shape(proc[Main])
      /\ proc[Main].stopped \subseteq DOMAIN runners
  BY TypeOfAt DEF Procs
<1>2. new \in Process /\ Shape(new) /\ new.stopped \subseteq DOMAIN runners /\ new.pc = to
  BY <1>1 DEF Process, Shape, Late, At
<1>3. new.pc \in Late \/ proc[Main].pc \notin Late
  BY <1>2 DEF Late, At
<1>4. proc' = [proc EXCEPT ![Main] = new]
  BY DEF Go
<1> HIDE DEF new
<1> QED  BY <1>1, <1>2, <1>3, <1>4, GoesOn DEF ForwardInv, ForwardTypeOK

-----------------------------------------------------------------------------
(* The steps that stop and start listeners                                 *)

\* Runners of some rules are cancelled and forgotten: by Reload and by Stop.
LEMMA CancelKeeps ==
    ASSUME ForwardInv, NEW K \in SUBSET Rules, NEW p \in Procs, NEW new \in Process,
           runners' = [k \in DOMAIN runners |->
               IF \E i \in K : running[i] = k THEN [runners[k] EXCEPT !.cancelled = TRUE] ELSE runners[k]],
           running' = [i \in Rules |-> IF i \in K THEN 0 ELSE running[i]],
           proc' = [proc EXCEPT ![p] = new],
           new.stopped \subseteq DOMAIN runners, Shape(new), new.pc # "start",
           p = Main => new.pc \in Late \/ proc[Main].pc \notin Late,
           p # Main => proc[p].pc # "idle",
           UNCHANGED <<forwards, posted, mu, failed>>, met' \in BOOLEAN,
           limits' \in [DOMAIN Limits -> Nat]
    PROVE  ForwardInv'
<1> USE DEF ForwardInv
<1>1. proc' \in [Procs -> Process] /\ proc'[p] = new /\ \A q \in Procs \ {p} : proc'[q] = proc[q]
  BY DEF ForwardTypeOK
<1>2. runners \in Seq(Runner) /\ DOMAIN runners = 1..Len(runners) /\ Len(runners) \in Nat
  BY DEF ForwardTypeOK
<1>3. \A k \in DOMAIN runners : runners[k] \in Runner
  BY <1>2
<1>4. \A k \in DOMAIN runners : runners'[k] \in Runner /\ runners'[k].rule = runners[k].rule
  BY <1>3 DEF Runner
<1>5. runners' \in Seq(Runner) /\ Len(runners') = Len(runners) /\ DOMAIN runners' = DOMAIN runners
  BY <1>2, <1>4
<1>6. running' \in [Rules -> 0..Len(runners')]
  BY <1>2, <1>5 DEF ForwardTypeOK
<1>7. ForwardTypeOK'
  BY <1>1, <1>5, <1>6 DEF ForwardTypeOK
<1>8. NoListenerForgotten'
  <2> SUFFICES ASSUME NEW k \in DOMAIN runners, ~runners'[k].cancelled
               PROVE  running'[runners'[k].rule] = k
    BY <1>5 DEF NoListenerForgotten
  <2>1. ~(\E i \in K : running[i] = k) /\ runners'[k] = runners[k]
    BY <1>3 DEF Runner
  <2>2. running[runners[k].rule] = k /\ runners[k].rule \in Rules
    BY <1>3, <2>1 DEF NoListenerForgotten, Runner
  <2> QED  BY <2>1, <2>2
<1>9. Booting'
  <2>1. Main \in Procs /\ Requests \subseteq Procs /\ Main \notin Requests
    BY ForwardAssumption DEF Procs
  <2> QED  BY <1>1, <2>1 DEF Booting, At
<1>10. ASSUME NEW q \in Procs PROVE Shape(proc'[q]) /\ Starting(q)'
  <2>1. \A i \in Rules : running[i] = 0 => running'[i] = 0
    OBVIOUS
  <2>2. proc[q].todo \subseteq Rules
    BY DEF ForwardTypeOK, Process
  <2> QED  BY <1>1, <2>1, <2>2 DEF Starting, At
<1> QED  BY <1>7, <1>8, <1>9, <1>10

LEMMA CancelChangedKeeps == ASSUME ForwardInv, NEW p \in Procs, CancelChanged(p) PROVE ForwardInv'
<1> DEFINE K == {i \in Rules : Stale(p, i)}
           new == [proc[p] EXCEPT !.pc = "wait", !.stopped = {running[i] : i \in K}]
<1>1. proc[p] \in Process /\ Shape(proc[p]) /\ proc[p].pc = "cancel"
  BY TypeOfAt DEF At, CancelChanged
<1>2. new.stopped \subseteq DOMAIN runners
  <2>1. \A i \in K : running[i] \in 0..Len(runners) /\ running[i] # 0
    BY DEF ForwardInv, ForwardTypeOK, Stale
  <2>2. DOMAIN runners = 1..Len(runners) /\ Len(runners) \in Nat
    BY DEF ForwardInv, ForwardTypeOK
  <2>3. \A i \in K : running[i] \in DOMAIN runners
    BY <2>1, <2>2
  <2>4. new.stopped = {running[i] : i \in K}
    BY <1>1 DEF Process
  <2> QED  BY <2>3, <2>4
<1>3. new \in Process /\ Shape(new) /\ new.pc = "wait"
  <2>1. DOMAIN runners \subseteq Nat
    BY DEF ForwardInv, ForwardTypeOK
  <2>2. {running[i] : i \in K} \in SUBSET Nat
    BY <1>1, <1>2, <2>1 DEF Process
  <2> QED  BY <1>1, <2>2 DEF Process, Shape
<1>4. p = Main => proc[Main].pc \notin Late
  BY <1>1 DEF Late
<1>5. proc' = [proc EXCEPT ![p] = new]
  BY DEF CancelChanged
<1>6. /\ runners' = [k \in DOMAIN runners |->
             IF \E i \in K : running[i] = k THEN [runners[k] EXCEPT !.cancelled = TRUE] ELSE runners[k]]
      /\ running' = [i \in Rules |-> IF i \in K THEN 0 ELSE running[i]]
      /\ UNCHANGED <<forwards, posted, mu, failed, met, limits>>
  BY DEF CancelChanged
<1>7. K \in SUBSET Rules /\ proc[p].pc # "idle"
  BY <1>1
<1> HIDE DEF new, K
<1> QED  BY <1>1, <1>2, <1>3, <1>4, <1>5, <1>6, <1>7, CancelKeeps DEF ForwardInv, ForwardTypeOK

LEMMA StopKeeps == ForwardInv /\ Stop => ForwardInv'
<1> SUFFICES ASSUME ForwardInv, Stop PROVE ForwardInv'  OBVIOUS
<1> DEFINE new == [proc[Main] EXCEPT !.pc = "stopping"]
<1>1. /\ Main \in Procs /\ proc[Main] \in Process /\ Shape(proc[Main])
      /\ proc[Main].stopped \subseteq DOMAIN runners /\ proc[Main].pc = "idle"
  BY TypeOfAt DEF Procs, Stop, Serving, At
<1>2. new \in Process /\ Shape(new) /\ new.stopped \subseteq DOMAIN runners /\ new.pc = "stopping"
  BY <1>1 DEF Process, Shape, Late
<1>3. new.pc \in Late
  BY <1>2 DEF Late
<1>4. /\ runners' = [k \in DOMAIN runners |->
             IF \E i \in Rules : running[i] = k THEN [runners[k] EXCEPT !.cancelled = TRUE] ELSE runners[k]]
      /\ running' = [i \in Rules |-> IF i \in Rules THEN 0 ELSE running[i]]
      /\ UNCHANGED <<forwards, posted, mu, failed>>
  BY DEF Stop
<1>5. proc' = [proc EXCEPT ![Main] = new]
  BY DEF Stop, Go
<1>6. met' \in BOOLEAN
  BY DEF Stop
<1>7. limits' \in [DOMAIN Limits -> Nat]
  BY LimitType DEF Stop, ForwardInv, ForwardTypeOK, ForwardLimits
<1> HIDE DEF new
<1> QED  BY <1>1, <1>2, <1>3, <1>4, <1>5, <1>6, <1>7, CancelKeeps

\* Only one process starts listeners: while main does, no request is served.
LEMMA AwaitStoppedKeeps == ASSUME ForwardInv, NEW p \in Procs, AwaitStopped(p) PROVE ForwardInv'
<1> DEFINE new == [proc[p] EXCEPT !.pc = "start", !.stopped = {}, !.todo = ToStart(p)]
<1> USE DEF ForwardInv
<1>1. proc[p] \in Process /\ Shape(proc[p]) /\ proc[p].pc = "wait" /\ mu = Main
  BY SMTT(40), TypeOfAt DEF At, AwaitStopped, MuFree
<1>2. new \in Process /\ Shape(new) /\ new.stopped = {} /\ new.pc = "start" /\ new.todo = ToStart(p)
  BY <1>1 DEF Process, Shape, ToStart, Enabled
<1>3. /\ proc' = [proc EXCEPT ![p] = new] /\ mu' = p
      /\ UNCHANGED <<forwards, posted, running, runners, failed, met, limits>>
  BY DEF AwaitStopped
<1>4. \A i \in new.todo : running[i] = 0
  BY <1>2 DEF ToStart
<1> HIDE DEF new
<1>5. proc' \in [Procs -> Process] /\ proc'[p] = new /\ \A q \in Procs \ {p} : proc'[q] = proc[q]
  BY <1>2, <1>3 DEF ForwardTypeOK
<1>6. \A q \in Procs \ {p} : proc[q].pc # "start"
  <2> SUFFICES ASSUME NEW q \in Procs \ {p}, proc[q].pc = "start" PROVE FALSE
    OBVIOUS
  <2>1. q = Main
    BY <1>1 DEF Starting, At
  <2>2. p \in Requests
    BY <2>1 DEF Procs
  <2> QED  BY <1>1, <2>1, <2>2 DEF Booting, At, Late
<1>7. ForwardTypeOK'
  BY <1>2, <1>3, <1>5 DEF ForwardTypeOK
<1>8. NoListenerForgotten'
  BY <1>3 DEF NoListenerForgotten
<1>9. Booting'
  <2>1. Main \in Procs /\ Requests \subseteq Procs /\ Main \notin Requests
    BY ForwardAssumption DEF Procs
  <2> QED  BY <1>1, <1>5, <2>1 DEF Booting, At, Late
<1>10. \A q \in Procs : Shape(proc'[q]) /\ Starting(q)'
  BY <1>2, <1>3, <1>4, <1>5, <1>6 DEF Starting, At
<1> QED  BY <1>7, <1>8, <1>9, <1>10

\* A process that is starting goes on: its pc stays, or it is done.
LEMMA StarterGoesOn ==
    ASSUME ForwardInv, NEW p \in Procs, NEW new \in Process,
           At(p, "start") \/ proc[p].todo # {},
           proc' = [proc EXCEPT ![p] = new], new.pc \in {"start", "sync"}, Shape(new),
           new.stopped \subseteq DOMAIN runners, new.todo \subseteq proc[p].todo
    PROVE  /\ proc' \in [Procs -> Process] /\ proc'[p] = new
           /\ \A q \in Procs \ {p} : proc'[q] = proc[q] /\ proc[q].pc # "start"
           /\ mu = p /\ \A i \in new.todo : running[i] = 0
           /\ Booting' /\ \A q \in Procs : Shape(proc'[q])
<1> USE DEF ForwardInv
<1>1. proc' \in [Procs -> Process] /\ proc'[p] = new /\ \A q \in Procs \ {p} : proc'[q] = proc[q]
  BY DEF ForwardTypeOK
<1>2. At(p, "start")
  BY DEF Shape, At
<1>3. mu = p /\ \A i \in new.todo : running[i] = 0
  BY <1>2 DEF Starting
<1>4. \A q \in Procs \ {p} : proc[q].pc # "start"
  BY <1>3 DEF Starting, At
<1>5. Booting'
  <2>1. Main \in Procs /\ Requests \subseteq Procs /\ Main \notin Requests
    BY ForwardAssumption DEF Procs
  <2> QED  BY <1>1, <1>2, <2>1 DEF Booting, At, Late
<1> QED  BY <1>1, <1>3, <1>4, <1>5

LEMMA StartRuleKeeps ==
    ASSUME ForwardInv, NEW p \in Procs, NEW i \in Rules, StartRule(p, i)
    PROVE  ForwardInv'
<1> DEFINE new == [proc[p] EXCEPT !.todo = @ \ {i}]
           r == [rule |-> i, conf |-> proc[p].snap[i], cancelled |-> FALSE, done |-> FALSE]
<1> USE DEF ForwardInv
<1>1. /\ proc[p] \in Process /\ Shape(proc[p]) /\ proc[p].stopped \subseteq DOMAIN runners
      /\ i \in proc[p].todo /\ proc[p].pc = "start"
  BY TypeOfAt DEF Shape, StartRule
<1>2. /\ new \in Process /\ Shape(new) /\ new.stopped \subseteq DOMAIN runners /\ new.pc = "start"
      /\ new.todo = proc[p].todo \ {i}
  BY <1>1 DEF Process, Shape
<1>3. /\ proc' = [proc EXCEPT ![p] = new] /\ running' = [running EXCEPT ![i] = Len(runners) + 1]
      /\ runners' = Append(runners, r) /\ failed' = failed \ {i}
      /\ UNCHANGED <<forwards, posted, mu, met, limits>>
  BY DEF StartRule
<1> HIDE DEF new
<1>4. /\ proc' \in [Procs -> Process] /\ proc'[p] = new
      /\ \A q \in Procs \ {p} : proc'[q] = proc[q] /\ proc[q].pc # "start"
      /\ mu = p /\ \A j \in new.todo : running[j] = 0
      /\ Booting' /\ \A q \in Procs : Shape(proc'[q])
  BY <1>1, <1>2, <1>3, StarterGoesOn
<1>5. running[i] = 0
  BY <1>1 DEF Starting, At
<1>6. r \in Runner
  BY <1>1 DEF Runner, Process, Shape
<1> HIDE DEF r
<1>7. /\ Len(runners) \in Nat /\ DOMAIN runners = 1..Len(runners)
      /\ runners' \in Seq(Runner) /\ Len(runners') = Len(runners) + 1
      /\ DOMAIN runners' = DOMAIN runners \cup {Len(runners) + 1}
      /\ runners'[Len(runners) + 1] = r
      /\ \A k \in DOMAIN runners : runners'[k] = runners[k]
  <2>1. runners \in Seq(Runner)
    BY DEF ForwardTypeOK
  <2> QED  BY <1>3, <1>6, <2>1
<1>8. running' \in [Rules -> 0..Len(runners')]
  BY <1>3, <1>7 DEF ForwardTypeOK
<1>9. ForwardTypeOK'
  BY <1>2, <1>3, <1>4, <1>7, <1>8 DEF ForwardTypeOK
<1>10. NoListenerForgotten'
  <2>1. runners'[Len(runners) + 1].rule = i
    BY <1>7 DEF r
  <2>2. running'[i] = Len(runners) + 1 /\ \A j \in Rules \ {i} : running'[j] = running[j]
    BY <1>3 DEF ForwardTypeOK
  <2>3. \A k \in DOMAIN runners : runners[k].rule \in Rules
    <3>1. \A k \in DOMAIN runners : runners[k] \in Runner
      BY <1>7 DEF ForwardTypeOK
    <3> QED  BY <3>1 DEF Runner
  <2>4. ASSUME NEW k \in DOMAIN runners, ~runners'[k].cancelled PROVE running'[runners'[k].rule] = k
    <3>1. running[runners[k].rule] = k /\ k # 0
      BY <1>7, <2>4 DEF NoListenerForgotten
    <3>2. runners[k].rule # i
      BY <1>5, <3>1
    <3> QED  BY <1>7, <2>2, <2>3, <3>1, <3>2
  <2> QED  BY <1>7, <2>1, <2>2, <2>4 DEF NoListenerForgotten
<1>11. \A q \in Procs : Starting(q)'
  <2>1. \A j \in new.todo : j \in Rules /\ j # i
    BY <1>2 DEF Process
  <2>2. \A j \in new.todo : running'[j] = 0
    BY <1>3, <1>4, <2>1 DEF ForwardTypeOK
  <2> QED  BY <1>3, <1>4, <2>2 DEF Starting, At
<1> QED  BY <1>4, <1>9, <1>10, <1>11

LEMMA StartFailsKeeps ==
    ASSUME ForwardInv, NEW p \in Procs, NEW i \in Rules, StartFails(p, i)
    PROVE  ForwardInv'
<1> DEFINE holders == Holders(proc[p].snap[i].listen)
           h == proc[p].hindered \/ (holders # {} /\ \A k \in holders : runners[k].cancelled)
           new == [proc[p] EXCEPT !.todo = @ \ {i}, !.err = TRUE, !.hindered = h]
<1> USE DEF ForwardInv
<1>1. /\ proc[p] \in Process /\ Shape(proc[p]) /\ proc[p].stopped \subseteq DOMAIN runners
      /\ i \in proc[p].todo /\ proc[p].pc = "start"
  BY TypeOfAt DEF Shape, StartFails
<1>2. /\ new \in Process /\ Shape(new) /\ new.stopped \subseteq DOMAIN runners /\ new.pc = "start"
      /\ new.todo = proc[p].todo \ {i}
  <2>1. h \in BOOLEAN
    OBVIOUS
  <2> HIDE DEF h
  <2> QED  BY <1>1, <2>1 DEF Process, Shape
<1>3. /\ proc' = [proc EXCEPT ![p] = new] /\ failed' = failed \cup {i}
      /\ UNCHANGED <<forwards, posted, running, runners, mu, met>>
  BY DEF StartFails
<1>4. limits' \in [DOMAIN Limits -> Nat]
  <2>1. UNCHANGED limits \/ Spend("fault")
    BY DEF StartFails
  <2> QED  BY <2>1, LimitType DEF ForwardTypeOK, ForwardLimits
<1> HIDE DEF new
<1>5. /\ proc' \in [Procs -> Process] /\ proc'[p] = new
      /\ \A q \in Procs \ {p} : proc'[q] = proc[q] /\ proc[q].pc # "start"
      /\ mu = p /\ \A j \in new.todo : running[j] = 0
      /\ Booting' /\ \A q \in Procs : Shape(proc'[q])
  BY <1>1, <1>2, <1>3, StarterGoesOn
<1>6. ForwardTypeOK'
  BY <1>2, <1>3, <1>4, <1>5 DEF ForwardTypeOK
<1>7. NoListenerForgotten'
  BY <1>3 DEF NoListenerForgotten
<1>8. \A q \in Procs : Starting(q)'
  BY <1>3, <1>5 DEF Starting, At
<1> QED  BY <1>5, <1>6, <1>7, <1>8

LEMMA StartedKeeps == ASSUME ForwardInv, NEW p \in Procs, Started(p) PROVE ForwardInv'
<1> DEFINE new == [proc[p] EXCEPT !.pc = "sync", !.snap = NoRules]
<1> USE DEF ForwardInv
<1>1. /\ proc[p] \in Process /\ Shape(proc[p]) /\ proc[p].stopped \subseteq DOMAIN runners
      /\ proc[p].todo = {} /\ proc[p].pc = "start"
  BY TypeOfAt DEF At, Started
<1>2. /\ new \in Process /\ Shape(new) /\ new.stopped \subseteq DOMAIN runners /\ new.pc = "sync"
      /\ new.todo = {}
  BY <1>1, NoUndoType DEF Process, Shape
<1>3. /\ proc' = [proc EXCEPT ![p] = new] /\ mu' = Main
      /\ UNCHANGED <<forwards, posted, running, runners, failed, met, limits>>
  BY DEF Started
<1> HIDE DEF new
<1>4. /\ proc' \in [Procs -> Process] /\ proc'[p] = new
      /\ \A q \in Procs \ {p} : proc'[q] = proc[q] /\ proc[q].pc # "start"
      /\ Booting' /\ \A q \in Procs : Shape(proc'[q])
  BY <1>1, <1>2, <1>3, StarterGoesOn DEF At
<1>5. ForwardTypeOK'
  BY <1>2, <1>3, <1>4 DEF ForwardTypeOK, Procs
<1>6. NoListenerForgotten'
  BY <1>3 DEF NoListenerForgotten
<1>7. \A q \in Procs : Starting(q)'
  BY <1>2, <1>4 DEF Starting, At
<1> QED  BY <1>4, <1>5, <1>6, <1>7

LEMMA RunnerExitsKeeps ==
    ASSUME ForwardInv, NEW k \in DOMAIN runners, RunnerExits(k)
    PROVE  ForwardInv'
<1> USE DEF ForwardInv, RunnerExits
<1>1. runners \in Seq(Runner) /\ DOMAIN runners = 1..Len(runners) /\ runners[k] \in Runner
  BY DEF ForwardTypeOK
<1>2. [runners[k] EXCEPT !.done = TRUE] \in Runner
  BY <1>1 DEF Runner
<1>3. runners' = [runners EXCEPT ![k] = [runners[k] EXCEPT !.done = TRUE]]
  OBVIOUS
<1>4. runners' \in Seq(Runner) /\ Len(runners') = Len(runners) /\ DOMAIN runners' = DOMAIN runners
  BY <1>1, <1>2, <1>3
<1>5. \A j \in DOMAIN runners : /\ runners'[j].rule = runners[j].rule
                                /\ runners'[j].cancelled = runners[j].cancelled
  BY <1>1, <1>3 DEF Runner
<1>6. ForwardTypeOK'
  BY <1>4 DEF ForwardTypeOK
<1>7. NoListenerForgotten'
  BY <1>4, <1>5 DEF NoListenerForgotten
<1> QED  BY <1>6, <1>7 DEF Booting, Starting, At

LEMMA EndKeeps == ForwardInv /\ ForwardsEnd => ForwardInv'
<1> SUFFICES ASSUME ForwardInv, ForwardsEnd PROVE ForwardInv'  OBVIOUS
<1> DEFINE new == [Idle EXCEPT !.pc = "boot"]
<1> USE DEF ForwardInv, ForwardsEnd
<1>1. Main \in Procs /\ Requests \subseteq Procs /\ Main \notin Requests
  BY ForwardAssumption DEF Procs
<1>2. new \in Process /\ Shape(new) /\ new.pc = "boot" /\ new.stopped = {}
  BY IdleType DEF Process, Shape
<1>3. proc' = [[p \in Procs |-> Idle] EXCEPT ![Main] = new]
  OBVIOUS
<1> HIDE DEF new
<1>4. proc'[Main] = new /\ \A p \in Procs \ {Main} : proc'[p] = Idle
  BY <1>1, <1>3
<1>5. proc' \in [Procs -> Process]
  BY <1>1, <1>2, <1>3, IdleType
<1>6. ForwardTypeOK'
  <2>1. runners' \in Seq(Runner) /\ Len(runners') = 0
    OBVIOUS
  <2>2. running' \in [Rules -> 0..Len(runners')]
    BY <2>1
  <2>3. \A p \in Procs : proc'[p].stopped \subseteq DOMAIN runners'
    BY <1>2, <1>4, IdleType
  <2> QED  BY <1>1, <1>5, <2>1, <2>2, <2>3, ForwardAssumption DEF ForwardTypeOK
<1>7. NoListenerForgotten'
  BY DEF NoListenerForgotten
<1>8. Booting'
  BY <1>1, <1>4, IdleType DEF Booting, At
<1>9. \A p \in Procs : Shape(proc'[p]) /\ Starting(p)'
  BY <1>2, <1>4, IdleType DEF Starting, At
<1> QED  BY <1>6, <1>7, <1>8, <1>9

LEMMA ForwardInitHolds == ForwardInit => ForwardInv
<1> SUFFICES ASSUME ForwardInit PROVE ForwardInv  OBVIOUS
<1> DEFINE new == [Idle EXCEPT !.pc = "boot"]
<1> USE DEF ForwardInv, ForwardInit
<1>1. Main \in Procs /\ Requests \subseteq Procs /\ Main \notin Requests
  BY ForwardAssumption DEF Procs
<1>2. new \in Process /\ Shape(new) /\ new.pc = "boot" /\ new.stopped = {}
  BY IdleType DEF Process, Shape
<1>3. proc = [[p \in Procs |-> Idle] EXCEPT ![Main] = new]
  OBVIOUS
<1> HIDE DEF new
<1>4. proc[Main] = new /\ \A p \in Procs \ {Main} : proc[p] = Idle
  BY <1>1, <1>3
<1>5. proc \in [Procs -> Process]
  BY <1>1, <1>2, <1>3, IdleType
<1>6. ForwardTypeOK
  <2>1. runners \in Seq(Runner) /\ Len(runners) = 0
    OBVIOUS
  <2>2. running \in [Rules -> 0..Len(runners)]
    BY <2>1
  <2>3. \A p \in Procs : proc[p].stopped \subseteq DOMAIN runners
    BY <1>2, <1>4, IdleType
  <2> QED  BY <1>1, <1>5, <2>1, <2>2, <2>3, ForwardAssumption DEF ForwardTypeOK
<1>7. NoListenerForgotten
  BY DEF NoListenerForgotten
<1>8. Booting
  BY <1>1, <1>4, IdleType DEF Booting, At
<1>9. \A p \in Procs : Shape(proc[p]) /\ Starting(p)
  BY <1>2, <1>4, IdleType DEF Starting, At
<1> QED  BY <1>6, <1>7, <1>8, <1>9

-----------------------------------------------------------------------------
(* Every step of the whole                                                 *)

LEMMA ForwardUnchanged == ForwardInv /\ UNCHANGED fwdVars => ForwardInv'
  BY DEF ForwardInv, fwdVars, ForwardTypeOK, NoListenerForgotten, Booting, Starting, At

LEMMA ForwardStepKeeps == ForwardInv /\ [Next]_vars => ForwardInv'
<1> SUFFICES ASSUME ForwardInv, [Next]_vars PROVE ForwardInv'  OBVIOUS
<1> DEFINE Steady == UNCHANGED <<forwards, posted, running, runners, mu, failed, met, limits>>
<1>1. ASSUME NEW q \in Requests, Request(q) PROVE ForwardInv'
  BY <1>1, ReadPreviousKeeps, PutKeeps, EditKeeps, PutRefusedKeeps, RollbackKeeps DEF Request
<1>2. ASSUME NEW p \in Procs, Reload(p) PROVE ForwardInv'
  BY <1>2, ReadKeeps, CancelChangedKeeps, AwaitStoppedKeeps, StartRuleKeeps, StartFailsKeeps,
     StartedKeeps DEF Reload
<1>3. ASSUME NEW p \in Procs, SyncFirewall(p) \/ Return(p) PROVE ForwardInv'
  BY <1>3, SyncKeeps, AnswerKeeps DEF SyncFirewall, Return
<1>4. ASSUME NEW k \in DOMAIN runners, RunnerExits(k) PROVE ForwardInv'
  BY <1>4, RunnerExitsKeeps
<1>5. CASE UNCHANGED fwdVars
  BY <1>5, ForwardUnchanged
<1>6. CASE StartWeb
  BY <1>6, MainGoesOn DEF StartWeb, Boot, At
<1>7. CASE Stop
  BY <1>7, StopKeeps
<1>8. CASE Drained
  BY <1>8, MainGoesOn DEF Drained, At
<1>9. CASE CloseForwards \/ CloseWeb
  BY <1>9, MainGoesOn DEF CloseForwards, CloseWeb, Closed, At
<1>10. CASE Exit \/ Crash
  BY <1>10, EndKeeps DEF Exit, Crash
<1>11. [Next]_vars <=>
         \/ \E q \in Requests : Request(q) /\ UNCHANGED fwVars
         \/ \E p \in Procs : Reload(p) /\ UNCHANGED fwVars
         \/ \E p \in Procs : SyncFirewall(p) \/ Return(p)
         \/ \E k \in DOMAIN runners : RunnerExits(k) /\ UNCHANGED fwVars
         \/ Reconcile /\ UNCHANGED fwdVars
         \/ StartWeb
         \/ (Stop \/ Drained) /\ UNCHANGED fwVars
         \/ CloseForwards \/ CloseWeb
         \/ Exit \/ Crash
         \/ UNCHANGED <<fwdVars, fwVars>>
  BY DEF Next, vars
<1> QED  BY <1>1, <1>2, <1>3, <1>4, <1>5, <1>6, <1>7, <1>8, <1>9, <1>10, <1>11

\* The strengthened invariant of port forwarding holds always.
THEOREM ForwardInvariant == Spec => []ForwardInv
<1>1. Init => ForwardInv
  BY ForwardInitHolds DEF Init
<1> QED  BY <1>1, ForwardStepKeeps, PTL DEF Spec

\* However reloads, Stop and restarts overlap, a listener that was not cancelled is the one
\* its rule is known by.
THEOREM EveryListenerIsKnown == Spec => []NoListenerForgotten
  BY ForwardInvariant, PTL DEF ForwardInv

\* A step gives a value only to rules that have one, and to rules never added before.
LEMMA StepKeepsDeleted ==
    ASSUME ForwardInv, Next
    PROVE  \A i \in posted : forwards[i] = NoRule => forwards'[i] = NoRule
<1> SUFFICES ASSUME NEW i \in posted, forwards[i] = NoRule PROVE forwards'[i] = NoRule  OBVIOUS
<1>1. i \in Rules /\ forwards \in [Rules -> Conf \cup {NoRule}]
  BY DEF ForwardInv, ForwardTypeOK
<1>2. ASSUME NEW q \in Requests, NEW e \in Edits, ReadPrevious(q, e) \/ Put(q, e)
      PROVE  forwards'[i] = NoRule
  BY <1>1, <1>2, ForwardAssumption DEF ReadPrevious, Put
<1>3. ASSUME NEW q \in Requests, NEW e \in Edits, Edit(q, e) PROVE forwards'[i] = NoRule
  <2>1. i # e.rule \/ e.op = "delete"
    BY <1>3, ForwardAssumption DEF Edit
  <2>2. e.op = "delete" => NewValue(e) = NoRule
    BY DEF NewValue
  <2> QED  BY <1>1, <1>3, <2>1, <2>2 DEF Edit
<1>4. ASSUME NEW q \in Requests, Rollback(q) PROVE forwards'[i] = NoRule
  <2> DEFINE u == proc[q].undo
  <2>0. q \in Procs
    BY DEF Procs
  <2>1. u \in Undo /\ u.op # "none"
    <3>1. proc[q] \in Process /\ Shape(proc[q])
      BY <2>0, TypeOfAt
    <3>2. proc[q].pc = "rollback"
      BY <1>4 DEF Rollback, At
    <3> QED  BY <3>1, <3>2 DEF Shape, Process
  <2> HIDE DEF u
  <2>2. u.rule \in Rules /\ u.op \in {"post", "put", "toggle"}
    BY <2>1 DEF Undo
  <2>3. Undone(u)[i] = NoRule
    <3>1. CASE u.op = "post" \/ forwards[u.rule] = NoRule  BY <1>1, <2>2, <3>1 DEF Undone
    <3>2. CASE u.op = "put" /\ forwards[u.rule] # NoRule  BY <1>1, <2>2, <3>2 DEF Undone
    <3>3. CASE u.op = "toggle" /\ forwards[u.rule] # NoRule
      <4>1. Undone(u) = [forwards EXCEPT ![u.rule] = [forwards[u.rule] EXCEPT !.enabled = u.conf.enabled]]
        BY <3>3 DEF Undone
      <4> QED  BY <1>1, <2>2, <3>3, <4>1
    <3> QED  BY <2>2, <3>1, <3>2, <3>3
  <2> QED  BY <1>4, <2>3 DEF Rollback, u
<1>5. ASSUME NEW q \in Requests, PutRefused(q) PROVE forwards'[i] = NoRule
  BY SMTT(40), <1>5 DEF PutRefused
<1>6. ASSUME NEW p \in Procs, Reload(p) \/ SyncFirewall(p) \/ Return(p) PROVE forwards'[i] = NoRule
  BY <1>6 DEF Reload, ReadRules, CancelChanged, AwaitStopped, StartRule, StartFails, Started,
              ReadWanted, SyncFirewall, Sync, Return, Answer
<1>7. CASE \/ \E k \in DOMAIN runners : RunnerExits(k)
           \/ StartWeb \/ Stop \/ Drained \/ CloseForwards \/ CloseWeb \/ Exit \/ Crash
  BY <1>7 DEF RunnerExits, StartWeb, Boot, Stop, Drained, CloseForwards, CloseWeb, Closed, Exit,
              Crash, ForwardsEnd
<1>8. CASE UNCHANGED fwdVars
  BY <1>8 DEF fwdVars
<1> QED  BY <1>2, <1>3, <1>4, <1>5, <1>6, <1>7, <1>8 DEF Next, Request

\* No rollback, in whatever order requests overlap, brings back a rule that was deleted.
THEOREM NoRuleComesBack == Spec => DeletedStaysDeleted
<1>1. ForwardInv /\ [Next]_vars
        => [\A i \in posted : forwards[i] = NoRule => forwards'[i] = NoRule]_fwdVars
  BY StepKeepsDeleted DEF vars
<1> QED  BY <1>1, ForwardInvariant, PTL DEF Spec, DeletedStaysDeleted

\* What is reported to the manager is what a source may report.
LEMMA ReportType ==
    ASSUME NEW rules, \A k \in DOMAIN rules \cap Keys : rules[k] \in Ports
    PROVE  AllKeys(rules) \in [Keys -> Ports \cup {None}]
  BY DEF AllKeys

LEMMA ForwardReportType ==
    ASSUME ForwardInv, NEW p \in Procs
    PROVE  AllKeys(Reported(p)) \in [Keys -> Ports \cup {None}]
<1>1. proc[p] \in Process
  BY DEF ForwardInv, ForwardTypeOK
<1>2. \A i \in DOMAIN Reported(p) : Reported(p)[i] \in Ports
  BY <1>1, OpeningsAssumption DEF Reported, Enabled, Process, Conf
<1> QED  BY <1>2, ReportType

\* Within the program the manager behaves as it does alone.
LEMMA FirewallSteps == ForwardInv /\ [Next]_vars => [FirewallNext]_fwVars
<1> SUFFICES ASSUME ForwardInv, Next PROVE FirewallNext \/ UNCHANGED fwVars
  BY DEF vars
<1>1. ASSUME NEW src \in Sources, NEW rules \in [Keys -> Ports \cup {None}], Report(src, rules)
      PROVE  FirewallNext
  BY <1>1 DEF FirewallNext
<1>2. "web" \in Sources /\ "forward" \in Sources
  BY OpeningsAssumption
<1>3. ASSUME NEW p \in Procs, SyncFirewall(p) PROVE FirewallNext
  BY <1>1, <1>2, <1>3, ForwardReportType DEF SyncFirewall
<1>4. ASSUME NEW p \in Procs, Return(p) PROVE UNCHANGED fwVars
  BY <1>4 DEF Return
<1>5. CASE StartWeb
  <2>1. AllKeys(WebRules) \in [Keys -> Ports \cup {None}]
    BY OpeningsAssumption, ReportType
  <2> QED  BY <1>1, <1>2, <1>5, <2>1 DEF StartWeb
<1>6. CASE CloseForwards \/ CloseWeb
  <2>1. Nothing \in [Keys -> Ports \cup {None}]
    BY DEF Nothing
  <2> QED  BY <1>1, <1>2, <1>6, <2>1 DEF CloseForwards, CloseWeb
<1>7. CASE Exit \/ Crash
  BY <1>7 DEF Exit, Crash, FirewallNext
<1>8. CASE Reconcile
  BY <1>8 DEF FirewallNext
<1> QED  BY <1>3, <1>4, <1>5, <1>6, <1>7, <1>8 DEF Next

\* The program's firewall manager implements the manager's own specification.
THEOREM ManagerInProgram == Spec => FirewallSpec
<1>1. Init => FirewallInit
  BY DEF Init
<1> QED  BY <1>1, ForwardInvariant, FirewallSteps, PTL DEF Spec, FirewallSpec

\* Whatever commands fail, what the status page shows is in the configuration: with any
\* requests, and through any stops and restarts of the program.
THEOREM ProgramShowsStaged == Spec => []ShownIsStaged
  BY ManagerInProgram, ShownIsInConfiguration, PTL

\* The firewall at rest opens exactly what the sites and the forwards have reported.
THEOREM ProgramOpensWanted == Spec => []OpenAsWanted
  BY ManagerInProgram, OpensWhatIsWanted, PTL

\* Every reachable state has its type.
THEOREM TypeCorrect == Spec => []TypeOK
<1>1. ForwardInv => ForwardTypeOK
  BY DEF ForwardInv
<1> QED  BY <1>1, ForwardInvariant, ManagerInProgram, FirewallTypeCorrect, PTL DEF TypeOK

-----------------------------------------------------------------------------
(* One request at a time                                                   *)
(*                                                                         *)
(* As long as no two reloads have overlapped, at most one process is not   *)
(* idle, and how far it has come says what is true of the listeners: its   *)
(* snapshot is the configuration; from the wait on what runs is as         *)
(* configured; while it starts, what is missing is still to be started or  *)
(* has failed; and what is cancelled it waits for, so that nothing of ours *)
(* can hinder a start.                                                     *)

Alone == \A p, q \in Procs : p # q => At(p, "idle") \/ At(q, "idle")

\* What runs is as configured.
Fits == \A i \in Rules : running[i] # 0 => runners[running[i]].conf = forwards[i]

Missing(todo) == \A i \in Rules : Enabled(forwards[i]) => running[i] # 0 \/ i \in todo \/ i \in failed

Follows(q) ==
    /\ ~q.hindered
    /\ q.pc \in {"cancel", "wait", "start", "report"} => q.snap = forwards
    /\ q.pc \in {"wait", "start"} => Fits
    /\ q.pc = "start" => Missing(q.todo)

\* Nothing of the last change is left to do with the listeners.
Settled(q) == q.pc \in {"idle", "put", "sync", "report", "reported", "rollback"}

\* A listener that is being closed is waited for.
Awaited(k) ==
    runners[k].cancelled /\ ~runners[k].done =>
        \/ \E p \in Procs : At(p, "wait") /\ k \in proc[p].stopped
        \/ At(Main, "stopping")

Over == proc[Main].pc \in {"drained", "closing", "closed"}

Solo ==
    /\ Alone /\ \A p \in Procs : Follows(proc[p])
    /\ (\A p \in Procs : Settled(proc[p])) => Agrees
    /\ \A k \in DOMAIN runners : Awaited(k) /\ (Over => runners[k].done)

\* Only rules that are enabled are started.
OnlyEnabled ==
    /\ \A k \in DOMAIN runners : Enabled(runners[k].conf)
    /\ \A p \in Procs : \A i \in proc[p].todo : Enabled(proc[p].snap[i])

SoloInv == OnlyEnabled /\ (~met => Solo)

\* What the manager has been told: by the web service, and by forwarding.
Opening(i) == IF Enabled(forwards[i]) /\ forwards[i].autofw THEN forwards[i].listen ELSE None

ToldWeb ==
    /\ proc[Main].pc # "boot" => scanned
    /\ proc[Main].pc \notin {"boot", "closed"} => \A k \in KeysOf["web"] : wanted[k] = WebRules[k]
    /\ At(Main, "closed") => \A k \in KeysOf["web"] : wanted[k] = None
    /\ \A k \in Keys \ (KeysOf["web"] \cup Rules) : wanted[k] = None

ToldForward ==
    /\ (\A p \in Procs : proc[p].pc \in {"idle", "put", "reported", "rollback"}) =>
           \A i \in Rules : wanted[i] = Opening(i)
    /\ proc[Main].pc \in {"closing", "closed"} => \A i \in Rules : wanted[i] = None

ToldInv == ToldWeb /\ (~met => ToldForward)

-----------------------------------------------------------------------------

LEMMA InitSolo == Init => SoloInv /\ ToldInv
<1> SUFFICES ASSUME Init PROVE SoloInv /\ ToldInv  OBVIOUS
<1> DEFINE boot == [Idle EXCEPT !.pc = "boot"]
<1>1. Main \in Procs /\ Requests \subseteq Procs /\ Main \notin Requests /\ Procs = Requests \cup {Main}
  BY ForwardAssumption DEF Procs
<1>2. proc = [[p \in Procs |-> Idle] EXCEPT ![Main] = boot] /\ runners = <<>> /\ ~met
      /\ wanted = Nothing
  BY DEF Init, ForwardInit, FirewallInit
<1>3. boot.pc = "boot" /\ boot.todo = {} /\ ~boot.hindered
      /\ Idle.pc = "idle" /\ Idle.todo = {} /\ ~Idle.hindered
  BY DEF Idle
<1> HIDE DEF boot
<1>4. proc[Main] = boot /\ \A p \in Procs \ {Main} : proc[p] = Idle
  BY <1>1, <1>2
<1>5. DOMAIN runners = {}
  BY <1>2
<1>6. SoloInv
  BY <1>1, <1>3, <1>4, <1>5 DEF SoloInv, OnlyEnabled, Solo, Alone, At, Follows, Settled
<1>7. ToldInv
  BY <1>1, <1>2, <1>3, <1>4 DEF ToldInv, ToldWeb, ToldForward, Nothing, At
<1> QED BY <1>6, <1>7

\* The step of the one process that is not idle, or of the first.
LEMMA AloneMoves ==
    ASSUME ForwardInv, Solo, NEW p \in Procs, NEW new,
           proc' = [proc EXCEPT ![p] = new], proc[p].pc # "idle" \/ Quiet
    PROVE  /\ proc'[p] = new
           /\ \A q \in Procs \ {p} : proc'[q] = proc[q] /\ proc[q].pc = "idle" /\ ~proc[q].hindered
           /\ p # Main => proc[Main].pc = "idle" /\ proc'[Main].pc = "idle"
           /\ Main \in Procs
<1>1. proc'[p] = new /\ \A q \in Procs \ {p} : proc'[q] = proc[q]
  BY DEF ForwardInv, ForwardTypeOK
<1>2. \A q \in Procs \ {p} : proc[q].pc = "idle"
  BY DEF Solo, Alone, At, Quiet
<1>3. \A q \in Procs : ~proc[q].hindered
  BY DEF Solo, Follows
<1>4. Main \in Procs
  BY DEF Procs
<1> QED BY <1>1, <1>2, <1>3, <1>4

\* Where it comes to, the listeners are as they should be.
LEMMA AloneLands ==
    ASSUME ForwardInv, Solo, NEW p \in Procs, NEW new,
           proc' = [proc EXCEPT ![p] = new], proc[p].pc # "idle" \/ Quiet,
           ~new.hindered,
           new.pc \in {"cancel", "wait", "start", "report"} => new.snap = forwards',
           new.pc \in {"wait", "start"} => Fits',
           new.pc = "start" => \A i \in Rules : Enabled(forwards'[i]) => running'[i] # 0 \/ i \in new.todo \/ i \in failed',
           Settled(new) => Agrees',
           \A k \in DOMAIN runners' : runners'[k].cancelled /\ ~runners'[k].done =>
               (new.pc = "wait" /\ k \in new.stopped) \/ (p = Main /\ new.pc = "stopping"),
           p = Main /\ new.pc \in {"drained", "closing", "closed"} => \A k \in DOMAIN runners' : runners'[k].done
    PROVE  Solo'
<1>1. /\ proc'[p] = new
      /\ \A q \in Procs \ {p} : proc'[q].pc = "idle" /\ ~proc'[q].hindered
      /\ p # Main => proc'[Main].pc = "idle"
      /\ Main \in Procs
  <2>1. /\ proc'[p] = new
        /\ \A q \in Procs \ {p} : proc'[q] = proc[q] /\ proc[q].pc = "idle" /\ ~proc[q].hindered
        /\ p # Main => proc[Main].pc = "idle" /\ proc'[Main].pc = "idle"
        /\ Main \in Procs
    BY AloneMoves
  <2> QED BY <2>1
<1>2. Alone'
  BY <1>1 DEF Alone, At
<1>3. ASSUME NEW q \in Procs PROVE Follows(proc[q])'
  <2>1. CASE q = p
    BY <1>1, <2>1 DEF Follows, Missing
  <2>2. CASE q # p
    <3>1. proc'[q].pc = "idle" /\ ~proc'[q].hindered
      BY <1>1, <2>2
    <3> QED BY <3>1 DEF Follows
  <2> QED BY <2>1, <2>2
<1>4. (\A q \in Procs : Settled(proc[q]))' => Agrees'
  BY <1>1
<1>5. ASSUME NEW k \in DOMAIN runners' PROVE Awaited(k)' /\ (Over' => runners'[k].done)
  BY <1>1 DEF Awaited, Over, At
<1> QED BY <1>2, <1>3, <1>4, <1>5 DEF Solo

\* Every listener that was cancelled is closed, but for those somebody is waiting for.
LEMMA NothingClosing ==
    ASSUME ForwardInv, Solo, NEW p \in Procs, proc[p].pc # "idle" \/ Quiet, proc[p].pc \notin {"wait", "stopping"}
    PROVE  \A k \in DOMAIN runners : runners[k].cancelled => runners[k].done
<1>1. \A q \in Procs : proc[q].pc \notin {"wait", "stopping"}
  BY DEF Solo, Alone, At, Quiet
<1>2. Main \in Procs
  BY DEF Procs
<1>3. \A k \in DOMAIN runners : runners[k].cancelled /\ runners[k].done \in BOOLEAN
         => runners[k].done
  BY <1>1, <1>2 DEF Solo, Awaited, At
<1>4. \A k \in DOMAIN runners : runners[k] \in Runner
  BY DEF ForwardInv, ForwardTypeOK
<1> QED BY <1>3, <1>4 DEF Runner

\* A step that leaves the listeners, and what is to be started, alone.
LEMMA EnabledStay ==
    ASSUME ForwardInv, SoloInv, NEW p \in Procs, NEW new, proc' = [proc EXCEPT ![p] = new],
           UNCHANGED runners, new.todo = {} \/ (new.todo \subseteq proc[p].todo /\ new.snap = proc[p].snap)
    PROVE  OnlyEnabled'
<1>1. proc'[p] = new /\ \A q \in Procs \ {p} : proc'[q] = proc[q]
  BY DEF ForwardInv, ForwardTypeOK
<1> QED BY <1>1 DEF SoloInv, OnlyEnabled

\* A step of a process that changes neither listeners nor what has failed.
LEMMA QuietStep ==
    ASSUME ForwardInv, SoloInv, NEW p \in Procs, NEW new, proc' = [proc EXCEPT ![p] = new],
           UNCHANGED <<running, runners, failed>>, new.todo = {},
           met' = (met \/ (proc[p].pc = "idle" /\ ~Quiet)), met \in BOOLEAN,
           proc[p].pc \notin {"wait", "start", "stopping"},
           new.pc \notin {"wait", "start", "stopping"}, new.hindered => proc[p].hindered,
           new.pc \in {"cancel", "report"} => new.snap = forwards',
           Settled(new) => Settled(proc[p]) /\ UNCHANGED forwards,
           p = Main /\ new.pc \in {"drained", "closing", "closed"} => proc[p].pc \in {"drained", "closing"}
    PROVE  SoloInv'
<1>1. OnlyEnabled'
  BY EnabledStay
<1>2. ASSUME ~met' PROVE Solo'
  <2>1. Solo /\ (proc[p].pc # "idle" \/ Quiet)
    BY <1>2 DEF SoloInv
  <2>2. ~proc[p].hindered
    BY <2>1 DEF Solo, Follows
  <2>3. \A k \in DOMAIN runners' : runners'[k].cancelled => runners'[k].done
    BY <2>1, NothingClosing
  <2>4. Settled(new) => Agrees'
    <3> SUFFICES ASSUME Settled(new) PROVE Agrees'  OBVIOUS
    <3>1. \A q \in Procs : Settled(proc[q])
      BY <2>1, AloneMoves DEF Settled
    <3>2. Agrees
      BY <2>1, <3>1 DEF Solo
    <3> QED BY <3>2 DEF Agrees
  <2>5. p = Main /\ new.pc \in {"drained", "closing", "closed"} => \A k \in DOMAIN runners' : runners'[k].done
    BY <2>1 DEF Solo, Over
  <2> QED BY <2>1, <2>2, <2>3, <2>4, <2>5, AloneLands
<1> QED BY <1>1, <1>2 DEF SoloInv

-----------------------------------------------------------------------------
(* The steps, one by one                                                   *)

\* A process, and main.
LEMMA OfProcess ==
    ASSUME ForwardInv, NEW p \in Procs
    PROVE  /\ proc[p] \in Process /\ Shape(proc[p]) /\ met \in BOOLEAN
           /\ Main \in Procs /\ Main \notin Requests /\ Requests \subseteq Procs
  BY TypeOfAt, ForwardAssumption DEF ForwardInv, ForwardTypeOK

LEMMA ReadPreviousSolo ==
    ASSUME ForwardInv, SoloInv, NEW q \in Requests, NEW e \in Edits, ReadPrevious(q, e)
    PROVE  SoloInv'
<1> DEFINE u == [op |-> "put", rule |-> e.rule, conf |-> forwards[e.rule]]
           new == [Idle EXCEPT !.pc = "put", !.undo = u]
<1>1. q \in Procs /\ q # Main /\ proc[q].pc = "idle" /\ met \in BOOLEAN
  BY OfProcess, ForwardAssumption DEF ReadPrevious, At, Procs
<1>2. new.pc = "put" /\ new.todo = {} /\ ~new.hindered
  BY DEF Idle
<1>3. /\ proc' = [proc EXCEPT ![q] = new] /\ UNCHANGED <<forwards, running, runners, failed>>
      /\ met' = (met \/ ~Quiet)
  BY DEF ReadPrevious
<1> HIDE DEF new
<1> QED BY <1>1, <1>2, <1>3, QuietStep DEF Settled

LEMMA EditSolo ==
    ASSUME ForwardInv, SoloInv, NEW q \in Requests, NEW e \in Edits, Edit(q, e)
    PROVE  SoloInv'
<1> DEFINE u == IF e.op = "delete" THEN NoUndo
                ELSE [op |-> e.op, rule |-> e.rule, conf |-> forwards[e.rule]]
           new == [Idle EXCEPT !.pc = "reload", !.undo = u]
<1>1. q \in Procs /\ q # Main /\ proc[q].pc = "idle" /\ met \in BOOLEAN
  BY OfProcess, ForwardAssumption DEF Edit, At, Procs
<1>2. new.pc = "reload" /\ new.todo = {} /\ ~new.hindered
  BY DEF Idle
<1>3. /\ proc' = [proc EXCEPT ![q] = new] /\ UNCHANGED <<running, runners, failed>>
      /\ met' = (met \/ ~Quiet)
  BY DEF Edit
<1> HIDE DEF new
<1> QED BY <1>1, <1>2, <1>3, QuietStep DEF Settled

LEMMA PutSolo ==
    ASSUME ForwardInv, SoloInv, NEW q \in Requests, NEW e \in Edits, Put(q, e)
    PROVE  SoloInv'
<1> DEFINE new == [proc[q] EXCEPT !.pc = "reload"]
<1>1. q \in Procs /\ q # Main /\ proc[q].pc = "put" /\ met \in BOOLEAN /\ proc[q] \in Process /\ Shape(proc[q])
  BY OfProcess, ForwardAssumption DEF Put, At, Procs
<1>2. new.pc = "reload" /\ new.todo = {} /\ new.hindered = proc[q].hindered
  BY <1>1 DEF Process, Shape
<1>3. /\ proc' = [proc EXCEPT ![q] = new] /\ UNCHANGED <<running, runners, failed, met>>
  BY DEF Put, Go
<1> HIDE DEF new
<1> QED BY <1>1, <1>2, <1>3, QuietStep DEF Settled

LEMMA PutRefusedSolo ==
    ASSUME ForwardInv, SoloInv, NEW q \in Requests, PutRefused(q)
    PROVE  SoloInv'
<1>1. q \in Procs /\ q # Main /\ proc[q].pc = "put" /\ met \in BOOLEAN
  BY OfProcess, ForwardAssumption DEF PutRefused, At, Procs
<1>2. Idle.pc = "idle" /\ Idle.todo = {} /\ ~Idle.hindered
  BY DEF Idle
<1>3. /\ proc' = [proc EXCEPT ![q] = Idle] /\ UNCHANGED <<forwards, running, runners, failed, met>>
  BY DEF PutRefused
<1> QED BY <1>1, <1>2, <1>3, QuietStep DEF Settled

LEMMA RollbackSolo ==
    ASSUME ForwardInv, SoloInv, NEW q \in Requests, Rollback(q)
    PROVE  SoloInv'
<1> DEFINE new == [proc[q] EXCEPT !.pc = "reload", !.undo = NoUndo, !.err = FALSE]
<1>1. q \in Procs /\ q # Main /\ proc[q].pc = "rollback" /\ met \in BOOLEAN /\ proc[q] \in Process /\ Shape(proc[q])
  BY OfProcess, ForwardAssumption DEF Rollback, At, Procs
<1>2. new.pc = "reload" /\ new.todo = {} /\ new.hindered = proc[q].hindered
  BY <1>1 DEF Process, Shape
<1>3. /\ proc' = [proc EXCEPT ![q] = new] /\ UNCHANGED <<running, runners, failed, met>>
  BY DEF Rollback
<1> HIDE DEF new
<1> QED BY <1>1, <1>2, <1>3, QuietStep DEF Settled

LEMMA ReadSolo ==
    ASSUME ForwardInv, SoloInv, NEW p \in Procs, ReadRules(p) \/ ReadWanted(p)
    PROVE  SoloInv'
<1> DEFINE new == [proc[p] EXCEPT !.pc = IF At(p, "reload") THEN "cancel" ELSE "report", !.snap = forwards]
<1>1. /\ proc[p].pc \in {"reload", "sync"} /\ met \in BOOLEAN /\ proc[p] \in Process /\ Shape(proc[p])
      /\ Settled(proc[p]) <=> proc[p].pc = "sync"
  BY OfProcess DEF ReadRules, ReadWanted, At, Settled
<1>2. /\ new.pc = IF proc[p].pc = "reload" THEN "cancel" ELSE "report"
      /\ new.todo = {} /\ new.hindered = proc[p].hindered /\ new.snap = forwards
  BY <1>1 DEF Process, Shape, At
<1>3. /\ proc' = [proc EXCEPT ![p] = new] /\ UNCHANGED <<forwards, running, runners, failed, met>>
  BY DEF ReadRules, ReadWanted, At
<1> HIDE DEF new
<1> QED BY <1>1, <1>2, <1>3, QuietStep DEF Settled

LEMMA SyncSolo == ASSUME ForwardInv, SoloInv, NEW p \in Procs, Sync(p) PROVE SoloInv'
<1> DEFINE new == [proc[p] EXCEPT !.pc = "reported", !.snap = NoRules]
<1>1. proc[p].pc = "report" /\ met \in BOOLEAN /\ proc[p] \in Process /\ Shape(proc[p])
  BY OfProcess DEF Sync, At
<1>2. new.pc = "reported" /\ new.todo = {} /\ new.hindered = proc[p].hindered
  BY <1>1 DEF Process, Shape
<1>3. /\ proc' = [proc EXCEPT ![p] = new] /\ UNCHANGED <<forwards, running, runners, failed, met>>
  BY DEF Sync
<1> HIDE DEF new
<1> QED BY <1>1, <1>2, <1>3, QuietStep DEF Settled

LEMMA AnswerSolo == ASSUME ForwardInv, SoloInv, NEW p \in Procs, Answer(p) PROVE SoloInv'
<1> DEFINE new == IF proc[p].err /\ proc[p].undo.op # "none" THEN [proc[p] EXCEPT !.pc = "rollback"] ELSE Idle
<1>1. proc[p].pc = "reported" /\ met \in BOOLEAN /\ proc[p] \in Process /\ Shape(proc[p])
  BY OfProcess DEF Answer, At
<1>2. new.pc \in {"rollback", "idle"} /\ new.todo = {} /\ (new.hindered => proc[p].hindered)
  <2>1. Idle.pc = "idle" /\ Idle.todo = {} /\ ~Idle.hindered
    BY DEF Idle
  <2>2. [proc[p] EXCEPT !.pc = "rollback"].pc = "rollback" /\ [proc[p] EXCEPT !.pc = "rollback"].todo = {}
        /\ [proc[p] EXCEPT !.pc = "rollback"].hindered = proc[p].hindered
    BY <1>1 DEF Process, Shape
  <2> QED BY <2>1, <2>2
<1>3. /\ proc' = [proc EXCEPT ![p] = new] /\ UNCHANGED <<forwards, running, runners, failed, met>>
  BY DEF Answer
<1> HIDE DEF new
<1> QED BY <1>1, <1>2, <1>3, QuietStep DEF Settled

\* main goes on; its listeners are all closed when it comes to the end.
LEMMA MainSolo ==
    ASSUME ForwardInv, SoloInv, NEW from, NEW to, Go(Main, to), At(Main, from),
           <<from, to>> \in {<<"boot", "reload">>, <<"drained", "closing">>, <<"closing", "closed">>},
           UNCHANGED <<forwards, running, runners, failed, met>>
    PROVE  SoloInv'
<1> DEFINE new == [proc[Main] EXCEPT !.pc = to]
<1>1. /\ Main \in Procs /\ met \in BOOLEAN /\ proc[Main] \in Process /\ Shape(proc[Main])
      /\ proc[Main].pc \in {"boot", "drained", "closing"} /\ to \in {"reload", "closing", "closed"}
      /\ to # "reload" => proc[Main].pc \in {"drained", "closing"}
  BY OfProcess DEF At, Procs
<1>2. new.pc = to /\ new.todo = {} /\ new.hindered = proc[Main].hindered
  BY <1>1 DEF Process, Shape
<1>3. proc' = [proc EXCEPT ![Main] = new]
  BY DEF Go
<1> HIDE DEF new
<1> QED BY <1>1, <1>2, <1>3, QuietStep DEF Settled

\* Stop has waited for all.
LEMMA DrainedSolo == ASSUME ForwardInv, SoloInv, Drained PROVE SoloInv'
<1> DEFINE new == [proc[Main] EXCEPT !.pc = "drained"]
<1>1. /\ Main \in Procs /\ proc[Main] \in Process /\ Shape(proc[Main]) /\ proc[Main].pc = "stopping"
  BY OfProcess DEF Drained, At, Procs
<1>2. new.pc = "drained" /\ new.todo = {} /\ new.hindered = proc[Main].hindered
  BY <1>1 DEF Process, Shape
<1>3. proc' = [proc EXCEPT ![Main] = new] /\ UNCHANGED <<forwards, running, runners, failed, met>>
  BY DEF Drained, Go
<1>4. \A k \in DOMAIN runners' : runners'[k].done
  BY <1>3 DEF Drained
<1> HIDE DEF new
<1>5. OnlyEnabled'
  BY <1>1, <1>2, <1>3, EnabledStay
<1>6. ASSUME ~met' PROVE Solo'
  <2>1. Solo /\ ~proc[Main].hindered
    BY <1>1, <1>3, <1>6 DEF SoloInv, Solo, Follows
  <2> QED BY <1>1, <1>2, <1>3, <1>4, <2>1, AloneLands DEF Settled
<1> QED BY <1>5, <1>6 DEF SoloInv

\* Runners of the rules in K are cancelled and forgotten.
LEMMA CancelEffect ==
    ASSUME ForwardInv, NEW K \in SUBSET Rules,
           runners' = [k \in DOMAIN runners |->
               IF \E i \in K : running[i] = k THEN [runners[k] EXCEPT !.cancelled = TRUE] ELSE runners[k]],
           running' = [i \in Rules |-> IF i \in K THEN 0 ELSE running[i]]
    PROVE  /\ DOMAIN runners' = DOMAIN runners
           /\ \A k \in DOMAIN runners : /\ runners'[k].conf = runners[k].conf
                                        /\ runners'[k].done = runners[k].done
                                        /\ runners'[k].done \in BOOLEAN
                                        /\ runners'[k].cancelled =>
                                             runners[k].cancelled \/ \E i \in K : running[i] = k
           /\ \A i \in Rules : running'[i] = IF i \in K THEN 0 ELSE running[i]
           /\ \A i \in Rules : running[i] # 0 => running[i] \in DOMAIN runners
<1>1. /\ \A k \in DOMAIN runners : runners[k] \in Runner
      /\ \A i \in Rules : running[i] \in 0..Len(runners)
      /\ DOMAIN runners = 1..Len(runners) /\ Len(runners) \in Nat
  BY DEF ForwardInv, ForwardTypeOK
<1>2. DOMAIN runners' = DOMAIN runners
  OBVIOUS
<1>3. ASSUME NEW k \in DOMAIN runners
      PROVE  /\ runners'[k].conf = runners[k].conf /\ runners'[k].done = runners[k].done
             /\ runners'[k].done \in BOOLEAN
             /\ runners'[k].cancelled => runners[k].cancelled \/ \E i \in K : running[i] = k
  BY <1>1 DEF Runner
<1>4. \A i \in Rules : running[i] # 0 => running[i] \in DOMAIN runners
  BY <1>1
<1> QED BY <1>2, <1>3, <1>4

LEMMA CancelChangedSolo == ASSUME ForwardInv, SoloInv, NEW p \in Procs, CancelChanged(p) PROVE SoloInv'
<1>1. PICK K \in SUBSET Rules : K = {i \in Rules : Stale(p, i)}
  OBVIOUS
<1> DEFINE new == [proc[p] EXCEPT !.pc = "wait", !.stopped = {running[i] : i \in K}]
<1>2. proc[p] \in Process /\ Shape(proc[p]) /\ proc[p].pc = "cancel"
  BY OfProcess DEF At, CancelChanged
<1>3. /\ runners' = [k \in DOMAIN runners |->
             IF \E i \in K : running[i] = k THEN [runners[k] EXCEPT !.cancelled = TRUE] ELSE runners[k]]
      /\ running' = [i \in Rules |-> IF i \in K THEN 0 ELSE running[i]]
      /\ proc' = [proc EXCEPT ![p] = new]
      /\ UNCHANGED <<forwards, failed, met>>
  BY <1>1 DEF CancelChanged
<1>4. /\ new.pc = "wait" /\ new.stopped = {running[i] : i \in K} /\ new.todo = {}
      /\ new.snap = proc[p].snap /\ new.hindered = proc[p].hindered
  BY <1>2 DEF Process, Shape
<1> HIDE DEF new
<1>5. /\ DOMAIN runners' = DOMAIN runners
      /\ \A k \in DOMAIN runners : /\ runners'[k].conf = runners[k].conf
                                   /\ runners'[k].done = runners[k].done
                                   /\ runners'[k].done \in BOOLEAN
                                   /\ runners'[k].cancelled =>
                                        runners[k].cancelled \/ \E i \in K : running[i] = k
      /\ \A i \in Rules : running'[i] = IF i \in K THEN 0 ELSE running[i]
      /\ \A i \in Rules : running[i] # 0 => running[i] \in DOMAIN runners
  BY <1>3, CancelEffect
<1>6. proc'[p] = new /\ \A q \in Procs \ {p} : proc'[q] = proc[q]
  BY <1>3 DEF ForwardInv, ForwardTypeOK
<1>7. OnlyEnabled'
  BY <1>4, <1>5, <1>6 DEF OnlyEnabled, SoloInv
<1>8. ASSUME ~met' PROVE Solo'
  <2>1. Solo /\ ~proc[p].hindered /\ proc[p].snap = forwards
    BY <1>2, <1>3, <1>8 DEF SoloInv, Solo, Follows
  <2>2. \A k \in DOMAIN runners : runners[k].cancelled => runners[k].done
    BY <1>2, <2>1, NothingClosing
  <2>3. \A k \in DOMAIN runners' : runners'[k].cancelled /\ ~runners'[k].done => k \in new.stopped
    BY <1>4, <1>5, <2>2
  <2>4. Fits'
    <3> SUFFICES ASSUME NEW i \in Rules, running'[i] # 0
                 PROVE  runners'[running'[i]].conf = forwards'[i]
      BY DEF Fits
    <3>1. i \notin K /\ running'[i] = running[i] /\ running[i] # 0 /\ running[i] \in DOMAIN runners
      BY <1>5
    <3>2. ~Stale(p, i)
      BY <1>1, <3>1
    <3>3. runners[running[i]].conf = forwards[i]
      BY <2>1, <3>1, <3>2 DEF Stale
    <3> QED BY <1>3, <1>5, <3>1, <3>3
  <2> QED BY <1>2, <1>3, <1>4, <2>1, <2>3, <2>4, AloneLands DEF Settled
<1> QED BY <1>7, <1>8 DEF SoloInv

LEMMA StopSolo == ASSUME ForwardInv, SoloInv, Stop PROVE SoloInv'
<1> DEFINE new == [proc[Main] EXCEPT !.pc = "stopping"]
<1>2. Main \in Procs /\ proc[Main] \in Process /\ Shape(proc[Main]) /\ proc[Main].pc = "idle"
      /\ met \in BOOLEAN
  BY OfProcess DEF At, Stop, Serving, Procs
<1>3. /\ runners' = [k \in DOMAIN runners |->
             IF \E i \in Rules : running[i] = k THEN [runners[k] EXCEPT !.cancelled = TRUE] ELSE runners[k]]
      /\ running' = [i \in Rules |-> IF i \in Rules THEN 0 ELSE running[i]]
      /\ proc' = [proc EXCEPT ![Main] = new]
      /\ UNCHANGED <<forwards, failed>> /\ met' = (met \/ ~Quiet)
  BY DEF Stop, Go
<1>4. /\ new.pc = "stopping" /\ new.todo = {} /\ new.hindered = proc[Main].hindered
  BY <1>2 DEF Process, Shape
<1> HIDE DEF new
<1>5. /\ DOMAIN runners' = DOMAIN runners
      /\ \A k \in DOMAIN runners : runners'[k].conf = runners[k].conf
  BY <1>3, CancelEffect
<1>6. proc'[Main] = new /\ \A q \in Procs \ {Main} : proc'[q] = proc[q]
  BY <1>2, <1>3 DEF ForwardInv, ForwardTypeOK
<1>7. OnlyEnabled'
  BY <1>4, <1>5, <1>6 DEF OnlyEnabled, SoloInv
<1>8. ASSUME ~met' PROVE Solo'
  <2>1. Solo /\ Quiet /\ ~proc[Main].hindered
    BY <1>2, <1>3, <1>8 DEF SoloInv, Solo, Follows
  <2> QED BY <1>2, <1>3, <1>4, <2>1, AloneLands DEF Settled
<1> QED BY <1>7, <1>8 DEF SoloInv

LEMMA AwaitStoppedSolo == ASSUME ForwardInv, SoloInv, NEW p \in Procs, AwaitStopped(p) PROVE SoloInv'
<1> DEFINE new == [proc[p] EXCEPT !.pc = "start", !.stopped = {}, !.todo = ToStart(p)]
<1>1. proc[p] \in Process /\ proc[p].pc = "wait"
  BY OfProcess DEF At, AwaitStopped
<1>2. new.pc = "start" /\ new.todo = ToStart(p) /\ new.snap = proc[p].snap /\ new.hindered = proc[p].hindered
  BY <1>1 DEF Process
<1>3. /\ proc' = [proc EXCEPT ![p] = new] /\ UNCHANGED <<forwards, running, runners, failed, met>>
      /\ \A k \in proc[p].stopped : runners[k].done
  BY DEF AwaitStopped
<1> HIDE DEF new
<1>4. proc'[p] = new /\ \A q \in Procs \ {p} : proc'[q] = proc[q]
  BY <1>3 DEF ForwardInv, ForwardTypeOK
<1>5. OnlyEnabled'
  BY <1>2, <1>3, <1>4 DEF OnlyEnabled, SoloInv, ToStart
<1>6. ASSUME ~met' PROVE Solo'
  <2>1. Solo /\ ~proc[p].hindered /\ proc[p].snap = forwards /\ Fits
    BY <1>1, <1>3, <1>6 DEF SoloInv, Solo, Follows
  <2>2. Fits'
    BY <1>3, <2>1 DEF Fits
  <2>3. \A i \in Rules : Enabled(forwards'[i]) => running'[i] # 0 \/ i \in new.todo \/ i \in failed'
    BY <1>2, <1>3, <2>1 DEF ToStart
  <2>4. \A k \in DOMAIN runners' : ~(runners'[k].cancelled /\ ~runners'[k].done)
    <3> SUFFICES ASSUME NEW k \in DOMAIN runners, runners[k].cancelled, ~runners[k].done PROVE FALSE
      BY <1>3
    <3>1. PICK q \in Procs : (At(q, "wait") /\ k \in proc[q].stopped) \/ At(Main, "stopping")
      BY <2>1 DEF Solo, Awaited
    <3>2. \A r \in Procs \ {p} : proc[r].pc = "idle"
      BY <1>1, <2>1 DEF Solo, Alone, At
    <3>3. Main \in Procs
      BY DEF Procs
    <3>4. ~At(Main, "stopping") /\ q = p
      BY <1>1, <3>1, <3>2, <3>3 DEF At
    <3> QED BY <1>3, <3>1, <3>4
  <2> QED BY <1>1, <1>2, <1>3, <2>1, <2>2, <2>3, <2>4, AloneLands DEF Settled
<1> QED BY <1>5, <1>6 DEF SoloInv

LEMMA StartRuleSolo ==
    ASSUME ForwardInv, SoloInv, NEW p \in Procs, NEW i \in Rules, StartRule(p, i)
    PROVE  SoloInv'
<1> DEFINE new == [proc[p] EXCEPT !.todo = @ \ {i}]
<1>1. /\ proc[p] \in Process /\ Shape(proc[p]) /\ i \in proc[p].todo /\ proc[p].pc = "start"
  BY OfProcess DEF Shape, StartRule
<1>2. new.pc = "start" /\ new.todo = proc[p].todo \ {i} /\ new.snap = proc[p].snap
      /\ new.hindered = proc[p].hindered
  BY <1>1 DEF Process
<1>3. PICK r : r = [rule |-> i, conf |-> proc[p].snap[i], cancelled |-> FALSE, done |-> FALSE]
  OBVIOUS
<1>4. r.conf = proc[p].snap[i] /\ ~r.cancelled
  BY <1>3
<1>5. /\ proc' = [proc EXCEPT ![p] = new] /\ running' = [running EXCEPT ![i] = Len(runners) + 1]
      /\ runners' = Append(runners, r) /\ failed' = failed \ {i} /\ UNCHANGED <<forwards, met>>
  BY <1>3 DEF StartRule
<1> HIDE DEF new
<1>6. runners \in Seq(Runner) /\ running \in [Rules -> 0..Len(runners)]
  BY DEF ForwardInv, ForwardTypeOK
<1>7. PICK l \in Nat : l = Len(runners)
  BY <1>6
<1>8. DOMAIN runners = 1..l /\ DOMAIN runners' = 1..(l + 1) /\ runners'[l + 1] = r
      /\ \A k \in 1..l : runners'[k] = runners[k]
  BY <1>5, <1>6, <1>7
<1>9. running'[i] = l + 1 /\ \A j \in Rules \ {i} : running'[j] = running[j] /\ running[j] \in 0..l
  BY <1>5, <1>6, <1>7
<1>10. proc'[p] = new /\ \A q \in Procs \ {p} : proc'[q] = proc[q]
  BY <1>5 DEF ForwardInv, ForwardTypeOK
<1>11. Enabled(r.conf)
  BY <1>1, <1>4 DEF SoloInv, OnlyEnabled
<1>12. OnlyEnabled'
  <2>1. \A k \in DOMAIN runners' : Enabled(runners'[k].conf)
    <3> SUFFICES ASSUME NEW k \in 1..(l + 1) PROVE Enabled(runners'[k].conf)
      BY <1>8
    <3>1. CASE k \in 1..l
      BY <1>8, <3>1 DEF SoloInv, OnlyEnabled
    <3>2. CASE k = l + 1
      BY <1>8, <1>11, <3>2
    <3> QED BY <3>1, <3>2
  <2>2. \A q \in Procs : \A j \in proc'[q].todo : Enabled(proc'[q].snap[j])
    BY <1>2, <1>10 DEF SoloInv, OnlyEnabled
  <2> QED BY <2>1, <2>2 DEF OnlyEnabled
<1>13. ASSUME ~met' PROVE Solo'
  <2>1. Solo /\ ~proc[p].hindered /\ proc[p].snap = forwards /\ Fits /\ Missing(proc[p].todo)
    BY <1>1, <1>5, <1>13 DEF SoloInv, Solo, Follows
  <2>2. Fits'
    <3> SUFFICES ASSUME NEW j \in Rules, running'[j] # 0
                 PROVE  runners'[running'[j]].conf = forwards'[j]
      BY DEF Fits
    <3>1. CASE j = i
      BY <1>4, <1>5, <1>8, <1>9, <2>1, <3>1
    <3>2. CASE j # i
      <4>1. running'[j] = running[j] /\ running[j] \in 1..l
        BY <1>9, <3>2
      <4> QED BY <1>5, <1>8, <2>1, <4>1 DEF Fits
    <3> QED BY <3>1, <3>2
  <2>3. \A j \in Rules : Enabled(forwards'[j]) => running'[j] # 0 \/ j \in new.todo \/ j \in failed'
    BY <1>2, <1>5, <1>9, <2>1 DEF Missing
  <2>4. \A k \in DOMAIN runners : runners[k].cancelled => runners[k].done
    BY <1>1, <2>1, NothingClosing
  <2>5. \A k \in DOMAIN runners' : runners'[k].cancelled => runners'[k].done
    <3> SUFFICES ASSUME NEW k \in 1..(l + 1), runners'[k].cancelled PROVE runners'[k].done
      BY <1>8
    <3>1. k \in 1..l
      BY <1>4, <1>8
    <3> QED BY <1>8, <2>4, <3>1
  <2> QED BY <1>1, <1>2, <1>5, <2>1, <2>2, <2>3, <2>5, AloneLands DEF Settled
<1> QED BY <1>12, <1>13 DEF SoloInv

\* No start is hindered by a listener that is just being stopped.
LEMMA StartFailsSolo ==
    ASSUME ForwardInv, SoloInv, NEW p \in Procs, NEW i \in Rules, StartFails(p, i)
    PROVE  SoloInv'
<1>1. /\ proc[p] \in Process /\ Shape(proc[p]) /\ i \in proc[p].todo /\ proc[p].pc = "start"
  BY OfProcess DEF Shape, StartFails
<1>2. PICK h \in BOOLEAN : h = (proc[p].hindered \/
           (Holders(proc[p].snap[i].listen) # {}
              /\ \A k \in Holders(proc[p].snap[i].listen) : runners[k].cancelled))
  OBVIOUS
<1> DEFINE new == [proc[p] EXCEPT !.todo = @ \ {i}, !.err = TRUE, !.hindered = h]
<1>3. new.pc = "start" /\ new.todo = proc[p].todo \ {i} /\ new.snap = proc[p].snap
      /\ new.hindered = h
  BY <1>1 DEF Process
<1>4. /\ proc' = [proc EXCEPT ![p] = new] /\ failed' = failed \cup {i}
      /\ UNCHANGED <<forwards, running, runners, met>>
  BY <1>2 DEF StartFails
<1> HIDE DEF new
<1>5. OnlyEnabled'
  BY <1>3, <1>4, EnabledStay
<1>6. ASSUME ~met' PROVE Solo'
  <2>1. Solo /\ ~proc[p].hindered /\ proc[p].snap = forwards /\ Fits /\ Missing(proc[p].todo)
    BY <1>1, <1>4, <1>6 DEF SoloInv, Solo, Follows
  <2>2. Fits'
    BY <1>4, <2>1 DEF Fits
  <2>3. \A j \in Rules : Enabled(forwards'[j]) => running'[j] # 0 \/ j \in new.todo \/ j \in failed'
    BY <1>3, <1>4, <2>1 DEF Missing
  <2>4. \A k \in DOMAIN runners : runners[k].cancelled => runners[k].done
    BY <1>1, <2>1, NothingClosing
  <2>5. ~h
    BY <1>2, <2>1, <2>4 DEF Holders
  <2> QED BY <1>1, <1>3, <1>4, <2>1, <2>2, <2>3, <2>4, <2>5, AloneLands DEF Settled
<1> QED BY <1>5, <1>6 DEF SoloInv

\* With everything started that could be, what runs is what is configured.
LEMMA StartedSolo == ASSUME ForwardInv, SoloInv, NEW p \in Procs, Started(p) PROVE SoloInv'
<1> DEFINE new == [proc[p] EXCEPT !.pc = "sync", !.snap = NoRules]
<1>1. proc[p] \in Process /\ proc[p].pc = "start" /\ proc[p].todo = {}
  BY OfProcess DEF At, Started
<1>2. new.pc = "sync" /\ new.todo = {} /\ new.hindered = proc[p].hindered
  BY <1>1 DEF Process
<1>3. /\ proc' = [proc EXCEPT ![p] = new] /\ UNCHANGED <<forwards, running, runners, failed, met>>
  BY DEF Started
<1> HIDE DEF new
<1>4. OnlyEnabled'
  BY <1>2, <1>3, EnabledStay
<1>5. ASSUME ~met' PROVE Solo'
  <2>1. Solo /\ ~proc[p].hindered /\ Fits /\ Missing({})
    BY <1>1, <1>3, <1>5 DEF SoloInv, Solo, Follows
  <2>2. Agrees
    <3> SUFFICES ASSUME NEW i \in Rules
                 PROVE  IF Enabled(forwards[i])
                        THEN (running[i] # 0 /\ runners[running[i]].conf = forwards[i]) \/ i \in failed
                        ELSE running[i] = 0
      BY DEF Agrees
    <3>1. running[i] # 0 => running[i] \in DOMAIN runners
      BY DEF ForwardInv, ForwardTypeOK
    <3>2. running[i] # 0 => Enabled(runners[running[i]].conf)
      BY <3>1 DEF SoloInv, OnlyEnabled
    <3>3. running[i] # 0 => runners[running[i]].conf = forwards[i]
      BY <2>1 DEF Fits
    <3>4. Enabled(forwards[i]) => running[i] # 0 \/ i \in failed
      BY <2>1 DEF Missing
    <3> QED BY <3>2, <3>3, <3>4
  <2>3. Agrees'
    BY <1>3, <2>2 DEF Agrees
  <2>4. \A k \in DOMAIN runners : runners[k].cancelled => runners[k].done
    BY <1>1, <2>1, NothingClosing
  <2> QED BY <1>1, <1>2, <1>3, <2>1, <2>3, <2>4, AloneLands DEF Settled
<1> QED BY <1>4, <1>5 DEF SoloInv

LEMMA RunnerExitsSolo ==
    ASSUME ForwardInv, SoloInv, NEW k \in DOMAIN runners, RunnerExits(k)
    PROVE  SoloInv'
<1>1. \A j \in DOMAIN runners : runners[j] \in Runner
  BY DEF ForwardInv, ForwardTypeOK
<1>2. /\ DOMAIN runners' = DOMAIN runners
      /\ \A j \in DOMAIN runners : /\ runners'[j].conf = runners[j].conf
                                   /\ runners'[j].cancelled = runners[j].cancelled
                                   /\ runners[j].done => runners'[j].done
  BY <1>1 DEF RunnerExits, Runner
<1>3. UNCHANGED <<forwards, running, proc, failed, met>>
  BY DEF RunnerExits
<1>4. \A i \in Rules : running[i] # 0 => running[i] \in DOMAIN runners
  BY DEF ForwardInv, ForwardTypeOK
<1>5. OnlyEnabled'
  BY <1>2, <1>3 DEF SoloInv, OnlyEnabled
<1>6. ASSUME ~met' PROVE Solo'
  <2>1. Solo
    BY <1>3, <1>6 DEF SoloInv
  <2>2. Fits => Fits'
    BY <1>2, <1>3, <1>4 DEF Fits
  <2>3. ASSUME NEW p \in Procs PROVE Follows(proc[p])'
    <3>1. Follows(proc[p])
      BY <2>1 DEF Solo
    <3>2. proc' = proc /\ forwards' = forwards /\ running' = running /\ failed' = failed
      BY <1>3
    <3> QED BY <2>2, <3>1, <3>2 DEF Follows, Missing
  <2>4. Alone'
    BY <1>3, <2>1 DEF Solo, Alone, At
  <2>5. (\A p \in Procs : Settled(proc[p]))' => Agrees'
    BY <1>2, <1>3, <1>4, <2>1 DEF Solo, Agrees
  <2>6. ASSUME NEW j \in DOMAIN runners' PROVE Awaited(j)' /\ (Over' => runners'[j].done)
    <3>1. Awaited(j) /\ (Over => runners[j].done)
      BY <1>2, <2>1 DEF Solo
    <3> QED BY <1>2, <1>3, <3>1 DEF Awaited, Over, At
  <2> QED BY <2>3, <2>4, <2>5, <2>6 DEF Solo
<1> QED BY <1>5, <1>6 DEF SoloInv

\* The program has ended: there is nothing any more.
LEMMA EndSolo == ASSUME ForwardInv, ForwardsEnd PROVE SoloInv'
<1> DEFINE boot == [Idle EXCEPT !.pc = "boot"]
<1>1. Main \in Procs
  BY DEF Procs
<1>2. proc' = [[p \in Procs |-> Idle] EXCEPT ![Main] = boot] /\ runners' = <<>> /\ ~met'
  BY DEF ForwardsEnd
<1>3. boot.pc = "boot" /\ boot.todo = {} /\ ~boot.hindered
      /\ Idle.pc = "idle" /\ Idle.todo = {} /\ ~Idle.hindered
  BY DEF Idle
<1> HIDE DEF boot
<1>4. proc'[Main] = boot /\ \A p \in Procs \ {Main} : proc'[p] = Idle
  BY <1>1, <1>2
<1>5. DOMAIN runners' = {}
  BY <1>2
<1> QED BY <1>1, <1>3, <1>4, <1>5 DEF SoloInv, OnlyEnabled, Solo, Alone, At, Follows, Settled

LEMMA SoloUnchanged == SoloInv /\ UNCHANGED fwdVars => SoloInv'
  BY DEF SoloInv, fwdVars, OnlyEnabled, Solo, Alone, Follows, Fits, Missing, Settled, Agrees,
         Awaited, Over, At

LEMMA SoloStep == ForwardInv /\ SoloInv /\ [Next]_vars => SoloInv'
<1> SUFFICES ASSUME ForwardInv, SoloInv, [Next]_vars PROVE SoloInv'  OBVIOUS
<1>1. ASSUME NEW q \in Requests, Request(q) PROVE SoloInv'
  BY <1>1, ReadPreviousSolo, PutSolo, EditSolo, PutRefusedSolo, RollbackSolo DEF Request
<1>2. ASSUME NEW p \in Procs, Reload(p) PROVE SoloInv'
  BY <1>2, ReadSolo, CancelChangedSolo, AwaitStoppedSolo, StartRuleSolo, StartFailsSolo,
     StartedSolo DEF Reload
<1>3. ASSUME NEW p \in Procs, SyncFirewall(p) \/ Return(p) PROVE SoloInv'
  BY <1>3, SyncSolo, AnswerSolo DEF SyncFirewall, Return
<1>4. ASSUME NEW k \in DOMAIN runners, RunnerExits(k) PROVE SoloInv'
  BY <1>4, RunnerExitsSolo
<1>5. CASE UNCHANGED fwdVars
  BY <1>5, SoloUnchanged
<1>6. CASE StartWeb
  BY <1>6, MainSolo DEF StartWeb, Boot
<1>7. CASE Stop \/ Drained
  BY <1>7, StopSolo, DrainedSolo
<1>8. CASE CloseForwards \/ CloseWeb
  BY <1>8, MainSolo DEF CloseForwards, CloseWeb, Closed
<1>9. CASE Exit \/ Crash
  BY <1>9, EndSolo DEF Exit, Crash
<1>10. [Next]_vars <=>
         \/ \E q \in Requests : Request(q) /\ UNCHANGED fwVars
         \/ \E p \in Procs : Reload(p) /\ UNCHANGED fwVars
         \/ \E p \in Procs : SyncFirewall(p) \/ Return(p)
         \/ \E k \in DOMAIN runners : RunnerExits(k) /\ UNCHANGED fwVars
         \/ Reconcile /\ UNCHANGED fwdVars
         \/ StartWeb
         \/ (Stop \/ Drained) /\ UNCHANGED fwVars
         \/ CloseForwards \/ CloseWeb
         \/ Exit \/ Crash
         \/ UNCHANGED <<fwdVars, fwVars>>
  BY DEF Next, vars
<1> QED BY <1>1, <1>2, <1>3, <1>4, <1>5, <1>6, <1>7, <1>8, <1>9, <1>10

\* As long as no two reloads have overlapped, what the inductive invariant says holds.
LEMMA SoloAlways == Spec => []SoloInv
  BY InitSolo, SoloStep, ForwardInvariant, PTL DEF Spec

\* With reloads that do not overlap, what runs at rest is what is configured, after any
\* number of edits, rollbacks, faults and restarts, and no start was hindered by a listener
\* that was just being stopped.
THEOREM ListenersAgree == Spec => []RunsAsConfigured
<1>1. SoloInv => RunsAsConfigured
  <2> SUFFICES ASSUME SoloInv, ~met PROVE (Quiet => Agrees) /\ \A p \in Procs : ~proc[p].hindered
    BY DEF RunsAsConfigured
  <2>1. Quiet => \A p \in Procs : Settled(proc[p])
    BY DEF Quiet, At, Settled
  <2> QED BY <2>1 DEF SoloInv, Solo, Follows
<1> QED BY <1>1, SoloAlways, PTL

-----------------------------------------------------------------------------
(* What the manager has been told                                          *)

Telling(pc) == pc \in {"idle", "put", "reported", "rollback"}

LEMMA KeysApart ==
    /\ Rules \subseteq Keys /\ KeysOf["web"] \subseteq Keys /\ Rules \cap KeysOf["web"] = {}
    /\ KeysOf["forward"] = Rules
  BY OpeningsAssumption, FirewallAssumption

\* A step of a process that reports nothing.
LEMMA TellsNothing ==
    ASSUME ForwardInv, ToldInv, NEW p \in Procs, NEW new, proc' = [proc EXCEPT ![p] = new],
           UNCHANGED <<wanted, scanned>>, ~met' => ~met,
           Telling(new.pc) => Telling(proc[p].pc) /\ UNCHANGED forwards,
           {proc[p].pc, new.pc} \cap {"boot", "closing", "closed"} = {}
    PROVE  ToldInv'
<1>1. proc'[p] = new /\ (\A q \in Procs \ {p} : proc'[q] = proc[q]) /\ Main \in Procs
  BY DEF ForwardInv, ForwardTypeOK, Procs
<1>2. proc[Main].pc \in {"boot", "closing", "closed"} \/ proc'[Main].pc \in {"boot", "closing", "closed"}
        => proc'[Main] = proc[Main]
  BY <1>1
<1>3. ToldWeb'
  BY <1>2 DEF ToldInv, ToldWeb, At
<1>4. ASSUME ~met' PROVE ToldForward'
  <2>1. ToldForward
    BY <1>4 DEF ToldInv
  <2>2. ASSUME \A q \in Procs : Telling(proc'[q].pc), NEW i \in Rules PROVE wanted'[i] = Opening(i)'
    <3>1. UNCHANGED forwards /\ \A q \in Procs : Telling(proc[q].pc)
      BY <1>1, <2>2
    <3>2. wanted[i] = Opening(i)
      BY <2>1, <3>1 DEF ToldForward, Telling
    <3> QED BY <3>1, <3>2 DEF Opening
  <2>3. proc'[Main].pc \in {"closing", "closed"} => \A i \in Rules : wanted'[i] = None
    BY <1>2, <2>1 DEF ToldForward
  <2> QED BY <2>2, <2>3 DEF ToldForward, Telling
<1> QED BY <1>3, <1>4 DEF ToldInv

\* The step of a request or of main that does not report: where it comes from and goes to.
LEMMA RequestTold ==
    ASSUME ForwardInv, ToldInv, NEW q \in Requests, Request(q), UNCHANGED fwVars
    PROVE  ToldInv'
<1>1. q \in Procs /\ proc[q] \in Process /\ met \in BOOLEAN /\ UNCHANGED <<wanted, scanned>>
  BY OfProcess DEF Procs, fwVars, manager
<1>2. ASSUME NEW e \in Edits, ReadPrevious(q, e) PROVE ToldInv'
  <2> DEFINE new == [Idle EXCEPT !.pc = "put", !.undo = [op |-> "put", rule |-> e.rule, conf |-> forwards[e.rule]]]
  <2>1. new.pc = "put"
    BY DEF Idle
  <2>2. proc' = [proc EXCEPT ![q] = new] /\ proc[q].pc = "idle" /\ UNCHANGED forwards /\ (~met' => ~met)
    BY <1>2 DEF ReadPrevious, At
  <2> HIDE DEF new
  <2> QED BY <1>1, <2>1, <2>2, TellsNothing DEF Telling
<1>3. ASSUME NEW e \in Edits, Edit(q, e) PROVE ToldInv'
  <2> DEFINE new == [Idle EXCEPT !.pc = "reload", !.undo =
                        IF e.op = "delete" THEN NoUndo
                        ELSE [op |-> e.op, rule |-> e.rule, conf |-> forwards[e.rule]]]
  <2>1. new.pc = "reload"
    BY DEF Idle
  <2>2. proc' = [proc EXCEPT ![q] = new] /\ proc[q].pc = "idle" /\ (~met' => ~met)
    BY <1>3 DEF Edit, At
  <2> HIDE DEF new
  <2> QED BY <1>1, <2>1, <2>2, TellsNothing DEF Telling
<1>4. ASSUME NEW e \in Edits, Put(q, e) PROVE ToldInv'
  <2> DEFINE new == [proc[q] EXCEPT !.pc = "reload"]
  <2>1. new.pc = "reload"
    BY <1>1 DEF Process
  <2>2. proc' = [proc EXCEPT ![q] = new] /\ proc[q].pc = "put" /\ UNCHANGED met
    BY <1>4 DEF Put, At, Go
  <2> HIDE DEF new
  <2> QED BY <1>1, <2>1, <2>2, TellsNothing DEF Telling
<1>5. CASE PutRefused(q)
  <2>1. Idle.pc = "idle"
    BY DEF Idle
  <2>2. proc' = [proc EXCEPT ![q] = Idle] /\ proc[q].pc = "put" /\ UNCHANGED <<forwards, met>>
    BY <1>5 DEF PutRefused, At
  <2> QED BY <1>1, <2>1, <2>2, TellsNothing DEF Telling
<1>6. CASE Rollback(q)
  <2> DEFINE new == [proc[q] EXCEPT !.pc = "reload", !.undo = NoUndo, !.err = FALSE]
  <2>1. new.pc = "reload"
    BY <1>1 DEF Process
  <2>2. proc' = [proc EXCEPT ![q] = new] /\ proc[q].pc = "rollback" /\ UNCHANGED met
    BY <1>6 DEF Rollback, At
  <2> HIDE DEF new
  <2> QED BY <1>1, <2>1, <2>2, TellsNothing DEF Telling
<1> QED BY <1>2, <1>3, <1>4, <1>5, <1>6 DEF Request

LEMMA ReloadTold ==
    ASSUME ForwardInv, ToldInv, NEW p \in Procs, Reload(p), UNCHANGED fwVars
    PROVE  ToldInv'
<1>1. proc[p] \in Process /\ Shape(proc[p]) /\ UNCHANGED <<wanted, scanned>>
  BY OfProcess DEF fwVars, manager
<1> DEFINE Working == {"reload", "cancel", "wait", "start", "sync", "report"}
<1>2. PICK new : /\ proc' = [proc EXCEPT ![p] = new] /\ UNCHANGED met
                 /\ proc[p].pc \in Working /\ new.pc \in Working
  <2>1. CASE ReadRules(p)
    <3> WITNESS [proc[p] EXCEPT !.pc = "cancel", !.snap = forwards]
    <3> QED BY <1>1, <2>1 DEF ReadRules, At, Process
  <2>2. CASE CancelChanged(p)
    <3> DEFINE K == {i \in Rules : Stale(p, i)}
    <3> WITNESS [proc[p] EXCEPT !.pc = "wait", !.stopped = {running[i] : i \in K}]
    <3> QED BY <1>1, <2>2 DEF CancelChanged, At, Process
  <2>3. CASE AwaitStopped(p)
    <3> WITNESS [proc[p] EXCEPT !.pc = "start", !.stopped = {}, !.todo = ToStart(p)]
    <3> QED BY <1>1, <2>3 DEF AwaitStopped, At, Process
  <2>4. ASSUME NEW i \in Rules, StartRule(p, i)
        PROVE  \E new : /\ proc' = [proc EXCEPT ![p] = new] /\ UNCHANGED met
                        /\ proc[p].pc \in Working /\ new.pc \in Working
    <3> WITNESS [proc[p] EXCEPT !.todo = @ \ {i}]
    <3> QED BY <1>1, <2>4 DEF StartRule, Shape, Process
  <2>5. ASSUME NEW i \in Rules, StartFails(p, i)
        PROVE  \E new : /\ proc' = [proc EXCEPT ![p] = new] /\ UNCHANGED met
                        /\ proc[p].pc \in Working /\ new.pc \in Working
    <3> DEFINE h == proc[p].hindered \/
           (Holders(proc[p].snap[i].listen) # {}
              /\ \A k \in Holders(proc[p].snap[i].listen) : runners[k].cancelled)
    <3> WITNESS [proc[p] EXCEPT !.todo = @ \ {i}, !.err = TRUE, !.hindered = h]
    <3> QED BY <1>1, <2>5 DEF StartFails, Shape, Process
  <2>6. CASE Started(p)
    <3> WITNESS [proc[p] EXCEPT !.pc = "sync", !.snap = NoRules]
    <3> QED BY <1>1, <2>6 DEF Started, At, Process
  <2>7. CASE ReadWanted(p)
    <3> WITNESS [proc[p] EXCEPT !.pc = "report", !.snap = forwards]
    <3> QED BY <1>1, <2>7 DEF ReadWanted, At, Process
  <2> QED BY <2>1, <2>2, <2>3, <2>4, <2>5, <2>6, <2>7 DEF Reload
<1> QED BY <1>1, <1>2, TellsNothing DEF Telling

LEMMA ReturnTold == ASSUME ForwardInv, ToldInv, NEW p \in Procs, Return(p) PROVE ToldInv'
<1> DEFINE new == IF proc[p].err /\ proc[p].undo.op # "none" THEN [proc[p] EXCEPT !.pc = "rollback"] ELSE Idle
<1>1. proc[p].pc = "reported" /\ proc[p] \in Process
  BY OfProcess DEF Return, Answer, At
<1>2. new.pc \in {"rollback", "idle"}
  <2>1. Idle.pc = "idle"
    BY DEF Idle
  <2>2. [proc[p] EXCEPT !.pc = "rollback"].pc = "rollback"
    BY <1>1 DEF Process
  <2> QED BY <2>1, <2>2
<1>3. proc' = [proc EXCEPT ![p] = new] /\ UNCHANGED <<forwards, met, wanted, scanned>>
  BY DEF Return, Answer, fwVars, manager
<1> HIDE DEF new
<1> QED BY <1>1, <1>2, <1>3, TellsNothing DEF Telling

\* Stop, and the end of its wait.
LEMMA StopTold == ASSUME ForwardInv, ToldInv, Stop \/ Drained, UNCHANGED fwVars PROVE ToldInv'
<1>1. Main \in Procs /\ proc[Main] \in Process /\ UNCHANGED <<wanted, scanned>> /\ met \in BOOLEAN
  BY OfProcess DEF Procs, fwVars, manager
<1>2. PICK to \in {"stopping", "drained"} : proc' = [proc EXCEPT ![Main].pc = to]
  BY DEF Stop, Drained, Go
<1> DEFINE new == [proc[Main] EXCEPT !.pc = to]
<1>3. proc[Main].pc \in {"idle", "stopping"} /\ (~met' => ~met)
  BY <1>1 DEF Stop, Drained, Serving, At
<1>4. new.pc \in {"stopping", "drained"} /\ proc' = [proc EXCEPT ![Main] = new]
  BY <1>1, <1>2 DEF Process
<1> HIDE DEF new
<1> QED BY <1>1, <1>3, <1>4, TellsNothing DEF Telling

\* What a report changes.
LEMMA Told ==
    ASSUME NEW src \in Sources, NEW rules, Report(src, rules)
    PROVE  /\ scanned' = TRUE
           /\ \A k \in Keys : wanted'[k] = IF k \in KeysOf[src] THEN rules[k] ELSE wanted[k]
  BY DEF Report

LEMMA SyncTold == ASSUME ForwardInv, SoloInv, ToldInv, NEW p \in Procs, SyncFirewall(p) PROVE ToldInv'
<1> DEFINE new == [proc[p] EXCEPT !.pc = "reported", !.snap = NoRules]
<1>1. /\ proc[p].pc = "report" /\ proc[p] \in Process /\ Main \in Procs
      /\ proc' = [proc EXCEPT ![p] = new] /\ UNCHANGED <<forwards, met>>
  BY OfProcess DEF SyncFirewall, Sync, At
<1>2. new.pc = "reported"
  BY <1>1 DEF Process
<1>3. /\ scanned' = TRUE
      /\ \A k \in Keys : wanted'[k] = IF k \in Rules THEN AllKeys(Reported(p))[k] ELSE wanted[k]
  BY Told, OpeningsAssumption DEF SyncFirewall
<1> HIDE DEF new
<1>4. proc'[p] = new /\ \A q \in Procs \ {p} : proc'[q] = proc[q]
  BY <1>1 DEF ForwardInv, ForwardTypeOK
<1>5. proc[Main].pc = "boot" => p # Main
  BY <1>1
<1>6. ToldWeb'
  <2>1. ToldWeb /\ \A k \in Keys \ Rules : wanted'[k] = wanted[k]
    BY <1>3 DEF ToldInv
  <2>2. proc'[Main].pc \in {"boot", "closed"} => proc[Main].pc = proc'[Main].pc
    BY <1>1, <1>2, <1>4
  <2>3. proc[Main].pc \in {"boot", "closed"} => proc[Main].pc = proc'[Main].pc
    BY <1>1, <1>2, <1>4
  <2> QED BY <1>3, <2>1, <2>2, <2>3, KeysApart DEF ToldWeb, At
<1>7. ASSUME ~met' PROVE ToldForward'
  <2>1. Solo /\ proc[p].snap = forwards
    BY <1>1, <1>7 DEF SoloInv, Solo, Follows
  <2>2. ASSUME NEW i \in Rules PROVE wanted'[i] = Opening(i)'
    <3>1. i \in Keys /\ wanted'[i] = AllKeys(Reported(p))[i]
      BY <1>3, KeysApart
    <3>2. Opening(i)' = Opening(i)
      BY <1>1 DEF Opening
    <3>3. AllKeys(Reported(p))[i] = Opening(i)
      BY <2>1, <3>1 DEF AllKeys, Reported, Opening
    <3> QED BY <3>1, <3>2, <3>3
  <2>3. proc'[Main].pc \notin {"closing", "closed"}
    BY <1>1, <1>2, <1>4, <2>1 DEF Solo, Alone, At
  <2> QED BY <2>2, <2>3 DEF ToldForward
<1> QED BY <1>6, <1>7 DEF ToldInv

\* What main reports when it starts and ends.
LEMMA MainTold == ASSUME ForwardInv, ToldInv, StartWeb \/ CloseForwards \/ CloseWeb PROVE ToldInv'
<1>1. Main \in Procs /\ proc[Main] \in Process /\ met \in BOOLEAN
  BY OfProcess DEF Procs
<1>2. ASSUME NEW to \in {"reload", "closing", "closed"}, Go(Main, to)
      PROVE  proc'[Main].pc = to
  BY <1>1, <1>2 DEF Go, ForwardInv, ForwardTypeOK, Process
<1>3. CASE StartWeb
  <2>1. proc'[Main].pc = "reload" /\ proc[Main].pc = "boot"
    BY <1>2, <1>3 DEF StartWeb, Boot, At
  <2>2. scanned' = TRUE /\ \A k \in Keys : wanted'[k] = IF k \in KeysOf["web"] THEN AllKeys(WebRules)[k] ELSE wanted[k]
    <3>1. Report("web", AllKeys(WebRules)) /\ "web" \in Sources
      BY <1>3, OpeningsAssumption DEF StartWeb
    <3> QED BY <3>1, Told
  <2>3. \A k \in KeysOf["web"] : AllKeys(WebRules)[k] = WebRules[k]
    BY OpeningsAssumption, KeysApart DEF AllKeys
  <2>4. ToldWeb'
    BY <2>1, <2>2, <2>3, KeysApart DEF ToldInv, ToldWeb, At
  <2>5. ToldForward'
    BY <1>1, <2>1 DEF ToldForward
  <2> QED BY <2>4, <2>5 DEF ToldInv
<1>4. CASE CloseForwards
  <2>1. proc'[Main].pc = "closing" /\ proc[Main].pc = "drained"
    BY <1>2, <1>4 DEF CloseForwards, Closed, At
  <2>2. scanned' = TRUE /\ \A k \in Keys : wanted'[k] = IF k \in Rules THEN None ELSE wanted[k]
    <3>1. Report("forward", Nothing) /\ "forward" \in Sources
      BY <1>4, OpeningsAssumption DEF CloseForwards
    <3>2. \A k \in Keys : Nothing[k] = None
      BY DEF Nothing
    <3> QED BY <3>1, <3>2, Told, KeysApart
  <2>4. ToldWeb'
    BY <2>1, <2>2, KeysApart DEF ToldInv, ToldWeb, At
  <2>5. ToldForward'
    BY <1>1, <2>1, <2>2, KeysApart DEF ToldForward
  <2> QED BY <2>4, <2>5 DEF ToldInv
<1>5. CASE CloseWeb
  <2>1. proc'[Main].pc = "closed" /\ proc[Main].pc = "closing" /\ UNCHANGED met
    BY <1>2, <1>5 DEF CloseWeb, Closed, At
  <2>2. scanned' = TRUE /\ \A k \in Keys : wanted'[k] = IF k \in KeysOf["web"] THEN None ELSE wanted[k]
    <3>1. Report("web", Nothing) /\ "web" \in Sources
      BY <1>5, OpeningsAssumption DEF CloseWeb
    <3>2. \A k \in Keys : Nothing[k] = None
      BY DEF Nothing
    <3> QED BY <3>1, <3>2, Told
  <2>4. ToldWeb'
    BY <2>1, <2>2, KeysApart DEF ToldInv, ToldWeb, At
  <2>5. ~met' => ToldForward'
    BY <1>1, <2>1, <2>2, KeysApart DEF ToldInv, ToldForward
  <2> QED BY <2>4, <2>5 DEF ToldInv
<1> QED BY <1>3, <1>4, <1>5

LEMMA EndTold == ASSUME Exit \/ Crash PROVE ToldInv'
<1>1. Main \in Procs /\ wanted' = Nothing
  BY DEF Procs, Exit, Crash, ManagerDies, Reboot, Forgotten
<1>2. proc'[Main].pc = "boot"
  BY <1>1 DEF Exit, Crash, ForwardsEnd, Idle
<1> QED BY <1>1, <1>2 DEF ToldInv, ToldWeb, ToldForward, Nothing, At

LEMMA ToldStep == ForwardInv /\ SoloInv /\ ToldInv /\ [Next]_vars => ToldInv'
<1> SUFFICES ASSUME ForwardInv, SoloInv, ToldInv, [Next]_vars PROVE ToldInv'  OBVIOUS
<1>1. CASE UNCHANGED <<forwards, proc, met, wanted, scanned>>
  BY <1>1 DEF ToldInv, ToldWeb, ToldForward, Opening, At
<1>2. CASE Reconcile /\ UNCHANGED fwdVars
  BY <1>1, <1>2 DEF Reconcile, Delete, DeleteFails, Add, AddFails, Commit, CommitFails,
                    ReloadFirewall, fwdVars
<1>3. ASSUME NEW k \in DOMAIN runners, RunnerExits(k), UNCHANGED fwVars PROVE ToldInv'
  BY <1>1, <1>3 DEF RunnerExits, fwVars, manager
<1>4. CASE UNCHANGED vars
  BY <1>1, <1>4 DEF vars, fwdVars, fwVars, manager
<1> QED BY <1>2, <1>3, <1>4, RequestTold, ReloadTold, SyncTold, ReturnTold, StopTold, MainTold, EndTold
        DEF Next

LEMMA ToldAlways == Spec => []ToldInv
  BY InitSolo, ToldStep, ForwardInvariant, SoloAlways, PTL DEF Spec

\* At rest the firewall opens the ports that the configuration asks for, and no others: with
\* reloads that do not overlap, after any edits, rollbacks and restarts, and any commits
\* that failed and were made good.
THEOREM OpensAsConfigured == Spec => []OpenAsConfigured
<1>1. ForwardInv /\ ToldInv /\ FirewallInv /\ OpenAsWanted => OpenAsConfigured
  <2> SUFFICES ASSUME ForwardInv, ToldInv, FirewallInv, OpenAsWanted,
                      Quiet, Resting, ~pendingCommit, exact, ~met
               PROVE  Opens(effective) = Asked
    BY DEF OpenAsConfigured
  <2>1. Main \in Procs /\ \A p \in Procs : proc[p].pc = "idle"
    BY DEF Procs, Quiet, At
  <2>2. ToldWeb /\ ToldForward
    BY DEF ToldInv
  <2>3. scanned /\ (\A k \in KeysOf["web"] : wanted[k] = WebRules[k])
    BY <2>1, <2>2 DEF ToldWeb
  <2>4. \A k \in Keys \ (KeysOf["web"] \cup Rules) : wanted[k] = None
    BY <2>2 DEF ToldWeb
  <2>5. \A i \in Rules : wanted[i] = Opening(i)
    BY <2>1, <2>2 DEF ToldForward
  <2>6. Opens(effective) = Wanted(wanted)
    BY <2>3 DEF OpenAsWanted, Resting, FirewallInv, JobShape
  <2>7. DOMAIN WebRules = KeysOf["web"] /\ (\A k \in KeysOf["web"] : WebRules[k] # None)
    BY OpeningsAssumption, FirewallAssumption
  <2>8. \A i \in Rules : Enabled(forwards[i]) => forwards[i].listen # None
    <3>1. \A i \in Rules : Enabled(forwards[i]) => forwards[i] \in Conf
      BY DEF ForwardInv, ForwardTypeOK, Enabled
    <3> QED BY <3>1, OpeningsAssumption, FirewallAssumption DEF Conf
  <2>9. Wanted(wanted) \subseteq Asked
    <3> SUFFICES ASSUME NEW k \in Keys, wanted[k] # None PROVE <<k, wanted[k]>> \in Asked
      BY DEF Wanted
    <3>1. CASE k \in KeysOf["web"]
      BY <2>3, <2>7, <3>1 DEF Asked
    <3>2. CASE k \in Rules
      BY <2>5, <3>2 DEF Asked, Opening
    <3> QED BY <2>4, <3>1, <3>2
  <2>10. Asked \subseteq Wanted(wanted)
    <3>1. ASSUME NEW i \in Rules, Enabled(forwards[i]), forwards[i].autofw
          PROVE  <<i, forwards[i].listen>> \in Wanted(wanted)
      <4>1. i \in Keys /\ wanted[i] = forwards[i].listen /\ wanted[i] # None
        BY <2>5, <2>8, <3>1, KeysApart DEF Opening
      <4> QED BY <4>1 DEF Wanted
    <3>2. ASSUME NEW k \in KeysOf["web"] PROVE <<k, WebRules[k]>> \in Wanted(wanted)
      <4>1. k \in Keys /\ wanted[k] = WebRules[k] /\ wanted[k] # None
        BY <2>3, <2>7, KeysApart
      <4> QED BY <4>1 DEF Wanted
    <3> QED BY <2>7, <3>1, <3>2 DEF Asked
  <2> QED BY <2>6, <2>9, <2>10
<1>2. Spec => []FirewallInv
  BY ManagerInProgram, FirewallInvariant, PTL
<1> QED BY <1>1, <1>2, ForwardInvariant, ToldAlways, ProgramOpensWanted, PTL

\* After Stop, when no request came in between, every listener is closed and the firewall
\* has no opening left.
THEOREM StopLeavesNothing == Spec => []StopClosesAll
<1>1. SoloInv /\ ToldInv /\ FirewallInv /\ OpenAsWanted => StopClosesAll
  <2> SUFFICES ASSUME SoloInv, ToldInv, FirewallInv, OpenAsWanted, At(Main, "closed"), Resting, ~met
               PROVE  /\ \A k \in DOMAIN runners : runners[k].done
                      /\ exact /\ ~pendingCommit => Opens(effective) = {}
    BY DEF StopClosesAll
  <2>1. \A k \in DOMAIN runners : runners[k].done
    BY DEF SoloInv, Solo, Over, At
  <2>2. ToldWeb /\ ToldForward
    BY DEF ToldInv
  <2>3. \A k \in Keys : wanted[k] = None
    BY <2>2, KeysApart DEF ToldWeb, ToldForward, At
  <2>4. Wanted(wanted) = {}
    BY <2>3 DEF Wanted
  <2>5. job = NoJob
    BY DEF Resting, FirewallInv, JobShape
  <2>6. scanned
    BY <2>2 DEF ToldWeb, At
  <2> QED BY <2>1, <2>4, <2>5, <2>6 DEF OpenAsWanted
<1>2. Spec => []FirewallInv
  BY ManagerInProgram, FirewallInvariant, PTL
<1> QED BY <1>1, <1>2, SoloAlways, ToldAlways, ProgramOpensWanted, PTL
=============================================================================
