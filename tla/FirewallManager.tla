-------------------------- MODULE FirewallManager --------------------------
(***************************************************************************)
(* Automatic openings in the firewall (src/internal/firewall): every       *)
(* source (sites, port forwards) reports the whole set of ports it wants   *)
(* open, and the manager adds and deletes the sections of the OpenWrt      *)
(* configuration that differ, commits, and reloads the firewall.           *)
(*                                                                         *)
(* uci keeps three copies: what has been staged (uci show prints it), what *)
(* has been committed, and what the firewall has loaded.  A step is one    *)
(* uci command, or the scan and comparison before the first, all of which  *)
(* run with m.mu held; a command may fail and the process may die after    *)
(* any of them.  A section is one rule of ours; the sections of others are *)
(* never touched and are left out, and nobody else edits the file while a  *)
(* command runs.  Keys are distinct over sources (they are random IDs), so *)
(* what the sources report is one function.                                *)
(***************************************************************************)
EXTENDS Naturals, FiniteSets, Functions

CONSTANTS
    Sources,   \* "web", "forward"
    Keys,      \* IDs of sites and forwarding rules
    KeysOf,    \* source -> its keys
    Ports,     \* a port with its protocol
    None,      \* not in the map
    NoPort,    \* a section without dest_port, read as port 0
    Sections,  \* names of uci sections
    Faults     \* how often a command fails, and how often the program or the machine restarts

FirewallFaults == {"command", "restart"}

ASSUME FirewallAssumption ==
    /\ KeysOf \in [Sources -> SUBSET Keys]
    /\ \A s, t \in Sources : s # t => KeysOf[s] \cap KeysOf[t] = {}
    /\ None \notin Ports /\ NoPort \notin Ports /\ None # NoPort
    /\ FirewallFaults \subseteq DOMAIN Faults /\ Faults \in [DOMAIN Faults -> Nat]

VARIABLES
    wanted,     \* Manager.sources, merged: key -> port, or None
    added,      \* Manager.added: key -> port, or None
    scanned, pendingCommit,
    job,        \* the reconcile under way: step, keys still to delete and to add
    staged, committed,  \* sections of ours: name -> key, port, number of attributes set
    effective,  \* the sections the firewall has loaded
    exact,      \* history: no command but commit has failed, no job was cut short by a restart
    faults      \* what is left of Faults

manager == <<wanted, added, scanned, pendingCommit, job>>
uci     == <<staged, committed, effective>>
fwVars  == <<manager, uci, exact, faults>>

-----------------------------------------------------------------------------

Attributes == 5   \* name, src, proto, dest_port, target, set in this order
Shown == [Keys -> Ports \cup {NoPort, None}]
Section == [key : Keys, port : Ports, set : 0..Attributes]
File(f) == DOMAIN f \subseteq Sections /\ f \in [DOMAIN f -> Section]
NoJob == [pc |-> "idle", del |-> {}, add |-> {}]
Nothing == [k \in Keys |-> None]

Fault(what) == faults[what] > 0 /\ faults' = [faults EXCEPT ![what] = @ - 1]

\* parseAndeyRules: the sections that have a name already, and the port they show.
Named(file, k) == {s \in DOMAIN file : file[s].key = k /\ file[s].set >= 1}
Port(section) == IF section.set >= 4 THEN section.port ELSE NoPort

\* Of two sections with one name either may be found: the map is read in any order.
Readings(file) ==
    {shown \in Shown : \A k \in Keys :
        IF Named(file, k) = {} THEN shown[k] = None
        ELSE \E s \in Named(file, k) : shown[k] = Port(file[s])}

\* What a file opens: a section accepts once its last attribute is set.
Opens(file) == {<<file[s].key, file[s].port>> : s \in {t \in DOMAIN file : file[t].set = Attributes}}
Wanted(w) == {<<k, w[k]>> : k \in {l \in Keys : w[l] # None}}

FirewallInit ==
    /\ wanted = Nothing /\ added = Nothing /\ scanned = FALSE /\ pendingCommit = FALSE /\ job = NoJob
    /\ staged = <<>> /\ committed = <<>> /\ effective = <<>>
    /\ exact = TRUE /\ faults = Faults

-----------------------------------------------------------------------------
(* SetDesiredFrom and reconcileLocked                                      *)

ToDelete(a, w) == {k \in Keys : a[k] # None /\ a[k] # w[k]}

\* Bug variant: what is only to be deleted is added again.
ToAdd_unwanted(a, w) == {k \in Keys : a[k] # w[k]}

ToAdd(a, w) == {k \in Keys : w[k] # None /\ a[k] # w[k]}

\* The comparison, and the early return when there is nothing to do.
Compared(a, w) ==
    job' = IF ToDelete(a, w) \cup ToAdd(a, w) = {} /\ ~pendingCommit THEN NoJob
           ELSE [pc |-> "changing", del |-> ToDelete(a, w), add |-> ToAdd(a, w)]

\* Source src reports its rules; the first report also scans. A scan that fails
\* is not repeated.
Report(src, rules) ==
    /\ job.pc = "idle"
    /\ wanted' = [k \in Keys |-> IF k \in KeysOf[src] THEN rules[k] ELSE wanted[k]]
    /\ scanned' = TRUE
    /\ \/ /\ IF scanned THEN added' = added ELSE added' \in Readings(staged)
          /\ UNCHANGED <<exact, faults>>
       \/ ~scanned /\ Fault("command") /\ UNCHANGED added /\ exact' = FALSE
    /\ Compared(added', wanted')
    /\ UNCHANGED <<pendingCommit, uci>>

\* The section is looked up by name and deleted. A key that could not be deleted
\* is passed over.
Delete(k) ==
    /\ job.pc = "changing" /\ k \in job.del
    /\ \E s \in Named(staged, k) : staged' = Restrict(staged, DOMAIN staged \ {s})
    /\ added' = [added EXCEPT ![k] = None]
    /\ job' = [job EXCEPT !.del = @ \ {k}]
    /\ UNCHANGED <<wanted, scanned, pendingCommit, committed, effective, exact, faults>>

DeleteFails(k) ==
    /\ job.pc = "changing" /\ k \in job.del
    /\ Fault("command") /\ exact' = FALSE
    /\ job' = [job EXCEPT !.del = @ \ {k}]
    /\ UNCHANGED <<wanted, added, scanned, pendingCommit, uci>>

\* A new section for k with the first n attributes set.
Staged(k, n) ==
    LET s == CHOOSE t \in Sections : t \notin DOMAIN staged
    IN  /\ Sections # DOMAIN staged
        /\ staged' = [t \in DOMAIN staged \cup {s} |->
                         IF t = s THEN [key |-> k, port |-> wanted[k], set |-> n] ELSE staged[t]]

\* Bug variant: the rule is remembered as soon as the section is there.
AddFails_remembers(k, n) ==
    /\ job.pc = "changing" /\ job.del = {} /\ k \in job.add
    /\ Fault("command") /\ exact' = FALSE
    /\ added' = [added EXCEPT ![k] = wanted[k]]
    /\ Staged(k, n)
    /\ job' = [job EXCEPT !.add = @ \ {k}]
    /\ UNCHANGED <<wanted, scanned, pendingCommit, committed, effective>>

\* addRuleLocked
Add(k) ==
    /\ job.pc = "changing" /\ job.del = {} /\ k \in job.add
    /\ Staged(k, Attributes)
    /\ added' = [added EXCEPT ![k] = wanted[k]]
    /\ job' = [job EXCEPT !.add = @ \ {k}]
    /\ UNCHANGED <<wanted, scanned, pendingCommit, committed, effective, exact, faults>>

\* The section, or one of its attributes, is refused: what was set stays.
AddFails(k, n) ==
    /\ job.pc = "changing" /\ job.del = {} /\ k \in job.add
    /\ Fault("command") /\ exact' = FALSE
    /\ Staged(k, n) \/ (n = 0 /\ UNCHANGED staged)
    /\ job' = [job EXCEPT !.add = @ \ {k}]
    /\ UNCHANGED <<wanted, added, scanned, pendingCommit, committed, effective>>

Changed == job.pc = "changing" /\ job.del \cup job.add = {}

Commit ==
    /\ Changed
    /\ committed' = staged /\ pendingCommit' = FALSE
    /\ job' = [job EXCEPT !.pc = "reloading"]
    /\ UNCHANGED <<wanted, added, scanned, staged, effective, exact, faults>>

\* Bug variant: that the commit is outstanding is not remembered.
CommitFails_forgets ==
    /\ Changed
    /\ Fault("command")
    /\ job' = NoJob
    /\ UNCHANGED <<wanted, added, scanned, pendingCommit, uci, exact>>

CommitFails ==
    /\ Changed
    /\ Fault("command") /\ pendingCommit' = TRUE
    /\ job' = NoJob
    /\ UNCHANGED <<wanted, added, scanned, uci, exact>>

\* reloadFirewall: a failure is logged and nothing repeats it.
ReloadFirewall ==
    /\ job.pc = "reloading"
    /\ \/ effective' = committed /\ UNCHANGED <<exact, faults>>
       \/ Fault("command") /\ exact' = FALSE /\ UNCHANGED effective
    /\ job' = NoJob
    /\ UNCHANGED <<wanted, added, scanned, pendingCommit, staged, committed>>

-----------------------------------------------------------------------------

\* The memory of the manager is gone.
Forgotten ==
    /\ wanted' = Nothing /\ added' = Nothing /\ scanned' = FALSE
    /\ pendingCommit' = FALSE /\ job' = NoJob

\* A process that dies with changes under way, or with a commit outstanding, leaves
\* them staged.
ManagerDies ==
    /\ Forgotten
    /\ exact' = (exact /\ job = NoJob /\ ~pendingCommit)
    /\ UNCHANGED uci

\* The machine restarts: what was staged is gone, what was committed is loaded.
Reboot ==
    /\ Forgotten
    /\ staged' = committed /\ effective' = committed
    /\ UNCHANGED <<committed, exact>>

Reconcile ==
    \/ \E k \in Keys : Delete(k) \/ DeleteFails(k) \/ Add(k)
    \/ \E k \in Keys, n \in 0..(Attributes - 1) : AddFails(k, n)
    \/ Commit \/ CommitFails \/ ReloadFirewall

FirewallNext ==
    \/ \E src \in Sources, rules \in [Keys -> Ports \cup {None}] : Report(src, rules)
    \/ Reconcile
    \/ (ManagerDies \/ Reboot) /\ (Fault("restart") \/ UNCHANGED faults)

FirewallSpec == FirewallInit /\ [][FirewallNext]_fwVars

-----------------------------------------------------------------------------
(* Properties                                                              *)

FirewallTypeOK ==
    /\ wanted \in [Keys -> Ports \cup {None}] /\ added \in Shown
    /\ scanned \in BOOLEAN /\ pendingCommit \in BOOLEAN
    /\ job \in [pc : {"idle", "changing", "reloading"}, del : SUBSET Keys, add : SUBSET Keys]
    /\ File(staged) /\ File(committed) /\ File(effective)
    /\ exact \in BOOLEAN /\ faults \in [DOMAIN Faults -> Nat]

\* What the status page shows (Rules) is in the configuration: every rule in the
\* map has a section, whatever commands have failed.
ShownIsStaged ==
    \A k \in Keys : added[k] # None => \E s \in Named(staged, k) : Port(staged[s]) = added[k]

\* When the manager rests, the firewall opens exactly what the sources want, unless a
\* commit is outstanding: whatever was opened before a restart, whatever a commit
\* that failed has held up, and in whatever order the sources reported. (A deletion,
\* an addition, a scan or a reload of the firewall that failed is not made good.)
OpenAsWanted ==
    job = NoJob /\ scanned /\ ~pendingCommit /\ exact => Opens(effective) = Wanted(wanted)

=============================================================================
