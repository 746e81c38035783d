--------------------------- MODULE ForwardService ---------------------------
(***************************************************************************)
(* Port forwarding (src/internal/forward): the API changes the rules in    *)
(* the configuration and calls Reload, which stops the listeners whose     *)
(* rule has changed, waits for them, starts what is missing and reports    *)
(* the ports that should be open in the firewall.                          *)
(*                                                                         *)
(* Nothing keeps two requests from being in Reload at the same time: mu is *)
(* held while runners are cancelled and while they are started, and not in *)
(* between.  A step is one critical section of mu or of the configuration, *)
(* or one listener that is opened while mu is held.  Of a rule only the    *)
(* listening address, enabled and AutoFW are kept; any change of it        *)
(* restarts its listener.  Connections are left out.                       *)
(*                                                                         *)
(* main starts the service when the program starts (boot), and stops it    *)
(* before it ends, possibly while requests are still under way: the HTTP   *)
(* server is given five seconds only.                                      *)
(***************************************************************************)
EXTENDS Naturals, Sequences, FiniteSets

CONSTANTS
    Requests,    \* handler goroutines of the API
    Main,        \* the goroutine of main
    Rules,       \* IDs of forwarding rules
    Listens,     \* listening addresses
    NoRule,      \* no such rule
    StartRules,  \* the rules in the configuration at first
    Edits,       \* what the API may be asked for: rule, new value (or toggle)
    Limits       \* edits; how often a port is taken by another program or a change
                 \* cannot be saved; how often the program is stopped

ForwardLimits == {"edit", "fault", "stop"}
Conf == [listen : Listens, enabled : BOOLEAN, autofw : BOOLEAN]
Procs == Requests \cup {Main}

ASSUME ForwardAssumption ==
    /\ Main \notin Requests /\ NoRule \notin Conf /\ Rules # {}
    /\ StartRules \in [Rules -> Conf \cup {NoRule}]
    /\ \A e \in Edits : e.op \in {"post", "put", "delete", "toggle"} /\ e.rule \in Rules
                        /\ e.conf \in Conf
    /\ ForwardLimits \subseteq DOMAIN Limits /\ Limits \in [DOMAIN Limits -> Nat]

VARIABLES
    forwards,   \* cfg.Forwards: rule -> its value, or NoRule
    posted,     \* rules ever added: an ID is never used again
    running,    \* Service.running: rule -> its runner, or 0
    runners,    \* runners ever started
    mu,         \* who is starting listeners, or Main when nobody is
    proc,       \* the requests under way, and main
    failed,     \* history: rules whose last start has failed
    met,        \* history: two reloads have overlapped
    limits      \* what is left of Limits

fwdVars == <<forwards, posted, running, runners, mu, proc, failed, met, limits>>

-----------------------------------------------------------------------------

Spend(what) == limits[what] > 0 /\ limits' = [limits EXCEPT ![what] = @ - 1]

NoUndo == [op |-> "none", rule |-> CHOOSE i \in Rules : TRUE, conf |-> NoRule]
NoRules == [i \in Rules |-> NoRule]
Idle == [pc |-> "idle", undo |-> NoUndo, snap |-> NoRules, stopped |-> {},
         todo |-> {}, err |-> FALSE, hindered |-> FALSE]

At(p, pc) == proc[p].pc = pc
Go(p, pc) == proc' = [proc EXCEPT ![p].pc = pc]
Serving == At(Main, "idle")
Quiet == \A q \in Procs : At(q, "idle")

Enabled(conf) == conf # NoRule /\ conf.enabled

ForwardInit ==
    /\ forwards = StartRules /\ posted = {i \in Rules : StartRules[i] # NoRule}
    /\ running = [i \in Rules |-> 0] /\ runners = <<>> /\ mu = Main
    /\ proc = [[p \in Procs |-> Idle] EXCEPT ![Main].pc = "boot"]
    /\ failed = {} /\ met = FALSE /\ limits = Limits

-----------------------------------------------------------------------------
(* The handlers of the API: change the configuration, reload, undo         *)

\* PUT reads the rule it may have to restore in a critical section of its own.
ReadPrevious(q, e) ==
    /\ e.op = "put" /\ Serving /\ At(q, "idle") /\ forwards[e.rule] # NoRule
    /\ Spend("edit")
    /\ proc' = [proc EXCEPT ![q] = [Idle EXCEPT !.pc = "put",
                    !.undo = [op |-> "put", rule |-> e.rule, conf |-> forwards[e.rule]]]]
    /\ met' = (met \/ ~Quiet)
    /\ UNCHANGED <<forwards, posted, running, runners, mu, failed>>

Put(q, e) ==
    /\ At(q, "put") /\ e.op = "put" /\ e.rule = proc[q].undo.rule
    /\ forwards[e.rule] # NoRule
    /\ forwards' = [forwards EXCEPT ![e.rule] = e.conf]
    /\ Go(q, "reload")
    /\ UNCHANGED <<posted, running, runners, mu, failed, met, limits>>

\* Deleted in the meantime (404), or the configuration cannot be saved.
PutRefused(q) ==
    /\ At(q, "put")
    /\ IF forwards[proc[q].undo.rule] = NoRule THEN UNCHANGED limits ELSE Spend("fault")
    /\ proc' = [proc EXCEPT ![q] = Idle]
    /\ UNCHANGED <<forwards, posted, running, runners, mu, failed, met>>

\* The other handlers change the configuration at once. Delete undoes nothing.
NewValue(e) ==
    CASE e.op = "post"   -> e.conf
      [] e.op = "delete" -> NoRule
      [] e.op = "toggle" -> [forwards[e.rule] EXCEPT !.enabled = ~@]

Edit(q, e) ==
    /\ e.op # "put" /\ Serving /\ At(q, "idle")
    /\ IF e.op = "post" THEN e.rule \notin posted ELSE forwards[e.rule] # NoRule
    /\ Spend("edit")
    /\ forwards' = [forwards EXCEPT ![e.rule] = NewValue(e)]
    /\ posted' = posted \cup {e.rule}
    /\ proc' = [proc EXCEPT ![q] = [Idle EXCEPT !.pc = "reload", !.undo =
                    IF e.op = "delete" THEN NoUndo
                    ELSE [op |-> e.op, rule |-> e.rule, conf |-> forwards[e.rule]]]]
    /\ met' = (met \/ ~Quiet)
    /\ UNCHANGED <<running, runners, mu, failed>>

\* Bug variant: the rule is put back even if it was deleted in the meantime.
Undone_always(undo) == [forwards EXCEPT ![undo.rule] = undo.conf]

\* What a rollback makes of the rules. A rule that is gone stays gone.
Undone(undo) ==
    LET gone == forwards[undo.rule] = NoRule
    IN  CASE undo.op = "post" \/ gone     -> [forwards EXCEPT ![undo.rule] = NoRule]
          [] undo.op = "put" /\ ~gone    -> [forwards EXCEPT ![undo.rule] = undo.conf]
          [] undo.op = "toggle" /\ ~gone -> [forwards EXCEPT ![undo.rule].enabled = undo.conf.enabled]

\* Reload has failed: the change is undone, and Reload called again. If the
\* configuration cannot be saved it stays as it is.
Rollback(q) ==
    /\ At(q, "rollback")
    /\ \/ forwards' = Undone(proc[q].undo) /\ UNCHANGED limits
       \/ Spend("fault") /\ UNCHANGED forwards
    /\ proc' = [proc EXCEPT ![q].pc = "reload", ![q].undo = NoUndo, ![q].err = FALSE]
    /\ UNCHANGED <<posted, running, runners, mu, failed, met>>

-----------------------------------------------------------------------------
(* Reload, and Start, which is the same with nothing running               *)

MuFree == mu = Main

ReadRules(p) ==
    /\ At(p, "reload")
    /\ proc' = [proc EXCEPT ![p].pc = "cancel", ![p].snap = forwards]
    /\ UNCHANGED <<forwards, posted, running, runners, mu, failed, met, limits>>

\* Bug variant: a rule that was deleted keeps its listener.
Stale_keepsDeleted(p, i) ==
    running[i] # 0 /\ proc[p].snap[i] # NoRule /\ runners[running[i]].conf # proc[p].snap[i]

Stale(p, i) == running[i] # 0 /\ runners[running[i]].conf # proc[p].snap[i]

\* The first critical section: runners whose rule is gone, disabled or changed.
CancelChanged(p) ==
    LET K == {i \in Rules : Stale(p, i)}
    IN  /\ At(p, "cancel") /\ MuFree
        /\ runners' = [k \in DOMAIN runners |->
               IF \E i \in K : running[i] = k THEN [runners[k] EXCEPT !.cancelled = TRUE] ELSE runners[k]]
        /\ running' = [i \in Rules |-> IF i \in K THEN 0 ELSE running[i]]
        /\ proc' = [proc EXCEPT ![p].pc = "wait", ![p].stopped = {running[i] : i \in K}]
        /\ UNCHANGED <<forwards, posted, mu, failed, met, limits>>

\* Bug variant: whether the rule runs is not looked at again.
ToStart_unchecked(p) == {i \in Rules : Enabled(proc[p].snap[i])}

\* The rules that are enabled and not running.
ToStart(p) == {i \in Rules : Enabled(proc[p].snap[i]) /\ running[i] = 0}

\* <-runner.done of each that was cancelled, then mu again, to the end of StartRule.
AwaitStopped(p) ==
    /\ At(p, "wait") /\ (\A k \in proc[p].stopped : runners[k].done) /\ MuFree
    /\ mu' = p
    /\ proc' = [proc EXCEPT ![p].pc = "start", ![p].stopped = {}, ![p].todo = ToStart(p)]
    /\ UNCHANGED <<forwards, posted, running, runners, failed, met, limits>>

\* The listeners that hold an address; after done it is free.
Holders(l) == {k \in DOMAIN runners : runners[k].conf.listen = l /\ ~runners[k].done}

\* startRuleLocked
StartRule(p, i) ==
    /\ i \in proc[p].todo /\ Holders(proc[p].snap[i].listen) = {}
    /\ runners' = Append(runners, [rule |-> i, conf |-> proc[p].snap[i],
                                   cancelled |-> FALSE, done |-> FALSE])
    /\ running' = [running EXCEPT ![i] = Len(runners) + 1]
    /\ failed' = failed \ {i}
    /\ proc' = [proc EXCEPT ![p].todo = @ \ {i}]
    /\ UNCHANGED <<forwards, posted, mu, met, limits>>

\* The address is taken: by a listener of ours, or by another program.
StartFails(p, i) ==
    LET holders == Holders(proc[p].snap[i].listen)
    IN  /\ i \in proc[p].todo
        /\ IF holders # {} THEN UNCHANGED limits ELSE Spend("fault")
        /\ failed' = failed \cup {i}
        /\ proc' = [proc EXCEPT ![p].todo = @ \ {i}, ![p].err = TRUE,
                        ![p].hindered = @ \/ (holders # {} /\ \A k \in holders : runners[k].cancelled)]
        /\ UNCHANGED <<forwards, posted, running, runners, mu, met>>

Started(p) ==
    /\ At(p, "start") /\ proc[p].todo = {}
    /\ mu' = Main
    /\ proc' = [proc EXCEPT ![p].pc = "sync", ![p].snap = NoRules]
    /\ UNCHANGED <<forwards, posted, running, runners, failed, met, limits>>

\* syncFirewall reads the rules once more ...
ReadWanted(p) ==
    /\ At(p, "sync")
    /\ proc' = [proc EXCEPT ![p].pc = "report", ![p].snap = forwards]
    /\ UNCHANGED <<forwards, posted, running, runners, mu, failed, met, limits>>

\* Bug variant: rules that are disabled are reported as well.
Reported_disabled(p) ==
    [i \in {j \in Rules : proc[p].snap[j] # NoRule /\ proc[p].snap[j].autofw} |-> proc[p].snap[i].listen]

\* ... and reports the ports of those that are enabled and want an opening.
Reported(p) ==
    [i \in {j \in Rules : Enabled(proc[p].snap[j]) /\ proc[p].snap[j].autofw} |-> proc[p].snap[i].listen]

Sync(p) ==
    /\ At(p, "report")
    /\ proc' = [proc EXCEPT ![p].pc = "reported", ![p].snap = NoRules]
    /\ UNCHANGED <<forwards, posted, running, runners, mu, failed, met, limits>>

\* Reload returns; its error leads to a rollback, unless there is nothing to undo.
Answer(p) ==
    /\ At(p, "reported")
    /\ proc' = IF proc[p].err /\ proc[p].undo.op # "none"
               THEN [proc EXCEPT ![p].pc = "rollback"]
               ELSE [proc EXCEPT ![p] = Idle]
    /\ UNCHANGED <<forwards, posted, running, runners, mu, failed, met, limits>>

\* A cancelled runner has closed its listener and is done.
RunnerExits(k) ==
    /\ runners[k].cancelled /\ ~runners[k].done
    /\ runners' = [runners EXCEPT ![k].done = TRUE]
    /\ UNCHANGED <<forwards, posted, running, mu, proc, failed, met, limits>>

-----------------------------------------------------------------------------
(* main: Start, Stop, and the end of the program                           *)

Boot ==
    /\ At(Main, "boot") /\ Go(Main, "reload")
    /\ UNCHANGED <<forwards, posted, running, runners, mu, failed, met, limits>>

\* Stop cancels every runner, waits for them (and for every other, wg), and reports
\* that nothing is to be open.
Stop ==
    /\ Serving /\ MuFree /\ Spend("stop")
    /\ runners' = [k \in DOMAIN runners |->
           IF \E i \in Rules : running[i] = k THEN [runners[k] EXCEPT !.cancelled = TRUE] ELSE runners[k]]
    /\ running' = [i \in Rules |-> 0]
    /\ Go(Main, "stopping")
    /\ met' = (met \/ ~Quiet)
    /\ UNCHANGED <<forwards, posted, mu, failed>>

\* Bug variant: Stop does not wait.
Drained_early ==
    /\ At(Main, "stopping") /\ Go(Main, "drained")
    /\ UNCHANGED <<forwards, posted, running, runners, mu, failed, met, limits>>

Drained ==
    /\ At(Main, "stopping") /\ \A k \in DOMAIN runners : runners[k].done
    /\ Go(Main, "drained")
    /\ UNCHANGED <<forwards, posted, running, runners, mu, failed, met, limits>>

Closed(from, to) ==
    /\ At(Main, from) /\ Go(Main, to)
    /\ UNCHANGED <<forwards, posted, running, runners, mu, failed, met, limits>>

\* The program ends, at any moment or after Stop, and is started again with the
\* configuration as it was saved.
ForwardsEnd ==
    /\ running' = [i \in Rules |-> 0] /\ runners' = <<>> /\ mu' = Main
    /\ proc' = [[p \in Procs |-> Idle] EXCEPT ![Main].pc = "boot"]
    /\ failed' = {} /\ met' = FALSE
    /\ UNCHANGED <<forwards, posted, limits>>

-----------------------------------------------------------------------------
(* Properties                                                              *)

Undo == [op : {"none", "post", "put", "toggle"}, rule : Rules, conf : Conf \cup {NoRule}]
Late == {"idle", "stopping", "drained", "closing", "closed"}   \* main, once all is started
Process == [pc : Late \cup {"put", "rollback", "reload", "cancel", "wait", "start", "sync",
                            "report", "reported", "boot"},
            undo : Undo, snap : [Rules -> Conf \cup {NoRule}], stopped : SUBSET Nat,
            todo : SUBSET Rules, err : BOOLEAN, hindered : BOOLEAN]
Runner == [rule : Rules, conf : Conf, cancelled : BOOLEAN, done : BOOLEAN]

ForwardTypeOK ==
    /\ forwards \in [Rules -> Conf \cup {NoRule}] /\ posted \subseteq Rules
    /\ runners \in Seq(Runner)
    /\ running \in [Rules -> 0..Len(runners)] /\ mu \in Procs
    /\ proc \in [Procs -> Process]
    /\ \A p \in Procs : proc[p].stopped \subseteq DOMAIN runners
    /\ failed \subseteq Rules /\ met \in BOOLEAN /\ limits \in [DOMAIN Limits -> Nat]

\* No listener is forgotten, however reloads and Stop overlap: a runner that was not
\* cancelled is the one its rule is known by, so that the next Reload or Stop finds it.
NoListenerForgotten ==
    \A k \in DOMAIN runners : ~runners[k].cancelled => running[runners[k].rule] = k

\* A rule that was deleted stays deleted: no rollback of another request, which read the
\* rule before, brings it back.
DeletedStaysDeleted ==
    [][\A i \in posted : forwards[i] = NoRule => forwards'[i] = NoRule]_fwdVars

\* When all is quiet, the listeners are those of the rules, but for rules whose
\* address was taken.
Agrees ==
    \A i \in Rules :
        IF Enabled(forwards[i])
        THEN (running[i] # 0 /\ runners[running[i]].conf = forwards[i]) \/ i \in failed
        ELSE running[i] = 0

\* As long as reloads do not overlap, what runs is what is configured, after any number
\* of edits, rollbacks and restarts, and no start is hindered by a listener that is
\* just being stopped.
RunsAsConfigured ==
    ~met => /\ Quiet => Agrees
            /\ \A p \in Procs : ~proc[p].hindered

\* forward.go:101, "Reload recomputes the running state from the current
\* configuration": whatever overlaps, when all is quiet the listeners are those of the
\* rules.
ReloadIsCurrent == Quiet => Agrees

=============================================================================
