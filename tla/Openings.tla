------------------------------ MODULE Openings ------------------------------
(***************************************************************************)
(* Port forwarding and the firewall together.  The forwarding service      *)
(* reports its ports to the firewall manager, which serves one report at a *)
(* time; so does the web service, whose sites are given.  main starts the  *)
(* web service first and stops it last; the program may die, or the        *)
(* machine restart, at any step.                                           *)
(***************************************************************************)
EXTENDS ForwardService, FirewallManager

CONSTANT WebRules   \* the openings of the sites: key -> port

ASSUME OpeningsAssumption ==
    /\ Sources = {"web", "forward"} /\ KeysOf["forward"] = Rules
    /\ WebRules \in [KeysOf["web"] -> Ports] /\ Listens \subseteq Ports

vars == <<fwdVars, fwVars>>

Resting == job.pc = "idle"

\* A report of some keys, over all keys.
AllKeys(rules) == [k \in Keys |-> IF k \in DOMAIN rules THEN rules[k] ELSE None]

Init == ForwardInit /\ FirewallInit

\* A request changes the rules, or goes on with Reload.
Request(q) ==
    \/ \E e \in Edits : ReadPrevious(q, e) \/ Put(q, e) \/ Edit(q, e)
    \/ PutRefused(q) \/ Rollback(q)

Reload(p) ==
    \/ ReadRules(p) \/ CancelChanged(p) \/ AwaitStopped(p)
    \/ \E i \in Rules : StartRule(p, i) \/ StartFails(p, i)
    \/ Started(p) \/ ReadWanted(p)

\* syncFirewall returns when the report has been worked through.
SyncFirewall(p) == Sync(p) /\ Report("forward", AllKeys(Reported(p)))
Return(p) == Answer(p) /\ Resting /\ UNCHANGED fwVars

\* The web service has its sites opened before the forwards are started, and
\* closed after they are stopped.
StartWeb == Boot /\ Report("web", AllKeys(WebRules))
CloseForwards == Closed("drained", "closing") /\ Report("forward", Nothing)
CloseWeb == Closed("closing", "closed") /\ Report("web", Nothing)

Exit == At(Main, "closed") /\ Resting /\ ForwardsEnd /\ ManagerDies /\ UNCHANGED faults

Crash == Fault("restart") /\ ForwardsEnd /\ (ManagerDies \/ Reboot)

Next ==
    \/ \E q \in Requests : Request(q) /\ UNCHANGED fwVars
    \/ \E p \in Procs : Reload(p) /\ UNCHANGED fwVars
    \/ \E p \in Procs : SyncFirewall(p) \/ Return(p)
    \/ \E k \in DOMAIN runners : RunnerExits(k) /\ UNCHANGED fwVars
    \/ Reconcile /\ UNCHANGED fwdVars
    \/ StartWeb
    \/ (Stop \/ Drained) /\ UNCHANGED fwVars
    \/ CloseForwards \/ CloseWeb
    \/ Exit \/ Crash

Spec == Init /\ [][Next]_vars

-----------------------------------------------------------------------------
(* Properties                                                              *)

TypeOK == ForwardTypeOK /\ FirewallTypeOK

\* The ports that the rules and the sites ask for.
Asked == {<<i, forwards[i].listen>> : i \in {j \in Rules : Enabled(forwards[j]) /\ forwards[j].autofw}}
             \cup {<<k, WebRules[k]>> : k \in DOMAIN WebRules}

\* When all is quiet, the firewall opens the ports that the configuration asks for and no
\* others: after any number of edits, rollbacks, restarts, and commits that failed and
\* were made good; also for a rule whose listener could not be started. It needs reloads
\* that do not overlap, and uci commands other than commit that do not fail.
OpenAsConfigured ==
    Quiet /\ Resting /\ ~pendingCommit /\ exact /\ ~met => Opens(effective) = Asked

\* What Stop leaves when no request came in between: no listener and no opening.
StopClosesAll ==
    At(Main, "closed") /\ Resting /\ ~met =>
        /\ \A k \in DOMAIN runners : runners[k].done
        /\ exact /\ ~pendingCommit => Opens(effective) = {}

=============================================================================
