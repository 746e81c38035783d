---------------------------- MODULE SiteEditing ----------------------------
(***************************************************************************)
(* Editing a site and its rules from several browser tabs at once.         *)
(*                                                                         *)
(* Every tab shows the list of sites as some answer of the server gave it, *)
(* opens the site dialog (SiteDialog.vue) or the rule editor               *)
(* (RuleEditor.vue) on what it shows, and sends the change together with   *)
(* the revision it saw.  The server (internal/webproxy/api.go) takes one   *)
(* change at a time, compares revisions, writes the configuration, reloads *)
(* the proxy and, when the reload fails, puts the former site back.  Lists *)
(* are read without waiting for a change that is still being reloaded.     *)
(*                                                                         *)
(* What an editor writes is abstracted to a stamp: the number of the edit  *)
(* that wrote it.  A cell of the site is its settings, the order of its    *)
(* rules, the body of a rule, or the health check of a rule.               *)
(***************************************************************************)
EXTENDS Integers, FiniteSets

CONSTANTS
    Tabs,       \* browser tabs that show the web service page
    RuleIds,    \* identifiers a rule of the site can get
    FirstRules, \* the rules the site has at the start
    NoRule,     \* no rule: a change of the site itself, or a new rule
    Slots,      \* names of the changes that can be under way at once
    NoSlot,     \* no change
    Uses,       \* which parts of the page the users of the tabs use
    MaxSent,    \* bound on the changes the users send
    MaxOpens,   \* bound on the rule editors the users open
    MaxEdits,   \* bound on the changes that reach the configuration
    MaxUndone,  \* bound on the reloads that fail
    MaxProbes   \* bound on the health settings a tab waits for

ASSUME IdsAssumption ==
    /\ FirstRules \subseteq RuleIds
    /\ NoRule \notin RuleIds
    /\ NoSlot \notin Slots
    /\ MaxSent \in Nat /\ MaxOpens \in Nat /\ MaxUndone \in Nat
    /\ MaxEdits \in Nat \ {0} \* the first site is an edit, too
    /\ MaxProbes \in Nat

VARIABLES
    site,    \* the site in the configuration
    health,  \* health checks of the rules in the configuration
    busy,    \* the change that holds mutationMu, or NoSlot
    prior,   \* what the holder of mutationMu found: site and health
    page,    \* page[t]: the site as tab t shows it
    dialog,  \* dialog[t]: the site dialog of the tab
    editor,  \* editor[t]: the rule editor of the tab
    probes,  \* probes[t]: health settings the tab waits for
    uses,    \* uses[t]: the parts the user of tab t uses
    call     \* call[s]: a change under way

\* History, for the properties only
VARIABLES
    sent,    \* changes sent so far
    opens,   \* rule editors opened so far
    edits,   \* stamp of the last change written
    undone,  \* stamps whose reload failed and that were taken back
    used,    \* rule identifiers handed out so far
    blind    \* kinds of changes that overwrote what their editor never saw

server  == <<site, health, busy, prior>>
tabs    == <<page, uses, dialog, editor, probes>>
history == <<sent, opens, edits, undone, used, blind>>
vars    == <<site, health, busy, prior, page, uses, dialog, editor,
             probes, call, sent, opens, edits, undone, used, blind>>

Stamps == 0 .. MaxEdits
Kinds  == {"site", "flip", "drop", "order", "rule", "new", "toggle", "delete"}
NoBody == [rev |-> 0, body |-> 0]

\* config.Site as far as two editors can disagree about it.  body = 0: no rule.
\* `ver', the last edit in force, is for the properties: the code knows `rev'.
Sites == [live : BOOLEAN, ver : Stamps, rev : Nat, head : Stamps, order : Stamps,
          rules : [RuleIds -> [rev : Nat, body : Stamps]]]

\* A request that changes the site.  `seen' and `health' are what its editor
\* was filled from, `expected' the revision it sends, `changes' what the
\* user changed, `current' whether the dialog it came from is still the same
\* opening of the dialog, `res' how far it got, `waiting' whether the tab
\* still waits for the answer.
Calls == [tab : Tabs, kind : Kinds, rule : RuleIds \cup {NoRule},
          expected : Nat, seen : Sites, health : Stamps,
          changes : SUBSET {"body", "health"}, current : BOOLEAN,
          waiting : BOOLEAN,
          res : {"sent", "reloading", "ok", "conflict", "failed", "gone"}]

Free == [res |-> "free"]

HasRule(s, r) == s.live /\ r # NoRule /\ s.rules[r].body # 0

-----------------------------------------------------------------------------
(* The server                                                              *)

\* The revision mutateRules compares with: an existing rule has its own,
\* the site itself, a new rule and the order of the rules use the site's.
Revision(c) == IF HasRule(site, c.rule) THEN site.rules[c.rule].rev ELSE site.rev

\* bumpSite: the site moves on by one, and so does every rule that is new or
\* differs from what it was.
BumpSite(next, was) ==
    [next EXCEPT !.rev = was.rev + 1,
                 !.rules = [r \in RuleIds |->
                    IF next.rules[r].body = 0 THEN NoBody
                    ELSE [body |-> next.rules[r].body,
                          rev  |-> IF next.rules[r].body = was.rules[r].body
                                   THEN was.rules[r].rev
                                   ELSE was.rules[r].rev + 1]]]

\* Mutant: a change of the health check alone does not move the rule on.
BumpHealth_bodyOnly(next, was, c) == next

\* A health check sent with a rule always moves the rule on (mutateRules).
BumpHealth(next, was, c) ==
    IF c.kind = "rule" /\ next.rules[c.rule].rev = was.rules[c.rule].rev
    THEN [next EXCEPT !.rules[c.rule].rev = @ + 1]
    ELSE next

SetRule(s, r, stamp) == [s EXCEPT !.rules[r].body = stamp]

\* The site after change c, which is written with this stamp; id is the
\* identifier of a new rule.
Written(c, stamp, id) ==
    CASE c.kind = "site"   -> BumpSite([site EXCEPT !.head = stamp,
                                                    !.order = c.seen.order,
                                                    !.rules = c.seen.rules], site)
      [] c.kind = "flip"   -> [site EXCEPT !.head = stamp, !.rev = @ + 1]
      [] c.kind = "drop"   -> [site EXCEPT !.live = FALSE]
      [] c.kind = "order"  -> BumpSite([site EXCEPT !.order = stamp], site)
      [] c.kind = "toggle" -> BumpSite(SetRule(site, c.rule, stamp), site)
      [] c.kind = "delete" -> BumpSite([SetRule(site, c.rule, 0) EXCEPT !.order = stamp], site)
      [] c.kind = "new"    -> BumpSite([SetRule(site, id, stamp) EXCEPT !.order = stamp], site)
      [] c.kind = "rule"   -> BumpHealth(
             BumpSite(SetRule(site, c.rule, IF "body" \in c.changes THEN stamp
                                            ELSE c.seen.rules[c.rule].body), site), site, c)

\* RuleHealthChecks after the change: those of missing rules go.
HealthWritten(c, next, stamp, id) ==
    IF c.kind \in {"site", "flip"} THEN health
    ELSE [r \in RuleIds |->
            CASE ~HasRule(next, r) -> 0
              [] HasRule(next, r) /\ r \in {c.rule, id} /\ c.kind \in {"rule", "new"} ->
                    IF "health" \in c.changes THEN stamp ELSE c.health
              [] OTHER -> health[r]]

\* The cells that change c overwrites, with the stamps they have in site s
\* with health checks h.
Cells(c, s, h) ==
    CASE c.kind \in {"site", "drop"} ->
            {<<"head", s.head>>, <<"order", s.order>>}
               \cup {<<"rule", r, s.rules[r].body>> : r \in RuleIds}
      [] c.kind = "flip"  -> {<<"head", s.head>>}
      [] c.kind = "order" -> {<<"order", s.order>>}
      [] c.kind = "new"   -> {}
      [] c.kind = "rule"  -> {<<"rule", c.rule, s.rules[c.rule].body>>, <<"health", h[c.rule]>>}
      [] c.kind \in {"toggle", "delete"} -> {<<"rule", c.rule, s.rules[c.rule].body>>}

SeenBy(c) == Cells(c, c.seen, [r \in RuleIds |-> c.health])
\* A new rule starts without a health check, as its empty form shows.
Informed(c) ==
    /\ SeenBy(c) = Cells(c, site, health)
    /\ c.kind = "new" => "health" \in c.changes \/ c.health = 0
\* The editor was filled from a version that was taken back.
SawUndone(c) == c.seen.ver \in undone \/ c.health \in undone

\* Mutant: revisions are not compared.
Refusal_unchecked(c) ==
    IF ~site.live \/ (c.rule # NoRule /\ ~HasRule(site, c.rule)) THEN "gone" ELSE "none"

\* What a request is told when nothing is to be changed: no such site or
\* rule, another revision, other rules than the ones to put in order.
Refusal(c) ==
    CASE ~site.live -> "gone"
      [] site.live /\ c.expected # Revision(c) -> "conflict"
      [] OTHER -> CASE c.rule # NoRule /\ ~HasRule(site, c.rule) -> "gone"
                    [] c.kind = "order" /\ \E r \in RuleIds :
                          HasRule(c.seen, r) # HasRule(site, r) -> "failed"
                    [] OTHER -> "none"

Refuse(s) ==
    /\ busy = NoSlot
    /\ call[s].res = "sent"
    /\ Refusal(call[s]) # "none"
    /\ call' = [call EXCEPT ![s].res = Refusal(call[s])]
    /\ UNCHANGED <<server, tabs, history>>

\* The request is malformed, or the configuration cannot be saved.
Reject(s) ==
    /\ busy = NoSlot
    /\ call[s].res = "sent"
    /\ Refusal(call[s]) = "none"
    /\ call' = [call EXCEPT ![s].res = "failed"]
    /\ UNCHANGED <<server, tabs, history>>

\* How many changes of this opening of the rule editor are in force.
Applied(c, n) ==
    editor' = IF c.current /\ c.kind \in {"rule", "new"}
              THEN [editor EXCEPT ![c.tab].applied = @ + n]
              ELSE editor

\* The change is written and its reload begins; mutationMu stays held.
Commit(s, id) ==
    LET c == call[s]
        stamp == edits + 1
        next == Written(c, stamp, id)
    IN  /\ busy = NoSlot
        /\ c.res = "sent"
        /\ edits < MaxEdits
        /\ Refusal(c) = "none"
        /\ IF c.kind = "new" THEN id \in RuleIds \ used ELSE id = NoRule
        /\ site' = [next EXCEPT !.ver = stamp]
        /\ health' = HealthWritten(c, next, stamp, id)
        /\ prior' = [site |-> site, health |-> health]
        /\ busy' = s
        /\ edits' = stamp
        /\ used' = used \cup ({id} \ {NoRule})
        /\ blind' = IF Informed(c) THEN blind
                    ELSE blind \cup {IF SawUndone(c) \/ blind # {} THEN "undone" ELSE "plain"}
        /\ call' = [call EXCEPT ![s].res = "reloading"]
        /\ Applied(c, 1)
        /\ UNCHANGED <<sent, opens, undone, page, uses, dialog, probes>>

\* The change stays in force, whatever its user is told.
ChangeStays(s, res) ==
    /\ busy = s
    /\ busy' = NoSlot
    /\ prior' = [site |-> site, health |-> health]
    /\ call' = [call EXCEPT ![s].res = res]
    /\ UNCHANGED <<site, health, tabs, history>>

\* The reload ends.  Deleting the site does not look at how it ended.
Reloaded(s) == ChangeStays(s, "ok")

\* Mutant: the error path keeps mutationMu.
UndoFailed_keepsLock(s) ==
    /\ busy = s
    /\ call[s].kind # "drop"
    /\ Cardinality(undone) < MaxUndone
    /\ site' = prior.site
    /\ health' = prior.health
    /\ undone' = undone \cup {edits}
    /\ call' = [call EXCEPT ![s].res = "failed"]
    /\ Applied(call[s], -1)
    /\ UNCHANGED <<busy, prior, page, dialog, probes, uses, sent, opens, edits, used, blind>>

\* The reload fails: the former site and health checks are put back, with
\* the revisions they had.
UndoFailed(s) ==
    /\ busy = s
    /\ call[s].kind # "drop"
    /\ Cardinality(undone) < MaxUndone
    /\ busy' = NoSlot
    /\ site' = prior.site
    /\ health' = prior.health
    /\ undone' = undone \cup {edits}
    /\ call' = [call EXCEPT ![s].res = "failed"]
    /\ Applied(call[s], -1)
    /\ UNCHANGED <<prior, page, dialog, probes, uses, sent, opens, edits, used, blind>>

\* The reload fails, and so does saving the former site (rollbackErr).
RollbackFails(s) == ChangeStays(s, "failed") /\ call[s].kind # "drop"

\* GET .../rules/{ruleId}/health
ServeHealth(t, p) ==
    /\ ~p.served /\ HasRule(site, p.rule)
    /\ probes' = [probes EXCEPT ![t] = (@ \ {p}) \cup
                     {[p EXCEPT !.served = TRUE, !.health = health[p.rule]]}]
    /\ UNCHANGED <<server, page, uses, dialog, editor, call, history>>

-----------------------------------------------------------------------------
(* The web service page                                                    *)

NoDialog == [open |-> FALSE, saving |-> FALSE]
NoEditor == [open |-> FALSE]

\* A dialog covers the page.
Covered(t) == dialog[t].open \/ editor[t].open

\* load(): when the page opens, with Refresh and after every change.  The list
\* is read without waiting for the change that holds mutationMu.  A list that
\* arrives late is as good as a page that was not reloaded since.
Load(t) ==
    /\ ~Covered(t)
    /\ page' = [page EXCEPT ![t] = site]
    /\ UNCHANGED <<server, uses, dialog, editor, probes, call, history>>

\* Sends a change that was made on `seen'.
Send(s, t, kind, r, expected, seen, h, changes) ==
    /\ call[s] = Free
    /\ sent < MaxSent
    /\ sent' = sent + 1
    /\ call' = [call EXCEPT ![s] =
          [tab |-> t, kind |-> kind, rule |-> r, expected |-> expected,
           seen |-> seen, health |-> h, changes |-> changes,
           current |-> TRUE, waiting |-> TRUE, res |-> "sent"]]

\* The switches and buttons of the page: the site, or one of its rules.
ClickSite(t, s, kind) ==
    /\ "page" \in uses[t] /\ ~Covered(t) /\ page[t].live
    /\ kind \in {"flip", "drop", "order"}
    /\ Send(s, t, kind, NoRule, page[t].rev, page[t], 0, {})
    /\ kind = "order" => ~\E o \in Slots : call[o] # Free /\ call[o].waiting
                                /\ call[o].tab = t /\ call[o].kind = "order"
    /\ UNCHANGED <<server, tabs, opens, edits, undone, used, blind>>

ClickRule(t, s, kind, r) ==
    /\ "page" \in uses[t] /\ ~Covered(t) /\ HasRule(page[t], r)
    /\ kind \in {"toggle", "delete"}
    /\ Send(s, t, kind, r, page[t].rules[r].rev, page[t], 0, {})
    /\ UNCHANGED <<server, tabs, opens, edits, undone, used, blind>>

-----------------------------------------------------------------------------
(* The site dialog (useCrudDialog)                                         *)

OpenSite(t) ==
    /\ "site" \in uses[t] /\ ~Covered(t) /\ page[t].live
    /\ dialog' = [dialog EXCEPT ![t] =
          [open |-> TRUE, saving |-> @.saving, seen |-> page[t]]]
    /\ UNCHANGED <<server, page, uses, editor, probes, call, history>>

CloseSite(t) ==
    /\ dialog[t].open
    /\ dialog' = [dialog EXCEPT ![t] = [NoDialog EXCEPT !.saving = dialog[t].saving]]
    /\ UNCHANGED <<server, page, uses, editor, probes, call, history>>

\* submit(): the settings change, the rules go back as they were read.
SaveSite(t, s) ==
    /\ dialog[t].open /\ ~dialog[t].saving
    /\ Send(s, t, "site", NoRule, dialog[t].seen.rev, dialog[t].seen, 0, {})
    /\ dialog' = [dialog EXCEPT ![t].saving = TRUE]
    /\ UNCHANGED <<server, page, uses, editor, probes, opens, edits, undone, used, blind>>

-----------------------------------------------------------------------------
(* The rule editor                                                         *)

\* openGeneration++: what was sent from an earlier opening is stale.
Outdated(t, calls) ==
    [s \in Slots |-> IF calls[s] # Free /\ calls[s].tab = t
                     THEN [calls[s] EXCEPT !.current = FALSE] ELSE calls[s]]
OutdatedProbes(t) == {[p EXCEPT !.current = FALSE] : p \in probes[t]}

Probe(r) == [rule |-> r, current |-> TRUE, served |-> FALSE, health |-> 0]

\* open() on a rule: the form is filled from the page, the health check is
\* asked for separately and saving waits for it.
OpenRule(t, r) ==
    /\ "rule" \in uses[t] /\ ~Covered(t) /\ HasRule(page[t], r)
    /\ Cardinality(probes[t]) < MaxProbes
    /\ opens < MaxOpens
    /\ opens' = opens + 1
    /\ editor' = [editor EXCEPT ![t] =
          [open |-> TRUE, saving |-> FALSE, rule |-> r,
           expected |-> page[t].rules[r].rev, seen |-> page[t],
           load |-> "loading", health |-> 0, applied |-> 0]]
    /\ probes' = [probes EXCEPT ![t] = OutdatedProbes(t) \cup {Probe(r)}]
    /\ call' = Outdated(t, call)
    /\ UNCHANGED <<server, page, uses, dialog, sent, edits, undone, used, blind>>

\* open() without a rule.
OpenNewRule(t) ==
    /\ "rule" \in uses[t] /\ ~Covered(t) /\ page[t].live
    /\ opens < MaxOpens
    /\ opens' = opens + 1
    /\ editor' = [editor EXCEPT ![t] =
          [open |-> TRUE, saving |-> FALSE, rule |-> NoRule,
           expected |-> page[t].rev, seen |-> page[t],
           load |-> "ready", health |-> 0, applied |-> 0]]
    /\ probes' = [probes EXCEPT ![t] = OutdatedProbes(t)]
    /\ call' = Outdated(t, call)
    /\ UNCHANGED <<server, page, uses, dialog, sent, edits, undone, used, blind>>

\* The user closes the editor.
CloseRule(t) ==
    /\ editor[t].open
    /\ editor' = [editor EXCEPT ![t] = NoEditor]
    /\ probes' = [probes EXCEPT ![t] = OutdatedProbes(t)]
    /\ call' = Outdated(t, call)
    /\ UNCHANGED <<server, page, uses, dialog, history>>

\* loadRuleHealth(), after an answer that failed.
RetryHealth(t) ==
    /\ editor[t].open /\ editor[t].load = "error"
    /\ Cardinality(probes[t]) < MaxProbes
    /\ editor' = [editor EXCEPT ![t].load = "loading"]
    /\ probes' = [probes EXCEPT ![t] = OutdatedProbes(t) \cup {Probe(editor[t].rule)}]
    /\ UNCHANGED <<server, page, uses, dialog, call, history>>

\* An answer counts for the opening of the editor that asked for it.
HealthCounts(t, p) == p.current

LoadEnds(t, p, state, setting) ==
    /\ probes' = [probes EXCEPT ![t] = @ \ {p}]
    /\ editor' = IF ~(HealthCounts(t, p) /\ editor[t].open) THEN editor
                 ELSE [editor EXCEPT ![t].load = state, ![t].health = setting]
    /\ UNCHANGED <<server, page, uses, dialog, call, history>>

HealthArrives(t, p) == p.served /\ LoadEnds(t, p, "ready", p.health)

\* The server has no such rule, or no answer comes.
HealthFails(t, p) == LoadEnds(t, p, "error", 0)

\* confirmRule()
SaveRule(t, s, changes) ==
    /\ editor[t].open /\ ~editor[t].saving
    /\ editor[t].load = "ready"
    /\ Send(s, t, IF editor[t].rule = NoRule THEN "new" ELSE "rule", editor[t].rule,
            editor[t].expected, editor[t].seen, editor[t].health, changes)
    /\ editor' = [editor EXCEPT ![t].saving = TRUE]
    /\ UNCHANGED <<server, page, uses, dialog, probes, opens, edits, undone, used, blind>>

-----------------------------------------------------------------------------
(* Answers to changes                                                      *)

\* Mutant: an answer counts for whatever the editor shows by now.
EditorCounts_always(c) == TRUE

\* An answer closes or unlocks the editor only if it was sent from there.
EditorCounts(c) == c.current

\* What the tab does when the change went through, or did not.
Told(s, ok, calls) ==
    LET c == call[s]
        t == c.tab
        mine == c.kind \in {"rule", "new"} /\ EditorCounts(c) /\ editor[t].open
    IN  /\ dialog' = IF c.kind # "site" THEN dialog
                     ELSE [dialog EXCEPT ![t] = IF ok THEN NoDialog
                                                ELSE [@ EXCEPT !.saving = FALSE]]
        /\ editor' = IF ~mine THEN editor
                     ELSE [editor EXCEPT ![t] = IF ok THEN NoEditor
                                                ELSE [@ EXCEPT !.saving = FALSE]]
        /\ call' = IF mine /\ ok THEN Outdated(t, calls) ELSE calls
        /\ probes' = IF mine /\ ok THEN [probes EXCEPT ![t] = OutdatedProbes(t)] ELSE probes
        /\ UNCHANGED <<server, page, uses, history>>

Answered(s) ==
    /\ call[s].res \in {"ok", "conflict", "failed", "gone"}
    /\ call[s].waiting
    /\ Told(s, call[s].res = "ok", [call EXCEPT ![s] = Free])

\* Fifteen seconds are over, or the connection is: the tab takes the change
\* for failed while the server may still make it.
GiveUp(s) ==
    /\ call[s] # Free /\ call[s].waiting
    /\ Told(s, FALSE, [call EXCEPT ![s].waiting = FALSE])

\* A change nobody waits for ends, or never reached the server.
Forgotten(s) ==
    /\ call[s] # Free /\ ~call[s].waiting
    /\ call[s].res # "reloading"
    /\ call' = [call EXCEPT ![s] = Free]
    /\ UNCHANGED <<server, tabs, history>>

-----------------------------------------------------------------------------
FirstSite == [live |-> TRUE, ver |-> 1, rev |-> 1, head |-> 1, order |-> 1,
           rules |-> [r \in RuleIds |-> IF r \in FirstRules
                                        THEN [rev |-> 1, body |-> 1] ELSE NoBody]]
FirstHealth == [r \in RuleIds |-> IF r \in FirstRules THEN 1 ELSE 0]

Init ==
    /\ site = FirstSite
    /\ health = FirstHealth
    /\ busy = NoSlot
    /\ prior = [site |-> FirstSite, health |-> FirstHealth]
    /\ page = [t \in Tabs |-> FirstSite]
    /\ uses \in Uses
    /\ dialog = [t \in Tabs |-> NoDialog]
    /\ editor = [t \in Tabs |-> NoEditor]
    /\ probes = [t \in Tabs |-> {}]
    /\ call = [s \in Slots |-> Free]
    /\ sent = 0
    /\ opens = 0
    /\ edits = 1
    /\ undone = {}
    /\ used = FirstRules
    /\ blind = {}

Server ==
    \/ \E s \in Slots : Refuse(s) \/ Reject(s) \/ Reloaded(s) \/ UndoFailed(s) \/ RollbackFails(s)
    \/ \E s \in Slots, id \in RuleIds \cup {NoRule} : Commit(s, id)
    \/ \E t \in Tabs : \E p \in probes[t] : ServeHealth(t, p)

Tab(t) ==
    \/ Load(t)
    \/ OpenSite(t) \/ CloseSite(t) \/ OpenNewRule(t) \/ CloseRule(t) \/ RetryHealth(t)
    \/ \E r \in RuleIds : OpenRule(t, r)
    \/ \E p \in probes[t] : HealthArrives(t, p) \/ HealthFails(t, p)
    \/ \E s \in Slots :
          \/ SaveSite(t, s)
          \/ \E kind \in {"flip", "drop", "order"} : ClickSite(t, s, kind)
          \/ \E kind \in {"toggle", "delete"}, r \in RuleIds : ClickRule(t, s, kind, r)
          \/ \E changes \in {{"body"}, {"health"}} : SaveRule(t, s, changes)

Next ==
    \/ Server
    \/ \E t \in Tabs : Tab(t)
    \/ \E s \in Slots : Answered(s) \/ GiveUp(s) \/ Forgotten(s)

Spec == Init /\ [][Next]_vars

-----------------------------------------------------------------------------
\* Every variable has its type.
TypeOK ==
    /\ site \in Sites /\ prior.site \in Sites
    /\ health \in [RuleIds -> Stamps]
    /\ busy \in Slots \cup {NoSlot}
    /\ page \in [Tabs -> Sites]
    /\ \A s \in Slots : call[s] = Free \/ call[s] \in Calls
    /\ \A t \in Tabs : editor[t].open => editor[t].applied \in Nat
    /\ busy # NoSlot => call[busy].res = "reloading"

\* However the requests of several tabs are ordered, delayed or given up, a
\* change overwrites a part of the site only when its editor had been shown
\* that part as it is: revisions (checkRevision, bumpSite, mutateRules) catch
\* every other one.  The first that gets through, and so all of them, is an
\* editor that was filled from a version taken back when its reload failed:
\* see NoLostUpdate.
EditsAreInformed == "plain" \notin blind

\* A change whose answer was lost and that the user sends again from the same
\* opening of the rule editor is never made twice: what was made moved the
\* revision on.  Only a version that was taken back and saved again can bring a
\* deleted rule back with the revision the editor still expects (bumpSite starts
\* it at one again), and that is a change its editor never saw: see NoLostUpdate.
AppliedOnce ==
    "undone" \notin blind => \A t \in Tabs : editor[t].open => editor[t].applied <= 1

\* A rule editor that closes without its user asking for it closes because
\* a change of this very opening is in force: an answer to an earlier
\* opening never throws away what is being typed (openGeneration).
DraftKept ==
    [][\A t \in Tabs : editor[t].open /\ ~editor'[t].open
                          => CloseRule(t) \/ editor[t].applied >= 1]_vars

\* "The configuration was modified by another edit, reload before saving"
\* (errRevisionConflict): no change ever overwrites what its editor did not see.
NoLostUpdate == blind = {}

=============================================================================
