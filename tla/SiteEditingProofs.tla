------------------------- MODULE SiteEditingProofs -------------------------
(***************************************************************************)
(* Every change overwrites what its editor was shown, for any number of    *)
(* tabs, rules, changes and failed reloads, up to the first editor that    *)
(* was filled from a version that was taken back.                          *)
(*                                                                         *)
(* EditsAreInformed is not inductive: that a revision number stands for    *)
(* certain contents rests on the history of the site.  The invariant keeps *)
(* of it what is needed.  A copy of the site that anybody holds was taken  *)
(* back, or is the site as it is or as it was before the change being      *)
(* reloaded, or is Earlier than both; and a health check that was read     *)
(* fits the revision of the rule it was read for (Fits).                   *)
(*                                                                         *)
(* What an opening of the rule editor made, and that it closes only for    *)
(* that, rests on OpeningInv: the changes known to be made are counted,    *)
(* and the site in force, as well as the one that comes back when somebody *)
(* else's reload fails, has moved past the revision the editor sends.      *)
(*                                                                         *)
(* The types need that every stamp that anybody holds is of an edit made   *)
(* (StampsInv), and that nothing is taken back that was not made, which is *)
(* the count of OpeningInv.                                                *)
(***************************************************************************)
EXTENDS SiteEditing, FiniteSetTheorems, TLAPS

RuleKinds == {"rule", "toggle", "delete"}

SiteType == [live : BOOLEAN, ver : Nat, rev : Nat, head : Nat, order : Nat,
             rules : [RuleIds -> [rev : Nat, body : Nat]]]
HealthType == [RuleIds -> Nat]
DialogType == [open : {FALSE}, saving : BOOLEAN]
                 \cup [open : {TRUE}, saving : BOOLEAN, seen : SiteType]
\* Only the editor of a rule asks for a health check.
OpenEditors ==
    {e \in [open : {TRUE}, saving : BOOLEAN, rule : RuleIds \cup {NoRule}, expected : Nat,
            seen : SiteType, load : {"loading", "ready", "error"}, health : Nat,
            applied : Int] : e.rule = NoRule => e.load = "ready" /\ e.health = 0}
ProbeType == [rule : RuleIds, current : BOOLEAN, served : BOOLEAN, health : Nat]
Results == {"sent", "reloading", "ok", "conflict", "failed", "gone"}
CallType ==
    {c \in [tab : Tabs, kind : Kinds, rule : RuleIds \cup {NoRule}, expected : Nat,
            seen : SiteType, health : Nat, changes : SUBSET {"body", "health"},
            current : BOOLEAN, waiting : BOOLEAN, res : Results] :
        c.kind \in RuleKinds <=> c.rule # NoRule}

Typed ==
    /\ site \in SiteType /\ health \in HealthType
    /\ prior \in [site : SiteType, health : HealthType]
    /\ busy \in Slots \cup {NoSlot}
    /\ page \in [Tabs -> SiteType]
    /\ dialog \in [Tabs -> DialogType]
    /\ editor \in [Tabs -> {NoEditor} \cup OpenEditors]
    /\ probes \in [Tabs -> SUBSET ProbeType]
    /\ call \in [Slots -> {Free} \cup CallType]
    /\ edits \in Nat /\ undone \subseteq Nat /\ used \subseteq RuleIds

\* What is current belongs to the editor that is open.
Current ==
    /\ \A s \in Slots :
          call[s] # Free /\ call[s].current /\ call[s].kind \in {"rule", "new"} =>
              editor[call[s].tab].open
    /\ \A t \in Tabs : \A p \in probes[t] :
          p.current => editor[t].open /\ editor[t].rule = p.rule

\* The holder of mutationMu is a change whose reload is under way.
Holder ==
    busy # NoSlot =>
        /\ call[busy] # Free /\ call[busy].res = "reloading"
        /\ ~site.live => call[busy].kind = "drop"

\* What the tabs hold is compared with: the site, the site that comes back if
\* the reload under way fails, and the history.
World == [site |-> site, health |-> health, prior |-> prior, busy |-> busy # NoSlot,
          edits |-> edits, undone |-> undone, used |-> used]

Has(v, r) == v.rules[r].body # 0

\* v is a version the site had before u.
Earlier(v, u) ==
    /\ v.ver < u.ver /\ v.rev < u.rev
    /\ \A r \in RuleIds : Has(v, r) /\ Has(u, r) =>
          v.rules[r] = u.rules[r] \/ v.rules[r].rev < u.rules[r].rev

\* What a tab may hold as the site.
Known(v, w) ==
    /\ \A r \in RuleIds : Has(v, r) => r \in w.used
    /\ \/ v.ver \in w.undone
       \/ v = w.site
       \/ v = w.prior.site
       \/ Earlier(v, w.site) /\ Earlier(v, w.prior.site)

\* The health check h may be held with version v of the site, for rule r.
Fits(v, r, h, w) ==
    \/ v.ver \in w.undone
    \/ h \in w.undone
    \/ /\ Has(w.site, r) /\ v.rules[r].rev = w.site.rules[r].rev => h = w.health[r]
       /\ Has(w.prior.site, r) /\ v.rules[r].rev = w.prior.site.rules[r].rev =>
             h = w.prior.health[r] \/ (w.busy /\ h = w.edits)

\* The site, and the site that comes back if the reload fails.
Ground(w) ==
    /\ w.site.ver <= w.edits /\ w.prior.site.ver <= w.edits
    /\ \A r \in RuleIds : Has(w.site, r) \/ Has(w.prior.site, r) => r \in w.used
    /\ ~w.busy => w.prior.site = w.site /\ w.prior.health = w.health
    /\ w.busy => w.site.ver = w.edits /\ Earlier(w.prior.site, w.site)
    /\ \A r \in RuleIds : Has(w.site, r) /\ Has(w.prior.site, r) =>
          w.health[r] = w.prior.health[r] \/ (w.busy /\ w.health[r] = w.edits)

EditorFits(e, w) ==
    /\ Known(e.seen, w)
    /\ e.rule = NoRule => e.expected = e.seen.rev
    /\ e.rule # NoRule =>
          /\ Has(e.seen, e.rule) /\ e.expected = e.seen.rules[e.rule].rev
          /\ e.load = "ready" => Fits(e.seen, e.rule, e.health, w)

ProbeFits(e, p, w) == p.current /\ p.served => Fits(e.seen, p.rule, p.health, w)

CallFits(c, w) ==
    /\ Known(c.seen, w)
    /\ c.rule = NoRule => c.expected = c.seen.rev
    /\ c.kind = "new" => c.health = 0
    /\ c.rule # NoRule => Has(c.seen, c.rule) /\ c.expected = c.seen.rules[c.rule].rev
    /\ c.kind = "rule" => Fits(c.seen, c.rule, c.health, w)

PagesFit(w)   == \A t \in Tabs : Known(page[t], w)
DialogsFit(w) == \A t \in Tabs : dialog[t].open => Known(dialog[t].seen, w)
EditorsFit(w) == \A t \in Tabs : editor[t].open => EditorFits(editor[t], w)
ProbesFit(w)  == \A t \in Tabs : \A p \in probes[t] : ProbeFits(editor[t], p, w)
CallsFit(w)   == \A s \in Slots : call[s] # Free => CallFits(call[s], w)

Sound ==
    /\ Ground(World)
    /\ PagesFit(World)
    /\ DialogsFit(World)
    /\ EditorsFit(World)
    /\ ProbesFit(World)
    /\ CallsFit(World)

IInv ==
    /\ Typed
    /\ Current
    /\ Holder
    /\ blind = {} /\ site.live => Sound
    /\ EditsAreInformed


-----------------------------------------------------------------------------
(* Records                                                                 *)

LEMMA FreeIsNoCall == \A c \in CallType : c # Free /\ c.res # "free"
  BY DEF CallType, Results, Free

LEMMA CallAt ==
  ASSUME Typed, NEW s \in Slots, call[s] # Free
  PROVE  call[s] \in CallType
  BY DEF Typed

\* How far a call got says nothing about what it holds.
LEMMA CallMoves ==
  ASSUME NEW c \in CallType, NEW x \in Results, NEW w, NEW d, d = [c EXCEPT !.res = x]
  PROVE  /\ d \in CallType
         /\ d.res = x /\ d.current = c.current /\ d.kind = c.kind /\ d.tab = c.tab
         /\ CallFits(c, w) => CallFits(d, w)
  BY DEF CallType, CallFits

LEMMA CallIsOld ==
  ASSUME NEW c \in CallType, NEW w, NEW d, d = [c EXCEPT !.current = FALSE]
  PROVE  /\ d \in CallType
         /\ ~d.current /\ d.res = c.res /\ d.kind = c.kind
         /\ CallFits(c, w) => CallFits(d, w)
  BY DEF CallType, CallFits

LEMMA CallIsLeft ==
  ASSUME NEW c \in CallType, NEW w, NEW d, d = [c EXCEPT !.waiting = FALSE]
  PROVE  /\ d \in CallType
         /\ d.res = c.res /\ d.kind = c.kind /\ d.tab = c.tab /\ d.current = c.current
         /\ CallFits(c, w) => CallFits(d, w)
  BY DEF CallType, CallFits

LEMMA EditorAt ==
  ASSUME Typed, NEW t \in Tabs, editor[t].open
  PROVE  editor[t] \in OpenEditors
  BY DEF Typed, NoEditor

LEMMA NoEditorIsClosed == ~NoEditor.open /\ \A e \in OpenEditors : e.open
  BY DEF NoEditor, OpenEditors

LEMMA EditorCounted ==
  ASSUME NEW e \in OpenEditors, NEW k \in Int, NEW w, NEW d, d = [e EXCEPT !.applied = k]
  PROVE  /\ d \in OpenEditors /\ d.open /\ d.rule = e.rule /\ d.seen = e.seen
         /\ d.health = e.health
         /\ EditorFits(e, w) => EditorFits(d, w)
  BY DEF OpenEditors, EditorFits

LEMMA AppliedIsInt == \A e \in OpenEditors : e.applied \in Int
  BY DEF OpenEditors

LEMMA EditorSaves ==
  ASSUME NEW e \in OpenEditors, NEW b \in BOOLEAN, NEW w, NEW d, d = [e EXCEPT !.saving = b]
  PROVE  /\ d \in OpenEditors /\ d.open /\ d.rule = e.rule /\ d.seen = e.seen
         /\ EditorFits(e, w) => EditorFits(d, w)
  BY DEF OpenEditors, EditorFits

LEMMA ProbeIsOld ==
  ASSUME NEW p \in ProbeType, NEW d, d = [p EXCEPT !.current = FALSE]
  PROVE  d \in ProbeType /\ ~d.current
  BY DEF ProbeType

-----------------------------------------------------------------------------
(* Versions of the site                                                    *)

\* What the tabs hold in world v they may hold in world w.
Keeps(v, w) ==
    /\ \A u \in SiteType : Known(u, v) => Known(u, w)
    /\ \A u \in SiteType, r \in RuleIds, h \in Nat :
          Known(u, v) /\ Has(u, r) /\ Fits(u, r, h, v) => Fits(u, r, h, w)

LEMMA EditorKept ==
  ASSUME NEW v, NEW w, Keeps(v, w), NEW e \in OpenEditors, EditorFits(e, v)
  PROVE  EditorFits(e, w)
  BY IdsAssumption DEF Keeps, EditorFits, OpenEditors

LEMMA ProbeKept ==
  ASSUME NEW v, NEW w, Keeps(v, w), NEW e \in OpenEditors, EditorFits(e, v),
         NEW p \in ProbeType, e.rule = p.rule, ProbeFits(e, p, v)
  PROVE  ProbeFits(e, p, w)
  BY IdsAssumption DEF Keeps, EditorFits, ProbeFits, OpenEditors, ProbeType

LEMMA CallKept ==
  ASSUME NEW v, NEW w, Keeps(v, w), NEW c \in CallType, CallFits(c, v)
  PROVE  CallFits(c, w)
  BY IdsAssumption DEF Keeps, CallFits, CallType, RuleKinds

LEMMA EarlierIsTransitive ==
  ASSUME NEW u \in SiteType, NEW v \in SiteType, NEW w \in SiteType,
         Earlier(u, v), Earlier(v, w),
         \A r \in RuleIds : Has(u, r) /\ Has(w, r) => Has(v, r)
  PROVE  Earlier(u, w)
<1>1. u.ver < w.ver /\ u.rev < w.rev
  BY DEF Earlier, SiteType
<1>2. ASSUME NEW r \in RuleIds, Has(u, r), Has(w, r)
      PROVE  u.rules[r] = w.rules[r] \/ u.rules[r].rev < w.rules[r].rev
  <2>1. Has(v, r)
    BY <1>2
  <2>2. u.rules[r] = v.rules[r] \/ u.rules[r].rev < v.rules[r].rev
    BY <1>2, <2>1 DEF Earlier
  <2>3. v.rules[r] = w.rules[r] \/ v.rules[r].rev < w.rules[r].rev
    BY <1>2, <2>1 DEF Earlier
  <2>4. u.rules[r].rev \in Nat /\ v.rules[r].rev \in Nat /\ w.rules[r].rev \in Nat
    BY DEF SiteType
  <2> QED BY <2>2, <2>3, <2>4
<1> QED BY <1>1, <1>2 DEF Earlier

LEMMA BumpFacts ==
  ASSUME NEW u \in SiteType, NEW v \in SiteType
  PROVE  /\ BumpSite(v, u) \in SiteType
         /\ BumpSite(v, u).live = v.live /\ BumpSite(v, u).rev = u.rev + 1
         /\ \A r \in RuleIds : Has(BumpSite(v, u), r) <=> Has(v, r)
         /\ \A r \in RuleIds : Has(v, r) =>
               /\ BumpSite(v, u).rules[r].body = v.rules[r].body
               /\ BumpSite(v, u).rules[r].body = u.rules[r].body
                     => BumpSite(v, u).rules[r] = u.rules[r]
               /\ BumpSite(v, u).rules[r].body # u.rules[r].body
                     => BumpSite(v, u).rules[r].rev = u.rules[r].rev + 1
<1> DEFINE b == BumpSite(v, u)
           R(r) == IF v.rules[r].body = 0 THEN NoBody
                   ELSE [body |-> v.rules[r].body,
                         rev  |-> IF v.rules[r].body = u.rules[r].body
                                  THEN u.rules[r].rev ELSE u.rules[r].rev + 1]
<1>1. ASSUME NEW r \in RuleIds PROVE R(r) \in [rev : Nat, body : Nat]
  BY DEF SiteType, NoBody
<1>2. [r \in RuleIds |-> R(r)] \in [RuleIds -> [rev : Nat, body : Nat]]
  BY <1>1
<1>3. b = [v EXCEPT !.rev = u.rev + 1, !.rules = [r \in RuleIds |-> R(r)]]
  BY DEF BumpSite
<1>4. b \in SiteType /\ b.live = v.live /\ b.rev = u.rev + 1 /\ b.rules = [r \in RuleIds |-> R(r)]
  <2>1. u.rev + 1 \in Nat
    BY DEF SiteType
  <2> DEFINE f == [r \in RuleIds |-> R(r)]
             n == u.rev + 1
  <2>2. b = [v EXCEPT !.rev = n, !.rules = f] /\ f \in [RuleIds -> [rev : Nat, body : Nat]]
    BY <1>2, <1>3
  <2> HIDE DEF b, f, n
  <2>3. b \in SiteType /\ b.live = v.live /\ b.rev = n /\ b.rules = f
    <3>1. n \in Nat
      BY <2>1 DEF n
    <3> QED BY <2>2, <3>1 DEF SiteType
  <2> QED BY <2>3 DEF f, n
<1>5. \A r \in RuleIds : b.rules[r] = R(r)
  BY <1>4
<1>6. ASSUME NEW r \in RuleIds PROVE Has(b, r) <=> Has(v, r)
  <2>1. b.rules[r] = R(r)
    BY <1>5
  <2> HIDE DEF b
  <2> QED BY <2>1 DEF Has, NoBody
<1>7. ASSUME NEW r \in RuleIds, Has(v, r)
      PROVE  /\ b.rules[r].body = v.rules[r].body
             /\ b.rules[r].body = u.rules[r].body => b.rules[r] = u.rules[r]
             /\ b.rules[r].body # u.rules[r].body => b.rules[r].rev = u.rules[r].rev + 1
  <2>1. u.rules[r] \in [rev : Nat, body : Nat]
    BY DEF SiteType
  <2>2. b.rules[r] = R(r) /\ v.rules[r].body # 0
    BY <1>5, <1>7 DEF Has
  <2> HIDE DEF b
  <2> QED BY <2>1, <2>2
<1> HIDE DEF b
<1>8. /\ b \in SiteType /\ b.live = v.live /\ b.rev = u.rev + 1
      /\ \A r \in RuleIds : Has(b, r) <=> Has(v, r)
      /\ \A r \in RuleIds : Has(v, r) =>
               /\ b.rules[r].body = v.rules[r].body
               /\ b.rules[r].body = u.rules[r].body => b.rules[r] = u.rules[r]
               /\ b.rules[r].body # u.rules[r].body => b.rules[r].rev = u.rules[r].rev + 1
  BY <1>4, <1>6, <1>7
<1> QED BY <1>8 DEF b

LEMMA SetRuleFacts ==
  ASSUME NEW v \in SiteType, NEW r \in RuleIds, NEW k \in Nat
  PROVE  /\ SetRule(v, r, k) \in SiteType
         /\ SetRule(v, r, k).live = v.live
         /\ SetRule(v, r, k).rules[r].body = k
         /\ \A q \in RuleIds \ {r} : SetRule(v, r, k).rules[q] = v.rules[q]
<1>1. PICK f \in [RuleIds -> [rev : Nat, body : Nat]] :
          f = [v.rules EXCEPT ![r] = [@ EXCEPT !.body = k]]
  BY DEF SiteType
<1>2. f[r].body = k /\ \A q \in RuleIds \ {r} : f[q] = v.rules[q]
  BY <1>1 DEF SiteType
<1>3. SetRule(v, r, k) = [v EXCEPT !.rules = f]
  BY <1>1 DEF SetRule
<1> QED BY <1>2, <1>3 DEF SiteType

\* A change with its stamp, and the identifier it gives a new rule.
Accepted(c, stamp, id) ==
    /\ site \in SiteType /\ c \in CallType /\ stamp \in Nat \ {0}
    /\ IF c.kind = "new" THEN id \in RuleIds ELSE id = NoRule

\* How site n follows the one in force, after change c.
Follows(n, c, id) ==
    /\ n.rev = site.rev + 1
    /\ \A r \in RuleIds : Has(site, r) /\ Has(n, r) =>
          \/ n.rules[r] = site.rules[r] /\ ~(c.kind = "rule" /\ r = c.rule)
          \/ site.rules[r].rev < n.rules[r].rev
    /\ \A r \in RuleIds : Has(n, r) =>
          \/ Has(site, r)
          \/ c.kind = "site" /\ Has(c.seen, r)
          \/ c.kind = "new" /\ r = id
          \/ c.kind \in {"rule", "toggle"} /\ r = c.rule

LEMMA BumpFollows ==
  ASSUME NEW v \in SiteType, NEW c, NEW id, c.kind # "rule", site \in SiteType,
         \A r \in RuleIds : Has(v, r) =>
            \/ Has(site, r)
            \/ c.kind = "site" /\ Has(c.seen, r)
            \/ c.kind = "new" /\ r = id
            \/ c.kind = "toggle" /\ r = c.rule
  PROVE  Follows(BumpSite(v, site), c, id) /\ BumpSite(v, site) \in SiteType
<1> DEFINE n == BumpSite(v, site)
<1>1. /\ n \in SiteType /\ n.rev = site.rev + 1
      /\ \A r \in RuleIds : Has(n, r) <=> Has(v, r)
      /\ \A r \in RuleIds : Has(v, r) =>
            /\ n.rules[r].body = site.rules[r].body => n.rules[r] = site.rules[r]
            /\ n.rules[r].body # site.rules[r].body => n.rules[r].rev = site.rules[r].rev + 1
  BY BumpFacts
<1> HIDE DEF n
<1>2. ASSUME NEW r \in RuleIds, Has(site, r), Has(n, r)
      PROVE  n.rules[r] = site.rules[r] \/ site.rules[r].rev < n.rules[r].rev
  <2>1. site.rules[r].rev \in Nat
    BY DEF SiteType
  <2> QED BY <1>1, <1>2, <2>1
<1>3. Follows(n, c, id)
  BY <1>1, <1>2 DEF Follows
<1> QED BY <1>1, <1>3 DEF n

LEMMA WrittenFacts ==
  ASSUME NEW c, NEW stamp, NEW id, Accepted(c, stamp, id), c.kind # "drop"
  PROVE  /\ Written(c, stamp, id) \in SiteType
         /\ Written(c, stamp, id).live = (site.live)
         /\ Follows(Written(c, stamp, id), c, id)
<1> DEFINE n == Written(c, stamp, id)
<1>0. /\ site \in SiteType /\ c \in CallType /\ stamp \in Nat /\ stamp # 0
      /\ c.seen \in SiteType /\ c.kind \in Kinds \ {"drop"}
  BY DEF Accepted, CallType
<1>1. CASE c.kind = "site"
  <2> DEFINE v == [site EXCEPT !.head = stamp, !.order = c.seen.order, !.rules = c.seen.rules]
  <2>1. v \in SiteType /\ v.live = site.live /\ v.rules = c.seen.rules
    BY <1>0 DEF SiteType
  <2>2. n = BumpSite(v, site)
    BY <1>1 DEF Written
  <2> HIDE DEF v, n
  <2>3. \A r \in RuleIds : Has(v, r) => Has(c.seen, r)
    BY <2>1 DEF Has
  <2>4. Follows(n, c, id) /\ n \in SiteType
    BY <1>0, <1>1, <2>1, <2>2, <2>3, BumpFollows
  <2>5. n.live = site.live
    BY <1>0, <2>1, <2>2, BumpFacts
  <2> QED BY <2>4, <2>5 DEF n
<1>2. CASE c.kind = "flip"
  <2>1. n = [site EXCEPT !.head = stamp, !.rev = @ + 1]
    BY <1>2 DEF Written
  <2>2. PICK k \in Nat : k = site.rev + 1
    BY <1>0 DEF SiteType
  <2>3. n = [site EXCEPT !.head = stamp, !.rev = k]
    BY <2>1, <2>2
  <2> HIDE DEF n
  <2>4. n \in SiteType /\ n.live = site.live /\ n.rev = k /\ n.rules = site.rules
    BY <1>0, <2>2, <2>3 DEF SiteType
  <2>5. Follows(n, c, id)
    BY <1>2, <2>2, <2>4 DEF Follows, Has
  <2> QED BY <2>4, <2>5 DEF n
<1>3. CASE c.kind = "order"
  <2> DEFINE v == [site EXCEPT !.order = stamp]
  <2>1. v \in SiteType /\ v.live = site.live /\ v.rules = site.rules
    BY <1>0 DEF SiteType
  <2>2. n = BumpSite(v, site)
    BY <1>3 DEF Written
  <2> HIDE DEF v, n
  <2>3. \A r \in RuleIds : Has(v, r) => Has(site, r)
    BY <2>1 DEF Has
  <2>4. Follows(n, c, id) /\ n \in SiteType
    BY <1>0, <1>3, <2>1, <2>2, <2>3, BumpFollows
  <2>5. n.live = site.live
    BY <1>0, <2>1, <2>2, BumpFacts
  <2> QED BY <2>4, <2>5 DEF n
<1>4. CASE c.kind = "toggle"
  <2> DEFINE v == SetRule(site, c.rule, stamp)
  <2>0. c.rule \in RuleIds
    BY <1>0, <1>4 DEF CallType, RuleKinds
  <2>1. /\ v \in SiteType /\ v.live = site.live
        /\ \A q \in RuleIds \ {c.rule} : v.rules[q] = site.rules[q]
    BY <1>0, <2>0, SetRuleFacts
  <2>2. n = BumpSite(v, site)
    BY <1>4 DEF Written
  <2> HIDE DEF v, n
  <2>3. \A r \in RuleIds : Has(v, r) => Has(site, r) \/ r = c.rule
    BY <2>1 DEF Has
  <2>4. Follows(n, c, id) /\ n \in SiteType
    BY <1>0, <1>4, <2>1, <2>2, <2>3, BumpFollows
  <2>5. n.live = site.live
    BY <1>0, <2>1, <2>2, BumpFacts
  <2> QED BY <2>4, <2>5 DEF n
<1>5. CASE c.kind = "delete"
  <2> DEFINE u == SetRule(site, c.rule, 0)
             v == [u EXCEPT !.order = stamp]
  <2>0. c.rule \in RuleIds
    BY <1>0, <1>5 DEF CallType, RuleKinds
  <2>1. /\ u \in SiteType /\ u.live = site.live /\ u.rules[c.rule].body = 0
        /\ \A q \in RuleIds \ {c.rule} : u.rules[q] = site.rules[q]
    BY SMTT(40), <1>0, <2>0, SetRuleFacts
  <2>2. n = BumpSite(v, site)
    BY <1>5 DEF Written
  <2> HIDE DEF u, n
  <2>3. v \in SiteType /\ v.live = u.live /\ v.rules = u.rules
    BY <1>0, <2>1 DEF SiteType
  <2> HIDE DEF v
  <2>4. \A r \in RuleIds : Has(v, r) => Has(site, r)
    BY <2>1, <2>3 DEF Has
  <2>5. Follows(n, c, id) /\ n \in SiteType
    BY <1>0, <1>5, <2>2, <2>3, <2>4, BumpFollows
  <2>6. n.live = site.live
    BY <1>0, <2>1, <2>2, <2>3, BumpFacts
  <2> QED BY <2>5, <2>6 DEF n
<1>6. CASE c.kind = "new"
  <2> DEFINE u == SetRule(site, id, stamp)
             v == [u EXCEPT !.order = stamp]
  <2>0. id \in RuleIds
    BY <1>6 DEF Accepted
  <2>1. /\ u \in SiteType /\ u.live = site.live
        /\ \A q \in RuleIds \ {id} : u.rules[q] = site.rules[q]
    BY <1>0, <2>0, SetRuleFacts
  <2>2. n = BumpSite(v, site)
    BY <1>6 DEF Written
  <2> HIDE DEF u, n
  <2>3. v \in SiteType /\ v.live = u.live /\ v.rules = u.rules
    BY <1>0, <2>1 DEF SiteType
  <2> HIDE DEF v
  <2>4. \A r \in RuleIds : Has(v, r) => Has(site, r) \/ r = id
    BY <2>1, <2>3 DEF Has
  <2>5. Follows(n, c, id) /\ n \in SiteType
    BY <1>0, <1>6, <2>2, <2>3, <2>4, BumpFollows
  <2>6. n.live = site.live
    BY <1>0, <2>1, <2>2, <2>3, BumpFacts
  <2> QED BY <2>5, <2>6 DEF n
<1>7. CASE c.kind = "rule"
  <2> DEFINE k == IF "body" \in c.changes THEN stamp ELSE c.seen.rules[c.rule].body
             v == SetRule(site, c.rule, k)
             b == BumpSite(v, site)
  <2>0. c.rule \in RuleIds
    BY <1>0, <1>7 DEF CallType, RuleKinds
  <2>1. k \in Nat
    BY <1>0, <2>0 DEF SiteType
  <2> HIDE DEF k
  <2>2. /\ v \in SiteType /\ v.live = site.live
        /\ \A q \in RuleIds \ {c.rule} : v.rules[q] = site.rules[q]
    BY SMTT(40), <1>0, <2>0, <2>1, SetRuleFacts
  <2>3. n = BumpHealth(b, site, c)
    BY <1>7 DEF Written, k
  <2> HIDE DEF v, n
  <2>4. /\ b \in SiteType /\ b.live = site.live /\ b.rev = site.rev + 1
        /\ \A r \in RuleIds : Has(b, r) <=> Has(v, r)
        /\ \A r \in RuleIds : Has(v, r) =>
              /\ b.rules[r].body = site.rules[r].body => b.rules[r] = site.rules[r]
              /\ b.rules[r].body # site.rules[r].body => b.rules[r].rev = site.rules[r].rev + 1
    BY <1>0, <2>2, BumpFacts
  <2> HIDE DEF b
  <2>5. \A r \in RuleIds : Has(b, r) => Has(site, r) \/ r = c.rule
    BY <2>2, <2>4 DEF Has
  <2>6. \A r \in RuleIds : site.rules[r].rev \in Nat /\ b.rules[r].rev \in Nat
    BY <1>0, <2>4 DEF SiteType
  <2>7. CASE b.rules[c.rule].rev = site.rules[c.rule].rev
    <3>1. PICK m \in Nat : m = b.rules[c.rule].rev + 1
      BY <2>0, <2>6
    <3>2. PICK f \in [RuleIds -> [rev : Nat, body : Nat]] :
             f = [b.rules EXCEPT ![c.rule] = [@ EXCEPT !.rev = m]]
      BY <2>0, <2>4 DEF SiteType
    <3>3. n = [b EXCEPT !.rules = f]
      BY <1>7, <2>3, <2>7, <3>1, <3>2 DEF BumpHealth
    <3>4. n \in SiteType /\ n.live = b.live /\ n.rev = b.rev /\ n.rules = f
      BY <2>4, <3>3 DEF SiteType
    <3>5. \A r \in RuleIds \ {c.rule} : n.rules[r] = b.rules[r]
      BY <2>4, <3>2, <3>4 DEF SiteType
    <3>6. n.rules[c.rule].rev = m
      BY <2>0, <2>4, <3>2, <3>4 DEF SiteType
    <3>7. ASSUME NEW r \in RuleIds, Has(site, r), Has(n, r)
          PROVE  \/ n.rules[r] = site.rules[r] /\ r # c.rule
                 \/ site.rules[r].rev < n.rules[r].rev
      <4>1. CASE r = c.rule
        BY <2>0, <2>6, <2>7, <3>1, <3>6, <4>1
      <4>2. CASE r # c.rule
        <5>1. n.rules[r] = b.rules[r] /\ Has(v, r)
          BY <2>4, <3>5, <3>7, <4>2 DEF Has
        <5> QED BY <2>4, <2>6, <4>2, <5>1
      <4> QED BY <4>1, <4>2
    <3>8. \A r \in RuleIds : Has(n, r) => Has(site, r) \/ r = c.rule
      BY <2>5, <3>5 DEF Has
    <3>9. Follows(n, c, id)
      BY <1>7, <2>4, <3>4, <3>7, <3>8 DEF Follows
    <3> QED BY <2>4, <3>4, <3>9 DEF n
  <2>8. CASE b.rules[c.rule].rev # site.rules[c.rule].rev
    <3>1. n = b
      BY <1>7, <2>3, <2>8 DEF BumpHealth
    <3>2. ASSUME NEW r \in RuleIds, Has(site, r), Has(n, r)
          PROVE  \/ n.rules[r] = site.rules[r] /\ r # c.rule
                 \/ site.rules[r].rev < n.rules[r].rev
      <4>1. Has(v, r)
        BY <2>4, <3>1, <3>2
      <4> QED BY <2>4, <2>6, <2>8, <3>1, <4>1
    <3>3. Follows(n, c, id)
      BY <1>7, <2>4, <2>5, <3>1, <3>2 DEF Follows
    <3> QED BY <2>4, <3>1, <3>3 DEF n
  <2> QED BY <2>7, <2>8
<1> QED BY <1>0, <1>1, <1>2, <1>3, <1>4, <1>5, <1>6, <1>7 DEF Kinds

LEMMA HealthFacts ==
  ASSUME NEW c, NEW stamp, NEW id, NEW n, Accepted(c, stamp, id),
         health \in HealthType
  PROVE  /\ HealthWritten(c, n, stamp, id) \in HealthType
         /\ n.live => \A r \in RuleIds : Has(n, r) =>
               \/ HealthWritten(c, n, stamp, id)[r] = health[r]
               \/ c.kind = "rule" /\ r = c.rule
                     /\ HealthWritten(c, n, stamp, id)[r] \in {c.health, stamp}
               \/ c.kind = "new" /\ r = id
<1> DEFINE g == HealthWritten(c, n, stamp, id)
<1>0. c \in CallType /\ c.health \in Nat /\ stamp \in Nat
  BY DEF Accepted, CallType
<1>1. CASE c.kind \in {"site", "flip"}
  BY <1>1 DEF HealthWritten
<1>2. CASE c.kind \notin {"site", "flip"}
  <2> DEFINE G(r) == CASE ~HasRule(n, r) -> 0
                       [] HasRule(n, r) /\ r \in {c.rule, id} /\ c.kind \in {"rule", "new"} ->
                             IF "health" \in c.changes THEN stamp ELSE c.health
                       [] OTHER -> health[r]
  <2>1. g = [r \in RuleIds |-> G(r)]
    BY <1>2 DEF HealthWritten
  <2>2. ASSUME NEW r \in RuleIds PROVE G(r) \in Nat
    BY <1>0 DEF HealthType
  <2>3. g \in HealthType
    BY <2>1, <2>2 DEF HealthType
  <2>4. ASSUME n.live, NEW r \in RuleIds, Has(n, r)
        PROVE  \/ G(r) = health[r]
               \/ c.kind = "rule" /\ r = c.rule /\ G(r) \in {c.health, stamp}
               \/ c.kind = "new" /\ r = id
    <3>1. HasRule(n, r)
      BY <2>4, IdsAssumption DEF HasRule, Has
    <3>2. c.kind = "new" => c.rule = NoRule
      BY <1>0 DEF CallType, RuleKinds
    <3>3. c.kind = "rule" => id = NoRule
      BY DEF Accepted
    <3> QED BY <3>1, <3>2, <3>3, IdsAssumption
  <2> QED BY <2>1, <2>3, <2>4
<1> QED BY <1>1, <1>2

\* What a request that is not refused relies on.
LEMMA NotRefused ==
  ASSUME NEW c \in CallType, Refusal(c) = "none"
  PROVE  /\ site.live
         /\ c.rule # NoRule => Has(site, c.rule) /\ c.expected = site.rules[c.rule].rev
         /\ c.rule = NoRule => c.expected = site.rev
<1>1. site.live /\ c.expected = Revision(c)
  BY DEF Refusal
<1>2. c.rule # NoRule => HasRule(site, c.rule)
  BY <1>1 DEF Refusal
<1> QED BY <1>1, <1>2 DEF Revision, HasRule, Has

\* What the cells that are overwritten tell of the version that was seen.
LEMMA CellsTell ==
  ASSUME NEW c \in CallType, Informed(c)
  PROVE  /\ c.kind = "site" => \A r \in RuleIds : Has(c.seen, r) => Has(site, r)
         /\ c.kind = "rule" => c.health = health[c.rule]
<1>0. SeenBy(c) = Cells(c, site, health)
  BY DEF Informed
<1>1. ASSUME c.kind = "site", NEW r \in RuleIds, Has(c.seen, r)
      PROVE  Has(site, r)
  <2>1. <<"rule", r, c.seen.rules[r].body>> \in SeenBy(c)
    BY <1>1 DEF SeenBy, Cells
  <2>2. <<"rule", r, c.seen.rules[r].body>> \in
           {<<"head", site.head>>, <<"order", site.order>>}
               \cup {<<"rule", q, site.rules[q].body>> : q \in RuleIds}
    BY <1>0, <1>1, <2>1 DEF Cells
  <2>3. <<"rule", r, c.seen.rules[r].body>> \in {<<"rule", q, site.rules[q].body>> : q \in RuleIds}
    BY <2>2
  <2>4. c.seen.rules[r].body = site.rules[r].body
    BY <2>3
  <2> QED BY <1>1, <2>4 DEF Has
<1>2. ASSUME c.kind = "rule"
      PROVE  c.health = health[c.rule]
  <2>1. c.rule \in RuleIds
    BY <1>2 DEF CallType, RuleKinds
  <2>2. <<"health", c.health>> \in SeenBy(c)
    BY <1>2, <2>1 DEF SeenBy, Cells
  <2>3. <<"health", c.health>> \in
           {<<"rule", c.rule, site.rules[c.rule].body>>, <<"health", health[c.rule]>>}
    BY <1>0, <1>2, <2>2 DEF Cells
  <2> QED BY <2>3
<1> QED BY <1>1, <1>2

\* A change that is not refused was made on the site as it is, or on one that
\* was taken back.
LEMMA Honest ==
  ASSUME Typed, Sound, busy = NoSlot,
         NEW c \in CallType, CallFits(c, World), Refusal(c) = "none"
  PROVE  Informed(c) \/ SawUndone(c)
<1> SUFFICES ASSUME ~SawUndone(c) PROVE Informed(c)
  OBVIOUS
<1>0. /\ site.live
      /\ c.rule # NoRule => Has(site, c.rule) /\ c.expected = site.rules[c.rule].rev
      /\ c.rule = NoRule => c.expected = site.rev
  BY NotRefused
<1>1. c.seen.ver \notin undone /\ c.health \notin undone
  BY DEF SawUndone
<1>2. prior.site = site /\ prior.health = health
  BY DEF Sound, Ground, World
<1>3. c.seen = site \/ Earlier(c.seen, site)
  BY <1>1, <1>2 DEF CallFits, Known, World
<1>4. c.seen \in SiteType /\ site \in SiteType
  BY DEF CallType, Typed
<1>5. CASE c.rule = NoRule
  <2>1. c.seen.rev = site.rev
    BY <1>0, <1>5 DEF CallFits
  <2>2. c.seen = site
    BY <1>3, <1>4, <2>1 DEF Earlier, SiteType
  <2>3. c.kind # "rule" /\ c.kind \notin RuleKinds
    BY <1>5 DEF CallType, RuleKinds
  <2>4. SeenBy(c) = Cells(c, site, health)
    BY <2>2, <2>3 DEF SeenBy, Cells, RuleKinds, CallType, Kinds
  <2>5. c.kind = "new" => c.health = 0
    BY DEF CallFits
  <2> QED BY <2>4, <2>5 DEF Informed
<1>6. CASE c.rule # NoRule
  <2>1. c.rule \in RuleIds /\ c.kind \in RuleKinds
    BY <1>6 DEF CallType
  <2>2. c.seen.rules[c.rule].rev = site.rules[c.rule].rev /\ Has(c.seen, c.rule)
    BY <1>0, <1>6 DEF CallFits
  <2>3. c.seen.rules[c.rule] = site.rules[c.rule]
    BY <1>0, <1>3, <1>4, <1>6, <2>1, <2>2 DEF Earlier, SiteType
  <2>4. c.kind = "rule" => c.health = health[c.rule]
    BY <1>0, <1>1, <1>6, <2>2 DEF CallFits, Fits, World
  <2>5. SeenBy(c) = Cells(c, site, health)
    BY <2>1, <2>3, <2>4 DEF SeenBy, Cells, RuleKinds
  <2> QED BY <2>1, <2>5 DEF Informed, RuleKinds
<1> QED BY <1>5, <1>6

-----------------------------------------------------------------------------
(* The world after a step of the server                                    *)

\* A change that is written: what the tabs hold is older by one version.
LEMMA WrittenWorld ==
  ASSUME NEW v, NEW w, NEW c, NEW id,
         v.site = site, v.health = health, v.prior.site = site, v.prior.health = health,
         ~v.busy, v.edits = edits, Ground(v), site \in SiteType, health \in HealthType,
         edits \in Nat, w.edits = edits + 1, w.undone = v.undone,
         w.busy, w.prior = [site |-> site, health |-> health],
         w.used = v.used \cup ({id} \ {NoRule}),
         IF c.kind = "new" THEN id \in RuleIds \ v.used ELSE id = NoRule,
         w.site \in SiteType, w.site.ver = edits + 1, Follows(w.site, c, id),
         c.kind = "site" => \A r \in RuleIds : Has(c.seen, r) => Has(site, r),
         c.kind \in RuleKinds => Has(site, c.rule),
         \A r \in RuleIds : Has(w.site, r) =>
            \/ w.health[r] = health[r]
            \/ c.kind = "rule" /\ r = c.rule /\ w.health[r] = edits + 1
            \/ c.kind = "new" /\ r = id
  PROVE  Ground(w) /\ Keeps(v, w)
<1>0. w.prior.site = site /\ w.prior.health = health
  OBVIOUS
<1>1. \A r \in RuleIds : Has(w.site, r) => Has(site, r) \/ (c.kind = "new" /\ r = id)
  BY DEF Follows, RuleKinds
<1>2. \A r \in RuleIds : Has(site, r) => r \in v.used
  BY DEF Ground
<1>3. Earlier(site, w.site)
  <2>1. site.ver < w.site.ver
    BY DEF Ground, SiteType
  <2>2. site.rev < w.site.rev
    BY DEF Follows, SiteType
  <2> QED BY <2>1, <2>2 DEF Earlier, Follows
<1>4. Ground(w)
  <2>1. w.site.ver <= w.edits /\ w.prior.site.ver <= w.edits
    BY <1>0 DEF Ground, SiteType
  <2>2. \A r \in RuleIds : Has(w.site, r) \/ Has(w.prior.site, r) => r \in w.used
    BY <1>0, <1>1, <1>2, IdsAssumption
  <2>3. w.site.ver = w.edits /\ Earlier(w.prior.site, w.site)
    BY <1>0, <1>3
  <2>4. \A r \in RuleIds : Has(w.site, r) /\ Has(w.prior.site, r) =>
            w.health[r] = w.prior.health[r] \/ w.health[r] = w.edits
    BY <1>0, <1>2
  <2> QED BY <2>1, <2>2, <2>3, <2>4 DEF Ground
<1>5. ASSUME NEW u \in SiteType, Known(u, v)
      PROVE  Known(u, w)
  <2>1. \A r \in RuleIds : Has(u, r) => r \in w.used
    BY <1>5 DEF Known
  <2>2. u.ver \in v.undone \/ u = site \/ Earlier(u, site)
    BY <1>5 DEF Known
  <2>3. ASSUME Earlier(u, site) PROVE Earlier(u, w.site)
    <3>1. \A r \in RuleIds : Has(u, r) /\ Has(w.site, r) => Has(site, r)
      BY <1>1, <1>5 DEF Known
    <3> QED BY <1>3, <2>3, <3>1, EarlierIsTransitive
  <2> QED BY <1>0, <2>1, <2>2, <2>3 DEF Known
<1>6. ASSUME NEW u \in SiteType, NEW r \in RuleIds, NEW h \in Nat,
             Known(u, v), Has(u, r), Fits(u, r, h, v)
      PROVE  Fits(u, r, h, w)
  <2> SUFFICES ASSUME u.ver \notin v.undone, h \notin v.undone
               PROVE  Fits(u, r, h, w)
    BY DEF Fits
  <2>1. Has(site, r) /\ u.rules[r].rev = site.rules[r].rev => h = health[r]
    BY <1>6 DEF Fits
  <2>2. u = site \/ Earlier(u, site)
    BY <1>6 DEF Known
  <2>3. ASSUME Has(w.site, r), u.rules[r].rev = w.site.rules[r].rev
        PROVE  h = w.health[r]
    <3>1. Has(site, r) /\ ~(c.kind = "new" /\ r = id)
      BY <1>1, <1>6, <2>3 DEF Known
    <3>2. site.rules[r].rev \in Nat /\ u.rules[r].rev \in Nat /\ w.site.rules[r].rev \in Nat
      BY DEF SiteType
    <3>3. u.rules[r] = site.rules[r] \/ u.rules[r].rev < site.rules[r].rev
      BY <1>6, <2>2, <3>1 DEF Earlier
    <3>4. \/ w.site.rules[r] = site.rules[r] /\ ~(c.kind = "rule" /\ r = c.rule)
          \/ site.rules[r].rev < w.site.rules[r].rev
      BY <2>3, <3>1 DEF Follows
    <3>5. u.rules[r].rev = site.rules[r].rev /\ w.site.rules[r] = site.rules[r]
      BY <2>3, <3>2, <3>3, <3>4
    <3>6. w.health[r] = health[r]
      BY <2>3, <3>1, <3>2, <3>4, <3>5
    <3> QED BY <2>1, <3>1, <3>5, <3>6
  <2> QED BY <1>0, <2>1, <2>3 DEF Fits
<1> QED BY <1>4, <1>5, <1>6 DEF Keeps

\* A reload that ends: the site in force comes back from now on.
LEMMA EndedWorld ==
  ASSUME NEW v, NEW w, Ground(v), v.busy, ~w.busy,
         v.site \in SiteType, v.prior.site \in SiteType, v.edits \in Nat,
         w.site = v.site, w.health = v.health,
         w.prior = [site |-> v.site, health |-> v.health],
         w.edits = v.edits, w.undone = v.undone, w.used = v.used
  PROVE  Ground(w) /\ Keeps(v, w)
<1>0. w.prior.site = v.site /\ w.prior.health = v.health
  OBVIOUS
<1>1. Ground(w)
  BY <1>0 DEF Ground
<1>2. ASSUME NEW u \in SiteType, Known(u, v)
      PROVE  Known(u, w)
  BY <1>0, <1>2 DEF Known, Ground
<1>3. ASSUME NEW u \in SiteType, NEW r \in RuleIds, NEW h \in Nat, Fits(u, r, h, v)
      PROVE  Fits(u, r, h, w)
  BY <1>0, <1>3 DEF Fits
<1> QED BY <1>1, <1>2, <1>3 DEF Keeps

\* A reload that failed: what was written last is marked as taken back.
LEMMA UndoneWorld ==
  ASSUME NEW v, NEW w, Ground(v), v.busy, ~w.busy,
         v.site \in SiteType, v.prior.site \in SiteType, v.edits \in Nat,
         w.site = v.prior.site, w.health = v.prior.health, w.prior = v.prior,
         w.edits = v.edits, w.undone = v.undone \cup {v.edits}, w.used = v.used
  PROVE  Ground(w) /\ Keeps(v, w)
<1>1. Ground(w)
  BY DEF Ground
<1>2. ASSUME NEW u \in SiteType, Known(u, v)
      PROVE  Known(u, w)
  BY <1>2 DEF Known, Ground
<1>3. ASSUME NEW u \in SiteType, NEW r \in RuleIds, NEW h \in Nat, Fits(u, r, h, v)
      PROVE  Fits(u, r, h, w)
  BY <1>3 DEF Fits
<1> QED BY <1>1, <1>2, <1>3 DEF Keeps

-----------------------------------------------------------------------------
(* What the tabs hold across a step of the server                          *)

\* The editors show what they showed, and count what became of their changes.
EditorsStay ==
    \A t \in Tabs :
        /\ editor'[t].open = editor[t].open
        /\ editor[t].open =>
              /\ editor'[t].rule = editor[t].rule /\ editor'[t].seen = editor[t].seen
              /\ editor'[t].health = editor[t].health
              /\ \A w : EditorFits(editor[t], w) => EditorFits(editor'[t], w)

\* The calls get further.
CallsStay ==
    \A s \in Slots :
        /\ call'[s] # Free <=> call[s] # Free
        /\ call[s] # Free =>
              /\ call'[s].current = call[s].current /\ call'[s].tab = call[s].tab
              /\ call'[s].kind = call[s].kind
              /\ \A w : CallFits(call[s], w) => CallFits(call'[s], w)

LEMMA CallAnswered ==
  ASSUME Typed, NEW s \in Slots, call[s] # Free, NEW x \in Results,
         call' = [call EXCEPT ![s].res = x]
  PROVE  /\ call' \in [Slots -> {Free} \cup CallType]
         /\ call'[s] # Free /\ call'[s].res = x /\ call'[s].kind = call[s].kind
         /\ \A q \in Slots \ {s} : call'[q] = call[q]
         /\ CallsStay
<1>1. call[s] \in CallType
  BY CallAt
<1> DEFINE d == [call[s] EXCEPT !.res = x]
<1>2. /\ d \in CallType
      /\ d.res = x /\ d.current = call[s].current /\ d.kind = call[s].kind /\ d.tab = call[s].tab
  BY <1>1, CallMoves
<1>3. \A w : CallFits(call[s], w) => CallFits(d, w)
  BY <1>1, CallMoves
<1>4. call' = [call EXCEPT ![s] = d]
  OBVIOUS
<1> HIDE DEF d
<1>5. call'[s] = d /\ \A q \in Slots \ {s} : call'[q] = call[q]
  BY <1>4 DEF Typed
<1>6. call' \in [Slots -> {Free} \cup CallType]
  BY <1>2, <1>4 DEF Typed
<1>7. d # Free
  BY <1>2, FreeIsNoCall
<1>8. CallsStay
  BY <1>2, <1>3, <1>5, <1>7 DEF CallsStay
<1> QED BY <1>2, <1>5, <1>6, <1>7, <1>8

LEMMA AppliedFacts ==
  ASSUME Typed, Current, NEW s \in Slots, call[s] # Free, NEW n \in Int, Applied(call[s], n)
  PROVE  /\ editor' \in [Tabs -> {NoEditor} \cup OpenEditors]
         /\ EditorsStay
<1>1. CASE ~(call[s].current /\ call[s].kind \in {"rule", "new"})
  BY <1>1 DEF Applied, EditorsStay, Typed
<1>2. CASE call[s].current /\ call[s].kind \in {"rule", "new"}
  <2> DEFINE t == call[s].tab
             e == editor[t]
             k == e.applied + n
             d == [e EXCEPT !.applied = k]
  <2>1. t \in Tabs
    BY CallAt DEF CallType
  <2>2. e \in OpenEditors /\ e.open
    BY <1>2, <2>1, EditorAt DEF Current
  <2>10. k \in Int
    <3>1. e.applied \in Int
      BY <2>2, AppliedIsInt
    <3> QED BY <3>1
  <2>6. editor' = [editor EXCEPT ![t] = d]
    BY <1>2 DEF Applied
  <2> HIDE DEF k
  <2>0. \A w : /\ d \in OpenEditors /\ d.open /\ d.rule = e.rule /\ d.seen = e.seen
               /\ EditorFits(e, w) => EditorFits(d, w)
    <3> SUFFICES ASSUME NEW w
                 PROVE  /\ d \in OpenEditors /\ d.open /\ d.rule = e.rule /\ d.seen = e.seen
                        /\ EditorFits(e, w) => EditorFits(d, w)
      OBVIOUS
    <3>1. d = [e EXCEPT !.applied = k]
      OBVIOUS
    <3> HIDE DEF d, e
    <3> QED BY <2>2, <2>10, <3>1, EditorCounted
  <2>3. d \in OpenEditors /\ d.open /\ d.rule = e.rule /\ d.seen = e.seen
    BY <2>0
  <2>4. \A w : EditorFits(e, w) => EditorFits(d, w)
    BY <2>0
  <2>5. d.health = e.health
    BY <2>2 DEF OpenEditors
  <2> HIDE DEF d, t
  <2>7. editor'[t] = d /\ \A u \in Tabs \ {t} : editor'[u] = editor[u]
    BY <2>1, <2>6 DEF Typed
  <2>8. editor' \in [Tabs -> {NoEditor} \cup OpenEditors]
    BY <2>1, <2>3, <2>6 DEF Typed
  <2>9. EditorsStay
    <3>1. d.open = e.open
      BY <2>2, <2>3 DEF OpenEditors
    <3> QED BY <2>3, <2>4, <2>5, <2>7, <3>1 DEF EditorsStay
  <2> QED BY <2>8, <2>9
<1> QED BY <1>1, <1>2

LEMMA NothingCounted ==
  ASSUME UNCHANGED editor PROVE EditorsStay
  BY DEF EditorsStay

LEMMA SoundKept ==
  ASSUME Typed, Typed', Current, Sound, Keeps(World, World'), Ground(World'),
         UNCHANGED <<page, dialog, probes>>, EditorsStay, CallsStay
  PROVE  Sound'
<1>1. PagesFit(World)'
  BY DEF Sound, PagesFit, Keeps, Typed
<1>2. DialogsFit(World)'
  <2>1. \A t \in Tabs : dialog[t].open => dialog[t].seen \in SiteType
    BY DEF Typed, DialogType
  <2> QED BY <2>1 DEF Sound, DialogsFit, Keeps
<1>3. EditorsFit(World)'
  <2> SUFFICES ASSUME NEW t \in Tabs, editor'[t].open PROVE EditorFits(editor'[t], World')
    BY DEF EditorsFit
  <2>1. editor[t].open /\ EditorFits(editor[t], World)
    BY DEF Sound, EditorsFit, EditorsStay
  <2>2. EditorFits(editor[t], World')
    BY <2>1, EditorAt, EditorKept
  <2> QED BY <2>1, <2>2 DEF EditorsStay
<1>4. ProbesFit(World)'
  <2> SUFFICES ASSUME NEW t \in Tabs, NEW p \in probes[t], p.current, p.served
               PROVE  ProbeFits(editor'[t], p, World')
    BY DEF ProbesFit, ProbeFits
  <2>1. editor[t].open /\ editor[t].rule = p.rule /\ ProbeFits(editor[t], p, World)
    BY DEF Sound, ProbesFit, Current
  <2>2. EditorFits(editor[t], World) /\ p \in ProbeType
    BY <2>1 DEF Sound, EditorsFit, Typed
  <2>3. ProbeFits(editor[t], p, World')
    BY <2>1, <2>2, EditorAt, ProbeKept
  <2> QED BY <2>1, <2>3 DEF EditorsStay, ProbeFits
<1>5. CallsFit(World)'
  <2> SUFFICES ASSUME NEW s \in Slots, call'[s] # Free PROVE CallFits(call'[s], World')
    BY DEF CallsFit
  <2>1. call[s] # Free /\ CallFits(call[s], World)
    BY DEF Sound, CallsFit, CallsStay
  <2>2. CallFits(call[s], World')
    BY <2>1, CallAt, CallKept
  <2> QED BY <2>1, <2>2 DEF CallsStay
<1> QED BY <1>1, <1>2, <1>3, <1>4, <1>5 DEF Sound

LEMMA CurrentKept ==
  ASSUME Current, UNCHANGED probes, EditorsStay, CallsStay, Typed
  PROVE  Current'
<1>1. \A s \in Slots : call[s] # Free => call[s].tab \in Tabs
  BY CallAt DEF CallType
<1> QED BY <1>1 DEF Current, EditorsStay, CallsStay

LEMMA SameWorld ==
  ASSUME UNCHANGED <<site, health, busy, prior, edits, undone, used>>
  PROVE  World' = World /\ Keeps(World, World')
<1>1. World' = World
  BY DEF World
<1> QED BY <1>1 DEF Keeps

-----------------------------------------------------------------------------
(* One step of the server                                                  *)

LEMMA ToldPreserves ==
  ASSUME IInv, NEW s \in Slots, NEW x \in Results, busy = NoSlot, call[s] # Free,
         call' = [call EXCEPT ![s].res = x], UNCHANGED <<server, tabs, history>>
  PROVE  IInv'
<1>0. UNCHANGED <<site, health, busy, prior, page, uses, dialog, editor, probes,
                  edits, undone, used, blind>>
  BY DEF server, tabs, history
<1>1. call' \in [Slots -> {Free} \cup CallType] /\ CallsStay
  BY CallAnswered DEF IInv
<1>2. Typed'
  BY <1>0, <1>1 DEF IInv, Typed
<1>3. EditorsStay
  BY <1>0, NothingCounted
<1>4. Current'
  BY <1>0, <1>1, <1>3, CurrentKept DEF IInv
<1>5. Holder'
  BY <1>0 DEF Holder
<1>6. ASSUME blind' = {} /\ site'.live PROVE Sound'
  <2>1. Sound
    BY <1>0, <1>6 DEF IInv
  <2>2. World' = World /\ Keeps(World, World')
    BY <1>0, SameWorld
  <2>3. Ground(World')
    BY <2>1, <2>2 DEF Sound
  <2> QED BY <1>0, <1>1, <1>2, <1>3, <2>1, <2>2, <2>3, SoundKept DEF IInv
<1> QED BY <1>0, <1>2, <1>4, <1>5, <1>6 DEF IInv, EditsAreInformed

LEMMA RefusePreserves ==
  ASSUME IInv, NEW s \in Slots, Refuse(s)
  PROVE  IInv'
<1>1. call[s] # Free
  BY DEF Refuse, Free
<1>2. Refusal(call[s]) \in Results
  BY DEF Refuse, Refusal, Results
<1> QED BY <1>1, <1>2, ToldPreserves DEF Refuse

LEMMA RejectPreserves ==
  ASSUME IInv, NEW s \in Slots, Reject(s)
  PROVE  IInv'
<1>1. call[s] # Free
  BY DEF Reject, Free
<1> QED BY <1>1, ToldPreserves DEF Reject, Results

\* A reload has ended and the change stays, whatever is answered.
LEMMA ChangeStaysPreserves ==
  ASSUME IInv, NEW s \in Slots, NEW x \in {"ok", "failed"}, ChangeStays(s, x)
  PROVE  IInv'
<1>0. /\ busy = s /\ busy' = NoSlot /\ prior' = [site |-> site, health |-> health]
      /\ UNCHANGED <<site, health, page, uses, dialog, editor, probes,
                     edits, undone, used, blind>>
  BY DEF ChangeStays, tabs, history
<1>1. busy # NoSlot /\ call[s] # Free
  BY <1>0, IdsAssumption DEF IInv, Holder
<1>2. call' \in [Slots -> {Free} \cup CallType] /\ CallsStay
  BY <1>1, CallAnswered DEF IInv, ChangeStays, Results
<1>3. Typed'
  BY <1>0, <1>2 DEF IInv, Typed
<1>4. EditorsStay
  BY <1>0, NothingCounted
<1>5. Current'
  BY <1>0, <1>2, <1>4, CurrentKept DEF IInv
<1>6. Holder'
  BY <1>0 DEF Holder
<1>7. ASSUME blind' = {} /\ site'.live PROVE Sound'
  <2>1. Sound
    BY <1>0, <1>7 DEF IInv
  <2>2. /\ World.busy /\ ~World'.busy
        /\ World.site \in SiteType /\ World.prior.site \in SiteType /\ World.edits \in Nat
        /\ World'.site = World.site /\ World'.health = World.health
        /\ World'.prior = [site |-> World.site, health |-> World.health]
        /\ World'.edits = World.edits /\ World'.undone = World.undone /\ World'.used = World.used
    BY <1>0, <1>1 DEF World, IInv, Typed
  <2>3. Ground(World') /\ Keeps(World, World')
    BY <2>1, <2>2, EndedWorld DEF Sound
  <2> QED BY <1>0, <1>2, <1>3, <1>4, <2>1, <2>3, SoundKept DEF IInv
<1> QED BY <1>0, <1>3, <1>5, <1>6, <1>7 DEF IInv, EditsAreInformed

LEMMA UndoFailedPreserves ==
  ASSUME IInv, NEW s \in Slots, UndoFailed(s)
  PROVE  IInv'
<1>0. /\ busy = s /\ busy' = NoSlot /\ site' = prior.site /\ health' = prior.health
      /\ undone' = undone \cup {edits} /\ call[s].kind # "drop"
      /\ call' = [call EXCEPT ![s].res = "failed"]
      /\ UNCHANGED <<prior, page, uses, dialog, probes, edits, used, blind>>
  BY DEF UndoFailed
<1>1. busy # NoSlot /\ call[s] # Free /\ site.live
  BY <1>0, IdsAssumption DEF IInv, Holder, Typed, SiteType
<1>2. call' \in [Slots -> {Free} \cup CallType] /\ CallsStay
  BY <1>0, <1>1, CallAnswered DEF IInv, Results
<1>3. editor' \in [Tabs -> {NoEditor} \cup OpenEditors] /\ EditorsStay
  BY <1>1, AppliedFacts DEF IInv, UndoFailed
<1>4. Typed'
  BY <1>0, <1>2, <1>3 DEF IInv, Typed
<1>5. Current'
  BY <1>0, <1>2, <1>3, CurrentKept DEF IInv
<1>6. Holder'
  BY <1>0 DEF Holder
<1>7. ASSUME blind' = {} PROVE Sound'
  <2>1. Sound
    BY <1>0, <1>1, <1>7 DEF IInv
  <2>2. /\ World.busy /\ ~World'.busy
        /\ World.site \in SiteType /\ World.prior.site \in SiteType /\ World.edits \in Nat
        /\ World'.site = World.prior.site /\ World'.health = World.prior.health
        /\ World'.prior = World.prior /\ World'.edits = World.edits
        /\ World'.undone = World.undone \cup {World.edits} /\ World'.used = World.used
    BY <1>0, <1>1 DEF World, IInv, Typed
  <2>3. Ground(World') /\ Keeps(World, World')
    BY <2>1, <2>2, UndoneWorld DEF Sound
  <2> QED BY <1>0, <1>2, <1>3, <1>4, <2>1, <2>3, SoundKept DEF IInv
<1> QED BY <1>0, <1>4, <1>5, <1>6, <1>7 DEF IInv, EditsAreInformed

LEMMA CommitPreserves ==
  ASSUME IInv, NEW s \in Slots, NEW id \in RuleIds \cup {NoRule}, Commit(s, id)
  PROVE  IInv'
<1> DEFINE c == call[s]
           stamp == edits + 1
           n == Written(c, stamp, id)
<1>0. /\ busy = NoSlot /\ busy' = s /\ c.res = "sent" /\ Refusal(c) = "none"
      /\ IF c.kind = "new" THEN id \in RuleIds \ used ELSE id = NoRule
      /\ site' = [n EXCEPT !.ver = stamp]
      /\ health' = HealthWritten(c, n, stamp, id)
      /\ prior' = [site |-> site, health |-> health]
      /\ edits' = stamp /\ used' = used \cup ({id} \ {NoRule})
      /\ blind' = IF Informed(c) THEN blind
                  ELSE blind \cup {IF SawUndone(c) \/ blind # {} THEN "undone" ELSE "plain"}
      /\ call' = [call EXCEPT ![s].res = "reloading"]
      /\ UNCHANGED <<undone, page, uses, dialog, probes>>
  BY DEF Commit
<1>1. c # Free /\ c \in CallType
  BY <1>0, CallAt DEF IInv, Free
<1>2. call' \in [Slots -> {Free} \cup CallType] /\ CallsStay /\ call'[s].kind = c.kind
      /\ call'[s] # Free /\ call'[s].res = "reloading"
  BY <1>0, <1>1, CallAnswered DEF IInv, Results
<1>3. editor' \in [Tabs -> {NoEditor} \cup OpenEditors] /\ EditorsStay
  BY <1>1, AppliedFacts DEF IInv, Commit
<1>4. /\ site.live
      /\ c.rule # NoRule => Has(site, c.rule) /\ c.expected = site.rules[c.rule].rev
      /\ c.rule = NoRule => c.expected = site.rev
  BY <1>0, <1>1, NotRefused
<1>5. Sound => Informed(c) \/ SawUndone(c)
  BY <1>0, <1>1, Honest DEF IInv, Sound, CallsFit
<1>6. Accepted(c, stamp, id)
  BY <1>0, <1>1 DEF Accepted, IInv, Typed
<1> HIDE DEF n, stamp, c
<1>7. /\ n \in SiteType
      /\ c.kind # "drop" => n.live /\ Follows(n, c, id)
  <2>1. CASE c.kind = "drop"
    <3>1. n = [site EXCEPT !.live = FALSE]
      BY <2>1 DEF n, Written
    <3> QED BY <2>1, <3>1 DEF IInv, Typed, SiteType
  <2>2. CASE c.kind # "drop"
    BY <1>4, <1>6, <2>2, WrittenFacts DEF n
  <2> QED BY <2>1, <2>2
<1>8. stamp \in Nat
  BY <1>6 DEF Accepted
<1>9. /\ site' \in SiteType /\ site'.ver = stamp
      /\ site'.live = n.live /\ site'.rev = n.rev /\ site'.rules = n.rules
  BY <1>0, <1>7, <1>8 DEF SiteType
<1>10. /\ health' \in HealthType
       /\ n.live => \A r \in RuleIds : Has(n, r) =>
             \/ health'[r] = health[r]
             \/ c.kind = "rule" /\ r = c.rule /\ health'[r] \in {c.health, stamp}
             \/ c.kind = "new" /\ r = id
  BY <1>0, <1>6, HealthFacts DEF IInv, Typed
<1>11. Typed'
  <2>1. prior' \in [site : SiteType, health : HealthType]
    BY <1>0 DEF IInv, Typed
  <2>2. used' \subseteq RuleIds
    BY <1>0 DEF IInv, Typed
  <2> QED BY <1>0, <1>2, <1>3, <1>8, <1>9, <1>10, <2>1, <2>2 DEF IInv, Typed
<1>12. Current'
  BY <1>0, <1>2, <1>3, CurrentKept DEF IInv
<1>13. Holder'
  BY <1>0, <1>2, <1>7, <1>9 DEF Holder
<1>14. EditsAreInformed'
  <2>1. CASE blind = {}
    <3>1. Sound
      BY <1>4, <2>1 DEF IInv
    <3> QED BY <1>0, <1>5, <2>1, <3>1 DEF EditsAreInformed
  <2>2. CASE blind # {}
    BY <1>0, <2>2 DEF EditsAreInformed, IInv
  <2> QED BY <2>1, <2>2
<1>15. ASSUME blind' = {}, site'.live PROVE Sound'
  <2>1. blind = {} /\ Informed(c)
    BY <1>0, <1>15
  <2>2. Sound
    BY <1>4, <2>1 DEF IInv
  <2>3. c.kind # "drop"
    <3>1. CASE c.kind = "drop"
      <4>1. n = [site EXCEPT !.live = FALSE]
        BY <3>1 DEF n, Written
      <4> QED BY <1>9, <1>15, <4>1 DEF IInv, Typed, SiteType
    <3> QED BY <3>1
  <2>4. n.live /\ Follows(n, c, id)
    BY <1>7, <2>3
  <2>5. Follows(site', c, id)
    BY <1>9, <2>4 DEF Follows, Has
  <2>6. /\ c.kind = "site" => \A r \in RuleIds : Has(c.seen, r) => Has(site, r)
        /\ c.kind = "rule" => c.health = health[c.rule]
    BY <1>1, <2>1, CellsTell
  <2>7. c.kind \in RuleKinds => Has(site, c.rule)
    BY <1>1, <1>4 DEF CallType
  <2>8. \A r \in RuleIds : Has(site', r) =>
            \/ health'[r] = health[r]
            \/ c.kind = "rule" /\ r = c.rule /\ health'[r] = stamp
            \/ c.kind = "new" /\ r = id
    BY <1>9, <1>10, <2>4, <2>6 DEF Has
  <2>9. prior.site = site /\ prior.health = health
    BY <1>0, <2>2 DEF Sound, Ground, World
  <2>10. /\ World.site = site /\ World.health = health
         /\ World.prior.site = site /\ World.prior.health = health
         /\ ~World.busy /\ World.edits = edits /\ World.used = used
    BY <1>0, <2>9 DEF World
  <2>11. /\ World'.edits = edits + 1 /\ World'.undone = World.undone
         /\ World'.busy /\ World'.prior = [site |-> site, health |-> health]
         /\ World'.used = World.used \cup ({id} \ {NoRule})
         /\ World'.site = site' /\ World'.health = health'
    BY <1>0, IdsAssumption DEF World, stamp
  <2>12. Ground(World') /\ Keeps(World, World')
    <3>1. site \in SiteType /\ health \in HealthType /\ edits \in Nat
      BY DEF IInv, Typed
    <3>2. IF c.kind = "new" THEN id \in RuleIds \ used ELSE id = NoRule
      BY <1>0
    <3>3. stamp = edits + 1
      BY DEF stamp
    <3> QED BY <1>9, <2>2, <2>5, <2>6, <2>7, <2>8, <2>10, <2>11, <3>1, <3>2, <3>3, WrittenWorld
            DEF Sound
  <2> QED BY <1>0, <1>2, <1>3, <1>11, <2>2, <2>12, SoundKept DEF IInv
<1> QED BY <1>11, <1>12, <1>13, <1>14, <1>15 DEF IInv

-----------------------------------------------------------------------------
(* One step of a tab                                                       *)

\* The steps of the tabs leave the world as it is.
Untouched == UNCHANGED <<site, health, busy, prior, edits, undone, used, blind>>

LEMMA TabStep ==
  ASSUME IInv, Untouched, Typed', Current', Holder',
         Sound => /\ PagesFit(World)' /\ DialogsFit(World)' /\ EditorsFit(World)'
                  /\ ProbesFit(World)' /\ CallsFit(World)'
  PROVE  IInv'
<1>1. World' = World
  BY SameWorld DEF Untouched
<1>2. Sound => Sound'
  BY <1>1 DEF Sound
<1> QED BY <1>2 DEF IInv, EditsAreInformed, Untouched

LEMMA StillFits ==
  ASSUME World' = World
  PROVE  /\ UNCHANGED page /\ PagesFit(World) => PagesFit(World)'
         /\ UNCHANGED dialog /\ DialogsFit(World) => DialogsFit(World)'
         /\ UNCHANGED editor /\ EditorsFit(World) => EditorsFit(World)'
         /\ UNCHANGED <<editor, probes>> /\ ProbesFit(World) => ProbesFit(World)'
         /\ UNCHANGED call /\ CallsFit(World) => CallsFit(World)'
  BY DEF PagesFit, DialogsFit, EditorsFit, ProbesFit, CallsFit

LEMMA StillHeld ==
  ASSUME Holder, UNCHANGED <<busy, site, call>> PROVE Holder'
  BY DEF Holder

LEMMA ServeHealthPreserves ==
  ASSUME IInv, NEW t \in Tabs, NEW p \in probes[t], ServeHealth(t, p)
  PROVE  IInv'
<1> DEFINE d == [p EXCEPT !.served = TRUE, !.health = health[p.rule]]
<1>0. /\ Untouched /\ UNCHANGED <<page, dialog, editor, call>>
      /\ probes' = [probes EXCEPT ![t] = (@ \ {p}) \cup {d}]
      /\ ~p.served /\ HasRule(site, p.rule)
  BY DEF ServeHealth, Untouched, server, history
<1>1. p \in ProbeType
  BY DEF IInv, Typed
<1>2. p.rule \in RuleIds /\ health[p.rule] \in Nat
  BY <1>1 DEF ProbeType, IInv, Typed, HealthType
<1>3. /\ d \in ProbeType /\ d.current = p.current /\ d.rule = p.rule
      /\ d.health = health[p.rule]
  BY <1>1, <1>2 DEF ProbeType
<1> HIDE DEF d
<1>4. \A u \in Tabs : probes'[u] \subseteq ProbeType
  BY <1>0, <1>3 DEF IInv, Typed
<1>5. \A u \in Tabs : \A q \in probes'[u] : q \in probes[u] \/ (u = t /\ q = d)
  BY <1>0 DEF IInv, Typed
<1>6. Typed'
  <2>1. probes' \in [Tabs -> SUBSET ProbeType]
    BY <1>0, <1>3 DEF IInv, Typed
  <2> QED BY <1>0, <2>1 DEF IInv, Typed, Untouched
<1>7. Current'
  BY <1>0, <1>3, <1>5 DEF IInv, Current
<1>8. Holder'
  BY <1>0, StillHeld DEF IInv, Untouched
<1>9. ASSUME Sound PROVE ProbesFit(World)'
  <2>1. World' = World
    BY <1>0, SameWorld DEF Untouched
  <2>2. Fits(editor[t].seen, p.rule, health[p.rule], World)
    <3>1. Has(site, p.rule)
      BY <1>0 DEF HasRule, Has
    <3> QED BY <1>2, <1>9, <3>1 DEF Fits, World, Sound, Ground
  <2>3. ProbeFits(editor[t], d, World)
    BY <1>3, <2>2 DEF ProbeFits
  <2> QED BY <1>0, <1>5, <1>9, <2>1, <2>3 DEF Sound, ProbesFit
<1>10. World' = World
  BY <1>0, SameWorld DEF Untouched
<1> QED BY <1>0, <1>6, <1>7, <1>8, <1>9, <1>10, TabStep, StillFits DEF Sound

LEMMA LoadPreserves ==
  ASSUME IInv, NEW t \in Tabs, Load(t)
  PROVE  IInv'
<1>0. /\ Untouched /\ UNCHANGED <<dialog, editor, probes, call>>
      /\ page' = [page EXCEPT ![t] = site]
  BY DEF Load, Untouched, server, history
<1>1. Typed'
  BY <1>0 DEF IInv, Typed, Untouched
<1>2. Current' /\ Holder'
  BY <1>0, StillHeld DEF IInv, Current, Untouched
<1>3. World' = World
  BY <1>0, SameWorld DEF Untouched
<1>4. ASSUME Sound PROVE PagesFit(World)'
  <2>1. Known(site, World)
    BY <1>4 DEF Sound, Ground, Known, World
  <2> QED BY <1>0, <1>3, <1>4, <2>1 DEF Sound, PagesFit, IInv, Typed
<1> QED BY <1>0, <1>1, <1>2, <1>3, <1>4, TabStep, StillFits DEF Sound

\* A change that is sent.
LEMMA Sent ==
  ASSUME Typed, Holder, NEW s \in Slots, NEW t \in Tabs, NEW kind \in Kinds,
         NEW r \in RuleIds \cup {NoRule}, NEW expected \in Nat, NEW seen \in SiteType,
         NEW h \in Nat, NEW changes \in SUBSET {"body", "health"},
         kind \in RuleKinds <=> r # NoRule,
         Send(s, t, kind, r, expected, seen, h, changes), UNCHANGED <<busy, site>>
  PROVE  /\ call' \in [Slots -> {Free} \cup CallType]
         /\ Holder'
         /\ \A q \in Slots \ {s} : call'[q] = call[q]
         /\ call'[s].tab = t /\ call'[s].kind = kind
         /\ \A w : /\ Known(seen, w)
                   /\ r = NoRule => expected = seen.rev
                   /\ kind = "new" => h = 0
                   /\ r # NoRule => Has(seen, r) /\ expected = seen.rules[r].rev
                   /\ kind = "rule" => Fits(seen, r, h, w)
                   => CallFits(call'[s], w)
<1> DEFINE c == [tab |-> t, kind |-> kind, rule |-> r, expected |-> expected,
                 seen |-> seen, health |-> h, changes |-> changes,
                 current |-> TRUE, waiting |-> TRUE, res |-> "sent"]
<1>1. call[s] = Free /\ call' = [call EXCEPT ![s] = c]
  BY DEF Send
<1>2. c \in CallType
  BY DEF CallType, Results
<1>3. /\ c.tab = t /\ c.kind = kind /\ c.rule = r /\ c.expected = expected
      /\ c.seen = seen /\ c.health = h
  OBVIOUS
<1> HIDE DEF c
<1>4. call' \in [Slots -> {Free} \cup CallType]
  BY <1>1, <1>2 DEF Typed
<1>5. call'[s] = c /\ \A q \in Slots \ {s} : call'[q] = call[q]
  BY <1>1 DEF Typed
<1>6. Holder'
  BY <1>1, <1>5 DEF Holder, Typed
<1> QED BY <1>3, <1>4, <1>5, <1>6 DEF CallFits

\* One that is sent from the page or the site dialog.
LEMMA SentFromPage ==
  ASSUME IInv, NEW s \in Slots, NEW t \in Tabs, NEW kind \in Kinds \ {"rule", "new"},
         NEW r \in RuleIds \cup {NoRule}, NEW expected \in Nat, NEW seen \in SiteType,
         kind \in RuleKinds <=> r # NoRule,
         Send(s, t, kind, r, expected, seen, 0, {}),
         Untouched, UNCHANGED <<page, editor, probes>>,
         dialog' \in [Tabs -> DialogType],
         Sound => DialogsFit(World)' /\ Known(seen, World),
         r = NoRule => expected = seen.rev,
         r # NoRule => Has(seen, r) /\ expected = seen.rules[r].rev
  PROVE  IInv'
<1>0. UNCHANGED <<busy, site>> /\ {} \in SUBSET {"body", "health"} /\ 0 \in Nat
  BY DEF Untouched
<1>1. /\ call' \in [Slots -> {Free} \cup CallType] /\ Holder'
      /\ \A q \in Slots \ {s} : call'[q] = call[q]
      /\ call'[s].tab = t /\ call'[s].kind = kind
      /\ \A w : Known(seen, w) => CallFits(call'[s], w)
  BY <1>0, Sent DEF IInv
<1>2. Typed'
  BY <1>1 DEF IInv, Typed, Untouched
<1>3. Current'
  BY <1>1 DEF IInv, Current
<1>4. World' = World
  BY SameWorld DEF Untouched
<1>5. Sound => CallsFit(World)'
  BY <1>1, <1>4 DEF Sound, CallsFit
<1> QED BY <1>1, <1>2, <1>3, <1>4, <1>5, TabStep, StillFits DEF Sound

LEMMA ClickSitePreserves ==
  ASSUME IInv, NEW t \in Tabs, NEW s \in Slots, NEW kind \in {"flip", "drop", "order"},
         ClickSite(t, s, kind)
  PROVE  IInv'
<1>0. /\ Untouched /\ UNCHANGED <<page, dialog, editor, probes>>
      /\ Send(s, t, kind, NoRule, page[t].rev, page[t], 0, {})
  BY DEF ClickSite, Untouched, server, tabs
<1>1. page[t] \in SiteType /\ page[t].rev \in Nat
  BY DEF IInv, Typed, SiteType
<1>2. kind \in Kinds \ {"rule", "new"} /\ kind \notin RuleKinds
  BY DEF Kinds, RuleKinds
<1>3. World' = World
  BY <1>0, SameWorld DEF Untouched
<1>4. Sound => DialogsFit(World)' /\ Known(page[t], World)
  BY <1>0, <1>3, StillFits DEF Sound, PagesFit
<1> QED BY <1>0, <1>1, <1>2, <1>4, SentFromPage DEF IInv, Typed

LEMMA ClickRulePreserves ==
  ASSUME IInv, NEW t \in Tabs, NEW s \in Slots, NEW kind \in {"toggle", "delete"},
         NEW r \in RuleIds, ClickRule(t, s, kind, r)
  PROVE  IInv'
<1>0. /\ Untouched /\ UNCHANGED <<page, dialog, editor, probes>>
      /\ Send(s, t, kind, r, page[t].rules[r].rev, page[t], 0, {})
      /\ HasRule(page[t], r)
  BY DEF ClickRule, Untouched, server, tabs
<1>1. page[t] \in SiteType /\ page[t].rules[r].rev \in Nat
  BY DEF IInv, Typed, SiteType
<1>2. kind \in Kinds \ {"rule", "new"} /\ kind \in RuleKinds
  BY DEF Kinds, RuleKinds
<1>3. World' = World
  BY <1>0, SameWorld DEF Untouched
<1>4. Sound => DialogsFit(World)' /\ Known(page[t], World)
  BY <1>0, <1>3, StillFits DEF Sound, PagesFit
<1>5. r # NoRule /\ Has(page[t], r)
  BY <1>0 DEF HasRule, Has
<1> QED BY <1>0, <1>1, <1>2, <1>4, <1>5, SentFromPage DEF IInv, Typed

LEMMA OpenSitePreserves ==
  ASSUME IInv, NEW t \in Tabs, OpenSite(t)
  PROVE  IInv'
<1>0. /\ Untouched /\ UNCHANGED <<page, editor, probes, call>>
      /\ dialog' = [dialog EXCEPT ![t] = [open |-> TRUE, saving |-> @.saving, seen |-> page[t]]]
  BY DEF OpenSite, Untouched, server, history
<1>1. dialog[t].saving \in BOOLEAN /\ page[t] \in SiteType
  BY DEF IInv, Typed, DialogType
<1>2. [open |-> TRUE, saving |-> dialog[t].saving, seen |-> page[t]] \in DialogType
  BY <1>1 DEF DialogType
<1>3. dialog' \in [Tabs -> DialogType]
  BY <1>0, <1>2 DEF IInv, Typed
<1>4. Typed'
  BY <1>0, <1>3 DEF IInv, Typed, Untouched
<1>5. Current' /\ Holder'
  BY <1>0, StillHeld DEF IInv, Current, Untouched
<1>6. World' = World
  BY <1>0, SameWorld DEF Untouched
<1>7. Sound => DialogsFit(World)'
  BY <1>0, <1>6 DEF Sound, DialogsFit, PagesFit, IInv, Typed
<1> QED BY <1>0, <1>4, <1>5, <1>6, <1>7, TabStep, StillFits DEF Sound

LEMMA CloseSitePreserves ==
  ASSUME IInv, NEW t \in Tabs, CloseSite(t)
  PROVE  IInv'
<1> DEFINE d == [NoDialog EXCEPT !.saving = dialog[t].saving]
<1>0. /\ Untouched /\ UNCHANGED <<page, editor, probes, call>>
      /\ dialog' = [dialog EXCEPT ![t] = d]
  BY DEF CloseSite, Untouched, server, history
<1>1. dialog[t].saving \in BOOLEAN
  BY DEF IInv, Typed, DialogType
<1>2. d \in DialogType /\ ~d.open
  BY <1>1 DEF DialogType, NoDialog
<1> HIDE DEF d
<1>3. dialog' \in [Tabs -> DialogType]
  BY <1>0, <1>2 DEF IInv, Typed
<1>4. Typed'
  BY <1>0, <1>3 DEF IInv, Typed, Untouched
<1>5. Current' /\ Holder'
  BY <1>0, StillHeld DEF IInv, Current, Untouched
<1>6. World' = World
  BY <1>0, SameWorld DEF Untouched
<1>7. Sound => DialogsFit(World)'
  BY <1>0, <1>2, <1>6 DEF Sound, DialogsFit, IInv, Typed
<1> QED BY <1>0, <1>4, <1>5, <1>6, <1>7, TabStep, StillFits DEF Sound

LEMMA SaveSitePreserves ==
  ASSUME IInv, NEW t \in Tabs, NEW s \in Slots, SaveSite(t, s)
  PROVE  IInv'
<1> DEFINE d == [dialog[t] EXCEPT !.saving = TRUE]
           v == dialog[t].seen
<1>0. /\ Untouched /\ UNCHANGED <<page, editor, probes>>
      /\ dialog[t].open /\ dialog' = [dialog EXCEPT ![t] = d]
      /\ Send(s, t, "site", NoRule, v.rev, v, 0, {})
  BY DEF SaveSite, Untouched, server
<1>1. d \in DialogType /\ d.open /\ d.seen = v /\ v \in SiteType
  BY <1>0 DEF IInv, Typed, DialogType
<1> HIDE DEF d
<1>2. dialog' \in [Tabs -> DialogType]
  BY <1>0, <1>1 DEF IInv, Typed
<1>3. v.rev \in Nat
  BY <1>1 DEF SiteType
<1>4. World' = World
  BY <1>0, SameWorld DEF Untouched
<1>5. Sound => DialogsFit(World)' /\ Known(v, World)
  BY <1>0, <1>1, <1>4 DEF Sound, DialogsFit, IInv, Typed
<1>6. "site" \in Kinds \ {"rule", "new"} /\ "site" \notin RuleKinds
  BY DEF Kinds, RuleKinds
<1> QED BY <1>0, <1>1, <1>2, <1>3, <1>5, <1>6, SentFromPage

-----------------------------------------------------------------------------
(* The rule editor                                                         *)

LEMMA OutdatedCalls ==
  ASSUME NEW t \in Tabs, NEW calls \in [Slots -> {Free} \cup CallType]
  PROVE  /\ Outdated(t, calls) \in [Slots -> {Free} \cup CallType]
         /\ \A s \in Slots :
               /\ Outdated(t, calls)[s] # Free <=> calls[s] # Free
               /\ calls[s] # Free =>
                     /\ Outdated(t, calls)[s].res = calls[s].res
                     /\ Outdated(t, calls)[s].kind = calls[s].kind
                     /\ Outdated(t, calls)[s].tab = calls[s].tab
                     /\ Outdated(t, calls)[s].current => calls[s].current /\ calls[s].tab # t
                     /\ \A w : CallFits(calls[s], w) => CallFits(Outdated(t, calls)[s], w)
<1> DEFINE f == Outdated(t, calls)
<1>1. ASSUME NEW s \in Slots
      PROVE  /\ f[s] \in {Free} \cup CallType
             /\ f[s] # Free <=> calls[s] # Free
             /\ calls[s] # Free =>
                   /\ f[s].res = calls[s].res /\ f[s].kind = calls[s].kind
                   /\ f[s].tab = calls[s].tab
                   /\ f[s].current => calls[s].current /\ calls[s].tab # t
                   /\ \A w : CallFits(calls[s], w) => CallFits(f[s], w)
  <2> DEFINE d == [calls[s] EXCEPT !.current = FALSE]
  <2>1. CASE calls[s] # Free /\ calls[s].tab = t
    <3>1. f[s] = d /\ calls[s] \in CallType
      BY <2>1 DEF Outdated
    <3>2. \A w : /\ d \in CallType /\ ~d.current
                 /\ d.res = calls[s].res /\ d.kind = calls[s].kind
                 /\ CallFits(calls[s], w) => CallFits(d, w)
      BY <3>1, CallIsOld
    <3>3. d.tab = calls[s].tab
      BY <3>1 DEF CallType
    <3>4. d # Free
      BY <3>2, FreeIsNoCall
    <3> QED BY <2>1, <3>1, <3>2, <3>3, <3>4
  <2>2. CASE ~(calls[s] # Free /\ calls[s].tab = t)
    BY <2>2 DEF Outdated
  <2> QED BY <2>1, <2>2
<1>2. f = [s \in Slots |-> f[s]]
  BY DEF Outdated
<1> HIDE DEF f
<1>3. f \in [Slots -> {Free} \cup CallType]
  BY <1>1, <1>2
<1> QED BY <1>1, <1>3 DEF f

LEMMA OutdatedProbesFacts ==
  ASSUME Typed, NEW t \in Tabs
  PROVE  OutdatedProbes(t) \subseteq ProbeType /\ \A p \in OutdatedProbes(t) : ~p.current
<1> SUFFICES ASSUME NEW p \in OutdatedProbes(t) PROVE p \in ProbeType /\ ~p.current
  OBVIOUS
<1>1. PICK q \in probes[t] : p = [q EXCEPT !.current = FALSE]
  BY DEF OutdatedProbes
<1>2. q \in ProbeType
  BY DEF Typed
<1> QED BY <1>1, <1>2, ProbeIsOld

LEMMA ProbeFacts ==
  ASSUME NEW r \in RuleIds
  PROVE  Probe(r) \in ProbeType /\ Probe(r).rule = r /\ ~Probe(r).served
  BY DEF Probe, ProbeType

\* The calls that remain are outdated for this tab or untouched.
LEMMA OutdatedHeld ==
  ASSUME Typed, Holder, NEW t \in Tabs, call' = Outdated(t, call), UNCHANGED <<busy, site>>
  PROVE  /\ call' \in [Slots -> {Free} \cup CallType]
         /\ Holder'
         /\ World' = World /\ CallsFit(World) => CallsFit(World)'
<1>1. call \in [Slots -> {Free} \cup CallType] /\ busy \in Slots \cup {NoSlot}
  BY DEF Typed
<1>2. /\ call' \in [Slots -> {Free} \cup CallType]
      /\ \A s \in Slots :
            /\ call'[s] # Free <=> call[s] # Free
            /\ call[s] # Free =>
                  /\ call'[s].res = call[s].res /\ call'[s].kind = call[s].kind
                  /\ \A w : CallFits(call[s], w) => CallFits(call'[s], w)
  BY <1>1, OutdatedCalls
<1>3. Holder'
  BY <1>1, <1>2 DEF Holder
<1>4. World' = World /\ CallsFit(World) => CallsFit(World)'
  BY <1>2 DEF CallsFit
<1> QED BY <1>2, <1>3, <1>4

\* The editor of tab t is opened, on e, or closed: what was sent before is of
\* an earlier opening.
LEMMA EditorTurns ==
  ASSUME IInv, NEW t \in Tabs, NEW e \in {NoEditor} \cup OpenEditors,
         NEW fresh \in SUBSET ProbeType,
         Untouched, UNCHANGED <<page, dialog>>,
         editor' = [editor EXCEPT ![t] = e],
         probes' = [probes EXCEPT ![t] = OutdatedProbes(t) \cup fresh],
         call' = Outdated(t, call),
         \A p \in fresh : e.open /\ e.rule = p.rule /\ ~p.served,
         Sound => (e.open => EditorFits(e, World))
  PROVE  IInv'
<1>0. World' = World /\ UNCHANGED <<busy, site>>
  BY SameWorld DEF Untouched
<1>1. /\ editor'[t] = e /\ \A u \in Tabs \ {t} : editor'[u] = editor[u]
      /\ editor' \in [Tabs -> {NoEditor} \cup OpenEditors]
  BY DEF IInv, Typed
<1>2. OutdatedProbes(t) \subseteq ProbeType /\ \A p \in OutdatedProbes(t) : ~p.current
  BY OutdatedProbesFacts DEF IInv
<1>3. /\ probes'[t] = OutdatedProbes(t) \cup fresh
      /\ \A u \in Tabs \ {t} : probes'[u] = probes[u]
      /\ probes' \in [Tabs -> SUBSET ProbeType]
  BY <1>2 DEF IInv, Typed
<1>4. /\ call' \in [Slots -> {Free} \cup CallType] /\ Holder'
      /\ CallsFit(World) => CallsFit(World)'
  BY <1>0, OutdatedHeld DEF IInv
<1>5. Typed'
  BY <1>1, <1>3, <1>4 DEF IInv, Typed, Untouched
<1>6. Current'
  <2>1. ASSUME NEW s \in Slots, call'[s] # Free, call'[s].current,
               call'[s].kind \in {"rule", "new"}
        PROVE  editor'[call'[s].tab].open
    <3>1. call \in [Slots -> {Free} \cup CallType]
      BY DEF IInv, Typed
    <3>2. /\ call[s] # Free /\ call[s].current /\ call[s].kind = call'[s].kind
          /\ call[s].tab = call'[s].tab /\ call[s].tab # t
      BY <2>1, <3>1, OutdatedCalls
    <3>3. call[s].tab \in Tabs
      BY <3>2, CallAt DEF IInv, CallType
    <3> QED BY <1>1, <2>1, <3>2, <3>3 DEF IInv, Current
  <2>2. ASSUME NEW u \in Tabs, NEW p \in probes'[u], p.current
        PROVE  editor'[u].open /\ editor'[u].rule = p.rule
    BY <1>1, <1>2, <1>3, <2>2 DEF IInv, Current
  <2> QED BY <2>1, <2>2 DEF Current
<1>7. ASSUME Sound PROVE EditorsFit(World)' /\ ProbesFit(World)'
  <2>1. EditorsFit(World)'
    BY <1>0, <1>1, <1>7 DEF Sound, EditorsFit
  <2>2. ProbesFit(World)'
    BY <1>0, <1>1, <1>2, <1>3, <1>7 DEF Sound, ProbesFit, ProbeFits
  <2> QED BY <2>1, <2>2
<1> QED BY <1>0, <1>4, <1>5, <1>6, <1>7, TabStep, StillFits DEF Sound

LEMMA OpenRulePreserves ==
  ASSUME IInv, NEW t \in Tabs, NEW r \in RuleIds, OpenRule(t, r)
  PROVE  IInv'
<1> DEFINE e == [open |-> TRUE, saving |-> FALSE, rule |-> r,
                 expected |-> page[t].rules[r].rev, seen |-> page[t],
                 load |-> "loading", health |-> 0, applied |-> 0]
<1>0. /\ Untouched /\ UNCHANGED <<page, dialog>> /\ HasRule(page[t], r)
      /\ editor' = [editor EXCEPT ![t] = e]
      /\ probes' = [probes EXCEPT ![t] = OutdatedProbes(t) \cup {Probe(r)}]
      /\ call' = Outdated(t, call)
  BY DEF OpenRule, Untouched, server
<1>1. page[t] \in SiteType /\ page[t].rules[r].rev \in Nat
  BY DEF IInv, Typed, SiteType
<1>2. e \in OpenEditors
  BY <1>1, IdsAssumption DEF OpenEditors
<1>3. /\ e.open /\ e.rule = r /\ e.seen = page[t] /\ e.load = "loading"
      /\ e.expected = page[t].rules[r].rev
  OBVIOUS
<1> HIDE DEF e
<1>4. {Probe(r)} \in SUBSET ProbeType /\ \A p \in {Probe(r)} : p.rule = r /\ ~p.served
  BY ProbeFacts
<1>5. Has(page[t], r) /\ r # NoRule
  BY <1>0 DEF HasRule, Has
<1>6. Sound => EditorFits(e, World)
  BY <1>3, <1>5 DEF Sound, PagesFit, EditorFits
<1> QED BY <1>0, <1>2, <1>3, <1>4, <1>6, EditorTurns

LEMMA OpenNewRulePreserves ==
  ASSUME IInv, NEW t \in Tabs, OpenNewRule(t)
  PROVE  IInv'
<1> DEFINE e == [open |-> TRUE, saving |-> FALSE, rule |-> NoRule,
                 expected |-> page[t].rev, seen |-> page[t],
                 load |-> "ready", health |-> 0, applied |-> 0]
<1>0. /\ Untouched /\ UNCHANGED <<page, dialog>>
      /\ editor' = [editor EXCEPT ![t] = e]
      /\ probes' = [probes EXCEPT ![t] = OutdatedProbes(t)]
      /\ call' = Outdated(t, call)
  BY DEF OpenNewRule, Untouched, server
<1>1. page[t] \in SiteType /\ page[t].rev \in Nat
  BY DEF IInv, Typed, SiteType
<1>2. e \in OpenEditors
  BY <1>1 DEF OpenEditors
<1>3. /\ e.open /\ e.rule = NoRule /\ e.seen = page[t] /\ e.expected = page[t].rev
  OBVIOUS
<1> HIDE DEF e
<1>4. Sound => EditorFits(e, World)
  BY <1>3 DEF Sound, PagesFit, EditorFits
<1>5. {} \in SUBSET ProbeType /\ probes' = [probes EXCEPT ![t] = OutdatedProbes(t) \cup {}]
  BY <1>0
<1> QED BY <1>0, <1>2, <1>4, <1>5, EditorTurns

LEMMA CloseRulePreserves ==
  ASSUME IInv, NEW t \in Tabs, CloseRule(t)
  PROVE  IInv'
<1>0. /\ Untouched /\ UNCHANGED <<page, dialog>>
      /\ editor' = [editor EXCEPT ![t] = NoEditor]
      /\ probes' = [probes EXCEPT ![t] = OutdatedProbes(t)]
      /\ call' = Outdated(t, call)
  BY DEF CloseRule, Untouched, server, history
<1>1. ~NoEditor.open
  BY NoEditorIsClosed
<1>2. {} \in SUBSET ProbeType /\ probes' = [probes EXCEPT ![t] = OutdatedProbes(t) \cup {}]
  BY <1>0
<1>3. Sound => (NoEditor.open => EditorFits(NoEditor, World))
  BY <1>1
<1> QED BY <1>0, <1>1, <1>2, <1>3, EditorTurns

\* The open editor of tab t becomes d; the calls stay.
LEMMA EditorGoesOn ==
  ASSUME IInv, NEW t \in Tabs, editor[t].open, NEW d \in OpenEditors,
         Untouched, UNCHANGED <<page, dialog, call>>,
         editor' = [editor EXCEPT ![t] = d], d.rule = editor[t].rule, d.seen = editor[t].seen,
         probes' \in [Tabs -> SUBSET ProbeType],
         \A u \in Tabs \ {t} : probes'[u] = probes[u],
         \A p \in probes'[t] :
            p \in probes[t] \/ ~p.current \/ (p.rule = editor[t].rule /\ ~p.served),
         Sound => EditorFits(d, World)
  PROVE  IInv'
<1>0. World' = World /\ UNCHANGED <<busy, site>>
  BY SameWorld DEF Untouched
<1>1. /\ editor'[t] = d /\ \A u \in Tabs \ {t} : editor'[u] = editor[u]
      /\ editor' \in [Tabs -> {NoEditor} \cup OpenEditors] /\ d.open
  BY NoEditorIsClosed DEF IInv, Typed
<1>2. Typed'
  BY <1>1 DEF IInv, Typed, Untouched
<1>3. Current'
  <2>1. ASSUME NEW s \in Slots, call'[s] # Free, call'[s].current,
               call'[s].kind \in {"rule", "new"}
        PROVE  editor'[call'[s].tab].open
    <3>1. call[s].tab \in Tabs
      BY <2>1, CallAt DEF IInv, CallType
    <3> QED BY <1>1, <2>1, <3>1 DEF IInv, Current
  <2>2. ASSUME NEW u \in Tabs, NEW p \in probes'[u], p.current
        PROVE  editor'[u].open /\ editor'[u].rule = p.rule
    BY <1>1, <2>2 DEF IInv, Current
  <2> QED BY <2>1, <2>2 DEF Current
<1>4. Holder'
  BY <1>0, StillHeld DEF IInv
<1>5. ASSUME Sound PROVE EditorsFit(World)' /\ ProbesFit(World)'
  <2>1. EditorsFit(World)'
    BY <1>0, <1>1, <1>5 DEF Sound, EditorsFit
  <2>2. ProbesFit(World)'
    BY <1>0, <1>1, <1>5 DEF Sound, ProbesFit, ProbeFits
  <2> QED BY <2>1, <2>2
<1> QED BY <1>0, <1>2, <1>3, <1>4, <1>5, TabStep, StillFits DEF Sound

LEMMA RetryHealthPreserves ==
  ASSUME IInv, NEW t \in Tabs, RetryHealth(t)
  PROVE  IInv'
<1> DEFINE e == editor[t]
           d == [e EXCEPT !.load = "loading"]
           fresh == {Probe(e.rule)}
<1>0. /\ Untouched /\ UNCHANGED <<page, dialog, call>>
      /\ e.open /\ e.load = "error"
      /\ editor' = [editor EXCEPT ![t] = d]
      /\ probes' = [probes EXCEPT ![t] = OutdatedProbes(t) \cup fresh]
  BY DEF RetryHealth, Untouched, server, history
<1>1. e \in OpenEditors
  BY <1>0, EditorAt DEF IInv
<1>2. e.rule \in RuleIds
  BY <1>0, <1>1 DEF OpenEditors
<1>3. d \in OpenEditors /\ d.rule = e.rule /\ d.seen = e.seen
  BY <1>1, <1>2, IdsAssumption DEF OpenEditors
<1>4. Sound => EditorFits(d, World)
  <2>1. /\ d.expected = e.expected /\ d.load = "loading" /\ d.rule = e.rule /\ d.seen = e.seen
        /\ d.rule # NoRule
    BY <1>1, <1>2, IdsAssumption DEF OpenEditors
  <2> HIDE DEF d
  <2>2. Sound => EditorFits(e, World)
    BY <1>0 DEF Sound, EditorsFit
  <2> QED BY <2>1, <2>2 DEF EditorFits
<1>5. /\ fresh \subseteq ProbeType /\ \A p \in fresh : p.rule = e.rule /\ ~p.served
  BY <1>2, ProbeFacts
<1>6. OutdatedProbes(t) \subseteq ProbeType /\ \A p \in OutdatedProbes(t) : ~p.current
  BY OutdatedProbesFacts DEF IInv
<1> HIDE DEF d, fresh
<1>7. /\ probes' \in [Tabs -> SUBSET ProbeType]
      /\ \A u \in Tabs \ {t} : probes'[u] = probes[u]
      /\ \A p \in probes'[t] : ~p.current \/ (p.rule = e.rule /\ ~p.served)
  BY <1>0, <1>5, <1>6 DEF IInv, Typed
<1> QED BY <1>0, <1>3, <1>4, <1>7, EditorGoesOn

LEMMA LoadEndsPreserves ==
  ASSUME IInv, NEW t \in Tabs, NEW p \in probes[t], NEW x \in {"ready", "error"},
         NEW h \in Nat, LoadEnds(t, p, x, h),
         x = "ready" => p.served /\ h = p.health
  PROVE  IInv'
<1> DEFINE e == editor[t]
           d == [e EXCEPT !.load = x, !.health = h]
<1>0. /\ Untouched /\ UNCHANGED <<page, dialog, call>>
      /\ probes' = [probes EXCEPT ![t] = @ \ {p}]
      /\ editor' = IF ~(p.current /\ e.open) THEN editor
                   ELSE [editor EXCEPT ![t].load = x, ![t].health = h]
  BY DEF LoadEnds, HealthCounts, Untouched, server, history
<1>1. /\ probes' \in [Tabs -> SUBSET ProbeType]
      /\ \A u \in Tabs : probes'[u] \subseteq probes[u]
      /\ \A u \in Tabs \ {t} : probes'[u] = probes[u]
  BY <1>0 DEF IInv, Typed
<1>2. CASE ~(p.current /\ e.open)
  <2>0. UNCHANGED editor /\ World' = World
    BY <1>0, <1>2, SameWorld DEF Untouched
  <2>1. Typed'
    BY <1>0, <1>1, <2>0 DEF IInv, Typed, Untouched
  <2>2. Current'
    <3>1. \A u \in Tabs : \A q \in probes'[u] :
             q.current => editor'[u].open /\ editor'[u].rule = q.rule
      BY <1>1, <2>0 DEF IInv, Current
    <3> QED BY <1>0, <2>0, <3>1 DEF IInv, Current
  <2>4. Holder'
    BY <1>0, StillHeld DEF IInv, Untouched
  <2>3. Sound => ProbesFit(World)'
    BY <1>1, <2>0 DEF Sound, ProbesFit
  <2> QED BY <1>0, <2>0, <2>1, <2>2, <2>3, <2>4, TabStep, StillFits DEF Sound
<1>3. CASE p.current /\ e.open
  <2>0. e \in OpenEditors /\ e.rule = p.rule /\ p.rule \in RuleIds
    BY <1>3, EditorAt DEF IInv, Current, Typed, ProbeType
  <2>1. editor' = [editor EXCEPT ![t] = d]
    <3>1. editor' = [editor EXCEPT ![t].load = x, ![t].health = h]
      BY <1>0, <1>3
    <3> QED BY <3>1 DEF IInv, Typed
  <2>2. \A w : /\ d \in OpenEditors /\ d.rule = e.rule /\ d.seen = e.seen
               /\ EditorFits(e, w) /\ (x = "ready" => Fits(e.seen, e.rule, h, w))
                     => EditorFits(d, w)
    <3>1. e.rule # NoRule /\ x \in {"loading", "ready", "error"}
      BY <2>0, IdsAssumption
    <3>2. d = [e EXCEPT !.load = x, !.health = h]
      OBVIOUS
    <3> HIDE DEF d, e
    <3>3. ASSUME NEW w
          PROVE  /\ d \in OpenEditors /\ d.rule = e.rule /\ d.seen = e.seen
                 /\ EditorFits(e, w) /\ (x = "ready" => Fits(e.seen, e.rule, h, w))
                       => EditorFits(d, w)
      BY <2>0, <3>1, <3>2 DEF OpenEditors, EditorFits
    <3> QED BY <3>3
  <2> HIDE DEF d
  <2>3. Sound => EditorFits(d, World)
    <3>1. Sound => EditorFits(e, World) /\ ProbeFits(e, p, World)
      BY <1>3 DEF Sound, EditorsFit, ProbesFit
    <3>2. Sound => (x = "ready" => Fits(e.seen, e.rule, h, World))
      BY <1>3, <2>0, <3>1 DEF ProbeFits
    <3> QED BY <2>2, <3>1, <3>2
  <2> QED BY <1>0, <1>1, <1>3, <2>1, <2>2, <2>3, EditorGoesOn
<1> QED BY <1>2, <1>3

LEMMA HealthArrivesPreserves ==
  ASSUME IInv, NEW t \in Tabs, NEW p \in probes[t], HealthArrives(t, p)
  PROVE  IInv'
<1>1. p.health \in Nat
  BY DEF IInv, Typed, ProbeType
<1> QED BY <1>1, LoadEndsPreserves DEF HealthArrives

LEMMA HealthFailsPreserves ==
  ASSUME IInv, NEW t \in Tabs, NEW p \in probes[t], HealthFails(t, p)
  PROVE  IInv'
  BY LoadEndsPreserves DEF HealthFails

LEMMA SaveRulePreserves ==
  ASSUME IInv, NEW t \in Tabs, NEW s \in Slots, NEW changes \in {{"body"}, {"health"}},
         SaveRule(t, s, changes)
  PROVE  IInv'
<1> DEFINE e == editor[t]
           d == [e EXCEPT !.saving = TRUE]
           kind == IF e.rule = NoRule THEN "new" ELSE "rule"
<1>0. /\ Untouched /\ UNCHANGED <<page, dialog, probes>> /\ UNCHANGED <<busy, site>>
      /\ e.open /\ e.load = "ready"
      /\ editor' = [editor EXCEPT ![t] = d]
      /\ Send(s, t, kind, e.rule, e.expected, e.seen, e.health, changes)
  BY DEF SaveRule, Untouched, server
<1>1. e \in OpenEditors
  BY <1>0, EditorAt DEF IInv
<1>2. /\ e.rule \in RuleIds \cup {NoRule} /\ e.expected \in Nat /\ e.seen \in SiteType
      /\ e.health \in Nat
      /\ e.rule = NoRule => e.health = 0
  BY <1>1 DEF OpenEditors
<1>3. kind \in Kinds /\ (kind \in RuleKinds <=> e.rule # NoRule)
      /\ (kind = "new" <=> e.rule = NoRule)
  BY DEF Kinds, RuleKinds
<1>4. \A w : /\ d \in OpenEditors /\ d.open /\ d.rule = e.rule /\ d.seen = e.seen
             /\ EditorFits(e, w) => EditorFits(d, w)
  <2> SUFFICES ASSUME NEW w
               PROVE  /\ d \in OpenEditors /\ d.open /\ d.rule = e.rule /\ d.seen = e.seen
                      /\ EditorFits(e, w) => EditorFits(d, w)
    OBVIOUS
  <2>1. d = [e EXCEPT !.saving = TRUE]
    OBVIOUS
  <2> HIDE DEF d, e
  <2> QED BY <1>1, <2>1, EditorSaves
<1>5. changes \in SUBSET {"body", "health"}
  OBVIOUS
<1> HIDE DEF d, e, kind
<1>12. PICK r \in RuleIds \cup {NoRule} : r = e.rule
  BY <1>2
<1>14. PICK x \in Nat : x = e.expected
  BY <1>2
<1>15. PICK v \in SiteType : v = e.seen
  BY <1>2
<1>16. PICK h \in Nat : h = e.health
  BY <1>2
<1>17. PICK k \in Kinds : k = kind
  BY <1>3
<1>13. Send(s, t, k, r, x, v, h, changes) /\ (k \in RuleKinds <=> r # NoRule)
  BY <1>0, <1>3, <1>12, <1>14, <1>15, <1>16, <1>17
<1>6. /\ call' \in [Slots -> {Free} \cup CallType] /\ Holder'
      /\ \A q \in Slots \ {s} : call'[q] = call[q]
      /\ call'[s].tab = t /\ call'[s].kind = k
      /\ \A w : /\ Known(v, w)
                /\ r = NoRule => x = v.rev
                /\ k = "new" => h = 0
                /\ r # NoRule => Has(v, r) /\ x = v.rules[r].rev
                /\ k = "rule" => Fits(v, r, h, w)
                => CallFits(call'[s], w)
  BY <1>0, <1>5, <1>13, Sent DEF IInv
<1>7. /\ editor'[t] = d /\ \A u \in Tabs \ {t} : editor'[u] = editor[u]
      /\ editor' \in [Tabs -> {NoEditor} \cup OpenEditors]
  BY <1>0, <1>4 DEF IInv, Typed
<1>8. Typed'
  BY <1>0, <1>6, <1>7 DEF IInv, Typed, Untouched
<1>9. Current'
  <2>1. ASSUME NEW q \in Slots, call'[q] # Free, call'[q].current,
               call'[q].kind \in {"rule", "new"}
        PROVE  editor'[call'[q].tab].open
    <3>1. CASE q = s
      BY <1>4, <1>6, <1>7, <3>1
    <3>2. CASE q # s
      <4>1. call[q].tab \in Tabs /\ call'[q] = call[q]
        BY <1>6, <2>1, <3>2, CallAt DEF IInv, CallType
      <4> QED BY <1>4, <1>7, <2>1, <4>1 DEF IInv, Current
    <3> QED BY <3>1, <3>2
  <2>2. ASSUME NEW u \in Tabs, NEW p \in probes'[u], p.current
        PROVE  editor'[u].open /\ editor'[u].rule = p.rule
    BY <1>0, <1>4, <1>7, <2>2 DEF IInv, Current, e
  <2> QED BY <2>1, <2>2 DEF Current
<1>10. World' = World
  BY <1>0, SameWorld DEF Untouched
<1>11. ASSUME Sound PROVE EditorsFit(World)' /\ ProbesFit(World)' /\ CallsFit(World)'
  <2>1. EditorFits(e, World)
    BY <1>0, <1>11 DEF Sound, EditorsFit, e
  <2>2. EditorsFit(World)'
    BY <1>4, <1>7, <1>10, <1>11, <2>1 DEF Sound, EditorsFit
  <2>3. ProbesFit(World)'
    <3> SUFFICES ASSUME NEW u \in Tabs, NEW p \in probes[u]
                 PROVE  ProbeFits(editor'[u], p, World)
      BY <1>0, <1>10 DEF ProbesFit
    <3>1. ProbeFits(editor[u], p, World)
      BY <1>11 DEF Sound, ProbesFit
    <3>2. editor'[u].seen = editor[u].seen
      BY <1>4, <1>7 DEF e
    <3> QED BY <3>1, <3>2 DEF ProbeFits
  <2>4. CallFits(call'[s], World)
    <3>1. /\ Known(v, World)
          /\ r = NoRule => x = v.rev
          /\ r # NoRule => Has(v, r) /\ x = v.rules[r].rev /\ Fits(v, r, h, World)
      BY <1>0, <1>12, <1>14, <1>15, <1>16, <2>1 DEF EditorFits, e
    <3>2. (k = "new" => h = 0) /\ (k = "rule" => r # NoRule)
      BY <1>2, <1>3, <1>12, <1>16, <1>17 DEF RuleKinds
    <3> QED BY <1>6, <3>1, <3>2
  <2>5. CallsFit(World)'
    BY <1>6, <1>10, <1>11, <2>4 DEF Sound, CallsFit
  <2> QED BY <2>2, <2>3, <2>5
<1> QED BY <1>0, <1>6, <1>8, <1>9, <1>10, <1>11, TabStep, StillFits DEF Sound

-----------------------------------------------------------------------------
(* Answers                                                                 *)

\* Calls that are left as they are, given up or gone.
Fewer(calls) ==
    /\ calls \in [Slots -> {Free} \cup CallType]
    /\ \A s \in Slots : calls[s] # Free =>
          /\ call[s] # Free /\ (calls[s].current => call[s].current)
          /\ calls[s].tab = call[s].tab /\ calls[s].kind = call[s].kind
          /\ \A w : CallFits(call[s], w) => CallFits(calls[s], w)
    /\ \A s \in Slots : call[s] # Free /\ call[s].res = "reloading" =>
          calls[s] # Free /\ calls[s].res = "reloading" /\ calls[s].kind = call[s].kind

LEMMA SlotFreed ==
  ASSUME Typed, NEW s \in Slots, call[s].res # "reloading"
  PROVE  Fewer([call EXCEPT ![s] = Free])
  BY DEF Typed, Fewer

LEMMA SlotLeft ==
  ASSUME Typed, NEW s \in Slots, call[s] # Free
  PROVE  Fewer([call EXCEPT ![s].waiting = FALSE])
<1> DEFINE d == [call[s] EXCEPT !.waiting = FALSE]
           f == [call EXCEPT ![s] = d]
<1>1. call[s] \in CallType
  BY CallAt
<1>2. \A w : /\ d \in CallType
             /\ d.res = call[s].res /\ d.kind = call[s].kind /\ d.tab = call[s].tab
             /\ d.current = call[s].current
             /\ CallFits(call[s], w) => CallFits(d, w)
  BY <1>1, CallIsLeft
<1>3. f = [call EXCEPT ![s].waiting = FALSE]
  OBVIOUS
<1> HIDE DEF d
<1>4. f[s] = d /\ \A q \in Slots \ {s} : f[q] = call[q]
  BY DEF Typed
<1>5. f \in [Slots -> {Free} \cup CallType]
  BY <1>2 DEF Typed
<1> HIDE DEF f
<1>6. d # Free
  BY <1>2, FreeIsNoCall
<1>7. Fewer(f)
  BY <1>2, <1>4, <1>5, <1>6 DEF Fewer
<1> QED BY <1>3, <1>7

LEMMA OutdatedFewer ==
  ASSUME NEW t \in Tabs, NEW calls, Fewer(calls), NEW f, f = Outdated(t, calls)
  PROVE  /\ Fewer(f)
         /\ \A q \in Slots : f[q] # Free /\ f[q].current => f[q].tab # t
<1>1. calls \in [Slots -> {Free} \cup CallType]
  BY DEF Fewer
<1>2. /\ f \in [Slots -> {Free} \cup CallType]
      /\ \A q \in Slots :
            /\ f[q] # Free <=> calls[q] # Free
            /\ calls[q] # Free =>
                  /\ f[q].res = calls[q].res /\ f[q].kind = calls[q].kind
                  /\ f[q].tab = calls[q].tab
                  /\ f[q].current => calls[q].current /\ calls[q].tab # t
                  /\ \A w : CallFits(calls[q], w) => CallFits(f[q], w)
  BY <1>1, OutdatedCalls
<1> QED BY <1>2 DEF Fewer

LEMMA FewerHeld ==
  ASSUME Typed, Holder, Fewer(call'), UNCHANGED <<busy, site>>
  PROVE  Holder'
  BY DEF Typed, Holder, Fewer

LEMMA ForgottenPreserves ==
  ASSUME IInv, NEW s \in Slots, Forgotten(s)
  PROVE  IInv'
<1>0. /\ Untouched /\ UNCHANGED <<page, dialog, editor, probes>> /\ UNCHANGED <<busy, site>>
      /\ call' = [call EXCEPT ![s] = Free] /\ call[s].res # "reloading"
  BY DEF Forgotten, Untouched, server, tabs, history
<1>1. Fewer(call')
  BY <1>0, SlotFreed DEF IInv
<1>2. Typed'
  BY <1>0, <1>1 DEF IInv, Typed, Untouched, Fewer
<1>3. Current' /\ Holder'
  BY <1>0, <1>1, FewerHeld DEF IInv, Current, Fewer
<1>4. World' = World
  BY <1>0, SameWorld DEF Untouched
<1>5. Sound => CallsFit(World)'
  BY <1>1, <1>4 DEF Sound, CallsFit, Fewer
<1> QED BY <1>0, <1>2, <1>3, <1>4, <1>5, TabStep, StillFits DEF Sound

LEMMA ToldTabPreserves ==
  ASSUME IInv, NEW s \in Slots, call[s] # Free, NEW ok \in BOOLEAN, NEW calls,
         Fewer(calls), Told(s, ok, calls)
  PROVE  IInv'
<1> DEFINE c == call[s]
           t == c.tab
           e == editor[t]
           mine == c.kind \in {"rule", "new"} /\ EditorCounts(c) /\ e.open
           d == IF ok THEN NoDialog ELSE [dialog[t] EXCEPT !.saving = FALSE]
<1>0. /\ Untouched /\ UNCHANGED page /\ UNCHANGED <<busy, site>>
      /\ dialog' = IF c.kind # "site" THEN dialog ELSE [dialog EXCEPT ![t] = d]
      /\ editor' = IF ~mine THEN editor
                   ELSE [editor EXCEPT ![t] = IF ok THEN NoEditor
                                              ELSE [@ EXCEPT !.saving = FALSE]]
      /\ call' = IF mine /\ ok THEN Outdated(t, calls) ELSE calls
      /\ probes' = IF mine /\ ok THEN [probes EXCEPT ![t] = OutdatedProbes(t)] ELSE probes
  BY DEF Told, Untouched, server, history
<1>1. t \in Tabs
  BY CallAt DEF IInv, CallType
<1> HIDE DEF t
<1>2. World' = World
  BY <1>0, SameWorld DEF Untouched
<1>3. /\ dialog' \in [Tabs -> DialogType]
      /\ Sound => DialogsFit(World)'
  <2>1. d \in DialogType /\ (d.open => dialog[t].open /\ d.seen = dialog[t].seen)
    BY ZenonT(60), <1>1 DEF IInv, Typed, DialogType, NoDialog
  <2> HIDE DEF d
  <2>2. dialog' \in [Tabs -> DialogType]
    BY <1>0, <1>1, <2>1 DEF IInv, Typed
  <2>3. \A u \in Tabs : dialog'[u].open => dialog[u].open /\ dialog'[u].seen = dialog[u].seen
    BY <1>0, <1>1, <2>1 DEF IInv, Typed
  <2> QED BY <1>2, <2>2, <2>3 DEF Sound, DialogsFit
<1> HIDE DEF d
<1>4. CASE ~mine
  <2>0. UNCHANGED <<editor, probes>> /\ call' = calls
    BY <1>0, <1>4
  <2>1. Typed'
    BY <1>0, <1>3, <2>0 DEF IInv, Typed, Untouched, Fewer
  <2>2. Current' /\ Holder'
    BY <1>0, <2>0, FewerHeld DEF IInv, Current, Fewer
  <2>3. Sound => CallsFit(World)'
    BY <1>2, <2>0 DEF Sound, CallsFit, Fewer
  <2> QED BY <1>0, <1>2, <1>3, <2>0, <2>1, <2>2, <2>3, TabStep, StillFits DEF Sound
<1>5. CASE mine /\ ~ok
  <2> DEFINE x == [e EXCEPT !.saving = FALSE]
  <2>0. UNCHANGED probes /\ call' = calls /\ editor' = [editor EXCEPT ![t] = x] /\ e.open
    BY <1>0, <1>5
  <2>1. e \in OpenEditors
    BY <1>1, <2>0, EditorAt DEF IInv
  <2>2. \A w : /\ x \in OpenEditors /\ x.open /\ x.rule = e.rule /\ x.seen = e.seen
               /\ EditorFits(e, w) => EditorFits(x, w)
    <3>1. FALSE \in BOOLEAN /\ x = [e EXCEPT !.saving = FALSE]
      OBVIOUS
    <3> HIDE DEF x, e
    <3> QED BY <2>1, <3>1, EditorSaves
  <2> HIDE DEF x
  <2>3. /\ editor'[t] = x /\ \A u \in Tabs \ {t} : editor'[u] = editor[u]
        /\ editor' \in [Tabs -> {NoEditor} \cup OpenEditors]
    BY <1>1, <2>0, <2>2 DEF IInv, Typed
  <2>4. Typed'
    BY <1>0, <1>3, <2>0, <2>3 DEF IInv, Typed, Untouched, Fewer
  <2>5. Current'
    <3>1. \A u \in Tabs : editor'[u].open = editor[u].open /\ editor'[u].rule = editor[u].rule
      <4>1. x.open = e.open
        BY <2>1, <2>2 DEF OpenEditors
      <4> QED BY <2>2, <2>3, <4>1
    <3>2. \A q \in Slots : call'[q] # Free => call'[q].tab \in Tabs
      BY <2>0, CallAt DEF IInv, CallType, Fewer
    <3> QED BY <2>0, <3>1, <3>2 DEF IInv, Current, Fewer
  <2>6. Holder'
    BY <1>0, <2>0, FewerHeld DEF IInv
  <2>7. ASSUME Sound PROVE EditorsFit(World)' /\ ProbesFit(World)' /\ CallsFit(World)'
    <3>1. EditorsFit(World)'
      BY <1>1, <1>2, <2>0, <2>2, <2>3, <2>7 DEF Sound, EditorsFit
    <3>2. ProbesFit(World)'
      <4>1. \A u \in Tabs : editor'[u].seen = editor[u].seen
        BY <2>2, <2>3
      <4> QED BY <1>2, <2>0, <2>7, <4>1 DEF Sound, ProbesFit, ProbeFits
    <3>3. CallsFit(World)'
      BY <1>2, <2>0, <2>7 DEF Sound, CallsFit, Fewer
    <3> QED BY <3>1, <3>2, <3>3
  <2> QED BY <1>0, <1>2, <1>3, <2>4, <2>5, <2>6, <2>7, TabStep, StillFits DEF Sound
<1>6. CASE mine /\ ok
  <2>0. /\ call' = Outdated(t, calls) /\ editor' = [editor EXCEPT ![t] = NoEditor]
        /\ probes' = [probes EXCEPT ![t] = OutdatedProbes(t)]
    BY <1>0, <1>6
  <2>1. /\ Fewer(call')
        /\ \A q \in Slots : call'[q] # Free /\ call'[q].current => call'[q].tab # t
    BY <1>1, <2>0, OutdatedFewer
  <2>2. /\ editor'[t] = NoEditor /\ \A u \in Tabs \ {t} : editor'[u] = editor[u]
        /\ editor' \in [Tabs -> {NoEditor} \cup OpenEditors]
    BY <1>1, <2>0 DEF IInv, Typed
  <2>3. OutdatedProbes(t) \subseteq ProbeType /\ \A p \in OutdatedProbes(t) : ~p.current
    BY <1>1, OutdatedProbesFacts DEF IInv
  <2>4. /\ probes'[t] = OutdatedProbes(t) /\ \A u \in Tabs \ {t} : probes'[u] = probes[u]
        /\ probes' \in [Tabs -> SUBSET ProbeType]
    BY <1>1, <2>0, <2>3 DEF IInv, Typed
  <2>5. Typed'
    BY <1>0, <1>3, <2>1, <2>2, <2>4 DEF IInv, Typed, Untouched, Fewer
  <2>6. Holder'
    BY <1>0, <2>1, FewerHeld DEF IInv
  <2>7. Current'
    <3>1. ASSUME NEW q \in Slots, call'[q] # Free, call'[q].current,
                 call'[q].kind \in {"rule", "new"}
          PROVE  editor'[call'[q].tab].open
      <4>1. /\ call[q] # Free /\ call[q].current /\ call[q].kind = call'[q].kind
            /\ call[q].tab = call'[q].tab /\ call'[q].tab # t
        BY <2>1, <3>1 DEF Fewer
      <4>2. call[q].tab \in Tabs
        BY <4>1, CallAt DEF IInv, CallType
      <4> QED BY <2>2, <3>1, <4>1, <4>2 DEF IInv, Current
    <3>2. ASSUME NEW u \in Tabs, NEW p \in probes'[u], p.current
          PROVE  editor'[u].open /\ editor'[u].rule = p.rule
      BY <2>2, <2>3, <2>4, <3>2 DEF IInv, Current
    <3> QED BY <3>1, <3>2 DEF Current
  <2>8. ASSUME Sound PROVE EditorsFit(World)' /\ ProbesFit(World)' /\ CallsFit(World)'
    <3>1. EditorsFit(World)'
      BY <1>2, <2>2, <2>8, NoEditorIsClosed DEF Sound, EditorsFit
    <3>2. ProbesFit(World)'
      BY <1>2, <2>2, <2>3, <2>4, <2>8 DEF Sound, ProbesFit, ProbeFits
    <3>3. CallsFit(World)'
      BY <1>2, <2>1, <2>8 DEF Sound, CallsFit, Fewer
    <3> QED BY <3>1, <3>2, <3>3
  <2> QED BY <1>0, <1>2, <1>3, <2>5, <2>6, <2>7, <2>8, TabStep, StillFits DEF Sound
<1> QED BY <1>4, <1>5, <1>6

LEMMA AnsweredPreserves ==
  ASSUME IInv, NEW s \in Slots, Answered(s)
  PROVE  IInv'
<1>1. call[s] # Free /\ call[s].res # "reloading"
  BY DEF Answered, Free
<1>2. Fewer([call EXCEPT ![s] = Free])
  BY <1>1, SlotFreed DEF IInv
<1>3. (call[s].res = "ok") \in BOOLEAN
  OBVIOUS
<1> QED BY <1>1, <1>2, <1>3, ToldTabPreserves DEF Answered

LEMMA GiveUpPreserves ==
  ASSUME IInv, NEW s \in Slots, GiveUp(s)
  PROVE  IInv'
<1>1. call[s] # Free
  BY DEF GiveUp
<1>2. Fewer([call EXCEPT ![s].waiting = FALSE])
  BY <1>1, SlotLeft DEF IInv
<1> QED BY <1>1, <1>2, ToldTabPreserves DEF GiveUp

-----------------------------------------------------------------------------
LEMMA StutterPreserves ==
  ASSUME IInv, UNCHANGED vars
  PROVE  IInv'
<1>0. /\ Untouched /\ UNCHANGED <<page, dialog, editor, probes, call>>
  BY DEF vars, Untouched
<1>1. Typed' /\ Current'
  BY <1>0 DEF IInv, Typed, Current, Untouched
<1>2. Holder'
  BY <1>0, StillHeld DEF IInv, Untouched
<1>3. World' = World
  BY <1>0, SameWorld DEF Untouched
<1> QED BY <1>0, <1>1, <1>2, <1>3, TabStep, StillFits DEF Sound

LEMMA InitSound ==
  ASSUME Init
  PROVE  IInv
<1> USE DEF Init
<1>1. FirstSite \in SiteType
  BY DEF FirstSite, SiteType, NoBody
<1>2. FirstHealth \in HealthType
  BY DEF FirstHealth, HealthType
<1>3. NoDialog \in DialogType /\ ~NoDialog.open /\ ~NoEditor.open
  BY DEF NoDialog, DialogType, NoEditor
<1>4. Typed
  BY <1>1, <1>2, <1>3, IdsAssumption DEF Typed
<1>5. Current /\ Holder /\ EditsAreInformed
  BY DEF Current, Holder, EditsAreInformed
<1>6. \A r \in RuleIds : Has(FirstSite, r) => r \in FirstRules
  BY DEF Has, FirstSite, NoBody
<1>7. Ground(World)
  <2>1. FirstSite.ver = 1
    BY DEF FirstSite
  <2>2. /\ World.site = FirstSite /\ World.prior.site = FirstSite
        /\ World.health = FirstHealth /\ World.prior.health = FirstHealth
        /\ ~World.busy /\ World.edits = 1 /\ World.used = FirstRules
    BY DEF World
  <2> QED BY <1>6, <2>1, <2>2 DEF Ground
<1>8. Known(FirstSite, World)
  BY <1>6 DEF Known, World
<1>9. Sound
  BY <1>3, <1>7, <1>8 DEF Sound, PagesFit, DialogsFit, EditorsFit, ProbesFit, CallsFit
<1> QED BY <1>4, <1>5, <1>9 DEF IInv

LEMMA NextPreserves ==
  ASSUME IInv, [Next]_vars
  PROVE  IInv'
<1>1. CASE Server
  <2>1. ASSUME NEW s \in Slots,
               Refuse(s) \/ Reject(s) \/ Reloaded(s) \/ UndoFailed(s) \/ RollbackFails(s)
        PROVE  IInv'
    BY <2>1, RefusePreserves, RejectPreserves, ChangeStaysPreserves, UndoFailedPreserves
       DEF Reloaded, RollbackFails
  <2>2. ASSUME NEW s \in Slots, NEW id \in RuleIds \cup {NoRule}, Commit(s, id)
        PROVE  IInv'
    BY <2>2, CommitPreserves
  <2>3. ASSUME NEW t \in Tabs, NEW p \in probes[t], ServeHealth(t, p)
        PROVE  IInv'
    BY <2>3, ServeHealthPreserves
  <2> QED BY <1>1, <2>1, <2>2, <2>3 DEF Server
<1>2. ASSUME NEW t \in Tabs, Tab(t)
      PROVE  IInv'
  <2>1. ASSUME \/ Load(t) \/ OpenSite(t) \/ CloseSite(t) \/ OpenNewRule(t)
               \/ CloseRule(t) \/ RetryHealth(t)
        PROVE  IInv'
    BY <2>1, LoadPreserves, OpenSitePreserves, CloseSitePreserves, OpenNewRulePreserves,
       CloseRulePreserves, RetryHealthPreserves
  <2>2. ASSUME NEW r \in RuleIds, OpenRule(t, r)
        PROVE  IInv'
    BY <2>2, OpenRulePreserves
  <2>3. ASSUME NEW p \in probes[t], HealthArrives(t, p) \/ HealthFails(t, p)
        PROVE  IInv'
    BY <2>3, HealthArrivesPreserves, HealthFailsPreserves
  <2>4. ASSUME NEW s \in Slots,
               \/ SaveSite(t, s)
               \/ \E kind \in {"flip", "drop", "order"} : ClickSite(t, s, kind)
               \/ \E kind \in {"toggle", "delete"}, r \in RuleIds : ClickRule(t, s, kind, r)
               \/ \E changes \in {{"body"}, {"health"}} : SaveRule(t, s, changes)
        PROVE  IInv'
    BY <2>4, SaveSitePreserves, ClickSitePreserves, ClickRulePreserves, SaveRulePreserves
  <2> QED BY <1>2, <2>1, <2>2, <2>3, <2>4 DEF Tab
<1>3. ASSUME NEW s \in Slots, Answered(s) \/ GiveUp(s) \/ Forgotten(s)
      PROVE  IInv'
  BY <1>3, AnsweredPreserves, GiveUpPreserves, ForgottenPreserves
<1>4. CASE UNCHANGED vars
  BY <1>4, StutterPreserves
<1> QED BY <1>1, <1>2, <1>3, <1>4 DEF Next

\* However many tabs edit the site, in whatever order their requests reach the
\* server, are answered, given up and sent again, and however many reloads fail:
\* the first change that overwrites what its editor was not shown comes from an
\* editor that was filled from a version taken back (checkRevision, bumpSite and
\* the revisions in internal/webproxy/api.go, RuleEditor.vue, SiteDialog.vue).
THEOREM EveryEditIsInformed == Spec => []EditsAreInformed
<1>1. Init => IInv
  BY InitSound
<1>2. IInv /\ [Next]_vars => IInv'
  BY NextPreserves
<1>3. IInv => EditsAreInformed
  BY DEF IInv
<1> QED BY <1>1, <1>2, <1>3, PTL DEF Spec

-----------------------------------------------------------------------------
(* One opening of the rule editor                                          *)

\* Call s was sent from the editor that is open in its tab.
FromOpen(s) == call[s] # Free /\ call[s].current /\ call[s].kind \in {"rule", "new"}

\* Changes sent from the editor that is open in tab t and made, as far as
\* anybody still knows.
Landed(t) == {s \in Slots : /\ FromOpen(s) /\ call[s].tab = t
                            /\ call[s].res \in {"reloading", "ok"}}

\* Such a change is for the rule of the editor, at its revision.
Matched ==
    \A s \in Slots : FromOpen(s) =>
        /\ call[s].rule = editor[call[s].tab].rule
        /\ call[s].expected = editor[call[s].tab].expected

LandedCount ==
    \A t \in Tabs : editor[t].open =>
        IsFiniteSet(Landed(t)) /\ Cardinality(Landed(t)) <= editor[t].applied

\* Version v of the site refuses what editor e sends.
Spent(e, v) ==
    IF e.rule = NoRule THEN e.expected < v.rev
    ELSE Has(v, e.rule) => e.expected < v.rules[e.rule].rev

\* An editor whose change was made is spent, and stays so when the change of
\* somebody else is taken back.
Once ==
    \A t \in Tabs : editor[t].open =>
        /\ editor[t].applied <= 1
        /\ editor[t].applied = 1 /\ site.live =>
              /\ Spent(editor[t], site)
              /\ busy \notin Landed(t) => Spent(editor[t], prior.site)

OpeningInv ==
    /\ blind \subseteq {"plain", "undone"}
    /\ Matched
    /\ LandedCount
    /\ blind = {} => Once

-----------------------------------------------------------------------------
(* What a step does to the open editors and their calls                    *)

SameEditor(t) ==
    /\ editor[t].open /\ editor'[t].open
    /\ editor'[t].rule = editor[t].rule /\ editor'[t].expected = editor[t].expected

\* Call s is the one it was, perhaps further on.
Stems(s) ==
    /\ FromOpen(s)
    /\ call'[s].tab = call[s].tab
    /\ call'[s].rule = call[s].rule /\ call'[s].expected = call[s].expected

LEMMA SameSpent ==
  ASSUME NEW t \in Tabs, SameEditor(t), NEW v, Spent(editor[t], v)
  PROVE  Spent(editor'[t], v)
  BY DEF SameEditor, Spent

LEMMA OpenCallAt ==
  ASSUME IInv, NEW s \in Slots, FromOpen(s)
  PROVE  call[s] \in CallType /\ call[s].tab \in Tabs /\ editor[call[s].tab].open
<1>1. call[s] \in CallType
  BY CallAt DEF IInv, FromOpen
<1> QED BY <1>1 DEF IInv, Current, FromOpen, CallType

LEMMA MatchedStays ==
  ASSUME Matched,
         \A s \in Slots : FromOpen(s)' =>
            \/ Stems(s) /\ SameEditor(call[s].tab)
            \/ /\ call'[s].rule = editor'[call'[s].tab].rule
               /\ call'[s].expected = editor'[call'[s].tab].expected
  PROVE  Matched'
  BY DEF Matched, Stems, SameEditor

\* Most steps make no change and take none back.
LEMMA OpeningStays ==
  ASSUME IInv, IInv', OpeningInv, UNCHANGED <<site, prior, busy, blind>>,
         \A s \in Slots : FromOpen(s)' =>
            \/ /\ Stems(s) /\ SameEditor(call[s].tab)
               /\ call'[s].res \in {"reloading", "ok"} => call[s].res \in {"reloading", "ok"}
            \/ /\ call'[s].res = "sent"
               /\ call'[s].rule = editor'[call'[s].tab].rule
               /\ call'[s].expected = editor'[call'[s].tab].expected,
         \A t \in Tabs : editor'[t].open =>
            IF SameEditor(t) THEN editor'[t].applied = editor[t].applied
            ELSE editor'[t].applied = 0,
         \A t \in Tabs : SameEditor(t) /\ busy \in Landed(t) => busy \in Landed(t)'
  PROVE  OpeningInv'
<1>1. Matched'
  <2>1. \A s \in Slots : FromOpen(s)' =>
            \/ Stems(s) /\ SameEditor(call[s].tab)
            \/ /\ call'[s].rule = editor'[call'[s].tab].rule
               /\ call'[s].expected = editor'[call'[s].tab].expected
    OBVIOUS
  <2> QED BY <2>1, MatchedStays DEF OpeningInv
<1>2. ASSUME NEW t \in Tabs, SameEditor(t)
      PROVE  Landed(t)' \subseteq Landed(t)
  <2> SUFFICES ASSUME NEW s \in Landed(t)' PROVE s \in Landed(t)
    OBVIOUS
  <2>1. /\ s \in Slots /\ FromOpen(s)' /\ call'[s].tab = t
        /\ call'[s].res \in {"reloading", "ok"}
    BY DEF Landed
  <2>2. Stems(s) /\ call[s].res \in {"reloading", "ok"}
    BY <2>1
  <2> QED BY <2>1, <2>2 DEF Landed, Stems
<1>3. ASSUME NEW t \in Tabs, ~SameEditor(t)
      PROVE  Landed(t)' = {}
  <2> SUFFICES ASSUME NEW s \in Landed(t)' PROVE FALSE
    OBVIOUS
  <2>1. /\ s \in Slots /\ FromOpen(s)' /\ call'[s].tab = t
        /\ call'[s].res \in {"reloading", "ok"}
    BY DEF Landed
  <2>2. Stems(s) /\ SameEditor(call[s].tab)
    BY <2>1
  <2> QED BY <1>3, <2>1, <2>2 DEF Stems
<1>4. LandedCount'
  <2> SUFFICES ASSUME NEW t \in Tabs, editor'[t].open
               PROVE  /\ IsFiniteSet(Landed(t)')
                      /\ Cardinality(Landed(t)') <= editor'[t].applied
    BY DEF LandedCount
  <2>1. CASE SameEditor(t)
    <3>1. IsFiniteSet(Landed(t)) /\ Cardinality(Landed(t)) <= editor[t].applied
      BY <2>1 DEF OpeningInv, LandedCount, SameEditor
    <3>2. /\ IsFiniteSet(Landed(t)')
          /\ Cardinality(Landed(t)') <= Cardinality(Landed(t))
      BY <1>2, <2>1, <3>1, FS_Subset
    <3>3. Cardinality(Landed(t)) \in Nat /\ Cardinality(Landed(t)') \in Nat
      BY <3>1, <3>2, FS_CardinalityType
    <3>4. editor[t].applied \in Int /\ editor'[t].applied = editor[t].applied
      BY <2>1, EditorAt, AppliedIsInt DEF IInv, SameEditor
    <3> QED BY <3>1, <3>2, <3>3, <3>4
  <2>2. CASE ~SameEditor(t)
    <3>1. Landed(t)' = {} /\ editor'[t].applied = 0
      BY <1>3, <2>2
    <3> QED BY <3>1, FS_EmptySet
  <2> QED BY <2>1, <2>2
<1>5. ASSUME blind' = {} PROVE Once'
  <2> SUFFICES ASSUME NEW t \in Tabs, editor'[t].open
               PROVE  /\ editor'[t].applied <= 1
                      /\ editor'[t].applied = 1 /\ site.live =>
                            /\ Spent(editor'[t], site)
                            /\ busy \notin Landed(t)' => Spent(editor'[t], prior.site)
    BY DEF Once
  <2>1. CASE SameEditor(t)
    <3>1. /\ editor[t].applied <= 1
          /\ editor[t].applied = 1 /\ site.live =>
                /\ Spent(editor[t], site)
                /\ busy \notin Landed(t) => Spent(editor[t], prior.site)
      BY <1>5, <2>1 DEF OpeningInv, Once, SameEditor
    <3>2. editor'[t].applied = editor[t].applied
      BY <2>1
    <3>3. busy \notin Landed(t)' => busy \notin Landed(t)
      BY <2>1
    <3> QED BY <2>1, <3>1, <3>2, <3>3, SameSpent
  <2>2. CASE ~SameEditor(t)
    BY <2>2
  <2> QED BY <2>1, <2>2
<1> QED BY <1>1, <1>4, <1>5 DEF OpeningInv

\* A step that leaves the calls alone, or those of the rule editors.
LEMMA EditorsGoOn ==
  ASSUME IInv, IInv', OpeningInv, UNCHANGED <<site, prior, busy, blind>>,
         \A s \in Slots : call'[s] = call[s] \/ (call[s] = Free /\ ~FromOpen(s)'),
         \A t \in Tabs : /\ editor'[t].open = editor[t].open
                         /\ editor[t].open => SameEditor(t) /\ editor'[t].applied = editor[t].applied
  PROVE  OpeningInv'
<1>1. ASSUME NEW s \in Slots, FromOpen(s)'
      PROVE  /\ Stems(s) /\ SameEditor(call[s].tab)
             /\ call'[s].res = call[s].res
  <2>1. call'[s] = call[s] /\ FromOpen(s)
    BY <1>1 DEF FromOpen
  <2>2. call[s].tab \in Tabs /\ editor[call[s].tab].open
    BY <2>1, OpenCallAt
  <2> QED BY <2>1, <2>2 DEF Stems
<1>2. ASSUME NEW t \in Tabs, busy \in Landed(t) PROVE busy \in Landed(t)'
  <2>1. busy \in Slots /\ FromOpen(busy)
    BY <1>2 DEF Landed
  <2>2. call'[busy] = call[busy]
    BY <2>1 DEF FromOpen
  <2> QED BY <1>2, <2>2 DEF Landed, FromOpen
<1> QED BY <1>1, <1>2, OpeningStays

\* How far a call got says nothing about where it was sent from.
LEMMA ResChanges ==
  ASSUME Typed, NEW s \in Slots, call[s] # Free, NEW x \in Results,
         call' = [call EXCEPT ![s].res = x]
  PROVE  /\ call'[s].res = x /\ FromOpen(s)' = FromOpen(s)
         /\ call'[s].tab = call[s].tab /\ call'[s].rule = call[s].rule
         /\ call'[s].expected = call[s].expected
         /\ \A q \in Slots \ {s} : call'[q] = call[q]
<1>1. call[s] \in CallType
  BY CallAt
<1> DEFINE d == [call[s] EXCEPT !.res = x]
<1>2. /\ d \in CallType
      /\ d.res = x /\ d.tab = call[s].tab /\ d.rule = call[s].rule
      /\ d.expected = call[s].expected /\ d.current = call[s].current
      /\ d.kind = call[s].kind
  BY <1>1 DEF CallType
<1>3. call' = [call EXCEPT ![s] = d]
  OBVIOUS
<1> HIDE DEF d
<1>4. call'[s] = d /\ \A q \in Slots \ {s} : call'[q] = call[q]
  BY <1>3 DEF Typed
<1>5. d # Free
  BY <1>2, FreeIsNoCall
<1> QED BY <1>2, <1>4, <1>5 DEF FromOpen

LEMMA StillOpen ==
  ASSUME IInv, UNCHANGED editor, NEW s \in Slots, FromOpen(s)
  PROVE  SameEditor(call[s].tab)
  BY OpenCallAt DEF SameEditor

\* A change is refused, or fails before it is written.
LEMMA ToldKeepsOpening ==
  ASSUME IInv, IInv', OpeningInv, NEW s \in Slots, NEW x \in Results \ {"reloading", "ok"},
         busy = NoSlot, call[s] # Free, call' = [call EXCEPT ![s].res = x],
         UNCHANGED <<server, tabs, history>>
  PROVE  OpeningInv'
<1>0. UNCHANGED <<site, prior, busy, blind, editor>>
  BY DEF server, tabs, history
<1>1. /\ call'[s].res = x /\ FromOpen(s)' = FromOpen(s)
      /\ call'[s].tab = call[s].tab /\ call'[s].rule = call[s].rule
      /\ call'[s].expected = call[s].expected
      /\ \A q \in Slots \ {s} : call'[q] = call[q]
  BY ResChanges DEF IInv
<1>2. ASSUME NEW q \in Slots, FromOpen(q)'
      PROVE  /\ Stems(q) /\ SameEditor(call[q].tab)
             /\ call'[q].res \in {"reloading", "ok"} => call[q].res \in {"reloading", "ok"}
  <2>1. CASE q = s
    BY <1>0, <1>1, <1>2, <2>1, StillOpen DEF Stems
  <2>2. CASE q # s
    <3>1. call'[q] = call[q] /\ FromOpen(q)
      BY <1>1, <1>2, <2>2 DEF FromOpen
    <3> QED BY <1>0, <3>1, StillOpen DEF Stems
  <2> QED BY <2>1, <2>2
<1>3. \A t \in Tabs : busy \notin Landed(t)
  BY IdsAssumption DEF Landed
<1>4. \A t \in Tabs : editor'[t].open => SameEditor(t) /\ editor'[t].applied = editor[t].applied
  BY <1>0 DEF SameEditor
<1> QED BY <1>0, <1>2, <1>3, <1>4, OpeningStays

LEMMA RefuseKeepsOpening ==
  ASSUME IInv, IInv', OpeningInv, NEW s \in Slots, Refuse(s) \/ Reject(s)
  PROVE  OpeningInv'
<1>1. PICK x \in Results \ {"reloading", "ok"} :
         /\ busy = NoSlot /\ call[s].res = "sent"
         /\ call' = [call EXCEPT ![s].res = x]
         /\ UNCHANGED <<server, tabs, history>>
  <2>1. CASE Refuse(s)
    <3>1. Refusal(call[s]) \in Results \ {"reloading", "ok"}
      BY <2>1 DEF Refuse, Refusal, Results
    <3> QED BY <2>1, <3>1 DEF Refuse
  <2>2. CASE Reject(s)
    <3>1. "failed" \in Results \ {"reloading", "ok"}
      BY DEF Results
    <3> QED BY <2>2, <3>1 DEF Reject
  <2> QED BY <2>1, <2>2
<1>2. call[s] # Free
  BY <1>1 DEF Free
<1> QED BY <1>1, <1>2, ToldKeepsOpening

\* A change that stays in force counts for the editor that sent it, also when
\* that editor is told otherwise.
LEMMA ChangeStaysKeepsOpening ==
  ASSUME IInv, IInv', OpeningInv, NEW s \in Slots, NEW x \in {"ok", "failed"}, ChangeStays(s, x)
  PROVE  OpeningInv'
<1>0. /\ busy = s /\ busy' = NoSlot /\ prior' = [site |-> site, health |-> health]
      /\ call' = [call EXCEPT ![s].res = x]
      /\ UNCHANGED <<site, editor, blind>>
  BY DEF ChangeStays, tabs, history
<1>1. call[s] # Free /\ call[s].res = "reloading"
  BY <1>0, IdsAssumption DEF IInv, Holder
<1>2. /\ call'[s].res = x /\ FromOpen(s)' = FromOpen(s)
      /\ call'[s].tab = call[s].tab /\ call'[s].rule = call[s].rule
      /\ call'[s].expected = call[s].expected
      /\ \A q \in Slots \ {s} : call'[q] = call[q]
  BY <1>0, <1>1, ResChanges DEF IInv, Results
<1>3. \A q \in Slots \ {s} : FromOpen(q)' = FromOpen(q)
  BY <1>2 DEF FromOpen
<1>4. Matched'
  <2>1. ASSUME NEW q \in Slots, FromOpen(q)' PROVE Stems(q) /\ SameEditor(call[q].tab)
    <3>1. FromOpen(q)
      BY <1>2, <1>3, <2>1
    <3>2. SameEditor(call[q].tab)
      BY <1>0, <3>1, StillOpen
    <3> QED BY <1>2, <3>1, <3>2 DEF Stems
  <2> QED BY <2>1, MatchedStays DEF OpeningInv
<1>5. \A t \in Tabs : Landed(t)' \subseteq Landed(t)
  <2> SUFFICES ASSUME NEW t \in Tabs, NEW q \in Landed(t)'
               PROVE  q \in Landed(t)
    OBVIOUS
  <2> QED BY <1>1, <1>2, <1>3 DEF Landed
<1>6. LandedCount'
  <2> SUFFICES ASSUME NEW t \in Tabs, editor'[t].open
               PROVE  /\ IsFiniteSet(Landed(t)')
                      /\ Cardinality(Landed(t)') <= editor'[t].applied
    BY DEF LandedCount
  <2>1. IsFiniteSet(Landed(t)) /\ Cardinality(Landed(t)) <= editor[t].applied
    BY <1>0 DEF OpeningInv, LandedCount
  <2>2. IsFiniteSet(Landed(t)') /\ Cardinality(Landed(t)') <= Cardinality(Landed(t))
    BY <1>5, <2>1, FS_Subset
  <2>3. /\ Cardinality(Landed(t)) \in Nat /\ Cardinality(Landed(t)') \in Nat
        /\ editor[t].applied \in Int
    BY <1>0, <2>1, <2>2, FS_CardinalityType, EditorAt, AppliedIsInt DEF IInv
  <2> QED BY <1>0, <2>1, <2>2, <2>3
<1>7. blind' = {} => Once'
  <2>1. prior'.site = site
    BY <1>0
  <2> QED BY <1>0, <2>1 DEF OpeningInv, Once
<1> QED BY <1>0, <1>4, <1>6, <1>7 DEF OpeningInv

\* What Applied does to the editors.
LEMMA AppliedCounts ==
  ASSUME IInv, NEW s \in Slots, call[s] # Free, NEW n \in Int, Applied(call[s], n)
  PROVE  \A t \in Tabs :
            /\ editor'[t].open = editor[t].open
            /\ editor[t].open =>
                  /\ SameEditor(t)
                  /\ editor'[t].applied = IF FromOpen(s) /\ call[s].tab = t
                                          THEN editor[t].applied + n ELSE editor[t].applied
<1>1. CASE ~FromOpen(s)
  <2>1. editor' = editor
    BY <1>1 DEF Applied, FromOpen
  <2> QED BY <1>1, <2>1 DEF SameEditor
<1>2. CASE FromOpen(s)
  <2> SUFFICES ASSUME NEW t \in Tabs
               PROVE  /\ editor'[t].open = editor[t].open
                      /\ editor[t].open =>
                            /\ SameEditor(t)
                            /\ editor'[t].applied = IF call[s].tab = t
                                  THEN editor[t].applied + n ELSE editor[t].applied
    BY <1>2
  <2>1. call[s].tab \in Tabs /\ editor[call[s].tab].open
    BY <1>2, OpenCallAt
  <2>2. editor' = [editor EXCEPT ![call[s].tab].applied = @ + n]
    BY <1>2 DEF Applied, FromOpen
  <2>3. CASE t = call[s].tab
    <3>1. editor[t] \in OpenEditors
      BY <2>1, <2>3, EditorAt DEF IInv
    <3>2. editor'[t] = [editor[t] EXCEPT !.applied = @ + n]
      BY <2>2, <2>3 DEF IInv, Typed
    <3>3. /\ editor'[t].open = editor[t].open /\ editor'[t].rule = editor[t].rule
          /\ editor'[t].expected = editor[t].expected
          /\ editor'[t].applied = editor[t].applied + n
      BY <3>1, <3>2 DEF OpenEditors
    <3> QED BY <2>1, <2>3, <3>3 DEF SameEditor
  <2>4. CASE t # call[s].tab
    <3>1. editor'[t] = editor[t]
      BY <2>1, <2>2, <2>4 DEF IInv, Typed
    <3> QED BY <2>4, <3>1 DEF SameEditor
  <2> QED BY <2>3, <2>4
<1> QED BY <1>1, <1>2

\* What was made is taken back: the editor that sent it may send it again, the
\* others find a site that refuses them as the one before did.
LEMMA UndoFailedKeepsOpening ==
  ASSUME IInv, IInv', OpeningInv, NEW s \in Slots, UndoFailed(s)
  PROVE  OpeningInv'
<1>0. /\ busy = s /\ busy' = NoSlot /\ site' = prior.site /\ UNCHANGED <<prior, blind>>
      /\ call[s].kind # "drop" /\ call' = [call EXCEPT ![s].res = "failed"]
      /\ Applied(call[s], -1)
  BY DEF UndoFailed
<1>1. call[s] # Free /\ call[s].res = "reloading" /\ site.live
  BY <1>0, IdsAssumption DEF IInv, Holder, Typed, SiteType
<1>2. /\ call'[s].res = "failed" /\ FromOpen(s)' = FromOpen(s)
      /\ call'[s].tab = call[s].tab /\ call'[s].rule = call[s].rule
      /\ call'[s].expected = call[s].expected
      /\ \A q \in Slots \ {s} : call'[q] = call[q]
  BY <1>0, <1>1, ResChanges DEF IInv, Results
<1>3. \A q \in Slots \ {s} : FromOpen(q)' = FromOpen(q)
  BY <1>2 DEF FromOpen
<1>4. ASSUME NEW t \in Tabs
      PROVE  /\ editor'[t].open = editor[t].open
             /\ editor[t].open =>
                  /\ SameEditor(t)
                  /\ FromOpen(s) /\ call[s].tab = t => editor'[t].applied = editor[t].applied - 1
                  /\ ~(FromOpen(s) /\ call[s].tab = t) => editor'[t].applied = editor[t].applied
  <2>1. -1 \in Int
    OBVIOUS
  <2>2. /\ editor'[t].open = editor[t].open
        /\ editor[t].open =>
             /\ SameEditor(t)
             /\ editor'[t].applied = IF FromOpen(s) /\ call[s].tab = t
                                     THEN editor[t].applied + (-1) ELSE editor[t].applied
    BY <1>0, <1>1, <2>1, AppliedCounts
  <2>3. editor[t].open => editor[t].applied \in Int
    BY EditorAt, AppliedIsInt DEF IInv
  <2> QED BY <2>2, <2>3
<1>5. Matched'
  <2>1. ASSUME NEW q \in Slots, FromOpen(q)' PROVE Stems(q) /\ SameEditor(call[q].tab)
    <3>1. FromOpen(q)
      BY <1>2, <1>3, <2>1
    <3>2. call[q].tab \in Tabs /\ editor[call[q].tab].open
      BY <3>1, OpenCallAt
    <3> QED BY <1>2, <1>4, <3>1, <3>2 DEF Stems
  <2> QED BY <2>1, MatchedStays DEF OpeningInv
<1>6. \A t \in Tabs : Landed(t)' = Landed(t) \ {s}
  <2> SUFFICES ASSUME NEW t \in Tabs, NEW q \in Slots
               PROVE  q \in Landed(t)' <=> q \in Landed(t) \ {s}
    BY DEF Landed
  <2> QED BY <1>2, <1>3 DEF Landed
<1>7. \A t \in Tabs : s \in Landed(t) <=> FromOpen(s) /\ call[s].tab = t
  BY <1>1 DEF Landed
<1>8. LandedCount'
  <2> SUFFICES ASSUME NEW t \in Tabs, editor'[t].open
               PROVE  /\ IsFiniteSet(Landed(t)')
                      /\ Cardinality(Landed(t)') <= editor'[t].applied
    BY DEF LandedCount
  <2>1. editor[t].open /\ IsFiniteSet(Landed(t)) /\ Cardinality(Landed(t)) <= editor[t].applied
    BY <1>4 DEF OpeningInv, LandedCount
  <2>2. Cardinality(Landed(t)) \in Nat /\ editor[t].applied \in Int
    BY <2>1, FS_CardinalityType, EditorAt, AppliedIsInt DEF IInv
  <2>3. CASE s \in Landed(t)
    <3>1. /\ IsFiniteSet(Landed(t) \ {s})
          /\ Cardinality(Landed(t) \ {s}) = Cardinality(Landed(t)) - 1
      BY <2>1, <2>3, FS_RemoveElement
    <3>2. editor'[t].applied = editor[t].applied - 1
      BY <1>4, <1>7, <2>1, <2>3
    <3>3. /\ IsFiniteSet(Landed(t)')
          /\ Cardinality(Landed(t)') = Cardinality(Landed(t)) - 1
      <4>1. Landed(t)' = Landed(t) \ {s}
        BY <1>6
      <4> QED BY <3>1, <4>1
    <3> QED BY <2>1, <2>2, <3>2, <3>3
  <2>4. CASE s \notin Landed(t)
    <3>1. Landed(t)' = Landed(t)
      BY <1>6, <2>4
    <3>2. editor'[t].applied = editor[t].applied
      BY <1>4, <1>7, <2>1, <2>4
    <3> QED BY <2>1, <3>1, <3>2
  <2> QED BY <2>3, <2>4
<1>9. ASSUME blind' = {} PROVE Once'
  <2> SUFFICES ASSUME NEW t \in Tabs, editor'[t].open
               PROVE  /\ editor'[t].applied <= 1
                      /\ editor'[t].applied = 1 => Spent(editor'[t], prior.site)
    BY <1>0 DEF Once
  <2>1. /\ editor[t].open /\ editor[t].applied <= 1 /\ SameEditor(t)
        /\ editor[t].applied = 1 /\ s \notin Landed(t) => Spent(editor[t], prior.site)
    BY <1>0, <1>1, <1>4, <1>9 DEF OpeningInv, Once
  <2>2. editor[t].applied \in Int
    BY <2>1, EditorAt, AppliedIsInt DEF IInv
  <2>3. CASE s \in Landed(t)
    <3>1. editor'[t].applied = editor[t].applied - 1
      BY <1>4, <1>7, <2>1, <2>3
    <3> QED BY <2>1, <2>2, <3>1
  <2>4. CASE s \notin Landed(t)
    <3>1. editor'[t].applied = editor[t].applied
      BY <1>4, <1>7, <2>1, <2>4
    <3> QED BY <2>1, <2>4, <3>1, SameSpent
  <2> QED BY <2>3, <2>4
<1> QED BY <1>0, <1>5, <1>8, <1>9 DEF OpeningInv

\* An editor that is spent stays so when the site moves on without bringing
\* back a rule.
LEMMA SpentStays ==
  ASSUME NEW e \in OpenEditors, NEW n \in SiteType, NEW c, NEW id, site \in SiteType,
         Follows(n, c, id), e.rule # NoRule /\ Has(n, e.rule) => Has(site, e.rule),
         Spent(e, site)
  PROVE  Spent(e, n)
<1>1. e.expected \in Nat /\ e.rule \in RuleIds \cup {NoRule} /\ site.rev \in Nat
  BY DEF OpenEditors, SiteType
<1>2. CASE e.rule = NoRule
  <2>1. e.expected < site.rev /\ n.rev = site.rev + 1
    BY <1>2 DEF Spent, Follows
  <2> QED BY <1>1, <1>2, <2>1 DEF Spent
<1>3. CASE e.rule # NoRule
  <2> SUFFICES ASSUME Has(n, e.rule) PROVE e.expected < n.rules[e.rule].rev
    BY <1>3 DEF Spent
  <2>1. e.rule \in RuleIds /\ Has(site, e.rule)
    BY <1>1, <1>3
  <2>2. e.expected < site.rules[e.rule].rev
    BY <1>3, <2>1 DEF Spent
  <2>3. n.rules[e.rule] = site.rules[e.rule] \/ site.rules[e.rule].rev < n.rules[e.rule].rev
    BY <2>1 DEF Follows
  <2>4. site.rules[e.rule].rev \in Nat /\ n.rules[e.rule].rev \in Nat
    BY <2>1 DEF SiteType
  <2> QED BY <1>1, <2>2, <2>3, <2>4
<1> QED BY <1>2, <1>3

\* Spent looks at the revisions only.
LEMMA SpentOfRules ==
  ASSUME NEW e, NEW u, NEW v, u.rev = v.rev, u.rules = v.rules
  PROVE  Spent(e, u) <=> Spent(e, v)
  BY DEF Spent, Has

\* The editor whose change is written was not spent and is so afterwards.
LEMMA WriterIsSpent ==
  ASSUME NEW e \in OpenEditors, NEW c \in CallType, NEW n \in SiteType, NEW id,
         site \in SiteType, c.kind \in {"rule", "new"},
         c.rule = e.rule, c.expected = e.expected,
         c.rule # NoRule => Has(site, c.rule) /\ c.expected = site.rules[c.rule].rev,
         c.rule = NoRule => c.expected = site.rev,
         Follows(n, c, id)
  PROVE  ~Spent(e, site) /\ Spent(e, n)
<1>1. e.expected \in Nat /\ e.rule \in RuleIds \cup {NoRule} /\ site.rev \in Nat
  BY DEF OpenEditors, SiteType
<1>2. CASE e.rule = NoRule
  BY <1>1, <1>2 DEF Spent, Follows
<1>3. CASE e.rule # NoRule
  <2>1. e.rule \in RuleIds /\ c.kind = "rule"
    BY <1>1, <1>3 DEF CallType, RuleKinds
  <2>2. site.rules[e.rule].rev \in Nat /\ n.rules[e.rule].rev \in Nat
    BY <2>1 DEF SiteType
  <2>3. Has(n, e.rule) => site.rules[e.rule].rev < n.rules[e.rule].rev
    BY <1>3, <2>1 DEF Follows
  <2> QED BY <1>1, <1>3, <2>1, <2>2, <2>3 DEF Spent
<1> QED BY <1>2, <1>3

LEMMA CommitKeepsOpening ==
  ASSUME IInv, IInv', OpeningInv, NEW s \in Slots, NEW id \in RuleIds \cup {NoRule},
         Commit(s, id)
  PROVE  OpeningInv'
<1> DEFINE c == call[s]
           stamp == edits + 1
           n == Written(c, stamp, id)
<1>0. /\ busy = NoSlot /\ busy' = s /\ c.res = "sent" /\ Refusal(c) = "none"
      /\ IF c.kind = "new" THEN id \in RuleIds \ used ELSE id = NoRule
      /\ site' = [n EXCEPT !.ver = stamp]
      /\ prior' = [site |-> site, health |-> health]
      /\ blind' = IF Informed(c) THEN blind
                  ELSE blind \cup {IF SawUndone(c) \/ blind # {} THEN "undone" ELSE "plain"}
      /\ call' = [call EXCEPT ![s].res = "reloading"]
      /\ Applied(c, 1)
  BY DEF Commit
<1>1. c # Free /\ c \in CallType /\ site \in SiteType
  BY <1>0, CallAt DEF IInv, Typed, Free
<1>2. /\ call'[s].res = "reloading" /\ FromOpen(s)' = FromOpen(s)
      /\ call'[s].tab = call[s].tab /\ call'[s].rule = call[s].rule
      /\ call'[s].expected = call[s].expected
      /\ \A q \in Slots \ {s} : call'[q] = call[q]
  BY <1>0, <1>1, ResChanges DEF IInv, Results
<1>3. \A q \in Slots \ {s} : FromOpen(q)' = FromOpen(q)
  BY <1>2 DEF FromOpen
<1>4. ASSUME NEW t \in Tabs
      PROVE  /\ editor'[t].open = editor[t].open
             /\ editor[t].open =>
                  /\ SameEditor(t)
                  /\ editor'[t].applied = IF FromOpen(s) /\ c.tab = t
                                          THEN editor[t].applied + 1 ELSE editor[t].applied
  BY <1>0, <1>1, AppliedCounts
<1>5. Matched'
  <2>1. ASSUME NEW q \in Slots, FromOpen(q)' PROVE Stems(q) /\ SameEditor(call[q].tab)
    <3>1. FromOpen(q)
      BY <1>2, <1>3, <2>1
    <3>2. call[q].tab \in Tabs /\ editor[call[q].tab].open
      BY <3>1, OpenCallAt
    <3> QED BY <1>2, <1>4, <3>1, <3>2 DEF Stems
  <2> QED BY <2>1, MatchedStays DEF OpeningInv
<1>6. \A t \in Tabs : /\ s \notin Landed(t)
                      /\ Landed(t)' = IF FromOpen(s) /\ c.tab = t
                                      THEN Landed(t) \cup {s} ELSE Landed(t)
  <2>1. \A t \in Tabs : s \notin Landed(t)
    BY <1>0 DEF Landed
  <2> SUFFICES ASSUME NEW t \in Tabs, NEW q \in Slots
               PROVE  q \in Landed(t)' <=> q \in (IF FromOpen(s) /\ c.tab = t
                                                  THEN Landed(t) \cup {s} ELSE Landed(t))
    BY <2>1 DEF Landed
  <2> QED BY <1>2, <1>3, <2>1 DEF Landed
<1>7. LandedCount'
  <2> SUFFICES ASSUME NEW t \in Tabs, editor'[t].open
               PROVE  /\ IsFiniteSet(Landed(t)')
                      /\ Cardinality(Landed(t)') <= editor'[t].applied
    BY DEF LandedCount
  <2>1. editor[t].open /\ IsFiniteSet(Landed(t)) /\ Cardinality(Landed(t)) <= editor[t].applied
    BY <1>4 DEF OpeningInv, LandedCount
  <2>2. Cardinality(Landed(t)) \in Nat /\ editor[t].applied \in Int
    BY <2>1, FS_CardinalityType, EditorAt, AppliedIsInt DEF IInv
  <2>3. CASE FromOpen(s) /\ c.tab = t
    <3>1. /\ IsFiniteSet(Landed(t) \cup {s})
          /\ Cardinality(Landed(t) \cup {s}) = Cardinality(Landed(t)) + 1
      BY <1>6, <2>1, FS_AddElement
    <3>2. editor'[t].applied = editor[t].applied + 1
      BY <1>4, <2>1, <2>3
    <3>3. /\ IsFiniteSet(Landed(t)')
          /\ Cardinality(Landed(t)') = Cardinality(Landed(t)) + 1
      <4>1. Landed(t)' = Landed(t) \cup {s}
        BY <1>6, <2>3
      <4> QED BY <3>1, <4>1
    <3> QED BY <2>1, <2>2, <3>2, <3>3
  <2>4. CASE ~(FromOpen(s) /\ c.tab = t)
    <3>1. Landed(t)' = Landed(t) /\ editor'[t].applied = editor[t].applied
      BY <1>4, <1>6, <2>1, <2>4
    <3> QED BY <2>1, <3>1
  <2> QED BY <2>3, <2>4
<1>8. ASSUME blind' = {} PROVE Once'
  <2>1. Informed(c) /\ blind = {}
    BY <1>0, <1>8
  <2>2. /\ site.live
        /\ c.rule # NoRule => Has(site, c.rule) /\ c.expected = site.rules[c.rule].rev
        /\ c.rule = NoRule => c.expected = site.rev
    BY <1>0, <1>1, NotRefused
  <2>3. Sound /\ prior.site = site
    <3>1. Sound
      BY <2>1, <2>2 DEF IInv
    <3> QED BY <1>0, <3>1 DEF Sound, Ground, World
  <2>4. Accepted(c, stamp, id)
    BY <1>0, <1>1 DEF Accepted, IInv, Typed
  <2> HIDE DEF n, c
  <2>5. c.kind # "drop" => n \in SiteType /\ n.live /\ Follows(n, c, id)
    BY <2>2, <2>4, WrittenFacts DEF n
  <2>6. c.kind = "drop" => ~site'.live
    <3> SUFFICES ASSUME c.kind = "drop" PROVE ~site'.live
      OBVIOUS
    <3>1. n = [site EXCEPT !.live = FALSE]
      BY DEF n, Written
    <3> QED BY <1>0, <1>1, <3>1 DEF SiteType
  <2>7. c.kind # "drop" => site'.rev = n.rev /\ site'.rules = n.rules
    BY <1>0, <2>5 DEF SiteType
  <2>8. /\ c.kind = "site" => \A r \in RuleIds : Has(c.seen, r) => Has(site, r)
        /\ c.kind \in RuleKinds => Has(site, c.rule)
    BY <1>1, <2>1, <2>2, CellsTell DEF CallType
  <2> SUFFICES ASSUME NEW t \in Tabs, editor'[t].open
               PROVE  /\ editor'[t].applied <= 1
                      /\ editor'[t].applied = 1 /\ site'.live =>
                            /\ Spent(editor'[t], site')
                            /\ s \notin Landed(t)' => Spent(editor'[t], site)
    BY <1>0 DEF Once
  <2>9. /\ editor[t].open /\ editor[t] \in OpenEditors /\ SameEditor(t)
        /\ editor[t].applied <= 1
        /\ editor[t].applied = 1 => Spent(editor[t], site)
    BY <1>4, <2>1, <2>2, EditorAt DEF IInv, OpeningInv, Once
  <2>10. CASE FromOpen(s) /\ c.tab = t
    <3>1. c.kind \in {"rule", "new"} /\ c.rule = editor[t].rule /\ c.expected = editor[t].expected
      BY <2>10 DEF OpeningInv, Matched, FromOpen, c
    <3>2. ~Spent(editor[t], site) /\ Spent(editor[t], n)
      BY <1>1, <2>2, <2>5, <2>9, <3>1, WriterIsSpent
    <3>3. /\ IsFiniteSet(Landed(t)) /\ Cardinality(Landed(t)) \in Nat
          /\ Cardinality(Landed(t)) <= editor[t].applied /\ editor[t].applied \in Int
      BY <2>9, FS_CardinalityType, AppliedIsInt DEF OpeningInv, LandedCount
    <3>4. editor[t].applied = 0
      BY <2>9, <3>2, <3>3
    <3>5. editor'[t].applied = 1 /\ s \in Landed(t)'
      BY <1>4, <1>6, <2>9, <2>10, <3>4 DEF c
    <3>6. Spent(editor[t], site')
      BY <2>7, <3>1, <3>2, SpentOfRules
    <3> QED BY <2>9, <3>5, <3>6, SameSpent
  <2>11. CASE ~(FromOpen(s) /\ c.tab = t)
    <3>1. editor'[t].applied = editor[t].applied
      BY <1>4, <2>9, <2>11 DEF c
    <3> SUFFICES ASSUME editor[t].applied = 1, site'.live
                 PROVE  Spent(editor'[t], site') /\ Spent(editor'[t], site)
      BY <2>9, <3>1
    <3>2. c.kind # "drop" /\ Spent(editor[t], site)
      BY <2>6, <2>9
    <3>3. ASSUME editor[t].rule # NoRule, Has(n, editor[t].rule)
          PROVE  Has(site, editor[t].rule)
      <4>1. editor[t].rule \in RuleIds
        BY <2>9, <3>3 DEF OpenEditors
      <4>2. editor[t].rule \in used
        BY <2>3, <2>9, <3>3, <4>1 DEF Sound, EditorsFit, EditorFits, Known, World
      <4>3. c.kind = "new" => id \notin used
        BY <1>0 DEF c
      <4> QED BY <2>5, <2>8, <3>2, <3>3, <4>1, <4>2, <4>3 DEF Follows, RuleKinds
    <3>4. Spent(editor[t], n)
      BY <1>1, <2>5, <2>9, <3>2, <3>3, SpentStays
    <3>5. Spent(editor[t], site')
      BY <2>7, <3>2, <3>4, SpentOfRules
    <3> QED BY <2>9, <3>2, <3>5, SameSpent
  <2> QED BY <2>10, <2>11
<1>9. blind' \subseteq {"plain", "undone"}
  BY <1>0 DEF OpeningInv
<1> QED BY <1>5, <1>7, <1>8, <1>9 DEF OpeningInv

\* The editors and the calls stay as they are.
LEMMA NothingHappens ==
  ASSUME IInv, IInv', OpeningInv, UNCHANGED <<site, prior, busy, blind, editor, call>>
  PROVE  OpeningInv'
<1>1. \A t \in Tabs : /\ editor'[t].open = editor[t].open
                      /\ editor[t].open => SameEditor(t) /\ editor'[t].applied = editor[t].applied
  BY DEF SameEditor
<1> QED BY <1>1, EditorsGoOn

\* A change of another kind is sent.
LEMMA OtherSent ==
  ASSUME IInv, IInv', OpeningInv, UNCHANGED <<site, prior, busy, blind, editor>>,
         NEW s \in Slots, NEW t, NEW kind, kind \notin {"rule", "new"}, NEW r,
         NEW expected, NEW seen, NEW h, NEW changes,
         Send(s, t, kind, r, expected, seen, h, changes)
  PROVE  OpeningInv'
<1>1. \A u \in Tabs : /\ editor'[u].open = editor[u].open
                      /\ editor[u].open => SameEditor(u) /\ editor'[u].applied = editor[u].applied
  BY DEF SameEditor
<1>2. \A q \in Slots : call'[q] = call[q] \/ (call[q] = Free /\ ~FromOpen(q)')
  BY DEF Send, FromOpen, IInv, Typed
<1> QED BY <1>1, <1>2, EditorsGoOn

\* The health check of the editor is asked for, or arrives.
LEMMA HealthOnly ==
  ASSUME IInv, IInv', OpeningInv, UNCHANGED <<site, prior, busy, blind, call>>,
         NEW t \in Tabs, editor[t].open, NEW x, NEW h,
         \/ editor' = [editor EXCEPT ![t].load = x]
         \/ editor' = [editor EXCEPT ![t].load = x, ![t].health = h]
  PROVE  OpeningInv'
<1>1. editor[t] \in OpenEditors
  BY EditorAt DEF IInv
<1>2. /\ editor'[t].open = editor[t].open /\ editor'[t].rule = editor[t].rule
      /\ editor'[t].expected = editor[t].expected /\ editor'[t].applied = editor[t].applied
  <2>1. \/ editor'[t] = [editor[t] EXCEPT !.load = x]
        \/ editor'[t] = [editor[t] EXCEPT !.load = x, !.health = h]
    BY DEF IInv, Typed
  <2> QED BY ZenonT(60), <1>1, <2>1 DEF OpenEditors
<1>3. \A u \in Tabs \ {t} : editor'[u] = editor[u]
  BY DEF IInv, Typed
<1>4. \A u \in Tabs : /\ editor'[u].open = editor[u].open
                      /\ editor[u].open => SameEditor(u) /\ editor'[u].applied = editor[u].applied
  BY <1>2, <1>3 DEF SameEditor
<1> QED BY <1>4, EditorsGoOn

\* An outdated call of the tab is of no opening any more.
LEMMA OutdatedLeaves ==
  ASSUME NEW t \in Tabs, NEW calls \in [Slots -> {Free} \cup CallType], NEW q \in Slots,
         Outdated(t, calls)[q] # Free, Outdated(t, calls)[q].current
  PROVE  Outdated(t, calls)[q] = calls[q] /\ calls[q].tab # t
<1>1. calls[q] # Free /\ calls[q].tab # t
  BY OutdatedCalls
<1> QED BY <1>1 DEF Outdated

\* The editor of tab t is opened or closed: its calls are of no opening any more.
LEMMA TurnKeepsOpening ==
  ASSUME IInv, IInv', OpeningInv, UNCHANGED <<site, prior, busy, blind>>,
         NEW t \in Tabs, NEW e, ~editor[t].open \/ ~e.open, e.open => e.applied = 0,
         editor' = [editor EXCEPT ![t] = e], call' = Outdated(t, call)
  PROVE  OpeningInv'
<1>0. call \in [Slots -> {Free} \cup CallType]
  BY DEF IInv, Typed
<1>1. /\ editor'[t] = e /\ ~SameEditor(t)
      /\ \A u \in Tabs \ {t} : editor'[u] = editor[u]
  BY DEF IInv, Typed, SameEditor
<1>2. ASSUME NEW s \in Slots, FromOpen(s)'
      PROVE  call'[s] = call[s] /\ Stems(s) /\ SameEditor(call[s].tab)
  <2>1. call'[s] = call[s] /\ call[s].tab # t
    BY <1>0, <1>2, OutdatedLeaves DEF FromOpen
  <2>2. FromOpen(s)
    BY <1>2, <2>1 DEF FromOpen
  <2>3. call[s].tab \in Tabs /\ editor[call[s].tab].open
    BY <2>2, OpenCallAt
  <2> QED BY <1>1, <2>1, <2>2, <2>3 DEF Stems, SameEditor
<1>3. \A u \in Tabs : editor'[u].open =>
         IF SameEditor(u) THEN editor'[u].applied = editor[u].applied
         ELSE editor'[u].applied = 0
  BY <1>1 DEF SameEditor
<1>4. ASSUME NEW u \in Tabs, SameEditor(u), busy \in Landed(u) PROVE busy \in Landed(u)'
  <2>1. busy \in Slots /\ call[busy].tab = u /\ u # t
    BY <1>1, <1>4 DEF Landed
  <2>2. call'[busy] = call[busy]
    BY <1>0, <2>1 DEF Outdated
  <2> QED BY <1>4, <2>2 DEF Landed, FromOpen
<1> QED BY <1>2, <1>3, <1>4, OpeningStays

LEMMA SaveRuleKeepsOpening ==
  ASSUME IInv, IInv', OpeningInv, NEW t \in Tabs, NEW s \in Slots,
         NEW changes \in {{"body"}, {"health"}}, SaveRule(t, s, changes)
  PROVE  OpeningInv'
<1>0. /\ UNCHANGED <<site, prior, busy, blind>>
      /\ editor[t].open /\ editor' = [editor EXCEPT ![t].saving = TRUE]
      /\ call[s] = Free
      /\ \A q \in Slots \ {s} : call'[q] = call[q]
      /\ call'[s].tab = t /\ call'[s].rule = editor[t].rule
      /\ call'[s].expected = editor[t].expected /\ call'[s].res = "sent"
  BY DEF SaveRule, Send, server, IInv, Typed
<1>1. editor[t] \in OpenEditors
  BY <1>0, EditorAt DEF IInv
<1>2. /\ editor'[t].open = editor[t].open /\ editor'[t].rule = editor[t].rule
      /\ editor'[t].expected = editor[t].expected /\ editor'[t].applied = editor[t].applied
  <2>1. editor'[t] = [editor[t] EXCEPT !.saving = TRUE]
    BY <1>0 DEF IInv, Typed
  <2> QED BY <1>1, <2>1 DEF OpenEditors
<1>3. \A u \in Tabs \ {t} : editor'[u] = editor[u]
  BY <1>0 DEF IInv, Typed
<1>4. \A u \in Tabs : /\ editor'[u].open = editor[u].open
                      /\ editor[u].open => SameEditor(u) /\ editor'[u].applied = editor[u].applied
  BY <1>2, <1>3 DEF SameEditor
<1>5. ASSUME NEW q \in Slots \ {s}, FromOpen(q)'
      PROVE  Stems(q) /\ SameEditor(call[q].tab) /\ call'[q].res = call[q].res
  <2>1. call'[q] = call[q] /\ FromOpen(q)
    BY <1>0, <1>5 DEF FromOpen
  <2>2. call[q].tab \in Tabs /\ editor[call[q].tab].open
    BY <2>1, OpenCallAt
  <2> QED BY <1>4, <2>1, <2>2 DEF Stems
<1>6. /\ call'[s].rule = editor'[call'[s].tab].rule
      /\ call'[s].expected = editor'[call'[s].tab].expected
  BY <1>0, <1>2
<1>7. ASSUME NEW u \in Tabs, busy \in Landed(u) PROVE busy \in Landed(u)'
  <2>1. busy \in Slots /\ busy # s
    BY <1>0, <1>7 DEF Landed, FromOpen
  <2>2. call'[busy] = call[busy]
    BY <1>0, <2>1
  <2> QED BY <1>7, <2>2 DEF Landed, FromOpen
<1>8. \A q \in Slots : FromOpen(q)' =>
         \/ /\ Stems(q) /\ SameEditor(call[q].tab)
            /\ call'[q].res \in {"reloading", "ok"} => call[q].res \in {"reloading", "ok"}
         \/ /\ call'[q].res = "sent"
            /\ call'[q].rule = editor'[call'[q].tab].rule
            /\ call'[q].expected = editor'[call'[q].tab].expected
  BY <1>0, <1>5, <1>6
<1>9. \A u \in Tabs : editor'[u].open =>
         IF SameEditor(u) THEN editor'[u].applied = editor[u].applied
         ELSE editor'[u].applied = 0
  BY <1>4 DEF SameEditor
<1> QED BY <1>0, <1>7, <1>8, <1>9, OpeningStays

\* Calls that are left as they are, given up or gone.
Left(calls) ==
    /\ calls \in [Slots -> {Free} \cup CallType]
    /\ \A q \in Slots :
          /\ calls[q] # Free =>
                /\ call[q] # Free /\ calls[q].tab = call[q].tab /\ calls[q].kind = call[q].kind
                /\ calls[q].rule = call[q].rule /\ calls[q].expected = call[q].expected
                /\ calls[q].current = call[q].current /\ calls[q].res = call[q].res
          /\ call[q].res = "reloading" => calls[q] # Free

LEMMA FreedIsLeft ==
  ASSUME Typed, NEW s \in Slots, call[s].res # "reloading"
  PROVE  Left([call EXCEPT ![s] = Free])
  BY DEF Typed, Left, Free

LEMMA GivenUpIsLeft ==
  ASSUME Typed, NEW s \in Slots, call[s] # Free
  PROVE  Left([call EXCEPT ![s].waiting = FALSE])
<1> DEFINE d == [call[s] EXCEPT !.waiting = FALSE]
           f == [call EXCEPT ![s] = d]
<1>1. call[s] \in CallType
  BY CallAt
<1>2. /\ d \in CallType
      /\ d.tab = call[s].tab /\ d.kind = call[s].kind /\ d.rule = call[s].rule
      /\ d.expected = call[s].expected /\ d.current = call[s].current
      /\ d.res = call[s].res
  BY <1>1 DEF CallType
<1>3. f = [call EXCEPT ![s].waiting = FALSE]
  OBVIOUS
<1> HIDE DEF d
<1>4. f[s] = d /\ \A q \in Slots \ {s} : f[q] = call[q]
  BY DEF Typed
<1>5. f \in [Slots -> {Free} \cup CallType]
  BY <1>2 DEF Typed
<1> HIDE DEF f
<1>6. d # Free
  BY <1>2, FreeIsNoCall
<1>7. \A q \in Slots : call[q].res = "reloading" => f[q] # Free
  BY <1>4, <1>6 DEF Free
<1>8. Left(f)
  BY <1>2, <1>4, <1>5, <1>7 DEF Left
<1> QED BY <1>3, <1>8

\* The change of the holder of mutationMu goes on whatever the tab is told.
LEMMA LeftHolds ==
  ASSUME IInv, NEW calls, Left(calls), NEW u \in Tabs, busy \in Landed(u)
  PROVE  /\ busy \in Slots /\ calls[busy] # Free /\ calls[busy].tab = u
         /\ calls[busy].current /\ calls[busy].kind \in {"rule", "new"}
         /\ calls[busy].res = "reloading"
<1>1. busy \in Slots /\ FromOpen(busy) /\ call[busy].tab = u /\ call[busy].res = "reloading"
  BY IdsAssumption DEF Landed, IInv, Holder
<1> QED BY <1>1 DEF Left, FromOpen

LEMMA LeftStems ==
  ASSUME NEW calls, Left(calls), NEW q \in Slots, call'[q] = calls[q], FromOpen(q)'
  PROVE  Stems(q) /\ call'[q].res = call[q].res
  BY DEF Left, FromOpen, Stems

LEMMA ForgottenKeepsOpening ==
  ASSUME IInv, IInv', OpeningInv, NEW s \in Slots, Forgotten(s)
  PROVE  OpeningInv'
<1>0. /\ UNCHANGED <<site, prior, busy, blind, editor>>
      /\ call' = [call EXCEPT ![s] = Free] /\ call[s].res # "reloading"
  BY DEF Forgotten, server, tabs, history
<1>1. Left(call')
  BY <1>0, FreedIsLeft DEF IInv
<1>2. \A q \in Slots : FromOpen(q)' =>
         Stems(q) /\ SameEditor(call[q].tab) /\ call'[q].res = call[q].res
  BY <1>0, <1>1, LeftStems, StillOpen DEF Stems
<1>3. \A u \in Tabs : busy \in Landed(u) => busy \in Landed(u)'
  BY <1>1, LeftHolds DEF Landed, FromOpen
<1>4. \A t \in Tabs : editor'[t].open => SameEditor(t) /\ editor'[t].applied = editor[t].applied
  BY <1>0 DEF SameEditor
<1> QED BY <1>0, <1>2, <1>3, <1>4, OpeningStays

\* The answer arrives, or the tab stops waiting for it.
LEMMA ToldTabKeepsOpening ==
  ASSUME IInv, IInv', OpeningInv, NEW s \in Slots, call[s] # Free, NEW ok \in BOOLEAN,
         NEW calls, Left(calls), Told(s, ok, calls), ok => call[s].res = "ok"
  PROVE  /\ OpeningInv'
         /\ \A t \in Tabs : editor[t].open /\ ~editor'[t].open => editor[t].applied >= 1
<1> DEFINE t == call[s].tab
           mine == call[s].kind \in {"rule", "new"} /\ EditorCounts(call[s]) /\ editor[t].open
<1>0. /\ UNCHANGED <<site, prior, busy, blind>>
      /\ editor' = IF ~mine THEN editor
                   ELSE [editor EXCEPT ![t] = IF ok THEN NoEditor
                                              ELSE [@ EXCEPT !.saving = FALSE]]
      /\ call' = IF mine /\ ok THEN Outdated(t, calls) ELSE calls
  BY DEF Told, server, history
<1>1. t \in Tabs
  BY CallAt DEF IInv, CallType
<1>2. mine => FromOpen(s) /\ editor[t].open
  BY DEF EditorCounts, FromOpen
<1> HIDE DEF t
<1>3. CASE mine /\ ok
  <2>0. call' = Outdated(t, calls) /\ editor' = [editor EXCEPT ![t] = NoEditor]
    BY <1>0, <1>3
  <2>1. /\ ~editor'[t].open /\ \A u \in Tabs \ {t} : editor'[u] = editor[u]
    BY <1>1, <2>0, NoEditorIsClosed DEF IInv, Typed
  <2>2. ASSUME NEW q \in Slots, FromOpen(q)'
        PROVE  Stems(q) /\ SameEditor(call[q].tab) /\ call'[q].res = call[q].res
    <3>1. call'[q] = calls[q] /\ calls[q].tab # t
      BY <1>1, <2>0, <2>2, OutdatedLeaves DEF Left, FromOpen
    <3>2. Stems(q) /\ call'[q].res = call[q].res
      BY <2>2, <3>1, LeftStems
    <3>3. call[q].tab \in Tabs \ {t} /\ editor[call[q].tab].open
      BY <3>1, <3>2, OpenCallAt DEF Stems
    <3> QED BY <2>1, <3>2, <3>3 DEF SameEditor
  <2>3. ASSUME NEW u \in Tabs, SameEditor(u), busy \in Landed(u) PROVE busy \in Landed(u)'
    <3>1. /\ busy \in Slots /\ calls[busy] # Free /\ calls[busy].tab = u
          /\ calls[busy].current /\ calls[busy].kind \in {"rule", "new"}
          /\ calls[busy].res = "reloading"
      BY <2>3, LeftHolds
    <3>2. u # t
      BY <2>1, <2>3 DEF SameEditor
    <3>3. call'[busy] = calls[busy]
      BY <2>0, <3>1, <3>2 DEF Outdated
    <3> QED BY <3>1, <3>3 DEF Landed, FromOpen
  <2>4. \A u \in Tabs : editor'[u].open => SameEditor(u) /\ editor'[u].applied = editor[u].applied
    BY <2>1 DEF SameEditor
  <2>5. OpeningInv'
    BY <1>0, <2>2, <2>3, <2>4, OpeningStays
  <2>6. editor[t].applied >= 1
    <3>1. s \in Landed(t)
      BY <1>2, <1>3 DEF Landed, t
    <3>2. IsFiniteSet(Landed(t)) /\ Cardinality(Landed(t)) <= editor[t].applied
      BY <1>1, <1>2, <1>3 DEF OpeningInv, LandedCount
    <3>3. Cardinality(Landed(t)) \in Nat /\ Cardinality(Landed(t)) # 0
      BY <3>1, <3>2, FS_CardinalityType, FS_EmptySet
    <3>4. editor[t].applied \in Int
      BY <1>1, <1>2, <1>3, EditorAt, AppliedIsInt DEF IInv
    <3> QED BY <3>2, <3>3, <3>4
  <2> QED BY <2>1, <2>5, <2>6
<1>4. CASE ~(mine /\ ok)
  <2>0. call' = calls
    BY <1>0, <1>4
  <2>1. \A u \in Tabs : /\ editor'[u].open = editor[u].open
                        /\ editor[u].open => SameEditor(u) /\ editor'[u].applied = editor[u].applied
    <3>1. CASE ~mine
      BY <1>0, <3>1 DEF SameEditor
    <3>2. CASE mine /\ ~ok
      <4>1. editor' = [editor EXCEPT ![t] = [@ EXCEPT !.saving = FALSE]]
        BY <1>0, <3>2
      <4>2. editor[t] \in OpenEditors
        BY <1>1, <1>2, <3>2, EditorAt DEF IInv
      <4>3. editor'[t] = [editor[t] EXCEPT !.saving = FALSE]
        BY <1>1, <4>1 DEF IInv, Typed
      <4>4. /\ editor'[t].open = editor[t].open /\ editor'[t].rule = editor[t].rule
            /\ editor'[t].expected = editor[t].expected /\ editor'[t].applied = editor[t].applied
        BY <4>2, <4>3 DEF OpenEditors
      <4>5. \A u \in Tabs \ {t} : editor'[u] = editor[u]
        BY <4>1 DEF IInv, Typed
      <4> QED BY <4>4, <4>5 DEF SameEditor
    <3> QED BY <1>4, <3>1, <3>2
  <2>2. ASSUME NEW q \in Slots, FromOpen(q)'
        PROVE  Stems(q) /\ SameEditor(call[q].tab) /\ call'[q].res = call[q].res
    <3>1. Stems(q) /\ call'[q].res = call[q].res
      BY <2>0, <2>2, LeftStems
    <3>2. call[q].tab \in Tabs /\ editor[call[q].tab].open
      BY <3>1, OpenCallAt DEF Stems
    <3> QED BY <2>1, <3>1, <3>2
  <2>3. \A u \in Tabs : busy \in Landed(u) => busy \in Landed(u)'
    BY <2>0, LeftHolds DEF Landed, FromOpen
  <2>4. \A u \in Tabs : editor'[u].open => SameEditor(u) /\ editor'[u].applied = editor[u].applied
    BY <2>1
  <2>5. OpeningInv'
    BY <1>0, <2>2, <2>3, <2>4, OpeningStays
  <2> QED BY <2>1, <2>5
<1> QED BY <1>3, <1>4

-----------------------------------------------------------------------------
\* No editor closes unless its user closes it or its change was made.
Proper ==
    \A t \in Tabs : editor[t].open /\ ~editor'[t].open => CloseRule(t) \/ editor[t].applied >= 1

LEMMA NoneCloses ==
  ASSUME \A t \in Tabs : editor'[t].open = editor[t].open
  PROVE  Proper
  BY DEF Proper

LEMMA OpenRuleKeepsOpening ==
  ASSUME IInv, IInv', OpeningInv, NEW t \in Tabs,
         OpenNewRule(t) \/ \E r \in RuleIds : OpenRule(t, r)
  PROVE  OpeningInv' /\ Proper
<1>1. PICK e : /\ e.open /\ e.applied = 0
               /\ editor' = [editor EXCEPT ![t] = e] /\ call' = Outdated(t, call)
               /\ ~editor[t].open /\ UNCHANGED <<site, prior, busy, blind>>
  <2>1. CASE OpenNewRule(t)
    <3> DEFINE e == [open |-> TRUE, saving |-> FALSE, rule |-> NoRule,
                     expected |-> page[t].rev, seen |-> page[t],
                     load |-> "ready", health |-> 0, applied |-> 0]
    <3>1. /\ editor' = [editor EXCEPT ![t] = e] /\ call' = Outdated(t, call)
          /\ ~editor[t].open /\ UNCHANGED <<site, prior, busy, blind>>
      BY <2>1 DEF OpenNewRule, Covered, server
    <3>2. e.open /\ e.applied = 0
      OBVIOUS
    <3> QED BY <3>1, <3>2
  <2>2. ASSUME NEW r \in RuleIds, OpenRule(t, r)
        PROVE  \E e : /\ e.open /\ e.applied = 0
                      /\ editor' = [editor EXCEPT ![t] = e] /\ call' = Outdated(t, call)
                      /\ ~editor[t].open /\ UNCHANGED <<site, prior, busy, blind>>
    <3> DEFINE e == [open |-> TRUE, saving |-> FALSE, rule |-> r,
                     expected |-> page[t].rules[r].rev, seen |-> page[t],
                     load |-> "loading", health |-> 0, applied |-> 0]
    <3>1. /\ editor' = [editor EXCEPT ![t] = e] /\ call' = Outdated(t, call)
          /\ ~editor[t].open /\ UNCHANGED <<site, prior, busy, blind>>
      BY <2>2 DEF OpenRule, Covered, server
    <3>2. e.open /\ e.applied = 0
      OBVIOUS
    <3> QED BY <3>1, <3>2
  <2> QED BY <2>1, <2>2
<1>2. OpeningInv'
  BY <1>1, TurnKeepsOpening
<1>3. \A u \in Tabs : editor[u].open => editor'[u].open
  BY <1>1 DEF IInv, Typed
<1> QED BY <1>2, <1>3 DEF Proper

LEMMA CloseRuleKeepsOpening ==
  ASSUME IInv, IInv', OpeningInv, NEW t \in Tabs, CloseRule(t)
  PROVE  OpeningInv' /\ Proper
<1>1. /\ editor' = [editor EXCEPT ![t] = NoEditor] /\ call' = Outdated(t, call)
      /\ UNCHANGED <<site, prior, busy, blind>>
  BY DEF CloseRule, server, history
<1>2. OpeningInv'
  BY <1>1, NoEditorIsClosed, TurnKeepsOpening
<1>3. \A u \in Tabs \ {t} : editor'[u] = editor[u]
  BY <1>1 DEF IInv, Typed
<1> QED BY <1>2, <1>3 DEF Proper

LEMMA RetryHealthKeepsOpening ==
  ASSUME IInv, IInv', OpeningInv, NEW t \in Tabs, RetryHealth(t)
  PROVE  OpeningInv' /\ Proper
<1>1. /\ editor[t].open /\ editor' = [editor EXCEPT ![t].load = "loading"]
      /\ UNCHANGED <<site, prior, busy, blind, call>>
  BY DEF RetryHealth, server, history
<1>2. OpeningInv'
  BY <1>1, HealthOnly
<1>3. \A u \in Tabs : editor[u].open => editor'[u].open
  <2>1. editor[t] \in OpenEditors
    BY <1>1, EditorAt DEF IInv
  <2>2. editor'[t] = [editor[t] EXCEPT !.load = "loading"]
    BY <1>1 DEF IInv, Typed
  <2>3. editor'[t].open = editor[t].open
    BY <2>1, <2>2 DEF OpenEditors
  <2>4. \A u \in Tabs \ {t} : editor'[u] = editor[u]
    BY <1>1 DEF IInv, Typed
  <2> QED BY <2>3, <2>4
<1> QED BY <1>2, <1>3 DEF Proper

LEMMA LoadEndsKeepsOpening ==
  ASSUME IInv, IInv', OpeningInv, NEW t \in Tabs, NEW p, NEW x, NEW h, LoadEnds(t, p, x, h)
  PROVE  OpeningInv' /\ Proper
<1>0. UNCHANGED <<site, prior, busy, blind, call>>
  BY DEF LoadEnds, server, history
<1>1. CASE ~(HealthCounts(t, p) /\ editor[t].open)
  <2>1. UNCHANGED editor
    BY <1>1 DEF LoadEnds
  <2> QED BY <1>0, <2>1, NothingHappens, NoneCloses
<1>2. CASE HealthCounts(t, p) /\ editor[t].open
  <2>1. editor' = [editor EXCEPT ![t].load = x, ![t].health = h]
    BY <1>2 DEF LoadEnds
  <2>2. OpeningInv'
    BY <1>0, <1>2, <2>1, HealthOnly
  <2>3. editor[t] \in OpenEditors
    BY <1>2, EditorAt DEF IInv
  <2>4. editor'[t] = [editor[t] EXCEPT !.load = x, !.health = h]
    BY <2>1 DEF IInv, Typed
  <2>5. editor'[t].open = editor[t].open
    BY <2>3, <2>4 DEF OpenEditors
  <2>6. \A u \in Tabs \ {t} : editor'[u] = editor[u]
    BY <2>1 DEF IInv, Typed
  <2> QED BY <2>2, <2>5, <2>6 DEF Proper
<1> QED BY <1>1, <1>2

LEMMA SaveRuleCloses ==
  ASSUME IInv, NEW t \in Tabs, NEW s \in Slots, NEW changes \in {{"body"}, {"health"}},
         SaveRule(t, s, changes)
  PROVE  Proper
<1>1. editor[t].open /\ editor' = [editor EXCEPT ![t].saving = TRUE]
  BY DEF SaveRule
<1>2. editor[t] \in OpenEditors
  BY <1>1, EditorAt DEF IInv
<1>3. editor'[t] = [editor[t] EXCEPT !.saving = TRUE]
  BY <1>1 DEF IInv, Typed
<1>4. editor'[t].open = editor[t].open
  BY <1>2, <1>3 DEF OpenEditors
<1>5. \A u \in Tabs \ {t} : editor'[u] = editor[u]
  BY <1>1 DEF IInv, Typed
<1> QED BY <1>4, <1>5 DEF Proper

LEMMA ServerKeepsOpening ==
  ASSUME IInv, IInv', OpeningInv, Server
  PROVE  OpeningInv' /\ Proper
<1>1. ASSUME NEW s \in Slots, Refuse(s) \/ Reject(s) \/ Reloaded(s) \/ RollbackFails(s)
      PROVE  OpeningInv' /\ Proper
  <2>1. OpeningInv'
    BY <1>1, RefuseKeepsOpening, ChangeStaysKeepsOpening DEF Reloaded, RollbackFails
  <2>2. UNCHANGED editor
    BY <1>1 DEF Refuse, Reject, Reloaded, RollbackFails, ChangeStays, tabs
  <2> QED BY <2>1, <2>2, NoneCloses
<1>2. ASSUME NEW s \in Slots, UndoFailed(s)
      PROVE  OpeningInv' /\ Proper
  <2>1. OpeningInv'
    BY <1>2, UndoFailedKeepsOpening
  <2>2. /\ busy = s /\ Applied(call[s], -1) /\ -1 \in Int
    BY <1>2 DEF UndoFailed
  <2>3. call[s] # Free
    BY <2>2, IdsAssumption DEF IInv, Holder
  <2> QED BY <2>1, <2>2, <2>3, AppliedCounts, NoneCloses
<1>3. ASSUME NEW s \in Slots, NEW id \in RuleIds \cup {NoRule}, Commit(s, id)
      PROVE  OpeningInv' /\ Proper
  <2>1. OpeningInv'
    BY <1>3, CommitKeepsOpening
  <2>2. call[s] # Free /\ Applied(call[s], 1) /\ 1 \in Int
    BY <1>3 DEF Commit, Free
  <2> QED BY <2>1, <2>2, AppliedCounts, NoneCloses
<1>4. ASSUME NEW t \in Tabs, NEW p \in probes[t], ServeHealth(t, p)
      PROVE  OpeningInv' /\ Proper
  BY <1>4, NothingHappens, NoneCloses DEF ServeHealth, server, history
<1> QED BY <1>1, <1>2, <1>3, <1>4 DEF Server

LEMMA TabKeepsOpening ==
  ASSUME IInv, IInv', OpeningInv, NEW t \in Tabs, Tab(t)
  PROVE  OpeningInv' /\ Proper
<1>1. ASSUME Load(t) \/ OpenSite(t) \/ CloseSite(t)
      PROVE  OpeningInv' /\ Proper
  BY <1>1, NothingHappens, NoneCloses DEF Load, OpenSite, CloseSite, server, history
<1>2. ASSUME NEW p \in probes[t], HealthArrives(t, p) \/ HealthFails(t, p)
      PROVE  OpeningInv' /\ Proper
  BY <1>2, LoadEndsKeepsOpening DEF HealthArrives, HealthFails
<1>3. ASSUME NEW s \in Slots, SaveSite(t, s)
      PROVE  OpeningInv' /\ Proper
  BY <1>3, OtherSent, NoneCloses DEF SaveSite, server
<1>4. ASSUME NEW s \in Slots, NEW kind \in {"flip", "drop", "order"}, ClickSite(t, s, kind)
      PROVE  OpeningInv' /\ Proper
  BY <1>4, OtherSent, NoneCloses DEF ClickSite, server, tabs
<1>5. ASSUME NEW s \in Slots, NEW kind \in {"toggle", "delete"}, NEW r \in RuleIds,
             ClickRule(t, s, kind, r)
      PROVE  OpeningInv' /\ Proper
  BY <1>5, OtherSent, NoneCloses DEF ClickRule, server, tabs
<1>6. ASSUME NEW s \in Slots, NEW changes \in {{"body"}, {"health"}}, SaveRule(t, s, changes)
      PROVE  OpeningInv' /\ Proper
  BY <1>6, SaveRuleKeepsOpening, SaveRuleCloses
<1> QED BY <1>1, <1>2, <1>3, <1>4, <1>5, <1>6, OpenRuleKeepsOpening, CloseRuleKeepsOpening,
           RetryHealthKeepsOpening DEF Tab

LEMMA AnswersKeepOpening ==
  ASSUME IInv, IInv', OpeningInv, NEW s \in Slots, Answered(s) \/ GiveUp(s) \/ Forgotten(s)
  PROVE  OpeningInv' /\ Proper
<1>1. CASE Answered(s)
  <2>1. call[s] # Free /\ call[s].res # "reloading"
    BY <1>1 DEF Answered, Free
  <2>2. Left([call EXCEPT ![s] = Free])
    BY <2>1, FreedIsLeft DEF IInv
  <2>3. PICK ok \in BOOLEAN : ok <=> call[s].res = "ok"
    OBVIOUS
  <2>4. Told(s, ok, [call EXCEPT ![s] = Free])
    BY <1>1, <2>3 DEF Answered
  <2> QED BY <2>1, <2>2, <2>3, <2>4, ToldTabKeepsOpening DEF Proper
<1>2. CASE GiveUp(s)
  <2>1. call[s] # Free
    BY <1>2 DEF GiveUp
  <2>2. Left([call EXCEPT ![s].waiting = FALSE])
    BY <2>1, GivenUpIsLeft DEF IInv
  <2> QED BY <1>2, <2>1, <2>2, ToldTabKeepsOpening DEF GiveUp, Proper
<1>3. CASE Forgotten(s)
  BY <1>3, ForgottenKeepsOpening, NoneCloses DEF Forgotten, tabs
<1> QED BY <1>1, <1>2, <1>3

LEMMA NextKeepsOpening ==
  ASSUME IInv, IInv', OpeningInv, [Next]_vars
  PROVE  OpeningInv' /\ Proper
<1>1. CASE UNCHANGED vars
  BY <1>1, NothingHappens, NoneCloses DEF vars
<1> QED BY <1>1, ServerKeepsOpening, TabKeepsOpening, AnswersKeepOpening DEF Next

LEMMA InitOpening ==
  ASSUME Init
  PROVE  OpeningInv
<1>1. (\A s \in Slots : ~FromOpen(s)) /\ \A t \in Tabs : ~editor[t].open
  BY DEF Init, FromOpen, NoEditor
<1>2. blind = {}
  BY DEF Init
<1> QED BY <1>1, <1>2 DEF OpeningInv, Matched, LandedCount, Once

\* A change whose answer was lost and that is sent again from the same opening
\* of the rule editor is never made twice, up to the first change made from a
\* version that was taken back (openGeneration in RuleEditor.vue, mutateRules and
\* checkRevision in internal/webproxy/api.go).
THEOREM ResentIsMadeOnce == Spec => []AppliedOnce
<1>1. Init => IInv /\ OpeningInv
  BY InitSound, InitOpening
<1>2. IInv /\ OpeningInv /\ [Next]_vars => IInv' /\ OpeningInv'
  BY NextPreserves, NextKeepsOpening
<1>3. IInv /\ OpeningInv => AppliedOnce
  <2> SUFFICES ASSUME IInv, OpeningInv, "undone" \notin blind
               PROVE  \A t \in Tabs : editor[t].open => editor[t].applied <= 1
    BY DEF AppliedOnce
  <2>1. blind = {}
    BY DEF IInv, EditsAreInformed, OpeningInv
  <2> QED BY <2>1 DEF OpeningInv, Once
<1> QED BY <1>1, <1>2, <1>3, PTL DEF Spec

\* Without exception: a rule editor whose user did not close it closes only
\* because a change sent from this very opening is in force (RuleEditor.vue,
\* openGeneration; confirmRule).
THEOREM DraftIsKept == Spec => DraftKept
<1>1. Init => IInv /\ OpeningInv
  BY InitSound, InitOpening
<1>2. IInv /\ OpeningInv /\ [Next]_vars => IInv' /\ OpeningInv'
  BY NextPreserves, NextKeepsOpening
<1> DEFINE Kept == \A t \in Tabs : editor[t].open /\ ~editor'[t].open
                      => CloseRule(t) \/ editor[t].applied >= 1
<1>3. IInv /\ IInv' /\ OpeningInv /\ [Next]_vars => [Kept]_vars
  BY NextKeepsOpening DEF Proper
<1> QED BY <1>1, <1>2, <1>3, PTL DEF Spec, DraftKept

-----------------------------------------------------------------------------
(* The types: what IInv leaves open is that every stamp that anybody holds *)
(* is of an edit within the bound                                          *)

ServerDated ==
    /\ edits \in Stamps
    /\ site \in Sites /\ prior.site \in Sites
    /\ health \in [RuleIds -> Stamps] /\ prior.health \in [RuleIds -> Stamps]
PagesDated   == \A t \in Tabs : page[t] \in Sites
DialogsDated == \A t \in Tabs : dialog[t].open => dialog[t].seen \in Sites
EditorsDated ==
    \A t \in Tabs : editor[t].open => editor[t].seen \in Sites /\ editor[t].health \in Stamps
ProbesDated  == \A t \in Tabs : \A p \in probes[t] : p.health \in Stamps
CallsDated   ==
    \A s \in Slots : call[s] # Free => call[s].seen \in Sites /\ call[s].health \in Stamps

TabsDated  == PagesDated /\ DialogsDated /\ EditorsDated /\ ProbesDated
StampsInv == ServerDated /\ TabsDated /\ CallsDated

LEMMA StampsAreNumbers == 0 \in Stamps /\ Stamps \subseteq Nat
  BY IdsAssumption DEF Stamps

\* The same, as far as these lemmas go.
SameServer == UNCHANGED <<site, health, prior, edits>>

LEMMA ServerStays == ServerDated /\ SameServer => ServerDated'
  BY DEF ServerDated, SameServer

LEMMA TabsStay == TabsDated /\ UNCHANGED <<page, dialog, editor, probes>> => TabsDated'
  BY DEF TabsDated, PagesDated, DialogsDated, EditorsDated, ProbesDated

\* Every call of these is the one it was, perhaps further on.
Passed(calls) ==
    \A s \in Slots : calls[s] # Free =>
        call[s] # Free /\ calls[s].seen = call[s].seen /\ calls[s].health = call[s].health

LEMMA CallsStayDated == CallsDated /\ Passed(call') => CallsDated'
<1> SUFFICES ASSUME CallsDated, Passed(call')
             PROVE  CallsDated'
  OBVIOUS
<1>1. ASSUME NEW s \in Slots, call'[s] # Free
      PROVE  call'[s].seen \in Sites /\ call'[s].health \in Stamps
  <2>1. call[s] # Free /\ call'[s].seen = call[s].seen /\ call'[s].health = call[s].health
    BY <1>1 DEF Passed
  <2>2. call[s].seen \in Sites /\ call[s].health \in Stamps
    BY <2>1 DEF CallsDated
  <2> QED BY <2>1, <2>2
<1>2. \A s \in Slots : call'[s] # Free => call'[s].seen \in Sites /\ call'[s].health \in Stamps
  BY <1>1
<1> QED BY <1>2 DEF CallsDated

LEMMA PassedSame == Passed(call)
  BY DEF Passed

LEMMA PassedOne ==
  ASSUME Typed, NEW s \in Slots, NEW new,
         new = Free \/ (call[s] # Free /\ new.seen = call[s].seen /\ new.health = call[s].health)
  PROVE  Passed([call EXCEPT ![s] = new])
  BY DEF Passed, Typed

LEMMA PassedRes ==
  ASSUME Typed, NEW s \in Slots, call[s] # Free, NEW x
  PROVE  Passed([call EXCEPT ![s].res = x])
<1> DEFINE new == [call[s] EXCEPT !.res = x]
<1>1. call[s] \in CallType
  BY CallAt
<1>2. new.seen = call[s].seen /\ new.health = call[s].health
  BY <1>1 DEF CallType
<1> HIDE DEF new
<1>3. Passed([call EXCEPT ![s] = new])
  BY <1>2, PassedOne
<1> QED BY <1>3 DEF new

LEMMA PassedLeft ==
  ASSUME Typed, NEW s \in Slots, call[s] # Free
  PROVE  Passed([call EXCEPT ![s].waiting = FALSE])
<1> DEFINE new == [call[s] EXCEPT !.waiting = FALSE]
<1>1. call[s] \in CallType
  BY CallAt
<1>2. new.seen = call[s].seen /\ new.health = call[s].health
  BY <1>1 DEF CallType
<1> HIDE DEF new
<1>3. Passed([call EXCEPT ![s] = new])
  BY <1>2, PassedOne
<1> QED BY <1>3 DEF new

LEMMA PassedFreed ==
  ASSUME Typed, NEW s \in Slots
  PROVE  Passed([call EXCEPT ![s] = Free])
  BY PassedOne

LEMMA PassedOutdated ==
  ASSUME NEW calls, calls \in [Slots -> {Free} \cup CallType], Passed(calls), NEW t \in Tabs
  PROVE  Passed(Outdated(t, calls))
<1> SUFFICES ASSUME NEW s \in Slots, Outdated(t, calls)[s] # Free
             PROVE  /\ call[s] # Free
                    /\ Outdated(t, calls)[s].seen = call[s].seen
                    /\ Outdated(t, calls)[s].health = call[s].health
  BY DEF Passed
<1>1. CASE calls[s] # Free /\ calls[s].tab = t
  <2>1. Outdated(t, calls)[s] = [calls[s] EXCEPT !.current = FALSE] /\ calls[s] \in CallType
    BY <1>1 DEF Outdated
  <2>2. /\ Outdated(t, calls)[s].seen = calls[s].seen
        /\ Outdated(t, calls)[s].health = calls[s].health
    BY <2>1 DEF CallType
  <2> QED BY <1>1, <2>2 DEF Passed
<1>2. CASE ~(calls[s] # Free /\ calls[s].tab = t)
  <2>1. Outdated(t, calls)[s] = calls[s]
    BY <1>2 DEF Outdated
  <2> QED BY <2>1 DEF Passed
<1> QED BY <1>1, <1>2

\* An editor that goes on shows what it did.
LEMMA EditorsStayDated ==
  /\ EditorsDated
  /\ \A t \in Tabs : editor'[t].open =>
        \/ /\ editor[t].open /\ editor'[t].seen = editor[t].seen
           /\ editor'[t].health = editor[t].health
        \/ editor'[t].seen \in Sites /\ editor'[t].health \in Stamps
  => EditorsDated'
<1> SUFFICES ASSUME EditorsDated,
                    \A t \in Tabs : editor'[t].open =>
                       \/ /\ editor[t].open /\ editor'[t].seen = editor[t].seen
                          /\ editor'[t].health = editor[t].health
                       \/ editor'[t].seen \in Sites /\ editor'[t].health \in Stamps
             PROVE  EditorsDated'
  OBVIOUS
<1>1. ASSUME NEW t \in Tabs, editor'[t].open
      PROVE  editor'[t].seen \in Sites /\ editor'[t].health \in Stamps
  <2>1. editor[t].open => editor[t].seen \in Sites /\ editor[t].health \in Stamps
    BY DEF EditorsDated
  <2>2. CASE /\ editor[t].open /\ editor'[t].seen = editor[t].seen
             /\ editor'[t].health = editor[t].health
    BY <2>1, <2>2
  <2> QED BY <1>1, <2>2
<1> QED BY <1>1 DEF EditorsDated

LEMMA CountedStays ==
  ASSUME Typed, EditorsDated, NEW s \in Slots, call[s] # Free, NEW n, Applied(call[s], n)
  PROVE  EditorsDated'
<1>1. CASE editor' = editor
  BY <1>1 DEF EditorsDated
<1>2. CASE editor' # editor
  <2>1. call[s] \in CallType /\ call[s].tab \in Tabs
    BY CallAt DEF CallType
  <2>2. PICK u \in Tabs : editor' = [editor EXCEPT ![u].applied = @ + n]
    BY <1>2, <2>1 DEF Applied
  <2>3. ASSUME NEW t \in Tabs, editor'[t].open
        PROVE  /\ editor[t].open /\ editor'[t].seen = editor[t].seen
               /\ editor'[t].health = editor[t].health
    <3>1. CASE t # u
      BY <2>2, <2>3, <3>1 DEF Typed
    <3>2. CASE t = u
      <4>1. editor'[t] = [editor[t] EXCEPT !.applied = @ + n]
        BY <2>2, <3>2 DEF Typed
      <4>2. CASE editor[t] = NoEditor
        BY <2>3, <4>1, <4>2 DEF NoEditor
      <4>3. CASE editor[t] \in OpenEditors
        BY <4>1, <4>3 DEF OpenEditors
      <4> QED BY <4>2, <4>3 DEF Typed
    <3> QED BY <3>1, <3>2
  <2>4. \A t \in Tabs : editor'[t].open =>
           /\ editor[t].open /\ editor'[t].seen = editor[t].seen
           /\ editor'[t].health = editor[t].health
    BY <2>3
  <2> QED BY <2>4, EditorsStayDated
<1> QED BY <1>1, <1>2

-----------------------------------------------------------------------------
LEMMA SitesAreTyped == Sites \subseteq SiteType
  BY StampsAreNumbers DEF Sites, SiteType

LEMMA StampedSites ==
  ASSUME NEW v \in SiteType, v.ver \in Stamps, v.head \in Stamps, v.order \in Stamps,
         \A r \in RuleIds : v.rules[r].body \in Stamps
  PROVE  v \in Sites
<1>1. v.rules \in [RuleIds -> [rev : Nat, body : Nat]] /\ v.rev \in Nat /\ v.live \in BOOLEAN
  BY DEF SiteType
<1>2. ASSUME NEW r \in RuleIds PROVE v.rules[r] \in [rev : Nat, body : Stamps]
  BY <1>1
<1>3. v.rules \in [RuleIds -> [rev : Nat, body : Stamps]]
  BY <1>1, <1>2
<1> QED BY <1>1, <1>3 DEF Sites, SiteType

LEMMA BumpDated ==
  ASSUME NEW v \in Sites, NEW u \in Sites
  PROVE  BumpSite(v, u) \in Sites
<1> DEFINE b == BumpSite(v, u)
<1>1. v \in SiteType /\ u \in SiteType
  BY SitesAreTyped
<1>2. b \in SiteType
  BY <1>1, BumpFacts
<1>3. b.ver = v.ver /\ b.head = v.head /\ b.order = v.order
  BY <1>1 DEF BumpSite, SiteType
<1>4. ASSUME NEW r \in RuleIds PROVE b.rules[r].body \in {0, v.rules[r].body}
  BY <1>1 DEF BumpSite, SiteType, NoBody
<1> HIDE DEF b
<1>5. /\ v.ver \in Stamps /\ v.head \in Stamps /\ v.order \in Stamps
      /\ \A r \in RuleIds : v.rules[r].body \in Stamps
  BY DEF Sites
<1>6. b \in Sites
  BY <1>2, <1>3, <1>4, <1>5, StampsAreNumbers, StampedSites
<1> QED BY <1>6 DEF b

LEMMA SetRuleDated ==
  ASSUME NEW v \in Sites, NEW r \in RuleIds, NEW k \in Stamps
  PROVE  SetRule(v, r, k) \in Sites
  BY DEF SetRule, Sites

\* Putting other numbers in place of the head and the order.
LEMMA PutDated ==
  ASSUME NEW v \in Sites, NEW k \in Stamps
  PROVE  /\ [v EXCEPT !.order = k] \in Sites
         /\ [v EXCEPT !.ver = k] \in Sites
         /\ [v EXCEPT !.head = k, !.rev = @ + 1] \in Sites
<1>1. [v EXCEPT !.order = k] \in Sites /\ [v EXCEPT !.ver = k] \in Sites
  BY DEF Sites
<1>2. v.rev + 1 \in Nat
  BY DEF Sites
<1>3. ASSUME NEW n \in Nat PROVE [v EXCEPT !.head = k, !.rev = n] \in Sites
  BY DEF Sites
<1> QED BY <1>1, <1>2, <1>3

\* A rule moves on.
LEMMA MovedDated ==
  ASSUME NEW v \in Sites, NEW r \in RuleIds
  PROVE  [v EXCEPT !.rules[r].rev = @ + 1] \in Sites
<1>1. v.rules[r].rev + 1 \in Nat
  BY DEF Sites
<1>2. ASSUME NEW n \in Nat PROVE [v EXCEPT !.rules[r].rev = n] \in Sites
  BY DEF Sites
<1> QED BY <1>1, <1>2

LEMMA WrittenDated ==
  ASSUME NEW c, NEW stamp \in Stamps, NEW id, Accepted(c, stamp, id), site \in Sites,
         c.seen \in Sites
  PROVE  Written(c, stamp, id) \in Sites
<1>1. c \in CallType /\ c.kind \in Kinds /\ 0 \in Stamps
  BY StampsAreNumbers DEF Accepted, CallType
<1>2. CASE c.kind = "site"
  <2> DEFINE v == [site EXCEPT !.head = stamp, !.order = c.seen.order, !.rules = c.seen.rules]
  <2>1. v \in Sites
    BY DEF Sites
  <2>2. Written(c, stamp, id) = BumpSite(v, site)
    BY <1>2 DEF Written
  <2> HIDE DEF v
  <2> QED BY <2>1, <2>2, BumpDated
<1>3. CASE c.kind = "flip"
  <2>1. Written(c, stamp, id) = [site EXCEPT !.head = stamp, !.rev = @ + 1]
    BY <1>3 DEF Written
  <2> QED BY <1>1, <2>1, PutDated
<1>4. CASE c.kind = "drop"
  <2>1. Written(c, stamp, id) = [site EXCEPT !.live = FALSE]
    BY <1>4 DEF Written
  <2> QED BY <2>1 DEF Sites
<1>5. CASE c.kind = "order"
  <2>1. Written(c, stamp, id) = BumpSite([site EXCEPT !.order = stamp], site)
    BY <1>5 DEF Written
  <2>2. PICK v \in Sites : v = [site EXCEPT !.order = stamp]
    BY PutDated
  <2> QED BY <2>1, <2>2, BumpDated
<1>6. CASE c.kind = "toggle"
  <2>1. Written(c, stamp, id) = BumpSite(SetRule(site, c.rule, stamp), site)
    BY <1>6 DEF Written
  <2>2. c.rule \in RuleIds
    BY <1>1, <1>6 DEF CallType, RuleKinds
  <2> QED BY <1>1, <2>1, <2>2, SetRuleDated, BumpDated
<1>7. CASE c.kind = "delete"
  <2>1. Written(c, stamp, id)
           = BumpSite([SetRule(site, c.rule, 0) EXCEPT !.order = stamp], site)
    BY <1>7 DEF Written
  <2>2. c.rule \in RuleIds
    BY <1>1, <1>7 DEF CallType, RuleKinds
  <2>3. PICK v \in Sites : v = SetRule(site, c.rule, 0)
    BY <1>1, <2>2, SetRuleDated
  <2>4. [v EXCEPT !.order = stamp] \in Sites
    BY <2>3, PutDated
  <2> QED BY <1>1, <2>1, <2>3, <2>4, BumpDated
<1>8. CASE c.kind = "new"
  <2>1. Written(c, stamp, id)
           = BumpSite([SetRule(site, id, stamp) EXCEPT !.order = stamp], site)
    BY <1>8 DEF Written
  <2>2. id \in RuleIds
    BY <1>8 DEF Accepted
  <2>3. PICK v \in Sites : v = SetRule(site, id, stamp)
    BY <1>1, <2>2, SetRuleDated
  <2>4. [v EXCEPT !.order = stamp] \in Sites
    BY <2>3, PutDated
  <2> QED BY <1>1, <2>1, <2>3, <2>4, BumpDated
<1>9. CASE c.kind = "rule"
  <2>1. c.rule \in RuleIds
    BY <1>1, <1>9 DEF CallType, RuleKinds
  <2>2. PICK k \in Stamps :
           Written(c, stamp, id) = BumpHealth(BumpSite(SetRule(site, c.rule, k), site), site, c)
    <3>1. c.seen.rules[c.rule].body \in Stamps
      BY <2>1 DEF Sites
    <3> QED BY <1>9, <3>1 DEF Written
  <2>3. SetRule(site, c.rule, k) \in Sites
    BY <2>1, SetRuleDated
  <2>4. PICK b : b = BumpSite(SetRule(site, c.rule, k), site)
    OBVIOUS
  <2>5. b \in Sites
    BY <2>3, <2>4, BumpDated
  <2>6. [b EXCEPT !.rules[c.rule].rev = @ + 1] \in Sites
    BY <2>1, <2>5, MovedDated
  <2>7. Written(c, stamp, id) = BumpHealth(b, site, c)
    BY <2>2, <2>4
  <2> QED BY <2>5, <2>6, <2>7 DEF BumpHealth
<1> QED BY <1>1, <1>2, <1>3, <1>4, <1>5, <1>6, <1>7, <1>8, <1>9 DEF Kinds

LEMMA HealthDated ==
  ASSUME NEW c, NEW next, NEW id, NEW stamp \in Stamps, health \in [RuleIds -> Stamps],
         c.health \in Stamps
  PROVE  HealthWritten(c, next, stamp, id) \in [RuleIds -> Stamps]
<1>1. CASE c.kind \in {"site", "flip"}
  BY <1>1 DEF HealthWritten
<1>2. CASE c.kind \notin {"site", "flip"}
  <2>1. ASSUME NEW r \in RuleIds
        PROVE  (CASE ~HasRule(next, r) -> 0
                  [] HasRule(next, r) /\ r \in {c.rule, id} /\ c.kind \in {"rule", "new"} ->
                        IF "health" \in c.changes THEN stamp ELSE c.health
                  [] OTHER -> health[r]) \in Stamps
    BY StampsAreNumbers
  <2> QED BY <1>2, <2>1 DEF HealthWritten
<1> QED BY <1>1, <1>2

-----------------------------------------------------------------------------
(* The steps                                                               *)

\* The tabs' dialogs keep what they were filled from.
LEMMA DialogsStayDated ==
  /\ DialogsDated
  /\ \A t \in Tabs : dialog'[t].open =>
        \/ dialog[t].open /\ dialog'[t].seen = dialog[t].seen
        \/ dialog'[t].seen \in Sites
  => DialogsDated'
<1> SUFFICES ASSUME DialogsDated,
                    \A t \in Tabs : dialog'[t].open =>
                       \/ dialog[t].open /\ dialog'[t].seen = dialog[t].seen
                       \/ dialog'[t].seen \in Sites
             PROVE  DialogsDated'
  OBVIOUS
<1>1. ASSUME NEW t \in Tabs, dialog'[t].open
      PROVE  dialog'[t].seen \in Sites
  BY <1>1 DEF DialogsDated
<1> QED BY <1>1 DEF DialogsDated

\* Every probe is the one it was, or was asked for or answered just now.
LEMMA ProbesStayDated ==
  /\ ProbesDated
  /\ \A t \in Tabs : \A p \in probes'[t] :
        p.health \in Stamps \/ \E q \in probes[t] : p.health = q.health
  => ProbesDated'
<1> SUFFICES ASSUME ProbesDated,
                    \A t \in Tabs : \A p \in probes'[t] :
                       p.health \in Stamps \/ \E q \in probes[t] : p.health = q.health
             PROVE  ProbesDated'
  OBVIOUS
<1>1. ASSUME NEW t \in Tabs, NEW p \in probes'[t]
      PROVE  p.health \in Stamps
  BY <1>1 DEF ProbesDated
<1> QED BY <1>1 DEF ProbesDated

LEMMA OutdatedStayDated ==
  ASSUME Typed, ProbesDated, NEW t \in Tabs, NEW more, \A p \in more : p.health \in Stamps,
         probes' = [probes EXCEPT ![t] = OutdatedProbes(t) \cup more]
  PROVE  ProbesDated'
<1>1. ASSUME NEW u \in Tabs, NEW p \in probes'[u]
      PROVE  p.health \in Stamps \/ \E q \in probes[u] : p.health = q.health
  <2>1. CASE u # t \/ p \in more
    <3>1. CASE u # t
      BY <1>1, <3>1 DEF Typed
    <3> QED BY <2>1, <3>1
  <2>2. CASE u = t /\ p \notin more
    <3>1. PICK q \in probes[t] : p = [q EXCEPT !.current = FALSE]
      BY <1>1, <2>2 DEF Typed, OutdatedProbes
    <3>2. q \in ProbeType
      BY DEF Typed
    <3>3. p.health = q.health
      BY <3>1, <3>2 DEF ProbeType
    <3> QED BY <2>2, <3>3
  <2> QED BY <2>1, <2>2
<1>2. \A u \in Tabs : \A p \in probes'[u] :
         p.health \in Stamps \/ \E q \in probes[u] : p.health = q.health
  BY <1>1
<1> QED BY <1>2, ProbesStayDated

LEMMA OldStayDated ==
  ASSUME Typed, ProbesDated, NEW t \in Tabs, probes' = [probes EXCEPT ![t] = OutdatedProbes(t)]
  PROVE  ProbesDated'
<1>1. PICK none : none = {}
  OBVIOUS
<1>2. probes' = [probes EXCEPT ![t] = OutdatedProbes(t) \cup none] /\ \A p \in none : FALSE
  BY <1>1
<1> QED BY <1>2, OutdatedStayDated

LEMMA RefuseDated ==
  ASSUME IInv, StampsInv, NEW s \in Slots, Refuse(s) \/ Reject(s)
  PROVE  StampsInv'
<1>1. call[s] # Free /\ UNCHANGED <<server, tabs, history>>
      /\ \E x : call' = [call EXCEPT ![s].res = x]
  BY DEF Refuse, Reject, Free
<1>2. Passed(call')
  BY <1>1, PassedRes DEF IInv
<1>3. SameServer /\ UNCHANGED <<page, dialog, editor, probes>>
  BY <1>1 DEF SameServer, server, tabs, history
<1> QED BY <1>2, <1>3, CallsStayDated, ServerStays, TabsStay DEF StampsInv

LEMMA ChangeStaysDated ==
  ASSUME IInv, StampsInv, NEW s \in Slots, NEW x \in {"ok", "failed"}, ChangeStays(s, x)
  PROVE  StampsInv'
<1>1. call[s] # Free
  BY IdsAssumption DEF ChangeStays, IInv, Holder
<1>2. Passed(call')
  BY <1>1, PassedRes DEF ChangeStays, IInv
<1>3. UNCHANGED <<site, health, edits, page, dialog, editor, probes>>
      /\ prior' = [site |-> site, health |-> health]
  BY DEF ChangeStays, tabs, history
<1>4. ServerDated'
  BY <1>3 DEF StampsInv, ServerDated
<1> QED BY <1>2, <1>3, <1>4, CallsStayDated, TabsStay DEF StampsInv

LEMMA UndoFailedDated ==
  ASSUME IInv, StampsInv, NEW s \in Slots, UndoFailed(s)
  PROVE  StampsInv'
<1>1. call[s] # Free
  BY IdsAssumption DEF UndoFailed, IInv, Holder
<1>2. Passed(call')
  BY <1>1, PassedRes DEF UndoFailed, IInv
<1>3. UNCHANGED <<prior, edits, page, dialog, probes>>
      /\ site' = prior.site /\ health' = prior.health
  BY DEF UndoFailed
<1>4. ServerDated'
  BY <1>3 DEF StampsInv, ServerDated
<1>5. EditorsDated'
  BY <1>1, CountedStays DEF UndoFailed, IInv, StampsInv, TabsDated
<1>6. TabsDated'
  BY <1>3, <1>5 DEF StampsInv, TabsDated, PagesDated, DialogsDated, ProbesDated
<1> QED BY <1>2, <1>4, <1>6, CallsStayDated DEF StampsInv

LEMMA CommitDated ==
  ASSUME IInv, StampsInv, NEW s \in Slots, NEW id \in RuleIds \cup {NoRule}, Commit(s, id)
  PROVE  StampsInv'
<1> DEFINE c == call[s]
           stamp == edits + 1
           n == Written(c, stamp, id)
<1>1. /\ c # Free /\ edits < MaxEdits
      /\ IF c.kind = "new" THEN id \in RuleIds ELSE id = NoRule
      /\ site' = [n EXCEPT !.ver = stamp]
      /\ health' = HealthWritten(c, n, stamp, id)
      /\ prior' = [site |-> site, health |-> health] /\ edits' = stamp
      /\ call' = [call EXCEPT ![s].res = "reloading"]
      /\ UNCHANGED <<page, dialog, probes>>
  BY DEF Commit, Free
<1>2. stamp \in Stamps /\ stamp \in Nat \ {0}
  BY <1>1, IdsAssumption DEF StampsInv, ServerDated, Stamps
<1>3. Accepted(c, stamp, id)
  BY <1>1, <1>2, CallAt DEF Accepted, IInv, Typed
<1>4. c.seen \in Sites /\ c.health \in Stamps
  BY <1>1 DEF StampsInv, CallsDated
<1> HIDE DEF c, stamp, n
<1>5. n \in Sites
  BY <1>2, <1>3, <1>4, WrittenDated DEF n, StampsInv, ServerDated
<1>6. site' \in Sites
  BY <1>1, <1>2, <1>5, PutDated
<1>7. health' \in [RuleIds -> Stamps]
  BY <1>1, <1>2, <1>4, HealthDated DEF StampsInv, ServerDated
<1>8. ServerDated'
  BY <1>1, <1>2, <1>6, <1>7 DEF StampsInv, ServerDated
<1>9. EditorsDated'
  BY <1>1, CountedStays DEF Commit, IInv, StampsInv, TabsDated, c
<1>10. TabsDated'
  BY <1>1, <1>9 DEF StampsInv, TabsDated, PagesDated, DialogsDated, ProbesDated
<1>11. Passed(call')
  BY <1>1, PassedRes DEF IInv, c
<1> QED BY <1>8, <1>10, <1>11, CallsStayDated DEF StampsInv

LEMMA ServeHealthDated ==
  ASSUME IInv, StampsInv, NEW t \in Tabs, NEW p \in probes[t], ServeHealth(t, p)
  PROVE  StampsInv'
<1>1. UNCHANGED <<site, health, prior, edits, page, dialog, editor, call>>
  BY DEF ServeHealth, server, history
<1>2. p \in ProbeType
  BY DEF IInv, Typed
<1>3. PICK new : new = [p EXCEPT !.served = TRUE, !.health = health[p.rule]]
  OBVIOUS
<1>4. new.health \in Stamps
  BY <1>2, <1>3 DEF ProbeType, StampsInv, ServerDated
<1>5. probes' = [probes EXCEPT ![t] = (@ \ {p}) \cup {new}]
  BY <1>3 DEF ServeHealth
<1>6. ASSUME NEW u \in Tabs, NEW q \in probes'[u]
      PROVE  q.health \in Stamps \/ \E o \in probes[u] : q.health = o.health
  <2>1. q = new \/ q \in probes[u]
    BY <1>5, <1>6 DEF IInv, Typed
  <2> QED BY <1>4, <2>1
<1>7. ProbesDated'
  BY <1>6, ProbesStayDated DEF StampsInv, TabsDated
<1>8. TabsDated'
  BY <1>1, <1>7 DEF StampsInv, TabsDated, PagesDated, DialogsDated, EditorsDated
<1>9. Passed(call')
  BY <1>1, PassedSame
<1> QED BY <1>1, <1>8, <1>9, CallsStayDated, ServerStays DEF StampsInv, SameServer

\* What a tab does leaves the server alone.
LEMMA TabActionDated ==
  /\ StampsInv
  /\ UNCHANGED <<site, health, prior, edits>>
  /\ TabsDated'
  /\ CallsDated'
  => StampsInv'
  BY ServerStays DEF StampsInv, SameServer

LEMMA LoadDated ==
  ASSUME IInv, StampsInv, NEW t \in Tabs, Load(t)
  PROVE  StampsInv'
<1>1. UNCHANGED <<site, health, prior, edits, dialog, editor, probes, call>>
      /\ page' = [page EXCEPT ![t] = site]
  BY DEF Load, server, history
<1>2. ASSUME NEW u \in Tabs PROVE page'[u] \in Sites
  BY <1>1 DEF IInv, Typed, StampsInv, ServerDated, TabsDated, PagesDated
<1>3. PagesDated'
  BY <1>2 DEF PagesDated
<1>4. TabsDated'
  BY <1>1, <1>3 DEF StampsInv, TabsDated, DialogsDated, EditorsDated, ProbesDated
<1>5. CallsDated'
  BY <1>1, PassedSame, CallsStayDated DEF StampsInv
<1> QED BY <1>1, <1>4, <1>5, TabActionDated

LEMMA OpenSiteDated ==
  ASSUME IInv, StampsInv, NEW t \in Tabs, OpenSite(t)
  PROVE  StampsInv'
<1>1. UNCHANGED <<site, health, prior, edits, page, editor, probes, call>>
      /\ dialog' = [dialog EXCEPT ![t] = [open |-> TRUE, saving |-> @.saving, seen |-> page[t]]]
  BY DEF OpenSite, server, history
<1>2. ASSUME NEW u \in Tabs, dialog'[u].open
      PROVE  (dialog[u].open /\ dialog'[u].seen = dialog[u].seen) \/ dialog'[u].seen \in Sites
  BY <1>1, <1>2 DEF IInv, Typed, StampsInv, TabsDated, PagesDated
<1>3. DialogsDated'
  BY <1>2, DialogsStayDated DEF StampsInv, TabsDated
<1>4. TabsDated'
  BY <1>1, <1>3 DEF StampsInv, TabsDated, PagesDated, EditorsDated, ProbesDated
<1>5. CallsDated'
  BY <1>1, PassedSame, CallsStayDated DEF StampsInv
<1> QED BY <1>1, <1>4, <1>5, TabActionDated

LEMMA CloseSiteDated ==
  ASSUME IInv, StampsInv, NEW t \in Tabs, CloseSite(t)
  PROVE  StampsInv'
<1>1. UNCHANGED <<site, health, prior, edits, page, editor, probes, call>>
      /\ dialog' = [dialog EXCEPT ![t] = [NoDialog EXCEPT !.saving = dialog[t].saving]]
  BY DEF CloseSite, server, history
<1>2. ASSUME NEW u \in Tabs, dialog'[u].open
      PROVE  (dialog[u].open /\ dialog'[u].seen = dialog[u].seen) \/ dialog'[u].seen \in Sites
  BY <1>1, <1>2 DEF IInv, Typed, NoDialog
<1>3. DialogsDated'
  BY <1>2, DialogsStayDated DEF StampsInv, TabsDated
<1>4. TabsDated'
  BY <1>1, <1>3 DEF StampsInv, TabsDated, PagesDated, EditorsDated, ProbesDated
<1>5. CallsDated'
  BY <1>1, PassedSame, CallsStayDated DEF StampsInv
<1> QED BY <1>1, <1>4, <1>5, TabActionDated

LEMMA SendDated ==
  ASSUME Typed, CallsDated, NEW s \in Slots, NEW t, NEW kind, NEW r, NEW expected,
         NEW seen \in Sites, NEW h \in Stamps, NEW changes,
         Send(s, t, kind, r, expected, seen, h, changes)
  PROVE  CallsDated'
<1>1. PICK c : /\ call' = [call EXCEPT ![s] = c]
               /\ c.seen = seen /\ c.health = h
  <2> DEFINE c == [tab |-> t, kind |-> kind, rule |-> r, expected |-> expected,
                   seen |-> seen, health |-> h, changes |-> changes,
                   current |-> TRUE, waiting |-> TRUE, res |-> "sent"]
  <2>1. call' = [call EXCEPT ![s] = c]
    BY DEF Send
  <2>2. c.seen = seen /\ c.health = h
    OBVIOUS
  <2> HIDE DEF c
  <2> QED BY <2>1, <2>2
<1>2. ASSUME NEW q \in Slots, call'[q] # Free
      PROVE  call'[q].seen \in Sites /\ call'[q].health \in Stamps
  <2>1. CASE q = s
    BY <1>1, <2>1 DEF Typed
  <2>2. CASE q # s
    BY <1>1, <1>2, <2>2 DEF Typed, CallsDated
  <2> QED BY <2>1, <2>2
<1> QED BY <1>2 DEF CallsDated

LEMMA ClickDated ==
  ASSUME IInv, StampsInv, NEW t \in Tabs, NEW s \in Slots,
         (\E kind \in {"flip", "drop", "order"} : ClickSite(t, s, kind))
         \/ \E kind \in {"toggle", "delete"}, r \in RuleIds : ClickRule(t, s, kind, r)
  PROVE  StampsInv'
<1>1. UNCHANGED <<site, health, prior, edits, page, dialog, editor, probes>>
  BY DEF ClickSite, ClickRule, server, tabs
<1>2. page[t] \in Sites /\ 0 \in Stamps
  BY StampsAreNumbers DEF StampsInv, TabsDated, PagesDated
<1>3. \E kind, r, expected : Send(s, t, kind, r, expected, page[t], 0, {})
  BY DEF ClickSite, ClickRule
<1>4. CallsDated'
  BY <1>2, <1>3, SendDated DEF IInv, StampsInv
<1>5. TabsDated'
  BY <1>1, TabsStay DEF StampsInv
<1> QED BY <1>1, <1>4, <1>5, TabActionDated

LEMMA SaveSiteDated ==
  ASSUME IInv, StampsInv, NEW t \in Tabs, NEW s \in Slots, SaveSite(t, s)
  PROVE  StampsInv'
<1>1. UNCHANGED <<site, health, prior, edits, page, editor, probes>>
      /\ dialog' = [dialog EXCEPT ![t].saving = TRUE]
      /\ dialog[t].open
  BY DEF SaveSite, server
<1>2. dialog[t].seen \in Sites /\ 0 \in Stamps
  BY <1>1, StampsAreNumbers DEF StampsInv, TabsDated, DialogsDated
<1>3. CallsDated'
  BY <1>2, SendDated DEF IInv, StampsInv, SaveSite
<1>4. ASSUME NEW u \in Tabs, dialog'[u].open
      PROVE  dialog[u].open /\ dialog'[u].seen = dialog[u].seen
  BY <1>1, <1>4 DEF IInv, Typed, DialogType
<1>5. DialogsDated'
  BY <1>4, DialogsStayDated DEF StampsInv, TabsDated
<1>6. TabsDated'
  BY <1>1, <1>5 DEF StampsInv, TabsDated, PagesDated, EditorsDated, ProbesDated
<1> QED BY <1>1, <1>3, <1>6, TabActionDated

LEMMA OutdatedCallsDated ==
  ASSUME IInv, StampsInv, NEW t \in Tabs, NEW calls,
         calls \in [Slots -> {Free} \cup CallType], Passed(calls),
         call' = calls \/ call' = Outdated(t, calls)
  PROVE  CallsDated'
  BY PassedOutdated, CallsStayDated DEF StampsInv

\* An editor that is turned over to another rule, or goes on.
LEMMA TurnDated ==
  ASSUME IInv, StampsInv, NEW t \in Tabs, NEW e, editor' = [editor EXCEPT ![t] = e],
         \/ ~e.open
         \/ e.seen = page[t] /\ e.health = 0
         \/ editor[t].open /\ e.seen = editor[t].seen /\ e.health = editor[t].health
         \/ e.seen \in Sites /\ e.health \in Stamps
  PROVE  EditorsDated'
<1>1. page[t] \in Sites /\ 0 \in Stamps
  BY StampsAreNumbers DEF StampsInv, TabsDated, PagesDated
<1>2. ASSUME NEW u \in Tabs, editor'[u].open
      PROVE  \/ /\ editor[u].open /\ editor'[u].seen = editor[u].seen
                /\ editor'[u].health = editor[u].health
             \/ editor'[u].seen \in Sites /\ editor'[u].health \in Stamps
  <2>1. CASE u = t
    BY <1>1, <1>2, <2>1 DEF IInv, Typed
  <2>2. CASE u # t
    BY <1>2, <2>2 DEF IInv, Typed
  <2> QED BY <2>1, <2>2
<1>3. \A u \in Tabs : editor'[u].open =>
         \/ /\ editor[u].open /\ editor'[u].seen = editor[u].seen
            /\ editor'[u].health = editor[u].health
         \/ editor'[u].seen \in Sites /\ editor'[u].health \in Stamps
  BY <1>2
<1>4. EditorsDated
  BY DEF StampsInv, TabsDated
<1> QED BY <1>3, <1>4, EditorsStayDated

LEMMA OpenRuleDated ==
  ASSUME IInv, StampsInv, NEW t \in Tabs, NEW r \in RuleIds, OpenRule(t, r)
  PROVE  StampsInv'
<1>1. UNCHANGED <<site, health, prior, edits, page, dialog>>
      /\ probes' = [probes EXCEPT ![t] = OutdatedProbes(t) \cup {Probe(r)}]
      /\ call' = Outdated(t, call)
  BY DEF OpenRule, server
<1>2. CallsDated'
  BY <1>1, PassedSame, OutdatedCallsDated DEF IInv, Typed
<1>3. Probe(r).health \in Stamps
  BY StampsAreNumbers DEF Probe
<1>4. ProbesDated'
  BY <1>1, <1>3, OutdatedStayDated DEF IInv, StampsInv, TabsDated
<1>5. PICK e : editor' = [editor EXCEPT ![t] = e] /\ e.seen = page[t] /\ e.health = 0
  <2> DEFINE e == [open |-> TRUE, saving |-> FALSE, rule |-> r,
                   expected |-> page[t].rules[r].rev, seen |-> page[t],
                   load |-> "loading", health |-> 0, applied |-> 0]
  <2>1. editor' = [editor EXCEPT ![t] = e]
    BY DEF OpenRule
  <2>2. e.seen = page[t] /\ e.health = 0
    OBVIOUS
  <2> HIDE DEF e
  <2> QED BY <2>1, <2>2
<1>6. EditorsDated'
  BY <1>5, TurnDated
<1>7. TabsDated'
  BY <1>1, <1>4, <1>6 DEF StampsInv, TabsDated, PagesDated, DialogsDated
<1> QED BY <1>1, <1>2, <1>7, TabActionDated

LEMMA OpenNewRuleDated ==
  ASSUME IInv, StampsInv, NEW t \in Tabs, OpenNewRule(t)
  PROVE  StampsInv'
<1>1. UNCHANGED <<site, health, prior, edits, page, dialog>>
      /\ probes' = [probes EXCEPT ![t] = OutdatedProbes(t)]
      /\ call' = Outdated(t, call)
  BY DEF OpenNewRule, server
<1>2. CallsDated'
  BY <1>1, PassedSame, OutdatedCallsDated DEF IInv, Typed
<1>3. ProbesDated'
  BY <1>1, OldStayDated DEF IInv, StampsInv, TabsDated
<1>4. PICK e : editor' = [editor EXCEPT ![t] = e] /\ e.seen = page[t] /\ e.health = 0
  <2> DEFINE e == [open |-> TRUE, saving |-> FALSE, rule |-> NoRule,
                   expected |-> page[t].rev, seen |-> page[t],
                   load |-> "ready", health |-> 0, applied |-> 0]
  <2>1. editor' = [editor EXCEPT ![t] = e]
    BY DEF OpenNewRule
  <2>2. e.seen = page[t] /\ e.health = 0
    OBVIOUS
  <2> HIDE DEF e
  <2> QED BY <2>1, <2>2
<1>5. EditorsDated'
  BY <1>4, TurnDated
<1>6. TabsDated'
  BY <1>1, <1>3, <1>5 DEF StampsInv, TabsDated, PagesDated, DialogsDated
<1> QED BY <1>1, <1>2, <1>6, TabActionDated

LEMMA CloseRuleDated ==
  ASSUME IInv, StampsInv, NEW t \in Tabs, CloseRule(t)
  PROVE  StampsInv'
<1>1. UNCHANGED <<site, health, prior, edits, page, dialog>>
      /\ probes' = [probes EXCEPT ![t] = OutdatedProbes(t)]
      /\ call' = Outdated(t, call)
      /\ editor' = [editor EXCEPT ![t] = NoEditor]
  BY DEF CloseRule, server, history
<1>2. CallsDated'
  BY <1>1, PassedSame, OutdatedCallsDated DEF IInv, Typed
<1>3. ProbesDated'
  BY <1>1, OldStayDated DEF IInv, StampsInv, TabsDated
<1>4. ~NoEditor.open
  BY DEF NoEditor
<1>5. EditorsDated'
  BY <1>1, <1>4, TurnDated
<1>6. TabsDated'
  BY <1>1, <1>3, <1>5 DEF StampsInv, TabsDated, PagesDated, DialogsDated
<1> QED BY <1>1, <1>2, <1>6, TabActionDated

LEMMA RetryHealthDated ==
  ASSUME IInv, StampsInv, NEW t \in Tabs, RetryHealth(t)
  PROVE  StampsInv'
<1>1. UNCHANGED <<site, health, prior, edits, page, dialog, call>>
      /\ probes' = [probes EXCEPT ![t] = OutdatedProbes(t) \cup {Probe(editor[t].rule)}]
      /\ editor[t].open /\ editor' = [editor EXCEPT ![t].load = "loading"]
  BY DEF RetryHealth, server, history
<1>2. CallsDated'
  BY <1>1, PassedSame, CallsStayDated DEF StampsInv
<1>3. Probe(editor[t].rule).health \in Stamps
  BY StampsAreNumbers DEF Probe
<1>4. ProbesDated'
  BY <1>1, <1>3, OutdatedStayDated DEF IInv, StampsInv, TabsDated
<1>5. PICK e : e = [editor[t] EXCEPT !.load = "loading"]
  OBVIOUS
<1>6. e.seen = editor[t].seen /\ e.health = editor[t].health
  BY <1>1, <1>5, EditorAt DEF IInv, OpenEditors
<1>7. EditorsDated'
  BY <1>1, <1>5, <1>6, TurnDated
<1>8. TabsDated'
  BY <1>1, <1>4, <1>7 DEF StampsInv, TabsDated, PagesDated, DialogsDated
<1> QED BY <1>1, <1>2, <1>8, TabActionDated

LEMMA LoadEndsDated ==
  ASSUME IInv, StampsInv, NEW t \in Tabs, NEW p \in probes[t], NEW state, NEW setting \in Stamps,
         LoadEnds(t, p, state, setting)
  PROVE  StampsInv'
<1>1. UNCHANGED <<site, health, prior, edits, page, dialog, call>>
      /\ probes' = [probes EXCEPT ![t] = @ \ {p}]
  BY DEF LoadEnds, server, history
<1>2. CallsDated'
  BY <1>1, PassedSame, CallsStayDated DEF StampsInv
<1>3. ASSUME NEW u \in Tabs, NEW q \in probes'[u]
      PROVE  q \in probes[u]
  BY <1>1, <1>3 DEF IInv, Typed
<1>4. ProbesDated'
  BY <1>3, ProbesStayDated DEF StampsInv, TabsDated
<1>5. CASE editor' = editor
  <2>1. TabsDated'
    BY <1>1, <1>4, <1>5 DEF StampsInv, TabsDated, PagesDated, DialogsDated, EditorsDated
  <2> QED BY <1>1, <1>2, <2>1, TabActionDated
<1>6. CASE editor' # editor
  <2>1. editor[t].open /\ editor' = [editor EXCEPT ![t].load = state, ![t].health = setting]
    BY <1>6 DEF LoadEnds
  <2>2. PICK e : e = [editor[t] EXCEPT !.load = state, !.health = setting]
    OBVIOUS
  <2>3. e.seen = editor[t].seen /\ e.health = setting
    BY <2>1, <2>2, EditorAt DEF IInv, OpenEditors
  <2>4. editor' = [editor EXCEPT ![t] = e]
    BY <2>1, <2>2 DEF IInv, Typed
  <2>5. editor[t].seen \in Sites
    BY <2>1 DEF StampsInv, TabsDated, EditorsDated
  <2>6. EditorsDated'
    BY <2>3, <2>4, <2>5, TurnDated
  <2>7. TabsDated'
    BY <1>1, <1>4, <2>6 DEF StampsInv, TabsDated, PagesDated, DialogsDated
  <2> QED BY <1>1, <1>2, <2>7, TabActionDated
<1> QED BY <1>5, <1>6

LEMMA SaveRuleDated ==
  ASSUME IInv, StampsInv, NEW t \in Tabs, NEW s \in Slots, NEW changes, SaveRule(t, s, changes)
  PROVE  StampsInv'
<1>1. UNCHANGED <<site, health, prior, edits, page, dialog, probes>>
      /\ editor[t].open /\ editor' = [editor EXCEPT ![t].saving = TRUE]
  BY DEF SaveRule, server
<1>2. editor[t].seen \in Sites /\ editor[t].health \in Stamps
  BY <1>1 DEF StampsInv, TabsDated, EditorsDated
<1>3. CallsDated'
  BY <1>2, SendDated DEF IInv, StampsInv, SaveRule
<1>4. PICK e : e = [editor[t] EXCEPT !.saving = TRUE]
  OBVIOUS
<1>5. e.seen = editor[t].seen /\ e.health = editor[t].health
  BY <1>1, <1>4, EditorAt DEF IInv, OpenEditors
<1>6. EditorsDated'
  BY <1>1, <1>4, <1>5, TurnDated
<1>7. TabsDated'
  BY <1>1, <1>6 DEF StampsInv, TabsDated, PagesDated, DialogsDated, ProbesDated
<1> QED BY <1>1, <1>3, <1>7, TabActionDated

\* The answer to a change, or the end of the wait for it.
LEMMA ToldDated ==
  ASSUME IInv, StampsInv, NEW s \in Slots, call[s] # Free, NEW ok \in BOOLEAN, NEW calls,
         calls \in [Slots -> {Free} \cup CallType], Passed(calls), Told(s, ok, calls)
  PROVE  StampsInv'
<1> DEFINE t == call[s].tab
           mine == call[s].kind \in {"rule", "new"} /\ EditorCounts(call[s]) /\ editor[t].open
<1>1. /\ UNCHANGED <<site, health, prior, edits, page>>
      /\ dialog' = IF call[s].kind # "site" THEN dialog
                   ELSE [dialog EXCEPT ![t] = IF ok THEN NoDialog ELSE [@ EXCEPT !.saving = FALSE]]
      /\ editor' = IF ~mine THEN editor
                   ELSE [editor EXCEPT ![t] = IF ok THEN NoEditor
                                              ELSE [@ EXCEPT !.saving = FALSE]]
      /\ call' = IF mine /\ ok THEN Outdated(t, calls) ELSE calls
      /\ probes' = IF mine /\ ok THEN [probes EXCEPT ![t] = OutdatedProbes(t)] ELSE probes
  BY DEF Told, server, history
<1>2. t \in Tabs
  BY CallAt DEF IInv, CallType
<1>3. mine => editor[t].open
  OBVIOUS
<1> HIDE DEF t, mine
<1>4. CallsDated'
  BY <1>1, <1>2, OutdatedCallsDated
<1>5. ProbesDated'
  <2>1. CASE mine /\ ok
    BY <1>1, <1>2, <2>1, OldStayDated DEF IInv, StampsInv, TabsDated
  <2>2. CASE ~(mine /\ ok)
    BY <1>1, <2>2 DEF StampsInv, TabsDated, ProbesDated
  <2> QED BY <2>1, <2>2
<1>6. DialogsDated'
  <2>1. ASSUME NEW u \in Tabs, dialog'[u].open
        PROVE  dialog[u].open /\ dialog'[u].seen = dialog[u].seen
    <3>1. CASE dialog'[u] = dialog[u]
      BY <2>1, <3>1
    <3>2. CASE dialog'[u] # dialog[u]
      <4>1. u = t /\ dialog'[u] = IF ok THEN NoDialog ELSE [dialog[u] EXCEPT !.saving = FALSE]
        BY <1>1, <1>2, <3>2 DEF IInv, Typed
      <4>2. dialog[u] \in DialogType
        BY DEF IInv, Typed
      <4> QED BY <2>1, <4>1, <4>2 DEF DialogType, NoDialog
    <3> QED BY <3>1, <3>2
  <2> QED BY <2>1, DialogsStayDated DEF StampsInv, TabsDated
<1>7. EditorsDated'
  <2>1. CASE ~mine
    BY <1>1, <2>1 DEF StampsInv, TabsDated, EditorsDated
  <2>2. CASE mine /\ ok
    <3>1. ~NoEditor.open
      BY DEF NoEditor
    <3> QED BY <1>1, <1>2, <2>2, <3>1, TurnDated
  <2>3. CASE mine /\ ~ok
    <3>1. PICK e : e = [editor[t] EXCEPT !.saving = FALSE]
      OBVIOUS
    <3>2. e.seen = editor[t].seen /\ e.health = editor[t].health
      BY <1>2, <1>3, <2>3, <3>1, EditorAt DEF IInv, OpenEditors
    <3>3. editor' = [editor EXCEPT ![t] = e]
      BY <1>1, <2>3, <3>1
    <3> QED BY <1>2, <1>3, <2>3, <3>2, <3>3, TurnDated
  <2> QED BY <2>1, <2>2, <2>3
<1>8. TabsDated'
  BY <1>1, <1>5, <1>6, <1>7 DEF StampsInv, TabsDated, PagesDated
<1> QED BY <1>1, <1>4, <1>8, TabActionDated

LEMMA AnswersDated ==
  ASSUME IInv, StampsInv, NEW s \in Slots, Answered(s) \/ GiveUp(s) \/ Forgotten(s)
  PROVE  StampsInv'
<1>1. call[s] # Free
  <2>1. CASE Answered(s)
    BY <2>1 DEF Answered, Free
  <2> QED BY <2>1 DEF GiveUp, Forgotten
<1>2. PICK left : left = [call EXCEPT ![s] = Free]
  OBVIOUS
<1>3. left \in [Slots -> {Free} \cup CallType] /\ Passed(left)
  BY <1>2, PassedFreed DEF IInv, Typed
<1>4. CASE Answered(s)
  <2>1. PICK ok \in BOOLEAN : ok = (call[s].res = "ok")
    OBVIOUS
  <2>2. Told(s, ok, left)
    BY <1>2, <1>4, <2>1 DEF Answered
  <2> QED BY <1>1, <1>3, <2>2, ToldDated
<1>5. CASE GiveUp(s)
  <2>1. PICK waited : waited = [call EXCEPT ![s].waiting = FALSE]
    OBVIOUS
  <2>2. [call[s] EXCEPT !.waiting = FALSE] \in CallType
    BY ZenonT(60), <1>1, CallAt DEF IInv, CallType
  <2>3. waited \in [Slots -> {Free} \cup CallType]
    BY <2>1, <2>2 DEF IInv, Typed
  <2>4. Passed(waited)
    BY <1>1, <2>1, PassedLeft DEF IInv
  <2>5. Told(s, FALSE, waited)
    BY <1>5, <2>1 DEF GiveUp
  <2> QED BY <1>1, <2>3, <2>4, <2>5, ToldDated
<1>6. CASE Forgotten(s)
  <2>1. UNCHANGED <<site, health, prior, edits, page, dialog, editor, probes>> /\ call' = left
    BY <1>2, <1>6 DEF Forgotten, server, tabs, history
  <2>2. Passed(call')
    BY <1>3, <2>1
  <2> QED BY <2>1, <2>2, TabsStay, CallsStayDated, TabActionDated DEF StampsInv
<1> QED BY <1>4, <1>5, <1>6

LEMMA NextDated ==
  ASSUME IInv, StampsInv, [Next]_vars
  PROVE  StampsInv'
<1>1. CASE UNCHANGED vars
  <2>1. UNCHANGED <<site, health, prior, edits, page, dialog, editor, probes, call>>
    BY <1>1 DEF vars
  <2>2. Passed(call')
    BY <2>1, PassedSame
  <2> QED BY <2>1, <2>2, TabsStay, CallsStayDated, TabActionDated DEF StampsInv
<1>2. CASE Server
  BY <1>2, RefuseDated, ChangeStaysDated, UndoFailedDated, CommitDated, ServeHealthDated
     DEF Server, Reloaded, RollbackFails
<1>3. ASSUME NEW t \in Tabs, Tab(t)
      PROVE  StampsInv'
  <2>1. ASSUME NEW p \in probes[t], HealthArrives(t, p) \/ HealthFails(t, p)
        PROVE  StampsInv'
    <3>1. p.health \in Stamps /\ 0 \in Stamps
      BY StampsAreNumbers DEF StampsInv, TabsDated, ProbesDated
    <3> QED BY <2>1, <3>1, LoadEndsDated DEF HealthArrives, HealthFails
  <2> QED BY <1>3, <2>1, LoadDated, OpenSiteDated, CloseSiteDated, OpenNewRuleDated, CloseRuleDated,
             RetryHealthDated, OpenRuleDated, SaveSiteDated, ClickDated, SaveRuleDated DEF Tab
<1> QED BY <1>1, <1>2, <1>3, AnswersDated DEF Next

LEMMA InitDated ==
  ASSUME Init
  PROVE  StampsInv
<1>1. 0 \in Stamps /\ 1 \in Stamps
  BY IdsAssumption DEF Stamps
<1>2. [r \in RuleIds |-> IF r \in FirstRules THEN [rev |-> 1, body |-> 1] ELSE NoBody]
         \in [RuleIds -> [rev : Nat, body : Stamps]]
  BY <1>1 DEF NoBody
<1>3. FirstSite \in Sites
  BY <1>1, <1>2 DEF FirstSite, Sites
<1>4. FirstHealth \in [RuleIds -> Stamps]
  BY <1>1 DEF FirstHealth
<1>5. ServerDated
  BY <1>1, <1>3, <1>4 DEF Init, ServerDated
<1>6. TabsDated
  BY <1>3 DEF Init, TabsDated, PagesDated, DialogsDated, EditorsDated, ProbesDated, NoDialog,
              NoEditor
<1>7. CallsDated
  BY DEF Init, CallsDated
<1> QED BY <1>5, <1>6, <1>7 DEF StampsInv

\* What tabs, server and changes under way hold has its type (webproxy/api.go,
\* WebService.vue, SiteDialog.vue, RuleEditor.vue): every copy of the site bears
\* stamps of edits that were made, no editor has more changes taken back than were
\* made from it, and mutationMu is held by a change whose reload is under way.
THEOREM SiteEditingTyped == Spec => []TypeOK
<1>1. Init => IInv /\ OpeningInv /\ StampsInv
  BY InitSound, InitOpening, InitDated
<1>2. IInv /\ OpeningInv /\ StampsInv /\ [Next]_vars => IInv' /\ OpeningInv' /\ StampsInv'
  BY NextPreserves, NextKeepsOpening, NextDated
<1>3. IInv /\ OpeningInv /\ StampsInv => TypeOK
  <2> SUFFICES ASSUME IInv, OpeningInv, StampsInv
               PROVE  TypeOK
    OBVIOUS
  <2>1. site \in Sites /\ prior.site \in Sites /\ health \in [RuleIds -> Stamps]
    BY DEF StampsInv, ServerDated
  <2>2. page \in [Tabs -> Sites]
    BY DEF IInv, Typed, StampsInv, TabsDated, PagesDated
  <2>3. ASSUME NEW s \in Slots, call[s] # Free
        PROVE  call[s] \in Calls
    <3>1. call[s] \in CallType
      BY <2>3, CallAt DEF IInv
    <3>2. call[s].seen \in Sites /\ call[s].health \in Stamps
      BY <2>3 DEF StampsInv, CallsDated
    <3> QED BY <3>1, <3>2 DEF CallType, Calls, Results
  <2>4. ASSUME NEW t \in Tabs, editor[t].open
        PROVE  editor[t].applied \in Nat
    <3>1. editor[t].applied \in Int
      BY <2>4, EditorAt, AppliedIsInt DEF IInv
    <3>2. IsFiniteSet(Landed(t)) /\ Cardinality(Landed(t)) <= editor[t].applied
      BY <2>4 DEF OpeningInv, LandedCount
    <3>3. Cardinality(Landed(t)) \in Nat
      BY <3>2, FS_CardinalityType
    <3> QED BY <3>1, <3>2, <3>3
  <2>5. busy \in Slots \cup {NoSlot} /\ (busy # NoSlot => call[busy].res = "reloading")
    BY DEF IInv, Typed, Holder
  <2> QED BY <2>1, <2>2, <2>3, <2>4, <2>5 DEF TypeOK
<1> QED BY <1>1, <1>2, <1>3, PTL DEF Spec

=============================================================================
