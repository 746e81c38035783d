----------------------------- MODULE SiteSeries -----------------------------
(***************************************************************************)
(* The traffic chart of the dashboard (Dashboard.vue): the list of the     *)
(* sites is loaded one load at a time, by a timer or by the user; the      *)
(* chart is of one of those sites and of one range, and is loaded by every *)
(* choice of either.  Loads of the chart may overtake each other: each is  *)
(* of the generation that was current when it was asked for.               *)
(***************************************************************************)
EXTENDS Integers, FiniteSets

CONSTANTS
    Sites,   \* the sites there are at first
    Ranges,  \* the ranges that can be selected
    Slots,   \* names of the loads of the chart that can be under way
    NoSite,  \* no site is chosen
    MaxLost  \* bound on the requests that fail

VARIABLES
    mounted, \* the page is on the screen
    sites,   \* the sites the server has
    listed,  \* those the page knows
    site,    \* the chosen site
    range,   \* the chosen range
    chart,   \* what the chart is of: a set of at most one choice
    waiting, \* chartLoading
    list,    \* the load of the list under way
    req,     \* req[s]: a load of the chart under way
    lost,    \* requests that failed so far
    replaced \* history: a chosen site was deleted and another put in its place

vars == <<mounted, sites, listed, site, range, chart, waiting, list, req,
          lost, replaced>>
choice == <<site, range>>

Free    == [at |-> "none"]
Lists   == [at : {"sent", "ok"}, got : SUBSET Sites]
Choices == [site : Sites, range : Ranges]
Charts  == [at : {"sent", "ok", "failed"}, of : Choices, current : BOOLEAN]

TypeOK ==
    /\ {mounted, waiting, replaced} \subseteq BOOLEAN
    /\ sites \subseteq Sites /\ listed \subseteq Sites
    /\ site \in Sites \cup {NoSite} /\ range \in Ranges
    /\ chart \subseteq Choices /\ Cardinality(chart) <= 1
    /\ list \in {Free} \cup Lists
    /\ req \in [Slots -> {Free} \cup Charts]
    /\ Cardinality({s \in Slots : req[s] # Free /\ req[s].current}) <= 1
    /\ lost \in 0 .. MaxLost

-----------------------------------------------------------------------------
(* loadSeries                                                              *)

NextGeneration ==
    [s \in Slots |-> IF req[s] = Free THEN Free ELSE [req[s] EXCEPT !.current = FALSE]]

\* ++seriesGeneration, then a load of what is chosen, or no chart at all.
LoadSeries(s, st, r) ==
    IF st = NoSite
    THEN /\ req' = NextGeneration
         /\ chart' = {}
         /\ UNCHANGED waiting
    ELSE /\ req[s] = Free
         /\ req' = [NextGeneration EXCEPT ![s] =
                       [at |-> "sent", of |-> [site |-> st, range |-> r], current |-> TRUE]]
         /\ waiting' = TRUE
         /\ UNCHANGED chart

ServeSeries(s) ==
    /\ req[s].at = "sent"
    /\ req' = [req EXCEPT ![s].at = IF req[s].of.site \in sites THEN "ok" ELSE "failed"]
    /\ UNCHANGED <<mounted, sites, listed, choice, chart, waiting, list, lost, replaced>>

\* Mutant: every answer is drawn.
Drawn_any(c) == TRUE

\* Only the load of the last generation is drawn, and only if it is of what is
\* chosen by now; only it ends the waiting.
Drawn(c) == c.current /\ c.of = [site |-> site, range |-> range]

SeriesArrives(s) ==
    LET c == req[s] IN
    /\ c.at \in {"ok", "failed"}
    /\ req' = [req EXCEPT ![s] = Free]
    /\ chart' = IF c.at = "failed" THEN (IF c.current THEN {} ELSE chart)
                ELSE IF Drawn(c) THEN {c.of} ELSE chart
    /\ waiting' = (waiting /\ ~c.current)
    /\ UNCHANGED <<mounted, sites, listed, choice, list, lost, replaced>>

SeriesFails(s) ==
    LET c == req[s] IN
    /\ c # Free
    /\ lost < MaxLost /\ lost' = lost + 1
    /\ req' = [req EXCEPT ![s] = Free]
    /\ chart' = IF c.current THEN {} ELSE chart
    /\ waiting' = (waiting /\ ~c.current)
    /\ UNCHANGED <<mounted, sites, listed, choice, list, replaced>>

-----------------------------------------------------------------------------
(* load, and the watch on the sites it brings                              *)

\* The timer, the user, or the end of a pause of the timer.
Refresh ==
    /\ mounted
    /\ list = Free
    /\ list' = [at |-> "sent", got |-> {}]
    /\ UNCHANGED <<mounted, sites, listed, choice, chart, waiting, req, lost, replaced>>

ServeList ==
    /\ list.at = "sent"
    /\ list' = [at |-> "ok", got |-> sites]
    /\ UNCHANGED <<mounted, sites, listed, choice, chart, waiting, req, lost, replaced>>

\* A chosen site that is gone is replaced by the busiest one; the chart is
\* loaded if there is none.  Nothing is watched any more when the page is left.
ListArrives(s) ==
    /\ list.at = "ok"
    /\ list' = Free
    /\ IF mounted
       THEN /\ listed' = list.got
            /\ site' \in IF site \in list.got THEN {site}
                         ELSE IF list.got = {} THEN {NoSite} ELSE list.got
            /\ IF site' # NoSite /\ chart = {} THEN LoadSeries(s, site', range)
               ELSE UNCHANGED <<chart, waiting, req>>
            /\ replaced' = (replaced \/ (site # NoSite /\ site' # site))
       ELSE UNCHANGED <<listed, site, chart, waiting, req, replaced>>
    /\ UNCHANGED <<mounted, sites, range, lost>>

ListFails ==
    /\ list # Free
    /\ lost < MaxLost /\ lost' = lost + 1
    /\ list' = Free
    /\ UNCHANGED <<mounted, sites, listed, choice, chart, waiting, req, replaced>>

-----------------------------------------------------------------------------
SelectSite(s, st) ==
    /\ mounted /\ st \in listed \ {site}
    /\ site' = st
    /\ LoadSeries(s, st, range)
    /\ UNCHANGED <<mounted, sites, listed, range, list, lost, replaced>>

SelectRange(s, r) ==
    /\ mounted /\ r # range
    /\ range' = r
    /\ LoadSeries(s, site, r)
    /\ UNCHANGED <<mounted, sites, listed, site, list, lost, replaced>>

\* Another tab deletes a site.
SiteGone ==
    /\ \E st \in sites : sites' = sites \ {st}
    /\ UNCHANGED <<mounted, listed, choice, chart, waiting, list, req, lost, replaced>>

Leave ==
    /\ mounted
    /\ mounted' = FALSE
    /\ UNCHANGED <<sites, listed, choice, chart, waiting, list, req, lost, replaced>>

\* onMounted: the list is asked for.
Begin ==
    /\ mounted = TRUE
    /\ sites = Sites /\ listed = {}
    /\ site = NoSite /\ range = CHOOSE r \in Ranges : TRUE
    /\ chart = {} /\ waiting = FALSE
    /\ list = [at |-> "sent", got |-> {}]
    /\ req = [s \in Slots |-> Free]
    /\ lost = 0 /\ replaced = FALSE

Init == Begin

Next ==
    \/ Refresh \/ ServeList \/ ListFails \/ SiteGone \/ Leave
    \/ \E s \in Slots :
          \/ ServeSeries(s) \/ SeriesArrives(s) \/ SeriesFails(s) \/ ListArrives(s)
          \/ \E st \in Sites : SelectSite(s, st)
          \/ \E r \in Ranges : SelectRange(s, r)

Spec == Init /\ [][Next]_vars

-----------------------------------------------------------------------------
\* Unless it is being loaded, the chart is of what is chosen, in whatever order
\* the answers come (seriesGeneration).  Only when the chosen site is deleted
\* elsewhere may its chart stay under the name of the site put in its place: the
\* watch loads a chart only where there is none.
ChartIsChosen ==
    \A c \in chart : waiting \/ replaced \/ c = [site |-> site, range |-> range]

=============================================================================
