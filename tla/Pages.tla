------------------------------- MODULE Pages -------------------------------
(***************************************************************************)
(* The pages of the administration UI that follow what the server does:    *)
(* the lists and the long operations.  A tab shows one page at a time, so  *)
(* a behaviour is about one of them: which one is chosen at first, and the *)
(* variables of the others stay as they are.                               *)
(***************************************************************************)
EXTENDS Integers, FiniteSets

CONSTANTS
    Slots,      \* names of the requests of the user that can be under way
    Timer,      \* the request of the interval timer
    MaxVersion, \* bound on the changes of a list
    MaxJobs,    \* bound on the operations
    MaxLost     \* bound on the requests that fail

ASSUME PagesAssumption ==
    /\ Slots # {} /\ Timer \notin Slots
    /\ MaxVersion \in Nat /\ MaxJobs \in Nat /\ MaxLost \in Nat

VARIABLES
    page, mounted, lost,
    hidden, truth, issuing, shown, loading, polling, dialog, seen, conflict, saving, listReq,
    job, state, progress, progressTimer, jobReq

lists == <<hidden, truth, issuing, shown, loading, polling, dialog, seen, conflict, saving,
           listReq>>
jobs  == <<job, state, progress, progressTimer, jobReq>>
vars  == <<page, mounted, lost, lists, jobs>>

L == INSTANCE ListPages WITH req <- listReq
P == INSTANCE Progress WITH shown <- progress, timer <- progressTimer, req <- jobReq

ListPage == page \in L!Pages
JobPage  == page \in P!Pages

-----------------------------------------------------------------------------
(* The variables of a page that is not shown                               *)

NoLists ==
    /\ hidden = FALSE /\ truth = 0 /\ issuing = FALSE /\ shown = 0 /\ loading = FALSE
    /\ polling = FALSE
    /\ dialog = [w \in L!Windows |-> "none"] /\ seen = [w \in L!Windows |-> 0]
    /\ conflict = {} /\ saving = {}
    /\ listReq = [s \in L!Names |-> L!Free]

NoJobs ==
    /\ job = 0 /\ state = "none" /\ progress = [job |-> 0, state |-> "none"]
    /\ progressTimer = FALSE
    /\ jobReq = [s \in P!Names |-> P!Free]

-----------------------------------------------------------------------------
Init ==
    /\ \/ L!Init
       \/ P!Init
    /\ ListPage \/ NoLists
    /\ JobPage \/ NoJobs

Next ==
    \/ ListPage /\ L!Next /\ UNCHANGED jobs
    \/ JobPage /\ P!Next /\ UNCHANGED lists

Spec == Init /\ [][Next]_vars /\ L!Fairness /\ P!Fairness

-----------------------------------------------------------------------------
\* Every page keeps its variables in their types; nothing is shown that the server
\* has not had, and no page but the update's and the certificates' leaves its timer
\* behind.
TypeOK ==
    /\ ListPage => L!TypeOK
    /\ JobPage => P!TypeOK

\* A page with a timer that stays on the screen with no dialog open shows the
\* server's list in the end, whatever requests were lost or overtook each
\* other before (the timers of Protection, AccessGroups, TCPTrap and DDNS).
ListsCatchUp == L!ListsCatchUp

\* No page goes on showing that an operation runs when it has ended, whatever
\* answers were lost or overtook each other: the next tick, the restarted
\* timer or the watch on the state sees to it.
ProgressEnds == P!ProgressEnds

=============================================================================
