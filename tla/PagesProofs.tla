---------------------------- MODULE PagesProofs ----------------------------
(***************************************************************************)
(* The lists and the long operations, for any number of requests under     *)
(* way, of changes, of operations and of requests that fail.               *)
(*                                                                         *)
(* Besides the types: nothing is shown that the server did not have, for   *)
(* which the invariants bound what the answers under way say.  A list page *)
(* waits only for a request that is under way (LoadingEnds), the button of *)
(* a dialog is blocked only while its save or the load after it is         *)
(* (BusyEnds), and no second save with the same flag runs beside it        *)
(* (OneSave).  A page that shows an operation as running keeps asking how  *)
(* far it is (Attended): this is what ProgressEnds rests on besides        *)
(* fairness.                                                               *)
(***************************************************************************)
EXTENDS Pages, TLAPS

-----------------------------------------------------------------------------
(* The long operations                                                     *)

\* While the page is on the screen its timer runs: the tunnels' from the first list
\* on, the update's as long as an installation shows.  The runtime's is the step
\* RuntimeTick itself.
Attended ==
    mounted =>
        /\ page = "tunnels" => progressTimer \/ \E s \in P!Names : jobReq[s].what = "list"
        /\ page = "update" /\ progress.state = "running" => progressTimer

JobsInv ==
    /\ P!TypeOK
    /\ \A s \in P!Names : jobReq[s] # P!Free => jobReq[s].job <= job
    /\ Attended

LEMMA JobRecords ==
    /\ P!Free.what = "none"
    /\ \A c \in P!Requests : /\ c # P!Free
                             /\ c.what \in P!Kinds /\ c.what # "none" /\ c.at \in {"sent", "ok", "failed"}
                             /\ c.job \in P!Jobs /\ c.state \in P!States
  BY DEF P!Free, P!Requests, P!Kinds

\* A request is asked, answered or ends, and the others stay as they are.
LEMMA JobEntry ==
  ASSUME JobsInv, NEW s \in P!Names, NEW c \in {P!Free} \cup P!Requests,
         jobReq' = [jobReq EXCEPT ![s] = c],
         page' = page, mounted' = mounted, lost' \in 0 .. MaxLost,
         job' \in P!Jobs, job <= job', c # P!Free => c.job <= job',
         state' \in P!States,
         progress' \in [job : P!Jobs, state : P!States], progress'.job <= job',
         progressTimer' \in BOOLEAN, progressTimer' => mounted \/ page = "update",
         page = "tunnels" /\ mounted =>
             \/ progressTimer'
             \/ progressTimer' = progressTimer /\ (jobReq[s].what = "list" => c.what = "list"),
         page = "update" /\ mounted /\ progress'.state = "running" => progressTimer'
  PROVE  JobsInv'
<1>1. /\ jobReq' \in [P!Names -> {P!Free} \cup P!Requests]
      /\ jobReq'[s] = c /\ \A t \in P!Names \ {s} : jobReq'[t] = jobReq[t]
  BY DEF JobsInv, P!TypeOK
<1>2. P!TypeOK'
  BY <1>1 DEF JobsInv, P!TypeOK, P!Jobs
<1>3. \A t \in P!Names : jobReq'[t] # P!Free => jobReq'[t].job <= job'
  <2>1. ASSUME NEW t \in P!Names \ {s}, jobReq'[t] # P!Free
        PROVE  jobReq'[t].job <= job'
    <3>1. jobReq[t] \in P!Requests /\ jobReq[t].job <= job
      BY <1>1, <2>1 DEF JobsInv, P!TypeOK
    <3>2. jobReq[t].job \in Int /\ job \in Int /\ job' \in Int
      BY <3>1, JobRecords DEF JobsInv, P!TypeOK, P!Jobs
    <3> QED BY <1>1, <2>1, <3>1, <3>2
  <2> QED BY <1>1, <2>1
<1>4. Attended'
  <2>1. ASSUME mounted, page = "tunnels"
        PROVE  progressTimer' \/ \E t \in P!Names : jobReq'[t].what = "list"
    BY <1>1, <2>1 DEF JobsInv, Attended
  <2> QED BY <2>1 DEF Attended
<1> QED BY <1>2, <1>3, <1>4 DEF JobsInv

\* The requests stay as they are.
LEMMA JobQuiet ==
  ASSUME JobsInv, UNCHANGED <<jobReq, page, progress>>, lost' \in 0 .. MaxLost,
         \/ mounted' = mounted /\ progressTimer' = progressTimer
         \/ ~mounted' /\ ~progressTimer',
         mounted' \in BOOLEAN, progressTimer' \in BOOLEAN,
         job' \in P!Jobs, job <= job', state' \in P!States
  PROVE  JobsInv'
<1>1. /\ job \in Int /\ job' \in Int /\ progress.job \in Int
      /\ \A t \in P!Names : jobReq[t] # P!Free => jobReq[t].job \in Int
  BY JobRecords DEF JobsInv, P!TypeOK, P!Jobs
<1>2. P!TypeOK'
  BY <1>1 DEF JobsInv, P!TypeOK, P!Jobs
<1>3. \A t \in P!Names : jobReq'[t] # P!Free => jobReq'[t].job <= job'
  BY <1>1 DEF JobsInv
<1>4. Attended'
  BY DEF JobsInv, Attended
<1> QED BY <1>2, <1>3, <1>4 DEF JobsInv

LEMMA JobTypes ==
  ASSUME JobsInv
  PROVE  /\ job \in P!Jobs /\ state \in P!States /\ progressTimer \in BOOLEAN
         /\ lost \in 0 .. MaxLost /\ lost \in Int /\ job \in Int /\ 0 \in P!Jobs /\ 0 <= job
         /\ mounted \in BOOLEAN /\ job <= job
         /\ progressTimer => mounted \/ page = "update"
         /\ progress \in [job : P!Jobs, state : P!States] /\ progress.job <= job
         /\ progress.job \in P!Jobs
         /\ page = "update" /\ mounted /\ progress.state = "running" => progressTimer
         /\ \A s \in P!Names : jobReq[s] # P!Free => /\ jobReq[s] \in P!Requests
                                                     /\ jobReq[s].job <= job
  BY PagesAssumption DEF JobsInv, P!TypeOK, P!Jobs, Attended

LEMMA AskedFits ==
  ASSUME NEW w \in P!Kinds, NEW j \in P!Jobs
  PROVE  /\ [what |-> w, at |-> "sent", job |-> j, state |-> "none"] \in P!Requests
  BY DEF P!Requests, P!States, P!Kinds

\* A request goes out, or goes on with another one.
LEMMA JobGoesOn ==
  ASSUME JobsInv, NEW s \in P!Names, jobReq[s].what # "list",
         NEW w \in P!Kinds, NEW j \in P!Jobs, j <= job,
         jobReq' = P!Ask(s, w, j),
         progress' \in [job : P!Jobs, state : P!States], progress'.job <= job,
         page = "update" => progress' = progress,
         lost' \in 0 .. MaxLost,
         UNCHANGED <<page, mounted, job, state, progressTimer>>
  PROVE  JobsInv'
<1> DEFINE c == [what |-> w, at |-> "sent", job |-> j, state |-> "none"]
<1>1. c \in P!Requests /\ c.job = j
  BY AskedFits
<1>2. jobReq' = [jobReq EXCEPT ![s] = c]
  BY DEF P!Ask
<1> HIDE DEF c
<1> QED BY <1>1, <1>2, JobTypes, JobEntry

LEMMA JobAsked ==
  ASSUME JobsInv, NEW s \in P!Names, jobReq[s] = P!Free,
         NEW w \in P!Kinds, NEW j \in P!Jobs, j <= job,
         jobReq' = P!Ask(s, w, j),
         UNCHANGED <<page, mounted, job, state, progress, progressTimer, lost>>
  PROVE  JobsInv'
<1>1. jobReq[s].what # "list"
  BY JobRecords
<1> QED BY <1>1, JobTypes, JobGoesOn

\* A request ends, and what it says is shown or not.
LEMMA JobEnded ==
  ASSUME JobsInv, NEW s \in P!Names, jobReq[s].what # "list" \/ page = "runtime",
         page \in {"tunnels", "runtime"},
         jobReq' = [jobReq EXCEPT ![s] = P!Free],
         progress' \in [job : P!Jobs, state : P!States], progress'.job <= job,
         UNCHANGED <<page, mounted, job, state, progressTimer, lost>>
  PROVE  JobsInv'
<1> QED BY JobTypes, JobEntry

LEMMA RestoredFits ==
  ASSUME JobsInv, NEW c \in P!Requests, c.job <= job
  PROVE  /\ P!Restored(c) \in [job : P!Jobs, state : P!States] /\ P!Restored(c).job <= job
         /\ [job |-> c.job, state |-> c.state] \in [job : P!Jobs, state : P!States]
  BY JobTypes, JobRecords DEF P!Restored

LEMMA BeginSafe ==
  ASSUME JobsInv, NEW s \in P!Names, P!Begin(s)
  PROVE  JobsInv'
<1>1. /\ jobReq[s] \in P!Requests /\ jobReq[s].job <= job
      /\ jobReq[s].what \in {"start", "create"}
  BY JobRecords, JobTypes DEF P!Begin
<1>2. ASSUME jobReq' = [jobReq EXCEPT ![s].at = "failed"], UNCHANGED <<job, state>>
      PROVE  JobsInv'
  <2> DEFINE c == [jobReq[s] EXCEPT !.at = "failed"]
  <2>1. c \in P!Requests /\ c.job <= job
    BY <1>1 DEF P!Requests
  <2>2. jobReq' = [jobReq EXCEPT ![s] = c]
    BY <1>2
  <2> HIDE DEF c
  <2> QED BY <1>1, <1>2, <2>1, <2>2, JobTypes, JobEntry DEF P!Begin
<1>3. ASSUME jobReq' = [jobReq EXCEPT ![s].at = "ok", ![s].job = job', ![s].state = "running"],
             IF page = "update" THEN job' = job ELSE job' = job + 1 /\ job < MaxJobs,
             state' = "running"
      PROVE  JobsInv'
  <2>1. job' \in P!Jobs /\ job <= job' /\ job' <= job'
    BY <1>3, JobTypes, PagesAssumption DEF P!Jobs
  <2>2. PICK c : c = [jobReq[s] EXCEPT !.at = "ok", !.job = job', !.state = "running"]
    OBVIOUS
  <2>3. c \in P!Requests /\ c.job <= job'
    BY <1>1, <2>1, <2>2 DEF P!Requests, P!States
  <2>4. jobReq' = [jobReq EXCEPT ![s] = c]
    BY <1>3, <2>2
  <2>5. state' \in P!States /\ progress.job <= job'
    BY <1>3, <2>1, JobTypes DEF P!States, P!Jobs
  <2> QED BY <1>1, <2>1, <2>3, <2>4, <2>5, JobTypes, JobEntry DEF P!Begin
<1> QED BY <1>2, <1>3 DEF P!Begin

LEMMA ReadSafe ==
  ASSUME JobsInv, NEW s \in P!Names, P!Read(s)
  PROVE  JobsInv'
<1>1. jobReq[s] \in P!Requests /\ jobReq[s].job <= job
  BY JobRecords, JobTypes DEF P!Read
<1>2. PICK c : c = IF jobReq[s].what # "poll" \/ page = "update"
                   THEN [jobReq[s] EXCEPT !.at = "ok", !.job = job, !.state = state]
                   ELSE [jobReq[s] EXCEPT !.at = "ok",
                                          !.state = IF jobReq[s].job = job THEN state ELSE "ended"]
  OBVIOUS
<1>3. c \in P!Requests /\ c.job <= job /\ c.what = jobReq[s].what
  BY ZenonT(60), <1>1, <1>2, JobTypes DEF P!Requests, P!States
<1>4. jobReq' = [jobReq EXCEPT ![s] = c]
  BY <1>2 DEF P!Read
<1>5. UNCHANGED <<page, mounted, job, state, progress, progressTimer, lost>>
  BY DEF P!Read
<1> QED BY <1>1, <1>3, <1>4, <1>5, JobTypes, JobEntry

LEMMA TunnelListSafe ==
  ASSUME JobsInv, NEW s \in P!Names, P!TunnelList(s)
  PROVE  JobsInv'
<1>1. jobReq[s] \in P!Requests /\ jobReq[s].what = "list" /\ jobReq[s].job <= job
  BY JobRecords, JobTypes DEF P!TunnelList
<1>2. progress' \in [job : P!Jobs, state : P!States] /\ progress'.job <= job
  BY <1>1, RestoredFits, JobTypes DEF P!TunnelList
<1>3. PICK c \in {P!Free} \cup P!Requests :
         /\ jobReq' = [jobReq EXCEPT ![s] = c]
         /\ c # P!Free => c.job <= job
  <2>1. CASE s = Timer /\ mounted /\ progress'.state = "running"
    <3>1. PICK c : c = [what |-> "poll", at |-> "sent", job |-> progress'.job, state |-> "none"]
      OBVIOUS
    <3>2. c \in P!Requests /\ c.job = progress'.job
      BY <1>2, <3>1, AskedFits DEF P!Kinds
    <3>3. jobReq' = [jobReq EXCEPT ![s] = c]
      BY <2>1, <3>1 DEF P!TunnelList, P!Ask
    <3> QED BY <1>2, <3>2, <3>3
  <2>2. CASE ~(s = Timer /\ mounted /\ progress'.state = "running")
    BY <2>2 DEF P!TunnelList
  <2> QED BY <2>1, <2>2
<1> QED BY <1>1, <1>2, <1>3, JobTypes, JobEntry DEF P!TunnelList

LEMMA RuntimeListSafe ==
  ASSUME JobsInv, NEW s \in P!Names, P!RuntimeList(s)
  PROVE  JobsInv'
<1>1. jobReq[s] \in P!Requests /\ jobReq[s].job <= job
  BY JobRecords, JobTypes DEF P!RuntimeList
<1>2. progress' \in [job : P!Jobs, state : P!States] /\ progress'.job <= job
  BY <1>1, RestoredFits, JobTypes DEF P!RuntimeList
<1> QED BY <1>2, JobEnded DEF P!RuntimeList

LEMMA StartedSafe ==
  ASSUME JobsInv, NEW s \in P!Names, P!Started(s)
  PROVE  JobsInv'
<1>1. jobReq[s] \in P!Requests /\ jobReq[s].job <= job
  BY JobRecords, JobTypes DEF P!Started
<1>2. progress' \in [job : P!Jobs, state : P!States] /\ progress'.job <= job
  BY <1>1, RestoredFits, JobTypes DEF P!Started
<1> QED BY <1>2, JobEnded DEF P!Started

LEMMA PolledSafe ==
  ASSUME JobsInv, NEW s \in P!Names, P!Polled(s)
  PROVE  JobsInv'
<1>1. jobReq[s] \in P!Requests /\ jobReq[s].job <= job
  BY JobRecords, JobTypes DEF P!Polled
<1>2. progress' \in [job : P!Jobs, state : P!States] /\ progress'.job <= job
  BY <1>1, RestoredFits, JobTypes DEF P!Polled
<1> QED BY <1>2, JobEnded DEF P!Polled

LEMMA SavedSafe ==
  ASSUME JobsInv, NEW s \in P!Names, P!Saved(s)
  PROVE  JobsInv'
<1>1. jobReq[s].what # "list" /\ "relist" \in P!Kinds
  BY DEF P!Saved, P!Kinds
<1>2. CASE jobReq' = [jobReq EXCEPT ![s] = P!Free]
  BY <1>1, <1>2, JobTypes, JobEntry DEF P!Saved
<1>3. CASE jobReq' = P!Ask(s, "relist", 0)
  BY <1>1, <1>3, JobTypes, JobGoesOn DEF P!Saved
<1> QED BY <1>2, <1>3 DEF P!Saved

\* The request that read a saved instance back ends, or goes on.
LEMMA AfterRelistSafe ==
  ASSUME JobsInv, NEW s \in P!Names, jobReq[s].what = "relist", P!AfterRelist(s),
         progress' \in [job : P!Jobs, state : P!States], progress'.job <= job,
         page = "update" => progress' = progress,
         lost' \in 0 .. MaxLost,
         UNCHANGED <<page, mounted, job, state, progressTimer>>
  PROVE  JobsInv'
<1>1. "create" \in P!Kinds
  BY DEF P!Kinds
<1>2. CASE jobReq' = [jobReq EXCEPT ![s] = P!Free]
  BY <1>2, JobTypes, JobEntry
<1>3. CASE jobReq' = P!Ask(s, "create", 0)
  BY <1>1, <1>3, JobTypes, JobGoesOn
<1> QED BY <1>2, <1>3 DEF P!AfterRelist

LEMMA RelistedSafe ==
  ASSUME JobsInv, NEW s \in P!Names, P!Relisted(s)
  PROVE  JobsInv'
<1>1. jobReq[s] \in P!Requests /\ jobReq[s].job <= job
  BY JobRecords, JobTypes DEF P!Relisted
<1>2. progress' \in [job : P!Jobs, state : P!States] /\ progress'.job <= job
  BY <1>1, RestoredFits, JobTypes DEF P!Relisted
<1> QED BY <1>2, JobTypes, AfterRelistSafe DEF P!Relisted

\* startStatusPoll leaves a running timer and one poll behind.
LEMMA StatusPollSafe ==
  ASSUME JobsInv, NEW s \in P!Names, page = "update", P!StartStatusPoll(s),
         progress' \in [job : P!Jobs, state : P!States], progress'.job <= job,
         UNCHANGED <<page, mounted, job, state, lost>>
  PROVE  JobsInv'
<1> DEFINE c == [what |-> "poll", at |-> "sent", job |-> 0, state |-> "none"]
<1>1. c \in P!Requests /\ c.job = 0
  BY AskedFits, JobTypes DEF P!Kinds
<1>2. jobReq' = [jobReq EXCEPT ![s] = c] /\ progressTimer'
  BY DEF P!StartStatusPoll, P!Ask
<1> HIDE DEF c
<1> QED BY <1>1, <1>2, JobTypes, JobEntry DEF P!StartStatusPoll

LEMMA InstallAnsweredSafe ==
  ASSUME JobsInv, NEW s \in P!Names, P!InstallAnswered(s)
  PROVE  JobsInv'
<1>1. CASE P!StartStatusPoll(s)
  BY <1>1, JobTypes, StatusPollSafe DEF P!InstallAnswered
<1>2. CASE jobReq' = [jobReq EXCEPT ![s] = P!Free] /\ UNCHANGED progressTimer
  BY <1>2, JobTypes, JobEntry DEF P!InstallAnswered
<1> QED BY <1>1, <1>2 DEF P!InstallAnswered

LEMMA PollStatusSafe ==
  ASSUME JobsInv, NEW s \in P!Names, P!PollStatus(s)
  PROVE  JobsInv'
<1>1. jobReq[s] \in P!Requests /\ jobReq[s].job <= job
  BY JobRecords, JobTypes DEF P!PollStatus
<1>2. /\ progress' \in [job : P!Jobs, state : P!States] /\ progress'.job <= job
      /\ progress'.state = jobReq[s].state
  BY <1>1, RestoredFits, JobRecords DEF P!PollStatus
<1>3. CASE P!StartStatusPoll(s)
  BY <1>2, <1>3, StatusPollSafe DEF P!PollStatus
<1>4. CASE ~P!StartStatusPoll(s)
  <2>1. /\ jobReq' = [jobReq EXCEPT ![s] = P!Free]
        /\ progressTimer' = (progressTimer /\ jobReq[s].state \notin {"none", "ended"})
        /\ ~(/\ P!Watched(progress.state, jobReq[s].state)
             /\ ~(progressTimer /\ jobReq[s].state \notin {"none", "ended"}))
    BY <1>4 DEF P!PollStatus
  <2>2. mounted /\ progress'.state = "running" => progressTimer'
    BY <1>2, <2>1, JobTypes DEF P!Watched, P!PollStatus
  <2>3. progressTimer' \in BOOLEAN
    BY <2>1
  <2> QED BY <1>2, <2>1, <2>2, <2>3, JobTypes, JobEntry DEF P!PollStatus
<1> QED BY <1>3, <1>4

LEMMA JobLostSafe ==
  ASSUME JobsInv, NEW s \in P!Names, P!Lost(s)
  PROVE  JobsInv'
<1>1. lost' \in 0 .. MaxLost
  BY JobTypes, PagesAssumption DEF P!Lost
<1>2. /\ progressTimer' \in BOOLEAN
      /\ progressTimer' => mounted \/ page = "update"
      /\ progressTimer => progressTimer'
      /\ progressTimer' = progressTimer \/ progressTimer'
  BY JobTypes DEF P!Lost
<1>3. page = "tunnels" /\ mounted => progressTimer' \/ (progressTimer' = progressTimer /\ jobReq[s].what # "list")
  BY <1>2 DEF P!Lost
<1>4. CASE jobReq[s].what = "relist"
  <2>1. P!AfterRelist(s) /\ UNCHANGED <<page, mounted, job, state, progress>>
    BY <1>4 DEF P!Lost
  <2>2. progressTimer' = progressTimer
    BY <1>4, JobTypes DEF P!Lost
  <2> QED BY <1>1, <1>4, <2>1, <2>2, JobTypes, AfterRelistSafe
<1>5. CASE jobReq[s].what # "relist"
  BY <1>1, <1>2, <1>3, <1>5, JobTypes, JobEntry DEF P!Lost
<1> QED BY <1>4, <1>5

\* Every step of a page with a long operation preserves the invariant.
LEMMA JobsStep ==
  ASSUME JobsInv, JobPage, P!Next
  PROVE  JobsInv'
<1>1. CASE P!Finish
  BY <1>1, JobTypes, JobQuiet DEF P!Finish, P!States
<1>2. CASE P!OtherBegins \/ P!Inspect
  <2>1. job' \in P!Jobs /\ job <= job' /\ state' \in P!States
    BY <1>2, JobTypes, PagesAssumption DEF P!OtherBegins, P!Inspect, P!Jobs, P!States
  <2> QED BY <1>2, <2>1, JobTypes, JobQuiet DEF P!OtherBegins, P!Inspect
<1>3. CASE P!CancelPackage
  BY <1>3, JobTypes, JobQuiet DEF P!CancelPackage, P!States
<1>4. CASE P!Leave
  BY <1>4, JobTypes, JobQuiet DEF P!Leave
<1>5. CASE P!Tick
  <2>1. Timer \in P!Names /\ {"list", "poll"} \subseteq P!Kinds
    BY DEF P!Names, P!Kinds
  <2>2. CASE P!TunnelTick
    BY <2>1, <2>2, JobTypes, JobAsked DEF P!TunnelTick
  <2>3. CASE P!RuntimeTick
    BY <2>1, <2>3, JobTypes, JobAsked DEF P!RuntimeTick
  <2>4. CASE P!StatusTick
    BY <2>1, <2>4, JobTypes, JobAsked DEF P!StatusTick
  <2> QED BY <1>5, <2>2, <2>3, <2>4 DEF P!Tick
<1>6. CASE \E s \in P!Names : P!Answers(s) \/ P!Lost(s)
  <2>1. PICK s \in P!Names : P!Answers(s) \/ P!Lost(s)
    BY <1>6
  <2> QED BY <2>1, BeginSafe, ReadSafe, TunnelListSafe, RuntimeListSafe, StartedSafe, PolledSafe,
             SavedSafe, RelistedSafe, InstallAnsweredSafe, PollStatusSafe, JobLostSafe DEF P!Answers
<1>7. CASE \E s \in Slots : \/ P!Refresh(s) \/ P!RunOperation(s) \/ P!SaveInstance(s)
                            \/ P!Install(s) \/ P!InstallPackage(s)
  <2>1. PICK s \in Slots : \/ P!Refresh(s) \/ P!RunOperation(s) \/ P!SaveInstance(s)
                           \/ P!Install(s) \/ P!InstallPackage(s)
    BY <1>7
  <2>2. s \in P!Names /\ {"list", "start", "save"} \subseteq P!Kinds
    BY DEF P!Names, P!Kinds
  <2>3. CASE P!Refresh(s)
    BY <2>2, <2>3, JobTypes, JobAsked DEF P!Refresh
  <2>4. CASE P!RunOperation(s)
    BY <2>2, <2>4, JobTypes, JobAsked DEF P!RunOperation
  <2>5. CASE P!SaveInstance(s)
    BY <2>2, <2>5, JobTypes, JobAsked DEF P!SaveInstance
  <2>6. CASE P!Install(s)
    BY <2>2, <2>6, JobTypes, JobAsked DEF P!Install
  <2>7. CASE P!InstallPackage(s)
    BY <2>2, <2>7, JobTypes, JobAsked DEF P!InstallPackage
  <2> QED BY <2>1, <2>3, <2>4, <2>5, <2>6, <2>7
<1> QED BY <1>1, <1>2, <1>3, <1>4, <1>5, <1>6, <1>7 DEF P!Next

LEMMA JobsStart ==
  ASSUME P!Init
  PROVE  JobsInv
<1>1. PICK p \in P!Pages : P!Start(p)
  BY DEF P!Init
<1>2. PICK c : c = [what |-> IF p = "update" THEN "poll" ELSE "list",
                    at |-> "sent", job |-> 0, state |-> "none"]
  OBVIOUS
<1>3. c \in P!Requests /\ c.job = 0 /\ (page # "update" => c.what = "list")
  <2>1. 0 \in P!Jobs
    BY PagesAssumption DEF P!Jobs
  <2> QED BY <1>1, <1>2, <2>1 DEF P!Requests, P!States, P!Kinds, P!Start
<1>4. /\ jobReq \in [P!Names -> {P!Free} \cup P!Requests]
      /\ \A s \in P!Names : jobReq[s] # P!Free => jobReq[s] = c
  BY <1>1, <1>2, <1>3 DEF P!Start
<1>5. P!FirstSlot \in P!Names /\ jobReq[P!FirstSlot] = c
  BY <1>1, <1>2, PagesAssumption DEF P!Start, P!FirstSlot, P!Names
<1>6. P!TypeOK
  <2>1. 0 \in P!Jobs /\ 0 \in 0 .. MaxLost /\ "none" \in P!States
    BY PagesAssumption DEF P!Jobs, P!States
  <2>2. progress \in [job : P!Jobs, state : P!States] /\ progress.job <= job
    BY <1>1, <2>1 DEF P!Start
  <2>3. page \in P!Pages /\ mounted \in BOOLEAN /\ progressTimer \in BOOLEAN /\ lost \in 0 .. MaxLost
        /\ ~progressTimer /\ job \in P!Jobs /\ state \in P!States
    BY <1>1, <2>1 DEF P!Start
  <2> QED BY <1>4, <2>2, <2>3 DEF P!TypeOK
<1>7. Attended
  BY <1>1, <1>3, <1>5 DEF P!Start, Attended
<1>8. \A s \in P!Names : jobReq[s] # P!Free => jobReq[s].job <= job
  BY <1>1, <1>3, <1>4 DEF P!Start
<1> QED BY <1>6, <1>7, <1>8 DEF JobsInv

-----------------------------------------------------------------------------
(* The lists                                                               *)

\* The flag that a request holds: of a change the one of its window, of a load the
\* one that goes off when it ends.
HeldBy(c) ==
    CASE c.what = "none" -> "none"
      [] c.what = "load" -> c.ends
      [] c.what \notin {"none", "load"} -> IF c.w = "none" THEN "none" ELSE L!Flag(c.w)

\* What the page waits for is under way: no answer, and no failure, leaves the
\* rows covered for good.
LoadingEnds ==
    loading => \E s \in L!Names : listReq[s].what = "load" /\ listReq[s].at # "due"

\* A dialog whose save button is blocked has a save under way, or the load that
\* follows it: no answer, and no failure, leaves it blocked for good.
BusyEnds == \A f \in saving : \E s \in L!Names : HeldBy(listReq[s]) = f

\* A save blocks the button from the moment it goes out, also of a dialog that was
\* closed and opened again meanwhile, and so no two with the same flag run side by
\* side.  Removing a route does not wait for the flag it holds.
OneSave ==
    page # "routes" =>
        \A s, t \in L!Names :
            HeldBy(listReq[s]) # "none" =>
                /\ HeldBy(listReq[s]) \in saving
                /\ HeldBy(listReq[t]) = HeldBy(listReq[s]) => s = t

\* The types, but for the requests.
FieldTypes ==
    /\ page \in L!Pages
    /\ mounted \in BOOLEAN /\ hidden \in BOOLEAN /\ issuing \in BOOLEAN /\ loading \in BOOLEAN
    /\ polling \in BOOLEAN /\ (polling => mounted \/ page = "certs")
    /\ truth \in L!Versions /\ shown \in 0 .. truth
    /\ dialog \in [L!Windows -> L!Modes] /\ seen \in [L!Windows -> 0 .. truth]
    /\ conflict \subseteq L!Windows /\ saving \subseteq L!Windows
    /\ lost \in 0 .. MaxLost

ListsInv ==
    /\ FieldTypes
    /\ listReq \in [L!Names -> {L!Free} \cup L!Loads \cup L!Changes]
    /\ \A s \in L!Names : listReq[s] # L!Free => listReq[s].got <= truth
    /\ LoadingEnds
    /\ BusyEnds
    /\ OneSave

LEMMA ListsTyped ==
  ASSUME ListsInv
  PROVE  L!TypeOK
  BY DEF ListsInv, FieldTypes, L!TypeOK

LEMMA WindowFacts ==
    /\ "none" \notin L!Windows
    /\ \A w \in L!Windows : L!Flag(w) \in L!Windows /\ L!Warning(w) \in L!Windows
  BY DEF L!Windows, L!Flag, L!Warning

LEMMA ListRecords ==
    /\ L!Free.what = "none" /\ HeldBy(L!Free) = "none"
    /\ \A c \in L!Loads : /\ c # L!Free /\ c.what = "load" /\ c.at \in {"due", "sent", "ok"}
                          /\ c.got \in L!Versions /\ c.got \in Int /\ 0 <= c.got
                          /\ c.busy \in BOOLEAN
                          /\ c.reopen \in {"none"} \cup L!Windows
                          /\ c.ends \in {"none"} \cup L!Windows /\ HeldBy(c) = c.ends
    /\ \A c \in L!Changes : /\ c # L!Free /\ c.what \notin {"none", "load"}
                            /\ c.got \in L!Versions /\ c.got \in Int /\ 0 <= c.got
                            /\ c.w \in {"none"} \cup L!Windows
                            /\ HeldBy(c) = IF c.w = "none" THEN "none" ELSE L!Flag(c.w)
                            /\ HeldBy(c) \in {"none"} \cup L!Windows
    /\ \A a \in {"due", "sent", "ok"}, e, r \in {"none"} \cup L!Windows :
          /\ L!Load(a, e, r) \in L!Loads /\ L!Load(a, e, r).got = 0
          /\ L!Load(a, e, r).ends = e /\ L!Load(a, e, r).at = a
<1>1. L!Versions \subseteq Int /\ 0 \in L!Versions /\ \A v \in L!Versions : 0 <= v
  BY PagesAssumption DEF L!Versions
<1>2. L!Free.what = "none" /\ HeldBy(L!Free) = "none"
  BY DEF L!Free, HeldBy
<1>3. ASSUME NEW c \in L!Loads
      PROVE  /\ c # L!Free /\ c.what = "load" /\ c.at \in {"due", "sent", "ok"}
             /\ c.got \in L!Versions /\ c.got \in Int /\ 0 <= c.got
             /\ c.busy \in BOOLEAN
             /\ c.reopen \in {"none"} \cup L!Windows
             /\ c.ends \in {"none"} \cup L!Windows /\ HeldBy(c) = c.ends
  <2>1. /\ c.what = "load" /\ c.at \in {"due", "sent", "ok"} /\ c.got \in L!Versions
        /\ c.busy \in BOOLEAN /\ c.ends \in {"none"} \cup L!Windows
        /\ c.reopen \in {"none"} \cup L!Windows
    BY DEF L!Loads
  <2>2. c # L!Free
    BY <1>2, <2>1
  <2>3. HeldBy(c) = c.ends
    BY <2>1 DEF HeldBy
  <2> QED BY <1>1, <2>1, <2>2, <2>3
<1>4. ASSUME NEW c \in L!Changes
      PROVE  /\ c # L!Free /\ c.what \notin {"none", "load"}
             /\ c.got \in L!Versions /\ c.got \in Int /\ 0 <= c.got
             /\ c.w \in {"none"} \cup L!Windows
             /\ HeldBy(c) = IF c.w = "none" THEN "none" ELSE L!Flag(c.w)
             /\ HeldBy(c) \in {"none"} \cup L!Windows
  <2>1. /\ c.what \notin {"none", "load"} /\ c.got \in L!Versions
        /\ c.w \in {"none"} \cup L!Windows
    BY DEF L!Changes, L!Clicks
  <2>2. c # L!Free
    BY <1>2, <2>1
  <2>3. HeldBy(c) = IF c.w = "none" THEN "none" ELSE L!Flag(c.w)
    BY <2>1 DEF HeldBy
  <2> QED BY <1>1, <2>1, <2>2, <2>3, WindowFacts
<1>5. ASSUME NEW a \in {"due", "sent", "ok"}, NEW e \in {"none"} \cup L!Windows,
             NEW r \in {"none"} \cup L!Windows
      PROVE  /\ L!Load(a, e, r) \in L!Loads /\ L!Load(a, e, r).got = 0
             /\ L!Load(a, e, r).ends = e /\ L!Load(a, e, r).at = a
  BY <1>1 DEF L!Load, L!Loads
<1> QED BY <1>2, <1>3, <1>4, <1>5

LEMMA ListFacts ==
  ASSUME ListsInv
  PROVE  /\ truth \in Int /\ 0 <= truth /\ truth \in L!Versions /\ shown \in L!Versions
         /\ \A w \in L!Windows : seen[w] \in L!Versions /\ dialog[w] \in L!Modes
         /\ shown \in Int /\ 0 <= shown /\ shown <= truth
         /\ loading \in BOOLEAN /\ "none" \notin saving
         /\ \A s \in L!Names : /\ listReq[s].what = "load" => listReq[s] \in L!Loads
                               /\ listReq[s].what \notin {"none", "load"} => listReq[s] \in L!Changes
                               /\ HeldBy(listReq[s]) \in {"none"} \cup L!Windows
                               /\ listReq[s] # L!Free => /\ listReq[s].got <= truth
                                                         /\ listReq[s].got \in 0 .. truth
<1>1. /\ truth \in Int /\ 0 <= truth /\ truth \in L!Versions /\ shown \in L!Versions
      /\ \A w \in L!Windows : seen[w] \in L!Versions /\ dialog[w] \in L!Modes
      /\ shown \in Int /\ 0 <= shown /\ shown <= truth
      /\ loading \in BOOLEAN /\ "none" \notin saving
  BY PagesAssumption, WindowFacts DEF ListsInv, FieldTypes, L!Versions
<1>2. ASSUME NEW s \in L!Names
      PROVE  /\ listReq[s].what = "load" => listReq[s] \in L!Loads
             /\ listReq[s].what \notin {"none", "load"} => listReq[s] \in L!Changes
             /\ HeldBy(listReq[s]) \in {"none"} \cup L!Windows
             /\ listReq[s] # L!Free => listReq[s].got <= truth /\ listReq[s].got \in 0 .. truth
  <2>1. listReq[s] \in {L!Free} \cup L!Loads \cup L!Changes
    BY DEF ListsInv
  <2>2. listReq[s] # L!Free => listReq[s].got <= truth
    BY DEF ListsInv
  <2>3. CASE listReq[s] = L!Free
    BY <2>3, ListRecords
  <2>4. CASE listReq[s] \in L!Loads
    <3>1. /\ listReq[s] # L!Free /\ listReq[s].got \in Int /\ 0 <= listReq[s].got
          /\ listReq[s].what = "load" /\ HeldBy(listReq[s]) \in {"none"} \cup L!Windows
      BY <2>4, ListRecords
    <3> QED BY <1>1, <2>2, <2>4, <3>1
  <2>5. CASE listReq[s] \in L!Changes
    <3>1. /\ listReq[s] # L!Free /\ listReq[s].got \in Int /\ 0 <= listReq[s].got
          /\ listReq[s].what # "load" /\ HeldBy(listReq[s]) \in {"none"} \cup L!Windows
      BY <2>5, ListRecords
    <3> QED BY <1>1, <2>2, <2>5, <3>1
  <2> QED BY <2>1, <2>3, <2>4, <2>5
<1> QED BY <1>1, <1>2

\* A request is asked, answered or ends, and the others stay as they are: a flag
\* stays with it, goes on with it, or goes off with it.
LEMMA ListEntry ==
  ASSUME ListsInv, FieldTypes', truth <= truth', page' = page,
         NEW s \in L!Names, NEW c \in {L!Free} \cup L!Loads \cup L!Changes,
         listReq' = [listReq EXCEPT ![s] = c],
         c # L!Free => c.got <= truth',
         loading' => \/ c.what = "load" /\ c.at # "due"
                     \/ loading /\ ~(listReq[s].what = "load" /\ listReq[s].at # "due"),
         \/ saving' = saving /\ HeldBy(c) = HeldBy(listReq[s])
         \/ /\ HeldBy(listReq[s]) = "none" /\ HeldBy(c) # "none"
            /\ saving' = saving \cup {HeldBy(c)}
            /\ page # "routes" => HeldBy(c) \notin saving
         \/ HeldBy(c) = "none" /\ saving' = saving \ {HeldBy(listReq[s])}
  PROVE  ListsInv'
<1>1. /\ listReq' \in [L!Names -> {L!Free} \cup L!Loads \cup L!Changes]
      /\ listReq'[s] = c /\ \A t \in L!Names \ {s} : listReq'[t] = listReq[t]
  BY DEF ListsInv
<1>2. \A t \in L!Names : listReq'[t] # L!Free => listReq'[t].got <= truth'
  <2>1. ASSUME NEW t \in L!Names \ {s}, listReq'[t] # L!Free
        PROVE  listReq'[t].got <= truth'
    <3>1. listReq'[t] = listReq[t] /\ listReq[t].got \in 0 .. truth
      BY <1>1, <2>1, ListFacts
    <3>2. truth \in Int /\ truth' \in Int
      BY ListFacts DEF FieldTypes, L!Versions
    <3> QED BY <3>1, <3>2
  <2> QED BY <1>1, <2>1
<1>3. LoadingEnds'
  BY <1>1 DEF ListsInv, LoadingEnds
<1>4. /\ \A t \in L!Names \ {s} : HeldBy(listReq'[t]) = HeldBy(listReq[t])
      /\ HeldBy(listReq'[s]) = HeldBy(c)
      /\ "none" \notin saving
  BY <1>1, ListFacts
<1>5. BusyEnds'
  <2>1. \A f \in saving' : \E t \in L!Names : HeldBy(listReq'[t]) = f
    <3>1. \A f \in saving : \E t \in L!Names : HeldBy(listReq[t]) = f
      BY DEF ListsInv, BusyEnds
    <3>2. ASSUME NEW f \in saving'
          PROVE  \E t \in L!Names : HeldBy(listReq'[t]) = f
      <4>1. CASE f \in saving
        <5>1. PICK t \in L!Names : HeldBy(listReq[t]) = f
          BY <3>1, <4>1
        <5>2. f # "none"
          BY <1>4, <4>1
        <5> QED BY <1>4, <5>1, <5>2
      <4>2. CASE f \notin saving
        BY SMTT(40), <1>4, <4>2
      <4> QED BY <4>1, <4>2
    <3> QED BY <3>2
  <2> QED BY <2>1 DEF BusyEnds, HeldBy, L!Flag
<1>6. OneSave'
  <2>1. ASSUME page # "routes"
        PROVE  \A t, u \in L!Names :
                  HeldBy(listReq'[t]) # "none" =>
                      /\ HeldBy(listReq'[t]) \in saving'
                      /\ HeldBy(listReq'[u]) = HeldBy(listReq'[t]) => t = u
    <3>1. \A t, u \in L!Names :
             HeldBy(listReq[t]) # "none" =>
                 /\ HeldBy(listReq[t]) \in saving
                 /\ HeldBy(listReq[u]) = HeldBy(listReq[t]) => t = u
      BY <2>1 DEF ListsInv, OneSave
    <3>2. CASE saving' = saving /\ HeldBy(c) = HeldBy(listReq[s])
      <4>1. \A t \in L!Names : HeldBy(listReq'[t]) = HeldBy(listReq[t])
        BY <1>4, <3>2
      <4> QED BY <3>1, <3>2, <4>1
    <3>3. CASE /\ HeldBy(listReq[s]) = "none" /\ HeldBy(c) # "none"
               /\ saving' = saving \cup {HeldBy(c)} /\ HeldBy(c) \notin saving
      <4>1. \A t \in L!Names \ {s} : HeldBy(listReq'[t]) # HeldBy(c)
        BY <1>4, <3>1, <3>3
      <4> QED BY <1>4, <3>1, <3>3, <4>1
    <3>4. CASE HeldBy(c) = "none" /\ saving' = saving \ {HeldBy(listReq[s])}
      <4>1. \A t \in L!Names \ {s} :
               HeldBy(listReq[t]) # "none" => HeldBy(listReq[t]) # HeldBy(listReq[s])
        BY <3>1
      <4> QED BY <1>4, <3>1, <3>4, <4>1
    <3> QED BY <2>1, <3>2, <3>3, <3>4
  <2> QED BY <2>1 DEF OneSave, HeldBy, L!Flag
<1> QED BY <1>1, <1>2, <1>3, <1>5, <1>6 DEF ListsInv

\* The requests, and what the page waits for, stay as they are.
LEMMA ListQuiet ==
  ASSUME ListsInv, FieldTypes', truth <= truth', UNCHANGED <<page, listReq, loading, saving>>
  PROVE  ListsInv'
<1>1. \A t \in L!Names : listReq'[t] # L!Free => listReq'[t].got <= truth'
  <2>1. ASSUME NEW t \in L!Names, listReq[t] # L!Free
        PROVE  listReq[t].got <= truth'
    <3>1. listReq[t].got \in 0 .. truth /\ truth \in Int /\ truth' \in Int
      BY <2>1, ListFacts DEF FieldTypes, L!Versions
    <3> QED BY <3>1
  <2> QED BY <2>1
<1>2. LoadingEnds' /\ BusyEnds' /\ OneSave'
  BY DEF ListsInv, LoadingEnds, BusyEnds, OneSave, HeldBy, L!Flag
<1> QED BY <1>1, <1>2 DEF ListsInv

\* A load goes out.
LEMMA LoadAsked ==
  ASSUME ListsInv, NEW s \in L!Names, listReq[s] = L!Free, NEW r \in {"none"} \cup L!Windows,
         listReq' = [listReq EXCEPT ![s] = L!Load("sent", "none", r)], loading' = TRUE,
         UNCHANGED <<page, mounted, hidden, truth, issuing, shown, polling, seen, conflict, saving,
                     lost>>,
         dialog' \in [L!Windows -> L!Modes]
  PROVE  ListsInv'
<1>0. PICK c : c = L!Load("sent", "none", r)
  OBVIOUS
<1>1. c \in L!Loads /\ c.got = 0 /\ c.what = "load" /\ c.at = "sent" /\ HeldBy(c) = "none"
  <2>1. c \in L!Loads /\ c.got = 0 /\ c.ends = "none" /\ c.at = "sent"
    BY <1>0, ListRecords
  <2> QED BY <2>1, ListRecords
<1>2. HeldBy(listReq[s]) = "none"
  BY ListRecords
<1>3. FieldTypes'
  BY DEF ListsInv, FieldTypes
<1>4. truth' = truth /\ truth <= truth' /\ c.got <= truth'
  BY <1>1, ListFacts
<1>5. listReq' = [listReq EXCEPT ![s] = c]
  BY <1>0
<1>6. saving' = saving /\ page' = page
  OBVIOUS
<1> QED BY <1>1, <1>2, <1>3, <1>4, <1>5, <1>6, ListEntry

\* A change goes out.
LEMMA ChangeAsked ==
  ASSUME ListsInv, NEW s \in L!Names, NEW v \in L!Versions,
         NEW what \in {"new", "edit"} \cup L!Clicks, NEW w \in {"none"} \cup L!Windows,
         L!AskChange(s, what, w, v),
         UNCHANGED <<page, mounted, hidden, truth, issuing, shown, loading, polling, dialog, seen,
                     conflict, lost>>,
         IF w = "none" THEN saving' = saving
         ELSE saving' = saving \cup {L!Flag(w)} /\ (page # "routes" => L!Flag(w) \notin saving)
  PROVE  ListsInv'
<1>1. PICK c : c = [what |-> what, w |-> w, at |-> "sent", on |-> v, got |-> 0]
  OBVIOUS
<1>2. c \in L!Changes /\ c.w = w /\ c.got = 0
  <2>1. 0 \in L!Versions
    BY PagesAssumption DEF L!Versions
  <2> QED BY <1>1, <2>1 DEF L!Changes
<1>3. HeldBy(c) = IF w = "none" THEN "none" ELSE L!Flag(w)
  BY <1>2, ListRecords
<1>4. listReq' = [listReq EXCEPT ![s] = c] /\ listReq[s] = L!Free
  BY <1>1 DEF L!AskChange
<1>5. HeldBy(listReq[s]) = "none" /\ listReq[s].what # "load"
  BY <1>4, ListRecords
<1>6. FieldTypes'
  <2>1. saving' \subseteq L!Windows
    BY WindowFacts DEF ListsInv, FieldTypes
  <2> QED BY <2>1 DEF ListsInv, FieldTypes
<1>7. truth <= truth' /\ c.got <= truth' /\ page' = page
  BY <1>2, ListFacts
<1>8. CASE w = "none"
  <2>1. saving' = saving /\ HeldBy(c) = HeldBy(listReq[s])
    BY <1>3, <1>5, <1>8
  <2> QED BY <1>2, <1>4, <1>5, <1>6, <1>7, <2>1, ListEntry
<1>9. CASE w # "none"
  <2>1. /\ HeldBy(listReq[s]) = "none" /\ HeldBy(c) # "none"
        /\ saving' = saving \cup {HeldBy(c)} /\ (page # "routes" => HeldBy(c) \notin saving)
    BY <1>3, <1>5, <1>9, WindowFacts
  <2> QED BY <1>2, <1>4, <1>5, <1>6, <1>7, <2>1, ListEntry
<1> QED BY <1>8, <1>9

LEMMA LoadDueSafe ==
  ASSUME ListsInv, NEW s \in L!Names, L!LoadDue(s)
  PROVE  ListsInv'
<1>1. listReq[s] \in L!Loads
  BY ListFacts DEF L!LoadDue
<1>2. PICK c : c = [listReq[s] EXCEPT !.at = "sent"]
  OBVIOUS
<1>3. /\ c \in L!Loads /\ c.what = "load" /\ c.at = "sent"
      /\ c.got = listReq[s].got /\ c.ends = listReq[s].ends
  BY <1>1, <1>2 DEF L!Loads
<1>4. listReq' = [listReq EXCEPT ![s] = c]
  BY <1>2 DEF L!LoadDue
<1>5. /\ UNCHANGED <<page, mounted, hidden, truth, issuing, shown, polling, dialog, seen,
                     conflict, saving, lost>>
      /\ loading' = TRUE
  BY DEF L!LoadDue, L!tab, L!server, L!draft
<1>6. FieldTypes'
  BY <1>5 DEF ListsInv, FieldTypes
<1>7. HeldBy(c) = HeldBy(listReq[s])
  BY <1>1, <1>3, ListRecords
<1>8. truth <= truth' /\ c.got <= truth'
  <2>1. listReq[s] # L!Free
    BY <1>1, ListRecords
  <2> QED BY <1>3, <1>5, <2>1, ListFacts
<1> QED BY <1>3, <1>4, <1>5, <1>6, <1>7, <1>8, ListEntry

LEMMA ServeLoadSafe ==
  ASSUME ListsInv, NEW s \in L!Names, L!ServeLoad(s)
  PROVE  ListsInv'
<1>1. listReq[s] \in L!Loads /\ listReq[s].at = "sent"
  BY ListFacts DEF L!ServeLoad
<1>2. PICK c : c = [listReq[s] EXCEPT !.at = "ok", !.got = truth, !.busy = issuing]
  OBVIOUS
<1>3. /\ c \in L!Loads /\ c.what = "load" /\ c.at = "ok" /\ c.got = truth
      /\ c.ends = listReq[s].ends
  <2>1. truth \in L!Versions /\ issuing \in BOOLEAN
    BY DEF ListsInv, FieldTypes
  <2> QED BY <1>1, <1>2, <2>1 DEF L!Loads
<1>4. listReq' = [listReq EXCEPT ![s] = c]
  BY <1>2 DEF L!ServeLoad
<1>5. UNCHANGED <<page, mounted, hidden, truth, issuing, shown, loading, polling, dialog, seen,
                  conflict, saving, lost>>
  BY DEF L!ServeLoad, L!tab, L!server, L!draft
<1>6. FieldTypes'
  BY <1>5 DEF ListsInv, FieldTypes
<1>7. HeldBy(c) = HeldBy(listReq[s])
  BY <1>1, <1>3, ListRecords
<1>8. truth <= truth' /\ c.got <= truth'
  BY <1>3, <1>5, ListFacts
<1> QED BY <1>3, <1>4, <1>5, <1>6, <1>7, <1>8, ListEntry

LEMMA ServeChangeSafe ==
  ASSUME ListsInv, NEW s \in L!Names, L!ServeChange(s)
  PROVE  ListsInv'
<1>1. listReq[s] \in L!Changes /\ listReq[s].what \notin {"none", "load"}
  BY ListFacts DEF L!ServeChange
<1>2. PICK at \in {"ok", "conflict", "failed"} :
         listReq' = [listReq EXCEPT ![s].at = at, ![s].got = truth']
  BY DEF L!ServeChange
<1>3. /\ UNCHANGED <<page, mounted, hidden, shown, loading, polling, dialog, seen, conflict, saving,
                     lost>>
      /\ issuing' \in BOOLEAN
      /\ truth' \in L!Versions /\ truth <= truth'
  <2>1. /\ truth \in Int /\ 0 <= truth /\ truth \in L!Versions /\ issuing \in BOOLEAN
    BY ListFacts DEF ListsInv, FieldTypes
  <2>2. /\ issuing' \in BOOLEAN
        /\ truth' = truth \/ (truth' = truth + 1 /\ truth' <= MaxVersion)
    BY <2>1 DEF L!ServeChange, L!server
  <2>3. truth' \in L!Versions /\ truth <= truth'
    BY <2>1, <2>2, PagesAssumption DEF L!Versions
  <2> QED BY <2>2, <2>3 DEF L!ServeChange, L!tab, L!draft
<1>4. PICK c : c = [listReq[s] EXCEPT !.at = at, !.got = truth']
  OBVIOUS
<1>5. c \in L!Changes /\ c.what = listReq[s].what /\ c.w = listReq[s].w /\ c.got = truth'
  BY <1>1, <1>3, <1>4 DEF L!Changes
<1>6. listReq' = [listReq EXCEPT ![s] = c]
  BY <1>2, <1>4
<1>7. FieldTypes'
  <2>1. truth \in Int /\ truth' \in Int
    BY <1>3, ListFacts, PagesAssumption DEF L!Versions
  <2>2. shown' \in 0 .. truth' /\ seen' \in [L!Windows -> 0 .. truth']
    BY <1>3, <2>1 DEF ListsInv, FieldTypes
  <2> QED BY <1>3, <2>2 DEF ListsInv, FieldTypes
<1>8. HeldBy(c) = HeldBy(listReq[s])
  BY <1>1, <1>5, ListRecords
<1>9. c.got <= truth' /\ truth' \in Int
  BY <1>3, <1>5, PagesAssumption DEF L!Versions
<1> QED BY <1>1, <1>3, <1>5, <1>6, <1>7, <1>8, <1>9, ListEntry

\* A window that is filled anew, or closed.
LEMMA ReopenTyped ==
  ASSUME ListsInv, NEW l \in L!Loads, NEW v \in 0 .. truth, L!Reopen(l, v)
  PROVE  /\ dialog' \in [L!Windows -> L!Modes] /\ seen' \in [L!Windows -> 0 .. truth]
         /\ conflict' \subseteq L!Windows
<1>1. /\ dialog \in [L!Windows -> L!Modes] /\ seen \in [L!Windows -> 0 .. truth]
      /\ conflict \subseteq L!Windows
  BY DEF ListsInv, FieldTypes
<1>2. "edit" \in L!Modes /\ "none" \in L!Modes
  BY DEF L!Modes
<1> QED BY <1>1, <1>2 DEF L!Reopen, L!draft

\* An answer to a load, or none: the flags go off together.
LEMMA LoadOver ==
  ASSUME ListsInv, NEW s \in L!Names, listReq[s].what = "load", listReq[s].at # "due",
         listReq' = [listReq EXCEPT ![s] = L!Free],
         loading' = FALSE, saving' = saving \ {listReq[s].ends},
         shown' \in 0 .. truth, polling' \in BOOLEAN, polling' => mounted \/ page = "certs",
         lost' \in 0 .. MaxLost,
         L!Reopen(listReq[s], shown'),
         UNCHANGED <<page, mounted, hidden, truth, issuing>>
  PROVE  ListsInv'
<1>1. listReq[s] \in L!Loads
  BY ListFacts
<1>2. HeldBy(listReq[s]) = listReq[s].ends /\ HeldBy(L!Free) = "none"
  BY <1>1, ListRecords
<1>3. PICK v \in 0 .. truth : v = shown'
  OBVIOUS
<1>4. /\ dialog' \in [L!Windows -> L!Modes] /\ seen' \in [L!Windows -> 0 .. truth]
      /\ conflict' \subseteq L!Windows
  BY <1>1, <1>3, ReopenTyped
<1>5. FieldTypes'
  BY <1>4 DEF ListsInv, FieldTypes
<1>6. truth <= truth'
  BY ListFacts
<1> QED BY <1>2, <1>5, <1>6, ListEntry

LEMMA LoadArrivesSafe ==
  ASSUME ListsInv, NEW s \in L!Names, L!LoadArrives(s)
  PROVE  ListsInv'
<1>1. listReq[s] \in L!Loads /\ listReq[s].what = "load" /\ listReq[s].at # "due"
  BY ListFacts DEF L!LoadArrives
<1>2. shown' \in 0 .. truth /\ shown' = listReq[s].got
  <2>1. listReq[s] # L!Free
    BY <1>1, ListRecords
  <2> QED BY <2>1, ListFacts DEF L!LoadArrives
<1>3. polling' \in BOOLEAN /\ (polling' => mounted \/ page = "certs")
  BY <1>1, ListRecords DEF L!LoadArrives, L!CertsPolling, ListsInv, FieldTypes
<1>4. lost' \in 0 .. MaxLost
  BY DEF L!LoadArrives, ListsInv, FieldTypes
<1>5. L!Reopen(listReq[s], shown')
  BY <1>2 DEF L!LoadArrives
<1> QED BY <1>1, <1>2, <1>3, <1>4, <1>5, LoadOver DEF L!LoadArrives, L!tab, L!server

LEMMA LoadFailsSafe ==
  ASSUME ListsInv, NEW s \in L!Names, L!LoadFails(s)
  PROVE  ListsInv'
<1>1. shown' \in 0 .. truth /\ polling' \in BOOLEAN /\ (polling' => mounted \/ page = "certs")
  BY DEF L!LoadFails, ListsInv, FieldTypes
<1>2. lost' \in 0 .. MaxLost
  BY PagesAssumption DEF L!LoadFails, ListsInv, FieldTypes
<1>3. L!Reopen(listReq[s], shown')
  BY DEF L!LoadFails
<1> QED BY <1>1, <1>2, <1>3, LoadOver DEF L!LoadFails, L!tab, L!server

LEMMA DialogAfterTyped ==
  ASSUME ListsInv, NEW c \in L!Changes, c.got \in 0 .. truth, L!DialogAfter(c)
  PROVE  /\ dialog' \in [L!Windows -> L!Modes] /\ seen' \in [L!Windows -> 0 .. truth]
         /\ conflict' \subseteq L!Windows
<1>1. /\ dialog \in [L!Windows -> L!Modes] /\ seen \in [L!Windows -> 0 .. truth]
      /\ conflict \subseteq L!Windows
  BY DEF ListsInv, FieldTypes
<1>2. "none" \in L!Modes
  BY DEF L!Modes
<1>3. conflict' \subseteq L!Windows
  <2>1. L!Warns(c) => L!Warning(c.w) \in L!Windows
    BY ListRecords, WindowFacts DEF L!Warns
  <2> QED BY <1>1, <2>1 DEF L!DialogAfter
<1>4. dialog' \in [L!Windows -> L!Modes] /\ seen' \in [L!Windows -> 0 .. truth]
  BY <1>1, <1>2 DEF L!DialogAfter
<1> QED BY <1>3, <1>4

LEMMA TakesSafe ==
  ASSUME ListsInv, NEW s \in L!Names, NEW c \in L!Changes, listReq[s] \in L!Changes,
         c.what = listReq[s].what, c.w = listReq[s].w, c.got \in 0 .. truth,
         lost' \in 0 .. MaxLost, L!Takes(s, c)
  PROVE  ListsInv'
<1>1. PICK reloading \in BOOLEAN : reloading = (L!Reloads(c) /\ L!Loadable)
  BY DEF L!Reloads
<1>2. PICK held \in BOOLEAN : held = (reloading /\ L!BusyUntilLoaded(c))
  BY <1>1 DEF L!BusyUntilLoaded
<1>3. held => c.w # "none"
  BY <1>2 DEF L!BusyUntilLoaded
<1>4. PICK f \in {"none"} \cup L!Windows : f = IF held THEN L!Flag(c.w) ELSE "none"
  BY <1>3, ListRecords, WindowFacts
<1>5. PICK a \in {"due", "sent"} : a = IF c.what = "obtain" THEN "due" ELSE "sent"
  OBVIOUS
<1>6. PICK n : n = IF reloading THEN L!Load(a, f, "none") ELSE L!Free
  OBVIOUS
<1>7. /\ n \in {L!Free} \cup L!Loads
      /\ n # L!Free => n.got = 0
      /\ reloading => n.what = "load" /\ n.at = a
      /\ HeldBy(n) = IF reloading THEN f ELSE "none"
  <2>1. /\ L!Load(a, f, "none") \in L!Loads /\ L!Load(a, f, "none").got = 0
        /\ L!Load(a, f, "none").ends = f /\ L!Load(a, f, "none").at = a
    <3>1. a \in {"due", "sent", "ok"} /\ "none" \in {"none"} \cup L!Windows
      OBVIOUS
    <3> QED BY <3>1, ListRecords
  <2>2. CASE reloading
    <3>1. n \in L!Loads /\ n.got = 0 /\ n.ends = f /\ n.at = a
      BY <1>6, <2>1, <2>2
    <3> QED BY <2>2, <3>1, ListRecords
  <2>3. CASE ~reloading
    BY <1>6, <2>3, ListRecords
  <2> QED BY <2>2, <2>3
<1>8. /\ HeldBy(listReq[s]) = IF c.w = "none" THEN "none" ELSE L!Flag(c.w)
      /\ listReq[s].what # "load"
  BY ListRecords
<1>9. /\ listReq' = [listReq EXCEPT ![s] = n]
      /\ loading' = (loading \/ (reloading /\ c.what # "obtain"))
      /\ saving' = IF c.w = "none" \/ held THEN saving ELSE saving \ {L!Flag(c.w)}
      /\ UNCHANGED <<page, mounted, hidden, truth, issuing, polling>>
  BY <1>1, <1>2, <1>4, <1>5, <1>6 DEF L!Takes, L!tab, L!server
<1>10. FieldTypes'
  <2>1. shown' \in 0 .. truth
    BY DEF L!Takes, ListsInv, FieldTypes
  <2>2. /\ dialog' \in [L!Windows -> L!Modes] /\ seen' \in [L!Windows -> 0 .. truth]
        /\ conflict' \subseteq L!Windows
    BY DialogAfterTyped DEF L!Takes
  <2>3. loading' \in BOOLEAN /\ saving' \subseteq L!Windows
    BY <1>9, ListFacts DEF ListsInv, FieldTypes
  <2> QED BY <1>9, <2>1, <2>2, <2>3 DEF ListsInv, FieldTypes
<1>11. truth <= truth' /\ (n # L!Free => n.got <= truth')
  BY <1>7, <1>9, ListFacts
<1>12. \/ saving' = saving /\ HeldBy(n) = HeldBy(listReq[s])
       \/ HeldBy(n) = "none" /\ saving' = saving \ {HeldBy(listReq[s])}
  <2>1. CASE held
    BY <1>2, <1>3, <1>4, <1>7, <1>8, <1>9, <2>1
  <2>2. CASE ~held /\ c.w = "none"
    BY <1>4, <1>7, <1>8, <1>9, <2>2
  <2>3. CASE ~held /\ c.w # "none"
    BY <1>4, <1>7, <1>8, <1>9, <2>3
  <2> QED BY <2>1, <2>2, <2>3
<1>13. loading' => (n.what = "load" /\ n.at # "due") \/ (loading /\ listReq[s].what # "load")
  BY <1>5, <1>7, <1>8, <1>9
<1> QED BY <1>7, <1>9, <1>10, <1>11, <1>12, <1>13, ListEntry

LEMMA ChangeArrivesSafe ==
  ASSUME ListsInv, NEW s \in L!Names, L!ChangeArrives(s)
  PROVE  ListsInv'
<1>1. listReq[s] \in L!Changes /\ listReq[s].got \in 0 .. truth
  BY ListFacts, ListRecords DEF L!ChangeArrives
<1>2. lost' \in 0 .. MaxLost
  BY DEF L!ChangeArrives, ListsInv, FieldTypes
<1> QED BY <1>1, <1>2, TakesSafe DEF L!ChangeArrives

LEMMA ChangeFailsSafe ==
  ASSUME ListsInv, NEW s \in L!Names, L!ChangeFails(s)
  PROVE  ListsInv'
<1>1. listReq[s] \in L!Changes /\ listReq[s].got \in 0 .. truth
  BY ListFacts, ListRecords DEF L!ChangeFails
<1>2. lost' \in 0 .. MaxLost
  BY PagesAssumption DEF L!ChangeFails, ListsInv, FieldTypes
<1>3. PICK c : c = [listReq[s] EXCEPT !.at = "failed"]
  OBVIOUS
<1>4. /\ c \in L!Changes /\ c.what = listReq[s].what /\ c.w = listReq[s].w
      /\ c.got = listReq[s].got
  BY <1>1, <1>3 DEF L!Changes
<1>5. L!Takes(s, c)
  BY <1>3 DEF L!ChangeFails
<1> QED BY <1>1, <1>2, <1>4, <1>5, TakesSafe

\* A load that asks for the list as it is, with the page's flag.
LEMMA AskLoadSafe ==
  ASSUME ListsInv, NEW s \in L!Names, L!AskLoad(s),
         UNCHANGED <<page, mounted, hidden, truth, issuing, shown, polling, dialog, seen, conflict,
                     saving, lost>>
  PROVE  ListsInv'
<1>1. dialog' \in [L!Windows -> L!Modes]
  BY DEF ListsInv, FieldTypes
<1> QED BY <1>1, LoadAsked DEF L!AskLoad

LEMMA ReloadDraftSafe ==
  ASSUME ListsInv, NEW s \in L!Names, NEW w \in L!Windows, L!ReloadDraft(s, w)
  PROVE  ListsInv'
<1>1. dialog' \in [L!Windows -> L!Modes]
  BY DEF L!ReloadDraft, L!draft, ListsInv, FieldTypes
<1> QED BY <1>1, LoadAsked DEF L!ReloadDraft, L!tab, L!server, L!draft

LEMMA CloseTrapSafe ==
  ASSUME ListsInv, NEW s \in L!Names, L!CloseTrap(s)
  PROVE  ListsInv'
<1>1. /\ dialog' \in [L!Windows -> L!Modes]
      /\ UNCHANGED <<page, mounted, hidden, truth, issuing, shown, polling, seen, conflict, saving,
                     lost>>
  BY DEF L!CloseTrap, L!tab, L!server, ListsInv, FieldTypes, L!Modes
<1>2. CASE ~loading
  BY <1>1, <1>2, LoadAsked DEF L!CloseTrap
<1>3. CASE loading
  <2>1. UNCHANGED <<listReq, loading>>
    BY <1>3 DEF L!CloseTrap
  <2>2. FieldTypes' /\ truth <= truth'
    BY <1>1, <2>1, ListFacts DEF ListsInv, FieldTypes
  <2> QED BY <1>1, <2>1, <2>2, ListQuiet
<1> QED BY <1>2, <1>3

\* A dialog whose button can be pressed has its flag off.
LEMMA SavableIsFree ==
  ASSUME NEW w \in L!Windows, page \in L!Pages, L!Savable(w)
  PROVE  L!Flag(w) \notin saving
<1>1. CASE page \in {"protection", "access"}
  BY <1>1 DEF L!Savable, L!Flag, L!ProtectionSaves, L!AccessSaves
<1>2. CASE page = "certs"
  BY <1>2 DEF L!Savable, L!Flag, L!CertsSaves, L!MappingsSaves
<1>3. CASE page \in {"forward", "trap", "notify", "ddns", "providers", "routes", "pools"}
  BY <1>3 DEF L!Savable, L!Flag, L!ForwardSaves, L!TrapSaves, L!NotifySaves, L!DDNSSaves,
              L!ProvidersSaves, L!RoutesSaves, L!PoolsSaves
<1> QED BY <1>1, <1>2, <1>3 DEF L!Pages

LEMMA SaveSafe ==
  ASSUME ListsInv, NEW s \in L!Names, NEW w \in L!Windows, L!Save(s, w)
  PROVE  ListsInv'
<1>1. PICK what \in {"new", "edit"} : what = dialog[w]
  BY ListFacts DEF L!Save, L!Modes
<1>2. PICK v \in L!Versions : v = seen[w]
  BY ListFacts
<1>3. L!AskChange(s, what, w, v) /\ saving' = saving \cup {L!Flag(w)}
  BY <1>1, <1>2 DEF L!Save
<1>4. L!Flag(w) \notin saving /\ w # "none"
  BY SavableIsFree, WindowFacts DEF L!Save, ListsInv, FieldTypes
<1>5. UNCHANGED <<page, mounted, hidden, truth, issuing, shown, loading, polling, dialog, seen,
                  conflict, lost>>
  BY DEF L!Save, L!tab, L!server, L!draft
<1> QED BY <1>3, <1>4, <1>5, ChangeAsked

LEMMA ClickSafe ==
  ASSUME ListsInv, NEW s \in L!Names, NEW what \in L!Clicks, L!Click(s, what)
  PROVE  ListsInv'
<1>1. PICK w \in {"none", "main"} : w = IF page = "routes" THEN "main" ELSE "none"
  OBVIOUS
<1>2. w \in {"none"} \cup L!Windows /\ shown \in L!Versions
  BY ListFacts DEF L!Windows
<1>3. /\ L!AskChange(s, what, w, shown)
      /\ UNCHANGED <<page, mounted, hidden, truth, issuing, shown, loading, polling, dialog, seen,
                     conflict, lost>>
  BY <1>1 DEF L!Click, L!tab, L!server, L!draft
<1>4. IF w = "none" THEN saving' = saving
      ELSE saving' = saving \cup {L!Flag(w)} /\ (page # "routes" => L!Flag(w) \notin saving)
  BY <1>1 DEF L!Click, L!Flag
<1> QED BY <1>2, <1>3, <1>4, ChangeAsked

LEMMA SyncSafe ==
  ASSUME ListsInv, NEW s \in L!Names, L!SyncMappings(s)
  PROVE  ListsInv'
<1>1. PICK v \in L!Versions : v = seen["side"]
  BY ListFacts DEF L!Windows
<1>2. /\ L!AskChange(s, "sync", "none", v)
      /\ UNCHANGED <<page, mounted, hidden, truth, issuing, shown, loading, polling, dialog, seen,
                     conflict, saving, lost>>
  BY <1>1 DEF L!SyncMappings, L!tab, L!server, L!draft
<1>3. "sync" \in {"new", "edit"} \cup L!Clicks
  BY DEF L!Clicks
<1> QED BY <1>2, <1>3, ChangeAsked

LEMMA ButtonFacts ==
  ASSUME NEW b \in {"new", "edit", "newUser", "editUser", "mappings", "ban", "grant", "record"}
  PROVE  L!WindowOf(b) \in L!Windows /\ L!ModeOf(b) \in L!Modes
  BY DEF L!WindowOf, L!ModeOf, L!Windows, L!Modes

LEMMA OpenSafe ==
  ASSUME ListsInv,
         NEW b \in {"new", "edit", "newUser", "editUser", "mappings", "ban", "grant", "record"},
         L!Open(b)
  PROVE  ListsInv'
<1>1. PICK w \in L!Windows : w = L!WindowOf(b)
  BY ButtonFacts
<1>2. /\ dialog' = [dialog EXCEPT ![w] = L!ModeOf(b)] /\ seen' = [seen EXCEPT ![w] = shown]
      /\ conflict' \subseteq conflict
      /\ UNCHANGED <<page, mounted, hidden, truth, issuing, shown, loading, polling, saving,
                     listReq, lost>>
  BY <1>1 DEF L!Open, L!tab, L!server
<1>3. /\ dialog' \in [L!Windows -> L!Modes] /\ seen' \in [L!Windows -> 0 .. truth]
      /\ conflict' \subseteq L!Windows
  BY <1>2, ButtonFacts DEF ListsInv, FieldTypes
<1>4. FieldTypes' /\ truth <= truth'
  BY <1>2, <1>3, ListFacts DEF ListsInv, FieldTypes
<1> QED BY <1>2, <1>4, ListQuiet

\* Steps without a request: of other tabs and of the server, of the tab, and a
\* dialog that closes.
LEMMA QuietSafe ==
  ASSUME ListsInv,
         \/ L!OtherChange \/ L!IssueEnds \/ L!Hide \/ L!Leave
         \/ \E w \in L!Windows : L!Close(w)
  PROVE  ListsInv'
<1>1. UNCHANGED <<page, listReq, loading, saving>>
  BY DEF L!OtherChange, L!IssueEnds, L!Hide, L!Leave, L!Close
<1>2. truth' \in L!Versions /\ truth <= truth'
  <2>1. truth \in Int /\ truth \in L!Versions
    BY ListFacts
  <2>2. truth' = truth \/ (truth' = truth + 1 /\ truth' \in L!Versions)
    BY <2>1, PagesAssumption DEF L!OtherChange, L!IssueEnds, L!Hide, L!Leave, L!Close, L!server,
                                 L!Versions
  <2> QED BY <2>1, <2>2
<1>3. truth \in Int /\ truth' \in Int
  BY <1>2, ListFacts, PagesAssumption DEF L!Versions
<1>4. FieldTypes'
  <2>1. /\ mounted' \in BOOLEAN /\ hidden' \in BOOLEAN /\ issuing' \in BOOLEAN
        /\ polling' \in BOOLEAN /\ (polling' => mounted' \/ page' = "certs")
        /\ lost' \in 0 .. MaxLost
    <3>1. lost' = lost /\ page' = page
      BY DEF L!OtherChange, L!IssueEnds, L!Hide, L!Leave, L!Close
    <3>2. /\ issuing' = issuing \/ issuing' = FALSE
          /\ hidden' = hidden \/ hidden' = ~hidden
      BY DEF L!OtherChange, L!IssueEnds, L!Hide, L!Leave, L!Close, L!server, L!tab
    <3>3. \/ mounted' = mounted /\ polling' = polling
          \/ mounted' = FALSE /\ polling' = FALSE
      BY DEF L!OtherChange, L!IssueEnds, L!Hide, L!Leave, L!Close, L!tab
    <3>4. /\ mounted \in BOOLEAN /\ hidden \in BOOLEAN /\ issuing \in BOOLEAN
          /\ polling \in BOOLEAN /\ (polling => mounted \/ page = "certs")
          /\ lost \in 0 .. MaxLost
      BY DEF ListsInv, FieldTypes
    <3>5. hidden' \in BOOLEAN /\ issuing' \in BOOLEAN
      BY <3>2, <3>4
    <3>6. mounted' \in BOOLEAN /\ polling' \in BOOLEAN /\ (polling' => mounted' \/ page' = "certs")
      <4>1. CASE mounted' = mounted /\ polling' = polling
        BY <3>1, <3>4, <4>1
      <4>2. CASE mounted' = FALSE /\ polling' = FALSE
        BY <4>2
      <4> QED BY <3>3, <4>1, <4>2
    <3> QED BY <3>1, <3>4, <3>5, <3>6
  <2>2. dialog' \in [L!Windows -> L!Modes]
    BY DEF L!OtherChange, L!IssueEnds, L!Hide, L!Leave, L!Close, L!draft, ListsInv, FieldTypes,
           L!Modes
  <2>3. shown' = shown /\ seen' = seen /\ conflict' = conflict
    BY DEF L!OtherChange, L!IssueEnds, L!Hide, L!Leave, L!Close, L!draft
  <2>4. shown' \in 0 .. truth' /\ seen' \in [L!Windows -> 0 .. truth']
    BY <1>2, <1>3, <2>3 DEF ListsInv, FieldTypes
  <2> QED BY <1>1, <1>2, <2>1, <2>2, <2>3, <2>4 DEF ListsInv, FieldTypes
<1> QED BY <1>1, <1>2, <1>4, ListQuiet

\* Every step of a page with a list preserves the invariant.
LEMMA ListsStep ==
  ASSUME ListsInv, L!Next
  PROVE  ListsInv'
<1>1. CASE \/ L!OtherChange \/ L!IssueEnds \/ L!Hide \/ L!Leave
           \/ \E w \in L!Windows : L!Close(w)
  BY <1>1, QuietSafe
<1>2. CASE L!Tick
  <2>1. Timer \in L!Names
    BY DEF L!Names
  <2> QED BY <1>2, <2>1, AskLoadSafe DEF L!Tick, L!tab, L!server, L!draft
<1>3. CASE \E s \in L!Names : L!Answers(s) \/ L!LoadFails(s) \/ L!ChangeFails(s)
  <2>1. PICK s \in L!Names : L!Answers(s) \/ L!LoadFails(s) \/ L!ChangeFails(s)
    BY <1>3
  <2> QED BY <2>1, LoadDueSafe, ServeLoadSafe, LoadArrivesSafe, ServeChangeSafe,
             ChangeArrivesSafe, LoadFailsSafe, ChangeFailsSafe DEF L!Answers
<1>4. ASSUME NEW s \in Slots,
             \/ L!Refresh(s) \/ L!SyncMappings(s) \/ L!CloseTrap(s)
             \/ \E what \in L!Clicks \ {"sync"} : L!Click(s, what)
             \/ \E w \in L!Windows : L!Save(s, w) \/ L!ReloadDraft(s, w)
      PROVE  ListsInv'
  <2>1. s \in L!Names
    BY DEF L!Names
  <2>2. CASE L!Refresh(s)
    BY <2>1, <2>2, AskLoadSafe DEF L!Refresh, L!tab, L!server, L!draft
  <2> QED BY <1>4, <2>1, <2>2, SyncSafe, CloseTrapSafe, ClickSafe, SaveSafe, ReloadDraftSafe
<1>5. CASE \E b \in {"new", "edit", "newUser", "editUser", "mappings", "ban", "grant", "record"} :
              L!Open(b)
  BY <1>5, OpenSafe
<1> QED BY <1>1, <1>2, <1>3, <1>4, <1>5 DEF L!Next

LEMMA ListsStart ==
  ASSUME L!Init
  PROVE  ListsInv
<1>1. PICK p \in L!Pages : L!Start(p)
  BY DEF L!Init
<1>2. PICK c : c = L!Load("sent", "none", "none")
  OBVIOUS
<1>3. c \in L!Loads /\ c.got = 0 /\ c.what = "load" /\ c.at = "sent" /\ HeldBy(c) = "none"
  BY <1>2, ListRecords
<1>4. /\ listReq \in [L!Names -> {L!Free} \cup L!Loads \cup L!Changes]
      /\ \A s \in L!Names : listReq[s] = L!Free \/ listReq[s] = c
  BY <1>1, <1>2, <1>3 DEF L!Start
<1>5. L!FirstSlot \in L!Names /\ listReq[L!FirstSlot] = c
  BY <1>1, <1>2, PagesAssumption DEF L!Start, L!FirstSlot, L!Names
<1>6. FieldTypes
  <2>1. 0 \in L!Versions /\ 0 \in 0 .. 0 /\ 0 \in 0 .. MaxLost /\ "none" \in L!Modes
    BY PagesAssumption DEF L!Versions, L!Modes
  <2>2. /\ page \in L!Pages /\ mounted = TRUE /\ hidden = FALSE /\ truth = 0 /\ issuing = FALSE
        /\ shown = 0 /\ loading = TRUE /\ polling = L!PollsFromStart
        /\ dialog = [w \in L!Windows |-> "none"] /\ seen = [w \in L!Windows |-> 0]
        /\ conflict = {} /\ saving = {} /\ lost = 0
    BY <1>1 DEF L!Start
  <2>3. polling \in BOOLEAN
    BY <2>2 DEF L!PollsFromStart
  <2> QED BY <2>1, <2>2, <2>3 DEF FieldTypes
<1>7. \A s \in L!Names : listReq[s] # L!Free => listReq[s].got <= truth
  <2>1. truth = 0
    BY <1>1 DEF L!Start
  <2> QED BY <1>3, <1>4, <2>1
<1>8. LoadingEnds
  BY <1>3, <1>5 DEF LoadingEnds
<1>9. BusyEnds /\ OneSave
  <2>1. \A s \in L!Names : HeldBy(listReq[s]) = "none"
    BY <1>3, <1>4, ListRecords
  <2> QED BY <1>1, <2>1 DEF BusyEnds, OneSave, L!Start
<1> QED BY <1>4, <1>6, <1>7, <1>8, <1>9 DEF ListsInv

-----------------------------------------------------------------------------
(* The composition                                                         *)

PagesInv ==
    /\ page \in L!Pages \cup P!Pages
    /\ ListPage => ListsInv
    /\ JobPage => JobsInv

LEMMA PagesDisjoint == L!Pages \cap P!Pages = {}
  BY DEF L!Pages, P!Pages

LEMMA PagesStart ==
  ASSUME Init
  PROVE  PagesInv
<1>1. CASE L!Init
  <2>1. ListsInv
    BY <1>1, ListsStart
  <2>2. page \in L!Pages
    BY <2>1 DEF ListsInv, FieldTypes
  <2> QED BY <2>1, <2>2, PagesDisjoint DEF PagesInv, ListPage, JobPage
<1>2. CASE P!Init
  <2>1. JobsInv
    BY <1>2, JobsStart
  <2>2. page \in P!Pages
    BY <2>1 DEF JobsInv, P!TypeOK
  <2> QED BY <2>1, <2>2, PagesDisjoint DEF PagesInv, ListPage, JobPage
<1> QED BY <1>1, <1>2 DEF Init

LEMMA PagesStep ==
  ASSUME PagesInv, [Next]_vars
  PROVE  PagesInv'
<1>1. CASE ListPage /\ L!Next
  <2>1. ListsInv'
    BY <1>1, ListsStep DEF PagesInv
  <2>2. page' \in L!Pages
    BY <2>1 DEF ListsInv, FieldTypes
  <2> QED BY <2>1, <2>2, PagesDisjoint DEF PagesInv, ListPage, JobPage
<1>2. CASE JobPage /\ P!Next
  <2>1. JobsInv'
    BY <1>2, JobsStep DEF PagesInv
  <2>2. page' \in P!Pages
    BY <2>1 DEF JobsInv, P!TypeOK
  <2> QED BY <2>1, <2>2, PagesDisjoint DEF PagesInv, ListPage, JobPage
<1>3. CASE UNCHANGED vars
  <2>1. UNCHANGED <<page, mounted, lost>> /\ UNCHANGED lists /\ UNCHANGED jobs
    BY <1>3 DEF vars
  <2>2. ListsInv => ListsInv'
    BY <2>1 DEF lists, ListsInv, FieldTypes, LoadingEnds, BusyEnds, OneSave, HeldBy, L!Flag
  <2>3. JobsInv => JobsInv'
    BY <2>1 DEF jobs, JobsInv, Attended, P!TypeOK
  <2> QED BY <2>1, <2>2, <2>3 DEF PagesInv, ListPage, JobPage
<1> QED BY <1>1, <1>2, <1>3 DEF Next

LEMMA PagesInvariant == Spec => []PagesInv
<1>1. Init => PagesInv
  BY PagesStart
<1>2. PagesInv /\ [Next]_vars => PagesInv'
  BY PagesStep
<1> QED BY <1>1, <1>2, PTL DEF Spec

\* The requests, flags and versions of every list and of every long operation
\* keep their types, and nothing is shown that the server has not had.
THEOREM ListsAndJobsTyped == Spec => []TypeOK
<1>1. PagesInv => TypeOK
  BY ListsTyped DEF PagesInv, TypeOK, JobsInv
<1> QED BY <1>1, PagesInvariant, PTL

\* A list page whose rows are covered has a load under way: whatever fails,
\* overtakes or outlives the page, the rows are shown again.
THEOREM RowsAreShownAgain == Spec => [](ListPage => LoadingEnds)
<1>1. PagesInv => (ListPage => LoadingEnds)
  BY DEF PagesInv, ListsInv
<1> QED BY <1>1, PagesInvariant, PTL

\* A dialog is not left with its save button blocked: while the flag of a dialog is
\* on, the save that set it or the load that follows it is under way, whatever
\* fails and in whatever order the answers come.
THEOREM DialogsAreFreed == Spec => [](ListPage => BusyEnds)
<1>1. PagesInv => (ListPage => BusyEnds)
  BY DEF PagesInv, ListsInv
<1> QED BY <1>1, PagesInvariant, PTL

\* Two saves that share a flag never run side by side, not even when the dialog is
\* closed and opened again while the first one is under way: the group's, the
\* user's and the grant's dialog of access groups, the policy's and the ban's of
\* protection, and every other dialog with itself.  Routes are left out: one is
\* removed without waiting for the save of another.
THEOREM SavesAreSingle == Spec => [](ListPage => OneSave)
<1>1. PagesInv => (ListPage => OneSave)
  BY DEF PagesInv, ListsInv
<1> QED BY <1>1, PagesInvariant, PTL

\* The tunnels' page and the update's do not stop asking for an operation that
\* they show as running.
THEOREM OperationsAreFollowed == Spec => [](JobPage => Attended)
<1>1. PagesInv => (JobPage => Attended)
  BY DEF PagesInv, JobsInv
<1> QED BY <1>1, PagesInvariant, PTL

=============================================================================
