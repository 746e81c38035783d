--------------------------- MODULE ReverseProxy ---------------------------
(***************************************************************************)
(* Requests to reverse-proxy rules that share one backend pool             *)
(* (src/internal/webproxy), while the configuration is reloaded under      *)
(* them.                                                                   *)
(*                                                                         *)
(* A site server caches one handler per rule, built on the first request   *)
(* for the revision of the rule that the server holds; a reload retires    *)
(* the handler, which lives on until its last request is done.  The        *)
(* in-flight counts of the pool and of its nodes outlive the handlers:     *)
(* they are shared, reference-counted, and dropped with the last user.     *)
(*                                                                         *)
(* Each site has one rule; the revision of a rule is the revision of its   *)
(* pool.  Which nodes are healthy is left open: a pick may pass over any.  *)
(***************************************************************************)
EXTENDS Integers, FiniteSets, Sequences

CONSTANTS
    Requests,    \* goroutines of net/http
    Sites,
    Nodes,       \* backend URLs
    PoolNodes,   \* revision -> enabled nodes of the pool
    PoolLimit,   \* revision -> MaxConcurrent of the pool
    NodeLimit,   \* revision -> MaxConcurrent of a node
    MaxServers, MaxStops, MaxHandlers  \* bounds: site servers started, stopped, handlers built

Revisions == DOMAIN PoolNodes
Slots == (1..MaxHandlers) \X Nodes

ASSUME ProxyAssumption ==
    /\ PoolNodes \in Seq(SUBSET Nodes) /\ PoolNodes # <<>>
    /\ PoolLimit \in [Revisions -> Nat \ {0}] /\ NodeLimit \in [Revisions -> Nat \ {0}]
    /\ MaxServers \in Nat /\ MaxStops \in Nat /\ MaxHandlers \in Nat

VARIABLES
    revision,    \* of the pool in the configuration that Reload works on
    running,     \* Service.sites: site -> its server, or 0
    servers,     \* site servers ever started: site, snapshot, cached handler, handlerMu
    handlers,    \* reverse handlers ever built
    admissions,  \* poolAdmission objects ever made
    current,     \* the one in Service.poolAdmissions, or 0
    slots,       \* poolNodeSlot.active; <<h, n>> is the slot for n that handler h made
    req          \* the requests under way

vars == <<revision, running, servers, handlers, admissions, current, slots, req>>

-----------------------------------------------------------------------------

Idle == [pc |-> "idle", server |-> 0, rev |-> 0, handler |-> 0,
         admission |-> 0, node |-> 0, held |-> {}]

NewServer(s, rev) == [site |-> s, rev |-> rev, phase |-> "open", cache |-> 0, locked |-> FALSE]
NewAdmission == [active |-> 0, members |-> 0, retired |-> FALSE,
                 node |-> [n \in Nodes |-> 0], refs |-> [n \in Nodes |-> 0]]

Init ==
    /\ revision = 1
    /\ running = [s \in Sites |-> 0]
    /\ servers = <<>> /\ handlers = <<>> /\ admissions = <<>> /\ current = 0
    /\ slots = [k \in Slots |-> 0]
    /\ req = [q \in Requests |-> Idle]

At(q, pc) == req[q].pc = pc
Server(q) == servers[req[q].server]
Handler(q) == handlers[req[q].handler]
Admission(q) == Handler(q).admission

Go(q, pc) == req' = [req EXCEPT ![q].pc = pc]
Done(q) == req' = [req EXCEPT ![q] = Idle]

-----------------------------------------------------------------------------
(* poolAdmission                                                           *)

\* LoadOrStore of poolAdmissionFor: the one in the map, or a new one.
LoadAdmission ==
    IF current # 0 THEN UNCHANGED <<admissions, current>>
    ELSE /\ admissions' = Append(admissions, NewAdmission)
         /\ current' = Len(admissions) + 1

\* node(): one reference for every handler that uses the node.
NodeRefs(a, N) == [n \in Nodes |-> IF n \in N THEN a.refs[n] + 1 ELSE a.refs[n]]

\* Handler h makes the slots that are missing.
NodeSlots(a, N, h) == [n \in Nodes |-> IF n \in N /\ a.node[n] = 0 THEN h ELSE a.node[n]]

Joined(a, N, h) ==
    [a EXCEPT !.members = @ + 1, !.refs = NodeRefs(a, N), !.node = NodeSlots(a, N, h)]

\* release(): a node without references loses its slot; the last member retires
\* the admission and takes it out of the map.
Released(a, N) ==
    LET refs == [n \in Nodes |-> IF n \in N THEN a.refs[n] - 1 ELSE a.refs[n]]
    IN  [a EXCEPT !.members = @ - 1, !.refs = refs, !.retired = (a.members = 1),
                  !.node = [n \in Nodes |-> IF refs[n] = 0 THEN 0 ELSE a.node[n]]]

\* Bug variant: requests still under way are not waited for.
Unused_now(h, requests) == h.retired /\ h.joined

\* releaseRetiredAdmissionLocked: retired, and the last request is done.
Unused(h, requests) == h.retired /\ requests = 0 /\ h.joined

\* The handler is replaced by h; if that is no longer in use it leaves the pool.
PutHandler(i, h) ==
    LET a == h.admission
        leaves == Unused(h, h.requests)
    IN  /\ handlers' = [handlers EXCEPT ![i] = [h EXCEPT !.joined = @ /\ ~leaves]]
        /\ IF leaves
           THEN /\ admissions' = [admissions EXCEPT ![a] = Released(@, DOMAIN h.slot)]
                /\ current' = IF admissions'[a].retired /\ current = a THEN 0 ELSE current
           ELSE UNCHANGED <<admissions, current>>

-----------------------------------------------------------------------------
(* reverseHandlerFor                                                       *)

\* The rule is matched and checked (IP, UA, login) in the server's snapshot.
Match(q, i) ==
    /\ At(q, "idle") /\ servers[i].phase # "closed"
    /\ req' = [req EXCEPT ![q] = [Idle EXCEPT !.pc = "matched", !.server = i,
                                              !.rev = servers[i].rev]]
    /\ UNCHANGED <<revision, running, servers, handlers, admissions, current, slots>>

\* Bug variant: whatever is cached serves the request.
CurrentRule_any(q) == TRUE

\* currentRuleLocked
CurrentRule(q) == req[q].rev = Server(q).rev

Looking(q) == At(q, "matched") /\ ~Server(q).locked

\* errRuleUpdated, or errPoolUnavailable.
Turned(q) ==
    /\ Looking(q)
    /\ ~CurrentRule(q) \/ (Server(q).cache = 0 /\ PoolNodes[req[q].rev] = {})
    /\ Done(q)
    /\ UNCHANGED <<revision, running, servers, handlers, admissions, current, slots>>

Cached(q) ==
    /\ Looking(q) /\ CurrentRule(q) /\ Server(q).cache # 0
    /\ req' = [req EXCEPT ![q].pc = "found", ![q].handler = Server(q).cache]
    /\ UNCHANGED <<revision, running, servers, handlers, admissions, current, slots>>

\* Keeps handlerMu until Join.
Build(q) ==
    /\ Looking(q) /\ CurrentRule(q) /\ Server(q).cache = 0 /\ PoolNodes[req[q].rev] # {}
    /\ Len(handlers) + Cardinality({r \in Requests : At(r, "building")}) < MaxHandlers
    /\ LoadAdmission
    /\ req' = [req EXCEPT ![q].pc = "building", ![q].admission = current']
    /\ servers' = [servers EXCEPT ![req[q].server].locked = TRUE]
    /\ UNCHANGED <<revision, running, handlers, slots>>

\* The admission was retired in the meantime: look again.
Reload(q) ==
    /\ At(q, "building") /\ admissions[req[q].admission].retired
    /\ LoadAdmission
    /\ req' = [req EXCEPT ![q].admission = current']
    /\ UNCHANGED <<revision, running, servers, handlers, slots>>

Join(q) ==
    LET a == req[q].admission
        N == PoolNodes[req[q].rev]
        h == Len(handlers) + 1
    IN  /\ At(q, "building") /\ ~admissions[a].retired
        /\ admissions' = [admissions EXCEPT ![a] = Joined(@, N, h)]
        /\ handlers' = Append(handlers,
                [server |-> req[q].server, rev |-> req[q].rev, requests |-> 0, retired |-> FALSE,
                 leaving |-> FALSE, probing |-> TRUE, joined |-> TRUE, admission |-> a,
                 slot |-> [n \in N |-> NodeSlots(admissions[a], N, h)[n]]])
        /\ servers' = [servers EXCEPT ![req[q].server].cache = h, ![req[q].server].locked = FALSE]
        /\ req' = [req EXCEPT ![q].pc = "found", ![q].handler = h, ![q].admission = 0]
        /\ UNCHANGED <<revision, running, current, slots>>

-----------------------------------------------------------------------------
(* reverseHandler.ServeHTTP                                                *)

\* Bug variant: the request is not counted.
Enter_uncounted(q) ==
    /\ At(q, "found") /\ ~Handler(q).retired /\ Go(q, "entered")
    /\ UNCHANGED <<revision, running, servers, handlers, admissions, current, slots>>

Enter(q) ==
    /\ At(q, "found") /\ ~Handler(q).retired
    /\ handlers' = [handlers EXCEPT ![req[q].handler].requests = @ + 1]
    /\ Go(q, "entered")
    /\ UNCHANGED <<revision, running, servers, admissions, current, slots>>

Retired(q) ==
    /\ At(q, "found") /\ Handler(q).retired
    /\ Done(q)
    /\ UNCHANGED <<revision, running, servers, handlers, admissions, current, slots>>

\* takeSlot of the pool.
Admit(q) ==
    /\ At(q, "entered")
    /\ IF admissions[Admission(q)].active < PoolLimit[Handler(q).rev]
       THEN /\ admissions' = [admissions EXCEPT ![Admission(q)].active = @ + 1]
            /\ Go(q, "admitted")
       ELSE UNCHANGED admissions /\ Go(q, "leaving")
    /\ UNCHANGED <<revision, running, servers, handlers, current, slots>>

Slot(q, n) == <<Handler(q).slot[n], n>>
HasRoom(q, n) == slots[Slot(q, n)] < NodeLimit[Handler(q).rev]

\* pick(nil): a node that has room, or none at all.
Pick(q) ==
    /\ At(q, "admitted")
    /\ \/ \E n \in DOMAIN Handler(q).slot :
             HasRoom(q, n) /\ req' = [req EXCEPT ![q].pc = "picked", ![q].node = n]
       \/ Go(q, "done")
    /\ UNCHANGED <<revision, running, servers, handlers, admissions, current, slots>>

\* serveEntry: takeSlot of the node, which may be full by now.
Take(q) ==
    LET n == req[q].node
    IN  /\ At(q, "picked") /\ HasRoom(q, n)
        /\ slots' = [slots EXCEPT ![Slot(q, n)] = @ + 1]
        /\ req' = [req EXCEPT ![q].pc = "backend", ![q].held = @ \cup {n}]
        /\ UNCHANGED <<revision, running, servers, handlers, admissions, current>>

\* Bug variant: the slot of the pool is kept.
Full_keepsPool(q) ==
    /\ At(q, "picked") /\ ~HasRoom(q, req[q].node) /\ req[q].held = {} /\ Go(q, "leaving")
    /\ UNCHANGED <<revision, running, servers, handlers, admissions, current, slots>>

Full(q) ==
    /\ At(q, "picked") /\ ~HasRoom(q, req[q].node)
    /\ req' = [req EXCEPT ![q].pc = "full", ![q].node = 0]
    /\ UNCHANGED <<revision, running, servers, handlers, admissions, current, slots>>

\* onProxyError: no connection; a request without a body that only reads is
\* replayed, once, on another node. The slot of the first is still held.
Failover(q) ==
    /\ At(q, "backend") /\ req[q].held = {req[q].node}
    /\ \E n \in DOMAIN Handler(q).slot \ {req[q].node} :
          HasRoom(q, n) /\ req' = [req EXCEPT ![q].pc = "picked", ![q].node = n]
    /\ UNCHANGED <<revision, running, servers, handlers, admissions, current, slots>>

\* Answered, or given up with what was taken so far: the deferred calls give back
\* the slots of the nodes, then that of the pool, then the request.
ReleaseNodes(q) ==
    /\ req[q].pc \in {"backend", "full"}
    /\ slots' = [k \in Slots |-> IF k[2] \in req[q].held /\ k = Slot(q, k[2]) THEN slots[k] - 1 ELSE slots[k]]
    /\ req' = [req EXCEPT ![q].pc = "done", ![q].held = {}, ![q].node = 0]
    /\ UNCHANGED <<revision, running, servers, handlers, admissions, current>>

ReleasePool(q) ==
    /\ At(q, "done")
    /\ admissions' = [admissions EXCEPT ![Admission(q)].active = @ - 1]
    /\ Go(q, "leaving")
    /\ UNCHANGED <<revision, running, servers, handlers, current, slots>>

\* Bug variant: only shutdown gives the admission back.
Leave_keepsAdmission(q) ==
    /\ At(q, "leaving")
    /\ handlers' = [handlers EXCEPT ![req[q].handler].requests = @ - 1]
    /\ Done(q)
    /\ UNCHANGED <<revision, running, servers, admissions, current, slots>>

Leave(q) ==
    /\ At(q, "leaving")
    /\ PutHandler(req[q].handler, [Handler(q) EXCEPT !.requests = @ - 1])
    /\ Done(q)
    /\ UNCHANGED <<revision, running, servers, slots>>

-----------------------------------------------------------------------------
(* Reload                                                                  *)

\* The pool is edited through the API, and the next Reload reads the result.
Edit ==
    /\ revision < Len(PoolNodes) /\ revision' = revision + 1
    /\ UNCHANGED <<running, servers, handlers, admissions, current, slots, req>>

\* A handler on its way out: shutdown comes after handlerMu is released.
Dropped(i) ==
    handlers' = [h \in DOMAIN handlers |->
                    IF h = servers[i].cache THEN [handlers[h] EXCEPT !.leaving = TRUE] ELSE handlers[h]]

\* updateSite
UpdateSite(s) ==
    LET i == running[s]
    IN  /\ i # 0 /\ ~servers[i].locked /\ servers[i].rev < revision
        /\ Dropped(i)
        /\ servers' = [servers EXCEPT ![i].rev = revision, ![i].cache = 0]
        /\ UNCHANGED <<revision, running, admissions, current, slots, req>>

\* shutdown: first the requests are turned away ...
Shutdown(h) ==
    /\ handlers[h].leaving /\ ~handlers[h].retired
    /\ PutHandler(h, [handlers[h] EXCEPT !.retired = TRUE])
    /\ UNCHANGED <<revision, running, servers, slots, req>>

\* ... then the prober is stopped.
StopProber(h) ==
    /\ handlers[h].leaving /\ handlers[h].retired
    /\ handlers' = [handlers EXCEPT ![h].leaving = FALSE, ![h].probing = FALSE]
    /\ UNCHANGED <<revision, running, servers, admissions, current, slots, req>>

\* A site that is disabled, deleted, listens elsewhere or has failed: stopSite
\* shuts the cached handler down, which stays in the cache and turns requests
\* away (Retired); where none is cached yet, a request may still build one ...
StopSite(s) ==
    LET i == running[s]
    IN  /\ i # 0 /\ ~servers[i].locked
        /\ Cardinality({j \in DOMAIN servers : servers[j].phase # "open"}) < MaxStops
        /\ running' = [running EXCEPT ![s] = 0]
        /\ servers' = [servers EXCEPT ![i].phase = "closing"]
        /\ Dropped(i)
        /\ UNCHANGED <<revision, admissions, current, slots, req>>

\* ... and http.Server.Shutdown waits for the requests, but not for ever.
SiteClosed(i) ==
    /\ servers[i].phase = "closing"
    /\ \A h \in DOMAIN handlers : handlers[h].server = i => ~handlers[h].leaving
    /\ servers' = [servers EXCEPT ![i].phase = "closed"]
    /\ UNCHANGED <<revision, running, handlers, admissions, current, slots, req>>

\* startLocked, once the server before is closed.
StartSite(s) ==
    /\ running[s] = 0 /\ Len(servers) < MaxServers
    /\ \A i \in DOMAIN servers : servers[i].site = s => servers[i].phase = "closed"
    /\ servers' = Append(servers, NewServer(s, revision))
    /\ running' = [running EXCEPT ![s] = Len(servers')]
    /\ UNCHANGED <<revision, handlers, admissions, current, slots, req>>

-----------------------------------------------------------------------------

Finding(q) ==
    \/ \E i \in DOMAIN servers : Match(q, i)
    \/ Turned(q) \/ Cached(q) \/ Build(q) \/ Reload(q) \/ Join(q)

Serving(q) ==
    \/ Enter(q) \/ Retired(q) \/ Admit(q) \/ Pick(q) \/ Take(q) \/ Full(q) \/ Failover(q)
    \/ ReleaseNodes(q) \/ ReleasePool(q) \/ Leave(q)

Reloading ==
    \/ Edit
    \/ \E s \in Sites : UpdateSite(s) \/ StopSite(s) \/ StartSite(s)
    \/ \E h \in DOMAIN handlers : Shutdown(h) \/ StopProber(h)
    \/ \E i \in DOMAIN servers : SiteClosed(i)

Next == Reloading \/ \E q \in Requests : Finding(q) \/ Serving(q)

Spec == Init /\ [][Next]_vars

-----------------------------------------------------------------------------
(* Properties                                                              *)

PCs == {"idle", "matched", "building", "found", "entered", "admitted", "picked", "backend", "full", "done", "leaving"}

TypeOK ==
    /\ revision \in Revisions
    /\ running \in [Sites -> 0..Len(servers)]
    /\ servers \in Seq([site : Sites, rev : Revisions, phase : {"open", "closing", "closed"},
                        cache : 0..Len(handlers), locked : BOOLEAN])
    /\ \A h \in DOMAIN handlers :
         /\ handlers[h].slot \in [PoolNodes[handlers[h].rev] -> 1..Len(handlers)]
         /\ [handlers[h] EXCEPT !.slot = 0] \in
              [server : DOMAIN servers, rev : Revisions, requests : Nat, retired : BOOLEAN,
               leaving : BOOLEAN, probing : BOOLEAN, joined : BOOLEAN,
               admission : DOMAIN admissions, slot : {0}]
    /\ admissions \in Seq([active : Nat, members : Nat, retired : BOOLEAN,
                           node : [Nodes -> 0..Len(handlers)], refs : [Nodes -> Nat]])
    /\ current \in 0..Len(admissions)
    /\ slots \in [Slots -> Nat]
    /\ req \in [Requests -> [pc : PCs, server : 0..Len(servers), rev : 0..Len(PoolNodes),
                             handler : 0..Len(handlers), admission : 0..Len(admissions),
                             node : Nodes \cup {0}, held : SUBSET Nodes]]

Admitted(q) == req[q].pc \in {"admitted", "picked", "backend", "full", "done"}
Served(q) == Admitted(q) \/ req[q].pc \in {"entered", "leaving"}

\* The in-flight limits of the pool and of each of its nodes hold over all sites
\* and over reloads (TestBackendPoolAdmissionSharedAcrossRulesAndReload): a
\* request is let in, and sent to a node, only while the requests already there,
\* through whatever handler, are fewer than the limit of its own revision.
BudgetsKept ==
    [][\A q \in Requests :
          /\ Admitted(q)' /\ ~Admitted(q) =>
                Cardinality({r \in Requests : Admitted(r)}) < PoolLimit[Handler(q).rev]
          /\ \A n \in req'[q].held \ req[q].held :
                Cardinality({r \in Requests : n \in req[r].held}) < NodeLimit[Handler(q).rev]]_vars

\* A request is served by a handler of the very revision of the rule that it was
\* matched and checked against, and a cached handler is one of the snapshot:
\* what an edit has changed is never mixed with what it was.
ServedAsMatched ==
    /\ \A q \in Requests : Served(q) => Handler(q).rev = req[q].rev
                                        /\ Handler(q).server = req[q].server
    /\ \A i \in DOMAIN servers : servers[i].cache # 0 => handlers[servers[i].cache].rev = servers[i].rev

\* The counts of the pool and of its nodes are exact, so that no slot is lost for
\* good, and no two admissions or slots count for the same pool or node.
CountsAreExact ==
    /\ \A a \in DOMAIN admissions :
         /\ admissions[a].active = Cardinality({q \in Requests : Admitted(q) /\ Admission(q) = a})
         /\ admissions[a].members = Cardinality({h \in DOMAIN handlers : handlers[h].joined /\ handlers[h].admission = a})
         /\ \A n \in Nodes : admissions[a].refs[n] =
              Cardinality({h \in DOMAIN handlers : /\ handlers[h].joined /\ handlers[h].admission = a
                                                   /\ n \in DOMAIN handlers[h].slot})
    /\ \A k \in Slots : slots[k] =
         Cardinality({q \in Requests : k[2] \in req[q].held /\ Slot(q, k[2]) = k})
    /\ \A h \in DOMAIN handlers : handlers[h].joined =>
         /\ handlers[h].admission = current
         /\ \A n \in DOMAIN handlers[h].slot : handlers[h].slot[n] = admissions[current].node[n]

\* A handler that was shut down holds on to nothing once its last request is
\* done: no prober, no share in the pool; and the pool's counts go with the last
\* handler (TestBackendPoolRetirementReleasesUnusedRuntime).
RetiredReleaseAll ==
    /\ \A h \in DOMAIN handlers :
         handlers[h].retired /\ ~handlers[h].leaving /\ handlers[h].requests = 0
         => ~handlers[h].probing /\ ~handlers[h].joined
    /\ current # 0 => \/ \E h \in DOMAIN handlers : handlers[h].joined
                      \/ \E q \in Requests : At(q, "building")

\* backend_pool_test.go:197-202, "stop retained admissions": once every site is
\* closed and no request is under way, no handler shares in the pool or probes.
StopRetainsNothing ==
    /\ \A i \in DOMAIN servers : servers[i].phase = "closed"
    /\ \A q \in Requests : At(q, "idle")
    => current = 0 /\ \A h \in DOMAIN handlers : ~handlers[h].probing

=============================================================================
