------------------------ MODULE ReverseProxyProofs ------------------------
(***************************************************************************)
(* Proofs about ReverseProxy, for any number of requests, sites, nodes and *)
(* revisions of the pool, and for any limits and bounds.                   *)
(*                                                                         *)
(* IInv says what a request, a server's cache and a handler know of each   *)
(* other, and is enough for ServedAsMatched.  PoolInv adds what each count *)
(* counts: the requests inside a handler, those admitted to a pool, those  *)
(* that hold a node, and the handlers that still refer to a pool.  Counts  *)
(* that are exact are never negative, stay within their limits, and are    *)
(* zero when nobody is left.                                               *)
(***************************************************************************)
EXTENDS ReverseProxy, FiniteSetTheorems, TLAPS

-----------------------------------------------------------------------------
(* The inductive invariant                                                 *)

ServerType == [site : Sites, rev : Revisions, phase : {"open", "closing", "closed"},
               cache : Nat, locked : BOOLEAN]

SlotMaps == UNION {[N -> Nat] : N \in SUBSET Nodes}

HandlerType == [server : Nat, rev : Revisions, requests : Int, retired : BOOLEAN,
                leaving : BOOLEAN, probing : BOOLEAN, joined : BOOLEAN,
                admission : Nat, slot : SlotMaps]

AdmissionType == [active : Int, members : Int, retired : BOOLEAN,
                  node : [Nodes -> Nat], refs : [Nodes -> Int]]

ReqType == [pc : PCs, server : Nat, rev : Nat, handler : Nat, admission : Nat,
            node : Nodes \cup {0}, held : SUBSET Nodes]

\* Everything has the right fields; that no count falls below zero is not needed here.
Shape ==
    /\ revision \in Revisions
    /\ running \in [Sites -> 0..Len(servers)]
    /\ servers \in Seq(ServerType)
    /\ handlers \in Seq(HandlerType)
    /\ \A h \in DOMAIN handlers : handlers[h].admission \in DOMAIN admissions
    /\ admissions \in Seq(AdmissionType) /\ current \in 0..Len(admissions)
    /\ slots \in [Slots -> Int]
    /\ req \in [Requests -> ReqType]

\* A cached handler was built by its server, for the revision of its snapshot.
CachesFit ==
    \A i \in DOMAIN servers : servers[i].cache # 0 =>
        /\ servers[i].cache \in DOMAIN handlers
        /\ handlers[servers[i].cache].rev = servers[i].rev
        /\ handlers[servers[i].cache].server = i

WithHandler == {"found", "entered", "admitted", "picked", "backend", "full", "done", "leaving"}

\* What a request in state x knows is so: the snapshot does not change while it
\* holds handlerMu, and its handler is of the revision it was matched against.
RequestFits(x) ==
    /\ x.pc # "idle" => x.server \in DOMAIN servers /\ x.rev \in Revisions
    /\ x.pc = "building" => /\ servers[x.server].locked /\ servers[x.server].rev = x.rev
                            /\ x.admission \in DOMAIN admissions
    /\ x.pc \in WithHandler => /\ x.handler \in DOMAIN handlers
                               /\ handlers[x.handler].rev = x.rev
                               /\ handlers[x.handler].server = x.server
    /\ x.pc = "picked" => x.node \in Nodes

\* handlerMu has one holder.
OneBuilder ==
    \A q, r \in Requests :
        At(q, "building") /\ At(r, "building") /\ req[q].server = req[r].server => q = r

IInv == Shape /\ CachesFit /\ (\A q \in Requests : RequestFits(req[q])) /\ OneBuilder

-----------------------------------------------------------------------------
(* What the parts of a step keep                                           *)

\* Handlers are changed in place, and stay those of their server and revision.
HandlersKept ==
    /\ handlers' \in Seq(HandlerType) /\ Len(handlers') = Len(handlers)
    /\ \A h \in DOMAIN handlers : /\ handlers'[h].rev = handlers[h].rev
                                  /\ handlers'[h].server = handlers[h].server
                                  /\ handlers'[h].admission = handlers[h].admission

AdmissionsKept ==
    /\ admissions' \in Seq(AdmissionType) /\ Len(admissions) <= Len(admissions')
    /\ current' \in 0..Len(admissions')

\* The counters and flags that change, one at a time.
LEMMA AdmissionCounts ==
    ASSUME NEW a \in AdmissionType, NEW i \in Int
    PROVE  [a EXCEPT !.active = i] \in AdmissionType
BY DEF AdmissionType

LEMMA HandlerCounts ==
    ASSUME NEW h \in HandlerType, NEW i \in Int
    PROVE  LET g == [h EXCEPT !.requests = i]
           IN  g \in HandlerType /\ g.rev = h.rev /\ g.server = h.server /\ g.admission = h.admission
BY DEF HandlerType

LEMMA HandlerFlags ==
    ASSUME NEW h \in HandlerType, NEW b \in BOOLEAN,
           NEW g \in {[h EXCEPT !.retired = b], [h EXCEPT !.leaving = b], [h EXCEPT !.probing = b]}
    PROVE  g \in HandlerType /\ g.rev = h.rev /\ g.server = h.server /\ g.admission = h.admission
<1>1. CASE g = [h EXCEPT !.retired = b]
  BY <1>1 DEF HandlerType
<1>2. CASE g = [h EXCEPT !.leaving = b]
  BY <1>2 DEF HandlerType
<1>3. CASE g = [h EXCEPT !.probing = b]
  BY <1>3 DEF HandlerType
<1> QED BY <1>1, <1>2, <1>3

LEMMA ServerLocked ==
    ASSUME NEW s \in ServerType
    PROVE  LET g == [s EXCEPT !.locked = TRUE]
           IN  g \in ServerType /\ g.locked /\ g.rev = s.rev /\ g.cache = s.cache
BY DEF ServerType

LEMMA ServerCaches ==
    ASSUME NEW s \in ServerType, NEW h \in Nat
    PROVE  LET g == [s EXCEPT !.cache = h, !.locked = FALSE]
           IN  g \in ServerType /\ g.rev = s.rev /\ g.cache = h
<1> DEFINE b == [s EXCEPT !.cache = h]
<1>1. b \in ServerType /\ b.rev = s.rev /\ b.cache = h
  BY DEF ServerType
<1> HIDE DEF b
<1>2. LET g == [b EXCEPT !.locked = FALSE]
      IN  g \in ServerType /\ g.rev = b.rev /\ g.cache = b.cache
  BY <1>1 DEF ServerType
<1> QED BY <1>1, <1>2 DEF b

LEMMA ServerMoves ==
    ASSUME NEW s \in ServerType, NEW rev \in Revisions, NEW phase \in {"closing", "closed"}
    PROVE  /\ LET g == [s EXCEPT !.rev = rev, !.cache = 0]
              IN  g \in ServerType /\ g.locked = s.locked /\ g.rev = rev /\ g.cache = 0
           /\ LET g == [s EXCEPT !.phase = phase]
              IN  g \in ServerType /\ g.locked = s.locked /\ g.rev = s.rev /\ g.cache = s.cache
<1> DEFINE b == [s EXCEPT !.rev = rev]
<1>1. b \in ServerType /\ b.rev = rev /\ b.locked = s.locked
  BY DEF ServerType
<1>2. LET g == [s EXCEPT !.phase = phase]
      IN  g \in ServerType /\ g.locked = s.locked /\ g.rev = s.rev /\ g.cache = s.cache
  BY DEF ServerType
<1> HIDE DEF b
<1>3. LET g == [b EXCEPT !.cache = 0]
      IN  g \in ServerType /\ g.rev = b.rev /\ g.locked = b.locked /\ g.cache = 0
  BY <1>1 DEF ServerType
<1> QED BY <1>1, <1>2, <1>3 DEF b

LEMMA LoadAdmissionKeeps ==
    ASSUME Shape, LoadAdmission
    PROVE  AdmissionsKept /\ current' \in DOMAIN admissions'
<1> USE DEF Shape, LoadAdmission, AdmissionsKept
<1>1. NewAdmission \in AdmissionType
  BY DEF NewAdmission, AdmissionType
<1>2. CASE current # 0
  BY <1>2
<1>3. CASE current = 0
  <2>1. admissions' = Append(admissions, NewAdmission) /\ current' = Len(admissions) + 1
    BY <1>3
  <2>2. admissions' \in Seq(AdmissionType) /\ Len(admissions') = Len(admissions) + 1
    BY <1>1, <2>1
  <2> QED BY <2>1, <2>2
<1> QED BY <1>2, <1>3

LEMMA JoinedTyped ==
    ASSUME NEW a \in AdmissionType, NEW N \in SUBSET Nodes, NEW h \in Nat
    PROVE  Joined(a, N, h) \in AdmissionType /\ NodeSlots(a, N, h) \in [Nodes -> Nat]
<1>1. NodeRefs(a, N) \in [Nodes -> Int] /\ NodeSlots(a, N, h) \in [Nodes -> Nat]
  BY DEF NodeRefs, NodeSlots, AdmissionType
<1> DEFINE b == [a EXCEPT !.members = @ + 1]
           c == [b EXCEPT !.refs = NodeRefs(a, N)]
<1>2. Joined(a, N, h) = [c EXCEPT !.node = NodeSlots(a, N, h)]
  BY DEF Joined
<1>3. b \in AdmissionType
  BY DEF AdmissionType
<1> HIDE DEF b
<1>4. c \in AdmissionType
  BY <1>1, <1>3 DEF AdmissionType
<1> HIDE DEF c
<1> QED BY <1>1, <1>2, <1>4 DEF AdmissionType

LEMMA ReleasedTyped ==
    ASSUME NEW a \in AdmissionType, NEW N
    PROVE  Released(a, N) \in AdmissionType
<1> DEFINE refs == [n \in Nodes |-> IF n \in N THEN a.refs[n] - 1 ELSE a.refs[n]]
           node == [n \in Nodes |-> IF refs[n] = 0 THEN 0 ELSE a.node[n]]
<1>1. refs \in [Nodes -> Int] /\ node \in [Nodes -> Nat]
  BY DEF AdmissionType
<1> DEFINE b == [a EXCEPT !.members = @ - 1]
           c == [b EXCEPT !.refs = refs]
           d == [c EXCEPT !.retired = (a.members = 1)]
<1>2. Released(a, N) = [d EXCEPT !.node = node]
  BY DEF Released
<1> HIDE DEF refs, node
<1>3. b \in AdmissionType
  BY DEF AdmissionType
<1> HIDE DEF b
<1>4. c \in AdmissionType
  BY <1>1, <1>3 DEF AdmissionType
<1> HIDE DEF c
<1>5. d \in AdmissionType
  BY <1>4 DEF AdmissionType
<1> HIDE DEF d
<1> QED BY <1>1, <1>2, <1>5 DEF AdmissionType

LEMMA PutHandlerKeeps ==
    ASSUME Shape, NEW i \in DOMAIN handlers, NEW h \in HandlerType, PutHandler(i, h),
           h.rev = handlers[i].rev, h.server = handlers[i].server,
           h.admission = handlers[i].admission
    PROVE  HandlersKept /\ AdmissionsKept
<1> USE DEF Shape
<1> DEFINE leaves == Unused(h, h.requests)
           g == [h EXCEPT !.joined = @ /\ ~leaves]
<1>1. g \in HandlerType /\ g.rev = h.rev /\ g.server = h.server /\ g.admission = h.admission
  <2>1. (h.joined /\ ~leaves) \in BOOLEAN
    OBVIOUS
  <2> HIDE DEF leaves
  <2> QED BY <2>1 DEF HandlerType
<1>2. handlers' = [handlers EXCEPT ![i] = g]
  BY DEF PutHandler
<1> HIDE DEF g
<1>3. HandlersKept
  BY <1>1, <1>2 DEF HandlersKept
<1>4. CASE ~leaves
  <2>1. UNCHANGED <<admissions, current>>
    BY <1>4, Zenon DEF PutHandler
  <2> QED BY <1>3, <2>1 DEF AdmissionsKept
<1>5. CASE leaves
  <2> DEFINE a == h.admission
  <2>1. /\ admissions' = [admissions EXCEPT ![a] = Released(@, DOMAIN h.slot)]
        /\ current' = 0 \/ current' = current
    BY <1>5, Zenon DEF PutHandler
  <2> DEFINE b == Released(admissions[a], DOMAIN h.slot)
  <2>2. a \in DOMAIN admissions /\ b \in AdmissionType
    BY ReleasedTyped
  <2>3. admissions' = [admissions EXCEPT ![a] = b]
    BY <2>1
  <2> HIDE DEF a, b
  <2>4. admissions' \in Seq(AdmissionType) /\ Len(admissions') = Len(admissions)
    BY <2>2, <2>3
  <2>5. current' \in 0..Len(admissions)
    BY <2>1
  <2> QED BY <1>3, <2>4, <2>5 DEF AdmissionsKept
<1> QED BY <1>4, <1>5

\* A request that is not building does not mind what becomes of a snapshot.
LEMMA StillFits ==
    ASSUME Shape, HandlersKept, AdmissionsKept, NEW x \in ReqType, RequestFits(x),
           servers' \in Seq(ServerType), Len(servers) <= Len(servers'),
           x.pc = "building" =>
               /\ servers'[x.server].locked = servers[x.server].locked
               /\ servers'[x.server].rev = servers[x.server].rev
    PROVE  RequestFits(x)'
<1>1. /\ DOMAIN servers \subseteq DOMAIN servers' /\ DOMAIN handlers = DOMAIN handlers'
      /\ DOMAIN admissions \subseteq DOMAIN admissions'
  BY DEF Shape, HandlersKept, AdmissionsKept
<1>2. \A h \in DOMAIN handlers : handlers'[h].rev = handlers[h].rev
                                 /\ handlers'[h].server = handlers[h].server
  BY DEF HandlersKept
<1>3. (x.pc # "idle" => x.server \in DOMAIN servers /\ x.rev \in Revisions)'
  BY <1>1 DEF RequestFits
<1>4. (x.pc = "building" => /\ servers[x.server].locked /\ servers[x.server].rev = x.rev
                            /\ x.admission \in DOMAIN admissions)'
  BY <1>1, Zenon DEF RequestFits
<1>5. (x.pc \in WithHandler => /\ x.handler \in DOMAIN handlers
                               /\ handlers[x.handler].rev = x.rev
                               /\ handlers[x.handler].server = x.server)'
  BY <1>1, <1>2 DEF RequestFits
<1>6. (x.pc = "picked" => x.node \in Nodes)'
  BY DEF RequestFits
<1> QED BY <1>3, <1>4, <1>5, <1>6 DEF RequestFits

\* A step of one request that leaves the snapshots alone.
LEMMA RequestStep ==
    ASSUME IInv, NEW q \in Requests, NEW x \in ReqType, req' = [req EXCEPT ![q] = x],
           RequestFits(x)', x.pc = "building" => At(q, "building") /\ x.server = req[q].server,
           HandlersKept, AdmissionsKept, slots' \in [Slots -> Int],
           UNCHANGED <<revision, running, servers>>
    PROVE  IInv'
<1> USE DEF IInv, Shape
<1>1. Shape'
  <2>1. (\A h \in DOMAIN handlers : handlers[h].admission \in DOMAIN admissions)'
    <3>1. DOMAIN handlers = DOMAIN handlers' /\ DOMAIN admissions \subseteq DOMAIN admissions'
      BY DEF HandlersKept, AdmissionsKept
    <3> QED BY <3>1 DEF HandlersKept
  <2> QED BY <2>1 DEF HandlersKept, AdmissionsKept
<1>2. CachesFit'
  <2>1. DOMAIN handlers = DOMAIN handlers'
    BY DEF HandlersKept
  <2> QED BY ZenonT(60), <2>1 DEF CachesFit, HandlersKept
<1>3. \A r \in Requests : req'[r] = IF r = q THEN x ELSE req[r]
  OBVIOUS
<1>4. (\A r \in Requests : RequestFits(req[r]))'
  <2> SUFFICES ASSUME NEW r \in Requests PROVE RequestFits(req[r])'
    OBVIOUS
  <2>1. CASE r = q
    <3>1. req'[r] = x
      BY <1>3, <2>1
    <3> QED BY <3>1, Zenon DEF RequestFits
  <2>2. CASE r # q
    <3>1. PICK y \in ReqType : y = req[r]
      OBVIOUS
    <3>2. servers' \in Seq(ServerType) /\ Len(servers) <= Len(servers')
      OBVIOUS
    <3>3. RequestFits(y)'
      <4>1. RequestFits(y)
        BY <3>1
      <4> QED BY <4>1, <3>2, StillFits
    <3>4. req'[r] = y
      BY <1>3, <2>2, <3>1
    <3> QED BY <3>3, <3>4, Zenon DEF RequestFits
  <2> QED BY <2>1, <2>2
<1>5. OneBuilder'
  BY <1>3 DEF OneBuilder, At
<1> QED BY <1>1, <1>2, <1>4, <1>5

\* What a request that has found its handler may count on.
LEMMA HandlerFound ==
    ASSUME IInv, NEW q \in Requests, req[q].pc \in WithHandler
    PROVE  /\ req[q].handler \in DOMAIN handlers /\ Handler(q) \in HandlerType
           /\ Handler(q).rev = req[q].rev /\ Handler(q).server = req[q].server
           /\ req[q].server \in DOMAIN servers /\ req[q].rev \in Revisions
           /\ DOMAIN Handler(q).slot \subseteq Nodes
<1>1. RequestFits(req[q]) /\ req[q].pc # "idle" /\ handlers \in Seq(HandlerType)
  BY DEF IInv, Shape, WithHandler
<1>2. req[q].handler \in DOMAIN handlers /\ Handler(q) \in HandlerType
  BY <1>1 DEF RequestFits, Handler
<1>3. DOMAIN Handler(q).slot \subseteq Nodes
  BY <1>2 DEF HandlerType, SlotMaps
<1> QED BY <1>1, <1>2, <1>3 DEF RequestFits, Handler

\* Nothing but the requests and the slots change.
LEMMA NothingPut ==
    ASSUME Shape, UNCHANGED <<handlers, admissions, current>>
    PROVE  HandlersKept /\ AdmissionsKept
BY DEF Shape, HandlersKept, AdmissionsKept

-----------------------------------------------------------------------------
(* reverseHandler.ServeHTTP                                                *)

LEMMA IdleTyped == Idle \in ReqType /\ Idle.pc = "idle"
BY DEF Idle, ReqType, PCs

\* A step of a request that keeps its handler, or is done with it.
LEMMA ServingStep ==
    ASSUME IInv, NEW q \in Requests, req[q].pc \in WithHandler,
           NEW x \in ReqType, req' = [req EXCEPT ![q] = x],
           \/ x.pc = "idle"
           \/ /\ x.pc \in WithHandler
              /\ x.handler = req[q].handler /\ x.rev = req[q].rev /\ x.server = req[q].server,
           x.pc = "picked" => x.node \in Nodes,
           HandlersKept, AdmissionsKept, slots' \in [Slots -> Int],
           UNCHANGED <<revision, running, servers>>
    PROVE  IInv'
<1>1. RequestFits(x)'
  <2>1. CASE x.pc = "idle"
    BY <2>1 DEF RequestFits, WithHandler
  <2>2. CASE x.pc # "idle"
    <3>1. DOMAIN handlers = DOMAIN handlers'
      BY DEF IInv, Shape, HandlersKept
    <3> QED BY <2>2, <3>1, HandlerFound DEF RequestFits, WithHandler, HandlersKept, Handler
  <2> QED BY <2>1, <2>2
<1>2. x.pc # "building"
  BY DEF WithHandler
<1> QED BY <1>1, <1>2, RequestStep

LEMMA ServingInv ==
    ASSUME IInv, NEW q \in Requests, Serving(q)
    PROVE  IInv'
<1> USE DEF Go, Done, At
<1>1. Shape /\ req[q] \in ReqType /\ slots \in [Slots -> Int]
  BY DEF IInv, Shape
<1>2. \A pc \in PCs : [req[q] EXCEPT !.pc = pc] \in ReqType
  BY <1>1 DEF ReqType
<1>3. ASSUME UNCHANGED <<handlers, admissions, current>>
      PROVE  HandlersKept /\ AdmissionsKept
  BY <1>1, <1>3, NothingPut
<1>4. CASE Enter(q)
  <2>1. req[q].pc \in WithHandler
    BY <1>4 DEF Enter, WithHandler
  <2>2. PICK x \in ReqType : x = [req[q] EXCEPT !.pc = "entered"]
    BY <1>2 DEF PCs
  <2>3. HandlersKept /\ AdmissionsKept
    <3>1. handlers' = [handlers EXCEPT ![req[q].handler].requests = @ + 1]
      BY <1>4 DEF Enter
    <3>2. PICK g \in HandlerType :
            /\ g = [Handler(q) EXCEPT !.requests = @ + 1]
            /\ g.rev = Handler(q).rev /\ g.server = Handler(q).server
            /\ g.admission = Handler(q).admission
      <4>1. Handler(q) \in HandlerType /\ Handler(q).requests + 1 \in Int
        BY <2>1, HandlerFound DEF HandlerType
      <4> QED BY <4>1, HandlerCounts
    <3>3. handlers' = [handlers EXCEPT ![req[q].handler] = g]
      BY <3>1, <3>2 DEF Handler
    <3>5. HandlersKept
      BY <2>1, <3>2, <3>3, <1>1, HandlerFound DEF Shape, HandlersKept, Handler
    <3> QED BY <1>1, <1>4, <3>5 DEF Enter, Shape, AdmissionsKept
  <2> QED BY <1>1, <1>4, <2>1, <2>2, <2>3, ServingStep DEF Enter, ReqType, WithHandler
<1>5. CASE Retired(q)
  <2>1. PICK x \in ReqType : x = Idle
    BY IdleTyped
  <2>2. HandlersKept /\ AdmissionsKept
    BY <1>3, <1>5 DEF Retired
  <2> QED BY <1>1, <1>5, <2>1, <2>2, ServingStep, IdleTyped DEF Retired, WithHandler
<1>6. CASE Admit(q)
  <2>1. PICK pc \in {"admitted", "leaving"} : Go(q, pc)
    BY <1>6 DEF Admit
  <2>2. PICK x \in ReqType : x = [req[q] EXCEPT !.pc = pc]
    BY <1>2 DEF PCs
  <2>3. HandlersKept /\ AdmissionsKept
    <3> DEFINE a == Admission(q)
    <3>1. CASE admissions' = [admissions EXCEPT ![a].active = @ + 1]
      <4>1. a \in DOMAIN admissions
        BY <1>1, <1>6, HandlerFound DEF Admit, WithHandler, Shape, Handler, Admission
      <4>2. admissions[a] \in AdmissionType /\ admissions \in Seq(AdmissionType)
        BY <1>1, <4>1 DEF Shape
      <4> HIDE DEF a
      <4>3. PICK b \in AdmissionType : b = [admissions[a] EXCEPT !.active = @ + 1]
        <5>1. admissions[a].active + 1 \in Int
          BY <4>2 DEF AdmissionType
        <5> QED BY <4>2, <5>1, AdmissionCounts
      <4>4. admissions' = [admissions EXCEPT ![a] = b]
        BY <3>1, <4>3
      <4>5. admissions' \in Seq(AdmissionType) /\ Len(admissions') = Len(admissions)
        BY <4>1, <4>2, <4>4
      <4>6. UNCHANGED <<handlers, current>>
        BY <1>6 DEF Admit
      <4> QED BY <1>1, <4>5, <4>6 DEF Shape, HandlersKept, AdmissionsKept
    <3>2. CASE UNCHANGED admissions
      BY <1>3, <1>6, <3>2 DEF Admit
    <3> QED BY <1>6, <3>1, <3>2 DEF Admit
  <2> QED BY <1>1, <1>6, <2>1, <2>2, <2>3, ServingStep DEF Admit, ReqType, WithHandler
<1>7. CASE Pick(q)
  <2>1. PICK x \in ReqType :
          /\ req' = [req EXCEPT ![q] = x]
          /\ x.pc \in WithHandler /\ (x.pc = "picked" => x.node \in Nodes)
          /\ x.handler = req[q].handler /\ x.rev = req[q].rev /\ x.server = req[q].server
    <3>1. CASE Go(q, "done")
      <4>1. [req[q] EXCEPT !.pc = "done"] \in ReqType
        BY <1>2 DEF PCs
      <4> WITNESS [req[q] EXCEPT !.pc = "done"] \in ReqType
      <4> QED BY <1>1, <3>1 DEF ReqType, WithHandler
    <3>2. CASE \E n \in DOMAIN Handler(q).slot :
                  req' = [req EXCEPT ![q].pc = "picked", ![q].node = n]
      <4>1. PICK n \in Nodes : req' = [req EXCEPT ![q].pc = "picked", ![q].node = n]
        BY <1>7, <3>2, HandlerFound DEF Pick, WithHandler
      <4> DEFINE x == [req[q] EXCEPT !.pc = "picked", !.node = n]
      <4>2. x \in ReqType
        BY <1>1 DEF ReqType, PCs
      <4> WITNESS x \in ReqType
      <4> QED BY <1>1, <4>1 DEF ReqType, WithHandler
    <3> QED BY <1>7, <3>1, <3>2 DEF Pick
  <2>2. HandlersKept /\ AdmissionsKept
    BY <1>3, <1>7 DEF Pick
  <2> QED BY <1>1, <1>7, <2>1, <2>2, ServingStep DEF Pick, WithHandler
<1>8. CASE Take(q)
  <2>1. req[q].node \in Nodes /\ At(q, "picked")
    BY <1>8 DEF Take, IInv, RequestFits
  <2>2. PICK x \in ReqType : x = [req[q] EXCEPT !.pc = "backend", !.held = @ \cup {req[q].node}]
    BY <1>1, <2>1 DEF ReqType, PCs
  <2>3. slots' \in [Slots -> Int]
    <3> DEFINE k == Slot(q, req[q].node)
    <3>1. slots' = [slots EXCEPT ![k] = @ + 1]
      BY <1>8 DEF Take
    <3> HIDE DEF k
    <3> DEFINE S == Slots
    <3>2. slots \in [S -> Int]
      BY <1>1
    <3> HIDE DEF S
    <3>3. \A j \in S : slots'[j] = IF j = k THEN slots[j] + 1 ELSE slots[j]
      BY <3>1, <3>2
    <3>4. \A j \in S : slots'[j] \in Int
      BY <3>2, <3>3
    <3>5. slots' = [j \in S |-> slots'[j]]
      BY <3>1, <3>2
    <3>6. slots' \in [S -> Int]
      BY <3>4, <3>5
    <3> QED BY <3>6 DEF S
  <2>4. HandlersKept /\ AdmissionsKept
    BY <1>3, <1>8 DEF Take
  <2>5. req' = [req EXCEPT ![q] = x] /\ UNCHANGED <<revision, running, servers>>
    BY <1>8, <2>2 DEF Take
  <2> QED BY <1>1, <2>1, <2>2, <2>3, <2>4, <2>5, ServingStep DEF ReqType, WithHandler
<1>9. CASE Full(q)
  <2>1. PICK x \in ReqType : x = [req[q] EXCEPT !.pc = "full", !.node = 0]
    BY <1>1 DEF ReqType, PCs
  <2>2. HandlersKept /\ AdmissionsKept
    BY <1>3, <1>9 DEF Full
  <2>3. req' = [req EXCEPT ![q] = x] /\ UNCHANGED <<revision, running, servers, slots>>
    BY <1>9, <2>1 DEF Full
  <2>4. req[q].pc \in WithHandler /\ slots' \in [Slots -> Int]
    BY <1>1, <1>9 DEF Full, WithHandler
  <2>5. /\ x.pc = "full" /\ x.pc \in WithHandler /\ x.handler = req[q].handler
        /\ x.rev = req[q].rev /\ x.server = req[q].server
    BY <1>1, <2>1 DEF ReqType, WithHandler
  <2> QED BY <2>2, <2>3, <2>4, <2>5, ServingStep
<1>10. CASE Failover(q)
  <2>1. PICK n \in Nodes : req' = [req EXCEPT ![q].pc = "picked", ![q].node = n]
    BY <1>10, HandlerFound DEF Failover, WithHandler
  <2>2. PICK x \in ReqType : x = [req[q] EXCEPT !.pc = "picked", !.node = n]
    BY <1>1 DEF ReqType, PCs
  <2>3. HandlersKept /\ AdmissionsKept
    BY <1>3, <1>10 DEF Failover
  <2>4. req' = [req EXCEPT ![q] = x] /\ UNCHANGED <<revision, running, servers, slots>>
    BY <1>10, <2>1, <2>2 DEF Failover
  <2> QED BY <1>1, <1>10, <2>2, <2>3, <2>4, ServingStep DEF Failover, ReqType, WithHandler
<1>11. CASE ReleaseNodes(q)
  <2>1. PICK x \in ReqType : x = [req[q] EXCEPT !.pc = "done", !.held = {}, !.node = 0]
    BY <1>1 DEF ReqType, PCs
  <2>2. HandlersKept /\ AdmissionsKept
    BY <1>3, <1>11 DEF ReleaseNodes
  <2>3. req' = [req EXCEPT ![q] = x] /\ UNCHANGED <<revision, running, servers>>
    BY <1>11, <2>1 DEF ReleaseNodes
  <2>4. slots' \in [Slots -> Int]
    BY <1>1, <1>11 DEF ReleaseNodes
  <2> QED BY <1>1, <1>11, <2>1, <2>2, <2>3, <2>4, ServingStep DEF ReleaseNodes, ReqType, WithHandler
<1>12. CASE ReleasePool(q)
  <2>1. PICK x \in ReqType : x = [req[q] EXCEPT !.pc = "leaving"]
    BY <1>2 DEF PCs
  <2>2. HandlersKept /\ AdmissionsKept
    <3> DEFINE a == Admission(q)
    <3>1. admissions' = [admissions EXCEPT ![a].active = @ - 1] /\ UNCHANGED <<handlers, current>>
      BY <1>12 DEF ReleasePool
    <3>2. a \in DOMAIN admissions
      BY <1>1, <1>12, HandlerFound DEF ReleasePool, WithHandler, Shape, Handler, Admission
    <3>3. admissions[a] \in AdmissionType /\ admissions \in Seq(AdmissionType)
      BY <1>1, <3>2 DEF Shape
    <3> HIDE DEF a
    <3>4. PICK b \in AdmissionType : b = [admissions[a] EXCEPT !.active = @ - 1]
      <4>1. admissions[a].active - 1 \in Int
        BY <3>3 DEF AdmissionType
      <4> QED BY <3>3, <4>1, AdmissionCounts
    <3>5. admissions' = [admissions EXCEPT ![a] = b]
      BY <3>1, <3>4
    <3>6. admissions' \in Seq(AdmissionType) /\ Len(admissions') = Len(admissions)
      BY <3>2, <3>3, <3>5
    <3> QED BY <1>1, <3>1, <3>6 DEF Shape, HandlersKept, AdmissionsKept
  <2> QED BY <1>1, <1>12, <2>1, <2>2, ServingStep DEF ReleasePool, ReqType, WithHandler
<1>13. CASE Leave(q)
  <2>1. req[q].pc \in WithHandler
    BY <1>13 DEF Leave, WithHandler
  <2>2. PICK x \in ReqType : x = Idle
    BY IdleTyped
  <2>3. PICK h \in HandlerType :
          /\ h = [Handler(q) EXCEPT !.requests = @ - 1]
          /\ h.rev = Handler(q).rev /\ h.server = Handler(q).server
          /\ h.admission = Handler(q).admission
    <3>1. Handler(q) \in HandlerType /\ Handler(q).requests - 1 \in Int
      BY <2>1, HandlerFound DEF HandlerType
    <3> QED BY <3>1, HandlerCounts
  <2>4. HandlersKept /\ AdmissionsKept
    <3>1. PutHandler(req[q].handler, h)
      BY <1>13, <2>3 DEF Leave
    <3>2. req[q].handler \in DOMAIN handlers
      BY <2>1, HandlerFound
    <3> QED BY <1>1, <2>3, <3>1, <3>2, PutHandlerKeeps DEF Handler
  <2> QED BY <1>1, <1>13, <2>1, <2>2, <2>4, ServingStep, IdleTyped DEF Leave
<1> QED BY <1>4, <1>5, <1>6, <1>7, <1>8, <1>9, <1>10, <1>11, <1>12, <1>13 DEF Serving

-----------------------------------------------------------------------------
(* reverseHandlerFor                                                       *)

LEMMA FindingInv ==
    ASSUME IInv, NEW q \in Requests, Finding(q)
    PROVE  IInv'
<1> USE DEF Done, At
<1>1. Shape /\ req[q] \in ReqType /\ RequestFits(req[q])
  BY DEF IInv, Shape
<1>2. ASSUME UNCHANGED <<handlers, admissions, current>>
      PROVE  HandlersKept /\ AdmissionsKept
  BY <1>1, <1>2, NothingPut
<1>3. CASE \E i \in DOMAIN servers : Match(q, i)
  <2>1. PICK i \in DOMAIN servers : Match(q, i)
    BY <1>3
  <2>2. i \in Nat /\ servers[i].rev \in Revisions /\ servers[i].rev \in Nat
    <3>1. Revisions \subseteq Nat
      BY ProxyAssumption DEF Revisions
    <3>2. i \in Nat /\ servers[i] \in ServerType
      BY <1>1, <2>1 DEF Shape
    <3> QED BY <3>1, <3>2 DEF ServerType
  <2>3. PICK x \in ReqType :
          x = [Idle EXCEPT !.pc = "matched", !.server = i, !.rev = servers[i].rev]
    BY <2>2, IdleTyped DEF ReqType, PCs
  <2>4. x.pc = "matched" /\ x.server = i /\ x.rev = servers[i].rev
    BY <2>3 DEF Idle
  <2>5. req' = [req EXCEPT ![q] = x] /\ UNCHANGED <<revision, running, servers, slots>>
    BY <2>1, <2>3 DEF Match
  <2>6. HandlersKept /\ AdmissionsKept /\ slots' \in [Slots -> Int]
    BY <1>1, <1>2, <2>1 DEF Match, Shape
  <2>7. RequestFits(x)'
    BY <2>2, <2>4, <2>5 DEF RequestFits, WithHandler
  <2> QED BY <2>4, <2>5, <2>6, <2>7, RequestStep
<1>4. CASE Turned(q)
  <2>1. PICK x \in ReqType : x = Idle
    BY IdleTyped
  <2>2. HandlersKept /\ AdmissionsKept /\ slots' \in [Slots -> Int]
    BY <1>1, <1>2, <1>4 DEF Turned, Shape
  <2>3. req' = [req EXCEPT ![q] = x] /\ UNCHANGED <<revision, running, servers>>
    BY <1>4, <2>1 DEF Turned
  <2>4. x.pc = "idle" /\ RequestFits(x)'
    BY <2>1, IdleTyped DEF RequestFits, WithHandler
  <2> QED BY <2>2, <2>3, <2>4, RequestStep
<1>5. CASE Cached(q)
  <2> DEFINE h == Server(q).cache
  <2>1. /\ At(q, "matched") /\ req[q].rev = Server(q).rev /\ h # 0
        /\ req[q].server \in DOMAIN servers
    BY <1>1, <1>5 DEF Cached, Looking, CurrentRule, RequestFits
  <2>2. /\ h \in Nat /\ h \in DOMAIN handlers
        /\ handlers[h].rev = req[q].rev /\ handlers[h].server = req[q].server
    BY SMTT(40), <1>1, <2>1 DEF IInv, Shape, CachesFit, Server, ServerType
  <2>3. PICK x \in ReqType : x = [req[q] EXCEPT !.pc = "found", !.handler = h]
    BY <1>1, <2>2 DEF ReqType, PCs
  <2>4. x.pc = "found" /\ x.handler = h /\ x.rev = req[q].rev /\ x.server = req[q].server
    BY <1>1, <2>3 DEF ReqType
  <2>5. req' = [req EXCEPT ![q] = x] /\ UNCHANGED <<revision, running, servers, handlers, slots>>
    BY <1>5, <2>3 DEF Cached
  <2>6. HandlersKept /\ AdmissionsKept /\ slots' \in [Slots -> Int]
    BY <1>1, <1>2, <1>5 DEF Cached, Shape
  <2> HIDE DEF h
  <2>7. RequestFits(x)'
    BY <1>1, <2>1, <2>2, <2>4, <2>5 DEF RequestFits
  <2> QED BY <2>4, <2>5, <2>6, <2>7, RequestStep
<1>6. CASE Reload(q)
  <2>1. AdmissionsKept /\ current' \in DOMAIN admissions'
    BY <1>1, <1>6, LoadAdmissionKeeps DEF Reload
  <2>2. PICK x \in ReqType : x = [req[q] EXCEPT !.admission = current']
    <3>1. current' \in Nat
      BY <2>1 DEF AdmissionsKept
    <3> QED BY <1>1, <3>1 DEF ReqType
  <2>3. x.pc = "building" /\ x.rev = req[q].rev /\ x.server = req[q].server /\ x.admission = current'
    BY <1>1, <1>6, <2>2 DEF Reload, ReqType
  <2>4. req' = [req EXCEPT ![q] = x] /\ UNCHANGED <<revision, running, servers, handlers, slots>>
    BY <1>6, <2>2 DEF Reload
  <2>5. HandlersKept /\ slots' \in [Slots -> Int]
    BY <1>1, <2>4 DEF Shape, HandlersKept
  <2>6. RequestFits(x)'
    <3>1. /\ req[q].server \in DOMAIN servers /\ req[q].rev \in Revisions
          /\ servers[req[q].server].locked /\ servers[req[q].server].rev = req[q].rev
      BY <1>1, <1>6 DEF RequestFits, Reload
    <3>2. x.pc \notin WithHandler /\ x.pc # "picked" /\ x.pc # "idle"
      BY <2>3 DEF WithHandler
    <3> QED BY <2>1, <2>3, <2>4, <3>1, <3>2, Zenon DEF RequestFits
  <2> QED BY <1>6, <2>1, <2>3, <2>4, <2>5, <2>6, RequestStep DEF Reload
<1>7. CASE Build(q)
  <2> DEFINE i == req[q].server
  <2>1. /\ At(q, "matched") /\ ~servers[i].locked /\ i \in DOMAIN servers
        /\ req[q].rev \in Revisions /\ req[q].rev = servers[i].rev
    BY <1>1, <1>7 DEF Build, Looking, CurrentRule, RequestFits, Server
  <2>2. AdmissionsKept /\ current' \in DOMAIN admissions'
    BY <1>1, <1>7, LoadAdmissionKeeps DEF Build
  <2>3. PICK x \in ReqType : x = [req[q] EXCEPT !.pc = "building", !.admission = current']
    <3>1. current' \in Nat
      BY <2>2 DEF AdmissionsKept
    <3> QED BY <1>1, <3>1 DEF ReqType, PCs
  <2>4. x.pc = "building" /\ x.rev = req[q].rev /\ x.server = i /\ x.admission = current'
    BY <1>1, <2>3 DEF ReqType
  <2>5. /\ req' = [req EXCEPT ![q] = x] /\ UNCHANGED <<revision, running, handlers, slots>>
        /\ servers' = [servers EXCEPT ![i].locked = TRUE]
    BY <1>7, <2>3 DEF Build
  <2> HIDE DEF i
  <2>6. PICK g \in ServerType :
          /\ g = [servers[i] EXCEPT !.locked = TRUE]
          /\ g.locked /\ g.rev = servers[i].rev /\ g.cache = servers[i].cache
    <3>1. servers[i] \in ServerType
      BY <1>1, <2>1 DEF Shape
    <3> QED BY <3>1, ServerLocked
  <2>7. /\ servers \in Seq(ServerType) /\ servers' \in Seq(ServerType)
        /\ DOMAIN servers' = DOMAIN servers /\ Len(servers') = Len(servers)
        /\ \A j \in DOMAIN servers : servers'[j] = IF j = i THEN g ELSE servers[j]
    BY <1>1, <2>1, <2>5, <2>6 DEF Shape
  <2>8. HandlersKept
    BY <1>1, <2>5 DEF Shape, HandlersKept
  <2>9. \A r \in Requests : req'[r] = IF r = q THEN x ELSE req[r]
    BY <1>1, <2>5 DEF Shape
  <2>10. \A r \in Requests : At(r, "building") => req[r].server # i
    BY <2>1, Zenon DEF IInv, RequestFits
  <2>11. Shape'
    <3>1. DOMAIN admissions \subseteq DOMAIN admissions'
      BY <1>1, <2>2 DEF Shape, AdmissionsKept
    <3>2. (\A h \in DOMAIN handlers : handlers[h].admission \in DOMAIN admissions)'
      BY <1>1, <2>5, <3>1 DEF Shape
    <3>3. req' \in [Requests -> ReqType] /\ running' \in [Sites -> 0..Len(servers')]
      BY <1>1, <2>5, <2>7 DEF Shape
    <3> QED BY <1>1, <2>2, <2>5, <2>7, <3>2, <3>3 DEF Shape, AdmissionsKept
  <2>12. CachesFit'
    BY <2>5, <2>6, <2>7 DEF IInv, CachesFit
  <2>13. RequestFits(x)'
    <3>1. x.pc \notin WithHandler /\ x.pc # "picked"
      BY <2>4 DEF WithHandler
    <3>2. servers'[i].locked /\ servers'[i].rev = x.rev /\ i \in DOMAIN servers'
      BY <2>1, <2>4, <2>6, <2>7
    <3> QED BY <2>1, <2>2, <2>4, <3>1, <3>2, Zenon DEF RequestFits
  <2>14. \A r \in Requests \ {q} : RequestFits(req[r])'
    <3> SUFFICES ASSUME NEW r \in Requests \ {q} PROVE RequestFits(req[r])'
      OBVIOUS
    <3>1. PICK y \in ReqType : y = req[r]
      BY <1>1 DEF Shape
    <3>2. RequestFits(y) /\ (y.pc = "building" => y.server # i /\ y.server \in DOMAIN servers)
      BY <2>10, <3>1 DEF IInv, RequestFits
    <3>3. RequestFits(y)'
      BY <1>1, <2>2, <2>7, <2>8, <3>2, StillFits
    <3>4. req'[r] = y
      BY <2>9, <3>1
    <3> QED BY <3>3, <3>4, Zenon DEF RequestFits
  <2>15. (\A r \in Requests : RequestFits(req[r]))'
    <3>1. req'[q] = x
      BY <2>9
    <3>2. RequestFits(req[q])'
      BY <2>13, <3>1, Zenon DEF RequestFits
    <3> QED BY <2>14, <3>2
  <2>16. OneBuilder'
    BY <2>4, <2>9, <2>10 DEF IInv, OneBuilder
  <2> QED BY <2>11, <2>12, <2>15, <2>16 DEF IInv
<1>8. CASE Join(q)
  <2> DEFINE i == req[q].server
             h == Len(handlers) + 1
             N == PoolNodes[req[q].rev]
             a == req[q].admission
  <2>1. /\ At(q, "building") /\ i \in DOMAIN servers /\ a \in DOMAIN admissions
        /\ req[q].rev \in Revisions /\ servers[i].rev = req[q].rev
    BY <1>1, <1>8 DEF Join, RequestFits
  <2>2. h \in Nat \ {0} /\ N \in SUBSET Nodes /\ admissions[a] \in AdmissionType
        /\ i \in Nat /\ a \in Nat
    BY SMTT(40), <1>1, <2>1, ProxyAssumption DEF Shape, Revisions, ReqType
  <2>3. PICK g \in HandlerType :
          /\ handlers' = Append(handlers, g)
          /\ g.server = i /\ g.rev = req[q].rev /\ g.admission = a
    <3> DEFINE slot == [n \in N |-> NodeSlots(admissions[a], N, h)[n]]
    <3>1. NodeSlots(admissions[a], N, h) \in [Nodes -> Nat]
      BY <2>2, JoinedTyped
    <3>2. slot \in SlotMaps
      BY <2>2, <3>1 DEF SlotMaps
    <3>3. handlers' = Append(handlers,
                [server |-> i, rev |-> req[q].rev, requests |-> 0, retired |-> FALSE,
                 leaving |-> FALSE, probing |-> TRUE, joined |-> TRUE, admission |-> a,
                 slot |-> slot])
      BY <1>8 DEF Join
    <3> HIDE DEF slot, i, h, a, N
    <3> DEFINE g == [server |-> i, rev |-> req[q].rev, requests |-> 0, retired |-> FALSE,
                     leaving |-> FALSE, probing |-> TRUE, joined |-> TRUE, admission |-> a,
                     slot |-> slot]
    <3>4. g \in HandlerType
      BY <2>1, <2>2, <3>2 DEF HandlerType
    <3>5. g.server = i /\ g.rev = req[q].rev /\ g.admission = a
      OBVIOUS
    <3> HIDE DEF g
    <3> QED BY <3>3, <3>4, <3>5 DEF g
  <2>4. PICK x \in ReqType : x = [req[q] EXCEPT !.pc = "found", !.handler = h, !.admission = 0]
    BY <1>1, <2>2 DEF ReqType, PCs
  <2>5. x.pc = "found" /\ x.rev = req[q].rev /\ x.server = i /\ x.handler = h
    BY <1>1, <2>4 DEF ReqType
  <2>6. /\ req' = [req EXCEPT ![q] = x] /\ UNCHANGED <<revision, running, current, slots>>
        /\ servers' = [servers EXCEPT ![i].cache = h, ![i].locked = FALSE]
        /\ admissions' = [admissions EXCEPT ![a] = Joined(@, N, h)]
    BY <1>8, <2>4 DEF Join
  <2>7. PICK b \in AdmissionType : b = Joined(admissions[a], N, h)
    BY <2>2, JoinedTyped
  <2> HIDE DEF i, h, N, a
  <2>8. PICK s \in ServerType :
          /\ s = [servers[i] EXCEPT !.cache = h, !.locked = FALSE]
          /\ s.rev = servers[i].rev /\ s.cache = h
    <3>1. servers[i] \in ServerType
      BY <1>1, <2>1 DEF Shape
    <3> DEFINE c == [servers[i] EXCEPT !.cache = h, !.locked = FALSE]
    <3>2. c \in ServerType /\ c.rev = servers[i].rev /\ c.cache = h
      BY <2>2, <3>1, ServerCaches
    <3> QED BY <3>2, Zenon
  <2>9. /\ servers' \in Seq(ServerType)
        /\ DOMAIN servers' = DOMAIN servers /\ Len(servers') = Len(servers)
        /\ \A j \in DOMAIN servers : servers'[j] = IF j = i THEN s ELSE servers[j]
    <3>1. servers' = [servers EXCEPT ![i] = s]
      BY <2>6, <2>8
    <3> QED BY <1>1, <2>1, <3>1 DEF Shape
  <2>10. /\ admissions' \in Seq(AdmissionType) /\ DOMAIN admissions' = DOMAIN admissions
         /\ Len(admissions') = Len(admissions)
    BY <1>1, <2>1, <2>6, <2>7 DEF Shape
  <2>11. /\ handlers' \in Seq(HandlerType) /\ DOMAIN handlers' = DOMAIN handlers \cup {h}
         /\ h \notin DOMAIN handlers /\ handlers'[h] = g
         /\ \A j \in DOMAIN handlers : handlers'[j] = handlers[j]
    BY <1>1, <2>3 DEF Shape, h
  <2>12. \A r \in Requests : req'[r] = IF r = q THEN x ELSE req[r]
    BY <1>1, <2>6 DEF Shape
  <2>13. Shape'
    <3>1. (\A j \in DOMAIN handlers : handlers[j].admission \in DOMAIN admissions)'
      BY <1>1, <2>1, <2>3, <2>10, <2>11 DEF Shape
    <3>2. req' \in [Requests -> ReqType] /\ running' \in [Sites -> 0..Len(servers')]
      BY <1>1, <2>6, <2>9 DEF Shape
    <3> QED BY <1>1, <2>6, <2>9, <2>10, <2>11, <3>1, <3>2 DEF Shape
  <2>14. CachesFit'
    <3> SUFFICES ASSUME NEW j \in DOMAIN servers, servers'[j].cache # 0
                 PROVE  /\ servers'[j].cache \in DOMAIN handlers'
                        /\ handlers'[servers'[j].cache].rev = servers'[j].rev
                        /\ handlers'[servers'[j].cache].server = j
      BY <2>9 DEF CachesFit
    <3>1. CASE j = i
      BY ZenonT(60), <2>1, <2>3, <2>8, <2>9, <2>11, <3>1
    <3>2. CASE j # i
      <4>1. servers'[j] = servers[j]
        BY <2>9, <3>2
      <4>2. /\ servers[j].cache \in DOMAIN handlers
            /\ handlers[servers[j].cache].rev = servers[j].rev
            /\ handlers[servers[j].cache].server = j
        BY <4>1 DEF IInv, CachesFit
      <4> QED BY <2>11, <4>1, <4>2
    <3> QED BY <3>1, <3>2
  <2>15. (\A r \in Requests : RequestFits(req[r]))'
    <3> SUFFICES ASSUME NEW r \in Requests PROVE RequestFits(req[r])'
      OBVIOUS
    <3>1. CASE r = q
      <4>1. req'[r] = x
        BY <2>12, <3>1
      <4>2. RequestFits(x)'
        BY <2>1, <2>3, <2>5, <2>9, <2>11 DEF RequestFits, WithHandler
      <4> QED BY <4>1, <4>2, Zenon DEF RequestFits
    <3>2. CASE r # q
      <4>1. PICK y \in ReqType : y = req[r]
        BY <1>1 DEF Shape
      <4>2. RequestFits(y) /\ (y.pc = "building" => y.server # i)
        BY <2>1, <3>2, <4>1 DEF IInv, OneBuilder, i
      <4>3. RequestFits(y)'
        <5>1. (y.pc # "idle" => y.server \in DOMAIN servers /\ y.rev \in Revisions)'
          BY <2>9, <4>2 DEF RequestFits
        <5>2. (y.pc = "building" => /\ servers[y.server].locked /\ servers[y.server].rev = y.rev
                                    /\ y.admission \in DOMAIN admissions)'
          <6> SUFFICES ASSUME y.pc = "building"
                       PROVE  /\ servers'[y.server].locked /\ servers'[y.server].rev = y.rev
                              /\ y.admission \in DOMAIN admissions'
            OBVIOUS
          <6>1. y.server \in DOMAIN servers /\ y.server # i
            BY <4>2 DEF RequestFits
          <6>2. servers'[y.server] = servers[y.server]
            BY <2>9, <6>1
          <6> QED BY <2>10, <4>2, <6>2, Zenon DEF RequestFits
        <5>3. (y.pc \in WithHandler => /\ y.handler \in DOMAIN handlers
                                       /\ handlers[y.handler].rev = y.rev
                                       /\ handlers[y.handler].server = y.server)'
          BY <2>11, <4>2 DEF RequestFits
        <5>4. (y.pc = "picked" => y.node \in Nodes)'
          BY <4>2 DEF RequestFits
        <5> QED BY <5>1, <5>2, <5>3, <5>4 DEF RequestFits
      <4>4. req'[r] = y
        BY <2>12, <3>2, <4>1
      <4> QED BY <4>3, <4>4, Zenon DEF RequestFits
    <3> QED BY <3>1, <3>2
  <2>16. OneBuilder'
    BY <2>5, <2>12 DEF IInv, OneBuilder
  <2> QED BY <2>13, <2>14, <2>15, <2>16 DEF IInv
<1> QED BY <1>3, <1>4, <1>5, <1>6, <1>7, <1>8 DEF Finding

-----------------------------------------------------------------------------
(* Reload                                                                  *)

\* A step of Reload spares the snapshots whose handlerMu is held.
LEMMA ReloadStep ==
    ASSUME IInv, HandlersKept, AdmissionsKept, UNCHANGED <<slots, req>>,
           revision' \in Revisions, running' \in [Sites -> 0..Len(servers')],
           servers' \in Seq(ServerType), Len(servers) <= Len(servers'),
           \A j \in DOMAIN servers : servers[j].locked =>
               servers'[j].locked = servers[j].locked /\ servers'[j].rev = servers[j].rev,
           CachesFit'
    PROVE  IInv'
<1>1. Shape
  BY DEF IInv
<1>2. Shape'
  <2>1. (\A h \in DOMAIN handlers : handlers[h].admission \in DOMAIN admissions)'
    <3>1. DOMAIN handlers = DOMAIN handlers' /\ DOMAIN admissions \subseteq DOMAIN admissions'
      BY <1>1 DEF Shape, HandlersKept, AdmissionsKept
    <3> QED BY <1>1, <3>1 DEF Shape, HandlersKept
  <2> QED BY <1>1, <2>1 DEF Shape, HandlersKept, AdmissionsKept
<1>3. (\A r \in Requests : RequestFits(req[r]))'
  <2> SUFFICES ASSUME NEW r \in Requests PROVE RequestFits(req[r])'
    OBVIOUS
  <2>1. PICK x \in ReqType : x = req[r]
    BY <1>1 DEF Shape
  <2>2. RequestFits(x)
    BY <2>1 DEF IInv
  <2>3. x.pc = "building" =>
          /\ servers'[x.server].locked = servers[x.server].locked
          /\ servers'[x.server].rev = servers[x.server].rev
    BY <2>2 DEF RequestFits
  <2>4. RequestFits(x)'
    BY <1>1, <2>2, <2>3, StillFits
  <2>5. req'[r] = x
    BY <2>1
  <2> QED BY <2>4, <2>5, Zenon DEF RequestFits
<1>4. OneBuilder'
  BY DEF IInv, OneBuilder, At
<1> QED BY <1>2, <1>3, <1>4 DEF IInv

\* Flags of one handler change.
LEMMA FlagsKeep ==
    ASSUME Shape, handlers' \in Seq(HandlerType), Len(handlers') = Len(handlers),
           \A h \in DOMAIN handlers : \E b \in BOOLEAN :
               handlers'[h] \in {handlers[h], [handlers[h] EXCEPT !.leaving = b]}
    PROVE  HandlersKept
<1> SUFFICES ASSUME NEW h \in DOMAIN handlers
             PROVE  /\ handlers'[h].rev = handlers[h].rev /\ handlers'[h].server = handlers[h].server
                    /\ handlers'[h].admission = handlers[h].admission
  BY DEF HandlersKept
<1>1. handlers[h] \in HandlerType
  BY DEF Shape
<1>2. PICK b \in BOOLEAN : handlers'[h] \in {handlers[h], [handlers[h] EXCEPT !.leaving = b]}
  OBVIOUS
<1>3. CASE handlers'[h] = handlers[h]
  BY <1>3
<1>4. CASE handlers'[h] = [handlers[h] EXCEPT !.leaving = b]
  BY <1>1, <1>4, HandlerFlags
<1> QED BY <1>2, <1>3, <1>4

LEMMA DroppedKeeps ==
    ASSUME Shape, NEW i \in DOMAIN servers, Dropped(i)
    PROVE  HandlersKept
<1>1. \A h \in DOMAIN handlers : handlers[h] \in HandlerType
                                 /\ [handlers[h] EXCEPT !.leaving = TRUE] \in HandlerType
  <2> SUFFICES ASSUME NEW h \in DOMAIN handlers
               PROVE  handlers[h] \in HandlerType
                      /\ [handlers[h] EXCEPT !.leaving = TRUE] \in HandlerType
    OBVIOUS
  <2>1. handlers[h] \in HandlerType
    BY DEF Shape
  <2> QED BY <2>1, HandlerFlags
<1>2. PICK n \in Nat : n = Len(handlers) /\ DOMAIN handlers = 1..n
  BY DEF Shape
<1>3. handlers' \in [1..n -> HandlerType]
  BY <1>1, <1>2 DEF Dropped
<1>4. handlers' \in Seq(HandlerType) /\ Len(handlers') = Len(handlers)
  BY <1>2, <1>3
<1>5. \A h \in DOMAIN handlers : handlers'[h] \in {handlers[h], [handlers[h] EXCEPT !.leaving = TRUE]}
  BY DEF Dropped
<1> QED BY <1>4, <1>5, FlagsKeep

\* One site server changes: it keeps its cached handler with its snapshot, or drops it.
LEMMA SiteChanges ==
    ASSUME Shape, CachesFit, HandlersKept, NEW i \in DOMAIN servers, NEW g \in ServerType,
           servers' = [servers EXCEPT ![i] = g], g.locked = servers[i].locked,
           g.rev = servers[i].rev \/ ~servers[i].locked,
           g.cache = 0 \/ (g.cache = servers[i].cache /\ g.rev = servers[i].rev)
    PROVE  /\ CachesFit' /\ servers' \in Seq(ServerType) /\ Len(servers') = Len(servers)
           /\ \A j \in DOMAIN servers : servers[j].locked =>
               servers'[j].locked = servers[j].locked /\ servers'[j].rev = servers[j].rev
<1>1. /\ servers' \in Seq(ServerType) /\ Len(servers') = Len(servers)
      /\ DOMAIN servers' = DOMAIN servers
      /\ \A j \in DOMAIN servers : servers'[j] = IF j = i THEN g ELSE servers[j]
  BY DEF Shape
<1>2. DOMAIN handlers = DOMAIN handlers'
  BY DEF Shape, HandlersKept
<1>3. CachesFit'
  <2> SUFFICES ASSUME NEW j \in DOMAIN servers, servers'[j].cache # 0
               PROVE  /\ servers'[j].cache \in DOMAIN handlers
                      /\ handlers'[servers'[j].cache].rev = servers'[j].rev
                      /\ handlers'[servers'[j].cache].server = j
    BY <1>1, <1>2 DEF CachesFit
  <2>1. servers'[j].cache = servers[j].cache /\ servers'[j].rev = servers[j].rev
    BY <1>1
  <2>2. /\ servers[j].cache \in DOMAIN handlers
        /\ handlers[servers[j].cache].rev = servers[j].rev
        /\ handlers[servers[j].cache].server = j
    BY <2>1 DEF CachesFit
  <2> QED BY <2>1, <2>2 DEF HandlersKept
<1>4. \A j \in DOMAIN servers : servers[j].locked =>
         servers'[j].locked = servers[j].locked /\ servers'[j].rev = servers[j].rev
  BY <1>1, Zenon
<1> QED BY <1>1, <1>3, <1>4

LEMMA ReloadingInv ==
    ASSUME IInv, Reloading
    PROVE  IInv'
<1>1. Shape /\ CachesFit
  BY DEF IInv
<1>2. ASSUME UNCHANGED <<handlers, admissions, current>>
      PROVE  HandlersKept /\ AdmissionsKept
  BY <1>1, <1>2, NothingPut
<1>3. ASSUME UNCHANGED servers, HandlersKept
      PROVE  /\ CachesFit' /\ servers' \in Seq(ServerType) /\ Len(servers) <= Len(servers')
             /\ \A j \in DOMAIN servers : servers'[j] = servers[j]
  <2>1. DOMAIN handlers = DOMAIN handlers'
    BY <1>1, <1>3 DEF Shape, HandlersKept
  <2>2. CachesFit'
    BY <1>1, <1>3, <2>1 DEF CachesFit, HandlersKept
  <2>3. servers' \in Seq(ServerType) /\ Len(servers) <= Len(servers')
    BY <1>1, <1>3 DEF Shape
  <2> QED BY <1>3, <2>2, <2>3
<1>4. CASE Edit
  <2>1. UNCHANGED <<servers, handlers, admissions, current, running, slots, req>>
    BY <1>4 DEF Edit
  <2>2. revision' \in Revisions
    BY <1>1, <1>4, ProxyAssumption DEF Edit, Shape, Revisions
  <2>3. running' \in [Sites -> 0..Len(servers')]
    BY <1>1, <2>1 DEF Shape
  <2> QED BY <1>2, <1>3, <2>1, <2>2, <2>3, ReloadStep
<1>5. ASSUME NEW h \in DOMAIN handlers, Shutdown(h)
      PROVE  IInv'
  <2>1. handlers[h] \in HandlerType
    BY <1>1 DEF Shape
  <2>2. PICK g : g = [handlers[h] EXCEPT !.retired = TRUE]
    OBVIOUS
  <2>3. /\ g \in HandlerType /\ g.rev = handlers[h].rev /\ g.server = handlers[h].server
        /\ g.admission = handlers[h].admission
    BY <2>1, <2>2, HandlerFlags
  <2>4. PutHandler(h, g) /\ UNCHANGED <<revision, running, servers, slots, req>>
    BY <1>5, <2>2 DEF Shutdown
  <2>5. HandlersKept /\ AdmissionsKept
    BY <1>1, <2>3, <2>4, PutHandlerKeeps
  <2>6. revision' \in Revisions /\ running' \in [Sites -> 0..Len(servers')]
    BY <1>1, <2>4 DEF Shape
  <2> QED BY <1>3, <2>4, <2>5, <2>6, ReloadStep
<1>6. ASSUME NEW h \in DOMAIN handlers, StopProber(h)
      PROVE  IInv'
  <2>1. handlers[h] \in HandlerType
    BY <1>1 DEF Shape
  <2>2. PICK f : f = [handlers[h] EXCEPT !.leaving = FALSE]
    OBVIOUS
  <2>3. /\ f \in HandlerType /\ f.rev = handlers[h].rev /\ f.server = handlers[h].server
        /\ f.admission = handlers[h].admission
    BY <2>1, <2>2, HandlerFlags
  <2>4. PICK g : g = [f EXCEPT !.probing = FALSE]
    OBVIOUS
  <2>5. /\ g \in HandlerType /\ g.rev = f.rev /\ g.server = f.server
        /\ g.admission = f.admission
    BY <2>3, <2>4, HandlerFlags
  <2>6. /\ handlers' = [handlers EXCEPT ![h] = g]
        /\ UNCHANGED <<revision, running, servers, admissions, current, slots, req>>
    <3>1. handlers' = [handlers EXCEPT ![h].leaving = FALSE, ![h].probing = FALSE]
      BY <1>6 DEF StopProber
    <3>2. g = [[handlers[h] EXCEPT !.leaving = FALSE] EXCEPT !.probing = FALSE]
      BY <2>2, <2>4
    <3> QED BY <1>1, <1>6, <3>1, <3>2 DEF StopProber, Shape
  <2>7. HandlersKept /\ AdmissionsKept
    BY <1>1, <2>3, <2>5, <2>6 DEF Shape, HandlersKept, AdmissionsKept
  <2>8. revision' \in Revisions /\ running' \in [Sites -> 0..Len(servers')]
    BY <1>1, <2>6 DEF Shape
  <2> QED BY <1>3, <2>6, <2>7, <2>8, ReloadStep
<1>7. ASSUME NEW s \in Sites, UpdateSite(s)
      PROVE  IInv'
  <2> DEFINE i == running[s]
             g == [servers[i] EXCEPT !.rev = revision, !.cache = 0]
  <2>1. i \in DOMAIN servers /\ ~servers[i].locked /\ servers[i] \in ServerType
    BY <1>1, <1>7 DEF UpdateSite, Shape
  <2>2. /\ Dropped(i) /\ servers' = [servers EXCEPT ![i].rev = revision, ![i].cache = 0]
        /\ UNCHANGED <<revision, running, admissions, current, slots, req>>
    BY <1>7 DEF UpdateSite
  <2>3. g \in ServerType /\ g.locked = servers[i].locked /\ g.rev = revision /\ g.cache = 0
    BY ZenonT(60), <1>1, <2>1, ServerMoves DEF Shape
  <2>4. servers' = [servers EXCEPT ![i] = g]
    BY <2>2
  <2>5. HandlersKept /\ AdmissionsKept
    <3>1. HandlersKept
      BY <1>1, <2>1, <2>2, DroppedKeeps
    <3> QED BY <1>1, <2>2, <3>1 DEF Shape, AdmissionsKept
  <2> HIDE DEF g, i
  <2>6. /\ CachesFit' /\ servers' \in Seq(ServerType) /\ Len(servers') = Len(servers)
        /\ \A j \in DOMAIN servers : servers[j].locked =>
             servers'[j].locked = servers[j].locked /\ servers'[j].rev = servers[j].rev
    BY <1>1, <2>1, <2>3, <2>4, <2>5, SiteChanges
  <2>7. /\ revision' \in Revisions /\ running' \in [Sites -> 0..Len(servers')]
        /\ Len(servers) <= Len(servers')
    BY <1>1, <2>2, <2>6 DEF Shape
  <2> QED BY <2>2, <2>5, <2>6, <2>7, ReloadStep
<1>8. ASSUME NEW s \in Sites, StopSite(s)
      PROVE  IInv'
  <2> DEFINE i == running[s]
             g == [servers[i] EXCEPT !.phase = "closing"]
  <2>1. i \in DOMAIN servers /\ servers[i] \in ServerType
    BY <1>1, <1>8 DEF StopSite, Shape
  <2>2. /\ Dropped(i) /\ servers' = [servers EXCEPT ![i].phase = "closing"]
        /\ running' = [running EXCEPT ![s] = 0]
        /\ UNCHANGED <<revision, admissions, current, slots, req>>
    BY <1>8 DEF StopSite
  <2>3. /\ g \in ServerType /\ g.locked = servers[i].locked /\ g.rev = servers[i].rev
        /\ g.cache = servers[i].cache
    BY <1>1, <2>1, ServerMoves DEF Shape
  <2>4. servers' = [servers EXCEPT ![i] = g]
    BY <2>2
  <2>5. HandlersKept /\ AdmissionsKept
    <3>1. HandlersKept
      BY <1>1, <2>1, <2>2, DroppedKeeps
    <3> QED BY <1>1, <2>2, <3>1 DEF Shape, AdmissionsKept
  <2> HIDE DEF g, i
  <2>6. /\ CachesFit' /\ servers' \in Seq(ServerType) /\ Len(servers') = Len(servers)
        /\ \A j \in DOMAIN servers : servers[j].locked =>
             servers'[j].locked = servers[j].locked /\ servers'[j].rev = servers[j].rev
    BY <1>1, <2>1, <2>3, <2>4, <2>5, SiteChanges
  <2>7. /\ revision' \in Revisions /\ running' \in [Sites -> 0..Len(servers')]
        /\ Len(servers) <= Len(servers')
    BY <1>1, <2>2, <2>6 DEF Shape
  <2> QED BY <2>2, <2>5, <2>6, <2>7, ReloadStep
<1>9. ASSUME NEW i \in DOMAIN servers, SiteClosed(i)
      PROVE  IInv'
  <2> DEFINE g == [servers[i] EXCEPT !.phase = "closed"]
  <2>1. /\ servers' = [servers EXCEPT ![i] = g]
        /\ UNCHANGED <<revision, running, handlers, admissions, current, slots, req>>
    BY <1>9 DEF SiteClosed
  <2>2. servers[i] \in ServerType
    BY <1>1 DEF Shape
  <2>3. /\ g \in ServerType /\ g.locked = servers[i].locked /\ g.rev = servers[i].rev
        /\ g.cache = servers[i].cache
    BY <1>1, <2>2, ServerMoves DEF Shape
  <2>4. HandlersKept /\ AdmissionsKept
    BY <1>2, <2>1
  <2> HIDE DEF g
  <2>5. /\ CachesFit' /\ servers' \in Seq(ServerType) /\ Len(servers') = Len(servers)
        /\ \A j \in DOMAIN servers : servers[j].locked =>
             servers'[j].locked = servers[j].locked /\ servers'[j].rev = servers[j].rev
    BY <1>1, <2>1, <2>3, <2>4, SiteChanges
  <2>6. /\ revision' \in Revisions /\ running' \in [Sites -> 0..Len(servers')]
        /\ Len(servers) <= Len(servers')
    BY <1>1, <2>1, <2>5 DEF Shape
  <2> QED BY <2>1, <2>4, <2>5, <2>6, ReloadStep
<1>10. ASSUME NEW s \in Sites, StartSite(s)
       PROVE  IInv'
  <2>1. PICK g : g = NewServer(s, revision)
    OBVIOUS
  <2>2. g \in ServerType /\ g.cache = 0
    BY <1>1, <2>1 DEF NewServer, ServerType, Shape
  <2>3. /\ servers' = Append(servers, g) /\ running' = [running EXCEPT ![s] = Len(servers')]
        /\ UNCHANGED <<revision, handlers, admissions, current, slots, req>>
    BY <1>10, <2>1 DEF StartSite
  <2>4. HandlersKept /\ AdmissionsKept
    BY <1>2, <2>3
  <2>5. /\ servers' \in Seq(ServerType) /\ Len(servers') = Len(servers) + 1
        /\ \A j \in DOMAIN servers : servers'[j] = servers[j]
        /\ \A j \in DOMAIN servers' : j \in DOMAIN servers \/ servers'[j] = g
    BY <1>1, <2>2, <2>3 DEF Shape
  <2>6. CachesFit'
    BY <1>1, <2>2, <2>3, <2>5 DEF CachesFit
  <2>7. /\ revision' \in Revisions /\ running' \in [Sites -> 0..Len(servers')]
        /\ Len(servers) <= Len(servers')
    BY <1>1, <2>3, <2>5 DEF Shape
  <2> QED BY <2>3, <2>4, <2>5, <2>6, <2>7, ReloadStep
<1> QED BY <1>4, <1>5, <1>6, <1>7, <1>8, <1>9, <1>10 DEF Reloading

-----------------------------------------------------------------------------
(* The theorem                                                             *)

LEMMA InvInit == Init => IInv
<1> SUFFICES ASSUME Init PROVE IInv
  OBVIOUS
<1> USE DEF Init
<1>1. Shape
  <2>1. 1 \in Revisions
    BY ProxyAssumption DEF Revisions
  <2>2. req \in [Requests -> ReqType]
    BY IdleTyped
  <2> QED BY <2>1, <2>2 DEF Shape
<1>2. CachesFit
  BY DEF CachesFit
<1>3. (\A q \in Requests : RequestFits(req[q])) /\ OneBuilder
  BY IdleTyped DEF RequestFits, OneBuilder, At, WithHandler
<1> QED BY <1>1, <1>2, <1>3 DEF IInv

LEMMA InvNext == IInv /\ [Next]_vars => IInv'
<1> SUFFICES ASSUME IInv, [Next]_vars PROVE IInv'
  OBVIOUS
<1>1. CASE Reloading
  BY <1>1, ReloadingInv
<1>2. CASE \E q \in Requests : Finding(q)
  BY <1>2, FindingInv
<1>3. CASE \E q \in Requests : Serving(q)
  BY <1>3, ServingInv
<1>4. CASE UNCHANGED vars
  BY <1>4 DEF vars, IInv, Shape, CachesFit, RequestFits, OneBuilder, At
<1> QED BY <1>1, <1>2, <1>3, <1>4 DEF Next

\* Whatever the order of reloads, stops and requests, a request is served by a
\* handler built for the revision of the rule it was matched and checked against,
\* by its own site server, and what a server caches is of its snapshot
\* (currentRuleLocked, reverseHandlerFor and updateSite under handlerMu).
THEOREM RequestsServedAsMatched == Spec => []ServedAsMatched
<1>1. IInv => ServedAsMatched
  <2> SUFFICES ASSUME IInv PROVE ServedAsMatched
    OBVIOUS
  <2>1. \A q \in Requests : Served(q) => req[q].pc \in WithHandler
    BY DEF Served, Admitted, WithHandler
  <2> QED BY <2>1, HandlerFound DEF ServedAsMatched, IInv, CachesFit
<1> QED BY InvInit, InvNext, <1>1, PTL DEF Spec

-----------------------------------------------------------------------------
(* What the pool counts                                                    *)

\* n is the number of elements of S.
Counted(S, n) == IsFiniteSet(S) /\ Cardinality(S) = n

\* The requests that handler h, admission a and slot k count, and those about to
\* make a handler; the handlers that share in a, and of these the users of node n.
ServedBy(h) == {q \in Requests : Served(q) /\ req[q].handler = h}
AdmittedTo(a) == {q \in Requests : Admitted(q) /\ Admission(q) = a}
Holders(k) == {q \in Requests : k[2] \in req[q].held /\ Slot(q, k[2]) = k}
Builders == {q \in Requests : At(q, "building")}
Members(a) == {h \in DOMAIN handlers : handlers[h].joined /\ handlers[h].admission = a}
Users(a, n) == {h \in DOMAIN handlers : /\ handlers[h].joined /\ handlers[h].admission = a
                                        /\ n \in DOMAIN handlers[h].slot}

ServedCounted == \A h \in DOMAIN handlers : Counted(ServedBy(h), handlers[h].requests)
AdmittedCounted == \A a \in DOMAIN admissions : Counted(AdmittedTo(a), admissions[a].active)
HeldCounted == \A k \in Slots : Counted(Holders(k), slots[k])
MembersCounted ==
    \A a \in DOMAIN admissions :
        /\ Counted(Members(a), admissions[a].members)
        /\ \A n \in Nodes : Counted(Users(a, n), admissions[a].refs[n])

\* Who is building will find room for a handler, and for the slots it numbers.
RoomToBuild == IsFiniteSet(Builders) /\ Len(handlers) + Cardinality(Builders) <= MaxHandlers

\* A handler shares in the pool until it is shut down and its last request is
\* done, by the admission in the map and by the slots that stand there.
HandlerFits(h) ==
    /\ h.slot \in [PoolNodes[h.rev] -> 1..Len(handlers)]
    /\ h.server \in DOMAIN servers
    /\ h.joined <=> ~(h.retired /\ h.requests = 0)
    /\ h.retired => h.leaving \/ ~h.probing
    /\ h.joined => /\ h.admission = current
                   /\ \A n \in DOMAIN h.slot : h.slot[n] = admissions[current].node[n]

\* An admission is retired as it leaves the map.
AdmissionFits(a) ==
    /\ admissions[a].retired <=> a # current
    /\ admissions[a].node \in [Nodes -> 0..Len(handlers)]

HandlersFit == \A h \in DOMAIN handlers : HandlerFits(handlers[h])
AdmissionsFit == \A a \in DOMAIN admissions : AdmissionFits(a)

\* An admission stays in the map for a handler that shares in it, or is being made.
PoolInUse == current # 0 => (\E h \in DOMAIN handlers : handlers[h].joined) \/ Builders # {}

\* A request in state x holds slots of nodes only from its first pick to the
\* deferred release, all of its handler, and never picks a node it holds already.
RequestHolds(x) ==
    /\ x.held # {} => x.pc \in {"picked", "backend", "full"}
    /\ x.held # {} => x.held \subseteq DOMAIN handlers[x.handler].slot
    /\ x.pc = "picked" => x.node \in DOMAIN handlers[x.handler].slot /\ x.node \notin x.held
    /\ x.server \in 0..Len(servers) /\ x.rev \in 0..Len(PoolNodes)
    /\ x.handler \in 0..Len(handlers) /\ x.admission \in 0..Len(admissions)

RequestsHold == \A q \in Requests : RequestHolds(req[q])

PoolInv ==
    /\ ServedCounted /\ AdmittedCounted /\ HeldCounted /\ MembersCounted /\ RoomToBuild
    /\ HandlersFit /\ AdmissionsFit /\ PoolInUse /\ RequestsHold

-----------------------------------------------------------------------------
(* Counting                                                                *)

LEMMA CountedNone ==
    ASSUME NEW S, S = {}
    PROVE  Counted(S, 0)
BY FS_EmptySet DEF Counted

LEMMA CountedOneMore ==
    ASSUME NEW S, NEW T, NEW n, NEW x, Counted(S, n), x \notin S,
           \A y : y \in T <=> y \in S \/ y = x
    PROVE  Counted(T, n + 1)
<1>1. T = S \cup {x}
  OBVIOUS
<1> QED BY <1>1, FS_AddElement DEF Counted

LEMMA CountedOneLess ==
    ASSUME NEW S, NEW T, NEW n, NEW x, Counted(S, n), x \in S,
           \A y : y \in T <=> y \in S /\ y # x
    PROVE  Counted(T, n - 1)
<1>1. T = S \ {x}
  OBVIOUS
<1> QED BY <1>1, FS_RemoveElement DEF Counted

LEMMA CountedSome ==
    ASSUME NEW S, NEW n, Counted(S, n)
    PROVE  /\ n \in Nat
           /\ n = 0 <=> S = {}
           /\ n = 1 => \A x \in S : S = {x}
<1>1. n \in Nat
  BY FS_CardinalityType DEF Counted
<1>2. n = 0 <=> S = {}
  BY FS_EmptySet DEF Counted
<1>3. n = 1 => \A x \in S : S = {x}
  BY FS_Singleton DEF Counted
<1> QED BY <1>1, <1>2, <1>3

-----------------------------------------------------------------------------
(* The steps of requests and handlers, seen by the counts                  *)

\* Handlers come, and change; never what they were made from.
HandlersGrow ==
    /\ Len(handlers) <= Len(handlers')
    /\ \A h \in DOMAIN handlers : /\ handlers'[h].rev = handlers[h].rev
                                  /\ handlers'[h].server = handlers[h].server
                                  /\ handlers'[h].admission = handlers[h].admission
                                  /\ handlers'[h].slot = handlers[h].slot

\* The requests that are counted stay where they are.
SameServed == \A r \in Requests : /\ Served(r)' <=> Served(r)
                                  /\ Served(r) => req'[r].handler = req[r].handler
SameAdmitted == \A r \in Requests : /\ Admitted(r)' <=> Admitted(r)
                                    /\ Admitted(r) => req'[r].handler = req[r].handler
SameHeld == \A r \in Requests : /\ req'[r].held = req[r].held
                                /\ req[r].held # {} => req'[r].handler = req[r].handler
SameBuilders == \A r \in Requests : At(r, "building")' <=> At(r, "building")

\* A request that is served has a handler there is.
LEMMA ServedHere ==
    ASSUME IInv, PoolInv, NEW q \in Requests
    PROVE  /\ Admitted(q) => Served(q)
           /\ Served(q) \/ req[q].held # {} => req[q].pc \in WithHandler
           /\ req[q].pc \in WithHandler => req[q].handler \in DOMAIN handlers
           /\ req[q].held # {} => req[q].held \subseteq DOMAIN Handler(q).slot
           /\ req[q].held \subseteq Nodes
<1>1. RequestFits(req[q]) /\ RequestHolds(req[q]) /\ req[q] \in ReqType
  BY DEF IInv, Shape, PoolInv, RequestsHold
<1>2. req[q].held # {} => req[q].pc \in WithHandler
  BY <1>1 DEF RequestHolds, WithHandler
<1>3. Served(q) => req[q].pc \in WithHandler
  BY DEF Served, Admitted, WithHandler
<1>4. req[q].pc \in WithHandler => req[q].handler \in DOMAIN handlers
  BY <1>1 DEF RequestFits
<1>5. req[q].held # {} => req[q].held \subseteq DOMAIN Handler(q).slot
  BY <1>1 DEF RequestHolds, Handler
<1>6. req[q].held \subseteq Nodes
  BY <1>1 DEF ReqType
<1> QED BY <1>2, <1>3, <1>4, <1>5, <1>6 DEF Served

LEMMA ServedStays ==
    ASSUME IInv, IInv', PoolInv, HandlersGrow, SameServed,
           \A h \in DOMAIN handlers : handlers'[h].requests = handlers[h].requests,
           \A h \in DOMAIN handlers' \ DOMAIN handlers : handlers'[h].requests = 0
    PROVE  ServedCounted'
<1>1. ASSUME NEW h \in DOMAIN handlers PROVE Counted(ServedBy(h), handlers[h].requests)'
  <2>1. ServedBy(h)' = ServedBy(h)
    BY DEF ServedBy, SameServed
  <2> QED BY <2>1 DEF PoolInv, ServedCounted
<1>2. ASSUME NEW h \in DOMAIN handlers' \ DOMAIN handlers
      PROVE  Counted(ServedBy(h), handlers[h].requests)'
  <2>1. \A q \in Requests : Served(q)' => req'[q].handler \in DOMAIN handlers
    BY ServedHere DEF SameServed
  <2>2. ServedBy(h)' = {}
    BY <2>1 DEF ServedBy
  <2> QED BY <2>2, CountedNone
<1> QED BY <1>1, <1>2 DEF ServedCounted

LEMMA AdmittedStays ==
    ASSUME IInv, IInv', PoolInv, HandlersGrow, SameAdmitted,
           Len(admissions) <= Len(admissions'),
           \A a \in DOMAIN admissions : admissions'[a].active = admissions[a].active,
           \A a \in DOMAIN admissions' \ DOMAIN admissions : admissions'[a].active = 0
    PROVE  AdmittedCounted'
<1>1. ASSUME NEW q \in Requests, Admitted(q)
      PROVE  Admission(q)' = Admission(q) /\ Admission(q) \in DOMAIN admissions
  <2>1. req[q].handler \in DOMAIN handlers /\ req'[q].handler = req[q].handler
    BY <1>1, ServedHere DEF SameAdmitted
  <2> QED BY <2>1 DEF HandlersGrow, Admission, Handler, IInv, Shape
<1>2. \A a : AdmittedTo(a)' = AdmittedTo(a)
  BY <1>1 DEF AdmittedTo, SameAdmitted
<1>3. ASSUME NEW a \in DOMAIN admissions PROVE Counted(AdmittedTo(a), admissions[a].active)'
  BY <1>2 DEF PoolInv, AdmittedCounted
<1>4. ASSUME NEW a \in DOMAIN admissions' \ DOMAIN admissions
      PROVE  Counted(AdmittedTo(a), admissions[a].active)'
  <2>1. AdmittedTo(a) = {}
    BY <1>1 DEF AdmittedTo
  <2> QED BY <1>2, <2>1, CountedNone
<1> QED BY <1>3, <1>4 DEF AdmittedCounted

LEMMA HeldStays ==
    ASSUME IInv, PoolInv, HandlersGrow, SameHeld, UNCHANGED slots
    PROVE  HeldCounted'
<1> SUFFICES ASSUME NEW k \in Slots PROVE Counted(Holders(k), slots[k])'
  BY DEF HeldCounted
<1>1. ASSUME NEW q \in Requests, req[q].held # {}
      PROVE  Handler(q)'.slot = Handler(q).slot
  <2>1. req[q].handler \in DOMAIN handlers /\ req'[q].handler = req[q].handler
    BY <1>1, ServedHere DEF SameHeld
  <2> QED BY <2>1 DEF HandlersGrow, Handler
<1>2. Holders(k)' = Holders(k)
  BY <1>1 DEF Holders, SameHeld, Slot
<1> QED BY <1>2 DEF PoolInv, HeldCounted

LEMMA BuildersStay ==
    ASSUME PoolInv, SameBuilders, Len(handlers') = Len(handlers)
    PROVE  RoomToBuild'
<1>1. Builders' = Builders
  BY DEF Builders, SameBuilders
<1> QED BY <1>1 DEF PoolInv, RoomToBuild

\* A step that moves no handler in or out of the pool keeps its share exact.
LEMMA MembersStay ==
    ASSUME IInv, IInv', PoolInv, HandlersGrow,
           Len(handlers') = Len(handlers), Len(servers) <= Len(servers'),
           current' = current, Len(admissions') = Len(admissions),
           \A a \in DOMAIN admissions : /\ admissions'[a].members = admissions[a].members
                                        /\ admissions'[a].refs = admissions[a].refs
                                        /\ admissions'[a].node = admissions[a].node
                                        /\ admissions'[a].retired = admissions[a].retired,
           \A h \in DOMAIN handlers :
               /\ handlers'[h].joined = handlers[h].joined
               /\ handlers'[h].joined <=> ~(handlers'[h].retired /\ handlers'[h].requests = 0)
               /\ handlers'[h].retired => handlers'[h].leaving \/ ~handlers'[h].probing
    PROVE  MembersCounted' /\ HandlersFit' /\ AdmissionsFit'
<1>1. /\ DOMAIN handlers' = DOMAIN handlers /\ DOMAIN admissions' = DOMAIN admissions
      /\ DOMAIN servers \subseteq DOMAIN servers'
  BY DEF IInv, Shape
<1>2. MembersCounted'
  <2> SUFFICES ASSUME NEW a \in DOMAIN admissions
               PROVE  /\ Counted(Members(a), admissions[a].members)'
                      /\ \A n \in Nodes : Counted(Users(a, n), admissions[a].refs[n])'
    BY <1>1 DEF MembersCounted
  <2>1. Members(a)' = Members(a) /\ \A n \in Nodes : Users(a, n)' = Users(a, n)
    BY <1>1 DEF Members, Users, HandlersGrow
  <2> QED BY <2>1 DEF PoolInv, MembersCounted
<1>3. HandlersFit'
  <2> SUFFICES ASSUME NEW h \in DOMAIN handlers
               PROVE  HandlerFits(handlers[h])'
    BY <1>1 DEF HandlersFit
  <2>1. HandlerFits(handlers[h])
    BY DEF PoolInv, HandlersFit
  <2>2. handlers'[h].slot \in [PoolNodes[handlers'[h].rev] -> 1..Len(handlers')]
    BY <2>1 DEF HandlersGrow, HandlerFits
  <2>3. handlers'[h].server \in DOMAIN servers'
    BY <1>1, <2>1 DEF HandlersGrow, HandlerFits
  <2>4. handlers'[h].joined =>
           /\ handlers'[h].admission = current'
           /\ \A n \in DOMAIN handlers'[h].slot : handlers'[h].slot[n] = admissions'[current'].node[n]
    <3>1. handlers[h].admission \in DOMAIN admissions
      BY DEF IInv, Shape
    <3> QED BY <2>1, <3>1 DEF HandlersGrow, HandlerFits
  <2> QED BY <2>2, <2>3, <2>4 DEF HandlerFits
<1>4. AdmissionsFit'
  <2> SUFFICES ASSUME NEW a \in DOMAIN admissions
               PROVE  AdmissionFits(a)'
    BY <1>1 DEF AdmissionsFit
  <2> QED BY DEF PoolInv, AdmissionsFit, AdmissionFits
<1> QED BY <1>2, <1>3, <1>4

LEMMA InUseStays ==
    ASSUME PoolInv, SameBuilders, current' = current, DOMAIN handlers' = DOMAIN handlers,
           \A h \in DOMAIN handlers : handlers'[h].joined = handlers[h].joined
    PROVE  PoolInUse'
<1>1. Builders' = Builders
  BY DEF Builders, SameBuilders
<1> QED BY <1>1 DEF PoolInv, PoolInUse

LEMMA HoldsStill ==
    ASSUME IInv, PoolInv, HandlersGrow, NEW r \in Requests, req'[r] = req[r],
           Len(servers) <= Len(servers'), Len(admissions) <= Len(admissions'),
           Shape'
    PROVE  RequestHolds(req[r])'
<1>1. RequestHolds(req[r]) /\ RequestFits(req[r])
  BY DEF IInv, PoolInv, RequestsHold
<1>2. /\ Len(servers) \in Nat /\ Len(servers') \in Nat /\ Len(handlers) \in Nat
      /\ Len(handlers') \in Nat /\ Len(admissions) \in Nat /\ Len(admissions') \in Nat
  BY DEF IInv, Shape
<1>3. req[r].pc \in WithHandler => handlers'[req[r].handler].slot = handlers[req[r].handler].slot
  BY <1>1 DEF RequestFits, HandlersGrow
<1>4. req[r].pc = "picked" \/ req[r].held # {} => req[r].pc \in WithHandler
  BY <1>1 DEF RequestHolds, WithHandler
<1>5. /\ req[r].server \in 0..Len(servers') /\ req[r].handler \in 0..Len(handlers')
      /\ req[r].admission \in 0..Len(admissions')
  BY SMTT(40), <1>1, <1>2 DEF RequestHolds, HandlersGrow
<1> QED BY <1>1, <1>3, <1>4, <1>5 DEF RequestHolds

ServedAt == {"entered", "admitted", "picked", "backend", "full", "done", "leaving"}
AdmittedAt == {"admitted", "picked", "backend", "full", "done"}

\* Request q goes on to x.
LEMMA OneMoves ==
    ASSUME Shape, NEW q \in Requests, NEW x \in ReqType, req' = [req EXCEPT ![q] = x]
    PROVE  /\ \A r \in Requests \ {q} : req'[r] = req[r]
           /\ req'[q] = x
           /\ Served(q) <=> req[q].pc \in ServedAt
           /\ Admitted(q) <=> req[q].pc \in AdmittedAt
           /\ (x.pc \in ServedAt <=> Served(q)) /\ (Served(q) => x.handler = req[q].handler)
              => SameServed
           /\ (x.pc \in AdmittedAt <=> Admitted(q)) /\ (Admitted(q) => x.handler = req[q].handler)
              => SameAdmitted
           /\ x.held = req[q].held /\ (x.held # {} => x.handler = req[q].handler)
              => SameHeld
           /\ (x.pc = "building" <=> At(q, "building")) => SameBuilders
<1>1. req'[q] = x /\ \A r \in Requests \ {q} : req'[r] = req[r]
  BY DEF Shape
<1>2. /\ Served(q) <=> req[q].pc \in ServedAt
      /\ Served(q)' <=> x.pc \in ServedAt
      /\ Admitted(q) <=> req[q].pc \in AdmittedAt
      /\ Admitted(q)' <=> x.pc \in AdmittedAt
  BY <1>1 DEF Served, Admitted, ServedAt, AdmittedAt
<1>3. \A r \in Requests \ {q} : /\ Served(r)' <=> Served(r)
                                /\ Admitted(r)' <=> Admitted(r)
                                /\ At(r, "building")' <=> At(r, "building")
  BY <1>1 DEF Served, Admitted, At
<1>4. (x.pc \in ServedAt <=> Served(q)) /\ (Served(q) => x.handler = req[q].handler) => SameServed
  BY <1>1, <1>2, <1>3 DEF SameServed
<1>5. (x.pc \in AdmittedAt <=> Admitted(q)) /\ (Admitted(q) => x.handler = req[q].handler)
      => SameAdmitted
  BY <1>1, <1>2, <1>3 DEF SameAdmitted
<1>6. x.held = req[q].held /\ (x.held # {} => x.handler = req[q].handler) => SameHeld
  BY <1>1 DEF SameHeld
<1>7. (x.pc = "building" <=> At(q, "building")) => SameBuilders
  BY <1>1, <1>3 DEF SameBuilders, At
<1> QED BY <1>1, <1>2, <1>4, <1>5, <1>6, <1>7

LEMMA RequestsStay ==
    ASSUME Shape, UNCHANGED req
    PROVE  SameServed /\ SameAdmitted /\ SameHeld /\ SameBuilders
BY DEF SameServed, SameAdmitted, SameHeld, SameBuilders, Served, Admitted, At

\* What a handler is like, and its part in the pool.
LEMMA HandlerHere ==
    ASSUME IInv, PoolInv, NEW h \in DOMAIN handlers
    PROVE  /\ handlers[h] \in HandlerType /\ handlers[h].admission \in DOMAIN admissions
           /\ handlers[h].joined <=> ~(handlers[h].retired /\ handlers[h].requests = 0)
           /\ handlers[h].retired => handlers[h].leaving \/ ~handlers[h].probing
           /\ handlers[h].slot \in [PoolNodes[handlers[h].rev] -> 1..Len(handlers)]
           /\ handlers[h].joined => handlers[h].admission = current
           /\ \A n \in DOMAIN handlers[h].slot :
                handlers[h].joined => handlers[h].slot[n] = admissions[current].node[n]
           /\ Counted(ServedBy(h), handlers[h].requests)
BY DEF IInv, Shape, PoolInv, HandlersFit, HandlerFits, ServedCounted

\* Only requests change, and none of those that are counted.
LEMMA RequestsOnly ==
    ASSUME IInv, IInv', PoolInv, UNCHANGED <<servers, handlers, admissions, current, slots>>,
           NEW q \in Requests, \A r \in Requests \ {q} : req'[r] = req[r],
           RequestHolds(req'[q]), SameServed, SameAdmitted, SameHeld, SameBuilders
    PROVE  PoolInv'
<1>1. HandlersGrow /\ Shape'
  BY DEF HandlersGrow, IInv, Shape
<1>2. ServedCounted'
  BY <1>1, ServedStays
<1>3. AdmittedCounted'
  BY <1>1, AdmittedStays DEF IInv, Shape
<1>4. HeldCounted' /\ RoomToBuild' /\ PoolInUse'
  BY <1>1, HeldStays, BuildersStay, InUseStays
<1>5. MembersCounted' /\ HandlersFit' /\ AdmissionsFit'
  BY <1>1, MembersStay, HandlerHere DEF IInv, Shape
<1>6. RequestsHold'
  <2> SUFFICES ASSUME NEW r \in Requests PROVE RequestHolds(req[r])'
    BY DEF RequestsHold
  <2>1. CASE r = q
    BY <2>1 DEF RequestHolds
  <2>2. CASE r # q
    BY <1>1, <2>2, HoldsStill DEF IInv, Shape
  <2> QED BY <2>1, <2>2
<1> QED BY <1>2, <1>3, <1>4, <1>5, <1>6 DEF PoolInv

LEMMA IdleHolds ==
    ASSUME IInv
    PROVE  RequestHolds(Idle) /\ Idle.held = {} /\ Idle \in ReqType /\ Idle.pc = "idle"
<1>1. /\ Len(servers) \in Nat /\ Len(handlers) \in Nat /\ Len(admissions) \in Nat
      /\ Len(PoolNodes) \in Nat
  BY ProxyAssumption DEF IInv, Shape
<1> QED BY <1>1, IdleTyped DEF RequestHolds, Idle

LEMMA MatchPool ==
    ASSUME IInv, IInv', PoolInv, NEW q \in Requests, NEW i \in DOMAIN servers, Match(q, i)
    PROVE  PoolInv'
<1>1. Shape /\ req[q] \in ReqType /\ RequestHolds(req[q]) /\ req[q].pc = "idle"
  BY DEF IInv, Shape, PoolInv, RequestsHold, Match, At
<1>2. /\ i \in 1..Len(servers) /\ servers[i].rev \in 1..Len(PoolNodes)
      /\ Len(servers) \in Nat /\ Len(PoolNodes) \in Nat
  <2>1. Revisions = 1..Len(PoolNodes) /\ Len(PoolNodes) \in Nat
    BY ProxyAssumption DEF Revisions
  <2>2. servers[i] \in ServerType /\ i \in 1..Len(servers) /\ Len(servers) \in Nat
    BY <1>1 DEF Shape
  <2> QED BY <2>1, <2>2 DEF ServerType
<1>3. PICK x \in ReqType :
        x = [Idle EXCEPT !.pc = "matched", !.server = i, !.rev = servers[i].rev]
  <2>1. i \in Nat /\ servers[i].rev \in Nat
    BY <1>2
  <2> QED BY <2>1, IdleTyped DEF ReqType, PCs
<1>4. /\ x.pc = "matched" /\ x.server = i /\ x.rev = servers[i].rev /\ x.held = {}
      /\ x.handler = 0 /\ x.admission = 0
  BY <1>3 DEF Idle
<1>5. RequestHolds(x)
  <2>1. Len(handlers) \in Nat /\ Len(admissions) \in Nat
    BY <1>1 DEF Shape
  <2> QED BY <1>2, <1>4, <2>1 DEF RequestHolds
<1>6. req' = [req EXCEPT ![q] = x] /\ UNCHANGED <<servers, handlers, admissions, current, slots>>
  BY <1>3 DEF Match
<1>7. req[q].held = {}
  BY <1>1 DEF RequestHolds
<1>8. /\ SameServed /\ SameAdmitted /\ SameHeld /\ SameBuilders
      /\ req'[q] = x /\ \A r \in Requests \ {q} : req'[r] = req[r]
  <2>1. /\ x.pc \notin ServedAt /\ x.pc \notin AdmittedAt /\ x.pc # "building"
        /\ req[q].pc \notin ServedAt /\ req[q].pc \notin AdmittedAt /\ ~At(q, "building")
    BY <1>1, <1>4 DEF ServedAt, AdmittedAt, At
  <2> QED BY ZenonT(60), <1>1, <1>4, <1>6, <1>7, <2>1, OneMoves
<1> QED BY <1>5, <1>6, <1>8, RequestsOnly

LEMMA TurnedPool ==
    ASSUME IInv, IInv', PoolInv, NEW q \in Requests, Turned(q) \/ Retired(q)
    PROVE  PoolInv'
<1>1. Shape /\ RequestHolds(req[q]) /\ req[q].pc \in {"matched", "found"}
  BY DEF IInv, PoolInv, RequestsHold, Turned, Retired, Looking, At
<1>2. PICK x \in ReqType : x = Idle
  BY IdleHolds
<1>3. req' = [req EXCEPT ![q] = x] /\ UNCHANGED <<servers, handlers, admissions, current, slots>>
  BY <1>2 DEF Turned, Retired, Done
<1>4. req[q].held = {}
  BY <1>1 DEF RequestHolds
<1>5. /\ SameServed /\ SameAdmitted /\ SameHeld /\ SameBuilders
      /\ req'[q] = x /\ \A r \in Requests \ {q} : req'[r] = req[r]
  BY ZenonT(60), <1>1, <1>2, <1>3, <1>4, IdleHolds, OneMoves DEF ServedAt, AdmittedAt, At
<1> QED BY <1>2, <1>3, <1>5, IdleHolds, RequestsOnly

LEMMA CachedPool ==
    ASSUME IInv, IInv', PoolInv, NEW q \in Requests, Cached(q)
    PROVE  PoolInv'
<1> DEFINE h == Server(q).cache
<1>1. /\ Shape /\ RequestHolds(req[q]) /\ req[q] \in ReqType /\ req[q].pc = "matched"
      /\ RequestFits(req[q]) /\ h # 0
  BY DEF IInv, Shape, PoolInv, RequestsHold, Cached, Looking, At
<1>2. h \in Nat /\ h \in 1..Len(handlers) /\ Len(handlers) \in Nat
  <2>1. req[q].server \in DOMAIN servers
    BY <1>1 DEF RequestFits
  <2>2. Server(q) \in ServerType /\ h \in DOMAIN handlers
    BY <1>1, <2>1 DEF IInv, Shape, CachesFit, Server
  <2> QED BY <1>1, <2>2 DEF Shape, ServerType
<1>3. PICK x \in ReqType : x = [req[q] EXCEPT !.pc = "found", !.handler = h]
  BY <1>1, <1>2 DEF ReqType, PCs
<1>4. /\ x.pc = "found" /\ x.handler = h /\ x.rev = req[q].rev /\ x.server = req[q].server
      /\ x.held = req[q].held /\ x.admission = req[q].admission /\ x.node = req[q].node
  BY <1>1, <1>3 DEF ReqType
<1>5. req' = [req EXCEPT ![q] = x] /\ UNCHANGED <<servers, handlers, admissions, current, slots>>
  BY <1>3 DEF Cached
<1>6. req[q].held = {}
  BY <1>1 DEF RequestHolds
<1> HIDE DEF h
<1>7. RequestHolds(x)
  BY <1>1, <1>2, <1>4, <1>6 DEF RequestHolds
<1>8. /\ SameServed /\ SameAdmitted /\ SameHeld /\ SameBuilders
      /\ req'[q] = x /\ \A r \in Requests \ {q} : req'[r] = req[r]
  <2>1. /\ x.pc \notin ServedAt /\ x.pc \notin AdmittedAt /\ x.pc # "building"
        /\ req[q].pc \notin ServedAt /\ req[q].pc \notin AdmittedAt /\ ~At(q, "building")
    BY <1>1, <1>4 DEF ServedAt, AdmittedAt, At
  <2> QED BY ZenonT(60), <1>1, <1>4, <1>5, <1>6, <2>1, OneMoves
<1> QED BY <1>5, <1>7, <1>8, RequestsOnly

\* Pick, Full and Failover: a request goes from pick to pick.
LEMMA PickPool ==
    ASSUME IInv, IInv', PoolInv, NEW q \in Requests, Pick(q) \/ Full(q) \/ Failover(q)
    PROVE  PoolInv'
<1>1. /\ Shape /\ RequestHolds(req[q]) /\ req[q] \in ReqType
      /\ req[q].pc \in {"admitted", "picked", "backend"}
  BY DEF IInv, Shape, PoolInv, RequestsHold, Pick, Full, Failover, At
<1>2. req[q].pc \in WithHandler /\ DOMAIN Handler(q).slot \subseteq Nodes
  BY <1>1, HandlerFound DEF WithHandler
<1>3. PICK x \in ReqType :
        /\ req' = [req EXCEPT ![q] = x]
        /\ x.handler = req[q].handler /\ x.rev = req[q].rev /\ x.server = req[q].server
        /\ x.held = req[q].held /\ x.admission = req[q].admission
        /\ x.pc \in {"picked", "done", "full"}
        /\ x.pc = "picked" => x.node \in DOMAIN Handler(q).slot /\ x.node \notin x.held
        /\ x.held # {} => x.pc # "done"
  <2>1. CASE Pick(q) /\ Go(q, "done")
    <3> DEFINE x == [req[q] EXCEPT !.pc = "done"]
    <3>1. x \in ReqType
      BY <1>1 DEF ReqType, PCs
    <3>2. req' = [req EXCEPT ![q] = x] /\ req[q].held = {}
      BY <1>1, <2>1 DEF Go, Pick, At, RequestHolds
    <3> WITNESS x \in ReqType
    <3> QED BY <1>1, <3>2 DEF ReqType
  <2>2. CASE \E n \in DOMAIN Handler(q).slot \ req[q].held :
                req' = [req EXCEPT ![q].pc = "picked", ![q].node = n]
    <3>1. PICK n \in DOMAIN Handler(q).slot \ req[q].held :
                req' = [req EXCEPT ![q].pc = "picked", ![q].node = n]
      BY <2>2
    <3> DEFINE x == [req[q] EXCEPT !.pc = "picked", !.node = n]
    <3>2. x \in ReqType
      BY <1>1, <1>2 DEF ReqType, PCs
    <3>3. req' = [req EXCEPT ![q] = x]
      BY <3>1
    <3> WITNESS x \in ReqType
    <3> QED BY <1>1, <3>3 DEF ReqType
  <2>3. CASE Full(q)
    <3> DEFINE x == [req[q] EXCEPT !.pc = "full", !.node = 0]
    <3>1. x \in ReqType
      BY <1>1 DEF ReqType, PCs
    <3>2. req' = [req EXCEPT ![q] = x]
      BY <2>3 DEF Full
    <3> WITNESS x \in ReqType
    <3> QED BY <1>1, <3>2 DEF ReqType
  <2>4. CASE Pick(q) /\ ~Go(q, "done")
    <3>1. req[q].held = {}
      BY <1>1, <2>4 DEF Pick, At, RequestHolds
    <3> QED BY <2>2, <2>4, <3>1 DEF Pick
  <2>5. CASE Failover(q)
    BY <2>2, <2>5 DEF Failover
  <2> QED BY <2>1, <2>3, <2>4, <2>5
<1>4. UNCHANGED <<servers, handlers, admissions, current, slots>>
  BY DEF Pick, Full, Failover
<1>5. req[q].held # {} => req[q].held \subseteq DOMAIN Handler(q).slot
  BY <1>1 DEF RequestHolds, Handler
<1>6. RequestHolds(x)
  BY <1>1, <1>3, <1>5 DEF RequestHolds, Handler
<1>7. /\ SameServed /\ SameAdmitted /\ SameHeld /\ SameBuilders
      /\ req'[q] = x /\ \A r \in Requests \ {q} : req'[r] = req[r]
  BY ZenonT(60), <1>1, <1>3, OneMoves DEF ServedAt, AdmittedAt, At
<1> QED BY <1>4, <1>6, <1>7, RequestsOnly

-----------------------------------------------------------------------------
(* The steps that count                                                    *)

LEMMA ServedMoves ==
    ASSUME Shape, NEW q \in Requests, NEW x \in ReqType, req' = [req EXCEPT ![q] = x], NEW h
    PROVE  \A y : y \in ServedBy(h)' <=> \/ y \in ServedBy(h) /\ y # q
                                         \/ y = q /\ x.pc \in ServedAt /\ x.handler = h
<1>1. req'[q] = x /\ \A r \in Requests \ {q} : req'[r] = req[r]
  BY DEF Shape
<1> QED BY <1>1 DEF ServedBy, Served, Admitted, ServedAt

LEMMA AdmittedMoves ==
    ASSUME IInv, PoolInv, HandlersGrow,
           NEW q \in Requests, NEW x \in ReqType, req' = [req EXCEPT ![q] = x], NEW a
    PROVE  \A y : y \in AdmittedTo(a)' <=>
                     \/ y \in AdmittedTo(a) /\ y # q
                     \/ y = q /\ x.pc \in AdmittedAt /\ handlers'[x.handler].admission = a
<1>1. req'[q] = x /\ \A r \in Requests \ {q} : req'[r] = req[r]
  BY DEF IInv, Shape
<1>2. ASSUME NEW r \in Requests \ {q} PROVE r \in AdmittedTo(a)' <=> r \in AdmittedTo(a)
  <2>1. Admitted(r)' <=> Admitted(r)
    BY <1>1 DEF Admitted
  <2>2. Admitted(r) => Admission(r)' = Admission(r)
    BY <1>1, ServedHere DEF Admission, Handler, HandlersGrow
  <2> QED BY <2>1, <2>2 DEF AdmittedTo
<1>3. q \in AdmittedTo(a)' <=> x.pc \in AdmittedAt /\ handlers'[x.handler].admission = a
  BY <1>1 DEF AdmittedTo, Admitted, AdmittedAt, Admission, Handler
<1>4. \A y : y \in AdmittedTo(a) \/ y \in AdmittedTo(a)' => y \in Requests
  BY DEF AdmittedTo
<1> QED BY <1>2, <1>3, <1>4

LEMMA HoldersMove ==
    ASSUME IInv, PoolInv, HandlersGrow,
           NEW q \in Requests, NEW x \in ReqType, req' = [req EXCEPT ![q] = x], NEW k
    PROVE  \A y : y \in Holders(k)' <=>
                     \/ y \in Holders(k) /\ y # q
                     \/ /\ y = q /\ k[2] \in x.held
                        /\ <<handlers'[x.handler].slot[k[2]], k[2]>> = k
<1>1. req'[q] = x /\ \A r \in Requests \ {q} : req'[r] = req[r]
  BY DEF IInv, Shape
<1>2. ASSUME NEW r \in Requests \ {q} PROVE r \in Holders(k)' <=> r \in Holders(k)
  <2>1. req[r].held # {} => Handler(r)'.slot = Handler(r).slot
    BY <1>1, ServedHere DEF Handler, HandlersGrow
  <2>2. k[2] \in req[r].held => (Slot(r, k[2])' = Slot(r, k[2]))
    BY <2>1 DEF Slot
  <2> QED BY <1>1, <2>2 DEF Holders
<1>3. q \in Holders(k)' <=> k[2] \in x.held /\ <<handlers'[x.handler].slot[k[2]], k[2]>> = k
  BY <1>1 DEF Holders, Slot, Handler
<1>4. \A y : y \in Holders(k) \/ y \in Holders(k)' => y \in Requests
  BY DEF Holders
<1> QED BY <1>2, <1>3, <1>4

LEMMA HoldsMoves ==
    ASSUME IInv, PoolInv, HandlersGrow, Shape',
           Len(servers) <= Len(servers'), Len(admissions) <= Len(admissions'),
           NEW q, \A r \in Requests \ {q} : req'[r] = req[r], RequestHolds(req[q])'
    PROVE  RequestsHold'
<1> SUFFICES ASSUME NEW r \in Requests PROVE RequestHolds(req[r])'
  BY DEF RequestsHold
<1>1. CASE r = q
  BY <1>1
<1>2. CASE r # q
  BY <1>2, HoldsStill
<1> QED BY <1>1, <1>2

\* One that holds no node's slot keeps its record, but for pc.
LEMMA HoldsNothing ==
    ASSUME IInv, IInv', PoolInv, HandlersGrow, NEW q \in Requests, NEW x \in ReqType,
           req'[q] = x, x.pc # "picked", x.held = req[q].held, x.held = {},
           x.server = req[q].server, x.rev = req[q].rev, x.handler = req[q].handler,
           x.admission = req[q].admission,
           Len(servers) <= Len(servers'), Len(admissions) <= Len(admissions')
    PROVE  RequestHolds(req[q])'
<1>1. RequestHolds(req[q])
  BY DEF PoolInv, RequestsHold
<1>2. /\ Len(servers) \in Nat /\ Len(servers') \in Nat /\ Len(handlers) \in Nat
      /\ Len(handlers') \in Nat /\ Len(admissions) \in Nat /\ Len(admissions') \in Nat
  BY DEF IInv, Shape
<1>3. /\ x.server \in 0..Len(servers') /\ x.handler \in 0..Len(handlers')
      /\ x.admission \in 0..Len(admissions')
  BY SMTT(40), <1>1, <1>2 DEF RequestHolds, HandlersGrow
<1> QED BY <1>1, <1>3 DEF RequestHolds

LEMMA EnterPool ==
    ASSUME IInv, IInv', PoolInv, NEW q \in Requests, Enter(q)
    PROVE  PoolInv'
<1> DEFINE h == req[q].handler
<1>1. /\ Shape /\ Shape' /\ RequestHolds(req[q]) /\ req[q] \in ReqType /\ req[q].pc = "found"
      /\ ~handlers[h].retired
  BY DEF IInv, Shape, PoolInv, RequestsHold, Enter, At, Handler
<1>2. h \in DOMAIN handlers
  BY <1>1, HandlerFound DEF WithHandler
<1>3. PICK x \in ReqType : x = [req[q] EXCEPT !.pc = "entered"]
  BY <1>1 DEF ReqType, PCs
<1>4. /\ x.pc = "entered" /\ x.handler = h /\ x.rev = req[q].rev /\ x.server = req[q].server
      /\ x.held = req[q].held /\ x.admission = req[q].admission
  BY <1>1, <1>3 DEF ReqType
<1>5. req[q].held = {}
  BY <1>1 DEF RequestHolds
<1>6. /\ req' = [req EXCEPT ![q] = x] /\ UNCHANGED <<servers, admissions, current, slots>>
      /\ handlers' = [handlers EXCEPT ![h].requests = @ + 1]
  BY <1>3 DEF Enter, Go
<1> HIDE DEF h
<1>7. /\ Len(handlers') = Len(handlers) /\ DOMAIN handlers' = DOMAIN handlers
      /\ \A j \in DOMAIN handlers \ {h} : handlers'[j] = handlers[j]
      /\ handlers'[h] = [handlers[h] EXCEPT !.requests = @ + 1]
  BY <1>1, <1>2, <1>6 DEF Shape
<1>8. /\ handlers'[h].requests = handlers[h].requests + 1
      /\ handlers'[h].rev = handlers[h].rev /\ handlers'[h].server = handlers[h].server
      /\ handlers'[h].admission = handlers[h].admission /\ handlers'[h].slot = handlers[h].slot
      /\ handlers'[h].joined = handlers[h].joined /\ handlers'[h].retired = handlers[h].retired
      /\ handlers'[h].leaving = handlers[h].leaving /\ handlers'[h].probing = handlers[h].probing
  BY <1>2, <1>7, HandlerHere DEF HandlerType
<1>9. HandlersGrow
  <2>1. Len(handlers) <= Len(handlers')
    BY <1>1, <1>7 DEF Shape
  <2> QED BY <1>7, <1>8, <2>1, Zenon DEF HandlersGrow
<1>10. /\ SameAdmitted /\ SameHeld /\ SameBuilders
       /\ req'[q] = x /\ \A r \in Requests \ {q} : req'[r] = req[r] /\ ~Served(q)
  <2>1. /\ x.pc \notin AdmittedAt /\ x.pc # "building"
        /\ req[q].pc \notin ServedAt /\ req[q].pc \notin AdmittedAt /\ ~At(q, "building")
    BY <1>1, <1>4 DEF ServedAt, AdmittedAt, At
  <2> QED BY ZenonT(60), <1>1, <1>4, <1>5, <1>6, <2>1, OneMoves
<1>11. ServedCounted'
  <2> SUFFICES ASSUME NEW j \in DOMAIN handlers
               PROVE  Counted(ServedBy(j), handlers[j].requests)'
    BY <1>7 DEF ServedCounted
  <2>1. \A y : y \in ServedBy(j)' <=> \/ y \in ServedBy(j) /\ y # q
                                      \/ y = q /\ h = j
    <3>1. x.pc \in ServedAt
      BY <1>4 DEF ServedAt
    <3>2. \A y : y \in ServedBy(j)' <=> \/ y \in ServedBy(j) /\ y # q
                                        \/ y = q /\ x.pc \in ServedAt /\ x.handler = j
      BY <1>1, <1>6, ServedMoves
    <3> QED BY <1>4, <3>1, <3>2
  <2>2. q \notin ServedBy(j)
    BY <1>1 DEF ServedBy, Served, Admitted
  <2>3. Counted(ServedBy(j), handlers[j].requests)
    BY HandlerHere
  <2>4. CASE j = h
    <3>1. Counted(ServedBy(j)', handlers[j].requests + 1)
      BY <2>1, <2>2, <2>3, <2>4, CountedOneMore
    <3> QED BY <1>8, <2>4, <3>1 DEF Counted
  <2>5. CASE j # h
    <3>1. ServedBy(j)' = ServedBy(j)
      BY <2>1, <2>2, <2>5
    <3> QED BY <1>7, <2>3, <2>5, <3>1 DEF Counted
  <2> QED BY <2>4, <2>5
<1>12. AdmittedCounted'
  BY <1>1, <1>6, <1>9, <1>10, AdmittedStays DEF Shape
<1>13. HeldCounted' /\ RoomToBuild' /\ PoolInUse'
  BY <1>6, <1>7, <1>8, <1>9, <1>10, HeldStays, BuildersStay, InUseStays
<1>14. MembersCounted' /\ HandlersFit' /\ AdmissionsFit'
  <2>1. ASSUME NEW j \in DOMAIN handlers
        PROVE  /\ handlers'[j].joined = handlers[j].joined
               /\ handlers'[j].joined <=> ~(handlers'[j].retired /\ handlers'[j].requests = 0)
               /\ handlers'[j].retired => handlers'[j].leaving \/ ~handlers'[j].probing
    BY ZenonT(60), <1>1, <1>7, <1>8, HandlerHere
  <2> QED BY <1>1, <1>6, <1>7, <1>9, <2>1, MembersStay DEF Shape
<1>15. RequestsHold'
  <2>1. RequestHolds(req[q])'
    <3>1. Len(servers) <= Len(servers') /\ Len(admissions) <= Len(admissions')
      BY <1>1, <1>6 DEF Shape
    <3>2. /\ req'[q] = x /\ x.pc # "picked" /\ x.held = {} /\ x.handler = req[q].handler
      BY <1>4, <1>5, <1>10 DEF h
    <3> QED BY <1>4, <1>9, <3>1, <3>2, HoldsNothing
  <2> QED BY <1>1, <1>6, <1>9, <1>10, <2>1, HoldsMoves DEF Shape
<1> QED BY <1>11, <1>12, <1>13, <1>14, <1>15 DEF PoolInv

\* Only the count of one admission changes.
LEMMA OneActive ==
    ASSUME Shape, NEW a \in DOMAIN admissions, NEW n \in Int,
           admissions' = [admissions EXCEPT ![a].active = n]
    PROVE  /\ Len(admissions') = Len(admissions) /\ DOMAIN admissions' = DOMAIN admissions
           /\ admissions'[a].active = n
           /\ \A b \in DOMAIN admissions \ {a} : admissions'[b] = admissions[b]
           /\ \A b \in DOMAIN admissions : /\ admissions'[b].members = admissions[b].members
                                           /\ admissions'[b].refs = admissions[b].refs
                                           /\ admissions'[b].node = admissions[b].node
                                           /\ admissions'[b].retired = admissions[b].retired
<1>1. /\ Len(admissions') = Len(admissions) /\ DOMAIN admissions' = DOMAIN admissions
      /\ \A b \in DOMAIN admissions \ {a} : admissions'[b] = admissions[b]
      /\ admissions'[a] = [admissions[a] EXCEPT !.active = n]
  BY DEF Shape
<1>2. admissions[a] \in AdmissionType
  BY DEF Shape
<1>3. /\ admissions'[a].active = n
      /\ admissions'[a].members = admissions[a].members
      /\ admissions'[a].refs = admissions[a].refs
      /\ admissions'[a].node = admissions[a].node
      /\ admissions'[a].retired = admissions[a].retired
  BY <1>1, <1>2 DEF AdmissionType
<1> QED BY <1>1, <1>3

\* Only the pool's count changes, with the request that it counts: q goes on to x.
LEMMA PoolCountStep ==
    ASSUME IInv, IInv', PoolInv, NEW q \in Requests, NEW x \in ReqType, NEW a \in DOMAIN admissions,
           req' = [req EXCEPT ![q] = x], UNCHANGED <<servers, handlers, current, slots>>,
           NEW n \in Int, admissions' = [admissions EXCEPT ![a].active = n],
           Counted(AdmittedTo(a)', n), \A b : b # a => AdmittedTo(b)' = AdmittedTo(b),
           req[q].pc \in ServedAt, x.pc \in ServedAt, x.pc # "picked", x.held = req[q].held, x.held = {},
           x.server = req[q].server, x.rev = req[q].rev, x.handler = req[q].handler,
           x.admission = req[q].admission
    PROVE  PoolInv'
<1>1. /\ Shape /\ Shape' /\ Len(admissions) <= Len(admissions') /\ Len(servers) <= Len(servers')
      /\ Len(servers') = Len(servers) /\ Len(handlers') = Len(handlers)
      /\ DOMAIN handlers' = DOMAIN handlers
  <2>1. Len(admissions') = Len(admissions)
    BY OneActive DEF IInv
  <2> QED BY <2>1 DEF IInv, Shape
<1>2. HandlersGrow
  BY <1>1 DEF HandlersGrow, Shape
<1>3. /\ SameServed /\ SameHeld /\ SameBuilders
      /\ req'[q] = x /\ \A r \in Requests \ {q} : req'[r] = req[r]
  <2>1. x.pc # "building" /\ ~At(q, "building")
    BY DEF ServedAt, At
  <2> QED BY <1>1, <2>1, OneMoves
<1>4. ServedCounted'
  BY <1>1, <1>2, <1>3, ServedStays
<1>5. AdmittedCounted'
  <2> SUFFICES ASSUME NEW b \in DOMAIN admissions
               PROVE  Counted(AdmittedTo(b)', admissions'[b].active)
    BY <1>1, OneActive DEF AdmittedCounted
  <2>1. Counted(AdmittedTo(b), admissions[b].active)
    BY DEF PoolInv, AdmittedCounted
  <2>2. CASE b = a
    BY <1>1, <2>2, OneActive
  <2>3. CASE b # a
    <3>1. admissions'[b] = admissions[b]
      BY <1>1, <2>3, OneActive
    <3> QED BY <2>1, <2>3, <3>1
  <2> QED BY <2>2, <2>3
<1>6. HeldCounted' /\ RoomToBuild' /\ PoolInUse'
  BY <1>1, <1>2, <1>3, HeldStays, BuildersStay, InUseStays
<1>7. MembersCounted' /\ HandlersFit' /\ AdmissionsFit'
  <2>1. /\ Len(admissions') = Len(admissions)
        /\ \A b \in DOMAIN admissions : /\ admissions'[b].members = admissions[b].members
                                        /\ admissions'[b].refs = admissions[b].refs
                                        /\ admissions'[b].node = admissions[b].node
                                        /\ admissions'[b].retired = admissions[b].retired
    BY <1>1, OneActive
  <2> QED BY <1>1, <1>2, <2>1, MembersStay, HandlerHere
<1>8. RequestsHold'
  <2>1. RequestHolds(req[q])'
    BY <1>1, <1>2, <1>3, HoldsNothing
  <2> QED BY <1>1, <1>2, <1>3, <2>1, HoldsMoves
<1> QED BY <1>4, <1>5, <1>6, <1>7, <1>8 DEF PoolInv

LEMMA AdmitPool ==
    ASSUME IInv, IInv', PoolInv, NEW q \in Requests, Admit(q)
    PROVE  PoolInv'
<1>1. /\ Shape /\ RequestHolds(req[q]) /\ req[q] \in ReqType /\ req[q].pc = "entered"
  BY DEF IInv, Shape, PoolInv, RequestsHold, Admit, At
<1>2. req[q].handler \in DOMAIN handlers
  BY <1>1, HandlerFound DEF WithHandler
<1>a. PICK a \in DOMAIN admissions : a = Admission(q)
  BY <1>1, <1>2 DEF Shape, Admission, Handler
<1>b. PICK m \in Int : m = admissions[a].active
  <2>1. admissions[a] \in AdmissionType
    BY <1>1 DEF Shape
  <2> QED BY <2>1 DEF AdmissionType
<1>3. req[q].held = {}
  BY <1>1 DEF RequestHolds
<1>4. UNCHANGED <<servers, handlers, current, slots>>
  BY DEF Admit
<1>5. CASE admissions' = [admissions EXCEPT ![Admission(q)].active = @ + 1] /\ Go(q, "admitted")
  <2>n. PICK n \in Int : n = m + 1
    OBVIOUS
  <2>1. PICK x \in ReqType : x = [req[q] EXCEPT !.pc = "admitted"]
    BY <1>1 DEF ReqType, PCs
  <2>2. /\ x.pc = "admitted" /\ x.handler = req[q].handler /\ x.rev = req[q].rev
        /\ x.server = req[q].server /\ x.held = req[q].held /\ x.admission = req[q].admission
    BY <1>1, <2>1 DEF ReqType
  <2>3. req' = [req EXCEPT ![q] = x] /\ admissions' = [admissions EXCEPT ![a].active = n]
    BY <1>5, <1>a, <1>b, <2>1, <2>n DEF Go
  <2>4. \A b, y : y \in AdmittedTo(b)' <=> y \in AdmittedTo(b) \/ (y = q /\ b = a)
    <3>1. x.pc \in AdmittedAt /\ handlers'[x.handler].admission = a
      BY <1>4, <1>a, <2>2 DEF AdmittedAt, Admission, Handler
    <3>2. HandlersGrow
      BY <1>1, <1>4 DEF HandlersGrow, Shape
    <3>3. \A b : q \notin AdmittedTo(b)
      BY <1>1 DEF AdmittedTo, Admitted
    <3> SUFFICES ASSUME NEW b
                 PROVE  \A y : y \in AdmittedTo(b)' <=> y \in AdmittedTo(b) \/ (y = q /\ b = a)
      OBVIOUS
    <3>4. \A y : y \in AdmittedTo(b)' <=>
                     \/ y \in AdmittedTo(b) /\ y # q
                     \/ y = q /\ x.pc \in AdmittedAt /\ handlers'[x.handler].admission = b
      BY <2>3, <3>2, AdmittedMoves
    <3> QED BY <3>1, <3>3, <3>4
  <2>5. \A b : b # a => AdmittedTo(b)' = AdmittedTo(b)
    BY <2>4
  <2>6. Counted(AdmittedTo(a)', n)
    <3>1. Counted(AdmittedTo(a), m) /\ q \notin AdmittedTo(a)
      BY <1>1, <1>b DEF PoolInv, AdmittedCounted, AdmittedTo, Admitted
    <3>2. \A y : y \in AdmittedTo(a)' <=> y \in AdmittedTo(a) \/ y = q
      BY <2>4
    <3> QED BY <2>n, <3>1, <3>2, CountedOneMore
  <2>7. /\ req[q].pc \in ServedAt /\ x.pc \in ServedAt /\ x.pc # "picked" /\ x.held = {}
    BY <1>1, <1>3, <2>2 DEF ServedAt
  <2> QED BY <1>4, <2>2, <2>3, <2>5, <2>6, <2>7, PoolCountStep
<1>6. CASE UNCHANGED admissions /\ Go(q, "leaving")
  <2>1. PICK x \in ReqType : x = [req[q] EXCEPT !.pc = "leaving"]
    BY <1>1 DEF ReqType, PCs
  <2>2. /\ x.pc = "leaving" /\ x.handler = req[q].handler /\ x.rev = req[q].rev
        /\ x.server = req[q].server /\ x.held = req[q].held /\ x.admission = req[q].admission
    BY <1>1, <2>1 DEF ReqType
  <2>3. req' = [req EXCEPT ![q] = x]
    BY <1>6, <2>1 DEF Go
  <2>4. /\ SameServed /\ SameAdmitted /\ SameHeld /\ SameBuilders
        /\ req'[q] = x /\ \A r \in Requests \ {q} : req'[r] = req[r]
    <3>1. /\ x.pc \in ServedAt /\ x.pc \notin AdmittedAt /\ x.pc # "building"
          /\ req[q].pc \in ServedAt /\ req[q].pc \notin AdmittedAt /\ ~At(q, "building")
      BY <1>1, <2>2 DEF ServedAt, AdmittedAt, At
    <3> QED BY <1>1, <1>3, <2>2, <2>3, <3>1, OneMoves
  <2>5. RequestHolds(x)
    BY <1>1, <1>3, <2>2 DEF RequestHolds
  <2> QED BY <1>4, <1>6, <2>4, <2>5, RequestsOnly
<1> QED BY <1>5, <1>6 DEF Admit

LEMMA ReleasePoolPool ==
    ASSUME IInv, IInv', PoolInv, NEW q \in Requests, ReleasePool(q)
    PROVE  PoolInv'
<1>1. /\ Shape /\ RequestHolds(req[q]) /\ req[q] \in ReqType /\ req[q].pc = "done"
  BY DEF IInv, Shape, PoolInv, RequestsHold, ReleasePool, At
<1>2. req[q].handler \in DOMAIN handlers
  BY <1>1, HandlerFound DEF WithHandler
<1>a. PICK a \in DOMAIN admissions : a = Admission(q)
  BY <1>1, <1>2 DEF Shape, Admission, Handler
<1>b. PICK m \in Int : m = admissions[a].active
  <2>1. admissions[a] \in AdmissionType
    BY <1>1 DEF Shape
  <2> QED BY <2>1 DEF AdmissionType
<1>n. PICK n \in Int : n = m - 1
  OBVIOUS
<1>3. req[q].held = {}
  BY <1>1 DEF RequestHolds
<1>4. UNCHANGED <<servers, handlers, current, slots>>
  BY DEF ReleasePool
<1>5. PICK x \in ReqType : x = [req[q] EXCEPT !.pc = "leaving"]
  BY <1>1 DEF ReqType, PCs
<1>6. /\ x.pc = "leaving" /\ x.handler = req[q].handler /\ x.rev = req[q].rev
      /\ x.server = req[q].server /\ x.held = req[q].held /\ x.admission = req[q].admission
  BY <1>1, <1>5 DEF ReqType
<1>7. req' = [req EXCEPT ![q] = x] /\ admissions' = [admissions EXCEPT ![a].active = n]
  BY <1>5, <1>a, <1>b, <1>n DEF Go, ReleasePool
<1>8. \A b, y : y \in AdmittedTo(b)' <=> y \in AdmittedTo(b) /\ y # q
  <2>1. x.pc \notin AdmittedAt /\ HandlersGrow
    BY <1>1, <1>4, <1>6 DEF AdmittedAt, HandlersGrow, Shape
  <2> SUFFICES ASSUME NEW b
               PROVE  \A y : y \in AdmittedTo(b)' <=> y \in AdmittedTo(b) /\ y # q
    OBVIOUS
  <2>2. \A y : y \in AdmittedTo(b)' <=>
                   \/ y \in AdmittedTo(b) /\ y # q
                   \/ y = q /\ x.pc \in AdmittedAt /\ handlers'[x.handler].admission = b
    BY <1>7, <2>1, AdmittedMoves
  <2> QED BY <2>1, <2>2
<1>9. \A b : b # a => AdmittedTo(b)' = AdmittedTo(b)
  <2>1. \A b : b # a => q \notin AdmittedTo(b)
    BY <1>a DEF AdmittedTo
  <2> QED BY <1>8, <2>1
<1>10. Counted(AdmittedTo(a)', n)
  <2>1. Counted(AdmittedTo(a), m) /\ q \in AdmittedTo(a)
    BY <1>1, <1>a, <1>b DEF PoolInv, AdmittedCounted, AdmittedTo, Admitted
  <2>2. \A y : y \in AdmittedTo(a)' <=> y \in AdmittedTo(a) /\ y # q
    BY <1>8
  <2> QED BY <1>n, <2>1, <2>2, CountedOneLess
<1>11. /\ req[q].pc \in ServedAt /\ x.pc \in ServedAt /\ x.pc # "picked" /\ x.held = {}
  BY <1>1, <1>3, <1>6 DEF ServedAt
<1> QED BY <1>4, <1>6, <1>7, <1>9, <1>10, <1>11, PoolCountStep

\* The slots of nodes that handlers use are there.
LEMMA SlotHere ==
    ASSUME IInv, PoolInv, NEW q \in Requests, req[q].pc \in WithHandler, NEW n \in DOMAIN Handler(q).slot
    PROVE  Slot(q, n) \in Slots /\ n \in Nodes
<1>1. req[q].handler \in DOMAIN handlers /\ DOMAIN Handler(q).slot \subseteq Nodes
  BY HandlerFound
<1>2. Handler(q).slot[n] \in 1..Len(handlers)
  BY <1>1, HandlerHere DEF Handler
<1>3. Len(handlers) <= MaxHandlers /\ Len(handlers) \in Nat
  <2>1. Len(handlers) \in Nat /\ Len(handlers) + Cardinality(Builders) <= MaxHandlers
    BY DEF IInv, Shape, PoolInv, RoomToBuild
  <2>2. Cardinality(Builders) \in Nat
    BY FS_CardinalityType DEF PoolInv, RoomToBuild
  <2> QED BY <2>1, <2>2, ProxyAssumption
<1>4. Handler(q).slot[n] \in 1..MaxHandlers
  BY <1>2, <1>3, ProxyAssumption
<1> QED BY <1>1, <1>4 DEF Slot, Slots

\* Only the counts of slots change, with the request that they count: q goes on to x.
LEMMA SlotCountStep ==
    ASSUME IInv, IInv', PoolInv, NEW q \in Requests, NEW x \in ReqType,
           req' = [req EXCEPT ![q] = x], UNCHANGED <<servers, handlers, admissions, current>>,
           HeldCounted', RequestHolds(x), req[q].pc \in AdmittedAt, x.pc \in AdmittedAt,
           x.handler = req[q].handler
    PROVE  PoolInv'
<1>1. /\ Shape /\ Shape' /\ Len(admissions) <= Len(admissions') /\ Len(servers) <= Len(servers')
      /\ Len(servers') = Len(servers) /\ Len(handlers') = Len(handlers)
      /\ Len(admissions') = Len(admissions) /\ DOMAIN handlers' = DOMAIN handlers
  BY DEF IInv, Shape
<1>2. HandlersGrow
  BY <1>1 DEF HandlersGrow, Shape
<1>3. /\ SameServed /\ SameAdmitted /\ SameBuilders
      /\ req'[q] = x /\ \A r \in Requests \ {q} : req'[r] = req[r]
  <2>1. /\ x.pc # "building" /\ ~At(q, "building") /\ req[q].pc \in ServedAt /\ x.pc \in ServedAt
    BY DEF ServedAt, AdmittedAt, At
  <2> QED BY <1>1, <2>1, OneMoves
<1>4. ServedCounted'
  BY <1>1, <1>2, <1>3, ServedStays
<1>5. AdmittedCounted'
  BY <1>1, <1>2, <1>3, AdmittedStays
<1>6. RoomToBuild' /\ PoolInUse'
  BY <1>1, <1>3, BuildersStay, InUseStays
<1>7. MembersCounted' /\ HandlersFit' /\ AdmissionsFit'
  BY <1>1, <1>2, MembersStay, HandlerHere
<1>8. RequestsHold'
  <2>1. RequestHolds(req[q])'
    BY <1>3 DEF RequestHolds
  <2> QED BY <1>1, <1>2, <1>3, <2>1, HoldsMoves
<1> QED BY <1>4, <1>5, <1>6, <1>7, <1>8 DEF PoolInv

LEMMA TakePool ==
    ASSUME IInv, IInv', PoolInv, NEW q \in Requests, Take(q)
    PROVE  PoolInv'
<1>1. /\ Shape /\ RequestHolds(req[q]) /\ req[q] \in ReqType /\ req[q].pc = "picked"
  BY DEF IInv, Shape, PoolInv, RequestsHold, Take, At
<1>2. /\ req[q].pc \in WithHandler /\ req[q].handler \in DOMAIN handlers
      /\ DOMAIN Handler(q).slot \subseteq Nodes
  BY <1>1, HandlerFound DEF WithHandler
<1>3. PICK n \in DOMAIN Handler(q).slot : n = req[q].node /\ n \notin req[q].held
  BY <1>1 DEF RequestHolds, Handler
<1>4. PICK k \in Slots : k = Slot(q, n) /\ k[2] = n
  BY <1>2, <1>3, SlotHere DEF Slot
<1>5. PICK x \in ReqType : x = [req[q] EXCEPT !.pc = "backend", !.held = @ \cup {n}]
  BY <1>1, <1>2, <1>3 DEF ReqType, PCs
<1>6. /\ x.pc = "backend" /\ x.handler = req[q].handler /\ x.rev = req[q].rev
      /\ x.server = req[q].server /\ x.held = req[q].held \cup {n}
      /\ x.admission = req[q].admission
  BY <1>1, <1>5 DEF ReqType
<1>7. /\ req' = [req EXCEPT ![q] = x] /\ slots' = [slots EXCEPT ![k] = @ + 1]
      /\ UNCHANGED <<servers, handlers, admissions, current>>
  BY <1>3, <1>4, <1>5 DEF Take
<1>8. HeldCounted'
  <2> SUFFICES ASSUME NEW j \in Slots PROVE Counted(Holders(j)', slots'[j])
    BY DEF HeldCounted
  <2>1. HandlersGrow
    BY <1>1, <1>7 DEF HandlersGrow, Shape
  <2>2. \A y : y \in Holders(j)' <=>
                   \/ y \in Holders(j) /\ y # q
                   \/ /\ y = q /\ j[2] \in x.held
                      /\ <<handlers'[x.handler].slot[j[2]], j[2]>> = j
    BY ZenonT(60), <1>7, <2>1, HoldersMove
  <2>3. <<handlers'[x.handler].slot[j[2]], j[2]>> = Slot(q, j[2])
    BY <1>6, <1>7 DEF Slot, Handler
  <2>4. q \in Holders(j) <=> j[2] \in req[q].held /\ Slot(q, j[2]) = j
    BY DEF Holders
  <2>5. Counted(Holders(j), slots[j])
    BY DEF PoolInv, HeldCounted
  <2>6. slots'[j] = IF j = k THEN slots[j] + 1 ELSE slots[j]
    <3> DEFINE S == Slots
    <3>1. slots \in [S -> Int] /\ j \in S
      BY <1>1 DEF Shape
    <3> HIDE DEF S
    <3> QED BY <1>7, <3>1
  <2>7. CASE j = k
    <3>1. q \notin Holders(j)
      BY <1>3, <1>4, <2>4, <2>7
    <3>2. \A y : y \in Holders(j)' <=> y \in Holders(j) \/ y = q
      BY <1>4, <1>6, <2>2, <2>3, <2>7, <3>1
    <3>3. Counted(Holders(j)', slots[j] + 1)
      BY <2>5, <3>1, <3>2, CountedOneMore
    <3> QED BY <2>6, <2>7, <3>3
  <2>8. CASE j # k
    <3>1. j[2] = n => Slot(q, j[2]) # j
      BY <1>4, <2>8
    <3>2. j[2] \in x.held /\ Slot(q, j[2]) = j <=> q \in Holders(j)
      BY <1>6, <2>4, <3>1
    <3>3. Holders(j)' = Holders(j)
      BY <2>2, <2>3, <3>2
    <3> QED BY <2>5, <2>6, <2>8, <3>3
  <2> QED BY <2>7, <2>8
<1>9. RequestHolds(x)
  <2>1. req[q].held \cup {n} \subseteq DOMAIN handlers[x.handler].slot
    BY <1>1, <1>3, <1>6 DEF RequestHolds, Handler
  <2> QED BY <1>1, <1>6, <2>1 DEF RequestHolds
<1>10. req[q].pc \in AdmittedAt /\ x.pc \in AdmittedAt
  BY <1>1, <1>6 DEF AdmittedAt
<1> QED BY <1>6, <1>7, <1>8, <1>9, <1>10, SlotCountStep

LEMMA ReleaseNodesPool ==
    ASSUME IInv, IInv', PoolInv, NEW q \in Requests, ReleaseNodes(q)
    PROVE  PoolInv'
<1>1. /\ Shape /\ RequestHolds(req[q]) /\ req[q] \in ReqType /\ req[q].pc \in {"backend", "full"}
  BY DEF IInv, Shape, PoolInv, RequestsHold, ReleaseNodes
<1>2. PICK x \in ReqType : x = [req[q] EXCEPT !.pc = "done", !.held = {}, !.node = 0]
  BY <1>1 DEF ReqType, PCs
<1>3. /\ x.pc = "done" /\ x.handler = req[q].handler /\ x.rev = req[q].rev
      /\ x.server = req[q].server /\ x.held = {} /\ x.admission = req[q].admission
  BY <1>1, <1>2 DEF ReqType
<1>4. req' = [req EXCEPT ![q] = x] /\ UNCHANGED <<servers, handlers, admissions, current>>
  BY <1>2 DEF ReleaseNodes
<1>5. HeldCounted'
  <2> SUFFICES ASSUME NEW j \in Slots PROVE Counted(Holders(j)', slots'[j])
    BY DEF HeldCounted
  <2>1. HandlersGrow
    BY <1>1, <1>4 DEF HandlersGrow, Shape
  <2>2. \A y : y \in Holders(j)' <=>
                   \/ y \in Holders(j) /\ y # q
                   \/ /\ y = q /\ j[2] \in x.held
                      /\ <<handlers'[x.handler].slot[j[2]], j[2]>> = j
    BY ZenonT(60), <1>4, <2>1, HoldersMove
  <2>3. \A y : y \in Holders(j)' <=> y \in Holders(j) /\ y # q
    BY <1>3, <2>2
  <2>4. q \in Holders(j) <=> j[2] \in req[q].held /\ j = Slot(q, j[2])
    BY DEF Holders
  <2>5. Counted(Holders(j), slots[j])
    BY DEF PoolInv, HeldCounted
  <2>6. slots'[j] = IF q \in Holders(j) THEN slots[j] - 1 ELSE slots[j]
    BY <2>4 DEF ReleaseNodes
  <2>7. CASE q \in Holders(j)
    BY <2>3, <2>5, <2>6, <2>7, CountedOneLess
  <2>8. CASE q \notin Holders(j)
    <3>1. Holders(j)' = Holders(j)
      BY <2>3, <2>8
    <3> QED BY <2>5, <2>6, <2>8, <3>1
  <2> QED BY <2>7, <2>8
<1>6. RequestHolds(x)
  BY <1>1, <1>3 DEF RequestHolds
<1>7. req[q].pc \in AdmittedAt /\ x.pc \in AdmittedAt
  BY <1>1, <1>3 DEF AdmittedAt
<1> QED BY <1>3, <1>4, <1>5, <1>6, <1>7, SlotCountStep

-----------------------------------------------------------------------------
(* A handler leaves the pool                                               *)

LEMMA ReleasedIs ==
    ASSUME NEW a \in AdmissionType, NEW N, NEW b, b = Released(a, N)
    PROVE  /\ b.active = a.active /\ b.members = a.members - 1
           /\ b.retired <=> a.members = 1
           /\ \A n \in Nodes : /\ b.refs[n] = IF n \in N THEN a.refs[n] - 1 ELSE a.refs[n]
                               /\ b.node[n] = IF b.refs[n] = 0 THEN 0 ELSE a.node[n]
<1> DEFINE refs == [n \in Nodes |-> IF n \in N THEN a.refs[n] - 1 ELSE a.refs[n]]
           node == [n \in Nodes |-> IF refs[n] = 0 THEN 0 ELSE a.node[n]]
<1>1. PICK f : f = refs
  OBVIOUS
<1>2. PICK g : g = node
  OBVIOUS
<1>3. b = [a EXCEPT !.members = @ - 1, !.refs = f, !.retired = (a.members = 1), !.node = g]
  BY <1>1, <1>2 DEF Released
<1> HIDE DEF refs, node
<1>4. /\ b.active = a.active /\ b.members = a.members - 1 /\ b.retired = (a.members = 1)
      /\ b.refs = f /\ b.node = g
  BY <1>3 DEF AdmissionType
<1>5. \A n \in Nodes : f[n] = IF n \in N THEN a.refs[n] - 1 ELSE a.refs[n]
  BY <1>1 DEF refs
<1>6. \A n \in Nodes : g[n] = IF f[n] = 0 THEN 0 ELSE a.node[n]
  BY <1>1, <1>2 DEF node
<1>7. b.retired <=> a.members = 1
  BY <1>4
<1> QED BY <1>4, <1>5, <1>6, <1>7

LEMMA PutIs ==
    ASSUME Shape, NEW i \in DOMAIN handlers, NEW h \in HandlerType, PutHandler(i, h)
    PROVE  /\ Len(handlers') = Len(handlers) /\ DOMAIN handlers' = DOMAIN handlers
           /\ \A j \in DOMAIN handlers \ {i} : handlers'[j] = handlers[j]
           /\ handlers'[i].joined <=> h.joined /\ ~Unused(h, h.requests)
           /\ handlers'[i].requests = h.requests /\ handlers'[i].retired = h.retired
           /\ handlers'[i].leaving = h.leaving /\ handlers'[i].probing = h.probing
           /\ handlers'[i].admission = h.admission /\ handlers'[i].slot = h.slot
           /\ handlers'[i].rev = h.rev /\ handlers'[i].server = h.server
<1>1. PICK b \in BOOLEAN : b = (h.joined /\ ~Unused(h, h.requests))
  OBVIOUS
<1>2. handlers' = [handlers EXCEPT ![i] = [h EXCEPT !.joined = b]]
  BY <1>1 DEF PutHandler
<1>3. PICK g : g = [h EXCEPT !.joined = b]
  OBVIOUS
<1>4. /\ g.joined = b
      /\ g.requests = h.requests /\ g.retired = h.retired
      /\ g.leaving = h.leaving /\ g.probing = h.probing
      /\ g.admission = h.admission /\ g.slot = h.slot
      /\ g.rev = h.rev /\ g.server = h.server
  BY <1>3 DEF HandlerType
<1>5. /\ Len(handlers') = Len(handlers) /\ DOMAIN handlers' = DOMAIN handlers
      /\ \A j \in DOMAIN handlers \ {i} : handlers'[j] = handlers[j]
      /\ handlers'[i] = g
  BY <1>2, <1>3 DEF Shape
<1> QED BY <1>1, <1>4, <1>5

\* A handler of the pool is replaced by h: shut down, or with fewer requests.
LEMMA PutHandlerPool ==
    ASSUME IInv, IInv', PoolInv, NEW i \in DOMAIN handlers, NEW h \in HandlerType, PutHandler(i, h),
           handlers[i].joined, h.joined, h.slot = handlers[i].slot, h.admission = handlers[i].admission,
           h.rev = handlers[i].rev, h.server = handlers[i].server,
           h.retired => h.leaving \/ ~h.probing,
           SameBuilders, UNCHANGED servers
    PROVE  /\ HandlersGrow /\ Len(handlers') = Len(handlers) /\ Len(admissions') = Len(admissions)
           /\ \A j \in DOMAIN handlers \ {i} : handlers'[j] = handlers[j]
           /\ handlers'[i].requests = h.requests
           /\ \A a \in DOMAIN admissions : admissions'[a].active = admissions[a].active
           /\ MembersCounted' /\ HandlersFit' /\ AdmissionsFit' /\ PoolInUse'
<1>1. /\ Shape /\ Shape' /\ Len(servers) <= Len(servers') /\ DOMAIN servers' = DOMAIN servers
  BY DEF IInv, Shape
<1>2. /\ Len(handlers') = Len(handlers) /\ DOMAIN handlers' = DOMAIN handlers
      /\ \A j \in DOMAIN handlers \ {i} : handlers'[j] = handlers[j]
      /\ handlers'[i].joined <=> ~Unused(h, h.requests)
      /\ handlers'[i].requests = h.requests /\ handlers'[i].retired = h.retired
      /\ handlers'[i].leaving = h.leaving /\ handlers'[i].probing = h.probing
      /\ handlers'[i].admission = h.admission /\ handlers'[i].slot = h.slot
      /\ handlers'[i].rev = h.rev /\ handlers'[i].server = h.server
  BY <1>1, PutIs
<1>3. HandlersGrow
  <2>1. Len(handlers) <= Len(handlers')
    BY <1>1, <1>2 DEF Shape
  <2> QED BY <1>2, <2>1, Zenon DEF HandlersGrow
<1>4. \A j \in DOMAIN handlers :
        /\ j # i => handlers'[j].joined = handlers[j].joined
        /\ handlers'[j].joined <=> ~(handlers'[j].retired /\ handlers'[j].requests = 0)
        /\ handlers'[j].retired => handlers'[j].leaving \/ ~handlers'[j].probing
  BY <1>2, HandlerHere DEF Unused
<1>5. CASE ~Unused(h, h.requests)
  <2>1. UNCHANGED <<admissions, current>>
    BY <1>5, Zenon DEF PutHandler
  <2>2. \A j \in DOMAIN handlers : handlers'[j].joined = handlers[j].joined
    <3>1. handlers'[i].joined \in BOOLEAN /\ handlers[i].joined \in BOOLEAN
      <4>1. handlers \in Seq(HandlerType) /\ handlers' \in Seq(HandlerType)
        BY <1>1 DEF Shape
      <4>2. handlers'[i] \in HandlerType /\ handlers[i] \in HandlerType
        BY <1>2, <4>1
      <4> QED BY <4>2 DEF HandlerType
    <3> QED BY <1>2, <1>4, <1>5, <3>1
  <2>3. MembersCounted' /\ HandlersFit' /\ AdmissionsFit'
    BY <1>1, <1>2, <1>3, <1>4, <2>1, <2>2, MembersStay
  <2>4. PoolInUse'
    BY <1>2, <2>1, <2>2, InUseStays
  <2> QED BY <1>2, <1>3, <2>1, <2>3, <2>4
<1>6. CASE Unused(h, h.requests)
  <2>1. PICK a \in DOMAIN admissions : a = h.admission /\ a = current
    BY <1>1, HandlerHere
  <2>2. PICK N : N = DOMAIN h.slot
    OBVIOUS
  <2>3. admissions[a] \in AdmissionType
    BY <1>1 DEF Shape
  <2>4. PICK b \in AdmissionType : b = Released(admissions[a], N)
    BY <2>3, ReleasedTyped
  <2>5. /\ b.active = admissions[a].active /\ b.members = admissions[a].members - 1
        /\ b.retired <=> admissions[a].members = 1
        /\ \A n \in Nodes :
             /\ b.refs[n] = IF n \in N THEN admissions[a].refs[n] - 1 ELSE admissions[a].refs[n]
             /\ b.node[n] = IF b.refs[n] = 0 THEN 0 ELSE admissions[a].node[n]
    BY <2>3, <2>4, ReleasedIs
  <2>6. /\ admissions' = [admissions EXCEPT ![a] = b]
        /\ current' = IF admissions'[a].retired THEN 0 ELSE a
    BY <1>6, <2>1, <2>2, <2>4 DEF PutHandler
  <2>7. /\ Len(admissions') = Len(admissions) /\ DOMAIN admissions' = DOMAIN admissions
        /\ admissions'[a] = b /\ \A c \in DOMAIN admissions \ {a} : admissions'[c] = admissions[c]
    BY <1>1, <2>6 DEF Shape
  <2>8. ~handlers'[i].joined /\ i \in Members(a) /\ a # 0
    <3>1. i \in Members(a)
      BY <2>1 DEF Members
    <3>2. a # 0
      BY <1>1 DEF Shape
    <3> QED BY <1>2, <1>6, <3>1, <3>2
  <2>9. \A c, j : j \in Members(c)' <=> j \in Members(c) /\ j # i
    BY <1>2, <1>3, <2>8 DEF Members
  <2>10. \A c : c # a => Members(c)' = Members(c)
    <3>1. \A c : c # a => i \notin Members(c)
      BY <2>1 DEF Members
    <3> QED BY <2>9, <3>1
  <2>11. \A c, n, j : j \in Users(c, n)' <=> j \in Users(c, n) /\ j # i
    BY <1>2, <1>3, <2>8 DEF Users
  <2>12. \A c, n : c # a \/ n \notin N => Users(c, n)' = Users(c, n)
    <3>1. \A c, n : c # a \/ n \notin N => i \notin Users(c, n)
      BY <2>1, <2>2 DEF Users
    <3> QED BY <2>11, <3>1
  <2>13. MembersCounted'
    <3> SUFFICES ASSUME NEW c \in DOMAIN admissions
                 PROVE  /\ Counted(Members(c)', admissions'[c].members)
                        /\ \A n \in Nodes : Counted(Users(c, n)', admissions'[c].refs[n])
      BY <2>7 DEF MembersCounted
    <3>1. /\ Counted(Members(c), admissions[c].members)
          /\ \A n \in Nodes : Counted(Users(c, n), admissions[c].refs[n])
      BY DEF PoolInv, MembersCounted
    <3>2. CASE c # a
      <4>1. admissions'[c] = admissions[c]
        BY <2>7, <3>2
      <4> QED BY <2>10, <2>12, <3>1, <3>2, <4>1
    <3>3. CASE c = a
      <4>1. Counted(Members(a)', b.members)
        <5>1. Counted(Members(a), admissions[a].members)
          BY <3>1, <3>3
        <5>2. \A j : j \in Members(a)' <=> j \in Members(a) /\ j # i
          BY <2>9
        <5> QED BY <2>5, <2>8, <5>1, <5>2, CountedOneLess
      <4>2. ASSUME NEW n \in Nodes PROVE Counted(Users(a, n)', b.refs[n])
        <5>1. Counted(Users(a, n), admissions[a].refs[n])
          BY <3>1, <3>3
        <5>2. CASE n \in N
          <6>1. i \in Users(a, n)
            BY <2>1, <2>2, <5>2 DEF Users
          <6>2. \A j : j \in Users(a, n)' <=> j \in Users(a, n) /\ j # i
            BY <2>11
          <6>3. Counted(Users(a, n)', admissions[a].refs[n] - 1)
            BY <5>1, <6>1, <6>2, CountedOneLess
          <6> QED BY <2>5, <5>2, <6>3
        <5>3. CASE n \notin N
          BY <2>5, <2>12, <5>1, <5>3
        <5> QED BY <5>2, <5>3
      <4> QED BY <2>7, <3>3, <4>1, <4>2
    <3> QED BY <3>2, <3>3
  <2>14. ASSUME NEW j \in DOMAIN handlers, handlers'[j].joined
         PROVE  /\ j # i /\ handlers'[j] = handlers[j] /\ handlers[j].admission = a
                /\ current' = a
                /\ \A n \in DOMAIN handlers[j].slot : handlers[j].slot[n] = b.node[n]
    <3>1. j # i
      BY <2>8, <2>14
    <3>2. handlers'[j] = handlers[j] /\ handlers[j].joined
      BY <1>2, <2>14, <3>1
    <3>3. handlers[j].admission = a
      BY <2>1, <3>2, HandlerHere
    <3>4. j \in Members(a)
      BY <3>2, <3>3 DEF Members
    <3>5. Counted(Members(a), admissions[a].members)
      BY DEF PoolInv, MembersCounted
    <3>6. admissions[a].members # 1
      BY <2>8, <3>1, <3>4, <3>5, CountedSome
    <3>7. current' = a
      BY <2>5, <2>6, <2>7, <3>6
    <3>8. ASSUME NEW n \in DOMAIN handlers[j].slot PROVE handlers[j].slot[n] = b.node[n]
      <4>1. n \in Nodes
        <5>1. handlers[j] \in HandlerType
          BY <1>1 DEF Shape
        <5> QED BY <5>1 DEF HandlerType, SlotMaps
      <4>2. j \in Users(a, n)
        BY <3>2, <3>3 DEF Users
      <4>3. j \in Users(a, n)'
        BY <2>11, <3>1, <4>2
      <4>4. Counted(Users(a, n)', b.refs[n])
        BY <2>7, <2>13, <4>1 DEF MembersCounted
      <4>5. b.refs[n] # 0
        BY <4>3, <4>4, CountedSome
      <4>6. handlers[j].slot[n] = admissions[a].node[n]
        BY <2>1, <3>2, HandlerHere
      <4> QED BY <2>5, <4>1, <4>5, <4>6
    <3> QED BY <3>1, <3>2, <3>3, <3>7, <3>8
  <2>15. HandlersFit'
    <3> SUFFICES ASSUME NEW j \in DOMAIN handlers PROVE HandlerFits(handlers[j])'
      BY <1>2 DEF HandlersFit
    <3>1. HandlerFits(handlers[j])
      BY DEF PoolInv, HandlersFit
    <3>2. handlers'[j].slot \in [PoolNodes[handlers'[j].rev] -> 1..Len(handlers')]
      BY <1>2, <1>3, <3>1 DEF HandlersGrow, HandlerFits
    <3>3. handlers'[j].server \in DOMAIN servers'
      BY <1>1, <1>3, <3>1 DEF HandlersGrow, HandlerFits
    <3>4. handlers'[j].joined =>
             /\ handlers'[j].admission = current'
             /\ \A n \in DOMAIN handlers'[j].slot :
                  handlers'[j].slot[n] = admissions'[current'].node[n]
      BY <2>7, <2>14
    <3> QED BY <1>4, <3>2, <3>3, <3>4 DEF HandlerFits
  <2>16. AdmissionsFit'
    <3> SUFFICES ASSUME NEW c \in DOMAIN admissions
                 PROVE  /\ admissions'[c].retired <=> c # current'
                        /\ admissions'[c].node \in [Nodes -> 0..Len(handlers')]
      BY <2>7 DEF AdmissionsFit, AdmissionFits
    <3>1. /\ admissions[c].retired <=> c # current
          /\ admissions[c].node \in [Nodes -> 0..Len(handlers')] /\ c # 0
      BY <1>1, <1>2 DEF PoolInv, AdmissionsFit, AdmissionFits, Shape
    <3>2. CASE c # a
      BY <2>1, <2>6, <2>7, <3>1, <3>2
    <3>3. CASE c = a
      <4>1. b.node \in [Nodes -> Nat] /\ Len(handlers') \in Nat
        <5>1. b.node \in [Nodes -> Nat]
          BY DEF AdmissionType
        <5>2. Len(handlers') \in Nat
          BY <1>1 DEF Shape
        <5> QED BY <5>1, <5>2
      <4>2. \A n \in Nodes : b.node[n] \in 0..Len(handlers')
        BY <2>5, <3>1, <3>3, <4>1
      <4>3. b.node \in [Nodes -> 0..Len(handlers')]
        BY <4>1, <4>2
      <4> QED BY <2>6, <2>7, <2>8, <3>3, <4>3
    <3> QED BY <3>2, <3>3
  <2>17. PoolInUse'
    <3> SUFFICES ASSUME current' # 0 PROVE \E j \in DOMAIN handlers' : handlers'[j].joined
      BY DEF PoolInUse
    <3>1. admissions[a].members # 1
      BY <2>5, <2>6, <2>7
    <3>2. Counted(Members(a)', b.members) /\ admissions[a].members \in Int
      BY <2>3, <2>7, <2>13 DEF MembersCounted, AdmissionType
    <3>3. Members(a)' # {}
      BY <2>5, <3>1, <3>2, CountedSome
    <3> QED BY <3>3 DEF Members
  <2>18. \A c \in DOMAIN admissions : admissions'[c].active = admissions[c].active
    BY <2>5, <2>7
  <2> QED BY <1>2, <1>3, <2>7, <2>13, <2>15, <2>16, <2>17, <2>18
<1> QED BY <1>5, <1>6

LEMMA LeavePool ==
    ASSUME IInv, IInv', PoolInv, NEW q \in Requests, Leave(q)
    PROVE  PoolInv'
<1>1. /\ Shape /\ Shape' /\ RequestHolds(req[q]) /\ req[q] \in ReqType /\ req[q].pc = "leaving"
  BY DEF IInv, Shape, PoolInv, RequestsHold, Leave, At
<1>2. PICK i \in DOMAIN handlers : i = req[q].handler
  BY <1>1, HandlerFound DEF WithHandler
<1>3. handlers[i] \in HandlerType /\ handlers[i].requests \in Int
  <2>1. handlers[i] \in HandlerType
    BY <1>1 DEF Shape
  <2> QED BY <2>1 DEF HandlerType
<1>4. PICK m \in Int : m = handlers[i].requests - 1
  BY <1>3
<1>5. PICK h : h = [handlers[i] EXCEPT !.requests = m]
  OBVIOUS
<1>6. /\ h \in HandlerType /\ h.requests = m /\ h.joined = handlers[i].joined
      /\ h.slot = handlers[i].slot /\ h.admission = handlers[i].admission
      /\ h.rev = handlers[i].rev /\ h.server = handlers[i].server
      /\ h.retired = handlers[i].retired /\ h.leaving = handlers[i].leaving
      /\ h.probing = handlers[i].probing
  BY <1>3, <1>4, <1>5 DEF HandlerType
<1>7. PutHandler(i, h)
  <2>1. h = [Handler(q) EXCEPT !.requests = @ - 1]
    BY <1>2, <1>4, <1>5 DEF Handler
  <2> QED BY <1>2, <2>1 DEF Leave
<1>8. PICK x \in ReqType : x = Idle
  BY IdleHolds
<1>9. req' = [req EXCEPT ![q] = x] /\ UNCHANGED <<servers, slots>>
  BY <1>8 DEF Leave, Done
<1>10. req[q].held = {}
  BY <1>1 DEF RequestHolds
<1>11. /\ SameAdmitted /\ SameHeld /\ SameBuilders
       /\ req'[q] = x /\ \A r \in Requests \ {q} : req'[r] = req[r]
  <2>1. /\ x.pc \notin AdmittedAt /\ x.pc # "building" /\ x.held = {}
        /\ req[q].pc \notin AdmittedAt /\ ~At(q, "building")
    BY <1>1, <1>8, IdleHolds DEF AdmittedAt, At
  <2> QED BY <1>1, <1>9, <1>10, <2>1, OneMoves
<1>12. Counted(ServedBy(i), handlers[i].requests) /\ q \in ServedBy(i)
  BY <1>1, <1>2, HandlerHere DEF ServedBy, Served
<1>13. handlers[i].joined
  BY <1>12, CountedSome, HandlerHere
<1>14. /\ HandlersGrow /\ Len(handlers') = Len(handlers) /\ Len(admissions') = Len(admissions)
       /\ \A j \in DOMAIN handlers \ {i} : handlers'[j] = handlers[j]
       /\ handlers'[i].requests = h.requests
       /\ \A a \in DOMAIN admissions : admissions'[a].active = admissions[a].active
       /\ MembersCounted' /\ HandlersFit' /\ AdmissionsFit' /\ PoolInUse'
  <2>1. h.retired => h.leaving \/ ~h.probing
    BY <1>6, HandlerHere
  <2> QED BY <1>6, <1>7, <1>9, <1>11, <1>13, <2>1, PutHandlerPool
<1>15. /\ DOMAIN handlers' = DOMAIN handlers /\ DOMAIN admissions' = DOMAIN admissions
       /\ Len(admissions) <= Len(admissions') /\ Len(servers) <= Len(servers')
  BY <1>1, <1>9, <1>14 DEF Shape
<1>16. ServedCounted'
  <2> SUFFICES ASSUME NEW j \in DOMAIN handlers
               PROVE  Counted(ServedBy(j)', handlers'[j].requests)
    BY <1>15 DEF ServedCounted
  <2>1. \A y : y \in ServedBy(j)' <=> y \in ServedBy(j) /\ y # q
    <3>1. x.pc \notin ServedAt
      BY <1>8, IdleHolds DEF ServedAt
    <3>2. \A y : y \in ServedBy(j)' <=> \/ y \in ServedBy(j) /\ y # q
                                        \/ y = q /\ x.pc \in ServedAt /\ x.handler = j
      BY <1>1, <1>9, ServedMoves
    <3> QED BY <3>1, <3>2
  <2>2. CASE j = i
    BY <1>4, <1>6, <1>12, <1>14, <2>1, <2>2, CountedOneLess
  <2>3. CASE j # i
    <3>1. q \notin ServedBy(j)
      BY <1>2, <2>3 DEF ServedBy
    <3>2. ServedBy(j)' = ServedBy(j)
      BY <2>1, <3>1
    <3>3. Counted(ServedBy(j), handlers[j].requests)
      BY HandlerHere
    <3> QED BY <1>14, <2>3, <3>2, <3>3
  <2> QED BY <2>2, <2>3
<1>17. AdmittedCounted'
  BY <1>11, <1>14, <1>15, AdmittedStays
<1>18. HeldCounted' /\ RoomToBuild'
  BY <1>9, <1>11, <1>14, HeldStays, BuildersStay
<1>19. RequestsHold'
  <2>1. RequestHolds(Idle)'
    BY IdleHolds DEF RequestHolds, Idle, IInv, Shape
  <2>2. RequestHolds(req[q])'
    BY <1>8, <1>11, <2>1 DEF RequestHolds
  <2> QED BY <1>1, <1>11, <1>14, <1>15, <2>2, HoldsMoves
<1> QED BY <1>14, <1>16, <1>17, <1>18, <1>19 DEF PoolInv

LEMMA ShutdownPool ==
    ASSUME IInv, IInv', PoolInv, NEW i \in DOMAIN handlers, Shutdown(i)
    PROVE  PoolInv'
<1>1. Shape /\ Shape' /\ handlers[i] \in HandlerType /\ handlers[i].leaving /\ ~handlers[i].retired
  BY DEF IInv, Shape, Shutdown
<1>2. PICK h : h = [handlers[i] EXCEPT !.retired = TRUE]
  OBVIOUS
<1>3. /\ h \in HandlerType /\ h.requests = handlers[i].requests /\ h.joined = handlers[i].joined
      /\ h.slot = handlers[i].slot /\ h.admission = handlers[i].admission
      /\ h.rev = handlers[i].rev /\ h.server = handlers[i].server
      /\ h.leaving = handlers[i].leaving
  BY <1>1, <1>2 DEF HandlerType
<1>4. PutHandler(i, h) /\ UNCHANGED <<servers, slots, req>>
  BY <1>2 DEF Shutdown
<1>5. SameServed /\ SameAdmitted /\ SameHeld /\ SameBuilders
  BY <1>1, <1>4, RequestsStay
<1>6. handlers[i].joined
  BY <1>1, HandlerHere
<1>7. /\ HandlersGrow /\ Len(handlers') = Len(handlers) /\ Len(admissions') = Len(admissions)
      /\ \A j \in DOMAIN handlers \ {i} : handlers'[j] = handlers[j]
      /\ handlers'[i].requests = h.requests
      /\ \A a \in DOMAIN admissions : admissions'[a].active = admissions[a].active
      /\ MembersCounted' /\ HandlersFit' /\ AdmissionsFit' /\ PoolInUse'
  BY <1>1, <1>3, <1>4, <1>5, <1>6, PutHandlerPool
<1>8. /\ DOMAIN handlers' = DOMAIN handlers /\ DOMAIN admissions' = DOMAIN admissions
      /\ Len(admissions) <= Len(admissions') /\ Len(servers) <= Len(servers')
  BY <1>1, <1>4, <1>7 DEF Shape
<1>9. ServedCounted'
  <2>1. \A j \in DOMAIN handlers : handlers'[j].requests = handlers[j].requests
    BY <1>3, <1>7
  <2> QED BY <1>5, <1>7, <1>8, <2>1, ServedStays
<1>10. AdmittedCounted'
  BY <1>5, <1>7, <1>8, AdmittedStays
<1>11. HeldCounted' /\ RoomToBuild'
  BY <1>4, <1>5, <1>7, HeldStays, BuildersStay
<1>12. RequestsHold'
  <2> SUFFICES ASSUME NEW r \in Requests PROVE RequestHolds(req[r])'
    BY DEF RequestsHold
  <2> QED BY <1>1, <1>4, <1>7, <1>8, HoldsStill
<1> QED BY <1>7, <1>9, <1>10, <1>11, <1>12 DEF PoolInv

\* Reload changes site servers, and flags of the handlers on their way out.
LEMMA FlagsPool ==
    ASSUME IInv, IInv', PoolInv, UNCHANGED <<slots, req, admissions, current>>,
           Len(servers) <= Len(servers'), Len(handlers') = Len(handlers),
           \A h \in DOMAIN handlers :
               /\ handlers'[h].rev = handlers[h].rev /\ handlers'[h].server = handlers[h].server
               /\ handlers'[h].admission = handlers[h].admission /\ handlers'[h].slot = handlers[h].slot
               /\ handlers'[h].requests = handlers[h].requests
               /\ handlers'[h].joined = handlers[h].joined
               /\ handlers'[h].retired = handlers[h].retired
               /\ handlers'[h].retired => handlers'[h].leaving \/ ~handlers'[h].probing
    PROVE  PoolInv'
<1>1. /\ Shape /\ Shape' /\ DOMAIN handlers' = DOMAIN handlers /\ Len(handlers) <= Len(handlers')
      /\ Len(admissions') = Len(admissions) /\ Len(admissions) <= Len(admissions')
  BY DEF IInv, Shape
<1>2. HandlersGrow
  BY <1>1 DEF HandlersGrow
<1>3. SameServed /\ SameAdmitted /\ SameHeld /\ SameBuilders
  BY <1>1, RequestsStay
<1>4. ServedCounted'
  BY <1>1, <1>2, <1>3, ServedStays
<1>5. AdmittedCounted'
  BY <1>1, <1>2, <1>3, AdmittedStays
<1>6. HeldCounted' /\ RoomToBuild' /\ PoolInUse'
  BY <1>1, <1>2, <1>3, HeldStays, BuildersStay, InUseStays
<1>7. MembersCounted' /\ HandlersFit' /\ AdmissionsFit'
  <2>1. \A h \in DOMAIN handlers :
          handlers'[h].joined <=> ~(handlers'[h].retired /\ handlers'[h].requests = 0)
    BY HandlerHere
  <2> QED BY <1>1, <1>2, <2>1, MembersStay
<1>8. RequestsHold'
  <2> SUFFICES ASSUME NEW r \in Requests PROVE RequestHolds(req[r])'
    BY DEF RequestsHold
  <2> QED BY <1>1, <1>2, HoldsStill
<1> QED BY <1>4, <1>5, <1>6, <1>7, <1>8 DEF PoolInv

LEMMA StopProberPool ==
    ASSUME IInv, IInv', PoolInv, NEW i \in DOMAIN handlers, StopProber(i)
    PROVE  PoolInv'
<1>1. Shape /\ handlers[i] \in HandlerType
  BY DEF IInv, Shape
<1>2. /\ UNCHANGED <<servers, slots, req, admissions, current>>
      /\ handlers' = [handlers EXCEPT ![i].leaving = FALSE, ![i].probing = FALSE]
  BY DEF StopProber
<1>3. /\ Len(handlers') = Len(handlers)
      /\ \A j \in DOMAIN handlers \ {i} : handlers'[j] = handlers[j]
      /\ handlers'[i] = [handlers[i] EXCEPT !.leaving = FALSE, !.probing = FALSE]
  BY <1>1, <1>2 DEF Shape
<1>4. /\ handlers'[i].rev = handlers[i].rev /\ handlers'[i].server = handlers[i].server
      /\ handlers'[i].admission = handlers[i].admission /\ handlers'[i].slot = handlers[i].slot
      /\ handlers'[i].requests = handlers[i].requests
      /\ handlers'[i].joined = handlers[i].joined /\ handlers'[i].retired = handlers[i].retired
      /\ ~handlers'[i].probing
  BY <1>1, <1>3 DEF HandlerType
<1>5. Len(servers) <= Len(servers')
  BY <1>1, <1>2 DEF Shape
<1>6. \A h \in DOMAIN handlers :
        /\ handlers'[h].rev = handlers[h].rev /\ handlers'[h].server = handlers[h].server
        /\ handlers'[h].admission = handlers[h].admission /\ handlers'[h].slot = handlers[h].slot
        /\ handlers'[h].requests = handlers[h].requests
        /\ handlers'[h].joined = handlers[h].joined
        /\ handlers'[h].retired = handlers[h].retired
        /\ handlers'[h].retired => handlers'[h].leaving \/ ~handlers'[h].probing
  BY ZenonT(60), <1>3, <1>4, HandlerHere
<1> QED BY <1>2, <1>3, <1>5, <1>6, FlagsPool

\* updateSite and stopSite, which put the cached handler on its way out.
LEMMA DroppedPool ==
    ASSUME IInv, IInv', PoolInv, NEW i, Dropped(i), UNCHANGED <<slots, req, admissions, current>>,
           Len(servers) <= Len(servers')
    PROVE  PoolInv'
<1>1. Shape /\ Shape'
  BY DEF IInv
<1>2. /\ DOMAIN handlers' = DOMAIN handlers
      /\ \A h \in DOMAIN handlers :
            handlers'[h] = handlers[h] \/ handlers'[h] = [handlers[h] EXCEPT !.leaving = TRUE]
  BY DEF Dropped
<1>3. Len(handlers') = Len(handlers)
  BY <1>1, <1>2 DEF Shape
<1>4. ASSUME NEW h \in DOMAIN handlers
      PROVE  /\ handlers'[h].rev = handlers[h].rev /\ handlers'[h].server = handlers[h].server
             /\ handlers'[h].admission = handlers[h].admission
             /\ handlers'[h].slot = handlers[h].slot
             /\ handlers'[h].requests = handlers[h].requests
             /\ handlers'[h].joined = handlers[h].joined
             /\ handlers'[h].retired = handlers[h].retired
             /\ handlers'[h].retired => handlers'[h].leaving \/ ~handlers'[h].probing
  <2>1. handlers[h] \in HandlerType
    BY HandlerHere
  <2>2. CASE handlers'[h] = handlers[h]
    BY <2>2, HandlerHere
  <2>3. CASE handlers'[h] = [handlers[h] EXCEPT !.leaving = TRUE]
    BY <2>1, <2>3 DEF HandlerType
  <2> QED BY <1>2, <2>2, <2>3
<1> QED BY <1>3, <1>4, FlagsPool

LEMMA ReloadingPool ==
    ASSUME IInv, IInv', PoolInv, Reloading
    PROVE  PoolInv'
<1>1. Shape /\ Shape'
  BY DEF IInv
<1>2. ASSUME UNCHANGED <<slots, req, handlers, admissions, current>>, Len(servers) <= Len(servers')
      PROVE  PoolInv'
  BY <1>2, FlagsPool, HandlerHere
<1>3. CASE Edit
  BY <1>1, <1>2, <1>3 DEF Edit, Shape
<1>4. ASSUME NEW s \in Sites, UpdateSite(s) \/ StopSite(s) PROVE PoolInv'
  <2>1. PICK i : i = running[s]
    OBVIOUS
  <2>2. Dropped(i) /\ UNCHANGED <<slots, req, admissions, current>>
    BY <1>4, <2>1 DEF UpdateSite, StopSite
  <2>3. Len(servers') = Len(servers)
    BY <1>1, <1>4 DEF UpdateSite, StopSite, Shape
  <2> QED BY <1>1, <2>2, <2>3, DroppedPool DEF Shape
<1>5. ASSUME NEW s \in Sites, StartSite(s) PROVE PoolInv'
  <2>1. Len(servers) <= Len(servers')
    BY <1>1, <1>5 DEF StartSite, Shape
  <2> QED BY <1>2, <1>5, <2>1 DEF StartSite
<1>6. ASSUME NEW i \in DOMAIN servers, SiteClosed(i) PROVE PoolInv'
  <2>1. Len(servers) <= Len(servers')
    BY <1>1, <1>6 DEF SiteClosed, Shape
  <2> QED BY <1>2, <1>6, <2>1 DEF SiteClosed
<1>7. ASSUME NEW h \in DOMAIN handlers, Shutdown(h) \/ StopProber(h) PROVE PoolInv'
  BY <1>7, ShutdownPool, StopProberPool
<1> QED BY <1>3, <1>4, <1>5, <1>6, <1>7 DEF Reloading

-----------------------------------------------------------------------------
(* A handler joins the pool                                                *)

LEMMA LoadAdmissionPool ==
    ASSUME IInv, IInv', PoolInv, LoadAdmission, UNCHANGED handlers, Len(servers) <= Len(servers')
    PROVE  /\ Len(admissions) <= Len(admissions') /\ current' \in 1..Len(admissions')
           /\ \A a \in DOMAIN admissions : admissions'[a].active = admissions[a].active
           /\ \A a \in DOMAIN admissions' \ DOMAIN admissions : admissions'[a].active = 0
           /\ MembersCounted' /\ HandlersFit' /\ AdmissionsFit'
<1>1. /\ Shape /\ Shape' /\ HandlersGrow /\ Len(handlers') = Len(handlers)
      /\ DOMAIN servers \subseteq DOMAIN servers'
  BY DEF IInv, Shape, HandlersGrow
<1>2. CASE current # 0
  <2>1. UNCHANGED <<admissions, current>>
    BY <1>2 DEF LoadAdmission
  <2>2. Len(admissions) <= Len(admissions') /\ current' \in 1..Len(admissions')
    BY <1>1, <1>2, <2>1 DEF Shape
  <2>3. MembersCounted' /\ HandlersFit' /\ AdmissionsFit'
    BY <1>1, <2>1, MembersStay, HandlerHere
  <2> QED BY <2>1, <2>2, <2>3
<1>3. CASE current = 0
  <2>1. PICK b : b = NewAdmission
    OBVIOUS
  <2>2. /\ b.active = 0 /\ b.members = 0 /\ ~b.retired
        /\ \A n \in Nodes : b.refs[n] = 0
        /\ b.node = [n \in Nodes |-> 0]
    BY <2>1 DEF NewAdmission
  <2>a. admissions \in Seq(AdmissionType)
    BY <1>1 DEF Shape
  <2>b. Len(admissions) \in Nat
    BY <2>a
  <2>3. PICK m \in Nat : m = Len(admissions)
    BY <2>b
  <2>4. admissions' = Append(admissions, b) /\ current' = m + 1
    BY <1>3, <2>1, <2>3 DEF LoadAdmission
  <2>5. /\ Len(admissions') = m + 1 /\ DOMAIN admissions = 1..m /\ DOMAIN admissions' = 1..(m + 1)
        /\ admissions'[m + 1] = b /\ \A a \in 1..m : admissions'[a] = admissions[a]
    BY <1>1, <2>3, <2>4 DEF Shape
  <2>6. \A h \in DOMAIN handlers : ~handlers[h].joined /\ handlers[h].admission # m + 1
    <3> SUFFICES ASSUME NEW h \in DOMAIN handlers
                 PROVE  ~handlers[h].joined /\ handlers[h].admission # m + 1
      OBVIOUS
    <3>1. handlers[h].admission \in 1..m
      BY <2>5, HandlerHere
    <3> QED BY <1>3, <3>1, HandlerHere
  <2>7. MembersCounted'
    <3> SUFFICES ASSUME NEW a \in 1..(m + 1)
                 PROVE  /\ Counted(Members(a)', admissions'[a].members)
                        /\ \A n \in Nodes : Counted(Users(a, n)', admissions'[a].refs[n])
      BY <2>5 DEF MembersCounted
    <3>1. Members(a)' = Members(a) /\ \A n : Users(a, n)' = Users(a, n)
      BY DEF Members, Users
    <3>2. CASE a \in 1..m
      <4>1. /\ Counted(Members(a), admissions[a].members)
            /\ \A n \in Nodes : Counted(Users(a, n), admissions[a].refs[n])
        BY <2>5, <3>2 DEF PoolInv, MembersCounted
      <4>2. admissions'[a] = admissions[a]
        BY <2>5, <3>2
      <4> QED BY <3>1, <4>1, <4>2
    <3>3. CASE a = m + 1
      <4>1. Members(a) = {} /\ \A n : Users(a, n) = {}
        BY <2>6, <3>3 DEF Members, Users
      <4> QED BY <2>2, <2>5, <3>1, <3>3, <4>1, CountedNone
    <3> QED BY <2>5, <3>2, <3>3
  <2>8. HandlersFit'
    <3> SUFFICES ASSUME NEW h \in DOMAIN handlers PROVE HandlerFits(handlers[h])'
      BY DEF HandlersFit
    <3>1. HandlerFits(handlers[h])
      BY DEF PoolInv, HandlersFit
    <3> QED BY <1>1, <2>6, <3>1 DEF HandlerFits
  <2>9. AdmissionsFit'
    <3> SUFFICES ASSUME NEW a \in 1..(m + 1)
                 PROVE  /\ admissions'[a].retired <=> a # current'
                        /\ admissions'[a].node \in [Nodes -> 0..Len(handlers)]
      BY <2>5 DEF AdmissionsFit, AdmissionFits
    <3>1. CASE a \in 1..m
      <4>1. /\ admissions[a].retired <=> a # current
            /\ admissions[a].node \in [Nodes -> 0..Len(handlers)]
        BY <2>5, <3>1 DEF PoolInv, AdmissionsFit, AdmissionFits
      <4> QED BY <1>3, <2>4, <2>5, <3>1, <4>1
    <3>2. CASE a = m + 1
      <4>1. Len(handlers) \in Nat
        BY <1>1 DEF Shape
      <4> QED BY <2>2, <2>4, <2>5, <3>2, <4>1
    <3> QED BY <2>5, <3>1, <3>2
  <2>10. /\ Len(admissions) <= Len(admissions') /\ current' \in 1..Len(admissions')
         /\ \A a \in DOMAIN admissions : admissions'[a].active = admissions[a].active
         /\ \A a \in DOMAIN admissions' \ DOMAIN admissions : admissions'[a].active = 0
    BY <2>2, <2>3, <2>4, <2>5
  <2> QED BY <2>7, <2>8, <2>9, <2>10
<1> QED BY <1>2, <1>3

\* Build, and Reload for an admission that was retired in the meantime.
LEMMA BuildPool ==
    ASSUME IInv, IInv', PoolInv, NEW q \in Requests, Build(q) \/ Reload(q)
    PROVE  PoolInv'
<1>1. /\ Shape /\ Shape' /\ RequestHolds(req[q]) /\ req[q] \in ReqType
      /\ req[q].pc \in {"matched", "building"}
  BY DEF IInv, Shape, PoolInv, RequestsHold, Build, Reload, Looking, At
<1>2. LoadAdmission /\ UNCHANGED <<handlers, slots>>
  BY DEF Build, Reload
<1>3. /\ Len(servers') = Len(servers) /\ DOMAIN servers' = DOMAIN servers
      /\ Len(servers) <= Len(servers') /\ HandlersGrow /\ Len(handlers') = Len(handlers)
  <2>1. servers' = servers \/ servers' = [servers EXCEPT ![req[q].server].locked = TRUE]
    BY DEF Build, Reload
  <2> QED BY <1>1, <1>2, <2>1 DEF Shape, HandlersGrow
<1>4. /\ Len(admissions) <= Len(admissions') /\ current' \in 1..Len(admissions')
      /\ \A a \in DOMAIN admissions : admissions'[a].active = admissions[a].active
      /\ \A a \in DOMAIN admissions' \ DOMAIN admissions : admissions'[a].active = 0
      /\ MembersCounted' /\ HandlersFit' /\ AdmissionsFit'
  BY <1>2, <1>3, LoadAdmissionPool
<1>5. PICK c \in Nat : c = current'
  BY <1>4
<1>6. PICK x \in ReqType :
        /\ req' = [req EXCEPT ![q] = x]
        /\ x.pc = "building" /\ x.admission = c /\ x.held = req[q].held
        /\ x.server = req[q].server /\ x.rev = req[q].rev /\ x.handler = req[q].handler
  <2> DEFINE x == [req[q] EXCEPT !.pc = "building", !.admission = c]
  <2>1. x \in ReqType
    BY <1>1, <1>5 DEF ReqType, PCs
  <2>2. req' = [req EXCEPT ![q] = x]
    <3>1. CASE Build(q)
      BY <1>5, <3>1 DEF Build
    <3>2. CASE Reload(q)
      <4>1. req' = [req EXCEPT ![q] = [req[q] EXCEPT !.admission = c]] /\ req[q].pc = "building"
        BY <1>5, <3>2 DEF Reload, At
      <4>2. x = [req[q] EXCEPT !.admission = c]
        BY <1>1, <4>1 DEF ReqType
      <4> QED BY <4>1, <4>2
    <3> QED BY <3>1, <3>2
  <2> WITNESS x \in ReqType
  <2> QED BY <1>1, <2>2 DEF ReqType
<1>7. req[q].held = {}
  BY <1>1 DEF RequestHolds
<1>8. /\ SameServed /\ SameAdmitted /\ SameHeld
      /\ req'[q] = x /\ \A r \in Requests \ {q} : req'[r] = req[r]
  <2>1. /\ x.pc \notin ServedAt /\ x.pc \notin AdmittedAt
        /\ req[q].pc \notin ServedAt /\ req[q].pc \notin AdmittedAt
    BY <1>1, <1>6 DEF ServedAt, AdmittedAt
  <2> QED BY <1>1, <1>6, <1>7, <2>1, OneMoves
<1>9. ServedCounted'
  BY <1>2, <1>3, <1>8, ServedStays
<1>10. AdmittedCounted'
  BY <1>3, <1>4, <1>8, AdmittedStays
<1>11. HeldCounted'
  BY <1>2, <1>3, <1>8, HeldStays
<1>12. Builders' = Builders \cup {q}
  BY <1>6, <1>8 DEF Builders, At
<1>13. RoomToBuild'
  <2>1. IsFiniteSet(Builders) /\ Cardinality(Builders) \in Nat /\ Len(handlers) \in Nat
    BY <1>1, FS_CardinalityType DEF PoolInv, RoomToBuild, Shape
  <2>2. /\ IsFiniteSet(Builders')
        /\ Cardinality(Builders') = IF q \in Builders THEN Cardinality(Builders)
                                                      ELSE Cardinality(Builders) + 1
    BY <1>12, <2>1, FS_AddElement
  <2>3. CASE Build(q)
    <3>1. Len(handlers) + Cardinality(Builders) < MaxHandlers
      BY <2>3 DEF Build, Builders
    <3> QED BY <1>2, <2>1, <2>2, <3>1, ProxyAssumption DEF RoomToBuild
  <2>4. CASE Reload(q)
    <3>1. q \in Builders
      BY <2>4 DEF Reload, Builders
    <3> QED BY <1>2, <2>2, <3>1 DEF PoolInv, RoomToBuild
  <2> QED BY <2>3, <2>4
<1>14. PoolInUse'
  BY <1>12 DEF PoolInUse
<1>15. RequestsHold'
  <2>1. RequestHolds(req[q])'
    <3>1. x.admission \in 0..Len(admissions')
      BY <1>4, <1>5, <1>6
    <3>2. x.server \in 0..Len(servers') /\ x.handler \in 0..Len(handlers') /\ x.rev \in 0..Len(PoolNodes)
      BY <1>1, <1>3, <1>6 DEF RequestHolds
    <3> QED BY <1>6, <1>7, <1>8, <3>1, <3>2 DEF RequestHolds
  <2> QED BY <1>1, <1>3, <1>4, <1>8, <2>1, HoldsMoves
<1> QED BY <1>4, <1>9, <1>10, <1>11, <1>13, <1>14, <1>15 DEF PoolInv

LEMMA JoinedIs ==
    ASSUME NEW a \in AdmissionType, NEW N \in SUBSET Nodes, NEW h \in Nat,
           NEW b, b = Joined(a, N, h)
    PROVE  /\ b.active = a.active /\ b.members = a.members + 1 /\ b.retired = a.retired
           /\ b.node = NodeSlots(a, N, h)
           /\ \A n \in Nodes : b.refs[n] = IF n \in N THEN a.refs[n] + 1 ELSE a.refs[n]
<1>1. PICK f : f = NodeRefs(a, N)
  OBVIOUS
<1>2. PICK g : g = NodeSlots(a, N, h)
  OBVIOUS
<1>3. b = [a EXCEPT !.members = @ + 1, !.refs = f, !.node = g]
  BY <1>1, <1>2 DEF Joined
<1>4. /\ b.active = a.active /\ b.members = a.members + 1 /\ b.retired = a.retired
      /\ b.refs = f /\ b.node = g
  BY <1>3 DEF AdmissionType
<1>5. \A n \in Nodes : f[n] = IF n \in N THEN a.refs[n] + 1 ELSE a.refs[n]
  BY <1>1 DEF NodeRefs
<1> QED BY <1>2, <1>4, <1>5

LEMMA JoinPool ==
    ASSUME IInv, IInv', PoolInv, NEW q \in Requests, Join(q)
    PROVE  PoolInv'
<1>1. /\ Shape /\ Shape' /\ RequestHolds(req[q]) /\ req[q] \in ReqType /\ req[q].pc = "building"
      /\ RequestFits(req[q])
  BY DEF IInv, Shape, PoolInv, RequestsHold, Join, At
<1>2. PICK l \in Nat : l = Len(handlers) /\ DOMAIN handlers = 1..l
  BY <1>1 DEF Shape
<1>3. PICK h \in Nat : h = l + 1
  OBVIOUS
<1>4. PICK N \in SUBSET Nodes : N = PoolNodes[req[q].rev]
  BY <1>1, ProxyAssumption DEF RequestFits, Revisions
<1>5. PICK a \in DOMAIN admissions : a = req[q].admission
  BY <1>1 DEF RequestFits
<1>6. admissions[a] \in AdmissionType /\ ~admissions[a].retired /\ a = current /\ a # 0
      /\ admissions[a].node \in [Nodes -> 0..l]
  BY <1>1, <1>2, <1>5 DEF Shape, Join, PoolInv, AdmissionsFit, AdmissionFits
<1>7. PICK b \in AdmissionType : b = Joined(admissions[a], N, h)
  BY <1>6, JoinedTyped
<1>8. PICK slot : slot = [n \in N |-> NodeSlots(admissions[a], N, h)[n]]
  OBVIOUS
<1>9. /\ b.active = admissions[a].active /\ b.members = admissions[a].members + 1
      /\ b.retired = admissions[a].retired
      /\ b.node = NodeSlots(admissions[a], N, h)
      /\ \A n \in Nodes :
           b.refs[n] = IF n \in N THEN admissions[a].refs[n] + 1 ELSE admissions[a].refs[n]
  BY <1>6, <1>7, JoinedIs
<1>10. \A n \in Nodes : /\ b.node[n] = IF n \in N /\ admissions[a].node[n] = 0
                                       THEN h ELSE admissions[a].node[n]
                        /\ b.node[n] \in 0..h
                        /\ n \in N => b.node[n] \in 1..h
  <2>1. \A n \in Nodes : b.node[n] = IF n \in N /\ admissions[a].node[n] = 0
                                     THEN h ELSE admissions[a].node[n]
    BY <1>9 DEF NodeSlots
  <2> QED BY <1>3, <1>6, <2>1
<1>11. slot \in [N -> 1..h] /\ DOMAIN slot = N /\ \A n \in N : slot[n] = b.node[n]
  <2>1. \A n \in N : slot[n] = b.node[n]
    BY <1>8, <1>9
  <2> QED BY <1>8, <1>10, <2>1
<1>12. PICK g :
         /\ handlers' = Append(handlers, g)
         /\ g.rev = req[q].rev /\ g.server = req[q].server /\ g.requests = 0 /\ ~g.retired
         /\ g.joined /\ g.admission = a /\ g.slot = slot
  <2> DEFINE g == [server |-> req[q].server, rev |-> req[q].rev, requests |-> 0, retired |-> FALSE,
                   leaving |-> FALSE, probing |-> TRUE, joined |-> TRUE, admission |-> a,
                   slot |-> slot]
  <2>1. handlers' = Append(handlers, g)
    BY <1>2, <1>3, <1>4, <1>5, <1>8 DEF Join
  <2> QED BY <2>1
<1>13. /\ Len(handlers') = h /\ DOMAIN handlers' = 1..h /\ handlers'[h] = g
       /\ \A j \in 1..l : handlers'[j] = handlers[j] /\ j \in 1..h /\ j # h
       /\ \A j \in 1..h : j \in 1..l \/ j = h
  BY <1>1, <1>2, <1>3, <1>12 DEF Shape
<1>14. HandlersGrow
  BY <1>2, <1>3, <1>13 DEF HandlersGrow
<1>15. /\ admissions' = [admissions EXCEPT ![a] = b] /\ current' = current /\ slots' = slots
       /\ Len(admissions') = Len(admissions) /\ DOMAIN admissions' = DOMAIN admissions
       /\ Len(admissions) <= Len(admissions')
       /\ admissions'[a] = b /\ \A c \in DOMAIN admissions \ {a} : admissions'[c] = admissions[c]
  <2>1. admissions' = [admissions EXCEPT ![a] = b] /\ UNCHANGED <<current, slots>>
    BY <1>2, <1>3, <1>4, <1>5, <1>7 DEF Join
  <2> QED BY <1>1, <2>1 DEF Shape
<1>16. /\ Len(servers') = Len(servers) /\ DOMAIN servers' = DOMAIN servers
       /\ Len(servers) <= Len(servers')
  BY <1>1 DEF Join, Shape
<1>17. PICK x \in ReqType : x = [req[q] EXCEPT !.pc = "found", !.handler = h, !.admission = 0]
  BY <1>1 DEF ReqType, PCs
<1>18. /\ x.pc = "found" /\ x.rev = req[q].rev /\ x.server = req[q].server /\ x.handler = h
       /\ x.held = req[q].held /\ x.admission = 0 /\ req[q].held = {}
  BY <1>1, <1>17 DEF ReqType, RequestHolds
<1>19. req' = [req EXCEPT ![q] = x]
  BY <1>2, <1>3, <1>17 DEF Join
<1>20. /\ SameServed /\ SameAdmitted /\ SameHeld
       /\ req'[q] = x /\ \A r \in Requests \ {q} : req'[r] = req[r]
  <2>1. /\ x.pc \notin ServedAt /\ x.pc \notin AdmittedAt
        /\ req[q].pc \notin ServedAt /\ req[q].pc \notin AdmittedAt
    BY <1>1, <1>18 DEF ServedAt, AdmittedAt
  <2> QED BY ZenonT(60), <1>1, <1>18, <1>19, <2>1, OneMoves
<1>21. ServedCounted'
  <2>1. \A j \in DOMAIN handlers : handlers'[j].requests = handlers[j].requests
    BY <1>2, <1>13
  <2>2. \A j \in DOMAIN handlers' \ DOMAIN handlers : handlers'[j].requests = 0
    BY <1>2, <1>12, <1>13
  <2> QED BY <1>14, <1>20, <2>1, <2>2, ServedStays
<1>22. AdmittedCounted'
  BY <1>9, <1>14, <1>15, <1>20, AdmittedStays
<1>23. HeldCounted'
  BY <1>14, <1>15, <1>20, HeldStays
<1>24. RoomToBuild'
  <2>1. Builders' = Builders \ {q} /\ q \in Builders
    BY <1>1, <1>18, <1>20 DEF Builders, At
  <2>2. IsFiniteSet(Builders) /\ Cardinality(Builders) \in Nat
    BY FS_CardinalityType DEF PoolInv, RoomToBuild
  <2>3. IsFiniteSet(Builders') /\ Cardinality(Builders') = Cardinality(Builders) - 1
    BY <2>1, <2>2, FS_RemoveElement
  <2>4. l + Cardinality(Builders) <= MaxHandlers
    BY <1>2 DEF PoolInv, RoomToBuild
  <2> QED BY <1>3, <1>13, <2>2, <2>3, <2>4, ProxyAssumption DEF RoomToBuild
<1>25. MembersCounted'
  <2> SUFFICES ASSUME NEW c \in DOMAIN admissions
               PROVE  /\ Counted(Members(c)', admissions'[c].members)
                      /\ \A n \in Nodes : Counted(Users(c, n)', admissions'[c].refs[n])
    BY <1>15 DEF MembersCounted
  <2>1. /\ Counted(Members(c), admissions[c].members)
        /\ \A n \in Nodes : Counted(Users(c, n), admissions[c].refs[n])
    BY DEF PoolInv, MembersCounted
  <2>2. \A j : j \in Members(c)' <=> j \in Members(c) \/ (j = h /\ c = a)
    BY <1>2, <1>12, <1>13 DEF Members
  <2>3. \A n, j : j \in Users(c, n)' <=> j \in Users(c, n) \/ (j = h /\ c = a /\ n \in N)
    BY <1>2, <1>11, <1>12, <1>13 DEF Users
  <2>4. h \notin Members(c) /\ \A n : h \notin Users(c, n)
    BY <1>2, <1>3 DEF Members, Users
  <2>5. CASE c # a
    <3>1. Members(c)' = Members(c) /\ \A n : Users(c, n)' = Users(c, n)
      BY <2>2, <2>3, <2>5
    <3>2. admissions'[c] = admissions[c]
      BY <1>15, <2>5
    <3> QED BY <2>1, <3>1, <3>2
  <2>6. CASE c = a
    <3>1. Counted(Members(c)', b.members)
      <4>1. \A j : j \in Members(c)' <=> j \in Members(c) \/ j = h
        BY <2>2, <2>6
      <4>2. b.members = admissions[c].members + 1
        BY <1>9, <2>6
      <4> QED BY <2>1, <2>4, <4>1, <4>2, CountedOneMore
    <3>2. ASSUME NEW n \in Nodes PROVE Counted(Users(c, n)', b.refs[n])
      <4>1. CASE n \in N
        <5>1. \A j : j \in Users(c, n)' <=> j \in Users(c, n) \/ j = h
          BY <2>3, <2>6, <4>1
        <5>2. b.refs[n] = admissions[c].refs[n] + 1
          BY <1>9, <2>6, <4>1
        <5>3. Counted(Users(c, n)', admissions[c].refs[n] + 1)
          BY <2>1, <2>4, <5>1, CountedOneMore
        <5> QED BY <5>2, <5>3
      <4>2. CASE n \notin N
        <5>1. Users(c, n)' = Users(c, n)
          BY <2>3, <4>2
        <5> QED BY <1>9, <2>1, <2>6, <4>2, <5>1
      <4> QED BY <4>1, <4>2
    <3> QED BY <1>15, <2>6, <3>1, <3>2
  <2> QED BY <2>5, <2>6
<1>26. HandlersFit'
  <2> SUFFICES ASSUME NEW j \in 1..h PROVE HandlerFits(handlers[j])'
    BY <1>13 DEF HandlersFit
  <2>1. CASE j \in 1..l
    <3>1. HandlerFits(handlers[j]) /\ handlers'[j] = handlers[j]
      BY <1>2, <1>13, <2>1 DEF PoolInv, HandlersFit
    <3>2. handlers[j].slot \in [PoolNodes[handlers[j].rev] -> 1..h]
      BY <1>2, <1>3, <3>1 DEF HandlerFits
    <3>3. DOMAIN handlers[j].slot \subseteq Nodes
      <4>1. handlers[j] \in HandlerType
        BY <1>2, <2>1, HandlerHere
      <4> QED BY <4>1 DEF HandlerType, SlotMaps
    <3>4. handlers[j].joined =>
             /\ handlers[j].admission = a
             /\ \A n \in DOMAIN handlers[j].slot : handlers[j].slot[n] = b.node[n]
      <4>1. handlers[j].joined =>
               /\ handlers[j].admission = a
               /\ \A n \in DOMAIN handlers[j].slot : handlers[j].slot[n] = admissions[a].node[n]
        BY <1>6, <3>1 DEF HandlerFits
      <4>2. \A n \in DOMAIN handlers[j].slot : handlers[j].slot[n] # 0
        BY <1>2, <3>1 DEF HandlerFits
      <4> QED BY <1>10, <3>3, <4>1, <4>2
    <3> QED BY <1>6, <1>13, <1>15, <1>16, <3>1, <3>2, <3>4 DEF HandlerFits
  <2>2. CASE j = h
    <3>1. g.slot \in [PoolNodes[g.rev] -> 1..h]
      BY <1>4, <1>11, <1>12
    <3>2. g.server \in DOMAIN servers
      BY <1>1, <1>12 DEF RequestFits
    <3>3. \A n \in DOMAIN g.slot : g.slot[n] = b.node[n]
      BY <1>11, <1>12
    <3> QED BY <1>6, <1>12, <1>13, <1>15, <1>16, <2>2, <3>1, <3>2, <3>3 DEF HandlerFits
  <2> QED BY <1>13, <2>1, <2>2
<1>27. AdmissionsFit'
  <2> SUFFICES ASSUME NEW c \in DOMAIN admissions
               PROVE  /\ admissions'[c].retired <=> c # current'
                      /\ admissions'[c].node \in [Nodes -> 0..h]
    BY <1>13, <1>15 DEF AdmissionsFit, AdmissionFits
  <2>1. /\ admissions[c].retired <=> c # current
        /\ admissions[c].node \in [Nodes -> 0..l]
    BY <1>2 DEF PoolInv, AdmissionsFit, AdmissionFits
  <2>2. CASE c = a
    <3>1. b.node \in [Nodes -> Nat]
      BY DEF AdmissionType
    <3>2. b.node \in [Nodes -> 0..h]
      BY <1>10, <3>1
    <3> QED BY <1>9, <1>15, <2>1, <2>2, <3>2
  <2>3. CASE c # a
    <3>1. admissions'[c] = admissions[c]
      BY <1>15, <2>3
    <3> QED BY <1>3, <1>15, <2>1, <3>1
  <2> QED BY <2>2, <2>3
<1>28. PoolInUse'
  <2>1. h \in 1..h
    BY <1>3
  <2> QED BY <1>12, <1>13, <2>1 DEF PoolInUse
<1>29. RequestsHold'
  <2>1. RequestHolds(req[q])'
    <3>1. x.handler \in 0..Len(handlers') /\ x.admission \in 0..Len(admissions')
      BY <1>1, <1>13, <1>18 DEF Shape
    <3>2. x.server \in 0..Len(servers') /\ x.rev \in 0..Len(PoolNodes)
      BY <1>1, <1>16, <1>18 DEF RequestHolds
    <3> QED BY <1>18, <1>20, <3>1, <3>2 DEF RequestHolds
  <2> QED BY <1>1, <1>14, <1>15, <1>16, <1>20, <2>1, HoldsMoves
<1> QED BY SMTT(40), <1>21, <1>22, <1>23, <1>24, <1>25, <1>26, <1>27, <1>28, <1>29 DEF PoolInv

-----------------------------------------------------------------------------
(* The theorems about the pool                                             *)

LEMMA PoolInit == Init => PoolInv
<1> SUFFICES ASSUME Init PROVE PoolInv
  OBVIOUS
<1>1. /\ DOMAIN handlers = {} /\ DOMAIN admissions = {} /\ Len(handlers) = 0
      /\ Len(servers) = 0 /\ Len(admissions) = 0 /\ current = 0
      /\ \A q \in Requests : req[q] = Idle
  BY DEF Init
<1>2. Idle.pc = "idle" /\ Idle.held = {}
  BY DEF Idle
<1>3. ServedCounted /\ AdmittedCounted /\ MembersCounted /\ HandlersFit /\ AdmissionsFit
  BY <1>1 DEF ServedCounted, AdmittedCounted, MembersCounted, HandlersFit, AdmissionsFit
<1>4. HeldCounted
  <2>1. \A k \in Slots : Holders(k) = {} /\ slots[k] = 0
    BY <1>1, <1>2 DEF Holders, Init
  <2> QED BY <2>1, CountedNone DEF HeldCounted
<1>5. RoomToBuild
  <2>1. Builders = {}
    BY <1>1, <1>2 DEF Builders, At
  <2> QED BY <1>1, <2>1, FS_EmptySet, ProxyAssumption DEF RoomToBuild
<1>6. PoolInUse
  BY <1>1 DEF PoolInUse
<1>7. RequestsHold
  BY <1>1, InvInit, IdleHolds DEF RequestsHold
<1> QED BY <1>3, <1>4, <1>5, <1>6, <1>7 DEF PoolInv

LEMMA PoolNext == IInv /\ IInv' /\ PoolInv /\ [Next]_vars => PoolInv'
<1> SUFFICES ASSUME IInv, IInv', PoolInv, [Next]_vars PROVE PoolInv'
  OBVIOUS
<1>1. CASE Reloading
  BY <1>1, ReloadingPool
<1>2. ASSUME NEW q \in Requests, Finding(q) PROVE PoolInv'
  BY <1>2, MatchPool, TurnedPool, CachedPool, BuildPool, JoinPool DEF Finding
<1>3. ASSUME NEW q \in Requests, Serving(q) PROVE PoolInv'
  BY <1>3, EnterPool, TurnedPool, AdmitPool, PickPool, TakePool, ReleaseNodesPool, ReleasePoolPool,
     LeavePool DEF Serving
<1>4. CASE UNCHANGED vars
  <2>1. UNCHANGED <<slots, req, servers, handlers, admissions, current>>
    BY <1>4 DEF vars
  <2>2. Len(servers) <= Len(servers')
    BY <2>1 DEF IInv, Shape
  <2> QED BY <2>1, <2>2, FlagsPool, HandlerHere
<1> QED BY <1>1, <1>2, <1>3, <1>4 DEF Next

\* A request in service keeps its handler in the pool.
LEMMA ServedJoined ==
    ASSUME IInv, PoolInv, NEW q \in Requests, Served(q) \/ req[q].held # {}
    PROVE  /\ req[q].handler \in DOMAIN handlers /\ Handler(q).joined
           /\ Admission(q) = current
           /\ \A n \in DOMAIN Handler(q).slot : Handler(q).slot[n] = admissions[current].node[n]
<1>1. RequestHolds(req[q])
  BY DEF PoolInv, RequestsHold
<1>2. Served(q)
  BY <1>1 DEF RequestHolds, Served, Admitted
<1>3. req[q].handler \in DOMAIN handlers
  BY <1>2, ServedHere
<1>4. q \in ServedBy(req[q].handler)
  BY <1>2 DEF ServedBy
<1>5. Handler(q).joined
  BY <1>3, <1>4, HandlerHere, CountedSome DEF Handler
<1> QED BY <1>3, <1>5, HandlerHere DEF Handler, Admission

\* Whatever the order in which requests of all sites come in, are answered or give
\* up, and sites are edited, stopped and started: what the pool, its nodes and its
\* admissions count is what there is (takeSlot and the deferred releases,
\* poolAdmissionFor, node and release), and all handlers share one admission.
THEOREM PoolCountsExactly == Spec => []CountsAreExact
<1>1. IInv /\ PoolInv => CountsAreExact
  <2> SUFFICES ASSUME IInv, PoolInv PROVE CountsAreExact
    OBVIOUS
  <2>1. ASSUME NEW a \in DOMAIN admissions
        PROVE  /\ admissions[a].active = Cardinality(AdmittedTo(a))
               /\ admissions[a].members = Cardinality(Members(a))
               /\ \A n \in Nodes : admissions[a].refs[n] = Cardinality(Users(a, n))
    BY DEF PoolInv, AdmittedCounted, MembersCounted, Counted
  <2>2. ASSUME NEW k \in Slots PROVE slots[k] = Cardinality(Holders(k))
    BY DEF PoolInv, HeldCounted, Counted
  <2>3. ASSUME NEW h \in DOMAIN handlers, handlers[h].joined
        PROVE  /\ handlers[h].admission = current
               /\ \A n \in DOMAIN handlers[h].slot : handlers[h].slot[n] = admissions[current].node[n]
    BY <2>3, HandlerHere
  <2> QED BY <2>1, <2>2, <2>3 DEF CountsAreExact, AdmittedTo, Members, Users, Holders
<1> QED BY InvInit, InvNext, PoolInit, PoolNext, <1>1, PTL DEF Spec

\* A handler that was shut down keeps nothing of the pool once its last request is
\* done (releaseRetiredAdmissionLocked), and the pool's counts go with the last
\* handler (release).
THEOREM PoolReleasesRetired == Spec => []RetiredReleaseAll
<1>1. IInv /\ PoolInv => RetiredReleaseAll
  BY HandlerHere DEF PoolInv, PoolInUse, Builders, RetiredReleaseAll
<1> QED BY InvInit, InvNext, PoolInit, PoolNext, <1>1, PTL DEF Spec

\* What lets a request in, and what lets it take a node.
LEMMA OnlyAdmitAndTake ==
    ASSUME IInv, PoolInv, [Next]_vars, NEW q \in Requests
    PROVE  /\ Admitted(q)' /\ ~Admitted(q) =>
                 At(q, "entered") /\ admissions[Admission(q)].active < PoolLimit[Handler(q).rev]
           /\ \A n \in req'[q].held \ req[q].held :
                 At(q, "picked") /\ n = req[q].node /\ HasRoom(q, n)
<1>1. Shape /\ req[q] \in ReqType /\ RequestHolds(req[q])
  BY DEF IInv, Shape, PoolInv, RequestsHold
<1>2. CASE req'[q] = req[q]
  BY <1>2 DEF Admitted
<1>3. CASE Finding(q) \/ Retired(q) \/ Leave(q) \/ Enter(q)
  <2>1. req'[q].pc \in {"idle", "matched", "found", "building", "entered"}
        /\ req'[q].held \subseteq req[q].held
    <3> DEFINE Goal == req'[q].pc \in {"idle", "matched", "found", "building", "entered"}
                       /\ req'[q].held \subseteq req[q].held
    <3>1. req \in [Requests -> ReqType] /\ Idle.pc = "idle" /\ Idle.held = {}
      BY <1>1 DEF Shape, Idle
    <3>2. CASE Done(q)
      <4>1. req'[q] = Idle
        BY <3>1, <3>2 DEF Done
      <4> QED BY <3>1, <4>1
    <3>4. ASSUME NEW i \in DOMAIN servers, Match(q, i) PROVE Goal
      <4>1. PICK x : x = [Idle EXCEPT !.pc = "matched", !.server = i, !.rev = servers[i].rev]
        OBVIOUS
      <4>2. x.pc = "matched" /\ x.held = {}
        BY <4>1 DEF Idle
      <4>3. req'[q] = x
        BY <3>1, <3>4, <4>1 DEF Match
      <4> QED BY <4>2, <4>3
    <3>5. CASE Cached(q)
      BY <1>1, <3>1, <3>5 DEF Cached, ReqType
    <3>6. CASE Build(q)
      BY <1>1, <3>1, <3>6 DEF Build, ReqType
    <3>7. CASE Join(q)
      BY <1>1, <3>1, <3>7 DEF Join, ReqType
    <3>8. CASE Enter(q)
      BY <1>1, <3>1, <3>8 DEF Enter, Go, ReqType
    <3>3. CASE Reload(q)
      BY <1>1, <3>3 DEF Reload, At, Shape, ReqType
    <3> QED BY <1>3, <3>2, <3>3, <3>4, <3>5, <3>6, <3>7, <3>8 DEF Finding, Turned, Retired, Leave
  <2> QED BY <2>1 DEF Admitted
<1>4. CASE Admit(q)
  <2>1. req'[q].held = req[q].held /\ req'[q].pc \in {"admitted", "leaving"} /\ At(q, "entered")
    BY <1>1, <1>4 DEF Admit, Go, Shape, ReqType, At
  <2>2. Admitted(q)' => admissions[Admission(q)].active < PoolLimit[Handler(q).rev]
    BY <1>1, <1>4 DEF Admit, Go, Shape, ReqType, Admitted
  <2> QED BY <2>1, <2>2
<1>5. CASE Pick(q) \/ Full(q) \/ Failover(q) \/ ReleaseNodes(q) \/ ReleasePool(q)
  <2>1. Admitted(q)
    BY <1>5 DEF Pick, Full, Failover, ReleaseNodes, ReleasePool, At, Admitted
  <2>2. req'[q].held \subseteq req[q].held
    BY <1>1, <1>5 DEF Pick, Full, Failover, ReleaseNodes, ReleasePool, Go, Shape, ReqType
  <2> QED BY <2>1, <2>2
<1>6. CASE Take(q)
  <2>1. /\ At(q, "picked") /\ HasRoom(q, req[q].node)
        /\ req'[q].held = req[q].held \cup {req[q].node}
    BY SMTT(40), <1>1, <1>6 DEF Take, Shape, ReqType
  <2> QED BY <2>1 DEF At, Admitted
<1>7. ASSUME NEW r \in Requests \ {q}, Finding(r) \/ Serving(r) PROVE req'[q] = req[q]
  BY ZenonT(60), <1>1, <1>7 DEF Finding, Match, Turned, Cached, Build, Reload, Join, Serving, Enter, Retired,
                    Admit, Pick, Take, Full, Failover, ReleaseNodes, ReleasePool, Leave, Go, Done, Shape
<1>8. Reloading \/ UNCHANGED vars => req'[q] = req[q]
  BY DEF Reloading, Edit, UpdateSite, StopSite, StartSite, Shutdown, StopProber, SiteClosed, vars
<1> QED BY <1>2, <1>3, <1>4, <1>5, <1>6, <1>7, <1>8 DEF Next, Serving

\* A request is let in, and sent to a node, only below the limit of its revision,
\* over the requests of all sites and all revisions that are there (takeSlot of
\* poolAdmission and of poolNodeSlot).
THEOREM PoolKeepsBudgets == Spec => BudgetsKept
<1> DEFINE Kept ==
      \A q \in Requests :
         /\ Admitted(q)' /\ ~Admitted(q) =>
               Cardinality({r \in Requests : Admitted(r)}) < PoolLimit[Handler(q).rev]
         /\ \A n \in req'[q].held \ req[q].held :
               Cardinality({r \in Requests : n \in req[r].held}) < NodeLimit[Handler(q).rev]
<1>1. IInv /\ PoolInv /\ [Next]_vars => [Kept]_vars
  <2> SUFFICES ASSUME IInv, PoolInv, [Next]_vars, NEW q \in Requests
               PROVE  /\ Admitted(q)' /\ ~Admitted(q) =>
                          Cardinality({r \in Requests : Admitted(r)}) < PoolLimit[Handler(q).rev]
                      /\ \A n \in req'[q].held \ req[q].held :
                          Cardinality({r \in Requests : n \in req[r].held}) < NodeLimit[Handler(q).rev]
    BY DEF Kept
  <2>1. ASSUME Admitted(q)', ~Admitted(q)
        PROVE  Cardinality({r \in Requests : Admitted(r)}) < PoolLimit[Handler(q).rev]
    <3>1. At(q, "entered") /\ admissions[Admission(q)].active < PoolLimit[Handler(q).rev]
      BY <2>1, OnlyAdmitAndTake
    <3>2. Admission(q) = current /\ req[q].handler \in DOMAIN handlers
      BY <3>1, ServedJoined DEF At, Served
    <3>3. current \in DOMAIN admissions
      BY <3>2, HandlerHere DEF Admission, Handler
    <3>4. \A r \in Requests : Admitted(r) => Admission(r) = current
      BY ServedJoined DEF Served
    <3>5. {r \in Requests : Admitted(r)} = AdmittedTo(current)
      BY <3>4 DEF AdmittedTo
    <3>6. Counted(AdmittedTo(current), admissions[current].active)
      BY <3>3 DEF PoolInv, AdmittedCounted
    <3> QED BY <3>1, <3>2, <3>5, <3>6 DEF Counted
  <2>2. ASSUME NEW n \in req'[q].held \ req[q].held
        PROVE  Cardinality({r \in Requests : n \in req[r].held}) < NodeLimit[Handler(q).rev]
    <3>1. At(q, "picked") /\ n = req[q].node /\ HasRoom(q, n)
      BY OnlyAdmitAndTake
    <3>2. n \in DOMAIN Handler(q).slot
      BY <3>1 DEF PoolInv, RequestsHold, RequestHolds, At, Handler
    <3>3. PICK k \in Slots : k = Slot(q, n) /\ k[2] = n
      BY <3>1, <3>2, SlotHere DEF At, WithHandler, Slot
    <3>4. Handler(q).slot[n] = admissions[current].node[n]
      BY <3>1, <3>2, ServedJoined DEF At, Served, Admitted
    <3>5. ASSUME NEW r \in Requests, n \in req[r].held PROVE Slot(r, n) = k
      <4>1. n \in DOMAIN Handler(r).slot
        BY <3>5, ServedHere
      <4>2. Handler(r).slot[n] = admissions[current].node[n]
        BY <3>5, <4>1, ServedJoined
      <4> QED BY <3>3, <3>4, <4>2 DEF Slot
    <3>6. {r \in Requests : n \in req[r].held} = Holders(k)
      BY <3>3, <3>5 DEF Holders
    <3>7. Counted(Holders(k), slots[k])
      BY DEF PoolInv, HeldCounted
    <3> QED BY <3>1, <3>3, <3>6, <3>7 DEF Counted, HasRoom
  <2> QED BY <2>1, <2>2
<1> QED BY InvInit, InvNext, PoolInit, PoolNext, <1>1, PTL DEF Spec, BudgetsKept, Kept

LEMMA SeqRetyped ==
    ASSUME NEW S, NEW T, NEW s \in Seq(S), \A i \in DOMAIN s : s[i] \in T
    PROVE  s \in Seq(T)
OBVIOUS

\* Every number and reference has its range: no count falls below zero, and what
\* is referred to is there.
THEOREM ProxyTyped == Spec => []TypeOK
<1>1. IInv /\ PoolInv => TypeOK
  <2> SUFFICES ASSUME IInv, PoolInv PROVE TypeOK
    OBVIOUS
  <2>1. Shape
    BY DEF IInv
  <2>2. servers \in Seq([site : Sites, rev : Revisions, phase : {"open", "closing", "closed"},
                         cache : 0..Len(handlers), locked : BOOLEAN])
    <3>1. Len(handlers) \in Nat /\ DOMAIN handlers = 1..Len(handlers)
      BY <2>1 DEF Shape
    <3>2. ASSUME NEW i \in DOMAIN servers
          PROVE  servers[i] \in [site : Sites, rev : Revisions, phase : {"open", "closing", "closed"},
                                 cache : 0..Len(handlers), locked : BOOLEAN]
      <4>1. servers[i] \in ServerType
        BY <2>1 DEF Shape
      <4>2. servers[i].cache \in 0..Len(handlers)
        BY <3>1, <4>1 DEF IInv, CachesFit, ServerType
      <4> QED BY <4>1, <4>2 DEF ServerType
    <3>3. servers \in Seq(ServerType)
      BY <2>1 DEF Shape
    <3> QED BY <3>2, <3>3, SeqRetyped
  <2>3. ASSUME NEW h \in DOMAIN handlers
        PROVE  /\ handlers[h].slot \in [PoolNodes[handlers[h].rev] -> 1..Len(handlers)]
               /\ [handlers[h] EXCEPT !.slot = 0] \in
                    [server : DOMAIN servers, rev : Revisions, requests : Nat, retired : BOOLEAN,
                     leaving : BOOLEAN, probing : BOOLEAN, joined : BOOLEAN,
                     admission : DOMAIN admissions, slot : {0}]
    <3>1. /\ handlers[h] \in HandlerType /\ handlers[h].admission \in DOMAIN admissions
          /\ handlers[h].server \in DOMAIN servers
          /\ handlers[h].slot \in [PoolNodes[handlers[h].rev] -> 1..Len(handlers)]
      BY HandlerHere DEF PoolInv, HandlersFit, HandlerFits
    <3>2. handlers[h].requests \in Nat
      BY HandlerHere, CountedSome
    <3>3. [handlers[h] EXCEPT !.slot = 0] \in
             [server : DOMAIN servers, rev : Revisions, requests : Nat, retired : BOOLEAN,
              leaving : BOOLEAN, probing : BOOLEAN, joined : BOOLEAN,
              admission : DOMAIN admissions, slot : {0}]
      BY <3>1, <3>2 DEF HandlerType
    <3> QED BY <3>1, <3>3
  <2>4. admissions \in Seq([active : Nat, members : Nat, retired : BOOLEAN,
                            node : [Nodes -> 0..Len(handlers)], refs : [Nodes -> Nat]])
    <3>1. ASSUME NEW a \in DOMAIN admissions
          PROVE  admissions[a] \in [active : Nat, members : Nat, retired : BOOLEAN,
                                    node : [Nodes -> 0..Len(handlers)], refs : [Nodes -> Nat]]
      <4>1. admissions[a] \in AdmissionType
        BY <2>1 DEF Shape
      <4>2. admissions[a].active \in Nat /\ admissions[a].members \in Nat
        BY CountedSome DEF PoolInv, AdmittedCounted, MembersCounted
      <4>3. admissions[a].refs \in [Nodes -> Nat]
        <5>1. \A n \in Nodes : admissions[a].refs[n] \in Nat
          BY CountedSome DEF PoolInv, MembersCounted
        <5> QED BY <4>1, <5>1 DEF AdmissionType
      <4>4. admissions[a].node \in [Nodes -> 0..Len(handlers)]
        BY DEF PoolInv, AdmissionsFit, AdmissionFits
      <4> QED BY <4>1, <4>2, <4>3, <4>4 DEF AdmissionType
    <3>2. admissions \in Seq(AdmissionType)
      BY <2>1 DEF Shape
    <3> QED BY <3>1, <3>2, SeqRetyped
  <2>5. slots \in [Slots -> Nat]
    <3> DEFINE S == Slots
    <3>1. \A k \in S : slots[k] \in Nat
      BY CountedSome DEF PoolInv, HeldCounted
    <3>2. slots \in [S -> Int]
      BY <2>1 DEF Shape
    <3> HIDE DEF S
    <3>3. slots \in [S -> Nat]
      BY <3>1, <3>2
    <3> QED BY <3>3 DEF S
  <2>6. req \in [Requests -> [pc : PCs, server : 0..Len(servers), rev : 0..Len(PoolNodes),
                              handler : 0..Len(handlers), admission : 0..Len(admissions),
                              node : Nodes \cup {0}, held : SUBSET Nodes]]
    BY <2>1 DEF Shape, PoolInv, RequestsHold, RequestHolds, ReqType
  <2>7. /\ revision \in Revisions /\ running \in [Sites -> 0..Len(servers)]
        /\ current \in 0..Len(admissions)
    BY <2>1 DEF Shape
  <2> QED BY <2>2, <2>3, <2>4, <2>5, <2>6, <2>7 DEF TypeOK
<1> QED BY InvInit, InvNext, PoolInit, PoolNext, <1>1, PTL DEF Spec

=============================================================================
