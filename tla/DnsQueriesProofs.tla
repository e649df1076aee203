--------------------------- MODULE DnsQueriesProofs ---------------------------
(***************************************************************************)
(* What the caches and the solvers do to a query, for any number of        *)
(* queries, saves, container events, names, entries and seconds.           *)
(***************************************************************************)
EXTENDS DnsQueries, ConfigStoreProofs

Levels == {"local", "remote"}
Outcomes == {"none", "replied", "unanswered", "panic", "noAddress"}
Handler ==
    [at : HandlerLocations, cand : Nat, level : Levels, server : 1..(NumServers + 1),
     res : {None, "nxdomain", "timeout"}, held : CacheEntry \cup {None},
     ref : Queries \cup {None}, pause : Nat, outcome : Outcomes, disturbed : BOOLEAN]

QueryType == query \in [Queries -> Handler]
HeapType ==
    /\ heap \in [Queries -> Msg \cup {None}]
    /\ sent \in [Queries -> Msg \cup {None}]
CacheType == cache \in [Levels -> [Names -> CacheEntry \cup {None}]]
SharedType ==
    /\ solvers \in {"none", "creating", "ready"}
    /\ main \subseteq {"SEARCH_DOMAIN", "SERVERS"}
    /\ docker \in [Names -> {"ip", "noIp", None}]
    /\ now \in Nat
    /\ events \in Nat
QTypes == QueryType /\ HeapType /\ CacheType /\ SharedType

\* A query uses the store only inside a load, and never for an operation.
Loading(q) == query[q].at \in {"systemLoaded", "localLoaded", "serversLoaded"}
LoadsOnly ==
    \A q \in Queries : op[q] = NoOp /\ (~Loading(q) => pc[q] = "idle")

StoreInv ==
    /\ TypeOK
    /\ Clearing
    /\ BufferedWhileSaving
    /\ SavesInTurn
    /\ LoadsOnly

\* The candidate a solver looks at is one.
CandidateExists == \A q \in Queries : query[q].cand \in DOMAIN Candidates[Question[q]]

\* A handler only works on a message it allocated itself, and gives it its id
\* before it sends it.
OwnMessage ==
    \A q \in Queries :
        /\ query[q].at \in {"put", "setReply", "write"} => query[q].ref = q /\ heap[q] # None
        /\ query[q].at = "write" => heap[q].id = q

\* A message that is about to be cached has the full ttl of its record.
FreshMessage ==
    \A q \in Queries :
        query[q].at = "put" /\ HasAnswer(heap[q]) => heap[q].ttl = FullTtl(heap[q])

\* A cached message has the full ttl of its record, its lifetime in the cache is
\* that ttl, and the handler that allocated it has at most its id left to set.
Sound(e) ==
    /\ e # None
    /\ heap[e.msg] # None
    /\ query[e.msg].at \in {"setReply", "write", "end"}
    /\ e.timeout = GetTtl(heap[e.msg])
    /\ e.creation <= now
    /\ HasAnswer(heap[e.msg]) => heap[e.msg].ttl = FullTtl(heap[e.msg])

CacheSound == \A l \in Levels, n \in Names : cache[l][n] # None => Sound(cache[l][n])

\* So has the message of an entry that a handler holds, although the entry may
\* have left the cache; it was valid when it was found, pause seconds ago.
HeldSound ==
    \A q \in Queries :
        query[q].at = "copy" =>
            /\ Sound(query[q].held)
            /\ query[q].pause <= MaxPause
            /\ query[q].held.timeout > (now - query[q].pause) - query[q].held.creation

\* Every reply that was sent carries the id of its request, and everything the
\* handlers rely on.
QInv ==
    /\ QTypes
    /\ StoreInv
    /\ CandidateExists
    /\ OwnMessage
    /\ FreshMessage
    /\ CacheSound
    /\ HeldSound
    /\ ReplyBelongsToRequest

\* The ttl of a message on its way.
Dated(m) == HasAnswer(m) => m.issued + m.ttl = m.born + FullTtl(m)
MessageDated ==
    \A q \in Queries : query[q].at \in {"setReply", "write"} => Dated(heap[q])

\* A key a handler has found is still there, unless it was disturbed.
KeyFound ==
    \A q \in Queries :
        ~query[q].disturbed =>
            /\ query[q].at = "systemGet" => "SEARCH_DOMAIN" \in main
            /\ query[q].at = "serversGet" => "SERVERS" \in main
            /\ query[q].at = "dockerGet" => docker[Candidate(q)] # None
-----------------------------------------------------------------------------
(***************************************************************************)
(* The store under the queries.                                            *)
(***************************************************************************)
\* A query calls LoadConfiguration.
CallsLoad(q) ==
    /\ pc[q] = "idle"
    /\ pc' = [pc EXCEPT ![q] = "load"]
    /\ UNCHANGED <<file, op, conf, ret, buffered, clear, reply, clock, requests,
                   crashes, torn>>

\* A query that returns from its load takes the step of an operation that only
\* reads.
LEMMA ReturnIsApply ==
    ASSUME StoreInv, NEW q \in Queries, pc[q] = "apply", ReturnFromLoad(q)
    PROVE  Apply(q)
<1>1. op[q] = NoOp /\ q \in Procs
    BY QueriesAssumption, ReadersAssumption DEF StoreInv, LoadsOnly
<1>2. op[q].kind = "read" /\ IdsDrawn(op[q]) = 0
    BY <1>1 DEF NoOp, IdsDrawn
<1>3. clock \in Nat
    BY DEF StoreInv, TypeOK
<1> QED
    BY <1>2, <1>3 DEF ReturnFromLoad, Apply

\* To the store the queries are readers: a step is one of ConfigStore, or it
\* begins a load.
LEMMA StoreMoves ==
    ASSUME StoreInv, [QNext]_allvars
    PROVE  [Next]_vars \/ \E q \in Queries : CallsLoad(q)
<1>1. Queries \subseteq Procs
    BY QueriesAssumption, ReadersAssumption
<1>2. ASSUME NEW q \in Queries, Apply(q) PROVE Next
    BY <1>1, <1>2 DEF Next, Step
<1>3. ASSUME NEW q \in Queries, Receive(q) PROVE UNCHANGED vars
    BY <1>3 DEF Receive
<1>4. ASSUME NEW q \in Queries, QueryStep(q)
      PROVE  [Next]_vars \/ CallsLoad(q)
  <2>1. ASSUME NEW l, ~Loading(q), CallLoad(q, l) PROVE CallsLoad(q)
    BY <2>1 DEF CallLoad, CallsLoad, StoreInv, LoadsOnly
  <2>2. CASE SystemLoad(q) \/ LocalLoad(q)
    BY <2>1, <2>2 DEF SystemLoad, LocalLoad, Loading
  <2>3. CASE Servers(q)
    BY <2>1, <2>3 DEF Servers, Loading
  <2>4. CASE SystemSolve(q) \/ LocalFound(q) \/ LocalNotFound(q) \/ ServersLoaded(q)
    <3>1. UNCHANGED vars \/ (pc[q] = "apply" /\ ReturnFromLoad(q))
      BY <2>4 DEF SystemSolve, LocalFound, LocalNotFound, ServersLoaded, Loaded
    <3> QED
      BY <1>2, <3>1, ReturnIsApply
  <2>5. CASE \/ CreateSolvers(q) \/ SystemGet(q) \/ DockerSolve(q) \/ DockerGet(q)
             \/ CacheGet(q) \/ CacheExpire(q) \/ CacheCopy(q) \/ CachePut(q)
             \/ ServersGet(q) \/ Exchange(q) \/ ExchangeDone(q) \/ SetReply(q) \/ WriteMsg(q)
    BY <2>5 DEF CreateSolvers, SystemGet, DockerSolve, DockerGet, CacheGet, CacheExpire,
                CacheCopy, CachePut, ServersGet, Exchange, ExchangeDone, SetReply, WriteMsg
  <2> QED
    BY <1>4, <2>2, <2>3, <2>4, <2>5 DEF QueryStep
<1>5. ASSUME NEW p \in Procs, StoreStep(p) \/ ClearStep(p) PROVE Next
    BY <1>5 DEF StoreStep, ClearStep, Next, Step, Save
<1>6. ASSUME NEW p \in Procs \ Queries, NEW o \in Requests, Request(p, o) PROVE Next
    BY <1>6 DEF Next
<1>7. ASSUME (\E n \in Names : DockerEvent(n)) \/ Tick PROVE UNCHANGED vars
    BY <1>7 DEF DockerEvent, Tick
<1>8. CASE UNCHANGED allvars
    BY <1>8 DEF allvars
<1> QED
    BY <1>3, <1>4, <1>5, <1>6, <1>7, <1>8 DEF QNext

\* Beginning a load disturbs no invariant of the store.
LEMMA CallsLoadKeeps ==
    ASSUME StoreInv, NEW q \in Queries, CallsLoad(q)
    PROVE  TypeOK' /\ Clearing' /\ BufferedWhileSaving' /\ SavesInTurn'
<1>1. q \in Procs
    BY QueriesAssumption, ReadersAssumption
<1>2. TypeOK /\ Clearing /\ BufferedWhileSaving /\ SavesInTurn
    BY DEF StoreInv
<1>3. TypeOK'
    BY <1>2 DEF CallsLoad, TypeOK, Locations
<1>4. Clearing' /\ BufferedWhileSaving'
    BY <1>2 DEF CallsLoad, TypeOK, Clearing, BufferedWhileSaving
<1>5. \A p \in Procs : Unwritten(p)' <=> Unwritten(p)
    BY <1>1, <1>2 DEF CallsLoad, TypeOK, Unwritten
<1>6. SavesInTurn'
    BY <1>2, <1>5, ElsewhereInTurn DEF CallsLoad
<1> QED
    BY <1>3, <1>4, <1>6

LEMMA NextStore ==
    ASSUME StoreInv, [QNext]_allvars
    PROVE  TypeOK' /\ Clearing' /\ BufferedWhileSaving' /\ SavesInTurn'
<1>1. CASE [Next]_vars
    BY <1>1, NextTypeOK, NextClearing, NextBuffered, NextSavesInTurn DEF StoreInv
<1>2. CASE \E q \in Queries : CallsLoad(q)
    BY <1>2, CallsLoadKeeps
<1> QED
    BY <1>1, <1>2, StoreMoves
-----------------------------------------------------------------------------
(***************************************************************************)
(* The types of the query path.                                            *)
(***************************************************************************)
\* The goroutine of q changes no other handler, and keeps the type of its own.
OnlyHandler(q) == QueryType' /\ \A r \in Queries \ {q} : query'[r] = query[r]

LEMMA ReplaceHandler ==
    ASSUME QueryType, NEW q \in Queries, NEW h \in Handler,
           query' = [query EXCEPT ![q] = h]
    PROVE  OnlyHandler(q)
    BY DEF QueryType, OnlyHandler

LEMMA GotoHandler ==
    ASSUME QueryType, NEW q \in Queries, NEW l \in HandlerLocations, Goto(q, l)
    PROVE  OnlyHandler(q)
    BY DEF QueryType, Handler, Goto, OnlyHandler

LEMMA EndHandler ==
    ASSUME QueryType, NEW q \in Queries, NEW how \in Outcomes, End(q, how)
    PROVE  OnlyHandler(q)
<1> DEFINE h == [query[q] EXCEPT !.at = "end", !.outcome = how]
<1>1. query' = [query EXCEPT ![q] = h]
    BY DEF QueryType, End
<1>2. query[q] \in Handler /\ "end" \in HandlerLocations
    BY DEF QueryType, HandlerLocations
<1>3. h \in Handler
    BY <1>2 DEF Handler
<1> QED
    BY <1>1, <1>3, ReplaceHandler

LEMMA EnterHandler ==
    ASSUME QueryType, NEW q \in Queries, NEW l \in Levels, Enter(q, l)
    PROVE  OnlyHandler(q)
<1> DEFINE h == [query[q] EXCEPT !.at = "get", !.level = l, !.cand = 1]
<1>1. query' = [query EXCEPT ![q] = h]
    BY DEF QueryType, Enter
<1>2. query[q] \in Handler /\ "get" \in HandlerLocations
    BY DEF QueryType, HandlerLocations
<1>3. h \in Handler
    BY <1>2 DEF Handler
<1> QED
    BY <1>1, <1>3, ReplaceHandler

LEMMA AllocateHandler ==
    ASSUME QueryType, NEW q \in Queries, NEW m, NEW l \in HandlerLocations, Allocate(q, m, l)
    PROVE  OnlyHandler(q)
<1> DEFINE h == [query[q] EXCEPT !.at = l, !.ref = q]
<1>1. query' = [query EXCEPT ![q] = h]
    BY DEF QueryType, Allocate
<1>2. query[q] \in Handler
    BY DEF QueryType
<1>3. h \in Handler
    BY <1>2 DEF Handler
<1> QED
    BY <1>1, <1>3, ReplaceHandler

LEMMA HandlerStep ==
    ASSUME QTypes, NEW q \in Queries, Receive(q) \/ QueryStep(q)
    PROVE  OnlyHandler(q)
<1>1. QueryType
    BY DEF QTypes
<1>2. \A l \in {"create", "system", "systemLoaded", "systemGet", "docker", "dockerGet",
                 "get", "expire", "copy", "put", "localLoad", "localLoaded", "servers",
                 "serversLoaded", "serversGet", "exchange", "setReply", "write", "end"} :
         l \in HandlerLocations
    BY DEF HandlerLocations
<1>3. \A how \in {"none", "replied", "unanswered", "panic", "noAddress"} : how \in Outcomes
    BY DEF Outcomes
<1>4. query[q] \in Handler /\ query[q].level \in Levels /\ query[q].server \in 1..(NumServers + 1)
      /\ query[q].cand \in Nat
    BY <1>1 DEF QueryType, Handler
<1>5. Delegate(query[q].level) \in HandlerLocations
    BY <1>2 DEF Delegate
<1>6. CASE Receive(q)
  <2>1. \E l \in HandlerLocations, how \in Outcomes, d \in BOOLEAN :
           query' = [query EXCEPT ![q].at = l, ![q].outcome = how, ![q].disturbed = d]
    BY <1>2, <1>3, <1>6 DEF Receive, QTypes, SharedType
  <2>2. PICK l \in HandlerLocations, how \in Outcomes, d \in BOOLEAN :
           query' = [query EXCEPT ![q].at = l, ![q].outcome = how, ![q].disturbed = d]
    BY <2>1
  <2> DEFINE h == [query[q] EXCEPT !.at = l, !.outcome = how, !.disturbed = d]
  <2>3. query' = [query EXCEPT ![q] = h]
    BY <1>1, <2>2 DEF QueryType
  <2>4. h \in Handler
    BY <1>4 DEF Handler
  <2> QED
    BY <1>1, <2>3, <2>4, ReplaceHandler
<1>7. CASE CreateSolvers(q) \/ SystemLoad(q) \/ SystemSolve(q) \/ SystemGet(q)
    BY <1>1, <1>2, <1>3, <1>7, GotoHandler, EndHandler
       DEF CreateSolvers, SystemLoad, SystemSolve, SystemGet, CallLoad
<1>8. ASSUME NEW l \in HandlerLocations,
             query' = [query EXCEPT ![q].at = l, ![q].cand = @ + 1]
      PROVE  OnlyHandler(q)
  <2> DEFINE h == [query[q] EXCEPT !.at = l, !.cand = query[q].cand + 1]
  <2>1. query' = [query EXCEPT ![q] = h]
    BY <1>1, <1>8 DEF QueryType
  <2>2. query[q].cand + 1 \in Nat
    BY <1>4
  <2>3. h \in Handler
    BY <1>4, <2>2 DEF Handler
  <2> QED
    BY <1>1, <2>1, <2>3, ReplaceHandler
<1>9. CASE DockerSolve(q)
  <2>1. CASE query' = [query EXCEPT ![q].cand = @ + 1]
    BY <1>1, <1>4, <2>1 DEF QueryType, Handler, OnlyHandler
  <2> QED
    BY <1>1, <1>2, <1>9, <2>1, GotoHandler, EnterHandler DEF DockerSolve, Levels
<1>10. CASE DockerGet(q)
    BY <1>1, <1>2, <1>3, <1>10, AllocateHandler, EndHandler DEF DockerGet
<1>11. CASE CacheGet(q)
  <2>1. Cached(q) \in CacheEntry \cup {None}
    BY <1>4, QueriesAssumption DEF QTypes, CacheType, Cached
  <2>2. CASE query' = [query EXCEPT ![q].at = "copy", ![q].held = Cached(q), ![q].pause = 0]
    <3> DEFINE h == [query[q] EXCEPT !.at = "copy", !.held = Cached(q), !.pause = 0]
    <3>1. query' = [query EXCEPT ![q] = h]
      BY <1>1, <2>2 DEF QueryType
    <3>2. h \in Handler
      BY <1>2, <1>4, <2>1 DEF Handler
    <3> QED
      BY <1>1, <3>1, <3>2, ReplaceHandler
  <2> QED
    BY <1>1, <1>2, <1>5, <1>11, <2>2, GotoHandler DEF CacheGet
<1>12. CASE CacheExpire(q)
    BY <1>1, <1>5, <1>12, GotoHandler DEF CacheExpire
<1>13. CASE CacheCopy(q) \/ LocalFound(q)
    BY <1>1, <1>2, <1>13, AllocateHandler DEF CacheCopy, LocalFound
<1>14. CASE CachePut(q) \/ LocalLoad(q) \/ SetReply(q) \/ WriteMsg(q)
    BY <1>1, <1>2, <1>3, <1>14, GotoHandler, EndHandler
       DEF CachePut, LocalLoad, CallLoad, SetReply, WriteMsg
<1>15. CASE LocalNotFound(q)
    BY <1>1, <1>2, <1>8, <1>15, EnterHandler DEF LocalNotFound, NextCandidate, Levels
<1>16. CASE Servers(q) \/ ServersLoaded(q) \/ ServersGet(q)
    BY <1>1, <1>2, <1>3, <1>16, GotoHandler, EndHandler
       DEF Servers, ServersLoaded, ServersGet, CallLoad
<1>17. CASE Exchange(q)
  <2>1. query[q].server + 1 \in 1..(NumServers + 1)
    <3>1. NumServers \in Nat /\ query[q].server <= NumServers
      BY <1>17, QueriesAssumption DEF Exchange
    <3> QED
      BY <1>4, <3>1
  <2>2. ASSUME NEW r \in {None, "nxdomain", "timeout"},
               query' = [query EXCEPT ![q].res = r, ![q].server = @ + 1]
        PROVE  OnlyHandler(q)
    <3> DEFINE h == [query[q] EXCEPT !.res = r, !.server = @ + 1]
    <3>1. query' = [query EXCEPT ![q] = h]
      BY <1>1, <2>2 DEF QueryType
    <3>2. h \in Handler
      BY <1>4, <2>1 DEF Handler
    <3> QED
      BY <1>1, <3>1, <3>2, ReplaceHandler
  <2> QED
    BY <1>1, <1>2, <1>17, <2>2, AllocateHandler DEF Exchange
<1>18. CASE ExchangeDone(q)
    BY <1>1, <1>2, <1>3, <1>18, AllocateHandler, EndHandler DEF ExchangeDone
<1> QED
    BY <1>6, <1>7, <1>9, <1>10, <1>11, <1>12, <1>13, <1>14, <1>15, <1>16, <1>17, <1>18
       DEF QueryStep

\* What the moves of a handler leave in it.
LEMMA GotoFields ==
    ASSUME QueryType, NEW q \in Queries, NEW l, Goto(q, l)
    PROVE  /\ query'[q].at = l
           /\ query'[q].cand = query[q].cand
           /\ query'[q].level = query[q].level
           /\ query'[q].server = query[q].server
           /\ query'[q].res = query[q].res
           /\ query'[q].ref = query[q].ref
           /\ query'[q].outcome = query[q].outcome
           /\ query'[q].disturbed = query[q].disturbed
    BY DEF QueryType, Handler, Goto

LEMMA EndFields ==
    ASSUME QueryType, NEW q \in Queries, NEW how, End(q, how)
    PROVE  /\ query'[q].at = "end"
           /\ query'[q].cand = query[q].cand
           /\ query'[q].level = query[q].level
           /\ query'[q].server = query[q].server
           /\ query'[q].res = query[q].res
           /\ query'[q].outcome = how
           /\ query'[q].disturbed = query[q].disturbed
    BY DEF QueryType, Handler, End

LEMMA EnterFields ==
    ASSUME QueryType, NEW q \in Queries, NEW l, Enter(q, l)
    PROVE  /\ query'[q].at = "get"
           /\ query'[q].cand = 1
           /\ query'[q].level = l
           /\ query'[q].server = query[q].server
           /\ query'[q].res = query[q].res
           /\ query'[q].outcome = query[q].outcome
           /\ query'[q].disturbed = query[q].disturbed
    BY DEF QueryType, Handler, Enter

LEMMA AllocateFields ==
    ASSUME QueryType, NEW q \in Queries, NEW m, NEW l, Allocate(q, m, l)
    PROVE  /\ query'[q].at = l
           /\ query'[q].cand = query[q].cand
           /\ query'[q].level = query[q].level
           /\ query'[q].server = query[q].server
           /\ query'[q].res = query[q].res
           /\ query'[q].ref = q
           /\ query'[q].outcome = query[q].outcome
           /\ query'[q].disturbed = query[q].disturbed
    BY DEF QueryType, Handler, Allocate

\* Where each step of a query leads.
LEMMA Destinations ==
    ASSUME QTypes, NEW q \in Queries
    PROVE  /\ Receive(q) => query'[q].at \in {"create", "end", "system"}
           /\ CreateSolvers(q) => query'[q].at = "system"
           /\ SystemLoad(q) => query'[q].at = "systemLoaded"
           /\ SystemSolve(q) => query'[q].at \in {"systemGet", "docker"}
           /\ SystemGet(q) => query'[q].at \in {"docker", "end"}
           /\ DockerSolve(q) => query'[q].at \in {"dockerGet", "docker", "get"}
           /\ DockerGet(q) => query'[q].at \in {"setReply", "end"}
           /\ CacheGet(q) => query'[q].at \in {"localLoad", "servers", "copy", "expire"}
           /\ CacheExpire(q) => query'[q].at \in {"localLoad", "servers"}
           /\ CacheCopy(q) => query'[q].at = "setReply"
           /\ CachePut(q) => query'[q].at = "setReply"
           /\ LocalLoad(q) => query'[q].at = "localLoaded"
           /\ LocalFound(q) => query'[q].at = "put"
           /\ LocalNotFound(q) => query'[q].at \in {"localLoad", "get"}
           /\ Servers(q) => query'[q].at \in {"serversGet", "serversLoaded"}
           /\ ServersLoaded(q) => query'[q].at \in {"serversGet", "end"}
           /\ ServersGet(q) => query'[q].at \in {"exchange", "end"}
           /\ Exchange(q) => query'[q].at \in {"exchange", "put"}
           /\ ExchangeDone(q) => query'[q].at \in {"setReply", "end"}
           /\ SetReply(q) => query'[q].at = "write"
           /\ WriteMsg(q) => query'[q].at = "end"
<1>1. QueryType /\ query[q] \in Handler /\ solvers \in {"none", "creating", "ready"}
    BY DEF QTypes, QueryType, SharedType
<1>2. Receive(q) => query'[q].at \in {"create", "end", "system"}
    BY <1>1 DEF Receive, QueryType, Handler
<1>3. /\ CreateSolvers(q) => query'[q].at = "system"
      /\ SystemLoad(q) => query'[q].at = "systemLoaded"
      /\ SystemSolve(q) => query'[q].at \in {"systemGet", "docker"}
      /\ SystemGet(q) => query'[q].at \in {"docker", "end"}
    BY <1>1, GotoFields, EndFields DEF CreateSolvers, SystemLoad, CallLoad, SystemSolve, SystemGet
<1>4. ASSUME NEW n, query' = [query EXCEPT ![q].cand = n] PROVE query'[q].at = query[q].at
    BY <1>1, <1>4 DEF QueryType, Handler
<1>5. DockerSolve(q) => query'[q].at \in {"dockerGet", "docker", "get"}
    BY <1>1, <1>4, GotoFields, EnterFields DEF DockerSolve
<1>6. DockerGet(q) => query'[q].at \in {"setReply", "end"}
    BY <1>1, AllocateFields, EndFields DEF DockerGet
<1>7. Delegate(query[q].level) \in {"localLoad", "servers"}
    BY DEF Delegate
<1>8. query' = [query EXCEPT ![q].at = "copy", ![q].held = Cached(q), ![q].pause = 0]
          => query'[q].at = "copy"
    BY <1>1 DEF QueryType, Handler
<1>9. CacheGet(q) => query'[q].at \in {"localLoad", "servers", "copy", "expire"}
  <2>1. Goto(q, Delegate(query[q].level)) => query'[q].at \in {"localLoad", "servers"}
    BY <1>1, <1>7, GotoFields
  <2>2. Goto(q, "expire") => query'[q].at = "expire"
    BY <1>1, GotoFields
  <2> QED
    BY <1>8, <2>1, <2>2 DEF CacheGet
<1>10. CacheExpire(q) => query'[q].at \in {"localLoad", "servers"}
    BY <1>1, <1>7, GotoFields DEF CacheExpire
<1>11. /\ CacheCopy(q) => query'[q].at = "setReply"
       /\ LocalFound(q) => query'[q].at = "put"
    BY <1>1, AllocateFields DEF CacheCopy, LocalFound
<1>12. /\ CachePut(q) => query'[q].at = "setReply"
       /\ LocalLoad(q) => query'[q].at = "localLoaded"
       /\ SetReply(q) => query'[q].at = "write"
       /\ WriteMsg(q) => query'[q].at = "end"
    BY <1>1, GotoFields, EndFields DEF CachePut, LocalLoad, CallLoad, SetReply, WriteMsg
<1>13. ASSUME NEW n, query' = [query EXCEPT ![q].at = "localLoad", ![q].cand = n]
       PROVE  query'[q].at = "localLoad"
    BY <1>1, <1>13 DEF QueryType, Handler
<1>14. LocalNotFound(q) => query'[q].at \in {"localLoad", "get"}
    BY <1>1, <1>13, EnterFields DEF LocalNotFound, NextCandidate
<1>15. /\ Servers(q) => query'[q].at \in {"serversGet", "serversLoaded"}
       /\ ServersLoaded(q) => query'[q].at \in {"serversGet", "end"}
       /\ ServersGet(q) => query'[q].at \in {"exchange", "end"}
    BY <1>1, GotoFields, EndFields DEF Servers, CallLoad, ServersLoaded, ServersGet
<1>16. ASSUME NEW r, NEW n, query' = [query EXCEPT ![q].res = r, ![q].server = n]
       PROVE  query'[q].at = query[q].at
    BY <1>1, <1>16 DEF QueryType, Handler
<1>17. Exchange(q) => query'[q].at \in {"exchange", "put"}
  <2>1. ASSUME NEW answer, Allocate(q, Message("remote", answer, RemoteTtl), "put")
        PROVE  query'[q].at = "put"
    BY <1>1, <2>1, AllocateFields
  <2> QED
    BY <1>16, <2>1 DEF Exchange
<1>18. ExchangeDone(q) => query'[q].at \in {"setReply", "end"}
    BY <1>1, AllocateFields, EndFields DEF ExchangeDone
<1> QED
    BY <1>2, <1>3, <1>5, <1>6, <1>9, <1>10, <1>11, <1>12, <1>14, <1>15, <1>17, <1>18

\* The steps of the others change of a handler only what its history and its
\* pause say.
SameHandler(q) ==
    /\ query'[q].at = query[q].at
    /\ query'[q].cand = query[q].cand
    /\ query'[q].level = query[q].level
    /\ query'[q].server = query[q].server
    /\ query'[q].res = query[q].res
    /\ query'[q].held = query[q].held
    /\ query'[q].ref = query[q].ref
    /\ query'[q].outcome = query[q].outcome

Environment ==
    \/ \E p \in Procs : StoreStep(p) \/ ClearStep(p)
    \/ \E p \in Procs \ Queries, o \in Requests : Request(p, o) /\ UNCHANGED qvars
    \/ \E n \in Names : DockerEvent(n)
    \/ Tick
    \/ UNCHANGED allvars

LEMMA DisturbHandlers ==
    ASSUME QueryType, Disturb
    PROVE  /\ QueryType'
           /\ \A q \in Queries : /\ SameHandler(q)
                                /\ query'[q].pause = query[q].pause
                                /\ query'[q].disturbed = (query[q].disturbed \/ Active(q))
<1>1. ASSUME NEW q \in Queries
      PROVE  /\ query'[q] \in Handler
             /\ SameHandler(q)
             /\ query'[q].pause = query[q].pause
             /\ query'[q].disturbed = (query[q].disturbed \/ Active(q))
  <2> DEFINE d == query[q].disturbed \/ Active(q)
  <2>1. query[q] \in Handler
    BY DEF QueryType
  <2>2. query'[q] = [query[q] EXCEPT !.disturbed = d]
    BY <2>1 DEF Disturb
  <2>3. d \in BOOLEAN
    OBVIOUS
  <2> HIDE DEF d
  <2>4. query'[q].disturbed = d
    BY <2>1, <2>2 DEF Handler
  <2>5. query'[q] \in Handler /\ SameHandler(q) /\ query'[q].pause = query[q].pause
    BY <2>1, <2>2, <2>3 DEF Handler, SameHandler
  <2> QED
    BY <2>4, <2>5 DEF d
<1>2. QueryType'
    BY <1>1 DEF QueryType, Disturb
<1> QED
    BY <1>1, <1>2

LEMMA TickHandlers ==
    ASSUME QueryType, Tick
    PROVE  /\ QueryType'
           /\ \A q \in Queries :
                 /\ SameHandler(q)
                 /\ query'[q].disturbed = query[q].disturbed
                 /\ query[q].at = "copy" => /\ query[q].pause < MaxPause
                                            /\ query'[q].pause = query[q].pause + 1
<1>1. ASSUME NEW q \in Queries
      PROVE  /\ query'[q] \in Handler
             /\ SameHandler(q)
             /\ query'[q].disturbed = query[q].disturbed
             /\ query[q].at = "copy" => query'[q].pause = query[q].pause + 1
  <2>1. query[q] \in Handler /\ query[q].pause + 1 \in Nat
    BY DEF QueryType, Handler
  <2>2. CASE query[q].at = "copy"
    <3>1. query'[q] = [query[q] EXCEPT !.pause = query[q].pause + 1]
      BY <2>1, <2>2 DEF Tick, QueryType
    <3> QED
      BY <2>1, <3>1 DEF Handler, SameHandler
  <2>3. CASE query[q].at # "copy"
    <3>1. query'[q] = query[q]
      BY <2>3 DEF Tick
    <3> QED
      BY <2>1, <2>3, <3>1 DEF SameHandler
  <2> QED
    BY <2>2, <2>3
<1>2. QueryType'
    BY <1>1 DEF QueryType, Tick
<1>3. \A q \in Queries : query[q].at = "copy" => query[q].pause < MaxPause
    BY DEF Tick
<1> QED
    BY <1>1, <1>2, <1>3

LEMMA EnvironmentHandlers ==
    ASSUME QTypes, Environment
    PROVE  QueryType' /\ \A q \in Queries : SameHandler(q)
<1>1. QueryType
    BY DEF QTypes
<1>2. CASE UNCHANGED query
    BY <1>1, <1>2 DEF QueryType, SameHandler
<1>3. ASSUME NEW p \in Procs, StoreStep(p) \/ ClearStep(p) PROVE Disturb \/ UNCHANGED query
    BY <1>3 DEF StoreStep, ClearStep
<1>4. ASSUME NEW n \in Names, DockerEvent(n) PROVE Disturb
    BY <1>4 DEF DockerEvent
<1>5. CASE Disturb
    BY <1>1, <1>5, DisturbHandlers
<1>6. CASE Tick
    BY <1>1, <1>6, TickHandlers
<1> QED
    BY <1>2, <1>3, <1>4, <1>5, <1>6 DEF Environment, qvars, allvars
-----------------------------------------------------------------------------
(***************************************************************************)
(* Messages.                                                               *)
(***************************************************************************)
\* A ttl cut to the width of a uint32 is one, and a small ttl is not changed.
LEMMA TtlWidth ==
    ASSUME NEW t \in Int
    PROVE  /\ t % TtlModulus \in 0..(TtlModulus - 1)
           /\ t \in 0..(TtlModulus - 1) => t % TtlModulus = t
<1>1. TtlModulus \in Nat \ {0}
    BY QueriesAssumption
<1> QED
    BY <1>1

LEMMA MessageType ==
    ASSUME QTypes, NEW source \in {"docker", "local", "remote"}, NEW answer \in Answer,
           NEW ttl \in 0..(TtlModulus - 1)
    PROVE  Message(source, answer, ttl) \in Msg
    BY DEF QTypes, SharedType, Message, Msg

LEMMA MessageIsNotNone ==
    ASSUME NEW m \in Msg
    PROVE  m # None
    BY NoneAssumption

\* GetTtl of a message, which is how long a cache keeps it.
LEMMA GetTtlType ==
    ASSUME NEW m \in Msg
    PROVE  GetTtl(m) \in Nat
<1>1. TtlModulus \in Nat
    BY QueriesAssumption
<1> QED
    BY <1>1 DEF Msg, GetTtl

\* What a query finds in the file has a ttl.
LEMMA EntryHasTtl ==
    ASSUME NEW c \in Configuration, NEW name \in Names, HasEntry(c, name)
    PROVE  EntryOf(c, name) \in Entries \cup {NoType}
<1>1. c.envs \in Seq(Env) /\ GetEnv(c, c.activeEnv) \in DOMAIN c.envs
    BY GetEnvFinds DEF HasEntry, HasActiveEnv, Configuration
<1>2. ActiveEnv(c) \in Env
    BY <1>1 DEF ActiveEnv
<1>3. ActiveEnv(c).hostnames \in Seq(Hostname)
    BY <1>2 DEF Env
<1>4. GetHostname(ActiveEnv(c), name) \in DOMAIN ActiveEnv(c).hostnames
    BY <1>3, GetHostnameFinds DEF HasEntry
<1>5. ActiveEnv(c).hostnames[GetHostname(ActiveEnv(c), name)] \in Hostname
    BY <1>3, <1>4
<1> QED
    BY <1>5 DEF EntryOf, Hostname

\* Two states of one message between which at most its id and its dates changed.
Alike(m, n) ==
    /\ m # None /\ n # None
    /\ m.source = n.source /\ m.answer = n.answer /\ m.ttl = n.ttl

\* The goroutine of q changes only the message it allocated itself, and once it
\* can be in a cache only its id.
Sharable == {"setReply", "write", "end"}
OnlyMessage(q) ==
    /\ heap' \in [Queries -> Msg \cup {None}]
    /\ \A r \in Queries \ {q} : heap'[r] = heap[r]
    /\ query[q].at \in Sharable /\ heap[q] # None =>
          query'[q].at \in Sharable /\ Alike(heap'[q], heap[q])

LEMMA AllocateMessage ==
    ASSUME QTypes, NEW q \in Queries, NEW m \in Msg, NEW l, Allocate(q, m, l),
           query[q].at \notin Sharable
    PROVE  /\ OnlyMessage(q)
           /\ heap'[q] = m
           /\ query'[q].at = l
           /\ query'[q].ref = q
    BY DEF QTypes, QueryType, Handler, HeapType, Allocate, OnlyMessage

\* A handler that copies a cached message finds it.
LEMMA CopyType ==
    ASSUME QInv, NEW q \in Queries, query[q].at = "copy"
    PROVE  /\ query[q].held \in CacheEntry
           /\ query[q].held.msg \in Queries
           /\ query[q].held.creation \in Nat
           /\ heap[query[q].held.msg] \in Msg
           /\ GetTtl(heap[query[q].held.msg]) \in Nat
           /\ now \in Nat
           /\ query[q].pause \in Nat
<1>1. Sound(query[q].held) /\ query[q].held \in CacheEntry \cup {None}
    BY DEF QInv, HeldSound, QTypes, QueryType, Handler
<1>2. query[q].held \in CacheEntry
    BY <1>1 DEF Sound
<1>3. query[q].held.msg \in Queries /\ query[q].held.creation \in Nat
    BY <1>2 DEF CacheEntry
<1>4. heap[query[q].held.msg] \in Msg
    BY <1>1, <1>3 DEF Sound, QInv, QTypes, HeapType
<1>5. now \in Nat /\ query[q].pause \in Nat
    BY DEF QInv, QTypes, SharedType, QueryType, Handler
<1> QED
    BY <1>2, <1>3, <1>4, <1>5, GetTtlType

\* The copy doSolve makes.
CopyOf(q) ==
    LET e == query[q].held
        m == heap[e.msg]
        left == GetTtl(m) - (now - e.creation)
    IN  [m EXCEPT !.ttl = IF HasAnswer(m) THEN left % TtlModulus ELSE @,
                  !.born = e.creation, !.issued = now, !.id = None]

LEMMA CopyIsMessage ==
    ASSUME QInv, NEW q \in Queries, query[q].at = "copy"
    PROVE  /\ CopyOf(q) \in Msg
           /\ CopyOf(q).source = heap[query[q].held.msg].source
           /\ CopyOf(q).answer = heap[query[q].held.msg].answer
           /\ CopyOf(q).born = query[q].held.creation
           /\ CopyOf(q).issued = now
           /\ HasAnswer(heap[query[q].held.msg]) =>
                 CopyOf(q).ttl = (GetTtl(heap[query[q].held.msg])
                                     - (now - query[q].held.creation)) % TtlModulus
<1> DEFINE e == query[q].held
           m == heap[e.msg]
           left == GetTtl(m) - (now - e.creation)
           t == IF HasAnswer(m) THEN left % TtlModulus ELSE m.ttl
<1>1. m \in Msg /\ e.creation \in Nat /\ now \in Nat /\ GetTtl(m) \in Nat
    BY CopyType
<1>2. left \in Int
    BY <1>1
<1>3. t \in 0..(TtlModulus - 1)
  <2>1. left % TtlModulus \in 0..(TtlModulus - 1)
    BY <1>2, TtlWidth
  <2>2. m.ttl \in 0..(TtlModulus - 1)
    BY <1>1 DEF Msg
  <2> QED
    BY <2>1, <2>2
<1>4. CopyOf(q) = [m EXCEPT !.ttl = t, !.born = e.creation, !.issued = now, !.id = None]
    BY DEF CopyOf
<1>5. HasAnswer(m) => t = left % TtlModulus
    OBVIOUS
<1> HIDE DEF t, left, m
<1>6. /\ CopyOf(q) \in Msg
      /\ CopyOf(q).source = m.source
      /\ CopyOf(q).answer = m.answer
      /\ CopyOf(q).born = e.creation
      /\ CopyOf(q).issued = now
      /\ CopyOf(q).ttl = t
    BY <1>1, <1>3, <1>4 DEF Msg
<1> QED
    BY <1>5, <1>6 DEF m, left

\* What the solvers allocate.
LEMMA AnswerType ==
    ASSUME QInv, NEW q \in Queries
    PROVE  /\ Message("docker", "ok", 0) \in Msg
           /\ \A answer \in {"ok", "empty"} : Message("remote", answer, RemoteTtl) \in Msg
           /\ Message("remote", "nxdomain", 0) \in Msg
           /\ HasEntry(conf[q], Candidate(q)) =>
                 LET entry == EntryOf(conf[q], Candidate(q))
                 IN  Message("local", entry, Ttl[entry]) \in Msg
<1>1. QTypes /\ 0 \in 0..(TtlModulus - 1) /\ RemoteTtl \in 0..(TtlModulus - 1)
    BY QueriesAssumption DEF QInv
<1>2. {"ok", "empty", "nxdomain"} \subseteq Answer
    BY DEF Answer
<1>3. ASSUME HasEntry(conf[q], Candidate(q))
      PROVE  LET entry == EntryOf(conf[q], Candidate(q))
             IN  Message("local", entry, Ttl[entry]) \in Msg
  <2>1. q \in Procs /\ conf[q] \in Configuration
    BY QueriesAssumption, ReadersAssumption DEF QInv, StoreInv, TypeOK
  <2>2. Candidate(q) \in Names
    <3>1. Candidates[Question[q]] \in Seq(Names)
      BY QueriesAssumption
    <3>2. query[q].cand \in DOMAIN Candidates[Question[q]]
      BY DEF QInv, CandidateExists
    <3> QED
      BY <3>1, <3>2, ElementOfSeq DEF Candidate
  <2>3. EntryOf(conf[q], Candidate(q)) \in Entries \cup {NoType}
    BY <1>3, <2>1, <2>2, EntryHasTtl
  <2>4. Ttl[EntryOf(conf[q], Candidate(q))] \in 0..(TtlModulus - 1)
    BY <2>3, QueriesAssumption
  <2>5. EntryOf(conf[q], Candidate(q)) \in Answer
    BY <2>3 DEF Answer
  <2> QED
    BY <1>1, <2>4, <2>5, MessageType
<1> QED
    BY <1>1, <1>2, <1>3, MessageType

\* A step of a query that changes no message.
LEMMA SameMessages ==
    ASSUME QTypes, NEW q \in Queries, UNCHANGED heap,
           query[q].at \in Sharable => query'[q].at \in Sharable
    PROVE  OnlyMessage(q)
    BY DEF QTypes, HeapType, OnlyMessage, Alike

LEMMA MessageStep ==
    ASSUME QInv, NEW q \in Queries, Receive(q) \/ QueryStep(q)
    PROVE  OnlyMessage(q)
<1>1. QTypes /\ query[q] \in Handler
    BY DEF QInv, QTypes, QueryType
<1>2. CASE \/ Receive(q) \/ CreateSolvers(q) \/ SystemLoad(q) \/ SystemSolve(q) \/ SystemGet(q)
           \/ DockerSolve(q) \/ CacheGet(q) \/ CacheExpire(q) \/ LocalLoad(q) \/ LocalNotFound(q)
           \/ Servers(q) \/ ServersLoaded(q) \/ ServersGet(q)
  <2>1. UNCHANGED heap /\ query[q].at \notin Sharable
    BY <1>2 DEF Receive, CreateSolvers, SystemLoad, SystemSolve, SystemGet, DockerSolve,
                CacheGet, CacheExpire, LocalLoad, LocalNotFound, Servers, ServersLoaded,
                ServersGet, Sharable
  <2> QED
    BY <1>1, <2>1, SameMessages
<1>3. CASE DockerGet(q)
  <2>1. query[q].at \notin Sharable
    BY <1>3 DEF DockerGet, Sharable
  <2>2. \/ Allocate(q, Message("docker", "ok", 0), "setReply")
        \/ UNCHANGED heap
    BY <1>3 DEF DockerGet
  <2> QED
    BY <1>1, <2>1, <2>2, AnswerType, AllocateMessage, SameMessages
<1>4. CASE CacheCopy(q)
  <2>1. query[q].at = "copy" /\ Allocate(q, CopyOf(q), "setReply")
    BY <1>4 DEF CacheCopy, CopyOf
  <2> QED
    BY <1>1, <2>1, CopyIsMessage, AllocateMessage DEF Sharable
<1>5. CASE CachePut(q)
  <2>1. query[q].at = "put" /\ heap[q] \in Msg /\ now \in Nat
    BY <1>5 DEF CachePut, QInv, OwnMessage, QTypes, HeapType, SharedType
  <2> DEFINE m == [heap[q] EXCEPT !.born = now, !.issued = now]
  <2>2. m \in Msg
    BY <2>1 DEF Msg
  <2>3. heap' = [heap EXCEPT ![q] = m]
    BY <1>1, <1>5, <2>1 DEF CachePut, QTypes, HeapType
  <2> QED
    BY <1>1, <2>1, <2>2, <2>3 DEF QTypes, HeapType, OnlyMessage, Sharable
<1>6. CASE LocalFound(q)
  <2> DEFINE entry == EntryOf(conf[q], Candidate(q))
  <2>1. query[q].at \notin Sharable /\ Allocate(q, Message("local", entry, Ttl[entry]), "put")
    BY <1>6 DEF LocalFound, Sharable
  <2>2. Message("local", entry, Ttl[entry]) \in Msg
    BY <1>6, AnswerType DEF LocalFound
  <2> QED
    BY <1>1, <2>1, <2>2, AllocateMessage
<1>7. CASE Exchange(q)
  <2>1. query[q].at \notin Sharable
    BY <1>7 DEF Exchange, Sharable
  <2>2. CASE UNCHANGED heap
    BY <1>1, <2>1, <2>2, SameMessages
  <2> QED
    BY <1>1, <1>7, <2>1, <2>2, AnswerType, AllocateMessage DEF Exchange
<1>8. CASE ExchangeDone(q)
  <2>1. query[q].at \notin Sharable
    BY <1>8 DEF ExchangeDone, Sharable
  <2>2. \/ Allocate(q, Message("remote", "nxdomain", 0), "setReply")
        \/ UNCHANGED heap
    BY <1>8 DEF ExchangeDone
  <2> QED
    BY <1>1, <2>1, <2>2, AnswerType, AllocateMessage, SameMessages
<1>9. CASE SetReply(q)
  <2>1. query[q].ref = q /\ heap[q] \in Msg
    BY <1>9 DEF SetReply, QInv, OwnMessage, QTypes, HeapType
  <2> DEFINE m == [heap[q] EXCEPT !.id = q]
  <2>2. heap' = [heap EXCEPT ![q] = m]
    BY <1>1, <1>9, <2>1 DEF SetReply, QTypes, HeapType
  <2>3. m \in Msg
    BY <2>1 DEF Msg
  <2>4. m # None /\ heap[q] # None
    BY <2>1, <2>3, MessageIsNotNone
  <2>5. Alike(m, heap[q])
    BY <2>1, <2>4 DEF Msg, Alike
  <2>6. query'[q].at \in Sharable
    BY <1>1, <1>9 DEF SetReply, Goto, QTypes, QueryType, Handler, Sharable
  <2> HIDE DEF m
  <2> QED
    BY <1>1, <2>2, <2>3, <2>5, <2>6 DEF QTypes, HeapType, OnlyMessage
<1>10. CASE WriteMsg(q)
  <2>1. UNCHANGED heap /\ query'[q].at \in Sharable
    BY <1>1, <1>10 DEF WriteMsg, End, QTypes, QueryType, Handler, Sharable
  <2> QED
    BY <1>1, <2>1, SameMessages
<1> QED
    BY <1>2, <1>3, <1>4, <1>5, <1>6, <1>7, <1>8, <1>9, <1>10 DEF QueryStep
LEMMA EnvironmentMessages ==
    ASSUME Environment
    PROVE  UNCHANGED <<heap, sent>>
    BY DEF Environment, StoreStep, ClearStep, DockerEvent, Tick, qvars, allvars

\* A message that is the same but for its id and its dates lives as long.
LEMMA AlikeTtl ==
    ASSUME NEW m, NEW n, Alike(m, n)
    PROVE  /\ GetTtl(m) = GetTtl(n)
           /\ HasAnswer(m) = HasAnswer(n)
           /\ FullTtl(m) = FullTtl(n)
    BY DEF Alike, GetTtl, HasAnswer, FullTtl

\* Time only goes on.
LEMMA TimePasses ==
    ASSUME QTypes, [QNext]_allvars
    PROVE  now' \in Nat /\ now <= now'
<1>1. now \in Nat
    BY DEF QTypes, SharedType
<1>2. CASE Tick
    BY <1>1, <1>2 DEF Tick
<1>3. CASE UNCHANGED now
    BY <1>1, <1>3
<1>4. ASSUME NEW q \in Queries, QueryStep(q) PROVE UNCHANGED now
    BY <1>4 DEF QueryStep, CreateSolvers, SystemLoad, SystemSolve, SystemGet, DockerSolve,
                DockerGet, CacheGet, CacheExpire, CacheCopy, CachePut, LocalLoad, LocalFound,
                LocalNotFound, Servers, ServersLoaded, ServersGet, Exchange, ExchangeDone,
                SetReply, WriteMsg
<1>5. ASSUME NEW q \in Queries, Receive(q) PROVE UNCHANGED now
    BY <1>5 DEF Receive
<1>6. ASSUME Environment, ~Tick PROVE UNCHANGED now
    BY <1>6 DEF Environment, StoreStep, ClearStep, DockerEvent, qvars, allvars
<1> QED
    BY <1>2, <1>3, <1>4, <1>5, <1>6 DEF QNext, Environment

\* QNext is a step of one query or of its environment.
LEMMA QNextSplit ==
    ASSUME [QNext]_allvars
    PROVE  (\E q \in Queries : Receive(q) \/ QueryStep(q)) \/ Environment
    BY DEF QNext, Environment

\* Sound in the next state.
SoundNext(e) ==
    /\ e # None
    /\ heap'[e.msg] # None
    /\ query'[e.msg].at \in Sharable
    /\ e.timeout = GetTtl(heap'[e.msg])
    /\ e.creation <= now'
    /\ HasAnswer(heap'[e.msg]) => heap'[e.msg].ttl = FullTtl(heap'[e.msg])

\* No step makes an entry unsound, whether it still lies in the cache or not.
LEMMA SoundKept ==
    ASSUME QInv, [QNext]_allvars, NEW e \in CacheEntry, Sound(e)
    PROVE  SoundNext(e)
<1>1. e.msg \in Queries /\ e.creation \in Nat
    BY DEF CacheEntry
<1>2. QTypes /\ now \in Nat /\ now' \in Nat /\ now <= now' /\ e.creation <= now
    BY TimePasses DEF QInv, QTypes, SharedType, Sound
<1>3. e.creation <= now'
    BY <1>1, <1>2
<1>4. query'[e.msg].at \in Sharable /\ Alike(heap'[e.msg], heap[e.msg])
  <2>1. query[e.msg].at \in Sharable /\ heap[e.msg] # None
    BY DEF Sound, Sharable
  <2>2. ASSUME NEW q \in Queries, Receive(q) \/ QueryStep(q)
        PROVE  query'[e.msg].at \in Sharable /\ Alike(heap'[e.msg], heap[e.msg])
    <3>1. OnlyHandler(q) /\ OnlyMessage(q)
      BY <1>2, <2>2, HandlerStep, MessageStep
    <3>2. CASE q = e.msg
      BY <2>1, <3>1, <3>2 DEF OnlyMessage
    <3>3. CASE q # e.msg
      BY <1>1, <2>1, <3>1, <3>3 DEF OnlyMessage, OnlyHandler, Alike
    <3> QED
      BY <3>2, <3>3
  <2>3. CASE Environment
    BY <1>1, <1>2, <2>1, <2>3, EnvironmentHandlers, EnvironmentMessages DEF SameHandler, Alike
  <2> QED
    BY <2>2, <2>3, QNextSplit
<1>5. /\ GetTtl(heap'[e.msg]) = GetTtl(heap[e.msg])
      /\ HasAnswer(heap'[e.msg]) = HasAnswer(heap[e.msg])
      /\ FullTtl(heap'[e.msg]) = FullTtl(heap[e.msg])
    BY <1>4, AlikeTtl
<1> QED
    BY <1>3, <1>4, <1>5 DEF Sound, SoundNext, Alike

\* What a cache holds after a step lay in it before, or was put there.
LEMMA CacheStep ==
    ASSUME QInv, [QNext]_allvars
    PROVE  /\ CacheType'
           /\ \A l \in Levels, n \in Names :
                 \/ cache'[l][n] = cache[l][n]
                 \/ cache'[l][n] = None
                 \/ \E q \in Queries :
                       /\ CachePut(q) /\ query[q].level = l
                       /\ cache'[l][n] = [msg |-> q, creation |-> now, timeout |-> GetTtl(heap[q])]
<1>1. CacheType /\ now \in Nat
    BY DEF QInv, QTypes, SharedType
<1>2. CASE UNCHANGED cache
    BY <1>1, <1>2 DEF CacheType
<1>3. ASSUME NEW q \in Queries, CachePut(q)
      PROVE  /\ CacheType'
             /\ \A l \in Levels, n \in Names :
                   \/ cache'[l][n] = cache[l][n]
                   \/ /\ query[q].level = l
                      /\ cache'[l][n] = [msg |-> q, creation |-> now, timeout |-> GetTtl(heap[q])]
  <2> DEFINE e == [msg |-> q, creation |-> now, timeout |-> GetTtl(heap[q])]
  <2>1. heap[q] \in Msg
    BY <1>3 DEF CachePut, QInv, OwnMessage, QTypes, HeapType
  <2>2. e \in CacheEntry
    BY <1>1, <2>1, GetTtlType DEF CacheEntry
  <2>3. query[q].level \in Levels /\ Question[q] \in Names
    BY QueriesAssumption DEF QInv, QTypes, QueryType, Handler
  <2>4. cache' = [cache EXCEPT ![query[q].level][Question[q]] = e]
    BY <1>3 DEF CachePut
  <2> HIDE DEF e
  <2>5. CacheType'
    BY <1>1, <2>2, <2>3, <2>4 DEF CacheType
  <2>6. \A l \in Levels, n \in Names :
           cache'[l][n] = cache[l][n] \/ (query[q].level = l /\ cache'[l][n] = e)
    BY <1>1, <2>3, <2>4 DEF CacheType
  <2> QED
    BY <2>5, <2>6 DEF e
<1>4. ASSUME NEW q \in Queries, CacheExpire(q)
      PROVE  /\ CacheType'
             /\ \A l \in Levels, n \in Names :
                   cache'[l][n] = cache[l][n] \/ cache'[l][n] = None
  <2>1. query[q].level \in Levels /\ Question[q] \in Names
    BY QueriesAssumption DEF QInv, QTypes, QueryType, Handler
  <2>2. cache' = [cache EXCEPT ![query[q].level][Question[q]] = None]
    BY <1>4 DEF CacheExpire
  <2> QED
    BY <1>1, <2>1, <2>2 DEF CacheType
<1>5. ASSUME NEW p \in Procs, ClearStep(p)
      PROVE  /\ CacheType'
             /\ \A l \in Levels, n \in Names :
                   cache'[l][n] = cache[l][n] \/ cache'[l][n] = None
  <2>1. clear[p] \in {0, 1, 2}
    <3>1. clear[p] \in 0..NumCaches /\ clear[p] < NumCaches /\ NumCaches = 3
      BY <1>5, QueriesAssumption DEF ClearStep, ClearCache, QInv, StoreInv, TypeOK, Clearing
    <3> QED
      BY <3>1
  <2>2. \/ UNCHANGED cache
        \/ cache' = [cache EXCEPT !["local"] = [n \in Names |-> None]]
        \/ cache' = [cache EXCEPT !["remote"] = [n \in Names |-> None]]
    BY <1>5, <2>1 DEF ClearStep
  <2> QED
    BY <1>1, <2>2 DEF CacheType, Levels
<1>6. ASSUME NEW q \in Queries, QueryStep(q), ~CachePut(q), ~CacheExpire(q) PROVE UNCHANGED cache
    BY <1>6 DEF QueryStep, CreateSolvers, SystemLoad, SystemSolve, SystemGet, DockerSolve,
                DockerGet, CacheGet, CacheCopy, LocalLoad, LocalFound,
                LocalNotFound, Servers, ServersLoaded, ServersGet, Exchange, ExchangeDone,
                SetReply, WriteMsg
<1>7. ASSUME NEW q \in Queries, Receive(q) PROVE UNCHANGED cache
    BY <1>7 DEF Receive
<1>8. ASSUME Environment, \A p \in Procs : ~ClearStep(p) PROVE UNCHANGED cache
    BY <1>8 DEF Environment, StoreStep, DockerEvent, Tick, qvars, allvars
<1>9. CASE \E q \in Queries : Receive(q) \/ QueryStep(q)
  <2>1. CASE \E q \in Queries : CachePut(q)
    <3>1. PICK q \in Queries : CachePut(q)
      BY <2>1
    <3>2. ASSUME NEW l \in Levels, NEW n \in Names
          PROVE  \/ cache'[l][n] = cache[l][n]
                 \/ /\ query[q].level = l
                    /\ cache'[l][n] = [msg |-> q, creation |-> now, timeout |-> GetTtl(heap[q])]
      BY <1>3, <3>1
    <3>3. CacheType'
      BY <1>3, <3>1
    <3> QED
      BY <3>1, <3>2, <3>3
  <2>2. CASE \E q \in Queries : CacheExpire(q)
    BY <1>4, <2>2
  <2> QED
    BY <1>2, <1>6, <1>7, <1>9, <2>1, <2>2
<1>10. CASE Environment
    BY <1>2, <1>5, <1>8, <1>10
<1> QED
    BY <1>9, <1>10, QNextSplit
LEMMA NextCacheSound ==
    ASSUME QInv, [QNext]_allvars
    PROVE  CacheSound'
<1>1. ASSUME NEW l \in Levels, NEW n \in Names, cache'[l][n] # None
      PROVE  SoundNext(cache'[l][n])
  <2>1. CASE cache'[l][n] = cache[l][n]
    <3>1. Sound(cache[l][n]) /\ cache[l][n] \in CacheEntry
      BY <1>1, <2>1 DEF QInv, CacheSound, QTypes, CacheType
    <3> QED
      BY <2>1, <3>1, SoundKept
  <2>2. ASSUME NEW q \in Queries, CachePut(q),
               cache'[l][n] = [msg |-> q, creation |-> now, timeout |-> GetTtl(heap[q])]
        PROVE  SoundNext(cache'[l][n])
    <3> DEFINE e == cache'[l][n]
    <3>1. heap[q] \in Msg /\ now \in Nat /\ now <= now'
      BY <2>2, TimePasses DEF CachePut, QInv, OwnMessage, QTypes, HeapType, SharedType
    <3>2. heap'[q] = [heap[q] EXCEPT !.born = now, !.issued = now]
      BY <2>2, <3>1 DEF CachePut, QInv, QTypes, HeapType
    <3>3. heap'[q] \in Msg
      BY <3>1, <3>2 DEF Msg
    <3>4. Alike(heap'[q], heap[q])
      BY <3>1, <3>2, <3>3, MessageIsNotNone DEF Msg, Alike
    <3>5. query'[q].at \in Sharable
      BY <2>2 DEF CachePut, Goto, QInv, QTypes, QueryType, Handler, Sharable
    <3>6. HasAnswer(heap[q]) => heap[q].ttl = FullTtl(heap[q])
      BY <2>2 DEF CachePut, QInv, FreshMessage
    <3>7. /\ GetTtl(heap'[q]) = GetTtl(heap[q])
          /\ HasAnswer(heap'[q]) = HasAnswer(heap[q])
          /\ FullTtl(heap'[q]) = FullTtl(heap[q])
      BY <3>4, AlikeTtl
    <3>8. e.msg = q /\ e.creation = now /\ e.timeout = GetTtl(heap[q])
      BY <2>2
    <3> HIDE DEF e
    <3>9. SoundNext(e)
      BY <1>1, <3>1, <3>4, <3>5, <3>6, <3>7, <3>8 DEF SoundNext, Alike, e
    <3> QED
      BY <3>9 DEF e
  <2> QED
    BY <1>1, <2>1, <2>2, CacheStep
<1> QED
    BY <1>1 DEF CacheSound, Sound, SoundNext, Sharable

\* A handler that is at copy was there before, or has just found a valid entry.
LEMMA NextHeldSound ==
    ASSUME QInv, [QNext]_allvars
    PROVE  HeldSound'
<1>1. QTypes /\ now \in Nat /\ now' \in Nat /\ MaxPause \in Nat
    BY TimePasses, QueriesAssumption DEF QInv, QTypes, SharedType
<1> DEFINE Valid(q) ==
        /\ SoundNext(query'[q].held)
        /\ query'[q].pause <= MaxPause
        /\ query'[q].held.timeout > (now' - query'[q].pause) - query'[q].held.creation
<1>2. ASSUME NEW q \in Queries, query[q].at = "copy", query'[q].held = query[q].held,
             \/ UNCHANGED now /\ query'[q].pause = query[q].pause
             \/ /\ now' = now + 1
                /\ query'[q].pause = query[q].pause + 1
                /\ query[q].pause < MaxPause
      PROVE  Valid(q)
  <2>1. /\ query[q].held \in CacheEntry
        /\ query[q].held.creation \in Nat
        /\ query[q].pause \in Nat
    BY <1>2, CopyType
  <2>2. query[q].held.timeout \in Nat
    BY <2>1 DEF CacheEntry
  <2>3. /\ Sound(query[q].held)
        /\ query[q].pause <= MaxPause
        /\ query[q].held.timeout > (now - query[q].pause) - query[q].held.creation
    BY <1>2 DEF QInv, HeldSound
  <2>4. SoundNext(query[q].held)
    BY <2>1, <2>3, SoundKept
  <2> QED
    BY <1>1, <1>2, <2>1, <2>2, <2>3, <2>4
<1>3. ASSUME NEW q \in Queries, CacheGet(q), query'[q].at = "copy"
      PROVE  Valid(q)
  <2> DEFINE e == cache[query[q].level][Question[q]]
  <2>1. query[q].level \in Levels /\ Question[q] \in Names
    BY <1>1, QueriesAssumption DEF QTypes, QueryType, Handler
  <2>2. /\ e # None /\ IsValid(e) /\ UNCHANGED now
        /\ query'[q].held = e /\ query'[q].pause = 0
    BY <1>1, <1>3, <2>1 DEF CacheGet, Goto, Delegate, Cached, QTypes, QueryType, Handler
  <2>3. e \in CacheEntry /\ Sound(e)
    BY <1>1, <2>1, <2>2 DEF QTypes, CacheType, QInv, CacheSound
  <2>4. e.creation \in Nat /\ e.timeout \in Nat
    BY <2>3 DEF CacheEntry
  <2>5. e.timeout > now - e.creation
    BY <2>2 DEF IsValid
  <2>6. SoundNext(e)
    BY <2>3, SoundKept
  <2> HIDE DEF e
  <2> QED
    BY <1>1, <2>2, <2>4, <2>5, <2>6
<1>4. ASSUME NEW r \in Queries, NEW q \in Queries, Receive(r) \/ QueryStep(r), query'[q].at = "copy"
      PROVE  Valid(q)
  <2>1. OnlyHandler(r)
    BY <1>1, <1>4, HandlerStep
  <2>2. UNCHANGED now
    BY <1>4 DEF Receive, QueryStep, CreateSolvers, SystemLoad, SystemSolve, SystemGet, DockerSolve,
                DockerGet, CacheGet, CacheExpire, CacheCopy, CachePut, LocalLoad, LocalFound,
                LocalNotFound, Servers, ServersLoaded, ServersGet, Exchange, ExchangeDone,
                SetReply, WriteMsg
  <2>3. CASE q # r
    <3>1. query'[q] = query[q]
      BY <2>1, <2>3 DEF OnlyHandler
    <3> QED
      BY <1>2, <1>4, <2>2, <3>1
  <2>4. CASE q = r
    <3>1. CacheGet(q)
      BY <1>1, <1>4, <2>4, Destinations DEF QueryStep
    <3> QED
      BY <1>3, <1>4, <3>1
  <2> QED
    BY <2>3, <2>4
<1>5. ASSUME NEW q \in Queries, Environment, query'[q].at = "copy"
      PROVE  Valid(q)
  <2>1. SameHandler(q)
    BY <1>1, <1>5, EnvironmentHandlers
  <2>2. query[q].at = "copy" /\ query'[q].held = query[q].held
    BY <1>5, <2>1 DEF SameHandler
  <2>3. CASE Tick
    BY <1>1, <1>2, <2>2, <2>3, TickHandlers DEF QTypes, Tick
  <2>4. CASE Disturb /\ UNCHANGED now
    BY <1>1, <1>2, <2>2, <2>4, DisturbHandlers DEF QTypes
  <2>5. CASE UNCHANGED <<query, now>>
    BY <1>2, <2>2, <2>5
  <2>6. Tick \/ (Disturb /\ UNCHANGED now) \/ UNCHANGED <<query, now>>
    BY <1>5 DEF Environment, StoreStep, ClearStep, DockerEvent, qvars, allvars
  <2> QED
    BY <2>3, <2>4, <2>5, <2>6
<1>6. \A q \in Queries : query'[q].at = "copy" => Valid(q)
    BY <1>4, <1>5, QNextSplit
<1> QED
    BY <1>6 DEF HeldSound, Sound, SoundNext, Sharable

\* What the goroutine of q has in its hands after a step of its own.
InHands(q) ==
    /\ query'[q].at \in {"put", "setReply", "write"} => query'[q].ref = q /\ heap'[q] # None
    /\ query'[q].at = "write" => heap'[q].id = q
    /\ query'[q].at = "put" /\ HasAnswer(heap'[q]) => heap'[q].ttl = FullTtl(heap'[q])

LEMMA AllocateInHands ==
    ASSUME QTypes, NEW q \in Queries, NEW m \in Msg, NEW l \in {"put", "setReply"},
           Allocate(q, m, l), query[q].at \notin Sharable,
           l = "put" /\ HasAnswer(m) => m.ttl = FullTtl(m)
    PROVE  InHands(q)
<1>1. heap'[q] = m /\ query'[q].at = l /\ query'[q].ref = q
    BY AllocateMessage
<1>2. m # None
    BY MessageIsNotNone
<1> QED
    BY <1>1, <1>2 DEF InHands

\* The messages of the solvers have their full ttl.
LEMMA AnswersAreFresh ==
    ASSUME NEW answer
    PROVE  /\ Message("local", answer, Ttl[answer]).ttl
                 = FullTtl(Message("local", answer, Ttl[answer]))
           /\ Message("remote", answer, RemoteTtl).ttl
                 = FullTtl(Message("remote", answer, RemoteTtl))
           /\ Message("docker", answer, 0).ttl = FullTtl(Message("docker", answer, 0))
           /\ ~HasAnswer(Message("remote", "nxdomain", 0))
           /\ \A source, ttl : /\ Message(source, answer, ttl).born = now
                              /\ Message(source, answer, ttl).issued = now
    BY DEF Message, FullTtl, HasAnswer

LEMMA OwnStep ==
    ASSUME QInv, NEW q \in Queries, Receive(q) \/ QueryStep(q)
    PROVE  InHands(q)
<1>1. QTypes /\ QueryType /\ query[q] \in Handler
    BY DEF QInv, QTypes, QueryType
<1>2. CASE query'[q].at \notin {"put", "setReply", "write"}
    BY <1>2 DEF InHands
<1>3. CASE DockerGet(q) /\ query'[q].at # "end"
  <2>1. Allocate(q, Message("docker", "ok", 0), "setReply")
    BY <1>1, <1>3, EndFields DEF DockerGet
  <2>2. query[q].at \notin Sharable
    BY <1>3 DEF DockerGet, Sharable
  <2> QED
    BY <1>1, <2>1, <2>2, AnswerType, AllocateInHands
<1>4. CASE CacheCopy(q)
  <2>1. query[q].at = "copy" /\ Allocate(q, CopyOf(q), "setReply")
    BY <1>4 DEF CacheCopy, CopyOf
  <2> QED
    BY <1>1, <2>1, CopyIsMessage, AllocateInHands DEF Sharable
<1>5. CASE CachePut(q)
  <2>1. query[q].at = "put" /\ Goto(q, "setReply")
    BY <1>5 DEF CachePut
  <2>2. query'[q].at = "setReply" /\ query'[q].ref = q
    BY <1>1, <2>1, GotoFields DEF QInv, OwnMessage
  <2>3. heap[q] \in Msg /\ now \in Nat
    BY <2>1 DEF QInv, OwnMessage, QTypes, HeapType, SharedType
  <2>4. heap'[q] = [heap[q] EXCEPT !.born = now, !.issued = now]
    BY <1>5, <2>3 DEF CachePut, QInv, QTypes, HeapType
  <2>5. heap'[q] \in Msg
    BY <2>3, <2>4 DEF Msg
  <2>6. heap'[q] # None
    BY <2>5, MessageIsNotNone
  <2> QED
    BY <2>2, <2>6 DEF InHands
<1>6. CASE LocalFound(q)
  <2> DEFINE entry == EntryOf(conf[q], Candidate(q))
             m == Message("local", entry, Ttl[entry])
  <2>1. query[q].at \notin Sharable /\ Allocate(q, m, "put")
    BY <1>6 DEF LocalFound, Sharable
  <2>2. m \in Msg
    BY <1>6, AnswerType DEF LocalFound
  <2>3. m.ttl = FullTtl(m)
    BY AnswersAreFresh
  <2> HIDE DEF m
  <2> QED
    BY <1>1, <2>1, <2>2, <2>3, AllocateInHands
<1>7. CASE Exchange(q) /\ query'[q].at # "exchange"
  <2>1. query[q].at = "exchange"
    BY <1>7 DEF Exchange
  <2>2. \A r, n : query' = [query EXCEPT ![q].res = r, ![q].server = n]
                   => query'[q].at = query[q].at
    BY <1>1 DEF QueryType, Handler
  <2>3. \E answer \in {"ok", "empty"} : Allocate(q, Message("remote", answer, RemoteTtl), "put")
    BY <1>7, <2>1, <2>2 DEF Exchange
  <2>4. PICK answer \in {"ok", "empty"} : Allocate(q, Message("remote", answer, RemoteTtl), "put")
    BY <2>3
  <2> DEFINE m == Message("remote", answer, RemoteTtl)
  <2>5. m \in Msg /\ m.ttl = FullTtl(m)
    BY AnswerType, AnswersAreFresh
  <2>6. Allocate(q, m, "put")
    BY <2>4
  <2> HIDE DEF m
  <2> QED
    BY <1>1, <2>1, <2>5, <2>6, AllocateInHands DEF Sharable
<1>8. CASE ExchangeDone(q) /\ query'[q].at # "end"
  <2>1. Allocate(q, Message("remote", "nxdomain", 0), "setReply")
    BY <1>1, <1>8, EndFields DEF ExchangeDone
  <2>2. query[q].at \notin Sharable
    BY <1>8 DEF ExchangeDone, Sharable
  <2> QED
    BY <1>1, <2>1, <2>2, AnswerType, AllocateInHands
<1>9. CASE SetReply(q)
  <2>1. query[q].at = "setReply" /\ Goto(q, "write")
    BY <1>9 DEF SetReply
  <2>2. query'[q].at = "write" /\ query'[q].ref = q /\ query[q].ref = q
    BY <1>1, <2>1, GotoFields DEF QInv, OwnMessage
  <2>3. heap[q] \in Msg
    BY <2>1 DEF QInv, OwnMessage, QTypes, HeapType
  <2>4. heap'[q] = [heap[q] EXCEPT !.id = q]
    BY <1>9, <2>2, <2>3 DEF SetReply, QInv, QTypes, HeapType
  <2>5. heap'[q] \in Msg /\ heap'[q].id = q
    BY <2>3, <2>4 DEF Msg
  <2>6. heap'[q] # None
    BY <2>5, MessageIsNotNone
  <2> QED
    BY <2>2, <2>5, <2>6 DEF InHands
<1> QED
    BY <1>1, <1>2, <1>3, <1>4, <1>5, <1>6, <1>7, <1>8, <1>9, Destinations DEF QueryStep

LEMMA NextOwnMessage ==
    ASSUME QInv, [QNext]_allvars
    PROVE  OwnMessage' /\ FreshMessage'
<1>1. QTypes /\ OwnMessage /\ FreshMessage
    BY DEF QInv
<1>2. ASSUME NEW q \in Queries, heap'[q] = heap[q],
             query'[q].at = query[q].at, query'[q].ref = query[q].ref
      PROVE  InHands(q)
    BY <1>1, <1>2 DEF OwnMessage, FreshMessage, InHands
<1>3. ASSUME NEW r \in Queries, Receive(r) \/ QueryStep(r), NEW q \in Queries PROVE InHands(q)
  <2>1. OnlyHandler(r) /\ OnlyMessage(r)
    BY <1>1, <1>3, HandlerStep, MessageStep
  <2>2. CASE q = r
    BY <1>3, <2>2, OwnStep
  <2>3. CASE q # r
    BY <1>2, <2>1, <2>3 DEF OnlyHandler, OnlyMessage
  <2> QED
    BY <2>2, <2>3
<1>4. ASSUME Environment, NEW q \in Queries PROVE InHands(q)
    BY <1>1, <1>2, <1>4, EnvironmentHandlers, EnvironmentMessages DEF SameHandler
<1>5. \A q \in Queries : InHands(q)
    BY <1>3, <1>4, QNextSplit
<1> QED
    BY <1>5 DEF InHands, OwnMessage, FreshMessage

LEMMA NextHeapType ==
    ASSUME QInv, [QNext]_allvars
    PROVE  HeapType' /\ ReplyBelongsToRequest'
<1>1. QTypes /\ HeapType /\ ReplyBelongsToRequest
    BY DEF QInv, QTypes
<1>2. heap' \in [Queries -> Msg \cup {None}]
  <2>1. CASE \E q \in Queries : Receive(q) \/ QueryStep(q)
    BY <2>1, MessageStep DEF OnlyMessage
  <2>2. CASE Environment
    BY <1>1, <2>2, EnvironmentMessages DEF HeapType
  <2> QED
    BY <2>1, <2>2, QNextSplit
<1>3. CASE UNCHANGED sent
    BY <1>1, <1>2, <1>3 DEF HeapType, ReplyBelongsToRequest
<1>4. ASSUME NEW q \in Queries, WriteMsg(q) PROVE HeapType' /\ ReplyBelongsToRequest'
  <2>1. query[q].ref = q /\ heap[q] \in Msg /\ heap[q].id = q
    BY <1>1, <1>4 DEF WriteMsg, QInv, OwnMessage, HeapType
  <2>2. sent' = [sent EXCEPT ![q] = heap[q]]
    BY <1>4, <2>1 DEF WriteMsg
  <2> QED
    BY <1>1, <1>2, <2>1, <2>2 DEF HeapType, ReplyBelongsToRequest
<1>5. ASSUME NEW q \in Queries, QueryStep(q), ~WriteMsg(q) PROVE UNCHANGED sent
    BY <1>5 DEF QueryStep, CreateSolvers, SystemLoad, SystemSolve, SystemGet, DockerSolve,
                DockerGet, CacheGet, CacheExpire, CacheCopy, CachePut, LocalLoad, LocalFound,
                LocalNotFound, Servers, ServersLoaded, ServersGet, Exchange, ExchangeDone,
                SetReply
<1>6. ASSUME NEW q \in Queries, Receive(q) PROVE UNCHANGED sent
    BY <1>6 DEF Receive
<1> QED
    BY <1>3, <1>4, <1>5, <1>6, EnvironmentMessages, QNextSplit
-----------------------------------------------------------------------------
(***************************************************************************)
(* The rest of the invariant.                                              *)
(***************************************************************************)
LEMMA NextSharedType ==
    ASSUME QInv, [QNext]_allvars
    PROVE  SharedType'
<1>1. QTypes /\ SharedType /\ now' \in Nat
    BY TimePasses DEF QInv, QTypes
<1>2. CASE UNCHANGED <<solvers, main, docker, events>>
    BY <1>1, <1>2 DEF SharedType
<1>3. ASSUME NEW q \in Queries, Receive(q) \/ CreateSolvers(q) PROVE SharedType'
    BY <1>1, <1>3 DEF Receive, CreateSolvers, SharedType
<1>4. ASSUME NEW q \in Queries, SystemSolve(q) \/ ServersLoaded(q) PROVE SharedType'
    BY <1>1, <1>4 DEF SystemSolve, ServersLoaded, SharedType
<1>5. ASSUME NEW q \in Queries, QueryStep(q),
             ~(CreateSolvers(q) \/ SystemSolve(q) \/ ServersLoaded(q))
      PROVE  UNCHANGED <<solvers, main, docker, events>>
    BY <1>5 DEF QueryStep, SystemLoad, SystemGet, DockerSolve,
                DockerGet, CacheGet, CacheExpire, CacheCopy, CachePut, LocalLoad, LocalFound,
                LocalNotFound, Servers, ServersGet, Exchange, ExchangeDone, SetReply, WriteMsg
<1>6. ASSUME NEW p \in Procs, ClearStep(p) PROVE SharedType'
    BY <1>1, <1>6 DEF ClearStep, SharedType
<1>7. ASSUME NEW n \in Names, DockerEvent(n) PROVE SharedType'
  <2>1. \E a \in {"ip", "noIp", None} : docker' = [docker EXCEPT ![n] = a]
    BY <1>7 DEF DockerEvent
  <2>2. docker' \in [Names -> {"ip", "noIp", None}]
    BY <1>1, <2>1 DEF SharedType
  <2> QED
    BY <1>1, <1>7, <2>2 DEF DockerEvent, SharedType
<1>8. ASSUME NEW p \in Procs, StoreStep(p) PROVE UNCHANGED <<solvers, main, docker, events>>
    BY <1>8 DEF StoreStep
<1>9. CASE Tick \/ UNCHANGED qvars \/ UNCHANGED allvars
    BY <1>2, <1>9 DEF Tick, qvars, allvars
<1> QED
    BY <1>2, <1>3, <1>4, <1>5, <1>6, <1>7, <1>8, <1>9, QNextSplit DEF Environment

\* Which candidates there are.
LEMMA CandidateDomain ==
    ASSUME NEW q \in Queries
    PROVE  /\ DOMAIN Candidates[Question[q]] = 1..Len(Candidates[Question[q]])
           /\ Len(Candidates[Question[q]]) \in Nat \ {0}
<1>1. Candidates[Question[q]] \in Seq(Names) /\ Candidates[Question[q]] # << >>
    BY QueriesAssumption
<1> QED
    BY <1>1, LenProperties, EmptySeq

LEMMA NextCandidateExists ==
    ASSUME QInv, [QNext]_allvars
    PROVE  CandidateExists'
<1>1. QTypes /\ QueryType /\ CandidateExists
    BY DEF QInv, QTypes
<1>2. ASSUME NEW q \in Queries, Receive(q) \/ QueryStep(q)
      PROVE  query'[q].cand \in DOMAIN Candidates[Question[q]]
  <2> DEFINE D == DOMAIN Candidates[Question[q]]
             n == Len(Candidates[Question[q]])
  <2>1. D = 1..n /\ n \in Nat \ {0}
    BY CandidateDomain
  <2>2. query[q].cand \in D
    BY <1>1 DEF CandidateExists
  <2>3. CASE query'[q].cand = query[q].cand
    BY <2>2, <2>3
  <2>4. CASE query'[q].cand = 1
    BY <2>1, <2>4
  <2>5. CASE query'[q].cand = query[q].cand + 1 /\ ~IsLastCandidate(q)
    <3>1. query[q].cand # n
      BY <2>5 DEF IsLastCandidate
    <3> HIDE DEF n, D
    <3> QED
      BY <2>1, <2>2, <2>5, <3>1 DEF D
  <2>6. ASSUME NEW l, Goto(q, l) \/ End(q, l) PROVE query'[q].cand = query[q].cand
    BY <1>1, <2>6, GotoFields, EndFields
  <2>7. ASSUME NEW m, NEW l, Allocate(q, m, l) PROVE query'[q].cand = query[q].cand
    BY <1>1, <2>7, AllocateFields
  <2>8. ASSUME NEW l, Enter(q, l) PROVE query'[q].cand = 1
    BY <1>1, <2>8, EnterFields
  <2>9. CASE Receive(q)
    <3>1. query'[q].cand = query[q].cand
      BY <1>1, <2>9 DEF Receive, QueryType, Handler
    <3> QED
      BY <2>3, <3>1
  <2>10. CASE \/ CreateSolvers(q) \/ SystemLoad(q) \/ SystemSolve(q) \/ SystemGet(q)
             \/ CacheExpire(q) \/ CachePut(q) \/ LocalLoad(q) \/ Servers(q) \/ ServersLoaded(q)
             \/ ServersGet(q) \/ SetReply(q) \/ WriteMsg(q)
    <3>1. \E l : Goto(q, l) \/ End(q, l)
      BY <2>10 DEF CreateSolvers, SystemLoad, SystemSolve, SystemGet, CacheExpire, CachePut,
                   LocalLoad, Servers, ServersLoaded, ServersGet, SetReply, WriteMsg, CallLoad
    <3> QED
      BY <2>3, <2>6, <3>1
  <2>11. CASE DockerGet(q) \/ ExchangeDone(q) \/ CacheCopy(q) \/ LocalFound(q)
    <3>1. (\E l : End(q, l)) \/ \E m, l : Allocate(q, m, l)
      BY <2>11 DEF DockerGet, ExchangeDone, CacheCopy, LocalFound
    <3> QED
      BY <2>3, <2>6, <2>7, <3>1
  <2>12. CASE DockerSolve(q)
    <3>1. query' = [query EXCEPT ![q].cand = @ + 1] => query'[q].cand = query[q].cand + 1
      BY <1>1 DEF QueryType, Handler
    <3> QED
      BY <2>3, <2>4, <2>5, <2>6, <2>8, <2>12, <3>1 DEF DockerSolve
  <2>13. CASE LocalNotFound(q)
    <3>1. query' = [query EXCEPT ![q].at = "localLoad", ![q].cand = @ + 1]
             => query'[q].cand = query[q].cand + 1
      BY <1>1 DEF QueryType, Handler
    <3> QED
      BY <2>4, <2>5, <2>8, <2>13, <3>1 DEF LocalNotFound, NextCandidate
  <2>14. CASE CacheGet(q)
    <3>1. query' = [query EXCEPT ![q].at = "copy", ![q].held = Cached(q), ![q].pause = 0]
             => query'[q].cand = query[q].cand
      BY <1>1 DEF QueryType, Handler
    <3> QED
      BY <2>3, <2>6, <2>14, <3>1 DEF CacheGet
  <2>15. CASE Exchange(q)
    <3>1. \A r : query' = [query EXCEPT ![q].res = r, ![q].server = @ + 1]
                   => query'[q].cand = query[q].cand
      BY <1>1 DEF QueryType, Handler
    <3>2. (\E m, l : Allocate(q, m, l))
          \/ \E r : query' = [query EXCEPT ![q].res = r, ![q].server = @ + 1]
      BY <2>15 DEF Exchange
    <3> QED
      BY <2>3, <2>7, <3>1, <3>2
  <2> QED
    BY <1>2, <2>9, <2>10, <2>11, <2>12, <2>13, <2>14, <2>15 DEF QueryStep
<1>3. ASSUME NEW r \in Queries, Receive(r) \/ QueryStep(r), NEW q \in Queries
      PROVE  query'[q].cand \in DOMAIN Candidates[Question[q]]
    BY <1>1, <1>2, <1>3, HandlerStep DEF OnlyHandler, CandidateExists
<1>4. ASSUME Environment, NEW q \in Queries
      PROVE  query'[q].cand \in DOMAIN Candidates[Question[q]]
    BY <1>1, <1>4, EnvironmentHandlers DEF SameHandler, CandidateExists
<1> QED
    BY <1>3, <1>4, QNextSplit DEF CandidateExists

\* A goroutine in the store changes the locals of no other.
LEMMA FinishFrame ==
    ASSUME TypeOK, NEW p \in Procs, NEW r, Finish(p, r)
    PROVE  /\ \A q \in Procs \ {p} : pc'[q] = pc[q] /\ op'[q] = op[q] /\ conf'[q] = conf[q]
           /\ pc'[p] = "idle"
           /\ op'[p] = NoOp
    BY DEF TypeOK, Finish

LEMMA StoreStepFrame ==
    ASSUME TypeOK, NEW p \in Procs, StoreStep(p) \/ ClearStep(p)
    PROVE  /\ \A q \in Procs \ {p} : pc'[q] = pc[q] /\ op'[q] = op[q] /\ conf'[q] = conf[q]
           /\ pc[p] # "idle"
           /\ p \in Queries => op'[p] \in {op[p], NoOp}
<1>1. CASE \E r : Finish(p, r)
  <2>1. pc[p] # "idle"
    BY DEF StoreStep, ClearStep, LoadConfiguration, LoadMissing, LoadWithoutDirectory,
           LoadUnreadable, LoadDocument, Apply, Open, Encode, Close, ClearCache
  <2> QED
    BY <1>1, <2>1, FinishFrame
<1>2. CASE LoadMissing(p) \/ LoadWithoutDirectory(p) \/ LoadDocument(p)
    BY <1>2 DEF LoadMissing, LoadWithoutDirectory, LoadDocument, TypeOK
<1>3. CASE p \notin Queries /\ Apply(p)
  <2>1. CASE /\ conf' = [conf EXCEPT ![p] = Perform(op[p], conf[p], clock)]
             /\ pc' = [pc EXCEPT ![p] = "open"]
             /\ UNCHANGED <<op, clear, reply>>
    BY <1>3, <2>1 DEF Apply, TypeOK
  <2> QED
    BY <1>1, <1>3, <2>1 DEF Apply
<1>4. CASE Open(p) \/ Encode(p) \/ ClearCache(p)
    BY <1>4 DEF Open, Encode, ClearCache, TypeOK
<1>5. CASE Close(p)
  <2>1. CASE /\ pc' = [pc EXCEPT ![p] = "apply"]
             /\ conf' = [conf EXCEPT ![p] = WithSomeEnv(@)]
             /\ UNCHANGED <<op, ret, clear, reply>>
    BY <1>5, <2>1 DEF Close, TypeOK
  <2> QED
    BY <1>1, <1>5, <2>1 DEF Close, Return
<1> QED
    BY <1>1, <1>2, <1>3, <1>4, <1>5
       DEF StoreStep, ClearStep, LoadConfiguration, LoadUnreadable

\* A query outside a load has no step in the store.
LEMMA QueryStoreStep ==
    ASSUME QInv, NEW q \in Queries, Receive(q) \/ QueryStep(q)
    PROVE  \/ UNCHANGED vars /\ (Loading(q) => pc[q] = "idle" \/ query'[q].at = query[q].at)
           \/ CallsLoad(q) /\ query'[q].at \in {"systemLoaded", "localLoaded", "serversLoaded"}
           \/ Finish(q, "ok") /\ Loading(q) /\ UNCHANGED file
<1>1. QTypes
    BY DEF QInv
<1>2. CASE SystemLoad(q) \/ LocalLoad(q) \/ (Servers(q) /\ query'[q].at # "serversGet")
  <2>1. query'[q].at \in {"systemLoaded", "localLoaded", "serversLoaded"}
    BY <1>1, <1>2, Destinations
  <2>2. \E l : CallLoad(q, l)
    <3>1. Servers(q) /\ query'[q].at # "serversGet" => CallLoad(q, "serversLoaded")
      BY <1>1, GotoFields DEF Servers, QTypes
    <3> QED
      BY <1>2, <3>1 DEF SystemLoad, LocalLoad
  <2>3. ~Loading(q)
    BY <1>2 DEF SystemLoad, LocalLoad, Servers, Loading
  <2> QED
    BY <2>1, <2>2, <2>3 DEF CallLoad, CallsLoad, QInv, StoreInv, LoadsOnly
<1>3. CASE SystemSolve(q) \/ LocalFound(q) \/ LocalNotFound(q) \/ ServersLoaded(q)
    BY <1>3 DEF SystemSolve, LocalFound, LocalNotFound, ServersLoaded, LoadFailed,
                ReturnFromLoad, Loading
<1>4. CASE Servers(q) /\ query'[q].at = "serversGet"
    BY <1>1, <1>4, GotoFields DEF Servers, CallLoad, Loading, QTypes
<1>5. CASE \/ Receive(q) \/ CreateSolvers(q) \/ SystemGet(q) \/ DockerSolve(q) \/ DockerGet(q)
           \/ CacheGet(q) \/ CacheExpire(q) \/ CacheCopy(q) \/ CachePut(q)
           \/ ServersGet(q) \/ Exchange(q) \/ ExchangeDone(q) \/ SetReply(q) \/ WriteMsg(q)
    BY <1>5 DEF Receive, CreateSolvers, SystemGet, DockerSolve, DockerGet, CacheGet, CacheExpire,
                CacheCopy, CachePut, ServersGet, Exchange, ExchangeDone, SetReply, WriteMsg, Loading
<1> QED
    BY <1>2, <1>3, <1>4, <1>5 DEF QueryStep

LEMMA NextLoadsOnly ==
    ASSUME QInv, [QNext]_allvars
    PROVE  LoadsOnly'
<1>1. QTypes /\ TypeOK /\ LoadsOnly /\ Queries \subseteq Procs
    BY QueriesAssumption, ReadersAssumption DEF QInv, StoreInv
<1> DEFINE Good(q) ==
        op'[q] = NoOp /\ (query'[q].at \notin {"systemLoaded", "localLoaded", "serversLoaded"}
                              => pc'[q] = "idle")
<1>2. ASSUME NEW q \in Queries, pc'[q] = pc[q], op'[q] = op[q], query'[q].at = query[q].at
      PROVE  Good(q)
    BY <1>1, <1>2 DEF LoadsOnly, Loading
<1>3. ASSUME NEW r \in Queries, Receive(r) \/ QueryStep(r), NEW q \in Queries PROVE Good(q)
  <2>1. OnlyHandler(r)
    BY <1>1, <1>3, HandlerStep
  <2>2. CASE q # r
    <3>1. pc'[q] = pc[q] /\ op'[q] = op[q]
      BY <1>1, <1>3, <2>2, QueryStoreStep, FinishFrame DEF vars, CallsLoad, TypeOK
    <3> QED
      BY <1>2, <2>1, <2>2, <3>1 DEF OnlyHandler
  <2>3. CASE q = r
    <3>1. CASE UNCHANGED vars /\ (Loading(q) => pc[q] = "idle" \/ query'[q].at = query[q].at)
      BY <1>1, <3>1 DEF vars, LoadsOnly, Loading
    <3>2. CASE CallsLoad(q) /\ query'[q].at \in {"systemLoaded", "localLoaded", "serversLoaded"}
      BY <1>1, <3>2 DEF CallsLoad, LoadsOnly
    <3>3. CASE Finish(q, "ok")
      BY <1>1, <3>3, FinishFrame
    <3> QED
      BY <1>3, <2>3, <3>1, <3>2, <3>3, QueryStoreStep
  <2> QED
    BY <2>2, <2>3
<1>4. ASSUME Environment, NEW q \in Queries PROVE Good(q)
  <2>1. query'[q].at = query[q].at
    BY <1>1, <1>4, EnvironmentHandlers DEF SameHandler
  <2>2. ASSUME NEW p \in Procs, StoreStep(p) \/ ClearStep(p) PROVE Good(q)
    <3>1. CASE q # p
      BY <1>1, <1>2, <2>1, <2>2, <3>1, StoreStepFrame
    <3>2. CASE q = p
      <4>1. pc[q] # "idle" /\ op'[q] \in {op[q], NoOp}
        BY <1>1, <2>2, <3>2, StoreStepFrame
      <4> QED
        BY <1>1, <2>1, <4>1 DEF LoadsOnly, Loading
    <3> QED
      BY <3>1, <3>2
  <2>3. ASSUME NEW p \in Procs \ Queries, NEW o \in Requests, Request(p, o) PROVE Good(q)
    BY <1>1, <1>2, <2>1, <2>3 DEF Request, TypeOK
  <2>4. CASE UNCHANGED vars
    BY <1>2, <2>1, <2>4 DEF vars
  <2> QED
    BY <1>4, <2>2, <2>3, <2>4 DEF Environment, DockerEvent, Tick, allvars
<1>5. \A q \in Queries : Good(q)
    BY <1>3, <1>4, QNextSplit
<1> QED
    BY <1>5 DEF LoadsOnly, Loading

LEMMA NextQInv == QInv /\ [QNext]_allvars => QInv'
<1> SUFFICES ASSUME QInv, [QNext]_allvars PROVE QInv'
    OBVIOUS
<1>1. QTypes'
  <2>1. QTypes
    BY DEF QInv
  <2>2. QueryType'
    BY <2>1, HandlerStep, EnvironmentHandlers, QNextSplit DEF OnlyHandler
  <2> QED
    BY <2>2, NextHeapType, CacheStep, NextSharedType DEF QTypes
<1>2. StoreInv'
    BY NextStore, NextLoadsOnly DEF QInv, StoreInv
<1> QED
    BY <1>1, <1>2, NextCandidateExists, NextOwnMessage, NextCacheSound, NextHeldSound,
       NextHeapType DEF QInv

LEMMA QInitQInv == QInit => QInv
<1> SUFFICES ASSUME QInit PROVE QInv
    OBVIOUS
<1>1. Init /\ Queries \subseteq Procs
    BY QueriesAssumption, ReadersAssumption DEF QInit
<1>2. StoreInv
  <2>1. TypeOK /\ Clearing
    BY <1>1, InitTypeOK DEF Init, Clearing
  <2>2. BufferedWhileSaving /\ SavesInTurn
    <3>1. file \notin {Empty, Corrupt}
      BY <1>1, InitialFilesAssumption, FileStateAssumption DEF Init
    <3>2. \A p \in Procs : ~buffered[p] /\ ~Unwritten(p)
      BY <1>1 DEF Init, Unwritten
    <3> QED
      BY <3>1, <3>2 DEF BufferedWhileSaving, SavesInTurn
  <2>3. LoadsOnly
    BY <1>1 DEF Init, LoadsOnly
  <2> QED
    BY <2>1, <2>2, <2>3 DEF StoreInv
<1>3. NewHandler \in Handler
  <2>1. NumServers \in Nat \ {0}
    BY QueriesAssumption
  <2>2. 1 \in 1..(NumServers + 1)
    BY <2>1
  <2> QED
    BY <2>2 DEF NewHandler, Handler, HandlerLocations, Levels, Outcomes
<1>4. \A q \in Queries : query[q] = NewHandler /\ heap[q] = None /\ sent[q] = None
    BY DEF QInit
<1>5. \A q \in Queries : query[q].at = "new" /\ query[q].cand = 1
    BY <1>4 DEF NewHandler
<1>6. \A l \in Levels, n \in Names : cache[l][n] = None
    BY DEF QInit, Levels
<1>7. QTypes
  <2>1. QueryType
    BY <1>3 DEF QInit, QueryType
  <2>2. HeapType /\ CacheType
    BY DEF QInit, HeapType, CacheType, Levels
  <2>3. SharedType
    BY DEF QInit, SharedType
  <2> QED
    BY <2>1, <2>2, <2>3 DEF QTypes
<1>8. CandidateExists
  <2>1. ASSUME NEW q \in Queries PROVE 1 \in DOMAIN Candidates[Question[q]]
    BY CandidateDomain
  <2> QED
    BY <1>5, <2>1 DEF CandidateExists
<1>9. OwnMessage /\ FreshMessage /\ HeldSound
    BY <1>5 DEF OwnMessage, FreshMessage, HeldSound
<1>10. CacheSound /\ ReplyBelongsToRequest
    BY <1>4, <1>6 DEF CacheSound, ReplyBelongsToRequest
<1> QED
    BY <1>2, <1>7, <1>8, <1>9, <1>10 DEF QInv

\* The strengthened invariant of the query path.
THEOREM QueriesInvariant == QSpec => []QInv
<1>1. QInit => QInv
    BY QInitQInv
<1>2. QInv /\ [QNext]_allvars => QInv'
    BY NextQInv
<1> QED
    BY <1>1, <1>2, PTL DEF QSpec

\* The handlers stay within their candidates and servers, and every ttl within
\* its width, for any number of queries, saves and container events.
THEOREM QueryTypeCorrect == QSpec => []QTypeOK
<1>1. QInv => QTypeOK
  <2> SUFFICES ASSUME QInv PROVE QTypeOK
    OBVIOUS
  <2>1. ASSUME NEW q \in Queries
        PROVE  /\ query[q].at \in HandlerLocations
               /\ query[q].cand \in DOMAIN Candidates[Question[q]]
               /\ query[q].server \in 1..(NumServers + 1)
               /\ query[q].outcome \in {"none", "replied", "unanswered", "panic", "noAddress"}
               /\ query[q].at \in {"put", "setReply", "write"} => query[q].ref \in Queries
               /\ heap[q] # None => heap[q].ttl \in 0..(TtlModulus - 1)
    <3>1. query[q] \in Handler /\ heap[q] \in Msg \cup {None}
      BY DEF QInv, QTypes, QueryType, HeapType
    <3>2. query[q].cand \in DOMAIN Candidates[Question[q]]
      BY DEF QInv, CandidateExists
    <3>3. query[q].at \in {"put", "setReply", "write"} => query[q].ref \in Queries
      BY DEF QInv, OwnMessage
    <3>4. heap[q] # None => heap[q].ttl \in 0..(TtlModulus - 1)
      BY <3>1 DEF Msg
    <3> QED
      BY <3>1, <3>2, <3>3, <3>4 DEF Handler, Outcomes
  <2> QED
    BY <2>1 DEF QTypeOK, QInv, QTypes, SharedType
<1> QED
    BY <1>1, QueriesInvariant, PTL

\* No client gets the id of another one's request, although the message that
\* handleQuestion stamps and sends is the object CacheDnsSolver keeps: doSolve
\* copies it before it hands it out.
THEOREM RepliesBelongToRequests == QSpec => []ReplyBelongsToRequest
<1>1. QInv => ReplyBelongsToRequest
    BY DEF QInv
<1> QED
    BY <1>1, QueriesInvariant, PTL

\* A message in a cache keeps the ttl its lifetime was computed from.
THEOREM CachedStaysIntact == QSpec => []CachedMessageIntact
<1>1. QInv => CachedMessageIntact
    BY DEF QInv, CacheSound, Sound, CachedMessageIntact, Levels
<1> QED
    BY <1>1, QueriesInvariant, PTL
-----------------------------------------------------------------------------
(***************************************************************************)
(* Ttls, when a handler is not stopped for more than a second between      *)
(* finding a cache entry and copying it.                                   *)
(***************************************************************************)
LEMMA CopyIsDated ==
    ASSUME QInv, MaxPause <= 1, NEW q \in Queries, query[q].at = "copy"
    PROVE  Dated(CopyOf(q))
<1> DEFINE e == query[q].held
           m == heap[e.msg]
           left == GetTtl(m) - (now - e.creation)
<1>1. /\ e.creation \in Nat /\ m \in Msg /\ GetTtl(m) \in Nat
      /\ now \in Nat /\ query[q].pause \in Nat /\ MaxPause \in Nat
    BY CopyType, QueriesAssumption
<1>2. /\ e.timeout = GetTtl(m)
      /\ e.creation <= now
      /\ HasAnswer(m) => m.ttl = FullTtl(m)
      /\ query[q].pause <= MaxPause
      /\ e.timeout > (now - query[q].pause) - e.creation
    BY DEF QInv, HeldSound, Sound
<1>3. /\ CopyOf(q).source = m.source
      /\ CopyOf(q).answer = m.answer
      /\ CopyOf(q).born = e.creation
      /\ CopyOf(q).issued = now
      /\ HasAnswer(m) => CopyOf(q).ttl = left % TtlModulus
    BY CopyIsMessage
<1>4. HasAnswer(CopyOf(q)) = HasAnswer(m) /\ FullTtl(CopyOf(q)) = FullTtl(m)
    BY <1>3 DEF HasAnswer, FullTtl
<1>5. SUFFICES ASSUME HasAnswer(m)
               PROVE  CopyOf(q).issued + CopyOf(q).ttl = CopyOf(q).born + FullTtl(m)
    BY <1>4 DEF Dated
<1>6. GetTtl(m) = m.ttl /\ m.ttl = FullTtl(m) /\ m.ttl \in 0..(TtlModulus - 1)
    BY <1>1, <1>2, <1>5 DEF GetTtl, Msg
<1>7. TtlModulus \in Nat
    BY QueriesAssumption
<1> HIDE DEF e, m
<1>8. left \in 0..(TtlModulus - 1)
    BY <1>1, <1>2, <1>6, <1>7
<1>9. left % TtlModulus = left
    BY <1>8, TtlWidth
<1>10. CopyOf(q).ttl = left
    BY <1>3, <1>5, <1>9
<1> QED
    BY <1>1, <1>3, <1>6, <1>7, <1>10

LEMMA NextMessageDated ==
    ASSUME QInv, MaxPause <= 1, MessageDated, [QNext]_allvars
    PROVE  MessageDated'
<1>1. QTypes /\ QueryType /\ now \in Nat
    BY DEF QInv, QTypes, SharedType
<1>2. ASSUME NEW q \in Queries, heap'[q] = heap[q], query'[q].at = query[q].at,
             query'[q].at \in {"setReply", "write"}
      PROVE  Dated(heap'[q])
    BY <1>2 DEF MessageDated
<1>3. ASSUME NEW q \in Queries, NEW m \in Msg, NEW l, Allocate(q, m, l), Dated(m),
             query[q].at \notin Sharable
      PROVE  Dated(heap'[q])
    BY <1>1, <1>3, AllocateMessage
<1>4. ASSUME NEW q \in Queries, Receive(q) \/ QueryStep(q), query'[q].at \in {"setReply", "write"}
      PROVE  Dated(heap'[q])
  <2>1. CASE DockerGet(q)
    <3> DEFINE m == Message("docker", "ok", 0)
    <3>1. Allocate(q, m, "setReply") /\ query[q].at \notin Sharable
      BY <1>1, <1>4, <2>1, EndFields DEF DockerGet, Sharable
    <3>2. m \in Msg
      BY AnswerType
    <3>3. Dated(m)
      BY <1>1 DEF Message, Dated, FullTtl
    <3> HIDE DEF m
    <3> QED
      BY <1>3, <3>1, <3>2, <3>3
  <2>2. CASE CacheCopy(q)
    <3>1. query[q].at = "copy" /\ Allocate(q, CopyOf(q), "setReply")
      BY <2>2 DEF CacheCopy, CopyOf
    <3> QED
      BY <1>3, <3>1, CopyIsMessage, CopyIsDated DEF Sharable
  <2>3. CASE CachePut(q)
    <3>1. heap[q] \in Msg /\ (HasAnswer(heap[q]) => heap[q].ttl = FullTtl(heap[q]))
      BY <2>3 DEF CachePut, QInv, OwnMessage, FreshMessage, QTypes, HeapType
    <3>2. heap'[q] = [heap[q] EXCEPT !.born = now, !.issued = now]
      BY <1>1, <2>3, <3>1 DEF CachePut, QTypes, HeapType
    <3>3. /\ heap'[q].source = heap[q].source
          /\ heap'[q].answer = heap[q].answer
          /\ heap'[q].ttl = heap[q].ttl
          /\ heap'[q].born = now
          /\ heap'[q].issued = now
      BY <3>1, <3>2 DEF Msg
    <3>4. HasAnswer(heap'[q]) = HasAnswer(heap[q]) /\ FullTtl(heap'[q]) = FullTtl(heap[q])
      BY <3>3 DEF HasAnswer, FullTtl
    <3> QED
      BY <3>1, <3>3, <3>4 DEF Dated
  <2>4. CASE ExchangeDone(q)
    <3> DEFINE m == Message("remote", "nxdomain", 0)
    <3>1. Allocate(q, m, "setReply") /\ query[q].at \notin Sharable
      BY <1>1, <1>4, <2>4, EndFields DEF ExchangeDone, Sharable
    <3>2. m \in Msg /\ ~HasAnswer(m)
      BY AnswerType, AnswersAreFresh
    <3>3. Dated(m)
      BY <3>2 DEF Dated
    <3> HIDE DEF m
    <3> QED
      BY <1>3, <3>1, <3>2, <3>3
  <2>5. CASE SetReply(q)
    <3>1. query[q].at = "setReply" /\ query[q].ref = q /\ heap[q] \in Msg
      BY <2>5 DEF SetReply, QInv, OwnMessage, QTypes, HeapType
    <3>2. heap'[q] = [heap[q] EXCEPT !.id = q]
      BY <1>1, <2>5, <3>1 DEF SetReply, QTypes, HeapType
    <3>3. /\ heap'[q].source = heap[q].source
          /\ heap'[q].answer = heap[q].answer
          /\ heap'[q].ttl = heap[q].ttl
          /\ heap'[q].born = heap[q].born
          /\ heap'[q].issued = heap[q].issued
      BY <3>1, <3>2 DEF Msg
    <3>4. HasAnswer(heap'[q]) = HasAnswer(heap[q]) /\ FullTtl(heap'[q]) = FullTtl(heap[q])
      BY <3>3 DEF HasAnswer, FullTtl
    <3> QED
      BY <3>1, <3>3, <3>4 DEF Dated, MessageDated
  <2> QED
    BY <1>1, <1>4, <2>1, <2>2, <2>3, <2>4, <2>5, Destinations DEF QueryStep
<1>5. ASSUME NEW r \in Queries, Receive(r) \/ QueryStep(r), NEW q \in Queries,
             query'[q].at \in {"setReply", "write"}
      PROVE  Dated(heap'[q])
  <2>1. OnlyHandler(r) /\ OnlyMessage(r)
    BY <1>1, <1>5, HandlerStep, MessageStep
  <2>2. CASE q # r
    BY <1>2, <1>5, <2>1, <2>2 DEF OnlyHandler, OnlyMessage
  <2> QED
    BY <1>4, <1>5, <2>2
<1>6. ASSUME Environment, NEW q \in Queries, query'[q].at \in {"setReply", "write"}
      PROVE  Dated(heap'[q])
    BY <1>1, <1>2, <1>6, EnvironmentHandlers, EnvironmentMessages DEF SameHandler
<1>7. \A q \in Queries : query'[q].at \in {"setReply", "write"} => Dated(heap'[q])
    BY <1>5, <1>6, QNextSplit
<1> QED
    BY <1>7 DEF MessageDated, Dated

LEMMA NextTtlRespected ==
    ASSUME QInv, MessageDated, TtlRespected, [QNext]_allvars
    PROVE  TtlRespected'
<1>1. CASE UNCHANGED sent
    BY <1>1 DEF TtlRespected
<1>2. ASSUME NEW q \in Queries, WriteMsg(q) PROVE TtlRespected'
  <2>1. query[q].ref = q /\ Dated(heap[q])
    BY <1>2 DEF WriteMsg, QInv, OwnMessage, MessageDated
  <2>2. sent' = [sent EXCEPT ![q] = heap[q]]
    BY <1>2, <2>1 DEF WriteMsg
  <2>3. sent'[q] = heap[q] /\ \A r \in Queries \ {q} : sent'[r] = sent[r]
    BY <2>2 DEF QInv, QTypes, HeapType
  <2> QED
    BY <2>1, <2>3 DEF TtlRespected, Dated
<1>3. ASSUME NEW q \in Queries, QueryStep(q), ~WriteMsg(q) PROVE UNCHANGED sent
    BY <1>3 DEF QueryStep, CreateSolvers, SystemLoad, SystemSolve, SystemGet, DockerSolve,
                DockerGet, CacheGet, CacheExpire, CacheCopy, CachePut, LocalLoad, LocalFound,
                LocalNotFound, Servers, ServersLoaded, ServersGet, Exchange, ExchangeDone,
                SetReply
<1>4. ASSUME NEW q \in Queries, Receive(q) PROVE UNCHANGED sent
    BY <1>4 DEF Receive
<1> QED
    BY <1>1, <1>2, <1>3, <1>4, EnvironmentMessages, QNextSplit

\* The ttl a client gets runs out when the record's own does and never wraps
\* around 2^32, as long as at most one second passes between GetTimeValue and
\* the copy in doSolve.
THEOREM TtlStaysRespected == MaxPause <= 1 /\ QSpec => []TtlRespected
<1>1. MaxPause <= 1 /\ QInit => MaxPause <= 1 /\ MessageDated /\ TtlRespected
  <2> SUFFICES ASSUME QInit PROVE MessageDated /\ TtlRespected
    OBVIOUS
  <2>1. \A q \in Queries : query[q].at = "new" /\ sent[q] = None
    BY DEF QInit, NewHandler
  <2> QED
    BY <2>1 DEF MessageDated, TtlRespected
<1>2. MaxPause <= 1 /\ QInv /\ MessageDated /\ TtlRespected /\ [QNext]_allvars
          => (MaxPause <= 1)' /\ MessageDated' /\ TtlRespected'
    BY NextMessageDated, NextTtlRespected
<1> QED
    BY <1>1, <1>2, QueriesInvariant, PTL DEF QSpec
-----------------------------------------------------------------------------
(***************************************************************************)
(* Panics.                                                                 *)
(***************************************************************************)
\* No step of another goroutine that leaves a query undisturbed takes a key away.
LEMMA KeysStay ==
    ASSUME QInv, NEW q \in Queries,
           Environment \/ \E r \in Queries \ {q} : Receive(r) \/ QueryStep(r)
    PROVE  /\ SameHandler(q)
           /\ query[q].disturbed => query'[q].disturbed
           /\ Active(q) /\ ~query'[q].disturbed => main \subseteq main' /\ UNCHANGED docker
<1>1. QTypes /\ QueryType
    BY DEF QInv, QTypes
<1>2. ASSUME NEW r \in Queries \ {q}, Receive(r) \/ QueryStep(r)
      PROVE  query'[q] = query[q] /\ main \subseteq main' /\ UNCHANGED docker
  <2>1. query'[q] = query[q]
    BY <1>1, <1>2, HandlerStep DEF OnlyHandler
  <2>2. main \subseteq main' /\ UNCHANGED docker
    BY <1>2 DEF Receive, QueryStep, CreateSolvers, SystemLoad, SystemSolve, SystemGet, DockerSolve,
                DockerGet, CacheGet, CacheExpire, CacheCopy, CachePut, LocalLoad, LocalFound,
                LocalNotFound, Servers, ServersLoaded, ServersGet, Exchange, ExchangeDone,
                SetReply, WriteMsg
  <2> QED
    BY <2>1, <2>2
<1>3. CASE Disturb
    BY <1>1, <1>3, DisturbHandlers
<1>4. CASE Tick
    BY <1>1, <1>4, TickHandlers DEF Tick
<1>5. CASE UNCHANGED <<query, main, docker>>
    BY <1>5 DEF SameHandler
<1>6. Environment => Disturb \/ Tick \/ UNCHANGED <<query, main, docker>>
    BY DEF Environment, StoreStep, ClearStep, DockerEvent, qvars, allvars
<1> QED
    BY <1>2, <1>3, <1>4, <1>5, <1>6 DEF SameHandler

LEMMA NextKeyFound ==
    ASSUME QInv, KeyFound, PanicNeedsInterference, [QNext]_allvars
    PROVE  KeyFound' /\ PanicNeedsInterference'
<1>1. QTypes /\ QueryType
    BY DEF QInv, QTypes
<1> DEFINE Cand(q) == Candidates[Question[q]][query'[q].cand]
           Good(q) == /\ query'[q].outcome = "panic" => query'[q].disturbed
                      /\ ~query'[q].disturbed =>
                            /\ query'[q].at = "systemGet" => "SEARCH_DOMAIN" \in main'
                            /\ query'[q].at = "serversGet" => "SERVERS" \in main'
                            /\ query'[q].at = "dockerGet" => docker'[Cand(q)] # None
<1>2. ASSUME NEW q \in Queries, Environment \/ \E r \in Queries \ {q} : Receive(r) \/ QueryStep(r)
      PROVE  Good(q)
  <2>1. /\ SameHandler(q)
        /\ query[q].disturbed => query'[q].disturbed
        /\ Active(q) /\ ~query'[q].disturbed => main \subseteq main' /\ UNCHANGED docker
    BY <1>2, KeysStay
  <2>2. query'[q].outcome = "panic" => query'[q].disturbed
    BY <2>1 DEF SameHandler, PanicNeedsInterference
  <2>3. CASE query[q].at \in {"systemGet", "serversGet", "dockerGet"}
    BY <2>1, <2>2, <2>3 DEF SameHandler, KeyFound, Active, Candidate
  <2>4. CASE query[q].at \notin {"systemGet", "serversGet", "dockerGet"}
    BY <2>1, <2>2, <2>4 DEF SameHandler
  <2> QED
    BY <2>3, <2>4
<1>3. ASSUME NEW q \in Queries, Receive(q) \/ QueryStep(q) PROVE Good(q)
  <2>1. query[q] \in Handler
    BY <1>1 DEF QueryType
  <2>2. CASE Receive(q)
    <3>1. query'[q].outcome \in {"unanswered", "none"}
      BY <1>1, <2>2 DEF Receive, QueryType, Handler
    <3>2. query'[q].at \in {"create", "end", "system"}
      BY <1>1, <2>2, Destinations
    <3> QED
      BY <3>1, <3>2
  <2>3. CASE SystemSolve(q)
    <3>1. \/ Goto(q, "systemGet") /\ "SEARCH_DOMAIN" \in main /\ UNCHANGED main
          \/ Goto(q, "docker")
      BY <2>3 DEF SystemSolve
    <3> QED
      BY <1>1, <3>1, GotoFields DEF PanicNeedsInterference
  <2>4. CASE SystemGet(q)
    <3>1. query[q].at = "systemGet"
      BY <2>4 DEF SystemGet
    <3>2. Goto(q, "docker") \/ ("SEARCH_DOMAIN" \notin main /\ End(q, "panic"))
      BY <2>4 DEF SystemGet
    <3> QED
      BY <1>1, <3>1, <3>2, GotoFields, EndFields DEF KeyFound, PanicNeedsInterference
  <2>5. CASE DockerSolve(q)
    <3>1. CASE docker[Candidate(q)] # None /\ Goto(q, "dockerGet")
      BY <1>1, <2>5, <3>1, GotoFields DEF DockerSolve, Candidate, PanicNeedsInterference
    <3>2. CASE Enter(q, "local")
      BY <1>1, <3>2, EnterFields DEF PanicNeedsInterference
    <3>3. CASE query' = [query EXCEPT ![q].cand = @ + 1]
      <4>1. /\ query'[q].at = query[q].at /\ query'[q].outcome = query[q].outcome
            /\ query'[q].disturbed = query[q].disturbed
        BY <1>1, <3>3 DEF QueryType, Handler
      <4> QED
        BY <2>5, <4>1 DEF DockerSolve, PanicNeedsInterference
    <3> QED
      BY <2>5, <3>1, <3>2, <3>3 DEF DockerSolve
  <2>6. CASE DockerGet(q)
    <3>1. query[q].at = "dockerGet"
      BY <2>6 DEF DockerGet
    <3>2. docker[Candidate(q)] \in {"ip", "noIp", None}
      <4>1. Candidate(q) \in Names
        <5>1. Candidates[Question[q]] \in Seq(Names)
          BY QueriesAssumption
        <5>2. query[q].cand \in DOMAIN Candidates[Question[q]]
          BY DEF QInv, CandidateExists
        <5> QED
          BY <5>1, <5>2, ElementOfSeq DEF Candidate
      <4> QED
        BY <1>1, <4>1 DEF QTypes, SharedType
    <3>3. CASE End(q, "panic")
      <4>1. docker[Candidate(q)] = None
        BY <1>1, <2>6, <3>2, <3>3, EndFields, AllocateFields DEF DockerGet
      <4>2. query[q].disturbed
        BY <3>1, <4>1 DEF KeyFound
      <4> QED
        BY <1>1, <3>3, <4>2, EndFields
    <3>4. CASE End(q, "noAddress")
      BY <1>1, <3>4, EndFields
    <3>5. CASE Allocate(q, Message("docker", "ok", 0), "setReply")
      BY <1>1, <3>5, AllocateFields DEF PanicNeedsInterference
    <3> QED
      BY <2>6, <3>3, <3>4, <3>5 DEF DockerGet
  <2>7. CASE Servers(q)
    <3>1. \/ Goto(q, "serversGet") /\ "SERVERS" \in main /\ UNCHANGED main
          \/ Goto(q, "serversLoaded")
      BY <2>7 DEF Servers, CallLoad
    <3> QED
      BY <1>1, <3>1, GotoFields DEF PanicNeedsInterference
  <2>8. CASE ServersLoaded(q)
    <3>1. \/ Goto(q, "serversGet") /\ "SERVERS" \in main'
          \/ End(q, "unanswered")
      BY <2>8 DEF ServersLoaded
    <3> QED
      BY <1>1, <3>1, GotoFields, EndFields DEF PanicNeedsInterference
  <2>9. CASE ServersGet(q)
    <3>1. query[q].at = "serversGet"
      BY <2>9 DEF ServersGet
    <3>2. Goto(q, "exchange") \/ ("SERVERS" \notin main /\ End(q, "panic"))
      BY <2>9 DEF ServersGet
    <3> QED
      BY <1>1, <3>1, <3>2, GotoFields, EndFields DEF KeyFound, PanicNeedsInterference
  <2>10. ASSUME query'[q].at \notin {"systemGet", "serversGet", "dockerGet"},
                query'[q].outcome = query[q].outcome \/ query'[q].outcome # "panic",
                query'[q].disturbed = query[q].disturbed
         PROVE  Good(q)
    BY <2>10 DEF PanicNeedsInterference
  <2>11. CASE \/ CreateSolvers(q) \/ SystemLoad(q) \/ CacheExpire(q) \/ CachePut(q)
              \/ LocalLoad(q) \/ SetReply(q) \/ WriteMsg(q)
    <3>1. \E l \in {"system", "systemLoaded", "localLoad", "servers", "setReply",
                    "localLoaded", "write"} : Goto(q, l) \/ End(q, "replied")
      BY <2>11 DEF CreateSolvers, SystemLoad, CacheExpire, CachePut, LocalLoad, SetReply,
                   WriteMsg, CallLoad, Delegate
    <3> QED
      BY <1>1, <2>10, <3>1, GotoFields, EndFields
  <2>12. CASE CacheGet(q)
    <3>1. query' = [query EXCEPT ![q].at = "copy", ![q].held = Cached(q), ![q].pause = 0]
             => /\ query'[q].at = "copy" /\ query'[q].outcome = query[q].outcome
                /\ query'[q].disturbed = query[q].disturbed
      BY <1>1 DEF QueryType, Handler
    <3>2. \/ query' = [query EXCEPT ![q].at = "copy", ![q].held = Cached(q), ![q].pause = 0]
          \/ \E l \in {"localLoad", "servers", "expire"} : Goto(q, l)
      BY <2>12 DEF CacheGet, Delegate
    <3> QED
      BY <1>1, <2>10, <3>1, <3>2, GotoFields
  <2>13. CASE CacheCopy(q) \/ LocalFound(q)
    <3>1. \E m, l : Allocate(q, m, l)
      BY <2>13 DEF CacheCopy, LocalFound
    <3>2. query'[q].at \in {"setReply", "put"}
      BY <1>1, <2>13, Destinations
    <3> QED
      BY <1>1, <2>10, <3>1, <3>2, AllocateFields
  <2>14. CASE LocalNotFound(q)
    <3>1. query' = [query EXCEPT ![q].at = "localLoad", ![q].cand = @ + 1]
             => /\ query'[q].at = "localLoad" /\ query'[q].outcome = query[q].outcome
                /\ query'[q].disturbed = query[q].disturbed
      BY <1>1 DEF QueryType, Handler
    <3> QED
      BY <1>1, <2>10, <2>14, <3>1, EnterFields DEF LocalNotFound, NextCandidate
  <2>15. CASE Exchange(q)
    <3>1. \A r : query' = [query EXCEPT ![q].res = r, ![q].server = @ + 1]
             => /\ query'[q].at = query[q].at /\ query'[q].outcome = query[q].outcome
                /\ query'[q].disturbed = query[q].disturbed
      BY <1>1 DEF QueryType, Handler
    <3>2. \/ \E m : Allocate(q, m, "put")
          \/ \E r : query' = [query EXCEPT ![q].res = r, ![q].server = @ + 1]
      BY <2>15 DEF Exchange
    <3>3. query[q].at = "exchange"
      BY <2>15 DEF Exchange
    <3> QED
      BY <1>1, <2>10, <3>1, <3>2, <3>3, AllocateFields
  <2>16. CASE ExchangeDone(q)
    <3>1. Allocate(q, Message("remote", "nxdomain", 0), "setReply") \/ End(q, "unanswered")
      BY <2>16 DEF ExchangeDone
    <3> QED
      BY <1>1, <2>10, <3>1, AllocateFields, EndFields
  <2> QED
    BY <1>3, <2>2, <2>3, <2>4, <2>5, <2>6, <2>7, <2>8, <2>9, <2>11, <2>12, <2>13, <2>14,
       <2>15, <2>16 DEF QueryStep
<1>4. \A q \in Queries : Good(q)
    BY <1>2, <1>3, QNextSplit
<1> QED
    BY <1>4 DEF KeyFound, PanicNeedsInterference, Candidate

\* A handler that checks for a key and then reads it panics only if, since it
\* was received, a save has cleared the caches or a container came or went.
THEOREM PanicsNeedInterference == QSpec => []PanicNeedsInterference
<1>1. QInit => KeyFound /\ PanicNeedsInterference
  <2> SUFFICES ASSUME QInit PROVE KeyFound /\ PanicNeedsInterference
    OBVIOUS
  <2>1. \A q \in Queries : query[q].at = "new" /\ query[q].outcome = "none"
    BY DEF QInit, NewHandler
  <2> QED
    BY <2>1 DEF KeyFound, PanicNeedsInterference
<1>2. QInv /\ KeyFound /\ PanicNeedsInterference /\ [QNext]_allvars
          => KeyFound' /\ PanicNeedsInterference'
    BY NextKeyFound
<1> QED
    BY <1>1, <1>2, QueriesInvariant, PTL DEF QSpec
===============================================================================
