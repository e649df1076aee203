--------------------------- MODULE SolverOrderProofs ---------------------------
(***************************************************************************)
(* Which solver answers a query that no save and no container event        *)
(* overlaps, and when such a query is left unanswered.  Both rest on a     *)
(* disk that can be read: with DiskFaults every load may fail at any time, *)
(* and the solvers take a failed load for a name they do not have.         *)
(***************************************************************************)
EXTENDS DnsQueriesProofs

\* While a query runs undisturbed no save has the file open.
Calm ==
    \A q \in Queries :
        Active(q) /\ ~query[q].disturbed =>
            \A p \in Procs : pc[p] \notin {"encode", "clear", "close"}

\* What the load of an undisturbed query returned is still what the file says:
\* it failed on a torn file, or its copy has every name of the file.
LoadSound ==
    \A q \in Queries :
        Active(q) /\ ~query[q].disturbed /\ Loading(q) =>
            /\ pc[q] = "idle" => file \in {Empty, Corrupt} /\ torn
            /\ pc[q] = "apply" =>
                  IsDocument(file) /\ \A n \in Names : HasEntry(file, n) => HasEntry(conf[q], n)

\* The answer of the last server that was asked is known.
ServerAsked == \A q \in Queries : query[q].server > 1 => query[q].res # None

\* Where a handler is: not yet in a solver that goes through the candidates, in
\* the cache in front of one, in the local or in the remote solver.
BeforeSolvers == {"new", "create", "system", "systemLoaded", "systemGet"}
InCache == {"get", "expire", "copy"}
InLocal == {"localLoad", "localLoaded"}
InRemote == {"servers", "serversLoaded", "serversGet", "exchange"}

\* Every solver starts at the first candidate and stays at its level.
SolversInTurn ==
    \A q \in Queries :
        /\ query[q].at \in BeforeSolvers \cup InCache => query[q].cand = 1
        /\ query[q].at \in InLocal => query[q].level = "local"
        /\ query[q].at \in InRemote => query[q].level = "remote"

\* The cache in front of the local solver holds answers of the local solver.
LevelSource ==
    /\ \A n \in Names : cache["local"][n] # None => heap[cache["local"][n].msg].source = "local"
    /\ \A q \in Queries :
          query[q].level = "local" =>
             /\ query[q].at = "copy" => heap[query[q].held.msg].source = "local"
             /\ query[q].at = "put" => heap[q].source = "local"

\* The first k candidates of q are no containers, and are not in the file.
CandidatesOf(q) == Candidates[Question[q]]
NotInDocker(q, k) == \A i \in 1..k : docker[CandidatesOf(q)[i]] = None
NotInFile(q, k) == IsDocument(file) => \A i \in 1..k : ~HasEntry(file, CandidatesOf(q)[i])

\* The docker solver and the local solver have passed the query on.
PastDocker(q) ==
    \/ query[q].at \in InCache \cup InLocal \cup InRemote
    \/ query[q].at \in {"put", "setReply"} /\ heap[q].source # "docker"
PastLocal(q) ==
    \/ query[q].at \in InRemote
    \/ query[q].at \in InCache /\ query[q].level = "remote"
    \/ query[q].at \in {"put", "setReply"} /\ heap[q].source = "remote"

\* What the solvers have passed on, neither docker nor the file knows.
Passed ==
    \A q \in Queries :
        Active(q) /\ ~query[q].disturbed =>
            /\ query[q].at = "docker" => NotInDocker(q, query[q].cand - 1)
            /\ PastDocker(q) => NotInDocker(q, Len(CandidatesOf(q)))
            /\ query[q].at \in InLocal => NotInFile(q, query[q].cand - 1)
            /\ PastLocal(q) => NotInFile(q, Len(CandidatesOf(q)))
-----------------------------------------------------------------------------
(***************************************************************************)
(* The document a load returns.                                            *)
(***************************************************************************)
\* Giving ids to the entries leaves their environments and names alone.
LEMMA SetHostnameIdsNames ==
    ASSUME NEW c \in Configuration, NEW t \in Nat, NEW d, d = SetHostnameIds(c, t)
    PROVE  /\ d.activeEnv = c.activeEnv
           /\ DOMAIN d.envs = DOMAIN c.envs
           /\ \A e \in DOMAIN c.envs :
                 /\ d.envs[e].name = c.envs[e].name
                 /\ DOMAIN d.envs[e].hostnames = DOMAIN c.envs[e].hostnames
                 /\ \A h \in DOMAIN c.envs[e].hostnames :
                       d.envs[e].hostnames[h].hostname = c.envs[e].hostnames[h].hostname
<1> DEFINE clockAt(p) == t + Cardinality({r \in WithoutId(c) : Before(r, p)})
           host(e, h) == IF <<e, h>> \in WithoutId(c)
                         THEN [c.envs[e].hostnames[h] EXCEPT !.id = clockAt(<<e, h>>)]
                         ELSE c.envs[e].hostnames[h]
           hosts(e) == [h \in DOMAIN c.envs[e].hostnames |-> host(e, h)]
           env(e) == [c.envs[e] EXCEPT !.hostnames = hosts(e)]
           envs == [e \in DOMAIN c.envs |-> env(e)]
<1>1. d = [c EXCEPT !.envs = envs]
    BY DEF SetHostnameIds
<1>2. \A e \in DOMAIN c.envs : \A h \in DOMAIN c.envs[e].hostnames :
          host(e, h).hostname = c.envs[e].hostnames[h].hostname
  <2> SUFFICES ASSUME NEW e \in DOMAIN c.envs, NEW h \in DOMAIN c.envs[e].hostnames
               PROVE  host(e, h).hostname = c.envs[e].hostnames[h].hostname
    OBVIOUS
  <2>1. c.envs[e].hostnames[h] \in Hostname
    BY DocumentParts, ElementOfSeq
  <2> HIDE DEF clockAt
  <2> QED
    BY <2>1 DEF Hostname
<1> HIDE DEF host
<1>3. \A e \in DOMAIN c.envs :
         /\ env(e).name = c.envs[e].name
         /\ env(e).hostnames = hosts(e)
    BY DocumentParts DEF Env
<1>4. d.activeEnv = c.activeEnv /\ d.envs = envs
    BY <1>1 DEF Configuration
<1> HIDE DEF env
<1>5. DOMAIN d.envs = DOMAIN c.envs /\ \A e \in DOMAIN c.envs : d.envs[e] = env(e)
    BY <1>4
<1> HIDE DEF envs
<1>6. \A e \in DOMAIN c.envs :
         /\ DOMAIN hosts(e) = DOMAIN c.envs[e].hostnames
         /\ \A h \in DOMAIN c.envs[e].hostnames : hosts(e)[h] = host(e, h)
    OBVIOUS
<1> HIDE DEF hosts
<1> QED
    BY <1>2, <1>3, <1>4, <1>5, <1>6

\* A name has an entry in the document after it exactly if it had one before.
LEMMA SetHostnameIdsEntries ==
    ASSUME NEW c \in Configuration, NEW t \in Nat, NEW n
    PROVE  HasEntry(c, n) => HasEntry(SetHostnameIds(c, t), n)
<1> DEFINE d == SetHostnameIds(c, t)
<1> SUFFICES ASSUME HasEntry(c, n) PROVE HasEntry(d, n)
    OBVIOUS
<1>1. /\ d.activeEnv = c.activeEnv
      /\ DOMAIN d.envs = DOMAIN c.envs
      /\ \A e \in DOMAIN c.envs :
            /\ d.envs[e].name = c.envs[e].name
            /\ DOMAIN d.envs[e].hostnames = DOMAIN c.envs[e].hostnames
            /\ \A h \in DOMAIN c.envs[e].hostnames :
                  d.envs[e].hostnames[h].hostname = c.envs[e].hostnames[h].hostname
    BY SetHostnameIdsNames
<1> HIDE DEF d
<1>2. EnvIndexes(d, d.activeEnv) = EnvIndexes(c, c.activeEnv)
    BY <1>1 DEF EnvIndexes
<1>3. HasActiveEnv(c)
    BY DEF HasEntry
<1> DEFINE e == GetEnv(c, c.activeEnv)
<1>4. HasActiveEnv(d) /\ GetEnv(d, d.activeEnv) = e
    BY <1>2, <1>3 DEF HasActiveEnv, HasEnv, GetEnv
<1>5. e \in DOMAIN c.envs
    BY <1>3, GetEnvFinds DEF HasActiveEnv
<1>6. ActiveEnv(c) = c.envs[e] /\ ActiveEnv(d) = d.envs[e]
    BY <1>4 DEF ActiveEnv
<1> HIDE DEF e
<1>7. HostnameIndexes(d.envs[e], n) = HostnameIndexes(c.envs[e], n)
    BY <1>1, <1>5 DEF HostnameIndexes
<1> QED
    BY <1>4, <1>6, <1>7 DEF HasEntry, HasHostname
-----------------------------------------------------------------------------
(***************************************************************************)
(* The steps of one handler.                                               *)
(***************************************************************************)
\* The handler stays with its candidate, its level and what it was told.
SamePlace(q) == query'[q].cand = query[q].cand /\ query'[q].level = query[q].level
SameServer(q) == query'[q].server = query[q].server /\ query'[q].res = query[q].res
SameHistory(q) == query'[q].disturbed = query[q].disturbed

LEMMA OwnFields ==
    ASSUME QTypes, NEW q \in Queries, QueryStep(q)
    PROVE  /\ SameHistory(q)
           /\ SameServer(q) \/ (Exchange(q) /\ query'[q].res \in {"nxdomain", "timeout"})
           /\ SamePlace(q) \/ DockerSolve(q) \/ LocalNotFound(q)
<1> USE DEF SamePlace, SameServer, SameHistory
<1>1. QueryType /\ query[q] \in Handler
    BY DEF QTypes, QueryType
<1>2. ASSUME \E l : Goto(q, l) PROVE SamePlace(q) /\ SameServer(q) /\ SameHistory(q)
    BY <1>1, <1>2, GotoFields
<1>3. ASSUME \E how : End(q, how) PROVE SamePlace(q) /\ SameServer(q) /\ SameHistory(q)
    BY <1>1, <1>3, EndFields
<1>4. ASSUME \E m, l : Allocate(q, m, l) PROVE SamePlace(q) /\ SameServer(q) /\ SameHistory(q)
    BY <1>1, <1>4, AllocateFields
<1>5. ASSUME \E l : Enter(q, l) PROVE SameServer(q) /\ SameHistory(q)
    BY <1>1, <1>5, EnterFields
<1>6. CASE \/ CreateSolvers(q) \/ SystemLoad(q) \/ SystemSolve(q) \/ SystemGet(q)
           \/ CacheExpire(q) \/ CachePut(q) \/ LocalLoad(q) \/ Servers(q) \/ ServersLoaded(q)
           \/ ServersGet(q) \/ SetReply(q) \/ WriteMsg(q)
  <2>1. (\E l : Goto(q, l)) \/ (\E how : End(q, how))
    BY <1>6 DEF CreateSolvers, SystemLoad, SystemSolve, SystemGet, CacheExpire, CachePut,
                LocalLoad, Servers, ServersLoaded, ServersGet, SetReply, WriteMsg, CallLoad
  <2> QED
    BY <1>2, <1>3, <2>1
<1>7. CASE DockerGet(q) \/ CacheCopy(q) \/ LocalFound(q) \/ ExchangeDone(q)
  <2>1. (\E m, l : Allocate(q, m, l)) \/ (\E how : End(q, how))
    BY <1>7 DEF DockerGet, CacheCopy, LocalFound, ExchangeDone
  <2> QED
    BY <1>3, <1>4, <2>1
<1>8. CASE CacheGet(q)
  <2>1. query' = [query EXCEPT ![q].at = "copy", ![q].held = Cached(q), ![q].pause = 0]
           => SamePlace(q) /\ SameServer(q) /\ SameHistory(q)
    BY <1>1 DEF QueryType, Handler
  <2>2. \/ query' = [query EXCEPT ![q].at = "copy", ![q].held = Cached(q), ![q].pause = 0]
        \/ \E l : Goto(q, l)
    BY <1>8 DEF CacheGet
  <2> QED
    BY <1>2, <2>1, <2>2
<1>9. CASE DockerSolve(q)
  <2>1. query' = [query EXCEPT ![q].cand = @ + 1] => SameServer(q) /\ SameHistory(q)
    BY <1>1 DEF QueryType, Handler
  <2> QED
    BY <1>2, <1>5, <1>9, <2>1 DEF DockerSolve
<1>10. CASE LocalNotFound(q)
  <2>1. query' = [query EXCEPT ![q].at = "localLoad", ![q].cand = @ + 1]
           => SameServer(q) /\ SameHistory(q)
    BY <1>1 DEF QueryType, Handler
  <2> QED
    BY <1>5, <1>10, <2>1 DEF LocalNotFound, NextCandidate
<1>11. CASE Exchange(q)
  <2>1. ASSUME NEW r \in {"nxdomain", "timeout"},
               query' = [query EXCEPT ![q].res = r, ![q].server = @ + 1]
        PROVE  SamePlace(q) /\ query'[q].res = r /\ SameHistory(q)
    BY <1>1, <2>1 DEF QueryType, Handler
  <2>2. \/ \E m, l : Allocate(q, m, l)
        \/ \E r \in {"nxdomain", "timeout"} :
              query' = [query EXCEPT ![q].res = r, ![q].server = @ + 1]
    BY <1>11 DEF Exchange
  <2> QED
    BY <1>4, <1>11, <2>1, <2>2
<1> QED
    BY <1>6, <1>7, <1>8, <1>9, <1>10, <1>11 DEF QueryStep

\* The two steps that go on to the next candidate.
LEMMA DockerSolveFields ==
    ASSUME QTypes, NEW q \in Queries, DockerSolve(q)
    PROVE  /\ query[q].at = "docker"
           /\ \/ query'[q].at = "dockerGet" /\ SamePlace(q)
              \/ /\ docker[Candidate(q)] = None
                 /\ \/ /\ IsLastCandidate(q) /\ query'[q].at = "get" /\ query'[q].cand = 1
                       /\ query'[q].level = "local"
                    \/ query'[q].at = "docker" /\ query'[q].cand = query[q].cand + 1
<1>1. QueryType
    BY DEF QTypes
<1>2. query' = [query EXCEPT ![q].cand = @ + 1]
         => query'[q].at = query[q].at /\ query'[q].cand = query[q].cand + 1
    BY <1>1 DEF QueryType, Handler
<1> QED
    BY <1>1, <1>2, GotoFields, EnterFields DEF DockerSolve, SamePlace

LEMMA LocalNotFoundFields ==
    ASSUME QTypes, NEW q \in Queries, LocalNotFound(q)
    PROVE  /\ query[q].at = "localLoaded"
           /\ pc[q] = "idle" \/ (pc[q] = "apply" /\ ~HasEntry(conf[q], Candidate(q)))
           /\ \/ /\ IsLastCandidate(q) /\ query'[q].at = "get" /\ query'[q].cand = 1
                 /\ query'[q].level = "remote"
              \/ /\ query'[q].at = "localLoad" /\ query'[q].cand = query[q].cand + 1
                 /\ query'[q].level = query[q].level
<1>1. QueryType
    BY DEF QTypes
<1>2. query' = [query EXCEPT ![q].at = "localLoad", ![q].cand = @ + 1]
         => /\ query'[q].at = "localLoad" /\ query'[q].cand = query[q].cand + 1
            /\ query'[q].level = query[q].level
    BY <1>1 DEF QueryType, Handler
<1> QED
    BY <1>1, <1>2, EnterFields DEF LocalNotFound, NextCandidate, LoadFailed, Loaded
-----------------------------------------------------------------------------
(***************************************************************************)
(* What holds still around an undisturbed query.                           *)
(***************************************************************************)
\* A store step that disturbs no query.
QuietStoreStep(p) == LoadConfiguration(p) \/ (p \notin Queries /\ Apply(p))

\* The steps that leave a query under way undisturbed.
LEMMA UndisturbedSteps ==
    ASSUME QInv, NEW q \in Queries, Active(q), ~query'[q].disturbed, [QNext]_allvars
    PROVE  /\ ~query[q].disturbed
           /\ UNCHANGED <<file, torn, docker>>
           /\ \/ \E r \in Queries : Receive(r) \/ QueryStep(r)
              \/ \E p \in Procs : QuietStoreStep(p) /\ UNCHANGED query
              \/ \E p \in Procs \ Queries, o \in Requests : Request(p, o) /\ UNCHANGED query
              \/ UNCHANGED vars /\ Environment
<1>1. QTypes /\ QueryType /\ query[q] \in Handler /\ query[q].disturbed \in BOOLEAN
    BY DEF QInv, QTypes, QueryType, Handler
<1>2. ~Disturb
    BY <1>1, DisturbHandlers
<1>3. CASE \E r \in Queries : Receive(r) \/ QueryStep(r)
  <2>1. PICK r \in Queries : Receive(r) \/ QueryStep(r)
    BY <1>3
  <2>2. UNCHANGED <<file, torn, docker>>
    BY <2>1 DEF Receive, QueryStep, CreateSolvers, SystemLoad, SystemSolve, SystemGet, DockerSolve,
                DockerGet, CacheGet, CacheExpire, CacheCopy, CachePut, LocalLoad, LocalFound,
                LocalNotFound, Servers, ServersLoaded, ServersGet, Exchange, ExchangeDone,
                SetReply, WriteMsg, CallLoad, ReturnFromLoad, vars
  <2>3. CASE r # q
    BY <1>1, <1>3, <2>1, <2>2, <2>3, HandlerStep DEF OnlyHandler
  <2>4. CASE r = q
    <3>1. ~Receive(q)
      BY DEF Receive, Active
    <3>2. query'[q].disturbed = query[q].disturbed
      BY <1>1, <2>1, <2>4, <3>1, OwnFields DEF SameHistory
    <3> QED
      BY <1>3, <2>2, <3>2
  <2> QED
    BY <2>3, <2>4
<1>4. CASE Environment
  <2>1. ASSUME NEW p \in Procs, StoreStep(p) \/ ClearStep(p)
        PROVE  QuietStoreStep(p) /\ UNCHANGED <<query, docker>>
    BY <1>2, <2>1 DEF StoreStep, ClearStep, QuietStoreStep
  <2>2. ASSUME NEW p \in Procs, QuietStoreStep(p) PROVE UNCHANGED <<file, torn>>
    BY <2>2 DEF QuietStoreStep, LoadConfiguration, LoadMissing, LoadWithoutDirectory,
                LoadUnreadable, LoadDocument, Apply
  <2>3. CASE \E p \in Procs : StoreStep(p) \/ ClearStep(p)
    BY <2>1, <2>2, <2>3
  <2>4. CASE \E p \in Procs \ Queries, o \in Requests : Request(p, o) /\ UNCHANGED qvars
    BY <2>4 DEF Request, qvars
  <2>5. CASE Tick
    BY <1>1, <1>4, <2>5, TickHandlers DEF Tick, vars
  <2>6. CASE UNCHANGED allvars
    BY <1>4, <2>6 DEF allvars, vars, qvars
  <2>7. \A n \in Names : ~DockerEvent(n)
    BY <1>2 DEF DockerEvent
  <2> QED
    BY <1>4, <2>3, <2>4, <2>5, <2>6, <2>7 DEF Environment
<1> QED
    BY <1>3, <1>4, QNextSplit

\* A query comes under way with Receive; it is undisturbed only if no goroutine
\* is about to save or is saving.
LEMMA BecomesActive ==
    ASSUME QInv, NEW q \in Queries, ~Active(q), query'[q].at \notin {"new", "end"},
           [QNext]_allvars
    PROVE  /\ Receive(q)
           /\ query'[q].at \in {"create", "system"}
           /\ query'[q].cand = query[q].cand
           /\ ~query'[q].disturbed => \A p \in Procs : ~Unsaved(p)
<1>1. QTypes /\ QueryType /\ solvers \in {"none", "creating", "ready"}
    BY DEF QInv, QTypes, SharedType
<1>2. query'[q].at # query[q].at
    BY DEF Active
<1>3. \E r \in Queries : Receive(r) \/ QueryStep(r)
    BY <1>1, <1>2, QNextSplit, EnvironmentHandlers DEF SameHandler
<1>4. Receive(q) \/ QueryStep(q)
    BY <1>1, <1>2, <1>3, HandlerStep DEF OnlyHandler
<1>5. ~QueryStep(q)
    BY DEF QueryStep, CreateSolvers, SystemLoad, SystemSolve, SystemGet, DockerSolve, DockerGet,
           CacheGet, CacheExpire, CacheCopy, CachePut, LocalLoad, LocalFound, LocalNotFound,
           Servers, ServersLoaded, ServersGet, Exchange, ExchangeDone, SetReply, WriteMsg, Active
<1>6. Receive(q) /\ query'[q].at \in {"create", "system"}
    BY <1>1, <1>4, <1>5, Destinations
<1>7. query'[q].cand = query[q].cand
    BY <1>1, <1>6 DEF Receive, QueryType, Handler
<1>8. query'[q].disturbed = (solvers = "creating" \/ \E p \in Procs : Unsaved(p))
    BY <1>1, <1>6 DEF Receive, QueryType, Handler
<1> QED
    BY <1>6, <1>7, <1>8

\* A step that leaves a query undisturbed takes no goroutine into a save.
LEMMA NoSaveBegins ==
    ASSUME QInv, NEW q \in Queries, Active(q), ~query'[q].disturbed, [QNext]_allvars,
           NEW p \in Procs
    PROVE  pc'[p] = pc[p] \/ pc'[p] \in {"idle", "load", "apply", "open"}
<1>1. TypeOK
    BY DEF QInv, StoreInv
<1>2. ASSUME NEW r \in Procs, NEW l \in {"idle", "load", "apply", "open"},
             pc' = [pc EXCEPT ![r] = l]
      PROVE  pc'[p] = pc[p] \/ pc'[p] \in {"idle", "load", "apply", "open"}
    BY <1>1, <1>2 DEF TypeOK
<1>3. CASE UNCHANGED vars
    BY <1>3 DEF vars
<1>4. ASSUME NEW r \in Queries, Receive(r) \/ QueryStep(r)
      PROVE  UNCHANGED vars \/ \E l \in {"idle", "load"} : pc' = [pc EXCEPT ![r] = l]
    BY <1>4, QueryStoreStep DEF CallsLoad, Finish
<1>5. ASSUME NEW r \in Procs, QuietStoreStep(r)
      PROVE  \E l \in {"idle", "apply", "open"} : pc' = [pc EXCEPT ![r] = l]
    BY <1>5 DEF QuietStoreStep, LoadConfiguration, LoadMissing, LoadWithoutDirectory,
                LoadUnreadable, LoadDocument, Apply, Finish
<1>6. ASSUME NEW r \in Procs, NEW o, Request(r, o) PROVE pc' = [pc EXCEPT ![r] = "load"]
    BY <1>6 DEF Request
<1>7. Queries \subseteq Procs
    BY QueriesAssumption, ReadersAssumption
<1> QED
    BY <1>2, <1>3, <1>4, <1>5, <1>6, <1>7, UndisturbedSteps

LEMMA NextCalm ==
    ASSUME QInv, Calm, [QNext]_allvars
    PROVE  Calm'
<1>1. ASSUME NEW q \in Queries, query'[q].at \notin {"new", "end"}, ~query'[q].disturbed,
             NEW p \in Procs
      PROVE  pc'[p] \notin {"encode", "clear", "close"}
  <2>1. CASE Active(q)
    BY <1>1, <2>1, UndisturbedSteps, NoSaveBegins DEF Calm
  <2>2. CASE ~Active(q)
    <3>1. Receive(q) /\ ~Unsaved(p)
      BY <1>1, <2>2, BecomesActive
    <3> QED
      BY <3>1 DEF Receive, Unsaved, vars
  <2> QED
    BY <2>1, <2>2
<1> QED
    BY <1>1 DEF Calm, Active

\* A step that leaves a query undisturbed is its own, it is a load, or it
\* leaves the query's copy of the document alone.
LEMMA CopyStays ==
    ASSUME QInv, NEW q \in Queries, Active(q), ~query'[q].disturbed, [QNext]_allvars
    PROVE  \/ QueryStep(q)
           \/ SameHandler(q) /\ LoadConfiguration(q)
           \/ SameHandler(q) /\ pc'[q] = pc[q] /\ conf'[q] = conf[q]
<1>1. TypeOK /\ QTypes /\ Queries \subseteq Procs
    BY QueriesAssumption, ReadersAssumption DEF QInv, StoreInv
<1>2. ASSUME NEW r \in Queries, Receive(r) \/ QueryStep(r), r # q
      PROVE  SameHandler(q) /\ pc'[q] = pc[q] /\ conf'[q] = conf[q]
  <2>1. query'[q] = query[q]
    BY <1>1, <1>2, HandlerStep DEF OnlyHandler
  <2>2. pc'[q] = pc[q] /\ conf'[q] = conf[q]
    BY <1>1, <1>2, QueryStoreStep, FinishFrame DEF CallsLoad, TypeOK, vars
  <2> QED
    BY <2>1, <2>2 DEF SameHandler
<1>3. ~Receive(q)
    BY DEF Receive, Active
<1>4. ASSUME UNCHANGED query PROVE SameHandler(q)
    BY <1>4 DEF SameHandler
<1>5. ASSUME NEW p \in Procs, QuietStoreStep(p), p # q
      PROVE  pc'[q] = pc[q] /\ conf'[q] = conf[q]
    BY <1>1, <1>5 DEF QuietStoreStep, LoadConfiguration, LoadMissing, LoadWithoutDirectory,
                      LoadUnreadable, LoadDocument, Apply, Finish, TypeOK
<1>6. QuietStoreStep(q) => LoadConfiguration(q)
    BY DEF QuietStoreStep
<1>7. ASSUME NEW p \in Procs \ Queries, NEW o, Request(p, o)
      PROVE  pc'[q] = pc[q] /\ conf'[q] = conf[q]
    BY <1>1, <1>7 DEF Request, TypeOK
<1>8. UNCHANGED vars /\ Environment => SameHandler(q) /\ pc'[q] = pc[q] /\ conf'[q] = conf[q]
    BY <1>1, EnvironmentHandlers DEF vars
<1> QED
    BY <1>2, <1>3, <1>4, <1>5, <1>6, <1>7, <1>8, UndisturbedSteps

\* With no save under way a file that does not parse was torn.
LEMMA CalmFileIsTorn ==
    ASSUME QInv, Calm, NEW q \in Queries, Active(q), ~query[q].disturbed,
           file \in {Empty, Corrupt}
    PROVE  torn
<1>1. \A p \in Procs : pc[p] \notin {"encode", "clear", "close"}
    BY DEF Calm
<1>2. \A p \in Procs : ~Unwritten(p)
    BY <1>1 DEF QInv, StoreInv, BufferedWhileSaving, Unwritten
<1> QED
    BY <1>2 DEF QInv, StoreInv, SavesInTurn

LEMMA NextLoadSound ==
    ASSUME ~DiskFaults, QInv, Calm, LoadSound, [QNext]_allvars
    PROVE  LoadSound'
<1> DEFINE Loads == {"systemLoaded", "localLoaded", "serversLoaded"}
<1>1. ASSUME NEW q \in Queries, query'[q].at \in Loads, ~query'[q].disturbed
      PROVE  /\ pc'[q] = "idle" => file' \in {Empty, Corrupt} /\ torn'
             /\ pc'[q] = "apply" =>
                   IsDocument(file') /\ \A n \in Names : HasEntry(file', n) => HasEntry(conf'[q], n)
  <2>1. Active(q)
    BY <1>1, BecomesActive
  <2>2. ~query[q].disturbed /\ UNCHANGED <<file, torn>>
    BY <1>1, <2>1, UndisturbedSteps
  <2>3. TypeOK /\ QTypes /\ QueryType /\ q \in Procs
    BY QueriesAssumption, ReadersAssumption DEF QInv, QTypes, StoreInv
  <2>4. CASE QueryStep(q)
    <3>1. SystemLoad(q) \/ LocalLoad(q) \/ Servers(q)
      BY <1>1, <2>3, <2>4, Destinations DEF QueryStep
    <3>2. \E l : CallLoad(q, l)
      BY <1>1, <2>3, <3>1, GotoFields DEF SystemLoad, LocalLoad, Servers
    <3>3. pc'[q] = "load"
      BY <2>3, <3>2 DEF CallLoad, TypeOK
    <3> QED
      BY <3>3
  <2>5. CASE SameHandler(q) /\ LoadConfiguration(q)
    <3>1. CASE LoadMissing(q)
      <4>1. pc'[q] = "open"
        BY <2>3, <3>1 DEF LoadMissing, TypeOK
      <4> QED
        BY <4>1
    <3>2. ~LoadWithoutDirectory(q)
      BY DEF LoadWithoutDirectory
    <3>3. CASE LoadUnreadable(q)
      <4>1. file \in {Empty, Corrupt} /\ pc'[q] = "idle"
        BY <2>3, <3>3, FinishFrame DEF LoadUnreadable
      <4>2. torn
        BY <2>1, <2>2, <4>1, CalmFileIsTorn
      <4> QED
        BY <2>2, <4>1, <4>2
    <3>4. CASE LoadDocument(q)
      <4>1. IsDocument(file) /\ file \in Configuration /\ clock \in Nat
        BY <2>3, <3>4 DEF LoadDocument, IsDocument, TypeOK
      <4>2. pc'[q] \in {"apply", "open"} /\ conf'[q] = SetHostnameIds(file, clock)
        BY <2>3, <3>4 DEF LoadDocument, TypeOK
      <4>3. \A n \in Names : HasEntry(file, n) => HasEntry(conf'[q], n)
        BY <4>1, <4>2, SetHostnameIdsEntries
      <4> QED
        BY <2>2, <4>1, <4>2, <4>3
    <3> QED
      BY <2>5, <3>1, <3>2, <3>3, <3>4 DEF LoadConfiguration
  <2>6. CASE SameHandler(q) /\ pc'[q] = pc[q] /\ conf'[q] = conf[q]
    <3>1. Loading(q)
      BY <1>1, <2>6 DEF SameHandler, Loading
    <3> QED
      BY <2>1, <2>2, <2>6, <3>1 DEF LoadSound
  <2> QED
    BY <1>1, <2>1, <2>4, <2>5, <2>6, CopyStays
<1> QED
    BY <1>1 DEF LoadSound, Loading, IsDocument

LEMMA NextServerAsked ==
    ASSUME QInv, ServerAsked, [QNext]_allvars
    PROVE  ServerAsked'
<1>1. QTypes /\ QueryType
    BY DEF QInv, QTypes
<1>2. ASSUME NEW q \in Queries, query'[q].server > 1 PROVE query'[q].res # None
  <2>1. CASE SameServer(q)
    BY <1>2, <2>1 DEF SameServer, ServerAsked
  <2>2. CASE Receive(q)
    <3>1. SameServer(q)
      BY <1>1, <2>2 DEF Receive, QueryType, Handler, SameServer
    <3> QED
      BY <2>1, <3>1
  <2>3. CASE QueryStep(q)
    BY <1>1, <2>1, <2>3, OwnFields, NoneAssumption
  <2>4. ASSUME NEW r \in Queries, r # q, Receive(r) \/ QueryStep(r) PROVE SameServer(q)
    BY <1>1, <2>4, HandlerStep DEF OnlyHandler, SameServer
  <2>5. Environment => SameServer(q)
    BY <1>1, EnvironmentHandlers DEF SameHandler, SameServer
  <2> QED
    BY <2>1, <2>2, <2>3, <2>4, <2>5, QNextSplit
<1> QED
    BY <1>2 DEF ServerAsked
-----------------------------------------------------------------------------
(***************************************************************************)
(* Queries without an answer.                                              *)
(***************************************************************************)
\* Only ServersLoaded and ExchangeDone let a handler end without an answer.
LEMMA OtherOutcomes ==
    ASSUME QTypes, NEW q \in Queries, QueryStep(q), ~ServersLoaded(q), ~ExchangeDone(q)
    PROVE  query'[q].outcome = query[q].outcome \/ query'[q].outcome # "unanswered"
<1>1. QueryType /\ query[q] \in Handler
    BY DEF QTypes, QueryType
<1>2. CASE \/ CreateSolvers(q) \/ SystemLoad(q) \/ SystemSolve(q) \/ SystemGet(q)
           \/ CacheExpire(q) \/ CachePut(q) \/ LocalLoad(q) \/ Servers(q) \/ ServersGet(q)
           \/ SetReply(q) \/ WriteMsg(q)
  <2>1. (\E l : Goto(q, l)) \/ End(q, "panic") \/ End(q, "replied")
    BY <1>2 DEF CreateSolvers, SystemLoad, SystemSolve, SystemGet, CacheExpire, CachePut,
                LocalLoad, Servers, ServersGet, SetReply, WriteMsg, CallLoad
  <2> QED
    BY <1>1, <2>1, GotoFields, EndFields
<1>3. CASE DockerGet(q) \/ CacheCopy(q) \/ LocalFound(q)
  <2>1. (\E m, l : Allocate(q, m, l)) \/ End(q, "panic") \/ End(q, "noAddress")
    BY <1>3 DEF DockerGet, CacheCopy, LocalFound
  <2> QED
    BY <1>1, <2>1, AllocateFields, EndFields
<1>4. CASE CacheGet(q)
  <2>1. query' = [query EXCEPT ![q].at = "copy", ![q].held = Cached(q), ![q].pause = 0]
           => query'[q].outcome = query[q].outcome
    BY <1>1 DEF QueryType, Handler
  <2>2. \/ query' = [query EXCEPT ![q].at = "copy", ![q].held = Cached(q), ![q].pause = 0]
        \/ \E l : Goto(q, l)
    BY <1>4 DEF CacheGet
  <2> QED
    BY <1>1, <2>1, <2>2, GotoFields
<1>5. CASE DockerSolve(q)
  <2>1. query' = [query EXCEPT ![q].cand = @ + 1] => query'[q].outcome = query[q].outcome
    BY <1>1 DEF QueryType, Handler
  <2> QED
    BY <1>1, <1>5, <2>1, GotoFields, EnterFields DEF DockerSolve
<1>6. CASE LocalNotFound(q)
  <2>1. query' = [query EXCEPT ![q].at = "localLoad", ![q].cand = @ + 1]
           => query'[q].outcome = query[q].outcome
    BY <1>1 DEF QueryType, Handler
  <2> QED
    BY <1>1, <1>6, <2>1, EnterFields DEF LocalNotFound, NextCandidate
<1>7. CASE Exchange(q)
  <2>1. \A r : query' = [query EXCEPT ![q].res = r, ![q].server = @ + 1]
           => query'[q].outcome = query[q].outcome
    BY <1>1 DEF QueryType, Handler
  <2>2. \/ \E m : Allocate(q, m, "put")
        \/ \E r : query' = [query EXCEPT ![q].res = r, ![q].server = @ + 1]
    BY <1>7 DEF Exchange
  <2> QED
    BY <1>1, <2>1, <2>2, AllocateFields
<1> QED
    BY <1>2, <1>3, <1>4, <1>5, <1>6, <1>7 DEF QueryStep

LEMMA NextUnanswered ==
    ASSUME QInv, LoadSound, ServerAsked, [QNext]_allvars, NEW q \in Queries,
           query[q].outcome = "none", query'[q].outcome = "unanswered", ~query'[q].disturbed
    PROVE  query[q].res = "timeout" \/ torn
<1>1. QTypes /\ QueryType /\ query[q] \in Handler /\ solvers \in {"none", "creating", "ready"}
    BY DEF QInv, QTypes, QueryType, SharedType
<1>2. \A r \in Queries : Receive(r) \/ QueryStep(r) => r = q
    BY <1>1, HandlerStep DEF OnlyHandler
<1>3. ~Environment
    BY <1>1, EnvironmentHandlers DEF SameHandler
<1>4. Receive(q) => query'[q].disturbed
    BY <1>1 DEF Receive, QueryType, Handler
<1>5. QueryStep(q)
    BY <1>2, <1>3, <1>4, QNextSplit
<1>6. ~query[q].disturbed
    BY <1>1, <1>5, OwnFields DEF SameHistory
<1>7. CASE ServersLoaded(q)
  <2>1. query[q].at = "serversLoaded" /\ pc[q] = "idle"
    BY <1>1, <1>7, GotoFields DEF ServersLoaded, LoadFailed
  <2> QED
    BY <1>6, <2>1 DEF LoadSound, Active, Loading
<1>8. CASE ExchangeDone(q)
  <2>1. query[q].server > NumServers /\ query[q].res # "nxdomain"
    BY <1>1, <1>8, AllocateFields DEF ExchangeDone
  <2>2. NumServers \in Nat \ {0} /\ query[q].server \in 1..(NumServers + 1)
        /\ query[q].res \in {None, "nxdomain", "timeout"}
    BY <1>1, QueriesAssumption DEF Handler
  <2>3. query[q].server > 1
    BY <2>1, <2>2
  <2> QED
    BY <2>1, <2>2, <2>3 DEF ServerAsked
<1> QED
    BY <1>1, <1>5, <1>7, <1>8, OtherOutcomes

LEMMA InitLoads == QInit => Calm /\ LoadSound /\ ServerAsked
<1> SUFFICES ASSUME QInit PROVE Calm /\ LoadSound /\ ServerAsked
    OBVIOUS
<1>1. \A q \in Queries : query[q].at = "new" /\ query[q].server = 1
    BY DEF QInit, NewHandler
<1> QED
    BY <1>1 DEF Calm, LoadSound, ServerAsked, Active

\* A query that no save overlapped, and that found the list of solvers made, is
\* left without an answer only when the last remote server was silent or when a
\* torn save had left an unreadable file, provided that the disk can be read.
THEOREM UnansweredOnlyByTimeout == ~DiskFaults /\ QSpec => UnansweredNeedsTimeout
<1>1. ~DiskFaults /\ QInit => ~DiskFaults /\ Calm /\ LoadSound /\ ServerAsked
    BY InitLoads
<1>2. ~DiskFaults /\ QInv /\ Calm /\ LoadSound /\ ServerAsked /\ [QNext]_allvars
          => (~DiskFaults)' /\ Calm' /\ LoadSound' /\ ServerAsked'
    BY NextCalm, NextLoadSound, NextServerAsked
<1>3. QInv /\ LoadSound /\ ServerAsked /\ [QNext]_allvars
          => [\A q \in Queries :
                 query[q].outcome = "none" /\ query'[q].outcome = "unanswered"
                     => query'[q].disturbed \/ query[q].res = "timeout" \/ torn]_allvars
    BY NextUnanswered
<1> QED
    BY <1>1, <1>2, <1>3, QueriesInvariant, PTL DEF QSpec, UnansweredNeedsTimeout
-----------------------------------------------------------------------------
(***************************************************************************)
(* The order of the solvers.                                               *)
(***************************************************************************)
LEMMA NextSolversInTurn ==
    ASSUME QInv, SolversInTurn, [QNext]_allvars
    PROVE  SolversInTurn'
<1>1. QTypes /\ QueryType
    BY DEF QInv, QTypes
<1> DEFINE InTurn(q) == /\ query'[q].at \in BeforeSolvers \cup InCache => query'[q].cand = 1
                        /\ query'[q].at \in InLocal => query'[q].level = "local"
                        /\ query'[q].at \in InRemote => query'[q].level = "remote"
<1>2. ASSUME NEW q \in Queries, SamePlace(q), query'[q].at = query[q].at PROVE InTurn(q)
    BY <1>2 DEF SamePlace, SolversInTurn
<1>3. ASSUME NEW q \in Queries, Receive(q) PROVE InTurn(q)
  <2>1. query[q].at = "new" /\ query'[q].cand = query[q].cand
    BY <1>1, <1>3 DEF Receive, QueryType, Handler
  <2>2. query'[q].at \in {"create", "end", "system"}
    BY <1>1, <1>3, Destinations
  <2> QED
    BY <2>1, <2>2 DEF SolversInTurn, BeforeSolvers, InCache, InLocal, InRemote
<1>4. ASSUME NEW q \in Queries, QueryStep(q) PROVE InTurn(q)
  <2> USE DEF BeforeSolvers, InCache, InLocal, InRemote
  <2>1. CASE DockerSolve(q)
    BY <1>1, <2>1, DockerSolveFields
  <2>2. CASE LocalNotFound(q)
    BY <1>1, <2>2, LocalNotFoundFields DEF SolversInTurn
  <2>3. CASE ~DockerSolve(q) /\ ~LocalNotFound(q)
    <3>1. SamePlace(q)
      BY <1>1, <1>4, <2>3, OwnFields
    <3>2. CASE CreateSolvers(q) \/ SystemLoad(q) \/ SystemSolve(q) \/ SystemGet(q)
      <4>1. query[q].at \in BeforeSolvers
        BY <3>2 DEF CreateSolvers, SystemLoad, SystemSolve, SystemGet
      <4> QED
        BY <1>1, <3>1, <3>2, <4>1, Destinations DEF SamePlace, SolversInTurn
    <3>3. CASE CacheGet(q) \/ CacheExpire(q)
      <4>1. query[q].at \in InCache
        BY <3>3 DEF CacheGet, CacheExpire
      <4>2. query[q].level \in Levels
        BY <1>1 DEF QueryType, Handler
      <4>3. query'[q].at \in {"copy", "expire", Delegate(query[q].level)}
        <5>1. query' = [query EXCEPT ![q].at = "copy", ![q].held = Cached(q), ![q].pause = 0]
                 => query'[q].at = "copy"
          BY <1>1 DEF QueryType, Handler
        <5> QED
          BY <1>1, <3>3, <5>1, GotoFields DEF CacheGet, CacheExpire
      <4> QED
        BY <3>1, <4>1, <4>2, <4>3 DEF SamePlace, SolversInTurn, Delegate, Levels
    <3>4. CASE \/ LocalLoad(q) \/ Servers(q) \/ ServersLoaded(q) \/ ServersGet(q) \/ Exchange(q)
      <4>1. \/ query[q].at \in InLocal /\ LocalLoad(q)
            \/ query[q].at \in InRemote /\ ~LocalLoad(q)
        BY <3>4 DEF LocalLoad, Servers, ServersLoaded, ServersGet, Exchange
      <4> QED
        BY <1>1, <3>1, <3>4, <4>1, Destinations DEF SamePlace, SolversInTurn
    <3>5. CASE \/ DockerGet(q) \/ CacheCopy(q) \/ CachePut(q) \/ LocalFound(q)
               \/ ExchangeDone(q) \/ SetReply(q) \/ WriteMsg(q)
      BY <1>1, <3>5, Destinations
    <3> QED
      BY <1>4, <2>3, <3>2, <3>3, <3>4, <3>5 DEF QueryStep
  <2> QED
    BY <2>1, <2>2, <2>3
<1>5. ASSUME NEW q \in Queries PROVE InTurn(q)
  <2>1. ASSUME NEW r \in Queries, r # q, Receive(r) \/ QueryStep(r)
        PROVE  SamePlace(q) /\ query'[q].at = query[q].at
    BY <1>1, <2>1, HandlerStep DEF OnlyHandler, SamePlace
  <2>2. Environment => SamePlace(q) /\ query'[q].at = query[q].at
    BY <1>1, EnvironmentHandlers DEF SameHandler, SamePlace
  <2> QED
    BY <1>2, <1>3, <1>4, <2>1, <2>2, QNextSplit
<1> QED
    BY <1>5 DEF SolversInTurn

\* No step changes the source of a message that lies in a cache or is held.
LEMMA SourceKept ==
    ASSUME QInv, [QNext]_allvars, NEW e \in CacheEntry, Sound(e)
    PROVE  heap'[e.msg].source = heap[e.msg].source
<1>1. e.msg \in Queries /\ heap[e.msg] # None /\ query[e.msg].at \in Sharable
    BY DEF CacheEntry, Sound, Sharable
<1>2. ASSUME NEW q \in Queries, Receive(q) \/ QueryStep(q)
      PROVE  heap'[e.msg].source = heap[e.msg].source
    BY <1>1, <1>2, MessageStep DEF OnlyMessage, Alike
<1> QED
    BY <1>2, EnvironmentMessages, QNextSplit

\* A handler about to cache a message allocated it with its last step.
LEMMA PutSource ==
    ASSUME QInv, SolversInTurn, NEW q \in Queries, Receive(q) \/ QueryStep(q),
           query'[q].at = "put"
    PROVE  \/ LocalFound(q) /\ heap'[q].source = "local"
           \/ query[q].at = "exchange" /\ heap'[q].source = "remote" /\ query'[q].level = "remote"
<1>1. QTypes /\ QueryType
    BY DEF QInv, QTypes
<1>2. LocalFound(q) \/ Exchange(q)
    BY <1>1, Destinations DEF QueryStep
<1>3. ASSUME NEW m, NEW l, Allocate(q, m, l) PROVE heap'[q] = m
    BY <1>1, <1>3 DEF Allocate, QTypes, HeapType
<1>4. CASE LocalFound(q)
    BY <1>3, <1>4 DEF LocalFound, Message
<1>5. CASE Exchange(q)
  <2>1. query[q].at = "exchange"
    BY <1>5 DEF Exchange
  <2>2. ASSUME NEW r, query' = [query EXCEPT ![q].res = r, ![q].server = @ + 1]
        PROVE  query'[q].at = query[q].at
    BY <1>1, <2>2 DEF QueryType, Handler
  <2>3. \E answer : Allocate(q, Message("remote", answer, RemoteTtl), "put")
    BY <1>5, <2>1, <2>2 DEF Exchange
  <2>4. heap'[q].source = "remote" /\ query'[q].level = query[q].level
    BY <1>1, <1>3, <2>3, AllocateFields DEF Message
  <2> QED
    BY <2>1, <2>4 DEF SolversInTurn, InRemote
<1> QED
    BY <1>2, <1>4, <1>5

LEMMA NextLevelSource ==
    ASSUME QInv, SolversInTurn, LevelSource, [QNext]_allvars
    PROVE  LevelSource'
<1>1. QTypes /\ QueryType
    BY DEF QInv, QTypes
<1>2. ASSUME NEW n \in Names, cache'["local"][n] # None
      PROVE  heap'[cache'["local"][n].msg].source = "local"
  <2>1. "local" \in Levels
    BY DEF Levels
  <2>2. CASE cache'["local"][n] = cache["local"][n]
    <3>1. cache["local"][n] \in CacheEntry /\ Sound(cache["local"][n])
      BY <1>1, <1>2, <2>1, <2>2 DEF QInv, CacheSound, QTypes, CacheType
    <3> QED
      BY <1>2, <2>2, <3>1, SourceKept DEF LevelSource
  <2>3. ASSUME NEW q \in Queries, CachePut(q), query[q].level = "local",
               cache'["local"][n] = [msg |-> q, creation |-> now, timeout |-> GetTtl(heap[q])]
        PROVE  heap'[cache'["local"][n].msg].source = "local"
    <3>1. query[q].at = "put" /\ heap[q].source = "local"
      BY <2>3 DEF CachePut, LevelSource
    <3>2. heap[q] \in Msg
      BY <1>1, <3>1 DEF QInv, OwnMessage, QTypes, HeapType
    <3>3. heap'[q].source = heap[q].source
      BY <1>1, <2>3, <3>2 DEF CachePut, QTypes, HeapType, Msg
    <3> QED
      BY <2>3, <3>1, <3>3
  <2> QED
    BY <1>2, <2>1, <2>2, <2>3, CacheStep
<1>3. ASSUME NEW q \in Queries, query'[q].at = "copy", query'[q].level = "local"
      PROVE  heap'[query'[q].held.msg].source = "local"
  <2>1. CASE query'[q].at = query[q].at /\ query'[q].level = query[q].level
             /\ query'[q].held = query[q].held
    <3>1. query[q].held \in CacheEntry /\ Sound(query[q].held)
      BY <1>3, <2>1, CopyType DEF QInv, HeldSound
    <3> QED
      BY <1>3, <2>1, <3>1, SourceKept DEF LevelSource
  <2>2. CASE Receive(q) \/ QueryStep(q)
    <3>1. CacheGet(q)
      BY <1>1, <1>3, <2>2, Destinations DEF QueryStep
    <3>2. query' = [query EXCEPT ![q].at = "copy", ![q].held = Cached(q), ![q].pause = 0]
          /\ Cached(q) # None
      BY <1>1, <1>3, <3>1, GotoFields DEF CacheGet, Delegate
    <3>3. query'[q].held = Cached(q) /\ query'[q].level = query[q].level
      BY <1>1, <3>2 DEF QueryType, Handler
    <3>4. Cached(q) = cache["local"][Question[q]] /\ Question[q] \in Names
      BY <1>3, <3>3, QueriesAssumption DEF Cached
    <3>5. UNCHANGED heap
      BY <3>1 DEF CacheGet
    <3> QED
      BY <3>2, <3>3, <3>4, <3>5 DEF LevelSource
  <2>3. ASSUME NEW r \in Queries, r # q, Receive(r) \/ QueryStep(r) PROVE query'[q] = query[q]
    BY <1>1, <2>3, HandlerStep DEF OnlyHandler
  <2>4. Environment => SameHandler(q)
    BY <1>1, EnvironmentHandlers
  <2> QED
    BY <2>1, <2>2, <2>3, <2>4, QNextSplit DEF SameHandler
<1>4. ASSUME NEW q \in Queries, query'[q].at = "put", query'[q].level = "local"
      PROVE  heap'[q].source = "local"
  <2>1. CASE heap'[q] = heap[q] /\ query'[q].at = query[q].at /\ query'[q].level = query[q].level
    BY <1>4, <2>1 DEF LevelSource
  <2>2. CASE Receive(q) \/ QueryStep(q)
    BY <1>4, <2>2, PutSource
  <2>3. ASSUME NEW r \in Queries, r # q, Receive(r) \/ QueryStep(r)
        PROVE  heap'[q] = heap[q] /\ query'[q] = query[q]
    BY <1>1, <2>3, HandlerStep, MessageStep DEF OnlyHandler, OnlyMessage
  <2>4. Environment => SameHandler(q) /\ heap'[q] = heap[q]
    BY <1>1, EnvironmentHandlers, EnvironmentMessages
  <2> QED
    BY <2>1, <2>2, <2>3, <2>4, QNextSplit DEF SameHandler
<1> QED
    BY <1>2, <1>3, <1>4 DEF LevelSource

\* PastDocker and PastLocal in the next state.
PastDockerNext(q) ==
    \/ query'[q].at \in InCache \cup InLocal \cup InRemote
    \/ query'[q].at \in {"put", "setReply"} /\ heap'[q].source # "docker"
PastLocalNext(q) ==
    \/ query'[q].at \in InRemote
    \/ query'[q].at \in InCache /\ query'[q].level = "remote"
    \/ query'[q].at \in {"put", "setReply"} /\ heap'[q].source = "remote"

\* The source of the message a handler sends.
LEMMA ReplySource ==
    ASSUME QInv, NEW q \in Queries, QueryStep(q), query'[q].at = "setReply"
    PROVE  \/ heap'[q].source = "docker"
           \/ query[q].at = "copy" /\ heap'[q].source = heap[query[q].held.msg].source
           \/ query[q].at = "put" /\ heap'[q].source = heap[q].source
           \/ query[q].at = "exchange" /\ heap'[q].source = "remote"
<1>1. QTypes /\ QueryType
    BY DEF QInv, QTypes
<1>2. DockerGet(q) \/ CacheCopy(q) \/ CachePut(q) \/ ExchangeDone(q)
    BY <1>1, Destinations DEF QueryStep
<1>3. ASSUME NEW m, NEW l, Allocate(q, m, l) PROVE heap'[q] = m
    BY <1>1, <1>3 DEF Allocate, QTypes, HeapType
<1>4. ~(\E how : End(q, how))
    BY <1>1, EndFields
<1>5. CASE DockerGet(q)
    BY <1>3, <1>4, <1>5 DEF DockerGet, Message
<1>6. CASE CacheCopy(q)
  <2>1. query[q].at = "copy" /\ Allocate(q, CopyOf(q), "setReply")
    BY <1>6 DEF CacheCopy, CopyOf
  <2> QED
    BY <1>3, <2>1, CopyIsMessage
<1>7. CASE CachePut(q)
  <2>1. query[q].at = "put" /\ heap[q] \in Msg
    BY <1>1, <1>7 DEF CachePut, QInv, OwnMessage, QTypes, HeapType
  <2>2. heap'[q].source = heap[q].source
    BY <1>1, <1>7, <2>1 DEF CachePut, QTypes, HeapType, Msg
  <2> QED
    BY <2>1, <2>2
<1>8. CASE ExchangeDone(q)
    BY <1>3, <1>4, <1>8 DEF ExchangeDone, Message
<1> QED
    BY <1>2, <1>5, <1>6, <1>7, <1>8

\* A handler gets past docker, past a candidate and past the local solver only
\* where these find nothing.
LEMMA OwnPast ==
    ASSUME QInv, SolversInTurn, LevelSource, NEW q \in Queries, QueryStep(q)
    PROVE  /\ query'[q].at = "docker" =>
                 \/ query[q].at \in BeforeSolvers /\ query'[q].cand = query[q].cand
                 \/ /\ query[q].at = "docker" /\ docker[Candidate(q)] = None
                    /\ query'[q].cand = query[q].cand + 1
           /\ PastDockerNext(q) =>
                 \/ PastDocker(q)
                 \/ query[q].at = "docker" /\ docker[Candidate(q)] = None /\ IsLastCandidate(q)
           /\ query'[q].at \in InLocal =>
                 \/ query[q].at \in InCache \cup InLocal /\ query'[q].cand = query[q].cand
                 \/ LocalNotFound(q) /\ query'[q].cand = query[q].cand + 1
           /\ PastLocalNext(q) => PastLocal(q) \/ (LocalNotFound(q) /\ IsLastCandidate(q))
<1>1. QTypes /\ QueryType /\ query[q].level \in Levels
    BY DEF QInv, QTypes, QueryType, Handler
<1> USE DEF InCache, InLocal, InRemote
<1>2. CASE DockerSolve(q)
    BY <1>1, <1>2, DockerSolveFields DEF PastDockerNext, PastLocalNext
<1>3. CASE LocalNotFound(q)
    BY <1>1, <1>3, LocalNotFoundFields DEF PastDockerNext, PastLocalNext, PastDocker
<1>4. CASE ~DockerSolve(q) /\ ~LocalNotFound(q)
  <2>1. SamePlace(q)
    BY <1>1, <1>4, OwnFields
  <2>2. CASE query'[q].at \in BeforeSolvers \cup {"dockerGet", "write", "end"}
    BY <2>2 DEF PastDockerNext, PastLocalNext, BeforeSolvers
  <2>3. CASE query'[q].at = "docker"
    <3>1. SystemSolve(q) \/ SystemGet(q)
      BY <1>1, <1>4, <2>3, Destinations DEF QueryStep
    <3> QED
      BY <2>1, <2>3, <3>1 DEF SystemSolve, SystemGet, BeforeSolvers, PastDockerNext,
                              PastLocalNext, SamePlace
  <2>4. CASE query'[q].at \in InCache \cup InLocal \cup InRemote
    <3>1. query[q].at \in InCache \cup InLocal \cup InRemote
      <4>1. \/ CacheGet(q) \/ CacheExpire(q) \/ LocalLoad(q) \/ Servers(q) \/ ServersLoaded(q)
            \/ ServersGet(q) \/ Exchange(q)
        BY <1>1, <1>4, <2>4, Destinations DEF QueryStep
      <4> QED
        BY <4>1 DEF CacheGet, CacheExpire, LocalLoad, Servers, ServersLoaded, ServersGet, Exchange
    <3>2. CASE query'[q].at \in InCache
      <4>1. CacheGet(q)
        BY <1>1, <1>4, <3>2, Destinations DEF QueryStep
      <4> QED
        BY <2>1, <3>1, <3>2, <4>1 DEF CacheGet, PastDockerNext, PastDocker, PastLocalNext,
                                      PastLocal, SamePlace
    <3>3. CASE query'[q].at \in InLocal
      <4>1. CacheGet(q) \/ CacheExpire(q) \/ LocalLoad(q)
        BY <1>1, <1>4, <3>3, Destinations DEF QueryStep
      <4>2. query[q].at \in InCache \cup InLocal
        BY <4>1 DEF CacheGet, CacheExpire, LocalLoad
      <4> QED
        BY <2>1, <3>3, <4>2 DEF PastDockerNext, PastDocker, PastLocalNext, SamePlace
    <3>4. CASE query'[q].at \in InRemote
      <4>1. \/ CacheGet(q) \/ CacheExpire(q) \/ Servers(q) \/ ServersLoaded(q) \/ ServersGet(q)
            \/ Exchange(q)
        BY <1>1, <1>4, <3>4, Destinations DEF QueryStep
      <4>2. CASE CacheGet(q) \/ CacheExpire(q)
        <5>1. query' = [query EXCEPT ![q].at = "copy", ![q].held = Cached(q), ![q].pause = 0]
                 => query'[q].at = "copy"
          BY <1>1 DEF QueryType, Handler
        <5>2. query[q].at \in InCache /\ query'[q].at = Delegate(query[q].level)
          BY <1>1, <3>4, <4>2, <5>1, GotoFields DEF CacheGet, CacheExpire
        <5>3. query[q].level = "remote"
          BY <1>1, <3>4, <5>2 DEF Delegate, Levels
        <5> QED
          BY <3>4, <5>2, <5>3 DEF PastDocker, PastLocal
      <4>3. CASE Servers(q) \/ ServersLoaded(q) \/ ServersGet(q) \/ Exchange(q)
        BY <3>4, <4>3 DEF Servers, ServersLoaded, ServersGet, Exchange, PastDocker, PastLocal
      <4> QED
        BY <4>1, <4>2, <4>3
    <3> QED
      BY <2>4, <3>2, <3>3, <3>4
  <2>5. CASE query'[q].at = "put"
    <3>1. query[q].at \in InLocal \cup InRemote
      BY <2>5, PutSource DEF LocalFound
    <3>2. heap'[q].source = "remote" => query[q].at \in InRemote
      BY <2>5, PutSource
    <3> QED
      BY <2>5, <3>1, <3>2 DEF PastDocker, PastLocal, PastLocalNext
  <2>6. CASE query'[q].at = "setReply"
    <3>1. heap'[q].source # "docker" => PastDocker(q)
      BY <2>6, ReplySource DEF PastDocker
    <3>2. heap'[q].source = "remote" => PastLocal(q)
      BY <1>1, <2>6, ReplySource DEF PastLocal, LevelSource, Levels
    <3> QED
      BY <2>6, <3>1, <3>2 DEF PastDockerNext, PastLocalNext
  <2>7. query'[q].at \in HandlerLocations
    BY <1>1, HandlerStep DEF OnlyHandler, QueryType, Handler
  <2> QED
    BY <2>2, <2>3, <2>4, <2>5, <2>6, <2>7 DEF HandlerLocations, BeforeSolvers
<1> QED
    BY <1>2, <1>3, <1>4

\* One candidate more.
LEMMA OneMoreCandidate ==
    ASSUME QInv, NEW q \in Queries
    PROVE  /\ NotInDocker(q, query[q].cand - 1) /\ docker[Candidate(q)] = None
                 => NotInDocker(q, query[q].cand)
           /\ NotInFile(q, query[q].cand - 1)
                 /\ (IsDocument(file) => ~HasEntry(file, Candidate(q)))
                 => NotInFile(q, query[q].cand)
<1>1. query[q].cand \in Nat \ {0}
    BY CandidateDomain DEF QInv, CandidateExists
<1>2. \A i \in 1..query[q].cand : i \in 1..(query[q].cand - 1) \/ i = query[q].cand
    BY <1>1
<1>3. Candidate(q) = CandidatesOf(q)[query[q].cand]
    BY DEF Candidate, CandidatesOf
<1> QED
    BY <1>2, <1>3 DEF NotInDocker, NotInFile

\* The local solver passes on only what the file does not have.
LEMMA NotFoundInFile ==
    ASSUME QInv, LoadSound, NEW q \in Queries, LocalNotFound(q), ~query[q].disturbed
    PROVE  IsDocument(file) => ~HasEntry(file, Candidate(q))
<1>1. query[q].at = "localLoaded"
      /\ (pc[q] = "idle" \/ (pc[q] = "apply" /\ ~HasEntry(conf[q], Candidate(q))))
    BY LocalNotFoundFields DEF QInv
<1>2. Candidate(q) \in Names
  <2>1. Candidates[Question[q]] \in Seq(Names)
    BY QueriesAssumption
  <2>2. query[q].cand \in DOMAIN Candidates[Question[q]]
    BY DEF QInv, CandidateExists
  <2> QED
    BY <2>1, <2>2, ElementOfSeq DEF Candidate
<1> QED
    BY <1>1, <1>2 DEF LoadSound, Active, Loading, IsDocument

LEMMA NextPassed ==
    ASSUME QInv, LoadSound, SolversInTurn, LevelSource, Passed, [QNext]_allvars
    PROVE  Passed'
<1>1. QTypes /\ QueryType
    BY DEF QInv, QTypes
<1> DEFINE DockerNext(q, k) == \A i \in 1..k : docker'[CandidatesOf(q)[i]] = None
           FileNext(q, k) == IsDocument(file') =>
                                \A i \in 1..k : ~HasEntry(file', CandidatesOf(q)[i])
           Good(q) == /\ query'[q].at = "docker" => DockerNext(q, query'[q].cand - 1)
                      /\ PastDockerNext(q) => DockerNext(q, Len(CandidatesOf(q)))
                      /\ query'[q].at \in InLocal => FileNext(q, query'[q].cand - 1)
                      /\ PastLocalNext(q) => FileNext(q, Len(CandidatesOf(q)))
<1>2. ASSUME NEW q \in Queries, query'[q].at \notin {"new", "end"}, ~query'[q].disturbed
      PROVE  Good(q)
  <2>1. CASE ~Active(q)
    <3>1. query'[q].at \in {"create", "system"}
      BY <1>2, <2>1, BecomesActive
    <3> QED
      BY <3>1 DEF PastDockerNext, PastLocalNext, InCache, InLocal, InRemote
  <2>2. CASE Active(q)
    <3>1. ~query[q].disturbed /\ UNCHANGED <<file, docker>>
      BY <1>2, <2>2, UndisturbedSteps
    <3>2. \A k : /\ NotInDocker(q, k) => DockerNext(q, k)
                 /\ NotInFile(q, k) => FileNext(q, k)
      BY <3>1 DEF NotInDocker, NotInFile
    <3>3. /\ query[q].at = "docker" => NotInDocker(q, query[q].cand - 1)
          /\ PastDocker(q) => NotInDocker(q, Len(CandidatesOf(q)))
          /\ query[q].at \in InLocal => NotInFile(q, query[q].cand - 1)
          /\ PastLocal(q) => NotInFile(q, Len(CandidatesOf(q)))
      BY <2>2, <3>1 DEF Passed
    <3> HIDE DEF DockerNext, FileNext
    <3>4. CASE QueryStep(q)
      <4>1. query[q].cand \in Nat
        BY <1>1 DEF QueryType, Handler
      <4>2. query[q].cand = 1 => /\ NotInDocker(q, query[q].cand - 1)
                                 /\ NotInFile(q, query[q].cand - 1)
        BY DEF NotInDocker, NotInFile
      <4>3. IsLastCandidate(q) => query[q].cand = Len(CandidatesOf(q))
        BY DEF IsLastCandidate, CandidatesOf
      <4>4. query[q].at \in BeforeSolvers \cup InCache => query[q].cand = 1
        BY DEF SolversInTurn
      <4>5. LocalNotFound(q) => NotInFile(q, query[q].cand)
        BY <3>1, <3>3, NotFoundInFile, OneMoreCandidate DEF LocalNotFound, InLocal
      <4>6. query[q].at = "docker" /\ docker[Candidate(q)] = None => NotInDocker(q, query[q].cand)
        BY <3>3, OneMoreCandidate
      <4>7. query'[q].at = "docker" => DockerNext(q, query'[q].cand - 1)
        <5>1. CASE query[q].at \in BeforeSolvers /\ query'[q].cand = query[q].cand
          BY <3>2, <4>2, <4>4, <5>1
        <5>2. CASE /\ query[q].at = "docker" /\ docker[Candidate(q)] = None
                   /\ query'[q].cand = query[q].cand + 1
          <6>1. query'[q].cand - 1 = query[q].cand
            BY <4>1, <5>2
          <6> QED
            BY <3>2, <4>6, <5>2, <6>1
        <5> QED
          BY <3>4, <5>1, <5>2, OwnPast
      <4>8. PastDockerNext(q) => DockerNext(q, Len(CandidatesOf(q)))
        BY <3>2, <3>3, <3>4, <4>3, <4>6, OwnPast
      <4>9. query'[q].at \in InLocal => FileNext(q, query'[q].cand - 1)
        <5>1. CASE query[q].at \in InCache \cup InLocal /\ query'[q].cand = query[q].cand
          BY <3>2, <3>3, <4>2, <4>4, <5>1
        <5>2. CASE LocalNotFound(q) /\ query'[q].cand = query[q].cand + 1
          <6>1. query'[q].cand - 1 = query[q].cand
            BY <4>1, <5>2
          <6> QED
            BY <3>2, <4>5, <5>2, <6>1
        <5> QED
          BY <3>4, <5>1, <5>2, OwnPast
      <4>10. PastLocalNext(q) => FileNext(q, Len(CandidatesOf(q)))
        BY <3>2, <3>3, <3>4, <4>3, <4>5, OwnPast
      <4> QED
        BY <4>7, <4>8, <4>9, <4>10
    <3>5. CASE SameHandler(q) /\ heap'[q] = heap[q]
      <4>1. (PastDockerNext(q) => PastDocker(q)) /\ (PastLocalNext(q) => PastLocal(q))
        BY <3>5 DEF SameHandler, PastDockerNext, PastDocker, PastLocalNext, PastLocal
      <4> QED
        BY <3>2, <3>3, <3>5, <4>1 DEF SameHandler
    <3>6. ASSUME NEW r \in Queries, r # q, Receive(r) \/ QueryStep(r)
          PROVE  SameHandler(q) /\ heap'[q] = heap[q]
      BY <1>1, <3>6, HandlerStep, MessageStep DEF OnlyHandler, OnlyMessage, SameHandler
    <3>7. Environment => SameHandler(q) /\ heap'[q] = heap[q]
      BY <1>1, EnvironmentHandlers, EnvironmentMessages
    <3>8. ~Receive(q)
      BY <2>2 DEF Receive, Active
    <3> QED
      BY <3>4, <3>5, <3>6, <3>7, <3>8, QNextSplit
  <2> QED
    BY <2>1, <2>2
<1> QED
    BY <1>2 DEF Passed, Active, NotInDocker, NotInFile, PastDocker, PastLocal, PastDockerNext,
                PastLocalNext, CandidatesOf

LEMMA InitOrder == QInit => SolversInTurn /\ LevelSource /\ Passed
<1> SUFFICES ASSUME QInit PROVE SolversInTurn /\ LevelSource /\ Passed
    OBVIOUS
<1>1. \A q \in Queries : query[q].at = "new" /\ query[q].cand = 1
    BY DEF QInit, NewHandler
<1>2. \A n \in Names : cache["local"][n] = None
    BY DEF QInit
<1> QED
    BY <1>1, <1>2 DEF SolversInTurn, LevelSource, Passed, Active, InLocal, InRemote

\* The name a client asks for goes to docker first, then to the file, then to the
\* remote servers, and none of them is passed over while it has an answer, as
\* long as no save and no container event overlaps the query and the disk can be
\* read.
THEOREM SolversKeepTheirOrder == ~DiskFaults /\ QSpec => []OrderWhenUndisturbed
<1> DEFINE OInv == Calm /\ LoadSound /\ SolversInTurn /\ LevelSource /\ Passed
<1>1. ~DiskFaults /\ QInit => ~DiskFaults /\ OInv
    BY InitLoads, InitOrder
<1>2. ~DiskFaults /\ QInv /\ OInv /\ [QNext]_allvars => (~DiskFaults)' /\ OInv'
    BY NextCalm, NextLoadSound, NextSolversInTurn, NextLevelSource, NextPassed
<1>3. QInv /\ OInv => OrderWhenUndisturbed
  <2> SUFFICES ASSUME QInv, Passed, NEW q \in Queries, query[q].at \in {"put", "setReply"},
                      ~query[q].disturbed,
                      NEW i \in DOMAIN Candidates[Question[q]]
               PROVE  /\ heap[q].source # "docker" => docker[Candidates[Question[q]][i]] = None
                      /\ heap[q].source = "remote" /\ IsDocument(file)
                            => ~HasEntry(file, Candidates[Question[q]][i])
    BY DEF OrderWhenUndisturbed
  <2>1. i \in 1..Len(CandidatesOf(q))
    BY CandidateDomain DEF CandidatesOf
  <2> QED
    BY <2>1 DEF Passed, Active, PastDocker, PastLocal, NotInDocker, NotInFile, CandidatesOf
<1> QED
    BY <1>1, <1>2, <1>3, QueriesInvariant, PTL DEF QSpec
===============================================================================
