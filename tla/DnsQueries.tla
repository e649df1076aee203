------------------------------ MODULE DnsQueries ------------------------------
(***************************************************************************)
(* DNS queries against a configuration that is being changed:              *)
(* handleQuestion of dns.go, the solvers of proxy/ in their order, the     *)
(* timed caches in front of the local and the remote solver, the main      *)
(* cache, and the registry of container names.  Each query is a goroutine; *)
(* it loads the file with ConfigStore's steps, and a save of ConfigStore   *)
(* clears the caches one by one.  Questions are of type A, for names other *)
(* than the host machine's, and local entries are A records.               *)
(***************************************************************************)
EXTENDS ConfigStore, Integers

CONSTANTS Queries,         \* DNS queries, one goroutine each
          Question,        \* the name each query asks for
          Candidates,      \* getAllHosts: the entries that match a name, in order
          Ttl,             \* ttl of an entry, in seconds; one without a type has one too
          RemoteTtl,       \* ttl of the answers of the remote servers
          TtlModulus,      \* 2^32 in the code: a ttl is a uint32
          NumServers,      \* remote servers, asked in order
          MaxTime,         \* bound: seconds that pass
          MaxPause,        \* bound: seconds that pass within one doSolve
          MaxDockerEvents, \* bound: container names registered or removed
          None             \* no value

ASSUME QueriesAssumption ==
    /\ Queries \subseteq Readers
    /\ Question \in [Queries -> Names]
    /\ Candidates \in [Names -> Seq(Names) \ {<< >>}]
    /\ TtlModulus \in Nat \ {0}
    /\ Ttl \in [Entries \cup {NoType} -> 0..(TtlModulus - 1)]
    /\ RemoteTtl \in 0..(TtlModulus - 1)
    /\ NumServers \in Nat \ {0}
    /\ NumCaches = 3
    /\ MaxTime \in Nat /\ MaxPause \in Nat /\ MaxDockerEvents \in Nat

\* What a solver may put into its message, and the messages.
Answer == Entries \cup {NoType, "ok", "empty", "nxdomain"}
Msg == [source : {"docker", "local", "remote"}, answer : Answer, ttl : 0..(TtlModulus - 1),
        id : Queries \cup {None}, born : Nat, issued : Nat]
\* An entry of a timed cache names the query that allocated its message.
CacheEntry == [msg : Queries, creation : Nat, timeout : Nat]

ASSUME NoneAssumption ==
    None \notin Msg \cup CacheEntry \cup {"ip", "noIp", "nxdomain", "timeout"}

VARIABLES query,     \* the handler of each query: its location and its locals
          heap,      \* the message object each query allocated
          sent,      \* the message WriteMsg sent for each query
          solvers,   \* the list getSolvers makes: "none", "creating", "ready"
          main,      \* keys present in the main cache
          cache,     \* the timed caches of the local and the remote solver
          docker,    \* registry of containers: a name has an address, "noIp" or None
          now,       \* seconds since the start
          events     \* container names registered or removed

qvars == <<query, heap, sent, solvers, main, cache, docker, now, events>>
allvars == <<vars, qvars>>
-----------------------------------------------------------------------------
(***************************************************************************)
(* A handler: at, its location; cand, the candidate its docker or local    *)
(* solver looks at; level, the cached solver it is in; server and res, the *)
(* server it asks next and the answer of the one before; held, the cache   *)
(* entry doSolve found; ref, the query that allocated the message it works *)
(* on; pause, the seconds since doSolve found the entry; outcome, how it   *)
(* ended; disturbed (history), a save or a container event overlapped it.  *)
(***************************************************************************)
NewHandler ==
    [at |-> "new", cand |-> 1, level |-> "local", server |-> 1, res |-> None,
     held |-> None, ref |-> None, pause |-> 0, outcome |-> "none",
     disturbed |-> FALSE]

QInit ==
    /\ Init
    /\ query = [q \in Queries |-> NewHandler]
    /\ heap = [q \in Queries |-> None]
    /\ sent = [q \in Queries |-> None]
    /\ solvers = "none"
    /\ main = {}
    /\ cache = [l \in {"local", "remote"} |-> [n \in Names |-> None]]
    /\ docker = [n \in Names |-> None]
    /\ now = 0
    /\ events = 0

Active(q) == query[q].at \notin {"new", "end"}
Candidate(q) == Candidates[Question[q]][query[q].cand]
IsLastCandidate(q) == query[q].cand = Len(Candidates[Question[q]])

Goto(q, l) == query' = [query EXCEPT ![q].at = l]

\* The handler ends; handleQuestion recovers from a panic and sends nothing.
End(q, how) == query' = [query EXCEPT ![q].at = "end", ![q].outcome = how]

\* Mutant of Enter: the next solver goes on at the last candidate.
EnterKeepingCandidate(q, l) ==
    query' = [query EXCEPT ![q].at = "get", ![q].level = l]

\* The handler starts the solver of the given level with its cache.
Enter(q, l) ==
    query' = [query EXCEPT ![q].at = "get", ![q].level = l, ![q].cand = 1]

\* A message from a solver.  In the second born its record had its full ttl,
\* in the second issued it had ttl seconds left (both are history).
Message(source, answer, ttl) ==
    [source |-> source, answer |-> answer, ttl |-> ttl, id |-> None,
     born |-> now, issued |-> now]

\* q allocates a message and goes on with it at l.
Allocate(q, m, l) ==
    /\ heap' = [heap EXCEPT ![q] = m]
    /\ query' = [query EXCEPT ![q].at = l, ![q].ref = q]

HasAnswer(m) == m.answer \notin {"empty", "nxdomain"}
\* The ttl of the first answer, 5 when there is none.
GetTtl(m) == IF HasAnswer(m) THEN m.ttl ELSE 5
-----------------------------------------------------------------------------
(***************************************************************************)
(* getSolvers: the first query makes the list; a query that comes while it *)
(* is being made finds no solver and is not answered.                      *)
(***************************************************************************)
Unsaved(p) == pc[p] \in {"open", "encode", "clear", "close"}

Receive(q) ==
    /\ query[q].at = "new"
    /\ solvers' = IF solvers = "none" THEN "creating" ELSE solvers
    /\ query' = [query EXCEPT
          ![q].at = CASE solvers = "none" -> "create"
                      [] solvers = "creating" -> "end"
                      [] solvers = "ready" -> "system",
          ![q].outcome = IF solvers = "creating" THEN "unanswered" ELSE "none",
          ![q].disturbed = solvers = "creating" \/ \E p \in Procs : Unsaved(p)]
    /\ UNCHANGED <<vars, heap, sent, main, cache, docker, now, events>>

CreateSolvers(q) ==
    /\ query[q].at = "create"
    /\ solvers' = "ready"
    /\ Goto(q, "system")
    /\ UNCHANGED <<vars, heap, sent, main, cache, docker, now, events>>
-----------------------------------------------------------------------------
(***************************************************************************)
(* LoadConfiguration as a query calls it: the load and, where it must, the *)
(* save are the steps of ConfigStore.                                      *)
(***************************************************************************)
CallLoad(q, l) ==
    /\ pc' = [pc EXCEPT ![q] = "load"]
    /\ Goto(q, l)
    /\ UNCHANGED <<file, op, conf, ret, buffered, clear, reply, clock, requests,
                   crashes, torn>>

LoadFailed(q) == pc[q] = "idle"
Loaded(q) == pc[q] = "apply"

\* The load has returned; its configuration is conf[q].
ReturnFromLoad(q) ==
    /\ Finish(q, "ok")
    /\ UNCHANGED <<file, buffered, clock, requests, crashes, torn>>
-----------------------------------------------------------------------------
(***************************************************************************)
(* SystemDnsSolver: the name is compared with the host machine's, which    *)
(* the configuration gives (flags when it cannot be loaded), alone and     *)
(* under the search domain, which the main cache keeps.  The code loads    *)
(* the configuration once for each of the two; one load stands for both.   *)
(***************************************************************************)
SystemLoad(q) ==
    /\ query[q].at = "system"
    /\ CallLoad(q, "systemLoaded")
    /\ UNCHANGED <<heap, sent, solvers, main, cache, docker, now, events>>

SystemSolve(q) ==
    /\ query[q].at = "systemLoaded"
    /\ \/ LoadFailed(q) /\ UNCHANGED vars
       \/ Loaded(q) /\ ReturnFromLoad(q)
    /\ \/ "SEARCH_DOMAIN" \in main /\ Goto(q, "systemGet") /\ UNCHANGED main
       \/ /\ "SEARCH_DOMAIN" \notin main
          /\ main' = main \cup {"SEARCH_DOMAIN"}
          /\ Goto(q, "docker")
    /\ UNCHANGED <<heap, sent, solvers, cache, docker, now, events>>

\* cache.Get(SearchDomainKey).(string) panics when the key is gone.
SystemGet(q) ==
    /\ query[q].at = "systemGet"
    /\ IF "SEARCH_DOMAIN" \in main THEN Goto(q, "docker") ELSE End(q, "panic")
    /\ UNCHANGED <<vars, heap, sent, solvers, main, cache, docker, now, events>>
-----------------------------------------------------------------------------
(***************************************************************************)
(* DockerDnsSolver: the first candidate that is registered answers.        *)
(***************************************************************************)
DockerSolve(q) ==
    /\ query[q].at = "docker"
    /\ \/ docker[Candidate(q)] # None /\ Goto(q, "dockerGet")
       \/ /\ docker[Candidate(q)] = None
          /\ IF IsLastCandidate(q) THEN Enter(q, "local")
             ELSE query' = [query EXCEPT ![q].cand = @ + 1]
    /\ UNCHANGED <<vars, heap, sent, solvers, main, cache, docker, now, events>>

\* s.c.Get(key).(string) panics when the name was removed since; a container
\* registered without an address makes ipArr[1] panic.
DockerGet(q) ==
    /\ query[q].at = "dockerGet"
    /\ CASE docker[Candidate(q)] = "ip" ->
              Allocate(q, Message("docker", "ok", 0), "setReply")
         [] docker[Candidate(q)] = "noIp" -> End(q, "noAddress") /\ UNCHANGED heap
         [] OTHER -> End(q, "panic") /\ UNCHANGED heap
    /\ UNCHANGED <<vars, sent, solvers, main, cache, docker, now, events>>
-----------------------------------------------------------------------------
(***************************************************************************)
(* CacheDnsSolver around the local and around the remote solver.           *)
(***************************************************************************)
Cached(q) == cache[query[q].level][Question[q]]
IsValid(e) == e.timeout > now - e.creation
Delegate(l) == IF l = "local" THEN "localLoad" ELSE "servers"

\* GetTimeValue: a valid entry is held, an expired one is removed in a step
\* of its own.
CacheGet(q) ==
    /\ query[q].at = "get"
    /\ \/ Cached(q) = None /\ Goto(q, Delegate(query[q].level))
       \/ /\ Cached(q) # None
          /\ IsValid(Cached(q))
          /\ query' = [query EXCEPT ![q].at = "copy", ![q].held = Cached(q),
                                    ![q].pause = 0]
       \/ Cached(q) # None /\ ~IsValid(Cached(q)) /\ Goto(q, "expire")
    /\ UNCHANGED <<vars, heap, sent, solvers, main, cache, docker, now, events>>

CacheExpire(q) ==
    /\ query[q].at = "expire"
    /\ cache' = [cache EXCEPT ![query[q].level][Question[q]] = None]
    /\ Goto(q, Delegate(query[q].level))
    /\ UNCHANGED <<vars, heap, sent, solvers, main, docker, now, events>>

\* Mutants of CacheCopy: the cached message itself is changed and sent; the
\* time it spent in the cache is not taken off its ttl.
CacheCopyShared(q) ==
    /\ query[q].at = "copy"
    /\ LET e == query[q].held
           m == heap[e.msg]
           left == GetTtl(m) - (now - e.creation)
       IN  /\ heap' = [heap EXCEPT ![e.msg].ttl = IF HasAnswer(m) THEN left % TtlModulus ELSE @]
           /\ query' = [query EXCEPT ![q].at = "setReply", ![q].ref = e.msg]
    /\ UNCHANGED <<vars, sent, solvers, main, cache, docker, now, events>>

CacheCopyFullTtl(q) ==
    /\ query[q].at = "copy"
    /\ LET e == query[q].held
       IN  Allocate(q, [heap[e.msg] EXCEPT !.born = e.creation, !.issued = now, !.id = None],
                    "setReply")
    /\ UNCHANGED <<vars, sent, solvers, main, cache, docker, now, events>>

\* doSolve copies the cached message and gives it the ttl that is left.
CacheCopy(q) ==
    /\ query[q].at = "copy"
    /\ LET e == query[q].held
           m == heap[e.msg]
           left == GetTtl(m) - (now - e.creation)
       IN  Allocate(q, [m EXCEPT !.ttl = IF HasAnswer(m) THEN left % TtlModulus ELSE @,
                                 !.born = e.creation, !.issued = now, !.id = None], "setReply")
    /\ UNCHANGED <<vars, sent, solvers, main, cache, docker, now, events>>

\* The message that is stored is the one the handler goes on with.
CachePut(q) ==
    /\ query[q].at = "put"
    /\ cache' = [cache EXCEPT ![query[q].level][Question[q]] =
                    [msg |-> q, creation |-> now, timeout |-> GetTtl(heap[q])]]
    /\ heap' = [heap EXCEPT ![q].born = now, ![q].issued = now]
    /\ Goto(q, "setReply")
    /\ UNCHANGED <<vars, sent, solvers, main, docker, now, events>>
-----------------------------------------------------------------------------
(***************************************************************************)
(* localDnsSolver: every candidate is looked up in a configuration loaded  *)
(* for it; no configuration, no active environment and no such entry all   *)
(* lead to the next candidate.                                             *)
(***************************************************************************)
HasEntry(c, name) == HasActiveEnv(c) /\ HasHostname(ActiveEnv(c), name)
EntryOf(c, name) ==
    ActiveEnv(c).hostnames[GetHostname(ActiveEnv(c), name)].entry

LocalLoad(q) ==
    /\ query[q].at = "localLoad"
    /\ CallLoad(q, "localLoaded")
    /\ UNCHANGED <<heap, sent, solvers, main, cache, docker, now, events>>

\* Mutants of NextCandidate: one candidate too many; always the same one.
NextCandidateTooMany(q) ==
    IF query[q].cand > Len(Candidates[Question[q]]) THEN Enter(q, "remote")
    ELSE query' = [query EXCEPT ![q].at = "localLoad", ![q].cand = @ + 1]

NextCandidateAgain(q) ==
    IF IsLastCandidate(q) THEN Enter(q, "remote")
    ELSE query' = [query EXCEPT ![q].at = "localLoad"]

NextCandidate(q) ==
    IF IsLastCandidate(q) THEN Enter(q, "remote")
    ELSE query' = [query EXCEPT ![q].at = "localLoad", ![q].cand = @ + 1]

LocalFound(q) ==
    /\ query[q].at = "localLoaded"
    /\ Loaded(q)
    /\ HasEntry(conf[q], Candidate(q))
    /\ LET entry == EntryOf(conf[q], Candidate(q))
       IN  Allocate(q, Message("local", entry, Ttl[entry]), "put")
    /\ ReturnFromLoad(q)
    /\ UNCHANGED <<sent, solvers, main, cache, docker, now, events>>

LocalNotFound(q) ==
    /\ query[q].at = "localLoaded"
    /\ \/ LoadFailed(q) /\ UNCHANGED vars
       \/ Loaded(q) /\ ~HasEntry(conf[q], Candidate(q)) /\ ReturnFromLoad(q)
    /\ NextCandidate(q)
    /\ UNCHANGED <<heap, sent, solvers, main, cache, docker, now, events>>
-----------------------------------------------------------------------------
(***************************************************************************)
(* remoteDnsSolver: the configuration with the servers is kept in the main *)
(* cache under SERVERS.  Without it, and with an unreadable file, there is *)
(* no answer.                                                              *)
(***************************************************************************)
Servers(q) ==
    /\ query[q].at = "servers"
    /\ \/ "SERVERS" \in main /\ Goto(q, "serversGet") /\ UNCHANGED vars
       \/ "SERVERS" \notin main /\ CallLoad(q, "serversLoaded")
    /\ UNCHANGED <<heap, sent, solvers, main, cache, docker, now, events>>

\* Mutant of ServersLoaded: the configuration is not put into the cache.
ServersLoadedNotCached(q) ==
    /\ query[q].at = "serversLoaded"
    /\ \/ /\ LoadFailed(q)
          /\ End(q, "unanswered")
          /\ UNCHANGED vars
       \/ /\ Loaded(q)
          /\ ReturnFromLoad(q)
          /\ Goto(q, "serversGet")
    /\ UNCHANGED <<heap, sent, solvers, main, cache, docker, now, events>>

ServersLoaded(q) ==
    /\ query[q].at = "serversLoaded"
    /\ \/ /\ LoadFailed(q)
          /\ End(q, "unanswered")
          /\ UNCHANGED <<vars, main>>
       \/ /\ Loaded(q)
          /\ ReturnFromLoad(q)
          /\ main' = main \cup {"SERVERS"}
          /\ Goto(q, "serversGet")
    /\ UNCHANGED <<heap, sent, solvers, cache, docker, now, events>>

\* c.Get(SERVERS).(*localvo.Configuration) panics when a save cleared it since.
ServersGet(q) ==
    /\ query[q].at = "serversGet"
    /\ IF "SERVERS" \in main THEN Goto(q, "exchange") ELSE End(q, "panic")
    /\ UNCHANGED <<vars, heap, sent, solvers, main, cache, docker, now, events>>

\* A server answers with success (cached), or it answers NXDOMAIN or not at
\* all and the next one is asked.
Exchange(q) ==
    /\ query[q].at = "exchange"
    /\ query[q].server <= NumServers
    /\ \/ \E answer \in {"ok", "empty"} :
             Allocate(q, Message("remote", answer, RemoteTtl), "put")
       \/ /\ \E r \in {"nxdomain", "timeout"} :
                query' = [query EXCEPT ![q].res = r, ![q].server = @ + 1]
          /\ UNCHANGED heap
    /\ UNCHANGED <<vars, sent, solvers, main, cache, docker, now, events>>

\* Mutant of ExchangeDone: an NXDOMAIN is not passed on.
ExchangeDoneSilent(q) ==
    /\ query[q].at = "exchange"
    /\ query[q].server > NumServers
    /\ End(q, "unanswered")
    /\ UNCHANGED <<vars, heap, sent, solvers, main, cache, docker, now, events>>

\* No server is left: the answer of the last one, if any, is sent uncached.
ExchangeDone(q) ==
    /\ query[q].at = "exchange"
    /\ query[q].server > NumServers
    /\ IF query[q].res = "nxdomain"
       THEN Allocate(q, Message("remote", "nxdomain", 0), "setReply")
       ELSE End(q, "unanswered") /\ UNCHANGED heap
    /\ UNCHANGED <<vars, sent, solvers, main, cache, docker, now, events>>
-----------------------------------------------------------------------------
(***************************************************************************)
(* The end of handleQuestion: SetReply writes the id of the request into   *)
(* the message, WriteMsg sends it.                                         *)
(***************************************************************************)
SetReply(q) ==
    /\ query[q].at = "setReply"
    /\ heap' = [heap EXCEPT ![query[q].ref].id = q]
    /\ Goto(q, "write")
    /\ UNCHANGED <<vars, sent, solvers, main, cache, docker, now, events>>

WriteMsg(q) ==
    /\ query[q].at = "write"
    /\ sent' = [sent EXCEPT ![q] = heap[query[q].ref]]
    /\ End(q, "replied")
    /\ UNCHANGED <<vars, heap, solvers, main, cache, docker, now, events>>

QueryStep(q) ==
    \/ CreateSolvers(q)
    \/ SystemLoad(q) \/ SystemSolve(q) \/ SystemGet(q)
    \/ DockerSolve(q) \/ DockerGet(q)
    \/ CacheGet(q) \/ CacheExpire(q) \/ CacheCopy(q) \/ CachePut(q)
    \/ LocalLoad(q) \/ LocalFound(q) \/ LocalNotFound(q)
    \/ Servers(q) \/ ServersLoaded(q) \/ ServersGet(q)
    \/ Exchange(q) \/ ExchangeDone(q)
    \/ SetReply(q) \/ WriteMsg(q)
-----------------------------------------------------------------------------
(***************************************************************************)
(* The environment of a query: the store, docker, time.                    *)
(***************************************************************************)
\* Every query that is under way may see the effect.
Disturb ==
    query' = [q \in Queries |->
                 [query[q] EXCEPT !.disturbed = @ \/ Active(q)]]

\* A step of the store that touches no cache; opening and writing the file
\* disturbs the queries.
StoreStep(p) ==
    /\ \/ LoadConfiguration(p) /\ UNCHANGED query
       \/ p \notin Queries /\ Apply(p) /\ UNCHANGED query
       \/ Open(p) /\ Disturb
       \/ Encode(p) /\ Disturb
       \/ Close(p) /\ Disturb
    /\ UNCHANGED <<heap, sent, solvers, main, cache, docker, now, events>>

\* ClearAllCaches: the main cache, then the registered ones in their order.
ClearStep(p) ==
    /\ ClearCache(p)
    /\ main' = IF clear[p] = 0 THEN {} ELSE main
    /\ cache' = CASE clear[p] = 0 -> cache
                  [] clear[p] = 1 -> [cache EXCEPT !["local"] = [n \in Names |-> None]]
                  [] clear[p] = 2 -> [cache EXCEPT !["remote"] = [n \in Names |-> None]]
    /\ Disturb
    /\ UNCHANGED <<heap, sent, solvers, docker, now, events>>

\* A container with that name is registered or removed.
DockerEvent(n) ==
    /\ events < MaxDockerEvents
    /\ events' = events + 1
    /\ docker' \in {[docker EXCEPT ![n] = a] : a \in {"ip", "noIp", None} \ {docker[n]}}
    /\ Disturb
    /\ UNCHANGED <<vars, heap, sent, solvers, main, cache, now>>

\* A second passes; a handler is not stopped for longer than MaxPause seconds
\* between finding a cache entry and copying it.
Tick ==
    /\ now < MaxTime
    /\ \A q \in Queries : query[q].at = "copy" => query[q].pause < MaxPause
    /\ now' = now + 1
    /\ query' = [q \in Queries |->
                    IF query[q].at = "copy" THEN [query[q] EXCEPT !.pause = @ + 1]
                    ELSE query[q]]
    /\ UNCHANGED <<vars, heap, sent, solvers, main, cache, docker, events>>

QNext ==
    \/ \E q \in Queries : Receive(q) \/ QueryStep(q)
    \/ \E p \in Procs : StoreStep(p) \/ ClearStep(p)
    \/ \E p \in Procs \ Queries, o \in Requests : Request(p, o) /\ UNCHANGED qvars
    \/ \E n \in Names : DockerEvent(n)
    \/ Tick

QSpec == QInit /\ [][QNext]_allvars

\* A goroutine that can run is scheduled, whether it is in a solver or in the
\* store; queries, operations, container events and the passing of time are the
\* environment's.
GoroutineStep(p) ==
    \/ p \in Queries /\ QueryStep(p)
    \/ StoreStep(p) \/ ClearStep(p)

QFairSpec == QSpec /\ \A p \in Procs : WF_allvars(GoroutineStep(p))
-----------------------------------------------------------------------------
(***************************************************************************)
(* Properties                                                              *)
(***************************************************************************)
HandlerLocations ==
    {"new", "create", "system", "systemLoaded", "systemGet", "docker", "dockerGet",
     "get", "expire", "copy", "put", "localLoad", "localLoaded", "servers",
     "serversLoaded", "serversGet", "exchange", "setReply", "write", "end"}

\* The type of the variables of the query path.
QTypeOK ==
    /\ \A q \in Queries :
          /\ query[q].at \in HandlerLocations
          /\ query[q].cand \in DOMAIN Candidates[Question[q]]
          /\ query[q].server \in 1..(NumServers + 1)
          /\ query[q].outcome \in {"none", "replied", "unanswered", "panic", "noAddress"}
          /\ query[q].at \in {"put", "setReply", "write"} => query[q].ref \in Queries
          /\ heap[q] # None => heap[q].ttl \in 0..(TtlModulus - 1)
    /\ main \subseteq {"SEARCH_DOMAIN", "SERVERS"}
    /\ docker \in [Names -> {"ip", "noIp", None}]

\* Every reply carries the id of its own request, although the message one
\* handler is about to send is the very object the cache hands to others.
ReplyBelongsToRequest == \A q \in Queries : sent[q] # None => sent[q].id = q

\* The ttl of a message that lies in a cache is the one its lifetime there was
\* computed from: no handler changes a cached message.
CachedMessageIntact ==
    \A l \in {"local", "remote"}, n \in Names :
        cache[l][n] # None => cache[l][n].timeout = GetTtl(heap[cache[l][n].msg])

FullTtl(m) == CASE m.source = "local" -> Ttl[m.answer]
                [] m.source = "remote" -> RemoteTtl
                [] m.source = "docker" -> 0

\* The ttl a client gets ends when the record's own does, also when the answer
\* comes from the cache: it is never prolonged and never wraps around.
TtlRespected ==
    \A q \in Queries :
        sent[q] # None /\ HasAnswer(sent[q]) =>
            sent[q].issued + sent[q].ttl = sent[q].born + FullTtl(sent[q])

\* A key a query has just found in the main cache or in the registry is gone,
\* and the query panics, only when a save cleared the cache or a container left
\* while it was under way.
PanicNeedsInterference ==
    \A q \in Queries : query[q].outcome = "panic" => query[q].disturbed

\* A query that ran undisturbed ends without an answer only if the last of the
\* remote servers did not reply, or if a torn save has left the file as it is.
UnansweredNeedsTimeout ==
    [][\A q \in Queries :
          query[q].outcome = "none" /\ query'[q].outcome = "unanswered"
              => query'[q].disturbed \/ query[q].res = "timeout" \/ torn]_allvars

\* Docker answers before the local file and the local file before the remote
\* servers, as long as no save and no container event overlaps the query.
OrderWhenUndisturbed ==
    \A q \in Queries :
        /\ query[q].at \in {"put", "setReply"}
        /\ ~query[q].disturbed
        /\ query[q].ref = q
        => LET names == {Candidates[Question[q]][i] : i \in DOMAIN Candidates[Question[q]]}
           IN  /\ heap[q].source # "docker" => \A n \in names : docker[n] = None
               /\ heap[q].source = "remote" /\ IsDocument(file)
                     => \A n \in names : ~HasEntry(file, n)

\* Every query that was received ends.
QueriesEnd == \A q \in Queries : Active(q) ~> query[q].at = "end"
-----------------------------------------------------------------------------
Quiet ==
    /\ \A q \in Queries : ~Active(q)
    /\ \A p \in Procs : pc[p] = "idle"

\* Once a save has returned and no query is under way, the cache in front of
\* the local solver holds nothing the file no longer says.
SavedFileReplacesCache ==
    Quiet /\ IsDocument(file) =>
        \A n \in Names :
            cache["local"][n] # None =>
                LET m == heap[cache["local"][n].msg]
                IN  \E i \in DOMAIN Candidates[n] :
                        /\ HasEntry(file, Candidates[n][i])
                        /\ EntryOf(file, Candidates[n][i]) = m.answer
===============================================================================
