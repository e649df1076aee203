------------------------------ MODULE RestClient ------------------------------
(***************************************************************************)
(* The requests of the web page (app/src) to the REST API.  $.ajax returns *)
(* at once; the request reaches the server, and its answer the page, later *)
(* and in any order, or one of them is lost.  The server is the atomic     *)
(* store of AtomicConfig, which answers 400 where an operation is rejected *)
(* or the JSON cannot be decoded.                                          *)
(***************************************************************************)
EXTENDS LocalConfiguration

CONSTANTS InitialFiles,   \* documents the server may start with
          FirstClock,     \* first reading of the clock that ids are drawn from
          Undecodable,    \* the entry of a JSON that HostnameV1 cannot hold
          ForeignOps,     \* operations another client may do
          Faults          \* bound: the disturbances that may happen, one at most

ASSUME FaultsAssumption == Faults \subseteq {"lost", "foreign", "refreshed"}

VARIABLES doc,      \* the configuration of the server
          clock,    \* its clock
          net,      \* requests under way, in the order they were sent
          history   \* history: what has happened that can confuse the page

Server == INSTANCE AtomicConfig WITH Requests <- {}

serverVars == <<doc, clock>>
Events == {"active", "table",                \* requests that overlapped
           "refused", "lost", "foreign",     \* a refusal, a loss, another client
           "refreshed", "deleted", "cancelled"}

Pending == [status |-> "pending"]
\* op is the operation, then names the callbacks of the request.
Request(op, then) == [op |-> op, then |-> then, reply |-> Pending]
-----------------------------------------------------------------------------
\* What a request reads or writes that another one writes or reads.
Touches(r) ==
    CASE r.op.kind = "setActive" -> {"active"}
      [] r.op.kind \in {"find", "addHostname", "updateHostname", "removeHostname"} -> {"table"}
      [] OTHER -> {}

Touched(reqs) == UNION {Touches(reqs[i]) : i \in DOMAIN reqs}

\* The requests reqs are sent while those of rest are under way.
Post(rest, reqs, events) ==
    /\ net' = rest \o reqs
    /\ history' = history \cup events \cup (Touched(rest) \cap Touched(reqs))

Ajax(req) == Post(net, <<req>>, {})
-----------------------------------------------------------------------------
EnvNamesOf(c) == [i \in DOMAIN c.envs |-> c.envs[i].name]

Ok(data) == [status |-> "ok", data |-> data]
Bad == [status |-> "bad"]

IsRead(op) == op.kind \in {"active", "envs", "find"}
Read(op) ==
    CASE op.kind = "active" -> Ok(doc.activeEnv)
      [] op.kind = "envs" -> Ok(EnvNamesOf(doc))
      [] op.kind = "find" /\ HasEnv(doc, op.env) ->
            Ok(doc.envs[GetEnv(doc, op.env)].hostnames)
      [] OTHER -> Bad

Invalid(op) == op.kind \in {"addHostname", "updateHostname"} /\ op.host.entry = Undecodable

Answer(i, reply) ==
    /\ net' = [net EXCEPT ![i].reply = reply]
    /\ UNCHANGED history

\* The server handles a request.
Handle(i) ==
    /\ i \in DOMAIN net
    /\ net[i].reply = Pending
    /\ LET op == net[i].op
       IN  \/ /\ IsRead(op)
              /\ Answer(i, Read(op))
              /\ UNCHANGED serverVars
           \/ /\ ~IsRead(op)
              /\ Invalid(op)
              /\ Answer(i, Bad)
              /\ UNCHANGED serverVars
           \/ /\ ~IsRead(op)
              /\ ~Invalid(op)
              /\ \/ Server!Accept(op) /\ Answer(i, Ok(<< >>))
                 \/ Server!Reject(op) /\ Answer(i, Bad)

\* A request or an answer gets lost, another client interferes, or the page is
\* loaded anew.
Fault(f) == f \in Faults /\ Faults \cap history = {}

\* The request is lost before the server sees it, or its answer afterwards.
Lose(i) ==
    /\ Fault("lost")
    /\ i \in DOMAIN net
    /\ net' = [net EXCEPT ![i].reply = [status |-> "lost"]]
    /\ history' = history \cup {"lost"}
    /\ UNCHANGED serverVars

\* Another page, or a script, uses the API.
Foreign ==
    /\ Fault("foreign")
    /\ \E op \in ForeignOps : Server!Accept(op)
    /\ history' = history \cup {"foreign"}
    /\ UNCHANGED net
-----------------------------------------------------------------------------
\* The request whose answer has arrived, and those that remain.
Arrived(i) == i \in DOMAIN net /\ net[i].reply.status # "pending"
Rest(i) == RemoveIndex(net, i)
Succeeded(i) == net[i].reply.status = "ok"

\* A component that is gone: the callbacks of its requests have no effect.
Abandon(reqs, names) ==
    [i \in DOMAIN reqs |->
       IF reqs[i].then \in names THEN [reqs[i] EXCEPT !.then = "nothing"] ELSE reqs[i]]
===============================================================================
