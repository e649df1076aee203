-------------------------- MODULE LocalConfiguration --------------------------
(***************************************************************************)
(* The configuration document kept in conf/config.json and the operations  *)
(* events/local/localvo/localvo.go defines on it.  An operation returns    *)
(* the new configuration, or Rejected where the code returns an error.     *)
(*                                                                         *)
(* Ip, target, ttl and type of a hostname are one value, its entry; NoType *)
(* stands for an entry posted without a type.  The name "" of the default  *)
(* environment is DefaultEnv.                                              *)
(***************************************************************************)
EXTENDS Naturals, Sequences, FiniteSets

CONSTANTS EnvNames,     \* names of environments
          DefaultEnv,   \* the name "" of the environment NewEmptyEnv makes
          Names,        \* host names
          Entries,      \* ip, target, ttl and type of a host name
          NoType,       \* the entry whose type is ""
          Rejected      \* an operation returned an error

ASSUME DefaultEnvAssumption == DefaultEnv \in EnvNames

\* An id of 0 means that the entry was never given one.
Hostname == [id : Nat, hostname : Names, entry : Entries \cup {NoType}]
Env == [name : EnvNames, hostnames : Seq(Hostname)]
Configuration == [activeEnv : EnvNames, envs : Seq(Env)]

ASSUME RejectedAssumption == Rejected \notin Configuration
-----------------------------------------------------------------------------
First(S) == CHOOSE i \in S : \A j \in S : i <= j

RemoveIndex(s, i) == SubSeq(s, 1, i - 1) \o SubSeq(s, i + 1, Len(s))

EnvIndexes(c, name) == {i \in DOMAIN c.envs : c.envs[i].name = name}
HasEnv(c, name) == EnvIndexes(c, name) # {}
\* Index of the environment GetEnv returns: the first one of that name.
GetEnv(c, name) == First(EnvIndexes(c, name))

HostnameIndexes(env, name) ==
    {i \in DOMAIN env.hostnames : env.hostnames[i].hostname = name}
HasHostname(env, name) == HostnameIndexes(env, name) # {}
GetHostname(env, name) == First(HostnameIndexes(env, name))

IdIndexes(env, id) == {i \in DOMAIN env.hostnames : env.hostnames[i].id = id}
GetHostnameById(env, id) == First(IdIndexes(env, id))

\* The environment the resolver answers from exists.
HasActiveEnv(c) == HasEnv(c, c.activeEnv)
ActiveEnv(c) == c.envs[GetEnv(c, c.activeEnv)]
-----------------------------------------------------------------------------
\* Mutant of AddEnv: the name is not compared with those of the others.
AddEnvUnchecked(c, env) == [c EXCEPT !.envs = Append(@, env)]

AddEnv(c, env) ==
    IF HasEnv(c, env.name) THEN Rejected
    ELSE [c EXCEPT !.envs = Append(@, env)]

\* The active environment is left as it is, even when it is the removed one.
RemoveEnvByName(c, name) ==
    IF ~HasEnv(c, name) THEN Rejected
    ELSE [c EXCEPT !.envs = RemoveIndex(@, GetEnv(c, name))]

SetActiveEnv(c, name) ==
    IF ~HasEnv(c, name) THEN Rejected
    ELSE [c EXCEPT !.activeEnv = name]

AddHostname(c, envName, host) ==
    IF \/ host.entry = NoType
       \/ ~HasEnv(c, envName)
       \/ HasHostname(c.envs[GetEnv(c, envName)], host.hostname)
    THEN Rejected
    ELSE [c EXCEPT !.envs[GetEnv(c, envName)].hostnames = Append(@, host)]

\* The entry is looked up by id; its new name is not compared with the others.
UpdateHostname(c, envName, host) ==
    IF \/ ~HasEnv(c, envName)
       \/ IdIndexes(c.envs[GetEnv(c, envName)], host.id) = {}
    THEN Rejected
    ELSE LET e == GetEnv(c, envName)
             h == GetHostnameById(c.envs[e], host.id)
         IN  [c EXCEPT !.envs[e].hostnames[h] = host]

RemoveHostname(c, envName, name) ==
    IF \/ ~HasEnv(c, envName)
       \/ ~HasHostname(c.envs[GetEnv(c, envName)], name)
    THEN Rejected
    ELSE LET e == GetEnv(c, envName)
         IN  [c EXCEPT !.envs[e].hostnames =
                 RemoveIndex(@, GetHostname(c.envs[e], name))]
-----------------------------------------------------------------------------
\* The configuration LoadConfiguration makes when there is no file.
DefaultConfiguration == [activeEnv |-> DefaultEnv, envs |-> << >>]

\* SaveConfiguration adds the default environment to a configuration without any.
WithSomeEnv(c) ==
    IF c.envs # << >> THEN c
    ELSE [c EXCEPT !.envs = <<[name |-> DefaultEnv, hostnames |-> << >>]>>]

\* Positions <<environment, hostname>> of the entries of the document.
EntryPositions(c) == UNION {{e} \X DOMAIN c.envs[e].hostnames : e \in DOMAIN c.envs}
IdAt(c, p) == c.envs[p[1]].hostnames[p[2]].id
\* Those of the entries that have no id yet.
WithoutId(c) == {p \in EntryPositions(c) : IdAt(c, p) = 0}

\* Document order.
Before(p, q) == p[1] < q[1] \/ (p[1] = q[1] /\ p[2] < q[2])

\* Mutant of SetHostnameIds: the clock is read once for the whole document.
SetHostnameIdsReadingOnce(c, now) ==
    [c EXCEPT !.envs =
       [e \in DOMAIN c.envs |->
          [c.envs[e] EXCEPT !.hostnames =
             [h \in DOMAIN c.envs[e].hostnames |->
                IF <<e, h>> \in WithoutId(c)
                THEN [c.envs[e].hostnames[h] EXCEPT !.id = now]
                ELSE c.envs[e].hostnames[h]]]]]

\* The n-th entry without an id, in document order, gets the n-th reading of
\* the clock that follows now.
SetHostnameIds(c, now) ==
    LET ClockAt(p) == now + Cardinality({q \in WithoutId(c) : Before(q, p)})
    IN  [c EXCEPT !.envs =
           [e \in DOMAIN c.envs |->
              [c.envs[e] EXCEPT !.hostnames =
                 [h \in DOMAIN c.envs[e].hostnames |->
                    IF <<e, h>> \in WithoutId(c)
                    THEN [c.envs[e].hostnames[h] EXCEPT !.id = ClockAt(<<e, h>>)]
                    ELSE c.envs[e].hostnames[h]]]]]
-----------------------------------------------------------------------------
(***************************************************************************)
(* The operations of the REST API on the configuration, and the plain load *)
(* that the GET handlers, the solvers and the configuration getters do.    *)
(* AddHostname draws an id from the clock, the handler of POST /env/ one   *)
(* for each hostname of the new environment.                               *)
(***************************************************************************)
NewHostname == [hostname : Names, entry : Entries \cup {NoType}]

Operation ==
    [kind : {"read"}]
    \cup [kind : {"addEnv"}, env : EnvNames, hosts : Seq(NewHostname)]
    \cup [kind : {"removeEnv", "setActive"}, env : EnvNames]
    \cup [kind : {"addHostname"}, env : EnvNames, host : NewHostname]
    \cup [kind : {"updateHostname"}, env : EnvNames, id : Nat, host : NewHostname]
    \cup [kind : {"removeHostname"}, env : EnvNames, name : Names]

WithId(host, id) == [id |-> id, hostname |-> host.hostname, entry |-> host.entry]

IdsDrawn(o) == CASE o.kind = "addHostname" -> 1
                 [] o.kind = "addEnv" -> Len(o.hosts)
                 [] OTHER -> 0

Perform(o, c, now) ==
    CASE o.kind = "read" -> c
      [] o.kind = "addEnv" ->
            AddEnv(c, [name |-> o.env,
                       hostnames |-> [i \in 1..Len(o.hosts) |->
                                        WithId(o.hosts[i], now + i - 1)]])
      [] o.kind = "removeEnv" -> RemoveEnvByName(c, o.env)
      [] o.kind = "setActive" -> SetActiveEnv(c, o.env)
      [] o.kind = "addHostname" -> AddHostname(c, o.env, WithId(o.host, now))
      [] o.kind = "updateHostname" -> UpdateHostname(c, o.env, WithId(o.host, o.id))
      [] o.kind = "removeHostname" -> RemoveHostname(c, o.env, o.name)
-----------------------------------------------------------------------------
UniqueEnvs(c) ==
    \A i, j \in DOMAIN c.envs : c.envs[i].name = c.envs[j].name => i = j

\* Ids of two entries of the document differ, except for entries without one.
DistinctIds(c) ==
    \A p, q \in EntryPositions(c) : IdAt(c, p) = IdAt(c, q) => p = q \/ IdAt(c, p) = 0
===============================================================================
