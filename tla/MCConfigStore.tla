---------------------------- MODULE MCConfigStore ----------------------------
(***************************************************************************)
(* A small configuration store: two environments, one host name, two       *)
(* entries.                                                                *)
(***************************************************************************)
EXTENDS ConfigStore, TLC

CONSTANTS e1, h1, v1, v2

Host(id, v) == [id |-> id, hostname |-> h1, entry |-> v]
Conf(envs) == [activeEnv |-> DefaultEnv, envs |-> envs]
EnvOf(name, hosts) == [name |-> name, hostnames |-> hosts]

\* No file; a file whose entries have no ids; a file with ids.
MCInitialFiles ==
    {Missing,
     Conf(<<EnvOf(DefaultEnv, <<Host(0, v1), Host(0, v2)>>)>>),
     Conf(<<EnvOf(DefaultEnv, <<Host(1, v1)>>), EnvOf(e1, << >>)>>)}
MCFilesWithIds == {f \in MCInitialFiles : f # Missing /\ WithoutId(f) = {}}

New(v) == [hostname |-> h1, entry |-> v]

MCRequests ==
    {[kind |-> "read"],
     [kind |-> "addEnv", env |-> e1, hosts |-> <<New(v1)>>],
     [kind |-> "removeEnv", env |-> DefaultEnv],
     [kind |-> "removeEnv", env |-> e1],
     [kind |-> "setActive", env |-> e1],
     [kind |-> "addHostname", env |-> e1, host |-> New(v1)],
     [kind |-> "addHostname", env |-> DefaultEnv, host |-> New(NoType)],
     [kind |-> "updateHostname", env |-> DefaultEnv, id |-> 1, host |-> New(v2)],
     [kind |-> "removeHostname", env |-> DefaultEnv, name |-> h1]}

MCSymmetry == Permutations(Procs)
==============================================================================
