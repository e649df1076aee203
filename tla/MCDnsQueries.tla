----------------------------- MODULE MCDnsQueries -----------------------------
(***************************************************************************)
(* Queries for one name, n1, which its own entry or the wildcard entry w1  *)
(* answers, and one goroutine that edits the configuration.                *)
(***************************************************************************)
EXTENDS DnsQueries, TLC

CONSTANTS n1, w1, v1, v2

Host(id, name, v) == [id |-> id, hostname |-> name, entry |-> v]
FileWith(hosts) == [activeEnv |-> DefaultEnv,
                    envs |-> <<[name |-> DefaultEnv, hostnames |-> hosts]>>]

MCInitialFiles == {FileWith(<<Host(1, n1, v1)>>), FileWith(<< >>)}
MCFileWithName == {FileWith(<<Host(1, n1, v1)>>)}
MCEmptyFile == {FileWith(<< >>)}

MCUpdate == [kind |-> "updateHostname", env |-> DefaultEnv, id |-> 1,
             host |-> [hostname |-> n1, entry |-> v2]]
MCRemove == [kind |-> "removeHostname", env |-> DefaultEnv, name |-> n1]
MCAddWildcard == [kind |-> "addHostname", env |-> DefaultEnv,
                  host |-> [hostname |-> w1, entry |-> v2]]

MCRequests == {MCUpdate, MCAddWildcard}
MCUpdates == {MCUpdate}
MCNoRequests == {}

MCQuestion == [q \in Queries |-> n1]
MCCandidates == (n1 :> <<n1, w1>>) @@ (w1 :> <<w1>>)
MCTtl == (v1 :> 2) @@ (v2 :> 1) @@ (NoType :> 1)
MCSymmetry == Permutations(Queries)
===============================================================================
