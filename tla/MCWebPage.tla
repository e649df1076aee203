------------------------------ MODULE MCWebPage ------------------------------
(***************************************************************************)
(* A page on a server with the default environment and e1, both with a     *)
(* record of the name a, so that a request for the wrong environment finds *)
(* one; e2 can be created.                                                 *)
(***************************************************************************)
EXTENDS WebPage

CONSTANTS a, b, e1, e2, good, empty

Record(id, name, type) ==
    [id |-> id, hostname |-> name,
     entry |-> [type |-> type, ip |-> "four", target |-> "typed", ttl |-> "positive"]]

File(active) ==
    [activeEnv |-> active,
     envs |-> <<[name |-> DefaultEnv, hostnames |-> <<Record(1, a, "A"), Record(2, b, "CNAME")>>],
                [name |-> e1, hostnames |-> <<Record(3, a, "A")>>]>>]

MCInitialFiles == {File(DefaultEnv), File(e1)}
MCFile == {File(e1)}
MCEntries == Decoded

\* The other client deletes an environment or renames a record.
MCForeign == {[kind |-> "removeEnv", env |-> e1],
              [kind |-> "removeHostname", env |-> DefaultEnv, name |-> a]}
MCNoForeign == {}

\* Two texts: one names e2, of the other nothing is left.
MCSanitized == [text \in Inputs |-> IF text = good THEN e2 ELSE DefaultEnv]
===============================================================================
