----------------------------- MODULE RecordTable -----------------------------
(***************************************************************************)
(* The table of records of the web page                                    *)
(* (app/src/components/RecordTable.js).  The handlers change the rows of   *)
(* state.table in place, cancelling an edition included, and what a row is *)
(* saved or deleted under is the environment of the page at that moment.   *)
(***************************************************************************)
EXTENDS RecordForm

VARIABLE rows   \* state.table; clean and origin are history: the row is as it
                \* was loaded, and the environment it was loaded from

Row == [id : Nat, hostname : Names, value : Value, editing : BOOLEAN,
        clean : BOOLEAN, origin : EnvNames]

Find(env) == Request([kind |-> "find", env |-> env], "rows")

Loaded(env, hostnames) ==
    [k \in DOMAIN hostnames |->
       [id |-> hostnames[k].id, hostname |-> hostnames[k].hostname,
        value |-> hostnames[k].entry, editing |-> FALSE,
        clean |-> TRUE, origin |-> env]]

\* The answer of reloadTable: whatever the table holds by now is replaced.
RowsArrived(i) ==
    /\ rows' = IF Succeeded(i) THEN Loaded(net[i].op.env, net[i].reply.data) ELSE rows
    /\ Post(Rest(i), << >>, IF Succeeded(i) THEN {} ELSE {"refused"})
-----------------------------------------------------------------------------
SwapEditionMode(k) ==
    /\ k \in DOMAIN rows
    /\ rows' = [rows EXCEPT ![k].editing = ~@]

\* The line of a row that is edited shows inputs, that of another one buttons.
Editing(k) == k \in DOMAIN rows /\ rows[k].editing

HandleChange(k) ==
    /\ Editing(k)
    /\ \/ \E name \in Names \ {rows[k].hostname} :
             rows' = [rows EXCEPT ![k].hostname = name, ![k].clean = FALSE]
       \/ \E type \in {"A", "CNAME"} \ {rows[k].value.type} :
             rows' = [rows EXCEPT ![k].value.type = type, ![k].clean = FALSE]

HandleRowNumber(k) ==
    /\ Editing(k)
    /\ \E number \in {"positive", "NaN"} :
          rows' = [rows EXCEPT ![k].value.ttl = number, ![k].clean = FALSE]

\* An empty part of the address stays an empty string.
HandleIpChange(k) ==
    /\ Editing(k)
    /\ rows[k].value.type # "CNAME"
    /\ \E text \in {"four", "large", "short", "blank"} :
          rows' = [rows EXCEPT ![k].value.ip = text, ![k].clean = FALSE]

HandleTargetChange(k) ==
    /\ Editing(k)
    /\ rows[k].value.type = "CNAME"
    /\ \E text \in {"typed", ""} :
          rows' = [rows EXCEPT ![k].value.target = text, ![k].clean = FALSE]

\* The row leaves the edition mode before the server has answered.
UpdateRecord(k, env) ==
    /\ Editing(k)
    /\ rows' = [rows EXCEPT ![k].editing = FALSE]
    /\ Ajax(Request([kind |-> "updateHostname", env |-> env, id |-> rows[k].id,
                     host |-> [hostname |-> rows[k].hostname,
                               entry |-> Decode(rows[k].value)]],
                    "nothing"))

\* The user sees which record the row is: no row was edited, all are of the
\* environment env, and no other one has its name.
Certain(k, env) ==
    \A j \in DOMAIN rows :
        /\ rows[j].clean
        /\ rows[j].origin = env
        /\ rows[j].hostname = rows[k].hostname => j = k

\* Mutant of DeleteRecord: the environment is not sent.
DeleteRecordOfDefault(k, env) ==
    /\ k \in DOMAIN rows
    /\ ~rows[k].editing
    /\ Ajax(Request([kind |-> "removeHostname", env |-> DefaultEnv, name |-> rows[k].hostname,
                     id |-> rows[k].id, certain |-> Certain(k, env)],
                    "removed"))
    /\ UNCHANGED rows

\* The record is named by its host name; id and certain are history.
DeleteRecord(k, env) ==
    /\ k \in DOMAIN rows
    /\ ~rows[k].editing
    /\ Ajax(Request([kind |-> "removeHostname", env |-> env, name |-> rows[k].hostname,
                     id |-> rows[k].id, certain |-> Certain(k, env)],
                    "removed"))
    /\ UNCHANGED rows

\* Mutant of Removed: the table is not loaded again.
RemovedQuietly(i, env) ==
    /\ Post(Rest(i), << >>, {})
    /\ UNCHANGED rows

\* The answer to a deletion.
Removed(i, env) ==
    /\ Post(Rest(i), IF Succeeded(i) THEN <<Find(env)>> ELSE << >>, {})
    /\ UNCHANGED rows
===============================================================================
