------------------------------ MODULE RecordForm ------------------------------
(***************************************************************************)
(* The form of the web page that posts a new record                        *)
(* (app/src/components/RecordForm.js).  Its state is not always what its   *)
(* inputs show: the inputs of the address and of the target are not bound  *)
(* to the state, and a change of the type replaces one by the other, empty.*)
(*                                                                         *)
(* A value is ip, target, ttl and type of a record.  An address is "four"  *)
(* numbers a byte can hold, four numbers of which one is "large", "short"  *)
(* of four numbers (a missing one is sent as null or not at all), has a    *)
(* "blank" part sent as a string, or is the "string" the form starts with. *)
(***************************************************************************)
EXTENDS RestClient

CONSTANT FirstName   \* the host name the form starts with

ASSUME FirstNameAssumption == FirstName \in Names

VARIABLES form,      \* state.form
          inputs     \* what the inputs of the address and of the target show

formVars == <<form, inputs>>

Value == [type : {"A", "CNAME"},
          ip : {"four", "large", "short", "blank", "padded", "string"},
          target : {"acme.com", "typed", ""},
          ttl : {"positive", "NaN", "zero"}]
-----------------------------------------------------------------------------
\* Mutant of Decode: a ttl of null is kept.
DecodeKeepingNull(v) ==
    IF v.ip \in {"string", "large", "blank"} THEN Undecodable
    ELSE [v EXCEPT !.ip = IF @ = "short" THEN "padded" ELSE @]

(***************************************************************************)
(* HostnameV1 holds an address of four bytes and an integer ttl: null and  *)
(* a missing number are decoded as 0.                                      *)
(***************************************************************************)
Decode(v) ==
    IF v.ip \in {"string", "large", "blank"} THEN Undecodable
    ELSE [v EXCEPT !.ip = IF @ = "short" THEN "padded" ELSE @,
                   !.ttl = IF @ = "NaN" THEN "zero" ELSE @]

Decoded == {v \in Value : v.ip \in {"four", "padded"} /\ v.ttl # "NaN"}

ASSUME EntriesAssumption == Decoded \subseteq Entries /\ Undecodable \notin Entries

\* A record of the page with an entry the JSON can hold, and as it is stored.
Decodable == [hostname : Names, entry : Decoded]
Stored == [id : Nat, hostname : Names, entry : Decoded]

\* The file and the requests of the other client went through HostnameV1 too.
ASSUME ServerAssumption ==
    /\ FirstClock \in Nat
    /\ InitialFiles \subseteq [activeEnv : EnvNames,
                              envs : Seq([name : EnvNames, hostnames : Seq(Stored)])]
    /\ ForeignOps \subseteq Operation
    /\ \A o \in ForeignOps :
          /\ o.kind = "addEnv" => o.hosts \in Seq(Decodable)
          /\ o.kind \in {"addHostname", "updateHostname"} => o.host \in Decodable

\* The file was loaded: its environments are distinct, and every entry has an id
\* of its own that was drawn in the past.
ASSUME LoadedAssumption ==
    /\ 0 < FirstClock
    /\ \A c \in InitialFiles :
          /\ UniqueEnvs(c)
          /\ DistinctIds(c)
          /\ \A p \in EntryPositions(c) : 0 < IdAt(c, p) /\ IdAt(c, p) < FirstClock
-----------------------------------------------------------------------------
\* The state of a form that has just been mounted, and its inputs.
NewForm == [hostname |-> FirstName,
            value |-> [type |-> "A", ip |-> "string", target |-> "acme.com",
                       ttl |-> "positive"]]
NoInputs == [ip |-> "", target |-> ""]

ShowIp == form.value.type = "A"
ShowTarget == form.value.type = "CNAME"

\* The address as the user leaves it: numbers that are missing become NaN.
HandleIp(text) ==
    /\ ShowIp
    /\ form' = [form EXCEPT !.value.ip = text]
    /\ inputs' = [inputs EXCEPT !.ip = text]

HandleHostname(name) ==
    /\ form' = [form EXCEPT !.hostname = name]
    /\ UNCHANGED inputs

HandleTarget(text) ==
    /\ ShowTarget
    /\ form' = [form EXCEPT !.value.target = text]
    /\ inputs' = [inputs EXCEPT !.target = text]

HandleNumberChange(number) ==
    /\ form' = [form EXCEPT !.value.ttl = number]
    /\ UNCHANGED inputs

\* The input of the new type is a new one, and empty.
HandleType(type) ==
    /\ type # form.value.type
    /\ form' = [form EXCEPT !.value.type = type]
    /\ inputs' = NoInputs

\* Mutant of Valid: the address is not required.
ValidWithoutIp ==
    /\ ShowIp => inputs.ip \in {"", "four", "large"}
    /\ form.value.ttl = "positive"

\* The browser submits the form only when its visible inputs satisfy required,
\* pattern and min.
Valid ==
    /\ ShowIp => inputs.ip \in {"four", "large"}
    /\ form.value.ttl = "positive"

HandleSubmit(env) ==
    /\ Valid
    /\ Ajax(Request([kind |-> "addHostname", env |-> env,
                     host |-> [hostname |-> form.hostname, entry |-> Decode(form.value)]],
                    "added"))
    /\ UNCHANGED formVars

FormNext ==
    \/ \E text \in {"four", "large", "short"} : HandleIp(text)
    \/ \E name \in Names : HandleHostname(name)
    \/ \E text \in {"typed", ""} : HandleTarget(text)
    \/ \E number \in {"positive", "NaN"} : HandleNumberChange(number)
    \/ \E type \in {"A", "CNAME"} : HandleType(type)
-----------------------------------------------------------------------------
\* An A record that the form submits has the address its input shows, however
\* often the type was changed before: neither the string the form starts with
\* nor an address typed into an input that is gone is sent unseen.
AddressSentIsShown == Valid /\ ShowIp => form.value.ip = inputs.ip
===============================================================================
