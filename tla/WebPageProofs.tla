---------------------------- MODULE WebPageProofs ----------------------------
(***************************************************************************)
(* What the web page's form for records sends, for every number of         *)
(* gestures, requests and environments.                                    *)
(***************************************************************************)
EXTENDS WebPage, LocalConfigurationProofs

\* An input of the address that is not empty shows what the state holds.  This
\* is what lets the user change the type back and forth: the state keeps the
\* old address, the new input does not.
InputShowsState == inputs.ip = "" \/ inputs.ip = form.value.ip

FormShape ==
    /\ inputs \in [ip : {"", "four", "large", "short"}, target : {"", "typed"}]
    /\ form \in [hostname : Names, value : Value]

FormInv == FormShape /\ InputShowsState
-----------------------------------------------------------------------------
LEMMA NewFormIsShown ==
    form = NewForm /\ inputs = NoInputs => FormInv
<1> SUFFICES ASSUME form = NewForm, inputs = NoInputs PROVE FormInv
    OBVIOUS
<1>1. NewForm.value \in Value
    BY DEF NewForm, Value
<1>2. NewForm \in [hostname : Names, value : Value]
    BY <1>1, FirstNameAssumption DEF NewForm
<1>3. NoInputs.ip = "" /\ NoInputs \in [ip : {"", "four", "large", "short"}, target : {"", "typed"}]
    BY DEF NoInputs
<1> QED
    BY <1>2, <1>3 DEF FormInv, FormShape, InputShowsState

\* A handler of the form changes its input and its state together, or gives an
\* empty input.
LEMMA HandlersKeepFormInv ==
    FormInv /\ FormNext => FormInv'
<1> SUFFICES ASSUME FormInv, FormNext PROVE FormInv'
    OBVIOUS
<1> USE DEF FormInv, FormShape, InputShowsState, Value
<1>1. ASSUME NEW text \in {"four", "large", "short"}, HandleIp(text) PROVE FormInv'
    BY <1>1 DEF HandleIp
<1>2. ASSUME NEW name \in Names, HandleHostname(name) PROVE FormInv'
    BY <1>2 DEF HandleHostname
<1>3. ASSUME NEW text \in {"typed", ""}, HandleTarget(text) PROVE FormInv'
    BY <1>3 DEF HandleTarget
<1>4. ASSUME NEW number \in {"positive", "NaN"}, HandleNumberChange(number) PROVE FormInv'
    BY <1>4 DEF HandleNumberChange
<1>5. ASSUME NEW type \in {"A", "CNAME"}, HandleType(type) PROVE FormInv'
    BY <1>5 DEF HandleType, NoInputs
<1> QED
    BY <1>1, <1>2, <1>3, <1>4, <1>5 DEF FormNext

LEMMA FormUntouched ==
    FormInv /\ UNCHANGED formVars => FormInv'
BY DEF formVars, FormInv, FormShape, InputShowsState

\* Only the handlers of the form and a new load of the page touch the form.
LEMMA UserKeepsFormInv ==
    FormInv /\ User => FormInv'
<1> SUFFICES ASSUME FormInv, User PROVE FormInv'
    OBVIOUS
<1>1. CASE UsePicker
    BY <1>1, FormUntouched DEF UsePicker, SelectEnv, DeleteCurrent, OpenEnvForm, pageVars
<1>2. CASE UseEnvForm
    BY <1>2, FormUntouched DEF UseEnvForm, CreateEnvironment, CancelEnvForm, pageVars
<1>3. CASE UseRecords
    <2>1. CASE EditForm
        BY <2>1, HandlersKeepFormInv DEF EditForm
    <2>2. CASE SubmitForm
        BY <2>2, FormUntouched DEF SubmitForm, HandleSubmit
    <2>3. CASE EditRow \/ SaveRow \/ DeleteRow
        BY <2>3, FormUntouched DEF EditRow, SaveRow, DeleteRow
    <2> QED
        BY <1>3, <2>1, <2>2, <2>3 DEF UseRecords
<1>4. CASE Refresh
    BY <1>4, FirstNameAssumption
    DEF Refresh, NewForm, NoInputs, FormInv, FormShape, InputShowsState, Value
<1> QED
    BY <1>1, <1>2, <1>3, <1>4 DEF User

LEMMA CallbacksKeepFormInv ==
    ASSUME NEW i, FormInv, Deliver(i)
    PROVE  FormInv'
<1>1. UNCHANGED formVars
    BY DEF Deliver, ActiveArrived, EnvListArrived, TableArrived, Activated, Created, Deleted,
           Added, RecordRemoved, Ignored, pageVars
<1> QED
    BY <1>1, FormUntouched

LEMMA NextKeepsFormInv ==
    FormInv /\ [Next]_vars => FormInv'
<1> SUFFICES ASSUME FormInv, [Next]_vars PROVE FormInv'
    OBVIOUS
<1>1. CASE User
    BY <1>1, UserKeepsFormInv
<1>2. CASE UNCHANGED <<pageVars, gestures>>
    BY <1>2, FormUntouched DEF pageVars
<1>3. CASE \E i \in DOMAIN net : Deliver(i)
    BY <1>3, CallbacksKeepFormInv
<1>4. CASE UNCHANGED vars
    BY <1>4, FormUntouched DEF vars, formVars
<1> QED
    BY <1>1, <1>2, <1>3, <1>4 DEF Next

\* Whatever the user typed, however often the type was changed and whatever
\* else the page did, an A record that handleSubmit posts has the address that
\* its input shows.
THEOREM AddressIsShown == Spec => []AddressSentIsShown
<1>1. Init => FormInv
    BY NewFormIsShown DEF Init
<1>2. FormInv => AddressSentIsShown
    BY DEF FormInv, InputShowsState, AddressSentIsShown, Valid
<1> QED
    BY <1>1, <1>2, NextKeepsFormInv, PTL DEF Spec
-----------------------------------------------------------------------------
(***************************************************************************)
(* The requests under way: what each asks for, which callbacks it has, and *)
(* what an answer to it holds.                                             *)
(***************************************************************************)
Sent == [hostname : Names, entry : Decoded \cup {Undecodable}]

Op ==
    [kind : {"active", "envs"}]
    \cup [kind : {"find", "setActive", "removeEnv"}, env : EnvNames]
    \cup [kind : {"addEnv"}, env : EnvNames, hosts : {<< >>}]
    \cup [kind : {"addHostname"}, env : EnvNames, host : Sent]
    \cup [kind : {"updateHostname"}, env : EnvNames, id : Nat, host : Sent]
    \cup [kind : {"removeHostname"}, env : EnvNames, name : Names, id : Nat, certain : BOOLEAN]

CallbacksOf(op) ==
    CASE op.kind = "active" -> {"loaded", "nothing"}
      [] op.kind = "envs" -> {"envList", "nothing"}
      [] op.kind = "find" -> {"rows", "nothing"}
      [] op.kind = "setActive" -> {"activated", "nothing"}
      [] op.kind = "addEnv" -> {"created", "nothing"}
      [] op.kind = "removeEnv" -> {"deleted", "nothing"}
      [] op.kind = "addHostname" -> {"added", "nothing"}
      [] op.kind = "updateHostname" -> {"nothing"}
      [] op.kind = "removeHostname" -> {"removed", "nothing"}

Callbacks == {"loaded", "envList", "rows", "activated", "created", "deleted", "added",
              "removed", "nothing"}

DataOf(op) ==
    CASE op.kind = "active" -> EnvNames
      [] op.kind = "envs" -> Seq(EnvNames)
      [] op.kind = "find" -> Seq(Stored)
      [] OTHER -> {<< >>}

Lost == [status |-> "lost"]
RepliesTo(op) == {Pending, Bad, Lost} \cup {Ok(data) : data \in DataOf(op)}
Replies == UNION {RepliesTo(op) : op \in Op}

Req == {r \in [op : Op, then : Callbacks, reply : Replies] :
            r.then \in CallbacksOf(r.op) /\ r.reply \in RepliesTo(r.op)}

\* A request and its parts.
LEMMA ReqParts ==
    ASSUME NEW r
    PROVE  r \in Req <=> /\ r = [op |-> r.op, then |-> r.then, reply |-> r.reply]
                         /\ r.op \in Op
                         /\ r.then \in CallbacksOf(r.op)
                         /\ r.reply \in RepliesTo(r.op)
<1>1. ASSUME r \in Req
      PROVE  /\ r = [op |-> r.op, then |-> r.then, reply |-> r.reply]
             /\ r.op \in Op
             /\ r.then \in CallbacksOf(r.op)
             /\ r.reply \in RepliesTo(r.op)
    BY <1>1 DEF Req
<1>2. ASSUME r = [op |-> r.op, then |-> r.then, reply |-> r.reply], r.op \in Op,
             r.then \in CallbacksOf(r.op), r.reply \in RepliesTo(r.op)
      PROVE  r \in Req
  <2>1. r.then \in Callbacks
    BY <1>2 DEF Op, CallbacksOf, Callbacks
  <2>2. r.reply \in Replies
    BY <1>2 DEF Replies
  <2>. QED
    BY <1>2, <2>1, <2>2 DEF Req
<1>. QED
    BY <1>1, <1>2

\* The callbacks tell what the request asked for.
LEMMA KindOfCallback ==
    ASSUME NEW r \in Req
    PROVE  /\ r.then = "loaded" => r.op.kind = "active"
           /\ r.then = "envList" => r.op.kind = "envs"
           /\ r.then = "rows" => r.op.kind = "find" /\ r.op.env \in EnvNames
           /\ r.then = "activated" => r.op.kind = "setActive" /\ r.op.env \in EnvNames
           /\ r.then = "created" => r.op.kind = "addEnv" /\ r.op.env \in EnvNames
           /\ r.then = "deleted" => r.op.kind = "removeEnv" /\ r.op.env \in EnvNames
           /\ r.then = "added" => r.op.kind = "addHostname"
           /\ r.then = "removed" => r.op.kind = "removeHostname"
<1>1. r.op \in Op /\ r.then \in CallbacksOf(r.op)
    BY ReqParts
<1>. QED
    BY <1>1 DEF Op, CallbacksOf

\* What an answer holds.
LEMMA DataOfReply ==
    ASSUME NEW r \in Req, r.reply.status = "ok"
    PROVE  /\ r.reply = Ok(r.reply.data)
           /\ r.reply.data \in DataOf(r.op)
<1>1. r.reply \in RepliesTo(r.op)
    BY ReqParts
<1>. QED
    BY <1>1 DEF RepliesTo, Pending, Bad, Lost, Ok

\* A new request.
LEMMA NewRequest ==
    ASSUME NEW op \in Op, NEW then \in CallbacksOf(op)
    PROVE  Request(op, then) \in Req /\ <<Request(op, then)>> \in Seq(Req)
<1>. DEFINE r == Request(op, then)
<1>1. r.op = op /\ r.then = then /\ r.reply = Pending
    BY DEF Request
<1>2. r = [op |-> r.op, then |-> r.then, reply |-> r.reply]
    BY <1>1 DEF Request
<1>3. Pending \in RepliesTo(op)
    BY DEF RepliesTo
<1>. HIDE DEF r
<1>4. r \in Req
    BY <1>1, <1>2, <1>3, ReqParts
<1>. QED
    BY <1>4 DEF r

\* The requests of the page that name only an environment.
LEMMA PageRequests ==
    /\ GetActive \in Req /\ <<GetActive>> \in Seq(Req)
    /\ ListEnvs \in Req /\ <<ListEnvs>> \in Seq(Req)
    /\ \A env \in EnvNames : Find(env) \in Req /\ <<Find(env)>> \in Seq(Req)
    /\ \A env \in EnvNames : Activate(env) \in Req /\ <<Activate(env)>> \in Seq(Req)
<1>1. [kind |-> "active"] \in Op /\ "loaded" \in CallbacksOf([kind |-> "active"])
    BY DEF Op, CallbacksOf
<1>2. [kind |-> "envs"] \in Op /\ "envList" \in CallbacksOf([kind |-> "envs"])
    BY DEF Op, CallbacksOf
<1>3. \A env \in EnvNames : /\ [kind |-> "find", env |-> env] \in Op
                            /\ "rows" \in CallbacksOf([kind |-> "find", env |-> env])
    BY DEF Op, CallbacksOf
<1>4. \A env \in EnvNames : /\ [kind |-> "setActive", env |-> env] \in Op
                            /\ "activated" \in CallbacksOf([kind |-> "setActive", env |-> env])
    BY DEF Op, CallbacksOf
<1>. QED
    BY <1>1, <1>2, <1>3, <1>4, NewRequest DEF GetActive, ListEnvs, Find, Activate
-----------------------------------------------------------------------------
(***************************************************************************)
(* Sequences of requests, as the set of their members.  Once(s, R): at     *)
(* most one of them is in R.                                               *)
(***************************************************************************)
UnderWay(s) == {s[k] : k \in DOMAIN s}
Once(s, R) == \A j, k \in DOMAIN s : s[j] \in R /\ s[k] \in R => j = k

\* Requests that are sent come after the others.
LEMMA ConcatMembers ==
    ASSUME NEW S, NEW a \in Seq(S), NEW b \in Seq(S)
    PROVE  /\ a \o b \in Seq(S)
           /\ UnderWay(a \o b) = UnderWay(a) \cup UnderWay(b)
           /\ \A R : /\ Once(a, R) /\ Once(b, R)
                     /\ UnderWay(a) \cap R = {} \/ UnderWay(b) \cap R = {}
                     => Once(a \o b, R)
<1>. DEFINE s == a \o b
            n == Len(a)
<1>1. n \in Nat /\ DOMAIN a = 1..n /\ Len(b) \in Nat /\ DOMAIN b = 1..Len(b)
    BY LenProperties
<1>2. /\ s \in Seq(S)
      /\ Len(s) = n + Len(b)
      /\ \A k \in 1..(n + Len(b)) : s[k] = IF k <= n THEN a[k] ELSE b[k - n]
    BY ConcatProperties
<1>3. DOMAIN s = 1..(n + Len(b))
    BY <1>2, LenProperties
<1>. HIDE DEF s
<1>4. ASSUME NEW k \in DOMAIN s
      PROVE  \/ k \in DOMAIN a /\ s[k] = a[k]
             \/ k - n \in DOMAIN b /\ s[k] = b[k - n]
    BY <1>1, <1>2, <1>3
<1>5. ASSUME NEW k \in DOMAIN a PROVE k \in DOMAIN s /\ s[k] = a[k]
    BY <1>1, <1>2, <1>3
<1>6. ASSUME NEW k \in DOMAIN b PROVE k + n \in DOMAIN s /\ s[k + n] = b[k]
  <2>1. k + n \in 1..(n + Len(b)) /\ ~(k + n <= n) /\ (k + n) - n = k
    BY <1>1
  <2>. QED
    BY <1>2, <1>3, <2>1
<1>7. UnderWay(s) = UnderWay(a) \cup UnderWay(b)
    BY <1>4, <1>5, <1>6 DEF UnderWay
<1>8. ASSUME NEW R, Once(a, R), Once(b, R), UnderWay(a) \cap R = {} \/ UnderWay(b) \cap R = {}
      PROVE  Once(s, R)
  <2>. SUFFICES ASSUME NEW j \in DOMAIN s, NEW k \in DOMAIN s, s[j] \in R, s[k] \in R
                PROVE  j = k
    BY DEF Once
  <2>1. CASE UnderWay(a) \cap R = {}
    <3>1. \A m \in DOMAIN a : a[m] \notin R
      BY <2>1 DEF UnderWay
    <3>2. /\ j - n \in DOMAIN b /\ b[j - n] \in R
          /\ k - n \in DOMAIN b /\ b[k - n] \in R
      BY <1>4, <3>1
    <3>3. j - n = k - n
      BY <1>8, <3>2 DEF Once
    <3>. QED
      BY <1>1, <1>3, <3>3
  <2>2. CASE UnderWay(b) \cap R = {}
    <3>1. \A m \in DOMAIN b : b[m] \notin R
      BY <2>2 DEF UnderWay
    <3>2. j \in DOMAIN a /\ a[j] \in R /\ k \in DOMAIN a /\ a[k] \in R
      BY <1>4, <3>1
    <3>. QED
      BY <1>8, <3>2 DEF Once
  <2>. QED
    BY <1>8, <2>1, <2>2
<1>. QED
    BY <1>2, <1>7, <1>8 DEF s

\* The request whose answer has arrived is under way no longer.
LEMMA RemoveMembers ==
    ASSUME NEW S, NEW s \in Seq(S), NEW i \in DOMAIN s
    PROVE  /\ RemoveIndex(s, i) \in Seq(S)
           /\ UnderWay(s) = UnderWay(RemoveIndex(s, i)) \cup {s[i]}
           /\ \A R : Once(s, R) =>
                 /\ Once(RemoveIndex(s, i), R)
                 /\ s[i] \in R => UnderWay(RemoveIndex(s, i)) \cap R = {}
<1>. DEFINE t == RemoveIndex(s, i)
            old == [k \in 1..(Len(s) - 1) |-> IF k < i THEN k ELSE k + 1]
<1>1. Len(s) \in Nat /\ DOMAIN s = 1..Len(s) /\ i \in 1..Len(s)
    BY LenProperties
<1>2. /\ t \in Seq(S)
      /\ Len(t) = Len(s) - 1
      /\ \A k \in 1..(Len(s) - 1) : t[k] = IF k < i THEN s[k] ELSE s[k + 1]
    BY RemoveIndexProperties
<1>3. DOMAIN t = 1..(Len(s) - 1)
    BY <1>2, LenProperties
<1>. HIDE DEF t
<1>4. ASSUME NEW k \in DOMAIN t
      PROVE  old[k] \in DOMAIN s /\ old[k] # i /\ t[k] = s[old[k]]
    BY <1>1, <1>2, <1>3
<1>5. ASSUME NEW j \in DOMAIN t, NEW k \in DOMAIN t, old[j] = old[k] PROVE j = k
    BY <1>1, <1>3, <1>5
<1>6. ASSUME NEW m \in DOMAIN s, m # i PROVE \E k \in DOMAIN t : old[k] = m
  <2>1. CASE m < i
    <3>1. m \in 1..(Len(s) - 1)
      BY <1>1, <2>1
    <3>. QED
      BY <1>3, <2>1, <3>1
  <2>2. CASE ~(m < i)
    <3>1. m - 1 \in 1..(Len(s) - 1) /\ ~(m - 1 < i) /\ (m - 1) + 1 = m
      BY <1>1, <1>6, <2>2
    <3>. QED
      BY <1>3, <3>1
  <2>. QED
    BY <2>1, <2>2
<1>. HIDE DEF old
<1>7. UnderWay(s) = UnderWay(t) \cup {s[i]}
    BY <1>4, <1>6 DEF UnderWay
<1>8. ASSUME NEW R, Once(s, R) PROVE Once(t, R)
    BY <1>4, <1>5, <1>8 DEF Once
<1>9. ASSUME NEW R, Once(s, R), s[i] \in R PROVE UnderWay(t) \cap R = {}
  <2>1. \A k \in DOMAIN t : t[k] \notin R
    BY <1>4, <1>9 DEF Once
  <2>. QED
    BY <2>1 DEF UnderWay
<1>. QED
    BY <1>2, <1>7, <1>8, <1>9 DEF t
-----------------------------------------------------------------------------
(***************************************************************************)
(* The server.  Its operators are those of the configuration document.     *)
(***************************************************************************)
LEMMA SameOperators ==
    ASSUME NEW o, NEW c, NEW now
    PROVE  /\ Server!Perform(o, c, now) = Perform(o, c, now)
           /\ Server!WithSomeEnv(c) = WithSomeEnv(c)
           /\ Server!IdsDrawn(o) = IdsDrawn(o)
<1>1. Server!Perform(o, c, now) = Perform(o, c, now)
    BY DEF Perform, AddEnv, RemoveEnvByName, SetActiveEnv, AddHostname, UpdateHostname,
           RemoveHostname, HasEnv, EnvIndexes, GetEnv, First, RemoveIndex, WithId,
           HasHostname, HostnameIndexes, GetHostname, IdIndexes, GetHostnameById,
           Server!Perform, Server!AddEnv, Server!RemoveEnvByName, Server!SetActiveEnv,
           Server!AddHostname, Server!UpdateHostname, Server!RemoveHostname, Server!HasEnv,
           Server!EnvIndexes, Server!GetEnv, Server!First, Server!RemoveIndex, Server!WithId,
           Server!HasHostname, Server!HostnameIndexes, Server!GetHostname,
           Server!IdIndexes, Server!GetHostnameById
<1>2. Server!WithSomeEnv(c) = WithSomeEnv(c)
    BY DEF WithSomeEnv, Server!WithSomeEnv
<1>3. Server!IdsDrawn(o) = IdsDrawn(o)
    BY DEF IdsDrawn, Server!IdsDrawn
<1>. QED
    BY <1>1, <1>2, <1>3

\* The document holds environments there are and decoded entries only.
ServerShape ==
    /\ doc \in Configuration
    /\ EntriesFrom(doc, Stored)
    /\ clock \in Nat

\* A stored record is an entry of a document.
LEMMA StoredIsHostname == Stored \in SUBSET Hostname
    BY EntriesAssumption DEF Stored, Hostname

\* What an accepted operation does to the document: only an activation changes
\* the active environment, only a deletion takes an environment away.
LEMMA AcceptEffect ==
    ASSUME ServerShape, NEW o \in Operation, Brings(o, clock) \subseteq Stored, Server!Accept(o)
    PROVE  /\ ServerShape'
           /\ doc'.activeEnv = IF o.kind = "setActive" THEN o.env ELSE doc.activeEnv
           /\ o.kind = "setActive" => HasEnv(doc, o.env)
           /\ \A n : HasEnv(doc, n) => HasEnv(doc', n) \/ (o.kind = "removeEnv" /\ o.env = n)
<1>. DEFINE d == Perform(o, doc, clock)
<1>1. d # Rejected /\ doc' = WithSomeEnv(d) /\ clock' = clock + IdsDrawn(o)
    BY SameOperators DEF Server!Accept
<1>2. doc \in Configuration /\ EntriesFrom(doc, Stored) /\ clock \in Nat
    BY DEF ServerShape
<1>3. d \in Configuration
    BY <1>1, <1>2, PerformKeeps DEF Keeps
<1>4. /\ d.activeEnv = IF o.kind = "setActive" THEN o.env ELSE doc.activeEnv
      /\ o.kind = "setActive" => HasEnv(doc, o.env)
      /\ \A n : HasEnv(doc, n) => HasEnv(d, n) \/ (o.kind = "removeEnv" /\ o.env = n)
      /\ EntriesFrom(d, Stored)
    BY <1>1, <1>2, PerformChanges, StoredIsHostname
<1>. HIDE DEF d
<1>5. /\ WithSomeEnv(d) \in Configuration
      /\ KeepsEnvs(d, WithSomeEnv(d))
      /\ EntriesFrom(WithSomeEnv(d), Stored)
    BY <1>3, <1>4, StoredIsHostname, WithSomeEnvKeeps, WithSomeEnvChanges
<1>6. clock' \in Nat
    BY <1>1, <1>2, IdsDrawnType
<1>7. ServerShape'
    BY <1>1, <1>5, <1>6 DEF ServerShape
<1>. QED
    BY <1>1, <1>4, <1>5, <1>7 DEF KeepsEnvs

\* The operation the server is asked for: what the page remembers of a row is
\* not sent.
OnTheWire(op) ==
    IF op.kind = "removeHostname"
    THEN [kind |-> "removeHostname", env |-> op.env, name |-> op.name] ELSE op

LEMMA OnTheWireType ==
    ASSUME NEW op \in Op, ~IsRead(op), ~Invalid(op), NEW now \in Nat
    PROVE  /\ OnTheWire(op) \in Operation
           /\ OnTheWire(op).kind = op.kind
           /\ op.kind # "removeHostname" => OnTheWire(op) = op
           /\ Brings(OnTheWire(op), now) \subseteq Stored
<1>1. op.kind = "removeHostname" => /\ OnTheWire(op) \in Operation
                                    /\ OnTheWire(op).kind = op.kind
    BY DEF Op, OnTheWire, Operation
<1>2. op.kind \in {"addHostname", "updateHostname"} =>
          op.host \in Decodable /\ op.host \in NewHostname
    BY EntriesAssumption DEF Op, Invalid, Sent, Decodable, NewHostname
<1>3. op.kind # "removeHostname" => OnTheWire(op) = op
    BY DEF OnTheWire
<1>4. CASE op.kind = "removeHostname"
  <2>1. OnTheWire(op).kind = "removeHostname"
    BY <1>4 DEF OnTheWire
  <2>2. Brings(OnTheWire(op), now) = {}
    BY <2>1 DEF Brings
  <2>. QED
    BY <1>1, <1>4, <2>2
<1>5. CASE op.kind \in {"setActive", "removeEnv"}
  <2>1. op \in Operation
    BY <1>5 DEF Op, Operation
  <2>2. Brings(op, now) = {}
    BY <1>5 DEF Brings
  <2>. QED
    BY <1>3, <1>5, <2>1, <2>2
<1>6. CASE op.kind = "addEnv"
  <2>1. op \in [kind : {"addEnv"}, env : EnvNames, hosts : {<< >>}]
    BY <1>6 DEF Op
  <2>2. op \in Operation
    BY <2>1, EmptySeq DEF Operation
  <2>3. Brings(op, now) = {}
    BY <1>6, <2>1 DEF Brings
  <2>. QED
    BY <1>3, <1>6, <2>2, <2>3
<1>7. CASE op.kind = "addHostname"
  <2>1. op \in Operation
    BY <1>2, <1>7 DEF Op, Operation
  <2>2. WithId(op.host, now) \in Stored
    BY <1>2, <1>7 DEF WithId, Decodable, Stored
  <2>3. Brings(op, now) = {WithId(op.host, now)}
    BY <1>7 DEF Brings
  <2>. QED
    BY <1>3, <1>7, <2>1, <2>2, <2>3
<1>8. CASE op.kind = "updateHostname"
  <2>1. op \in Operation /\ op.id \in Nat
    BY <1>2, <1>8 DEF Op, Operation
  <2>2. WithId(op.host, op.id) \in Stored
    BY <1>2, <1>8, <2>1 DEF WithId, Decodable, Stored
  <2>3. Brings(op, now) = {WithId(op.host, op.id)}
    BY <1>8 DEF Brings
  <2>. QED
    BY <1>3, <1>8, <2>1, <2>2, <2>3
<1>. QED
    BY <1>4, <1>5, <1>6, <1>7, <1>8 DEF Op, IsRead

LEMMA OnTheWireSame ==
    ASSUME NEW op
    PROVE  /\ Server!Accept(op) => Server!Accept(OnTheWire(op))
           /\ Server!Reject(op) => Server!Reject(OnTheWire(op))
<1>. DEFINE w == OnTheWire(op)
<1>1. CASE op.kind = "removeHostname"
  <2>1. w.kind = "removeHostname" /\ w.env = op.env /\ w.name = op.name
    BY <1>1 DEF OnTheWire
  <2>2. Perform(w, doc, clock) = Perform(op, doc, clock) /\ IdsDrawn(w) = IdsDrawn(op)
    <3>. HIDE DEF w
    <3>. QED
      BY <1>1, <2>1 DEF Perform, IdsDrawn
  <2>. QED
    BY <2>2, SameOperators DEF Server!Accept, Server!Reject
<1>2. CASE op.kind # "removeHostname"
    BY <1>2 DEF OnTheWire
<1>. QED
    BY <1>1, <1>2

\* What the server does with a request of the page.
LEMMA ServerEffect ==
    ASSUME ServerShape, NEW op \in Op, ~IsRead(op), ~Invalid(op)
    PROVE  /\ Server!Accept(op) =>
                 /\ ServerShape'
                 /\ doc'.activeEnv = IF op.kind = "setActive" THEN op.env ELSE doc.activeEnv
                 /\ op.kind = "setActive" => HasEnv(doc, op.env)
                 /\ \A n : HasEnv(doc, n) =>
                              HasEnv(doc', n) \/ (op.kind = "removeEnv" /\ op.env = n)
           /\ Server!Reject(op) => ServerShape' /\ doc' = doc
<1>. DEFINE w == OnTheWire(op)
<1>1. clock \in Nat
    BY DEF ServerShape
<1>2. /\ w \in Operation /\ w.kind = op.kind /\ (op.kind # "removeHostname" => w = op)
      /\ Brings(w, clock) \subseteq Stored
    BY <1>1, OnTheWireType
<1>3. (Server!Accept(op) => Server!Accept(w)) /\ (Server!Reject(op) => Server!Reject(w))
    BY OnTheWireSame
<1>. HIDE DEF w
<1>4. ASSUME Server!Accept(op)
      PROVE  /\ ServerShape'
             /\ doc'.activeEnv = IF op.kind = "setActive" THEN op.env ELSE doc.activeEnv
             /\ op.kind = "setActive" => HasEnv(doc, op.env)
             /\ \A n : HasEnv(doc, n) => HasEnv(doc', n) \/ (op.kind = "removeEnv" /\ op.env = n)
  <2>1. /\ ServerShape'
        /\ doc'.activeEnv = IF w.kind = "setActive" THEN w.env ELSE doc.activeEnv
        /\ w.kind = "setActive" => HasEnv(doc, w.env)
        /\ \A n : HasEnv(doc, n) => HasEnv(doc', n) \/ (w.kind = "removeEnv" /\ w.env = n)
    BY <1>2, <1>3, <1>4, AcceptEffect
  <2>. QED
    BY <1>2, <2>1
<1>5. ASSUME Server!Reject(op) PROVE ServerShape' /\ doc' = doc
  <2>1. doc' = doc /\ clock' = clock + IdsDrawn(w)
    BY <1>3, <1>5, SameOperators DEF Server!Reject
  <2>2. clock' \in Nat
    BY <1>1, <1>2, <2>1, IdsDrawnType
  <2>. QED
    BY <2>1, <2>2 DEF ServerShape
<1>. QED
    BY <1>4, <1>5
-----------------------------------------------------------------------------
(***************************************************************************)
(* Types: of the requests under way, of the page and of the document.      *)
(***************************************************************************)
PageShape ==
    /\ net \in Seq(Req)
    /\ history \subseteq Events
    /\ rows \in Seq(Row)
    /\ home \in [isLoading : BOOLEAN, createEnv : BOOLEAN, env : EnvNames]
    /\ picker \in [current : EnvNames, envList : Seq(EnvNames)]

Shape == ServerShape /\ PageShape /\ FormInv

\* Requests that are sent are requests, and overlaps are events.
LEMMA PostShape ==
    ASSUME NEW rest \in Seq(Req), NEW reqs \in Seq(Req), NEW events \in SUBSET Events,
           history \subseteq Events, Post(rest, reqs, events)
    PROVE  net' \in Seq(Req) /\ history' \subseteq Events
<1>1. net' \in Seq(Req)
    BY ConcatMembers DEF Post
<1>2. \A r : Touches(r) \subseteq Events
    BY DEF Touches, Events
<1>3. Touched(rest) \subseteq Events
    BY <1>2 DEF Touched
<1>. QED
    BY <1>1, <1>3 DEF Post

\* The callbacks of a component that is gone.
LEMMA AbandonShape ==
    ASSUME NEW s \in Seq(Req), NEW names
    PROVE  /\ Abandon(s, names) \in Seq(Req)
           /\ DOMAIN Abandon(s, names) = DOMAIN s
           /\ \A k \in DOMAIN s :
                 /\ Abandon(s, names)[k].op = s[k].op
                 /\ Abandon(s, names)[k].reply = s[k].reply
                 /\ Abandon(s, names)[k].then
                       = IF s[k].then \in names THEN "nothing" ELSE s[k].then
<1>. DEFINE t == Abandon(s, names)
<1>1. DOMAIN s = 1..Len(s) /\ Len(s) \in Nat /\ \A k \in DOMAIN s : s[k] \in Req
    BY LenProperties, ElementOfSeq
<1>2. DOMAIN t = DOMAIN s
    BY DEF Abandon
<1>3. ASSUME NEW k \in DOMAIN s
      PROVE  /\ t[k] \in Req /\ t[k].op = s[k].op /\ t[k].reply = s[k].reply
             /\ t[k].then = IF s[k].then \in names THEN "nothing" ELSE s[k].then
  <2>1. t[k] = IF s[k].then \in names THEN [s[k] EXCEPT !.then = "nothing"] ELSE s[k]
    BY DEF Abandon
  <2>2. /\ s[k] = [op |-> s[k].op, then |-> s[k].then, reply |-> s[k].reply]
        /\ s[k].op \in Op /\ s[k].reply \in RepliesTo(s[k].op)
    BY <1>1, ReqParts
  <2>3. "nothing" \in CallbacksOf(s[k].op)
    BY <2>2 DEF Op, CallbacksOf
  <2>. DEFINE r == [op |-> s[k].op, then |-> "nothing", reply |-> s[k].reply]
  <2>4. [s[k] EXCEPT !.then = "nothing"] = r
    BY <2>2
  <2>5. r.op = s[k].op /\ r.then = "nothing" /\ r.reply = s[k].reply
    OBVIOUS
  <2>6. r \in Req
    BY <2>2, <2>3, <2>5, ReqParts
  <2>. HIDE DEF r, t
  <2>7. CASE s[k].then \in names
    BY <2>1, <2>4, <2>5, <2>6, <2>7
  <2>8. CASE s[k].then \notin names
    BY <1>1, <2>1, <2>8
  <2>. QED
    BY <2>7, <2>8
<1>4. t \in Seq(Req)
  <2>1. t = [k \in 1..Len(s) |-> t[k]]
    BY <1>1 DEF Abandon
  <2>. HIDE DEF t
  <2>2. t \in [1..Len(s) -> Req]
    BY <1>1, <1>3, <2>1
  <2>. QED
    BY <1>1, <2>2, SeqDef
<1>. QED
    BY <1>2, <1>3, <1>4

\* What a GET answers: the document as the page may hold it.
LEMMA ReadShape ==
    ASSUME ServerShape, NEW op \in Op, IsRead(op)
    PROVE  Read(op) \in RepliesTo(op)
<1>1. doc \in Configuration /\ EntriesFrom(doc, Stored)
    BY DEF ServerShape
<1>2. CASE op.kind = "active"
  <2>1. Read(op) = Ok(doc.activeEnv) /\ DataOf(op) = EnvNames
    BY <1>2 DEF Read, DataOf
  <2>2. doc.activeEnv \in EnvNames
    BY <1>1 DEF Configuration
  <2>. QED
    BY <2>1, <2>2 DEF RepliesTo
<1>3. CASE op.kind = "envs"
  <2>1. Read(op) = Ok(EnvNamesOf(doc)) /\ DataOf(op) = Seq(EnvNames)
    BY <1>3 DEF Read, DataOf
  <2>2. EnvNamesOf(doc) \in [1..Len(doc.envs) -> EnvNames] /\ Len(doc.envs) \in Nat
    BY <1>1, DocumentParts DEF EnvNamesOf
  <2>3. EnvNamesOf(doc) \in Seq(EnvNames)
    BY <2>2, SeqDef
  <2>. QED
    BY <2>1, <2>3 DEF RepliesTo
<1>4. CASE op.kind = "find" /\ HasEnv(doc, op.env)
  <2>. DEFINE e == GetEnv(doc, op.env)
  <2>1. Read(op) = Ok(doc.envs[e].hostnames) /\ DataOf(op) = Seq(Stored)
    BY <1>4 DEF Read, DataOf
  <2>2. doc.envs[e].hostnames \in Seq(Stored)
    BY <1>1, <1>4, GetEnvFinds DEF EntriesFrom
  <2>. HIDE DEF e
  <2>. QED
    BY <2>1, <2>2 DEF RepliesTo
<1>5. CASE op.kind = "find" /\ ~HasEnv(doc, op.env)
  <2>1. Read(op) = Bad
    BY <1>5 DEF Read
  <2>. QED
    BY <2>1 DEF RepliesTo
<1>. QED
    BY <1>2, <1>3, <1>4, <1>5 DEF IsRead

\* What a step of the server or of the network does: one request gets a reply,
\* which is the one its operation may get.
LEMMA HandleShape ==
    ASSUME ServerShape, net \in Seq(Req), NEW i, Handle(i)
    PROVE  /\ i \in DOMAIN net /\ net[i] \in Req /\ net[i].reply = Pending
           /\ \E x \in RepliesTo(net[i].op) :
                 /\ net' = [net EXCEPT ![i].reply = x]
                 /\ \/ IsRead(net[i].op) /\ x = Read(net[i].op) /\ UNCHANGED <<doc, clock>>
                    \/ ~IsRead(net[i].op) /\ x = Bad /\ doc' = doc
                    \/ ~IsRead(net[i].op) /\ ~Invalid(net[i].op) /\ x = Ok(<< >>)
                       /\ Server!Accept(net[i].op)
           /\ ServerShape' /\ history' = history
<1>1. i \in DOMAIN net /\ net[i].reply = Pending
    BY DEF Handle
<1>2. net[i] \in Req
    BY <1>1, ElementOfSeq, LenProperties
<1>. DEFINE op == net[i].op
<1>3. op \in Op
    BY <1>2, ReqParts
<1>. HIDE DEF op
<1>4. CASE IsRead(op) /\ Answer(i, Read(op)) /\ UNCHANGED serverVars
  <2>1. Read(op) \in RepliesTo(op)
    BY <1>3, <1>4, ReadShape
  <2>2. ServerShape'
    BY <1>4 DEF ServerShape, serverVars
  <2>. QED
    BY <1>1, <1>2, <1>4, <2>1, <2>2 DEF Answer, serverVars, op
<1>5. CASE ~IsRead(op) /\ Invalid(op) /\ Answer(i, Bad) /\ UNCHANGED serverVars
  <2>1. Bad \in RepliesTo(op)
    BY DEF RepliesTo
  <2>2. ServerShape'
    BY <1>5 DEF ServerShape, serverVars
  <2>. QED
    BY <1>1, <1>2, <1>5, <2>1, <2>2 DEF Answer, serverVars, op
<1>6. CASE ~IsRead(op) /\ ~Invalid(op) /\ Server!Accept(op) /\ Answer(i, Ok(<< >>))
  <2>1. Ok(<< >>) \in RepliesTo(op)
    BY <1>6 DEF RepliesTo, DataOf, IsRead
  <2>2. ServerShape'
    BY <1>3, <1>6, ServerEffect
  <2>. QED
    BY <1>1, <1>2, <1>6, <2>1, <2>2 DEF Answer, op
<1>7. CASE ~IsRead(op) /\ ~Invalid(op) /\ Server!Reject(op) /\ Answer(i, Bad)
  <2>1. Bad \in RepliesTo(op)
    BY DEF RepliesTo
  <2>2. ServerShape' /\ doc' = doc
    BY <1>3, <1>7, ServerEffect
  <2>. QED
    BY <1>1, <1>2, <1>7, <2>1, <2>2 DEF Answer, op
<1>. QED
    BY <1>4, <1>5, <1>6, <1>7 DEF Handle, op

LEMMA RestShape ==
    ASSUME net \in Seq(Req), NEW i \in DOMAIN net
    PROVE  net[i] \in Req /\ Rest(i) \in Seq(Req)
    BY ElementOfSeq, LenProperties, RemoveMembers DEF Rest

LEMMA NoRequest == << >> \in Seq(Req)
    OBVIOUS

\* Posting keeps the requests; what else the page holds may change as it does.
LEMMA PostKeepsShape ==
    ASSUME PageShape, NEW rest \in Seq(Req), NEW reqs \in Seq(Req),
           NEW events \in SUBSET Events, Post(rest, reqs, events),
           rows' \in Seq(Row),
           home' \in [isLoading : BOOLEAN, createEnv : BOOLEAN, env : EnvNames],
           picker' \in [current : EnvNames, envList : Seq(EnvNames)]
    PROVE  PageShape'
    BY PostShape DEF PageShape

LEMMA NewPicker ==
    ASSUME NEW env \in EnvNames
    PROVE  Picker(env) \in [current : EnvNames, envList : Seq(EnvNames)]
    BY EmptySeq DEF Picker

\* The rows of an answer.
LEMMA LoadedShape ==
    ASSUME NEW env \in EnvNames, NEW hostnames \in Seq(Stored)
    PROVE  Loaded(env, hostnames) \in Seq(Row)
<1>1. /\ DOMAIN hostnames = 1..Len(hostnames) /\ Len(hostnames) \in Nat
      /\ \A k \in DOMAIN hostnames : hostnames[k] \in Stored
    BY ElementOfSeq, LenProperties
<1>2. ASSUME NEW h \in Stored
      PROVE  [id |-> h.id, hostname |-> h.hostname, value |-> h.entry, editing |-> FALSE,
              clean |-> TRUE, origin |-> env] \in Row
    BY DEF Stored, Row, Decoded
<1>3. Loaded(env, hostnames) \in [1..Len(hostnames) -> Row]
    BY <1>1, <1>2 DEF Loaded
<1>. QED
    BY <1>1, <1>3, SeqDef

LEMMA CallbackShape ==
    ASSUME PageShape, NEW i, Deliver(i)
    PROVE  PageShape'
<1>1. /\ net \in Seq(Req) /\ history \subseteq Events /\ rows \in Seq(Row)
      /\ home \in [isLoading : BOOLEAN, createEnv : BOOLEAN, env : EnvNames]
      /\ picker \in [current : EnvNames, envList : Seq(EnvNames)]
    BY DEF PageShape
<1>2. i \in DOMAIN net
    BY DEF Deliver, Arrived
<1>3. net[i] \in Req /\ Rest(i) \in Seq(Req)
    BY <1>1, <1>2, RestShape
<1>4. {} \in SUBSET Events /\ {"refused"} \in SUBSET Events /\ {"deleted"} \in SUBSET Events
      /\ \A reqs : Closing(reqs) \in SUBSET Events
    BY DEF Events, Closing
<1>5. ASSUME NEW env \in EnvNames
      PROVE  /\ <<ListEnvs, Find(env)>> \in Seq(Req)
             /\ <<ListEnvs>> \o <<Find(env)>> \in Seq(Req)
             /\ << >> \o <<Find(env)>> \in Seq(Req)
             /\ <<Find(env)>> \o << >> \in Seq(Req)
             /\ <<Find(env)>> \o <<ListEnvs>> \in Seq(Req)
  <2>1. /\ ListEnvs \in Req /\ <<ListEnvs>> \in Seq(Req)
        /\ Find(env) \in Req /\ <<Find(env)>> \in Seq(Req)
    BY <1>5, PageRequests
  <2>2. <<ListEnvs, Find(env)>> \in Seq(Req)
    BY <2>1
  <2>. QED
    BY <2>1, <2>2, NoRequest, ConcatMembers
<1>6. CASE ActiveArrived(i)
  <2>1. CASE Succeeded(i)
    <3>. DEFINE env == net[i].reply.data
    <3>1. net[i].op.kind = "active"
      BY <1>3, <1>6, KindOfCallback DEF ActiveArrived
    <3>2. env \in EnvNames
      BY <1>3, <2>1, <3>1, DataOfReply DEF Succeeded, DataOf
    <3>. HIDE DEF env
    <3>3. /\ home' = [home EXCEPT !.isLoading = FALSE, !.env = env]
          /\ picker' = Picker(env) /\ rows' = rows
          /\ Post(Rest(i), <<ListEnvs, Find(env)>>, {})
      BY <1>6, <2>1 DEF ActiveArrived, env
    <3>4. home' \in [isLoading : BOOLEAN, createEnv : BOOLEAN, env : EnvNames]
      BY <1>1, <3>2, <3>3
    <3>5. picker' \in [current : EnvNames, envList : Seq(EnvNames)]
      BY <3>2, <3>3, NewPicker
    <3>6. <<ListEnvs, Find(env)>> \in Seq(Req)
      BY <1>5, <3>2
    <3>. QED
      BY <1>1, <1>3, <1>4, <3>3, <3>4, <3>5, <3>6, PostKeepsShape
  <2>2. CASE ~Succeeded(i)
    <3>1. Post(Rest(i), << >>, {}) /\ UNCHANGED <<home, picker, rows>>
      BY <1>6, <2>2 DEF ActiveArrived
    <3>. QED
      BY <1>1, <1>3, <1>4, <3>1, NoRequest, PostKeepsShape
  <2>. QED
    BY <2>1, <2>2
<1>7. CASE EnvListArrived(i)
  <2>1. Succeeded(i) => net[i].reply.data \in Seq(EnvNames)
    <3>1. net[i].op.kind = "envs"
      BY <1>3, <1>7, KindOfCallback DEF EnvListArrived
    <3>2. DataOf(net[i].op) = Seq(EnvNames)
      BY <3>1 DEF DataOf
    <3>. QED
      BY <1>3, <3>2, DataOfReply DEF Succeeded
  <2>2. picker' \in [current : EnvNames, envList : Seq(EnvNames)]
    BY <1>1, <1>7, <2>1 DEF EnvListArrived
  <2>3. Post(Rest(i), << >>, {}) /\ UNCHANGED <<home, rows>>
    BY <1>7 DEF EnvListArrived
  <2>. QED
    BY <1>1, <1>3, <1>4, <2>2, <2>3, NoRequest, PostKeepsShape
<1>8. CASE TableArrived(i)
  <2>1. Succeeded(i) => net[i].op.env \in EnvNames /\ net[i].reply.data \in Seq(Stored)
    <3>1. net[i].op.kind = "find" /\ net[i].op.env \in EnvNames
      BY <1>3, <1>8, KindOfCallback DEF TableArrived
    <3>2. DataOf(net[i].op) = Seq(Stored)
      BY <3>1 DEF DataOf
    <3>. QED
      BY <1>3, <3>1, <3>2, DataOfReply DEF Succeeded
  <2>2. rows' \in Seq(Row)
    BY <1>1, <1>8, <2>1, LoadedShape DEF TableArrived, RowsArrived
  <2>3. Post(Rest(i), << >>, {}) \/ Post(Rest(i), << >>, {"refused"})
    BY <1>8 DEF TableArrived, RowsArrived
  <2>4. UNCHANGED <<home, picker>>
    BY <1>8 DEF TableArrived
  <2>. QED
    BY <1>1, <1>3, <1>4, <2>2, <2>3, <2>4, NoRequest, PostKeepsShape
<1>9. CASE Activated(i)
  <2>. DEFINE env == net[i].op.env
              reqs == (IF home.createEnv THEN <<ListEnvs>> ELSE << >>) \o <<Find(env)>>
              events == IF home.createEnv THEN Closing(Rest(i)) ELSE {}
  <2>1. env \in EnvNames
    BY <1>3, <1>9, KindOfCallback DEF Activated
  <2>2. CASE Succeeded(i)
    <3>1. /\ home' = [home EXCEPT !.env = env, !.createEnv = FALSE]
          /\ picker' = IF home.createEnv THEN Picker(env) ELSE picker
          /\ Post(Rest(i), reqs, events) /\ rows' = rows
      BY <1>9, <2>2 DEF Activated
    <3>2. reqs \in Seq(Req) /\ events \in SUBSET Events
      BY <1>4, <1>5, <2>1
    <3>. HIDE DEF env, reqs, events
    <3>3. home' \in [isLoading : BOOLEAN, createEnv : BOOLEAN, env : EnvNames]
      BY <1>1, <2>1, <3>1
    <3>4. picker' \in [current : EnvNames, envList : Seq(EnvNames)]
      BY <1>1, <2>1, <3>1, NewPicker
    <3>. QED
      BY <1>1, <1>3, <3>1, <3>2, <3>3, <3>4, PostKeepsShape
  <2>3. CASE ~Succeeded(i)
    <3>1. Post(Rest(i), << >>, {"refused"}) /\ UNCHANGED <<home, picker, rows>>
      BY <1>9, <2>3 DEF Activated
    <3>. QED
      BY <1>1, <1>3, <1>4, <3>1, NoRequest, PostKeepsShape
  <2>. QED
    BY <2>2, <2>3
<1>10. CASE Created(i) \/ Deleted(i)
  <2>1. UNCHANGED <<home, picker, rows>>
    BY <1>10 DEF Created, Deleted, pageVars
  <2>2. \E reqs \in Seq(Req), events \in SUBSET Events : Post(Rest(i), reqs, events)
    <3>1. CASE Created(i)
      <4>1. <<Activate(net[i].op.env)>> \in Seq(Req)
        BY <1>3, <3>1, KindOfCallback, PageRequests DEF Created
      <4>. QED
        BY <1>4, <3>1, <4>1, NoRequest DEF Created
    <3>2. CASE Deleted(i)
      <4>1. <<Activate(DefaultEnv)>> \in Seq(Req)
        BY DefaultEnvAssumption, PageRequests
      <4>. QED
        BY <1>4, <3>2, <4>1, NoRequest DEF Deleted
    <3>. QED
      BY <1>10, <3>1, <3>2
  <2>. QED
    BY <1>1, <1>3, <2>1, <2>2, PostKeepsShape
<1>11. CASE Added(i) \/ RecordRemoved(i)
  <2>1. UNCHANGED <<home, picker, rows>>
    BY <1>11 DEF Added, RecordRemoved, Removed, pageVars
  <2>2. home.env \in EnvNames
    BY <1>1
  <2>3. \E reqs \in Seq(Req) : Post(Rest(i), reqs, {})
    <3>1. CASE Added(i)
      BY <1>5, <2>2, <3>1, NoRequest DEF Added
    <3>2. CASE RecordRemoved(i)
      BY <2>2, <3>2, NoRequest, PageRequests DEF RecordRemoved, Removed
    <3>. QED
      BY <1>11, <3>1, <3>2
  <2>. QED
    BY <1>1, <1>3, <1>4, <2>1, <2>3, PostKeepsShape
<1>12. CASE Ignored(i)
  <2>1. Post(Rest(i), << >>, {}) /\ UNCHANGED <<home, picker, rows>>
    BY <1>12 DEF Ignored, pageVars
  <2>. QED
    BY <1>1, <1>3, <1>4, <2>1, NoRequest, PostKeepsShape
<1>. QED
    BY <1>6, <1>7, <1>8, <1>9, <1>10, <1>11, <1>12 DEF Deliver

LEMMA RowReplaced ==
    ASSUME rows \in Seq(Row), NEW k \in DOMAIN rows, NEW r \in Row,
           rows' = [rows EXCEPT ![k] = r]
    PROVE  rows' \in Seq(Row)
    BY ExceptSeq, LenProperties

\* What the handlers of the table make of a row.
LEMMA EditedRow ==
    ASSUME NEW r \in Row
    PROVE  /\ r.id \in Nat /\ r.hostname \in Names /\ r.value \in Value /\ r.editing \in BOOLEAN
           /\ \A b \in BOOLEAN : [r EXCEPT !.editing = b] \in Row
           /\ \A name \in Names : [r EXCEPT !.hostname = name, !.clean = FALSE] \in Row
           /\ \A v \in Value : [r EXCEPT !.value = v, !.clean = FALSE] \in Row
    BY DEF Row

LEMMA EditedValue ==
    ASSUME NEW v \in Value
    PROVE  /\ \A type \in {"A", "CNAME"} : [v EXCEPT !.type = type] \in Value
           /\ \A number \in {"positive", "NaN"} : [v EXCEPT !.ttl = number] \in Value
           /\ \A text \in {"four", "large", "short", "blank"} : [v EXCEPT !.ip = text] \in Value
           /\ \A text \in {"typed", ""} : [v EXCEPT !.target = text] \in Value
    BY DEF Value

\* Every handler replaces the row it was called for.
LEMMA EditRowShape ==
    ASSUME PageShape, EditRow
    PROVE  PageShape'
<1>1. rows \in Seq(Row)
    BY DEF PageShape
<1>2. PICK k \in DOMAIN rows : SwapEditionMode(k) \/ HandleChange(k) \/ HandleRowNumber(k)
                                  \/ HandleIpChange(k) \/ HandleTargetChange(k)
    BY DEF EditRow
<1>. DEFINE row == rows[k]
<1>3. row \in Row
    BY <1>1, ElementOfSeq, LenProperties
<1>4. row.value \in Value /\ row.editing \in BOOLEAN
    BY <1>3, EditedRow
<1>5. \E r \in Row : rows' = [rows EXCEPT ![k] = r]
  <2>1. CASE SwapEditionMode(k)
    <3>1. rows' = [rows EXCEPT ![k] = [row EXCEPT !.editing = ~row.editing]]
      BY <2>1 DEF SwapEditionMode
    <3>. QED
      BY <1>3, <1>4, <3>1, EditedRow
  <2>2. ASSUME NEW name \in Names,
               rows' = [rows EXCEPT ![k].hostname = name, ![k].clean = FALSE]
        PROVE  \E r \in Row : rows' = [rows EXCEPT ![k] = r]
    <3>1. rows' = [rows EXCEPT ![k] = [row EXCEPT !.hostname = name, !.clean = FALSE]]
      BY <2>2
    <3>. QED
      BY <1>3, <3>1, EditedRow
  <2>3. ASSUME NEW type \in {"A", "CNAME"},
               rows' = [rows EXCEPT ![k].value.type = type, ![k].clean = FALSE]
        PROVE  \E r \in Row : rows' = [rows EXCEPT ![k] = r]
    <3>. DEFINE v == [row.value EXCEPT !.type = type]
    <3>1. rows' = [rows EXCEPT ![k] = [row EXCEPT !.value = v, !.clean = FALSE]]
      BY <2>3
    <3>2. v \in Value
      BY <1>4, EditedValue
    <3>. QED
      BY <1>3, <3>1, <3>2, EditedRow
  <2>4. ASSUME NEW number \in {"positive", "NaN"},
               rows' = [rows EXCEPT ![k].value.ttl = number, ![k].clean = FALSE]
        PROVE  \E r \in Row : rows' = [rows EXCEPT ![k] = r]
    <3>. DEFINE v == [row.value EXCEPT !.ttl = number]
    <3>1. rows' = [rows EXCEPT ![k] = [row EXCEPT !.value = v, !.clean = FALSE]]
      BY <2>4
    <3>2. v \in Value
      BY <1>4, EditedValue
    <3>. QED
      BY <1>3, <3>1, <3>2, EditedRow
  <2>5. ASSUME NEW text \in {"four", "large", "short", "blank"},
               rows' = [rows EXCEPT ![k].value.ip = text, ![k].clean = FALSE]
        PROVE  \E r \in Row : rows' = [rows EXCEPT ![k] = r]
    <3>. DEFINE v == [row.value EXCEPT !.ip = text]
    <3>1. rows' = [rows EXCEPT ![k] = [row EXCEPT !.value = v, !.clean = FALSE]]
      BY <2>5
    <3>2. v \in Value
      BY <1>4, EditedValue
    <3>. QED
      BY <1>3, <3>1, <3>2, EditedRow
  <2>6. ASSUME NEW text \in {"typed", ""},
               rows' = [rows EXCEPT ![k].value.target = text, ![k].clean = FALSE]
        PROVE  \E r \in Row : rows' = [rows EXCEPT ![k] = r]
    <3>. DEFINE v == [row.value EXCEPT !.target = text]
    <3>1. rows' = [rows EXCEPT ![k] = [row EXCEPT !.value = v, !.clean = FALSE]]
      BY <2>6
    <3>2. v \in Value
      BY <1>4, EditedValue
    <3>. QED
      BY <1>3, <3>1, <3>2, EditedRow
  <2>. QED
    BY <1>2, <2>1, <2>2, <2>3, <2>4, <2>5, <2>6
    DEF HandleChange, HandleRowNumber, HandleIpChange, HandleTargetChange
<1>6. rows' \in Seq(Row)
    BY <1>1, <1>5, RowReplaced
<1>7. UNCHANGED <<net, history, home, picker>>
    BY DEF EditRow
<1>. QED
    BY <1>6, <1>7 DEF PageShape

\* What the page posts of a value is decoded by HostnameV1, or refused.
LEMMA DecodeShape ==
    ASSUME NEW v \in Value
    PROVE  Decode(v) \in Decoded \cup {Undecodable}
    BY DEF Value, Decode, Decoded

LEMMA AjaxShape ==
    ASSUME PageShape, NEW op \in Op, NEW then \in CallbacksOf(op), Ajax(Request(op, then)),
           rows' \in Seq(Row), UNCHANGED home,
           picker' \in [current : EnvNames, envList : Seq(EnvNames)]
    PROVE  PageShape'
<1>1. <<Request(op, then)>> \in Seq(Req)
    BY NewRequest
<1>2. Post(net, <<Request(op, then)>>, {})
    BY DEF Ajax
<1>3. /\ net \in Seq(Req)
      /\ home' \in [isLoading : BOOLEAN, createEnv : BOOLEAN, env : EnvNames]
    BY DEF PageShape
<1>4. {} \in SUBSET Events
    OBVIOUS
<1>. QED
    BY <1>1, <1>2, <1>3, <1>4, PostKeepsShape

LEMMA UserShape ==
    ASSUME PageShape, FormInv, User
    PROVE  PageShape'
<1>1. /\ net \in Seq(Req) /\ history \subseteq Events /\ rows \in Seq(Row)
      /\ home \in [isLoading : BOOLEAN, createEnv : BOOLEAN, env : EnvNames]
      /\ picker \in [current : EnvNames, envList : Seq(EnvNames)]
    BY DEF PageShape
<1>2. home.env \in EnvNames /\ picker.current \in EnvNames /\ picker.envList \in Seq(EnvNames)
    BY <1>1
<1>3. CASE SelectEnv
  <2>1. PICK i \in DOMAIN picker.envList :
            /\ picker' = [picker EXCEPT !.current = picker.envList[i]]
            /\ Ajax(Activate(picker.envList[i]))
    BY <1>3 DEF SelectEnv
  <2>. DEFINE env == picker.envList[i]
              op == [kind |-> "setActive", env |-> env]
  <2>2. env \in EnvNames
    BY <1>2, ElementOfSeq, LenProperties
  <2>. HIDE DEF env
  <2>3. op \in Op /\ "activated" \in CallbacksOf(op)
    BY <2>2 DEF Op, CallbacksOf
  <2>4. Ajax(Request(op, "activated"))
    BY <2>1 DEF Activate, env
  <2>5. picker' \in [current : EnvNames, envList : Seq(EnvNames)]
    BY <1>1, <2>1, <2>2 DEF env
  <2>6. UNCHANGED <<home, rows>>
    BY <1>3 DEF SelectEnv
  <2>. HIDE DEF op
  <2>. QED
    BY <1>1, <2>3, <2>4, <2>5, <2>6, AjaxShape
<1>4. CASE DeleteCurrent
  <2>. DEFINE op == [kind |-> "removeEnv", env |-> picker.current]
  <2>1. op \in Op /\ "deleted" \in CallbacksOf(op)
    BY <1>2 DEF Op, CallbacksOf
  <2>2. Ajax(Request(op, "deleted")) /\ UNCHANGED <<home, picker, rows>>
    BY <1>4 DEF DeleteCurrent, pageVars
  <2>. HIDE DEF op
  <2>. QED
    BY <1>1, <2>1, <2>2, AjaxShape
<1>5. CASE OpenEnvForm
  <2>1. net' \in Seq(Req)
    BY <1>1, <1>5, AbandonShape DEF OpenEnvForm
  <2>2. home' \in [isLoading : BOOLEAN, createEnv : BOOLEAN, env : EnvNames]
    BY <1>1, <1>5 DEF OpenEnvForm
  <2>. QED
    BY <1>1, <1>5, <2>1, <2>2 DEF OpenEnvForm, PageShape
<1>6. CASE CancelEnvForm
  <2>1. home' \in [isLoading : BOOLEAN, createEnv : BOOLEAN, env : EnvNames]
    BY <1>1, <1>6 DEF CancelEnvForm
  <2>2. picker' \in [current : EnvNames, envList : Seq(EnvNames)]
    BY <1>2, <1>6, NewPicker DEF CancelEnvForm
  <2>3. Closing(net) \in SUBSET Events
    BY DEF Closing, Events
  <2>4. Post(net, <<ListEnvs>>, Closing(net)) /\ rows' = rows
    BY <1>6 DEF CancelEnvForm
  <2>. QED
    BY <1>1, <2>1, <2>2, <2>3, <2>4, PageRequests, PostKeepsShape
<1>7. CASE CreateEnvironment
  <2>1. PICK text \in Inputs :
            Ajax(Request([kind |-> "addEnv", env |-> Sanitized[text], hosts |-> << >>],
                         "created"))
    BY <1>7 DEF CreateEnvironment
  <2>. DEFINE op == [kind |-> "addEnv", env |-> Sanitized[text], hosts |-> << >>]
  <2>2. op \in Op /\ "created" \in CallbacksOf(op)
    BY SanitizedAssumption DEF Op, CallbacksOf
  <2>3. UNCHANGED <<home, picker, rows>>
    BY <1>7 DEF CreateEnvironment, pageVars
  <2>4. Ajax(Request(op, "created"))
    BY <2>1
  <2>. HIDE DEF op
  <2>. QED
    BY <1>1, <2>2, <2>3, <2>4, AjaxShape
<1>8. CASE SubmitForm
  <2>. DEFINE host == [hostname |-> form.hostname, entry |-> Decode(form.value)]
              op == [kind |-> "addHostname", env |-> home.env, host |-> host]
  <2>1. form.hostname \in Names /\ form.value \in Value
    BY DEF FormInv, FormShape
  <2>2. host \in Sent
    BY <2>1, DecodeShape DEF Sent
  <2>3. Ajax(Request(op, "added")) /\ UNCHANGED <<home, picker, rows>>
    BY <1>8 DEF SubmitForm, HandleSubmit
  <2>. HIDE DEF host
  <2>4. op \in Op /\ "added" \in CallbacksOf(op)
    BY <1>2, <2>2 DEF Op, CallbacksOf
  <2>. HIDE DEF op
  <2>. QED
    BY <1>1, <2>3, <2>4, AjaxShape
<1>9. CASE EditForm
    BY <1>1, <1>9 DEF EditForm, PageShape
<1>10. CASE EditRow
    BY <1>10, EditRowShape
<1>11. CASE SaveRow
  <2>1. PICK k \in DOMAIN rows : UpdateRecord(k, home.env)
    BY <1>11 DEF SaveRow
  <2>2. rows[k] \in Row
    BY <1>1, ElementOfSeq, LenProperties
  <2>3. rows[k].id \in Nat /\ rows[k].hostname \in Names /\ rows[k].value \in Value
    BY <2>2, EditedRow
  <2>. DEFINE host == [hostname |-> rows[k].hostname, entry |-> Decode(rows[k].value)]
              op == [kind |-> "updateHostname", env |-> home.env, id |-> rows[k].id,
                     host |-> host]
  <2>4. Ajax(Request(op, "nothing")) /\ rows' = [rows EXCEPT ![k].editing = FALSE]
    BY <2>1 DEF UpdateRecord
  <2>5. host \in Sent
    BY <2>3, DecodeShape DEF Sent
  <2>. HIDE DEF host
  <2>6. op \in Op /\ "nothing" \in CallbacksOf(op)
    BY <1>2, <2>3, <2>5 DEF Op, CallbacksOf
  <2>. HIDE DEF op
  <2>7. rows' = [rows EXCEPT ![k] = [rows[k] EXCEPT !.editing = FALSE]]
    BY <2>4
  <2>8. rows' \in Seq(Row)
    BY <1>1, <2>2, <2>7, EditedRow, RowReplaced
  <2>9. UNCHANGED <<home, picker>>
    BY <1>11 DEF SaveRow
  <2>. QED
    BY <1>1, <2>4, <2>6, <2>8, <2>9, AjaxShape
<1>12. CASE DeleteRow
  <2>1. PICK k \in DOMAIN rows : DeleteRecord(k, home.env)
    BY <1>12 DEF DeleteRow
  <2>2. rows[k] \in Row
    BY <1>1, ElementOfSeq, LenProperties
  <2>3. rows[k].id \in Nat /\ rows[k].hostname \in Names
    BY <2>2, EditedRow
  <2>4. Certain(k, home.env) \in BOOLEAN
    BY DEF Certain
  <2>. DEFINE certain == Certain(k, home.env)
              op == [kind |-> "removeHostname", env |-> home.env, name |-> rows[k].hostname,
                     id |-> rows[k].id, certain |-> certain]
  <2>5. Ajax(Request(op, "removed")) /\ rows' = rows
    BY <2>1 DEF DeleteRecord
  <2>6. certain \in BOOLEAN
    BY <2>4
  <2>. HIDE DEF certain
  <2>7. op \in Op /\ "removed" \in CallbacksOf(op)
    BY <1>2, <2>3, <2>6 DEF Op, CallbacksOf
  <2>. HIDE DEF op
  <2>8. UNCHANGED <<home, picker>>
    BY <1>12 DEF DeleteRow
  <2>. QED
    BY <1>1, <2>5, <2>7, <2>8, AjaxShape
<1>13. CASE Refresh
  <2>. DEFINE rest == Abandon(net, {net[i].then : i \in DOMAIN net})
  <2>1. /\ home' = NewHome /\ picker' = Picker(DefaultEnv) /\ rows' = << >>
        /\ Post(rest, <<GetActive>>, {"refreshed"})
    BY <1>13 DEF Refresh
  <2>2. rest \in Seq(Req)
    BY <1>1, AbandonShape
  <2>. HIDE DEF rest
  <2>3. home' \in [isLoading : BOOLEAN, createEnv : BOOLEAN, env : EnvNames]
    BY <2>1, DefaultEnvAssumption DEF NewHome
  <2>4. picker' \in [current : EnvNames, envList : Seq(EnvNames)]
    BY <2>1, DefaultEnvAssumption, NewPicker
  <2>5. rows' \in Seq(Row)
    BY <2>1, EmptySeq
  <2>6. {"refreshed"} \in SUBSET Events
    BY DEF Events
  <2>. QED
    BY <2>1, <2>2, <2>3, <2>4, <2>5, <2>6, PageRequests, PostKeepsShape
<1>. QED
    BY <1>3, <1>4, <1>5, <1>6, <1>7, <1>8, <1>9, <1>10, <1>11, <1>12, <1>13
    DEF User, UsePicker, UseEnvForm, UseRecords

\* The operations of the other client.
LEMMA ForeignEffect ==
    ASSUME ServerShape, NEW o \in ForeignOps, Server!Accept(o)
    PROVE  ServerShape'
<1>1. o \in Operation /\ clock \in Nat
    BY ServerAssumption DEF ServerShape
<1>2. ASSUME NEW h \in Decodable, NEW id \in Nat PROVE WithId(h, id) \in Stored
    BY DEF Decodable, WithId, Stored
<1>3. Brings(o, clock) \subseteq Stored
  <2>1. CASE o.kind = "addEnv"
    <3>1. o.hosts \in Seq(Decodable)
      BY <2>1, ServerAssumption
    <3>2. Len(o.hosts) \in Nat /\ \A i \in 1..Len(o.hosts) : o.hosts[i] \in Decodable
      BY <3>1, LenProperties, ElementOfSeq
    <3>3. \A i \in 1..Len(o.hosts) : clock + i - 1 \in Nat
      BY <1>1, <3>2
    <3>4. \A i \in 1..Len(o.hosts) : WithId(o.hosts[i], clock + i - 1) \in Stored
      BY <1>2, <3>2, <3>3
    <3>. QED
      BY <2>1, <3>4 DEF Brings
  <2>2. CASE o.kind = "addHostname"
    BY <1>1, <1>2, <2>2, ServerAssumption DEF Brings
  <2>3. CASE o.kind = "updateHostname"
    <3>1. o.id \in Nat /\ o.host \in Decodable
      BY <1>1, <2>3, ServerAssumption DEF Operation
    <3>. QED
      BY <1>2, <2>3, <3>1 DEF Brings
  <2>4. CASE o.kind \notin {"addEnv", "addHostname", "updateHostname"}
    BY <2>4 DEF Brings
  <2>. QED
    BY <2>1, <2>2, <2>3, <2>4
<1>. QED
    BY <1>1, <1>3, AcceptEffect

\* The requests under way after one of them got a reply: the others, and that
\* one with the reply.
LEMMA Replied ==
    ASSUME net \in Seq(Req), NEW i \in DOMAIN net, NEW x \in RepliesTo(net[i].op),
           net' = [net EXCEPT ![i].reply = x]
    PROVE  \E r \in Req :
              /\ r.op = net[i].op /\ r.then = net[i].then /\ r.reply = x
              /\ net' \in Seq(Req)
              /\ DOMAIN net' = DOMAIN net
              /\ net'[i] = r
              /\ \A k \in DOMAIN net : k # i => net'[k] = net[k]
              /\ UnderWay(net') \subseteq UnderWay(net) \cup {r}
              /\ UnderWay(net) \subseteq UnderWay(net') \cup {net[i]}
              /\ r \in UnderWay(net')
              /\ \A R : Once(net, R) /\ (r \in R => net[i] \in R) => Once(net', R)
<1>. DEFINE r == [op |-> net[i].op, then |-> net[i].then, reply |-> x]
<1>1. r.op = net[i].op /\ r.then = net[i].then /\ r.reply = x
    OBVIOUS
<1>2. /\ net[i] = [op |-> net[i].op, then |-> net[i].then, reply |-> net[i].reply]
      /\ net[i].op \in Op /\ net[i].then \in CallbacksOf(net[i].op)
    BY RestShape, ReqParts
<1>3. [net[i] EXCEPT !.reply = x] = r
    BY <1>2
<1>4. net' = [net EXCEPT ![i] = r]
    BY <1>3
<1>5. r = [op |-> r.op, then |-> r.then, reply |-> r.reply]
    OBVIOUS
<1>. HIDE DEF r
<1>6. r \in Req
    BY <1>1, <1>2, <1>5, ReqParts
<1>7. net' \in Seq(Req)
    BY <1>4, <1>6, ExceptSeq, LenProperties
<1>8. /\ DOMAIN net' = DOMAIN net
      /\ net'[i] = r
      /\ \A k \in DOMAIN net : k # i => net'[k] = net[k]
    BY <1>4
<1>9. /\ UnderWay(net') \subseteq UnderWay(net) \cup {r}
      /\ UnderWay(net) \subseteq UnderWay(net') \cup {net[i]}
      /\ r \in UnderWay(net')
    BY <1>8 DEF UnderWay
<1>10. ASSUME NEW R, Once(net, R), r \in R => net[i] \in R PROVE Once(net', R)
    BY <1>8, <1>10 DEF Once
<1>. QED
    BY <1>1, <1>6, <1>7, <1>8, <1>9, <1>10

LEMMA NetworkShape ==
    ASSUME Shape, Network, UNCHANGED <<pageVars, gestures>>
    PROVE  Shape'
<1>1. ServerShape /\ PageShape /\ FormInv /\ net \in Seq(Req)
    BY DEF Shape, PageShape
<1>2. FormInv'
    BY <1>1, FormUntouched DEF pageVars
<1>3. SUFFICES ServerShape' /\ net' \in Seq(Req) /\ history' \subseteq Events
    BY <1>1, <1>2 DEF Shape, PageShape, pageVars
<1>4. ASSUME NEW i \in DOMAIN net, Handle(i)
      PROVE  ServerShape' /\ net' \in Seq(Req) /\ history' \subseteq Events
  <2>1. PICK x \in RepliesTo(net[i].op) : net' = [net EXCEPT ![i].reply = x]
    BY <1>1, <1>4, HandleShape
  <2>2. net' \in Seq(Req)
    BY <1>1, <2>1, Replied
  <2>. QED
    BY <1>1, <1>4, <2>2, HandleShape DEF PageShape
<1>5. ASSUME NEW i \in DOMAIN net, Lose(i)
      PROVE  ServerShape' /\ net' \in Seq(Req) /\ history' \subseteq Events
  <2>1. Lost \in RepliesTo(net[i].op) /\ net' = [net EXCEPT ![i].reply = Lost]
    BY <1>5 DEF RepliesTo, Lose, Lost
  <2>2. net' \in Seq(Req)
    BY <1>1, <2>1, Replied
  <2>. QED
    BY <1>1, <1>5, <2>2 DEF Lose, PageShape, ServerShape, serverVars, Events
<1>6. CASE Foreign
  <2>1. ServerShape'
    BY <1>1, <1>6, ForeignEffect DEF Foreign
  <2>. QED
    BY <1>1, <1>6, <2>1 DEF Foreign, PageShape, Events
<1>. QED
    BY <1>4, <1>5, <1>6 DEF Network

LEMMA InitShape == Init => Shape
<1>. SUFFICES ASSUME Init PROVE Shape
    OBVIOUS
<1>. DEFINE StoredEnv == [name : EnvNames, hostnames : Seq(Stored)]
<1>1. doc \in [activeEnv : EnvNames, envs : Seq(StoredEnv)] /\ clock \in Nat
    BY ServerAssumption DEF Init
<1>2. Seq(Stored) \subseteq Seq(Hostname)
    BY StoredIsHostname, SeqMonotonic
<1>3. StoredEnv \subseteq Env
    BY <1>2 DEF Env
<1>4. doc.activeEnv \in EnvNames /\ doc.envs \in Seq(StoredEnv)
      /\ doc = [activeEnv |-> doc.activeEnv, envs |-> doc.envs]
    BY <1>1
<1>5. \A e \in DOMAIN doc.envs : doc.envs[e] \in StoredEnv
    BY <1>4, ElementOfSeq, LenProperties
<1>6. doc.envs \in Seq(Env)
  <2>. HIDE DEF StoredEnv
  <2>. QED
    BY <1>3, <1>4, SeqMonotonic
<1>7. ServerShape
    BY <1>1, <1>4, <1>5, <1>6 DEF ServerShape, Configuration, EntriesFrom
<1>8. net \in Seq(Req) /\ rows \in Seq(Row) /\ history \subseteq Events
    BY PageRequests, EmptySeq DEF Init
<1>9. PageShape
    BY <1>8, DefaultEnvAssumption, NewPicker DEF Init, PageShape, NewHome
<1>10. FormInv
    BY NewFormIsShown DEF Init
<1>. QED
    BY <1>7, <1>9, <1>10 DEF Shape

LEMMA NextShape == Shape /\ [Next]_vars => Shape'
<1>. SUFFICES ASSUME Shape, [Next]_vars PROVE Shape'
    OBVIOUS
<1>1. ServerShape /\ PageShape /\ FormInv
    BY DEF Shape
<1>2. CASE User /\ UNCHANGED serverVars
    BY <1>1, <1>2, UserShape, UserKeepsFormInv DEF Shape, ServerShape, serverVars
<1>3. CASE Network /\ UNCHANGED <<pageVars, gestures>>
    BY <1>3, NetworkShape
<1>4. ASSUME NEW i \in DOMAIN net, Deliver(i) PROVE Shape'
  <2>1. UNCHANGED serverVars
    BY <1>4 DEF Deliver
  <2>. QED
    BY <1>1, <1>4, <2>1, CallbackShape, CallbacksKeepFormInv DEF Shape, ServerShape, serverVars
<1>5. CASE UNCHANGED vars
  <2>1. FormInv'
    BY <1>1, <1>5, FormUntouched DEF vars, formVars
  <2>. QED
    BY <1>1, <1>5, <2>1 DEF Shape, ServerShape, PageShape, vars
<1>. QED
    BY <1>2, <1>3, <1>4, <1>5 DEF Next

THEOREM ShapeHolds == Spec => []Shape
<1>1. Init => Shape
    BY InitShape
<1>2. Shape /\ [Next]_vars => Shape'
    BY NextShape
<1>. QED
    BY <1>1, <1>2, PTL DEF Spec

\* Whatever the user types, whatever is lost and whatever another client does,
\* page and server hold only environments, names and values there are: an entry
\* that a request brings into the document went through HostnameV1.
THEOREM PageTypeCorrect == Spec => []TypeOK
<1>1. Shape => TypeOK
    BY DEF Shape, ServerShape, PageShape, FormInv, FormShape, TypeOK, Configuration
<1>. QED
    BY <1>1, ShapeHolds, PTL
-----------------------------------------------------------------------------
(***************************************************************************)
(* What the steps do to the requests under way.                            *)
(***************************************************************************)
Activations == {r \in Req : r.op.kind = "setActive"}
Loads == {r \in Req : r.then = "loaded"}
\* Requests about records: the reload of the table and the three changes.
OfRecords == {"find", "addHostname", "updateHostname", "removeHostname"}
RecordReqs == {r \in Req : r.op.kind \in OfRecords}

LEMMA UnderWayType ==
    ASSUME NEW s \in Seq(Req)
    PROVE  UnderWay(s) \subseteq Req
    BY ElementOfSeq, LenProperties DEF UnderWay

\* Sending: the history grows, and says so when activations overlap.
LEMMA PostMembers ==
    ASSUME NEW rest \in Seq(Req), NEW reqs \in Seq(Req), NEW events, Post(rest, reqs, events)
    PROVE  /\ UnderWay(net') = UnderWay(rest) \cup UnderWay(reqs)
           /\ history \subseteq history' /\ events \subseteq history'
           /\ UnderWay(rest) \cap Activations = {} \/ UnderWay(reqs) \cap Activations = {}
              \/ "active" \in history'
           /\ \A R : /\ Once(rest, R) /\ Once(reqs, R)
                     /\ UnderWay(rest) \cap R = {} \/ UnderWay(reqs) \cap R = {}
                     => Once(net', R)
<1>1. net' = rest \o reqs
    BY DEF Post
<1>2. ASSUME NEW s, UnderWay(s) \cap Activations # {} PROVE "active" \in Touched(s)
  <2>1. PICK k \in DOMAIN s : s[k] \in Activations
    BY <1>2 DEF UnderWay
  <2>2. "active" \in Touches(s[k])
    BY <2>1 DEF Touches, Activations
  <2>. QED
    BY <2>1, <2>2 DEF Touched
<1>3. UnderWay(rest) \cap Activations = {} \/ UnderWay(reqs) \cap Activations = {}
         \/ "active" \in history'
    BY <1>2 DEF Post
<1>. QED
    BY <1>1, <1>3, ConcatMembers DEF Post

\* What the requests of a callback are.
Follows(i, r) ==
    /\ r.reply = Pending
    /\ \/ r.then = "envList"
       \/ r.then = "rows"
       \/ net[i].then = "deleted" /\ r = Activate(DefaultEnv)
       \/ net[i].then = "created" /\ r = Activate(net[i].op.env)

LEMMA FollowingRequests ==
    ASSUME NEW i
    PROVE  /\ Follows(i, ListEnvs)
           /\ \A env : Follows(i, Find(env))
           /\ net[i].then = "deleted" => Follows(i, Activate(DefaultEnv))
           /\ net[i].then = "created" => Follows(i, Activate(net[i].op.env))
    BY DEF Follows, ListEnvs, Find, Activate, Request

\* A request that is sent, or two of them.
LEMMA OneOrTwo ==
    /\ UnderWay(<< >>) = {} /\ \A R : Once(<< >>, R)
    /\ \A a : UnderWay(<<a>>) = {a} /\ \A R : Once(<<a>>, R)
    /\ \A a, b : /\ UnderWay(<<a, b>>) = {a, b}
                 /\ UnderWay(<<a>> \o <<b>>) = {a, b}
                 /\ UnderWay(<< >> \o <<b>>) = {b}
                 /\ UnderWay(<<a>> \o << >>) = {a}
<1>1. UnderWay(<< >>) = {} /\ \A R : Once(<< >>, R)
    BY DEF UnderWay, Once
<1>2. ASSUME NEW a PROVE UnderWay(<<a>>) = {a} /\ \A R : Once(<<a>>, R)
  <2>1. DOMAIN <<a>> = {1} /\ <<a>>[1] = a
    OBVIOUS
  <2>. QED
    BY <2>1 DEF UnderWay, Once
<1>3. ASSUME NEW a, NEW b
      PROVE  /\ UnderWay(<<a, b>>) = {a, b}
             /\ UnderWay(<<a>> \o <<b>>) = {a, b}
             /\ UnderWay(<< >> \o <<b>>) = {b}
             /\ UnderWay(<<a>> \o << >>) = {a}
  <2>1. DOMAIN <<a, b>> = {1, 2} /\ <<a, b>>[1] = a /\ <<a, b>>[2] = b
    OBVIOUS
  <2>2. UnderWay(<<a, b>>) = {a, b}
    BY <2>1 DEF UnderWay
  <2>3. UnderWay(<<a>> \o <<b>>) = {a, b}
    <3>. DEFINE s == <<a>>
                t == <<b>>
    <3>1. s \in Seq({a, b}) /\ t \in Seq({a, b})
      OBVIOUS
    <3>2. UnderWay(s) = {a} /\ UnderWay(t) = {b}
      BY <1>2, Zenon
    <3>. HIDE DEF s, t
    <3>3. UnderWay(s \o t) = {a, b}
      BY <3>1, <3>2, ConcatMembers
    <3>. QED
      BY <3>3, Zenon DEF s, t
  <2>4. << >> \o <<b>> = <<b>> /\ <<a>> \o << >> = <<a>>
    BY ConcatEmptySeq
  <2>. QED
    BY <1>2, <2>2, <2>3, <2>4
<1>. QED
    BY <1>1, <1>2, <1>3

\* The requests reqs that the callback of request i sends, and what it records.
Sends(i, reqs, events) ==
    /\ reqs \in Seq(Req) /\ Post(Rest(i), reqs, events)
    /\ \A r \in UnderWay(reqs) : Follows(i, r)
    /\ Once(reqs, Activations)
    /\ net[i].then = "nothing" \/ ~Succeeded(i) => UnderWay(reqs) = {}
    /\ net[i].then = "deleted" /\ Succeeded(i) =>
          "deleted" \in events /\ Activate(DefaultEnv) \in UnderWay(reqs)
    /\ net[i].then = "activated" /\ ~Succeeded(i) => "refused" \in events
    /\ net[i].then = "activated" /\ Succeeded(i) /\ home.createEnv =>
          Closing(Rest(i)) \subseteq events

\* What it does to the page.
ShowsOn(i) ==
    /\ net[i].then = "loaded" /\ Succeeded(i) =>
          /\ home' = [home EXCEPT !.isLoading = FALSE, !.env = net[i].reply.data]
          /\ picker' = Picker(net[i].reply.data)
    /\ net[i].then = "activated" /\ Succeeded(i) =>
          /\ home' = [home EXCEPT !.env = net[i].op.env, !.createEnv = FALSE]
          /\ picker' = IF home.createEnv THEN Picker(net[i].op.env) ELSE picker
    /\ ~(net[i].then \in {"loaded", "activated"} /\ Succeeded(i)) =>
          home' = home /\ picker'.current = picker.current

LEMMA SendsNothing ==
    ASSUME NEW i, NEW events, Post(Rest(i), << >>, events),
           net[i].then # "deleted" \/ ~Succeeded(i),
           net[i].then = "activated" => ~Succeeded(i) /\ "refused" \in events
    PROVE  Sends(i, << >>, events)
    BY NoRequest, OneOrTwo DEF Sends

LEMMA CallbackEffect ==
    ASSUME PageShape, NEW i, Deliver(i)
    PROVE  /\ i \in DOMAIN net /\ net[i] \in Req /\ Rest(i) \in Seq(Req)
           /\ net[i].reply.status # "pending"
           /\ \E reqs, events : Sends(i, reqs, events)
           /\ ShowsOn(i)
           /\ UNCHANGED <<doc, clock>>
<1>1. net \in Seq(Req) /\ home.env \in EnvNames /\ picker.current \in EnvNames
      /\ picker \in [current : EnvNames, envList : Seq(EnvNames)]
    BY DEF PageShape
<1>2. i \in DOMAIN net /\ net[i].reply.status # "pending" /\ UNCHANGED <<doc, clock>>
    BY DEF Deliver, Arrived, serverVars
<1>3. net[i] \in Req /\ Rest(i) \in Seq(Req)
    BY <1>1, <1>2, RestShape
<1>. SUFFICES (\E reqs, events : Sends(i, reqs, events)) /\ ShowsOn(i)
    BY <1>2, <1>3
<1>. DEFINE then == net[i].then
<1>4. ListEnvs \in Req /\ ListEnvs \notin Activations
    BY PageRequests DEF ListEnvs, Request, Activations
<1>5. \A env \in EnvNames : Find(env) \in Req /\ Find(env) \notin Activations
    BY PageRequests DEF Find, Request, Activations
<1>6. ASSUME NEW reqs \in Seq(Req), NEW events, NEW env, Post(Rest(i), reqs, events),
             UnderWay(reqs) \subseteq {ListEnvs, Find(env)}, env \in EnvNames,
             then \notin {"deleted", "nothing"}, Succeeded(i),
             then = "activated" /\ home.createEnv => Closing(Rest(i)) \subseteq events
      PROVE  Sends(i, reqs, events)
  <2>1. \A r \in UnderWay(reqs) : Follows(i, r)
    BY <1>6, FollowingRequests
  <2>2. \A r \in UnderWay(reqs) : r \notin Activations
    BY <1>4, <1>5, <1>6
  <2>3. Once(reqs, Activations)
    BY <2>2 DEF Once, UnderWay
  <2>. QED
    BY <1>6, <2>1, <2>3 DEF Sends
<1>7. CASE ActiveArrived(i)
  <2>1. then = "loaded"
    BY <1>7 DEF ActiveArrived
  <2>2. CASE Succeeded(i)
    <3>. DEFINE env == net[i].reply.data
                reqs == <<ListEnvs, Find(env)>>
    <3>1. env \in EnvNames
      <4>1. net[i].op.kind = "active"
        BY <1>3, <2>1, KindOfCallback
      <4>. QED
        BY <1>3, <2>2, <4>1, DataOfReply DEF Succeeded, DataOf
    <3>2. /\ home' = [home EXCEPT !.isLoading = FALSE, !.env = env]
          /\ picker' = Picker(env)
          /\ Post(Rest(i), reqs, {})
      BY <1>7, <2>2 DEF ActiveArrived
    <3>3. reqs \in Seq(Req)
      BY <1>4, <1>5, <3>1
    <3>4. UnderWay(reqs) = {ListEnvs, Find(env)}
      BY OneOrTwo, Zenon
    <3>5. ShowsOn(i)
      BY <2>1, <2>2, <3>2 DEF ShowsOn
    <3>. HIDE DEF reqs, env
    <3>6. Sends(i, reqs, {})
      BY <1>6, <2>1, <2>2, <3>1, <3>2, <3>3, <3>4
    <3>. QED
      BY <3>5, <3>6
  <2>3. CASE ~Succeeded(i)
    BY <1>7, <2>1, <2>3, SendsNothing DEF ActiveArrived, ShowsOn
  <2>. QED
    BY <2>2, <2>3
<1>8. CASE EnvListArrived(i)
  <2>1. then = "envList" /\ Post(Rest(i), << >>, {}) /\ home' = home
    BY <1>8 DEF EnvListArrived
  <2>2. picker'.current = picker.current
    BY <1>1, <1>8 DEF EnvListArrived
  <2>. QED
    BY <2>1, <2>2, SendsNothing DEF ShowsOn
<1>9. CASE TableArrived(i)
  <2>1. then = "rows" /\ (\E events : Post(Rest(i), << >>, events)) /\ UNCHANGED <<home, picker>>
    BY <1>9 DEF TableArrived, RowsArrived
  <2>. QED
    BY <2>1, SendsNothing DEF ShowsOn
<1>10. CASE Activated(i)
  <2>1. then = "activated"
    BY <1>10 DEF Activated
  <2>2. CASE Succeeded(i)
    <3>. DEFINE env == net[i].op.env
                first == IF home.createEnv THEN <<ListEnvs>> ELSE << >>
                reqs == first \o <<Find(env)>>
                events == IF home.createEnv THEN Closing(Rest(i)) ELSE {}
    <3>1. env \in EnvNames
      BY <1>3, <2>1, KindOfCallback
    <3>2. /\ home' = [home EXCEPT !.env = env, !.createEnv = FALSE]
          /\ picker' = IF home.createEnv THEN Picker(env) ELSE picker
          /\ Post(Rest(i), reqs, events)
      BY <1>10, <2>2 DEF Activated
    <3>3. reqs \in Seq(Req)
      BY <3>1, PageRequests, NoRequest, ConcatMembers
    <3>4. UnderWay(reqs) \subseteq {ListEnvs, Find(env)}
      <4>1. CASE home.createEnv
        <5>1. reqs = <<ListEnvs>> \o <<Find(env)>>
          BY <4>1
        <5>2. UnderWay(reqs) = {ListEnvs, Find(env)}
          <6>. HIDE DEF reqs
          <6>. QED
            BY <5>1, OneOrTwo, Zenon
        <5>. QED
          BY <5>2
      <4>2. CASE ~home.createEnv
        <5>1. reqs = << >> \o <<Find(env)>>
          BY <4>2
        <5>2. UnderWay(reqs) = {Find(env)}
          <6>. HIDE DEF reqs
          <6>. QED
            BY <5>1, OneOrTwo, Zenon
        <5>. QED
          BY <5>2
      <4>. QED
        BY <4>1, <4>2
    <3>5. ShowsOn(i)
      BY <2>1, <2>2, <3>2 DEF ShowsOn
    <3>6. home.createEnv => Closing(Rest(i)) \subseteq events
      OBVIOUS
    <3>. HIDE DEF reqs, env, events, first
    <3>7. Sends(i, reqs, events)
      BY <1>6, <2>1, <2>2, <3>1, <3>2, <3>3, <3>4, <3>6
    <3>. QED
      BY <3>5, <3>7
  <2>3. CASE ~Succeeded(i)
    <3>1. Post(Rest(i), << >>, {"refused"}) /\ UNCHANGED <<home, picker>>
      BY <1>10, <2>3 DEF Activated
    <3>. QED
      BY <2>1, <2>3, <3>1, SendsNothing DEF ShowsOn
  <2>. QED
    BY <2>2, <2>3
<1>11. CASE Created(i) \/ Deleted(i)
  <2>1. UNCHANGED <<home, picker>> /\ then \in {"created", "deleted"}
    BY <1>11 DEF Created, Deleted, pageVars
  <2>2. ShowsOn(i)
    BY <2>1 DEF ShowsOn
  <2>3. CASE ~Succeeded(i)
    <3>1. Post(Rest(i), << >>, {})
      BY <1>11, <2>3 DEF Created, Deleted
    <3>. QED
      BY <2>1, <2>2, <2>3, <3>1, SendsNothing
  <2>4. CASE Succeeded(i)
    <3>. DEFINE env == IF then = "created" THEN net[i].op.env ELSE DefaultEnv
                req == Activate(env)
                reqs == <<req>>
                events == IF then = "created" THEN {} ELSE {"deleted"}
    <3>1. Post(Rest(i), reqs, events)
      BY <1>11, <2>4 DEF Created, Deleted
    <3>2. env \in EnvNames
      BY <1>3, KindOfCallback, DefaultEnvAssumption
    <3>3. reqs \in Seq(Req)
      BY <3>2, PageRequests
    <3>4. UnderWay(reqs) = {req} /\ Once(reqs, Activations)
      BY OneOrTwo, Zenon
    <3>5. Follows(i, req)
      BY <2>1, FollowingRequests
    <3>6. then = "deleted" => "deleted" \in events /\ req = Activate(DefaultEnv)
      OBVIOUS
    <3>. HIDE DEF env, req, reqs, events
    <3>7. Sends(i, reqs, events)
      BY <2>1, <2>4, <3>1, <3>3, <3>4, <3>5, <3>6 DEF Sends
    <3>. QED
      BY <2>2, <3>7
  <2>. QED
    BY <2>3, <2>4
<1>12. CASE Added(i) \/ RecordRemoved(i)
  <2>1. UNCHANGED <<home, picker>> /\ then \in {"added", "removed"}
    BY <1>12 DEF Added, RecordRemoved, Removed, pageVars
  <2>2. ShowsOn(i)
    BY <2>1 DEF ShowsOn
  <2>3. \/ Post(Rest(i), << >>, {})
        \/ Succeeded(i) /\ Post(Rest(i), <<Find(home.env)>> \o << >>, {})
        \/ Succeeded(i) /\ Post(Rest(i), <<Find(home.env)>> \o <<ListEnvs>>, {})
        \/ Succeeded(i) /\ Post(Rest(i), <<Find(home.env)>>, {})
    BY <1>12 DEF Added, RecordRemoved, Removed
  <2>4. /\ <<Find(home.env)>> \in Seq(Req)
        /\ <<Find(home.env)>> \o << >> \in Seq(Req)
        /\ <<Find(home.env)>> \o <<ListEnvs>> \in Seq(Req)
    BY <1>1, PageRequests, NoRequest, ConcatMembers
  <2>5. /\ UnderWay(<<Find(home.env)>>) = {Find(home.env)}
        /\ UnderWay(<<Find(home.env)>> \o << >>) = {Find(home.env)}
        /\ UnderWay(<<Find(home.env)>> \o <<ListEnvs>>) = {Find(home.env), ListEnvs}
    BY OneOrTwo, Zenon
  <2>6. CASE Post(Rest(i), << >>, {})
    BY <2>1, <2>2, <2>6, SendsNothing
  <2>7. ASSUME NEW reqs \in Seq(Req), Succeeded(i), Post(Rest(i), reqs, {}),
               UnderWay(reqs) \subseteq {ListEnvs, Find(home.env)}
        PROVE  Sends(i, reqs, {})
    BY <1>1, <1>6, <2>1, <2>7
  <2>. QED
    BY <2>2, <2>3, <2>4, <2>5, <2>6, <2>7, Zenon
<1>13. CASE Ignored(i)
    BY <1>13, SendsNothing DEF Ignored, ShowsOn, pageVars
<1>. QED
    BY <1>7, <1>8, <1>9, <1>10, <1>11, <1>12, <1>13 DEF Deliver

\* A gesture that sends one request.
Asks(r) == r \in Req /\ r.reply = Pending /\ Post(net, <<r>>, {})

LEMMA AskMembers ==
    ASSUME net \in Seq(Req), NEW r, Asks(r)
    PROVE  /\ UnderWay(net') = UnderWay(net) \cup {r}
           /\ history \subseteq history'
           /\ r \in Activations =>
                 UnderWay(net) \cap Activations = {} \/ "active" \in history'
           /\ \A R : Once(net, R) /\ (r \notin R \/ UnderWay(net) \cap R = {}) => Once(net', R)
<1>. DEFINE reqs == <<r>>
<1>1. r \in Req /\ Post(net, reqs, {})
    BY DEF Asks
<1>2. reqs \in Seq(Req)
    BY <1>1
<1>3. UnderWay(reqs) = {r} /\ \A R : Once(reqs, R)
    BY OneOrTwo, Zenon
<1>. HIDE DEF reqs
<1>4. /\ UnderWay(net') = UnderWay(net) \cup UnderWay(reqs)
      /\ history \subseteq history'
      /\ UnderWay(net) \cap Activations = {} \/ UnderWay(reqs) \cap Activations = {}
         \/ "active" \in history'
      /\ \A R : /\ Once(net, R) /\ Once(reqs, R)
                /\ UnderWay(net) \cap R = {} \/ UnderWay(reqs) \cap R = {}
                => Once(net', R)
    BY <1>1, <1>2, PostMembers
<1>5. ASSUME NEW R, Once(net, R), r \notin R \/ UnderWay(net) \cap R = {} PROVE Once(net', R)
    BY <1>3, <1>4, <1>5
<1>. QED
    BY <1>3, <1>4, <1>5

LEMMA AskOp ==
    ASSUME NEW op \in Op, NEW then \in CallbacksOf(op), Ajax(Request(op, then))
    PROVE  LET r == Request(op, then)
           IN  Asks(r) /\ r.op = op /\ r.then = then
<1>1. Request(op, then) \in Req
    BY NewRequest
<1>. QED
    BY <1>1 DEF Asks, Ajax, Request

\* What a request about a record takes from the table.
AboutRow(r) ==
    /\ r.op.env = home.env
    /\ r.then = "nothing" => r.op.kind = "updateHostname"
    /\ r.op.kind = "updateHostname" =>
          \E k \in DOMAIN rows :
             /\ r.op.id = rows[k].id
             /\ r.op.host = [hostname |-> rows[k].hostname, entry |-> Decode(rows[k].value)]
    /\ r.op.kind = "removeHostname" =>
          \E k \in DOMAIN rows :
             /\ r.op.id = rows[k].id /\ r.op.name = rows[k].hostname
             /\ r.op.certain = Certain(k, home.env)

\* The gestures, by what they send.
AsksForRecord ==
    /\ \E r : /\ Asks(r)
              /\ r.op.kind \in {"addHostname", "updateHostname", "removeHostname"}
              /\ AboutRow(r)
    /\ UNCHANGED <<home, picker>>
AsksForEnv ==
    /\ home.createEnv
    /\ \E r : Asks(r) /\ r.op.kind = "addEnv"
    /\ UNCHANGED <<home, picker>>
AsksForDeletion ==
    /\ ~home.createEnv
    /\ \E r : /\ Asks(r)
              /\ r.op.kind = "removeEnv" /\ r.op.env # DefaultEnv /\ r.then = "deleted"
    /\ UNCHANGED <<home, picker>>
AsksForActivation ==
    /\ ~home.createEnv
    /\ \E r : /\ Asks(r) /\ r.op.kind = "setActive" /\ r.then = "activated"
              /\ picker'.current = r.op.env
    /\ UNCHANGED home

LEMMA GestureEffect ==
    ASSUME PageShape, FormInv, User, ~Refresh
    PROVE  /\ ~home.isLoading
           /\ \/ UNCHANGED <<net, history, home, picker>>
              \/ AsksForRecord \/ AsksForEnv \/ AsksForDeletion \/ AsksForActivation
              \/ OpenEnvForm
              \/ CancelEnvForm
<1>1. /\ net \in Seq(Req) /\ rows \in Seq(Row)
      /\ home.env \in EnvNames /\ picker.current \in EnvNames /\ picker.envList \in Seq(EnvNames)
      /\ picker \in [current : EnvNames, envList : Seq(EnvNames)]
    BY DEF PageShape
<1>2. ~home.isLoading
    BY DEF User, UsePicker, UseEnvForm, UseRecords, SelectEnv, DeleteCurrent, OpenEnvForm,
           CreateEnvironment, CancelEnvForm, SubmitForm, EditForm, EditRow, SaveRow, DeleteRow,
           Gesture
<1>3. CASE ~home.createEnv /\ SelectEnv
  <2>1. PICK i \in DOMAIN picker.envList :
            /\ picker' = [picker EXCEPT !.current = picker.envList[i]]
            /\ Ajax(Activate(picker.envList[i]))
    BY <1>3 DEF SelectEnv
  <2>. DEFINE env == picker.envList[i]
              op == [kind |-> "setActive", env |-> env]
  <2>2. env \in EnvNames
    BY <1>1, ElementOfSeq, LenProperties
  <2>. HIDE DEF env
  <2>3. op \in Op /\ "activated" \in CallbacksOf(op) /\ op.kind = "setActive" /\ op.env = env
    BY <2>2 DEF Op, CallbacksOf
  <2>4. Ajax(Request(op, "activated"))
    BY <2>1 DEF Activate, env
  <2>5. picker'.current = env /\ home' = home
    BY <1>1, <1>3, <2>1 DEF env, SelectEnv
  <2>. HIDE DEF op
  <2>6. AsksForActivation
    BY <1>3, <2>3, <2>4, <2>5, AskOp DEF AsksForActivation
  <2>. QED
    BY <1>2, <2>6
<1>4. CASE ~home.createEnv /\ DeleteCurrent
  <2>. DEFINE op == [kind |-> "removeEnv", env |-> picker.current]
  <2>1. /\ op \in Op /\ "deleted" \in CallbacksOf(op)
        /\ op.kind = "removeEnv" /\ op.env = picker.current
    BY <1>1 DEF Op, CallbacksOf
  <2>2. Ajax(Request(op, "deleted")) /\ UNCHANGED <<home, picker>> /\ picker.current # DefaultEnv
    BY <1>4 DEF DeleteCurrent, pageVars
  <2>. HIDE DEF op
  <2>3. AsksForDeletion
    BY <1>4, <2>1, <2>2, AskOp DEF AsksForDeletion
  <2>. QED
    BY <1>2, <2>3
<1>5. CASE home.createEnv /\ CreateEnvironment
  <2>1. PICK text \in Inputs :
            Ajax(Request([kind |-> "addEnv", env |-> Sanitized[text], hosts |-> << >>],
                         "created"))
    BY <1>5 DEF CreateEnvironment
  <2>. DEFINE op == [kind |-> "addEnv", env |-> Sanitized[text], hosts |-> << >>]
  <2>2. op \in Op /\ "created" \in CallbacksOf(op) /\ op.kind = "addEnv"
    BY SanitizedAssumption DEF Op, CallbacksOf
  <2>3. UNCHANGED <<home, picker>>
    BY <1>5 DEF CreateEnvironment, pageVars
  <2>4. Ajax(Request(op, "created"))
    BY <2>1
  <2>. HIDE DEF op
  <2>5. AsksForEnv
    BY <1>5, <2>2, <2>3, <2>4, AskOp DEF AsksForEnv
  <2>. QED
    BY <1>2, <2>5
<1>6. CASE SubmitForm
  <2>. DEFINE host == [hostname |-> form.hostname, entry |-> Decode(form.value)]
              op == [kind |-> "addHostname", env |-> home.env, host |-> host]
  <2>1. form.hostname \in Names /\ form.value \in Value
    BY DEF FormInv, FormShape
  <2>2. host \in Sent
    BY <2>1, DecodeShape DEF Sent
  <2>3. Ajax(Request(op, "added")) /\ UNCHANGED <<home, picker>>
    BY <1>6 DEF SubmitForm, HandleSubmit
  <2>. HIDE DEF host
  <2>4. /\ op \in Op /\ "added" \in CallbacksOf(op)
        /\ op.kind = "addHostname" /\ op.env = home.env
    BY <1>1, <2>2 DEF Op, CallbacksOf
  <2>. HIDE DEF op
  <2>5. PICK r : Asks(r) /\ r.op = op /\ r.then = "added"
    BY <2>3, <2>4, AskOp
  <2>6. AboutRow(r)
    BY <2>4, <2>5 DEF AboutRow
  <2>7. AsksForRecord
    BY <2>3, <2>4, <2>5, <2>6 DEF AsksForRecord
  <2>. QED
    BY <1>2, <2>7
<1>7. CASE EditForm \/ EditRow
    BY <1>2, <1>7 DEF EditForm, EditRow
<1>8. CASE SaveRow
  <2>1. PICK k \in DOMAIN rows : UpdateRecord(k, home.env)
    BY <1>8 DEF SaveRow
  <2>2. rows[k] \in Row
    BY <1>1, ElementOfSeq, LenProperties
  <2>3. rows[k].id \in Nat /\ rows[k].hostname \in Names /\ rows[k].value \in Value
    BY <2>2, EditedRow
  <2>. DEFINE host == [hostname |-> rows[k].hostname, entry |-> Decode(rows[k].value)]
              op == [kind |-> "updateHostname", env |-> home.env, id |-> rows[k].id,
                     host |-> host]
  <2>4. Ajax(Request(op, "nothing"))
    BY <2>1 DEF UpdateRecord
  <2>5. host \in Sent
    BY <2>3, DecodeShape DEF Sent
  <2>. HIDE DEF host
  <2>6. /\ op \in Op /\ "nothing" \in CallbacksOf(op)
        /\ op.kind = "updateHostname" /\ op.env = home.env /\ op.id = rows[k].id
        /\ op.host = host
    BY <1>1, <2>3, <2>5 DEF Op, CallbacksOf
  <2>. HIDE DEF op
  <2>7. UNCHANGED <<home, picker>>
    BY <1>8 DEF SaveRow
  <2>8. PICK r : Asks(r) /\ r.op = op /\ r.then = "nothing"
    BY <2>4, <2>6, AskOp
  <2>9. AboutRow(r)
    BY <2>1, <2>6, <2>8 DEF AboutRow, host
  <2>10. AsksForRecord
    BY <2>6, <2>7, <2>8, <2>9 DEF AsksForRecord
  <2>. QED
    BY <1>2, <2>10
<1>9. CASE DeleteRow
  <2>1. PICK k \in DOMAIN rows : DeleteRecord(k, home.env)
    BY <1>9 DEF DeleteRow
  <2>2. rows[k] \in Row
    BY <1>1, ElementOfSeq, LenProperties
  <2>3. rows[k].id \in Nat /\ rows[k].hostname \in Names
    BY <2>2, EditedRow
  <2>. DEFINE certain == Certain(k, home.env)
              op == [kind |-> "removeHostname", env |-> home.env, name |-> rows[k].hostname,
                     id |-> rows[k].id, certain |-> certain]
  <2>4. Ajax(Request(op, "removed"))
    BY <2>1 DEF DeleteRecord
  <2>5. certain \in BOOLEAN
    BY DEF Certain
  <2>. HIDE DEF certain
  <2>6. /\ op \in Op /\ "removed" \in CallbacksOf(op)
        /\ op.kind = "removeHostname" /\ op.env = home.env /\ op.id = rows[k].id
        /\ op.name = rows[k].hostname /\ op.certain = certain
    BY <1>1, <2>3, <2>5 DEF Op, CallbacksOf
  <2>. HIDE DEF op
  <2>7. UNCHANGED <<home, picker>>
    BY <1>9 DEF DeleteRow
  <2>8. PICK r : Asks(r) /\ r.op = op /\ r.then = "removed"
    BY <2>4, <2>6, AskOp
  <2>9. AboutRow(r)
    BY <2>1, <2>6, <2>8 DEF AboutRow, certain
  <2>10. AsksForRecord
    BY <2>6, <2>7, <2>8, <2>9 DEF AsksForRecord
  <2>. QED
    BY <1>2, <2>10
<1>. QED
    BY <1>2, <1>3, <1>4, <1>5, <1>6, <1>7, <1>8, <1>9
    DEF User, UsePicker, UseEnvForm, UseRecords

\* The network touches the reply of one request, or none.
LEMMA NetworkMembers ==
    ASSUME Shape, Network, UNCHANGED <<pageVars, gestures>>
    PROVE  /\ history \subseteq history' /\ UNCHANGED <<home, picker>>
           /\ \A q \in UnderWay(net') :
                 \E r \in UnderWay(net) : q.op = r.op /\ q.then = r.then
           /\ \A r \in UnderWay(net) :
                 \E q \in UnderWay(net') : q.op = r.op /\ q.then = r.then
           /\ Once(net, Loads) => Once(net', Loads)
           /\ Once(net, Activations) => Once(net', Activations)
           /\ Once(net, RecordReqs) => Once(net', RecordReqs)
<1>1. ServerShape /\ net \in Seq(Req)
    BY DEF Shape, PageShape
<1>2. history \subseteq history' /\ UNCHANGED <<home, picker>>
    BY DEF Network, Handle, Answer, Lose, Foreign, pageVars
<1>3. CASE net' = net
    BY <1>2, <1>3
<1>4. ASSUME NEW i \in DOMAIN net, NEW x \in RepliesTo(net[i].op),
             net' = [net EXCEPT ![i].reply = x]
      PROVE  /\ \A q \in UnderWay(net') :
                   \E r \in UnderWay(net) : q.op = r.op /\ q.then = r.then
             /\ \A r \in UnderWay(net) :
                   \E q \in UnderWay(net') : q.op = r.op /\ q.then = r.then
             /\ Once(net, Loads) => Once(net', Loads)
             /\ Once(net, Activations) => Once(net', Activations)
             /\ Once(net, RecordReqs) => Once(net', RecordReqs)
  <2>1. PICK r \in Req :
              /\ r.op = net[i].op /\ r.then = net[i].then
              /\ UnderWay(net') \subseteq UnderWay(net) \cup {r}
              /\ UnderWay(net) \subseteq UnderWay(net') \cup {net[i]}
              /\ r \in UnderWay(net')
              /\ \A R : Once(net, R) /\ (r \in R => net[i] \in R) => Once(net', R)
    BY <1>1, <1>4, Replied
  <2>2. net[i] \in UnderWay(net) /\ net[i] \in Req
    BY <1>1, RestShape DEF UnderWay
  <2>3. /\ r \in Loads => net[i] \in Loads
        /\ r \in Activations => net[i] \in Activations
        /\ r \in RecordReqs => net[i] \in RecordReqs
    BY <2>1, <2>2 DEF Loads, Activations, RecordReqs
  <2>. QED
    BY <2>1, <2>2, <2>3
<1>5. \/ net' = net
      \/ \E i \in DOMAIN net : \E x \in RepliesTo(net[i].op) : net' = [net EXCEPT ![i].reply = x]
  <2>1. ASSUME NEW i \in DOMAIN net, Handle(i)
        PROVE  \E x \in RepliesTo(net[i].op) : net' = [net EXCEPT ![i].reply = x]
    BY <1>1, <2>1, HandleShape
  <2>2. ASSUME NEW i \in DOMAIN net, Lose(i)
        PROVE  \E x \in RepliesTo(net[i].op) : net' = [net EXCEPT ![i].reply = x]
    BY <2>2 DEF RepliesTo, Lose, Lost
  <2>3. Foreign => net' = net
    BY DEF Foreign
  <2>. QED
    BY <2>1, <2>2, <2>3 DEF Network
<1>. QED
    BY <1>2, <1>3, <1>4, <1>5

\* What is left of the requests when the page is loaded anew.
LEMMA RefreshMembers ==
    ASSUME PageShape, Refresh
    PROVE  /\ \A q \in UnderWay(net') : q.then = "nothing" \/ q = GetActive
           /\ GetActive.then = "loaded" /\ GetActive \in Req
           /\ \A q \in UnderWay(net') :
                 q = GetActive \/ \E r \in UnderWay(net) : q.op = r.op /\ q.reply = r.reply
           /\ Once(net', Loads)
           /\ Once(net, RecordReqs) => Once(net', RecordReqs)
           /\ home' = NewHome /\ picker' = Picker(DefaultEnv)
           /\ history \subseteq history' /\ "refreshed" \in history'
<1>. DEFINE thens == {net[k].then : k \in DOMAIN net}
            rest == Abandon(net, thens)
            reqs == <<GetActive>>
<1>1. net \in Seq(Req)
    BY DEF PageShape
<1>2. Post(rest, reqs, {"refreshed"}) /\ home' = NewHome /\ picker' = Picker(DefaultEnv)
    BY DEF Refresh
<1>3. \A k \in DOMAIN net : net[k].then \in thens
    OBVIOUS
<1>. HIDE DEF thens
<1>4. rest \in Seq(Req) /\ DOMAIN rest = DOMAIN net
      /\ \A k \in DOMAIN net : /\ rest[k].then = "nothing"
                                /\ rest[k].op = net[k].op /\ rest[k].reply = net[k].reply
    BY <1>1, <1>3, AbandonShape
<1>5. reqs \in Seq(Req) /\ GetActive \in Req
    BY PageRequests
<1>6. UnderWay(reqs) = {GetActive} /\ \A R : Once(reqs, R)
    BY OneOrTwo, Zenon
<1>. HIDE DEF rest, reqs
<1>7. /\ UnderWay(net') = UnderWay(rest) \cup UnderWay(reqs)
      /\ history \subseteq history' /\ {"refreshed"} \subseteq history'
      /\ \A R : /\ Once(rest, R) /\ Once(reqs, R)
                /\ UnderWay(rest) \cap R = {} \/ UnderWay(reqs) \cap R = {}
                => Once(net', R)
    BY <1>2, <1>4, <1>5, PostMembers
<1>8. \A r \in UnderWay(rest) : r.then = "nothing"
    BY <1>4 DEF UnderWay
<1>9. UnderWay(rest) \cap Loads = {} /\ Once(rest, Loads)
    BY <1>4, <1>8 DEF Loads, Once, UnderWay
<1>10. GetActive.then = "loaded" /\ GetActive.op.kind = "active"
    BY DEF GetActive, Request
<1>11. \A q \in UnderWay(rest) : \E r \in UnderWay(net) : q.op = r.op /\ q.reply = r.reply
    BY <1>4 DEF UnderWay
<1>12. \A k \in DOMAIN net : net[k] \in Req
    BY <1>1, UnderWayType DEF UnderWay
<1>13. Once(net, RecordReqs) => Once(rest, RecordReqs)
    BY <1>4, <1>12 DEF Once, RecordReqs
<1>14. UnderWay(reqs) \cap RecordReqs = {}
    BY <1>6, <1>10 DEF RecordReqs, OfRecords
<1>15. Once(net, RecordReqs) => Once(net', RecordReqs)
    BY <1>6, <1>7, <1>13, <1>14
<1>. QED
    BY <1>2, <1>5, <1>6, <1>7, <1>8, <1>9, <1>10, <1>11, <1>15

\* The requests after a callback.
LEMMA CallbackMembers ==
    ASSUME net \in Seq(Req), NEW i \in DOMAIN net, NEW reqs, NEW events, Sends(i, reqs, events)
    PROVE  /\ net[i] \in UnderWay(net) /\ net[i] \in Req
           /\ UnderWay(net) = UnderWay(Rest(i)) \cup {net[i]}
           /\ UnderWay(net') = UnderWay(Rest(i)) \cup UnderWay(reqs)
           /\ history \subseteq history' /\ events \subseteq history'
           /\ \A r \in UnderWay(reqs) : r \in Req /\ Follows(i, r)
           /\ \A r \in UnderWay(reqs) : r.then \in {"envList", "rows", "activated"}
           /\ \A r \in UnderWay(reqs) :
                 r.then = "activated" => net[i].then \in {"deleted", "created"}
           /\ Once(net, Loads) =>
                 /\ Once(net', Loads)
                 /\ net[i].then = "loaded" => \A r \in UnderWay(net') : r.then # "loaded"
<1>1. /\ reqs \in Seq(Req) /\ Post(Rest(i), reqs, events)
      /\ \A r \in UnderWay(reqs) : Follows(i, r)
    BY DEF Sends
<1>2. /\ net[i] \in Req /\ net[i] \in UnderWay(net) /\ Rest(i) \in Seq(Req)
    BY RestShape DEF UnderWay
<1>3. /\ UnderWay(net) = UnderWay(Rest(i)) \cup {net[i]}
      /\ \A R : Once(net, R) => /\ Once(Rest(i), R)
                                /\ net[i] \in R => UnderWay(Rest(i)) \cap R = {}
    BY RemoveMembers DEF Rest
<1>4. /\ UnderWay(net') = UnderWay(Rest(i)) \cup UnderWay(reqs)
      /\ history \subseteq history' /\ events \subseteq history'
      /\ \A R : /\ Once(Rest(i), R) /\ Once(reqs, R)
                /\ UnderWay(Rest(i)) \cap R = {} \/ UnderWay(reqs) \cap R = {}
                => Once(net', R)
    BY <1>1, <1>2, PostMembers
<1>5. \A env : Activate(env).then = "activated"
    BY DEF Activate, Request
<1>6. \A r \in UnderWay(reqs) : r.then \in {"envList", "rows", "activated"}
    BY <1>1, <1>5 DEF Follows
<1>7. \A r \in UnderWay(reqs) : r.then = "activated" => net[i].then \in {"deleted", "created"}
    BY <1>1 DEF Follows
<1>8. UnderWay(reqs) \cap Loads = {} /\ Once(reqs, Loads)
    BY <1>6 DEF Loads, Once, UnderWay
<1>9. \A r \in UnderWay(reqs) : r \in Req
    BY <1>1, UnderWayType
<1>10. UnderWay(Rest(i)) \subseteq Req
    BY <1>2, UnderWayType
<1>11. ASSUME Once(net, Loads)
       PROVE  /\ Once(net', Loads)
              /\ net[i].then = "loaded" => \A r \in UnderWay(net') : r.then # "loaded"
  <2>1. net[i].then = "loaded" => UnderWay(Rest(i)) \cap Loads = {}
    BY <1>2, <1>3, <1>11 DEF Loads
  <2>2. net[i].then = "loaded" => \A r \in UnderWay(Rest(i)) : r.then # "loaded"
    BY <1>10, <2>1 DEF Loads
  <2>. QED
    BY <1>3, <1>4, <1>6, <1>8, <1>11, <2>2
<1>. QED
    BY <1>1, <1>2, <1>3, <1>4, <1>6, <1>7, <1>9, <1>11
-----------------------------------------------------------------------------
(***************************************************************************)
(* The picker.  While the page is loaded nothing is under way but the      *)
(* request it waits for and requests whose callbacks are gone.             *)
(***************************************************************************)
LoadingInv ==
    /\ \A r \in UnderWay(net) : r.then = "loaded" => home.isLoading
    /\ home.isLoading => /\ ~home.createEnv
                         /\ picker.current = home.env
                         /\ \A r \in UnderWay(net) : r.then \in {"loaded", "nothing"}
    /\ Once(net, Loads)

\* As long as nothing confuses it, the picker shows the environment that is
\* being activated, or else the one of the page; an environment that was created
\* is not yet to be activated while the picker is there.
PickerInv ==
    /\ history \cap {"active", "lost", "refused", "deleted", "cancelled"} = {}
    /\ ~home.createEnv
    => /\ \A r \in UnderWay(net) : /\ r.then # "created"
                                   /\ r.then = "activated" => r.op.env = picker.current
       /\ (\A r \in UnderWay(net) : r.then # "activated") => picker.current = home.env

\* A request that the user asks for is not the one the page waits for.
LEMMA AskedCallbacks ==
    ASSUME NEW r \in Req
    PROVE  /\ r.op.kind \in {"addHostname", "updateHostname", "removeHostname"} =>
                 r.then \notin {"loaded", "created", "activated", "deleted"}
           /\ r.op.kind = "addEnv" => r.then \notin {"loaded", "activated", "deleted"}
           /\ r.op.kind = "removeEnv" => r.then \notin {"loaded", "activated", "created"}
           /\ r.op.kind = "setActive" => r.then \notin {"loaded", "deleted", "created"}
    BY KindOfCallback

LEMMA NewHomeParts ==
    /\ NewHome.isLoading /\ ~NewHome.createEnv /\ NewHome.env = DefaultEnv
    /\ \A env : Picker(env).current = env
    BY DEF NewHome, Picker

LEMMA OpenMembers ==
    ASSUME PageShape, OpenEnvForm
    PROVE  /\ home'.isLoading = home.isLoading /\ home'.createEnv /\ home'.env = home.env
           /\ picker' = picker /\ history' = history
           /\ net' \in Seq(Req) /\ DOMAIN net' = DOMAIN net
           /\ \A k \in DOMAIN net :
                 /\ net'[k].op = net[k].op /\ net'[k].reply = net[k].reply
                 /\ \/ net'[k].then = net[k].then
                    \/ net[k].then = "envList" /\ net'[k].then = "nothing"
<1>1. net \in Seq(Req) /\ home \in [isLoading : BOOLEAN, createEnv : BOOLEAN, env : EnvNames]
    BY DEF PageShape
<1>2. /\ home' = [home EXCEPT !.createEnv = TRUE]
      /\ net' = Abandon(net, {"envList"}) /\ UNCHANGED <<picker, history>>
    BY DEF OpenEnvForm
<1>3. home'.isLoading = home.isLoading /\ home'.createEnv /\ home'.env = home.env
    BY <1>1, <1>2
<1>4. /\ net' \in Seq(Req) /\ DOMAIN net' = DOMAIN net
      /\ \A k \in DOMAIN net :
            /\ net'[k].op = net[k].op /\ net'[k].reply = net[k].reply
            /\ net'[k].then = IF net[k].then \in {"envList"} THEN "nothing" ELSE net[k].then
    BY <1>1, <1>2, AbandonShape
<1>5. \A k \in DOMAIN net : \/ net'[k].then = net[k].then
                            \/ net[k].then = "envList" /\ net'[k].then = "nothing"
    BY <1>4
<1>. QED
    BY <1>2, <1>3, <1>4, <1>5

LEMMA CancelMembers ==
    ASSUME PageShape, CancelEnvForm
    PROVE  /\ home'.isLoading = home.isLoading /\ ~home'.createEnv /\ home'.env = home.env
           /\ picker'.current = home.env
           /\ UnderWay(net') = UnderWay(net) \cup {ListEnvs}
           /\ ListEnvs.then = "envList" /\ ListEnvs.op.kind = "envs" /\ ListEnvs \in Req
           /\ history \subseteq history' /\ Closing(net) \subseteq history'
           /\ Once(net, Loads) => Once(net', Loads)
           /\ Once(net, Activations) => Once(net', Activations)
           /\ Once(net, RecordReqs) => Once(net', RecordReqs)
<1>. DEFINE reqs == <<ListEnvs>>
<1>1. net \in Seq(Req) /\ home \in [isLoading : BOOLEAN, createEnv : BOOLEAN, env : EnvNames]
    BY DEF PageShape
<1>2. /\ home' = [home EXCEPT !.createEnv = FALSE] /\ picker' = Picker(home.env)
      /\ Post(net, reqs, Closing(net))
    BY DEF CancelEnvForm
<1>3. home'.isLoading = home.isLoading /\ ~home'.createEnv /\ home'.env = home.env
    BY <1>1, <1>2
<1>4. ListEnvs.then = "envList" /\ ListEnvs.op.kind = "envs" /\ ListEnvs \in Req
    BY PageRequests DEF ListEnvs, Request
<1>5. reqs \in Seq(Req)
    BY PageRequests
<1>6. UnderWay(reqs) = {ListEnvs} /\ \A R : Once(reqs, R)
    BY OneOrTwo, Zenon
<1>. HIDE DEF reqs
<1>7. /\ UnderWay(net') = UnderWay(net) \cup UnderWay(reqs)
      /\ history \subseteq history' /\ Closing(net) \subseteq history'
      /\ \A R : /\ Once(net, R) /\ Once(reqs, R)
                /\ UnderWay(net) \cap R = {} \/ UnderWay(reqs) \cap R = {}
                => Once(net', R)
    BY <1>1, <1>2, <1>5, PostMembers
<1>8. /\ UnderWay(reqs) \cap Loads = {} /\ UnderWay(reqs) \cap Activations = {}
      /\ UnderWay(reqs) \cap RecordReqs = {}
    BY <1>4, <1>6 DEF Loads, Activations, RecordReqs, OfRecords
<1>. QED
    BY <1>2, <1>3, <1>4, <1>6, <1>7, <1>8, NewHomeParts

LEMMA NextKeepsLoading ==
    ASSUME Shape, LoadingInv, Next
    PROVE  LoadingInv'
<1>1. PageShape /\ FormInv /\ net \in Seq(Req)
    BY DEF Shape, PageShape
<1>2. CASE Refresh
    BY <1>1, <1>2, RefreshMembers, NewHomeParts DEF LoadingInv
<1>3. CASE User /\ ~Refresh
  <2>1. ~home.isLoading /\ (\A r \in UnderWay(net) : r.then # "loaded") /\ Once(net, Loads)
    BY <1>1, <1>3, GestureEffect DEF LoadingInv
  <2>2. ASSUME NEW r, Asks(r), r.then # "loaded", UNCHANGED home PROVE LoadingInv'
    <3>1. r \notin Loads
      BY <2>2 DEF Loads
    <3>2. UnderWay(net') = UnderWay(net) \cup {r} /\ Once(net', Loads)
      BY <1>1, <2>1, <2>2, <3>1, AskMembers
    <3>. QED
      BY <2>1, <2>2, <3>2 DEF LoadingInv
  <2>3. CASE UNCHANGED <<net, history, home, picker>>
    BY <2>3 DEF LoadingInv
  <2>4. CASE AsksForRecord \/ AsksForEnv \/ AsksForDeletion \/ AsksForActivation
    <3>1. PICK r : Asks(r) /\ r.op.kind \in {"addHostname", "updateHostname", "removeHostname",
                                             "addEnv", "removeEnv", "setActive"}
      BY <2>4 DEF AsksForRecord, AsksForEnv, AsksForDeletion, AsksForActivation
    <3>2. r.then # "loaded"
      BY <3>1, AskedCallbacks DEF Asks
    <3>3. UNCHANGED home
      BY <2>4 DEF AsksForRecord, AsksForEnv, AsksForDeletion, AsksForActivation
    <3>. QED
      BY <2>2, <3>1, <3>2, <3>3
  <2>5. CASE OpenEnvForm
    <3>1. /\ ~home'.isLoading /\ net' \in Seq(Req) /\ DOMAIN net' = DOMAIN net
          /\ \A k \in DOMAIN net : net'[k].then = "loaded" => net[k].then = "loaded"
      BY <1>1, <2>1, <2>5, OpenMembers
    <3>2. \A r \in UnderWay(net') : r.then # "loaded"
      BY <2>1, <3>1 DEF UnderWay
    <3>3. Once(net', Loads)
      BY <3>2 DEF Loads, Once, UnderWay
    <3>. QED
      BY <3>1, <3>2, <3>3 DEF LoadingInv
  <2>6. CASE CancelEnvForm
    BY <1>1, <2>1, <2>6, CancelMembers DEF LoadingInv
  <2>. QED
    BY <1>1, <1>3, <2>3, <2>4, <2>5, <2>6, GestureEffect
<1>4. CASE Network /\ UNCHANGED <<pageVars, gestures>>
    BY <1>4, NetworkMembers DEF LoadingInv
<1>5. ASSUME NEW i \in DOMAIN net, Deliver(i) PROVE LoadingInv'
  <2>1. ShowsOn(i) /\ \E reqs, events : Sends(i, reqs, events)
    BY <1>1, <1>5, CallbackEffect
  <2>2. PICK reqs, events : Sends(i, reqs, events)
    BY <2>1
  <2>3. /\ net[i] \in UnderWay(net)
        /\ UnderWay(net) = UnderWay(Rest(i)) \cup {net[i]}
        /\ UnderWay(net') = UnderWay(Rest(i)) \cup UnderWay(reqs)
        /\ \A r \in UnderWay(reqs) : r.then \in {"envList", "rows", "activated"}
        /\ Once(net', Loads)
        /\ net[i].then = "loaded" => \A r \in UnderWay(net') : r.then # "loaded"
    BY <1>1, <2>2, CallbackMembers DEF LoadingInv
  <2>4. home \in [isLoading : BOOLEAN, createEnv : BOOLEAN, env : EnvNames]
    BY <1>1 DEF PageShape
  <2>5. CASE net[i].then = "loaded" /\ Succeeded(i)
    <3>1. ~home'.isLoading
      BY <2>1, <2>4, <2>5 DEF ShowsOn
    <3>. QED
      BY <2>3, <2>5, <3>1 DEF LoadingInv
  <2>6. CASE home.isLoading /\ ~(net[i].then = "loaded" /\ Succeeded(i))
    <3>1. net[i].then \in {"loaded", "nothing"}
      BY <2>3, <2>6 DEF LoadingInv
    <3>2. UnderWay(reqs) = {}
      BY <2>2, <2>6, <3>1 DEF Sends
    <3>3. home' = home /\ picker'.current = picker.current
      BY <2>1, <2>6, <3>1 DEF ShowsOn
    <3>. QED
      BY <2>3, <2>6, <3>2, <3>3 DEF LoadingInv
  <2>7. CASE ~home.isLoading
    <3>1. net[i].then # "loaded"
      BY <2>3, <2>7 DEF LoadingInv
    <3>2. ~home'.isLoading
      BY <2>1, <2>4, <2>7, <3>1 DEF ShowsOn
    <3>. QED
      BY <2>3, <2>7, <3>2 DEF LoadingInv
  <2>. QED
    BY <2>5, <2>6, <2>7
<1>. QED
    BY <1>2, <1>3, <1>4, <1>5 DEF Next

\* The step does not confuse the picker: neither did the steps before.
LEMMA NextKeepsPicker ==
    ASSUME Shape, LoadingInv, PickerInv, Next
    PROVE  PickerInv'
<1>. DEFINE Confusing == {"active", "lost", "refused", "deleted", "cancelled"}
<1>1. PageShape /\ FormInv /\ net \in Seq(Req) /\ UnderWay(net) \subseteq Req
    BY UnderWayType DEF Shape, PageShape
<1>. SUFFICES ASSUME history' \cap Confusing = {}, ~home'.createEnv
              PROVE  /\ \A r \in UnderWay(net') :
                           /\ r.then # "created"
                           /\ r.then = "activated" => r.op.env = picker'.current
                     /\ (\A r \in UnderWay(net') : r.then # "activated") =>
                           picker'.current = home'.env
    BY DEF PickerInv
<1>. DEFINE Goal == /\ \A r \in UnderWay(net') :
                          /\ r.then # "created"
                          /\ r.then = "activated" => r.op.env = picker'.current
                    /\ (\A r \in UnderWay(net') : r.then # "activated") =>
                          picker'.current = home'.env
<1>2. ASSUME history \subseteq history', ~home.createEnv
      PROVE  /\ \A r \in UnderWay(net) :
                   /\ r.then # "created"
                   /\ r.then = "activated" => r.op.env = picker.current
             /\ (\A r \in UnderWay(net) : r.then # "activated") => picker.current = home.env
  <2>1. history \cap Confusing = {}
    BY <1>2
  <2>. QED
    BY <1>2, <2>1 DEF PickerInv
<1>3. CASE Refresh
    BY <1>1, <1>3, RefreshMembers, NewHomeParts
<1>4. CASE User /\ ~Refresh
  <2>1. CASE UNCHANGED <<net, history, home, picker>>
    BY <1>2, <2>1
  <2>2. CASE AsksForRecord \/ AsksForDeletion
    <3>1. PICK r : Asks(r) /\ r.op.kind \in {"addHostname", "updateHostname", "removeHostname",
                                             "removeEnv"}
      BY <2>2 DEF AsksForRecord, AsksForDeletion
    <3>2. r.then \notin {"created", "activated"}
      BY <3>1, AskedCallbacks DEF Asks
    <3>3. UnderWay(net') = UnderWay(net) \cup {r} /\ history \subseteq history'
      BY <1>1, <3>1, AskMembers
    <3>4. UNCHANGED <<home, picker>>
      BY <2>2 DEF AsksForRecord, AsksForDeletion
    <3>. QED
      BY <1>2, <3>2, <3>3, <3>4
  <2>3. CASE AsksForEnv
    BY <2>3 DEF AsksForEnv
  <2>4. CASE AsksForActivation
    <3>1. PICK r : /\ Asks(r) /\ r.op.kind = "setActive" /\ r.then = "activated"
                   /\ picker'.current = r.op.env
      BY <2>4 DEF AsksForActivation
    <3>2. ~home.createEnv
      BY <2>4 DEF AsksForActivation
    <3>3. r \in Activations
      BY <3>1 DEF Asks, Activations
    <3>4. /\ UnderWay(net') = UnderWay(net) \cup {r} /\ history \subseteq history'
          /\ UnderWay(net) \cap Activations = {}
      BY <1>1, <3>1, <3>3, AskMembers
    <3>5. \A q \in UnderWay(net) : q.then # "activated"
      BY <1>1, <3>4, KindOfCallback DEF Activations
    <3>6. \A q \in UnderWay(net) : q.then # "created"
      BY <1>2, <3>2, <3>4
    <3>. QED
      BY <3>1, <3>4, <3>5, <3>6
  <2>5. CASE OpenEnvForm
    BY <1>1, <2>5, OpenMembers
  <2>6. CASE CancelEnvForm
    <3>1. "cancelled" \notin Closing(net)
      BY <1>1, <2>6, CancelMembers
    <3>2. \A r \in UnderWay(net) : r.then \notin {"created", "activated"}
      BY <3>1 DEF Closing, UnderWay
    <3>. QED
      BY <1>1, <2>6, <3>2, CancelMembers
  <2>. QED
    BY <1>1, <1>4, <2>1, <2>2, <2>3, <2>4, <2>5, <2>6, GestureEffect
<1>5. CASE Network /\ UNCHANGED <<pageVars, gestures>>
  <2>1. /\ history \subseteq history' /\ UNCHANGED <<home, picker>>
        /\ \A q \in UnderWay(net') :
              \E r \in UnderWay(net) : q.op = r.op /\ q.then = r.then
        /\ \A r \in UnderWay(net) :
              \E q \in UnderWay(net') : q.op = r.op /\ q.then = r.then
    BY <1>5, NetworkMembers
  <2>. QED
    BY <1>2, <2>1
<1>6. ASSUME NEW i \in DOMAIN net, Deliver(i) PROVE Goal
  <2>1. ShowsOn(i) /\ \E reqs, events : Sends(i, reqs, events)
    BY <1>1, <1>6, CallbackEffect
  <2>2. PICK reqs, events : Sends(i, reqs, events)
    BY <2>1
  <2>. DEFINE then == net[i].then
  <2>3. /\ net[i] \in UnderWay(net) /\ net[i] \in Req
        /\ UnderWay(net) = UnderWay(Rest(i)) \cup {net[i]}
        /\ UnderWay(net') = UnderWay(Rest(i)) \cup UnderWay(reqs)
        /\ history \subseteq history' /\ events \subseteq history'
        /\ \A r \in UnderWay(reqs) : r.then \in {"envList", "rows", "activated"}
        /\ \A r \in UnderWay(reqs) : r.then = "activated" => then \in {"deleted", "created"}
    BY <1>1, <2>2, CallbackMembers
  <2>4. home \in [isLoading : BOOLEAN, createEnv : BOOLEAN, env : EnvNames]
    BY <1>1 DEF PageShape
  <2>5. CASE then = "loaded" /\ Succeeded(i)
    <3>1. \A r \in UnderWay(net) : r.then \in {"loaded", "nothing"}
      BY <2>3, <2>5 DEF LoadingInv
    <3>2. picker'.current = home'.env
      BY <2>1, <2>4, <2>5, NewHomeParts DEF ShowsOn
    <3>. QED
      BY <2>3, <2>5, <3>1, <3>2
  <2>6. CASE then = "activated" /\ ~Succeeded(i)
    <3>1. "refused" \in events
      BY <2>2, <2>6 DEF Sends
    <3>. QED
      BY <2>3, <3>1
  <2>7. CASE then = "activated" /\ Succeeded(i) /\ home.createEnv
    <3>1. Closing(Rest(i)) \subseteq history'
      BY <2>2, <2>3, <2>7 DEF Sends
    <3>2. \A r \in UnderWay(Rest(i)) : r.then \notin {"created", "activated"}
      BY <3>1 DEF Closing, UnderWay
    <3>3. picker'.current = home'.env
      BY <2>1, <2>4, <2>7, NewHomeParts DEF ShowsOn
    <3>. QED
      BY <2>3, <2>7, <3>2, <3>3
  <2>8. CASE then = "activated" /\ Succeeded(i) /\ ~home.createEnv
    <3>1. net[i].op.env = picker.current
      BY <1>2, <2>3, <2>8
    <3>2. picker' = picker /\ home'.env = net[i].op.env
      BY <2>1, <2>4, <2>8 DEF ShowsOn
    <3>. QED
      BY <1>2, <2>3, <2>8, <3>1, <3>2
  <2>9. CASE then \notin {"loaded", "activated"} \/ (then = "loaded" /\ ~Succeeded(i))
    <3>1. home' = home /\ picker'.current = picker.current
      BY <2>1, <2>9 DEF ShowsOn
    <3>2. then # "created"
      BY <1>2, <2>3, <3>1
    <3>3. then = "deleted" => UnderWay(reqs) = {}
      BY <2>2, <2>3 DEF Sends
    <3>4. \A r \in UnderWay(reqs) : r.then \notin {"created", "activated"}
      BY <2>3, <3>2, <3>3
    <3>5. then # "activated"
      BY <2>9
    <3>. QED
      BY <1>2, <2>3, <3>1, <3>4, <3>5
  <2>. QED
    BY <2>5, <2>6, <2>7, <2>8, <2>9
<1>. QED
    BY <1>3, <1>4, <1>5, <1>6 DEF Next

LEMMA InitMembers ==
    ASSUME Init
    PROVE  UnderWay(net) = {GetActive} /\ GetActive.then = "loaded" /\ Once(net, Loads)
<1>1. UnderWay(<<GetActive>>) = {GetActive} /\ Once(<<GetActive>>, Loads)
    BY OneOrTwo, Zenon
<1>2. GetActive.then = "loaded"
    BY DEF GetActive, Request
<1>. QED
    BY <1>1, <1>2 DEF Init

\* The picker of a page at rest shows the environment that the page's records go
\* to, however answers were ordered and whatever another client did, unless an
\* environment was deleted, an activation refused or lost, activations
\* overlapped or the form for environments was closed too early.
THEOREM PickerFollowsPage == Spec => []PickerOnPageEnv
<1>. DEFINE PInv == LoadingInv /\ PickerInv
<1>1. Init => PInv
    BY InitMembers, NewHomeParts DEF Init, LoadingInv, PickerInv
<1>2. Shape /\ PInv /\ [Next]_vars => PInv'
  <2>1. ASSUME UNCHANGED vars, PInv PROVE PInv'
    BY <2>1 DEF vars, LoadingInv, PickerInv
  <2>. QED
    BY <2>1, NextKeepsLoading, NextKeepsPicker
<1>3. PInv => PickerOnPageEnv
  <2>1. UnderWay(<< >>) = {}
    BY OneOrTwo
  <2>. QED
    BY <2>1 DEF PickerInv, PickerOnPageEnv, Settled
<1>. QED
    BY <1>1, <1>2, <1>3, ShapeHolds, PTL DEF Spec
-----------------------------------------------------------------------------
(***************************************************************************)
(* The active environment.  The page removes an environment and activates  *)
(* the default one with two requests: between them the active one may be   *)
(* missing, but then the answer to the removal is on its way, or the       *)
(* activation that follows it.                                             *)
(***************************************************************************)
Removal(r) == r.then = "deleted" /\ r.reply.status = "ok"
Repair(r) == r.op.kind = "setActive" /\ r.op.env = DefaultEnv /\ r.reply = Pending

ActiveInv ==
    history \cap {"lost", "refreshed", "foreign"} = {} =>
        /\ HasEnv(doc, DefaultEnv)
        /\ \A r \in UnderWay(net) :
              r.op.kind = "removeEnv" => r.op.env # DefaultEnv /\ r.then = "deleted"
        /\ HasActiveEnv(doc) \/ \E r \in UnderWay(net) : Removal(r) \/ Repair(r)

\* The server activates an environment that exists.
LEMMA ActivationHandled ==
    ASSUME Shape, NEW i \in DOMAIN net, Handle(i), net[i].op.kind = "setActive",
           HasEnv(doc, net[i].op.env)
    PROVE  Server!Accept(net[i].op)
<1>. DEFINE op == net[i].op
            d == SetActiveEnv(doc, op.env)
<1>1. doc \in Configuration /\ net \in Seq(Req)
    BY DEF Shape, ServerShape, PageShape
<1>2. op \in Op
    BY <1>1, RestShape, ReqParts
<1>3. op.env \in EnvNames
    BY <1>2 DEF Op
<1>4. ~IsRead(op) /\ ~Invalid(op)
    BY DEF IsRead, Invalid
<1>5. Perform(op, doc, clock) = d
    BY DEF Perform
<1>6. d = [doc EXCEPT !.activeEnv = op.env]
    BY DEF SetActiveEnv
<1>. HIDE DEF op
<1>7. d \in Configuration
    BY <1>1, <1>3, <1>6 DEF Configuration
<1>. HIDE DEF d
<1>8. Perform(op, doc, clock) # Rejected
    BY <1>5, <1>7, RejectedAssumption
<1>9. ~Server!Reject(op)
    BY <1>8, SameOperators DEF Server!Reject
<1>. QED
    BY <1>4, <1>9 DEF Handle, op

\* What becomes of a request that keeps what it asks for.
LEMMA SameParts ==
    ASSUME NEW q, NEW r, q.op = r.op, q.then = r.then, q.reply = r.reply
    PROVE  (Removal(r) <=> Removal(q)) /\ (Repair(r) <=> Repair(q))
    BY DEF Removal, Repair

LEMMA HandleKeepsActive ==
    ASSUME Shape, ActiveInv, NEW i \in DOMAIN net, Handle(i)
    PROVE  ActiveInv'
<1>1. ServerShape /\ net \in Seq(Req)
    BY DEF Shape, PageShape
<1>2. net[i].reply = Pending /\ net[i] \in Req /\ history' = history /\ net[i] \in UnderWay(net)
    BY <1>1, HandleShape DEF UnderWay
<1>3. PICK x \in RepliesTo(net[i].op) :
            /\ net' = [net EXCEPT ![i].reply = x]
            /\ \/ IsRead(net[i].op) /\ x = Read(net[i].op) /\ UNCHANGED <<doc, clock>>
               \/ ~IsRead(net[i].op) /\ x = Bad /\ doc' = doc
               \/ ~IsRead(net[i].op) /\ ~Invalid(net[i].op) /\ x = Ok(<< >>)
                  /\ Server!Accept(net[i].op)
    BY <1>1, HandleShape
<1>4. PICK r \in Req :
              /\ r.op = net[i].op /\ r.then = net[i].then /\ r.reply = x
              /\ net' \in Seq(Req)
              /\ DOMAIN net' = DOMAIN net
              /\ net'[i] = r
              /\ \A k \in DOMAIN net : k # i => net'[k] = net[k]
              /\ UnderWay(net') \subseteq UnderWay(net) \cup {r}
              /\ UnderWay(net) \subseteq UnderWay(net') \cup {net[i]}
              /\ r \in UnderWay(net')
              /\ \A R : Once(net, R) /\ (r \in R => net[i] \in R) => Once(net', R)
    BY <1>1, <1>3, Replied
<1>. DEFINE op == net[i].op
<1>5. op \in Op
    BY <1>2, ReqParts
<1>. SUFFICES ASSUME history \cap {"lost", "refreshed", "foreign"} = {}
              PROVE  /\ HasEnv(doc', DefaultEnv)
                     /\ \A q \in UnderWay(net') :
                           q.op.kind = "removeEnv" => q.op.env # DefaultEnv /\ q.then = "deleted"
                     /\ HasActiveEnv(doc') \/ \E q \in UnderWay(net') : Removal(q) \/ Repair(q)
    BY <1>2 DEF ActiveInv
<1>6. /\ HasEnv(doc, DefaultEnv)
      /\ \A q \in UnderWay(net) :
            q.op.kind = "removeEnv" => q.op.env # DefaultEnv /\ q.then = "deleted"
      /\ HasActiveEnv(doc) \/ \E q \in UnderWay(net) : Removal(q) \/ Repair(q)
    BY DEF ActiveInv
<1>7. \A q \in UnderWay(net') :
          q.op.kind = "removeEnv" => q.op.env # DefaultEnv /\ q.then = "deleted"
    BY <1>2, <1>4, <1>6
<1>8. ~Removal(net[i])
    BY <1>2 DEF Removal, Pending
<1>9. ASSUME NEW q \in UnderWay(net), Removal(q) \/ Repair(q)
      PROVE  q \in UnderWay(net') \/ (q = net[i] /\ Repair(net[i]))
  <2>1. PICK k \in DOMAIN net : q = net[k]
    BY DEF UnderWay
  <2>2. CASE k = i
    BY <1>8, <1>9, <2>1, <2>2
  <2>3. CASE k # i
    BY <1>4, <2>1, <2>3 DEF UnderWay
  <2>. QED
    BY <2>2, <2>3
<1>. HIDE DEF op
<1>10. CASE Server!Accept(op) /\ ~IsRead(op) /\ ~Invalid(op) /\ op.kind = "setActive"
  <2>1. /\ doc'.activeEnv = op.env /\ HasEnv(doc, op.env)
        /\ \A n : HasEnv(doc, n) => HasEnv(doc', n)
    BY <1>1, <1>5, <1>10, ServerEffect
  <2>2. HasActiveEnv(doc')
    BY <2>1 DEF HasActiveEnv
  <2>. QED
    BY <1>6, <1>7, <2>1, <2>2
<1>11. op.kind = "setActive" /\ op.env = DefaultEnv => Server!Accept(op)
    BY <1>6, ActivationHandled DEF op
<1>12. CASE op.kind # "setActive" \/ ~Server!Accept(op)
  <2>1. ~Repair(net[i])
    BY <1>11, <1>12 DEF Repair, op
  <2>2. \A q \in UnderWay(net) : Removal(q) \/ Repair(q) => q \in UnderWay(net')
    BY <1>9, <2>1
  <2>3. CASE doc' = doc
    BY <1>6, <1>7, <2>2, <2>3
  <2>4. CASE Server!Accept(op) /\ ~IsRead(op) /\ ~Invalid(op) /\ x = Ok(<< >>)
    <3>1. /\ doc'.activeEnv = doc.activeEnv
          /\ \A n : HasEnv(doc, n) => HasEnv(doc', n) \/ (op.kind = "removeEnv" /\ op.env = n)
      BY <1>1, <1>5, <1>12, <2>4, ServerEffect
    <3>2. op.kind = "removeEnv" => op.env # DefaultEnv /\ net[i].then = "deleted"
      BY <1>2, <1>6 DEF op
    <3>3. HasEnv(doc', DefaultEnv)
      BY <1>6, <3>1, <3>2
    <3>4. CASE op.kind = "removeEnv"
      <4>1. Removal(r)
        BY <1>4, <2>4, <3>2, <3>4 DEF Removal, Ok
      <4>. QED
        BY <1>4, <1>7, <3>3, <4>1
    <3>5. CASE op.kind # "removeEnv"
      <4>1. HasActiveEnv(doc) => HasActiveEnv(doc')
        BY <3>1, <3>5 DEF HasActiveEnv
      <4>. QED
        BY <1>6, <1>7, <2>2, <3>3, <4>1
    <3>. QED
      BY <3>4, <3>5
  <2>. QED
    BY <1>3, <2>3, <2>4 DEF op
<1>13. op.kind = "setActive" => ~IsRead(op) /\ ~Invalid(op)
    BY DEF IsRead, Invalid
<1>. QED
    BY <1>10, <1>12, <1>13

LEMMA NextKeepsActive ==
    ASSUME Shape, ActiveInv, Next
    PROVE  ActiveInv'
<1>. DEFINE Disturbing == {"lost", "refreshed", "foreign"}
            Goal == /\ HasEnv(doc', DefaultEnv)
                    /\ \A q \in UnderWay(net') :
                          q.op.kind = "removeEnv" => q.op.env # DefaultEnv /\ q.then = "deleted"
                    /\ HasActiveEnv(doc') \/ \E q \in UnderWay(net') : Removal(q) \/ Repair(q)
<1>1. PageShape /\ FormInv /\ net \in Seq(Req) /\ UnderWay(net) \subseteq Req
    BY UnderWayType DEF Shape, PageShape
<1>2. ASSUME history' \cap Disturbing = {}, history \subseteq history'
      PROVE  /\ HasEnv(doc, DefaultEnv)
             /\ \A q \in UnderWay(net) :
                   q.op.kind = "removeEnv" => q.op.env # DefaultEnv /\ q.then = "deleted"
             /\ HasActiveEnv(doc) \/ \E q \in UnderWay(net) : Removal(q) \/ Repair(q)
  <2>1. history \cap Disturbing = {}
    BY <1>2
  <2>. QED
    BY <2>1 DEF ActiveInv
<1>3. ASSUME NEW i \in DOMAIN net, Handle(i) PROVE ActiveInv'
    BY <1>3, HandleKeepsActive
<1>4. ASSUME history' \cap Disturbing = {}, Refresh PROVE FALSE
    BY <1>1, <1>4, RefreshMembers
<1>5. ASSUME history' \cap Disturbing = {}, Foreign \/ \E i \in DOMAIN net : Lose(i) PROVE FALSE
    BY <1>5 DEF Foreign, Lose
<1>6. ASSUME history' \cap Disturbing = {}, User, ~Refresh, UNCHANGED serverVars PROVE Goal
  <2>1. doc' = doc
    BY <1>6 DEF serverVars
  <2>2. ASSUME NEW r, Asks(r),
               r.op.kind = "removeEnv" => r.op.env # DefaultEnv /\ r.then = "deleted"
        PROVE  Goal
    <3>1. UnderWay(net') = UnderWay(net) \cup {r} /\ history \subseteq history'
      BY <1>1, <2>2, AskMembers
    <3>. QED
      BY <1>2, <1>6, <2>1, <2>2, <3>1
  <2>3. CASE UNCHANGED <<net, history, home, picker>>
    BY <1>2, <1>6, <2>1, <2>3
  <2>4. CASE AsksForRecord \/ AsksForEnv \/ AsksForDeletion \/ AsksForActivation
    <3>1. PICK r : /\ Asks(r)
                   /\ r.op.kind = "removeEnv" => r.op.env # DefaultEnv /\ r.then = "deleted"
      BY <2>4 DEF AsksForRecord, AsksForEnv, AsksForDeletion, AsksForActivation
    <3>. QED
      BY <2>2, <3>1
  <2>5. CASE OpenEnvForm
    <3>1. /\ history' = history /\ DOMAIN net' = DOMAIN net
          /\ \A k \in DOMAIN net :
                /\ net'[k].op = net[k].op /\ net'[k].reply = net[k].reply
                /\ \/ net'[k].then = net[k].then
                   \/ net[k].then = "envList" /\ net'[k].then = "nothing"
      BY <1>1, <2>5, OpenMembers
    <3>2. \A k \in DOMAIN net : net[k].then = "envList" => net[k].op.kind = "envs"
      BY <1>1, KindOfCallback DEF UnderWay
    <3>3. \A k \in DOMAIN net :
             net'[k].op.kind = "removeEnv" =>
                net'[k].op.env # DefaultEnv /\ net'[k].then = "deleted"
      BY <1>2, <1>6, <3>1, <3>2 DEF UnderWay
    <3>4. \A k \in DOMAIN net : Removal(net[k]) \/ Repair(net[k])
                                   => Removal(net'[k]) \/ Repair(net'[k])
      BY <3>1 DEF Removal, Repair
    <3>5. /\ HasEnv(doc, DefaultEnv)
          /\ HasActiveEnv(doc) \/ \E q \in UnderWay(net) : Removal(q) \/ Repair(q)
      BY <1>2, <1>6, <3>1
    <3>. QED
      BY <2>1, <3>1, <3>3, <3>4, <3>5 DEF UnderWay
  <2>6. CASE CancelEnvForm
    <3>1. /\ UnderWay(net') = UnderWay(net) \cup {ListEnvs}
          /\ ListEnvs.op.kind = "envs" /\ history \subseteq history'
      BY <1>1, <2>6, CancelMembers
    <3>. QED
      BY <1>2, <1>6, <2>1, <3>1
  <2>. QED
    BY <1>1, <1>6, <2>3, <2>4, <2>5, <2>6, GestureEffect
<1>7. ASSUME history' \cap Disturbing = {}, NEW i \in DOMAIN net, Deliver(i) PROVE Goal
  <2>1. /\ net[i].reply.status # "pending" /\ doc' = doc
        /\ \E reqs, events : Sends(i, reqs, events)
    BY <1>1, <1>7, CallbackEffect
  <2>2. PICK reqs, events : Sends(i, reqs, events)
    BY <2>1
  <2>3. /\ UnderWay(net) = UnderWay(Rest(i)) \cup {net[i]}
        /\ UnderWay(net') = UnderWay(Rest(i)) \cup UnderWay(reqs)
        /\ history \subseteq history'
        /\ \A r \in UnderWay(reqs) : r \in Req /\ Follows(i, r)
        /\ \A r \in UnderWay(reqs) : r.then \in {"envList", "rows", "activated"}
    BY <1>1, <2>2, CallbackMembers
  <2>4. \A r \in UnderWay(reqs) : r.op.kind # "removeEnv"
    BY <2>3, KindOfCallback
  <2>5. /\ HasEnv(doc, DefaultEnv)
        /\ \A q \in UnderWay(net) :
              q.op.kind = "removeEnv" => q.op.env # DefaultEnv /\ q.then = "deleted"
        /\ HasActiveEnv(doc) \/ \E q \in UnderWay(net) : Removal(q) \/ Repair(q)
    BY <1>2, <1>7, <2>3
  <2>6. \A q \in UnderWay(net') :
            q.op.kind = "removeEnv" => q.op.env # DefaultEnv /\ q.then = "deleted"
    BY <2>3, <2>4, <2>5
  <2>7. ~Repair(net[i])
    BY <2>1 DEF Repair, Pending
  <2>8. Removal(net[i]) => \E q \in UnderWay(net') : Repair(q)
    <3>1. Removal(net[i]) => Activate(DefaultEnv) \in UnderWay(reqs)
      BY <2>2 DEF Sends, Removal, Succeeded
    <3>2. Repair(Activate(DefaultEnv))
      BY DEF Repair, Activate, Request
    <3>. QED
      BY <2>3, <3>1, <3>2
  <2>. QED
    BY <2>1, <2>3, <2>5, <2>6, <2>7, <2>8
<1>. QED
    BY <1>3, <1>4, <1>5, <1>6, <1>7 DEF Next, Network, ActiveInv

\* The server starts with a file that has the default environment and an active
\* one, as storeDefaultConfig writes it when there is none.
StartsWhole == \A c \in InitialFiles : HasEnv(c, DefaultEnv) /\ HasActiveEnv(c)

\* Deleting environments in the page, the active one included, leaves an active
\* environment that exists as soon as nothing is under way, in whatever order
\* the server sees the requests and the page the answers: only a loss, a new
\* load of the page or another client can leave the resolver without one.
THEOREM ActiveEnvSurvives == StartsWhole => (Spec => []ActiveEnvExists)
<1>. SUFFICES ASSUME StartsWhole PROVE Spec => []ActiveEnvExists
    OBVIOUS
<1>1. Init => ActiveInv
  <2>1. GetActive.op.kind = "active"
    BY DEF GetActive, Request
  <2>. QED
    BY <2>1, InitMembers DEF Init, ActiveInv, StartsWhole
<1>2. Shape /\ ActiveInv /\ [Next]_vars => ActiveInv'
  <2>1. ASSUME UNCHANGED vars, ActiveInv PROVE ActiveInv'
    BY <2>1 DEF vars, ActiveInv
  <2>. QED
    BY <2>1, NextKeepsActive
<1>3. ActiveInv => ActiveEnvExists
  <2>1. UnderWay(<< >>) = {}
    BY OneOrTwo
  <2>. QED
    BY <2>1 DEF ActiveInv, ActiveEnvExists, Settled
<1>. QED
    BY <1>1, <1>2, <1>3, ShapeHolds, PTL DEF Spec
-----------------------------------------------------------------------------
(***************************************************************************)
(* The environment of the page.  As long as activations do not overlap, at *)
(* most one is under way, and the page is on the active environment unless *)
(* the answer to that activation, a success, is still to arrive.           *)
(***************************************************************************)
PageInv ==
    history \cap {"active", "lost", "refreshed", "foreign"} = {} =>
        /\ Once(net, Activations)
        /\ \A r \in UnderWay(net) : r.op.kind = "setActive" => r.then = "activated"
        /\ home.isLoading => \A r \in UnderWay(net) :
              r.then = "loaded" => r.reply \in {Pending, Ok(doc.activeEnv)}
        /\ ~home.isLoading =>
              /\ \A r \in UnderWay(net) :
                    r.op.kind = "setActive" /\ r.reply.status = "ok" => r.op.env = doc.activeEnv
              /\ (\A r \in UnderWay(net) : r.op.kind = "setActive" => r.reply.status # "ok")
                    => home.env = doc.activeEnv

\* Where they do not overlap, two activations under way are the same one.
LEMMA OneActivation ==
    ASSUME NEW s \in Seq(Req), Once(s, Activations),
           NEW q \in UnderWay(s), NEW r \in UnderWay(s),
           q.op.kind = "setActive", r.op.kind = "setActive"
    PROVE  q = r
<1>1. q \in Req /\ r \in Req
    BY UnderWayType
<1>. QED
    BY <1>1 DEF Once, UnderWay, Activations

LEMMA CallbackActivations ==
    ASSUME net \in Seq(Req), NEW i \in DOMAIN net, NEW reqs, NEW events, Sends(i, reqs, events),
           Once(net, Activations), "active" \notin history'
    PROVE  /\ Once(net', Activations)
           /\ net[i].op.kind = "setActive" => \A r \in UnderWay(Rest(i)) : r.op.kind # "setActive"
<1>1. /\ reqs \in Seq(Req) /\ Post(Rest(i), reqs, events) /\ Once(reqs, Activations)
    BY DEF Sends
<1>2. net[i] \in Req /\ Rest(i) \in Seq(Req)
    BY RestShape
<1>3. /\ Once(Rest(i), Activations)
      /\ net[i] \in Activations => UnderWay(Rest(i)) \cap Activations = {}
    BY RemoveMembers DEF Rest
<1>4. Once(net', Activations)
    BY <1>1, <1>2, <1>3, PostMembers
<1>5. UnderWay(Rest(i)) \subseteq Req
    BY <1>2, UnderWayType
<1>. QED
    BY <1>2, <1>3, <1>4, <1>5 DEF Activations

LEMMA HandleKeepsPage ==
    ASSUME Shape, LoadingInv, PageInv, NEW i \in DOMAIN net, Handle(i), UNCHANGED pageVars
    PROVE  PageInv'
<1>1. ServerShape /\ net \in Seq(Req)
    BY DEF Shape, PageShape
<1>2. /\ net[i].reply = Pending /\ net[i] \in Req /\ history' = history
      /\ net[i] \in UnderWay(net) /\ home' = home
    BY <1>1, HandleShape DEF UnderWay, pageVars
<1>3. PICK x \in RepliesTo(net[i].op) :
            /\ net' = [net EXCEPT ![i].reply = x]
            /\ \/ IsRead(net[i].op) /\ x = Read(net[i].op) /\ UNCHANGED <<doc, clock>>
               \/ ~IsRead(net[i].op) /\ x = Bad /\ doc' = doc
               \/ ~IsRead(net[i].op) /\ ~Invalid(net[i].op) /\ x = Ok(<< >>)
                  /\ Server!Accept(net[i].op)
    BY <1>1, HandleShape
<1>4. PICK r \in Req :
              /\ r.op = net[i].op /\ r.then = net[i].then /\ r.reply = x
              /\ net' \in Seq(Req)
              /\ DOMAIN net' = DOMAIN net
              /\ net'[i] = r
              /\ \A k \in DOMAIN net : k # i => net'[k] = net[k]
              /\ UnderWay(net') \subseteq UnderWay(net) \cup {r}
              /\ UnderWay(net) \subseteq UnderWay(net') \cup {net[i]}
              /\ r \in UnderWay(net')
              /\ \A R : Once(net, R) /\ (r \in R => net[i] \in R) => Once(net', R)
    BY <1>1, <1>3, Replied
<1>. DEFINE op == net[i].op
<1>5. op \in Op
    BY <1>2, ReqParts
<1>. SUFFICES ASSUME history \cap {"active", "lost", "refreshed", "foreign"} = {}
              PROVE  /\ Once(net', Activations)
                     /\ \A q \in UnderWay(net') : q.op.kind = "setActive" => q.then = "activated"
                     /\ home.isLoading => \A q \in UnderWay(net') :
                           q.then = "loaded" => q.reply \in {Pending, Ok(doc'.activeEnv)}
                     /\ ~home.isLoading =>
                           /\ \A q \in UnderWay(net') :
                                 q.op.kind = "setActive" /\ q.reply.status = "ok"
                                    => q.op.env = doc'.activeEnv
                           /\ (\A q \in UnderWay(net') :
                                  q.op.kind = "setActive" => q.reply.status # "ok")
                                 => home.env = doc'.activeEnv
    BY <1>2 DEF PageInv
<1>6. /\ Once(net, Activations)
      /\ \A q \in UnderWay(net) : q.op.kind = "setActive" => q.then = "activated"
      /\ home.isLoading => \A q \in UnderWay(net) :
            q.then = "loaded" => q.reply \in {Pending, Ok(doc.activeEnv)}
      /\ ~home.isLoading =>
            /\ \A q \in UnderWay(net) :
                  q.op.kind = "setActive" /\ q.reply.status = "ok" => q.op.env = doc.activeEnv
            /\ (\A q \in UnderWay(net) : q.op.kind = "setActive" => q.reply.status # "ok")
                  => home.env = doc.activeEnv
    BY DEF PageInv
<1>7. Once(net', Activations)
    BY <1>2, <1>4, <1>6 DEF Activations
<1>8. \A q \in UnderWay(net') : q.op.kind = "setActive" => q.then = "activated"
    BY <1>2, <1>4, <1>6
<1>9. Pending.status = "pending" /\ Bad.status = "bad"
    BY DEF Pending, Bad
<1>10. doc'.activeEnv = IF Server!Accept(op) /\ op.kind = "setActive" /\ doc' # doc
                        THEN op.env ELSE doc.activeEnv
  <2>1. CASE doc' = doc
    BY <2>1
  <2>2. CASE doc' # doc
    <3>1. ~IsRead(op) /\ ~Invalid(op) /\ Server!Accept(op)
      BY <1>3, <2>2
    <3>. HIDE DEF op
    <3>. QED
      BY <1>1, <1>5, <2>2, <3>1, ServerEffect
  <2>. QED
    BY <2>1, <2>2
<1>11. CASE op.kind = "setActive"
  <2>1. ~home.isLoading
    BY <1>2, <1>6, <1>11 DEF LoadingInv
  <2>2. \A q \in UnderWay(net) : q.op.kind = "setActive" => q = net[i]
    BY <1>1, <1>2, <1>6, <1>11, OneActivation
  <2>3. \A q \in UnderWay(net') : q.op.kind = "setActive" => q = r
    BY <1>4, <1>7, <1>11, OneActivation
  <2>4. home.env = doc.activeEnv
    BY <1>2, <1>6, <1>9, <2>1, <2>2
  <2>5. CASE r.reply.status = "ok"
    <3>1. ~IsRead(op) /\ ~Invalid(op) /\ Server!Accept(op)
      BY <1>3, <1>4, <1>9, <1>11, <2>5 DEF IsRead
    <3>2. r.op.env = doc'.activeEnv
      <4>1. r.op = op
        BY <1>4
      <4>. HIDE DEF op
      <4>. QED
        BY <1>1, <1>5, <1>11, <3>1, <4>1, ServerEffect
    <3>. QED
      BY <1>4, <1>7, <1>8, <1>11, <2>1, <2>3, <2>5, <3>2
  <2>6. CASE r.reply.status # "ok"
    <3>1. doc' = doc
      BY <1>3, <1>4, <1>11, <2>6 DEF IsRead, Ok
    <3>. QED
      BY <1>7, <1>8, <2>1, <2>3, <2>4, <2>6, <3>1
  <2>. QED
    BY <2>5, <2>6
<1>12. CASE op.kind # "setActive"
  <2>1. doc'.activeEnv = doc.activeEnv
    BY <1>10, <1>12
  <2>2. r.then = "loaded" => r.reply = Ok(doc.activeEnv)
    <3>1. r.then = "loaded" => op.kind = "active"
      BY <1>4, KindOfCallback
    <3>2. op.kind = "active" => IsRead(op) /\ Read(op) = Ok(doc.activeEnv)
      BY DEF IsRead, Read
    <3>. QED
      BY <1>3, <1>4, <3>1, <3>2
  <2>3. r.op.kind # "setActive" /\ net[i].op.kind # "setActive"
    BY <1>4, <1>12
  <2>. QED
    BY <1>4, <1>6, <1>7, <1>8, <2>1, <2>2, <2>3
<1>. QED
    BY <1>11, <1>12

LEMMA NextKeepsPage ==
    ASSUME Shape, LoadingInv, PageInv, Next
    PROVE  PageInv'
<1>. DEFINE Confusing == {"active", "lost", "refreshed", "foreign"}
            Goal == /\ Once(net', Activations)
                    /\ \A q \in UnderWay(net') : q.op.kind = "setActive" => q.then = "activated"
                    /\ home'.isLoading => \A q \in UnderWay(net') :
                          q.then = "loaded" => q.reply \in {Pending, Ok(doc'.activeEnv)}
                    /\ ~home'.isLoading =>
                          /\ \A q \in UnderWay(net') :
                                q.op.kind = "setActive" /\ q.reply.status = "ok"
                                   => q.op.env = doc'.activeEnv
                          /\ (\A q \in UnderWay(net') :
                                 q.op.kind = "setActive" => q.reply.status # "ok")
                                => home'.env = doc'.activeEnv
<1>1. PageShape /\ FormInv /\ net \in Seq(Req) /\ UnderWay(net) \subseteq Req
    BY UnderWayType DEF Shape, PageShape
<1>2. ASSUME history' \cap Confusing = {}, history \subseteq history'
      PROVE  /\ Once(net, Activations)
             /\ \A q \in UnderWay(net) : q.op.kind = "setActive" => q.then = "activated"
             /\ home.isLoading => \A q \in UnderWay(net) :
                   q.then = "loaded" => q.reply \in {Pending, Ok(doc.activeEnv)}
             /\ ~home.isLoading =>
                   /\ \A q \in UnderWay(net) :
                         q.op.kind = "setActive" /\ q.reply.status = "ok"
                            => q.op.env = doc.activeEnv
                   /\ (\A q \in UnderWay(net) : q.op.kind = "setActive" => q.reply.status # "ok")
                         => home.env = doc.activeEnv
  <2>1. history \cap Confusing = {}
    BY <1>2
  <2>. QED
    BY <2>1 DEF PageInv
<1>3. ASSUME NEW i \in DOMAIN net, Handle(i), UNCHANGED <<pageVars, gestures>> PROVE PageInv'
    BY <1>3, HandleKeepsPage
<1>4. ASSUME history' \cap Confusing = {}, Refresh PROVE FALSE
    BY <1>1, <1>4, RefreshMembers
<1>5. ASSUME history' \cap Confusing = {}, Foreign \/ \E i \in DOMAIN net : Lose(i) PROVE FALSE
    BY <1>5 DEF Foreign, Lose
<1>6. ASSUME history' \cap Confusing = {}, User, ~Refresh, UNCHANGED serverVars PROVE Goal
  <2>1. doc' = doc /\ ~home.isLoading
    BY <1>1, <1>6, GestureEffect DEF serverVars
  <2>2. ASSUME NEW r, Asks(r), r.op.kind = "setActive" => r.then = "activated", UNCHANGED home
        PROVE  Goal
    <3>1. /\ UnderWay(net') = UnderWay(net) \cup {r} /\ history \subseteq history'
          /\ r \in Activations =>
                UnderWay(net) \cap Activations = {} \/ "active" \in history'
          /\ \A R : Once(net, R) /\ (r \notin R \/ UnderWay(net) \cap R = {}) => Once(net', R)
      BY <1>1, <2>2, AskMembers
    <3>2. Once(net', Activations)
      BY <1>2, <1>6, <3>1
    <3>3. r.reply.status # "ok"
      BY <2>2 DEF Asks, Pending
    <3>. QED
      BY <1>2, <1>6, <2>1, <2>2, <3>1, <3>2, <3>3
  <2>3. CASE UNCHANGED <<net, history, home, picker>>
    BY <1>2, <1>6, <2>1, <2>3
  <2>4. CASE AsksForRecord \/ AsksForEnv \/ AsksForDeletion \/ AsksForActivation
    <3>1. PICK r : Asks(r) /\ (r.op.kind = "setActive" => r.then = "activated")
      BY <2>4 DEF AsksForRecord, AsksForEnv, AsksForDeletion, AsksForActivation
    <3>2. UNCHANGED home
      BY <2>4 DEF AsksForRecord, AsksForEnv, AsksForDeletion, AsksForActivation
    <3>. QED
      BY <2>2, <3>1, <3>2
  <2>5. CASE OpenEnvForm
    <3>1. /\ home'.isLoading = home.isLoading /\ home'.env = home.env
          /\ history' = history /\ net' \in Seq(Req) /\ DOMAIN net' = DOMAIN net
          /\ \A k \in DOMAIN net :
                /\ net'[k].op = net[k].op /\ net'[k].reply = net[k].reply
                /\ \/ net'[k].then = net[k].then
                   \/ net[k].then = "envList" /\ net'[k].then = "nothing"
      BY <1>1, <2>5, OpenMembers
    <3>2. \A k \in DOMAIN net : net[k].then = "envList" => net[k].op.kind = "envs"
      BY <1>1, KindOfCallback DEF UnderWay
    <3>3. /\ Once(net, Activations)
          /\ \A k \in DOMAIN net : net[k] \in Req
          /\ \A k \in DOMAIN net : net[k].op.kind = "setActive" =>
                /\ net[k].then = "activated"
                /\ net[k].reply.status = "ok" => net[k].op.env = doc.activeEnv
          /\ (\A k \in DOMAIN net : net[k].op.kind = "setActive" => net[k].reply.status # "ok")
                => home.env = doc.activeEnv
      BY <1>1, <1>2, <1>6, <2>1, <3>1 DEF UnderWay
    <3>4. \A k \in DOMAIN net : net'[k] \in Activations => net[k] \in Activations
      BY <3>1, <3>3 DEF Activations
    <3>5. Once(net', Activations)
      BY <3>1, <3>3, <3>4 DEF Once
    <3>6. \A k \in DOMAIN net : net'[k].op.kind = "setActive" =>
                /\ net'[k].then = "activated"
                /\ net'[k].reply.status = "ok" => net'[k].op.env = doc.activeEnv
      BY <3>1, <3>2, <3>3
    <3>7. (\A k \in DOMAIN net : net'[k].op.kind = "setActive" => net'[k].reply.status # "ok")
                => home.env = doc.activeEnv
      BY <3>1, <3>3
    <3>. QED
      BY <2>1, <3>1, <3>5, <3>6, <3>7 DEF UnderWay
  <2>6. CASE CancelEnvForm
    <3>1. /\ home'.isLoading = home.isLoading /\ home'.env = home.env
          /\ UnderWay(net') = UnderWay(net) \cup {ListEnvs}
          /\ ListEnvs.op.kind = "envs" /\ history \subseteq history'
          /\ Once(net, Activations) => Once(net', Activations)
      BY <1>1, <2>6, CancelMembers
    <3>. QED
      BY <1>2, <1>6, <2>1, <3>1
  <2>. QED
    BY <1>1, <1>6, <2>3, <2>4, <2>5, <2>6, GestureEffect
<1>7. ASSUME history' \cap Confusing = {}, NEW i \in DOMAIN net, Deliver(i) PROVE Goal
  <2>1. /\ net[i].reply.status # "pending" /\ doc' = doc /\ ShowsOn(i)
        /\ \E reqs, events : Sends(i, reqs, events)
    BY <1>1, <1>7, CallbackEffect
  <2>2. PICK reqs, events : Sends(i, reqs, events)
    BY <2>1
  <2>. DEFINE then == net[i].then
  <2>3. /\ net[i] \in UnderWay(net) /\ net[i] \in Req
        /\ UnderWay(net) = UnderWay(Rest(i)) \cup {net[i]}
        /\ UnderWay(net') = UnderWay(Rest(i)) \cup UnderWay(reqs)
        /\ history \subseteq history'
        /\ \A r \in UnderWay(reqs) : r \in Req /\ Follows(i, r)
        /\ \A r \in UnderWay(reqs) : r.then \in {"envList", "rows", "activated"}
        /\ \A r \in UnderWay(reqs) : r.then = "activated" => then \in {"deleted", "created"}
    BY <1>1, <2>2, CallbackMembers
  <2>4. home \in [isLoading : BOOLEAN, createEnv : BOOLEAN, env : EnvNames]
    BY <1>1 DEF PageShape
  <2>5. /\ Once(net, Activations)
        /\ \A q \in UnderWay(net) : q.op.kind = "setActive" => q.then = "activated"
        /\ home.isLoading => \A q \in UnderWay(net) :
              q.then = "loaded" => q.reply \in {Pending, Ok(doc.activeEnv)}
        /\ ~home.isLoading =>
              /\ \A q \in UnderWay(net) :
                    q.op.kind = "setActive" /\ q.reply.status = "ok" => q.op.env = doc.activeEnv
              /\ (\A q \in UnderWay(net) : q.op.kind = "setActive" => q.reply.status # "ok")
                    => home.env = doc.activeEnv
    BY <1>2, <1>7, <2>3
  <2>6. /\ Once(net', Activations)
        /\ net[i].op.kind = "setActive" => \A r \in UnderWay(Rest(i)) : r.op.kind # "setActive"
    BY <1>1, <1>7, <2>2, <2>5, CallbackActivations
  <2>7. \A r \in UnderWay(reqs) :
           /\ r.reply.status # "ok" /\ r.then # "loaded"
           /\ r.op.kind = "setActive" => r.then = "activated"
    BY <2>3, KindOfCallback DEF Follows, Pending
  <2>8. \A q \in UnderWay(net') : q.op.kind = "setActive" => q.then = "activated"
    BY <2>3, <2>5, <2>7
  <2>9. CASE then = "loaded"
    <3>1. home.isLoading
      BY <2>3, <2>9 DEF LoadingInv
    <3>2. net[i].reply = Ok(doc.activeEnv) /\ Succeeded(i)
      BY <2>1, <2>3, <2>5, <2>9, <3>1 DEF Pending, Ok, Succeeded
    <3>3. ~home'.isLoading /\ home'.env = doc.activeEnv
      <4>1. net[i].reply.data = doc.activeEnv
        BY <3>2 DEF Ok
      <4>2. home' = [home EXCEPT !.isLoading = FALSE, !.env = net[i].reply.data]
        BY <2>1, <2>9, <3>2 DEF ShowsOn
      <4>. QED
        BY <2>4, <4>1, <4>2
    <3>4. \A q \in UnderWay(net') : q.then # "activated"
      BY <2>3, <2>9, <3>1 DEF LoadingInv
    <3>5. \A q \in UnderWay(net') : q.op.kind # "setActive"
      BY <2>8, <3>4
    <3>. QED
      BY <2>1, <2>6, <3>3, <3>5
  <2>10. CASE then = "activated"
    <3>1. net[i].op.kind = "setActive" /\ ~home.isLoading
      BY <2>3, <2>10, KindOfCallback DEF LoadingInv
    <3>2. \A q \in UnderWay(net') : q.op.kind # "setActive"
      BY <2>3, <2>6, <2>7, <2>10, <3>1
    <3>3. ~home'.isLoading /\ home'.env = doc.activeEnv
      <4>1. CASE Succeeded(i)
        <5>1. net[i].op.env = doc.activeEnv
          BY <2>3, <2>5, <3>1, <4>1 DEF Succeeded
        <5>. QED
          BY <2>1, <2>4, <2>10, <3>1, <4>1, <5>1 DEF ShowsOn
      <4>2. CASE ~Succeeded(i)
        <5>1. home' = home
          BY <2>1, <4>2 DEF ShowsOn
        <5>2. \A q \in UnderWay(net) : q.op.kind = "setActive" => q.reply.status # "ok"
          BY <2>3, <2>6, <3>1, <4>2 DEF Succeeded
        <5>. QED
          BY <2>5, <3>1, <5>1, <5>2
      <4>. QED
        BY <4>1, <4>2
    <3>. QED
      BY <2>1, <2>6, <3>2, <3>3
  <2>11. CASE then \notin {"loaded", "activated"}
    <3>1. home' = home /\ net[i].op.kind # "setActive"
      BY <2>1, <2>3, <2>5, <2>11 DEF ShowsOn
    <3>2. \A q \in UnderWay(net') : q \in UnderWay(net) \/ q \in UnderWay(reqs)
      BY <2>3
    <3>3. \A q \in UnderWay(net) : q.op.kind = "setActive" => q \in UnderWay(net')
      BY <2>3, <3>1
    <3>4. home.isLoading => \A q \in UnderWay(net') :
             q.then = "loaded" => q.reply \in {Pending, Ok(doc.activeEnv)}
      BY <2>5, <2>7, <3>2
    <3>5. ~home.isLoading => \A q \in UnderWay(net') :
             q.op.kind = "setActive" /\ q.reply.status = "ok" => q.op.env = doc.activeEnv
      BY <2>5, <2>7, <3>2
    <3>6. ASSUME ~home.isLoading,
                 \A q \in UnderWay(net') : q.op.kind = "setActive" => q.reply.status # "ok"
          PROVE  home.env = doc.activeEnv
      BY <2>5, <3>3, <3>6
    <3>. QED
      BY <2>1, <2>6, <2>8, <3>1, <3>4, <3>5, <3>6
  <2>. QED
    BY <2>9, <2>10, <2>11
<1>. QED
    BY <1>3, <1>4, <1>5, <1>6, <1>7 DEF Next, Network, PageInv

\* A page at rest is on the environment that the server has active, whatever was
\* selected, created, deleted or refused and in whatever order the server and
\* the page saw it, unless activations overlapped, an answer was lost, the page
\* was loaded anew or another client interfered.
THEOREM PageFollowsServer == Spec => []PageOnActiveEnv
<1>. DEFINE PInv == LoadingInv /\ PageInv
<1>1. Init => PInv
  <2>1. Init => LoadingInv
    BY InitMembers, NewHomeParts DEF Init, LoadingInv
  <2>2. Once(<<GetActive>>, Activations)
    BY OneOrTwo, Zenon
  <2>3. GetActive.op.kind = "active" /\ GetActive.reply = Pending
    BY DEF GetActive, Request
  <2>. QED
    BY <2>1, <2>2, <2>3, InitMembers, NewHomeParts DEF Init, PageInv
<1>2. Shape /\ PInv /\ [Next]_vars => PInv'
  <2>1. ASSUME UNCHANGED vars, PInv PROVE PInv'
    BY <2>1 DEF vars, LoadingInv, PageInv
  <2>. QED
    BY <2>1, NextKeepsLoading, NextKeepsPage
<1>3. PInv => PageOnActiveEnv
  <2>1. UnderWay(<< >>) = {}
    BY OneOrTwo
  <2>. QED
    BY <2>1 DEF PageInv, PageOnActiveEnv, Settled
<1>. QED
    BY <1>1, <1>2, <1>3, ShapeHolds, PTL DEF Spec
-----------------------------------------------------------------------------
(***************************************************************************)
(* The entries of the document.  Environments have distinct names and      *)
(* entries distinct ids, whoever changes them.                             *)
(***************************************************************************)
Numbered == UniqueEnvs(doc) /\ IdsWithin(doc, 1, clock)

LEMMA AcceptRecords ==
    ASSUME ServerShape, Numbered, NEW o \in Operation, Server!Accept(o)
    PROVE  Numbered' /\ ChangesRecords(o, doc, doc', clock)
<1>. DEFINE d == Perform(o, doc, clock)
<1>1. d # Rejected /\ doc' = WithSomeEnv(d) /\ clock' = clock + IdsDrawn(o)
    BY SameOperators DEF Server!Accept
<1>2. doc \in Configuration /\ clock \in Nat /\ UniqueEnvs(doc) /\ IdsWithin(doc, 1, clock)
    BY DEF ServerShape, Numbered
<1>3. d \in Configuration /\ UniqueEnvs(d)
    BY <1>1, <1>2, PerformKeeps DEF Keeps
<1>4. IdsWithin(d, 1, clock')
    BY <1>1, <1>2, PerformIds
<1>5. ChangesRecords(o, doc, d, clock)
    BY <1>1, <1>2, PerformRecords
<1>. HIDE DEF d
<1>6. UniqueEnvs(doc') /\ IdsWithin(doc', 1, clock')
    BY <1>1, <1>3, <1>4, WithSomeEnvKeeps, WithSomeEnvIds
<1>7. ChangesRecords(o, doc, doc', clock)
    BY <1>1, <1>3, <1>5, SavedRecords
<1>. QED
    BY <1>6, <1>7 DEF Numbered

\* A rejected operation may have read the clock.
LEMMA RejectRecords ==
    ASSUME ServerShape, Numbered, NEW o \in Operation, Server!Reject(o)
    PROVE  Numbered'
<1>1. doc' = doc /\ clock' = clock + IdsDrawn(o)
    BY SameOperators DEF Server!Reject
<1>2. doc \in Configuration /\ clock \in Nat /\ UniqueEnvs(doc) /\ IdsWithin(doc, 1, clock)
    BY DEF ServerShape, Numbered
<1>3. clock' \in Nat /\ clock <= clock'
    BY <1>1, <1>2, IdsDrawnType
<1>4. IdsWithin(doc, 1, clock')
    BY <1>2, <1>3, IdsWithinLater
<1>. QED
    BY <1>1, <1>2, <1>4 DEF Numbered

\* The requests of the page.
LEMMA PageRecords ==
    ASSUME ServerShape, Numbered, NEW op \in Op, ~IsRead(op), ~Invalid(op)
    PROVE  /\ Server!Accept(op) => Numbered' /\ ChangesRecords(op, doc, doc', clock)
           /\ Server!Reject(op) => Numbered'
<1>. DEFINE w == OnTheWire(op)
<1>1. clock \in Nat
    BY DEF ServerShape
<1>2. w \in Operation /\ w.kind = op.kind /\ (op.kind # "removeHostname" => w = op)
    BY <1>1, OnTheWireType
<1>3. (Server!Accept(op) => Server!Accept(w)) /\ (Server!Reject(op) => Server!Reject(w))
    BY OnTheWireSame
<1>4. op.kind = "removeHostname" => w.env = op.env /\ w.name = op.name
    BY DEF OnTheWire
<1>. HIDE DEF w
<1>5. Server!Reject(op) => Numbered'
    BY <1>2, <1>3, RejectRecords
<1>6. ASSUME Server!Accept(op) PROVE Numbered' /\ ChangesRecords(op, doc, doc', clock)
  <2>1. Numbered' /\ ChangesRecords(w, doc, doc', clock)
    BY <1>2, <1>3, <1>6, AcceptRecords
  <2>2. CASE op.kind = "removeHostname"
    BY <1>2, <1>4, <2>1, <2>2 DEF ChangesRecords
  <2>. QED
    BY <1>2, <2>1, <2>2
<1>. QED
    BY <1>5, <1>6

LEMMA InitNumbered == Init => Numbered
<1>. SUFFICES ASSUME Init PROVE Numbered
    OBVIOUS
<1>1. doc \in InitialFiles /\ clock = FirstClock /\ clock \in Nat /\ doc \in Configuration
    BY InitShape DEF Init, Shape, ServerShape
<1>2. /\ 0 < FirstClock /\ UniqueEnvs(doc) /\ DistinctIds(doc)
      /\ \A p \in EntryPositions(doc) : 0 < IdAt(doc, p) /\ IdAt(doc, p) < FirstClock
    BY <1>1, LoadedAssumption
<1>3. \A p \in EntryPositions(doc) : IdAt(doc, p) \in Nat
    BY <1>1, IdAtType
<1>. QED
    BY <1>1, <1>2, <1>3 DEF Numbered, IdsWithin

LEMMA NextNumbered ==
    ASSUME Shape, Numbered, [Next]_vars
    PROVE  Numbered'
<1>1. ServerShape /\ net \in Seq(Req)
    BY DEF Shape, PageShape
<1>2. CASE UNCHANGED serverVars
    BY <1>2 DEF serverVars, Numbered
<1>3. ASSUME NEW i \in DOMAIN net, Handle(i) PROVE Numbered'
  <2>. DEFINE op == net[i].op
  <2>1. op \in Op
    BY <1>1, RestShape, ReqParts
  <2>. HIDE DEF op
  <2>2. \/ UNCHANGED serverVars
        \/ ~IsRead(op) /\ ~Invalid(op) /\ (Server!Accept(op) \/ Server!Reject(op))
    BY <1>3 DEF Handle, op
  <2>. QED
    BY <1>1, <1>2, <2>1, <2>2, PageRecords
<1>4. CASE Foreign
    BY <1>1, <1>4, AcceptRecords, ServerAssumption DEF Foreign
<1>5. CASE \E i \in DOMAIN net : Lose(i)
    BY <1>2, <1>5 DEF Lose
<1>6. CASE \E i \in DOMAIN net : Deliver(i)
    BY <1>2, <1>6 DEF Deliver
<1>7. CASE UNCHANGED vars
    BY <1>2, <1>7 DEF vars, serverVars
<1>. QED
    BY <1>2, <1>3, <1>4, <1>5, <1>6, <1>7 DEF Next, Network
-----------------------------------------------------------------------------
(***************************************************************************)
(* The requests about records that the callbacks send.                     *)
(***************************************************************************)

\* Sending: the history says so when requests about records overlap.
LEMMA PostOverlaps ==
    ASSUME NEW rest, NEW reqs, NEW events, Post(rest, reqs, events), "table" \notin history'
    PROVE  UnderWay(rest) \cap RecordReqs = {} \/ UnderWay(reqs) \cap RecordReqs = {}
<1>1. ASSUME NEW s, UnderWay(s) \cap RecordReqs # {} PROVE "table" \in Touched(s)
  <2>1. PICK k \in DOMAIN s : s[k] \in RecordReqs
    BY <1>1 DEF UnderWay
  <2>2. "table" \in Touches(s[k])
    BY <2>1 DEF Touches, RecordReqs, OfRecords
  <2>. QED
    BY <2>1, <2>2 DEF Touched
<1>. QED
    BY <1>1 DEF Post

\* The one request about records.
LEMMA OneRecordRequest ==
    ASSUME NEW s \in Seq(Req), Once(s, RecordReqs), NEW q \in UnderWay(s), NEW r \in UnderWay(s),
           q.op.kind \in OfRecords, r.op.kind \in OfRecords
    PROVE  q = r
<1>1. q \in RecordReqs /\ r \in RecordReqs
    BY UnderWayType DEF RecordReqs
<1>. QED
    BY <1>1 DEF Once, UnderWay

\* The parts of the requests that the callbacks send.
LEMMA SentParts ==
    /\ \A env : /\ Find(env).op.kind = "find" /\ Find(env).op.env = env
                /\ Find(env).then = "rows" /\ Find(env).reply = Pending
    /\ \A env : Activate(env).op.kind = "setActive" /\ Activate(env).then = "activated"
    /\ ListEnvs.op.kind = "envs" /\ GetActive.op.kind = "active"
    /\ ListEnvs \notin RecordReqs /\ GetActive \notin RecordReqs
    /\ \A env : Activate(env) \notin RecordReqs
    BY DEF Find, Activate, ListEnvs, GetActive, Request, RecordReqs, OfRecords

\* What the callback of request i sends about records, and what it does to the
\* table.
TableSends(i, reqs, events) ==
    /\ reqs \in Seq(Req) /\ Post(Rest(i), reqs, events)
    /\ \A r \in UnderWay(reqs) : r = Find(home'.env) \/ r.op.kind \in {"envs", "setActive"}
    /\ Once(reqs, RecordReqs)
    /\ net[i].then \in {"rows", "nothing"} \/ ~Succeeded(i) => UnderWay(reqs) = {}
    /\ net[i].then \in {"loaded", "activated", "added", "removed"} /\ Succeeded(i) =>
          Find(home'.env) \in UnderWay(reqs)
    /\ net[i].then = "deleted" /\ Succeeded(i) => Activate(DefaultEnv) \in UnderWay(reqs)
    /\ net[i].then \in {"rows", "activated"} /\ ~Succeeded(i) => "refused" \in events

ShowsRows(i) ==
    rows' = IF net[i].then = "rows" /\ Succeeded(i)
            THEN Loaded(net[i].op.env, net[i].reply.data) ELSE rows

LEMMA TableSendsNothing ==
    ASSUME NEW i, NEW events, Post(Rest(i), << >>, events),
           net[i].then \in {"envList", "rows", "nothing"} \/ ~Succeeded(i),
           net[i].then \in {"rows", "activated"} /\ ~Succeeded(i) => "refused" \in events
    PROVE  TableSends(i, << >>, events)
    BY NoRequest, OneOrTwo DEF TableSends

\* One request for the records, maybe with one for the names of the environments.
LEMMA TableSendsFind ==
    ASSUME NEW i, NEW reqs \in Seq(Req), NEW events, Post(Rest(i), reqs, events),
           Once(reqs, RecordReqs), Find(home'.env) \in UnderWay(reqs),
           UnderWay(reqs) \subseteq {ListEnvs, Find(home'.env)}, Succeeded(i),
           net[i].then \in {"loaded", "activated", "added", "removed"}
    PROVE  TableSends(i, reqs, events)
    BY SentParts DEF TableSends

\* Two requests, the one for the names of the environments among them.
LEMMA FindOnce ==
    ASSUME NEW env \in EnvNames
    PROVE  /\ Once(<<Find(env)>>, RecordReqs)
           /\ Once(<<ListEnvs, Find(env)>>, RecordReqs)
           /\ Once(<<ListEnvs>> \o <<Find(env)>>, RecordReqs)
           /\ Once(<<Find(env)>> \o <<ListEnvs>>, RecordReqs)
           /\ Once(<< >> \o <<Find(env)>>, RecordReqs)
           /\ Once(<<Find(env)>> \o << >>, RecordReqs)
<1>. DEFINE a == <<ListEnvs>>
            b == <<Find(env)>>
<1>1. a \in Seq(Req) /\ b \in Seq(Req)
    BY PageRequests
<1>2. /\ Once(a, RecordReqs) /\ Once(b, RecordReqs)
      /\ UnderWay(a) = {ListEnvs}
    BY OneOrTwo, Zenon
<1>3. UnderWay(a) \cap RecordReqs = {}
    BY <1>2, SentParts
<1>4. << >> \o b = b /\ b \o << >> = b
    BY <1>1, ConcatEmptySeq
<1>5. Once(<<ListEnvs, Find(env)>>, RecordReqs)
  <2>. DEFINE s == <<ListEnvs, Find(env)>>
  <2>1. DOMAIN s = {1, 2} /\ s[1] = ListEnvs
    OBVIOUS
  <2>. HIDE DEF s
  <2>2. Once(s, RecordReqs)
    BY <2>1, SentParts DEF Once
  <2>. QED
    BY <2>2 DEF s
<1>. HIDE DEF a, b
<1>6. Once(a \o b, RecordReqs) /\ Once(b \o a, RecordReqs)
    BY <1>1, <1>2, <1>3, ConcatMembers
<1>7. Once(<< >> \o b, RecordReqs) /\ Once(b \o << >>, RecordReqs)
    BY <1>2, <1>4
<1>. QED
    BY <1>2, <1>5, <1>6, <1>7, Zenon DEF a, b

LEMMA CallbackTable ==
    ASSUME PageShape, NEW i, Deliver(i)
    PROVE  (\E reqs, events : TableSends(i, reqs, events)) /\ ShowsRows(i)
<1>1. /\ net \in Seq(Req) /\ home.env \in EnvNames
      /\ home \in [isLoading : BOOLEAN, createEnv : BOOLEAN, env : EnvNames]
    BY DEF PageShape
<1>2. i \in DOMAIN net /\ net[i] \in Req
    BY <1>1, RestShape DEF Deliver, Arrived
<1>. DEFINE then == net[i].then
<1>3. CASE ActiveArrived(i)
  <2>1. then = "loaded" /\ ShowsRows(i)
    BY <1>3 DEF ActiveArrived, ShowsRows
  <2>2. CASE Succeeded(i)
    <3>. DEFINE env == net[i].reply.data
                reqs == <<ListEnvs, Find(env)>>
    <3>1. env \in EnvNames
      <4>1. net[i].op.kind = "active"
        BY <1>2, <2>1, KindOfCallback
      <4>. QED
        BY <1>2, <2>2, <4>1, DataOfReply DEF Succeeded, DataOf
    <3>2. home' = [home EXCEPT !.isLoading = FALSE, !.env = env] /\ Post(Rest(i), reqs, {})
      BY <1>3, <2>2 DEF ActiveArrived
    <3>3. home'.env = env
      BY <1>1, <3>2
    <3>4. ListEnvs \in Req /\ Find(env) \in Req
      BY <3>1, PageRequests
    <3>5. reqs \in Seq(Req)
      BY <3>4
    <3>6. UnderWay(reqs) = {ListEnvs, Find(env)}
      BY OneOrTwo, Zenon
    <3>7. Once(reqs, RecordReqs)
      BY <3>1, FindOnce
    <3>. HIDE DEF reqs, env
    <3>8. TableSends(i, reqs, {})
      BY <2>1, <2>2, <3>2, <3>3, <3>5, <3>6, <3>7, TableSendsFind
    <3>. QED
      BY <2>1, <3>8
  <2>3. CASE ~Succeeded(i)
    BY <1>3, <2>1, <2>3, TableSendsNothing DEF ActiveArrived
  <2>. QED
    BY <2>2, <2>3
<1>4. CASE EnvListArrived(i)
  <2>1. then = "envList" /\ Post(Rest(i), << >>, {}) /\ ShowsRows(i)
    BY <1>4 DEF EnvListArrived, ShowsRows
  <2>. QED
    BY <2>1, TableSendsNothing
<1>5. CASE TableArrived(i)
  <2>. DEFINE events == IF Succeeded(i) THEN {} ELSE {"refused"}
  <2>1. then = "rows" /\ Post(Rest(i), << >>, events)
    BY <1>5 DEF TableArrived, RowsArrived
  <2>2. ShowsRows(i)
    BY <1>5, <2>1 DEF TableArrived, RowsArrived, ShowsRows
  <2>3. ~Succeeded(i) => "refused" \in events
    OBVIOUS
  <2>. HIDE DEF events
  <2>. QED
    BY <2>1, <2>2, <2>3, TableSendsNothing
<1>6. CASE Activated(i)
  <2>1. then = "activated" /\ ShowsRows(i)
    BY <1>6 DEF Activated, ShowsRows
  <2>2. CASE Succeeded(i)
    <3>. DEFINE env == net[i].op.env
                first == IF home.createEnv THEN <<ListEnvs>> ELSE << >>
                reqs == first \o <<Find(env)>>
                events == IF home.createEnv THEN Closing(Rest(i)) ELSE {}
    <3>1. env \in EnvNames
      BY <1>2, <2>1, KindOfCallback
    <3>2. /\ home' = [home EXCEPT !.env = env, !.createEnv = FALSE]
          /\ Post(Rest(i), reqs, events)
      BY <1>6, <2>2 DEF Activated
    <3>3. home'.env = env
      BY <1>1, <3>2
    <3>4. reqs \in Seq(Req)
      BY <3>1, PageRequests, NoRequest, ConcatMembers
    <3>5. \/ reqs = <<ListEnvs>> \o <<Find(env)>>
          \/ reqs = << >> \o <<Find(env)>>
      OBVIOUS
    <3>. HIDE DEF reqs, env, events, first
    <3>6. UnderWay(reqs) \subseteq {ListEnvs, Find(env)} /\ Find(env) \in UnderWay(reqs)
      <4>1. UnderWay(<<ListEnvs>> \o <<Find(env)>>) = {ListEnvs, Find(env)}
        BY OneOrTwo, Zenon
      <4>2. UnderWay(<< >> \o <<Find(env)>>) = {Find(env)}
        BY OneOrTwo, Zenon
      <4>3. UnderWay(reqs) = {ListEnvs, Find(env)} \/ UnderWay(reqs) = {Find(env)}
        BY <3>5, <4>1, <4>2, Zenon
      <4>. QED
        BY <4>3
    <3>7. Once(reqs, RecordReqs)
      BY <3>1, <3>5, FindOnce, Zenon
    <3>8. TableSends(i, reqs, events)
      BY <2>1, <2>2, <3>2, <3>3, <3>4, <3>6, <3>7, TableSendsFind
    <3>. QED
      BY <2>1, <3>8
  <2>3. CASE ~Succeeded(i)
    <3>1. Post(Rest(i), << >>, {"refused"})
      BY <1>6, <2>3 DEF Activated
    <3>. QED
      BY <2>1, <2>3, <3>1, TableSendsNothing
  <2>. QED
    BY <2>2, <2>3
<1>7. CASE Created(i) \/ Deleted(i)
  <2>1. then \in {"created", "deleted"} /\ ShowsRows(i)
    BY <1>7 DEF Created, Deleted, pageVars, ShowsRows
  <2>2. CASE ~Succeeded(i)
    <3>1. Post(Rest(i), << >>, {})
      BY <1>7, <2>2 DEF Created, Deleted
    <3>. QED
      BY <2>1, <2>2, <3>1, TableSendsNothing
  <2>3. CASE Succeeded(i)
    <3>. DEFINE env == IF then = "created" THEN net[i].op.env ELSE DefaultEnv
                req == Activate(env)
                reqs == <<req>>
                events == IF then = "created" THEN {} ELSE {"deleted"}
    <3>1. Post(Rest(i), reqs, events)
      BY <1>7, <2>3 DEF Created, Deleted
    <3>2. env \in EnvNames
      BY <1>2, KindOfCallback, DefaultEnvAssumption
    <3>3. reqs \in Seq(Req)
      BY <3>2, PageRequests
    <3>4. UnderWay(reqs) = {req} /\ Once(reqs, RecordReqs)
      BY OneOrTwo, Zenon
    <3>5. req.op.kind = "setActive"
      BY SentParts
    <3>6. then = "deleted" => req = Activate(DefaultEnv)
      OBVIOUS
    <3>. HIDE DEF env, req, reqs, events
    <3>7. TableSends(i, reqs, events)
      BY <2>1, <2>3, <3>1, <3>3, <3>4, <3>5, <3>6 DEF TableSends
    <3>. QED
      BY <2>1, <3>7
  <2>. QED
    BY <2>2, <2>3
<1>8. CASE Added(i) \/ RecordRemoved(i)
  <2>1. then \in {"added", "removed"} /\ ShowsRows(i) /\ home' = home
    BY <1>8 DEF Added, RecordRemoved, Removed, pageVars, ShowsRows
  <2>2. CASE ~Succeeded(i)
    <3>1. Post(Rest(i), << >>, {})
      BY <1>8, <2>2 DEF Added, RecordRemoved, Removed
    <3>. QED
      BY <2>1, <2>2, <3>1, TableSendsNothing
  <2>3. CASE Succeeded(i)
    <3>. DEFINE env == home.env
                one == <<Find(env)>>
                two == <<Find(env)>> \o << >>
                three == <<Find(env)>> \o <<ListEnvs>>
    <3>1. \/ Post(Rest(i), one, {}) \/ Post(Rest(i), two, {}) \/ Post(Rest(i), three, {})
      BY <1>8, <2>3 DEF Added, RecordRemoved, Removed
    <3>2. one \in Seq(Req) /\ two \in Seq(Req) /\ three \in Seq(Req)
      BY <1>1, PageRequests, NoRequest, ConcatMembers
    <3>3. /\ UnderWay(one) = {Find(env)} /\ UnderWay(two) = {Find(env)}
          /\ UnderWay(three) = {Find(env), ListEnvs}
      BY OneOrTwo, Zenon
    <3>4. Once(one, RecordReqs) /\ Once(two, RecordReqs) /\ Once(three, RecordReqs)
      BY <1>1, FindOnce
    <3>5. home'.env = env
      BY <2>1
    <3>. HIDE DEF env, one, two, three
    <3>6. \E reqs, events : TableSends(i, reqs, events)
      BY <2>1, <2>3, <3>1, <3>2, <3>3, <3>4, <3>5, TableSendsFind
    <3>. QED
      BY <2>1, <3>6
  <2>. QED
    BY <2>2, <2>3
<1>9. CASE Ignored(i)
  <2>1. then = "nothing" /\ Post(Rest(i), << >>, {}) /\ ShowsRows(i)
    BY <1>9 DEF Ignored, ShowsRows, pageVars
  <2>. QED
    BY <2>1, TableSendsNothing
<1>. QED
    BY <1>3, <1>4, <1>5, <1>6, <1>7, <1>8, <1>9 DEF Deliver

\* The requests about records after a callback.
LEMMA CallbackRecords ==
    ASSUME net \in Seq(Req), NEW i \in DOMAIN net, NEW reqs, NEW events,
           TableSends(i, reqs, events)
    PROVE  /\ net[i] \in Req /\ UnderWay(Rest(i)) \subseteq Req
           /\ UnderWay(net) = UnderWay(Rest(i)) \cup {net[i]}
           /\ UnderWay(net') = UnderWay(Rest(i)) \cup UnderWay(reqs)
           /\ history \subseteq history' /\ events \subseteq history'
           /\ "table" \notin history' /\ Find(home'.env) \in UnderWay(reqs)
                 /\ home'.env \in EnvNames =>
                 \A q \in UnderWay(Rest(i)) : q.op.kind \notin OfRecords
           /\ Once(net, RecordReqs) /\ net[i].op.kind \in OfRecords =>
                 \A q \in UnderWay(Rest(i)) : q.op.kind \notin OfRecords
           /\ "table" \notin history' /\ Once(net, RecordReqs) => Once(net', RecordReqs)
<1>1. reqs \in Seq(Req) /\ Post(Rest(i), reqs, events) /\ Once(reqs, RecordReqs)
    BY DEF TableSends
<1>2. net[i] \in Req /\ Rest(i) \in Seq(Req)
    BY RestShape
<1>3. UnderWay(Rest(i)) \subseteq Req
    BY <1>2, UnderWayType
<1>4. /\ UnderWay(net) = UnderWay(Rest(i)) \cup {net[i]}
      /\ \A R : Once(net, R) => /\ Once(Rest(i), R)
                                /\ net[i] \in R => UnderWay(Rest(i)) \cap R = {}
    BY RemoveMembers DEF Rest
<1>5. /\ UnderWay(net') = UnderWay(Rest(i)) \cup UnderWay(reqs)
      /\ history \subseteq history' /\ events \subseteq history'
      /\ \A R : /\ Once(Rest(i), R) /\ Once(reqs, R)
                /\ UnderWay(Rest(i)) \cap R = {} \/ UnderWay(reqs) \cap R = {}
                => Once(net', R)
    BY <1>1, <1>2, PostMembers
<1>6. ASSUME "table" \notin history'
      PROVE  UnderWay(Rest(i)) \cap RecordReqs = {} \/ UnderWay(reqs) \cap RecordReqs = {}
    BY <1>1, <1>6, PostOverlaps
<1>7. ASSUME UnderWay(Rest(i)) \cap RecordReqs = {}
      PROVE  \A q \in UnderWay(Rest(i)) : q.op.kind \notin OfRecords
    BY <1>3, <1>7 DEF RecordReqs
<1>8. home'.env \in EnvNames => Find(home'.env) \in RecordReqs
    BY PageRequests, SentParts DEF RecordReqs, OfRecords
<1>9. net[i].op.kind \in OfRecords => net[i] \in RecordReqs
    BY <1>2 DEF RecordReqs
<1>10. ASSUME "table" \notin history', Find(home'.env) \in UnderWay(reqs), home'.env \in EnvNames
       PROVE  \A q \in UnderWay(Rest(i)) : q.op.kind \notin OfRecords
    BY <1>6, <1>7, <1>8, <1>10
<1>11. ASSUME Once(net, RecordReqs), net[i].op.kind \in OfRecords
       PROVE  \A q \in UnderWay(Rest(i)) : q.op.kind \notin OfRecords
    BY <1>4, <1>7, <1>9, <1>11
<1>12. ASSUME "table" \notin history', Once(net, RecordReqs) PROVE Once(net', RecordReqs)
    BY <1>1, <1>4, <1>5, <1>6, <1>12
<1>. QED
    BY <1>2, <1>3, <1>4, <1>5, <1>10, <1>11, <1>12
-----------------------------------------------------------------------------
(***************************************************************************)
(* The gestures and the table: a row that is still clean is as it was.     *)
(***************************************************************************)
KeepsRow(r, q) ==
    /\ q.id = r.id /\ q.origin = r.origin
    /\ q.clean => r.clean /\ q.hostname = r.hostname /\ q.value = r.value

KeepsRows ==
    /\ DOMAIN rows' = DOMAIN rows
    /\ \A k \in DOMAIN rows : KeepsRow(rows[k], rows'[k])

\* The four things the handlers do to a row.
LEMMA EditsKeepRow ==
    ASSUME NEW r \in Row
    PROVE  /\ KeepsRow(r, r)
           /\ \A b : KeepsRow(r, [r EXCEPT !.editing = b])
           /\ \A name : KeepsRow(r, [r EXCEPT !.hostname = name, !.clean = FALSE])
           /\ \A v : KeepsRow(r, [r EXCEPT !.value = v, !.clean = FALSE])
    BY DEF Row, KeepsRow

LEMMA RowReplacedKeeps ==
    ASSUME rows \in Seq(Row), NEW k \in DOMAIN rows, NEW r, KeepsRow(rows[k], r),
           rows' = [rows EXCEPT ![k] = r]
    PROVE  KeepsRows
<1>1. DOMAIN rows' = DOMAIN rows /\ rows'[k] = r
      /\ \A j \in DOMAIN rows : j # k => rows'[j] = rows[j]
    OBVIOUS
<1>2. \A j \in DOMAIN rows : rows[j] \in Row
    BY ElementOfSeq, LenProperties
<1>3. \A j \in DOMAIN rows : KeepsRow(rows[j], rows[j])
    BY <1>2, EditsKeepRow
<1>. QED
    BY <1>1, <1>3 DEF KeepsRows

LEMMA GestureKeepsRows ==
    ASSUME PageShape, User, ~Refresh
    PROVE  KeepsRows
<1>1. rows \in Seq(Row)
    BY DEF PageShape
<1>2. \A j \in DOMAIN rows : rows[j] \in Row
    BY <1>1, ElementOfSeq, LenProperties
<1>3. CASE rows' = rows
    BY <1>2, <1>3, EditsKeepRow DEF KeepsRows
<1>4. ASSUME NEW k \in DOMAIN rows,
             SwapEditionMode(k) \/ HandleChange(k) \/ HandleRowNumber(k)
                \/ HandleIpChange(k) \/ HandleTargetChange(k) \/ UpdateRecord(k, home.env)
      PROVE  KeepsRows
  <2>. DEFINE row == rows[k]
  <2>1. row \in Row
    BY <1>2
  <2>2. \E r : rows' = [rows EXCEPT ![k] = r] /\ KeepsRow(row, r)
    <3>1. CASE SwapEditionMode(k) \/ UpdateRecord(k, home.env)
      <4>1. \E b : rows' = [rows EXCEPT ![k] = [row EXCEPT !.editing = b]]
        BY <3>1 DEF SwapEditionMode, UpdateRecord
      <4>. QED
        BY <2>1, <4>1, EditsKeepRow
    <3>2. ASSUME NEW name,
                 rows' = [rows EXCEPT ![k].hostname = name, ![k].clean = FALSE]
          PROVE  \E r : rows' = [rows EXCEPT ![k] = r] /\ KeepsRow(row, r)
      <4>1. rows' = [rows EXCEPT ![k] = [row EXCEPT !.hostname = name, !.clean = FALSE]]
        BY <3>2
      <4>. QED
        BY <2>1, <4>1, EditsKeepRow
    <3>3. ASSUME NEW type,
                 rows' = [rows EXCEPT ![k].value.type = type, ![k].clean = FALSE]
          PROVE  \E r : rows' = [rows EXCEPT ![k] = r] /\ KeepsRow(row, r)
      <4>. DEFINE v == [row.value EXCEPT !.type = type]
      <4>1. rows' = [rows EXCEPT ![k] = [row EXCEPT !.value = v, !.clean = FALSE]]
        BY <3>3
      <4>. HIDE DEF v
      <4>. QED
        BY <2>1, <4>1, EditsKeepRow
    <3>4. ASSUME NEW number,
                 rows' = [rows EXCEPT ![k].value.ttl = number, ![k].clean = FALSE]
          PROVE  \E r : rows' = [rows EXCEPT ![k] = r] /\ KeepsRow(row, r)
      <4>. DEFINE v == [row.value EXCEPT !.ttl = number]
      <4>1. rows' = [rows EXCEPT ![k] = [row EXCEPT !.value = v, !.clean = FALSE]]
        BY <3>4
      <4>. HIDE DEF v
      <4>. QED
        BY <2>1, <4>1, EditsKeepRow
    <3>5. ASSUME NEW text,
                 rows' = [rows EXCEPT ![k].value.ip = text, ![k].clean = FALSE]
          PROVE  \E r : rows' = [rows EXCEPT ![k] = r] /\ KeepsRow(row, r)
      <4>. DEFINE v == [row.value EXCEPT !.ip = text]
      <4>1. rows' = [rows EXCEPT ![k] = [row EXCEPT !.value = v, !.clean = FALSE]]
        BY <3>5
      <4>. HIDE DEF v
      <4>. QED
        BY <2>1, <4>1, EditsKeepRow
    <3>6. ASSUME NEW text,
                 rows' = [rows EXCEPT ![k].value.target = text, ![k].clean = FALSE]
          PROVE  \E r : rows' = [rows EXCEPT ![k] = r] /\ KeepsRow(row, r)
      <4>. DEFINE v == [row.value EXCEPT !.target = text]
      <4>1. rows' = [rows EXCEPT ![k] = [row EXCEPT !.value = v, !.clean = FALSE]]
        BY <3>6
      <4>. HIDE DEF v
      <4>. QED
        BY <2>1, <4>1, EditsKeepRow
    <3>. QED
      BY <1>4, <3>1, <3>2, <3>3, <3>4, <3>5, <3>6
      DEF HandleChange, HandleRowNumber, HandleIpChange, HandleTargetChange
  <2>. QED
    BY <1>1, <2>2, RowReplacedKeeps
<1>5. CASE EditRow \/ SaveRow
    BY <1>4, <1>5 DEF EditRow, SaveRow
<1>6. CASE DeleteRow
    BY <1>3, <1>6 DEF DeleteRow, DeleteRecord
<1>7. CASE SubmitForm \/ EditForm \/ UsePicker \/ UseEnvForm
    BY <1>3, <1>7 DEF SubmitForm, EditForm, UsePicker, UseEnvForm, SelectEnv, DeleteCurrent,
                      OpenEnvForm, CreateEnvironment, CancelEnvForm, pageVars
<1>. QED
    BY <1>5, <1>6, <1>7 DEF User, UseRecords

\* A request about a record that the user asks for is the only one.
LEMMA AskAlone ==
    ASSUME net \in Seq(Req), NEW r, Asks(r), "table" \notin history'
    PROVE  /\ Once(net, RecordReqs) => Once(net', RecordReqs)
           /\ r.op.kind \in OfRecords => \A q \in UnderWay(net) : q.op.kind \notin OfRecords
<1>. DEFINE reqs == <<r>>
<1>1. r \in Req /\ Post(net, reqs, {})
    BY DEF Asks
<1>2. UnderWay(reqs) = {r}
    BY OneOrTwo, Zenon
<1>. HIDE DEF reqs
<1>3. UnderWay(net) \cap RecordReqs = {} \/ UnderWay(reqs) \cap RecordReqs = {}
    BY <1>1, PostOverlaps
<1>4. r \notin RecordReqs \/ UnderWay(net) \cap RecordReqs = {}
    BY <1>2, <1>3
<1>5. Once(net, RecordReqs) => Once(net', RecordReqs)
    BY <1>4, AskMembers
<1>. QED
    BY <1>1, <1>4, <1>5, UnderWayType DEF RecordReqs
-----------------------------------------------------------------------------
(***************************************************************************)
(* As long as requests about records do not overlap, at most one is under  *)
(* way, and once the page is there it is about the page's environment.     *)
(***************************************************************************)
AboutPage(r, env) ==
    r.op.kind \in OfRecords => /\ r.op.env = env
                               /\ r.then = "nothing" => r.op.kind = "updateHostname"

RecordInv ==
    "table" \notin history =>
        /\ Once(net, RecordReqs)
        /\ ~home.isLoading => \A r \in UnderWay(net) : AboutPage(r, home.env)

LEMMA NextKeepsRecords ==
    ASSUME Shape, RecordInv, Next
    PROVE  RecordInv'
<1>. DEFINE Goal == /\ Once(net', RecordReqs)
                    /\ ~home'.isLoading => \A r \in UnderWay(net') : AboutPage(r, home'.env)
<1>1. /\ PageShape /\ FormInv /\ net \in Seq(Req) /\ UnderWay(net) \subseteq Req
      /\ home \in [isLoading : BOOLEAN, createEnv : BOOLEAN, env : EnvNames]
    BY UnderWayType DEF Shape, PageShape
<1>. SUFFICES ASSUME "table" \notin history' PROVE Goal
    BY DEF RecordInv
<1>2. ASSUME history \subseteq history'
      PROVE  /\ Once(net, RecordReqs)
             /\ ~home.isLoading => \A r \in UnderWay(net) : AboutPage(r, home.env)
  <2>1. "table" \notin history
    BY <1>2
  <2>. QED
    BY <2>1 DEF RecordInv
<1>3. CASE Refresh
    BY <1>1, <1>2, <1>3, RefreshMembers, NewHomeParts
<1>4. CASE User /\ ~Refresh
  <2>1. ~home.isLoading
    BY <1>1, <1>4, GestureEffect
  <2>2. ASSUME NEW r, Asks(r), AboutPage(r, home.env), UNCHANGED home PROVE Goal
    <3>1. /\ UnderWay(net') = UnderWay(net) \cup {r} /\ history \subseteq history'
          /\ Once(net, RecordReqs) => Once(net', RecordReqs)
      BY <1>1, <2>2, AskMembers, AskAlone
    <3>. QED
      BY <1>2, <2>1, <2>2, <3>1
  <2>3. CASE UNCHANGED <<net, history, home, picker>>
    BY <1>2, <2>3
  <2>4. CASE AsksForRecord
    <3>1. PICK r : Asks(r) /\ AboutRow(r)
      BY <2>4 DEF AsksForRecord
    <3>2. AboutPage(r, home.env)
      BY <3>1 DEF AboutRow, AboutPage
    <3>. QED
      BY <2>2, <2>4, <3>1, <3>2 DEF AsksForRecord
  <2>5. CASE AsksForEnv \/ AsksForDeletion \/ AsksForActivation
    <3>1. PICK r : Asks(r) /\ r.op.kind \in {"addEnv", "removeEnv", "setActive"}
      BY <2>5 DEF AsksForEnv, AsksForDeletion, AsksForActivation
    <3>2. AboutPage(r, home.env)
      BY <3>1 DEF AboutPage, OfRecords
    <3>3. UNCHANGED home
      BY <2>5 DEF AsksForEnv, AsksForDeletion, AsksForActivation
    <3>. QED
      BY <2>2, <3>1, <3>2, <3>3
  <2>6. CASE OpenEnvForm
    <3>1. /\ home'.isLoading = home.isLoading /\ home'.env = home.env
          /\ history' = history /\ DOMAIN net' = DOMAIN net
          /\ \A k \in DOMAIN net :
                /\ net'[k].op = net[k].op
                /\ \/ net'[k].then = net[k].then
                   \/ net[k].then = "envList" /\ net'[k].then = "nothing"
      BY <1>1, <2>6, OpenMembers
    <3>2. \A k \in DOMAIN net : /\ net[k] \in Req
                                /\ net[k].then = "envList" => net[k].op.kind = "envs"
      BY <1>1, KindOfCallback DEF UnderWay
    <3>3. Once(net', RecordReqs)
      BY <1>2, <3>1, <3>2 DEF Once, RecordReqs
    <3>4. \A k \in DOMAIN net : AboutPage(net[k], home.env) => AboutPage(net'[k], home.env)
      BY <3>1, <3>2 DEF AboutPage, OfRecords
    <3>. QED
      BY <1>2, <2>1, <3>1, <3>3, <3>4 DEF UnderWay
  <2>7. CASE CancelEnvForm
    <3>1. AboutPage(ListEnvs, home.env)
      BY SentParts DEF AboutPage, OfRecords
    <3>. QED
      BY <1>1, <1>2, <2>1, <2>7, <3>1, CancelMembers
  <2>. QED
    BY <1>1, <1>4, <2>3, <2>4, <2>5, <2>6, <2>7, GestureEffect
<1>5. CASE Network /\ UNCHANGED <<pageVars, gestures>>
  <2>1. /\ history \subseteq history' /\ home' = home
        /\ \A q \in UnderWay(net') : \E r \in UnderWay(net) : q.op = r.op /\ q.then = r.then
        /\ Once(net, RecordReqs) => Once(net', RecordReqs)
    BY <1>5, NetworkMembers
  <2>. QED
    BY <1>2, <2>1 DEF AboutPage
<1>6. ASSUME NEW i \in DOMAIN net, Deliver(i) PROVE Goal
  <2>1. ShowsOn(i) /\ \E reqs, events : TableSends(i, reqs, events)
    BY <1>1, <1>6, CallbackEffect, CallbackTable
  <2>2. PICK reqs, events : TableSends(i, reqs, events)
    BY <2>1
  <2>3. home' \in [isLoading : BOOLEAN, createEnv : BOOLEAN, env : EnvNames]
    BY <1>6, NextShape DEF Next, Shape, PageShape
  <2>4. /\ UnderWay(net) = UnderWay(Rest(i)) \cup {net[i]}
        /\ UnderWay(net') = UnderWay(Rest(i)) \cup UnderWay(reqs)
        /\ history \subseteq history'
        /\ Find(home'.env) \in UnderWay(reqs) =>
              \A q \in UnderWay(Rest(i)) : q.op.kind \notin OfRecords
        /\ Once(net, RecordReqs) => Once(net', RecordReqs)
    BY <1>1, <2>2, <2>3, CallbackRecords
  <2>5. \A r \in UnderWay(reqs) : AboutPage(r, home'.env)
    BY <2>2, SentParts DEF TableSends, AboutPage, OfRecords
  <2>6. CASE net[i].then \in {"loaded", "activated"} /\ Succeeded(i)
    <3>1. Find(home'.env) \in UnderWay(reqs)
      BY <2>2, <2>6 DEF TableSends
    <3>2. \A q \in UnderWay(Rest(i)) : AboutPage(q, home'.env)
      BY <2>4, <3>1 DEF AboutPage
    <3>. QED
      BY <1>2, <2>4, <2>5, <3>2
  <2>7. CASE ~(net[i].then \in {"loaded", "activated"} /\ Succeeded(i))
    <3>1. home' = home
      BY <2>1, <2>7 DEF ShowsOn
    <3>. QED
      BY <1>2, <2>4, <2>5, <3>1
  <2>. QED
    BY <2>6, <2>7
<1>. QED
    BY <1>3, <1>4, <1>5, <1>6 DEF Next
-----------------------------------------------------------------------------
(***************************************************************************)
(* The table and the records of an environment.                            *)
(***************************************************************************)
\* Row by row the table has the records, and shows those of clean rows.
Matches(table, stored) ==
    /\ Len(table) = Len(stored)
    /\ \A k \in DOMAIN table :
          /\ table[k].id = stored[k].id
          /\ table[k].clean => /\ table[k].hostname = stored[k].hostname
                               /\ table[k].value = stored[k].entry

\* What a pending update brings is what its row shows, if that is clean.
Saves(r, table) ==
    r.op.kind = "updateHostname" =>
        \A k \in DOMAIN table :
           table[k].id = r.op.id /\ table[k].clean =>
              r.op.host = [hostname |-> table[k].hostname, entry |-> table[k].value]

\* A record that is stored has a decoded entry, and its id once.
LEMMA RecordsDistinct ==
    ASSUME ServerShape, Numbered, NEW n
    PROVE  /\ Records(doc, n) \in Seq(Stored)
           /\ \A j, k \in DOMAIN Records(doc, n) :
                 Records(doc, n)[j].id = Records(doc, n)[k].id => j = k
<1>. DEFINE s == Records(doc, n)
<1>1. doc \in Configuration /\ EntriesFrom(doc, Stored)
      /\ IdsWithin(doc, 1, clock) /\ UniqueEnvs(doc)
    BY DEF ServerShape, Numbered
<1>2. CASE HasEnv(doc, n)
  <2>1. PICK e \in DOMAIN doc.envs : s = doc.envs[e].hostnames
    BY <1>1, <1>2, GetEnvFinds DEF Records
  <2>2. s \in Seq(Stored)
    BY <1>1, <2>1 DEF EntriesFrom
  <2>3. \A h \in DOMAIN s : <<e, h>> \in EntryPositions(doc) /\ IdAt(doc, <<e, h>>) = s[h].id
    BY <2>1, Positions
  <2>4. \A p \in EntryPositions(doc) : IdAt(doc, p) \in Nat /\ 1 <= IdAt(doc, p)
    BY <1>1, IdAtType DEF IdsWithin
  <2>. HIDE DEF s
  <2>5. ASSUME NEW j \in DOMAIN s, NEW k \in DOMAIN s, s[j].id = s[k].id PROVE j = k
    <3>1. IdAt(doc, <<e, j>>) = IdAt(doc, <<e, k>>) /\ IdAt(doc, <<e, j>>) # 0
      BY <2>3, <2>4, <2>5
    <3>2. <<e, j>> = <<e, k>>
      BY <1>1, <2>3, <3>1 DEF IdsWithin, DistinctIds
    <3>. QED
      BY <3>2
  <2>. QED
    BY <2>2, <2>5 DEF s
<1>3. CASE ~HasEnv(doc, n)
  <2>1. s = << >>
    BY <1>3 DEF Records
  <2>. QED
    BY <2>1, EmptySeq
<1>. QED
    BY <1>2, <1>3

\* What went through HostnameV1 once goes through it unchanged.
LEMMA DecodeStored ==
    ASSUME NEW v \in Decoded
    PROVE  Decode(v) = v
<1>1. /\ v \in Value /\ v.ip \in {"four", "padded"} /\ v.ttl # "NaN"
      /\ v = [type |-> v.type, ip |-> v.ip, target |-> v.target, ttl |-> v.ttl]
    BY DEF Decoded, Value
<1>2. Decode(v) = [v EXCEPT !.ip = v.ip, !.ttl = v.ttl]
    BY <1>1 DEF Decode
<1>. QED
    BY <1>1, <1>2

\* A table that was just loaded.
LEMMA LoadedMatches ==
    ASSUME NEW S, NEW s \in Seq(S), NEW env
    PROVE  Matches(Loaded(env, s), s)
<1>. DEFINE t == Loaded(env, s)
<1>1. DOMAIN t = DOMAIN s
      /\ \A k \in DOMAIN s : /\ t[k].id = s[k].id /\ t[k].hostname = s[k].hostname
                             /\ t[k].value = s[k].entry
    BY DEF Loaded
<1>2. DOMAIN s = 1..Len(s) /\ Len(s) \in Nat
    BY LenProperties
<1>3. t = [k \in 1..Len(s) |-> t[k]]
    BY <1>2 DEF Loaded
<1>4. Len(t) = Len(s)
    BY <1>2, <1>3 DEF Loaded
<1>. HIDE DEF t
<1>5. Matches(t, s)
    BY <1>1, <1>4 DEF Matches
<1>. QED
    BY <1>5 DEF t

\* Gestures of the user keep what is known of the table.
LEMMA KeptMatches ==
    ASSUME PageShape, PageShape', KeepsRows
    PROVE  /\ \A s : Matches(rows, s) => Matches(rows', s)
           /\ \A r : Saves(r, rows) => Saves(r, rows')
<1>1. DOMAIN rows = 1..Len(rows) /\ DOMAIN rows' = 1..Len(rows')
      /\ Len(rows) \in Nat /\ Len(rows') \in Nat
    BY LenProperties DEF PageShape
<1>2. Len(rows') = Len(rows)
    BY <1>1 DEF KeepsRows
<1>. QED
    BY <1>2 DEF KeepsRows, KeepsRow, Matches, Saves

\* The user saves a row of a table that has the records.
LEMMA AskedSaves ==
    ASSUME ServerShape, Numbered, PageShape, KeepsRows, NEW r, AboutRow(r),
           Matches(rows, Records(doc, home.env))
    PROVE  Saves(r, rows')
<1>. DEFINE s == Records(doc, home.env)
<1>1. /\ s \in Seq(Stored)
      /\ \A j, k \in DOMAIN s : s[j].id = s[k].id => j = k
    BY RecordsDistinct
<1>2. DOMAIN rows = DOMAIN s
    BY <1>1, LenProperties DEF Matches, PageShape
<1>. HIDE DEF s
<1>3. /\ \A k \in DOMAIN rows : rows[k].id = s[k].id
      /\ \A k \in DOMAIN rows : rows[k].clean => rows[k].value = s[k].entry
    BY DEF Matches, s
<1>4. \A k \in DOMAIN s : s[k].entry \in Decoded
  <2>1. \A k \in DOMAIN s : s[k] \in Stored
    BY <1>1, ElementOfSeq, LenProperties
  <2>. QED
    BY <2>1 DEF Stored
<1>5. SUFFICES ASSUME r.op.kind = "updateHostname", NEW j \in DOMAIN rows',
                      rows'[j].id = r.op.id, rows'[j].clean
               PROVE  r.op.host = [hostname |-> rows'[j].hostname, entry |-> rows'[j].value]
    BY DEF Saves
<1>6. PICK k \in DOMAIN rows :
              /\ r.op.id = rows[k].id
              /\ r.op.host = [hostname |-> rows[k].hostname, entry |-> Decode(rows[k].value)]
    BY <1>5 DEF AboutRow
<1>7. /\ j \in DOMAIN rows /\ rows'[j].id = rows[j].id /\ rows[j].clean
      /\ rows'[j].hostname = rows[j].hostname /\ rows'[j].value = rows[j].value
    BY <1>5 DEF KeepsRows, KeepsRow
<1>8. j = k
    BY <1>1, <1>2, <1>3, <1>5, <1>6, <1>7
<1>9. Decode(rows[k].value) = rows[k].value
    BY <1>2, <1>3, <1>4, <1>7, <1>8, DecodeStored
<1>. QED
    BY <1>6, <1>7, <1>8, <1>9

\* The server updates the record of a row.
LEMMA UpdateMatches ==
    ASSUME PageShape, NEW s \in Seq(Hostname), Matches(rows, s), NEW r, Saves(r, rows),
           r.op.kind = "updateHostname",
           NEW h \in DOMAIN s, s[h].id = r.op.id,
           NEW d, d = [s EXCEPT ![h] = WithId(r.op.host, r.op.id)]
    PROVE  Matches(rows, d)
<1>1. DOMAIN s = 1..Len(s) /\ DOMAIN rows = 1..Len(rows) /\ Len(s) = Len(rows) /\ Len(s) \in Nat
    BY LenProperties DEF PageShape, Matches
<1>2. /\ DOMAIN d = DOMAIN s /\ d[h] = WithId(r.op.host, r.op.id)
      /\ \A k \in DOMAIN s : k # h => d[k] = s[k]
    OBVIOUS
<1>3. Len(d) = Len(s)
    BY <1>1
<1>4. /\ d[h].id = r.op.id /\ d[h].hostname = r.op.host.hostname /\ d[h].entry = r.op.host.entry
    BY <1>2 DEF WithId
<1>5. rows[h].clean => r.op.host = [hostname |-> rows[h].hostname, entry |-> rows[h].value]
    BY <1>1 DEF Matches, Saves
<1>6. rows[h].clean => /\ rows[h].hostname = r.op.host.hostname
                       /\ rows[h].value = r.op.host.entry
    BY <1>5
<1>7. \A k \in DOMAIN rows :
         /\ rows[k].id = s[k].id
         /\ rows[k].clean => rows[k].hostname = s[k].hostname /\ rows[k].value = s[k].entry
    BY DEF Matches
<1>8. \A k \in DOMAIN rows :
         /\ rows[k].id = d[k].id
         /\ rows[k].clean => rows[k].hostname = d[k].hostname /\ rows[k].value = d[k].entry
    BY <1>1, <1>2, <1>4, <1>6, <1>7
<1>9. Len(rows) = Len(d)
    BY <1>1, <1>3
<1>. QED
    BY <1>8, <1>9 DEF Matches
-----------------------------------------------------------------------------
(***************************************************************************)
(* The table of records.  As long as nothing confuses it, the table has    *)
(* the records of the page's environment, unless it is about to be loaded: *)
(* the page is on its way to an environment (it loads, activates one or    *)
(* has deleted one), or records were asked for or are about to be because  *)
(* one was added or removed.  Records that have arrived are up to date.    *)
(***************************************************************************)
Renews(r) == r.then = "activated" \/ (r.then = "deleted" /\ r.reply.status = "ok")
Reloads(r) ==
    r.op.kind = "find" \/ (r.then \in {"added", "removed"} /\ r.reply.status = "ok")

Current(r, c) ==
    r.op.kind = "find" /\ r.reply.status = "ok" =>
        HasEnv(c, r.op.env) /\ r.reply.data = Records(c, r.op.env)

DeletesEnv(r) == r.op.kind = "removeEnv" => r.then = "deleted"

TableUpToDate ==
    /\ \A r \in UnderWay(net) : Current(r, doc)
    /\ \/ \E r \in UnderWay(net) : Reloads(r)
       \/ /\ HasEnv(doc, home.env)
          /\ Matches(rows, Records(doc, home.env))
          /\ \A r \in UnderWay(net) : Saves(r, rows)

TableConfusing == {"table", "lost", "refused", "refreshed", "foreign"}

TableInv ==
    history \cap TableConfusing = {} =>
        /\ \A r \in UnderWay(net) : DeletesEnv(r)
        /\ home.isLoading \/ (\E r \in UnderWay(net) : Renews(r)) \/ TableUpToDate

\* A request about records is the only one: nothing else is known of records.
LEMMA AloneIsCurrent ==
    ASSUME NEW q, q.op.kind \notin OfRecords, NEW c, NEW table
    PROVE  Current(q, c) /\ Saves(q, table)
    BY DEF OfRecords, Current, Saves

LEMMA ReloadsRecords ==
    ASSUME NEW q \in Req, Reloads(q)
    PROVE  q.op.kind \in OfRecords
    BY KindOfCallback DEF Reloads, OfRecords

\* The server changes the document for a request of the page.
LEMMA AcceptKeepsTable ==
    ASSUME Shape, Numbered, NEW s \in Seq(Req), NEW r \in UnderWay(s),
           Once(s, RecordReqs), AboutPage(r, home.env), DeletesEnv(r),
           r.reply = Ok(<< >>), ~IsRead(r.op), ~Invalid(r.op),
           ChangesRecords(r.op, doc, doc', clock),
           \A q \in UnderWay(s) : q # r => Current(q, doc),
           \/ \E q \in UnderWay(s) : q # r /\ Reloads(q)
           \/ /\ HasEnv(doc, home.env)
              /\ Matches(rows, Records(doc, home.env))
              /\ \A q \in UnderWay(s) : Saves(q, rows)
    PROVE  \/ \E q \in UnderWay(s) : Renews(q)
           \/ /\ \A q \in UnderWay(s) : Current(q, doc')
              /\ \/ \E q \in UnderWay(s) : Reloads(q)
                 \/ /\ HasEnv(doc', home.env)
                    /\ Matches(rows, Records(doc', home.env))
                    /\ \A q \in UnderWay(s) : Saves(q, rows)
<1>. DEFINE op == r.op
            Goal == /\ \A q \in UnderWay(s) : Current(q, doc')
                    /\ \/ \E q \in UnderWay(s) : Reloads(q)
                       \/ /\ HasEnv(doc', home.env)
                          /\ Matches(rows, Records(doc', home.env))
                          /\ \A q \in UnderWay(s) : Saves(q, rows)
<1>1. /\ UnderWay(s) \subseteq Req /\ op \in Op /\ r.then \in CallbacksOf(op)
      /\ doc \in Configuration /\ PageShape
    BY UnderWayType, ReqParts DEF Shape, ServerShape
<1>2. r.reply.status = "ok"
    BY DEF Ok
<1>3. op.kind # "find"
    BY DEF IsRead
<1>4. Current(r, doc')
    BY <1>3 DEF Current
<1>5. ASSUME \A n : HasEnv(doc, n) =>
                       HasEnv(doc', n) /\ Records(doc', n) = Records(doc, n)
      PROVE  Goal
  <2>1. \A q \in UnderWay(s) : Current(q, doc')
    BY <1>4, <1>5 DEF Current
  <2>. QED
    BY <1>5, <2>1
<1>6. CASE op.kind = "setActive"
    BY <1>5, <1>6 DEF ChangesRecords
<1>7. CASE op.kind = "removeEnv"
    BY <1>2, <1>7 DEF DeletesEnv, Renews
<1>8. CASE op.kind = "addEnv"
  <2>1. \A n : HasEnv(doc, n) => n # op.env
    BY <1>8 DEF ChangesRecords
  <2>2. \A n : n # op.env =>
                  (HasEnv(doc, n) => HasEnv(doc', n)) /\ Records(doc', n) = Records(doc, n)
    BY DEF ChangesRecords
  <2>. QED
    BY <1>5, <2>1, <2>2
<1>9. ASSUME op.kind \in OfRecords
      PROVE  /\ \A q \in UnderWay(s) : q # r => q.op.kind \notin OfRecords
             /\ \A q \in UnderWay(s) : Current(q, doc')
  <2>1. \A q \in UnderWay(s) : q # r => q.op.kind \notin OfRecords
    BY <1>9, OneRecordRequest
  <2>. QED
    BY <1>4, <2>1, AloneIsCurrent
<1>10. CASE op.kind \in {"addHostname", "removeHostname"}
  <2>1. r.then \in {"added", "removed"}
    BY <1>1, <1>10 DEF AboutPage, OfRecords, CallbacksOf
  <2>. QED
    BY <1>2, <1>9, <1>10, <2>1 DEF Reloads, OfRecords
<1>11. CASE op.kind = "updateHostname"
  <2>1. op.kind \in OfRecords /\ op.env = home.env
    BY <1>11 DEF OfRecords, AboutPage
  <2>2. \A q \in UnderWay(s) : q # r => ~Reloads(q)
    BY <1>1, <1>9, <2>1, ReloadsRecords
  <2>3. /\ HasEnv(doc, home.env) /\ Matches(rows, Records(doc, home.env))
        /\ \A q \in UnderWay(s) : Saves(q, rows)
    BY <2>2
  <2>4. HasEnv(doc', home.env)
    BY <1>11, <2>1 DEF ChangesRecords
  <2>5. PICK h \in DOMAIN Records(doc, home.env) :
              /\ Records(doc, home.env)[h].id = op.id
              /\ Records(doc', home.env) =
                    [Records(doc, home.env) EXCEPT ![h] = WithId(op.host, op.id)]
    BY <1>11, <2>1 DEF ChangesRecords
  <2>6. Records(doc, home.env) \in Seq(Hostname)
    BY <1>1, RecordsType
  <2>7. Matches(rows, Records(doc', home.env))
    BY <1>1, <1>11, <2>3, <2>5, <2>6, UpdateMatches
  <2>. QED
    BY <1>9, <2>1, <2>3, <2>4, <2>7
<1>. QED
    BY <1>1, <1>6, <1>7, <1>8, <1>10, <1>11 DEF Op, IsRead

LEMMA HandleKeepsTable ==
    ASSUME Shape, Numbered, RecordInv, TableInv, NEW i \in DOMAIN net, Handle(i),
           UNCHANGED pageVars
    PROVE  TableInv'
<1>1. ServerShape /\ net \in Seq(Req) /\ UnderWay(net) \subseteq Req
    BY UnderWayType DEF Shape, PageShape
<1>2. /\ net[i].reply = Pending /\ net[i] \in Req /\ history' = history
      /\ net[i] \in UnderWay(net) /\ home' = home /\ rows' = rows
    BY <1>1, HandleShape DEF UnderWay, pageVars
<1>3. PICK x \in RepliesTo(net[i].op) :
            /\ net' = [net EXCEPT ![i].reply = x]
            /\ \/ IsRead(net[i].op) /\ x = Read(net[i].op) /\ UNCHANGED <<doc, clock>>
               \/ ~IsRead(net[i].op) /\ x = Bad /\ doc' = doc
               \/ ~IsRead(net[i].op) /\ ~Invalid(net[i].op) /\ x = Ok(<< >>)
                  /\ Server!Accept(net[i].op)
    BY <1>1, HandleShape
<1>4. PICK r \in Req :
              /\ r.op = net[i].op /\ r.then = net[i].then /\ r.reply = x
              /\ net' \in Seq(Req)
              /\ DOMAIN net' = DOMAIN net
              /\ net'[i] = r
              /\ \A k \in DOMAIN net : k # i => net'[k] = net[k]
              /\ UnderWay(net') \subseteq UnderWay(net) \cup {r}
              /\ UnderWay(net) \subseteq UnderWay(net') \cup {net[i]}
              /\ r \in UnderWay(net')
              /\ \A R : Once(net, R) /\ (r \in R => net[i] \in R) => Once(net', R)
    BY <1>1, <1>3, Replied
<1>. DEFINE op == net[i].op
<1>5. op \in Op
    BY <1>2, ReqParts
<1>6. SUFFICES ASSUME history \cap TableConfusing = {}, ~home.isLoading,
                      \A q \in UnderWay(net') : ~Renews(q)
               PROVE  TableUpToDate'
  <2>1. history \cap TableConfusing = {} => \A q \in UnderWay(net') : DeletesEnv(q)
    BY <1>2, <1>4 DEF TableInv, DeletesEnv
  <2>. QED
    BY <1>2, <2>1 DEF TableInv
<1>7. Pending.status = "pending"
    BY DEF Pending
<1>8. /\ \A q \in UnderWay(net) : DeletesEnv(q)
      /\ TableUpToDate
  <2>1. \A q \in UnderWay(net) : q # net[i] => ~Renews(q)
    BY <1>4, <1>6
  <2>2. ~Renews(net[i])
    BY <1>2, <1>4, <1>6, <1>7 DEF Renews
  <2>. QED
    BY <1>6, <2>1, <2>2 DEF TableInv
<1>9. Once(net, RecordReqs) /\ \A q \in UnderWay(net) : AboutPage(q, home.env)
    BY <1>6 DEF RecordInv, TableConfusing
<1>10. Reloads(net[i]) => op.kind = "find"
    BY <1>2, <1>7 DEF Reloads
<1>11. \A table : Saves(net[i], table) <=> Saves(r, table)
    BY <1>4 DEF Saves
<1>12. CASE doc' = doc
  <2>1. Current(r, doc)
    <3>1. CASE op.kind = "find"
      <4>1. x = Read(op)
        BY <1>3, <3>1 DEF IsRead
      <4>2. CASE HasEnv(doc, op.env)
        <5>1. x = Ok(doc.envs[GetEnv(doc, op.env)].hostnames)
          BY <3>1, <4>1, <4>2 DEF Read
        <5>2. x.data = Records(doc, op.env)
          BY <4>2, <5>1 DEF Ok, Records
        <5>. QED
          BY <1>4, <4>2, <5>2 DEF Current
      <4>3. CASE ~HasEnv(doc, op.env)
        <5>1. x.status = "bad"
          BY <3>1, <4>1, <4>3 DEF Read, Bad
        <5>. QED
          BY <1>4, <5>1 DEF Current
      <4>. QED
        BY <4>2, <4>3
    <3>2. CASE op.kind # "find"
      BY <1>4, <3>2 DEF Current
    <3>. QED
      BY <3>1, <3>2
  <2>2. \A q \in UnderWay(net') : Current(q, doc)
    BY <1>4, <1>8, <2>1 DEF TableUpToDate
  <2>3. Reloads(net[i]) => Reloads(r)
    BY <1>4, <1>10 DEF Reloads
  <2>4. (\E q \in UnderWay(net) : Reloads(q)) => \E q \in UnderWay(net') : Reloads(q)
    BY <1>4, <2>3
  <2>5. (\A q \in UnderWay(net) : Saves(q, rows)) => \A q \in UnderWay(net') : Saves(q, rows)
    BY <1>2, <1>4, <1>11
  <2>. QED
    BY <1>2, <1>8, <1>12, <2>2, <2>4, <2>5 DEF TableUpToDate
<1>13. CASE doc' # doc
  <2>1. ~IsRead(op) /\ ~Invalid(op) /\ x = Ok(<< >>) /\ Server!Accept(op)
    BY <1>3, <1>13
  <2>2. ChangesRecords(op, doc, doc', clock)
    <3>. HIDE DEF op
    <3>. QED
      BY <1>1, <1>5, <2>1, PageRecords
  <2>3. r.op = op /\ r.reply = Ok(<< >>)
    BY <1>4, <2>1
  <2>4. Once(net', RecordReqs)
    BY <1>2, <1>4, <1>9 DEF RecordReqs
  <2>5. AboutPage(r, home.env) /\ DeletesEnv(r)
    BY <1>2, <1>4, <1>8, <1>9 DEF AboutPage, DeletesEnv
  <2>6. \A q \in UnderWay(net') : q # r => Current(q, doc)
    BY <1>4, <1>8 DEF TableUpToDate
  <2>7. ASSUME NEW q \in UnderWay(net), Reloads(q)
        PROVE  q \in UnderWay(net') /\ q # r
    <3>1. q # net[i]
      BY <1>10, <2>1, <2>7 DEF IsRead
    <3>2. q.op.kind \in OfRecords
      BY <1>1, <2>7, ReloadsRecords
    <3>3. q.op # op
      BY <1>1, <1>2, <1>9, <3>1, <3>2, OneRecordRequest
    <3>. QED
      BY <1>4, <2>3, <3>1, <3>3
  <2>8. \/ \E q \in UnderWay(net') : q # r /\ Reloads(q)
        \/ /\ HasEnv(doc, home.env)
           /\ Matches(rows, Records(doc, home.env))
           /\ \A q \in UnderWay(net') : Saves(q, rows)
    <3>1. CASE \E q \in UnderWay(net) : Reloads(q)
      BY <2>7, <3>1
    <3>2. CASE \A q \in UnderWay(net) : Saves(q, rows)
      <4>1. \A q \in UnderWay(net') : Saves(q, rows)
        BY <1>2, <1>4, <1>11, <3>2
      <4>. QED
        BY <1>8, <2>7, <4>1 DEF TableUpToDate
    <3>. QED
      BY <1>8, <3>1, <3>2 DEF TableUpToDate
  <2>9. /\ \A q \in UnderWay(net') : Current(q, doc')
        /\ \/ \E q \in UnderWay(net') : Reloads(q)
           \/ /\ HasEnv(doc', home.env)
              /\ Matches(rows, Records(doc', home.env))
              /\ \A q \in UnderWay(net') : Saves(q, rows)
    <3>. HIDE DEF op
    <3>1. ~IsRead(r.op) /\ ~Invalid(r.op) /\ ChangesRecords(r.op, doc, doc', clock)
      BY <2>1, <2>2, <2>3
    <3>. QED
      BY <1>4, <1>6, <2>3, <2>4, <2>5, <2>6, <2>8, <3>1, AcceptKeepsTable
  <2>. QED
    BY <1>2, <2>9 DEF TableUpToDate
<1>. QED
    BY <1>12, <1>13

LEMMA NextKeepsTable ==
    ASSUME Shape, Numbered, RecordInv, TableInv, Next
    PROVE  TableInv'
<1>1. /\ PageShape /\ FormInv /\ net \in Seq(Req) /\ UnderWay(net) \subseteq Req /\ ServerShape
      /\ home \in [isLoading : BOOLEAN, createEnv : BOOLEAN, env : EnvNames]
    BY UnderWayType DEF Shape, PageShape
<1>2. PageShape' /\ home' \in [isLoading : BOOLEAN, createEnv : BOOLEAN, env : EnvNames]
    BY NextShape DEF Shape, PageShape
<1>3. ASSUME history' \cap TableConfusing = {}, history \subseteq history'
      PROVE  /\ \A q \in UnderWay(net) : DeletesEnv(q)
             /\ home.isLoading \/ (\E q \in UnderWay(net) : Renews(q)) \/ TableUpToDate
             /\ "table" \notin history' /\ "refused" \notin history'
             /\ Once(net, RecordReqs)
             /\ ~home.isLoading => \A q \in UnderWay(net) : AboutPage(q, home.env)
  <2>1. history \cap TableConfusing = {} /\ "table" \notin history
    BY <1>3 DEF TableConfusing
  <2>2. "table" \notin history' /\ "refused" \notin history'
    BY <1>3 DEF TableConfusing
  <2>. QED
    BY <2>1, <2>2 DEF TableInv, RecordInv
<1>4. ASSUME NEW i \in DOMAIN net, Handle(i), UNCHANGED <<pageVars, gestures>> PROVE TableInv'
    BY <1>4, HandleKeepsTable
<1>5. ASSUME history' \cap TableConfusing = {}, Refresh PROVE FALSE
    BY <1>1, <1>5, RefreshMembers DEF TableConfusing
<1>6. ASSUME history' \cap TableConfusing = {}, Foreign \/ \E i \in DOMAIN net : Lose(i)
      PROVE  FALSE
    BY <1>6 DEF Foreign, Lose, TableConfusing
<1>7. ASSUME User, ~Refresh, UNCHANGED serverVars PROVE TableInv'
  <2>1. doc' = doc /\ ~home.isLoading /\ KeepsRows
    BY <1>1, <1>7, GestureEffect, GestureKeepsRows DEF serverVars
  <2>2. /\ \A s : Matches(rows, s) => Matches(rows', s)
        /\ \A q : Saves(q, rows) => Saves(q, rows')
    BY <1>1, <1>2, <2>1, KeptMatches
  <2>3. ASSUME history \subseteq history', ~home'.isLoading, home'.env = home.env,
               \A q \in UnderWay(net) : \E p \in UnderWay(net') :
                  (Renews(q) => Renews(p)) /\ (Reloads(q) => Reloads(p)),
               \A p \in UnderWay(net') :
                  \/ \E q \in UnderWay(net) : /\ p.op = q.op /\ p.reply = q.reply
                                              /\ DeletesEnv(q) => DeletesEnv(p)
                  \/ /\ DeletesEnv(p) /\ p.reply = Pending
                     /\ Matches(rows, Records(doc, home.env)) => Saves(p, rows')
        PROVE  TableInv'
    <3>. SUFFICES ASSUME history' \cap TableConfusing = {},
                         \A p \in UnderWay(net') : ~Renews(p)
                  PROVE  (\A p \in UnderWay(net') : DeletesEnv(p)) /\ TableUpToDate'
      <4>. SUFFICES ASSUME history' \cap TableConfusing = {}
                    PROVE  \A p \in UnderWay(net') : DeletesEnv(p)
        BY DEF TableInv
      <4>. QED
        BY <1>3, <2>3
    <3>1. (\A q \in UnderWay(net) : DeletesEnv(q)) /\ TableUpToDate
      BY <1>3, <2>1, <2>3
    <3>2. \A p \in UnderWay(net') : DeletesEnv(p)
      BY <2>3, <3>1
    <3>3. \A p : p.reply = Pending => Current(p, doc)
      BY DEF Current, Pending
    <3>4. \A p \in UnderWay(net') : Current(p, doc)
      <4>1. \A p, q : p.op = q.op /\ p.reply = q.reply /\ Current(q, doc) => Current(p, doc)
        BY DEF Current
      <4>. QED
        BY <2>3, <3>1, <3>3, <4>1 DEF TableUpToDate
    <3>5. (\E q \in UnderWay(net) : Reloads(q)) => \E p \in UnderWay(net') : Reloads(p)
      BY <2>3
    <3>6. ASSUME Matches(rows, Records(doc, home.env)), \A q \in UnderWay(net) : Saves(q, rows)
          PROVE  \A p \in UnderWay(net') : Saves(p, rows')
      <4>1. \A p, q : p.op = q.op /\ Saves(q, rows) => Saves(p, rows')
        BY <2>2 DEF Saves
      <4>. QED
        BY <2>3, <3>6, <4>1
    <3>7. Matches(rows, Records(doc, home.env)) => Matches(rows', Records(doc, home.env))
      BY <2>2
    <3>8. TableUpToDate'
      BY <2>1, <2>3, <3>1, <3>4, <3>5, <3>6, <3>7 DEF TableUpToDate
    <3>. QED
      BY <3>2, <3>8
  <2>4. CASE UNCHANGED <<net, history, home, picker>>
    BY <2>1, <2>3, <2>4
  <2>5. ASSUME NEW r, Asks(r), DeletesEnv(r), UNCHANGED home,
               Matches(rows, Records(doc, home.env)) => Saves(r, rows')
        PROVE  TableInv'
    <3>1. UnderWay(net') = UnderWay(net) \cup {r} /\ history \subseteq history'
      BY <1>1, <2>5, AskMembers
    <3>2. r.reply = Pending
      BY <2>5 DEF Asks
    <3>. QED
      BY <2>1, <2>3, <2>5, <3>1, <3>2
  <2>6. CASE AsksForRecord
    <3>1. PICK r : /\ Asks(r) /\ AboutRow(r)
                   /\ r.op.kind \in {"addHostname", "updateHostname", "removeHostname"}
      BY <2>6 DEF AsksForRecord
    <3>2. Matches(rows, Records(doc, home.env)) => Saves(r, rows')
      BY <1>1, <2>1, <3>1, AskedSaves
    <3>3. DeletesEnv(r) /\ home' = home
      BY <2>6, <3>1 DEF DeletesEnv, AsksForRecord
    <3>. QED
      BY <2>5, <3>1, <3>2, <3>3
  <2>7. CASE AsksForEnv \/ AsksForDeletion \/ AsksForActivation
    <3>1. PICK r : /\ Asks(r) /\ r.op.kind \in {"addEnv", "removeEnv", "setActive"}
                   /\ DeletesEnv(r)
      BY <2>7 DEF AsksForEnv, AsksForDeletion, AsksForActivation, DeletesEnv
    <3>2. Saves(r, rows') /\ home' = home
      BY <2>7, <3>1 DEF Saves, AsksForEnv, AsksForDeletion, AsksForActivation
    <3>. QED
      BY <2>5, <3>1, <3>2
  <2>8. CASE OpenEnvForm
    <3>1. /\ home'.isLoading = home.isLoading /\ home'.env = home.env
          /\ history' = history /\ DOMAIN net' = DOMAIN net
          /\ \A k \in DOMAIN net :
                /\ net'[k].op = net[k].op /\ net'[k].reply = net[k].reply
                /\ \/ net'[k].then = net[k].then
                   \/ net[k].then = "envList" /\ net'[k].then = "nothing"
      BY <1>1, <2>8, OpenMembers
    <3>2. \A k \in DOMAIN net : net[k].then = "envList" => net[k].op.kind = "envs"
      BY <1>1, KindOfCallback DEF UnderWay
    <3>3. \A k \in DOMAIN net : /\ Renews(net[k]) => Renews(net'[k])
                                /\ Reloads(net[k]) => Reloads(net'[k])
                                /\ DeletesEnv(net[k]) => DeletesEnv(net'[k])
      BY <3>1, <3>2 DEF Renews, Reloads, DeletesEnv
    <3>4. \A q \in UnderWay(net) : \E p \in UnderWay(net') :
             (Renews(q) => Renews(p)) /\ (Reloads(q) => Reloads(p))
      BY <3>1, <3>3 DEF UnderWay
    <3>5. \A p \in UnderWay(net') :
             \E q \in UnderWay(net) : /\ p.op = q.op /\ p.reply = q.reply
                                      /\ DeletesEnv(q) => DeletesEnv(p)
      BY <3>1, <3>3 DEF UnderWay
    <3>. QED
      BY <2>1, <2>3, <3>1, <3>4, <3>5
  <2>9. CASE CancelEnvForm
    <3>1. /\ home'.isLoading = home.isLoading /\ home'.env = home.env
          /\ UnderWay(net') = UnderWay(net) \cup {ListEnvs} /\ history \subseteq history'
      BY <1>1, <2>9, CancelMembers
    <3>2. ListEnvs.op.kind = "envs" /\ ListEnvs.reply = Pending
      BY SentParts DEF ListEnvs, Request
    <3>3. DeletesEnv(ListEnvs) /\ Saves(ListEnvs, rows')
      BY <3>2 DEF DeletesEnv, Saves
    <3>. QED
      BY <2>1, <2>3, <3>1, <3>2, <3>3
  <2>. QED
    BY <1>1, <1>7, <2>4, <2>6, <2>7, <2>8, <2>9, GestureEffect
<1>8. ASSUME NEW i \in DOMAIN net, Deliver(i) PROVE TableInv'
  <2>1. /\ ShowsOn(i) /\ ShowsRows(i) /\ doc' = doc
        /\ \E reqs, events : TableSends(i, reqs, events)
    BY <1>1, <1>8, CallbackEffect, CallbackTable
  <2>2. PICK reqs, events : TableSends(i, reqs, events)
    BY <2>1
  <2>. DEFINE then == net[i].then
  <2>3. /\ net[i] \in Req
        /\ UnderWay(net) = UnderWay(Rest(i)) \cup {net[i]}
        /\ UnderWay(net') = UnderWay(Rest(i)) \cup UnderWay(reqs)
        /\ history \subseteq history' /\ events \subseteq history'
        /\ "table" \notin history' /\ Find(home'.env) \in UnderWay(reqs) =>
              \A q \in UnderWay(Rest(i)) : q.op.kind \notin OfRecords
        /\ Once(net, RecordReqs) /\ net[i].op.kind \in OfRecords =>
              \A q \in UnderWay(Rest(i)) : q.op.kind \notin OfRecords
    BY <1>1, <1>2, <2>2, CallbackRecords
  <2>4. \A r \in UnderWay(reqs) : r = Find(home'.env) \/ r.op.kind \in {"envs", "setActive"}
    BY <2>2 DEF TableSends
  <2>5. \A r \in UnderWay(reqs) : /\ DeletesEnv(r) /\ Current(r, doc)
                                  /\ \A table : Saves(r, table)
    BY <2>4, SentParts DEF DeletesEnv, Current, Saves, Pending
  <2>6. SUFFICES ASSUME history' \cap TableConfusing = {}
                 PROVE  \/ home'.isLoading
                        \/ \E q \in UnderWay(net') : Renews(q)
                        \/ TableUpToDate'
    <3>1. history' \cap TableConfusing = {} => \A q \in UnderWay(net') : DeletesEnv(q)
      BY <1>3, <2>3, <2>5
    <3>. QED
      BY <2>6, <3>1 DEF TableInv
  <2>7. /\ home.isLoading \/ (\E q \in UnderWay(net) : Renews(q)) \/ TableUpToDate
        /\ "table" \notin history' /\ "refused" \notin history'
        /\ Once(net, RecordReqs)
        /\ ~home.isLoading => \A q \in UnderWay(net) : AboutPage(q, home.env)
    BY <1>3, <2>3, <2>6
  <2>8. CASE then \in {"loaded", "activated", "added", "removed"} /\ Succeeded(i)
    <3>1. Find(home'.env) \in UnderWay(reqs)
      BY <2>2, <2>8 DEF TableSends
    <3>2. \A q \in UnderWay(Rest(i)) : Current(q, doc)
      BY <2>3, <2>7, <3>1, AloneIsCurrent
    <3>3. Reloads(Find(home'.env))
      BY SentParts DEF Reloads
    <3>. QED
      BY <2>1, <2>3, <2>5, <3>1, <3>2, <3>3 DEF TableUpToDate
  <2>9. CASE then = "deleted" /\ Succeeded(i)
    <3>1. Activate(DefaultEnv) \in UnderWay(reqs) /\ Renews(Activate(DefaultEnv))
      BY <2>2, <2>9, SentParts DEF TableSends, Renews
    <3>. QED
      BY <2>3, <3>1
  <2>10. CASE then \in {"rows", "activated"} /\ ~Succeeded(i)
    BY <2>2, <2>3, <2>7, <2>10 DEF TableSends
  <2>11. CASE then = "rows" /\ Succeeded(i) /\ ~home.isLoading
    <3>1. home' = home
      BY <2>1, <2>11 DEF ShowsOn
    <3>2. UnderWay(reqs) = {}
      BY <2>2, <2>11 DEF TableSends
    <3>3. net[i].op.kind = "find" /\ ~Renews(net[i])
      BY <2>3, <2>11, KindOfCallback DEF Renews
    <3>4. \A q \in UnderWay(net') : q.op.kind \notin OfRecords
      BY <2>3, <2>7, <3>2, <3>3 DEF OfRecords
    <3>5. CASE \E q \in UnderWay(net) : Renews(q)
      BY <2>3, <3>3, <3>5
    <3>6. CASE TableUpToDate
      <4>1. net[i].op.env = home.env
        BY <2>3, <2>7, <2>11, <3>3 DEF AboutPage, OfRecords
      <4>2. HasEnv(doc, home.env) /\ net[i].reply.data = Records(doc, home.env)
        BY <2>3, <2>11, <3>3, <3>6, <4>1 DEF TableUpToDate, Current, Succeeded
      <4>3. rows' = Loaded(home.env, Records(doc, home.env))
        BY <2>1, <2>11, <4>1, <4>2 DEF ShowsRows
      <4>4. Records(doc, home.env) \in Seq(Hostname)
        BY <1>1, RecordsType DEF ServerShape
      <4>5. Matches(rows', Records(doc, home.env))
        BY <4>3, <4>4, LoadedMatches
      <4>6. \A q \in UnderWay(net') : Current(q, doc) /\ Saves(q, rows')
        BY <3>4, AloneIsCurrent
      <4>. QED
        BY <2>1, <3>1, <4>2, <4>5, <4>6 DEF TableUpToDate
    <3>. QED
      BY <2>7, <2>11, <3>5, <3>6
  <2>12. CASE /\ ~(then \in {"loaded", "activated", "added", "removed", "deleted"} /\ Succeeded(i))
              /\ then \notin {"rows", "activated"} \/ home.isLoading
              /\ ~(then \in {"rows", "activated"} /\ ~Succeeded(i))
    <3>1. home' = home
      BY <2>1, <2>12 DEF ShowsOn
    <3>2. CASE home.isLoading
      BY <3>1, <3>2
    <3>3. CASE ~home.isLoading
      <4>1. rows' = rows
        BY <2>1, <2>12, <3>3 DEF ShowsRows
      <4>2. ~Renews(net[i])
        BY <2>12, <3>3 DEF Renews, Succeeded
      <4>3. ~Reloads(net[i])
        <5>1. net[i].op.kind = "find" => then \in {"rows", "nothing"}
          BY <2>3, ReqParts DEF CallbacksOf
        <5>2. AboutPage(net[i], home.env)
          BY <2>3, <2>7, <3>3
        <5>3. net[i].op.kind # "find"
          BY <2>12, <3>3, <5>1, <5>2 DEF AboutPage, OfRecords
        <5>. QED
          BY <2>12, <5>3 DEF Reloads, Succeeded
      <4>4. CASE \E q \in UnderWay(net) : Renews(q)
        BY <2>3, <4>2, <4>4
      <4>5. CASE TableUpToDate
        <5>1. \A q \in UnderWay(net') : Current(q, doc)
          BY <2>3, <2>5, <4>5 DEF TableUpToDate
        <5>2. (\E q \in UnderWay(net) : Reloads(q)) => \E q \in UnderWay(net') : Reloads(q)
          BY <2>3, <4>3
        <5>3. (\A q \in UnderWay(net) : Saves(q, rows)) =>
                 \A q \in UnderWay(net') : Saves(q, rows)
          BY <2>3, <2>5
        <5>. QED
          BY <2>1, <3>1, <4>1, <4>5, <5>1, <5>2, <5>3 DEF TableUpToDate
      <4>. QED
        BY <2>7, <3>3, <4>4, <4>5
    <3>. QED
      BY <3>2, <3>3
  <2>. QED
    BY <2>8, <2>9, <2>10, <2>11, <2>12
<1>9. ASSUME Foreign \/ Refresh \/ \E i \in DOMAIN net : Lose(i) PROVE TableInv'
    BY <1>5, <1>6, <1>9 DEF TableInv
<1>. QED
    BY <1>4, <1>7, <1>8, <1>9 DEF Next, Network

\* The table of a page at rest has the records of the page's environment, in
\* their order, and every row that was not edited shows what the server stores,
\* whatever was selected, created, deleted, added, saved or removed before and
\* in whatever order requests about different things were answered.
THEOREM TableFollowsServer == Spec => []TableShowsEnv
<1>. DEFINE Inv == Numbered /\ RecordInv /\ TableInv
<1>1. Init => Inv
  <2>. SUFFICES ASSUME Init PROVE Inv
    OBVIOUS
  <2>1. /\ home.isLoading /\ UnderWay(net) = {GetActive}
        /\ \A R : Once(net, R)
    BY InitMembers, OneOrTwo, NewHomeParts, Zenon DEF Init
  <2>2. DeletesEnv(GetActive)
    BY SentParts DEF DeletesEnv
  <2>. QED
    BY <2>1, <2>2, InitNumbered DEF RecordInv, TableInv
<1>2. Shape /\ Inv /\ [Next]_vars => Inv'
  <2>1. ASSUME UNCHANGED vars, Inv PROVE RecordInv' /\ TableInv'
    BY <2>1 DEF vars, RecordInv, TableInv, TableUpToDate
  <2>. QED
    BY <2>1, NextNumbered, NextKeepsRecords, NextKeepsTable
<1>3. Shape /\ Inv => TableShowsEnv
  <2>. SUFFICES ASSUME TableInv, net = << >>, ~home.isLoading, history \cap TableConfusing = {}
                PROVE  LET stored == doc.envs[GetEnv(doc, home.env)].hostnames
                       IN  /\ HasEnv(doc, home.env)
                           /\ Len(rows) = Len(stored)
                           /\ \A k \in DOMAIN rows :
                                 /\ rows[k].id = stored[k].id
                                 /\ rows[k].clean => /\ rows[k].hostname = stored[k].hostname
                                                     /\ rows[k].value = stored[k].entry
    BY DEF TableShowsEnv, Settled, TableConfusing
  <2>1. UnderWay(net) = {}
    BY OneOrTwo
  <2>2. HasEnv(doc, home.env) /\ Matches(rows, Records(doc, home.env))
    BY <2>1 DEF TableInv, TableUpToDate
  <2>. QED
    BY <2>2 DEF Records, Matches
<1>. QED
    BY <1>1, <1>2, <1>3, ShapeHolds, PTL DEF Spec
-----------------------------------------------------------------------------
(***************************************************************************)
(* Deleting a record.  As long as requests about records neither overlap   *)
(* nor get lost and no other client interferes, a pending deletion from a  *)
(* table in which the user sees the record names no other one; a table     *)
(* without edits, of the page's environment, knows the names of all its    *)
(* records, unless records are about to arrive; and an answer that brings  *)
(* records brings all of them.                                             *)
(***************************************************************************)
AllClean(table, env) == \A k \in DOMAIN table : table[k].clean /\ table[k].origin = env
Known(table, id, name) == \E k \in DOMAIN table : table[k].id = id /\ table[k].hostname = name

Exact(r, c) ==
    r.op.kind = "removeHostname" /\ r.op.certain /\ r.reply = Pending =>
        \A h \in UnderWay(Records(c, r.op.env)) : h.hostname = r.op.name => h.id = r.op.id

Complete(r, c) ==
    r.op.kind = "find" =>
        /\ r.reply.status # "lost"
        /\ r.then = "rows" /\ r.reply.status = "ok" =>
              UnderWay(Records(c, r.op.env)) \subseteq UnderWay(r.reply.data)

Arriving(r) ==
    \/ r.then = "added" /\ r.reply.status = "ok"
    \/ r.op.kind = "find" /\ r.reply.status # "bad"

KnowsRecords(table, stored) == \A h \in UnderWay(stored) : Known(table, h.id, h.hostname)
KnowsUpdate(table, r) ==
    r.op.kind = "updateHostname" => Known(table, r.op.id, r.op.host.hostname)

TableKnows ==
    ~home.isLoading /\ AllClean(rows, home.env) =>
        \/ \E r \in UnderWay(net) : Arriving(r)
        \/ /\ KnowsRecords(rows, Records(doc, home.env))
           /\ \A r \in UnderWay(net) : KnowsUpdate(rows, r)

DeleteInv ==
    history \cap {"table", "lost", "foreign"} = {} =>
        /\ \A r \in UnderWay(net) : Exact(r, doc) /\ Complete(r, doc)
        /\ TableKnows

\* Of the requests about records one arrives or none does.
LEMMA ArrivingRecords ==
    ASSUME NEW q \in Req, Arriving(q)
    PROVE  q.op.kind \in OfRecords
    BY KindOfCallback DEF Arriving, OfRecords

LEMMA OthersAreExact ==
    ASSUME NEW q, q.op.kind \notin OfRecords, NEW c, NEW table
    PROVE  Exact(q, c) /\ Complete(q, c) /\ KnowsUpdate(table, q)
    BY DEF OfRecords, Exact, Complete, KnowsUpdate

\* The same request or less to know of.
LEMMA FewerRecords ==
    ASSUME NEW c, NEW d,
           \A n : UnderWay(Records(d, n)) \subseteq UnderWay(Records(c, n))
    PROVE  /\ \A r : Exact(r, c) => Exact(r, d)
           /\ \A r : Complete(r, c) => Complete(r, d)
           /\ \A table, n : KnowsRecords(table, Records(c, n)) =>
                               KnowsRecords(table, Records(d, n))
    BY DEF Exact, Complete, KnowsRecords

\* What the server makes of the records, whichever request it handles.
LEMMA RecordsAfter ==
    ASSUME doc \in Configuration, NEW op \in Op, ~IsRead(op),
           ChangesRecords(op, doc, doc', clock)
    PROVE  /\ op.kind \notin {"addHostname", "updateHostname"} =>
                 \A n : UnderWay(Records(doc', n)) \subseteq UnderWay(Records(doc, n))
           /\ op.kind = "updateHostname" =>
                 UnderWay(Records(doc', op.env)) \subseteq
                    UnderWay(Records(doc, op.env)) \cup {WithId(op.host, op.id)}
           /\ op.kind = "removeHostname" =>
                 \E h \in UnderWay(Records(doc, op.env)) :
                    /\ h.hostname = op.name
                    /\ UnderWay(Records(doc, op.env)) = UnderWay(Records(doc', op.env)) \cup {h}
<1>1. \A n : n # op.env => Records(doc', n) = Records(doc, n)
    BY DEF ChangesRecords
<1>2. UnderWay(<< >>) = {}
    BY OneOrTwo
<1>. DEFINE s == Records(doc, op.env)
<1>3. s \in Seq(Hostname)
    BY RecordsType
<1>4. CASE op.kind = "setActive"
    BY <1>4 DEF ChangesRecords
<1>5. CASE op.kind = "removeEnv"
  <2>1. Records(doc', op.env) = << >>
    BY <1>5 DEF ChangesRecords
  <2>. QED
    BY <1>1, <1>2, <1>5, <2>1
<1>6. CASE op.kind = "addEnv"
  <2>1. op.hosts = << >>
    BY <1>6 DEF Op
  <2>2. DOMAIN Records(doc', op.env) = 1..Len(op.hosts) /\ Len(op.hosts) = 0
    BY <1>6, <2>1 DEF ChangesRecords
  <2>3. UnderWay(Records(doc', op.env)) = {}
    BY <2>2 DEF UnderWay
  <2>. QED
    BY <1>1, <1>6, <2>3
<1>7. CASE op.kind = "updateHostname"
  <2>1. PICK h \in DOMAIN s : Records(doc', op.env) = [s EXCEPT ![h] = WithId(op.host, op.id)]
    BY <1>7 DEF ChangesRecords
  <2>. DEFINE d == Records(doc', op.env)
              w == WithId(op.host, op.id)
  <2>. HIDE DEF s, d, w
  <2>2. DOMAIN d = DOMAIN s /\ d[h] = w /\ \A k \in DOMAIN s : k # h => d[k] = s[k]
    BY <2>1 DEF d, w
  <2>3. UnderWay(d) \subseteq UnderWay(s) \cup {w}
    BY <2>2 DEF UnderWay
  <2>. QED
    BY <1>7, <2>3 DEF s, d, w
<1>8. CASE op.kind = "removeHostname"
  <2>1. PICK h \in DOMAIN s : s[h].hostname = op.name /\ Records(doc', op.env) = RemoveIndex(s, h)
    BY <1>8 DEF ChangesRecords
  <2>. HIDE DEF s
  <2>2. UnderWay(s) = UnderWay(RemoveIndex(s, h)) \cup {s[h]}
    BY <1>3, <2>1, RemoveMembers
  <2>3. s[h] \in UnderWay(s)
    BY <2>1 DEF UnderWay
  <2>4. UnderWay(s) = UnderWay(Records(doc', op.env)) \cup {s[h]}
    BY <2>1, <2>2
  <2>. QED
    BY <1>1, <1>8, <2>1, <2>3, <2>4 DEF s
<1>9. CASE op.kind = "addHostname"
    BY <1>9
<1>. QED
    BY <1>4, <1>5, <1>6, <1>7, <1>8, <1>9 DEF Op, IsRead

\* A table that was just loaded knows its records.
LEMMA LoadedKnows ==
    ASSUME NEW s, NEW env, NEW R, UnderWay(R) \subseteq UnderWay(s)
    PROVE  KnowsRecords(Loaded(env, s), R)
<1>. DEFINE t == Loaded(env, s)
<1>1. /\ DOMAIN t = DOMAIN s
      /\ \A k \in DOMAIN s : t[k].id = s[k].id /\ t[k].hostname = s[k].hostname
    BY DEF Loaded
<1>. HIDE DEF t
<1>2. \A h \in UnderWay(s) : Known(t, h.id, h.hostname)
    BY <1>1 DEF UnderWay, Known
<1>. QED
    BY <1>2 DEF KnowsRecords, t

\* Gestures of the user keep what a clean table knows.
LEMMA KeptKnows ==
    ASSUME KeepsRows, NEW env, AllClean(rows', env)
    PROVE  /\ AllClean(rows, env)
           /\ \A id, name : Known(rows, id, name) => Known(rows', id, name)
    BY DEF KeepsRows, KeepsRow, AllClean, Known

LEMMA HandleKeepsDelete ==
    ASSUME Shape, Numbered, RecordInv, DeleteInv, NEW i \in DOMAIN net, Handle(i),
           UNCHANGED pageVars
    PROVE  DeleteInv'
<1>1. ServerShape /\ net \in Seq(Req) /\ UnderWay(net) \subseteq Req /\ doc \in Configuration
    BY UnderWayType DEF Shape, PageShape, ServerShape
<1>2. /\ net[i].reply = Pending /\ net[i] \in Req /\ history' = history
      /\ net[i] \in UnderWay(net) /\ home' = home /\ rows' = rows
    BY <1>1, HandleShape DEF UnderWay, pageVars
<1>3. PICK x \in RepliesTo(net[i].op) :
            /\ net' = [net EXCEPT ![i].reply = x]
            /\ \/ IsRead(net[i].op) /\ x = Read(net[i].op) /\ UNCHANGED <<doc, clock>>
               \/ ~IsRead(net[i].op) /\ x = Bad /\ doc' = doc
               \/ ~IsRead(net[i].op) /\ ~Invalid(net[i].op) /\ x = Ok(<< >>)
                  /\ Server!Accept(net[i].op)
    BY <1>1, HandleShape
<1>4. PICK r \in Req :
              /\ r.op = net[i].op /\ r.then = net[i].then /\ r.reply = x
              /\ net' \in Seq(Req)
              /\ DOMAIN net' = DOMAIN net
              /\ net'[i] = r
              /\ \A k \in DOMAIN net : k # i => net'[k] = net[k]
              /\ UnderWay(net') \subseteq UnderWay(net) \cup {r}
              /\ UnderWay(net) \subseteq UnderWay(net') \cup {net[i]}
              /\ r \in UnderWay(net')
              /\ \A R : Once(net, R) /\ (r \in R => net[i] \in R) => Once(net', R)
    BY <1>1, <1>3, Replied
<1>. DEFINE op == net[i].op
<1>5. op \in Op /\ r.then \in CallbacksOf(op)
    BY <1>2, <1>4, ReqParts
<1>6. SUFFICES ASSUME history \cap {"table", "lost", "foreign"} = {}
               PROVE  /\ \A q \in UnderWay(net') : Exact(q, doc') /\ Complete(q, doc')
                      /\ TableKnows'
    BY <1>2 DEF DeleteInv
<1>7. /\ \A q \in UnderWay(net) : Exact(q, doc) /\ Complete(q, doc)
      /\ TableKnows
    BY <1>6 DEF DeleteInv
<1>8. /\ Once(net, RecordReqs)
      /\ ~home.isLoading => \A q \in UnderWay(net) : AboutPage(q, home.env)
    BY <1>6 DEF RecordInv
<1>9. Once(net', RecordReqs)
    BY <1>2, <1>4, <1>8 DEF RecordReqs
<1>10. op.kind \in OfRecords =>
          \A q \in UnderWay(net') : q # r => q.op.kind \notin OfRecords
    BY <1>4, <1>9, OneRecordRequest
<1>11. op.kind \in OfRecords =>
          \A q \in UnderWay(net) : q # net[i] => q.op.kind \notin OfRecords
    BY <1>1, <1>2, <1>8, OneRecordRequest
<1>12. /\ \A table : KnowsUpdate(table, net[i]) <=> KnowsUpdate(table, r)
       /\ Arriving(net[i]) <=> op.kind = "find"
    BY <1>2, <1>4 DEF KnowsUpdate, Arriving, Pending
<1>13. \A table : (\A q \in UnderWay(net) : KnowsUpdate(table, q)) =>
                     \A q \in UnderWay(net') : KnowsUpdate(table, q)
    BY <1>2, <1>4, <1>12
<1>14. op.kind # "find" /\ (\E q \in UnderWay(net) : Arriving(q)) =>
           \E q \in UnderWay(net') : Arriving(q)
    BY <1>4, <1>12
<1>15. ASSUME \A n : UnderWay(Records(doc', n)) \subseteq UnderWay(Records(doc, n)),
              op.kind # "find"
       PROVE  /\ \A q \in UnderWay(net') : Exact(q, doc') /\ Complete(q, doc')
              /\ TableKnows'
  <2>1. /\ \A q : Exact(q, doc) => Exact(q, doc')
        /\ \A q : Complete(q, doc) => Complete(q, doc')
        /\ \A table, n : KnowsRecords(table, Records(doc, n)) =>
                            KnowsRecords(table, Records(doc', n))
    BY <1>15, FewerRecords
  <2>2. Exact(r, doc) /\ Complete(r, doc)
    BY <1>2, <1>4, <1>7, <1>15 DEF Exact, Complete
  <2>3. \A q \in UnderWay(net') : Exact(q, doc') /\ Complete(q, doc')
    BY <1>4, <1>7, <2>1, <2>2
  <2>4. TableKnows'
    BY <1>2, <1>7, <1>13, <1>14, <1>15, <2>1 DEF TableKnows
  <2>. QED
    BY <2>3, <2>4
<1>16. CASE op.kind = "find"
  <2>1. doc' = doc /\ x = Read(op)
    BY <1>3, <1>16 DEF IsRead
  <2>2. \/ HasEnv(doc, op.env) /\ x = Ok(Records(doc, op.env))
        \/ ~HasEnv(doc, op.env) /\ x = Bad
    BY <1>16, <2>1 DEF Read, Records
  <2>3. \/ HasEnv(doc, op.env) /\ x.status = "ok" /\ x.data = Records(doc, op.env)
        \/ ~HasEnv(doc, op.env) /\ x.status = "bad"
    BY <2>2 DEF Ok, Bad
  <2>4. Complete(r, doc) /\ Exact(r, doc)
    BY <1>4, <1>16, <2>3 DEF Complete, Exact
  <2>5. \A q \in UnderWay(net') : Exact(q, doc') /\ Complete(q, doc')
    BY <1>4, <1>7, <2>1, <2>4
  <2>6. CASE x.status = "ok"
    <3>1. Arriving(r)
      BY <1>4, <1>16, <2>6 DEF Arriving
    <3>2. TableKnows'
      BY <1>4, <3>1 DEF TableKnows
    <3>. QED
      BY <2>5, <3>2
  <2>7. CASE x.status # "ok"
    <3>1. Records(doc, op.env) = << >>
      BY <2>3, <2>7 DEF Records
    <3>2. \A table : KnowsRecords(table, Records(doc, op.env))
      BY <3>1, OneOrTwo DEF KnowsRecords
    <3>3. ~home.isLoading => op.env = home.env
      BY <1>2, <1>8, <1>16 DEF AboutPage, OfRecords
    <3>4. \A q \in UnderWay(net') : KnowsUpdate(rows, q)
      BY <1>4, <1>10, <1>16 DEF KnowsUpdate, OfRecords
    <3>5. TableKnows'
      BY <1>2, <2>1, <3>2, <3>3, <3>4 DEF TableKnows
    <3>. QED
      BY <2>5, <3>5
  <2>. QED
    BY <2>6, <2>7
<1>17. CASE doc' = doc /\ op.kind # "find"
    BY <1>15, <1>17
<1>18. CASE doc' # doc /\ op.kind # "find"
  <2>1. ~IsRead(op) /\ ~Invalid(op) /\ x = Ok(<< >>) /\ Server!Accept(op)
    BY <1>3, <1>18
  <2>2. ChangesRecords(op, doc, doc', clock)
    <3>. HIDE DEF op
    <3>. QED
      BY <1>1, <1>5, <2>1, PageRecords
  <2>3. /\ op.kind \notin {"addHostname", "updateHostname"} =>
              \A n : UnderWay(Records(doc', n)) \subseteq UnderWay(Records(doc, n))
        /\ op.kind = "updateHostname" =>
              UnderWay(Records(doc', op.env)) \subseteq
                 UnderWay(Records(doc, op.env)) \cup {WithId(op.host, op.id)}
    <3>. HIDE DEF op
    <3>. QED
      BY <1>1, <1>5, <2>1, <2>2, RecordsAfter
  <2>4. CASE op.kind \notin {"addHostname", "updateHostname"}
    BY <1>15, <1>18, <2>3, <2>4
  <2>5. CASE op.kind \in {"addHostname", "updateHostname"}
    <3>1. op.kind \in OfRecords
      BY <2>5 DEF OfRecords
    <3>2. Exact(r, doc') /\ Complete(r, doc')
      BY <1>4, <2>5 DEF Exact, Complete
    <3>3. \A q \in UnderWay(net') : Exact(q, doc') /\ Complete(q, doc')
      BY <1>10, <3>1, <3>2, OthersAreExact
    <3>4. SUFFICES ASSUME ~home.isLoading, AllClean(rows, home.env)
                   PROVE  \/ \E q \in UnderWay(net') : Arriving(q)
                          \/ /\ KnowsRecords(rows, Records(doc', home.env))
                             /\ \A q \in UnderWay(net') : KnowsUpdate(rows, q)
      BY <1>2, <3>3 DEF TableKnows
    <3>5. op.env = home.env /\ (r.then = "nothing" => op.kind = "updateHostname")
      BY <1>2, <1>4, <1>8, <3>1, <3>4 DEF AboutPage
    <3>6. CASE op.kind = "addHostname"
      <4>1. r.then = "added"
        BY <1>5, <3>5, <3>6 DEF CallbacksOf
      <4>2. r.reply.status = "ok"
        BY <1>4, <2>1 DEF Ok
      <4>. QED
        BY <1>4, <4>1, <4>2 DEF Arriving
    <3>7. CASE op.kind = "updateHostname"
      <4>1. \A q \in UnderWay(net) : ~Arriving(q)
        <5>1. ~Arriving(net[i])
          BY <1>12, <3>7
        <5>2. \A q \in UnderWay(net) : q # net[i] => ~Arriving(q)
          BY <1>1, <1>11, <3>1, ArrivingRecords
        <5>. QED
          BY <5>1, <5>2
      <4>2. /\ KnowsRecords(rows, Records(doc, home.env))
            /\ \A q \in UnderWay(net) : KnowsUpdate(rows, q)
        BY <1>7, <3>4, <4>1 DEF TableKnows
      <4>3. Known(rows, op.id, op.host.hostname)
        BY <1>2, <3>7, <4>2 DEF KnowsUpdate
      <4>. DEFINE w == WithId(op.host, op.id)
      <4>4. w.id = op.id /\ w.hostname = op.host.hostname
        BY DEF WithId
      <4>5. UnderWay(Records(doc', home.env)) \subseteq UnderWay(Records(doc, home.env)) \cup {w}
        BY <2>3, <3>5, <3>7
      <4>. HIDE DEF w
      <4>6. KnowsRecords(rows, Records(doc', home.env))
        BY <4>2, <4>3, <4>4, <4>5 DEF KnowsRecords
      <4>. QED
        BY <1>13, <4>2, <4>6
    <3>. QED
      BY <2>5, <3>6, <3>7
  <2>. QED
    BY <2>4, <2>5
<1>. QED
    BY <1>16, <1>17, <1>18

LEMMA NextKeepsDelete ==
    ASSUME Shape, Numbered, RecordInv, DeleteInv, Next
    PROVE  DeleteInv'
<1>. DEFINE Confusing == {"table", "lost", "foreign"}
<1>1. /\ PageShape /\ FormInv /\ net \in Seq(Req) /\ UnderWay(net) \subseteq Req
      /\ home \in [isLoading : BOOLEAN, createEnv : BOOLEAN, env : EnvNames]
    BY UnderWayType DEF Shape, PageShape
<1>2. home' \in [isLoading : BOOLEAN, createEnv : BOOLEAN, env : EnvNames]
    BY NextShape DEF Shape, PageShape
<1>3. ASSUME history' \cap Confusing = {}, history \subseteq history'
      PROVE  /\ \A q \in UnderWay(net) : Exact(q, doc) /\ Complete(q, doc)
             /\ TableKnows
             /\ "table" \notin history'
             /\ Once(net, RecordReqs)
             /\ ~home.isLoading => \A q \in UnderWay(net) : AboutPage(q, home.env)
  <2>1. history \cap Confusing = {} /\ "table" \notin history
    BY <1>3
  <2>2. "table" \notin history'
    BY <1>3
  <2>. QED
    BY <2>1, <2>2 DEF DeleteInv, RecordInv
<1>4. ASSUME NEW i \in DOMAIN net, Handle(i), UNCHANGED <<pageVars, gestures>> PROVE DeleteInv'
    BY <1>4, HandleKeepsDelete
<1>5. ASSUME Foreign \/ \E i \in DOMAIN net : Lose(i) PROVE DeleteInv'
    BY <1>5 DEF Foreign, Lose, DeleteInv
<1>6. ASSUME Refresh, UNCHANGED serverVars PROVE DeleteInv'
  <2>1. /\ \A q \in UnderWay(net') : q.then = "nothing" \/ q = GetActive
        /\ \A q \in UnderWay(net') :
              q = GetActive \/ \E r \in UnderWay(net) : q.op = r.op /\ q.reply = r.reply
        /\ home' = NewHome /\ history \subseteq history'
    BY <1>1, <1>6, RefreshMembers
  <2>2. doc' = doc
    BY <1>6 DEF serverVars
  <2>3. Exact(GetActive, doc) /\ Complete(GetActive, doc)
    BY SentParts DEF Exact, Complete
  <2>4. \A q, r : q.op = r.op /\ q.reply = r.reply /\ q.then = "nothing" =>
                     /\ Exact(r, doc) => Exact(q, doc)
                     /\ Complete(r, doc) => Complete(q, doc)
    BY DEF Exact, Complete
  <2>5. TableKnows'
    BY <2>1, NewHomeParts DEF TableKnows
  <2>. QED
    BY <1>3, <2>1, <2>2, <2>3, <2>4, <2>5 DEF DeleteInv
<1>7. ASSUME User, ~Refresh, UNCHANGED serverVars PROVE DeleteInv'
  <2>1. doc' = doc /\ ~home.isLoading /\ KeepsRows
    BY <1>1, <1>7, GestureEffect, GestureKeepsRows DEF serverVars
  <2>2. ASSUME history \subseteq history', home'.env = home.env,
               \A q \in UnderWay(net) : Arriving(q) => \E p \in UnderWay(net') : Arriving(p),
               \A p \in UnderWay(net') :
                  \/ \E q \in UnderWay(net) :
                        /\ p.op = q.op /\ p.reply = q.reply
                        /\ p.then = q.then \/ p.op.kind = "envs"
                  \/ /\ history' \cap Confusing = {} => Exact(p, doc) /\ Complete(p, doc)
                     /\ AllClean(rows', home.env) => KnowsUpdate(rows', p)
        PROVE  DeleteInv'
    <3>. SUFFICES ASSUME history' \cap Confusing = {}
                  PROVE  /\ \A p \in UnderWay(net') : Exact(p, doc) /\ Complete(p, doc)
                         /\ TableKnows'
      BY <2>1 DEF DeleteInv
    <3>1. (\A q \in UnderWay(net) : Exact(q, doc) /\ Complete(q, doc)) /\ TableKnows
      BY <1>3, <2>2
    <3>2. \A p, q : p.op = q.op /\ p.reply = q.reply /\ (p.then = q.then \/ p.op.kind = "envs") =>
                       /\ Exact(q, doc) => Exact(p, doc)
                       /\ Complete(q, doc) => Complete(p, doc)
      BY DEF Exact, Complete
    <3>3. \A p \in UnderWay(net') : Exact(p, doc) /\ Complete(p, doc)
      BY <2>2, <3>1, <3>2
    <3>4. ASSUME AllClean(rows', home.env)
          PROVE  \/ \E p \in UnderWay(net') : Arriving(p)
                 \/ /\ KnowsRecords(rows', Records(doc, home.env))
                    /\ \A p \in UnderWay(net') : KnowsUpdate(rows', p)
      <4>1. /\ AllClean(rows, home.env)
            /\ \A id, name : Known(rows, id, name) => Known(rows', id, name)
        BY <2>1, <3>4, KeptKnows
      <4>2. \/ \E q \in UnderWay(net) : Arriving(q)
            \/ /\ KnowsRecords(rows, Records(doc, home.env))
               /\ \A q \in UnderWay(net) : KnowsUpdate(rows, q)
        BY <2>1, <3>1, <4>1 DEF TableKnows
      <4>3. \A p, q : p.op = q.op /\ KnowsUpdate(rows, q) => KnowsUpdate(rows', p)
        BY <4>1 DEF KnowsUpdate
      <4>4. KnowsRecords(rows, Records(doc, home.env)) =>
               KnowsRecords(rows', Records(doc, home.env))
        BY <4>1 DEF KnowsRecords
      <4>. QED
        BY <2>2, <3>4, <4>2, <4>3, <4>4
    <3>5. TableKnows'
      BY <2>1, <2>2, <3>4 DEF TableKnows
    <3>. QED
      BY <3>3, <3>5
  <2>3. CASE UNCHANGED <<net, history, home, picker>>
    BY <2>2, <2>3
  <2>4. ASSUME NEW r, Asks(r), UNCHANGED home,
               history' \cap Confusing = {} => Exact(r, doc),
               AllClean(rows', home.env) => KnowsUpdate(rows', r)
        PROVE  DeleteInv'
    <3>1. UnderWay(net') = UnderWay(net) \cup {r} /\ history \subseteq history'
      BY <1>1, <2>4, AskMembers
    <3>2. Complete(r, doc)
      BY <2>4 DEF Asks, Complete, Pending
    <3>. QED
      BY <2>2, <2>4, <3>1, <3>2
  <2>5. CASE AsksForRecord
    <3>1. PICK r : /\ Asks(r) /\ AboutRow(r)
                   /\ r.op.kind \in {"addHostname", "updateHostname", "removeHostname"}
      BY <2>5 DEF AsksForRecord
    <3>2. ASSUME AllClean(rows', home.env) PROVE KnowsUpdate(rows', r)
      <4>. SUFFICES ASSUME r.op.kind = "updateHostname"
                    PROVE  Known(rows', r.op.id, r.op.host.hostname)
        BY DEF KnowsUpdate
      <4>1. PICK k \in DOMAIN rows :
                  /\ r.op.id = rows[k].id
                  /\ r.op.host = [hostname |-> rows[k].hostname, entry |-> Decode(rows[k].value)]
        BY <3>1 DEF AboutRow
      <4>2. r.op.host.hostname = rows[k].hostname
        BY <4>1
      <4>3. Known(rows, r.op.id, r.op.host.hostname)
        BY <4>1, <4>2 DEF Known
      <4>. QED
        BY <2>1, <3>2, <4>3, KeptKnows
    <3>3. ASSUME history' \cap Confusing = {} PROVE Exact(r, doc)
      <4>. SUFFICES ASSUME r.op.kind = "removeHostname", r.op.certain,
                           NEW h \in UnderWay(Records(doc, r.op.env)), h.hostname = r.op.name
                    PROVE  h.id = r.op.id
        BY DEF Exact
      <4>1. PICK k \in DOMAIN rows : /\ r.op.id = rows[k].id /\ r.op.name = rows[k].hostname
                                     /\ r.op.certain = Certain(k, home.env)
        BY <3>1 DEF AboutRow
      <4>2. AllClean(rows, home.env)
            /\ \A j \in DOMAIN rows : rows[j].hostname = rows[k].hostname => j = k
        BY <4>1 DEF Certain, AllClean
      <4>3. history \subseteq history'
        BY <1>1, <3>1, AskMembers
      <4>4. TableKnows /\ "table" \notin history'
        BY <1>3, <3>3, <4>3
      <4>5. \A q \in UnderWay(net) : q.op.kind \notin OfRecords
        BY <1>1, <3>1, <4>4, AskAlone DEF OfRecords
      <4>6. \A q \in UnderWay(net) : ~Arriving(q)
        BY <1>1, <4>5, ArrivingRecords
      <4>7. KnowsRecords(rows, Records(doc, home.env))
        BY <2>1, <4>2, <4>4, <4>6 DEF TableKnows
      <4>8. r.op.env = home.env
        BY <3>1 DEF AboutRow
      <4>9. PICK j \in DOMAIN rows : rows[j].id = h.id /\ rows[j].hostname = h.hostname
        BY <4>7, <4>8 DEF KnowsRecords, Known
      <4>. QED
        BY <4>1, <4>2, <4>9
    <3>4. UNCHANGED home
      BY <2>5 DEF AsksForRecord
    <3>. QED
      BY <2>4, <3>1, <3>2, <3>3, <3>4
  <2>6. CASE AsksForEnv \/ AsksForDeletion \/ AsksForActivation
    <3>1. PICK r : Asks(r) /\ r.op.kind \in {"addEnv", "removeEnv", "setActive"}
      BY <2>6 DEF AsksForEnv, AsksForDeletion, AsksForActivation
    <3>2. home' = home
      BY <2>6 DEF AsksForEnv, AsksForDeletion, AsksForActivation
    <3>3. Exact(r, doc) /\ KnowsUpdate(rows', r)
      BY <3>1 DEF Exact, KnowsUpdate
    <3>. QED
      BY <2>4, <3>1, <3>2, <3>3
  <2>7. CASE OpenEnvForm
    <3>1. /\ home'.env = home.env /\ history' = history /\ DOMAIN net' = DOMAIN net
          /\ \A k \in DOMAIN net :
                /\ net'[k].op = net[k].op /\ net'[k].reply = net[k].reply
                /\ \/ net'[k].then = net[k].then
                   \/ net[k].then = "envList" /\ net'[k].then = "nothing"
      BY <1>1, <2>7, OpenMembers
    <3>2. \A k \in DOMAIN net : net[k].then = "envList" => net[k].op.kind = "envs"
      BY <1>1, KindOfCallback DEF UnderWay
    <3>3. \A k \in DOMAIN net : Arriving(net[k]) => Arriving(net'[k])
      BY <3>1, <3>2 DEF Arriving
    <3>4. \A q \in UnderWay(net) : Arriving(q) => \E p \in UnderWay(net') : Arriving(p)
      BY <3>1, <3>3 DEF UnderWay
    <3>5. \A p \in UnderWay(net') : \E q \in UnderWay(net) :
             p.op = q.op /\ p.reply = q.reply /\ (p.then = q.then \/ p.op.kind = "envs")
      BY <3>1, <3>2 DEF UnderWay
    <3>. QED
      BY <2>2, <3>1, <3>4, <3>5
  <2>8. CASE CancelEnvForm
    <3>1. /\ home'.env = home.env /\ history \subseteq history'
          /\ UnderWay(net') = UnderWay(net) \cup {ListEnvs}
      BY <1>1, <2>8, CancelMembers
    <3>2. ListEnvs.op.kind \notin OfRecords
      BY SentParts DEF OfRecords
    <3>3. Exact(ListEnvs, doc) /\ Complete(ListEnvs, doc) /\ KnowsUpdate(rows', ListEnvs)
      BY <3>2, OthersAreExact
    <3>. QED
      BY <2>2, <3>1, <3>3
  <2>. QED
    BY <1>1, <1>7, <2>3, <2>5, <2>6, <2>7, <2>8, GestureEffect
<1>8. ASSUME NEW i \in DOMAIN net, Deliver(i) PROVE DeleteInv'
  <2>1. /\ ShowsOn(i) /\ ShowsRows(i) /\ doc' = doc /\ net[i].reply.status # "pending"
        /\ \E reqs, events : TableSends(i, reqs, events)
    BY <1>1, <1>8, CallbackEffect, CallbackTable
  <2>2. PICK reqs, events : TableSends(i, reqs, events)
    BY <2>1
  <2>. DEFINE then == net[i].then
  <2>3. /\ net[i] \in Req
        /\ UnderWay(net) = UnderWay(Rest(i)) \cup {net[i]}
        /\ UnderWay(net') = UnderWay(Rest(i)) \cup UnderWay(reqs)
        /\ history \subseteq history'
        /\ Once(net, RecordReqs) /\ net[i].op.kind \in OfRecords =>
              \A q \in UnderWay(Rest(i)) : q.op.kind \notin OfRecords
    BY <1>1, <1>2, <2>2, CallbackRecords
  <2>4. \A r \in UnderWay(reqs) : r = Find(home'.env) \/ r.op.kind \in {"envs", "setActive"}
    BY <2>2 DEF TableSends
  <2>5. \A r \in UnderWay(reqs) : /\ Exact(r, doc) /\ Complete(r, doc)
                                  /\ \A table : KnowsUpdate(table, r)
    BY <2>4, SentParts DEF Exact, Complete, KnowsUpdate, Pending
  <2>6. SUFFICES ASSUME history' \cap Confusing = {} PROVE TableKnows'
    <3>1. history' \cap Confusing = {} =>
             \A q \in UnderWay(net') : Exact(q, doc) /\ Complete(q, doc)
      BY <1>3, <2>3, <2>5
    <3>. QED
      BY <2>1, <2>6, <3>1 DEF DeleteInv
  <2>7. /\ Complete(net[i], doc)
        /\ TableKnows
        /\ Once(net, RecordReqs)
        /\ ~home.isLoading => \A q \in UnderWay(net) : AboutPage(q, home.env)
    BY <1>3, <2>3, <2>6
  <2>8. CASE then \in {"loaded", "activated", "added", "removed"} /\ Succeeded(i)
    <3>1. Find(home'.env) \in UnderWay(reqs)
      BY <2>2, <2>8 DEF TableSends
    <3>2. Arriving(Find(home'.env))
      BY SentParts DEF Arriving, Pending
    <3>. QED
      BY <2>3, <3>1, <3>2 DEF TableKnows
  <2>9. CASE ~(then \in {"loaded", "activated", "added", "removed"} /\ Succeeded(i))
    <3>1. home' = home
      BY <2>1, <2>9 DEF ShowsOn
    <3>2. SUFFICES ASSUME ~home.isLoading, AllClean(rows', home.env)
                   PROVE  \/ \E q \in UnderWay(net') : Arriving(q)
                          \/ /\ KnowsRecords(rows', Records(doc, home.env))
                             /\ \A q \in UnderWay(net') : KnowsUpdate(rows', q)
      BY <2>1, <3>1 DEF TableKnows
    <3>3. AboutPage(net[i], home.env)
      BY <2>3, <2>7, <3>2
    <3>4. CASE then = "rows" /\ Succeeded(i)
      <4>1. net[i].op.kind = "find"
        BY <2>3, <3>4, KindOfCallback
      <4>2. net[i].op.env = home.env
        BY <3>3, <4>1 DEF AboutPage, OfRecords
      <4>3. rows' = Loaded(home.env, net[i].reply.data)
        BY <2>1, <3>4, <4>2 DEF ShowsRows
      <4>4. UnderWay(Records(doc, home.env)) \subseteq UnderWay(net[i].reply.data)
        BY <2>7, <3>4, <4>1, <4>2 DEF Complete, Succeeded
      <4>5. KnowsRecords(rows', Records(doc, home.env))
        BY <4>3, <4>4, LoadedKnows
      <4>6. UnderWay(reqs) = {}
        BY <2>2, <3>4 DEF TableSends
      <4>7. \A q \in UnderWay(net') : q.op.kind \notin OfRecords
        BY <2>3, <2>7, <4>1, <4>6 DEF OfRecords
      <4>8. \A q \in UnderWay(net') : KnowsUpdate(rows', q)
        BY <4>7, OthersAreExact
      <4>. QED
        BY <4>5, <4>8
    <3>5. CASE ~(then = "rows" /\ Succeeded(i))
      <4>1. rows' = rows
        BY <2>1, <3>5 DEF ShowsRows
      <4>2. ~Arriving(net[i])
        <5>1. net[i].op.kind = "find" => then \in {"rows", "nothing"}
          BY <2>3, ReqParts DEF CallbacksOf
        <5>2. net[i].op.kind = "find" => then = "rows"
          BY <3>3, <5>1 DEF AboutPage, OfRecords
        <5>3. net[i].reply.status \in {"pending", "bad", "lost", "ok"}
          BY <2>3, ReqParts DEF RepliesTo, Pending, Bad, Lost, Ok
        <5>4. net[i].op.kind = "find" => net[i].reply.status = "bad"
          BY <2>1, <2>7, <3>5, <5>2, <5>3 DEF Complete, Succeeded
        <5>5. ~(then = "added" /\ net[i].reply.status = "ok")
          BY <2>9 DEF Succeeded
        <5>. QED
          BY <5>4, <5>5 DEF Arriving
      <4>3. \/ \E q \in UnderWay(net) : Arriving(q)
            \/ /\ KnowsRecords(rows, Records(doc, home.env))
               /\ \A q \in UnderWay(net) : KnowsUpdate(rows, q)
        BY <2>7, <3>2, <4>1 DEF TableKnows
      <4>4. (\E q \in UnderWay(net) : Arriving(q)) => \E q \in UnderWay(net') : Arriving(q)
        BY <2>3, <4>2
      <4>5. (\A q \in UnderWay(net) : KnowsUpdate(rows, q)) =>
               \A q \in UnderWay(net') : KnowsUpdate(rows, q)
        BY <2>3, <2>5
      <4>. QED
        BY <4>1, <4>3, <4>4, <4>5
    <3>. QED
      BY <3>4, <3>5
  <2>. QED
    BY <2>8, <2>9
<1>. QED
    BY <1>4, <1>5, <1>6, <1>7, <1>8 DEF Next, Network, User

\* The ids of a document are those of the records of its environments.
LEMMA IdsOfRecords ==
    ASSUME NEW c \in Configuration, NEW id
    PROVE  /\ UniqueEnvs(c) /\ id \in Ids(c) => \E n : \E h \in UnderWay(Records(c, n)) : h.id = id
           /\ (\E n : \E h \in UnderWay(Records(c, n)) : h.id = id) => id \in Ids(c)
<1>1. ASSUME UniqueEnvs(c), id \in Ids(c)
      PROVE  \E n : \E h \in UnderWay(Records(c, n)) : h.id = id
  <2>1. PICK p \in EntryPositions(c) : IdAt(c, p) = id
    BY <1>1 DEF Ids
  <2>2. p[1] \in DOMAIN c.envs /\ p[2] \in DOMAIN c.envs[p[1]].hostnames
    BY Positions
  <2>. DEFINE s == c.envs[p[1]].hostnames
  <2>3. Records(c, c.envs[p[1]].name) = s
    BY <1>1, <2>2, RecordsAt
  <2>4. s[p[2]].id = id /\ s[p[2]] \in UnderWay(s)
    BY <2>1, <2>2 DEF IdAt, UnderWay
  <2>. QED
    BY <2>3, <2>4
<1>2. ASSUME NEW n, NEW h \in UnderWay(Records(c, n)), h.id = id PROVE id \in Ids(c)
  <2>1. HasEnv(c, n)
    BY OneOrTwo DEF Records
  <2>2. PICK e \in DOMAIN c.envs : Records(c, n) = c.envs[e].hostnames
    BY <2>1, GetEnvFinds DEF Records
  <2>3. PICK k \in DOMAIN c.envs[e].hostnames : c.envs[e].hostnames[k] = h
    BY <1>2, <2>2 DEF UnderWay
  <2>4. <<e, k>> \in EntryPositions(c) /\ IdAt(c, <<e, k>>) = id
    BY <1>2, <2>3, Positions
  <2>. QED
    BY <2>4 DEF Ids
<1>. QED
    BY <1>1, <1>2

LEMMA RemovalIsExact ==
    ASSUME Shape, Numbered, DeleteInv, NEW i \in DOMAIN net, Handle(i)
    PROVE  RemovesItsRecord(net[i].op)
<1>1. ServerShape /\ net \in Seq(Req) /\ doc \in Configuration /\ UniqueEnvs(doc)
    BY DEF Shape, PageShape, ServerShape, Numbered
<1>. DEFINE op == net[i].op
<1>2. net[i].reply = Pending /\ net[i] \in UnderWay(net) /\ op \in Op
    BY <1>1, HandleShape, ReqParts DEF UnderWay
<1>3. \/ doc' = doc
      \/ ~IsRead(op) /\ ~Invalid(op) /\ Server!Accept(op)
    BY <1>1, HandleShape
<1>4. SUFFICES ASSUME op.kind = "removeHostname", op.certain,
                      history \cap {"table", "lost", "foreign"} = {},
                      NEW id \in Ids(doc), id \notin Ids(doc')
               PROVE  id = op.id
    BY DEF RemovesItsRecord
<1>5. ~IsRead(op) /\ ~Invalid(op) /\ Server!Accept(op)
    BY <1>3, <1>4
<1>6. Exact(net[i], doc)
    BY <1>2, <1>4 DEF DeleteInv
<1>7. \A h \in UnderWay(Records(doc, op.env)) : h.hostname = op.name => h.id = op.id
    BY <1>2, <1>4, <1>6 DEF Exact
<1>. HIDE DEF op
<1>8. ChangesRecords(op, doc, doc', clock)
    BY <1>1, <1>2, <1>5, PageRecords
<1>9. doc' \in Configuration
    BY <1>1, <1>2, <1>5, ServerEffect DEF ServerShape
<1>10. PICK h \in UnderWay(Records(doc, op.env)) :
            /\ h.hostname = op.name
            /\ UnderWay(Records(doc, op.env)) = UnderWay(Records(doc', op.env)) \cup {h}
    BY <1>1, <1>2, <1>4, <1>5, <1>8, RecordsAfter
<1>11. \A n : n # op.env => Records(doc', n) = Records(doc, n)
    BY <1>8 DEF ChangesRecords
<1>12. PICK n : \E g \in UnderWay(Records(doc, n)) : g.id = id
    BY <1>1, <1>4, IdsOfRecords
<1>13. PICK g \in UnderWay(Records(doc, n)) : g.id = id
    BY <1>12
<1>14. g \notin UnderWay(Records(doc', n))
    BY <1>4, <1>9, <1>13, IdsOfRecords
<1>15. n = op.env
    BY <1>11, <1>13, <1>14
<1>16. g = h
    BY <1>10, <1>13, <1>14, <1>15
<1>. QED
    BY <1>7, <1>10, <1>13, <1>16

\* A deletion takes away the record that its row shows, or none, also when the
\* page has changed to another environment before the server sees the request:
\* RemoveHostname takes the first entry of a name, and where the user sees which
\* record the row is there is no other entry of that name.
THEOREM DeletionsAreExact == Spec => DeletesShownRecord
<1>. DEFINE Inv == Numbered /\ RecordInv /\ DeleteInv
            Step == \A i \in DOMAIN net : Handle(i) => RemovesItsRecord(net[i].op)
<1>1. Init => Inv
  <2>. SUFFICES ASSUME Init PROVE Inv
    OBVIOUS
  <2>1. /\ home.isLoading /\ UnderWay(net) = {GetActive}
        /\ \A R : Once(net, R)
    BY InitMembers, OneOrTwo, NewHomeParts, Zenon DEF Init
  <2>2. GetActive.op.kind \notin OfRecords
    BY SentParts DEF OfRecords
  <2>3. Exact(GetActive, doc) /\ Complete(GetActive, doc)
    BY <2>2, OthersAreExact
  <2>. QED
    BY <2>1, <2>3, InitNumbered DEF RecordInv, DeleteInv, TableKnows
<1>2. Shape /\ Inv /\ [Next]_vars => Inv'
  <2>1. ASSUME UNCHANGED vars, Inv PROVE RecordInv' /\ DeleteInv'
    BY <2>1 DEF vars, RecordInv, DeleteInv, TableKnows
  <2>. QED
    BY <2>1, NextNumbered, NextKeepsRecords, NextKeepsDelete
<1>3. Shape /\ Inv /\ [Next]_vars => [Step]_vars
    BY RemovalIsExact
<1>. QED
    BY <1>1, <1>2, <1>3, ShapeHolds, PTL DEF Spec, DeletesShownRecord
===============================================================================
