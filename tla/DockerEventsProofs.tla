-------------------------- MODULE DockerEventsProofs --------------------------
(***************************************************************************)
(* The registry of host names follows the daemon, for any containers, any  *)
(* assignment of host names to them and any number of actions of the       *)
(* daemon.                                                                 *)
(***************************************************************************)
EXTENDS DockerEvents, SequenceTheorems, TLAPS

\* The events that are sent and not handled, the one at hand first.
Waiting == IF pc = "handle" THEN <<event>> \o stream ELSE stream

\* After position i of s comes an event of container c with an action of K.
Follows(s, i, c, K) == \E j \in DOMAIN s : j > i /\ s[j].id = c /\ s[j].action \in K

Stops == {"stop", "die"}
Starts == {"start"}

\* The handler is past the subscription and the daemon still sends.
Following == open /\ pc \in {"listed", "loop", "handle"}

\* The owners of a host name whose changes all reach the handler.
Watched(h) == Owners(h) \cap missed = {}

(***************************************************************************)
(* The inductive invariant, in parts.                                      *)
(***************************************************************************)
\* Nothing is sent or registered before the subscription.
NothingYet ==
    pc \in {"connect", "subscribe"} =>
        stream = << >> /\ ~open /\ \A h \in Hosts : registry[h] = None

\* The list is right at the subscription, except for the missed containers, and
\* afterwards a stop is on its way for each listed container that has stopped.
ListIsCurrent ==
    /\ pc = "subscribe" =>
           \A c \in Containers \ missed : c \in todo <=> status[c] = "running"
    /\ Following /\ pc = "listed" =>
           \A c \in todo \ missed : status[c] = "running" \/ Follows(Waiting, 0, c, Stops)

\* The last event on its way for a container tells its status.
LastEventIsCurrent ==
    Following =>
        \A i \in DOMAIN Waiting :
            LET e == Waiting[i]
            IN  /\ e.action \in Starts =>
                       status[e.id] = "running" \/ Follows(Waiting, i, e.id, Stops)
                /\ e.action \in Stops =>
                       status[e.id] # "running" \/ Follows(Waiting, i, e.id, Starts)

\* What a name leads to is the address of a running owner, or nothing, or a
\* stop that will take it away is on its way.
WrongHasStop ==
    Following =>
        \A h \in Hosts : Watched(h) =>
            \/ registry[h] = None
            \/ \E c \in Owners(h) : status[c] = "running" /\ registry[h] = Ip(c)
            \/ \E c \in Owners(h) : Follows(Waiting, 0, c, Stops)

\* A name that leads to nothing although all its owners run will be registered
\* from the list or by a start that is on its way.
AbsentHasStart ==
    Following =>
        \A h \in Hosts :
            /\ Watched(h)
            /\ registry[h] = None
            /\ Owners(h) # {}
            /\ \A c \in Owners(h) : status[c] = "running"
            => \E c \in Owners(h) : \/ Follows(Waiting, 0, c, Starts)
                                    \/ pc = "listed" /\ c \in todo

Parts ==
    /\ NothingYet
    /\ ListIsCurrent
    /\ LastEventIsCurrent
    /\ WrongHasStop
    /\ AbsentHasStart

Inv == TypeOK /\ Parts
-----------------------------------------------------------------------------
(***************************************************************************)
(* Types                                                                   *)
(***************************************************************************)
\* The address an inspection gives is an address.
LEMMA IpType ==
    ASSUME TypeOK, NEW c \in Containers
    PROVE  Ip(c) \in Address
    BY DEF TypeOK, Ip, Address

\* Registering a container keeps the type of the registry.
LEMMA PutHostnamesType ==
    ASSUME TypeOK, NEW c \in Containers, PutHostnames(c)
    PROVE  registry' \in [Hosts -> Address]
    BY IpType DEF TypeOK, PutHostnames

\* Sending events keeps the type of the stream.
LEMMA SendType ==
    ASSUME TypeOK, NEW events \in Seq(Event), Send(events)
    PROVE  stream' \in Seq(Event)
    BY DEF TypeOK, Send

\* The events of a container that starts and of one that stops are events.
LEMMA EventsType ==
    ASSUME NEW c \in Containers
    PROVE  /\ <<[id |-> c, action |-> "start"]>> \in Seq(Event)
           /\ <<[id |-> c, action |-> "die"]>> \in Seq(Event)
           /\ <<[id |-> c, action |-> "die"], [id |-> c, action |-> "stop"]>> \in Seq(Event)
    BY DEF Event

\* The events of a container that starts or stops have the type of the stream.
LEMMA DaemonStreamType ==
    ASSUME TypeOK, NEW c \in Containers, ContainerStart(c) \/ ContainerStop(c)
    PROVE  stream' \in Seq(Event)
    BY EventsType, SendType DEF ContainerStart, ContainerStop

\* The number of actions stays within its bound.
LEMMA ActionsType ==
    ASSUME TypeOK, actions < MaxActions, actions' = actions + 1
    PROVE  actions' \in 0..MaxActions
    BY BoundAssumption DEF TypeOK

\* The types of the variables are kept by every step.
LEMMA NextTypeOK == TypeOK /\ [Next]_vars => TypeOK'
<1>. SUFFICES ASSUME TypeOK, [Next]_vars PROVE TypeOK'
    OBVIOUS
<1>1. ASSUME NEW c \in Containers, ContainerStart(c) PROVE TypeOK'
  <2>1. stream' \in Seq(Event) /\ actions' \in 0..MaxActions
    BY <1>1, DaemonStreamType, ActionsType DEF ContainerStart, Act
  <2>2. status' \in [Containers -> {"stopped", "running", "removed"}]
    BY <1>1 DEF TypeOK, ContainerStart
  <2>3. run' \in [Containers -> Nat]
    BY <1>1 DEF TypeOK, ContainerStart
  <2>. QED
    BY <1>1, <2>1, <2>2, <2>3 DEF TypeOK, ContainerStart, Act, handler
<1>2. ASSUME NEW c \in Containers, ContainerStop(c) PROVE TypeOK'
  <2>1. stream' \in Seq(Event) /\ actions' \in 0..MaxActions
    BY <1>2, DaemonStreamType, ActionsType DEF ContainerStop, Act
  <2>2. status' \in [Containers -> {"stopped", "running", "removed"}]
    BY <1>2 DEF TypeOK, ContainerStop
  <2>. QED
    BY <1>2, <2>1, <2>2 DEF TypeOK, ContainerStop, Act, handler
<1>3. ASSUME NEW c \in Containers, ContainerRemove(c) PROVE TypeOK'
  <2>1. actions' \in 0..MaxActions
    BY <1>3, ActionsType DEF ContainerRemove, Act
  <2>. QED
    BY <1>3, <2>1 DEF TypeOK, ContainerRemove, Act, handler
<1>4. CASE Disconnect
  <2>1. actions' \in 0..MaxActions
    BY <1>4, ActionsType DEF Disconnect
  <2>. QED
    BY <1>4, <2>1 DEF TypeOK, Disconnect, handler
<1>5. CASE GiveUp
    BY <1>5 DEF TypeOK, GiveUp, daemon
<1>6. CASE ContainerList
    BY <1>6 DEF TypeOK, ContainerList, daemon
<1>7. CASE Subscribe
    BY <1>7 DEF TypeOK, Subscribe, daemon
<1>8. ASSUME NEW c \in Containers, RegisterListed(c) PROVE TypeOK'
  <2>1. registry' \in [Hosts -> Address]
    BY <1>8, PutHostnamesType DEF TypeOK, RegisterListed, Panic
  <2>. QED
    BY <1>8, <2>1 DEF TypeOK, RegisterListed, Panic, daemon
<1>9. CASE ListDone
    BY <1>9 DEF TypeOK, ListDone, daemon
<1>10. CASE NextEvent
  <2>1. Head(stream) \in Event /\ Tail(stream) \in Seq(Event) /\ Head(stream) # None
    BY <1>10, NoneAssumption, HeadTailProperties DEF TypeOK, NextEvent
  <2>. QED
    BY <1>10, <2>1 DEF TypeOK, NextEvent, Panic, daemon
<1>11. CASE HandleStart
  <2>1. event.id \in Containers
    BY <1>11 DEF TypeOK, HandleStart, Event
  <2>2. registry' \in [Hosts -> Address]
    BY <1>11, <2>1, PutHostnamesType DEF TypeOK, HandleStart, Panic
  <2>. QED
    BY <1>11, <2>2 DEF TypeOK, HandleStart, Panic, daemon
<1>12. CASE HandleStop
  <2>1. registry' \in [Hosts -> Address]
    BY <1>12 DEF TypeOK, HandleStop, Address
  <2>. QED
    BY <1>12, <2>1 DEF TypeOK, HandleStop, daemon
<1>13. CASE EndOfStream
    BY <1>13 DEF TypeOK, EndOfStream, daemon
<1>14. CASE StreamBreaks
    BY <1>14 DEF TypeOK, StreamBreaks, Panic, daemon
<1>15. CASE UNCHANGED vars
    BY <1>15 DEF TypeOK, vars
<1>. QED
    BY <1>1, <1>2, <1>3, <1>4, <1>5, <1>6, <1>7, <1>8, <1>9, <1>10, <1>11, <1>12,
       <1>13, <1>14, <1>15 DEF Next, HandlerStep, DaemonStep

\* Every variable of the event handler has its type in every reachable state;
\* in particular handleEvent never looks at an event that was not read.
THEOREM TypeCorrect == Spec => []TypeOK
<1>1. Init => TypeOK
  <2>. SUFFICES ASSUME Init PROVE TypeOK
    OBVIOUS
  <2>1. status \in [Containers -> {"stopped", "running", "removed"}]
    BY DEF Init
  <2>2. run \in [Containers -> Nat] /\ stream \in Seq(Event)
    BY DEF Init
  <2>3. registry \in [Hosts -> Address]
    BY DEF Init, Address
  <2>4. actions \in 0..MaxActions
    BY BoundAssumption DEF Init
  <2>. QED
    BY <2>1, <2>2, <2>3, <2>4 DEF Init, TypeOK
<1>. QED
    BY <1>1, NextTypeOK, PTL DEF Spec
-----------------------------------------------------------------------------
(***************************************************************************)
(* Events on their way                                                     *)
(***************************************************************************)
\* What follows in a sequence still follows when the sequence grows.
LEMMA FollowsConcat ==
    ASSUME NEW s \in Seq(Event), NEW t \in Seq(Event), NEW i, NEW c, NEW K, Follows(s, i, c, K)
    PROVE  Follows(s \o t, i, c, K)
    BY DEF Follows

\* Something of what is sent follows every event that was on its way.
LEMMA FollowsNew ==
    ASSUME NEW s \in Seq(Event), NEW t \in Seq(Event), NEW i \in 0..Len(s), NEW c, NEW K,
           Follows(t, 0, c, K)
    PROVE  Follows(s \o t, i, c, K)
<1>1. PICK k \in DOMAIN t : k > 0 /\ t[k].id = c /\ t[k].action \in K
    BY DEF Follows
<1>2. /\ Len(s) + k \in DOMAIN (s \o t)
      /\ Len(s) + k > i
      /\ (s \o t)[Len(s) + k] = t[k]
    BY <1>1
<1>. QED
    BY <1>1, <1>2 DEF Follows

\* What follows after the first event still follows once that is handled.
LEMMA FollowsTail ==
    ASSUME NEW s \in Seq(Event), s # << >>, NEW i \in Nat, NEW c, NEW K, Follows(s, i + 1, c, K)
    PROVE  Follows(Tail(s), i, c, K)
<1>1. PICK j \in DOMAIN s : j > i + 1 /\ s[j].id = c /\ s[j].action \in K
    BY DEF Follows
<1>2. j - 1 \in DOMAIN Tail(s) /\ j - 1 > i /\ Tail(s)[j - 1] = s[j]
    BY <1>1
<1>. QED
    BY <1>1, <1>2 DEF Follows

\* The events on their way are events.
LEMMA WaitingType == TypeOK => Waiting \in Seq(Event)
    BY DEF TypeOK, Waiting

\* They are events of containers.
LEMMA WaitingIds ==
    ASSUME TypeOK, NEW i \in DOMAIN Waiting
    PROVE  Waiting[i].id \in Containers
<1>1. Waiting[i] \in Event
    BY WaitingType
<1>. QED
    BY <1>1 DEF Event

\* What the daemon sends comes after what is on its way.
LEMMA WaitingGrows ==
    ASSUME TypeOK, open, NEW evs \in Seq(Event), Send(evs), UNCHANGED <<pc, event>>
    PROVE  Waiting' = Waiting \o evs
<1>1. stream' = stream \o evs
    BY DEF Send
<1>2. CASE pc = "handle"
  <2>1. <<event>> \in Seq(Event)
    BY <1>2 DEF TypeOK
  <2>2. <<event>> \o (stream \o evs) = (<<event>> \o stream) \o evs
    BY <2>1, ConcatAssociative DEF TypeOK
  <2>. QED
    BY <1>1, <1>2, <2>2 DEF Waiting
<1>. QED
    BY <1>1, <1>2 DEF Waiting

\* Reading an event leaves it on its way, ahead of the others.
LEMMA NextEventWaiting ==
    ASSUME TypeOK, NextEvent, pc' = "handle"
    PROVE  Waiting' = Waiting
<1>1. stream = <<Head(stream)>> \o Tail(stream)
    BY DEF TypeOK, NextEvent
<1>2. event' = Head(stream) /\ stream' = Tail(stream) /\ pc = "loop"
    BY DEF NextEvent, Panic
<1>. QED
    BY <1>1, <1>2 DEF Waiting

\* Handling an event takes the first of those on their way.
LEMMA HandleWaiting ==
    ASSUME TypeOK, pc = "handle", pc' = "loop", UNCHANGED stream
    PROVE  /\ Waiting # << >>
           /\ 1 \in DOMAIN Waiting
           /\ Waiting[1] = event
           /\ Waiting' = Tail(Waiting)
<1>1. <<event>> \in Seq(Event) /\ stream \in Seq(Event)
    BY DEF TypeOK
<1>2. Tail(<<event>> \o stream) = stream
    BY <1>1
<1>. QED
    BY <1>1, <1>2 DEF Waiting
-----------------------------------------------------------------------------
(***************************************************************************)
(* Each step keeps the invariant                                           *)
(***************************************************************************)
\* What the step of a container sends, when the handler follows.
LEMMA DaemonSends ==
    ASSUME TypeOK, open, NEW c \in Containers, ContainerStart(c) \/ ContainerStop(c)
    PROVE  \E evs \in Seq(Event) :
               /\ Waiting' = Waiting \o evs
               /\ Follows(evs, 0, c, IF ContainerStart(c) THEN Starts ELSE Stops)
               /\ \A k \in DOMAIN evs :
                      /\ evs[k].id = c
                      /\ evs[k].action \in IF ContainerStart(c) THEN Starts ELSE Stops
<1>1. UNCHANGED <<pc, event>>
    BY DEF ContainerStart, ContainerStop, Act, handler
<1>2. CASE ContainerStart(c)
  <2>. DEFINE evs == <<[id |-> c, action |-> "start"]>>
  <2>1. evs \in Seq(Event) /\ Send(evs)
    BY <1>2, EventsType DEF ContainerStart
  <2>2. Waiting' = Waiting \o evs
    BY <1>1, <2>1, WaitingGrows
  <2>3. \A k \in DOMAIN evs : evs[k].id = c /\ evs[k].action \in Starts
    BY DEF Starts
  <2>4. Follows(evs, 0, c, Starts)
    BY DEF Starts, Follows
  <2>. QED
    BY <1>2, <2>1, <2>2, <2>3, <2>4
<1>3. CASE ContainerStop(c)
  <2>1. ~ContainerStart(c)
    BY <1>3 DEF ContainerStart, ContainerStop
  <2>2. PICK evs \in {<<[id |-> c, action |-> "die"]>>,
                      <<[id |-> c, action |-> "die"], [id |-> c, action |-> "stop"]>>} :
            Send(evs)
    BY <1>3 DEF ContainerStop
  <2>3. evs \in Seq(Event)
    BY EventsType
  <2>4. Waiting' = Waiting \o evs
    BY <1>1, <2>2, <2>3, WaitingGrows
  <2>5. \A k \in DOMAIN evs : evs[k].id = c /\ evs[k].action \in Stops
    BY DEF Stops
  <2>6. 1 \in DOMAIN evs
    OBVIOUS
  <2>7. Follows(evs, 0, c, Stops)
    BY <2>5, <2>6 DEF Follows
  <2>. QED
    BY <2>1, <2>3, <2>4, <2>5, <2>7
<1>. QED
    BY <1>2, <1>3

\* A container that starts: its start is on its way.
LEMMA StartKeeps ==
    ASSUME Inv, NEW c \in Containers, ContainerStart(c)
    PROVE  /\ NothingYet' /\ ListIsCurrent' /\ LastEventIsCurrent'
           /\ WrongHasStop' /\ AbsentHasStart'
<1>1. /\ UNCHANGED <<open, pc, todo, event, registry>>
      /\ missed \subseteq missed'
      /\ pc = "subscribe" => c \in missed'
      /\ Following' <=> Following
    BY DEF ContainerStart, Act, handler, Following
<1>2. /\ status'[c] = "running" /\ status[c] = "stopped"
      /\ \A d \in Containers : d # c => status'[d] = status[d] /\ run'[d] = run[d]
    BY DEF Inv, TypeOK, ContainerStart
<1>3. NothingYet'
    BY <1>1 DEF Inv, Parts, NothingYet, ContainerStart, Send
<1>4. (pc = "subscribe" => \A d \in Containers \ missed : d \in todo <=> status[d] = "running")'
    BY <1>1, <1>2 DEF Inv, Parts, ListIsCurrent
<1>5. CASE ~Following
    BY <1>1, <1>3, <1>4, <1>5
       DEF ListIsCurrent, LastEventIsCurrent, WrongHasStop, AbsentHasStart
<1>6. CASE Following
  <2>1. PICK evs \in Seq(Event) :
            /\ Waiting' = Waiting \o evs
            /\ Follows(evs, 0, c, Starts)
            /\ \A k \in DOMAIN evs : evs[k].id = c /\ evs[k].action \in Starts
    BY <1>6, DaemonSends DEF Inv, Following
  <2>2. Waiting \in Seq(Event)
    BY WaitingType DEF Inv
  <2>3. \A i, d, K : Follows(Waiting, i, d, K) => Follows(Waiting', i, d, K)
    BY <2>1, <2>2, FollowsConcat
  <2>4. \A i \in 0..Len(Waiting) : Follows(Waiting', i, c, Starts)
    BY <2>1, <2>2, FollowsNew
  <2>5. ListIsCurrent'
    BY <1>1, <1>2, <1>4, <1>6, <2>3 DEF Inv, Parts, TypeOK, ListIsCurrent
  <2>6. LastEventIsCurrent'
    <3>. SUFFICES ASSUME NEW i \in DOMAIN Waiting'
                  PROVE  LET e == Waiting'[i]
                         IN  /\ e.action \in Starts =>
                                    status'[e.id] = "running" \/ Follows(Waiting', i, e.id, Stops)
                             /\ e.action \in Stops =>
                                    status'[e.id] # "running" \/ Follows(Waiting', i, e.id, Starts)
      BY DEF LastEventIsCurrent
    <3>1. CASE i \in DOMAIN Waiting
      <4>1. Waiting'[i] = Waiting[i] /\ Waiting[i].id \in Containers /\ i \in 0..Len(Waiting)
        <5>1. Waiting'[i] = Waiting[i] /\ i \in 0..Len(Waiting)
          BY <2>1, <2>2, <3>1
        <5>. QED
          BY <3>1, <5>1, WaitingIds DEF Inv
      <4>2. CASE Waiting[i].id = c
        <5>1. Follows(Waiting', i, c, Starts)
          BY <2>4, <4>1
        <5>2. Waiting'[i].id = c
          BY <4>1, <4>2
        <5>. QED
          BY <1>2, <5>1, <5>2
      <4>3. CASE Waiting[i].id # c
        <5>1. status'[Waiting[i].id] = status[Waiting[i].id]
          BY <1>2, <4>1, <4>3
        <5>2. /\ Waiting[i].action \in Starts =>
                     status[Waiting[i].id] = "running" \/ Follows(Waiting, i, Waiting[i].id, Stops)
              /\ Waiting[i].action \in Stops =>
                     status[Waiting[i].id] # "running" \/ Follows(Waiting, i, Waiting[i].id, Starts)
          BY <1>6, <3>1 DEF Inv, Parts, LastEventIsCurrent
        <5>. QED
          BY <2>3, <4>1, <5>1, <5>2
      <4>. QED
        BY <4>2, <4>3
    <3>2. CASE i \notin DOMAIN Waiting
      <4>1. \E k \in DOMAIN evs : Waiting'[i] = evs[k]
        <5>1. i - Len(Waiting) \in DOMAIN evs /\ Waiting'[i] = evs[i - Len(Waiting)]
          BY <2>1, <2>2, <3>2
        <5>. QED
          BY <5>1
      <4>2. Waiting'[i].id = c /\ Waiting'[i].action \in Starts
        BY <2>1, <4>1
      <4>. QED
        BY <1>2, <4>2 DEF Starts, Stops
    <3>. QED
      BY <3>1, <3>2
  <2>7. WrongHasStop'
    <3>. SUFFICES ASSUME NEW h \in Hosts, Watched(h)', registry'[h] # None
                  PROVE  \/ \E d \in Owners(h) : status'[d] = "running" /\ registry'[h] = Ip(d)'
                         \/ \E d \in Owners(h) : Follows(Waiting', 0, d, Stops)
      BY DEF WrongHasStop, Owners
    <3>1. Watched(h)
      BY <1>1 DEF Watched, Owners
    <3>2. \A d \in Owners(h) :
              status[d] = "running" => d # c /\ status'[d] = "running" /\ Ip(d)' = Ip(d)
      BY <1>2 DEF Owners, Ip
    <3>. QED
      BY <1>1, <1>6, <2>3, <3>1, <3>2 DEF Inv, Parts, WrongHasStop
  <2>8. AbsentHasStart'
    <3>. SUFFICES ASSUME NEW h \in Hosts, Watched(h)', registry'[h] = None, Owners(h) # {},
                         \A d \in Owners(h) : status'[d] = "running"
                  PROVE  \E d \in Owners(h) : \/ Follows(Waiting', 0, d, Starts)
                                              \/ pc' = "listed" /\ d \in todo'
      BY DEF AbsentHasStart, Owners
    <3>1. CASE c \in Owners(h)
      BY <2>2, <2>4, <3>1
    <3>2. CASE c \notin Owners(h)
      <4>1. Watched(h) /\ \A d \in Owners(h) : status[d] = "running"
        BY <1>1, <1>2, <3>2 DEF Watched, Owners
      <4>. QED
        BY <1>1, <1>6, <2>3, <4>1 DEF Inv, Parts, AbsentHasStart
    <3>. QED
      BY <3>1, <3>2
  <2>. QED
    BY <1>3, <2>5, <2>6, <2>7, <2>8
<1>. QED
    BY <1>5, <1>6

\* A container that stops: its stop is on its way.
LEMMA StopKeeps ==
    ASSUME Inv, NEW c \in Containers, ContainerStop(c)
    PROVE  /\ NothingYet' /\ ListIsCurrent' /\ LastEventIsCurrent'
           /\ WrongHasStop' /\ AbsentHasStart'
<1>1. /\ UNCHANGED <<open, pc, todo, event, registry, run>>
      /\ missed \subseteq missed'
      /\ pc = "subscribe" => c \in missed'
      /\ Following' <=> Following
    BY DEF ContainerStop, Act, handler, Following
<1>2. /\ status'[c] = "stopped" /\ status[c] = "running"
      /\ \A d \in Containers : d # c => status'[d] = status[d]
    BY DEF Inv, TypeOK, ContainerStop
<1>3. NothingYet'
    BY <1>1 DEF Inv, Parts, NothingYet, ContainerStop, Send
<1>4. (pc = "subscribe" => \A d \in Containers \ missed : d \in todo <=> status[d] = "running")'
    BY <1>1, <1>2 DEF Inv, Parts, ListIsCurrent
<1>5. CASE ~Following
    BY <1>1, <1>3, <1>4, <1>5
       DEF ListIsCurrent, LastEventIsCurrent, WrongHasStop, AbsentHasStart
<1>6. CASE Following
  <2>1. PICK evs \in Seq(Event) :
            /\ Waiting' = Waiting \o evs
            /\ Follows(evs, 0, c, Stops)
            /\ \A k \in DOMAIN evs : evs[k].id = c /\ evs[k].action \in Stops
    <3>1. ~ContainerStart(c)
      BY DEF ContainerStart, ContainerStop
    <3>. QED
      BY <1>6, <3>1, DaemonSends DEF Inv, Following
  <2>2. Waiting \in Seq(Event)
    BY WaitingType DEF Inv
  <2>3. \A i, d, K : Follows(Waiting, i, d, K) => Follows(Waiting', i, d, K)
    BY <2>1, <2>2, FollowsConcat
  <2>4. \A i \in 0..Len(Waiting) : Follows(Waiting', i, c, Stops)
    BY <2>1, <2>2, FollowsNew
  <2>5. ListIsCurrent'
    <3>1. Follows(Waiting', 0, c, Stops)
      BY <2>2, <2>4
    <3>. QED
      BY <1>1, <1>2, <1>4, <1>6, <2>3, <3>1 DEF Inv, Parts, TypeOK, ListIsCurrent
  <2>6. LastEventIsCurrent'
    <3>. SUFFICES ASSUME NEW i \in DOMAIN Waiting'
                  PROVE  LET e == Waiting'[i]
                         IN  /\ e.action \in Starts =>
                                    status'[e.id] = "running" \/ Follows(Waiting', i, e.id, Stops)
                             /\ e.action \in Stops =>
                                    status'[e.id] # "running" \/ Follows(Waiting', i, e.id, Starts)
      BY DEF LastEventIsCurrent
    <3>1. CASE i \in DOMAIN Waiting
      <4>1. Waiting'[i] = Waiting[i] /\ Waiting[i].id \in Containers /\ i \in 0..Len(Waiting)
        <5>1. Waiting'[i] = Waiting[i] /\ i \in 0..Len(Waiting)
          BY <2>1, <2>2, <3>1
        <5>. QED
          BY <3>1, <5>1, WaitingIds DEF Inv
      <4>2. CASE Waiting[i].id = c
        <5>1. Follows(Waiting', i, c, Stops)
          BY <2>4, <4>1
        <5>2. Waiting'[i].id = c
          BY <4>1, <4>2
        <5>. QED
          BY <1>2, <5>1, <5>2
      <4>3. CASE Waiting[i].id # c
        <5>1. status'[Waiting[i].id] = status[Waiting[i].id]
          BY <1>2, <4>1, <4>3
        <5>2. /\ Waiting[i].action \in Starts =>
                     status[Waiting[i].id] = "running" \/ Follows(Waiting, i, Waiting[i].id, Stops)
              /\ Waiting[i].action \in Stops =>
                     status[Waiting[i].id] # "running" \/ Follows(Waiting, i, Waiting[i].id, Starts)
          BY <1>6, <3>1 DEF Inv, Parts, LastEventIsCurrent
        <5>. QED
          BY <2>3, <4>1, <5>1, <5>2
      <4>. QED
        BY <4>2, <4>3
    <3>2. CASE i \notin DOMAIN Waiting
      <4>1. \E k \in DOMAIN evs : Waiting'[i] = evs[k]
        <5>1. i - Len(Waiting) \in DOMAIN evs /\ Waiting'[i] = evs[i - Len(Waiting)]
          BY <2>1, <2>2, <3>2
        <5>. QED
          BY <5>1
      <4>2. Waiting'[i].id = c /\ Waiting'[i].action \in Stops
        BY <2>1, <4>1
      <4>. QED
        BY <1>2, <4>2 DEF Starts, Stops
    <3>. QED
      BY <3>1, <3>2
  <2>7. WrongHasStop'
    <3>. SUFFICES ASSUME NEW h \in Hosts, Watched(h)', registry'[h] # None
                  PROVE  \/ \E d \in Owners(h) : status'[d] = "running" /\ registry'[h] = Ip(d)'
                         \/ \E d \in Owners(h) : Follows(Waiting', 0, d, Stops)
      BY DEF WrongHasStop, Owners
    <3>1. Watched(h)
      BY <1>1 DEF Watched, Owners
    <3>2. Follows(Waiting', 0, c, Stops)
      BY <2>2, <2>4
    <3>3. \A d \in Owners(h) : d # c => status'[d] = status[d] /\ Ip(d)' = Ip(d)
      BY <1>1, <1>2 DEF Owners, Ip
    <3>. QED
      BY <1>1, <1>6, <2>3, <3>1, <3>2, <3>3 DEF Inv, Parts, WrongHasStop
  <2>8. AbsentHasStart'
    <3>. SUFFICES ASSUME NEW h \in Hosts, Watched(h)', registry'[h] = None, Owners(h) # {},
                         \A d \in Owners(h) : status'[d] = "running"
                  PROVE  \E d \in Owners(h) : \/ Follows(Waiting', 0, d, Starts)
                                              \/ pc' = "listed" /\ d \in todo'
      BY DEF AbsentHasStart, Owners
    <3>1. Watched(h) /\ \A d \in Owners(h) : status[d] = "running"
      BY <1>1, <1>2 DEF Watched, Owners
    <3>. QED
      BY <1>1, <1>6, <2>3, <3>1 DEF Inv, Parts, AbsentHasStart
  <2>. QED
    BY <1>3, <2>5, <2>6, <2>7, <2>8
<1>. QED
    BY <1>5, <1>6

\* A container that is removed had stopped before.
LEMMA RemoveKeeps ==
    ASSUME Inv, NEW c \in Containers, ContainerRemove(c)
    PROVE  /\ NothingYet' /\ ListIsCurrent' /\ LastEventIsCurrent'
           /\ WrongHasStop' /\ AbsentHasStart'
<1>1. /\ UNCHANGED <<open, pc, todo, event, registry, run, stream>>
      /\ missed \subseteq missed'
      /\ pc = "subscribe" => c \in missed'
      /\ (Following' <=> Following) /\ Waiting' = Waiting
    BY DEF ContainerRemove, Act, handler, Following, Waiting
<1>2. \A d \in Containers : /\ status'[d] = "running" <=> status[d] = "running"
                            /\ Ip(d)' = Ip(d)
    BY <1>1 DEF Inv, TypeOK, ContainerRemove, Ip
<1>3. NothingYet'
    BY <1>1 DEF Inv, Parts, NothingYet
<1>4. ListIsCurrent'
    BY <1>1, <1>2 DEF Inv, Parts, TypeOK, ListIsCurrent
<1>5. LastEventIsCurrent'
  <2>1. \A i \in DOMAIN Waiting : Waiting[i].id \in Containers
    BY WaitingIds DEF Inv
  <2>. QED
    BY <1>1, <1>2, <2>1 DEF Inv, Parts, LastEventIsCurrent
<1>6. WrongHasStop'
    BY <1>1, <1>2 DEF Inv, Parts, WrongHasStop, Watched, Owners
<1>7. AbsentHasStart'
    BY <1>1, <1>2 DEF Inv, Parts, AbsentHasStart, Watched, Owners
<1>. QED
    BY <1>3, <1>4, <1>5, <1>6, <1>7

\* Nothing but the stream ends with a disconnection.
LEMMA DisconnectKeeps ==
    ASSUME Inv, Disconnect
    PROVE  /\ NothingYet' /\ ListIsCurrent' /\ LastEventIsCurrent'
           /\ WrongHasStop' /\ AbsentHasStart'
    BY DEF Inv, Parts, Disconnect, handler, Following, NothingYet, ListIsCurrent,
           LastEventIsCurrent, WrongHasStop, AbsentHasStart

\* Neither the list nor the subscription has registered anything.
LEMMA SubscriptionKeeps ==
    ASSUME Inv, ContainerList \/ Subscribe \/ GiveUp
    PROVE  /\ NothingYet' /\ ListIsCurrent' /\ LastEventIsCurrent'
           /\ WrongHasStop' /\ AbsentHasStart'
<1>1. CASE ContainerList \/ GiveUp
  <2>1. ~Following'
    BY <1>1 DEF Inv, Parts, NothingYet, ContainerList, GiveUp, Following
  <2>2. NothingYet'
    BY <1>1 DEF Inv, Parts, NothingYet, ContainerList, GiveUp
  <2>3. ListIsCurrent'
    BY <1>1, <2>1 DEF ListIsCurrent, ContainerList, GiveUp, daemon
  <2>. QED
    BY <2>1, <2>2, <2>3 DEF LastEventIsCurrent, WrongHasStop, AbsentHasStart
<1>2. CASE Subscribe
  <2>1. /\ pc = "subscribe" /\ pc' = "listed"
        /\ stream = << >> /\ Waiting' = << >>
        /\ UNCHANGED <<status, missed, todo, registry>>
        /\ \A h \in Hosts : registry[h] = None
    BY <1>2 DEF Inv, Parts, NothingYet, Subscribe, daemon, Waiting
  <2>2. \A c \in Containers \ missed : c \in todo <=> status[c] = "running"
    BY <2>1 DEF Inv, Parts, ListIsCurrent
  <2>3. NothingYet' /\ LastEventIsCurrent' /\ WrongHasStop'
    BY <2>1 DEF NothingYet, LastEventIsCurrent, WrongHasStop
  <2>4. ListIsCurrent'
    BY <2>1, <2>2 DEF Inv, Parts, TypeOK, ListIsCurrent
  <2>5. AbsentHasStart'
    BY <2>1, <2>2 DEF AbsentHasStart, Watched, Owners
  <2>. QED
    BY <2>3, <2>4, <2>5
<1>. QED
    BY <1>1, <1>2

\* A listed container is registered under the address it has by then.
LEMMA RegisterListedKeeps ==
    ASSUME Inv, NEW c \in Containers, RegisterListed(c)
    PROVE  /\ NothingYet' /\ ListIsCurrent' /\ LastEventIsCurrent'
           /\ WrongHasStop' /\ AbsentHasStart'
<1>1. CASE ~Following'
    BY <1>1 DEF RegisterListed, Panic, NothingYet, ListIsCurrent, LastEventIsCurrent,
                WrongHasStop, AbsentHasStart
<1>2. CASE Following'
  <2>1. /\ pc = "listed" /\ pc' = "listed" /\ Following
        /\ UNCHANGED <<status, run, missed, stream, open, event>>
        /\ c \in todo /\ todo' = todo \ {c}
        /\ PutHostnames(c)
    BY <1>2 DEF RegisterListed, Panic, Following, daemon
  <2>2. Waiting' = Waiting /\ \A d \in Containers : Ip(d)' = Ip(d)
    BY <2>1 DEF Waiting, Ip
  <2>3. NothingYet' /\ ListIsCurrent' /\ LastEventIsCurrent'
    BY <2>1, <2>2 DEF Inv, Parts, NothingYet, ListIsCurrent, LastEventIsCurrent
  <2>4. \A h \in Hosts : registry'[h] = IF h \in HostnamesOf[c] THEN Ip(c) ELSE registry[h]
    BY <2>1 DEF PutHostnames
  <2>5. c \in missed \/ status[c] = "running" \/ Follows(Waiting, 0, c, Stops)
    BY <2>1 DEF Inv, Parts, ListIsCurrent
  <2>6. WrongHasStop'
    <3>. SUFFICES ASSUME NEW h \in Hosts, Watched(h), registry'[h] # None
                  PROVE  \/ \E d \in Owners(h) : status[d] = "running" /\ registry'[h] = Ip(d)
                         \/ \E d \in Owners(h) : Follows(Waiting, 0, d, Stops)
      BY <2>1, <2>2 DEF WrongHasStop, Watched, Owners
    <3>1. CASE c \in Owners(h)
      BY <2>4, <2>5, <3>1 DEF Watched, Owners
    <3>2. CASE c \notin Owners(h)
      BY <2>1, <2>4, <3>2 DEF Inv, Parts, WrongHasStop, Owners
    <3>. QED
      BY <3>1, <3>2
  <2>7. AbsentHasStart'
    <3>. SUFFICES ASSUME NEW h \in Hosts, Watched(h), registry'[h] = None, Owners(h) # {},
                         \A d \in Owners(h) : status[d] = "running"
                  PROVE  \E d \in Owners(h) : Follows(Waiting, 0, d, Starts) \/ d \in todo'
      BY <2>1, <2>2 DEF AbsentHasStart, Watched, Owners
    <3>1. CASE c \in Owners(h)
      <4>1. registry'[h] = <<c, run[c]>>
        BY <2>4, <3>1 DEF Owners, Ip
      <4>. QED
        BY <4>1, NoneAssumption DEF Inv, TypeOK
    <3>2. CASE c \notin Owners(h)
      <4>1. registry[h] = None
        BY <2>4, <3>2 DEF Owners
      <4>. QED
        BY <2>1, <3>2, <4>1 DEF Inv, Parts, AbsentHasStart
    <3>. QED
      BY <3>1, <3>2
  <2>. QED
    BY <2>3, <2>6, <2>7
<1>. QED
    BY <1>1, <1>2

\* The end of the list, and reading an event, move no event and no address.
LEMMA ReadKeeps ==
    ASSUME Inv, ListDone \/ NextEvent
    PROVE  /\ NothingYet' /\ ListIsCurrent' /\ LastEventIsCurrent'
           /\ WrongHasStop' /\ AbsentHasStart'
<1>1. CASE ~Following'
    BY <1>1 DEF ListDone, NextEvent, Panic, NothingYet, ListIsCurrent, LastEventIsCurrent,
                WrongHasStop, AbsentHasStart
<1>2. CASE Following'
  <2>1. /\ UNCHANGED <<status, run, missed, registry, open>>
        /\ Following
        /\ pc' \in {"loop", "handle"}
        /\ pc = "listed" => todo = {}
    BY <1>2 DEF ListDone, NextEvent, Panic, Following, daemon
  <2>2. Waiting' = Waiting
    <3>1. CASE ListDone
      BY <3>1 DEF ListDone, Waiting
    <3>2. CASE NextEvent
      <4>1. pc' = "handle"
        BY <1>2, <3>2 DEF NextEvent, Panic, Following
      <4>. QED
        BY <3>2, <4>1, NextEventWaiting DEF Inv
    <3>. QED
      BY <3>1, <3>2
  <2>3. \A d \in Containers : Ip(d)' = Ip(d)
    BY <2>1 DEF Ip
  <2>4. NothingYet' /\ ListIsCurrent'
    BY <2>1 DEF NothingYet, ListIsCurrent
  <2>5. LastEventIsCurrent'
    BY <2>1, <2>2 DEF Inv, Parts, LastEventIsCurrent
  <2>6. WrongHasStop'
    BY <2>1, <2>2, <2>3 DEF Inv, Parts, WrongHasStop, Watched, Owners
  <2>7. AbsentHasStart'
    BY <2>1, <2>2 DEF Inv, Parts, AbsentHasStart, Watched, Owners
  <2>. QED
    BY <2>4, <2>5, <2>6, <2>7
<1>. QED
    BY <1>1, <1>2

\* Once an event is handled, what was to follow it still follows, and nothing
\* but this event is gone.
LEMMA HandleFollows ==
    ASSUME TypeOK, pc = "handle", pc' = "loop", UNCHANGED stream
    PROVE  /\ \A i \in Nat : \A d, K : Follows(Waiting, i + 1, d, K) => Follows(Waiting', i, d, K)
           /\ \A d, K : Follows(Waiting, 0, d, K) =>
                  \/ Follows(Waiting', 0, d, K)
                  \/ event.id = d /\ event.action \in K
<1>1. /\ Waiting \in Seq(Event) /\ Waiting # << >>
      /\ Waiting[1] = event /\ Waiting' = Tail(Waiting)
    BY WaitingType, HandleWaiting
<1>2. \A i \in Nat : \A d, K : Follows(Waiting, i + 1, d, K) => Follows(Waiting', i, d, K)
    BY <1>1, FollowsTail
<1>3. ASSUME NEW d, NEW K, Follows(Waiting, 0, d, K)
      PROVE  Follows(Waiting', 0, d, K) \/ (event.id = d /\ event.action \in K)
  <2>1. PICK j \in DOMAIN Waiting : j > 0 /\ Waiting[j].id = d /\ Waiting[j].action \in K
    BY <1>3 DEF Follows
  <2>2. CASE j = 1
    BY <1>1, <2>1, <2>2
  <2>3. CASE j # 1
    <3>1. j > 0 + 1
      BY <1>1, <2>1, <2>3
    <3>2. Follows(Waiting, 0 + 1, d, K)
      BY <2>1, <3>1 DEF Follows
    <3>. QED
      BY <1>2, <3>2
  <2>. QED
    BY <2>2, <2>3
<1>. QED
    BY <1>2, <1>3

\* The last event of a container still tells its status once one is handled.
LEMMA HandleLastEvent ==
    ASSUME Inv, pc = "handle", pc' = "loop", UNCHANGED <<stream, status, open>>
    PROVE  LastEventIsCurrent'
<1>. SUFFICES ASSUME Following', NEW i \in DOMAIN Waiting'
              PROVE  LET e == Waiting'[i]
                     IN  /\ e.action \in Starts =>
                                status'[e.id] = "running" \/ Follows(Waiting', i, e.id, Stops)
                         /\ e.action \in Stops =>
                                status'[e.id] # "running" \/ Follows(Waiting', i, e.id, Starts)
    BY DEF LastEventIsCurrent
<1>1. /\ Waiting \in Seq(Event) /\ Waiting # << >> /\ Waiting' = Tail(Waiting)
    BY WaitingType, HandleWaiting DEF Inv
<1>2. i \in Nat /\ i + 1 \in DOMAIN Waiting /\ Waiting'[i] = Waiting[i + 1]
    BY <1>1
<1>3. \A d, K : Follows(Waiting, i + 1, d, K) => Follows(Waiting', i, d, K)
    BY <1>2, HandleFollows DEF Inv
<1>4. LET e == Waiting[i + 1]
      IN  /\ e.action \in Starts =>
                 status[e.id] = "running" \/ Follows(Waiting, i + 1, e.id, Stops)
          /\ e.action \in Stops =>
                 status[e.id] # "running" \/ Follows(Waiting, i + 1, e.id, Starts)
    BY <1>2 DEF Inv, Parts, LastEventIsCurrent, Following
<1>. QED
    BY <1>2, <1>3, <1>4

\* A start that is handled registers the address of the present run, or the
\* empty address of a container whose stop is on its way.
LEMMA HandleStartKeeps ==
    ASSUME Inv, HandleStart
    PROVE  /\ NothingYet' /\ ListIsCurrent' /\ LastEventIsCurrent'
           /\ WrongHasStop' /\ AbsentHasStart'
<1>1. CASE ~Following'
    BY <1>1 DEF HandleStart, Panic, NothingYet, ListIsCurrent, LastEventIsCurrent,
                WrongHasStop, AbsentHasStart
<1>2. CASE Following'
  <2>1. /\ pc = "handle" /\ pc' = "loop" /\ Following
        /\ UNCHANGED <<status, run, missed, stream, open>>
        /\ event.action = "start"
        /\ PutHostnames(event.id)
    BY <1>2 DEF HandleStart, Panic, Following, daemon
  <2>. DEFINE c == event.id
  <2>2. c \in Containers
    BY <2>1 DEF Inv, TypeOK, Event
  <2>3. \A d \in Containers : Ip(d)' = Ip(d)
    BY <2>1 DEF Ip
  <2>4. /\ \A d : Follows(Waiting, 0, d, Stops) => Follows(Waiting', 0, d, Stops)
        /\ \A d : Follows(Waiting, 0, d, Starts) => Follows(Waiting', 0, d, Starts) \/ d = c
    BY <2>1, HandleFollows DEF Inv, Stops
  <2>5. status[c] = "running" \/ Follows(Waiting', 0, c, Stops)
    <3>1. 1 \in DOMAIN Waiting /\ Waiting[1] = event
      BY <2>1, HandleWaiting DEF Inv
    <3>2. status[c] = "running" \/ Follows(Waiting, 0 + 1, c, Stops)
      BY <2>1, <3>1 DEF Inv, Parts, LastEventIsCurrent, Starts
    <3>. QED
      BY <2>1, <3>2, HandleFollows DEF Inv
  <2>6. \A h \in Hosts : registry'[h] = IF h \in HostnamesOf[c] THEN Ip(c) ELSE registry[h]
    BY <2>1 DEF PutHostnames
  <2>. HIDE DEF c
  <2>7. NothingYet' /\ ListIsCurrent'
    BY <2>1 DEF NothingYet, ListIsCurrent
  <2>8. LastEventIsCurrent'
    BY <2>1, HandleLastEvent
  <2>9. WrongHasStop'
    <3>. SUFFICES ASSUME NEW h \in Hosts, Watched(h), registry'[h] # None
                  PROVE  \/ \E d \in Owners(h) : status[d] = "running" /\ registry'[h] = Ip(d)
                         \/ \E d \in Owners(h) : Follows(Waiting', 0, d, Stops)
      BY <2>1, <2>3 DEF WrongHasStop, Watched, Owners
    <3>1. CASE c \in Owners(h)
      BY <2>5, <2>6, <3>1 DEF Owners
    <3>2. CASE c \notin Owners(h)
      <4>1. registry'[h] = registry[h]
        BY <2>2, <2>6, <3>2 DEF Owners
      <4>. QED
        BY <2>1, <2>4, <4>1 DEF Inv, Parts, WrongHasStop
    <3>. QED
      BY <3>1, <3>2
  <2>10. AbsentHasStart'
    <3>. SUFFICES ASSUME NEW h \in Hosts, Watched(h), registry'[h] = None, Owners(h) # {},
                         \A d \in Owners(h) : status[d] = "running"
                  PROVE  \E d \in Owners(h) : Follows(Waiting', 0, d, Starts)
      BY <2>1 DEF AbsentHasStart, Watched, Owners
    <3>1. CASE c \in Owners(h)
      <4>1. registry'[h] = <<c, run[c]>>
        BY <2>6, <3>1 DEF Owners, Ip
      <4>. QED
        BY <2>2, <4>1, NoneAssumption DEF Inv, TypeOK
    <3>2. CASE c \notin Owners(h)
      <4>1. registry[h] = None
        BY <2>2, <2>6, <3>2 DEF Owners
      <4>. QED
        BY <2>1, <2>4, <3>2, <4>1 DEF Inv, Parts, AbsentHasStart
    <3>. QED
      BY <3>1, <3>2
  <2>. QED
    BY <2>7, <2>8, <2>9, <2>10
<1>. QED
    BY <1>1, <1>2

\* A stop that is handled takes the name away; if all its owners run, one of
\* them has started since, and that start is on its way.
LEMMA HandleStopKeeps ==
    ASSUME Inv, HandleStop
    PROVE  /\ NothingYet' /\ ListIsCurrent' /\ LastEventIsCurrent'
           /\ WrongHasStop' /\ AbsentHasStart'
<1>1. /\ pc = "handle" /\ pc' = "loop"
      /\ UNCHANGED <<status, run, missed, stream, open>>
      /\ event.action \in Stops
      /\ \A h \in Hosts : registry'[h] = IF h \in HostnamesOf[event.id] THEN None ELSE registry[h]
    BY DEF HandleStop, daemon, Stops
<1>. DEFINE c == event.id
<1>2. c \in Containers
    BY <1>1 DEF Inv, TypeOK, Event
<1>3. \A d \in Containers : Ip(d)' = Ip(d)
    BY <1>1 DEF Ip
<1>4. NothingYet' /\ ListIsCurrent'
    BY <1>1 DEF NothingYet, ListIsCurrent
<1>5. LastEventIsCurrent'
    BY <1>1, HandleLastEvent
<1>6. CASE ~Following'
    BY <1>4, <1>5, <1>6 DEF WrongHasStop, AbsentHasStart
<1>7. CASE Following'
  <2>1. Following
    BY <1>1, <1>7 DEF Following
  <2>2. /\ \A d : Follows(Waiting, 0, d, Starts) => Follows(Waiting', 0, d, Starts)
        /\ \A d : Follows(Waiting, 0, d, Stops) => Follows(Waiting', 0, d, Stops) \/ d = c
    BY <1>1, HandleFollows DEF Inv, Starts, Stops
  <2>3. status[c] # "running" \/ Follows(Waiting', 0, c, Starts)
    <3>1. 1 \in DOMAIN Waiting /\ Waiting[1] = event
      BY <1>1, HandleWaiting DEF Inv
    <3>2. status[c] # "running" \/ Follows(Waiting, 0 + 1, c, Starts)
      BY <1>1, <2>1, <3>1 DEF Inv, Parts, LastEventIsCurrent
    <3>. QED
      BY <1>1, <3>2, HandleFollows DEF Inv
  <2>. HIDE DEF c
  <2>4. \A h \in Hosts : registry'[h] = IF h \in HostnamesOf[c] THEN None ELSE registry[h]
    BY <1>1 DEF c
  <2>5. WrongHasStop'
    <3>. SUFFICES ASSUME NEW h \in Hosts, Watched(h), registry'[h] # None
                  PROVE  \/ \E d \in Owners(h) : status[d] = "running" /\ registry'[h] = Ip(d)
                         \/ \E d \in Owners(h) : Follows(Waiting', 0, d, Stops)
      BY <1>1, <1>3 DEF WrongHasStop, Watched, Owners
    <3>1. c \notin Owners(h) /\ registry'[h] = registry[h]
      BY <2>4 DEF Owners
    <3>. QED
      BY <2>1, <2>2, <3>1 DEF Inv, Parts, WrongHasStop
  <2>6. AbsentHasStart'
    <3>. SUFFICES ASSUME NEW h \in Hosts, Watched(h), registry'[h] = None, Owners(h) # {},
                         \A d \in Owners(h) : status[d] = "running"
                  PROVE  \E d \in Owners(h) : Follows(Waiting', 0, d, Starts)
      BY <1>1 DEF AbsentHasStart, Watched, Owners
    <3>1. CASE c \in Owners(h)
      BY <2>3, <3>1
    <3>2. CASE c \notin Owners(h)
      <4>1. registry[h] = None
        BY <1>2, <2>4, <3>2 DEF Owners
      <4>. QED
        BY <1>1, <2>1, <2>2, <4>1 DEF Inv, Parts, AbsentHasStart
    <3>. QED
      BY <3>1, <3>2
  <2>. QED
    BY <1>4, <1>5, <2>5, <2>6
<1>. QED
    BY <1>6, <1>7

\* Every step keeps the invariant.
LEMMA NextInv == Inv /\ [Next]_vars => Inv'
<1>. SUFFICES ASSUME Inv, [Next]_vars PROVE Inv'
    OBVIOUS
<1>1. TypeOK'
    BY NextTypeOK DEF Inv
<1>. SUFFICES Parts'
    BY <1>1 DEF Inv
<1>2. ASSUME NEW c \in Containers, ContainerStart(c) \/ ContainerStop(c) \/ ContainerRemove(c)
      PROVE  Parts'
    BY <1>2, StartKeeps, StopKeeps, RemoveKeeps DEF Parts
<1>3. CASE Disconnect
    BY <1>3, DisconnectKeeps DEF Parts
<1>4. CASE ContainerList \/ Subscribe \/ GiveUp
    BY <1>4, SubscriptionKeeps DEF Parts
<1>5. ASSUME NEW c \in Containers, RegisterListed(c) PROVE Parts'
    BY <1>5, RegisterListedKeeps DEF Parts
<1>6. CASE ListDone \/ NextEvent
    BY <1>6, ReadKeeps DEF Parts
<1>7. CASE HandleStart \/ HandleStop
    BY <1>7, HandleStartKeeps, HandleStopKeeps DEF Parts
<1>8. CASE EndOfStream \/ StreamBreaks
    BY <1>8 DEF EndOfStream, StreamBreaks, Panic, Following, NothingYet, ListIsCurrent,
                LastEventIsCurrent, WrongHasStop, AbsentHasStart, Parts
<1>9. CASE UNCHANGED vars
    BY <1>9 DEF vars, Inv, Following, Waiting, Watched, Owners, Ip, NothingYet, ListIsCurrent,
                LastEventIsCurrent, WrongHasStop, AbsentHasStart, Parts
<1>. QED
    BY <1>2, <1>3, <1>4, <1>5, <1>6, <1>7, <1>8, <1>9 DEF Next, HandlerStep, DaemonStep

\* The invariant holds in every reachable state.
LEMMA Invariance == Spec => []Inv
<1>1. Init => NothingYet /\ ListIsCurrent /\ LastEventIsCurrent /\ WrongHasStop /\ AbsentHasStart
    BY DEF Init, Following, NothingYet, ListIsCurrent, LastEventIsCurrent, WrongHasStop,
           AbsentHasStart
<1>2. Init /\ TypeOK => Inv
    BY <1>1 DEF Inv, Parts
<1>. QED
    BY <1>2, NextInv, TypeCorrect, PTL DEF Spec
-----------------------------------------------------------------------------
(***************************************************************************)
(* The results                                                             *)
(***************************************************************************)
\* Whenever the handler has caught up, a host name leads to the address of the
\* present run of one of its owners, or to nothing, and to nothing only when an
\* owner does not run: whatever containers did between an event and the
\* inspection that mustInspectContainer makes for it.
THEOREM RegistryCorrect == Spec => []RegistryMatchesDaemon
<1>1. Inv => RegistryMatchesDaemon
  <2>. SUFFICES ASSUME Inv, CaughtUp, NEW h \in Hosts, Watched(h)
                PROVE  /\ \/ registry[h] = None
                          \/ \E c \in Owners(h) : status[c] = "running" /\ registry[h] = Ip(c)
                       /\ registry[h] = None =>
                              \/ \E c \in Owners(h) : status[c] # "running"
                              \/ Owners(h) = {}
    BY DEF RegistryMatchesDaemon, Watched, Owners
  <2>1. Following /\ pc = "loop" /\ Waiting = << >>
    BY DEF CaughtUp, Following, Waiting
  <2>2. \A c, K : ~Follows(Waiting, 0, c, K)
    BY <2>1 DEF Follows
  <2>. QED
    BY <2>1, <2>2 DEF Inv, Parts, WrongHasStop, AbsentHasStart
<1>. QED
    BY <1>1, Invariance, PTL

\* A stale address stays in the registry only while an event that will correct
\* it is on its way to handleEvent.
THEOREM StaleIsTemporary == Spec => []StaleAddressHasEvent
<1>1. Inv => StaleAddressHasEvent
  <2>. SUFFICES ASSUME Inv, NEW h \in Hosts, NEW c \in Containers,
                       Owners(h) = {c}, c \notin missed, open,
                       pc \in {"listed", "loop", "handle"},
                       registry[h] \notin {None, Ip(c)}
                PROVE  \/ \E i \in DOMAIN stream : stream[i].id = c
                       \/ pc = "handle" /\ event.id = c
    BY DEF StaleAddressHasEvent
  <2>1. Follows(Waiting, 0, c, Stops)
    BY DEF Inv, Parts, WrongHasStop, Following, Watched
  <2>2. PICK j \in DOMAIN Waiting : Waiting[j].id = c
    BY <2>1 DEF Follows
  <2>3. CASE pc = "handle"
    <3>1. /\ Waiting = <<event>> \o stream
          /\ <<event>> \in Seq(Event) /\ stream \in Seq(Event)
      BY <2>3 DEF Inv, TypeOK, Waiting
    <3>2. CASE j = 1
      BY <2>2, <2>3, <3>1, <3>2
    <3>3. CASE j # 1
      <4>1. j - 1 \in DOMAIN stream /\ stream[j - 1] = Waiting[j]
        BY <3>1, <3>3
      <4>. QED
        BY <2>2, <4>1
    <3>. QED
      BY <3>2, <3>3
  <2>4. CASE pc # "handle"
    BY <2>2, <2>4 DEF Waiting
  <2>. QED
    BY <2>3, <2>4
<1>. QED
    BY <1>1, Invariance, PTL

\* The goroutine panics, and takes the proxy with it, only after the stream
\* ended or a container was removed: no other order of events and inspections
\* makes mustInspectContainer fail.
THEOREM PanicCause == Spec => []PanicNeedsLoss
<1>1. Init => PanicNeedsLoss
    BY DEF Init, PanicNeedsLoss
<1>2. TypeOK /\ PanicNeedsLoss /\ [Next]_vars => PanicNeedsLoss'
  <2>. SUFFICES ASSUME TypeOK, PanicNeedsLoss, [Next]_vars, pc' = "dead"
                PROVE  ~open' \/ \E c \in Containers : status'[c] = "removed"
    BY DEF PanicNeedsLoss
  <2>1. CASE pc = "dead"
    BY <2>1 DEF PanicNeedsLoss, Next, HandlerStep, GiveUp, ContainerList, Subscribe,
                RegisterListed, ListDone, NextEvent, HandleStart, HandleStop, EndOfStream,
                StreamBreaks, vars
  <2>2. CASE pc # "dead"
    <3>1. ASSUME NEW c \in Containers, RegisterListed(c)
          PROVE  \E d \in Containers : status'[d] = "removed"
      BY <2>2, <3>1 DEF RegisterListed, daemon
    <3>2. CASE NextEvent
      <4>1. Head(stream) \in Event
        BY <3>2 DEF TypeOK, NextEvent
      <4>2. Head(stream).id \in Containers
        BY <4>1 DEF Event
      <4>. QED
        BY <2>2, <3>2, <4>2 DEF NextEvent, daemon
    <3>3. CASE HandleStart
      <4>1. event.id \in Containers
        BY <3>3 DEF TypeOK, HandleStart, Event
      <4>. QED
        BY <2>2, <3>3, <4>1 DEF HandleStart, daemon
    <3>4. CASE StreamBreaks
      BY <3>4 DEF StreamBreaks
    <3>5. pc' # pc
      BY <2>2
    <3>. QED
      BY <2>2, <3>1, <3>2, <3>3, <3>4, <3>5
         DEF Next, HandlerStep, DaemonStep, ContainerStart, ContainerStop, ContainerRemove, Act,
             Disconnect, GiveUp, ContainerList, Subscribe, ListDone, HandleStop, EndOfStream,
             handler, vars
  <2>. QED
    BY <2>1, <2>2
<1>. QED
    BY <1>1, <1>2, TypeCorrect, PTL DEF Spec
===============================================================================
