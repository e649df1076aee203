----------------------------- MODULE DockerEvents -----------------------------
(***************************************************************************)
(* The registry of container host names (events/docker/docker.go): the     *)
(* handler lists the running containers, subscribes to the daemon's        *)
(* events, registers the listed containers and then follows the events.    *)
(* Each time it inspects the container as it is at that moment, which need *)
(* not be what it was when the event was sent.                             *)
(***************************************************************************)
EXTENDS Naturals, Sequences, FiniteSets

CONSTANTS Containers,   \* containers
          Hosts,        \* host names
          HostnamesOf,  \* the host names each container registers
          NoIp,         \* the address "" of a container without a network
          None,         \* not registered
          MaxActions    \* bound: starts, stops and removals by the daemon

Address == (Containers \X Nat) \cup {NoIp, None}
Event == [id : Containers, action : {"start", "stop", "die"}]

ASSUME HostnamesAssumption == HostnamesOf \in [Containers -> SUBSET Hosts]
ASSUME NoneAssumption == None \notin Event /\ None \notin Containers \X Nat
ASSUME BoundAssumption == MaxActions \in Nat

VARIABLES status,   \* of each container in the daemon
          run,      \* how often each container has been started
          stream,   \* events sent and not yet read
          open,     \* the handler has subscribed and the daemon is connected
          pc,       \* where the handler is
          todo,     \* listed containers that are not yet registered
          event,    \* the event being handled
          registry, \* host name -> address
          actions,  \* actions of the daemon
          missed    \* history: containers that changed between list and subscription

vars == <<status, run, stream, open, pc, todo, event, registry, actions, missed>>
handler == <<pc, todo, event, registry>>
-----------------------------------------------------------------------------
\* A container gets a new address whenever it starts.
Ip(c) == IF status[c] = "running" THEN <<c, run[c]>> ELSE NoIp

Init ==
    /\ status \in [Containers -> {"stopped", "running"}]
    /\ run = [c \in Containers |-> 0]
    /\ stream = << >>
    /\ open = FALSE
    /\ pc = "connect"
    /\ todo = {}
    /\ event = None
    /\ registry = [h \in Hosts |-> None]
    /\ actions = 0
    /\ missed = {}
-----------------------------------------------------------------------------
(***************************************************************************)
(* The docker daemon.  Stopping a container sends "die", and "stop" too    *)
(* when it was stopped by hand.                                            *)
(***************************************************************************)
Act(c) ==
    /\ actions < MaxActions
    /\ actions' = actions + 1
    /\ missed' = IF pc = "subscribe" THEN missed \cup {c} ELSE missed
    /\ UNCHANGED <<open, handler>>

Send(events) == stream' = IF open THEN stream \o events ELSE stream

ContainerStart(c) ==
    /\ status[c] = "stopped"
    /\ status' = [status EXCEPT ![c] = "running"]
    /\ run' = [run EXCEPT ![c] = @ + 1]
    /\ Send(<<[id |-> c, action |-> "start"]>>)
    /\ Act(c)

ContainerStop(c) ==
    /\ status[c] = "running"
    /\ status' = [status EXCEPT ![c] = "stopped"]
    /\ \/ Send(<<[id |-> c, action |-> "die"]>>)
       \/ Send(<<[id |-> c, action |-> "die"], [id |-> c, action |-> "stop"]>>)
    /\ Act(c)
    /\ UNCHANGED run

ContainerRemove(c) ==
    /\ status[c] = "stopped"
    /\ status' = [status EXCEPT ![c] = "removed"]
    /\ Act(c)
    /\ UNCHANGED <<run, stream>>

\* The daemon closes the connection after what it has sent.
Disconnect ==
    /\ open
    /\ actions < MaxActions
    /\ actions' = actions + 1
    /\ open' = FALSE
    /\ UNCHANGED <<status, run, stream, handler, missed>>
-----------------------------------------------------------------------------
(***************************************************************************)
(* HandleDockerEvents                                                      *)
(***************************************************************************)
daemon == <<status, run, actions, missed>>

\* There is no daemon, or the list or the subscription fails: the handler
\* returns and is not started again.
GiveUp ==
    /\ pc \in {"connect", "subscribe"}
    /\ pc' = "returned"
    /\ UNCHANGED <<daemon, stream, open, todo, event, registry>>

ContainerList ==
    /\ pc = "connect"
    /\ todo' = {c \in Containers : status[c] = "running"}
    /\ pc' = "subscribe"
    /\ UNCHANGED <<daemon, stream, open, event, registry>>

Subscribe ==
    /\ pc = "subscribe"
    /\ open' = TRUE
    /\ pc' = "listed"
    /\ UNCHANGED <<daemon, stream, todo, event, registry>>

PutHostnames(c) ==
    registry' = [h \in Hosts |-> IF h \in HostnamesOf[c] THEN Ip(c) ELSE registry[h]]

\* mustInspectContainer panics, and the process dies: no recover covers this
\* goroutine.
Panic == pc' = "dead" /\ UNCHANGED <<todo, event, registry>>

RegisterListed(c) ==
    /\ pc = "listed"
    /\ c \in todo
    /\ \/ status[c] = "removed" /\ Panic
       \/ /\ status[c] # "removed"
          /\ PutHostnames(c)
          /\ todo' = todo \ {c}
          /\ UNCHANGED <<pc, event>>
    /\ UNCHANGED <<daemon, stream, open>>

ListDone ==
    /\ pc = "listed"
    /\ todo = {}
    /\ pc' = "loop"
    /\ UNCHANGED <<daemon, stream, open, todo, event, registry>>

\* Mutants of NextEvent: an event that does not decode is handled all the
\* same; what was read together with the event is dropped; a container
\* without a network fails the inspection.
NextEventUndecoded ==
    /\ pc = "loop"
    /\ stream # << >>
    /\ stream' = Tail(stream)
    /\ event' = None
    /\ pc' = "handle"
    /\ UNCHANGED <<daemon, open, todo, registry>>

NextEventDropping ==
    /\ pc = "loop"
    /\ stream # << >>
    /\ stream' = << >>
    /\ \/ status[Head(stream).id] = "removed" /\ Panic
       \/ /\ status[Head(stream).id] # "removed"
          /\ event' = Head(stream)
          /\ pc' = "handle"
          /\ UNCHANGED <<todo, registry>>
    /\ UNCHANGED <<daemon, open>>

NextEventNeedingNetwork ==
    /\ pc = "loop"
    /\ stream # << >>
    /\ stream' = Tail(stream)
    /\ \/ status[Head(stream).id] # "running" /\ Panic
       \/ /\ status[Head(stream).id] = "running"
          /\ event' = Head(stream)
          /\ pc' = "handle"
          /\ UNCHANGED <<todo, registry>>
    /\ UNCHANGED <<daemon, open>>

\* The first inspection of an event, which gives the host names.
NextEvent ==
    /\ pc = "loop"
    /\ stream # << >>
    /\ stream' = Tail(stream)
    /\ \/ status[Head(stream).id] = "removed" /\ Panic
       \/ /\ status[Head(stream).id] # "removed"
          /\ event' = Head(stream)
          /\ pc' = "handle"
          /\ UNCHANGED <<todo, registry>>
    /\ UNCHANGED <<daemon, open>>

\* A start inspects the container again for its address.
HandleStart ==
    /\ pc = "handle"
    /\ event.action = "start"
    /\ \/ status[event.id] = "removed" /\ Panic
       \/ /\ status[event.id] # "removed"
          /\ PutHostnames(event.id)
          /\ pc' = "loop"
          /\ event' = None
          /\ UNCHANGED todo
    /\ UNCHANGED <<daemon, stream, open>>

\* Mutants of HandleStop: "die" is not handled; the handler returns.
HandleStopIgnoringDie ==
    /\ pc = "handle"
    /\ event.action \in {"stop", "die"}
    /\ registry' = [h \in Hosts |-> IF h \in HostnamesOf[event.id] /\ event.action = "stop"
                                    THEN None ELSE registry[h]]
    /\ pc' = "loop"
    /\ event' = None
    /\ UNCHANGED <<daemon, stream, open, todo>>

HandleStopAndReturn ==
    /\ pc = "handle"
    /\ event.action \in {"stop", "die"}
    /\ registry' = [h \in Hosts |-> IF h \in HostnamesOf[event.id] THEN None
                                    ELSE registry[h]]
    /\ pc' = "returned"
    /\ event' = None
    /\ UNCHANGED <<daemon, stream, open, todo>>

\* The host names are removed, whichever container registered them last.
HandleStop ==
    /\ pc = "handle"
    /\ event.action \in {"stop", "die"}
    /\ registry' = [h \in Hosts |-> IF h \in HostnamesOf[event.id] THEN None
                                    ELSE registry[h]]
    /\ pc' = "loop"
    /\ event' = None
    /\ UNCHANGED <<daemon, stream, open, todo>>

\* io.EOF: the loop breaks and the handler returns.
EndOfStream ==
    /\ pc = "loop"
    /\ stream = << >>
    /\ ~open
    /\ pc' = "returned"
    /\ UNCHANGED <<daemon, stream, open, todo, event, registry>>

\* The stream ends in the middle of an event: only io.EOF breaks the loop, so
\* an empty event is handled, and there is no container of that id.
StreamBreaks ==
    /\ pc = "loop"
    /\ stream = << >>
    /\ ~open
    /\ Panic
    /\ UNCHANGED <<daemon, stream, open>>

HandlerStep ==
    \/ ContainerList \/ Subscribe
    \/ \E c \in Containers : RegisterListed(c)
    \/ ListDone \/ NextEvent \/ HandleStart \/ HandleStop
    \/ EndOfStream \/ StreamBreaks

DaemonStep ==
    \/ \E c \in Containers : ContainerStart(c) \/ ContainerStop(c) \/ ContainerRemove(c)
    \/ Disconnect

Next == (pc # "dead" /\ DaemonStep) \/ HandlerStep \/ GiveUp

Spec == Init /\ [][Next]_vars
FairSpec == Spec /\ WF_vars(HandlerStep)
-----------------------------------------------------------------------------
(***************************************************************************)
(* Properties                                                              *)
(***************************************************************************)
\* The type of every variable.
TypeOK ==
    /\ status \in [Containers -> {"stopped", "running", "removed"}]
    /\ run \in [Containers -> Nat]
    /\ stream \in Seq(Event)
    /\ open \in BOOLEAN
    /\ pc \in {"connect", "subscribe", "listed", "loop", "handle", "returned", "dead"}
    /\ todo \subseteq Containers
    /\ event \in Event \cup {None}
    /\ pc = "handle" => event # None
    /\ registry \in [Hosts -> Address]
    /\ actions \in 0..MaxActions
    /\ missed \subseteq Containers

Owners(h) == {c \in Containers : h \in HostnamesOf[c]}
\* The handler has caught up with the daemon.
CaughtUp == pc = "loop" /\ stream = << >> /\ open

\* Whenever the handler has caught up, a host name leads to the address of the
\* present run of a container that owns it, or to nothing; to nothing only when
\* one of its owners does not run, for the stop of one takes the name from the
\* others too.  This holds whatever the containers did between an event and its
\* inspection, except for names of containers that changed between the list and
\* the subscription.
RegistryMatchesDaemon ==
    CaughtUp =>
        \A h \in Hosts :
            LET running == {c \in Owners(h) : status[c] = "running"}
            IN  Owners(h) \cap missed = {} =>
                    /\ registry[h] \in {Ip(c) : c \in running} \cup {None}
                    /\ registry[h] = None => running # Owners(h) \/ Owners(h) = {}

\* An address that is no longer a container's own is in the registry only while
\* an event for that container waits, or it was missed.
StaleAddressHasEvent ==
    \A h \in Hosts, c \in Containers :
        /\ Owners(h) = {c}
        /\ c \notin missed
        /\ open
        /\ pc \in {"listed", "loop", "handle"}
        /\ registry[h] \notin {None, Ip(c)}
        => \/ \E i \in DOMAIN stream : stream[i].id = c
           \/ pc = "handle" /\ event.id = c

\* The proxy dies of a failed inspection only when a container was removed
\* while the handler still had to look at it, or when the stream broke off.
PanicNeedsLoss == pc = "dead" => ~open \/ \E c \in Containers : status[c] = "removed"

\* Every event that was sent is handled, or the process has died.
EventsAreHandled == stream # << >> ~> stream = << >> \/ pc = "dead"

\* No running container is missed: whenever the handler has caught up, the
\* host names of every running container are registered.
NoContainerMissed ==
    CaughtUp =>
        \A h \in Hosts, c \in Containers :
            Owners(h) = {c} /\ status[c] = "running" => registry[h] = Ip(c)
===============================================================================
