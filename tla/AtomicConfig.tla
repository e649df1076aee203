----------------------------- MODULE AtomicConfig -----------------------------
(***************************************************************************)
(* What a user of the REST API expects of the configuration: a document to *)
(* which each operation is applied at once, or which a rejected operation  *)
(* leaves alone.                                                           *)
(***************************************************************************)
EXTENDS LocalConfiguration

CONSTANTS InitialFiles, FirstClock, Requests

VARIABLES doc,    \* the document
          clock   \* the readings of the clock that ids are drawn from

Init == doc \in InitialFiles /\ clock = FirstClock

Accept(o) ==
    /\ Perform(o, doc, clock) # Rejected
    /\ doc' = WithSomeEnv(Perform(o, doc, clock))
    /\ clock' = clock + IdsDrawn(o)

Reject(o) ==
    /\ Perform(o, doc, clock) = Rejected
    /\ doc' = doc
    /\ clock' = clock + IdsDrawn(o)

Next == \E o \in Requests : Accept(o) \/ Reject(o)

Spec == Init /\ [][Next]_<<doc, clock>>
===============================================================================
