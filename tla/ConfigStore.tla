------------------------------ MODULE ConfigStore ------------------------------
(***************************************************************************)
(* The configuration file and the goroutines that read and rewrite it      *)
(* (events/local/local.go, controller/v1).  Every HTTP request and every   *)
(* DNS query is a goroutine of its own; nothing locks the file.  An        *)
(* operation loads the whole file, changes the copy and saves it back; a   *)
(* save truncates the file, encodes the document, clears the caches and    *)
(* only then flushes the writer, so readers meet an empty file, and two    *)
(* saves may write over each other.  A load is itself a writer when the    *)
(* file is missing or holds entries without an id.                         *)
(***************************************************************************)
EXTENDS LocalConfiguration

CONSTANTS Procs,        \* goroutines that use the configuration
          Readers,      \* those of them that only load it
          Missing,      \* there is no file
          Empty,        \* the file is truncated
          Corrupt,      \* the file holds the bytes of two documents
          InitialFiles, \* what config.json may be when the proxy starts
          FirstClock,   \* the first reading of the clock
          Requests,     \* the operations clients ask for
          NumCaches,    \* caches ClearAllCaches clears, the main one first
          MaxRequests,  \* bound: operations started
          MaxCrashes,   \* bound: crashes of the proxy
          DiskFaults    \* whether reading or opening the file may fail

ASSUME RequestsAssumption == Requests \subseteq Operation
ASSUME ReadersAssumption == Readers \subseteq Procs
ASSUME BoundsAssumption ==
    /\ NumCaches \in Nat \ {0}
    /\ FirstClock \in Nat \ {0}
    /\ MaxRequests \in Nat
    /\ MaxCrashes \in Nat
    /\ DiskFaults \in BOOLEAN
ASSUME FileStateAssumption ==
    /\ {Missing, Empty, Corrupt} \cap Configuration = {}
    /\ Missing # Empty /\ Missing # Corrupt /\ Empty # Corrupt
\* The file a user leaves is absent, or a document whose environments and ids
\* are distinct and whose ids were drawn in the past.
ASSUME InitialFilesAssumption ==
    \A f \in InitialFiles :
        \/ f = Missing
        \/ /\ f \in Configuration
           /\ UniqueEnvs(f)
           /\ DistinctIds(f)
           /\ \A p \in EntryPositions(f) : IdAt(f, p) < FirstClock

VARIABLES file,       \* the content of config.json
          pc,         \* where each goroutine is
          op,         \* the operation it performs
          conf,       \* its copy of the configuration
          ret,        \* where it goes after a save: "apply" or "idle"
          buffered,   \* its document is still in the bufio.Writer
          clear,      \* caches its ClearAllCaches has cleared
          reply,      \* what its last operation returned
          clock,      \* time.Now().UnixNano(), a reading never seen before
          requests,   \* operations started
          crashes,    \* crashes so far
          torn        \* history: since the last save that ran alone, a crash
                      \* or another save fell between truncation and write

vars == <<file, pc, op, conf, ret, buffered, clear, reply, clock, requests,
          crashes, torn>>
-----------------------------------------------------------------------------
NoOp == [kind |-> "read"]

\* p has truncated the file and not yet written its document.
Unwritten(p) == pc[p] = "encode" \/ buffered[p]
AloneIn(p) == \A q \in Procs \ {p} : ~Unwritten(q)

\* The operation of p returns, and its local variables are gone.
Finish(p, result) ==
    /\ pc' = [pc EXCEPT ![p] = "idle"]
    /\ reply' = [reply EXCEPT ![p] = result]
    /\ op' = [op EXCEPT ![p] = NoOp]
    /\ conf' = [conf EXCEPT ![p] = DefaultConfiguration]
    /\ ret' = [ret EXCEPT ![p] = "idle"]
    /\ clear' = [clear EXCEPT ![p] = 0]

Init ==
    /\ file \in InitialFiles
    /\ pc = [p \in Procs |-> "idle"]
    /\ op = [p \in Procs |-> NoOp]
    /\ conf = [p \in Procs |-> DefaultConfiguration]
    /\ ret = [p \in Procs |-> "idle"]
    /\ buffered = [p \in Procs |-> FALSE]
    /\ clear = [p \in Procs |-> 0]
    /\ reply = [p \in Procs |-> "none"]
    /\ clock = FirstClock
    /\ requests = 0
    /\ crashes = 0
    /\ torn = FALSE

\* An HTTP handler or a DNS query starts.
Request(p, o) ==
    /\ pc[p] = "idle"
    /\ requests < MaxRequests
    /\ p \in Readers => o.kind = "read"
    /\ requests' = requests + 1
    /\ pc' = [pc EXCEPT ![p] = "load"]
    /\ op' = [op EXCEPT ![p] = o]
    /\ reply' = [reply EXCEPT ![p] = "none"]
    /\ UNCHANGED <<file, conf, ret, buffered, clear, clock, crashes, torn>>
-----------------------------------------------------------------------------
(***************************************************************************)
(* LoadConfiguration                                                       *)
(***************************************************************************)
\* No file: the default configuration is saved and then used.
LoadMissing(p) ==
    /\ pc[p] = "load"
    /\ file = Missing
    /\ conf' = [conf EXCEPT ![p] = DefaultConfiguration]
    /\ pc' = [pc EXCEPT ![p] = "open"]
    /\ ret' = [ret EXCEPT ![p] = "apply"]
    /\ UNCHANGED <<file, op, buffered, clear, reply, clock, requests, crashes, torn>>

\* No file, and its directory cannot be made: nothing is saved, and the default
\* configuration is used without the environment a save would have added.
LoadWithoutDirectory(p) ==
    /\ pc[p] = "load"
    /\ file = Missing
    /\ DiskFaults
    /\ conf' = [conf EXCEPT ![p] = DefaultConfiguration]
    /\ pc' = [pc EXCEPT ![p] = "apply"]
    /\ UNCHANGED <<file, op, ret, buffered, clear, reply, clock, requests, crashes, torn>>

\* Mutants of LoadUnreadable: a document that does not parse is taken for a
\* missing one; it is read again until it parses.
LoadUnreadableAsDefault(p) ==
    /\ pc[p] = "load"
    /\ file \in {Empty, Corrupt}
    /\ conf' = [conf EXCEPT ![p] = DefaultConfiguration]
    /\ pc' = [pc EXCEPT ![p] = "open"]
    /\ ret' = [ret EXCEPT ![p] = "apply"]
    /\ UNCHANGED <<file, op, buffered, clear, reply, clock, requests, crashes, torn>>

LoadUnreadableAgain(p) ==
    /\ pc[p] = "load"
    /\ file \in {Empty, Corrupt}
    /\ UNCHANGED vars

\* The file cannot be read or its document does not parse: the operation
\* returns the error.
LoadUnreadable(p) ==
    /\ pc[p] = "load"
    /\ file # Missing
    /\ file \in {Empty, Corrupt} \/ DiskFaults
    /\ Finish(p, "error")
    /\ UNCHANGED <<file, buffered, clock, requests, crashes, torn>>

\* The document parses; when an entry has no id the load saves the file first.
LoadDocument(p) ==
    /\ pc[p] = "load"
    /\ file \notin {Missing, Empty, Corrupt}
    /\ conf' = [conf EXCEPT ![p] = SetHostnameIds(file, clock)]
    /\ clock' = clock + Cardinality(WithoutId(file))
    /\ pc' = [pc EXCEPT ![p] = IF WithoutId(file) = {} THEN "apply" ELSE "open"]
    /\ ret' = [ret EXCEPT ![p] = "apply"]
    /\ UNCHANGED <<file, op, buffered, clear, reply, requests, crashes, torn>>

LoadConfiguration(p) ==
    \/ LoadMissing(p) \/ LoadWithoutDirectory(p)
    \/ LoadUnreadable(p)
    \/ LoadDocument(p)
-----------------------------------------------------------------------------
\* The operation changes the copy, or returns its error.
Apply(p) ==
    /\ pc[p] = "apply"
    /\ clock' = clock + IdsDrawn(op[p])
    /\ LET result == Perform(op[p], conf[p], clock)
       IN  \/ /\ op[p].kind = "read"
              /\ Finish(p, "ok")
           \/ /\ op[p].kind # "read"
              /\ result = Rejected
              /\ Finish(p, "error")
           \/ /\ op[p].kind # "read"
              /\ result # Rejected
              /\ conf' = [conf EXCEPT ![p] = result]
              /\ pc' = [pc EXCEPT ![p] = "open"]
              /\ ret' = [ret EXCEPT ![p] = "idle"]
              /\ UNCHANGED <<op, clear, reply>>
    /\ UNCHANGED <<file, buffered, requests, crashes, torn>>
-----------------------------------------------------------------------------
(***************************************************************************)
(* SaveConfiguration and storeToFile.  Nothing reports a failed save: the  *)
(* operation returns success.                                              *)
(***************************************************************************)
Return(p) ==
    \/ ret[p] = "idle" /\ Finish(p, "ok")
    \/ /\ ret[p] = "apply"
       /\ pc' = [pc EXCEPT ![p] = "apply"]
       /\ conf' = [conf EXCEPT ![p] = WithSomeEnv(@)]
       /\ UNCHANGED <<op, ret, clear, reply>>

\* Mutant of Open: os.OpenFile without O_TRUNC.
OpenWithoutTruncation(p) ==
    /\ pc[p] = "open"
    /\ conf' = [conf EXCEPT ![p] = WithSomeEnv(@)]
    /\ torn' = (torn \/ ~AloneIn(p))
    /\ pc' = [pc EXCEPT ![p] = "encode"]
    /\ UNCHANGED <<file, op, ret, buffered, clear, reply, clock, requests, crashes>>

\* os.OpenFile with O_TRUNC.
Open(p) ==
    /\ pc[p] = "open"
    /\ conf' = [conf EXCEPT ![p] = WithSomeEnv(@)]
    /\ file' = Empty
    /\ torn' = (torn \/ ~AloneIn(p))
    /\ pc' = [pc EXCEPT ![p] = "encode"]
    /\ UNCHANGED <<op, ret, buffered, clear, reply, clock, requests, crashes>>

\* os.OpenFile fails: storeToFile logs and returns.
OpenFails(p) ==
    /\ pc[p] = "open"
    /\ DiskFaults
    /\ Return(p)
    /\ UNCHANGED <<file, buffered, clock, requests, crashes, torn>>

\* The content after p writes its document at offset 0 of a file that another
\* save has filled meanwhile: a shorter document leaves the tail of the other.
\* Lengths are abstracted, so both outcomes are possible.
Written(p) == IF file \in {Empty, conf[p]} THEN {conf[p]} ELSE {conf[p], Corrupt}

Write(p) ==
    /\ file' \in Written(p)
    /\ torn' = (torn /\ ~(file = Empty /\ AloneIn(p)))

\* A document larger than the 4096 bytes of the bufio.Writer is written at
\* once, a smaller one stays in its buffer.
Encode(p) ==
    /\ pc[p] = "encode"
    /\ pc' = [pc EXCEPT ![p] = "clear"]
    /\ clear' = [clear EXCEPT ![p] = 0]
    /\ \/ buffered' = [buffered EXCEPT ![p] = TRUE] /\ UNCHANGED <<file, torn>>
       \/ Write(p) /\ UNCHANGED buffered
    /\ UNCHANGED <<op, conf, ret, reply, clock, requests, crashes>>

\* Mutant of ClearCache: the loop runs once too often.
ClearCacheTooMany(p) ==
    /\ pc[p] = "clear"
    /\ clear' = [clear EXCEPT ![p] = @ + 1]
    /\ pc' = [pc EXCEPT ![p] = IF clear[p] = NumCaches THEN "close" ELSE @]
    /\ UNCHANGED <<file, op, conf, ret, buffered, reply, clock, requests, crashes, torn>>

\* store.ClearAllCaches clears the caches one after the other.
ClearCache(p) ==
    /\ pc[p] = "clear"
    /\ clear' = [clear EXCEPT ![p] = @ + 1]
    /\ pc' = [pc EXCEPT ![p] = IF clear[p] + 1 = NumCaches THEN "close" ELSE @]
    /\ UNCHANGED <<file, op, conf, ret, buffered, reply, clock, requests, crashes, torn>>

\* Mutant of Close: the writer is not flushed.
CloseWithoutFlush(p) ==
    /\ pc[p] = "close"
    /\ buffered' = [buffered EXCEPT ![p] = FALSE]
    /\ Return(p)
    /\ UNCHANGED <<file, torn, clock, requests, crashes>>

\* The deferred wr.Flush and f.Close.
Close(p) ==
    /\ pc[p] = "close"
    /\ IF buffered[p] THEN Write(p) ELSE UNCHANGED <<file, torn>>
    /\ buffered' = [buffered EXCEPT ![p] = FALSE]
    /\ Return(p)
    /\ UNCHANGED <<clock, requests, crashes>>
-----------------------------------------------------------------------------
\* The proxy dies (a signal, a panic outside the handlers) and starts again.
Crash ==
    /\ crashes < MaxCrashes
    /\ crashes' = crashes + 1
    /\ torn' = (torn \/ \E p \in Procs : Unwritten(p))
    /\ pc' = [p \in Procs |-> "idle"]
    /\ op' = [p \in Procs |-> NoOp]
    /\ conf' = [p \in Procs |-> DefaultConfiguration]
    /\ ret' = [p \in Procs |-> "idle"]
    /\ buffered' = [p \in Procs |-> FALSE]
    /\ clear' = [p \in Procs |-> 0]
    /\ reply' = [p \in Procs |-> "none"]
    /\ UNCHANGED <<file, clock, requests>>

Save(p) == Open(p) \/ OpenFails(p) \/ Encode(p) \/ ClearCache(p) \/ Close(p)

Step(p) == LoadConfiguration(p) \/ Apply(p) \/ Save(p)

Next ==
    \/ \E p \in Procs : Step(p) \/ \E o \in Requests : Request(p, o)
    \/ Crash

Spec == Init /\ [][Next]_vars

\* A goroutine that has something to do is scheduled eventually.
FairSpec == Spec /\ \A p \in Procs : WF_vars(Step(p))
-----------------------------------------------------------------------------
(***************************************************************************)
(* Properties                                                              *)
(***************************************************************************)
Locations == {"idle", "load", "apply", "open", "encode", "clear", "close"}

\* The type of every variable.
TypeOK ==
    /\ file \in Configuration \cup {Missing, Empty, Corrupt}
    /\ pc \in [Procs -> Locations]
    /\ op \in [Procs -> Operation]
    /\ conf \in [Procs -> Configuration]
    /\ ret \in [Procs -> {"idle", "apply"}]
    /\ buffered \in [Procs -> BOOLEAN]
    /\ clear \in [Procs -> 0..NumCaches]
    /\ reply \in [Procs -> {"none", "ok", "error"}]
    /\ clock \in Nat
    /\ requests \in 0..MaxRequests
    /\ crashes \in 0..MaxCrashes
    /\ torn \in BOOLEAN

IsDocument(f) == f \notin {Missing, Empty, Corrupt}

\* The file, and every copy a goroutine works on, has at most one environment
\* of a name, whatever operations interleave: GetEnv takes the first match, so
\* the second of two equal names could never be edited or removed.
EnvNamesUnique ==
    /\ IsDocument(file) => UniqueEnvs(file)
    /\ \A p \in Procs : UniqueEnvs(conf[p])

\* In the file no two hostname entries share an id, even when several loads
\* hand out ids at the same time: UpdateHostname finds the entry by its id and
\* must never change another one.
IdsIdentifyEntries == IsDocument(file) => DistinctIds(file)

\* The file cannot be parsed only while a save stands between its truncation
\* and its write, or after such a save was hit by a crash or by another save:
\* saves that run one after the other always leave a readable document.
UnreadableOnlyIfTorn ==
    file \in {Empty, Corrupt} => torn \/ \E p \in Procs : Unwritten(p)

\* A document that does not parse (a user's typing error, a torn save) is kept
\* for the user to mend: once no goroutine holds a copy loaded earlier, no
\* sequence of operations, loads and crashes writes the file again.
Unreadable == file \in {Empty, Corrupt} /\ \A p \in Procs : pc[p] \in {"idle", "load"}
UnreadableFileIsKept == [][Unreadable => Unreadable' /\ file' = file]_vars

\* Every operation returns, also when the file is missing, unreadable, torn or
\* cannot be opened.
RequestsEnd == \A p \in Procs : pc[p] # "idle" ~> pc[p] = "idle"
-----------------------------------------------------------------------------
(***************************************************************************)
(* The file as the atomic store sees it: the document a save is about to   *)
(* write stands for the truncated file.                                    *)
(***************************************************************************)
AboutToWrite(p) == pc[p] = "open" \/ Unwritten(p)
Document ==
    IF \E p \in Procs : AboutToWrite(p)
    THEN WithSomeEnv(conf[CHOOSE p \in Procs : AboutToWrite(p)])
    ELSE file

Atomic == INSTANCE AtomicConfig WITH doc <- Document

\* With one writing goroutine, no crash and a working disk, every operation on
\* the file takes effect at once and completely, however the loads of DNS
\* queries and GET handlers interleave with it: no update is lost or torn.
OneWriterIsAtomic == Atomic!Spec
===============================================================================
