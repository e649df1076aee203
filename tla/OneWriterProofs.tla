--------------------------- MODULE OneWriterProofs ---------------------------
(***************************************************************************)
(* One goroutine that writes the configuration, beside any number that     *)
(* only load it, implements the atomic store of AtomicConfig.              *)
(***************************************************************************)
EXTENDS ConfigStoreProofs

\* At most one goroutine may write; the proxy is not killed and the disk works;
\* the file exists and its entries have ids, so that no load has to save it.
OneWriter == \A p, q \in Procs \ Readers : p = q
NoFailure == MaxCrashes = 0 /\ ~DiskFaults
FilesNumbered == Missing \notin InitialFiles /\ \A f \in InitialFiles : WithoutId(f) = {}
Sequential == OneWriter /\ NoFailure /\ FilesNumbered

Saving(p) == pc[p] \in {"open", "encode", "clear", "close"}

\* Only the writer saves, and it saves the result of its operation.
WriterSaves == \A p \in Procs : Saving(p) => p \notin Readers /\ ret[p] = "idle"

\* What a goroutine performs was asked for, and a reader only loads.
OpsRequested ==
    /\ \A p \in Procs : op[p].kind # "read" => op[p] \in Requests
    /\ \A p \in Readers : op[p].kind = "read"

\* The copy the writer is about to change is the file.
CopyIsFile == \A p \in Procs \ Readers : pc[p] = "apply" => conf[p] = file

\* The file is truncated while the writer saves, and a document otherwise.
FileWhileSaving ==
    /\ \A p \in Procs : Unwritten(p) => file = Empty /\ conf[p].envs # << >>
    /\ (\A p \in Procs : ~Unwritten(p)) => IsDocument(file)

WInv ==
    /\ TypeOK
    /\ Clearing
    /\ BufferedWhileSaving
    /\ IdsDrawnBefore(1)
    /\ WriterSaves
    /\ OpsRequested
    /\ CopyIsFile
    /\ FileWhileSaving
-----------------------------------------------------------------------------
(***************************************************************************)
(* The operators of the two modules agree.                                 *)
(***************************************************************************)
LEMMA SamePerform ==
    ASSUME NEW o, NEW c, NEW now
    PROVE  Atomic!Perform(o, c, now) = Perform(o, c, now)
    BY DEF Perform, AddEnv, RemoveEnvByName, SetActiveEnv, AddHostname, UpdateHostname,
           RemoveHostname, HasEnv, EnvIndexes, GetEnv, First, RemoveIndex, WithId,
           HasHostname, HostnameIndexes, GetHostname, IdIndexes, GetHostnameById,
           Atomic!Perform, Atomic!AddEnv, Atomic!RemoveEnvByName, Atomic!SetActiveEnv,
           Atomic!AddHostname, Atomic!UpdateHostname, Atomic!RemoveHostname, Atomic!HasEnv,
           Atomic!EnvIndexes, Atomic!GetEnv, Atomic!First, Atomic!RemoveIndex, Atomic!WithId,
           Atomic!HasHostname, Atomic!HostnameIndexes, Atomic!GetHostname,
           Atomic!IdIndexes, Atomic!GetHostnameById

LEMMA SameSave ==
    ASSUME NEW c
    PROVE  Atomic!WithSomeEnv(c) = WithSomeEnv(c)
    BY DEF WithSomeEnv, Atomic!WithSomeEnv

LEMMA SameIds ==
    ASSUME NEW o
    PROVE  Atomic!IdsDrawn(o) = IdsDrawn(o)
    BY DEF IdsDrawn, Atomic!IdsDrawn

\* A save adds the default environment once.
LEMMA WithSomeEnvTwice ==
    ASSUME NEW c \in Configuration
    PROVE  /\ WithSomeEnv(c).envs # << >>
           /\ WithSomeEnv(WithSomeEnv(c)) = WithSomeEnv(c)
           /\ c.envs # << >> => WithSomeEnv(c) = c
<1>1. CASE c.envs # << >>
    BY <1>1 DEF WithSomeEnv
<1>2. CASE c.envs = << >>
  <2>1. WithSomeEnv(c) = [c EXCEPT !.envs = <<[name |-> DefaultEnv, hostnames |-> << >>]>>]
    BY <1>2 DEF WithSomeEnv
  <2>2. WithSomeEnv(c).envs = <<[name |-> DefaultEnv, hostnames |-> << >>]>>
    BY <2>1 DEF Configuration
  <2>3. WithSomeEnv(c).envs # << >>
    BY <2>2
  <2>. QED
    BY <1>2, <2>3 DEF WithSomeEnv
<1>. QED
    BY <1>1, <1>2

\* A load leaves a document whose entries have ids as it is.
LEMMA NumberedStays ==
    ASSUME NEW c \in Configuration, NEW now \in Nat, WithoutId(c) = {}
    PROVE  SetHostnameIds(c, now) = c /\ now + Cardinality(WithoutId(c)) = now
<1>. DEFINE clockAt(p) == now + Cardinality({q \in WithoutId(c) : Before(q, p)})
            hosts(e) == [h \in DOMAIN c.envs[e].hostnames |->
                            IF <<e, h>> \in WithoutId(c)
                            THEN [c.envs[e].hostnames[h] EXCEPT !.id = clockAt(<<e, h>>)]
                            ELSE c.envs[e].hostnames[h]]
            envs == [e \in DOMAIN c.envs |-> [c.envs[e] EXCEPT !.hostnames = hosts(e)]]
<1>1. SetHostnameIds(c, now) = [c EXCEPT !.envs = envs]
    BY DEF SetHostnameIds
<1>2. \A e \in DOMAIN c.envs : c.envs[e] \in Env /\ c.envs[e].hostnames \in Seq(Hostname)
    BY DocumentParts
<1>3. \A e \in DOMAIN c.envs : hosts(e) = c.envs[e].hostnames
  <2>. HIDE DEF clockAt
  <2>. QED
    BY <1>2
<1>. HIDE DEF hosts
<1>4. \A e \in DOMAIN c.envs : [c.envs[e] EXCEPT !.hostnames = hosts(e)] = c.envs[e]
    BY <1>2, <1>3 DEF Env
<1>5. envs = c.envs
  <2>. DEFINE s == c.envs
  <2>1. s \in Seq(Env)
    BY DocumentParts
  <2>2. envs = [e \in DOMAIN s |-> s[e]]
    BY <1>4
  <2>. HIDE DEF s, envs
  <2>3. s = [e \in DOMAIN s |-> s[e]]
    BY <2>1
  <2>4. envs = s
    BY <2>2, <2>3
  <2>. QED
    BY <2>4 DEF s
<1>. HIDE DEF envs
<1>6. [c EXCEPT !.envs = envs] = c
    BY <1>5 DEF Configuration
<1>7. Cardinality(WithoutId(c)) = 0
    BY FS_EmptySet
<1>. QED
    BY <1>1, <1>6, <1>7

\* Every entry of such a document has an id.
LEMMA WithinHasIds ==
    ASSUME NEW c, NEW now, IdsWithin(c, 1, now)
    PROVE  WithoutId(c) = {}
<1>1. \A p \in EntryPositions(c) : 1 <= IdAt(c, p)
    BY DEF IdsWithin
<1>. QED
    BY <1>1 DEF WithoutId
-----------------------------------------------------------------------------
(***************************************************************************)
(* The inductive invariant.                                                *)
(***************************************************************************)
LEMMA WInvInitially == Sequential /\ Init => WInv
<1>. SUFFICES ASSUME Sequential, Init PROVE WInv
    OBVIOUS
<1>1. file \in Configuration /\ IsDocument(file) /\ WithoutId(file) = {}
      /\ DistinctIds(file) /\ \A p \in EntryPositions(file) : IdAt(file, p) < clock
  <2>1. file \in InitialFiles /\ file # Missing /\ WithoutId(file) = {} /\ clock = FirstClock
    BY DEF Init, Sequential, FilesNumbered
  <2>. QED
    BY <2>1, InitialFilesAssumption, DocumentIsNoMark DEF IsDocument
<1>2. 1 <= clock /\ clock \in Nat
    BY BoundsAssumption DEF Init
<1>3. IdsWithin(file, 1, clock)
  <2>1. ASSUME NEW p \in EntryPositions(file) PROVE 1 <= IdAt(file, p)
    <3>1. IdAt(file, p) # 0
      BY <1>1, <2>1 DEF WithoutId
    <3>2. IdAt(file, p) \in Nat
      BY <1>1, <2>1, IdAtType
    <3>. QED
      BY <3>1, <3>2
  <2>. QED
    BY <1>1, <1>2, <2>1 DEF IdsWithin
<1>4. \A p \in Procs : IdsWithin(conf[p], 1, clock)
    BY <1>2, DefaultIds DEF Init
<1>5. IdsDrawnBefore(1)
    BY <1>2, <1>3, <1>4 DEF IdsDrawnBefore
<1>6. \A p \in Procs : pc[p] = "idle" /\ ~buffered[p] /\ op[p].kind = "read" /\ ~Unwritten(p)
    BY DEF Init, NoOp, Unwritten
<1>7. Clearing /\ BufferedWhileSaving /\ WriterSaves /\ OpsRequested /\ CopyIsFile /\ FileWhileSaving
    BY <1>1, <1>6, ReadersAssumption
       DEF Clearing, BufferedWhileSaving, WriterSaves, Saving, OpsRequested, CopyIsFile,
           FileWhileSaving
<1>. QED
    BY <1>5, <1>7, InitTypeOK DEF WInv

\* Nothing of it but the types, the buffers and the ids.
LEMMA KnownSteps ==
    ASSUME WInv, [Next]_vars
    PROVE  TypeOK' /\ Clearing' /\ BufferedWhileSaving' /\ IdsDrawnBefore(1)'
    BY NextTypeOK, NextClearing, NextBuffered, NextIdsDrawnBefore DEF WInv

\* The file is never missing, and its entries have ids.
LEMMA FileNumbered ==
    ASSUME WInv
    PROVE  /\ file # Missing
           /\ IsDocument(file) => file \in Configuration /\ WithoutId(file) = {}
<1>1. \/ \E p \in Procs : Unwritten(p)
      \/ IsDocument(file)
    BY DEF WInv, FileWhileSaving
<1>2. file # Missing
    BY <1>1, FileStateAssumption DEF WInv, FileWhileSaving, IsDocument
<1>3. ASSUME IsDocument(file) PROVE file \in Configuration /\ WithoutId(file) = {}
    BY <1>3, WithinHasIds DEF WInv, TypeOK, IsDocument, IdsDrawnBefore
<1>. QED
    BY <1>2, <1>3

\* While one goroutine is about to write, no other one saves.
LEMMA Alone ==
    ASSUME WInv, OneWriter, NEW p \in Procs \ Readers, NEW q \in Procs,
           Saving(q) \/ AboutToWrite(q)
    PROVE  q = p
<1>1. Saving(q)
    BY DEF AboutToWrite, Unwritten, Saving, WInv, BufferedWhileSaving
<1>. QED
    BY <1>1 DEF WInv, WriterSaves, OneWriter

\* The loads and the start of an operation.
LEMMA LoadStep ==
    ASSUME WInv, Sequential, NEW p \in Procs,
           LoadConfiguration(p) \/ \E o \in Requests : Request(p, o)
    PROVE  /\ UNCHANGED <<file, clock, buffered>>
           /\ \E l \in {"idle", "load", "apply"} : pc' = [pc EXCEPT ![p] = l]
           /\ pc[p] \in {"idle", "load"}
           /\ \A q \in Procs \ {p} : conf'[q] = conf[q] /\ op'[q] = op[q] /\ ret'[q] = ret[q]
           /\ pc'[p] = "apply" => conf'[p] = file /\ IsDocument(file)
           /\ op'[p].kind # "read" => op'[p] \in Requests
           /\ p \in Readers => op'[p].kind = "read"
<1>. USE DEF WInv
<1>1. TypeOK /\ file # Missing /\ ~DiskFaults
    BY FileNumbered DEF Sequential, NoFailure
<1>2. ASSUME NEW o \in Requests, Request(p, o)
      PROVE  /\ UNCHANGED <<file, clock, buffered, conf, ret>>
             /\ pc[p] = "idle" /\ pc' = [pc EXCEPT ![p] = "load"] /\ pc'[p] = "load"
             /\ op'[p] = o /\ \A q \in Procs \ {p} : op'[q] = op[q]
             /\ p \in Readers => o.kind = "read"
    BY <1>1, <1>2 DEF Request, TypeOK
<1>3. CASE \E o \in Requests : Request(p, o)
    BY <1>2, <1>3
<1>4. CASE LoadUnreadable(p)
  <2>1. UNCHANGED <<file, clock, buffered>> /\ pc[p] = "load" /\ Finish(p, "error")
    BY <1>4 DEF LoadUnreadable
  <2>2. pc' = [pc EXCEPT ![p] = "idle"] /\ pc'[p] = "idle"
    BY <1>1, <2>1 DEF Finish, TypeOK
  <2>3. \A q \in Procs \ {p} : conf'[q] = conf[q] /\ op'[q] = op[q] /\ ret'[q] = ret[q]
    BY <1>1, <2>1 DEF Finish, TypeOK
  <2>4. op'[p].kind = "read"
    BY <1>1, <2>1 DEF Finish, TypeOK, NoOp
  <2>. QED
    BY <2>1, <2>2, <2>3, <2>4
<1>5. CASE LoadDocument(p)
  <2>1. IsDocument(file) /\ file \in Configuration /\ WithoutId(file) = {} /\ clock \in Nat
    BY <1>5, FileNumbered DEF LoadDocument, IsDocument, TypeOK
  <2>2. SetHostnameIds(file, clock) = file /\ clock' = clock
    BY <1>5, <2>1, NumberedStays DEF LoadDocument
  <2>3. /\ UNCHANGED <<file, buffered, op>> /\ pc[p] = "load"
        /\ pc' = [pc EXCEPT ![p] = "apply"]
        /\ conf' = [conf EXCEPT ![p] = file] /\ ret' = [ret EXCEPT ![p] = "apply"]
    BY <1>5, <2>1, <2>2 DEF LoadDocument
  <2>4. conf'[p] = file /\ \A q \in Procs \ {p} : conf'[q] = conf[q] /\ ret'[q] = ret[q]
    BY <1>1, <2>3 DEF TypeOK
  <2>. QED
    BY <2>1, <2>2, <2>3, <2>4 DEF OpsRequested
<1>6. CASE LoadMissing(p) \/ LoadWithoutDirectory(p)
    BY <1>1, <1>6 DEF LoadMissing, LoadWithoutDirectory
<1>. QED
    BY <1>3, <1>4, <1>5, <1>6 DEF LoadConfiguration

\* A step of one goroutine leaves the local variables of the others alone.
LEMMA OthersStay ==
    ASSUME TypeOK, NEW p \in Procs, Step(p) \/ \E o \in Requests : Request(p, o),
           NEW q \in Procs, q # p
    PROVE  /\ pc'[q] = pc[q] /\ conf'[q] = conf[q] /\ op'[q] = op[q]
           /\ ret'[q] = ret[q] /\ buffered'[q] = buffered[q]
<1>. DEFINE Same == /\ pc'[q] = pc[q] /\ conf'[q] = conf[q] /\ op'[q] = op[q]
                    /\ ret'[q] = ret[q] /\ buffered'[q] = buffered[q]
<1>1. CASE \E o \in Requests : Request(p, o)
    BY <1>1 DEF Request, TypeOK
<1>2. ASSUME \/ \E r : Finish(p, r)
             \/ Return(p)
      PROVE  pc'[q] = pc[q] /\ conf'[q] = conf[q] /\ op'[q] = op[q] /\ ret'[q] = ret[q]
    BY <1>2 DEF Finish, Return, TypeOK
<1>3. CASE LoadConfiguration(p)
  <2>1. CASE LoadMissing(p) \/ LoadWithoutDirectory(p) \/ LoadDocument(p)
    BY <2>1 DEF LoadMissing, LoadWithoutDirectory, LoadDocument, TypeOK
  <2>2. CASE LoadUnreadable(p)
    BY <1>2, <2>2 DEF LoadUnreadable
  <2>. QED
    BY <1>3, <2>1, <2>2 DEF LoadConfiguration
<1>4. CASE Apply(p)
  <2>1. CASE \E r : Finish(p, r)
    BY <1>2, <1>4, <2>1 DEF Apply
  <2>2. CASE /\ conf' = [conf EXCEPT ![p] = Perform(op[p], conf[p], clock)]
             /\ pc' = [pc EXCEPT ![p] = "open"]
             /\ ret' = [ret EXCEPT ![p] = "idle"]
             /\ UNCHANGED <<op, clear, reply>>
    BY <1>4, <2>2 DEF Apply, TypeOK
  <2>. QED
    BY <1>4, <2>1, <2>2 DEF Apply
<1>5. CASE Open(p) \/ Encode(p) \/ ClearCache(p)
    BY <1>5 DEF Open, Encode, ClearCache, TypeOK
<1>6. CASE OpenFails(p) \/ Close(p)
  <2>1. Return(p) /\ buffered'[q] = buffered[q]
    BY <1>6 DEF OpenFails, Close, TypeOK
  <2>. QED
    BY <1>2, <2>1
<1>. QED
    BY <1>1, <1>3, <1>4, <1>5, <1>6 DEF Step, Save

\* The document while nobody is about to write, and while one goroutine is.
LEMMA DocumentIsFile ==
    /\ (\A p \in Procs : ~AboutToWrite(p)) => Document = file
    /\ (\A p \in Procs : ~AboutToWrite(p)') => Document' = file'
    BY DEF Document

LEMMA DocumentIsCopy ==
    ASSUME NEW p \in Procs
    PROVE  /\ AboutToWrite(p) /\ (\A q \in Procs : AboutToWrite(q) => q = p)
              => Document = WithSomeEnv(conf[p])
           /\ AboutToWrite(p)' /\ (\A q \in Procs : AboutToWrite(q)' => q = p)
              => Document' = WithSomeEnv(conf'[p])
<1>1. ASSUME AboutToWrite(p), \A q \in Procs : AboutToWrite(q) => q = p
      PROVE  Document = WithSomeEnv(conf[p])
  <2>1. (CHOOSE q \in Procs : AboutToWrite(q)) = p
    BY <1>1
  <2>. QED
    BY <1>1, <2>1 DEF Document
<1>2. ASSUME AboutToWrite(p)', \A q \in Procs : AboutToWrite(q)' => q = p
      PROVE  Document' = WithSomeEnv(conf'[p])
  <2>1. (CHOOSE q \in Procs : AboutToWrite(q)') = p
    BY <1>2
  <2>2. \E q \in Procs : AboutToWrite(q)'
    BY <1>2
  <2>3. Document' = WithSomeEnv(conf'[CHOOSE q \in Procs : AboutToWrite(q)'])
    BY <2>2 DEF Document
  <2>. QED
    BY <2>1, <2>3
<1>. QED
    BY <1>1, <1>2

\* What a step of p must do to its own variables and to the file.
StepKeeps(p) ==
    /\ Saving(p)' => p \notin Readers /\ ret'[p] = "idle"
    /\ op'[p].kind # "read" => op'[p] \in Requests
    /\ p \in Readers => op'[p].kind = "read" /\ file' = file
    /\ p \notin Readers /\ pc'[p] = "apply" => conf'[p] = file'
    /\ Unwritten(p)' => file' = Empty /\ conf'[p].envs # << >>
    /\ ~Unwritten(p)' /\ (\A q \in Procs \ {p} : ~Unwritten(q)) => IsDocument(file')

\* Then the others keep the invariant too.
LEMMA LocalStep ==
    ASSUME WInv, OneWriter, [Next]_vars, NEW p \in Procs,
           Step(p) \/ \E o \in Requests : Request(p, o), StepKeeps(p)
    PROVE  WInv'
<1>1. TypeOK /\ WriterSaves /\ OpsRequested /\ CopyIsFile /\ FileWhileSaving
    BY DEF WInv
<1>2. \A q \in Procs \ {p} :
          /\ pc'[q] = pc[q] /\ conf'[q] = conf[q] /\ op'[q] = op[q]
          /\ ret'[q] = ret[q] /\ buffered'[q] = buffered[q]
    BY <1>1, OthersStay
<1>3. \A q \in Procs \ {p} : (Unwritten(q)' <=> Unwritten(q)) /\ (Saving(q)' <=> Saving(q))
    BY <1>2 DEF Unwritten, Saving
<1>4. WriterSaves'
    BY <1>1, <1>2, <1>3 DEF WriterSaves, StepKeeps
<1>5. OpsRequested'
    BY <1>1, <1>2, ReadersAssumption DEF OpsRequested, StepKeeps
<1>6. \A q \in Procs \ {p} : q \notin Readers => file' = file
    BY DEF OneWriter, StepKeeps
<1>7. CopyIsFile'
    BY <1>1, <1>2, <1>6 DEF CopyIsFile, StepKeeps
<1>8. \A q \in Procs : Unwritten(q) => q \notin Readers
    BY DEF WInv, WriterSaves, BufferedWhileSaving, Unwritten, Saving
<1>9. \A q \in Procs : Unwritten(q)' => file' = Empty /\ conf'[q].envs # << >>
  <2>1. ASSUME NEW q \in Procs, q # p, Unwritten(q)'
        PROVE  file' = Empty /\ conf'[q].envs # << >>
    <3>1. Unwritten(q) /\ q \notin Readers
      BY <1>3, <1>8, <2>1
    <3>2. file = Empty /\ conf[q].envs # << >>
      BY <1>1, <3>1 DEF FileWhileSaving
    <3>. QED
      BY <1>2, <1>6, <2>1, <3>1, <3>2
  <2>. QED
    BY <2>1 DEF StepKeeps
<1>10. (\A q \in Procs : ~Unwritten(q)') => IsDocument(file')
    BY <1>3 DEF StepKeeps
<1>11. FileWhileSaving'
    BY <1>9, <1>10 DEF FileWhileSaving, IsDocument
<1>. QED
    BY <1>4, <1>5, <1>7, <1>11, KnownSteps DEF WInv

\* A step outside the save does not change the document.
LEMMA DocumentStays ==
    ASSUME WInv, OneWriter, NEW p \in Procs,
           Step(p) \/ \E o \in Requests : Request(p, o),
           file' = file, ~AboutToWrite(p), ~AboutToWrite(p)'
    PROVE  Document' = Document
<1>1. \A q \in Procs \ {p} : conf'[q] = conf[q] /\ (AboutToWrite(q)' <=> AboutToWrite(q))
    BY OthersStay DEF WInv, AboutToWrite, Unwritten
<1>2. CASE \A q \in Procs : ~AboutToWrite(q)
    BY <1>1, <1>2, DocumentIsFile
<1>3. ASSUME NEW w \in Procs, AboutToWrite(w) PROVE Document' = Document
  <2>1. Saving(w) /\ w \notin Readers
    BY <1>3 DEF AboutToWrite, Unwritten, Saving, WInv, BufferedWhileSaving, WriterSaves
  <2>2. \A q \in Procs : AboutToWrite(q) => q = w
    BY <2>1, Alone
  <2>3. w # p /\ AboutToWrite(w)' /\ \A q \in Procs : AboutToWrite(q)' => q = w
    BY <1>1, <1>3, <2>2
  <2>4. Document = WithSomeEnv(conf[w]) /\ Document' = WithSomeEnv(conf'[w])
    BY <1>3, <2>2, <2>3, DocumentIsCopy
  <2>. QED
    BY <1>1, <2>3, <2>4
<1>. QED
    BY <1>2, <1>3
-----------------------------------------------------------------------------
(***************************************************************************)
(* The simulation, one action after the other.                             *)
(***************************************************************************)
AtomicStep == [Atomic!Next]_<<Document, clock>>

\* A load and the start of an operation leave the document alone.
LEMMA LoadSimulates ==
    ASSUME WInv, Sequential, [Next]_vars, NEW p \in Procs,
           LoadConfiguration(p) \/ \E o \in Requests : Request(p, o)
    PROVE  WInv' /\ AtomicStep
<1>. DEFINE Effect ==
        /\ UNCHANGED <<file, clock, buffered>>
        /\ pc'[p] \in {"idle", "load", "apply"}
        /\ pc[p] \in {"idle", "load"}
        /\ pc'[p] = "apply" => conf'[p] = file /\ IsDocument(file)
        /\ op'[p].kind # "read" => op'[p] \in Requests
        /\ p \in Readers => op'[p].kind = "read"
<1>1. Effect
    BY LoadStep DEF WInv, TypeOK
<1>2. ~buffered[p]
    BY <1>1 DEF WInv, BufferedWhileSaving
<1>3. ~AboutToWrite(p) /\ ~AboutToWrite(p)' /\ ~Unwritten(p) /\ ~Unwritten(p)' /\ ~Saving(p)'
    BY <1>1, <1>2 DEF AboutToWrite, Unwritten, Saving
<1>4. (\A q \in Procs \ {p} : ~Unwritten(q)) => IsDocument(file)
    BY <1>3 DEF WInv, FileWhileSaving
<1>5. StepKeeps(p)
    BY <1>1, <1>3, <1>4 DEF StepKeeps
<1>6. Step(p) \/ \E o \in Requests : Request(p, o)
    BY DEF Step
<1>7. WInv'
    BY <1>5, <1>6, LocalStep DEF Sequential
<1>8. Document' = Document
    BY <1>1, <1>3, <1>6, DocumentStays DEF Sequential
<1>. QED
    BY <1>1, <1>7, <1>8 DEF AtomicStep

\* The operation takes effect on the document when it is applied to the copy.
LEMMA ApplySimulates ==
    ASSUME WInv, Sequential, [Next]_vars, NEW p \in Procs, Apply(p)
    PROVE  WInv' /\ AtomicStep
<1>. DEFINE result == Perform(op[p], conf[p], clock)
<1>1. pc[p] = "apply" /\ ~buffered[p] /\ Step(p) /\ OneWriter /\ TypeOK
    BY DEF Apply, WInv, BufferedWhileSaving, Step, Sequential
<1>2. UNCHANGED <<file, buffered>> /\ clock' = clock + IdsDrawn(op[p])
    BY DEF Apply
<1>3. ~AboutToWrite(p) /\ ~Unwritten(p)
    BY <1>1 DEF AboutToWrite, Unwritten
<1>4. (\A q \in Procs \ {p} : ~Unwritten(q)) => IsDocument(file)
    BY <1>3 DEF WInv, FileWhileSaving
<1>5. ASSUME NEW r, Finish(p, r)
      PROVE  WInv' /\ Document' = Document
  <2>1. pc'[p] = "idle" /\ op'[p].kind = "read"
    BY <1>1, <1>5 DEF Finish, TypeOK, NoOp
  <2>2. ~AboutToWrite(p)' /\ ~Unwritten(p)' /\ ~Saving(p)'
    BY <1>1, <1>2, <2>1 DEF AboutToWrite, Unwritten, Saving
  <2>3. StepKeeps(p)
    BY <1>2, <1>4, <2>1, <2>2 DEF StepKeeps
  <2>. QED
    BY <1>1, <1>2, <1>3, <2>2, <2>3, LocalStep, DocumentStays
<1>6. CASE op[p].kind = "read"
  <2>1. \E r : Finish(p, r)
    BY <1>6 DEF Apply
  <2>2. clock' = clock
    BY <1>1, <1>2, <1>6 DEF IdsDrawn, TypeOK
  <2>. QED
    BY <1>5, <2>1, <2>2 DEF AtomicStep
<1>7. CASE op[p].kind # "read"
  <2>1. p \notin Readers /\ op[p] \in Requests
    BY <1>7 DEF WInv, OpsRequested
  <2>2. conf[p] = file
    BY <1>1, <2>1 DEF WInv, CopyIsFile
  <2>3. \A q \in Procs : ~AboutToWrite(q)
    BY <1>1, <1>3, <2>1, Alone
  <2>4. Document = conf[p]
    BY <2>2, <2>3, DocumentIsFile
  <2>5. CASE result = Rejected
    <3>1. \E r : Finish(p, r)
      BY <1>7, <2>5 DEF Apply
    <3>2. WInv' /\ Document' = Document
      BY <1>5, <3>1
    <3>3. Atomic!Reject(op[p])
      BY <1>2, <2>4, <2>5, <3>2, SamePerform, SameIds DEF Atomic!Reject
    <3>. QED
      BY <2>1, <3>2, <3>3 DEF AtomicStep, Atomic!Next
  <2>6. CASE result # Rejected
    <3>1. /\ conf' = [conf EXCEPT ![p] = result] /\ pc' = [pc EXCEPT ![p] = "open"]
          /\ ret' = [ret EXCEPT ![p] = "idle"] /\ op' = op
      BY <1>7, <2>6 DEF Apply
    <3>2. conf'[p] = result /\ pc'[p] = "open" /\ ret'[p] = "idle" /\ op'[p] = op[p]
      BY <1>1, <3>1 DEF TypeOK
    <3>3. AboutToWrite(p)' /\ ~Unwritten(p)'
      BY <1>1, <1>2, <3>2 DEF AboutToWrite, Unwritten
    <3>4. StepKeeps(p)
      BY <1>2, <1>4, <2>1, <3>2, <3>3 DEF StepKeeps
    <3>5. WInv'
      BY <1>1, <3>4, LocalStep
    <3>6. \A q \in Procs : AboutToWrite(q)' => q = p
      BY <1>1, <2>3, OthersStay DEF AboutToWrite, Unwritten
    <3>7. Document' = WithSomeEnv(result)
      BY <3>2, <3>3, <3>6, DocumentIsCopy
    <3>8. Atomic!Accept(op[p])
      BY <1>2, <2>4, <2>6, <3>7, SamePerform, SameSave, SameIds DEF Atomic!Accept
    <3>. QED
      BY <2>1, <3>5, <3>8 DEF AtomicStep, Atomic!Next
  <2>. QED
    BY <2>5, <2>6
<1>. QED
    BY <1>6, <1>7

\* A goroutine that saves is the writer, and nobody else is about to write.
LEMMA SaverAlone ==
    ASSUME WInv, OneWriter, NEW p \in Procs, Saving(p)
    PROVE  /\ p \notin Readers /\ ret[p] = "idle"
           /\ op[p].kind # "read" => op[p] \in Requests
           /\ \A q \in Procs \ {p} : ~AboutToWrite(q)
<1>1. p \notin Readers /\ ret[p] = "idle"
    BY DEF WInv, WriterSaves
<1>. QED
    BY <1>1, Alone DEF WInv, OpsRequested

\* The writer's write completes the document.
LEMMA WriteCompletes ==
    ASSUME WInv, Sequential, NEW p \in Procs, Step(p), Saving(p), Unwritten(p), Write(p),
           ~AboutToWrite(p)'
    PROVE  IsDocument(file') /\ Document' = Document
<1>1. \A q \in Procs \ {p} : ~AboutToWrite(q)
    BY SaverAlone DEF Sequential
<1>2. file = Empty /\ conf[p].envs # << >> /\ conf[p] \in Configuration
    BY DEF WInv, FileWhileSaving, TypeOK
<1>3. file' = conf[p]
    BY <1>2 DEF Write, Written
<1>4. IsDocument(file')
    BY <1>2, <1>3, DocumentIsNoMark DEF IsDocument
<1>5. \A q \in Procs : ~AboutToWrite(q)'
    BY <1>1, OthersStay DEF AboutToWrite, Unwritten, WInv
<1>6. Document' = conf[p]
    BY <1>3, <1>5, DocumentIsFile
<1>7. Document = WithSomeEnv(conf[p])
    BY <1>1, DocumentIsCopy DEF AboutToWrite
<1>. QED
    BY <1>2, <1>4, <1>6, <1>7, WithSomeEnvTwice

\* The steps of a save leave the document alone.
LEMMA SaveSimulates ==
    ASSUME WInv, Sequential, [Next]_vars, NEW p \in Procs, Save(p)
    PROVE  WInv' /\ AtomicStep
<1>1. Step(p) /\ OneWriter /\ TypeOK /\ ~OpenFails(p)
    BY DEF Step, Sequential, NoFailure, OpenFails, WInv
<1>2. Saving(p) /\ clock' = clock
    BY DEF Save, Open, OpenFails, Encode, ClearCache, Close, Saving
<1>3. /\ p \notin Readers /\ ret[p] = "idle"
      /\ op[p].kind # "read" => op[p] \in Requests
      /\ \A q \in Procs \ {p} : ~AboutToWrite(q)
    BY <1>1, <1>2, SaverAlone
<1>4. \A q \in Procs \ {p} : ~AboutToWrite(q)'
    BY <1>1, <1>3, OthersStay DEF AboutToWrite, Unwritten
<1>5. SUFFICES StepKeeps(p) /\ Document' = Document
    BY <1>1, <1>2, LocalStep DEF AtomicStep
<1>6. ASSUME AboutToWrite(p), AboutToWrite(p)', WithSomeEnv(conf'[p]) = WithSomeEnv(conf[p])
      PROVE  Document' = Document
    BY <1>3, <1>4, <1>6, DocumentIsCopy
<1>7. CASE Open(p)
  <2>1. conf[p] \in Configuration /\ conf'[p] = WithSomeEnv(conf[p])
    BY <1>1, <1>7 DEF Open, TypeOK
  <2>2. pc'[p] = "encode" /\ op'[p] = op[p] /\ ret'[p] = ret[p] /\ file' = Empty
    BY <1>1, <1>7 DEF Open, TypeOK
  <2>3. AboutToWrite(p) /\ AboutToWrite(p)' /\ Unwritten(p)'
    BY <1>7, <2>2 DEF Open, AboutToWrite, Unwritten
  <2>4. conf'[p].envs # << >> /\ WithSomeEnv(conf'[p]) = WithSomeEnv(conf[p])
    BY <2>1, WithSomeEnvTwice
  <2>. QED
    BY <1>3, <1>6, <2>2, <2>3, <2>4 DEF StepKeeps
<1>8. CASE Encode(p)
  <2>1. /\ pc[p] = "encode" /\ pc'[p] = "clear" /\ op'[p] = op[p] /\ ret'[p] = ret[p]
        /\ conf'[p] = conf[p]
    BY <1>1, <1>8 DEF Encode, TypeOK
  <2>2. AboutToWrite(p) /\ Unwritten(p) /\ ~buffered[p]
    BY <2>1 DEF AboutToWrite, Unwritten, WInv, BufferedWhileSaving
  <2>3. file = Empty /\ conf[p].envs # << >>
    BY <2>2 DEF WInv, FileWhileSaving
  <2>4. CASE buffered' = [buffered EXCEPT ![p] = TRUE] /\ file' = file
    <3>1. AboutToWrite(p)' /\ Unwritten(p)'
      BY <1>1, <2>4 DEF AboutToWrite, Unwritten, TypeOK
    <3>. QED
      BY <1>3, <1>6, <2>1, <2>2, <2>3, <2>4, <3>1 DEF StepKeeps
  <2>5. CASE Write(p) /\ buffered' = buffered
    <3>1. ~AboutToWrite(p)' /\ ~Unwritten(p)'
      BY <2>1, <2>2, <2>5 DEF AboutToWrite, Unwritten
    <3>2. IsDocument(file') /\ Document' = Document
      BY <1>1, <1>2, <2>2, <2>5, <3>1, WriteCompletes
    <3>. QED
      BY <1>3, <2>1, <3>1, <3>2 DEF StepKeeps
  <2>. QED
    BY <1>8, <2>4, <2>5 DEF Encode
<1>9. CASE ClearCache(p)
  <2>1. /\ pc[p] = "clear" /\ pc'[p] \in {"clear", "close"} /\ op'[p] = op[p]
        /\ ret'[p] = ret[p] /\ conf'[p] = conf[p] /\ buffered'[p] = buffered[p] /\ file' = file
    BY <1>1, <1>9 DEF ClearCache, TypeOK
  <2>2. /\ Unwritten(p)' <=> Unwritten(p)
        /\ AboutToWrite(p)' <=> Unwritten(p)
        /\ AboutToWrite(p) <=> Unwritten(p)
    BY <2>1 DEF AboutToWrite, Unwritten
  <2>3. StepKeeps(p)
    BY <1>3, <2>1, <2>2 DEF StepKeeps, WInv, FileWhileSaving
  <2>4. CASE AboutToWrite(p)
    BY <1>6, <2>1, <2>2, <2>3, <2>4
  <2>5. CASE ~AboutToWrite(p)
    BY <1>1, <2>1, <2>2, <2>3, <2>5, DocumentStays
  <2>. QED
    BY <2>4, <2>5
<1>10. CASE Close(p)
  <2>1. pc[p] = "close" /\ Finish(p, "ok") /\ buffered'[p] = FALSE
    BY <1>1, <1>3, <1>10 DEF Close, Return, TypeOK
  <2>2. pc'[p] = "idle" /\ op'[p].kind = "read"
    BY <1>1, <2>1 DEF Finish, TypeOK, NoOp
  <2>3. ~AboutToWrite(p)' /\ ~Unwritten(p)' /\ ~Saving(p)'
    BY <2>1, <2>2 DEF AboutToWrite, Unwritten, Saving
  <2>4. CASE buffered[p]
    <3>1. Unwritten(p) /\ Write(p)
      BY <1>10, <2>4 DEF Close, Unwritten
    <3>2. IsDocument(file') /\ Document' = Document
      BY <1>1, <1>2, <2>3, <3>1, WriteCompletes
    <3>. QED
      BY <1>3, <2>2, <2>3, <3>2 DEF StepKeeps
  <2>5. CASE ~buffered[p]
    <3>1. file' = file /\ ~Unwritten(p) /\ ~AboutToWrite(p)
      BY <1>10, <2>1, <2>5 DEF Close, Unwritten, AboutToWrite
    <3>2. Document' = Document
      BY <1>1, <2>3, <3>1, DocumentStays
    <3>. QED
      BY <1>3, <2>2, <2>3, <3>1, <3>2 DEF StepKeeps, WInv, FileWhileSaving
  <2>. QED
    BY <2>4, <2>5
<1>. QED
    BY <1>1, <1>7, <1>8, <1>9, <1>10 DEF Save

\* One writing goroutine, any number of readers: the file implements the
\* atomic store of AtomicConfig, whatever operations the writer performs, and
\* however its truncations and writes fall between the readers' loads.
THEOREM OneWriterImplementsAtomic == Sequential /\ Spec => OneWriterIsAtomic
<1>. SUFFICES ASSUME Sequential PROVE Spec => OneWriterIsAtomic
    OBVIOUS
<1>1. Init => WInv
    BY WInvInitially
<1>2. WInv /\ [Next]_vars => WInv' /\ AtomicStep
  <2>. SUFFICES ASSUME WInv, [Next]_vars PROVE WInv' /\ AtomicStep
    OBVIOUS
  <2>1. CASE \E p \in Procs : Step(p) \/ \E o \in Requests : Request(p, o)
    BY <2>1, LoadSimulates, ApplySimulates, SaveSimulates DEF Step
  <2>2. CASE Crash
    BY <2>2, BoundsAssumption DEF Crash, Sequential, NoFailure, WInv, TypeOK
  <2>3. CASE UNCHANGED vars
    <3>1. WInv'
      BY <2>3, KnownSteps
         DEF vars, WInv, WriterSaves, Saving, OpsRequested, CopyIsFile, FileWhileSaving,
             Unwritten, IsDocument
    <3>2. UNCHANGED <<Document, clock>>
      BY <2>3 DEF vars, Document, AboutToWrite, Unwritten
    <3>. QED
      BY <3>1, <3>2 DEF AtomicStep
  <2>. QED
    BY <2>1, <2>2, <2>3 DEF Next
<1>3. Init => Atomic!Init
  <2>. SUFFICES ASSUME Init PROVE Atomic!Init
    OBVIOUS
  <2>1. \A p \in Procs : ~AboutToWrite(p)
    BY DEF Init, AboutToWrite, Unwritten
  <2>2. Document = file
    BY <2>1, DocumentIsFile
  <2>. QED
    BY <2>2 DEF Init, Atomic!Init
<1>4. WInv /\ [Next]_vars => WInv' /\ [Atomic!Next]_<<Document, clock>>
    BY <1>2 DEF AtomicStep
<1>. QED
    BY <1>1, <1>3, <1>4, PTL DEF Spec, Atomic!Spec, OneWriterIsAtomic
===============================================================================
