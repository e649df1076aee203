-------------------------- MODULE ConfigStoreProofs --------------------------
(***************************************************************************)
(* The safety of the configuration store for any number of goroutines,     *)
(* operations, crashes and caches, and any environments and entries.       *)
(***************************************************************************)
EXTENDS ConfigStore, LocalConfigurationProofs

\* A document is no state of an unreadable or missing file.
LEMMA DocumentIsNoMark ==
    ASSUME NEW c \in Configuration
    PROVE  c # Missing /\ c # Empty /\ c # Corrupt
    BY FileStateAssumption

\* The initial state has the types.
LEMMA InitTypeOK == Init => TypeOK
<1>. SUFFICES ASSUME Init PROVE TypeOK
    OBVIOUS
<1>1. file \in Configuration \cup {Missing, Empty, Corrupt}
    BY InitialFilesAssumption DEF Init
<1>2. NoOp \in Operation
    BY DEF NoOp, Operation
<1>3. DefaultConfiguration \in Configuration
    BY DefaultConfigurationType
<1>4. /\ pc \in [Procs -> Locations]
      /\ op \in [Procs -> Operation]
      /\ conf \in [Procs -> Configuration]
      /\ ret \in [Procs -> {"idle", "apply"}]
      /\ reply \in [Procs -> {"none", "ok", "error"}]
    BY <1>2, <1>3 DEF Init, Locations
<1>5. buffered \in [Procs -> BOOLEAN] /\ torn \in BOOLEAN
    BY DEF Init
<1>6. /\ clear \in [Procs -> 0..NumCaches]
      /\ clock \in Nat
      /\ requests \in 0..MaxRequests
      /\ crashes \in 0..MaxCrashes
    BY BoundsAssumption DEF Init
<1>. QED
    BY <1>1, <1>4, <1>5, <1>6 DEF TypeOK

\* Finish, with which every operation returns, keeps the types of what it sets.
LEMMA FinishType ==
    ASSUME TypeOK, NEW p \in Procs, NEW r \in {"ok", "error"}, Finish(p, r)
    PROVE  /\ pc' \in [Procs -> Locations]
           /\ op' \in [Procs -> Operation]
           /\ conf' \in [Procs -> Configuration]
           /\ ret' \in [Procs -> {"idle", "apply"}]
           /\ clear' \in [Procs -> 0..NumCaches]
           /\ reply' \in [Procs -> {"none", "ok", "error"}]
<1>1. NoOp \in Operation
    BY DEF NoOp, Operation
<1>. QED
    BY <1>1, DefaultConfigurationType, BoundsAssumption DEF TypeOK, Finish, Locations

\* So does the return from a save.
LEMMA ReturnType ==
    ASSUME TypeOK, NEW p \in Procs, Return(p)
    PROVE  /\ pc' \in [Procs -> Locations]
           /\ op' \in [Procs -> Operation]
           /\ conf' \in [Procs -> Configuration]
           /\ ret' \in [Procs -> {"idle", "apply"}]
           /\ clear' \in [Procs -> 0..NumCaches]
           /\ reply' \in [Procs -> {"none", "ok", "error"}]
<1>1. CASE Finish(p, "ok")
    BY <1>1, FinishType
<1>2. CASE /\ pc' = [pc EXCEPT ![p] = "apply"]
           /\ conf' = [conf EXCEPT ![p] = WithSomeEnv(@)]
           /\ UNCHANGED <<op, ret, clear, reply>>
  <2>1. WithSomeEnv(conf[p]) \in Configuration
    BY WithSomeEnvKeeps DEF TypeOK
  <2>. QED
    BY <1>2, <2>1 DEF TypeOK, Locations
<1>. QED
    BY <1>1, <1>2 DEF Return

\* What a write leaves in the file.
LEMMA WriteType ==
    ASSUME TypeOK, NEW p \in Procs, Write(p)
    PROVE  /\ file' \in {conf[p], Corrupt}
           /\ file' \in Configuration \cup {Missing, Empty, Corrupt}
           /\ torn' \in BOOLEAN
    BY DEF TypeOK, Write, Written

\* The types alone are not inductive: ClearAllCaches stops in time because the
\* loop has a cache left as long as it runs.
Clearing == \A p \in Procs : pc[p] = "clear" => clear[p] < NumCaches

\* Every step keeps the types.
LEMMA NextTypeOK == TypeOK /\ Clearing /\ [Next]_vars => TypeOK'
<1>. SUFFICES ASSUME TypeOK, Clearing, [Next]_vars PROVE TypeOK'
    OBVIOUS
<1>. USE BoundsAssumption
<1>1. ASSUME NEW p \in Procs, NEW o \in Requests, Request(p, o) PROVE TypeOK'
  <2>1. o \in Operation
    BY RequestsAssumption
  <2>. QED
    BY <1>1, <2>1 DEF Request, TypeOK, Locations
<1>2. ASSUME NEW p \in Procs, LoadMissing(p) \/ LoadWithoutDirectory(p) PROVE TypeOK'
    BY <1>2, DefaultConfigurationType DEF LoadMissing, LoadWithoutDirectory, TypeOK, Locations
<1>3. ASSUME NEW p \in Procs, LoadUnreadable(p) PROVE TypeOK'
  <2>1. Finish(p, "error")
    BY <1>3 DEF LoadUnreadable
  <2>. QED
    BY <1>3, <2>1, FinishType DEF LoadUnreadable, TypeOK
<1>4. ASSUME NEW p \in Procs, LoadDocument(p) PROVE TypeOK'
  <2>1. file \in Configuration
    BY <1>4 DEF LoadDocument, TypeOK
  <2>2. clock \in Nat
    BY DEF TypeOK
  <2>3. SetHostnameIds(file, clock) \in Configuration
    BY <2>1, <2>2, SetHostnameIdsKeeps
  <2>4. Cardinality(WithoutId(file)) \in Nat
    BY <2>1, WithoutIdCount
  <2>. QED
    BY <1>4, <2>2, <2>3, <2>4 DEF LoadDocument, TypeOK, Locations
<1>5. ASSUME NEW p \in Procs, Apply(p) PROVE TypeOK'
  <2>. DEFINE result == Perform(op[p], conf[p], clock)
  <2>1. op[p] \in Operation /\ conf[p] \in Configuration /\ clock \in Nat
    BY DEF TypeOK
  <2>2. clock' \in Nat
    BY <1>5, <2>1, IdsDrawnType DEF Apply
  <2>3. result = Rejected \/ result \in Configuration
    BY <2>1, PerformKeeps DEF Keeps
  <2>. HIDE DEF result
  <2>4. CASE Finish(p, "ok") \/ Finish(p, "error")
    BY <1>5, <2>2, <2>4, FinishType DEF Apply, TypeOK
  <2>5. CASE /\ result # Rejected
             /\ conf' = [conf EXCEPT ![p] = result]
             /\ pc' = [pc EXCEPT ![p] = "open"]
             /\ ret' = [ret EXCEPT ![p] = "idle"]
             /\ UNCHANGED <<op, clear, reply>>
    BY <1>5, <2>2, <2>3, <2>5 DEF Apply, TypeOK, Locations
  <2>. QED
    BY <1>5, <2>4, <2>5 DEF Apply, result
<1>6. ASSUME NEW p \in Procs, Open(p) PROVE TypeOK'
  <2>1. WithSomeEnv(conf[p]) \in Configuration
    BY WithSomeEnvKeeps DEF TypeOK
  <2>. QED
    BY <1>6, <2>1 DEF Open, TypeOK, Locations
<1>7. ASSUME NEW p \in Procs, OpenFails(p) PROVE TypeOK'
  <2>1. Return(p)
    BY <1>7 DEF OpenFails
  <2>. QED
    BY <1>7, <2>1, ReturnType DEF OpenFails, TypeOK
<1>8. ASSUME NEW p \in Procs, Encode(p) PROVE TypeOK'
  <2>1. CASE buffered' = [buffered EXCEPT ![p] = TRUE] /\ UNCHANGED <<file, torn>>
    BY <1>8, <2>1 DEF Encode, TypeOK, Locations
  <2>2. CASE Write(p) /\ UNCHANGED buffered
    BY <1>8, <2>2, WriteType DEF Encode, TypeOK, Locations
  <2>. QED
    BY <1>8, <2>1, <2>2 DEF Encode
<1>9. ASSUME NEW p \in Procs, ClearCache(p) PROVE TypeOK'
  <2>1. clear[p] \in 0..NumCaches /\ clear[p] < NumCaches
    BY <1>9 DEF ClearCache, Clearing, TypeOK
  <2>2. clear' \in [Procs -> 0..NumCaches]
    BY <1>9, <2>1 DEF ClearCache, TypeOK
  <2>. QED
    BY <1>9, <2>2 DEF ClearCache, TypeOK, Locations
<1>10. ASSUME NEW p \in Procs, Close(p) PROVE TypeOK'
  <2>1. Return(p)
    BY <1>10 DEF Close
  <2>2. file' \in Configuration \cup {Missing, Empty, Corrupt} /\ torn' \in BOOLEAN
    BY <1>10, WriteType DEF Close, TypeOK
  <2>3. buffered' \in [Procs -> BOOLEAN]
    BY <1>10 DEF Close, TypeOK
  <2>. QED
    BY <1>10, <2>1, <2>2, <2>3, ReturnType DEF Close, TypeOK
<1>11. CASE Crash
  <2>1. NoOp \in Operation
    BY DEF NoOp, Operation
  <2>2. /\ pc' \in [Procs -> Locations]
        /\ op' \in [Procs -> Operation]
        /\ conf' \in [Procs -> Configuration]
        /\ ret' \in [Procs -> {"idle", "apply"}]
        /\ clear' \in [Procs -> 0..NumCaches]
        /\ reply' \in [Procs -> {"none", "ok", "error"}]
    BY <1>11, <2>1, DefaultConfigurationType DEF Crash, Locations
  <2>3. buffered' \in [Procs -> BOOLEAN] /\ torn' \in BOOLEAN
    BY <1>11 DEF Crash, TypeOK
  <2>4. crashes' \in 0..MaxCrashes
    BY <1>11 DEF Crash, TypeOK
  <2>. QED
    BY <1>11, <2>2, <2>3, <2>4 DEF Crash, TypeOK
<1>12. CASE UNCHANGED vars
    BY <1>12 DEF vars, TypeOK
<1>. QED
    BY <1>1, <1>2, <1>3, <1>4, <1>5, <1>6, <1>7, <1>8, <1>9, <1>10, <1>11, <1>12
       DEF Next, Step, Save, LoadConfiguration

\* Every step keeps a cache in front of the loop that clears them.
LEMMA NextClearing == TypeOK /\ Clearing /\ [Next]_vars => Clearing'
<1>. SUFFICES ASSUME TypeOK, Clearing, [Next]_vars,
                     NEW q \in Procs, pc'[q] = "clear"
              PROVE  clear'[q] < NumCaches
    BY DEF Clearing
<1>. USE BoundsAssumption
<1>1. ASSUME NEW p \in Procs, NEW o \in Requests, Request(p, o) PROVE clear'[q] < NumCaches
    BY <1>1 DEF Request, TypeOK, Clearing
<1>2. ASSUME NEW p \in Procs, LoadMissing(p) \/ LoadWithoutDirectory(p) \/ LoadDocument(p)
      PROVE  clear'[q] < NumCaches
    BY <1>2 DEF LoadMissing, LoadWithoutDirectory, LoadDocument, TypeOK, Clearing
<1>3. ASSUME NEW p \in Procs, NEW r, Finish(p, r) PROVE clear'[q] < NumCaches
    BY <1>3 DEF Finish, TypeOK, Clearing
<1>4. ASSUME NEW p \in Procs, Return(p) PROVE clear'[q] < NumCaches
    BY <1>3, <1>4 DEF Return, TypeOK, Clearing
<1>5. ASSUME NEW p \in Procs, Apply(p) PROVE clear'[q] < NumCaches
  <2>1. CASE \E r : Finish(p, r)
    BY <1>3, <2>1
  <2>2. CASE pc' = [pc EXCEPT ![p] = "open"] /\ clear' = clear
    BY <2>2 DEF TypeOK, Clearing
  <2>. QED
    BY <1>5, <2>1, <2>2 DEF Apply
<1>6. ASSUME NEW p \in Procs, Open(p) PROVE clear'[q] < NumCaches
    BY <1>6 DEF Open, TypeOK, Clearing
<1>7. ASSUME NEW p \in Procs, Encode(p) PROVE clear'[q] < NumCaches
    BY <1>7 DEF Encode, TypeOK, Clearing
<1>8. ASSUME NEW p \in Procs, ClearCache(p) PROVE clear'[q] < NumCaches
  <2>1. CASE q = p
    BY <1>8, <2>1 DEF ClearCache, TypeOK, Clearing
  <2>2. CASE q # p
    BY <1>8, <2>2 DEF ClearCache, TypeOK, Clearing
  <2>. QED
    BY <2>1, <2>2
<1>9. CASE Crash
    BY <1>9 DEF Crash
<1>10. CASE UNCHANGED vars
    BY <1>10 DEF vars, Clearing
<1>. QED
    BY <1>1, <1>2, <1>3, <1>4, <1>5, <1>6, <1>7, <1>8, <1>9, <1>10
       DEF Next, Step, Save, LoadConfiguration, LoadUnreadable, OpenFails, Close

\* Type correctness: whatever operations, loads and crashes interleave, every
\* goroutine works on a well-formed document, and the loop over the caches
\* stays within them.
THEOREM TypeCorrect == Spec => [](TypeOK /\ Clearing)
<1>1. Init => TypeOK /\ Clearing
    BY InitTypeOK DEF Init, Clearing
<1>2. TypeOK /\ Clearing /\ [Next]_vars => (TypeOK /\ Clearing)'
    BY NextTypeOK, NextClearing
<1>. QED
    BY <1>1, <1>2, PTL DEF Spec
-----------------------------------------------------------------------------
(***************************************************************************)
(* Names of environments.                                                  *)
(***************************************************************************)
\* The return from an operation, a save or a crash leaves unique names.
LEMMA FinishKeepsUnique ==
    ASSUME TypeOK, EnvNamesUnique, NEW p \in Procs,
           Return(p) \/ \E r : Finish(p, r)
    PROVE  \A q \in Procs : UniqueEnvs(conf'[q])
<1>1. conf[p] \in Configuration /\ UniqueEnvs(conf[p])
    BY DEF TypeOK, EnvNamesUnique
<1>2. UniqueEnvs(WithSomeEnv(conf[p])) /\ UniqueEnvs(DefaultConfiguration)
    BY <1>1, WithSomeEnvKeeps, DefaultConfigurationType
<1>3. \/ conf' = [conf EXCEPT ![p] = DefaultConfiguration]
      \/ conf' = [conf EXCEPT ![p] = WithSomeEnv(@)]
    BY DEF Return, Finish
<1>. QED
    BY <1>2, <1>3 DEF TypeOK, EnvNamesUnique

\* A write leaves unique names in the file.
LEMMA WriteKeepsUnique ==
    ASSUME TypeOK, EnvNamesUnique, NEW p \in Procs, Write(p)
    PROVE  IsDocument(file') => UniqueEnvs(file')
    BY WriteType DEF EnvNamesUnique, IsDocument

\* Every step keeps the names unique.
LEMMA NextEnvNamesUnique == TypeOK /\ EnvNamesUnique /\ [Next]_vars => EnvNamesUnique'
<1>. SUFFICES ASSUME TypeOK, EnvNamesUnique, [Next]_vars PROVE EnvNamesUnique'
    OBVIOUS
<1>1. ASSUME NEW p \in Procs, NEW o \in Requests, Request(p, o) PROVE EnvNamesUnique'
    BY <1>1 DEF Request, EnvNamesUnique, IsDocument
<1>2. ASSUME NEW p \in Procs, LoadMissing(p) \/ LoadWithoutDirectory(p) PROVE EnvNamesUnique'
    BY <1>2, DefaultConfigurationType
       DEF LoadMissing, LoadWithoutDirectory, TypeOK, EnvNamesUnique, IsDocument
<1>3. ASSUME NEW p \in Procs, LoadUnreadable(p) PROVE EnvNamesUnique'
    BY <1>3, FinishKeepsUnique DEF LoadUnreadable, EnvNamesUnique, IsDocument
<1>4. ASSUME NEW p \in Procs, LoadDocument(p) PROVE EnvNamesUnique'
  <2>1. file \in Configuration /\ UniqueEnvs(file) /\ clock \in Nat
    BY <1>4 DEF LoadDocument, TypeOK, EnvNamesUnique, IsDocument
  <2>2. UniqueEnvs(SetHostnameIds(file, clock))
    BY <2>1, SetHostnameIdsKeeps
  <2>. QED
    BY <1>4, <2>2 DEF LoadDocument, TypeOK, EnvNamesUnique, IsDocument
<1>5. ASSUME NEW p \in Procs, Apply(p) PROVE EnvNamesUnique'
  <2>. DEFINE result == Perform(op[p], conf[p], clock)
  <2>1. op[p] \in Operation /\ conf[p] \in Configuration /\ clock \in Nat
    BY DEF TypeOK
  <2>2. result = Rejected \/ UniqueEnvs(result)
    BY <2>1, PerformKeeps DEF Keeps, EnvNamesUnique
  <2>3. file' = file
    BY <1>5 DEF Apply
  <2>4. (\E r : Finish(p, r)) \/ (result # Rejected /\ conf' = [conf EXCEPT ![p] = result])
    BY <1>5 DEF Apply
  <2>. HIDE DEF result
  <2>5. CASE \E r : Finish(p, r)
    BY <2>3, <2>5, FinishKeepsUnique DEF EnvNamesUnique, IsDocument
  <2>6. CASE result # Rejected /\ conf' = [conf EXCEPT ![p] = result]
    BY <2>2, <2>3, <2>6 DEF TypeOK, EnvNamesUnique, IsDocument
  <2>. QED
    BY <2>4, <2>5, <2>6
<1>6. ASSUME NEW p \in Procs, Open(p) PROVE EnvNamesUnique'
  <2>1. UniqueEnvs(WithSomeEnv(conf[p]))
    BY WithSomeEnvKeeps DEF TypeOK, EnvNamesUnique
  <2>. QED
    BY <1>6, <2>1 DEF Open, TypeOK, EnvNamesUnique, IsDocument
<1>7. ASSUME NEW p \in Procs, OpenFails(p) PROVE EnvNamesUnique'
    BY <1>7, FinishKeepsUnique DEF OpenFails, EnvNamesUnique, IsDocument
<1>8. ASSUME NEW p \in Procs, Encode(p) PROVE EnvNamesUnique'
    BY <1>8, WriteKeepsUnique DEF Encode, EnvNamesUnique, IsDocument
<1>9. ASSUME NEW p \in Procs, ClearCache(p) PROVE EnvNamesUnique'
    BY <1>9 DEF ClearCache, EnvNamesUnique, IsDocument
<1>10. ASSUME NEW p \in Procs, Close(p) PROVE EnvNamesUnique'
  <2>1. \A q \in Procs : UniqueEnvs(conf'[q])
    BY <1>10, FinishKeepsUnique DEF Close
  <2>2. IsDocument(file') => UniqueEnvs(file')
    BY <1>10, WriteKeepsUnique DEF Close, EnvNamesUnique
  <2>. QED
    BY <2>1, <2>2 DEF EnvNamesUnique, IsDocument
<1>11. CASE Crash
    BY <1>11, DefaultConfigurationType DEF Crash, EnvNamesUnique, IsDocument
<1>12. CASE UNCHANGED vars
    BY <1>12 DEF vars, EnvNamesUnique, IsDocument
<1>. QED
    BY <1>1, <1>2, <1>3, <1>4, <1>5, <1>6, <1>7, <1>8, <1>9, <1>10, <1>11, <1>12
       DEF Next, Step, Save, LoadConfiguration

\* In the file and in every copy of it, environments have distinct names,
\* however many goroutines add and remove environments at the same time: a
\* save replaces the whole document, so two checks in AddEnv never add up.
THEOREM NamesStayUnique == Spec => []EnvNamesUnique
<1>1. Init => EnvNamesUnique
    BY InitialFilesAssumption, DefaultConfigurationType
       DEF Init, EnvNamesUnique, IsDocument
<1>2. TypeOK /\ EnvNamesUnique /\ [Next]_vars => EnvNamesUnique'
    BY NextEnvNamesUnique
<1>. QED
    BY <1>1, <1>2, TypeCorrect, PTL DEF Spec
-----------------------------------------------------------------------------
(***************************************************************************)
(* Ids of entries.                                                         *)
(***************************************************************************)
\* The strengthening of IdsIdentifyEntries: the ids of the file, and of every
\* copy a goroutine works on, are distinct and were read from the clock before.
\* So what a goroutine draws is new to each document it can meet later.  With 1
\* for low, every entry has an id.
IdsDrawnBefore(low) ==
    /\ low <= clock
    /\ IsDocument(file) => IdsWithin(file, low, clock)
    /\ \A p \in Procs : IdsWithin(conf[p], low, clock)

\* The return from an operation or a save keeps the ids of the copies.
LEMMA FinishKeepsIds ==
    ASSUME NEW low \in Nat, TypeOK, IdsDrawnBefore(low), NEW p \in Procs,
           Return(p) \/ \E r : Finish(p, r), clock' = clock
    PROVE  \A q \in Procs : IdsWithin(conf'[q], low, clock')
<1>1. conf[p] \in Configuration /\ IdsWithin(conf[p], low, clock)
    BY DEF TypeOK, IdsDrawnBefore
<1>2. IdsWithin(WithSomeEnv(conf[p]), low, clock) /\ IdsWithin(DefaultConfiguration, low, clock)
    BY <1>1, WithSomeEnvIds, DefaultIds DEF IdsDrawnBefore
<1>3. \/ conf' = [conf EXCEPT ![p] = DefaultConfiguration]
      \/ conf' = [conf EXCEPT ![p] = WithSomeEnv(@)]
    BY DEF Return, Finish
<1>. QED
    BY <1>2, <1>3 DEF TypeOK, IdsDrawnBefore

\* A write puts a copy, or no document, into the file.
LEMMA WriteKeepsIds ==
    ASSUME NEW low \in Nat, TypeOK, IdsDrawnBefore(low), NEW p \in Procs, Write(p)
    PROVE  IsDocument(file') => IdsWithin(file', low, clock)
    BY WriteType DEF IdsDrawnBefore, IsDocument

\* As the clock goes on, the other copies keep their ids.
LEMMA ClockKeepsIds ==
    ASSUME NEW low \in Nat, TypeOK, IdsDrawnBefore(low),
           NEW n \in Nat, clock' = clock + n, UNCHANGED file,
           NEW p \in Procs, NEW c, conf' = [conf EXCEPT ![p] = c], IdsWithin(c, low, clock')
    PROVE  IdsDrawnBefore(low)'
<1>1. clock \in Nat /\ clock' \in Nat /\ clock <= clock'
    BY DEF TypeOK
<1>2. ASSUME IsDocument(file) PROVE IdsWithin(file, low, clock')
  <2>1. file \in Configuration /\ IdsWithin(file, low, clock)
    BY <1>2 DEF TypeOK, IsDocument, IdsDrawnBefore
  <2>. QED
    BY <1>1, <2>1, IdsWithinLater
<1>3. ASSUME NEW q \in Procs PROVE IdsWithin(conf'[q], low, clock')
  <2>1. CASE q = p
    BY <2>1 DEF TypeOK
  <2>2. CASE q # p
    <3>1. conf'[q] = conf[q] /\ conf[q] \in Configuration /\ IdsWithin(conf[q], low, clock)
      BY <2>2 DEF TypeOK, IdsDrawnBefore
    <3>. QED
      BY <1>1, <3>1, IdsWithinLater
  <2>. QED
    BY <2>1, <2>2
<1>4. low <= clock'
    BY <1>1 DEF IdsDrawnBefore
<1>. QED
    BY <1>2, <1>3, <1>4 DEF IdsDrawnBefore, IsDocument

\* Every step keeps the ids.
LEMMA NextIdsDrawnBefore ==
    ASSUME NEW low \in Nat
    PROVE  TypeOK /\ IdsDrawnBefore(low) /\ [Next]_vars => IdsDrawnBefore(low)'
<1>. SUFFICES ASSUME TypeOK, IdsDrawnBefore(low), [Next]_vars PROVE IdsDrawnBefore(low)'
    OBVIOUS
<1>1. ASSUME NEW p \in Procs, NEW o \in Requests, Request(p, o) PROVE IdsDrawnBefore(low)'
    BY <1>1 DEF Request, IdsDrawnBefore, IsDocument
<1>2. ASSUME NEW p \in Procs, LoadMissing(p) \/ LoadWithoutDirectory(p) PROVE IdsDrawnBefore(low)'
    BY <1>2, DefaultIds
       DEF LoadMissing, LoadWithoutDirectory, TypeOK, IdsDrawnBefore, IsDocument
<1>3. ASSUME NEW p \in Procs, LoadUnreadable(p) PROVE IdsDrawnBefore(low)'
    BY <1>3, FinishKeepsIds DEF LoadUnreadable, IdsDrawnBefore, IsDocument
<1>4. ASSUME NEW p \in Procs, LoadDocument(p) PROVE IdsDrawnBefore(low)'
  <2>. DEFINE n == Cardinality(WithoutId(file))
              c == SetHostnameIds(file, clock)
  <2>1. file \in Configuration /\ IdsWithin(file, low, clock) /\ clock \in Nat
    BY <1>4 DEF LoadDocument, TypeOK, IdsDrawnBefore, IsDocument
  <2>2. IdsWithin(c, low, clock + n) /\ n \in Nat
    BY <2>1, SetHostnameIdsIds, WithoutIdCount
  <2>3. clock' = clock + n /\ conf' = [conf EXCEPT ![p] = c] /\ UNCHANGED file
    BY <1>4 DEF LoadDocument
  <2>. HIDE DEF n, c
  <2>. QED
    BY <2>2, <2>3, ClockKeepsIds
<1>5. ASSUME NEW p \in Procs, Apply(p) PROVE IdsDrawnBefore(low)'
  <2>. DEFINE result == Perform(op[p], conf[p], clock)
              n == IdsDrawn(op[p])
  <2>1. op[p] \in Operation /\ conf[p] \in Configuration /\ clock \in Nat
        /\ IdsWithin(conf[p], low, clock)
    BY DEF TypeOK, IdsDrawnBefore
  <2>2. n \in Nat /\ (result = Rejected \/ IdsWithin(result, low, clock + n))
    BY <2>1, PerformIds, IdsDrawnType
  <2>3. file' = file /\ clock' = clock + n
    BY <1>5 DEF Apply
  <2>4. \/ conf' = [conf EXCEPT ![p] = DefaultConfiguration]
        \/ result # Rejected /\ conf' = [conf EXCEPT ![p] = result]
    BY <1>5 DEF Apply, Finish
  <2>. HIDE DEF result, n
  <2>5. CASE conf' = [conf EXCEPT ![p] = DefaultConfiguration]
    <3>1. low <= clock'
      BY <2>1, <2>2, <2>3 DEF IdsDrawnBefore
    <3>. QED
      BY <2>2, <2>3, <2>5, <3>1, DefaultIds, ClockKeepsIds
  <2>6. CASE result # Rejected /\ conf' = [conf EXCEPT ![p] = result]
    BY <2>2, <2>3, <2>6, ClockKeepsIds
  <2>. QED
    BY <2>4, <2>5, <2>6
<1>6. ASSUME NEW p \in Procs, Open(p) PROVE IdsDrawnBefore(low)'
  <2>1. IdsWithin(WithSomeEnv(conf[p]), low, clock)
    BY WithSomeEnvIds DEF TypeOK, IdsDrawnBefore
  <2>. QED
    BY <1>6, <2>1 DEF Open, TypeOK, IdsDrawnBefore, IsDocument
<1>7. ASSUME NEW p \in Procs, OpenFails(p) PROVE IdsDrawnBefore(low)'
    BY <1>7, FinishKeepsIds DEF OpenFails, IdsDrawnBefore, IsDocument
<1>8. ASSUME NEW p \in Procs, Encode(p) PROVE IdsDrawnBefore(low)'
    BY <1>8, WriteKeepsIds DEF Encode, IdsDrawnBefore, IsDocument
<1>9. ASSUME NEW p \in Procs, ClearCache(p) PROVE IdsDrawnBefore(low)'
    BY <1>9 DEF ClearCache, IdsDrawnBefore, IsDocument
<1>10. ASSUME NEW p \in Procs, Close(p) PROVE IdsDrawnBefore(low)'
  <2>1. \A q \in Procs : IdsWithin(conf'[q], low, clock')
    BY <1>10, FinishKeepsIds DEF Close
  <2>2. IsDocument(file') => IdsWithin(file', low, clock')
    BY <1>10, WriteKeepsIds DEF Close, IdsDrawnBefore
  <2>3. low <= clock'
    BY <1>10 DEF Close, IdsDrawnBefore
  <2>. QED
    BY <2>1, <2>2, <2>3 DEF IdsDrawnBefore, IsDocument
<1>11. CASE Crash
    BY <1>11, DefaultIds DEF Crash, IdsDrawnBefore, IsDocument
<1>12. CASE UNCHANGED vars
    BY <1>12 DEF vars, IdsDrawnBefore, IsDocument
<1>. QED
    BY <1>1, <1>2, <1>3, <1>4, <1>5, <1>6, <1>7, <1>8, <1>9, <1>10, <1>11, <1>12
       DEF Next, Step, Save, LoadConfiguration

\* No two entries of the file share an id, although goroutines load, number and
\* save whole documents over each other: setHostnameIds, AddHostname and the
\* handler of POST /env/ draw from one clock, and every document that can be
\* written was numbered from it before.
THEOREM IdsStayDistinct == Spec => []IdsIdentifyEntries
<1>1. Init => IdsDrawnBefore(0)
  <2>. SUFFICES ASSUME Init PROVE IdsDrawnBefore(0)
    OBVIOUS
  <2>1. 0 <= clock
    BY BoundsAssumption DEF Init
  <2>2. ASSUME IsDocument(file) PROVE IdsWithin(file, 0, clock)
    <3>1. file \in Configuration /\ DistinctIds(file)
          /\ \A p \in EntryPositions(file) : IdAt(file, p) < clock
      BY <2>2, InitialFilesAssumption DEF Init, IsDocument
    <3>2. \A p \in EntryPositions(file) : 0 <= IdAt(file, p)
      BY <3>1, IdAtType
    <3>. QED
      BY <2>1, <3>1, <3>2 DEF IdsWithin
  <2>3. \A p \in Procs : IdsWithin(conf[p], 0, clock)
    BY <2>1, DefaultIds DEF Init
  <2>. QED
    BY <2>1, <2>2, <2>3 DEF IdsDrawnBefore
<1>2. TypeOK /\ IdsDrawnBefore(0) /\ [Next]_vars => IdsDrawnBefore(0)'
    BY NextIdsDrawnBefore
<1>3. IdsDrawnBefore(0) => IdsIdentifyEntries
    BY DEF IdsDrawnBefore, IdsIdentifyEntries, IdsWithin
<1>. QED
    BY <1>1, <1>2, <1>3, TypeCorrect, PTL DEF Spec
-----------------------------------------------------------------------------
(***************************************************************************)
(* The file between truncation and write.                                  *)
(***************************************************************************)
\* A document waits in the writer's buffer only inside its own save.
BufferedWhileSaving == \A p \in Procs : buffered[p] => pc[p] \in {"clear", "close"}

\* The strengthening of UnreadableOnlyIfTorn: while no save has been torn, at
\* most one stands between truncation and write, and the file is truncated
\* exactly then.
SavesInTurn ==
    ~torn => /\ \A p, q \in Procs : Unwritten(p) /\ Unwritten(q) => p = q
             /\ (\E p \in Procs : Unwritten(p)) => file = Empty
             /\ (\A p \in Procs : ~Unwritten(p)) => file \notin {Empty, Corrupt}

\* Every step keeps the buffer inside the save.
LEMMA NextBuffered ==
    TypeOK /\ BufferedWhileSaving /\ [Next]_vars => BufferedWhileSaving'
<1>. SUFFICES ASSUME TypeOK, BufferedWhileSaving, [Next]_vars,
                     NEW q \in Procs, buffered'[q]
              PROVE  pc'[q] \in {"clear", "close"}
    BY DEF BufferedWhileSaving
<1>1. ASSUME NEW p \in Procs, buffered' = buffered, pc[p] \notin {"clear", "close"},
             NEW l \in Locations, pc' = [pc EXCEPT ![p] = l]
      PROVE  pc'[q] \in {"clear", "close"}
    BY <1>1 DEF BufferedWhileSaving, TypeOK
<1>2. ASSUME NEW p \in Procs, NEW o \in Requests, Request(p, o)
      PROVE  pc'[q] \in {"clear", "close"}
    BY <1>1, <1>2 DEF Request, Locations
<1>3. ASSUME NEW p \in Procs,
             LoadConfiguration(p) \/ Apply(p) \/ Open(p) \/ OpenFails(p)
      PROVE  pc'[q] \in {"clear", "close"}
  <2>1. buffered' = buffered /\ pc[p] \notin {"clear", "close"}
    BY <1>3 DEF LoadConfiguration, LoadMissing, LoadWithoutDirectory, LoadUnreadable,
                LoadDocument, Apply,
                Open, OpenFails
  <2>2. \E l \in Locations : pc' = [pc EXCEPT ![p] = l]
    BY <1>3 DEF LoadConfiguration, LoadMissing, LoadWithoutDirectory, LoadUnreadable,
                LoadDocument, Apply,
                Open, OpenFails, Return, Finish, Locations
  <2>. QED
    BY <1>1, <2>1, <2>2
<1>4. ASSUME NEW p \in Procs, Encode(p) PROVE pc'[q] \in {"clear", "close"}
  <2>1. CASE q = p
    BY <1>4, <2>1 DEF Encode, TypeOK
  <2>2. CASE q # p
    <3>1. buffered[q] /\ pc'[q] = pc[q]
      BY <1>4, <2>2 DEF Encode, TypeOK
    <3>. QED
      BY <3>1 DEF BufferedWhileSaving
  <2>. QED
    BY <2>1, <2>2
<1>5. ASSUME NEW p \in Procs, ClearCache(p) PROVE pc'[q] \in {"clear", "close"}
    BY <1>5 DEF ClearCache, BufferedWhileSaving, TypeOK
<1>6. ASSUME NEW p \in Procs, Close(p) PROVE pc'[q] \in {"clear", "close"}
  <2>1. q # p /\ buffered[q]
    BY <1>6 DEF Close, TypeOK
  <2>2. pc'[q] = pc[q]
    BY <1>6, <2>1 DEF Close, Return, Finish, TypeOK
  <2>. QED
    BY <2>1, <2>2 DEF BufferedWhileSaving
<1>7. CASE Crash
    BY <1>7 DEF Crash
<1>8. CASE UNCHANGED vars
    BY <1>8 DEF vars, BufferedWhileSaving
<1>. QED
    BY <1>2, <1>3, <1>4, <1>5, <1>6, <1>7, <1>8 DEF Next, Step, Save

\* A write of the only save that has truncated the file leaves its document.
LEMMA WriteInTurn ==
    ASSUME TypeOK, SavesInTurn, NEW p \in Procs, Unwritten(p), Write(p), ~torn',
           \A q \in Procs : Unwritten(q)' => Unwritten(q) /\ q # p
    PROVE  SavesInTurn'
<1>1. file = Empty /\ AloneIn(p)
    BY DEF SavesInTurn, AloneIn, Write
<1>2. file' = conf[p]
    BY <1>1 DEF Write, Written
<1>3. file' \notin {Empty, Corrupt}
    BY <1>2, DocumentIsNoMark DEF TypeOK
<1>4. \A q \in Procs : ~Unwritten(q)'
    BY <1>1 DEF AloneIn
<1>. QED
    BY <1>3, <1>4 DEF SavesInTurn

\* A step that leaves the file and every truncation as they are.
LEMMA ElsewhereInTurn ==
    ASSUME SavesInTurn, UNCHANGED <<file, torn>>,
           \A q \in Procs : Unwritten(q)' <=> Unwritten(q)
    PROVE  SavesInTurn'
    BY DEF SavesInTurn

\* Every step keeps untorn saves in turn.
LEMMA NextSavesInTurn ==
    TypeOK /\ BufferedWhileSaving /\ SavesInTurn /\ [Next]_vars => SavesInTurn'
<1>. SUFFICES ASSUME TypeOK, BufferedWhileSaving, SavesInTurn, [Next]_vars
              PROVE  SavesInTurn'
    OBVIOUS
<1>1. ASSUME NEW p \in Procs, UNCHANGED <<file, torn, buffered>>, pc[p] # "encode",
             NEW l \in Locations \ {"encode"}, pc' = [pc EXCEPT ![p] = l]
      PROVE  SavesInTurn'
  <2>1. \A q \in Procs : Unwritten(q)' <=> Unwritten(q)
    BY <1>1 DEF Unwritten, TypeOK
  <2>. QED
    BY <1>1, <2>1, ElsewhereInTurn
<1>2. ASSUME NEW p \in Procs, NEW o \in Requests, Request(p, o) PROVE SavesInTurn'
    BY <1>1, <1>2 DEF Request, Locations
<1>3. ASSUME NEW p \in Procs,
             LoadConfiguration(p) \/ Apply(p) \/ OpenFails(p) \/ ClearCache(p)
      PROVE  SavesInTurn'
  <2>1. UNCHANGED <<file, torn, buffered>> /\ pc[p] # "encode"
    BY <1>3 DEF LoadConfiguration, LoadMissing, LoadWithoutDirectory, LoadUnreadable,
                LoadDocument, Apply,
                OpenFails, ClearCache
  <2>2. \E l \in Locations \ {"encode"} : pc' = [pc EXCEPT ![p] = l]
    BY <1>3 DEF LoadConfiguration, LoadMissing, LoadWithoutDirectory, LoadUnreadable,
                LoadDocument, Apply,
                OpenFails, ClearCache, Return, Finish, Locations
  <2>. QED
    BY <1>1, <2>1, <2>2
<1>4. ASSUME NEW p \in Procs, Open(p) PROVE SavesInTurn'
  <2>. SUFFICES ASSUME ~torn' PROVE SavesInTurn'
    BY DEF SavesInTurn
  <2>1. AloneIn(p) /\ file' = Empty
    BY <1>4 DEF Open
  <2>2. Unwritten(p)'
    BY <1>4 DEF Open, Unwritten, TypeOK
  <2>3. \A q \in Procs \ {p} : ~Unwritten(q)'
    BY <1>4, <2>1 DEF Open, AloneIn, Unwritten, TypeOK
  <2>. QED
    BY <2>1, <2>2, <2>3 DEF SavesInTurn
<1>5. ASSUME NEW p \in Procs, Encode(p) PROVE SavesInTurn'
  <2>1. Unwritten(p) /\ ~buffered[p]
    BY <1>5 DEF Encode, Unwritten, BufferedWhileSaving
  <2>2. CASE buffered' = [buffered EXCEPT ![p] = TRUE] /\ UNCHANGED <<file, torn>>
    <3>1. \A q \in Procs : Unwritten(q)' <=> Unwritten(q)
      BY <1>5, <2>1, <2>2 DEF Encode, Unwritten, TypeOK
    <3>. QED
      BY <2>2, <3>1, ElsewhereInTurn
  <2>3. CASE Write(p) /\ UNCHANGED buffered
    <3>1. \A q \in Procs : Unwritten(q)' => Unwritten(q) /\ q # p
      BY <1>5, <2>1, <2>3 DEF Encode, Unwritten, TypeOK
    <3>2. CASE torn'
      BY <3>2 DEF SavesInTurn
    <3>. QED
      BY <2>1, <2>3, <3>1, <3>2, WriteInTurn
  <2>. QED
    BY <1>5, <2>2, <2>3 DEF Encode
<1>6. ASSUME NEW p \in Procs, Close(p) PROVE SavesInTurn'
  <2>1. \E l \in {"idle", "apply"} : pc' = [pc EXCEPT ![p] = l]
    BY <1>6 DEF Close, Return, Finish
  <2>2. \A q \in Procs : Unwritten(q)' <=> Unwritten(q) /\ q # p
    BY <1>6, <2>1 DEF Close, Unwritten, TypeOK
  <2>3. CASE buffered[p]
    <3>1. Unwritten(p) /\ Write(p)
      BY <1>6, <2>3 DEF Close, Unwritten
    <3>2. CASE torn'
      BY <3>2 DEF SavesInTurn
    <3>. QED
      BY <2>2, <3>1, <3>2, WriteInTurn
  <2>4. CASE ~buffered[p]
    <3>1. ~Unwritten(p) /\ UNCHANGED <<file, torn>>
      BY <1>6, <2>4 DEF Close, Unwritten
    <3>2. \A q \in Procs : Unwritten(q)' <=> Unwritten(q)
      BY <2>2, <3>1
    <3>. QED
      BY <3>1, <3>2, ElsewhereInTurn
  <2>. QED
    BY <2>3, <2>4
<1>7. CASE Crash
  <2>. SUFFICES ASSUME ~torn' PROVE SavesInTurn'
    BY DEF SavesInTurn
  <2>1. ~torn /\ \A q \in Procs : ~Unwritten(q)
    BY <1>7 DEF Crash
  <2>2. \A q \in Procs : ~Unwritten(q)'
    BY <1>7 DEF Crash, Unwritten
  <2>3. file' = file /\ file \notin {Empty, Corrupt}
    BY <1>7, <2>1 DEF Crash, SavesInTurn
  <2>. QED
    BY <2>2, <2>3 DEF SavesInTurn
<1>8. CASE UNCHANGED vars
    BY <1>8, ElsewhereInTurn DEF vars, Unwritten
<1>. QED
    BY <1>2, <1>3, <1>4, <1>5, <1>6, <1>7, <1>8 DEF Next, Step, Save

\* The file is unreadable only inside a save or after a torn one, for any
\* number of goroutines: saves that run one after the other, each flushing its
\* writer before it returns, leave a document that parses.
THEOREM TornSavesOnly == Spec => []UnreadableOnlyIfTorn
<1>1. Init => BufferedWhileSaving /\ SavesInTurn
  <2>. SUFFICES ASSUME Init PROVE BufferedWhileSaving /\ SavesInTurn
    OBVIOUS
  <2>1. file \notin {Empty, Corrupt}
    BY InitialFilesAssumption, FileStateAssumption DEF Init
  <2>2. \A p \in Procs : ~buffered[p] /\ ~Unwritten(p)
    BY DEF Init, Unwritten
  <2>. QED
    BY <2>1, <2>2 DEF BufferedWhileSaving, SavesInTurn
<1>2. TypeOK /\ BufferedWhileSaving /\ SavesInTurn /\ [Next]_vars
          => BufferedWhileSaving' /\ SavesInTurn'
    BY NextBuffered, NextSavesInTurn
<1>3. SavesInTurn => UnreadableOnlyIfTorn
    BY DEF SavesInTurn, UnreadableOnlyIfTorn
<1>. QED
    BY <1>1, <1>2, <1>3, TypeCorrect, PTL DEF Spec

\* An unreadable file that no goroutine is working on is never written again:
\* LoadConfiguration returns the parser's error before any save.
THEOREM UnreadableIsKept == Spec => UnreadableFileIsKept
<1>1. TypeOK /\ [Next]_vars => [Unreadable => Unreadable' /\ file' = file]_vars
  <2>. SUFFICES ASSUME TypeOK, Next, Unreadable PROVE Unreadable' /\ file' = file
    OBVIOUS
  <2>1. ASSUME NEW p \in Procs, NEW o \in Requests, Request(p, o)
        PROVE  Unreadable' /\ file' = file
    BY <2>1 DEF Request, Unreadable, TypeOK
  <2>2. ASSUME NEW p \in Procs, LoadUnreadable(p) PROVE Unreadable' /\ file' = file
    BY <2>2 DEF LoadUnreadable, Finish, Unreadable, TypeOK
  <2>3. ASSUME NEW p \in Procs,
               LoadMissing(p) \/ LoadWithoutDirectory(p) \/ LoadDocument(p) \/ Apply(p) \/ Save(p)
        PROVE  FALSE
    BY <2>3, FileStateAssumption
       DEF LoadMissing, LoadWithoutDirectory, LoadDocument, Apply, Save, Open, OpenFails,
           Encode, ClearCache, Close, Unreadable
  <2>4. CASE Crash
    BY <2>4 DEF Crash, Unreadable
  <2>. QED
    BY <2>1, <2>2, <2>3, <2>4 DEF Next, Step, LoadConfiguration
<1>. QED
    BY <1>1, TypeCorrect, PTL DEF Spec, UnreadableFileIsKept
===============================================================================
