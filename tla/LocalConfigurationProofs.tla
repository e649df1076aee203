----------------------- MODULE LocalConfigurationProofs -----------------------
(***************************************************************************)
(* What the operations on the configuration return, for every document:    *)
(* they keep it well formed and never give two environments one name.      *)
(***************************************************************************)
EXTENDS LocalConfiguration, TLAPS, FiniteSetTheorems, SequenceTheorems,
        WellFoundedInduction

\* First, the loop that stops at the first match, picks a member of a set of
\* indexes that is not empty.
LEMMA FirstIsMember ==
    ASSUME NEW S \in SUBSET Nat, S # {}
    PROVE  First(S) \in S
<1>. DEFINE Less == {ss \in Nat \X Nat : ss[1] < ss[2]}
<1>1. IsWellFoundedOn(Less, Nat)
    BY NatLessThanWellFounded, Zenon DEF OpToRel
<1>2. PICK x \in S : \A y \in S : ~(<<y, x>> \in Less)
    BY <1>1, WFMin
<1>3. ASSUME NEW y \in S PROVE x <= y
  <2>1. x \in Nat /\ y \in Nat
    OBVIOUS
  <2>2. y < x => <<y, x>> \in Less
    BY <2>1
  <2>. QED
    BY <1>2, <2>1, <2>2
<1>. QED
    BY <1>3 DEF First

\* Removing an index keeps the elements of the others, in their order.
LEMMA RemoveIndexProperties ==
    ASSUME NEW S, NEW s \in Seq(S), NEW i \in DOMAIN s
    PROVE  /\ RemoveIndex(s, i) \in Seq(S)
           /\ Len(RemoveIndex(s, i)) = Len(s) - 1
           /\ \A j \in 1..(Len(s) - 1) :
                 RemoveIndex(s, i)[j] = IF j < i THEN s[j] ELSE s[j + 1]
<1>. DEFINE a == SubSeq(s, 1, i - 1)
            b == SubSeq(s, i + 1, Len(s))
<1>1. /\ Len(s) \in Nat
      /\ DOMAIN s = 1..Len(s)
      /\ \A j \in 1..Len(s) : s[j] \in S
    BY LenProperties, ElementOfSeq
<1>2. i \in 1..Len(s)
    BY <1>1
<1>3. /\ a \in Seq(S)
      /\ Len(a) = i - 1
      /\ \A j \in 1..(i - 1) : a[j] = s[j]
  <2>1. \A j \in 1..(i - 1) : s[j] \in S
    BY <1>1, <1>2
  <2>2. /\ a \in Seq(S)
        /\ Len(a) = IF 1 <= i - 1 THEN i - 1 - 1 + 1 ELSE 0
        /\ \A j \in 1..(i - 1 - 1 + 1) : a[j] = s[1 + j - 1]
    BY <1>2, <2>1, SubSeqProperties
  <2>. QED
    BY <1>2, <2>2
<1>4. /\ b \in Seq(S)
      /\ Len(b) = Len(s) - i
      /\ \A j \in 1..(Len(s) - i) : b[j] = s[i + j]
  <2>1. \A j \in (i + 1)..Len(s) : s[j] \in S
    BY <1>1, <1>2
  <2>2. /\ b \in Seq(S)
        /\ Len(b) = IF i + 1 <= Len(s) THEN Len(s) - (i + 1) + 1 ELSE 0
        /\ \A j \in 1..(Len(s) - (i + 1) + 1) : b[j] = s[i + 1 + j - 1]
    BY <1>1, <1>2, <2>1, SubSeqProperties
  <2>. HIDE DEF b
  <2>3. Len(b) = Len(s) - i /\ Len(s) - (i + 1) + 1 = Len(s) - i
    BY <1>1, <1>2, <2>2
  <2>4. ASSUME NEW j \in 1..(Len(s) - i) PROVE b[j] = s[i + j]
    <3>1. i + 1 + j - 1 = i + j
      BY <1>2
    <3>. QED
      BY <2>2, <2>3, <3>1
  <2>. QED
    BY <2>2, <2>3, <2>4
<1>5. /\ a \o b \in Seq(S)
      /\ Len(a \o b) = Len(a) + Len(b)
      /\ \A j \in 1..(Len(a) + Len(b)) :
            (a \o b)[j] = IF j <= Len(a) THEN a[j] ELSE b[j - Len(a)]
    BY <1>3, <1>4, ConcatProperties
<1>6. RemoveIndex(s, i) = a \o b
    BY DEF RemoveIndex
<1>. HIDE DEF a, b
<1>7. /\ RemoveIndex(s, i) \in Seq(S)
      /\ Len(RemoveIndex(s, i)) = Len(s) - 1
  <2>1. Len(a) + Len(b) = Len(s) - 1
    BY <1>1, <1>2, <1>3, <1>4
  <2>. QED
    BY <1>5, <1>6, <2>1, Zenon
<1>8. ASSUME NEW j \in 1..(Len(s) - 1)
      PROVE  RemoveIndex(s, i)[j] = IF j < i THEN s[j] ELSE s[j + 1]
  <2>1. (a \o b)[j] = IF j <= i - 1 THEN a[j] ELSE b[j - (i - 1)]
    BY <1>1, <1>2, <1>3, <1>4, <1>5
  <2>2. CASE j < i
    BY <1>1, <1>2, <1>3, <1>6, <2>1, <2>2
  <2>3. CASE ~(j < i)
    <3>1. j - (i - 1) \in 1..(Len(s) - i) /\ i + (j - (i - 1)) = j + 1
      BY <1>1, <1>2, <2>3
    <3>2. b[j - (i - 1)] = s[j + 1]
      BY <1>4, <3>1
    <3>. QED
      BY <1>1, <1>2, <1>6, <2>1, <2>3, <3>2
  <2>. QED
    BY <2>2, <2>3
<1>. QED
    BY <1>7, <1>8
-----------------------------------------------------------------------------
\* The parts of a document.
LEMMA DocumentParts ==
    ASSUME NEW c \in Configuration
    PROVE  /\ c.envs \in Seq(Env)
           /\ Len(c.envs) \in Nat
           /\ DOMAIN c.envs = 1..Len(c.envs)
           /\ \A e \in DOMAIN c.envs :
                 /\ c.envs[e] \in Env
                 /\ c.envs[e].name \in EnvNames
                 /\ c.envs[e].hostnames \in Seq(Hostname)
<1>1. c.envs \in Seq(Env)
    BY DEF Configuration
<1>2. Len(c.envs) \in Nat /\ DOMAIN c.envs = 1..Len(c.envs)
    BY <1>1, LenProperties
<1>3. \A e \in DOMAIN c.envs : c.envs[e] \in Env
    BY <1>1, <1>2, ElementOfSeq
<1>. QED
    BY <1>1, <1>2, <1>3 DEF Env

\* GetEnv finds an environment of the name asked for.
LEMMA GetEnvFinds ==
    ASSUME NEW c \in Configuration, NEW name, HasEnv(c, name)
    PROVE  GetEnv(c, name) \in DOMAIN c.envs /\ c.envs[GetEnv(c, name)].name = name
<1>1. EnvIndexes(c, name) \in SUBSET Nat /\ EnvIndexes(c, name) # {}
    BY DocumentParts DEF EnvIndexes, HasEnv
<1>2. GetEnv(c, name) \in EnvIndexes(c, name)
    BY <1>1, FirstIsMember DEF GetEnv
<1>. QED
    BY <1>2 DEF EnvIndexes

\* GetHostname and GetHostnameById find an entry of the environment.
LEMMA GetHostnameFinds ==
    ASSUME NEW env, env.hostnames \in Seq(Hostname)
    PROVE  /\ \A name : HasHostname(env, name) =>
                 GetHostname(env, name) \in DOMAIN env.hostnames
           /\ \A id : IdIndexes(env, id) # {} =>
                 GetHostnameById(env, id) \in DOMAIN env.hostnames
<1>1. DOMAIN env.hostnames \in SUBSET Nat
    BY LenProperties
<1>2. ASSUME NEW name, HasHostname(env, name)
      PROVE  GetHostname(env, name) \in DOMAIN env.hostnames
  <2>1. HostnameIndexes(env, name) \in SUBSET Nat /\ HostnameIndexes(env, name) # {}
    BY <1>1, <1>2 DEF HostnameIndexes, HasHostname
  <2>2. GetHostname(env, name) \in HostnameIndexes(env, name)
    BY <2>1, FirstIsMember DEF GetHostname
  <2>. QED
    BY <2>2 DEF HostnameIndexes
<1>3. ASSUME NEW id, IdIndexes(env, id) # {}
      PROVE  GetHostnameById(env, id) \in DOMAIN env.hostnames
  <2>1. IdIndexes(env, id) \in SUBSET Nat
    BY <1>1 DEF IdIndexes
  <2>2. GetHostnameById(env, id) \in IdIndexes(env, id)
    BY <1>3, <2>1, FirstIsMember DEF GetHostnameById
  <2>. QED
    BY <2>2 DEF IdIndexes
<1>. QED
    BY <1>2, <1>3
-----------------------------------------------------------------------------
\* A document with other environments.
LEMMA ReplaceEnvs ==
    ASSUME NEW c \in Configuration, NEW s \in Seq(Env)
    PROVE  /\ [c EXCEPT !.envs = s] \in Configuration
           /\ [c EXCEPT !.envs = s].envs = s
    BY DEF Configuration

\* A document with other entries in one environment keeps its environments.
LEMMA ReplaceHostnamesParts ==
    ASSUME NEW c \in Configuration, NEW e \in DOMAIN c.envs, NEW s \in Seq(Hostname),
           NEW d, d = [c EXCEPT !.envs[e].hostnames = s]
    PROVE  /\ d \in Configuration
           /\ UniqueEnvs(c) => UniqueEnvs(d)
           /\ d.activeEnv = c.activeEnv
           /\ DOMAIN d.envs = DOMAIN c.envs
           /\ \A j \in DOMAIN c.envs : d.envs[j].name = c.envs[j].name
           /\ \A j \in DOMAIN c.envs :
                  d.envs[j].hostnames = IF j = e THEN s ELSE c.envs[j].hostnames
<1>. DEFINE env == [c.envs[e] EXCEPT !.hostnames = s]
            envs == [c.envs EXCEPT ![e] = env]
<1>1. env \in Env /\ env.name = c.envs[e].name
    BY DocumentParts DEF Env
<1>2. /\ envs \in Seq(Env)
      /\ Len(envs) = Len(c.envs)
      /\ \A j \in 1..Len(c.envs) : envs[j] = IF j = e THEN env ELSE c.envs[j]
    BY <1>1, DocumentParts, ExceptSeq
<1>3. d = [c EXCEPT !.envs = envs]
    BY DEF Configuration
<1>4. d \in Configuration /\ d.envs = envs
    BY <1>2, <1>3, ReplaceEnvs
<1>5. DOMAIN envs = DOMAIN c.envs
    OBVIOUS
<1>6. \A j \in DOMAIN c.envs : envs[j].name = c.envs[j].name
    BY <1>1, <1>2, DocumentParts
<1>7. UniqueEnvs(c) => UniqueEnvs(d)
  <2>. HIDE DEF envs
  <2>. QED
    BY <1>4, <1>5, <1>6 DEF UniqueEnvs
<1>8. \A j \in DOMAIN c.envs : envs[j].hostnames = IF j = e THEN s ELSE c.envs[j].hostnames
  <2>1. env.hostnames = s
    BY DocumentParts DEF Env
  <2>. HIDE DEF env, envs
  <2>. QED
    BY <1>2, <2>1, DocumentParts
<1>9. d.activeEnv = c.activeEnv
    BY <1>3 DEF Configuration
<1>. HIDE DEF envs
<1>. QED
    BY <1>4, <1>5, <1>6, <1>7, <1>8, <1>9

\* It stays a document, and the names of its environments stay distinct.
LEMMA ReplaceHostnames ==
    ASSUME NEW c \in Configuration, NEW e \in DOMAIN c.envs, NEW s \in Seq(Hostname)
    PROVE  LET d == [c EXCEPT !.envs[e].hostnames = s]
           IN  d \in Configuration /\ (UniqueEnvs(c) => UniqueEnvs(d))
    BY ReplaceHostnamesParts
-----------------------------------------------------------------------------
(***************************************************************************)
(* Every operation returns an error or a document, and a document whose    *)
(* environments have distinct names if they had before.                    *)
(***************************************************************************)
Keeps(c, d) == d = Rejected \/ (d \in Configuration /\ (UniqueEnvs(c) => UniqueEnvs(d)))

\* AddEnv compares the new name with every other one.
LEMMA AddEnvKeeps ==
    ASSUME NEW c \in Configuration, NEW env \in Env
    PROVE  Keeps(c, AddEnv(c, env))
<1>. SUFFICES ASSUME ~HasEnv(c, env.name)
              PROVE  LET d == [c EXCEPT !.envs = Append(c.envs, env)]
                     IN  d \in Configuration /\ (UniqueEnvs(c) => UniqueEnvs(d))
    BY DEF Keeps, AddEnv
<1>. DEFINE envs == Append(c.envs, env)
            d == [c EXCEPT !.envs = envs]
<1>1. /\ envs \in Seq(Env)
      /\ Len(envs) = Len(c.envs) + 1
      /\ \A i \in 1..Len(c.envs) : envs[i] = c.envs[i]
      /\ envs[Len(c.envs) + 1] = env
    BY DocumentParts, AppendProperties
<1>2. d \in Configuration /\ d.envs = envs
    BY <1>1, ReplaceEnvs
<1>3. \A i \in 1..Len(c.envs) : c.envs[i].name # env.name
    BY DocumentParts DEF HasEnv, EnvIndexes
<1>4. DOMAIN envs = 1..(Len(c.envs) + 1)
    BY <1>1, LenProperties
<1>. HIDE DEF envs
<1>5. ASSUME UniqueEnvs(c),
             NEW i \in 1..(Len(c.envs) + 1), NEW j \in 1..(Len(c.envs) + 1),
             envs[i].name = envs[j].name
      PROVE  i = j
  <2>1. Len(c.envs) \in Nat
    BY DocumentParts
  <2>2. CASE i \in 1..Len(c.envs) /\ j \in 1..Len(c.envs)
    BY <1>1, <1>5, <2>2, DocumentParts DEF UniqueEnvs
  <2>3. CASE i = Len(c.envs) + 1 /\ j \in 1..Len(c.envs)
    BY <1>1, <1>3, <1>5, <2>3
  <2>4. CASE i \in 1..Len(c.envs) /\ j = Len(c.envs) + 1
    BY <1>1, <1>3, <1>5, <2>4
  <2>. QED
    BY <2>1, <2>2, <2>3, <2>4
<1>. HIDE DEF d
<1>. QED
  <2>1. UniqueEnvs(c) => UniqueEnvs(d)
    BY <1>2, <1>4, <1>5 DEF UniqueEnvs
  <2>. QED
    BY <1>2, <2>1 DEF d, envs

\* Removing an environment keeps the others.
LEMMA RemoveEnvByNameKeeps ==
    ASSUME NEW c \in Configuration, NEW name
    PROVE  Keeps(c, RemoveEnvByName(c, name))
<1>. DEFINE i == GetEnv(c, name)
            envs == RemoveIndex(c.envs, i)
            d == [c EXCEPT !.envs = envs]
<1>. SUFFICES ASSUME HasEnv(c, name)
              PROVE  d \in Configuration /\ (UniqueEnvs(c) => UniqueEnvs(d))
    BY DEF Keeps, RemoveEnvByName
<1>1. i \in 1..Len(c.envs) /\ Len(c.envs) \in Nat /\ DOMAIN c.envs = 1..Len(c.envs)
    BY GetEnvFinds, DocumentParts
<1>. HIDE DEF i
<1>2. /\ envs \in Seq(Env)
      /\ Len(envs) = Len(c.envs) - 1
      /\ \A j \in 1..(Len(c.envs) - 1) :
            envs[j] = IF j < i THEN c.envs[j] ELSE c.envs[j + 1]
    BY <1>1, DocumentParts, RemoveIndexProperties
<1>3. d \in Configuration /\ d.envs = envs
    BY <1>2, ReplaceEnvs
<1>4. DOMAIN envs = 1..(Len(c.envs) - 1)
    BY <1>2, LenProperties
<1>. HIDE DEF envs
<1>5. ASSUME UniqueEnvs(c),
             NEW j \in 1..(Len(c.envs) - 1), NEW k \in 1..(Len(c.envs) - 1),
             envs[j].name = envs[k].name
      PROVE  j = k
  <2>. DEFINE old(n) == IF n < i THEN n ELSE n + 1
  <2>1. old(j) \in DOMAIN c.envs /\ old(k) \in DOMAIN c.envs
    BY <1>1
  <2>2. envs[j] = c.envs[old(j)] /\ envs[k] = c.envs[old(k)]
    BY <1>2
  <2>3. old(j) = old(k)
    BY <1>5, <2>1, <2>2 DEF UniqueEnvs
  <2>. QED
    BY <1>1, <2>3
<1>. HIDE DEF d
<1>6. UniqueEnvs(c) => UniqueEnvs(d)
    BY <1>3, <1>4, <1>5 DEF UniqueEnvs
<1>. QED
    BY <1>3, <1>6

\* Choosing the active environment changes no environment.
LEMMA SetActiveEnvKeeps ==
    ASSUME NEW c \in Configuration, NEW name \in EnvNames
    PROVE  Keeps(c, SetActiveEnv(c, name))
<1>1. /\ [c EXCEPT !.activeEnv = name] \in Configuration
      /\ [c EXCEPT !.activeEnv = name].envs = c.envs
    BY DEF Configuration
<1>. QED
    BY <1>1 DEF Keeps, SetActiveEnv, UniqueEnvs

\* The three operations on entries change the entries of one environment.
LEMMA AddHostnameKeeps ==
    ASSUME NEW c \in Configuration, NEW name, NEW host \in Hostname
    PROVE  Keeps(c, AddHostname(c, name, host))
<1>. DEFINE e == GetEnv(c, name)
            hosts == Append(c.envs[e].hostnames, host)
<1>1. CASE AddHostname(c, name, host) = Rejected
    BY <1>1 DEF Keeps
<1>2. CASE HasEnv(c, name) /\ AddHostname(c, name, host) # Rejected
  <2>1. e \in DOMAIN c.envs
    BY <1>2, GetEnvFinds
  <2>2. hosts \in Seq(Hostname)
    BY <2>1, DocumentParts, AppendProperties
  <2>3. AddHostname(c, name, host) = [c EXCEPT !.envs[e].hostnames = hosts]
    BY <1>2 DEF AddHostname
  <2>. HIDE DEF e, hosts
  <2>. QED
    BY <2>1, <2>2, <2>3, ReplaceHostnames DEF Keeps
<1>. QED
    BY <1>1, <1>2 DEF AddHostname

\* An updated entry replaces one of the same environment.
LEMMA UpdateHostnameKeeps ==
    ASSUME NEW c \in Configuration, NEW name, NEW host \in Hostname
    PROVE  Keeps(c, UpdateHostname(c, name, host))
<1>. DEFINE e == GetEnv(c, name)
            h == GetHostnameById(c.envs[e], host.id)
            hosts == [c.envs[e].hostnames EXCEPT ![h] = host]
<1>1. CASE UpdateHostname(c, name, host) = Rejected
    BY <1>1 DEF Keeps
<1>2. CASE HasEnv(c, name) /\ IdIndexes(c.envs[e], host.id) # {}
  <2>1. e \in DOMAIN c.envs
    BY <1>2, GetEnvFinds
  <2>2. c.envs[e].hostnames \in Seq(Hostname)
    BY <2>1, DocumentParts
  <2>3. h \in 1..Len(c.envs[e].hostnames)
    BY <1>2, <2>2, GetHostnameFinds, LenProperties
  <2>4. hosts \in Seq(Hostname)
    BY <2>2, <2>3, ExceptSeq
  <2>5. UpdateHostname(c, name, host) = [c EXCEPT !.envs[e].hostnames = hosts]
    BY <1>2 DEF UpdateHostname
  <2>. HIDE DEF e, hosts
  <2>. QED
    BY <2>1, <2>4, <2>5, ReplaceHostnames DEF Keeps
<1>. QED
    BY <1>1, <1>2 DEF UpdateHostname

\* A removed entry leaves the other entries and the environments in place.
LEMMA RemoveHostnameKeeps ==
    ASSUME NEW c \in Configuration, NEW name, NEW hostname
    PROVE  Keeps(c, RemoveHostname(c, name, hostname))
<1>. DEFINE e == GetEnv(c, name)
            hosts == RemoveIndex(c.envs[e].hostnames, GetHostname(c.envs[e], hostname))
<1>1. CASE RemoveHostname(c, name, hostname) = Rejected
    BY <1>1 DEF Keeps
<1>2. CASE HasEnv(c, name) /\ HasHostname(c.envs[e], hostname)
  <2>1. e \in DOMAIN c.envs
    BY <1>2, GetEnvFinds
  <2>2. c.envs[e].hostnames \in Seq(Hostname)
    BY <2>1, DocumentParts
  <2>3. hosts \in Seq(Hostname)
    BY <1>2, <2>2, GetHostnameFinds, RemoveIndexProperties
  <2>4. RemoveHostname(c, name, hostname) = [c EXCEPT !.envs[e].hostnames = hosts]
    BY <1>2 DEF RemoveHostname
  <2>. HIDE DEF e, hosts
  <2>. QED
    BY <2>1, <2>3, <2>4, ReplaceHostnames DEF Keeps
<1>. QED
    BY <1>1, <1>2 DEF RemoveHostname
-----------------------------------------------------------------------------
\* The document for a missing file, and the one SaveConfiguration completes.
LEMMA DefaultConfigurationType ==
    /\ DefaultConfiguration \in Configuration
    /\ UniqueEnvs(DefaultConfiguration)
<1>1. << >> \in Seq(Env) /\ DOMAIN << >> = {}
    BY EmptySeq
<1>. QED
    BY <1>1, DefaultEnvAssumption DEF DefaultConfiguration, Configuration, UniqueEnvs

\* The default environment that a save adds is the only one.
LEMMA WithSomeEnvKeeps ==
    ASSUME NEW c \in Configuration
    PROVE  /\ WithSomeEnv(c) \in Configuration
           /\ UniqueEnvs(c) => UniqueEnvs(WithSomeEnv(c))
<1>. DEFINE env == [name |-> DefaultEnv, hostnames |-> << >>]
            d == [c EXCEPT !.envs = <<env>>]
<1>1. env \in Env
    BY EmptySeq, DefaultEnvAssumption DEF Env
<1>2. <<env>> \in Seq(Env) /\ DOMAIN <<env>> = {1}
    BY <1>1
<1>3. d \in Configuration /\ d.envs = <<env>>
    BY <1>2, ReplaceEnvs
<1>4. UniqueEnvs(d)
    BY <1>2, <1>3 DEF UniqueEnvs
<1>. QED
    BY <1>3, <1>4 DEF WithSomeEnv

\* A document has finitely many entries, so the readings of the clock that
\* setHostnameIds takes are counted by a natural number.
LEMMA EntriesAreFinite ==
    ASSUME NEW c \in Configuration
    PROVE  IsFiniteSet(EntryPositions(c))
<1>. DEFINE row(e) == {e} \X DOMAIN c.envs[e].hostnames
            rows == {row(e) : e \in DOMAIN c.envs}
            f == [e \in DOMAIN c.envs |-> row(e)]
<1>1. IsFiniteSet(DOMAIN c.envs)
    BY DocumentParts, FS_Interval
<1>2. f \in Surjection(DOMAIN c.envs, rows)
    BY DEF Surjection
<1>3. IsFiniteSet(rows)
    BY <1>1, <1>2, FS_Surjection
<1>4. ASSUME NEW e \in DOMAIN c.envs PROVE IsFiniteSet(row(e))
  <2>1. c.envs[e].hostnames \in Seq(Hostname)
    BY DocumentParts
  <2>2. /\ Len(c.envs[e].hostnames) \in Nat
        /\ DOMAIN c.envs[e].hostnames = 1..Len(c.envs[e].hostnames)
    BY <2>1, LenProperties
  <2>3. IsFiniteSet(1..Len(c.envs[e].hostnames))
    BY <2>2, FS_Interval
  <2>4. IsFiniteSet({e})
    BY FS_Singleton, Zenon
  <2>. QED
    BY <2>2, <2>3, <2>4, FS_Product
<1>5. \A r \in rows : IsFiniteSet(r)
    BY <1>4
<1>6. EntryPositions(c) = UNION rows
    BY DEF EntryPositions
<1>. HIDE DEF rows
<1>. QED
    BY <1>3, <1>5, <1>6, FS_UNION

\* So are those without an id, and a load draws a natural number of ids.
LEMMA WithoutIdCount ==
    ASSUME NEW c \in Configuration, NEW S \in SUBSET WithoutId(c)
    PROVE  Cardinality(S) \in Nat
<1>1. S \in SUBSET EntryPositions(c)
    BY DEF WithoutId
<1>2. IsFiniteSet(S)
    BY <1>1, EntriesAreFinite, FS_Subset
<1>. QED
    BY <1>2, FS_CardinalityType

\* Giving out ids keeps the environments and their names.
LEMMA SetHostnameIdsKeeps ==
    ASSUME NEW c \in Configuration, NEW now \in Nat
    PROVE  /\ SetHostnameIds(c, now) \in Configuration
           /\ UniqueEnvs(c) => UniqueEnvs(SetHostnameIds(c, now))
<1>. DEFINE clockAt(p) == now + Cardinality({q \in WithoutId(c) : Before(q, p)})
            host(e, h) == IF <<e, h>> \in WithoutId(c)
                          THEN [c.envs[e].hostnames[h] EXCEPT !.id = clockAt(<<e, h>>)]
                          ELSE c.envs[e].hostnames[h]
            hosts(e) == [h \in DOMAIN c.envs[e].hostnames |-> host(e, h)]
            env(e) == [c.envs[e] EXCEPT !.hostnames = hosts(e)]
            envs == [e \in DOMAIN c.envs |-> env(e)]
            d == [c EXCEPT !.envs = envs]
<1>1. \A p : clockAt(p) \in Nat
  <2>1. ASSUME NEW p PROVE Cardinality({q \in WithoutId(c) : Before(q, p)}) \in Nat
    BY WithoutIdCount
  <2>. QED
    BY <2>1
<1>. HIDE DEF clockAt
<1>2. ASSUME NEW e \in DOMAIN c.envs PROVE hosts(e) \in Seq(Hostname)
  <2>. DEFINE old == c.envs[e].hostnames
  <2>1. /\ old \in Seq(Hostname)
        /\ Len(old) \in Nat
        /\ DOMAIN old = 1..Len(old)
        /\ \A h \in DOMAIN old : old[h] \in Hostname
    BY DocumentParts, LenProperties, ElementOfSeq
  <2>2. ASSUME NEW h \in DOMAIN old PROVE host(e, h) \in Hostname
    <3>1. clockAt(<<e, h>>) \in Nat
      BY <1>1
    <3>2. [old[h] EXCEPT !.id = clockAt(<<e, h>>)] \in Hostname
      BY <2>1, <3>1 DEF Hostname
    <3>. QED
      BY <2>1, <3>2
  <2>. HIDE DEF host
  <2>3. hosts(e) \in [1..Len(old) -> Hostname]
    BY <2>1, <2>2
  <2>. QED
    BY <2>1, <2>3, SeqDef
<1>. HIDE DEF hosts
<1>3. \A e \in DOMAIN c.envs : env(e) \in Env /\ env(e).name = c.envs[e].name
    BY <1>2, DocumentParts DEF Env
<1>. HIDE DEF env
<1>4. envs \in Seq(Env)
  <2>1. envs \in [1..Len(c.envs) -> Env]
    BY <1>3, DocumentParts
  <2>2. Len(c.envs) \in Nat
    BY DocumentParts
  <2>. HIDE DEF envs
  <2>. QED
    BY <2>1, <2>2, SeqDef
<1>5. d \in Configuration /\ d.envs = envs
    BY <1>4, ReplaceEnvs
<1>6. SetHostnameIds(c, now) = d
    BY DEF SetHostnameIds, d, envs, env, hosts, host, clockAt
<1>7. UniqueEnvs(c) => UniqueEnvs(d)
  <2>1. DOMAIN envs = DOMAIN c.envs /\ \A e \in DOMAIN c.envs : envs[e].name = c.envs[e].name
    BY <1>3
  <2>. HIDE DEF envs, d
  <2>. QED
    BY <1>5, <2>1 DEF UniqueEnvs
<1>. QED
    BY <1>5, <1>6, <1>7
-----------------------------------------------------------------------------
\* The number of ids an operation draws.
LEMMA IdsDrawnType ==
    ASSUME NEW o \in Operation
    PROVE  IdsDrawn(o) \in Nat
<1>1. o.kind = "addEnv" => o.hosts \in Seq(NewHostname)
    BY DEF Operation
<1>2. o.kind = "addEnv" => Len(o.hosts) \in Nat
    BY <1>1, LenProperties
<1>. QED
    BY <1>2 DEF IdsDrawn

\* An entry of a request with an id is an entry of a document.
LEMMA WithIdType ==
    ASSUME NEW host \in NewHostname, NEW id \in Nat
    PROVE  WithId(host, id) \in Hostname
    BY DEF NewHostname, WithId, Hostname

\* Whatever operation the REST API asks for, on whatever document, the result
\* is an error or a document, and no operation gives a second environment the
\* name of a first.
THEOREM PerformKeeps ==
    ASSUME NEW o \in Operation, NEW c \in Configuration, NEW now \in Nat
    PROVE  Keeps(c, Perform(o, c, now))
<1>1. CASE o.kind = "read"
    BY <1>1 DEF Perform, Keeps
<1>2. CASE o.kind = "addEnv"
  <2>. DEFINE hosts == [i \in 1..Len(o.hosts) |-> WithId(o.hosts[i], now + i - 1)]
              env == [name |-> o.env, hostnames |-> hosts]
  <2>1. o.env \in EnvNames /\ o.hosts \in Seq(NewHostname)
    BY <1>2 DEF Operation
  <2>2. Len(o.hosts) \in Nat /\ \A i \in 1..Len(o.hosts) : o.hosts[i] \in NewHostname
    BY <2>1, LenProperties, ElementOfSeq
  <2>3. \A i \in 1..Len(o.hosts) : WithId(o.hosts[i], now + i - 1) \in Hostname
    <3>1. \A i \in 1..Len(o.hosts) : now + i - 1 \in Nat
      BY <2>2
    <3>. QED
      BY <2>2, <3>1, WithIdType
  <2>4. hosts \in [1..Len(o.hosts) -> Hostname]
    BY <2>3
  <2>5. hosts \in Seq(Hostname)
    <3>. HIDE DEF hosts
    <3>. QED
      BY <2>2, <2>4, SeqDef
  <2>6. env \in Env
    BY <2>1, <2>5 DEF Env
  <2>7. Perform(o, c, now) = AddEnv(c, env)
    BY <1>2 DEF Perform
  <2>. QED
    BY <2>6, <2>7, AddEnvKeeps
<1>3. CASE o.kind = "removeEnv"
    BY <1>3, RemoveEnvByNameKeeps DEF Perform
<1>4. CASE o.kind = "setActive"
  <2>1. o.env \in EnvNames
    BY <1>4 DEF Operation
  <2>. QED
    BY <1>4, <2>1, SetActiveEnvKeeps DEF Perform
<1>5. CASE o.kind = "addHostname"
  <2>1. WithId(o.host, now) \in Hostname
    BY <1>5, WithIdType DEF Operation
  <2>. QED
    BY <1>5, <2>1, AddHostnameKeeps DEF Perform
<1>6. CASE o.kind = "updateHostname"
  <2>1. WithId(o.host, o.id) \in Hostname
    BY <1>6, WithIdType DEF Operation
  <2>. QED
    BY <1>6, <2>1, UpdateHostnameKeeps DEF Perform
<1>7. CASE o.kind = "removeHostname"
    BY <1>7, RemoveHostnameKeeps DEF Perform
<1>. QED
    BY <1>1, <1>2, <1>3, <1>4, <1>5, <1>6, <1>7 DEF Operation
-----------------------------------------------------------------------------
(***************************************************************************)
(* Ids.  A document whose ids were all drawn between low and now.          *)
(***************************************************************************)
IdsWithin(c, low, now) ==
    /\ low <= now
    /\ DistinctIds(c)
    /\ \A p \in EntryPositions(c) : low <= IdAt(c, p) /\ IdAt(c, p) < now

\* The positions of the entries, and their ids.
LEMMA Positions ==
    ASSUME NEW c
    PROVE  /\ \A e \in DOMAIN c.envs : \A h \in DOMAIN c.envs[e].hostnames :
                  /\ <<e, h>> \in EntryPositions(c)
                  /\ IdAt(c, <<e, h>>) = c.envs[e].hostnames[h].id
           /\ \A p \in EntryPositions(c) :
                  /\ p[1] \in DOMAIN c.envs
                  /\ p[2] \in DOMAIN c.envs[p[1]].hostnames
                  /\ p = <<p[1], p[2]>>
    BY DEF EntryPositions, IdAt

\* Ids are natural numbers.
LEMMA IdAtType ==
    ASSUME NEW c \in Configuration, NEW p \in EntryPositions(c)
    PROVE  IdAt(c, p) \in Nat
<1>1. p[1] \in DOMAIN c.envs /\ p[2] \in DOMAIN c.envs[p[1]].hostnames
    BY Positions
<1>2. c.envs[p[1]].hostnames \in Seq(Hostname)
    BY <1>1, DocumentParts
<1>3. c.envs[p[1]].hostnames[p[2]] \in Hostname
    BY <1>1, <1>2, ElementOfSeq, LenProperties
<1>. QED
    BY <1>3 DEF IdAt, Hostname

\* How ids stay distinct: each entry of the new document is one of the old and
\* has kept its id, or its id was drawn from now on, and no two such entries
\* got the same.
LEMMA IdsExtend ==
    ASSUME NEW c \in Configuration, NEW d \in Configuration, NEW now \in Nat, NEW new \in Nat,
           now <= new, NEW low \in Nat, IdsWithin(c, low, now), NEW f,
           \A p \in EntryPositions(d) :
               \/ f[p] \in EntryPositions(c) /\ IdAt(d, p) = IdAt(c, f[p])
               \/ now <= IdAt(d, p) /\ IdAt(d, p) < new,
           \A p, q \in EntryPositions(d) : f[p] = f[q] => p = q,
           \A p, q \in EntryPositions(d) :
               now <= IdAt(d, p) /\ IdAt(d, p) = IdAt(d, q) => p = q
    PROVE  IdsWithin(d, low, new)
<1>1. \A p \in EntryPositions(d) : IdAt(d, p) \in Nat
    BY IdAtType
<1>2. \A p \in EntryPositions(c) : IdAt(c, p) \in Nat /\ IdAt(c, p) < now
    BY IdAtType DEF IdsWithin
<1>3. low <= new /\ \A p \in EntryPositions(d) : low <= IdAt(d, p) /\ IdAt(d, p) < new
  <2>1. low <= now /\ \A p \in EntryPositions(c) : low <= IdAt(c, p)
    BY DEF IdsWithin
  <2>. QED
    BY <1>1, <1>2, <2>1
<1>4. ASSUME NEW p \in EntryPositions(d), NEW q \in EntryPositions(d),
             IdAt(d, p) = IdAt(d, q), IdAt(d, p) # 0
      PROVE  p = q
  <2>1. CASE now <= IdAt(d, p)
    BY <1>4, <2>1
  <2>2. CASE ~(now <= IdAt(d, p))
    <3>1. /\ f[p] \in EntryPositions(c) /\ IdAt(d, p) = IdAt(c, f[p])
          /\ f[q] \in EntryPositions(c) /\ IdAt(d, q) = IdAt(c, f[q])
      BY <1>4, <2>2
    <3>2. f[p] = f[q]
      BY <1>4, <3>1 DEF IdsWithin, DistinctIds
    <3>. QED
      BY <3>2
  <2>. QED
    BY <2>1, <2>2
<1>. QED
    BY <1>3, <1>4 DEF IdsWithin, DistinctIds

\* Later readings of the clock change nothing.
LEMMA IdsWithinLater ==
    ASSUME NEW c \in Configuration, NEW now \in Nat, NEW new \in Nat, now <= new,
           NEW low \in Nat, IdsWithin(c, low, now)
    PROVE  IdsWithin(c, low, new)
<1>1. \A p \in EntryPositions(c) : IdAt(c, p) \in Nat
    BY IdAtType
<1>. QED
    BY <1>1 DEF IdsWithin

\* A document without entries has no ids.
LEMMA NoEntriesNoIds ==
    ASSUME NEW c, EntryPositions(c) = {}, NEW low, NEW now, low <= now
    PROVE  IdsWithin(c, low, now)
    BY DEF IdsWithin, DistinctIds

\* Positions are pairs of numbers, ordered as the document is read.
LEMMA PositionOrder ==
    ASSUME NEW c \in Configuration
    PROVE  /\ \A p \in EntryPositions(c) : ~Before(p, p)
           /\ \A p, q \in EntryPositions(c) : p = q \/ Before(p, q) \/ Before(q, p)
           /\ \A p, q, r \in EntryPositions(c) :
                  Before(p, q) /\ Before(q, r) => Before(p, r)
<1>1. ASSUME NEW p \in EntryPositions(c)
      PROVE  p[1] \in Nat /\ p[2] \in Nat /\ p = <<p[1], p[2]>>
  <2>1. /\ p[1] \in DOMAIN c.envs /\ p[2] \in DOMAIN c.envs[p[1]].hostnames
        /\ p = <<p[1], p[2]>>
    BY Positions
  <2>2. c.envs[p[1]].hostnames \in Seq(Hostname)
    BY <2>1, DocumentParts
  <2>. QED
    BY <2>1, <2>2, DocumentParts, LenProperties
<1>. QED
    BY <1>1 DEF Before

\* The readings of the clock that setHostnameIds takes are different ones.
LEMMA ReadingsDiffer ==
    ASSUME NEW c \in Configuration
    PROVE  LET n(p) == Cardinality({r \in WithoutId(c) : Before(r, p)})
           IN  /\ \A p \in WithoutId(c) : n(p) \in Nat /\ n(p) < Cardinality(WithoutId(c))
               /\ \A p, q \in WithoutId(c) : n(p) = n(q) => p = q
<1>. DEFINE W == WithoutId(c)
            S(p) == {r \in W : Before(r, p)}
            n(p) == Cardinality(S(p))
<1>1. W \subseteq EntryPositions(c)
    BY DEF WithoutId
<1>2. IsFiniteSet(W) /\ Cardinality(W) \in Nat
    BY <1>1, EntriesAreFinite, FS_Subset, FS_CardinalityType
<1>. HIDE DEF W
<1>3. ASSUME NEW p \in W
      PROVE  /\ IsFiniteSet(S(p)) /\ n(p) \in Nat
             /\ n(p) < Cardinality(W)
             /\ p \notin S(p)
  <2>1. p \notin S(p)
    BY <1>1, PositionOrder
  <2>2. S(p) \in SUBSET W
    OBVIOUS
  <2>3. IsFiniteSet(S(p)) /\ n(p) <= Cardinality(W) /\ (Cardinality(W) = n(p) => W = S(p))
    BY <1>2, <2>2, FS_Subset
  <2>4. n(p) \in Nat
    BY <2>3, FS_CardinalityType
  <2>. HIDE DEF S
  <2>5. n(p) # Cardinality(W)
    BY <2>1, <2>3
  <2>. QED
    BY <1>2, <2>1, <2>3, <2>4, <2>5
<1>4. ASSUME NEW p \in W, NEW q \in W, Before(p, q) PROVE n(p) # n(q)
  <2>1. S(p) \in SUBSET S(q)
    BY <1>1, <1>4, PositionOrder
  <2>2. p \in S(q) /\ p \notin S(p) /\ IsFiniteSet(S(q))
    BY <1>3, <1>4
  <2>. HIDE DEF S
  <2>. QED
    BY <2>1, <2>2, FS_Subset
<1>5. ASSUME NEW p \in W, NEW q \in W, n(p) = n(q) PROVE p = q
  <2>1. ~Before(p, q) /\ ~Before(q, p)
    BY <1>4, <1>5
  <2>. QED
    BY <1>1, <2>1, PositionOrder
<1>6. \A p \in W : n(p) \in Nat /\ n(p) < Cardinality(W)
    BY <1>3
<1>7. \A p, q \in W : n(p) = n(q) => p = q
    BY <1>5
<1>. QED
    BY <1>6, <1>7 DEF W

\* A load gives out ids that no entry has, each to one entry.
LEMMA SetHostnameIdsIds ==
    ASSUME NEW c \in Configuration, NEW now \in Nat, NEW low \in Nat, IdsWithin(c, low, now)
    PROVE  IdsWithin(SetHostnameIds(c, now), low, now + Cardinality(WithoutId(c)))
<1>. DEFINE n(p) == Cardinality({q \in WithoutId(c) : Before(q, p)})
            host(e, h) == IF <<e, h>> \in WithoutId(c)
                          THEN [c.envs[e].hostnames[h] EXCEPT !.id = now + n(<<e, h>>)]
                          ELSE c.envs[e].hostnames[h]
            envs == [e \in DOMAIN c.envs |->
                        [c.envs[e] EXCEPT !.hostnames =
                            [h \in DOMAIN c.envs[e].hostnames |-> host(e, h)]]]
            d == SetHostnameIds(c, now)
            new == now + Cardinality(WithoutId(c))
            f == [p \in EntryPositions(c) |-> p]
<1>1. d \in Configuration
    BY SetHostnameIdsKeeps
<1>2. d.envs = envs
  <2>1. d = [c EXCEPT !.envs = envs]
    BY DEF SetHostnameIds
  <2>. HIDE DEF d, envs
  <2>. QED
    BY <2>1 DEF Configuration
<1>. HIDE DEF d
<1>3. Cardinality(WithoutId(c)) \in Nat /\ new \in Nat /\ now <= new
    BY WithoutIdCount
<1>4. /\ \A p \in WithoutId(c) : n(p) \in Nat /\ n(p) < Cardinality(WithoutId(c))
      /\ \A p, q \in WithoutId(c) : n(p) = n(q) => p = q
    BY ReadingsDiffer
<1>. HIDE DEF n
<1>5. /\ DOMAIN d.envs = DOMAIN c.envs
      /\ \A e \in DOMAIN c.envs :
             d.envs[e].hostnames = [h \in DOMAIN c.envs[e].hostnames |-> host(e, h)]
  <2>. HIDE DEF host
  <2>. QED
    BY <1>2, DocumentParts DEF Env
<1>6. \A e \in DOMAIN c.envs : \A h \in DOMAIN c.envs[e].hostnames :
          c.envs[e].hostnames[h] \in Hostname
    BY DocumentParts, LenProperties, ElementOfSeq
<1>7. EntryPositions(d) = EntryPositions(c)
    BY <1>5 DEF EntryPositions
<1>8. ASSUME NEW p \in EntryPositions(c)
      PROVE  IdAt(d, p) = IF p \in WithoutId(c) THEN now + n(p) ELSE IdAt(c, p)
  <2>1. /\ p[1] \in DOMAIN c.envs /\ p[2] \in DOMAIN c.envs[p[1]].hostnames
        /\ p = <<p[1], p[2]>>
    BY Positions
  <2>2. c.envs[p[1]].hostnames[p[2]] \in Hostname
    BY <1>6, <2>1
  <2>3. d.envs[p[1]].hostnames[p[2]] = host(p[1], p[2])
    <3>. HIDE DEF host
    <3>. QED
      BY <1>5, <2>1
  <2>4. host(p[1], p[2]).id = IF p \in WithoutId(c) THEN now + n(p) ELSE IdAt(c, p)
    BY <2>1, <2>2 DEF Hostname, IdAt
  <2>. HIDE DEF host
  <2>. QED
    BY <2>3, <2>4 DEF IdAt
<1>9. \A p \in EntryPositions(c) : IdAt(c, p) \in Nat /\ IdAt(c, p) < now
    BY IdAtType DEF IdsWithin
<1>. HIDE DEF envs
<1>10. \A p \in EntryPositions(d) :
           \/ f[p] \in EntryPositions(c) /\ IdAt(d, p) = IdAt(c, f[p])
           \/ now <= IdAt(d, p) /\ IdAt(d, p) < new
    BY <1>3, <1>4, <1>7, <1>8
<1>11. \A p, q \in EntryPositions(d) : f[p] = f[q] => p = q
    BY <1>7
<1>12. \A p, q \in EntryPositions(d) : now <= IdAt(d, p) /\ IdAt(d, p) = IdAt(d, q) => p = q
  <2>. SUFFICES ASSUME NEW p \in EntryPositions(c), NEW q \in EntryPositions(c),
                       now <= IdAt(d, p), IdAt(d, p) = IdAt(d, q)
                PROVE  p = q
    BY <1>7
  <2>1. p \in WithoutId(c) /\ q \in WithoutId(c)
    BY <1>8, <1>9
  <2>2. n(p) = n(q)
    BY <1>4, <1>8, <2>1
  <2>. QED
    BY <1>4, <2>1, <2>2
<1>. HIDE DEF f, new
<1>13. IdsWithin(d, low, new)
    BY <1>1, <1>3, <1>10, <1>11, <1>12, IdsExtend
<1>. QED
    BY <1>13 DEF d, new

\* An environment whose entries have fresh ids may be added.
LEMMA AddEnvIds ==
    ASSUME NEW c \in Configuration, NEW env \in Env, NEW now \in Nat, NEW new \in Nat,
           now <= new, NEW low \in Nat, IdsWithin(c, low, now),
           \A h \in DOMAIN env.hostnames :
               now <= env.hostnames[h].id /\ env.hostnames[h].id < new,
           \A h, k \in DOMAIN env.hostnames :
               env.hostnames[h].id = env.hostnames[k].id => h = k
    PROVE  AddEnv(c, env) = Rejected \/ IdsWithin(AddEnv(c, env), low, new)
<1>. SUFFICES ASSUME AddEnv(c, env) # Rejected PROVE IdsWithin(AddEnv(c, env), low, new)
    OBVIOUS
<1>. DEFINE envs == Append(c.envs, env)
            d == AddEnv(c, env)
            f == [p \in EntryPositions(d) |-> p]
            last == Len(c.envs) + 1
<1>1. /\ envs \in Seq(Env)
      /\ Len(envs) = last
      /\ \A i \in 1..Len(c.envs) : envs[i] = c.envs[i]
      /\ envs[last] = env
    BY DocumentParts, AppendProperties
<1>2. DOMAIN envs = 1..last /\ Len(c.envs) \in Nat /\ DOMAIN c.envs = 1..Len(c.envs)
    BY <1>1, LenProperties, DocumentParts
<1>3. d \in Configuration /\ d.envs = envs
    BY <1>1, ReplaceEnvs DEF AddEnv
<1>. HIDE DEF d, envs
<1>4. \A p \in EntryPositions(d) :
          \/ p \in EntryPositions(c) /\ IdAt(d, p) = IdAt(c, p)
          \/ p[1] = last /\ p[2] \in DOMAIN env.hostnames /\ IdAt(d, p) = env.hostnames[p[2]].id
  <2>. SUFFICES ASSUME NEW p \in EntryPositions(d)
                PROVE  \/ p \in EntryPositions(c) /\ IdAt(d, p) = IdAt(c, p)
                       \/ p[1] = last /\ p[2] \in DOMAIN env.hostnames
                          /\ IdAt(d, p) = env.hostnames[p[2]].id
    OBVIOUS
  <2>1. p[1] \in 1..last /\ p[2] \in DOMAIN envs[p[1]].hostnames /\ p = <<p[1], p[2]>>
    BY <1>2, <1>3, Positions
  <2>2. IdAt(d, p) = envs[p[1]].hostnames[p[2]].id
    BY <1>3 DEF IdAt
  <2>3. CASE p[1] \in 1..Len(c.envs)
    <3>1. envs[p[1]] = c.envs[p[1]]
      BY <1>1, <2>3
    <3>. QED
      BY <1>2, <2>1, <2>2, <2>3, <3>1, Positions DEF IdAt
  <2>4. CASE p[1] = last
    BY <1>1, <2>1, <2>2, <2>4
  <2>. QED
    BY <1>2, <2>1, <2>3, <2>4
<1>5. \A p \in EntryPositions(d) :
          \/ f[p] \in EntryPositions(c) /\ IdAt(d, p) = IdAt(c, f[p])
          \/ now <= IdAt(d, p) /\ IdAt(d, p) < new
    BY <1>4
<1>6. \A p, q \in EntryPositions(d) : f[p] = f[q] => p = q
    OBVIOUS
<1>7. ASSUME NEW p \in EntryPositions(d), NEW q \in EntryPositions(d),
             now <= IdAt(d, p), IdAt(d, p) = IdAt(d, q)
      PROVE  p = q
  <2>1. \A r \in EntryPositions(c) : IdAt(c, r) \in Nat /\ IdAt(c, r) < now
    BY IdAtType DEF IdsWithin
  <2>2. ASSUME NEW r \in EntryPositions(d), now <= IdAt(d, r)
        PROVE  ~(r \in EntryPositions(c) /\ IdAt(d, r) = IdAt(c, r))
    BY <2>1, <2>2
  <2>3. /\ p[1] = last /\ p[2] \in DOMAIN env.hostnames /\ IdAt(d, p) = env.hostnames[p[2]].id
        /\ q[1] = last /\ q[2] \in DOMAIN env.hostnames /\ IdAt(d, q) = env.hostnames[q[2]].id
    BY <1>4, <1>7, <2>2
  <2>4. p = <<p[1], p[2]>> /\ q = <<q[1], q[2]>>
    BY Positions
  <2>5. p[2] = q[2]
    BY <1>7, <2>3
  <2>. QED
    BY <2>3, <2>4, <2>5
<1>. HIDE DEF f
<1>8. IdsWithin(d, low, new)
    BY <1>3, <1>5, <1>6, <1>7, IdsExtend
<1>. QED
    BY <1>8 DEF d

\* Removing an environment moves those behind it.
LEMMA RemoveEnvByNameIds ==
    ASSUME NEW c \in Configuration, NEW name, NEW now \in Nat,
           NEW low \in Nat, IdsWithin(c, low, now)
    PROVE  RemoveEnvByName(c, name) = Rejected \/ IdsWithin(RemoveEnvByName(c, name), low, now)
<1>. SUFFICES ASSUME HasEnv(c, name) PROVE IdsWithin(RemoveEnvByName(c, name), low, now)
    BY DEF RemoveEnvByName
<1>. DEFINE i == GetEnv(c, name)
            envs == RemoveIndex(c.envs, i)
            d == RemoveEnvByName(c, name)
            f == [p \in EntryPositions(d) |-> <<IF p[1] < i THEN p[1] ELSE p[1] + 1, p[2]>>]
<1>1. i \in 1..Len(c.envs) /\ Len(c.envs) \in Nat /\ DOMAIN c.envs = 1..Len(c.envs)
    BY GetEnvFinds, DocumentParts
<1>2. d = [c EXCEPT !.envs = envs]
    BY DEF RemoveEnvByName
<1>. HIDE DEF i
<1>3. /\ envs \in Seq(Env)
      /\ Len(envs) = Len(c.envs) - 1
      /\ \A j \in 1..(Len(c.envs) - 1) :
            envs[j] = IF j < i THEN c.envs[j] ELSE c.envs[j + 1]
    BY <1>1, DocumentParts, RemoveIndexProperties
<1>. HIDE DEF d
<1>4. d \in Configuration /\ d.envs = envs
    BY <1>2, <1>3, ReplaceEnvs
<1>5. DOMAIN envs = 1..(Len(c.envs) - 1)
    BY <1>3, LenProperties
<1>. HIDE DEF envs
<1>6. ASSUME NEW p \in EntryPositions(d)
      PROVE  /\ p[1] \in 1..(Len(c.envs) - 1) /\ p = <<p[1], p[2]>>
             /\ f[p] \in EntryPositions(c) /\ IdAt(d, p) = IdAt(c, f[p])
  <2>. DEFINE e == IF p[1] < i THEN p[1] ELSE p[1] + 1
  <2>1. p[1] \in 1..(Len(c.envs) - 1) /\ p[2] \in DOMAIN envs[p[1]].hostnames /\ p = <<p[1], p[2]>>
    BY <1>4, <1>5, Positions
  <2>2. e \in DOMAIN c.envs /\ envs[p[1]] = c.envs[e] /\ f[p] = <<e, p[2]>>
    BY <1>1, <1>3, <2>1
  <2>3. IdAt(d, p) = envs[p[1]].hostnames[p[2]].id
    BY <1>4 DEF IdAt
  <2>. HIDE DEF e, f
  <2>. QED
    BY <2>1, <2>2, <2>3, Positions
<1>7. ASSUME NEW p \in EntryPositions(d), NEW q \in EntryPositions(d), f[p] = f[q]
      PROVE  p = q
  <2>1. /\ p[1] \in Nat /\ p = <<p[1], p[2]>> /\ q[1] \in Nat /\ q = <<q[1], q[2]>>
        /\ i \in Nat
    <3>1. \A r \in EntryPositions(d) : r[1] \in 1..(Len(c.envs) - 1) /\ r = <<r[1], r[2]>>
      BY <1>6
    <3>. HIDE DEF f
    <3>. QED
      BY <1>1, <3>1
  <2>2. /\ (IF p[1] < i THEN p[1] ELSE p[1] + 1) = (IF q[1] < i THEN q[1] ELSE q[1] + 1)
        /\ p[2] = q[2]
    BY <1>7
  <2>3. p[1] = q[1]
    BY <2>1, <2>2
  <2>. QED
    BY <2>1, <2>2, <2>3
<1>8. \A p \in EntryPositions(c) : IdAt(c, p) \in Nat /\ IdAt(c, p) < now
    BY IdAtType DEF IdsWithin
<1>. HIDE DEF f
<1>9. \A p, q \in EntryPositions(d) : now <= IdAt(d, p) /\ IdAt(d, p) = IdAt(d, q) => p = q
    BY <1>6, <1>8
<1>10. IdsWithin(d, low, now)
    BY <1>4, <1>6, <1>7, <1>9, IdsExtend
<1>. QED
    BY <1>10 DEF d

\* Choosing the active environment moves no entry.
LEMMA SetActiveEnvIds ==
    ASSUME NEW c \in Configuration, NEW name, NEW now \in Nat,
           NEW low \in Nat, IdsWithin(c, low, now)
    PROVE  SetActiveEnv(c, name) = Rejected \/ IdsWithin(SetActiveEnv(c, name), low, now)
<1>1. [c EXCEPT !.activeEnv = name].envs = c.envs
    BY DEF Configuration
<1>. QED
    BY <1>1 DEF SetActiveEnv, IdsWithin, DistinctIds, EntryPositions, IdAt

\* The document d is c with the entries s in environment e.
WithHostnames(d, c, e, s) ==
    /\ d \in Configuration
    /\ DOMAIN d.envs = DOMAIN c.envs
    /\ \A j \in DOMAIN c.envs :
           d.envs[j].hostnames = IF j = e THEN s ELSE c.envs[j].hostnames

\* The entries s replace the entries old: g tells where an entry came from,
\* unless its id was drawn between now and new.
KeptOrFresh(old, s, g, now, new) ==
    /\ \A h \in DOMAIN s : \/ g[h] \in DOMAIN old /\ s[h].id = old[g[h]].id
                           \/ now <= s[h].id /\ s[h].id < new
    /\ \A h, k \in DOMAIN s : g[h] = g[k] => h = k
    /\ \A h, k \in DOMAIN s : now <= s[h].id /\ s[h].id = s[k].id => h = k

\* Other entries in one environment: each is one of those it had and keeps its
\* id, or has a fresh one.
LEMMA WithHostnamesIds ==
    ASSUME NEW c \in Configuration, NEW e \in DOMAIN c.envs, NEW s \in Seq(Hostname),
           NEW now \in Nat, NEW new \in Nat, now <= new, NEW low \in Nat, IdsWithin(c, low, now),
           NEW g, KeptOrFresh(c.envs[e].hostnames, s, g, now, new),
           NEW d, WithHostnames(d, c, e, s)
    PROVE  IdsWithin(d, low, new)
<1>. DEFINE f == [p \in EntryPositions(d) |-> IF p[1] = e THEN <<e, g[p[2]]>> ELSE p]
<1>1. ASSUME NEW p \in EntryPositions(d)
      PROVE  /\ p = <<p[1], p[2]>>
             /\ p[1] = e => p[2] \in DOMAIN s /\ IdAt(d, p) = s[p[2]].id
             /\ p[1] # e => p \in EntryPositions(c) /\ IdAt(d, p) = IdAt(c, p)
  <2>1. /\ p[1] \in DOMAIN c.envs /\ p[2] \in DOMAIN d.envs[p[1]].hostnames
        /\ p = <<p[1], p[2]>>
    BY Positions DEF WithHostnames
  <2>2. CASE p[1] = e
    BY <2>1, <2>2 DEF IdAt, WithHostnames
  <2>3. CASE p[1] # e
    <3>1. d.envs[p[1]].hostnames = c.envs[p[1]].hostnames
      BY <2>1, <2>3 DEF WithHostnames
    <3>. QED
      BY <2>1, <2>3, <3>1, Positions DEF IdAt
  <2>. QED
    BY <2>1, <2>2, <2>3
<1>2. ASSUME NEW p \in EntryPositions(d)
      PROVE  \/ f[p] \in EntryPositions(c) /\ IdAt(d, p) = IdAt(c, f[p])
             \/ now <= IdAt(d, p) /\ IdAt(d, p) < new
  <2>1. CASE p[1] = e
    <3>1. f[p] = <<e, g[p[2]]>>
      BY <2>1
    <3>2. p[2] \in DOMAIN s /\ IdAt(d, p) = s[p[2]].id
      BY <1>1, <2>1
    <3>. HIDE DEF f
    <3>3. CASE now <= s[p[2]].id /\ s[p[2]].id < new
      BY <3>2, <3>3
    <3>4. CASE /\ g[p[2]] \in DOMAIN c.envs[e].hostnames
               /\ s[p[2]].id = c.envs[e].hostnames[g[p[2]]].id
      <4>1. /\ <<e, g[p[2]]>> \in EntryPositions(c)
            /\ IdAt(c, <<e, g[p[2]]>>) = c.envs[e].hostnames[g[p[2]]].id
        BY <3>4, Positions
      <4>. QED
        BY <3>1, <3>2, <3>4, <4>1
    <3>. QED
      BY <3>2, <3>3, <3>4 DEF KeptOrFresh
  <2>2. CASE p[1] # e
    BY <1>1, <2>2
  <2>. QED
    BY <2>1, <2>2
<1>3. ASSUME NEW p \in EntryPositions(d), NEW q \in EntryPositions(d), f[p] = f[q]
      PROVE  p = q
  <2>1. /\ p = <<p[1], p[2]>> /\ q = <<q[1], q[2]>>
        /\ p[1] = e => p[2] \in DOMAIN s
        /\ q[1] = e => q[2] \in DOMAIN s
    BY <1>1
  <2>2. CASE p[1] = e /\ q[1] = e
    <3>1. g[p[2]] = g[q[2]]
      BY <1>3, <2>2
    <3>2. p[2] = q[2]
      BY <2>1, <2>2, <3>1 DEF KeptOrFresh
    <3>. QED
      BY <2>1, <2>2, <3>2
  <2>3. CASE p[1] # e \/ q[1] # e
    BY <1>3, <2>1, <2>3
  <2>. QED
    BY <2>2, <2>3
<1>4. ASSUME NEW p \in EntryPositions(d), NEW q \in EntryPositions(d),
             now <= IdAt(d, p), IdAt(d, p) = IdAt(d, q)
      PROVE  p = q
  <2>1. \A r \in EntryPositions(c) : IdAt(c, r) \in Nat /\ IdAt(c, r) < now
    BY IdAtType DEF IdsWithin
  <2>2. p[1] = e /\ q[1] = e
    BY <1>1, <1>4, <2>1
  <2>3. /\ p = <<p[1], p[2]>> /\ q = <<q[1], q[2]>>
        /\ p[2] \in DOMAIN s /\ IdAt(d, p) = s[p[2]].id
        /\ q[2] \in DOMAIN s /\ IdAt(d, q) = s[q[2]].id
    BY <1>1, <2>2
  <2>4. p[2] = q[2]
    BY <1>4, <2>3 DEF KeptOrFresh
  <2>. QED
    BY <2>2, <2>3, <2>4
<1>5. d \in Configuration
    BY DEF WithHostnames
<1>. HIDE DEF f
<1>. QED
    BY <1>2, <1>3, <1>4, <1>5, IdsExtend

\* The ids of one environment.
LEMMA EnvIdsWithin ==
    ASSUME NEW c \in Configuration, NEW e \in DOMAIN c.envs, NEW now \in Nat,
           NEW low \in Nat, IdsWithin(c, low, now),
           NEW h \in DOMAIN c.envs[e].hostnames
    PROVE  c.envs[e].hostnames[h].id \in Nat /\ c.envs[e].hostnames[h].id < now
<1>1. <<e, h>> \in EntryPositions(c) /\ IdAt(c, <<e, h>>) = c.envs[e].hostnames[h].id
    BY Positions
<1>. QED
    BY <1>1, IdAtType DEF IdsWithin

\* The entry AddHostname appends has the id that the handler drew for it.
LEMMA AddHostnameIds ==
    ASSUME NEW c \in Configuration, NEW name, NEW host \in Hostname, NEW now \in Nat,
           host.id = now, NEW low \in Nat, IdsWithin(c, low, now)
    PROVE  \/ AddHostname(c, name, host) = Rejected
           \/ IdsWithin(AddHostname(c, name, host), low, now + 1)
<1>. DEFINE e == GetEnv(c, name)
            old == c.envs[e].hostnames
            hosts == Append(old, host)
            g == [h \in DOMAIN hosts |-> h]
            new == now + 1
            d == AddHostname(c, name, host)
<1>. SUFFICES ASSUME d # Rejected PROVE IdsWithin(d, low, new)
    OBVIOUS
<1>1. HasEnv(c, name) /\ d = [c EXCEPT !.envs[e].hostnames = hosts]
    BY DEF AddHostname
<1>2. e \in DOMAIN c.envs
    BY <1>1, GetEnvFinds
<1>. HIDE DEF e, d
<1>3. old \in Seq(Hostname) /\ Len(old) \in Nat /\ DOMAIN old = 1..Len(old)
    BY <1>2, DocumentParts, LenProperties
<1>4. /\ hosts \in Seq(Hostname)
      /\ Len(hosts) = Len(old) + 1
      /\ \A i \in 1..Len(old) : hosts[i] = old[i]
      /\ hosts[Len(old) + 1] = host
    BY <1>3, AppendProperties
<1>5. DOMAIN hosts = 1..(Len(old) + 1)
    BY <1>4, LenProperties
<1>6. \A h \in DOMAIN old : old[h].id \in Nat /\ old[h].id < now
    BY <1>2, EnvIdsWithin
<1>. HIDE DEF hosts
<1>7. WithHostnames(d, c, e, hosts)
    BY <1>1, <1>2, <1>4, ReplaceHostnamesParts DEF WithHostnames
<1>. HIDE DEF old
<1>8. KeptOrFresh(old, hosts, g, now, new)
  <2>1. \A h \in DOMAIN hosts : \/ g[h] \in DOMAIN old /\ hosts[h].id = old[g[h]].id
                                \/ now <= hosts[h].id /\ hosts[h].id < new
    BY <1>3, <1>4, <1>5
  <2>2. \A h, k \in DOMAIN hosts : now <= hosts[h].id /\ hosts[h].id = hosts[k].id => h = k
    BY <1>3, <1>4, <1>5, <1>6
  <2>. QED
    BY <2>1, <2>2 DEF KeptOrFresh
<1>9. new \in Nat /\ now <= new
    OBVIOUS
<1>. HIDE DEF g, new
<1>. QED
    BY <1>2, <1>4, <1>7, <1>8, <1>9, WithHostnamesIds DEF old

\* An update leaves each entry its id.
LEMMA UpdateHostnameIds ==
    ASSUME NEW c \in Configuration, NEW name, NEW host \in Hostname, NEW now \in Nat,
           NEW low \in Nat, IdsWithin(c, low, now)
    PROVE  \/ UpdateHostname(c, name, host) = Rejected
           \/ IdsWithin(UpdateHostname(c, name, host), low, now)
<1>. DEFINE e == GetEnv(c, name)
            old == c.envs[e].hostnames
            i == GetHostnameById(c.envs[e], host.id)
            hosts == [old EXCEPT ![i] = host]
            g == [h \in DOMAIN hosts |-> h]
            d == UpdateHostname(c, name, host)
<1>. SUFFICES ASSUME HasEnv(c, name), IdIndexes(c.envs[e], host.id) # {}
              PROVE  IdsWithin(d, low, now)
    BY DEF UpdateHostname
<1>1. d = [c EXCEPT !.envs[e].hostnames = hosts]
    BY DEF UpdateHostname
<1>2. e \in DOMAIN c.envs
    BY GetEnvFinds
<1>3. old \in Seq(Hostname) /\ Len(old) \in Nat /\ DOMAIN old = 1..Len(old)
    BY <1>2, DocumentParts, LenProperties
<1>4. i \in DOMAIN old /\ old[i].id = host.id
  <2>1. IdIndexes(c.envs[e], host.id) \in SUBSET Nat
    BY <1>3 DEF IdIndexes
  <2>2. i \in IdIndexes(c.envs[e], host.id)
    BY <2>1, FirstIsMember DEF GetHostnameById
  <2>. QED
    BY <2>2 DEF IdIndexes
<1>. HIDE DEF e, i, d
<1>5. hosts \in Seq(Hostname) /\ DOMAIN hosts = DOMAIN old
    BY <1>3, <1>4, ExceptSeq
<1>6. \A h \in DOMAIN old : hosts[h].id = old[h].id
    BY <1>3, <1>4
<1>7. \A h \in DOMAIN old : old[h].id \in Nat /\ old[h].id < now
    BY <1>2, EnvIdsWithin
<1>. HIDE DEF hosts
<1>8. WithHostnames(d, c, e, hosts)
    BY <1>1, <1>2, <1>5, ReplaceHostnamesParts DEF WithHostnames
<1>. HIDE DEF old
<1>9. KeptOrFresh(old, hosts, g, now, now)
    BY <1>5, <1>6, <1>7 DEF KeptOrFresh
<1>10. now <= now /\ hosts \in Seq(Hostname)
    BY <1>5
<1>. HIDE DEF g
<1>. QED
    BY <1>2, <1>8, <1>9, <1>10, WithHostnamesIds DEF old

\* Removing an entry moves those behind it.
LEMMA RemoveHostnameIds ==
    ASSUME NEW c \in Configuration, NEW name, NEW hostname, NEW now \in Nat,
           NEW low \in Nat, IdsWithin(c, low, now)
    PROVE  \/ RemoveHostname(c, name, hostname) = Rejected
           \/ IdsWithin(RemoveHostname(c, name, hostname), low, now)
<1>. DEFINE e == GetEnv(c, name)
            old == c.envs[e].hostnames
            i == GetHostname(c.envs[e], hostname)
            hosts == RemoveIndex(old, i)
            g == [h \in DOMAIN hosts |-> IF h < i THEN h ELSE h + 1]
            d == RemoveHostname(c, name, hostname)
<1>. SUFFICES ASSUME HasEnv(c, name), HasHostname(c.envs[e], hostname)
              PROVE  IdsWithin(d, low, now)
    BY DEF RemoveHostname
<1>1. d = [c EXCEPT !.envs[e].hostnames = hosts]
    BY DEF RemoveHostname
<1>2. e \in DOMAIN c.envs
    BY GetEnvFinds
<1>3. old \in Seq(Hostname) /\ Len(old) \in Nat /\ DOMAIN old = 1..Len(old)
    BY <1>2, DocumentParts, LenProperties
<1>4. i \in DOMAIN old
    BY <1>3, GetHostnameFinds
<1>. HIDE DEF e, i, d
<1>5. /\ hosts \in Seq(Hostname)
      /\ Len(hosts) = Len(old) - 1
      /\ \A j \in 1..(Len(old) - 1) : hosts[j] = IF j < i THEN old[j] ELSE old[j + 1]
    BY <1>3, <1>4, RemoveIndexProperties
<1>6. DOMAIN hosts = 1..(Len(old) - 1)
    BY <1>5, LenProperties
<1>7. \A h \in DOMAIN old : old[h].id \in Nat /\ old[h].id < now
    BY <1>2, EnvIdsWithin
<1>. HIDE DEF hosts
<1>8. WithHostnames(d, c, e, hosts)
    BY <1>1, <1>2, <1>5, ReplaceHostnamesParts DEF WithHostnames
<1>. HIDE DEF old
<1>9. KeptOrFresh(old, hosts, g, now, now)
  <2>1. \A h \in DOMAIN hosts : g[h] \in DOMAIN old /\ hosts[h].id = old[g[h]].id
    BY <1>3, <1>4, <1>5, <1>6
  <2>2. \A h, k \in DOMAIN hosts : g[h] = g[k] => h = k
    BY <1>3, <1>4, <1>6
  <2>. HIDE DEF g
  <2>3. \A h \in DOMAIN hosts : ~(now <= hosts[h].id)
    BY <1>7, <2>1
  <2>. QED
    BY <2>1, <2>2, <2>3 DEF KeptOrFresh
<1>10. now <= now /\ hosts \in Seq(Hostname)
    BY <1>5
<1>. HIDE DEF g
<1>. QED
    BY <1>2, <1>8, <1>9, <1>10, WithHostnamesIds DEF old

\* Whatever operation the REST API asks for, the ids of the result are distinct
\* and were drawn before the next reading of the clock: no operation gives an
\* entry the id of another, and an update keeps every id where it is.
THEOREM PerformIds ==
    ASSUME NEW o \in Operation, NEW c \in Configuration, NEW now \in Nat,
           NEW low \in Nat, IdsWithin(c, low, now)
    PROVE  \/ Perform(o, c, now) = Rejected
           \/ IdsWithin(Perform(o, c, now), low, now + IdsDrawn(o))
<1>. DEFINE n == IdsDrawn(o)
<1>1. n \in Nat /\ now + n \in Nat /\ now <= now + n
    BY IdsDrawnType
<1>2. CASE o.kind \in {"read", "removeEnv", "setActive", "updateHostname", "removeHostname"}
  <2>1. now + n = now
    BY <1>2 DEF IdsDrawn
  <2>2. CASE o.kind = "read"
    BY <2>1, <2>2 DEF Perform
  <2>3. CASE o.kind = "removeEnv"
    BY <2>1, <2>3, RemoveEnvByNameIds DEF Perform
  <2>4. CASE o.kind = "setActive"
    BY <2>1, <2>4, SetActiveEnvIds DEF Perform
  <2>5. CASE o.kind = "updateHostname"
    <3>1. WithId(o.host, o.id) \in Hostname
      BY <2>5, WithIdType DEF Operation
    <3>. QED
      BY <2>1, <2>5, <3>1, UpdateHostnameIds DEF Perform
  <2>6. CASE o.kind = "removeHostname"
    BY <2>1, <2>6, RemoveHostnameIds DEF Perform
  <2>. QED
    BY <1>2, <2>2, <2>3, <2>4, <2>5, <2>6
<1>3. CASE o.kind = "addHostname"
  <2>1. WithId(o.host, now) \in Hostname /\ WithId(o.host, now).id = now
    BY <1>3, WithIdType DEF Operation, WithId
  <2>2. n = 1
    BY <1>3 DEF IdsDrawn
  <2>3. Perform(o, c, now) = AddHostname(c, o.env, WithId(o.host, now))
    BY <1>3 DEF Perform
  <2>. QED
    BY <2>1, <2>2, <2>3, AddHostnameIds
<1>4. CASE o.kind = "addEnv"
  <2>. DEFINE hosts == [i \in 1..Len(o.hosts) |-> WithId(o.hosts[i], now + i - 1)]
              env == [name |-> o.env, hostnames |-> hosts]
  <2>1. o.env \in EnvNames /\ o.hosts \in Seq(NewHostname)
    BY <1>4 DEF Operation
  <2>2. Len(o.hosts) \in Nat /\ \A i \in 1..Len(o.hosts) : o.hosts[i] \in NewHostname
    BY <2>1, LenProperties, ElementOfSeq
  <2>3. n = Len(o.hosts)
    BY <1>4 DEF IdsDrawn
  <2>4. \A i \in 1..Len(o.hosts) : /\ WithId(o.hosts[i], now + i - 1) \in Hostname
                                   /\ WithId(o.hosts[i], now + i - 1).id = now + i - 1
    <3>1. \A i \in 1..Len(o.hosts) : now + i - 1 \in Nat
      BY <2>2
    <3>. QED
      BY <2>2, <3>1, WithIdType DEF WithId
  <2>5. /\ hosts \in [1..Len(o.hosts) -> Hostname]
        /\ \A i \in 1..Len(o.hosts) : hosts[i].id = now + i - 1
    BY <2>4
  <2>6. hosts \in Seq(Hostname) /\ DOMAIN hosts = 1..Len(o.hosts)
    <3>. HIDE DEF hosts
    <3>. QED
      BY <2>2, <2>5, SeqDef
  <2>7. env \in Env /\ env.hostnames = hosts
    BY <2>1, <2>6 DEF Env
  <2>8. Perform(o, c, now) = AddEnv(c, env)
    BY <1>4 DEF Perform
  <2>. HIDE DEF hosts, n
  <2>9. /\ \A h \in DOMAIN hosts : now <= hosts[h].id /\ hosts[h].id < now + n
        /\ \A h, k \in DOMAIN hosts : hosts[h].id = hosts[k].id => h = k
    BY <2>2, <2>3, <2>5, <2>6
  <2>. HIDE DEF env
  <2>10. AddEnv(c, env) = Rejected \/ IdsWithin(AddEnv(c, env), low, now + n)
    BY <1>1, <2>7, <2>9, AddEnvIds
  <2>. QED
    BY <2>8, <2>10 DEF n
<1>. QED
    BY <1>2, <1>3, <1>4 DEF Operation

\* The document for a missing file has no entries; a save adds none.
LEMMA DefaultIds ==
    ASSUME NEW low, NEW now, low <= now
    PROVE  IdsWithin(DefaultConfiguration, low, now)
<1>1. EntryPositions(DefaultConfiguration) = {}
    BY DEF EntryPositions, DefaultConfiguration
<1>. QED
    BY <1>1, NoEntriesNoIds

\* The environment that a save adds has no entries.
LEMMA WithSomeEnvIds ==
    ASSUME NEW c \in Configuration, NEW now, NEW low \in Nat, IdsWithin(c, low, now)
    PROVE  IdsWithin(WithSomeEnv(c), low, now)
<1>. DEFINE env == [name |-> DefaultEnv, hostnames |-> << >>]
            d == [c EXCEPT !.envs = <<env>>]
<1>1. d.envs = <<env>>
    BY DEF Configuration
<1>2. DOMAIN d.envs = {1} /\ d.envs[1].hostnames = << >>
    BY <1>1
<1>. HIDE DEF d
<1>3. EntryPositions(d) = {}
  <2>1. \A e \in DOMAIN d.envs : DOMAIN d.envs[e].hostnames = {}
    BY <1>2
  <2>. QED
    BY <2>1, Positions
<1>4. IdsWithin(d, low, now)
    BY <1>3, NoEntriesNoIds DEF IdsWithin
<1>. QED
    BY <1>4 DEF WithSomeEnv, d
-----------------------------------------------------------------------------
(***************************************************************************)
(* What an operation leaves of a document: its environments, but for the   *)
(* one it removes, the choice of the active one, but for SetActiveEnv, and *)
(* entries that were there or came with the operation.                     *)
(***************************************************************************)
KeepsEnvs(c, d) ==
    /\ d.activeEnv = c.activeEnv
    /\ \A n : HasEnv(c, n) => HasEnv(d, n)

\* Every entry of the document is one of S.
EntriesFrom(c, S) == \A e \in DOMAIN c.envs : c.envs[e].hostnames \in Seq(S)

\* Other entries in one environment.
LEMMA OtherEntries ==
    ASSUME NEW S \in SUBSET Hostname, NEW c \in Configuration, NEW e \in DOMAIN c.envs,
           NEW s \in Seq(Hostname), NEW d, d = [c EXCEPT !.envs[e].hostnames = s]
    PROVE  /\ KeepsEnvs(c, d)
           /\ EntriesFrom(c, S) /\ s \in Seq(S) => EntriesFrom(d, S)
<1>1. /\ d.activeEnv = c.activeEnv
      /\ DOMAIN d.envs = DOMAIN c.envs
      /\ \A j \in DOMAIN c.envs : d.envs[j].name = c.envs[j].name
      /\ \A j \in DOMAIN c.envs :
            d.envs[j].hostnames = IF j = e THEN s ELSE c.envs[j].hostnames
    BY ReplaceHostnamesParts
<1>2. \A n : EnvIndexes(d, n) = EnvIndexes(c, n)
    BY <1>1 DEF EnvIndexes
<1>3. KeepsEnvs(c, d)
    BY <1>1, <1>2 DEF KeepsEnvs, HasEnv
<1>4. EntriesFrom(c, S) /\ s \in Seq(S) => EntriesFrom(d, S)
    BY <1>1 DEF EntriesFrom
<1>. QED
    BY <1>3, <1>4

\* AddHostname adds the entry it was given.
LEMMA AddHostnameChanges ==
    ASSUME NEW S \in SUBSET Hostname, NEW c \in Configuration, NEW name, NEW host \in Hostname,
           AddHostname(c, name, host) # Rejected
    PROVE  /\ KeepsEnvs(c, AddHostname(c, name, host))
           /\ EntriesFrom(c, S) /\ host \in S => EntriesFrom(AddHostname(c, name, host), S)
<1>. DEFINE e == GetEnv(c, name)
            hosts == Append(c.envs[e].hostnames, host)
            d == AddHostname(c, name, host)
<1>1. HasEnv(c, name) /\ d = [c EXCEPT !.envs[e].hostnames = hosts]
    BY DEF AddHostname
<1>2. e \in DOMAIN c.envs
    BY <1>1, GetEnvFinds
<1>3. hosts \in Seq(Hostname)
    BY <1>2, DocumentParts, AppendProperties
<1>4. EntriesFrom(c, S) /\ host \in S => hosts \in Seq(S)
    BY <1>2, AppendProperties DEF EntriesFrom
<1>. HIDE DEF e, hosts, d
<1>5. /\ KeepsEnvs(c, d)
      /\ EntriesFrom(c, S) /\ hosts \in Seq(S) => EntriesFrom(d, S)
    BY <1>1, <1>2, <1>3, OtherEntries
<1>. QED
    BY <1>4, <1>5 DEF d

\* UpdateHostname replaces an entry by the one it was given.
LEMMA UpdateHostnameChanges ==
    ASSUME NEW S \in SUBSET Hostname, NEW c \in Configuration, NEW name, NEW host \in Hostname,
           UpdateHostname(c, name, host) # Rejected
    PROVE  /\ KeepsEnvs(c, UpdateHostname(c, name, host))
           /\ EntriesFrom(c, S) /\ host \in S => EntriesFrom(UpdateHostname(c, name, host), S)
<1>. DEFINE e == GetEnv(c, name)
            h == GetHostnameById(c.envs[e], host.id)
            hosts == [c.envs[e].hostnames EXCEPT ![h] = host]
            d == UpdateHostname(c, name, host)
<1>1. /\ HasEnv(c, name)
      /\ IdIndexes(c.envs[e], host.id) # {}
      /\ d = [c EXCEPT !.envs[e].hostnames = hosts]
    BY DEF UpdateHostname
<1>2. e \in DOMAIN c.envs
    BY <1>1, GetEnvFinds
<1>3. c.envs[e].hostnames \in Seq(Hostname)
    BY <1>2, DocumentParts
<1>4. h \in 1..Len(c.envs[e].hostnames)
    BY <1>1, <1>3, GetHostnameFinds, LenProperties
<1>5. hosts \in Seq(Hostname)
    BY <1>3, <1>4, ExceptSeq
<1>6. EntriesFrom(c, S) /\ host \in S => hosts \in Seq(S)
    BY <1>2, <1>4, ExceptSeq DEF EntriesFrom
<1>. HIDE DEF e, hosts, d
<1>7. /\ KeepsEnvs(c, d)
      /\ EntriesFrom(c, S) /\ hosts \in Seq(S) => EntriesFrom(d, S)
    BY <1>1, <1>2, <1>5, OtherEntries
<1>. QED
    BY <1>6, <1>7 DEF d

\* RemoveHostname brings no entry.
LEMMA RemoveHostnameChanges ==
    ASSUME NEW S \in SUBSET Hostname, NEW c \in Configuration, NEW name, NEW hostname,
           RemoveHostname(c, name, hostname) # Rejected
    PROVE  /\ KeepsEnvs(c, RemoveHostname(c, name, hostname))
           /\ EntriesFrom(c, S) => EntriesFrom(RemoveHostname(c, name, hostname), S)
<1>. DEFINE e == GetEnv(c, name)
            h == GetHostname(c.envs[e], hostname)
            hosts == RemoveIndex(c.envs[e].hostnames, h)
            d == RemoveHostname(c, name, hostname)
<1>1. /\ HasEnv(c, name)
      /\ HasHostname(c.envs[e], hostname)
      /\ d = [c EXCEPT !.envs[e].hostnames = hosts]
    BY DEF RemoveHostname
<1>2. e \in DOMAIN c.envs
    BY <1>1, GetEnvFinds
<1>3. c.envs[e].hostnames \in Seq(Hostname)
    BY <1>2, DocumentParts
<1>4. h \in DOMAIN c.envs[e].hostnames
    BY <1>1, <1>3, GetHostnameFinds
<1>. HIDE DEF h
<1>5. hosts \in Seq(Hostname)
    BY <1>3, <1>4, RemoveIndexProperties
<1>6. EntriesFrom(c, S) => hosts \in Seq(S)
    BY <1>2, <1>4, RemoveIndexProperties DEF EntriesFrom
<1>. HIDE DEF e, hosts, d
<1>7. /\ KeepsEnvs(c, d)
      /\ EntriesFrom(c, S) /\ hosts \in Seq(S) => EntriesFrom(d, S)
    BY <1>1, <1>2, <1>5, OtherEntries
<1>. QED
    BY <1>6, <1>7 DEF d

\* AddEnv brings the entries of the new environment.
LEMMA AddEnvChanges ==
    ASSUME NEW S \in SUBSET Hostname, NEW c \in Configuration, NEW env \in Env,
           AddEnv(c, env) # Rejected
    PROVE  /\ KeepsEnvs(c, AddEnv(c, env))
           /\ EntriesFrom(c, S) /\ env.hostnames \in Seq(S) => EntriesFrom(AddEnv(c, env), S)
<1>. DEFINE envs == Append(c.envs, env)
            d == AddEnv(c, env)
<1>1. d = [c EXCEPT !.envs = envs]
    BY DEF AddEnv
<1>2. /\ envs \in Seq(Env)
      /\ Len(envs) = Len(c.envs) + 1
      /\ \A i \in 1..Len(c.envs) : envs[i] = c.envs[i]
      /\ envs[Len(c.envs) + 1] = env
    BY DocumentParts, AppendProperties
<1>3. DOMAIN envs = 1..(Len(c.envs) + 1) /\ DOMAIN c.envs = 1..Len(c.envs) /\ Len(c.envs) \in Nat
    BY <1>2, DocumentParts, LenProperties
<1>. HIDE DEF envs
<1>4. d.envs = envs /\ d.activeEnv = c.activeEnv
    BY <1>1 DEF Configuration
<1>. HIDE DEF d
<1>5. ASSUME NEW n, HasEnv(c, n) PROVE HasEnv(d, n)
  <2>1. PICK i \in 1..Len(c.envs) : c.envs[i].name = n
    BY <1>3, <1>5 DEF HasEnv, EnvIndexes
  <2>2. i \in DOMAIN d.envs /\ d.envs[i].name = n
    BY <1>2, <1>3, <1>4, <2>1
  <2>. QED
    BY <2>2 DEF HasEnv, EnvIndexes
<1>6. ASSUME EntriesFrom(c, S), env.hostnames \in Seq(S), NEW e \in DOMAIN d.envs
      PROVE  d.envs[e].hostnames \in Seq(S)
  <2>1. CASE e \in 1..Len(c.envs)
    BY <1>2, <1>3, <1>4, <1>6, <2>1 DEF EntriesFrom
  <2>2. CASE e = Len(c.envs) + 1
    BY <1>2, <1>4, <1>6, <2>2
  <2>. QED
    BY <1>3, <1>4, <2>1, <2>2
<1>. QED
    BY <1>4, <1>5, <1>6 DEF KeepsEnvs, EntriesFrom, d

\* RemoveEnvByName leaves every environment of another name.
LEMMA RemoveEnvByNameChanges ==
    ASSUME NEW S \in SUBSET Hostname, NEW c \in Configuration, NEW name,
           RemoveEnvByName(c, name) # Rejected
    PROVE  /\ RemoveEnvByName(c, name).activeEnv = c.activeEnv
           /\ \A n : HasEnv(c, n) => HasEnv(RemoveEnvByName(c, name), n) \/ n = name
           /\ EntriesFrom(c, S) => EntriesFrom(RemoveEnvByName(c, name), S)
<1>. DEFINE i == GetEnv(c, name)
            envs == RemoveIndex(c.envs, i)
            d == RemoveEnvByName(c, name)
<1>1. HasEnv(c, name) /\ d = [c EXCEPT !.envs = envs]
    BY DEF RemoveEnvByName
<1>2. /\ i \in 1..Len(c.envs) /\ c.envs[i].name = name
      /\ Len(c.envs) \in Nat /\ DOMAIN c.envs = 1..Len(c.envs)
    BY <1>1, GetEnvFinds, DocumentParts
<1>. HIDE DEF i
<1>3. /\ envs \in Seq(Env)
      /\ Len(envs) = Len(c.envs) - 1
      /\ \A j \in 1..(Len(c.envs) - 1) :
            envs[j] = IF j < i THEN c.envs[j] ELSE c.envs[j + 1]
    BY <1>2, DocumentParts, RemoveIndexProperties
<1>4. DOMAIN envs = 1..(Len(c.envs) - 1)
    BY <1>3, LenProperties
<1>. HIDE DEF envs
<1>5. d.envs = envs /\ d.activeEnv = c.activeEnv
    BY <1>1 DEF Configuration
<1>. HIDE DEF d
<1>6. ASSUME NEW n, HasEnv(c, n), n # name PROVE HasEnv(d, n)
  <2>1. PICK k \in 1..Len(c.envs) : c.envs[k].name = n
    BY <1>2, <1>6 DEF HasEnv, EnvIndexes
  <2>2. k # i
    BY <1>2, <1>6, <2>1
  <2>3. \E j \in 1..(Len(c.envs) - 1) : envs[j] = c.envs[k]
    <3>1. CASE k < i
      BY <1>2, <1>3, <3>1
    <3>2. CASE ~(k < i)
      <4>1. k - 1 \in 1..(Len(c.envs) - 1) /\ ~(k - 1 < i) /\ (k - 1) + 1 = k
        BY <1>2, <2>2, <3>2
      <4>. QED
        BY <1>3, <4>1
    <3>. QED
      BY <3>1, <3>2
  <2>4. \E j \in DOMAIN d.envs : d.envs[j].name = n
    BY <1>4, <1>5, <2>1, <2>3
  <2>. QED
    BY <2>4 DEF HasEnv, EnvIndexes
<1>7. ASSUME EntriesFrom(c, S), NEW e \in DOMAIN d.envs
      PROVE  d.envs[e].hostnames \in Seq(S)
  <2>1. PICK k \in DOMAIN c.envs : envs[e] = c.envs[k]
    BY <1>2, <1>3, <1>4, <1>5
  <2>. QED
    BY <1>5, <1>7, <2>1 DEF EntriesFrom
<1>. QED
    BY <1>5, <1>6, <1>7 DEF EntriesFrom, d

\* The environment that a save adds has no entries.
LEMMA WithSomeEnvChanges ==
    ASSUME NEW S \in SUBSET Hostname, NEW c \in Configuration
    PROVE  /\ KeepsEnvs(c, WithSomeEnv(c))
           /\ EntriesFrom(c, S) => EntriesFrom(WithSomeEnv(c), S)
<1>. DEFINE env == [name |-> DefaultEnv, hostnames |-> << >>]
            d == [c EXCEPT !.envs = <<env>>]
<1>1. CASE c.envs # << >>
  <2>1. WithSomeEnv(c) = c
    BY <1>1 DEF WithSomeEnv
  <2>. QED
    BY <2>1 DEF KeepsEnvs
<1>2. CASE c.envs = << >>
  <2>1. WithSomeEnv(c) = d
    BY <1>2 DEF WithSomeEnv
  <2>2. d.activeEnv = c.activeEnv /\ d.envs = <<env>>
    BY DEF Configuration
  <2>3. \A n : ~HasEnv(c, n)
    BY <1>2 DEF HasEnv, EnvIndexes
  <2>4. DOMAIN d.envs = {1} /\ d.envs[1].hostnames = << >>
    BY <2>2
  <2>. HIDE DEF d
  <2>5. EntriesFrom(d, S)
    BY <2>4, EmptySeq DEF EntriesFrom
  <2>. QED
    BY <2>1, <2>2, <2>3, <2>5 DEF KeepsEnvs
<1>. QED
    BY <1>1, <1>2

\* The entries that an operation brings.
Brings(o, now) ==
    CASE o.kind = "addEnv" -> {WithId(o.hosts[i], now + i - 1) : i \in 1..Len(o.hosts)}
      [] o.kind = "addHostname" -> {WithId(o.host, now)}
      [] o.kind = "updateHostname" -> {WithId(o.host, o.id)}
      [] OTHER -> {}

\* Only SetActiveEnv changes the active environment, to one that exists, and
\* only RemoveEnvByName takes an environment away, the one it names; the
\* entries of the result were there or came with the operation.
THEOREM PerformChanges ==
    ASSUME NEW o \in Operation, NEW c \in Configuration, NEW now \in Nat,
           NEW S \in SUBSET Hostname, Perform(o, c, now) # Rejected
    PROVE  LET d == Perform(o, c, now)
           IN  /\ d.activeEnv = IF o.kind = "setActive" THEN o.env ELSE c.activeEnv
               /\ o.kind = "setActive" => HasEnv(c, o.env)
               /\ \A n : HasEnv(c, n) => HasEnv(d, n) \/ (o.kind = "removeEnv" /\ o.env = n)
               /\ EntriesFrom(c, S) /\ Brings(o, now) \subseteq S => EntriesFrom(d, S)
<1>. DEFINE d == Perform(o, c, now)
            Good == /\ d.activeEnv = IF o.kind = "setActive" THEN o.env ELSE c.activeEnv
                    /\ o.kind = "setActive" => HasEnv(c, o.env)
                    /\ \A n : HasEnv(c, n) =>
                                HasEnv(d, n) \/ (o.kind = "removeEnv" /\ o.env = n)
                    /\ EntriesFrom(c, S) /\ Brings(o, now) \subseteq S => EntriesFrom(d, S)
<1>. SUFFICES Good
    OBVIOUS
<1>1. CASE o.kind = "read"
  <2>1. d = c
    BY <1>1 DEF Perform
  <2>. QED
    BY <1>1, <2>1
<1>2. CASE o.kind = "removeEnv"
  <2>1. d = RemoveEnvByName(c, o.env)
    BY <1>2 DEF Perform
  <2>2. d # Rejected
    OBVIOUS
  <2>. HIDE DEF d
  <2>. QED
    BY <1>2, <2>1, <2>2, RemoveEnvByNameChanges
<1>3. CASE o.kind = "setActive"
  <2>1. d = SetActiveEnv(c, o.env)
    BY <1>3 DEF Perform
  <2>2. HasEnv(c, o.env) /\ d = [c EXCEPT !.activeEnv = o.env]
    BY <2>1 DEF SetActiveEnv
  <2>3. d.activeEnv = o.env /\ d.envs = c.envs
    BY <2>2 DEF Configuration
  <2>. HIDE DEF d
  <2>. QED
    BY <1>3, <2>2, <2>3 DEF HasEnv, EnvIndexes, EntriesFrom
<1>4. CASE o.kind = "updateHostname"
  <2>1. d = UpdateHostname(c, o.env, WithId(o.host, o.id)) /\ d # Rejected
    BY <1>4 DEF Perform
  <2>2. WithId(o.host, o.id) \in Hostname
    BY <1>4, WithIdType DEF Operation
  <2>3. Brings(o, now) = {WithId(o.host, o.id)}
    BY <1>4 DEF Brings
  <2>. HIDE DEF d
  <2>. QED
    BY <1>4, <2>1, <2>2, <2>3, UpdateHostnameChanges DEF KeepsEnvs
<1>5. CASE o.kind = "removeHostname"
  <2>1. d = RemoveHostname(c, o.env, o.name) /\ d # Rejected
    BY <1>5 DEF Perform
  <2>. HIDE DEF d
  <2>. QED
    BY <1>5, <2>1, RemoveHostnameChanges DEF KeepsEnvs
<1>6. CASE o.kind = "addHostname"
  <2>1. d = AddHostname(c, o.env, WithId(o.host, now)) /\ d # Rejected
    BY <1>6 DEF Perform
  <2>2. WithId(o.host, now) \in Hostname
    BY <1>6, WithIdType DEF Operation
  <2>3. Brings(o, now) = {WithId(o.host, now)}
    BY <1>6 DEF Brings
  <2>. HIDE DEF d
  <2>. QED
    BY <1>6, <2>1, <2>2, <2>3, AddHostnameChanges DEF KeepsEnvs
<1>7. CASE o.kind = "addEnv"
  <2>. DEFINE hosts == [i \in 1..Len(o.hosts) |-> WithId(o.hosts[i], now + i - 1)]
              env == [name |-> o.env, hostnames |-> hosts]
  <2>1. o.env \in EnvNames /\ o.hosts \in Seq(NewHostname)
    BY <1>7 DEF Operation
  <2>2. Len(o.hosts) \in Nat /\ \A i \in 1..Len(o.hosts) : o.hosts[i] \in NewHostname
    BY <2>1, LenProperties, ElementOfSeq
  <2>3. \A i \in 1..Len(o.hosts) : WithId(o.hosts[i], now + i - 1) \in Hostname
    <3>1. \A i \in 1..Len(o.hosts) : now + i - 1 \in Nat
      BY <2>2
    <3>. QED
      BY <2>2, <3>1, WithIdType
  <2>4. hosts \in Seq(Hostname)
    BY <2>2, <2>3, SeqDef
  <2>5. Brings(o, now) \subseteq S => hosts \in Seq(S)
    <3>1. Brings(o, now) = {WithId(o.hosts[i], now + i - 1) : i \in 1..Len(o.hosts)}
      BY <1>7 DEF Brings
    <3>2. Brings(o, now) \subseteq S => hosts \in [1..Len(o.hosts) -> S]
      BY <3>1
    <3>. HIDE DEF hosts
    <3>. QED
      BY <2>2, <3>2, SeqDef
  <2>6. env \in Env /\ env.hostnames = hosts
    BY <2>1, <2>4 DEF Env
  <2>7. d = AddEnv(c, env) /\ d # Rejected
    BY <1>7 DEF Perform
  <2>. HIDE DEF hosts, env, d
  <2>. QED
    BY <1>7, <2>5, <2>6, <2>7, AddEnvChanges DEF KeepsEnvs
<1>. QED
    BY <1>1, <1>2, <1>3, <1>4, <1>5, <1>6, <1>7 DEF Operation
-----------------------------------------------------------------------------
(***************************************************************************)
(* The entries of an environment, by its name: what an operation makes of  *)
(* them.                                                                   *)
(***************************************************************************)
Records(c, n) == IF HasEnv(c, n) THEN c.envs[GetEnv(c, n)].hostnames ELSE << >>

LEMMA RecordsType ==
    ASSUME NEW c \in Configuration, NEW n
    PROVE  Records(c, n) \in Seq(Hostname)
<1>1. CASE HasEnv(c, n)
    BY <1>1, GetEnvFinds, DocumentParts DEF Records
<1>2. CASE ~HasEnv(c, n)
    BY <1>2, EmptySeq DEF Records
<1>. QED
    BY <1>1, <1>2

\* In a document whose environments are distinct a name stands for one position.
LEMMA RecordsAt ==
    ASSUME NEW c \in Configuration, UniqueEnvs(c), NEW e \in DOMAIN c.envs
    PROVE  /\ HasEnv(c, c.envs[e].name)
           /\ GetEnv(c, c.envs[e].name) = e
           /\ Records(c, c.envs[e].name) = c.envs[e].hostnames
<1>1. HasEnv(c, c.envs[e].name)
    BY DEF HasEnv, EnvIndexes
<1>2. GetEnv(c, c.envs[e].name) = e
    BY <1>1, GetEnvFinds DEF UniqueEnvs
<1>. QED
    BY <1>1, <1>2 DEF Records

\* Two documents that agree on the environment of a name.
LEMMA SameRecords ==
    ASSUME NEW c \in Configuration, UniqueEnvs(c), NEW d \in Configuration, UniqueEnvs(d),
           NEW n,
           \A e \in DOMAIN c.envs : c.envs[e].name = n =>
              \E j \in DOMAIN d.envs : /\ d.envs[j].name = n
                                       /\ d.envs[j].hostnames = c.envs[e].hostnames,
           \A j \in DOMAIN d.envs : d.envs[j].name = n =>
              \E e \in DOMAIN c.envs : c.envs[e].name = n
    PROVE  (HasEnv(c, n) <=> HasEnv(d, n)) /\ Records(d, n) = Records(c, n)
<1>1. HasEnv(c, n) <=> HasEnv(d, n)
    BY DEF HasEnv, EnvIndexes
<1>2. CASE HasEnv(c, n)
  <2>1. PICK e \in DOMAIN c.envs : c.envs[e].name = n
    BY <1>2 DEF HasEnv, EnvIndexes
  <2>2. PICK j \in DOMAIN d.envs : /\ d.envs[j].name = n
                                   /\ d.envs[j].hostnames = c.envs[e].hostnames
    BY <2>1
  <2>. QED
    BY <1>1, <2>1, <2>2, RecordsAt
<1>3. CASE ~HasEnv(c, n)
    BY <1>1, <1>3 DEF Records
<1>. QED
    BY <1>1, <1>2, <1>3

\* The document d is c with the entries s in the environment at e.
HasOther(c, d, e, s) ==
    /\ d \in Configuration /\ UniqueEnvs(d)
    /\ DOMAIN d.envs = DOMAIN c.envs
    /\ \A j \in DOMAIN c.envs : d.envs[j].name = c.envs[j].name
    /\ \A j \in DOMAIN c.envs :
          d.envs[j].hostnames = IF j = e THEN s ELSE c.envs[j].hostnames

LEMMA RecordsReplaced ==
    ASSUME NEW c \in Configuration, UniqueEnvs(c), NEW e \in DOMAIN c.envs, NEW d, NEW s,
           HasOther(c, d, e, s)
    PROVE  /\ \A n : HasEnv(c, n) <=> HasEnv(d, n)
           /\ \A n : n # c.envs[e].name => Records(d, n) = Records(c, n)
           /\ Records(d, c.envs[e].name) = s
<1>. USE DEF HasOther
<1>1. ASSUME NEW n PROVE HasEnv(c, n) <=> HasEnv(d, n)
  <2>1. EnvIndexes(c, n) = EnvIndexes(d, n)
    BY DEF EnvIndexes
  <2>. QED
    BY <2>1 DEF HasEnv
<1>2. ASSUME NEW n, n # c.envs[e].name PROVE Records(d, n) = Records(c, n)
  <2>1. \A j \in DOMAIN c.envs : c.envs[j].name = n =>
            d.envs[j].name = n /\ d.envs[j].hostnames = c.envs[j].hostnames
    BY <1>2
  <2>2. \A j \in DOMAIN d.envs : d.envs[j].name = n =>
            \E k \in DOMAIN c.envs : c.envs[k].name = n
    OBVIOUS
  <2>3. \A j \in DOMAIN c.envs : c.envs[j].name = n =>
            \E k \in DOMAIN d.envs : /\ d.envs[k].name = n
                                     /\ d.envs[k].hostnames = c.envs[j].hostnames
    BY <2>1
  <2>. QED
    BY <2>2, <2>3, SameRecords
<1>3. e \in DOMAIN d.envs /\ d.envs[e].name = c.envs[e].name /\ d.envs[e].hostnames = s
    OBVIOUS
<1>4. Records(d, d.envs[e].name) = d.envs[e].hostnames
    BY <1>3, RecordsAt
<1>. QED
    BY <1>1, <1>2, <1>3, <1>4

LEMMA ReplacedHasOther ==
    ASSUME NEW c \in Configuration, UniqueEnvs(c), NEW e \in DOMAIN c.envs,
           NEW s \in Seq(Hostname), NEW d, d = [c EXCEPT !.envs[e].hostnames = s]
    PROVE  HasOther(c, d, e, s)
    BY ReplaceHostnamesParts DEF HasOther

\* The operations on entries change those of the environment they name.
SameElsewhere(c, d, name) ==
    \A n : n # name => (HasEnv(c, n) <=> HasEnv(d, n)) /\ Records(d, n) = Records(c, n)

\* AddHostname puts its entry behind the others.
LEMMA AddHostnameRecords ==
    ASSUME NEW c \in Configuration, UniqueEnvs(c), NEW name, NEW host \in Hostname, NEW d,
           d = AddHostname(c, name, host), d # Rejected
    PROVE  /\ SameElsewhere(c, d, name)
           /\ HasEnv(c, name) /\ HasEnv(d, name)
           /\ Records(d, name) = Append(Records(c, name), host)
<1>. DEFINE e == GetEnv(c, name)
            hosts == Append(c.envs[e].hostnames, host)
<1>1. HasEnv(c, name) /\ d = [c EXCEPT !.envs[e].hostnames = hosts]
    BY DEF AddHostname
<1>2. e \in DOMAIN c.envs /\ Records(c, name) = c.envs[e].hostnames
    BY <1>1, GetEnvFinds DEF Records
<1>3. hosts \in Seq(Hostname) /\ hosts = Append(Records(c, name), host)
    BY <1>2, DocumentParts, AppendProperties
<1>4. c.envs[e].name = name
    BY <1>1, GetEnvFinds
<1>. HIDE DEF e, hosts
<1>5. HasOther(c, d, e, hosts)
    BY <1>1, <1>2, <1>3, ReplacedHasOther
<1>6. /\ \A n : HasEnv(c, n) <=> HasEnv(d, n)
      /\ \A n : n # name => Records(d, n) = Records(c, n)
      /\ Records(d, name) = hosts
    BY <1>2, <1>4, <1>5, RecordsReplaced
<1>. QED
    BY <1>1, <1>3, <1>6 DEF SameElsewhere

\* UpdateHostname replaces an entry of the id.
LEMMA UpdateHostnameRecords ==
    ASSUME NEW c \in Configuration, UniqueEnvs(c), NEW name, NEW host \in Hostname, NEW d,
           d = UpdateHostname(c, name, host), d # Rejected
    PROVE  /\ SameElsewhere(c, d, name)
           /\ HasEnv(c, name) /\ HasEnv(d, name)
           /\ \E h \in DOMAIN Records(c, name) :
                 /\ Records(c, name)[h].id = host.id
                 /\ Records(d, name) = [Records(c, name) EXCEPT ![h] = host]
<1>. DEFINE e == GetEnv(c, name)
            h == GetHostnameById(c.envs[e], host.id)
            hosts == [c.envs[e].hostnames EXCEPT ![h] = host]
<1>1. /\ HasEnv(c, name)
      /\ IdIndexes(c.envs[e], host.id) # {}
      /\ d = [c EXCEPT !.envs[e].hostnames = hosts]
    BY DEF UpdateHostname
<1>2. e \in DOMAIN c.envs /\ Records(c, name) = c.envs[e].hostnames
    BY <1>1, GetEnvFinds DEF Records
<1>3. c.envs[e].hostnames \in Seq(Hostname)
    BY <1>2, DocumentParts
<1>4. h \in 1..Len(c.envs[e].hostnames) /\ c.envs[e].hostnames[h].id = host.id
  <2>1. IdIndexes(c.envs[e], host.id) \in SUBSET Nat
    BY <1>3, LenProperties DEF IdIndexes
  <2>2. h \in IdIndexes(c.envs[e], host.id)
    BY <1>1, <2>1, FirstIsMember DEF GetHostnameById
  <2>. QED
    BY <1>3, <2>2, LenProperties DEF IdIndexes
<1>5. hosts \in Seq(Hostname)
    BY <1>3, <1>4, ExceptSeq
<1>6. hosts = [Records(c, name) EXCEPT ![h] = host]
    BY <1>2
<1>7. c.envs[e].name = name
    BY <1>1, GetEnvFinds
<1>8. h \in DOMAIN Records(c, name) /\ Records(c, name)[h].id = host.id
    BY <1>2, <1>3, <1>4, LenProperties
<1>. HIDE DEF e, h, hosts
<1>9. HasOther(c, d, e, hosts)
    BY <1>1, <1>2, <1>5, ReplacedHasOther
<1>10. /\ \A n : HasEnv(c, n) <=> HasEnv(d, n)
       /\ \A n : n # name => Records(d, n) = Records(c, n)
       /\ Records(d, name) = hosts
    BY <1>2, <1>7, <1>9, RecordsReplaced
<1>. QED
    BY <1>1, <1>6, <1>8, <1>10 DEF SameElsewhere

\* RemoveHostname takes an entry of the name away.
LEMMA RemoveHostnameRecords ==
    ASSUME NEW c \in Configuration, UniqueEnvs(c), NEW name, NEW hostname, NEW d,
           d = RemoveHostname(c, name, hostname), d # Rejected
    PROVE  /\ SameElsewhere(c, d, name)
           /\ HasEnv(c, name) /\ HasEnv(d, name)
           /\ \E h \in DOMAIN Records(c, name) :
                 /\ Records(c, name)[h].hostname = hostname
                 /\ Records(d, name) = RemoveIndex(Records(c, name), h)
<1>. DEFINE e == GetEnv(c, name)
            h == GetHostname(c.envs[e], hostname)
            hosts == RemoveIndex(c.envs[e].hostnames, h)
<1>1. /\ HasEnv(c, name)
      /\ HasHostname(c.envs[e], hostname)
      /\ d = [c EXCEPT !.envs[e].hostnames = hosts]
    BY DEF RemoveHostname
<1>2. e \in DOMAIN c.envs /\ Records(c, name) = c.envs[e].hostnames
    BY <1>1, GetEnvFinds DEF Records
<1>3. c.envs[e].hostnames \in Seq(Hostname)
    BY <1>2, DocumentParts
<1>4. h \in DOMAIN c.envs[e].hostnames /\ c.envs[e].hostnames[h].hostname = hostname
  <2>1. HostnameIndexes(c.envs[e], hostname) \in SUBSET Nat
    BY <1>3, LenProperties DEF HostnameIndexes
  <2>2. h \in HostnameIndexes(c.envs[e], hostname)
    BY <1>1, <2>1, FirstIsMember DEF GetHostname, HasHostname
  <2>. QED
    BY <2>2 DEF HostnameIndexes
<1>5. hosts = RemoveIndex(Records(c, name), h)
    BY <1>2
<1>6. c.envs[e].name = name
    BY <1>1, GetEnvFinds
<1>. HIDE DEF h
<1>7. hosts \in Seq(Hostname)
    BY <1>3, <1>4, RemoveIndexProperties
<1>8. h \in DOMAIN Records(c, name) /\ Records(c, name)[h].hostname = hostname
    BY <1>2, <1>4
<1>. HIDE DEF e, hosts
<1>9. HasOther(c, d, e, hosts)
    BY <1>1, <1>2, <1>7, ReplacedHasOther
<1>10. /\ \A n : HasEnv(c, n) <=> HasEnv(d, n)
       /\ \A n : n # name => Records(d, n) = Records(c, n)
       /\ Records(d, name) = hosts
    BY <1>2, <1>6, <1>9, RecordsReplaced
<1>. QED
    BY <1>1, <1>5, <1>8, <1>10 DEF SameElsewhere

\* AddEnv adds the environment it was given, of a name that was free.
LEMMA AddEnvRecords ==
    ASSUME NEW c \in Configuration, UniqueEnvs(c), NEW env \in Env, NEW d,
           d = AddEnv(c, env), d # Rejected
    PROVE  /\ SameElsewhere(c, d, env.name)
           /\ ~HasEnv(c, env.name) /\ Records(d, env.name) = env.hostnames
<1>. DEFINE envs == Append(c.envs, env)
<1>1. ~HasEnv(c, env.name) /\ d = [c EXCEPT !.envs = envs]
    BY DEF AddEnv
<1>2. /\ envs \in Seq(Env)
      /\ Len(envs) = Len(c.envs) + 1
      /\ \A i \in 1..Len(c.envs) : envs[i] = c.envs[i]
      /\ envs[Len(c.envs) + 1] = env
    BY DocumentParts, AppendProperties
<1>3. DOMAIN envs = 1..(Len(c.envs) + 1) /\ DOMAIN c.envs = 1..Len(c.envs) /\ Len(c.envs) \in Nat
    BY <1>2, DocumentParts, LenProperties
<1>. HIDE DEF envs
<1>4. d.envs = envs
    BY <1>1 DEF Configuration
<1>5. d \in Configuration /\ UniqueEnvs(d)
    BY AddEnvKeeps DEF Keeps
<1>6. ASSUME NEW n, n # env.name
      PROVE  (HasEnv(c, n) <=> HasEnv(d, n)) /\ Records(d, n) = Records(c, n)
  <2>1. \A e \in DOMAIN c.envs : e \in DOMAIN d.envs /\ d.envs[e] = c.envs[e]
    BY <1>2, <1>3, <1>4
  <2>2. \A e \in DOMAIN c.envs : c.envs[e].name = n =>
            \E j \in DOMAIN d.envs : /\ d.envs[j].name = n
                                     /\ d.envs[j].hostnames = c.envs[e].hostnames
    BY <2>1
  <2>3. \A j \in DOMAIN d.envs : d.envs[j].name = n =>
            \E e \in DOMAIN c.envs : c.envs[e].name = n
    <3>. SUFFICES ASSUME NEW j \in DOMAIN d.envs, d.envs[j].name = n
                  PROVE  j \in DOMAIN c.envs /\ c.envs[j].name = n
      OBVIOUS
    <3>1. j \in 1..(Len(c.envs) + 1) /\ j # Len(c.envs) + 1
      BY <1>2, <1>3, <1>4, <1>6
    <3>2. j \in 1..Len(c.envs)
      BY <1>3, <3>1
    <3>. QED
      BY <1>3, <2>1, <3>2
  <2>. QED
    BY <1>5, <2>2, <2>3, SameRecords
<1>7. Records(d, env.name) = env.hostnames
  <2>. DEFINE e == Len(c.envs) + 1
  <2>1. e \in DOMAIN d.envs /\ d.envs[e] = env
    BY <1>2, <1>3, <1>4
  <2>. HIDE DEF e
  <2>. QED
    BY <1>5, <2>1, RecordsAt
<1>. QED
    BY <1>1, <1>6, <1>7 DEF SameElsewhere

\* RemoveEnvByName leaves nothing of the environment and all of the others.
LEMMA RemoveEnvByNameRecords ==
    ASSUME NEW c \in Configuration, UniqueEnvs(c), NEW name, NEW d,
           d = RemoveEnvByName(c, name), d # Rejected
    PROVE  SameElsewhere(c, d, name) /\ ~HasEnv(d, name)
<1>. DEFINE i == GetEnv(c, name)
            envs == RemoveIndex(c.envs, i)
<1>1. HasEnv(c, name) /\ d = [c EXCEPT !.envs = envs]
    BY DEF RemoveEnvByName
<1>2. /\ i \in 1..Len(c.envs) /\ c.envs[i].name = name
      /\ Len(c.envs) \in Nat /\ DOMAIN c.envs = 1..Len(c.envs)
    BY <1>1, GetEnvFinds, DocumentParts
<1>. HIDE DEF i
<1>3. /\ envs \in Seq(Env)
      /\ Len(envs) = Len(c.envs) - 1
      /\ \A j \in 1..(Len(c.envs) - 1) :
            envs[j] = IF j < i THEN c.envs[j] ELSE c.envs[j + 1]
    BY <1>2, DocumentParts, RemoveIndexProperties
<1>4. DOMAIN envs = 1..(Len(c.envs) - 1)
    BY <1>3, LenProperties
<1>. HIDE DEF envs
<1>5. d.envs = envs
    BY <1>1 DEF Configuration
<1>6. d \in Configuration /\ UniqueEnvs(d)
    BY RemoveEnvByNameKeeps DEF Keeps
<1>7. ASSUME NEW j \in DOMAIN d.envs PROVE \E k \in DOMAIN c.envs : k # i /\ d.envs[j] = c.envs[k]
  <2>1. j \in 1..(Len(c.envs) - 1)
    BY <1>4, <1>5
  <2>2. CASE j < i
    BY <1>2, <1>3, <1>5, <2>1, <2>2
  <2>3. CASE ~(j < i)
    <3>1. j + 1 \in DOMAIN c.envs /\ j + 1 # i
      BY <1>2, <2>1, <2>3
    <3>. QED
      BY <1>3, <1>5, <2>1, <2>3, <3>1
  <2>. QED
    BY <2>2, <2>3
<1>8. ~HasEnv(d, name)
    BY <1>2, <1>7 DEF HasEnv, EnvIndexes, UniqueEnvs
<1>9. ASSUME NEW k \in DOMAIN c.envs, k # i PROVE \E j \in DOMAIN d.envs : d.envs[j] = c.envs[k]
  <2>1. CASE k < i
    BY <1>2, <1>3, <1>4, <1>5, <2>1
  <2>2. CASE ~(k < i)
    <3>1. k - 1 \in 1..(Len(c.envs) - 1) /\ ~(k - 1 < i) /\ (k - 1) + 1 = k
      BY <1>2, <1>9, <2>2
    <3>. QED
      BY <1>3, <1>4, <1>5, <3>1
  <2>. QED
    BY <2>1, <2>2
<1>10. ASSUME NEW n, n # name
       PROVE  (HasEnv(c, n) <=> HasEnv(d, n)) /\ Records(d, n) = Records(c, n)
  <2>1. \A e \in DOMAIN c.envs : c.envs[e].name = n =>
            \E j \in DOMAIN d.envs : /\ d.envs[j].name = n
                                     /\ d.envs[j].hostnames = c.envs[e].hostnames
    <3>. SUFFICES ASSUME NEW e \in DOMAIN c.envs, c.envs[e].name = n
                  PROVE  \E j \in DOMAIN d.envs : d.envs[j] = c.envs[e]
      BY Zenon
    <3>. QED
      BY <1>2, <1>9, <1>10
  <2>2. \A j \in DOMAIN d.envs : d.envs[j].name = n =>
            \E e \in DOMAIN c.envs : c.envs[e].name = n
    BY <1>7
  <2>. QED
    BY <1>6, <2>1, <2>2, SameRecords
<1>. QED
    BY <1>8, <1>10 DEF SameElsewhere

\* The environment that a save adds has no entries.
LEMMA WithSomeEnvRecords ==
    ASSUME NEW c \in Configuration, NEW n
    PROVE  /\ Records(WithSomeEnv(c), n) = Records(c, n)
           /\ HasEnv(c, n) => HasEnv(WithSomeEnv(c), n)
<1>. DEFINE env == [name |-> DefaultEnv, hostnames |-> << >>]
            d == [c EXCEPT !.envs = <<env>>]
<1>1. CASE c.envs # << >>
    BY <1>1 DEF WithSomeEnv
<1>2. CASE c.envs = << >>
  <2>1. WithSomeEnv(c) = d
    BY <1>2 DEF WithSomeEnv
  <2>2. d.envs = <<env>>
    BY DEF Configuration
  <2>3. ~HasEnv(c, n)
    BY <1>2 DEF HasEnv, EnvIndexes
  <2>4. DOMAIN d.envs = {1} /\ d.envs[1].hostnames = << >>
    BY <2>2
  <2>5. d \in Configuration
    BY <2>1, WithSomeEnvKeeps
  <2>. HIDE DEF d
  <2>6. Records(d, n) = << >>
    BY <2>4, <2>5, GetEnvFinds DEF Records
  <2>. QED
    BY <2>1, <2>3, <2>6 DEF Records
<1>. QED
    BY <1>1, <1>2

\* What the operation o makes of the entries of c, environment by environment.
ChangesRecords(o, c, d, now) ==
    /\ \A n : o.kind \in {"read", "setActive"} \/ n # o.env =>
          (HasEnv(c, n) => HasEnv(d, n)) /\ Records(d, n) = Records(c, n)
    /\ o.kind = "removeEnv" => Records(d, o.env) = << >>
    /\ o.kind = "addEnv" =>
          /\ ~HasEnv(c, o.env)
          /\ Records(d, o.env) = [i \in 1..Len(o.hosts) |-> WithId(o.hosts[i], now + i - 1)]
    /\ o.kind \in {"addHostname", "updateHostname", "removeHostname"} =>
          HasEnv(c, o.env) /\ HasEnv(d, o.env)
    /\ o.kind = "addHostname" =>
          Records(d, o.env) = Append(Records(c, o.env), WithId(o.host, now))
    /\ o.kind = "updateHostname" =>
          \E h \in DOMAIN Records(c, o.env) :
             /\ Records(c, o.env)[h].id = o.id
             /\ Records(d, o.env) = [Records(c, o.env) EXCEPT ![h] = WithId(o.host, o.id)]
    /\ o.kind = "removeHostname" =>
          \E h \in DOMAIN Records(c, o.env) :
             /\ Records(c, o.env)[h].hostname = o.name
             /\ Records(d, o.env) = RemoveIndex(Records(c, o.env), h)

\* While environments have distinct names an operation touches the entries of
\* the environment it names and no other: AddHostname puts its entry behind the
\* others, UpdateHostname replaces one entry of its id and keeps the order, and
\* RemoveHostname takes one entry of its name away.
THEOREM PerformRecords ==
    ASSUME NEW o \in Operation, NEW c \in Configuration, UniqueEnvs(c), NEW now \in Nat, NEW d,
           d = Perform(o, c, now), d # Rejected
    PROVE  ChangesRecords(o, c, d, now)
<1>1. CASE o.kind = "read"
  <2>1. d = c
    BY <1>1 DEF Perform
  <2>. QED
    BY <1>1, <2>1 DEF ChangesRecords
<1>2. CASE o.kind = "setActive"
  <2>1. d = [c EXCEPT !.activeEnv = o.env]
    BY <1>2 DEF Perform, SetActiveEnv
  <2>2. d.envs = c.envs
    BY <2>1 DEF Configuration
  <2>3. \A n : HasEnv(d, n) = HasEnv(c, n) /\ Records(d, n) = Records(c, n)
    BY <2>2 DEF Records, HasEnv, GetEnv, EnvIndexes
  <2>. QED
    BY <1>2, <2>3 DEF ChangesRecords
<1>3. CASE o.kind = "removeEnv"
  <2>1. d = RemoveEnvByName(c, o.env)
    BY <1>3 DEF Perform
  <2>2. SameElsewhere(c, d, o.env) /\ ~HasEnv(d, o.env)
    BY <2>1, RemoveEnvByNameRecords
  <2>3. Records(d, o.env) = << >>
    BY <2>2 DEF Records
  <2>. QED
    BY <1>3, <2>2, <2>3 DEF ChangesRecords, SameElsewhere
<1>4. CASE o.kind = "addHostname"
  <2>1. d = AddHostname(c, o.env, WithId(o.host, now)) /\ WithId(o.host, now) \in Hostname
    BY <1>4, WithIdType DEF Perform, Operation
  <2>2. /\ SameElsewhere(c, d, o.env) /\ HasEnv(c, o.env) /\ HasEnv(d, o.env)
        /\ Records(d, o.env) = Append(Records(c, o.env), WithId(o.host, now))
    BY <2>1, AddHostnameRecords
  <2>. QED
    BY <1>4, <2>2 DEF ChangesRecords, SameElsewhere
<1>5. CASE o.kind = "updateHostname"
  <2>. DEFINE host == WithId(o.host, o.id)
  <2>1. d = UpdateHostname(c, o.env, host) /\ host \in Hostname /\ host.id = o.id
    BY <1>5, WithIdType DEF Perform, Operation, WithId
  <2>. HIDE DEF host
  <2>2. /\ SameElsewhere(c, d, o.env) /\ HasEnv(c, o.env) /\ HasEnv(d, o.env)
        /\ \E h \in DOMAIN Records(c, o.env) :
              /\ Records(c, o.env)[h].id = host.id
              /\ Records(d, o.env) = [Records(c, o.env) EXCEPT ![h] = host]
    BY <2>1, UpdateHostnameRecords
  <2>. QED
    BY <1>5, <2>1, <2>2 DEF ChangesRecords, SameElsewhere, host
<1>6. CASE o.kind = "removeHostname"
  <2>1. d = RemoveHostname(c, o.env, o.name)
    BY <1>6 DEF Perform
  <2>2. /\ SameElsewhere(c, d, o.env) /\ HasEnv(c, o.env) /\ HasEnv(d, o.env)
        /\ \E h \in DOMAIN Records(c, o.env) :
              /\ Records(c, o.env)[h].hostname = o.name
              /\ Records(d, o.env) = RemoveIndex(Records(c, o.env), h)
    BY <2>1, RemoveHostnameRecords
  <2>. QED
    BY <1>6, <2>2 DEF ChangesRecords, SameElsewhere
<1>7. CASE o.kind = "addEnv"
  <2>. DEFINE hosts == [i \in 1..Len(o.hosts) |-> WithId(o.hosts[i], now + i - 1)]
              env == [name |-> o.env, hostnames |-> hosts]
  <2>1. o.env \in EnvNames /\ o.hosts \in Seq(NewHostname)
    BY <1>7 DEF Operation
  <2>2. Len(o.hosts) \in Nat /\ \A i \in 1..Len(o.hosts) : o.hosts[i] \in NewHostname
    BY <2>1, LenProperties, ElementOfSeq
  <2>3. \A i \in 1..Len(o.hosts) : WithId(o.hosts[i], now + i - 1) \in Hostname
    <3>1. \A i \in 1..Len(o.hosts) : now + i - 1 \in Nat
      BY <2>2
    <3>. QED
      BY <2>2, <3>1, WithIdType
  <2>4. hosts \in Seq(Hostname)
    BY <2>2, <2>3, SeqDef
  <2>5. env \in Env /\ env.hostnames = hosts /\ env.name = o.env
    BY <2>1, <2>4 DEF Env
  <2>6. d = AddEnv(c, env)
    BY <1>7 DEF Perform
  <2>. HIDE DEF hosts, env
  <2>7. SameElsewhere(c, d, o.env) /\ ~HasEnv(c, o.env) /\ Records(d, o.env) = hosts
    BY <2>5, <2>6, AddEnvRecords
  <2>. QED
    BY <1>7, <2>7 DEF ChangesRecords, SameElsewhere, hosts
<1>. QED
    BY <1>1, <1>2, <1>3, <1>4, <1>5, <1>6, <1>7 DEF Operation

\* The save changes nothing about that.
LEMMA SavedRecords ==
    ASSUME NEW o, NEW c, NEW d \in Configuration, NEW now, ChangesRecords(o, c, d, now)
    PROVE  ChangesRecords(o, c, WithSomeEnv(d), now)
<1>. DEFINE s == WithSomeEnv(d)
<1>1. \A n : Records(s, n) = Records(d, n) /\ (HasEnv(d, n) => HasEnv(s, n))
    BY WithSomeEnvRecords
<1>. HIDE DEF s
<1>2. ChangesRecords(o, c, s, now)
    BY <1>1, Zenon DEF ChangesRecords
<1>. QED
    BY <1>2 DEF s
===============================================================================
