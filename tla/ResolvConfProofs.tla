--------------------------- MODULE ResolvConfProofs ---------------------------
(***************************************************************************)
(* /etc/resolv.conf under the proxy, for any lines, any number of starts,  *)
(* kills and rewrites by the network manager.                              *)
(***************************************************************************)
EXTENDS ResolvConf, FiniteSetTheorems, SequenceTheorems, TLAPS

\* The line the network manager wrote.
Norm(line) == WithoutComment(CleanProcess(line))

\* The position of the i-th of the other lines when line p is left out.
Skip(p, i) == IF i < p THEN i ELSE i + 1

\* lines are n lines that are no entries of the proxy and, unless p is n + 1 and
\* they are no more, its entry in line p.
Around(lines, n, p) ==
    /\ p \in 1..(n + 1)
    /\ \/ Len(lines) = n /\ p = n + 1
       \/ Len(lines) = n + 1 /\ IsProxy(lines[p])
    /\ \A i \in 1..n : ~IsProxy(lines[Skip(p, i)])

\* lines are those of o, its servers perhaps as comments, and at most one entry
\* of the proxy among them.
Shows(lines, o) ==
    \E p \in 1..(Len(o) + 1) :
        /\ Around(lines, Len(o), p)
        /\ \A i \in 1..Len(o) : Norm(lines[Skip(p, i)]) = o[i]

\* lines are those of o after a restore.
Restored(lines, o) ==
    /\ Len(lines) = Len(o)
    /\ \A i \in 1..Len(o) : WithoutComment(lines[i]) = o[i]

\* As long as no two rewrites got in each other's way, the file, or the content
\* that is to become it, is what the network manager wrote.
Undisturbed ==
    ~raced =>
        /\ ~(Busy("loop") /\ Busy("main"))
        /\ \A w \in Writers : Busy(w) => Shows(buffer[w], original)
        /\ \A w \in Writers : Unwritten(w) => file = << >>
        /\ (\A w \in Writers : ~Unwritten(w)) => Shows(file, original)
        /\ Busy("main") => Restored(buffer["main"], original)

\* lines hold at most one entry of the proxy.
OneEntry(lines) ==
    \A i, j \in DOMAIN lines : IsProxy(lines[i]) /\ IsProxy(lines[j]) => i = j

\* The goroutine ends with the process.
LoopEndsWithMain == main = "off" => loop = "off"

RInv == TypeOK /\ AtMostOneEntry /\ LoopEndsWithMain /\ Undisturbed
-----------------------------------------------------------------------------
(***************************************************************************)
(* Lines.                                                                  *)
(***************************************************************************)
LEMMA LineCases ==
    ASSUME NEW line \in Line
    PROVE  \/ line \in [form : {"dpsEntry"}, value : Ips]
           \/ line \in [form : {"nameserver", "nameserverTab", "commented", "commentedTab"},
                        value : Servers]
           \/ line \in [form : {"text"}, value : Texts]
           \/ line \in [form : {"garbage"}, value : {0}]
    BY DEF Line

LEMMA ProxyForm ==
    ASSUME NEW line
    PROVE  IsProxy(line) <=> line.form = "dpsEntry"
    BY DEF IsProxy, EntryType

\* What setting the machine's server does to a line.
LEMMA SetProcessLine ==
    ASSUME NEW line \in Line, NEW ip \in Ips
    PROVE  /\ SetProcess(line, ip) \in Line
           /\ IsProxy(SetProcess(line, ip)) <=> IsProxy(line)
           /\ ~IsProxy(line) => Norm(SetProcess(line, ip)) = Norm(line)
<1>1. CASE line \in [form : {"dpsEntry"}, value : Ips]
  <2>1. SetProcess(line, ip) = DnsLine(ip) /\ IsProxy(line)
    BY <1>1 DEF SetProcess, EntryType, IsProxy
  <2>2. DnsLine(ip) \in Line /\ IsProxy(DnsLine(ip))
    BY DEF DnsLine, Line, IsProxy, EntryType
  <2> QED
    BY <2>1, <2>2
<1>2. CASE line \in [form : {"nameserver", "nameserverTab", "commented", "commentedTab"},
                     value : Servers]
  <2>1. CASE line.form = "nameserver"
    <3>1. SetProcess(line, ip) = [line EXCEPT !.form = "commented"]
      BY <2>1 DEF SetProcess, EntryType
    <3>2. [line EXCEPT !.form = "commented"] \in Line
      BY <1>2 DEF Line
    <3>3. CleanProcess(line) = line
      BY <2>1 DEF CleanProcess, EntryType
    <3>4. CleanProcess([line EXCEPT !.form = "commented"]) = line
      BY <1>2, <2>1 DEF CleanProcess, EntryType
    <3> QED
      BY <1>2, <2>1, <3>1, <3>2, <3>3, <3>4, ProxyForm DEF Norm
  <2>2. CASE line.form = "nameserverTab"
    <3>1. SetProcess(line, ip) = [line EXCEPT !.form = "commentedTab"]
      BY <2>2 DEF SetProcess, EntryType
    <3>2. [line EXCEPT !.form = "commentedTab"] \in Line
      BY <1>2 DEF Line
    <3>3. WithoutComment(CleanProcess(line)) = line
      BY <2>2 DEF CleanProcess, EntryType, WithoutComment
    <3>4. WithoutComment(CleanProcess([line EXCEPT !.form = "commentedTab"])) = line
      BY <1>2, <2>2 DEF CleanProcess, EntryType, WithoutComment
    <3> QED
      BY <1>2, <2>2, <3>1, <3>2, <3>3, <3>4, ProxyForm DEF Norm
  <2>3. CASE line.form \in {"commented", "commentedTab"}
    BY <2>3 DEF SetProcess, EntryType
  <2> QED
    BY <1>2, <2>1, <2>2, <2>3
<1>3. CASE line \in [form : {"text"}, value : Texts] \/ line \in [form : {"garbage"}, value : {0}]
    BY <1>3 DEF SetProcess, EntryType
<1> QED
    BY <1>1, <1>2, <1>3, LineCases

\* What restoring the file does to a line.
LEMMA CleanProcessLine ==
    ASSUME NEW line \in Line
    PROVE  /\ CleanProcess(line) \in Line
           /\ IsProxy(CleanProcess(line)) <=> IsProxy(line)
           /\ Norm(CleanProcess(line)) = Norm(line)
<1>1. CASE line.form = "commented"
  <2>1. line \in [form : {"nameserver", "nameserverTab", "commented", "commentedTab"},
                  value : Servers]
    BY <1>1, LineCases
  <2>2. CleanProcess(line) = [line EXCEPT !.form = "nameserver"]
    BY <1>1 DEF CleanProcess, EntryType
  <2>3. [line EXCEPT !.form = "nameserver"] \in Line
        /\ [line EXCEPT !.form = "nameserver"].form = "nameserver"
    BY <2>1 DEF Line
  <2>4. CleanProcess(CleanProcess(line)) = CleanProcess(line)
    BY <2>2, <2>3 DEF CleanProcess, EntryType
  <2> QED
    BY <1>1, <2>2, <2>3, <2>4, ProxyForm DEF Norm
<1>2. CASE line.form # "commented"
    BY <1>2 DEF CleanProcess, EntryType
<1> QED
    BY <1>1, <1>2

\* A line of the network manager is no entry and stays as it is.
LEMMA ForeignLines ==
    ASSUME NEW line \in ForeignLine
    PROVE  /\ line \in Line
           /\ ~IsProxy(line)
           /\ Norm(line) = line
<1>1. line.form \in {"nameserver", "nameserverTab", "text"} /\ line \in Line
    BY DEF ForeignLine, Line
<1> QED
    BY <1>1, ProxyForm DEF Norm, CleanProcess, WithoutComment, EntryType
-----------------------------------------------------------------------------
(***************************************************************************)
(* Files.                                                                  *)
(***************************************************************************)
\* Leaving out one of the numbers from 1 to m leaves m - 1.
LEMMA CountWithout ==
    ASSUME NEW m \in Nat, NEW p
    PROVE  /\ Cardinality(1..m) = m
           /\ p \in 1..m => Cardinality((1..m) \ {p}) = m - 1
<1>1. IsFiniteSet(1..m) /\ Cardinality(1..m) = m
    BY FS_Interval
<1> QED
    BY <1>1, FS_RemoveElement

\* The k-th of the numbers from 1 to n + 1 without p.
LEMMA NthWithout ==
    ASSUME NEW n \in Nat, NEW p \in 1..(n + 1), NEW k \in 1..n
    PROVE  Nth((1..(n + 1)) \ {p}, k) = Skip(p, k)
<1> DEFINE S == (1..(n + 1)) \ {p}
           Upto(i) == {j \in S : j <= i}
           Rank(i) == IF i < p THEN i ELSE i - 1
<1>1. ASSUME NEW i \in S PROVE Cardinality(Upto(i)) = Rank(i)
  <2>0. i \in Nat
    BY <1>1
  <2>1. i \in Nat /\ Cardinality(1..i) = i
    BY <2>0, CountWithout
  <2>2. CASE i < p
    <3>1. Upto(i) = 1..i
      BY <1>1, <2>2
    <3> QED
      BY <2>1, <2>2, <3>1
  <2>3. CASE i >= p
    <3>1. Upto(i) = (1..i) \ {p}
      BY <1>1, <2>3
    <3>2. p \in 1..i
      BY <2>1, <2>3
    <3>3. Cardinality((1..i) \ {p}) = i - 1
      BY <2>1, <3>2, CountWithout
    <3>4. Rank(i) = i - 1
      BY <2>1, <2>3
    <3> QED
      BY <3>1, <3>3, <3>4
  <2> QED
    BY <2>1, <2>2, <2>3
<1>2. Skip(p, k) \in S /\ Rank(Skip(p, k)) = k
    BY DEF Skip
<1>3. \A i \in S : Rank(i) = k => i = Skip(p, k)
    BY DEF Skip
<1>4. Nth(S, k) = CHOOSE i \in S : Cardinality(Upto(i)) = k
    BY DEF Nth
<1> HIDE DEF S, Upto, Rank
<1>5. \A i \in S : Cardinality(Upto(i)) = k => i = Skip(p, k)
    BY <1>1, <1>3
<1>6. Skip(p, k) \in S /\ Cardinality(Upto(Skip(p, k))) = k
    BY <1>1, <1>2
<1>7. Nth(S, k) = Skip(p, k)
    BY <1>4, <1>5, <1>6
<1> QED
    BY <1>7 DEF S

\* Every number from 1 to n + 1 other than p is one of those.
LEMMA SkipOnto ==
    ASSUME NEW n \in Nat, NEW p \in 1..(n + 1), NEW j \in (1..(n + 1)) \ {p}
    PROVE  \E i \in 1..n : j = Skip(p, i)
<1>1. CASE j < p
  <2>1. j \in 1..n /\ j = Skip(p, j)
    BY <1>1 DEF Skip
  <2> QED
    BY <2>1
<1>2. CASE j > p
  <2>1. j - 1 \in 1..n /\ j = Skip(p, j - 1)
    BY <1>2 DEF Skip
  <2> QED
    BY <2>1
<1> QED
    BY <1>1, <1>2

\* The positions of the lines around the entry.
LEMMA SkipInside ==
    ASSUME NEW lines \in Seq(Line), NEW n \in Nat, NEW p, Around(lines, n, p),
           NEW i \in 1..n
    PROVE  /\ Skip(p, i) \in DOMAIN lines
           /\ lines[Skip(p, i)] \in Line
           /\ ~IsProxy(lines[Skip(p, i)])
<1>1. Len(lines) \in Nat /\ DOMAIN lines = 1..Len(lines)
    BY LenProperties
<1>2. p \in 1..(n + 1) /\ ((Len(lines) = n /\ p = n + 1) \/ Len(lines) = n + 1)
    BY DEF Around
<1>3. Skip(p, i) \in 1..Len(lines)
  <2>1. CASE Len(lines) = n /\ p = n + 1
    BY <2>1 DEF Skip
  <2>2. CASE Len(lines) = n + 1
    BY <1>2, <2>2 DEF Skip
  <2> QED
    BY <1>2, <2>1, <2>2
<1>4. ~IsProxy(lines[Skip(p, i)])
    BY DEF Around
<1> QED
    BY <1>1, <1>3, <1>4, ElementOfSeq

\* What is left of lines with at most one entry of the proxy.
LEMMA RestoreAround ==
    ASSUME NEW lines \in Seq(Line), NEW n \in Nat, NEW p, Around(lines, n, p)
    PROVE  RestoreToDefault(lines) = [i \in 1..n |-> CleanProcess(lines[Skip(p, i)])]
<1>1. Len(lines) \in Nat /\ DOMAIN lines = 1..Len(lines)
    BY LenProperties
<1>2. p \in 1..(n + 1) /\ ((Len(lines) = n /\ p = n + 1)
                           \/ (Len(lines) = n + 1 /\ IsProxy(lines[p])))
    BY DEF Around
<1>3. KeptLines(lines) = (1..(n + 1)) \ {p}
  <2>1. ASSUME NEW j \in (1..(n + 1)) \ {p} PROVE j \in KeptLines(lines)
    <3>1. PICK i \in 1..n : j = Skip(p, i)
      BY <1>2, <2>1, SkipOnto
    <3> QED
      BY <3>1, SkipInside DEF KeptLines
  <2>2. ASSUME NEW j \in KeptLines(lines) PROVE j \in (1..(n + 1)) \ {p}
    <3>1. j \in 1..Len(lines) /\ ~IsProxy(lines[j])
      BY <1>1, <2>2 DEF KeptLines
    <3>2. CASE Len(lines) = n /\ p = n + 1
      BY <3>1, <3>2
    <3>3. CASE Len(lines) = n + 1 /\ IsProxy(lines[p])
      BY <3>1, <3>3
    <3> QED
      BY <1>2, <3>2, <3>3
  <2> QED
    BY <2>1, <2>2
<1>4. Cardinality(KeptLines(lines)) = n
  <2>1. n + 1 \in Nat
    OBVIOUS
  <2>2. Cardinality((1..(n + 1)) \ {p}) = (n + 1) - 1
    BY <1>2, <2>1, CountWithout
  <2> QED
    BY <1>3, <2>2
<1>5. \A i \in 1..n : Nth(KeptLines(lines), i) = Skip(p, i)
    BY <1>2, <1>3, NthWithout
<1> QED
    BY <1>4, <1>5 DEF RestoreToDefault

\* Lines with at most one entry of the proxy are lines around it.
LEMMA SomeAround ==
    ASSUME NEW lines \in Seq(Line), OneEntry(lines)
    PROVE  \E n \in Nat : \E p \in 1..(n + 1) : Around(lines, n, p)
<1>1. Len(lines) \in Nat /\ DOMAIN lines = 1..Len(lines)
    BY LenProperties
<1>2. CASE HasProxy(lines)
  <2>1. PICK p \in 1..Len(lines) : IsProxy(lines[p])
    BY <1>1, <1>2 DEF HasProxy
  <2> DEFINE n == Len(lines) - 1
  <2>2. n \in Nat /\ p \in 1..(n + 1) /\ Len(lines) = n + 1
    BY <1>1, <2>1
  <2> HIDE DEF n
  <2>3. ASSUME NEW i \in 1..n PROVE ~IsProxy(lines[Skip(p, i)])
    <3>1. Skip(p, i) \in 1..(n + 1) /\ Skip(p, i) # p
      BY <2>2, <2>3 DEF Skip
    <3> QED
      BY <1>1, <2>1, <2>2, <3>1 DEF OneEntry
  <2> QED
    BY <2>1, <2>2, <2>3 DEF Around
<1>3. CASE ~HasProxy(lines)
  <2> DEFINE n == Len(lines)
             p == n + 1
  <2>1. ASSUME NEW i \in 1..n PROVE ~IsProxy(lines[Skip(p, i)])
    <3>1. Skip(p, i) = i
      BY <1>1, <2>1 DEF Skip
    <3> QED
      BY <1>1, <1>3, <2>1, <3>1 DEF HasProxy
  <2>2. n \in Nat /\ p \in 1..(n + 1)
    BY <1>1
  <2>3. Around(lines, n, p)
    BY <2>1, <2>2 DEF Around
  <2> QED
    BY <2>2, <2>3
<1> QED
    BY <1>2, <1>3

\* A restore leaves lines and no entry of the proxy.
LEMMA RestoreEntries ==
    ASSUME NEW lines \in Seq(Line), OneEntry(lines)
    PROVE  /\ RestoreToDefault(lines) \in Seq(Line)
           /\ ~HasProxy(RestoreToDefault(lines))
           /\ OneEntry(RestoreToDefault(lines))
<1> DEFINE new == RestoreToDefault(lines)
<1>1. PICK n \in Nat : \E p \in 1..(n + 1) : Around(lines, n, p)
    BY SomeAround
<1>2. PICK p \in 1..(n + 1) : Around(lines, n, p)
    BY <1>1
<1>3. new = [i \in 1..n |-> CleanProcess(lines[Skip(p, i)])]
    BY <1>2, RestoreAround
<1> HIDE DEF new
<1>4. ASSUME NEW i \in 1..n PROVE new[i] \in Line /\ ~IsProxy(new[i])
    BY <1>2, <1>3, <1>4, SkipInside, CleanProcessLine
<1>5. DOMAIN new = 1..n /\ new \in [1..n -> Line]
    BY <1>3, <1>4
<1>6. new \in Seq(Line)
    BY <1>5
<1>7. ~HasProxy(new)
    BY <1>4, <1>5 DEF HasProxy
<1>8. OneEntry(new)
    BY <1>4, <1>5 DEF OneEntry
<1> QED
    BY <1>6, <1>7, <1>8 DEF new

\* The lines after the machine's server has been set.
LEMMA SetLines ==
    ASSUME NEW lines \in Seq(Line), NEW ip \in Ips
    PROVE  /\ SetMachineDnsServer(lines, ip) \in Seq(Line)
           /\ Len(SetMachineDnsServer(lines, ip))
                = IF HasProxy(lines) THEN Len(lines) ELSE Len(lines) + 1
           /\ \A i \in 1..Len(lines) :
                SetMachineDnsServer(lines, ip)[i] = SetProcess(lines[i], ip)
           /\ ~HasProxy(lines) =>
                SetMachineDnsServer(lines, ip)[Len(lines) + 1] = DnsLine(ip)
<1> DEFINE m == Len(lines)
           body == [i \in 1..m |-> SetProcess(lines[i], ip)]
<1>1. m \in Nat
    BY LenProperties
<1>2. \A i \in 1..m : SetProcess(lines[i], ip) \in Line
    BY ElementOfSeq, SetProcessLine
<1>3. body \in Seq(Line) /\ Len(body) = m /\ \A i \in 1..m : body[i] = SetProcess(lines[i], ip)
    BY <1>1, <1>2
<1>4. DnsLine(ip) \in Line
    BY DEF DnsLine, Line
<1>5. CASE HasProxy(lines)
  <2>1. SetMachineDnsServer(lines, ip) = body \o << >>
    BY <1>5 DEF SetMachineDnsServer
  <2> HIDE DEF body
  <2>2. body \o << >> = body
    BY <1>3, ConcatEmptySeq
  <2> QED
    BY <1>3, <1>5, <2>1, <2>2
<1>6. CASE ~HasProxy(lines)
  <2>1. SetMachineDnsServer(lines, ip) = body \o <<DnsLine(ip)>>
    BY <1>6 DEF SetMachineDnsServer
  <2> HIDE DEF body, m
  <2>2. /\ body \o <<DnsLine(ip)>> \in Seq(Line)
        /\ Len(body \o <<DnsLine(ip)>>) = m + 1
        /\ \A i \in 1..m : (body \o <<DnsLine(ip)>>)[i] = body[i]
        /\ (body \o <<DnsLine(ip)>>)[m + 1] = DnsLine(ip)
    BY <1>1, <1>3, <1>4
  <2> QED
    BY <1>3, <1>6, <2>1, <2>2 DEF m
<1> QED
    BY <1>5, <1>6

LEMMA SetOneEntry ==
    ASSUME NEW lines \in Seq(Line), NEW ip \in Ips, OneEntry(lines)
    PROVE  OneEntry(SetMachineDnsServer(lines, ip))
<1> DEFINE new == SetMachineDnsServer(lines, ip)
           m == Len(lines)
<1>1. m \in Nat /\ DOMAIN lines = 1..m
    BY LenProperties
<1>2. /\ new \in Seq(Line)
      /\ Len(new) = IF HasProxy(lines) THEN m ELSE m + 1
      /\ \A i \in 1..m : new[i] = SetProcess(lines[i], ip)
    BY SetLines
<1>3. DOMAIN new = 1..Len(new)
    BY <1>2, LenProperties
<1>4. ASSUME NEW i \in 1..m PROVE IsProxy(new[i]) <=> IsProxy(lines[i])
    BY <1>2, <1>4, ElementOfSeq, SetProcessLine
<1> HIDE DEF new, m
<1>5. ASSUME NEW i \in DOMAIN new, NEW j \in DOMAIN new, IsProxy(new[i]), IsProxy(new[j])
      PROVE  i = j
  <2>1. CASE HasProxy(lines)
    <3>1. i \in 1..m /\ j \in 1..m
      BY <1>2, <1>3, <1>5, <2>1
    <3>2. IsProxy(lines[i]) /\ IsProxy(lines[j])
      BY <1>4, <1>5, <3>1
    <3> QED
      BY <1>1, <3>1, <3>2 DEF OneEntry
  <2>2. CASE ~HasProxy(lines)
    <3>1. i \in 1..(m + 1) /\ j \in 1..(m + 1)
      BY <1>2, <1>3, <1>5, <2>2
    <3>2. \A k \in 1..m : ~IsProxy(new[k])
      BY <1>1, <1>4, <2>2 DEF HasProxy
    <3> QED
      BY <1>1, <1>5, <3>1, <3>2
  <2> QED
    BY <2>1, <2>2
<1> QED
    BY <1>5 DEF OneEntry, new

\* The entry is renewed where it is, or comes last.
LEMMA SetAround ==
    ASSUME NEW lines \in Seq(Line), NEW ip \in Ips, NEW n \in Nat, NEW p,
           Around(lines, n, p)
    PROVE  /\ Around(SetMachineDnsServer(lines, ip), n, p)
           /\ \A i \in 1..n : SetMachineDnsServer(lines, ip)[Skip(p, i)]
                                = SetProcess(lines[Skip(p, i)], ip)
<1> DEFINE new == SetMachineDnsServer(lines, ip)
           m == Len(lines)
<1>1. m \in Nat /\ DOMAIN lines = 1..m
    BY LenProperties
<1>2. /\ Len(new) = IF HasProxy(lines) THEN m ELSE m + 1
      /\ \A i \in 1..m : new[i] = SetProcess(lines[i], ip)
      /\ ~HasProxy(lines) => new[m + 1] = DnsLine(ip)
    BY SetLines
<1>3. p \in 1..(n + 1) /\ ((m = n /\ p = n + 1) \/ (m = n + 1 /\ IsProxy(lines[p])))
    BY DEF Around
<1> HIDE DEF new, m
<1>4. \A i \in 1..n : Skip(p, i) \in 1..m /\ lines[Skip(p, i)] \in Line
                      /\ ~IsProxy(lines[Skip(p, i)])
    BY <1>1, SkipInside
<1>5. \A i \in 1..n : new[Skip(p, i)] = SetProcess(lines[Skip(p, i)], ip)
    BY <1>2, <1>4
<1>6. \A i \in 1..n : ~IsProxy(new[Skip(p, i)])
    BY <1>4, <1>5, SetProcessLine
<1>7. Len(new) = n + 1 /\ IsProxy(new[p])
  <2>1. CASE m = n /\ p = n + 1
    <3>1. \A i \in 1..n : Skip(p, i) = i
      BY <2>1 DEF Skip
    <3>2. ~HasProxy(lines)
      BY <1>1, <1>4, <2>1, <3>1 DEF HasProxy
    <3>3. Len(new) = n + 1 /\ new[p] = DnsLine(ip)
      BY <1>2, <2>1, <3>2
    <3> QED
      BY <3>3 DEF DnsLine, IsProxy, EntryType
  <2>2. CASE m = n + 1 /\ IsProxy(lines[p])
    <3>1. p \in 1..m /\ HasProxy(lines)
      BY <1>1, <1>3, <2>2 DEF HasProxy
    <3>2. Len(new) = n + 1 /\ new[p] = SetProcess(lines[p], ip)
      BY <1>2, <2>2, <3>1
    <3>3. lines[p] \in Line
      BY <3>1, ElementOfSeq DEF m
    <3> QED
      BY <2>2, <3>2, <3>3, SetProcessLine
  <2> QED
    BY <1>3, <2>1, <2>2
<1>8. Around(new, n, p)
    BY <1>3, <1>6, <1>7 DEF Around
<1> QED
    BY <1>5, <1>8 DEF new

\* Setting the machine's server keeps the network manager's lines in the file.
LEMMA SetShows ==
    ASSUME NEW lines \in Seq(Line), NEW ip \in Ips, NEW o \in Seq(ForeignLine),
           Shows(lines, o)
    PROVE  Shows(SetMachineDnsServer(lines, ip), o)
<1> DEFINE n == Len(o)
           new == SetMachineDnsServer(lines, ip)
<1>1. n \in Nat
    BY LenProperties
<1>2. PICK p \in 1..(n + 1) : /\ Around(lines, n, p)
                              /\ \A i \in 1..n : Norm(lines[Skip(p, i)]) = o[i]
    BY DEF Shows
<1> HIDE DEF n
<1>3. Around(new, n, p) /\ \A i \in 1..n : new[Skip(p, i)] = SetProcess(lines[Skip(p, i)], ip)
    BY <1>1, <1>2, SetAround
<1> HIDE DEF new
<1>4. ASSUME NEW i \in 1..n PROVE Norm(new[Skip(p, i)]) = o[i]
  <2>1. lines[Skip(p, i)] \in Line /\ ~IsProxy(lines[Skip(p, i)])
    BY <1>1, <1>2, <1>4, SkipInside
  <2>2. Norm(SetProcess(lines[Skip(p, i)], ip)) = Norm(lines[Skip(p, i)])
    BY <2>1, SetProcessLine
  <2> QED
    BY <1>2, <1>3, <1>4, <2>2
<1>5. Shows(new, o)
    BY <1>2, <1>3, <1>4 DEF Shows, n
<1> QED
    BY <1>5 DEF new

\* Restoring them gives them back.
LEMMA RestoreShows ==
    ASSUME NEW lines \in Seq(Line), NEW o \in Seq(ForeignLine), Shows(lines, o)
    PROVE  /\ Restored(RestoreToDefault(lines), o)
           /\ Shows(RestoreToDefault(lines), o)
           /\ UpToTabs(RestoreToDefault(lines)) = o
<1> DEFINE n == Len(o)
           new == RestoreToDefault(lines)
<1>1. n \in Nat /\ o = [i \in 1..n |-> o[i]]
    BY LenProperties
<1>2. PICK p \in 1..(n + 1) : /\ Around(lines, n, p)
                              /\ \A i \in 1..n : Norm(lines[Skip(p, i)]) = o[i]
    BY DEF Shows
<1> HIDE DEF n
<1>3. new = [i \in 1..n |-> CleanProcess(lines[Skip(p, i)])]
    BY <1>1, <1>2, RestoreAround
<1> HIDE DEF new
<1>4. \A i \in 1..n : lines[Skip(p, i)] \in Line /\ ~IsProxy(lines[Skip(p, i)])
    BY <1>1, <1>2, SkipInside
<1>5. ASSUME NEW i \in 1..n
      PROVE  /\ new[i] \in Line
             /\ ~IsProxy(new[i])
             /\ Norm(new[i]) = o[i]
             /\ WithoutComment(new[i]) = o[i]
  <2>1. new[i] = CleanProcess(lines[Skip(p, i)])
    BY <1>3, <1>5
  <2>2. WithoutComment(new[i]) = o[i]
    BY <1>2, <1>5, <2>1 DEF Norm
  <2> QED
    BY <1>2, <1>4, <1>5, <2>1, <2>2, CleanProcessLine
<1>6. new \in [1..n -> Line]
    BY <1>3, <1>5
<1>7. new \in Seq(Line) /\ Len(new) = n
    BY <1>1, <1>6
<1>8. Restored(new, o)
    BY <1>5, <1>7 DEF Restored, n
<1>9. Shows(new, o)
  <2>1. \A i \in 1..n : Skip(n + 1, i) = i
    BY <1>1 DEF Skip
  <2>2. Around(new, n, n + 1)
    BY <1>1, <1>5, <1>7, <2>1 DEF Around
  <2>3. \A i \in 1..n : Norm(new[Skip(n + 1, i)]) = o[i]
    BY <1>5, <2>1
  <2>4. n + 1 \in 1..(n + 1)
    BY <1>1
  <2> QED
    BY <2>2, <2>3, <2>4 DEF Shows, n
<1>10. UpToTabs(new) = o
    BY <1>1, <1>5, <1>7 DEF UpToTabs
<1> QED
    BY <1>8, <1>9, <1>10 DEF new

\* The network manager's own lines.
LEMMA ForeignShows ==
    ASSUME NEW o \in Contents
    PROVE  /\ o \in Seq(ForeignLine)
           /\ o \in Seq(Line)
           /\ OneEntry(o)
           /\ Shows(o, o)
<1> DEFINE n == Len(o)
<1>1. o \in Seq(ForeignLine)
    BY ContentsAssumption
<1>2. n \in Nat /\ DOMAIN o = 1..n /\ o \in [1..n -> ForeignLine]
    BY <1>1, LenProperties
<1> HIDE DEF n
<1>3. ASSUME NEW i \in 1..n PROVE o[i] \in Line /\ ~IsProxy(o[i]) /\ Norm(o[i]) = o[i]
    BY <1>2, <1>3, ForeignLines
<1>4. o \in [1..n -> Line]
    BY <1>2, <1>3
<1>5. o \in Seq(Line)
    BY <1>2, <1>4
<1>6. OneEntry(o)
    BY <1>2, <1>3 DEF OneEntry
<1>7. Shows(o, o)
  <2>1. \A i \in 1..n : Skip(n + 1, i) = i
    BY <1>2 DEF Skip
  <2>2. Around(o, n, n + 1)
    BY <1>2, <1>3, <2>1 DEF Around, n
  <2>3. \A i \in 1..n : Norm(o[Skip(n + 1, i)]) = o[i]
    BY <1>3, <2>1
  <2>4. n + 1 \in 1..(n + 1)
    BY <1>2
  <2> QED
    BY <2>2, <2>3, <2>4 DEF Shows, n
<1> QED
    BY <1>1, <1>5, <1>6, <1>7
-----------------------------------------------------------------------------
(***************************************************************************)
(* The inductive invariant.                                                *)
(***************************************************************************)
LEMMA EntriesOfAll ==
    AtMostOneEntry <=> /\ OneEntry(file)
                       /\ OneEntry(buffer["loop"])
                       /\ OneEntry(buffer["main"])
    BY DEF AtMostOneEntry, OneEntry

LEMMA EmptyFile == << >> \in Seq(Line) /\ OneEntry(<< >>)
    BY DEF OneEntry

\* What a write may leave in the file.
LEMMA WrittenLines ==
    ASSUME TypeOK, AtMostOneEntry, NEW w \in Writers, NEW new \in Written(w)
    PROVE  /\ new \in Seq(Line)
           /\ OneEntry(new)
           /\ file = << >> => new = buffer[w]
<1> DEFINE b == buffer[w]
<1>1. b \in Seq(Line) /\ OneEntry(b)
    BY EntriesOfAll DEF TypeOK, Writers
<1>2. new = b \/ (file # << >> /\ new = Append(b, Garbage))
    BY DEF Written
<1> HIDE DEF b
<1>3. CASE new = Append(b, Garbage)
  <2>1. Len(b) \in Nat /\ DOMAIN b = 1..Len(b)
    BY <1>1, LenProperties
  <2>2. Garbage \in Line /\ ~IsProxy(Garbage)
    BY DEF Garbage, Line, IsProxy, EntryType
  <2>3. /\ new \in Seq(Line)
        /\ DOMAIN new = 1..(Len(b) + 1)
        /\ \A i \in 1..Len(b) : new[i] = b[i]
        /\ new[Len(b) + 1] = Garbage
    BY <1>1, <1>3, <2>2, AppendProperties
  <2>4. ASSUME NEW i \in DOMAIN new, IsProxy(new[i]) PROVE i \in DOMAIN b /\ IsProxy(b[i])
    BY <2>1, <2>2, <2>3, <2>4
  <2>5. OneEntry(new)
    BY <1>1, <2>4 DEF OneEntry
  <2> QED
    BY <1>2, <2>3, <2>5 DEF b
<1> QED
    BY <1>1, <1>2, <1>3 DEF b

LEMMA RInvInitially == Init => RInv
<1> SUFFICES ASSUME Init PROVE RInv
    OBVIOUS
<1>1. original \in Contents /\ file = original /\ loop = "off" /\ main = "off"
      /\ buffer = [w \in Writers |-> << >>] /\ raced = FALSE /\ rewrites = 0 /\ starts = 0
    BY DEF Init
<1>2. file \in Seq(Line) /\ OneEntry(file) /\ Shows(file, original)
    BY <1>1, ForeignShows
<1>3. buffer \in [Writers -> Seq(Line)] /\ buffer["loop"] = << >> /\ buffer["main"] = << >>
    BY <1>1, EmptyFile DEF Writers
<1>4. TypeOK
  <2>1. rewrites \in 0..MaxRewrites /\ starts \in 0..MaxStarts
    BY <1>1, BoundsAssumption
  <2>2. original \in Contents /\ loop = "off" /\ main = "off" /\ raced = FALSE
    BY <1>1
  <2> QED
    BY <1>2, <1>3, <2>1, <2>2 DEF TypeOK
<1>5. AtMostOneEntry
    BY <1>2, <1>3, EmptyFile, EntriesOfAll
<1>6. Undisturbed
    BY <1>1, <1>2 DEF Undisturbed, Busy, Unwritten, Location, Writers
<1> QED
    BY <1>1, <1>4, <1>5, <1>6 DEF RInv, LoopEndsWithMain

\* No step writes what are no lines, or a second entry.
LEMMA FilesStep ==
    ASSUME TypeOK, AtMostOneEntry, LoopEndsWithMain, [Next]_vars
    PROVE  TypeOK' /\ AtMostOneEntry' /\ LoopEndsWithMain'
<1>1. /\ file \in Seq(Line) /\ buffer \in [Writers -> Seq(Line)] /\ original \in Contents
      /\ OneEntry(file) /\ OneEntry(buffer["loop"]) /\ OneEntry(buffer["main"])
    BY EntriesOfAll DEF TypeOK
<1> DEFINE Entries == OneEntry(file') /\ OneEntry(buffer'["loop"]) /\ OneEntry(buffer'["main"])
<1> SUFFICES TypeOK' /\ Entries /\ LoopEndsWithMain'
    BY DEF AtMostOneEntry, OneEntry
<1>2. ASSUME NEW w \in Writers, NEW lines \in Seq(Line), OneEntry(lines), Read(w, lines)
      PROVE  /\ file' \in Seq(Line) /\ buffer' \in [Writers -> Seq(Line)] /\ Entries
             /\ original' \in Contents /\ raced' \in BOOLEAN /\ UNCHANGED <<rewrites, starts>>
  <2>1. \A v \in Writers : buffer'[v] = IF v = w THEN lines ELSE buffer[v]
    BY <1>1, <1>2 DEF Read
  <2> QED
    BY <1>1, <1>2, <2>1 DEF Read, TypeOK, Writers
<1>3. ASSUME Truncate
      PROVE  /\ file' \in Seq(Line) /\ buffer' \in [Writers -> Seq(Line)] /\ Entries
             /\ original' \in Contents /\ raced' \in BOOLEAN /\ UNCHANGED <<rewrites, starts>>
    BY <1>1, <1>3, EmptyFile DEF Truncate, TypeOK
<1>4. ASSUME NEW w \in Writers, Write(w)
      PROVE  /\ file' \in Seq(Line) /\ buffer' \in [Writers -> Seq(Line)] /\ Entries
             /\ original' \in Contents /\ raced' \in BOOLEAN /\ UNCHANGED <<rewrites, starts>>
  <2>1. file' \in Seq(Line) /\ OneEntry(file')
    BY <1>4, WrittenLines DEF Write
  <2>2. \A v \in Writers : buffer'[v] = IF v = w THEN << >> ELSE buffer[v]
    BY <1>1, <1>4 DEF Write
  <2>3. buffer' \in [Writers -> Seq(Line)]
    BY <1>1, <1>4, EmptyFile DEF Write
  <2>4. OneEntry(buffer'["loop"]) /\ OneEntry(buffer'["main"])
    BY <1>1, <2>2, EmptyFile DEF Writers
  <2> QED
    BY <1>1, <1>4, <2>1, <2>3, <2>4 DEF Write, TypeOK
<1>5. ASSUME Gone
      PROVE  /\ file' \in Seq(Line) /\ buffer' \in [Writers -> Seq(Line)] /\ Entries
             /\ original' \in Contents /\ UNCHANGED <<rewrites, starts>>
             /\ main' = "off" /\ loop' = "off"
    BY <1>1, <1>5, EmptyFile DEF Gone, Writers
<1> HIDE DEF Entries
<1>6. CASE LoopRead
  <2>1. PICK ip \in Ips : Read("loop", SetMachineDnsServer(file, ip))
    BY <1>6 DEF LoopRead
  <2>2. SetMachineDnsServer(file, ip) \in Seq(Line) /\ OneEntry(SetMachineDnsServer(file, ip))
    BY <1>1, SetLines, SetOneEntry
  <2> QED
    BY <1>2, <1>6, <2>1, <2>2 DEF LoopRead, Running, TypeOK, LoopEndsWithMain, Writers
<1>7. CASE LoopTruncate
    BY <1>3, <1>7 DEF LoopTruncate, Running, TypeOK, LoopEndsWithMain
<1>8. CASE LoopWrite
    BY <1>4, <1>8 DEF LoopWrite, Running, TypeOK, LoopEndsWithMain, Writers
<1>9. CASE LoopWake \/ LoopFails
    BY <1>1, <1>9 DEF LoopWake, LoopFails, Running, TypeOK, LoopEndsWithMain, Entries
<1>10. CASE MainRead
  <2>1. Read("main", RestoreToDefault(file))
    BY <1>10 DEF MainRead
  <2>2. RestoreToDefault(file) \in Seq(Line) /\ OneEntry(RestoreToDefault(file))
    BY <1>1, RestoreEntries
  <2> QED
    BY <1>2, <1>10, <2>1, <2>2 DEF MainRead, TypeOK, LoopEndsWithMain, Writers
<1>11. CASE MainTruncate
    BY <1>3, <1>11 DEF MainTruncate, TypeOK, LoopEndsWithMain
<1>12. CASE MainWrite
    BY <1>4, <1>12 DEF MainWrite, TypeOK, LoopEndsWithMain, Writers
<1>13. CASE Exit
    BY <1>5, <1>13 DEF Exit, Unwritten, TypeOK, LoopEndsWithMain
<1>14. CASE Kill
    BY <1>5, <1>14 DEF Kill, Unwritten, TypeOK, LoopEndsWithMain
<1>15. CASE Signal
    BY <1>1, <1>15 DEF Signal, TypeOK, LoopEndsWithMain, Entries
<1>16. CASE Start
    BY <1>1, <1>16, BoundsAssumption DEF Start, TypeOK, LoopEndsWithMain, Entries
<1>17. CASE Rewrite
  <2>1. original' \in Contents /\ file' = original' /\ UNCHANGED <<loop, main, buffer, starts>>
    BY <1>17 DEF Rewrite
  <2>2. file' \in Seq(Line) /\ OneEntry(file')
    BY <2>1, ForeignShows
  <2>3. rewrites' \in 0..MaxRewrites /\ raced' \in BOOLEAN
    BY <1>17, BoundsAssumption DEF Rewrite, TypeOK, Busy
  <2> QED
    BY <1>1, <2>1, <2>2, <2>3 DEF TypeOK, LoopEndsWithMain, Entries
<1>18. CASE UNCHANGED vars
    BY <1>1, <1>18 DEF vars, TypeOK, LoopEndsWithMain, Entries
<1> QED
    BY <1>6, <1>7, <1>8, <1>9, <1>10, <1>11, <1>12, <1>13, <1>14, <1>15, <1>16, <1>17, <1>18
       DEF Next, LoopNext, MainNext

\* What the file shows, step by step.
LEMMA UndisturbedStep ==
    ASSUME RInv, [Next]_vars
    PROVE  Undisturbed'
<1>1. /\ TypeOK /\ AtMostOneEntry /\ LoopEndsWithMain /\ Undisturbed
      /\ file \in Seq(Line) /\ buffer \in [Writers -> Seq(Line)] /\ original \in Contents
      /\ OneEntry(file) /\ OneEntry(buffer["loop"]) /\ OneEntry(buffer["main"])
      /\ original \in Seq(ForeignLine)
    BY EntriesOfAll, ForeignShows DEF RInv, TypeOK
<1>2. "loop" \in Writers /\ "main" \in Writers /\ \A w \in Writers : w \in {"loop", "main"}
    BY DEF Writers
<1> DEFINE BusyAt(l) == l \in {"trunc", "write"}
           Facts(l, m, f, b, o) ==
               /\ ~(BusyAt(l) /\ BusyAt(m))
               /\ BusyAt(l) => Shows(b["loop"], o)
               /\ BusyAt(m) => Shows(b["main"], o)
               /\ l = "write" => f = << >>
               /\ m = "write" => f = << >>
               /\ l # "write" /\ m # "write" => Shows(f, o)
               /\ BusyAt(m) => Restored(b["main"], o)
<1>3. ~raced => Facts(loop, main, file, buffer, original)
    BY <1>1, <1>2 DEF Undisturbed, Busy, Unwritten, Location
<1> SUFFICES ~raced' => Facts(loop', main', file', buffer', original')
    BY <1>2 DEF Undisturbed, Busy, Unwritten, Location, Writers
<1> SUFFICES ASSUME ~raced' PROVE Facts(loop', main', file', buffer', original')
    OBVIOUS
<1>4. Unwritten("loop") = (loop = "write") /\ Unwritten("main") = (main = "write")
      /\ Busy("loop") = BusyAt(loop) /\ Busy("main") = BusyAt(main)
    BY DEF Unwritten, Busy, Location
<1>6. CASE LoopRead
  <2>1. PICK ip \in Ips : Read("loop", SetMachineDnsServer(file, ip))
    BY <1>6 DEF LoopRead
  <2>2. ~raced /\ ~BusyAt(main) /\ loop = "read" /\ loop' = "trunc"
        /\ UNCHANGED <<file, original, main>>
        /\ buffer' = [buffer EXCEPT !["loop"] = SetMachineDnsServer(file, ip)]
    BY <1>4, <1>6, <2>1 DEF LoopRead, Read, Other
  <2>3. Shows(file, original)
    BY <1>3, <2>2
  <2>4. buffer'["loop"] = SetMachineDnsServer(file, ip)
    BY <1>1, <1>2, <2>2
  <2>5. Shows(buffer'["loop"], original)
    BY <1>1, <2>3, <2>4, SetShows
  <2> QED
    BY <2>2, <2>3, <2>5
<1>7. CASE LoopTruncate
    BY <1>3, <1>7 DEF LoopTruncate, Truncate
<1>8. CASE LoopWrite
  <2>1. ~raced /\ loop = "write" /\ loop' = "sleep" /\ UNCHANGED <<main, original>>
        /\ file' \in Written("loop")
    BY <1>8 DEF LoopWrite, Write
  <2>2. file = << >> /\ Shows(buffer["loop"], original) /\ ~BusyAt(main)
    BY <1>3, <2>1
  <2>3. file' = buffer["loop"]
    BY <1>1, <1>2, <2>1, <2>2, WrittenLines
  <2> QED
    BY <2>1, <2>2, <2>3
<1>9. CASE LoopWake \/ LoopFails
    BY <1>3, <1>9 DEF LoopWake, LoopFails
<1>10. CASE MainRead
  <2>1. ~raced /\ ~BusyAt(loop) /\ main = "read" /\ main' = "trunc"
        /\ UNCHANGED <<file, original, loop>>
        /\ buffer' = [buffer EXCEPT !["main"] = RestoreToDefault(file)]
    BY <1>4, <1>10 DEF MainRead, Read, Other
  <2>2. Shows(file, original)
    BY <1>3, <2>1
  <2>3. buffer'["main"] = RestoreToDefault(file)
    BY <1>1, <1>2, <2>1
  <2>4. Shows(buffer'["main"], original) /\ Restored(buffer'["main"], original)
    BY <1>1, <2>2, <2>3, RestoreShows
  <2> QED
    BY <2>1, <2>2, <2>4
<1>11. CASE MainTruncate
    BY <1>3, <1>11 DEF MainTruncate, Truncate
<1>12. CASE MainWrite
  <2>1. ~raced /\ main = "write" /\ main' = "return" /\ UNCHANGED <<loop, original>>
        /\ file' \in Written("main")
    BY <1>12 DEF MainWrite, Write
  <2>2. file = << >> /\ Shows(buffer["main"], original) /\ ~BusyAt(loop)
    BY <1>3, <2>1
  <2>3. file' = buffer["main"]
    BY <1>1, <1>2, <2>1, <2>2, WrittenLines
  <2> QED
    BY <2>1, <2>2, <2>3
<1>13. CASE Exit
    BY <1>3, <1>4, <1>13 DEF Exit, Gone
<1>14. CASE Kill
    BY <1>3, <1>4, <1>14 DEF Kill, Gone
<1>15. CASE Signal
    BY <1>3, <1>15 DEF Signal
<1>16. CASE Start
    BY <1>1, <1>3, <1>16 DEF Start, LoopEndsWithMain
<1>17. CASE Rewrite
  <2>1. /\ original' \in Contents /\ file' = original' /\ UNCHANGED <<loop, main, buffer>>
        /\ ~BusyAt(loop) /\ ~BusyAt(main)
    BY <1>4, <1>17 DEF Rewrite
  <2>2. Shows(file', original')
    BY <2>1, ForeignShows
  <2> QED
    BY <2>1, <2>2
<1>18. CASE UNCHANGED vars
    BY <1>3, <1>18 DEF vars
<1> QED
    BY <1>6, <1>7, <1>8, <1>9, <1>10, <1>11, <1>12, <1>13, <1>14, <1>15, <1>16, <1>17, <1>18
       DEF Next, LoopNext, MainNext

LEMMA RInvStep == RInv /\ [Next]_vars => RInv'
    BY FilesStep, UndisturbedStep DEF RInv

\* The inductive invariant holds throughout.
THEOREM FileInvariant == Spec => []RInv
    BY RInvInitially, RInvStep, PTL DEF Spec
-----------------------------------------------------------------------------
(***************************************************************************)
(* What it gives.                                                          *)
(***************************************************************************)
\* Every variable keeps its type.
THEOREM FileTypeCorrect == Spec => []TypeOK
<1>1. RInv => TypeOK
    BY DEF RInv
<1> QED
    BY <1>1, FileInvariant, PTL

\* The file and what is to be written into it never have a second entry of
\* the proxy, however the goroutine, the shutdown and the network manager meet.
THEOREM EntryStaysSingle == Spec => []AtMostOneEntry
<1>1. RInv => AtMostOneEntry
    BY DEF RInv
<1> QED
    BY <1>1, FileInvariant, PTL

\* A restore gives back the network manager's lines after any number of sets,
\* restores, starts and kills that no other rewrite fell into.
THEOREM RestoreGivesBack == Spec => []RoundTrip
<1>1. RInv => RoundTrip
  <2> SUFFICES ASSUME RInv, ~raced PROVE UpToTabs(RestoreToDefault(Content)) = original
    BY DEF RoundTrip
  <2>1. original \in Seq(ForeignLine) /\ file \in Seq(Line) /\ buffer \in [Writers -> Seq(Line)]
    BY ForeignShows DEF RInv, TypeOK
  <2>2. Content \in Seq(Line) /\ Shows(Content, original)
    BY <2>1 DEF RInv, Undisturbed, Content, Busy, Unwritten, Writers
  <2> QED
    BY <2>1, <2>2, RestoreShows
<1> QED
    BY <1>1, FileInvariant, PTL

\* A restored file of servers written with a space is the original.
LEMMA RestoredExactly ==
    ASSUME NEW lines \in Seq(Line), NEW o \in Seq(ForeignLine), Restored(lines, o),
           \A i \in DOMAIN o : ~IsTab(o[i])
    PROVE  lines = o
<1>1. Len(lines) = Len(o) /\ Len(o) \in Nat /\ DOMAIN o = 1..Len(o)
      /\ DOMAIN lines = 1..Len(lines)
    BY LenProperties DEF Restored
<1>2. ASSUME NEW i \in 1..Len(o) PROVE lines[i] = o[i]
  <2>1. lines[i] \in Line /\ WithoutComment(lines[i]) = o[i] /\ o[i].form # "nameserverTab"
    BY <1>1, <1>2, ElementOfSeq DEF Restored, IsTab
  <2>2. CASE lines[i].form = "commentedTab"
    <3>1. lines[i] \in [form : {"nameserver", "nameserverTab", "commented", "commentedTab"},
                        value : Servers]
      BY <2>1, <2>2, LineCases
    <3>2. [lines[i] EXCEPT !.form = "nameserverTab"].form = "nameserverTab"
      BY <3>1
    <3> QED
      BY <2>1, <2>2, <3>2 DEF WithoutComment
  <2> QED
    BY <2>1, <2>2 DEF WithoutComment
<1> QED
    BY <1>1, <1>2, SeqEqual

\* The shutdown nobody disturbed leaves the file as the network manager wrote it.
THEOREM UndisturbedRestoreExact == Spec => RestoreIsExact
<1> DEFINE Exact == /\ main = "write" /\ main' = "return"
                    /\ ~raced
                    /\ \A i \in DOMAIN original : ~IsTab(original[i])
                    => file' = original
<1>1. RInv /\ [Next]_vars => [Exact]_vars
  <2> SUFFICES ASSUME RInv, Next, main = "write", main' = "return", ~raced,
                      \A i \in DOMAIN original : ~IsTab(original[i])
               PROVE  file' = original
    BY DEF vars
  <2>1. MainWrite
    BY DEF Next, LoopNext, MainNext, LoopRead, LoopTruncate, LoopWrite, LoopWake, LoopFails,
           MainRead, MainTruncate, Exit, Signal, Start, Rewrite, Kill, Gone
  <2>2. original \in Seq(ForeignLine) /\ buffer["main"] \in Seq(Line)
    BY ForeignShows DEF RInv, TypeOK, Writers
  <2>3. file = << >> /\ Restored(buffer["main"], original)
    BY DEF RInv, Undisturbed, Busy, Unwritten, Location, Writers
  <2>4. file' = buffer["main"]
    BY <2>1, <2>3, WrittenLines DEF MainWrite, Write, RInv, Writers
  <2> QED
    BY <2>2, <2>3, <2>4, RestoredExactly
<1> QED
    BY <1>1, FileInvariant, PTL DEF Spec, RestoreIsExact
===============================================================================
