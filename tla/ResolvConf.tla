------------------------------ MODULE ResolvConf ------------------------------
(***************************************************************************)
(* The proxy as the machine's DNS server (resolvconf/, main of dns.go).  A *)
(* goroutine writes the proxy into /etc/resolv.conf every 20 seconds,      *)
(* turning the nameservers it finds into comments; on a signal main turns  *)
(* the comments back.  Both read the whole file, compute the new lines and *)
(* rewrite it with a truncation and a write, and nothing keeps them, or    *)
(* the network manager that owns the file, apart.                          *)
(***************************************************************************)
EXTENDS Naturals, Sequences, FiniteSets

CONSTANTS Servers,      \* addresses of nameservers
          Ips,          \* addresses the proxy may have
          Texts,        \* lines that name no server: search, options, comments
          Contents,     \* what the network manager writes into the file
          MaxRewrites,  \* bound: rewrites by the network manager
          MaxStarts     \* bound: starts of the proxy

(***************************************************************************)
(* A line, by the forms getDnsEntryType tells apart.  "nameserver" is      *)
(* followed by a space, "nameserverTab" by a tab; "commented" and          *)
(* "commentedTab" are such lines between "# " and " # dps-comment".        *)
(***************************************************************************)
Line == [form : {"dpsEntry"}, value : Ips]
        \cup [form : {"nameserver", "nameserverTab", "commented", "commentedTab"},
              value : Servers]
        \cup [form : {"text"}, value : Texts]
        \cup [form : {"garbage"}, value : {0}]

\* A line of the network manager has none of the proxy's marks.
ForeignLine == [form : {"nameserver", "nameserverTab"}, value : Servers]
               \cup [form : {"text"}, value : Texts]

ASSUME IpsAssumption == Ips # {}
ASSUME ContentsAssumption == Contents \subseteq Seq(ForeignLine)
ASSUME BoundsAssumption == MaxRewrites \in Nat /\ MaxStarts \in Nat

VARIABLES file,      \* the lines of /etc/resolv.conf
          loop,      \* where the goroutine of main is
          main,      \* where main is
          buffer,    \* the new content each of the two has computed
          original,  \* history: the lines the network manager wrote last
          raced,     \* history: since then two of the three got in each other's way
          rewrites,  \* rewrites by the network manager
          starts     \* starts of the proxy

vars == <<file, loop, main, buffer, original, raced, rewrites, starts>>
-----------------------------------------------------------------------------
\* The prefix test of a commented server wants a space after "nameserver".
EntryType(line) ==
    CASE line.form = "dpsEntry" -> "PROXY"
      [] line.form = "commented" -> "COMMENTED_SERVER"
      [] line.form \in {"nameserver", "nameserverTab"} -> "SERVER"
      [] OTHER -> "ELSE"

DnsLine(ip) == [form |-> "dpsEntry", value |-> ip]
IsProxy(line) == EntryType(line) = "PROXY"
HasProxy(lines) == \E i \in DOMAIN lines : IsProxy(lines[i])

\* Mutant of SetProcess: every other line becomes a comment.
SetProcessCommentsAll(line, ip) ==
    IF EntryType(line) = "PROXY" THEN DnsLine(ip)
    ELSE [line EXCEPT !.form = "commented"]

\* setMachineDNSServerHandler: its own entry is renewed, a server becomes a
\* comment, everything else stays.
SetProcess(line, ip) ==
    CASE EntryType(line) = "PROXY" -> DnsLine(ip)
      [] EntryType(line) = "SERVER" ->
            [line EXCEPT !.form = IF @ = "nameserver" THEN "commented"
                                  ELSE "commentedTab"]
      [] OTHER -> line

\* Mutants of SetMachineDnsServer: the servers are dropped; the entry is added
\* each time; it is only renewed.
SetMachineDnsServerDropping(lines, ip) ==
    LET Kept(line) == EntryType(line) \notin {"SERVER", "PROXY"}
    IN  Append(SelectSeq(lines, Kept), DnsLine(ip))

SetMachineDnsServerAppending(lines, ip) ==
    Append([i \in 1..Len(lines) |-> SetProcess(lines[i], ip)], DnsLine(ip))

SetMachineDnsServerRenewing(lines, ip) ==
    [i \in 1..Len(lines) |-> SetProcess(lines[i], ip)]

\* The entry is added when the file has none.
SetMachineDnsServer(lines, ip) ==
    [i \in 1..Len(lines) |-> SetProcess(lines[i], ip)]
        \o (IF HasProxy(lines) THEN << >> ELSE <<DnsLine(ip)>>)

\* Mutant of CleanProcess: the comments stay comments.
CleanProcessKeepingComments(line) == line

\* dnsServerCleanerHandler: its own entry goes, comments become servers again.
CleanProcess(line) ==
    IF EntryType(line) = "COMMENTED_SERVER"
    THEN [line EXCEPT !.form = "nameserver"]
    ELSE line

\* The lines that are not its own entry, in their order.
KeptLines(lines) == {i \in DOMAIN lines : ~IsProxy(lines[i])}
Nth(S, k) == CHOOSE i \in S : Cardinality({j \in S : j <= i}) = k
RestoreToDefault(lines) ==
    [k \in 1..Cardinality(KeptLines(lines)) |->
        CleanProcess(lines[Nth(KeptLines(lines), k)])]
-----------------------------------------------------------------------------
Writers == {"loop", "main"}
Location(w) == IF w = "loop" THEN loop ELSE main
\* w has truncated the file and not yet written it.
Unwritten(w) == Location(w) = "write"
Busy(w) == Location(w) \in {"trunc", "write"}

Running == main # "off"

Init ==
    /\ original \in Contents
    /\ file = original
    /\ loop = "off"
    /\ main = "off"
    /\ buffer = [w \in Writers |-> << >>]
    /\ raced = FALSE
    /\ rewrites = 0
    /\ starts = 0

\* The proxy starts; the goroutine that sets the machine's server begins at once.
Start ==
    /\ main = "off"
    /\ starts < MaxStarts
    /\ starts' = starts + 1
    /\ main' = "wait"
    /\ loop' = "read"
    /\ UNCHANGED <<file, buffer, original, raced, rewrites>>

\* The network manager writes new servers.
Rewrite ==
    /\ rewrites < MaxRewrites
    /\ rewrites' = rewrites + 1
    /\ original' \in Contents
    /\ file' = original'
    /\ raced' = (Busy("loop") \/ Busy("main"))
    /\ UNCHANGED <<loop, main, buffer, starts>>
-----------------------------------------------------------------------------
(***************************************************************************)
(* ProcessResolvconf.  It reads the file; WriteFile truncates and writes.  *)
(***************************************************************************)
Other(w) == IF w = "loop" THEN "main" ELSE "loop"

Read(w, lines) ==
    /\ buffer' = [buffer EXCEPT ![w] = lines]
    /\ raced' = (raced \/ Busy(Other(w)))
    /\ UNCHANGED <<file, original, rewrites, starts>>

Truncate ==
    /\ file' = << >>
    /\ UNCHANGED <<buffer, original, raced, rewrites, starts>>

Garbage == [form |-> "garbage", value |-> 0]

\* Written over the lines of another write, shorter content leaves their tail.
Written(w) == IF file \in {<< >>, buffer[w]} THEN {buffer[w]}
              ELSE {buffer[w], Append(buffer[w], Garbage)}

Write(w) ==
    /\ file' \in Written(w)
    /\ buffer' = [buffer EXCEPT ![w] = << >>]
    /\ UNCHANGED <<original, raced, rewrites, starts>>

LoopRead ==
    /\ Running
    /\ loop = "read"
    /\ \E ip \in Ips : Read("loop", SetMachineDnsServer(file, ip))
    /\ loop' = "trunc"
    /\ UNCHANGED main

LoopTruncate ==
    /\ Running
    /\ loop = "trunc"
    /\ Truncate
    /\ loop' = "write"
    /\ UNCHANGED main

LoopWrite ==
    /\ Running
    /\ loop = "write"
    /\ Write("loop")
    /\ loop' = "sleep"
    /\ UNCHANGED main

\* time.Sleep(20 seconds)
LoopWake ==
    /\ Running
    /\ loop = "sleep"
    /\ loop' = "read"
    /\ UNCHANGED <<file, main, buffer, original, raced, rewrites, starts>>

\* The proxy's address is not found or the file cannot be opened:
\* exitcodes.Exit posts to the signal channel and waits for main to take it.
LoopFails ==
    /\ Running
    /\ loop = "read"
    /\ loop' = "post"
    /\ UNCHANGED <<file, main, buffer, original, raced, rewrites, starts>>

\* main receives a signal of the user or the one the loop posted.
Signal ==
    /\ main = "wait"
    /\ main' = "read"
    /\ \/ UNCHANGED loop
       \/ loop = "post" /\ loop' = "sleep"
    /\ UNCHANGED <<file, buffer, original, raced, rewrites, starts>>

MainRead ==
    /\ main = "read"
    /\ Read("main", RestoreToDefault(file))
    /\ main' = "trunc"
    /\ UNCHANGED loop

MainTruncate ==
    /\ main = "trunc"
    /\ Truncate
    /\ main' = "write"
    /\ UNCHANGED loop

\* Mutant of MainWrite: the break leaves the select and not the loop around it.
MainWriteAndWait ==
    /\ main = "write"
    /\ Write("main")
    /\ main' = "wait"
    /\ UNCHANGED loop

MainWrite ==
    /\ main = "write"
    /\ Write("main")
    /\ main' = "return"
    /\ UNCHANGED loop

\* The process ends and takes the goroutine with it wherever it is.
Gone ==
    /\ main' = "off"
    /\ loop' = "off"
    /\ buffer' = [w \in Writers |-> << >>]
    /\ UNCHANGED <<file, original, rewrites, starts>>

Exit ==
    /\ main = "return"
    /\ Gone
    /\ raced' = (raced \/ Unwritten("loop"))

\* The process is killed.
Kill ==
    /\ main \notin {"off", "return"}
    /\ Gone
    /\ raced' = (raced \/ Unwritten("loop") \/ Unwritten("main"))

LoopNext == LoopRead \/ LoopTruncate \/ LoopWrite \/ LoopWake \/ LoopFails
MainNext == MainRead \/ MainTruncate \/ MainWrite \/ Exit

Next == LoopNext \/ MainNext \/ Signal \/ Start \/ Rewrite \/ Kill

Spec == Init /\ [][Next]_vars

\* The goroutine and main are scheduled, and main takes what the loop posts.
FairSpec ==
    /\ Spec
    /\ WF_vars(LoopRead \/ LoopTruncate \/ LoopWrite \/ LoopWake)
    /\ WF_vars(MainNext)
    /\ WF_vars(Signal /\ loop = "post")
-----------------------------------------------------------------------------
(***************************************************************************)
(* Properties                                                              *)
(***************************************************************************)
\* The type of every variable.
TypeOK ==
    /\ file \in Seq(Line)
    /\ loop \in {"off", "read", "trunc", "write", "sleep", "post"}
    /\ main \in {"off", "wait", "read", "trunc", "write", "return"}
    /\ buffer \in [Writers -> Seq(Line)]
    /\ original \in Contents
    /\ raced \in BOOLEAN
    /\ rewrites \in 0..MaxRewrites
    /\ starts \in 0..MaxStarts

\* What the file holds, or will hold when the write under way is done.
Content ==
    CASE Unwritten("loop") -> buffer["loop"]
      [] Unwritten("main") -> buffer["main"]
      [] OTHER -> file

\* A server written with a tab, turned into a comment and never back.
IsTab(line) == line.form = "nameserverTab"
WithoutComment(line) ==
    IF line.form = "commentedTab" THEN [line EXCEPT !.form = "nameserverTab"] ELSE line
UpToTabs(lines) == [i \in 1..Len(lines) |-> WithoutComment(lines[i])]

\* However often the proxy sets and restores the file, starts and is killed,
\* a restore gives back the lines of the network manager, in their order and
\* with no line lost, unless a rewrite of one fell into the rewrite of another;
\* only servers written with a tab stay comments.
RoundTrip == ~raced => UpToTabs(RestoreToDefault(Content)) = original

\* The file never gets a second entry of the proxy: a resolver asks only the
\* first three servers, and each entry would be renewed for ever.
AtMostOneEntry ==
    \A lines \in {file, buffer["loop"], buffer["main"]} :
        \A i, j \in DOMAIN lines : IsProxy(lines[i]) /\ IsProxy(lines[j]) => i = j

\* The restore of an undisturbed shutdown writes exactly the lines the network
\* manager had written, provided that its servers are written with a space.
RestoreIsExact ==
    [][/\ main = "write" /\ main' = "return"
       /\ ~raced
       /\ \A i \in DOMAIN original : ~IsTab(original[i])
       => file' = original]_vars

\* After a shutdown the file is as the network manager wrote it.
ShutdownLeavesOriginal ==
    [][main = "return" /\ main' = "off" => file' = original]_vars

\* A running proxy becomes the machine's DNS server again after every rewrite
\* of the file, or shuts down.
ProxyBecomesServer == main = "wait" ~> HasProxy(file) \/ main # "wait"

\* A shutdown that has begun ends.
ShutdownEnds == main \notin {"off", "wait"} ~> main = "off"
===============================================================================
