\* Two starts, two rewrites by the network manager, two addresses of the proxy.
SPECIFICATION FairSpec
CONSTANTS
    s1 = s1
    s2 = s2
    search = search
    Servers = {s1, s2}
    Texts = {search}
    Ips = {i1, i2}
    Contents <- MCContents
    MaxRewrites = 2
    MaxStarts = 2
CHECK_DEADLOCK FALSE
INVARIANT TypeOK
 
INVARIANT AtMostOneEntry
PROPERTY RestoreIsExact
PROPERTY ProxyBecomesServer
PROPERTY ShutdownEnds
