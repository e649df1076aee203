\* The goroutine rewrites the file while main shuts down.
SPECIFICATION FairSpec
CONSTANTS
    s1 = s1
    s2 = s2
    search = search
    Servers = {s1, s2}
    Texts = {search}
    Ips = {i1, i2}
    Contents <- MCPlainContents
    MaxRewrites = 0
    MaxStarts = 1
CHECK_DEADLOCK FALSE
PROPERTY ShutdownLeavesOriginal
