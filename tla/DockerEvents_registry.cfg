\* Two containers of one service, five actions of the daemon.
SPECIFICATION FairSpec
CONSTANTS
    c1 = c1
    c2 = c2
    h1 = h1
    h2 = h2
    service = service
    Containers = {c1, c2}
    Hosts = {h1, h2, service}
    HostnamesOf <- MCServiceNames
    NoIp = NoIp
    None = None
    MaxActions = 5
CHECK_DEADLOCK FALSE
INVARIANT TypeOK
INVARIANT RegistryMatchesDaemon
INVARIANT StaleAddressHasEvent
 
PROPERTY EventsAreHandled
