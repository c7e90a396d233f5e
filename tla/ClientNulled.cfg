SPECIFICATION MCSpec
CONSTANTS
    s1 = s1
    s2 = s2
    c1 = c1
    StreamIds <- MCStreamIds
    Clients <- MCOneClient
    MaxForks = 1
    p1 = p1
    Peers <- MCPeers
    Requests <- MCRequests
    MaxIds = 1
    MaxReports = 1
PROPERTIES
    ClientNulledBeforeReap
