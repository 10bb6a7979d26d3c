\* A run of the parser ends when the evidence is imported or an exception leaves it.
SPECIFICATION Spec
CHECK_DEADLOCK FALSE
CONSTANTS
    web = web
    dns = dns
    odd = odd
    MaxPackets = 2
    Keys <- MCKeys
    TcpKeys <- MCTcpKeys
    PortProtocol <- MCPortProtocol
    Files <- MCOrderedFiles
    ImportLimit = 2
INVARIANT
    ParseFailuresListed
