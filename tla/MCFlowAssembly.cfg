\* A run of the parser ends when the evidence is imported or an exception leaves it.
SPECIFICATION Spec
CHECK_DEADLOCK FALSE
CONSTANTS
    web = web
    dns = dns
    odd = odd
    MaxPackets = 4
    Keys <- MCKeys
    TcpKeys <- MCTcpKeys
    PortProtocol <- MCPortProtocol
    Files <- MCFiles
    ImportLimit = 2
INVARIANTS
    TypeOK
    FlowsAreConversations
    IdentitiesDistinct
    ResponsesFollowRequests
    EvidenceTraceable
    FailuresIsolated
