\* Three addresses, every configuration, every capability offered or not.
CONSTANTS
    NAddr = 3
    MaxAuthRounds = 3
    NInit = 2
SPECIFICATION FairSpec
INVARIANTS
    TypeOK
    SocketsOwned
    EndsAgree
    SecretsEncrypted
    InitOnOneServer
PROPERTIES
    ConnectReturns
