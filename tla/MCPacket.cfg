\* Every framing, payloads around multiples of maxPayloadLen.
CONSTANTS
    Framings = {"plain", "zip", "ob20", "server"}
    MaxLen = 5
    HdrLen = 2
    FixLen = 1
    ExtraLens = {0, 1}
    Small = 3
    ZipHdrLen = 3
    ZLen = 2
    SeqMod = 3
    Lens <- MCLens
    MaxMsgs = 2
    Window = 2
SPECIFICATION Spec
INVARIANTS
    TypeOK
    FailsOnlyIfCut
    NothingKeptBack
PROPERTIES
    DeliversInOrder
\* The bound MaxMsgs ends every behaviour, and so does a failed write.
CHECK_DEADLOCK FALSE
