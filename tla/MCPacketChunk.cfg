\* OB20 framing at both ends, payloads from maxOB20Chunk on.
CONSTANTS
    Framings = {"ob20"}
    MaxLen = 5
    HdrLen = 2
    FixLen = 1
    ExtraLens = {0, 1}
    Small = 3
    ZipHdrLen = 3
    ZLen = 2
    SeqMod = 3
    Lens <- ChunkLens
    MaxMsgs = 1
    Window = 2
SPECIFICATION Spec
INVARIANTS
    ReadsBackWhatWasWritten
\* The bound MaxMsgs ends every behaviour, and so does a failed write.
CHECK_DEADLOCK FALSE
