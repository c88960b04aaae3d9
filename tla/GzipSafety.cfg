SPECIFICATION Spec
SYMMETRY Symmetry
CONSTANTS
    Requests = {r1, r2, r3}
    Accepting = {r1, r2}
    Headers <- SomeHeaders
    Writers = {w1, w2}
    NoWriter = NoWriter
    MaxWrites = 2
INVARIANTS
    ClientReadsWhatWasWritten
    CompressedAsAnnounced
    WritersAreKept
    IInv
