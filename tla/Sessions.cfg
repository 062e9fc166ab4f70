\* Two snapshots of a VM with one mount; one exec session over pipes and wires
\* that hold one frame; two sessions and one stray child for the reaper; one VM
\* created, started and stopped.
CONSTANTS
    NoName = NoName
    Snaps = {s1, s2}
    Names = {n1}
    Mounts = {root}
    PipeCap = 1
    WireCap = 1
    MaxStdin = 1
    OutCap = 1
    Kids = {k1, k2}
    Strays = {o1}
    Drain = Drain
    Nobody = Nobody
SPECIFICATION AllSpec
INVARIANTS
    FrozenTracked RowsAreWhole SerialNeverTorn
    JobEndsWithSession OutputBeforeExit
    FailedCreateLeavesNothing EnteredAsConfigured
PROPERTIES Thaws SessionEnds ExitDelivered OrphanEnds
CHECK_DEADLOCK FALSE
