\* Two tasks, two VMs, two shims; tasks on one VM do not overlap; the
\* runtime may crash, shut down and reopen at any point.
CONSTANTS
    v1 = v1
    v2 = v2
    p1 = p1
    p2 = p2
    p3 = p3
    a1 = a1
    a2 = a2
    NoPid = NoPid
    NoVm = NoVm
    Vms <- MCVms
    Pids = {p1, p2}
    Actors = {a1, a2}
    AutoRemove <- MCAutoRemove
    Detach <- MCDetach
    Jailed = {v1}
    AutoStop <- MCVms
    AutoDelete <- MCVms
    Sweepers = {a2}
    Exclusive = TRUE
SPECIFICATION Spec
SYMMETRY Symmetry
INVARIANTS NoStrayShim OneWriter Reachable
PROPERTIES StatusTransitions ImplementsContract
