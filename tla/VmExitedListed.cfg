\* A shim exits under a runtime that stays up and keeps listing; no idle
\* policy.
CONSTANTS
    v1 = v1
    v2 = v2
    p1 = p1
    p2 = p2
    p3 = p3
    a1 = a1
    a2 = a2
    NoPid = NoPid
    NoVm = NoVm
    Vms = {v1}
    Pids = {p1, p2}
    Actors = {a1, a2}
    AutoRemove = {}
    Detach = {v1}
    Jailed = {}
    AutoStop = {}
    AutoDelete = {v1}
    Sweepers = {}
    Exclusive = FALSE
SPECIFICATION LiveSpec
PROPERTIES ExitedIsListed
