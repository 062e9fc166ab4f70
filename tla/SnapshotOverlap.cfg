\* Two snapshots of a running VM that overlap.
CONSTANTS
    s1 = s1
    s2 = s2
    n1 = n1
    root = root
    data = data
    NoName = NoName
    Snaps = {s1, s2}
    Names = {n1}
    Mounts = {root, data}
SPECIFICATION Spec
INVARIANTS RunningNeverTorn
CHECK_DEADLOCK FALSE
