\* Two transfers of a few chunks; three boots of a guest with one volume; two
\* commands on two VMs; three workers on two data directories that share a
\* socket path; two processes fetching a payload; two builders of a base disk;
\* chains of small clusters; two layers of three members; a filter whose jumps
\* are short; bodies of six bytes; one connection of a guest; a VM
\* with two mounts.
CONSTANTS
    Transfers = {t1, t2}
    MaxChunks = 3
    MaxUpload = 2
    MaxDownload = 1
    Old = Old
    MaxBoots = 3
    MaxVolumes = 1
    Commands = {c1, c2}
    Vms = {v1, v2}
    Workers = {w1, w2, w3}
    DataDirs = {d1, d2}
    Inodes = {1, 2, 3}
    Procs = {p1, p2}
    Attempts = 2
    MaxDamage = 1
    Builders = {b1, b2}
    MaxInodes = 2
    ClusterSize = 16
    MaxClusters = 5
    MaxLayers = 2
    MaxMembers = 3
    JumpSpan = 5
    MaxLen = 10
    MaxNr = 5
    SecretLists <- MCSecretLists
    Alphabet = {"<", "a", ">"}
    MaxBody = 6
    BufSize = 2
    MaxRead = 2
    Conns = {k1}
    HostNames <- MCHostNames
    AllowLists <- MCAllowLists
    SecretSets <- MCSecretSets
    NoList = NoList
    MaxInFlight = 1
    Spelling <- MCSpelling
    BindPaths <- MCBindPaths
    GuestPaths <- MCGuestPaths
    HostTree <- MCHostTree
    Denied <- MCDenied
    DataRoots <- MCDataRoots
    MaxMounts = 2
    NameLimit = 4
    TagLimit = 3
    Nobody = Nobody
SPECIFICATION MCSpec
INVARIANTS
    TransferWhole NoEscape BootedAsConfigured
    AttachedEnds SocketKept PayloadStays
    BaseWhole FlattenPreserves RefcountsExact LayerMeaning FilterVerdict
    StreamedAsWhole NetAsConfigured MountsAsRequested
CHECK_DEADLOCK FALSE
