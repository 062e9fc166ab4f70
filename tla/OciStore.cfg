\* Two tasks, two references, two manifests, one built on the other's layer.
CONSTANTS
    t1 = t1
    t2 = t2
    r1 = r1
    r2 = r2
    d1 = d1
    d2 = d2
    base = base
    top = top
    None = None
    Tasks = {t1, t2}
    Refs = {r1, r2}
    Digests = {d1, d2}
    Layers = {base, top}
    LayersOf <- MCLayersOf
    Manifests <- MCManifests
    MaxRefCount = 2
SPECIFICATION Spec
SYMMETRY Symmetry
INVARIANTS SerialWhole SerialBlobsKept
