\* Up to four objects of two models, one more than geometryIndex can count, and
\* up to four indices in a model, two more than a Debug build lets through. Up to
\* three adapters for an array of three, of which the last place is never used.
SPECIFICATION Spec
CONSTANTS
    BufferCount = 3
    Uint16Modulus = 3
    Models = {m1, m2}
    MeshLimit = 4
    ObjectLimit = 4
    AdapterSlots = 3
    AdapterLimit = 3
    MemoryLimit = 2
    Builds = {"Debug", "Release"}
    m1 = m1
    m2 = m2
SYMMETRY ModelSymmetry
INVARIANTS
    TypeOK
    DeviceOnBestAdapter
    UsesLiveObjects
    IndicesSelectVertices
    DrawnAsLoaded
