\* Two arrays of up to 75 elements that run out of memory at any growth.
SPECIFICATION Spec
CONSTANTS
    Arrays = {face_vertices, face_materials}
    UintModulus = 256
    IntModulus = 128
    PushLimit = 75
INVARIANTS
    WithinCapacity
    ConsecutiveToTheLast
    ParallelUnlessFailed
