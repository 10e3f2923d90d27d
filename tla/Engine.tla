------------------------------- MODULE Engine -------------------------------
(***************************************************************************)
(* The life of the engine's objects around the frame loop: main() loads     *)
(* objects, Initialize chooses an adapter, reads the geometry and compiles  *)
(* the shaders of each object and fills the buffers, Render draws them and  *)
(* its clean-up branch releases what was created. An object is known by its *)
(* model file, a vertex by the model and the position it comes from.        *)
(***************************************************************************)
EXTENDS Integers, Sequences, SequencesExt

CONSTANTS
    BufferCount,     \* _bufferCount
    Uint16Modulus,   \* 2^16
    Models,          \* model files
    MeshLimit,       \* bound of a run: the indices of a model
    ObjectLimit,     \* bound of a run: the objects loaded
    AdapterSlots,    \* 16, the size of the array adapter
    AdapterLimit,    \* bound of a run: the adapters of a machine
    MemoryLimit,     \* bound of a run: DedicatedVideoMemory
    Builds           \* "Debug" checks the asserts, "Release" does not

ASSUME CountAssumption ==
    /\ BufferCount \in Nat \ {0} /\ Uint16Modulus \in Nat \ {0}
    /\ MeshLimit \in Nat /\ ObjectLimit \in Nat
    /\ AdapterSlots \in Nat /\ AdapterLimit \in Nat /\ MemoryLimit \in Nat
ASSUME BuildsAssumption == Builds \subseteq {"Debug", "Release"}

VARIABLES
    pc,
    build,
    memory,              \* DedicatedVideoMemory of the adapters of this machine
    adapterCount, bestAdapter, bestDedicatedVMEM,
    device,              \* the adapter that _device is on
    indexCount,          \* of the geometry of each model
    objects,             \* _objects
    geometry,            \* _geometry
    bytecode,            \* references to the blobs of vsMeshBytecode and psMeshBytecode
    pipelines,           \* _graphicsPipelineStates
    vertexBuffer, indexBuffer,
    views,               \* _bufferDescriptorHeap
    frame,               \* what each draw of the last frame has fetched
    references,          \* to the COM objects
    toRelease            \* by the clean-up branch

adapterVars == <<memory, adapterCount, bestAdapter, bestDedicatedVMEM, device>>
sceneVars == <<objects, geometry, bytecode, pipelines>>
bufferVars == <<vertexBuffer, indexBuffer, views>>
comVars == <<references, toRelease>>
vars == <<pc, build, adapterVars, indexCount, sceneVars, bufferVars, frame, comVars>>

\* A local variable before its first assignment, and a pointer without object.
Garbage == -1

\* An object is known by its name and its index among those of the name.
One(name) == <<name, 0>>
All(names) == {One(name) : name \in names}

Stages == {"vertex", "pixel"}
Model(i) == geometry[i + 1]

Init ==
    /\ pc = "main"
    /\ build \in Builds
    /\ memory \in UNION {[1 .. n -> 0 .. MemoryLimit] : n \in 0 .. AdapterLimit}
    /\ adapterCount = 0 /\ bestAdapter = Garbage /\ bestDedicatedVMEM = 0
    /\ device = Garbage
    /\ indexCount \in [Models -> 0 .. MeshLimit]
    /\ objects = <<>> /\ geometry = <<>>
    /\ bytecode = [stage \in Stages |-> 0] /\ pipelines = <<>>
    /\ vertexBuffer = <<>> /\ indexBuffer = <<>> /\ views = <<>>
    /\ frame = <<>>
    /\ references = [o \in {One("compiler")} |-> 1] /\ toRelease = <<>>

-----------------------------------------------------------------------------
(* main(), and the adapters of InitDX.                                      *)

LoadObject(model) ==
    /\ pc = "main" /\ Len(objects) < ObjectLimit
    /\ objects' = Append(objects, model)
    /\ UNCHANGED <<pc, adapterVars, build, indexCount, geometry, bytecode, pipelines,
                   bufferVars, frame, comVars>>

\* InitWindow, without a window the end, and the first calls of InitDX.
Initialize ==
    /\ pc = "main"
    /\ pc' \in {"adapters", "broken"}
    /\ UNCHANGED <<adapterVars, build, indexCount, sceneVars, bufferVars, frame, comVars>>

\* Variant: the last of equal adapters wins, and one without memory counts.
BetterOrEqual(bytes) == bytes >= bestDedicatedVMEM

Better(bytes) == bytes > bestDedicatedVMEM

EnumAdapter ==
    /\ pc = "adapters" /\ adapterCount < Len(memory)
    /\ LET bytes == memory[adapterCount + 1]
       IN  IF Better(bytes)
           THEN bestDedicatedVMEM' = bytes /\ bestAdapter' = adapterCount
           ELSE UNCHANGED <<bestDedicatedVMEM, bestAdapter>>
    /\ adapterCount' = adapterCount + 1
    /\ UNCHANGED <<pc, memory, device, build, indexCount, sceneVars, bufferVars, frame, comVars>>

\* The COM objects that InitDX holds a reference to before it adds the objects.
DeviceObjects ==
    All({"debug", "factory", "device", "queue", "swapChain", "rtvHeap", "rootSignature"})
        \cup ({"backBuffer", "allocator", "fence"} \X (0 .. BufferCount - 1))

\* CreateSwapChainForHwnd: the swap chain keeps the queue.
Held(o) == IF o = One("queue") THEN 2 ELSE 1

Acquire(more) ==
    [o \in DOMAIN references \cup more |-> IF o \in more THEN Held(o) ELSE references[o]]

\* The local variables no longer hold what the loop has left in them: nothing
\* was stored in bestAdapter, or the loop has stored behind the array.
Undefined == bestAdapter = Garbage \/ adapterCount >= AdapterSlots

\* D3D12CreateDevice and the calls behind it; any may fail.
CreateDevice ==
    /\ pc = "adapters" /\ adapterCount = Len(memory)
    /\ \/ /\ device' \in IF Undefined THEN 0 .. adapterCount - 1 ELSE {bestAdapter}
          /\ references' = Acquire(DeviceObjects)
          /\ pc' = "geometry"
       \/ pc' = "broken" /\ UNCHANGED <<device, references>>
    /\ UNCHANGED <<memory, adapterCount, bestAdapter, bestDedicatedVMEM, build, indexCount,
                   sceneVars, bufferVars, frame, toRelease>>

-----------------------------------------------------------------------------
(* AddObject, for each of _objects.                                         *)

UINT16_MAX == Uint16Modulus - 1

\* Variant: no build checks the asserts.
NeverChecked(condition) == TRUE
AssertPasses(condition) == condition \/ build = "Release"

\* Without a mesh, or with one that an assert does not let through, the program
\* ends: what the loops make of a mesh is in the module Geometry.
LoadGeometry ==
    /\ pc = "geometry" /\ Len(geometry) < Len(objects)
    /\ LET model == objects[Len(geometry) + 1]
       IN  \/ /\ AssertPasses(indexCount[model] <= UINT16_MAX)
              /\ geometry' = Append(geometry, model)
              /\ pc' = "vertex"
           \/ pc' = "broken" /\ UNCHANGED geometry
    /\ UNCHANGED <<build, adapterVars, indexCount, objects, bytecode, pipelines, bufferVars,
                   frame, comVars>>

\* What the geometry_t of a model has besides its indexCount. outputVertex is a
\* uint16_t: when it starts over, the first vertices become the last stored.
vertexCount(model) == indexCount[model] % Uint16Modulus
vertices(model) ==
    [v \in 0 .. vertexCount(model) - 1 |-> <<model, indexCount[model] - vertexCount(model) + v>>]
indices(model) == [k \in 0 .. indexCount[model] - 1 |-> k % Uint16Modulus]

\* DxcResult::GetOutput queries the interface of the blob, and the release of
\* the result releases what its outputs hold.
GetOutput(n) == n + 1
ReleaseResult(n) == n - 1

\* A shader that does not compile ends the program, one that cannot be read breaks it.
LoadShader(stage, next) ==
    /\ pc = stage
    /\ \/ bytecode' = [bytecode EXCEPT ![stage] = ReleaseResult(GetOutput(1))] /\ pc' = next
       \/ pc' \in {"exited", "broken"} /\ UNCHANGED bytecode
    /\ UNCHANGED <<adapterVars, build, indexCount, objects, geometry, pipelines, bufferVars,
                   frame, comVars>>

\* The pipeline state is compiled from the memory of both blobs, which are not
\* released here nor anywhere else.
CreatePipelineState ==
    /\ pc = "pipeline"
    /\ \/ /\ pipelines' = Append(pipelines, Len(geometry))
          /\ references' = Acquire({<<"pipeline", Len(pipelines)>>})
          /\ pc' = "geometry"
       \/ pc' = "broken" /\ UNCHANGED <<pipelines, references>>
    /\ UNCHANGED <<adapterVars, build, indexCount, objects, geometry, bytecode, bufferVars,
                   frame, toRelease>>

AddObject ==
    \/ LoadGeometry
    \/ LoadShader("vertex", "pixel") \/ LoadShader("pixel", "pipeline")
    \/ CreatePipelineState

-----------------------------------------------------------------------------
(* The rest of InitDX.                                                      *)

\* A uint16_t.
geometryIndex == (Len(geometry) - 1) % Uint16Modulus

\* The model whose counts are the Width of the buffers.
SizingModel == Model(geometryIndex)

Unset == <<>>

\* A buffer of n elements that has `fill` in it, with data copied over its
\* beginning. A store behind the end is undefined: the program breaks, or goes on
\* with the buffer and has changed memory of others.
Copied(data, n, fill) ==
    [k \in 0 .. n - 1 |-> IF k \in DOMAIN data THEN data[k] ELSE fill]

\* Both buffers are sized by the geometry at geometryIndex and filled with the
\* first one. Without an object there is no geometry, and a resource of no bytes
\* is not created.
FillBuffers ==
    /\ pc = "geometry" /\ Len(geometry) = Len(objects)
    /\ \/ /\ geometryIndex < Len(geometry)
          /\ vertexCount(SizingModel) > 0 /\ indexCount[SizingModel] > 0
          /\ vertexBuffer' = Copied(vertices(Model(0)), vertexCount(SizingModel), Unset)
          /\ indexBuffer' = Copied(indices(Model(0)), indexCount[SizingModel], 0)
          /\ references' = Acquire(All({"vertexBuffer", "indexBuffer", "cameraBuffer"}))
          /\ pc' = "views"
       \/ pc' = "broken" /\ UNCHANGED <<vertexBuffer, indexBuffer, references>>
    /\ UNCHANGED <<build, adapterVars, indexCount, sceneVars, views, frame, toRelease>>

\* Variant: the camera first.
CameraFirst == <<"camera", "vertices">>
\* In the order of bufferNextDescriptorHandle.
NewViews == <<"vertices", "camera">>

CreateViews ==
    /\ pc = "views"
    /\ \/ /\ views' = NewViews
          /\ references' = Acquire(All({"bufferHeap", "commandList"}))
          /\ pc' = "frame"
       \/ pc' = "broken" /\ UNCHANGED <<views, references>>
    /\ UNCHANGED <<adapterVars, build, indexCount, sceneVars, vertexBuffer, indexBuffer, frame,
                   toRelease>>

-----------------------------------------------------------------------------
(* Render.                                                                  *)

\* descriptor_ranges of the root signature: the vertices, then the camera.
VertexRange == 1

\* What draw i fetches: for each of its indices the vertex there, through the
\* view at the place of the table that the root signature gives the vertices.
\* A read outside of a buffer returns nothing, and behind the NumElements of the
\* view nothing has been copied.
Fetch(i) ==
    [k \in 0 .. indexCount[Model(i)] - 1 |->
        IF /\ views[VertexRange] = "vertices"
           /\ k \in DOMAIN indexBuffer /\ indexBuffer[k] \in DOMAIN vertexBuffer
        THEN vertexBuffer[indexBuffer[k]]
        ELSE Unset]

\* Draw i runs with pipeline i.
DrawObjects ==
    /\ pc = "frame"
    /\ frame' = [i \in 0 .. Len(pipelines) - 1 |-> Fetch(i)]
    /\ UNCHANGED <<pc, adapterVars, build, indexCount, sceneVars, bufferVars, comVars>>

\* Variant: the swap chain first.
ReleaseSwapChainFirst == <<"swapChain", "rootSignature", "queue", "rtvHeap", "queue",
                           "device", "debug", "factory", "compiler">>
\* Variant: also the DXGI debug interface, whose creation is commented out.
ReleaseDxgiDebug == <<"rootSignature", "queue", "rtvHeap", "queue", "device", "debug",
                      "dxgiDebug", "factory", "swapChain", "compiler">>
\* The end of the clean-up branch.
ReleaseSingles == <<"rootSignature", "queue", "rtvHeap", "queue", "device", "debug",
                    "factory", "swapChain", "compiler">>

\* The Release calls of the clean-up branch, in their order.
ReleaseOrder ==
    <<One("wfiFence"), One("commandList")>>
        \o FlattenSeq([i \in 1 .. BufferCount |-> <<<<"fence", i - 1>>, <<"allocator", i - 1>>>>])
        \o [i \in 1 .. Len(pipelines) |-> <<"pipeline", i - 1>>]
        \o [i \in 1 .. Len(ReleaseSingles) |-> One(ReleaseSingles[i])]

BeginCleanUp ==
    /\ pc = "frame"
    /\ \/ /\ references' = Acquire({One("wfiFence")})
          /\ toRelease' = ReleaseOrder
          /\ pc' = "release"
       \/ pc' = "broken" /\ UNCHANGED comVars
    /\ UNCHANGED <<adapterVars, build, indexCount, sceneVars, bufferVars, frame>>

\* The last reference to the swap chain takes its reference to the queue along.
ReleaseNext ==
    /\ pc = "release" /\ toRelease # <<>>
    /\ LET o == Head(toRelease)
           last == o = One("swapChain") /\ references[o] = 1
           gone == {o} \cup (IF last THEN {One("queue")} ELSE {})
       IN  references' = [p \in DOMAIN references |->
                             IF p \in gone THEN references[p] - 1 ELSE references[p]]
    /\ toRelease' = Tail(toRelease)
    /\ UNCHANGED <<pc, adapterVars, build, indexCount, sceneVars, bufferVars, frame>>

Exit ==
    /\ pc = "release" /\ toRelease = <<>>
    /\ pc' = "exited"
    /\ UNCHANGED <<adapterVars, build, indexCount, sceneVars, bufferVars, frame, comVars>>

Ended == pc \in {"exited", "broken"} /\ UNCHANGED vars

Next ==
    \/ \E model \in Models : LoadObject(model)
    \/ Initialize \/ EnumAdapter \/ CreateDevice
    \/ AddObject
    \/ FillBuffers \/ CreateViews
    \/ DrawObjects
    \/ BeginCleanUp \/ ReleaseNext \/ Exit
    \/ Ended

Spec == Init /\ [][Next]_vars

-----------------------------------------------------------------------------
(* Properties.                                                             *)

Loaded == Len(pipelines)

\* A vertex is known by its model and its position in it.
Vertices == Models \X (0 .. MeshLimit - 1)

\* Every variable has its type. A buffer has as many elements as some model has
\* vertices or indices, each entry of a frame one per index of its model. A
\* reference count is between zero and what the object was created with; only
\* that of the queue, released twice, is one less than nothing when the swap
\* chain has released the queue as well.
TypeOK ==
    /\ pc \in {"main", "adapters", "geometry", "pipeline", "views", "frame", "release",
              "exited", "broken"} \cup Stages
    /\ build \in Builds
    /\ memory \in Seq(0 .. MemoryLimit)
    /\ adapterCount \in 0 .. Len(memory)
    /\ bestAdapter \in {Garbage} \cup 0 .. Len(memory) - 1
    /\ bestDedicatedVMEM \in 0 .. MemoryLimit
    /\ device \in {Garbage} \cup 0 .. Len(memory) - 1
    /\ indexCount \in [Models -> 0 .. MeshLimit]
    /\ objects \in Seq(Models) /\ geometry \in Seq(Models)
    /\ bytecode \in [Stages -> Nat]
    /\ pipelines \in Seq(Nat)
    /\ vertexBuffer \in UNION {[0 .. n - 1 -> Vertices \cup {Unset}] : n \in 0 .. UINT16_MAX}
    /\ indexBuffer \in UNION {[0 .. n - 1 -> 0 .. UINT16_MAX] : n \in 0 .. MeshLimit}
    /\ views \in Seq({"vertices", "camera"})
    /\ frame # <<>> => /\ DOMAIN frame = 0 .. Loaded - 1
                       /\ \A i \in DOMAIN frame :
                             frame[i] \in [0 .. indexCount[Model(i)] - 1 -> Vertices \cup {Unset}]
    /\ \A o \in DOMAIN references :
          references[o] \in (IF o = One("queue") THEN -1 ELSE 0) .. Held(o)
    /\ toRelease \in Seq(DOMAIN references)

\* The device is on the first of the adapters with the most dedicated memory,
\* in whatever order the factory lists them, as long as one of them has any and
\* they are fewer than the array has places.
Best(a) ==
    /\ \A b \in DOMAIN memory : memory[b] <= memory[a]
    /\ \A b \in 1 .. a - 1 : memory[b] < memory[a]
DeviceOnBestAdapter ==
    /\ device # Garbage
    /\ Len(memory) < AdapterSlots /\ \E a \in DOMAIN memory : memory[a] > 0
    => Best(device + 1)

\* What is used exists: the bytecode of both shaders while the pipeline state is
\* created from it, although LoadShader has released the result that it came
\* in; and every object that the clean-up branch releases, the graphics queue
\* also the second time, which is the swap chain's reference to it.
UsesLiveObjects ==
    /\ pc = "pipeline" => \A stage \in Stages : bytecode[stage] > 0
    /\ pc = "release" /\ toRelease # <<>> => references[Head(toRelease)] > 0

\* In a Debug build every index in the index buffer selects a vertex that was
\* copied into the vertex buffer, whatever models there are and whichever of them
\* the buffers are sized by, if only the first has an index at all: no draw shows
\* what was never written. A Release build lets a model through whose vertices
\* 16 bits do not count, and then the two buffers do not belong together.
IndicesSelectVertices ==
    pc = "frame" /\ build = "Debug" /\ indexCount[Model(0)] > 0 =>
        \A k \in DOMAIN indexBuffer :
            indexBuffer[k] \in DOMAIN vertexBuffer /\ vertexBuffer[indexBuffer[k]] # Unset

\* The first model fits: 16 bits count its vertices and the buffers have room.
Fits(model) ==
    /\ indexCount[model] <= UINT16_MAX
    /\ indexCount[model] <= indexCount[SizingModel] /\ vertexCount(model) <= vertexCount(SizingModel)

\* Each object is drawn once in a frame, and one with the first object's model
\* from the vertices of that model in their order, if they fit. With a single
\* object, as main() loads it, that is the whole scene.
DrawnAsLoaded ==
    frame # <<>> =>
        /\ DOMAIN frame = 0 .. Len(objects) - 1
        /\ \A i \in DOMAIN frame :
              objects[i + 1] = Head(objects) /\ Fits(Head(objects))
                  => frame[i] = [k \in 0 .. indexCount[objects[i + 1]] - 1 |-> <<objects[i + 1], k>>]
=============================================================================
