---------------------------- MODULE EngineProofs ----------------------------
(* The choice of the adapter, for any number of adapters, the draws of a     *)
(* scene, for any number of objects and models of any size, and the releases *)
(* of the clean-up branch, for any number of buffers and objects.           *)
EXTENDS Engine, FlatArraysProofs

\* The loop over the adapters so far.
AdapterInv ==
    /\ memory \in Seq(Nat)
    /\ adapterCount \in 0 .. Len(memory)
    /\ bestDedicatedVMEM \in Nat
    /\ \A b \in 1 .. adapterCount : memory[b] <= bestDedicatedVMEM
    /\ IF bestAdapter = Garbage
       THEN bestDedicatedVMEM = 0
       ELSE /\ bestAdapter \in 0 .. adapterCount - 1
            /\ memory[bestAdapter + 1] = bestDedicatedVMEM
            /\ \A b \in 1 .. bestAdapter : memory[b] < bestDedicatedVMEM
    /\ DeviceOnBestAdapter

LEMMA AdapterInit == Init => AdapterInv
<1> SUFFICES ASSUME Init PROVE AdapterInv
  OBVIOUS
<1>1. PICK n \in 0 .. AdapterLimit : memory \in [1 .. n -> 0 .. MemoryLimit]
  BY DEF Init
<1>2. memory \in Seq(Nat)
  BY <1>1, CountAssumption
<1> QED
  BY <1>2 DEF Init, AdapterInv, DeviceOnBestAdapter, Garbage

LEMMA EnumAdapterStep == AdapterInv /\ EnumAdapter => AdapterInv'
<1> SUFFICES ASSUME AdapterInv, EnumAdapter PROVE AdapterInv'
  OBVIOUS
<1> DEFINE bytes == memory[adapterCount + 1]
<1>1. bytes \in Nat /\ adapterCount + 1 \in 1 .. Len(memory)
  BY DEF AdapterInv, EnumAdapter
<1>2. memory' = memory /\ adapterCount' = adapterCount + 1 /\ DeviceOnBestAdapter'
  BY DEF AdapterInv, EnumAdapter, DeviceOnBestAdapter, Best
<1>3. CASE bytes > bestDedicatedVMEM
  <2>1. bestDedicatedVMEM' = bytes /\ bestAdapter' = adapterCount
    BY <1>3 DEF EnumAdapter, Better
  <2>2. \A b \in 1 .. adapterCount' : memory'[b] <= bestDedicatedVMEM'
    BY <1>1, <1>2, <1>3, <2>1 DEF AdapterInv
  <2>3. \A b \in 1 .. bestAdapter' : memory'[b] < bestDedicatedVMEM'
    BY <1>1, <1>2, <1>3, <2>1 DEF AdapterInv
  <2> QED
    BY <1>1, <1>2, <2>1, <2>2, <2>3 DEF AdapterInv, Garbage
<1>4. CASE ~(bytes > bestDedicatedVMEM)
  <2>1. UNCHANGED <<bestDedicatedVMEM, bestAdapter>>
    BY <1>4 DEF EnumAdapter, Better
  <2>2. \A b \in 1 .. adapterCount' : memory'[b] <= bestDedicatedVMEM'
    BY <1>1, <1>2, <1>4, <2>1 DEF AdapterInv
  <2> QED
    BY <1>1, <1>2, <2>1, <2>2 DEF AdapterInv, Garbage
<1> QED
  BY <1>3, <1>4

\* When the loop has ended, the adapter it has kept is the best.
LEMMA CreateDeviceStep == AdapterInv /\ CreateDevice => AdapterInv'
<1> SUFFICES ASSUME AdapterInv, CreateDevice PROVE AdapterInv'
  OBVIOUS
<1>1. UNCHANGED <<memory, adapterCount, bestAdapter, bestDedicatedVMEM>> /\ adapterCount = Len(memory)
  BY DEF CreateDevice
<1>2. ASSUME device' # Garbage, Len(memory) < AdapterSlots, NEW a \in DOMAIN memory, memory[a] > 0
      PROVE  Best(device' + 1)
  <2>1. CASE device' = device
    BY <1>2, <2>1 DEF AdapterInv, DeviceOnBestAdapter
  <2>2. CASE device' # device
    <3>1. bestAdapter # Garbage
      <4>1. bestDedicatedVMEM > 0
        BY <1>1, <1>2 DEF AdapterInv
      <4> QED
        BY <4>1 DEF AdapterInv
    <3>2. ~Undefined
      BY <1>1, <1>2, <3>1, CountAssumption DEF Undefined, AdapterInv
    <3>3. device' = bestAdapter
      BY <2>2, <3>2 DEF CreateDevice
    <3> QED
      BY <1>1, <3>1, <3>3 DEF AdapterInv, Best
  <2> QED
    BY <2>1, <2>2
<1>3. DeviceOnBestAdapter'
  BY <1>1, <1>2 DEF DeviceOnBestAdapter, Best
<1> QED
  BY <1>1, <1>3 DEF AdapterInv

\* The other actions leave the adapters alone.
LEMMA AdapterStep == AdapterInv /\ [Next]_vars => AdapterInv'
<1> SUFFICES ASSUME AdapterInv, [Next]_vars PROVE AdapterInv'
  OBVIOUS
<1>1. CASE EnumAdapter
  BY <1>1, EnumAdapterStep
<1>2. CASE CreateDevice
  BY <1>2, CreateDeviceStep
<1>3. CASE UNCHANGED adapterVars
  BY <1>3 DEF adapterVars, AdapterInv, DeviceOnBestAdapter, Best
<1>4. EnumAdapter \/ CreateDevice \/ UNCHANGED adapterVars
  BY DEF Next, vars, LoadObject, Initialize, AddObject, LoadGeometry, LoadShader,
         CreatePipelineState, FillBuffers, CreateViews, DrawObjects, BeginCleanUp,
         ReleaseNext, Exit, Ended
<1> QED
  BY <1>1, <1>2, <1>3, <1>4

\* For any number of adapters, of any memory, in any order: the device is on the
\* first of those with the most dedicated memory, if there is one with any and
\* the array has places enough.
THEOREM DeviceTheorem == Spec => []DeviceOnBestAdapter
<1>1. AdapterInv => DeviceOnBestAdapter
  BY DEF AdapterInv
<1> QED
  BY <1>1, AdapterInit, AdapterStep, PTL DEF Spec

-----------------------------------------------------------------------------

Loading == Stages \cup {"pipeline"}
Loads == {"main", "adapters", "geometry"} \cup Loading
Drawing == {"views", "frame"}

\* The objects, their geometries and their pipelines grow side by side.
InStep ==
    /\ indexCount \in [Models -> Nat]
    /\ objects \in Seq(Models) /\ geometry \in Seq(Models) /\ pipelines \in Seq(Nat)
    /\ Len(geometry) <= Len(objects)
    /\ \A i \in 1 .. Len(geometry) : geometry[i] = objects[i]
    /\ pc \in {"main", "adapters"} => Len(geometry) = 0 /\ Len(pipelines) = 0
    /\ pc = "geometry" => Len(pipelines) = Len(geometry)
    /\ pc \in Loading => Len(pipelines) + 1 = Len(geometry)

\* What the assert has let through.
Asserted ==
    build = "Debug" => \A i \in 1 .. Len(geometry) : indexCount[geometry[i]] <= UINT16_MAX

\* Nothing is drawn before the buffers are filled, and they hold what fits of the
\* first geometry.
Filled ==
    /\ Len(pipelines) = Len(geometry) /\ Len(geometry) = Len(objects)
    /\ geometryIndex < Len(geometry)
    /\ vertexBuffer = Copied(vertices(Model(0)), vertexCount(SizingModel), Unset)
    /\ indexBuffer = Copied(indices(Model(0)), indexCount[SizingModel], 0)
BufferInv ==
    /\ pc \in Loads \cup {"views"} => frame = <<>>
    /\ pc \in Drawing => Filled
    /\ pc = "frame" => views = NewViews
    /\ DrawnAsLoaded

SceneInv == InStep /\ Asserted /\ BufferInv

LEMMA SceneInit == Init => SceneInv
<1> SUFFICES ASSUME Init PROVE SceneInv
  OBVIOUS
<1>1. InStep
  BY CountAssumption DEF Init, InStep, Loading, Stages
<1>2. Asserted
  BY DEF Init, Asserted
<1> QED
  BY <1>1, <1>2 DEF Init, SceneInv, BufferInv, Loads, Loading, Stages, Drawing, DrawnAsLoaded

\* The actions of AddObject, and LoadObject.
LEMMA LoadStep == SceneInv /\ (AddObject \/ \E model \in Models : LoadObject(model)) => SceneInv'
<1> SUFFICES ASSUME SceneInv, AddObject \/ \E model \in Models : LoadObject(model) PROVE SceneInv'
  OBVIOUS
<1>1. pc \in Loads /\ frame = <<>>
  BY DEF AddObject, LoadObject, LoadGeometry, LoadShader, CreatePipelineState, Loads, Loading,
         Stages, SceneInv, BufferInv
<1>2. UNCHANGED <<build, indexCount, frame>>
  BY DEF AddObject, LoadObject, LoadGeometry, LoadShader, CreatePipelineState
<1>3. pc' \in Loads \cup {"exited", "broken"}
  BY <1>1 DEF AddObject, LoadObject, LoadGeometry, LoadShader, CreatePipelineState, Loads, Loading, Stages
<1>4. BufferInv'
  BY <1>1, <1>2, <1>3 DEF BufferInv, DrawnAsLoaded, Loads, Loading, Stages, Drawing
<1>5. InStep'
  <2>1. CASE \E model \in Models : LoadObject(model)
    <3>1. PICK model \in Models : LoadObject(model)
      BY <2>1
    <3>2. objects' = Append(objects, model) /\ UNCHANGED <<pc, indexCount, geometry, pipelines>>
      BY <3>1 DEF LoadObject
    <3>3. objects' \in Seq(Models) /\ Len(objects') = Len(objects) + 1
          /\ \A i \in 1 .. Len(objects) : objects'[i] = objects[i]
      BY <3>2 DEF SceneInv, InStep
    <3> QED
      BY <3>2, <3>3 DEF SceneInv, InStep
  <2>2. CASE LoadGeometry
    <3> DEFINE n == Len(geometry) + 1
    <3>1. n \in 1 .. Len(objects) /\ objects[n] \in Models
      BY <2>2 DEF LoadGeometry, SceneInv, InStep
    <3>2. UNCHANGED <<indexCount, objects, pipelines>> /\ pc = "geometry"
      BY <2>2 DEF LoadGeometry
    <3>3. CASE geometry' = Append(geometry, objects[n]) /\ pc' = "vertex"
      <4>1. geometry' \in Seq(Models) /\ Len(geometry') = n
            /\ \A i \in 1 .. n : geometry'[i] = objects[i]
        BY <3>1, <3>3 DEF SceneInv, InStep
      <4> QED
        BY <3>1, <3>2, <3>3, <4>1 DEF SceneInv, InStep, Loading, Stages
    <3>4. CASE UNCHANGED geometry /\ pc' = "broken"
      BY <3>2, <3>4 DEF SceneInv, InStep, Loading, Stages
    <3> QED
      BY <2>2, <3>3, <3>4 DEF LoadGeometry
  <2>3. CASE LoadShader("vertex", "pixel") \/ LoadShader("pixel", "pipeline")
    BY <2>3 DEF LoadShader, SceneInv, InStep, Loading, Stages
  <2>4. CASE CreatePipelineState
    <3>1. UNCHANGED <<indexCount, objects, geometry>> /\ pc = "pipeline"
      BY <2>4 DEF CreatePipelineState
    <3>2. CASE pipelines' = Append(pipelines, Len(geometry)) /\ pc' = "geometry"
      <4>1. pipelines' \in Seq(Nat) /\ Len(pipelines') = Len(pipelines) + 1
        BY <3>2 DEF SceneInv, InStep
      <4> QED
        BY <3>1, <3>2, <4>1 DEF SceneInv, InStep, Loading, Stages
    <3>3. CASE UNCHANGED pipelines /\ pc' = "broken"
      BY <3>1, <3>3 DEF SceneInv, InStep, Loading, Stages
    <3> QED
      BY <2>4, <3>2, <3>3 DEF CreatePipelineState
  <2> QED
    BY <2>1, <2>2, <2>3, <2>4 DEF AddObject
<1>6. Asserted'
  <2>1. CASE UNCHANGED geometry
    BY <1>2, <2>1 DEF SceneInv, Asserted
  <2>2. CASE LoadGeometry
    <3> DEFINE model == objects[Len(geometry) + 1]
    <3>1. CASE UNCHANGED geometry
      BY <2>1, <3>1
    <3>2. CASE geometry' = Append(geometry, model) /\ AssertPasses(indexCount[model] <= UINT16_MAX)
      <4> HIDE DEF model
      <4> SUFFICES ASSUME build' = "Debug", NEW i \in 1 .. Len(geometry')
                   PROVE  indexCount'[geometry'[i]] <= UINT16_MAX
        BY DEF Asserted, UINT16_MAX
      <4>1. geometry \in Seq(Models) /\ indexCount' = indexCount /\ build = "Debug"
        BY <1>2 DEF SceneInv, InStep
      <4>2. CASE i \in 1 .. Len(geometry)
        BY <3>2, <4>1, <4>2 DEF SceneInv, Asserted
      <4>3. CASE i = Len(geometry) + 1
        BY <3>2, <4>1, <4>3 DEF AssertPasses
      <4> QED
        BY <3>2, <4>1, <4>2, <4>3
    <3> QED
      BY <2>2, <3>1, <3>2 DEF LoadGeometry
  <2> QED
    BY <2>1, <2>2 DEF AddObject, LoadObject, LoadShader, CreatePipelineState
<1> QED
  BY <1>4, <1>5, <1>6 DEF SceneInv

LEMMA FillStep == SceneInv /\ FillBuffers => SceneInv'
<1> SUFFICES ASSUME SceneInv, FillBuffers PROVE SceneInv'
  OBVIOUS
<1>1. UNCHANGED <<build, indexCount, objects, geometry, pipelines, frame>> /\ pc = "geometry"
      /\ pc' \in {"views", "broken"} /\ frame = <<>>
  BY DEF FillBuffers, sceneVars, SceneInv, BufferInv, Loads
<1>2. InStep' /\ Asserted'
  BY <1>1 DEF SceneInv, InStep, Asserted, UINT16_MAX, Loading, Stages
<1>3. pc' = "views" => Filled'
  <2>1. /\ Copied(vertices(Model(0)), vertexCount(SizingModel), Unset)'
             = Copied(vertices(Model(0)), vertexCount(SizingModel), Unset)
        /\ Copied(indices(Model(0)), indexCount[SizingModel], 0)'
             = Copied(indices(Model(0)), indexCount[SizingModel], 0)
        /\ geometryIndex' = geometryIndex
    BY <1>1 DEF Copied, vertices, indices, vertexCount, SizingModel, geometryIndex, Model, Unset
  <2> QED
    BY <1>1, <2>1 DEF FillBuffers, Filled, SceneInv, InStep
<1> QED
  BY <1>1, <1>2, <1>3 DEF SceneInv, BufferInv, DrawnAsLoaded, Drawing, Loads, Loading, Stages

LEMMA ModRange ==
    ASSUME NEW a \in Int
    PROVE  a % Uint16Modulus \in 0 .. UINT16_MAX
  BY CountAssumption DEF UINT16_MAX

\* What 16 bits make of a count.
LEMMA VertexCounts ==
    ASSUME NEW model, indexCount[model] \in Nat
    PROVE  /\ vertexCount(model) \in 0 .. UINT16_MAX /\ vertexCount(model) <= indexCount[model]
           /\ indexCount[model] <= UINT16_MAX => vertexCount(model) = indexCount[model]
<1> DEFINE n == indexCount[model]
<1>1. n \in Nat /\ vertexCount(model) = n % Uint16Modulus
  BY DEF vertexCount
<1> HIDE DEF n
<1>2. n < Uint16Modulus => n % Uint16Modulus = n
  BY <1>1, CountAssumption
<1>3. n % Uint16Modulus \in 0 .. UINT16_MAX
  BY <1>1, ModRange
<1> QED
  BY <1>1, <1>2, <1>3, CountAssumption DEF UINT16_MAX, n

\* The model that the buffers are sized by is one of those loaded.
LEMMA SizingLoaded ==
    ASSUME InStep, Filled
    PROVE  \E i \in 1 .. Len(geometry) : SizingModel = geometry[i]
<1>1. Len(geometry) - 1 \in Int /\ geometryIndex < Len(geometry)
  BY DEF Filled, InStep
<1>2. geometryIndex \in Nat
  BY <1>1, ModRange, CountAssumption DEF geometryIndex, UINT16_MAX
<1>3. geometryIndex + 1 \in 1 .. Len(geometry)
  BY <1>1, <1>2
<1> QED
  BY <1>3 DEF SizingModel, Model

\* With its own vertices in the buffers a draw fetches them in their order.
LEMMA FetchesOwn ==
    ASSUME InStep, Filled, views = NewViews, NEW i \in 0 .. Len(objects) - 1,
           objects[i + 1] = Head(objects), Fits(Head(objects))
    PROVE  Fetch(i) = [k \in 0 .. indexCount[objects[i + 1]] - 1 |-> <<objects[i + 1], k>>]
<1> DEFINE model == objects[i + 1]
           n == indexCount[model]
<1>1. Len(geometry) = Len(objects) /\ Len(objects) > 0 /\ i + 1 \in 1 .. Len(objects)
  BY DEF Filled, InStep
<1>2. Model(i) = model /\ Model(0) = model /\ Head(objects) = model
  BY <1>1 DEF InStep, Model
<1>3. n \in Nat /\ n <= UINT16_MAX /\ model \in Models
  BY <1>1, <1>2 DEF InStep, Fits
<1>4. vertexCount(model) = n
  BY <1>3, VertexCounts
<1>5. n <= indexCount[SizingModel] /\ n <= vertexCount(SizingModel)
  BY <1>2, <1>4 DEF Fits
<1>6. indexCount[SizingModel] \in Nat /\ vertexCount(SizingModel) \in Nat
  <2>1. indexCount[SizingModel] \in Nat
    BY SizingLoaded DEF InStep
  <2> QED
    BY <2>1, VertexCounts
<1>7. ASSUME NEW k \in 0 .. n - 1
      PROVE  /\ k \in DOMAIN indexBuffer /\ indexBuffer[k] = k
             /\ k \in DOMAIN vertexBuffer /\ vertexBuffer[k] = <<model, k>>
  <2>1. indices(model)[k] = k /\ k \in DOMAIN indices(model)
    <3>1. k % Uint16Modulus = k
      BY <1>3, CountAssumption DEF UINT16_MAX
    <3> QED
      BY <3>1 DEF indices
  <2>2. vertices(model)[k] = <<model, k>> /\ k \in DOMAIN vertices(model)
    <3>1. n - vertexCount(model) + k = k
      BY <1>3, <1>4
    <3> QED
      BY <1>4, <3>1 DEF vertices
  <2>3. k \in 0 .. indexCount[SizingModel] - 1 /\ k \in 0 .. vertexCount(SizingModel) - 1
    BY <1>3, <1>5, <1>6
  <2>4. k \in DOMAIN indexBuffer /\ indexBuffer[k] = indices(model)[k]
    BY <1>2, <2>1, <2>3 DEF Filled, Copied
  <2>5. k \in DOMAIN vertexBuffer /\ vertexBuffer[k] = vertices(model)[k]
    BY <1>2, <2>2, <2>3 DEF Filled, Copied
  <2> QED
    BY <2>1, <2>2, <2>4, <2>5
<1>8. views[VertexRange] = "vertices"
  BY DEF NewViews, VertexRange
<1> QED
  BY <1>2, <1>7, <1>8 DEF Fetch

\* What Filled and Fits are made of stays when what they depend on does.
LEMMA FilledKept ==
    ASSUME UNCHANGED <<indexCount, objects, geometry, pipelines, vertexBuffer, indexBuffer>>
    PROVE  Filled' = Filled /\ \A model : Fits(model)' = Fits(model)
<1>1. geometryIndex' = geometryIndex /\ SizingModel' = SizingModel /\ Model(0)' = Model(0)
  BY DEF geometryIndex, SizingModel, Model
<1>2. \A model : vertexCount(model)' = vertexCount(model)
  BY DEF vertexCount
<1>3. \A model : vertices(model)' = vertices(model) /\ indices(model)' = indices(model)
  BY <1>2 DEF vertices, indices
<1>4. \A model : Fits(model)' = Fits(model)
  BY <1>1, <1>2 DEF Fits, UINT16_MAX
<1>5. Filled' = Filled
  BY <1>1, <1>2, <1>3 DEF Filled, Copied, Unset
<1> QED
  BY <1>4, <1>5

LEMMA DrawStep == SceneInv /\ DrawObjects => SceneInv'
<1> SUFFICES ASSUME SceneInv, DrawObjects PROVE SceneInv'
  OBVIOUS
<1>1. UNCHANGED <<pc, build, indexCount, objects, geometry, pipelines, vertexBuffer, indexBuffer, views>>
      /\ pc = "frame" /\ frame' = [i \in 0 .. Len(pipelines) - 1 |-> Fetch(i)]
  BY DEF DrawObjects, sceneVars, bufferVars
<1>2. InStep /\ Filled /\ views = NewViews
  BY <1>1 DEF SceneInv, BufferInv, Drawing
<1>3. Filled' = Filled /\ \A model : Fits(model)' = Fits(model)
  BY <1>1, FilledKept
<1>4. InStep' /\ Asserted' /\ Filled' /\ views' = NewViews
  BY <1>1, <1>2, <1>3 DEF SceneInv, InStep, Asserted, UINT16_MAX
<1>5. Len(pipelines) = Len(objects) /\ Len(objects) > 0
  <2>1. Len(pipelines) = Len(geometry) /\ Len(geometry) = Len(objects) /\ Len(geometry) \in Nat
    BY <1>2 DEF Filled, InStep
  <2>2. PICK i \in 1 .. Len(geometry) : SizingModel = geometry[i]
    BY <1>2, SizingLoaded
  <2> QED
    BY <2>1, <2>2
<1>6. ASSUME NEW i \in DOMAIN frame', objects'[i + 1] = Head(objects'), Fits(Head(objects))'
      PROVE  frame'[i] = [k \in 0 .. indexCount'[objects'[i + 1]] - 1 |-> <<objects'[i + 1], k>>]
  <2>1. i \in 0 .. Len(objects) - 1 /\ frame'[i] = Fetch(i)
    BY <1>1, <1>5, <1>6
  <2>2. Fits(Head(objects))
    <3>1. PICK first : first = Head(objects)
      OBVIOUS
    <3>2. Head(objects)' = first
      BY <1>1, <3>1
    <3>3. Fits(first)'
      BY <1>6, <3>2 DEF Fits, vertexCount
    <3> QED
      BY <1>3, <3>1, <3>3
  <2>3. objects[i + 1] = Head(objects)
    BY <1>1, <1>6
  <2>4. Fetch(i) = [k \in 0 .. indexCount[objects[i + 1]] - 1 |-> <<objects[i + 1], k>>]
    BY <1>2, <2>1, <2>2, <2>3, FetchesOwn
  <2> QED
    BY <1>1, <2>1, <2>4
<1>7. DOMAIN frame' = 0 .. Len(objects') - 1
  BY <1>1, <1>5
<1>8. DrawnAsLoaded'
  BY <1>6, <1>7 DEF DrawnAsLoaded
<1> QED
  BY <1>1, <1>4, <1>8 DEF SceneInv, BufferInv, Loads, Loading, Stages, Drawing

\* The scene, when an action leaves it alone.
LEMMA SceneKept ==
    ASSUME SceneInv,
           UNCHANGED <<build, indexCount, objects, geometry, pipelines, vertexBuffer, indexBuffer, views,
                       frame>>,
           \/ pc' = pc
           \/ pc' \in {"release", "exited", "broken"}
           \/ pc = "main" /\ pc' = "adapters"
           \/ pc = "adapters" /\ pc' = "geometry"
    PROVE  SceneInv'
<1>1. InStep' /\ Asserted'
  BY DEF SceneInv, InStep, Asserted, UINT16_MAX, Loading, Stages
<1>2. Filled' = Filled /\ DrawnAsLoaded'
  <2>1. Filled' = Filled /\ Fits(Head(objects))' = Fits(Head(objects))
    BY FilledKept DEF Fits, UINT16_MAX, vertexCount, SizingModel, geometryIndex, Model
  <2> QED
    BY <2>1 DEF DrawnAsLoaded, SceneInv, BufferInv
<1> QED
  BY <1>1, <1>2 DEF SceneInv, BufferInv, Drawing, Loads, Loading, Stages, NewViews

LEMMA SceneStep == SceneInv /\ [Next]_vars => SceneInv'
<1> SUFFICES ASSUME SceneInv, [Next]_vars PROVE SceneInv'
  OBVIOUS
<1>1. CASE AddObject \/ \E model \in Models : LoadObject(model)
  BY <1>1, LoadStep
<1>2. CASE FillBuffers
  BY <1>2, FillStep
<1>3. CASE DrawObjects
  BY <1>3, DrawStep
<1>4. CASE CreateViews
  <2>1. UNCHANGED <<build, indexCount, objects, geometry, pipelines, vertexBuffer, indexBuffer, frame>>
        /\ pc = "views"
    BY <1>4 DEF CreateViews, sceneVars
  <2>2. frame = <<>> /\ ((pc' = "frame" /\ views' = NewViews) \/ pc' = "broken")
    BY <1>4, <2>1 DEF CreateViews, SceneInv, BufferInv
  <2>3. InStep' /\ Asserted'
    BY <2>1, <2>2 DEF SceneInv, InStep, Asserted, UINT16_MAX, Loading, Stages
  <2>4. Filled
    BY <2>1 DEF SceneInv, BufferInv, Drawing
  <2>5. Filled'
    BY <2>1, <2>4, FilledKept
  <2> QED
    BY <2>1, <2>2, <2>3, <2>5 DEF SceneInv, BufferInv, DrawnAsLoaded, NewViews
<1>5. CASE Initialize \/ EnumAdapter \/ CreateDevice
  <2>1. UNCHANGED <<build, indexCount, objects, geometry, pipelines, vertexBuffer, indexBuffer, views,
                    frame>>
    BY <1>5 DEF Initialize, EnumAdapter, CreateDevice, sceneVars, bufferVars
  <2>2. \/ pc' = pc
        \/ pc' \in {"release", "exited", "broken"}
        \/ pc = "main" /\ pc' = "adapters"
        \/ pc = "adapters" /\ pc' = "geometry"
    BY <1>5 DEF Initialize, EnumAdapter, CreateDevice
  <2> QED
    BY <2>1, <2>2, SceneKept
<1>6. CASE BeginCleanUp \/ ReleaseNext \/ Exit
  <2>1. UNCHANGED <<build, indexCount, objects, geometry, pipelines, vertexBuffer, indexBuffer, views,
                    frame>>
    BY <1>6 DEF BeginCleanUp, ReleaseNext, Exit, sceneVars, bufferVars
  <2>2. pc' = pc \/ pc' \in {"release", "exited", "broken"}
    BY <1>6 DEF BeginCleanUp, ReleaseNext, Exit
  <2> QED
    BY <2>1, <2>2, SceneKept
<1>7. CASE Ended \/ UNCHANGED vars
  <2>1. UNCHANGED <<build, indexCount, objects, geometry, pipelines, vertexBuffer, indexBuffer, views,
                    frame>>
        /\ pc' = pc
    BY <1>7 DEF Ended, vars, sceneVars, bufferVars
  <2> QED
    BY <2>1, SceneKept
<1> QED
  BY <1>1, <1>2, <1>3, <1>4, <1>5, <1>6, <1>7 DEF Next

\* For any number of objects, and models of any size, every object is drawn once.
\* If 16 bits count the vertices of the first object's model and they and its
\* indices fit into the buffers, which another model may have sized, the objects
\* with that model are drawn exactly as they were loaded.
THEOREM DrawnTheorem == Spec => []DrawnAsLoaded
<1>1. SceneInv => DrawnAsLoaded
  BY DEF SceneInv, BufferInv
<1> QED
  BY <1>1, SceneInit, SceneStep, PTL DEF Spec

\* What the two buffers have in common when 16 bits count both models.
LEMMA BuffersAgree ==
    ASSUME InStep, Asserted, Filled, build = "Debug", indexCount[Model(0)] > 0,
           NEW k \in DOMAIN indexBuffer
    PROVE  indexBuffer[k] \in DOMAIN vertexBuffer /\ vertexBuffer[indexBuffer[k]] # Unset
<1> DEFINE model == Model(0)
           n == indexCount[model]
           s == indexCount[SizingModel]
<1>1. s \in Nat /\ s <= UINT16_MAX
  BY SizingLoaded DEF InStep, Asserted
<1>2. Len(geometry) > 0 /\ model = geometry[1] /\ 1 \in 1 .. Len(geometry)
  <2>1. PICK i \in 1 .. Len(geometry) : SizingModel = geometry[i]
    BY SizingLoaded
  <2> QED
    BY <2>1 DEF Model, InStep
<1>3. n \in Nat /\ n <= UINT16_MAX /\ n > 0
  BY <1>2 DEF InStep, Asserted
<1>4. vertexCount(SizingModel) = s /\ vertexCount(model) = n
  BY <1>1, <1>3, VertexCounts
<1>5. /\ indexBuffer = Copied(indices(model), s, 0)
      /\ vertexBuffer = Copied(vertices(model), s, Unset)
  BY <1>4 DEF Filled
<1> HIDE DEF model, n, s
<1>6. DOMAIN indexBuffer = 0 .. s - 1 /\ DOMAIN vertexBuffer = 0 .. s - 1 /\ k \in 0 .. s - 1
  BY <1>5 DEF Copied
<1>7. indexBuffer[k] \in 0 .. n - 1 /\ indexBuffer[k] \in 0 .. s - 1
  <2>1. DOMAIN indices(model) = 0 .. n - 1 /\ \A m \in 0 .. n - 1 : indices(model)[m] = m % Uint16Modulus
    BY DEF indices, n
  <2>2. CASE k \in 0 .. n - 1
    <3>1. k % Uint16Modulus = k
      BY <1>3, <2>2, CountAssumption DEF UINT16_MAX
    <3>2. indexBuffer[k] = indices(model)[k]
      BY <1>5, <1>6, <2>1, <2>2 DEF Copied
    <3> QED
      BY <1>6, <2>1, <2>2, <3>1, <3>2
  <2>3. CASE k \notin 0 .. n - 1
    <3>1. indexBuffer[k] = 0
      BY <1>5, <1>6, <2>1, <2>3 DEF Copied
    <3> QED
      BY <1>1, <1>3, <1>6, <3>1
  <2> QED
    BY <2>2, <2>3
<1>8. vertexBuffer[indexBuffer[k]] # Unset
  <2>1. PICK v \in 0 .. n - 1 : v = indexBuffer[k]
    BY <1>7
  <2>2. v \in DOMAIN vertices(model) /\ vertices(model)[v] = <<model, n - n + v>>
    BY <1>4, <2>1 DEF vertices, n
  <2>3. vertexBuffer[v] = vertices(model)[v]
    BY <1>5, <1>7, <2>1, <2>2 DEF Copied
  <2> QED
    BY <2>1, <2>2, <2>3 DEF Unset
<1> QED
  BY <1>6, <1>7, <1>8

\* For any number of objects, and models of any size that a Debug build lets
\* through, whichever of them the buffers are sized by: no index selects a place
\* outside of the vertex buffer, or one that nothing was copied to.
THEOREM IndicesTheorem == Spec => []IndicesSelectVertices
<1>1. SceneInv => IndicesSelectVertices
  <2> SUFFICES ASSUME SceneInv, pc = "frame", build = "Debug", indexCount[Model(0)] > 0,
                      NEW k \in DOMAIN indexBuffer
               PROVE  indexBuffer[k] \in DOMAIN vertexBuffer /\ vertexBuffer[indexBuffer[k]] # Unset
    BY DEF IndicesSelectVertices
  <2>1. InStep /\ Asserted /\ Filled
    BY DEF SceneInv, BufferInv, Drawing
  <2> QED
    BY <2>1, BuffersAgree
<1> QED
  BY <1>1, SceneInit, SceneStep, PTL DEF Spec

-----------------------------------------------------------------------------
(* The releases of the clean-up branch.                                     *)

\* Different objects, all of the names in K.
Plain(p, K) ==
    /\ p = [k \in 1 .. Len(p) |-> p[k]] /\ Len(p) \in Nat
    /\ \A k \in 1 .. Len(p) : p[k][1] \in K
    /\ \A k, m \in 1 .. Len(p) : p[k] = p[m] => k = m

Names == {"wfiFence", "commandList", "fence", "allocator", "pipeline", "rootSignature",
          "queue", "rtvHeap", "device", "debug", "factory", "swapChain", "compiler"}

\* A sequence as the branch may release it: only the queue comes twice, never
\* again, and not behind the swap chain.
Releasable(r) ==
    /\ \A k, m \in 1 .. Len(r) : k < m /\ r[k] = r[m] => r[k] = One("queue")
    /\ \A k, m, n \in 1 .. Len(r) :
          k < m /\ m < n => ~(r[k] = One("queue") /\ r[m] = One("queue") /\ r[n] = One("queue"))
    /\ \A k, m \in 1 .. Len(r) : k < m /\ r[k] = One("swapChain") => r[m] # One("queue")

\* p and q one behind the other.
Joined(p, q, r) ==
    /\ Len(p) \in Nat /\ Len(q) \in Nat /\ Len(r) = Len(p) + Len(q)
    /\ r = [k \in 1 .. Len(r) |-> r[k]]
    /\ \A k \in 1 .. Len(r) : IF k <= Len(p) THEN r[k] = p[k]
                              ELSE k - Len(p) \in 1 .. Len(q) /\ r[k] = q[k - Len(p)]

LEMMA JoinedIs ==
    ASSUME NEW S, NEW p \in Seq(S), NEW q \in Seq(S) PROVE Joined(p, q, p \o q)
<1>1. PICK r : r = p \o q
  OBVIOUS
<1>2. /\ r \in Seq(S) /\ Len(r) = Len(p) + Len(q)
      /\ \A k \in 1 .. Len(p) : r[k] = p[k]
      /\ \A k \in 1 .. Len(q) : r[Len(p) + k] = q[k]
  BY <1>1, ConcatElements
<1>3. Len(p) \in Nat /\ Len(q) \in Nat
  OBVIOUS
<1>4. ASSUME NEW k \in 1 .. Len(r), ~(k <= Len(p))
      PROVE  k - Len(p) \in 1 .. Len(q) /\ r[k] = q[k - Len(p)]
  <2>1. k - Len(p) \in 1 .. Len(q) /\ Len(p) + (k - Len(p)) = k
    BY <1>2, <1>3, <1>4
  <2> QED
    BY <1>2, <2>1
<1>5. \A k \in 1 .. Len(r) : k <= Len(p) => r[k] = p[k]
  BY <1>2, <1>3
<1>6. r = [k \in 1 .. Len(r) |-> r[k]]
  BY <1>2
<1>7. Joined(p, q, r)
  BY <1>2, <1>3, <1>4, <1>5, <1>6 DEF Joined
<1> QED
  BY <1>1, <1>7

LEMMA PlainJoined ==
    ASSUME NEW p, NEW q, NEW r, NEW K, NEW L, Joined(p, q, r),
           Plain(p, K), Plain(q, L), K \cap L = {}
    PROVE  Plain(r, K \cup L)
<1>1. Len(p) \in Nat /\ Len(q) \in Nat /\ Len(r) = Len(p) + Len(q)
  BY DEF Joined
<1>2. ASSUME NEW k \in 1 .. Len(r)
      PROVE  \/ k \in 1 .. Len(p) /\ r[k] = p[k] /\ r[k][1] \in K
             \/ k - Len(p) \in 1 .. Len(q) /\ r[k] = q[k - Len(p)] /\ r[k][1] \in L
  BY <1>1 DEF Joined, Plain
<1>3. ASSUME NEW k \in 1 .. Len(r), NEW m \in 1 .. Len(r), r[k] = r[m] PROVE k = m
  <2>1. CASE k \in 1 .. Len(p) /\ r[k] = p[k] /\ r[k][1] \in K
    <3>1. ~(r[m][1] \in L)
      BY <1>3, <2>1
    <3>2. m \in 1 .. Len(p) /\ r[m] = p[m]
      BY <1>2, <3>1
    <3> QED
      BY <1>3, <2>1, <3>2 DEF Plain
  <2>2. CASE k - Len(p) \in 1 .. Len(q) /\ r[k] = q[k - Len(p)] /\ r[k][1] \in L
    <3>1. ~(r[m][1] \in K)
      BY <1>3, <2>2
    <3>2. m - Len(p) \in 1 .. Len(q) /\ r[m] = q[m - Len(p)]
      BY <1>2, <3>1
    <3>3. k - Len(p) = m - Len(p)
      <4>1. q[k - Len(p)] = q[m - Len(p)]
        BY <1>3, <2>2, <3>2
      <4>2. PICK a \in 1 .. Len(q), b \in 1 .. Len(q) : a = k - Len(p) /\ b = m - Len(p)
        BY <2>2, <3>2
      <4>3. q[a] = q[b]
        BY <4>1, <4>2
      <4> QED
        BY <4>2, <4>3 DEF Plain
    <3> QED
      BY <1>1, <3>3
  <2> QED
    BY <1>2, <2>1, <2>2
<1>4. \A k \in 1 .. Len(r) : r[k][1] \in K \cup L
  BY <1>2
<1>5. Len(r) \in Nat /\ r = [k \in 1 .. Len(r) |-> r[k]]
  BY <1>1 DEF Joined
<1> QED
  BY <1>3, <1>4, <1>5 DEF Plain

\* Objects of other names in front change nothing.
LEMMA ReleasableJoined ==
    ASSUME NEW p, NEW q, NEW r, NEW K, NEW L, Joined(p, q, r), K \cap L = {},
           Plain(p, K), "queue" \in L, "swapChain" \in L,
           Releasable(q), \A k \in 1 .. Len(q) : q[k][1] \in L
    PROVE  Releasable(r)
<1>1. Len(p) \in Nat /\ Len(q) \in Nat /\ Len(r) = Len(p) + Len(q)
  BY DEF Joined
<1>2. ASSUME NEW k \in 1 .. Len(r)
      PROVE  \/ k \in 1 .. Len(p) /\ r[k] = p[k] /\ r[k][1] \in K
             \/ k - Len(p) \in 1 .. Len(q) /\ r[k] = q[k - Len(p)] /\ r[k][1] \in L
  BY <1>1 DEF Joined, Plain
<1>3. One("queue")[1] \in L /\ One("swapChain")[1] \in L
  BY DEF One
<1>4. ASSUME NEW k \in 1 .. Len(r), r[k] = One("queue") \/ r[k] = One("swapChain")
      PROVE  k - Len(p) \in 1 .. Len(q) /\ r[k] = q[k - Len(p)]
  <2>1. ~(r[k][1] \in K)
    BY <1>3, <1>4
  <2> QED
    BY <1>2, <2>1
<1>5. ASSUME NEW k \in 1 .. Len(r), NEW m \in 1 .. Len(r), k < m, r[k] = r[m]
      PROVE  r[k] = One("queue")
  <2>1. CASE k \in 1 .. Len(p) /\ r[k] = p[k] /\ r[k][1] \in K
    <3>1. ~(r[m][1] \in L)
      BY <1>5, <2>1
    <3>2. m \in 1 .. Len(p) /\ r[m] = p[m]
      BY <1>2, <3>1
    <3>3. p[k] = p[m]
      BY <1>5, <2>1, <3>2
    <3>4. k = m
      BY <2>1, <3>2, <3>3 DEF Plain
    <3>5. k \in Int /\ m \in Int
      OBVIOUS
    <3> QED
      BY <1>5, <3>4, <3>5
  <2>2. CASE k - Len(p) \in 1 .. Len(q) /\ r[k] = q[k - Len(p)] /\ r[k][1] \in L
    <3>1. ~(r[m][1] \in K)
      BY <1>5, <2>2
    <3>2. m - Len(p) \in 1 .. Len(q) /\ r[m] = q[m - Len(p)]
      BY <1>2, <3>1
    <3>3. k - Len(p) < m - Len(p)
      BY <1>1, <1>5
    <3> QED
      BY <1>5, <2>2, <3>2, <3>3 DEF Releasable
  <2> QED
    BY <1>2, <2>1, <2>2
<1>6. ASSUME NEW k \in 1 .. Len(r), NEW m \in 1 .. Len(r), NEW n \in 1 .. Len(r), k < m, m < n
      PROVE  ~(r[k] = One("queue") /\ r[m] = One("queue") /\ r[n] = One("queue"))
  <2> SUFFICES ASSUME r[k] = One("queue"), r[m] = One("queue"), r[n] = One("queue") PROVE FALSE
    OBVIOUS
  <2>1. /\ k - Len(p) \in 1 .. Len(q) /\ r[k] = q[k - Len(p)]
        /\ m - Len(p) \in 1 .. Len(q) /\ r[m] = q[m - Len(p)]
        /\ n - Len(p) \in 1 .. Len(q) /\ r[n] = q[n - Len(p)]
    BY <1>4
  <2>2. k - Len(p) < m - Len(p) /\ m - Len(p) < n - Len(p)
    BY <1>1, <1>6
  <2> QED
    BY <2>1, <2>2 DEF Releasable
<1>7. ASSUME NEW k \in 1 .. Len(r), NEW m \in 1 .. Len(r), k < m, r[k] = One("swapChain")
      PROVE  r[m] # One("queue")
  <2> SUFFICES ASSUME r[m] = One("queue") PROVE FALSE
    OBVIOUS
  <2>1. /\ k - Len(p) \in 1 .. Len(q) /\ r[k] = q[k - Len(p)]
        /\ m - Len(p) \in 1 .. Len(q) /\ r[m] = q[m - Len(p)]
    BY <1>4, <1>7
  <2>2. k - Len(p) < m - Len(p)
    BY <1>1, <1>7
  <2> QED
    BY <1>7, <2>1, <2>2 DEF Releasable
<1> QED
  BY <1>5, <1>6, <1>7 DEF Releasable

\* The parts of ReleaseOrder.
Objects == Names \X Nat
Waiters == <<One("wfiFence"), One("commandList")>>
PairOf(i) == <<<<"fence", i - 1>>, <<"allocator", i - 1>>>>
OfBuffers == FlattenSeq([i \in 1 .. BufferCount |-> PairOf(i)])
OfObjects(n) == [i \in 1 .. n |-> <<"pipeline", i - 1>>]
Singles == [i \in 1 .. Len(ReleaseSingles) |-> One(ReleaseSingles[i])]

LEMMA OrderIs == ReleaseOrder = ((Waiters \o OfBuffers) \o OfObjects(Len(pipelines))) \o Singles
  BY DEF ReleaseOrder, Waiters, OfBuffers, PairOf, OfObjects, Singles

LEMMA WaitersPlain ==
    Waiters \in Seq(Objects) /\ Plain(Waiters, {"wfiFence", "commandList"})
      /\ \A k \in 1 .. Len(Waiters) : Waiters[k] \in All({"wfiFence", "commandList"})
<1>1. Waiters \in Seq(Objects)
  BY DEF Waiters, One, Objects, Names
<1>2. Len(Waiters) = 2 /\ Waiters[1] = One("wfiFence") /\ Waiters[2] = One("commandList")
      /\ Waiters = [k \in 1 .. Len(Waiters) |-> Waiters[k]]
  BY DEF Waiters
<1>3. Waiters[1] # Waiters[2]
  BY <1>2 DEF One
<1>4. \A k \in 1 .. Len(Waiters) : k = 1 \/ k = 2
  BY <1>2
<1>5. \A k \in 1 .. Len(Waiters) : Waiters[k][1] \in {"wfiFence", "commandList"}
  BY <1>2, <1>4 DEF One
<1>6. \A k, m \in 1 .. Len(Waiters) : Waiters[k] = Waiters[m] => k = m
  BY <1>3, <1>4
<1>7. \A k \in 1 .. Len(Waiters) : Waiters[k] \in All({"wfiFence", "commandList"})
  BY <1>2, <1>4 DEF All
<1> QED
  BY <1>1, <1>2, <1>5, <1>6, <1>7 DEF Plain

LEMMA PipelinesPlain ==
    ASSUME NEW n \in Nat
    PROVE  /\ OfObjects(n) \in Seq(Objects) /\ Len(OfObjects(n)) = n
           /\ Plain(OfObjects(n), {"pipeline"})
           /\ \A k \in 1 .. n : OfObjects(n)[k] = <<"pipeline", k - 1>>
<1>1. \A k \in 1 .. n : <<"pipeline", k - 1>> \in Objects
  BY DEF Objects, Names
<1>2. /\ OfObjects(n) \in Seq(Objects) /\ Len(OfObjects(n)) = n
      /\ OfObjects(n) = [k \in 1 .. Len(OfObjects(n)) |-> OfObjects(n)[k]]
  BY <1>1 DEF OfObjects
<1>3. \A k \in 1 .. n : OfObjects(n)[k] = <<"pipeline", k - 1>>
  BY DEF OfObjects
<1>4. \A k \in 1 .. n : OfObjects(n)[k][1] = "pipeline" /\ OfObjects(n)[k][2] = k - 1
  BY <1>3
<1>5. ASSUME NEW k \in 1 .. n, NEW m \in 1 .. n, OfObjects(n)[k] = OfObjects(n)[m]
      PROVE  k = m
  <2>1. k - 1 = m - 1
    BY <1>4, <1>5
  <2> QED
    BY <2>1
<1> QED
  BY <1>2, <1>3, <1>4, <1>5 DEF Plain

\* Two objects for each buffer.
LEMMA BuffersPlain ==
    /\ OfBuffers \in Seq(Objects)
    /\ Plain(OfBuffers, {"fence", "allocator"})
    /\ \A k \in 1 .. Len(OfBuffers) :
          OfBuffers[k] \in {"fence", "allocator"} \X (0 .. BufferCount - 1)
<1> DEFINE n == BufferCount
           seqs == [i \in 1 .. n |-> PairOf(i)]
           lens == [i \in 1 .. n |-> 2]
           b == OfBuffers
<1>1. n \in Nat
  BY CountAssumption
<1>2. \A i \in 1 .. n : /\ PairOf(i) \in Seq(Objects) /\ Len(PairOf(i)) = 2
                        /\ PairOf(i)[1] = <<"fence", i - 1>> /\ PairOf(i)[2] = <<"allocator", i - 1>>
  BY <1>1 DEF PairOf, Objects, Names
<1>3. b = FlattenSeq(seqs)
  BY DEF OfBuffers
<1> HIDE DEF n, b
<1>4. /\ seqs \in Seq(Seq(Objects)) /\ Len(seqs) = n
      /\ \A i \in 1 .. n : seqs[i] = PairOf(i) /\ Len(seqs[i]) = 2
  BY <1>1, <1>2
<1>5. lens \in Seq(Nat) /\ Len(lens) = n /\ \A i \in 1 .. n : lens[i] = 2
  BY <1>1
<1> HIDE DEF seqs, lens
<1>6. /\ b \in Seq(Objects) /\ Len(b) = Sums(lens)[n]
      /\ \A i \in 1 .. n : \A c \in 1 .. 2 : b[Sums(lens)[i - 1] + c] = PairOf(i)[c]
  <2>1. Lengths(lens, seqs)
    BY <1>4, <1>5 DEF Lengths
  <2>2. seqs \in Seq(Seq(Objects))
    BY <1>4
  <2>3. /\ FlattenSeq(seqs) \in Seq(Objects)
        /\ Len(FlattenSeq(seqs)) = Sums(lens)[Len(seqs)]
        /\ \A i \in 1 .. Len(seqs) : \A c \in 1 .. Len(seqs[i]) :
              FlattenSeq(seqs)[Sums(lens)[i - 1] + c] = seqs[i][c]
    BY <2>1, <2>2, FlattenLengths
  <2> QED
    BY <1>3, <1>4, <2>3
<1>7. \A i \in 0 .. n : Sums(lens)[i] = 2 * i
  <2>1. PICK c \in Nat : c = 2
    OBVIOUS
  <2>2. Constantly(lens, c)
    BY <1>5, <2>1 DEF Constantly
  <2>3. \A i \in 0 .. Len(lens) : Sums(lens)[i] = c * i
    BY <1>5, <2>2, SumsConstant
  <2> QED
    BY <1>5, <2>1, <2>3
<1>8. Len(b) = 2 * n
  <2>1. n \in 0 .. n
    BY <1>1
  <2> QED
    BY <1>6, <1>7, <2>1
<1>9. ASSUME NEW i \in 1 .. n
      PROVE  b[2 * i - 1] = <<"fence", i - 1>> /\ b[2 * i] = <<"allocator", i - 1>>
  <2>1. i - 1 \in 0 .. n
    BY <1>1
  <2>2. Sums(lens)[i - 1] = 2 * (i - 1)
    BY <1>7, <2>1
  <2>3. b[2 * (i - 1) + 1] = PairOf(i)[1] /\ b[2 * (i - 1) + 2] = PairOf(i)[2]
    BY <1>6, <2>2
  <2>4. 2 * (i - 1) + 1 = 2 * i - 1 /\ 2 * (i - 1) + 2 = 2 * i
    OBVIOUS
  <2> QED
    BY <1>2, <2>3, <2>4
<1>10. ASSUME NEW k \in 1 .. Len(b)
       PROVE  \E i \in 1 .. n : k = 2 * i - 1 \/ k = 2 * i
  <2>1. k \in 1 .. 2 * n
    BY <1>8
  <2>2. PICK i \in Int : k = 2 * i - 1 \/ k = 2 * i
    <3>1. k \in Int /\ ((k + 1) \div 2) \in Int
          /\ (k = 2 * ((k + 1) \div 2) - 1 \/ k = 2 * ((k + 1) \div 2))
      BY <2>1
    <3> QED
      BY <3>1
  <2>3. i \in 1 .. n
    BY <1>1, <2>1, <2>2
  <2> QED
    BY <2>2, <2>3
<1>11. ASSUME NEW k \in 1 .. Len(b)
       PROVE  /\ b[k] \in {"fence", "allocator"} \X (0 .. n - 1)
              /\ b[k][1] = "fence" => k = 2 * b[k][2] + 1
              /\ b[k][1] = "allocator" => k = 2 * b[k][2] + 2
  <2>1. PICK i \in 1 .. n : k = 2 * i - 1 \/ k = 2 * i
    BY <1>10
  <2>2. i - 1 \in 0 .. n - 1 /\ "fence" # "allocator"
    BY <1>1
  <2>3. CASE k = 2 * i - 1
    <3>1. b[k] = <<"fence", i - 1>> /\ k = 2 * (i - 1) + 1
      BY <1>9, <2>3
    <3> QED
      BY <2>2, <3>1
  <2>4. CASE k = 2 * i
    <3>1. b[k] = <<"allocator", i - 1>> /\ k = 2 * (i - 1) + 2
      BY <1>9, <2>4
    <3> QED
      BY <2>2, <3>1
  <2> QED
    BY <2>1, <2>3, <2>4
<1>12. ASSUME NEW k \in 1 .. Len(b), NEW m \in 1 .. Len(b), b[k] = b[m] PROVE k = m
  <2>1. b[k][1] = "fence" \/ b[k][1] = "allocator"
    BY <1>11
  <2>2. b[k][1] = b[m][1] /\ b[k][2] = b[m][2]
    BY <1>12
  <2> QED
    BY <1>11, <2>1, <2>2
<1>13. \A k \in 1 .. Len(b) : b[k][1] \in {"fence", "allocator"}
  BY <1>11
<1>14. Len(b) \in Nat /\ b = [k \in 1 .. Len(b) |-> b[k]]
  BY <1>6
<1>15. Plain(b, {"fence", "allocator"})
  BY <1>12, <1>13, <1>14 DEF Plain
<1> QED
  BY <1>6, <1>11, <1>15 DEF b, n

\* The names at the end of the branch.
SingleNames == {"rootSignature", "queue", "rtvHeap", "device", "debug", "factory", "swapChain",
                "compiler"}

\* A name has one place among the nine, the queue the second and the fourth.
LEMMA NamesInOrder ==
    /\ Len(ReleaseSingles) = 9
    /\ \A k \in 1 .. 9 : ReleaseSingles[k] \in SingleNames
    /\ \A k \in 1 .. 9 : ReleaseSingles[k] = "queue" => k = 2 \/ k = 4
    /\ \A k \in 1 .. 9 : ReleaseSingles[k] = "swapChain" => k = 8
    /\ \A k, m \in 1 .. 9 : k < m /\ ReleaseSingles[k] = ReleaseSingles[m] => ReleaseSingles[k] = "queue"
<1> DEFINE r == ReleaseSingles
<1>1. /\ Len(r) = 9
      /\ r[1] = "rootSignature" /\ r[2] = "queue" /\ r[3] = "rtvHeap" /\ r[4] = "queue"
      /\ r[5] = "device" /\ r[6] = "debug" /\ r[7] = "factory" /\ r[8] = "swapChain"
      /\ r[9] = "compiler"
  BY DEF ReleaseSingles
<1> HIDE DEF r
<1>2. \A k \in 1 .. 9 : k = 1 \/ k = 2 \/ k = 3 \/ k = 4 \/ k = 5 \/ k = 6 \/ k = 7 \/ k = 8 \/ k = 9
  OBVIOUS
<1>3. \A k \in 1 .. 9 : r[k] \in SingleNames
  BY <1>1, <1>2 DEF SingleNames
<1>4. \A k \in 1 .. 9 : r[k] = "queue" => k = 2 \/ k = 4
  BY <1>1, <1>2
<1>5. \A k \in 1 .. 9 : r[k] = "swapChain" => k = 8
  BY <1>1, <1>2
<1>6. \A k, m \in 1 .. 9 : k < m /\ r[k] = r[m] => r[k] = "queue"
  BY <1>1, <1>2
<1> QED
  BY <1>1, <1>3, <1>4, <1>5, <1>6 DEF r

LEMMA SinglesReleasable ==
    /\ Singles \in Seq(Objects) /\ Releasable(Singles)
    /\ \A k \in 1 .. Len(Singles) : Singles[k][1] \in SingleNames /\ Singles[k] \in All(SingleNames)
<1> DEFINE s == Singles
           r == ReleaseSingles
<1>1. Len(s) = 9 /\ \A k \in 1 .. 9 : s[k] = One(r[k]) /\ s[k][1] = r[k]
  BY NamesInOrder DEF Singles, One
<1>2. s \in Seq(Objects)
  <2>1. \A k \in 1 .. 9 : One(r[k]) \in Objects
    BY NamesInOrder DEF One, Objects, Names, SingleNames
  <2> QED
    BY <2>1, NamesInOrder DEF Singles
<1> HIDE DEF s, r
<1>3. \A k \in 1 .. 9 : s[k][1] \in SingleNames /\ s[k] \in All(SingleNames)
  BY <1>1, NamesInOrder DEF All, r
<1>4. \A k \in 1 .. 9 : s[k] = One("queue") => r[k] = "queue"
  BY <1>1 DEF One
<1>5. \A k \in 1 .. 9 : s[k] = One("swapChain") => r[k] = "swapChain"
  BY <1>1 DEF One
<1>6. \A k, m \in 1 .. 9 : k < m /\ s[k] = s[m] => s[k] = One("queue")
  <2>1. \A k, m \in 1 .. 9 : s[k] = s[m] => r[k] = r[m]
    BY <1>1
  <2> QED
    BY <1>1, <2>1, NamesInOrder DEF r
<1>7. \A k \in 1 .. 9 : s[k] = One("queue") => k = 2 \/ k = 4
  BY <1>4, NamesInOrder DEF r
<1>8. \A k \in 1 .. 9 : s[k] = One("swapChain") => k = 8
  BY <1>5, NamesInOrder DEF r
<1>9. Releasable(s)
  BY <1>1, <1>6, <1>7, <1>8 DEF Releasable
<1> QED
  BY <1>1, <1>2, <1>3, <1>9 DEF s

\* The branch, for any number of buffers and of objects: it releases nothing but
\* what it may, in an order it may.
Released(n) ==
    All({"wfiFence", "commandList"}) \cup ({"fence", "allocator"} \X (0 .. BufferCount - 1))
        \cup {<<"pipeline", i - 1>> : i \in 1 .. n} \cup All(SingleNames)

LEMMA OrderReleasable ==
    ASSUME pipelines \in Seq(Nat)
    PROVE  /\ ReleaseOrder \in Seq(Released(Len(pipelines)))
           /\ Releasable(ReleaseOrder)
<1> DEFINE n == Len(pipelines)
           w == Waiters
           b == OfBuffers
           p == OfObjects(n)
           s == Singles
           K1 == {"wfiFence", "commandList"}
           K2 == {"fence", "allocator"}
           K3 == {"pipeline"}
<1>1. n \in Nat
  OBVIOUS
<1>2. w \in Seq(Objects) /\ b \in Seq(Objects) /\ p \in Seq(Objects) /\ s \in Seq(Objects)
      /\ Len(p) = n
  BY <1>1, WaitersPlain, BuffersPlain, PipelinesPlain, SinglesReleasable
<1>3. Plain(w, K1) /\ Plain(b, K2) /\ Plain(p, K3)
  BY <1>1, WaitersPlain, BuffersPlain, PipelinesPlain
<1>4. /\ \A k \in 1 .. Len(w) : w[k] \in Released(n)
      /\ \A k \in 1 .. Len(b) : b[k] \in Released(n)
      /\ \A k \in 1 .. Len(p) : p[k] \in Released(n)
      /\ \A k \in 1 .. Len(s) : s[k] \in Released(n)
  <2>1. \A k \in 1 .. Len(w) : w[k] \in Released(n)
    BY WaitersPlain DEF Released
  <2>2. \A k \in 1 .. Len(b) : b[k] \in Released(n)
    BY BuffersPlain DEF Released
  <2>3. ASSUME NEW k \in 1 .. Len(p) PROVE p[k] \in Released(n)
    <3>1. k \in 1 .. n /\ p[k] = <<"pipeline", k - 1>>
      BY <1>1, <1>2, PipelinesPlain
    <3>2. <<"pipeline", k - 1>> \in {<<"pipeline", i - 1>> : i \in 1 .. n}
      BY <3>1
    <3> QED
      BY <3>1, <3>2 DEF Released
  <2>4. \A k \in 1 .. Len(s) : s[k] \in Released(n)
    BY SinglesReleasable DEF Released
  <2> QED
    BY <2>1, <2>2, <2>3, <2>4
<1>5. Releasable(s) /\ \A k \in 1 .. Len(s) : s[k][1] \in SingleNames
  BY SinglesReleasable
<1>6. ReleaseOrder = ((w \o b) \o p) \o s
  BY OrderIs
<1> HIDE DEF w, b, p, s, n
<1>7. PICK wb : wb = w \o b
  OBVIOUS
<1>8. wb \in Seq(Objects) /\ Joined(w, b, wb)
  BY <1>2, <1>7, JoinedIs
<1>9. PICK wbp : wbp = wb \o p
  OBVIOUS
<1>10. wbp \in Seq(Objects) /\ Joined(wb, p, wbp)
  BY <1>2, <1>8, <1>9, JoinedIs
<1>11. PICK all : all = wbp \o s
  OBVIOUS
<1>12. all \in Seq(Objects) /\ Joined(wbp, s, all)
  BY <1>2, <1>10, <1>11, JoinedIs
<1>13. Plain(wb, K1 \cup K2)
  <2>1. K1 \cap K2 = {}
    OBVIOUS
  <2> HIDE DEF K1, K2
  <2> QED
    BY <1>3, <1>8, <2>1, PlainJoined
<1>14. Plain(wbp, (K1 \cup K2) \cup K3)
  <2>1. (K1 \cup K2) \cap K3 = {}
    OBVIOUS
  <2> HIDE DEF K1, K2, K3
  <2> QED
    BY <1>3, <1>10, <1>13, <2>1, PlainJoined
<1>15. Releasable(all)
  <2>1. ((K1 \cup K2) \cup K3) \cap SingleNames = {} /\ "queue" \in SingleNames
        /\ "swapChain" \in SingleNames
    BY DEF SingleNames
  <2> HIDE DEF K1, K2, K3
  <2> QED
    BY <1>5, <1>12, <1>14, <2>1, ReleasableJoined
<1>16. \A k \in 1 .. Len(wb) : wb[k] \in Released(n)
  BY <1>4, <1>8 DEF Joined
<1>17. \A k \in 1 .. Len(wbp) : wbp[k] \in Released(n)
  BY <1>4, <1>10, <1>16 DEF Joined
<1>18. \A k \in 1 .. Len(all) : all[k] \in Released(n)
  BY <1>4, <1>12, <1>17 DEF Joined
<1>19. all \in Seq(Released(n))
  BY <1>12, <1>18
<1>20. ReleaseOrder = all
  BY <1>6, <1>7, <1>9, <1>11
<1> QED
  BY <1>15, <1>19, <1>20 DEF n

\* While the scene is loaded and drawn: the blobs are held that the pipeline
\* states are made from, and each of the objects the branch will release has the
\* references that it was created with.
Compiled ==
    /\ bytecode \in [Stages -> Nat]
    /\ pc = "pixel" => bytecode["vertex"] > 0
    /\ pc = "pipeline" => \A stage \in Stages : bytecode[stage] > 0

Pipelines(n) == {<<"pipeline", i - 1>> : i \in 1 .. n}
Needed ==
    All({"compiler"}) \cup Pipelines(Len(pipelines))
        \cup (IF pc \in {"main", "adapters"} THEN {} ELSE DeviceObjects)
        \cup (IF pc = "frame" THEN All({"commandList"}) ELSE {})
Holding ==
    pc \in Loads \cup Drawing =>
        /\ toRelease = <<>>
        /\ Needed \subseteq DOMAIN references
        /\ \A o \in DOMAIN references : references[o] = Held(o)

\* While the branch releases: whatever is left to release is held.
Left(r, held) ==
    /\ r \in Seq(DOMAIN held) /\ Releasable(r)
    /\ \A k \in 1 .. Len(r) : r[k] # One("queue") => held[r[k]] = 1
    /\ \A k \in 1 .. Len(r) : r[k] = One("queue") => held[r[k]] > 0
    /\ \A k, m \in 1 .. Len(r) : k < m /\ r[k] = One("queue") /\ r[m] = One("queue") => held[r[k]] > 1

ReferenceInv ==
    /\ Compiled /\ Holding
    /\ \A o \in DOMAIN references : references[o] \in Int
    /\ toRelease \in Seq(DOMAIN references)
    /\ pc = "release" => Left(toRelease, references)

LEMMA ReferenceInit == Init => ReferenceInv
<1> SUFFICES ASSUME Init PROVE ReferenceInv
  OBVIOUS
<1>1. Compiled
  BY DEF Init, Compiled, Stages
<1>2. /\ DOMAIN references = {One("compiler")} /\ references[One("compiler")] = 1
      /\ pc = "main" /\ Len(pipelines) = 0 /\ toRelease = <<>>
  BY DEF Init
<1>3. Pipelines(0) = {} /\ All({"compiler"}) = {One("compiler")} /\ Held(One("compiler")) = 1
  BY DEF Pipelines, All, Held, One
<1>4. Needed \subseteq DOMAIN references
  BY <1>2, <1>3 DEF Needed
<1>5. Holding
  BY <1>2, <1>3, <1>4 DEF Holding
<1> QED
  BY <1>1, <1>2, <1>5 DEF ReferenceInv

\* What is acquired is held from then on.
LEMMA AcquireHolds ==
    ASSUME NEW more, \A o \in DOMAIN references : references[o] = Held(o)
    PROVE  /\ DOMAIN Acquire(more) = DOMAIN references \cup more
           /\ \A o \in DOMAIN Acquire(more) : Acquire(more)[o] = Held(o) /\ Acquire(more)[o] \in Int
  BY DEF Acquire, Held

\* An action that acquires `more`, and only if all that the next place needs is
\* then there.
LEMMA HoldsMore ==
    ASSUME ReferenceInv, pc \in Loads \cup Drawing, NEW more, references' = Acquire(more),
           pc' \in Loads \cup Drawing, Compiled', UNCHANGED toRelease,
           Needed' \subseteq Needed \cup more
    PROVE  ReferenceInv'
<1>1. toRelease = <<>> /\ Needed \subseteq DOMAIN references
      /\ \A o \in DOMAIN references : references[o] = Held(o)
  BY DEF ReferenceInv, Holding
<1>2. DOMAIN references' = DOMAIN references \cup more
  BY <1>1, AcquireHolds
<1>3. \A o \in DOMAIN references' : references'[o] = Held(o) /\ references'[o] \in Int
  BY <1>1, AcquireHolds
<1>4. toRelease' = <<>> /\ pc' # "release"
  BY <1>1 DEF Loads, Loading, Stages, Drawing
<1>5. Holding'
  BY <1>1, <1>2, <1>3, <1>4 DEF Holding, Held
<1> QED
  BY <1>3, <1>4, <1>5 DEF ReferenceInv

\* An action that acquires nothing.
LEMMA HoldsSame ==
    ASSUME ReferenceInv, UNCHANGED <<references, toRelease>>, Compiled',
           \/ pc' \in {"exited", "broken"}
           \/ pc \in Loads \cup Drawing /\ pc' \in Loads \cup Drawing /\ Needed' \subseteq Needed
    PROVE  ReferenceInv'
<1>1. pc' # "release"
  BY DEF Loads, Loading, Stages, Drawing
<1>2. Holding'
  BY DEF ReferenceInv, Holding, Loads, Loading, Stages, Drawing, Held
<1> QED
  BY <1>1, <1>2 DEF ReferenceInv

\* main(), InitDX and AddObject.
LEMMA LoadHolds ==
    ASSUME ReferenceInv, SceneInv,
           \/ \E model \in Models : LoadObject(model)
           \/ Initialize \/ EnumAdapter \/ CreateDevice \/ AddObject
    PROVE  ReferenceInv'
<1>1. Compiled
  BY DEF ReferenceInv
<1>2. CASE (\E model \in Models : LoadObject(model)) \/ EnumAdapter
  <2>1. UNCHANGED <<pc, bytecode, pipelines, references, toRelease>> /\ pc \in Loads
    BY <1>2 DEF LoadObject, EnumAdapter, sceneVars, comVars, Loads
  <2>2. Compiled' /\ Needed' = Needed
    BY <1>1, <2>1 DEF Compiled, Needed, Pipelines, All, One, DeviceObjects
  <2> QED
    BY <2>1, <2>2, HoldsSame
<1>3. CASE Initialize
  <2>1. UNCHANGED <<bytecode, pipelines, references, toRelease>> /\ pc = "main"
        /\ pc' \in {"adapters", "broken"}
    BY <1>3 DEF Initialize, sceneVars, comVars
  <2>2. Compiled' /\ (pc' = "adapters" => Needed' = Needed)
    BY <1>1, <2>1 DEF Compiled, Needed, Pipelines, All, One, DeviceObjects
  <2> QED
    BY <2>1, <2>2, HoldsSame DEF Loads
<1>4. CASE CreateDevice
  <2>1. UNCHANGED <<bytecode, pipelines, toRelease>> /\ pc = "adapters"
        /\ pc' \in {"geometry", "broken"}
    BY <1>4 DEF CreateDevice, sceneVars
  <2>2. Compiled'
    BY <1>1, <2>1 DEF Compiled
  <2>3. CASE references' = Acquire(DeviceObjects) /\ pc' = "geometry"
    <3>1. Needed' \subseteq Needed \cup DeviceObjects
      BY <2>1, <2>3 DEF Needed, Pipelines, All, One, DeviceObjects
    <3> QED
      BY <2>1, <2>2, <2>3, <3>1, HoldsMore DEF Loads
  <2>4. CASE UNCHANGED references /\ pc' = "broken"
    BY <2>1, <2>2, <2>4, HoldsSame
  <2> QED
    BY <1>4, <2>3, <2>4 DEF CreateDevice
<1>5. CASE LoadGeometry
  <2>1. UNCHANGED <<bytecode, pipelines, references, toRelease>> /\ pc = "geometry"
        /\ pc' \in {"vertex", "broken"}
    BY <1>5 DEF LoadGeometry, comVars
  <2>2. Compiled' /\ (pc' = "vertex" => Needed' = Needed)
    BY <1>1, <2>1 DEF Compiled, Needed, Pipelines, All, One, DeviceObjects
  <2> QED
    BY <2>1, <2>2, HoldsSame DEF Loads, Loading, Stages
<1>6. CASE LoadShader("vertex", "pixel")
  <2>1. UNCHANGED <<pipelines, references, toRelease>> /\ pc = "vertex"
        /\ (\/ bytecode' = [bytecode EXCEPT !["vertex"] = 1] /\ pc' = "pixel"
            \/ pc' \in {"exited", "broken"} /\ UNCHANGED bytecode)
    BY <1>6 DEF LoadShader, ReleaseResult, GetOutput, comVars
  <2>2. Compiled'
    BY <1>1, <2>1 DEF Compiled, Stages
  <2>3. pc' = "pixel" => Needed' = Needed
    BY <2>1 DEF Needed, Pipelines, All, One, DeviceObjects
  <2> QED
    BY <2>1, <2>2, <2>3, HoldsSame DEF Loads, Loading, Stages
<1>7. CASE LoadShader("pixel", "pipeline")
  <2>1. UNCHANGED <<pipelines, references, toRelease>> /\ pc = "pixel"
        /\ (\/ bytecode' = [bytecode EXCEPT !["pixel"] = 1] /\ pc' = "pipeline"
            \/ pc' \in {"exited", "broken"} /\ UNCHANGED bytecode)
    BY <1>7 DEF LoadShader, ReleaseResult, GetOutput, comVars
  <2>2. Compiled'
    BY <1>1, <2>1 DEF Compiled, Stages
  <2>3. pc' = "pipeline" => Needed' = Needed
    BY <2>1 DEF Needed, Pipelines, All, One, DeviceObjects
  <2> QED
    BY <2>1, <2>2, <2>3, HoldsSame DEF Loads, Loading, Stages
<1>8. CASE CreatePipelineState
  <2> DEFINE more == {<<"pipeline", Len(pipelines)>>}
  <2>1. UNCHANGED <<bytecode, toRelease>> /\ pc = "pipeline" /\ pc' \in {"geometry", "broken"}
    BY <1>8 DEF CreatePipelineState
  <2>2. Compiled'
    BY <1>1, <2>1 DEF Compiled
  <2>3. CASE /\ pipelines' = Append(pipelines, Len(geometry)) /\ references' = Acquire(more)
             /\ pc' = "geometry"
    <3>1. Len(pipelines) \in Nat /\ Len(pipelines') = Len(pipelines) + 1
      BY <2>3 DEF SceneInv, InStep
    <3>2. Pipelines(Len(pipelines')) \subseteq Pipelines(Len(pipelines)) \cup more
      <4> SUFFICES ASSUME NEW i \in 1 .. Len(pipelines') PROVE <<"pipeline", i - 1>> \in Pipelines(Len(pipelines)) \cup more
        BY DEF Pipelines
      <4>1. i \in 1 .. Len(pipelines) \/ i - 1 = Len(pipelines)
        BY <3>1
      <4> QED
        BY <4>1 DEF Pipelines
    <3>3. Needed' \subseteq Needed \cup more
      <4>1. Pipelines(Len(pipelines))' = Pipelines(Len(pipelines'))
        BY DEF Pipelines
      <4> HIDE DEF more
      <4> QED
        BY <2>1, <2>3, <3>2, <4>1 DEF Needed, All, One, DeviceObjects
    <3> HIDE DEF more
    <3> QED
      BY <2>1, <2>2, <2>3, <3>3, HoldsMore DEF Loads, Loading
  <2>4. CASE pc' = "broken" /\ UNCHANGED references
    BY <2>1, <2>2, <2>4, HoldsSame
  <2> QED
    BY <1>8, <2>3, <2>4 DEF CreatePipelineState
<1> QED
  BY <1>2, <1>3, <1>4, <1>5, <1>6, <1>7, <1>8 DEF AddObject

\* The rest of InitDX, and Render.
LEMMA DrawHolds ==
    ASSUME ReferenceInv, SceneInv, FillBuffers \/ CreateViews \/ DrawObjects
    PROVE  ReferenceInv'
<1>1. UNCHANGED <<bytecode, pipelines, toRelease>>
      /\ pc \in {"geometry", "views", "frame"} /\ pc' \in {"views", "frame", "broken"}
  BY DEF FillBuffers, CreateViews, DrawObjects, sceneVars, comVars
<1>2. Compiled'
  BY <1>1 DEF ReferenceInv, Compiled
<1>3. CASE FillBuffers
  <2> DEFINE more == All({"vertexBuffer", "indexBuffer", "cameraBuffer"})
  <2>1. CASE pc' = "views" /\ references' = Acquire(more)
    <3>1. Needed' \subseteq Needed \cup more
      BY <1>1, <1>3, <2>1 DEF FillBuffers, Needed, Pipelines, All, One, DeviceObjects
    <3> HIDE DEF more
    <3> QED
      BY <1>1, <1>2, <2>1, <3>1, HoldsMore DEF Loads, Drawing
  <2>2. CASE pc' = "broken" /\ UNCHANGED references
    BY <1>1, <1>2, <2>2, HoldsSame
  <2> QED
    BY <1>3, <2>1, <2>2 DEF FillBuffers
<1>4. CASE CreateViews
  <2> DEFINE more == All({"bufferHeap", "commandList"})
  <2>1. CASE pc' = "frame" /\ references' = Acquire(more)
    <3>1. Needed' \subseteq Needed \cup more
      BY <1>1, <1>4, <2>1 DEF CreateViews, Needed, Pipelines, All, One, DeviceObjects
    <3> HIDE DEF more
    <3> QED
      BY <1>1, <1>2, <2>1, <3>1, HoldsMore DEF Loads, Drawing
  <2>2. CASE pc' = "broken" /\ UNCHANGED references
    BY <1>1, <1>2, <2>2, HoldsSame
  <2> QED
    BY <1>4, <2>1, <2>2 DEF CreateViews
<1>5. CASE DrawObjects
  <2>1. pc' = pc /\ pc = "frame" /\ UNCHANGED references
    BY <1>5 DEF DrawObjects, comVars
  <2>2. Needed' = Needed
    BY <1>1, <2>1 DEF Needed, Pipelines, All, One, DeviceObjects
  <2> QED
    BY <1>1, <1>2, <2>1, <2>2, HoldsSame DEF Drawing
<1> QED
  BY <1>3, <1>4, <1>5

\* All that the branch releases is there when it begins.
LEMMA CleanUpHolds == ASSUME ReferenceInv, SceneInv, BeginCleanUp PROVE ReferenceInv'
<1> DEFINE n == Len(pipelines)
           more == {One("wfiFence")}
<1>1. UNCHANGED <<bytecode, pipelines>> /\ pc = "frame" /\ pc' \in {"release", "broken"}
  BY DEF BeginCleanUp, sceneVars
<1>2. Compiled'
  BY <1>1 DEF ReferenceInv, Compiled
<1>3. CASE pc' = "broken" /\ UNCHANGED comVars
  BY <1>2, <1>3, HoldsSame DEF comVars
<1>4. CASE references' = Acquire(more) /\ toRelease' = ReleaseOrder /\ pc' = "release"
  <2>1. Needed \subseteq DOMAIN references /\ \A o \in DOMAIN references : references[o] = Held(o)
    BY <1>1 DEF ReferenceInv, Holding, Drawing
  <2>2. Released(n) \subseteq Needed \cup more
    <3>1. All({"wfiFence", "commandList"}) \subseteq Needed \cup more
      BY <1>1 DEF All, Needed
    <3>2. {"fence", "allocator"} \X (0 .. BufferCount - 1) \subseteq Needed
      BY <1>1 DEF Needed, DeviceObjects
    <3>3. {<<"pipeline", i - 1>> : i \in 1 .. n} \subseteq Needed
      BY DEF Needed, Pipelines
    <3>4. All(SingleNames) \subseteq Needed
      BY <1>1 DEF All, SingleNames, Needed, DeviceObjects
    <3> QED
      BY <3>1, <3>2, <3>3, <3>4 DEF Released
  <2>3. DOMAIN references' = DOMAIN references \cup more
        /\ \A o \in DOMAIN references' : references'[o] = Held(o) /\ references'[o] \in Int
    BY <1>4, <2>1, AcquireHolds
  <2>4. Released(n) \subseteq DOMAIN references'
    BY <2>1, <2>2, <2>3
  <2>5. toRelease' \in Seq(Released(n)) /\ Releasable(toRelease')
    BY <1>4, OrderReleasable DEF SceneInv, InStep
  <2>6. toRelease' \in Seq(DOMAIN references')
    BY <2>4, <2>5
  <2>7. \A k \in 1 .. Len(toRelease') : references'[toRelease'[k]] = Held(toRelease'[k])
    BY <2>3, <2>6
  <2>8. Left(toRelease', references')
    BY <2>5, <2>6, <2>7 DEF Left, Held
  <2>9. Holding'
    BY <1>4 DEF Holding, Loads, Loading, Stages, Drawing
  <2> QED
    BY <1>2, <2>3, <2>6, <2>8, <2>9 DEF ReferenceInv
<1> QED
  BY <1>3, <1>4 DEF BeginCleanUp

LEMMA RestReleasable ==
    ASSUME NEW S, NEW r \in Seq(S), Releasable(r), r # <<>>
    PROVE  /\ Tail(r) \in Seq(S) /\ Releasable(Tail(r)) /\ Len(Tail(r)) = Len(r) - 1
           /\ \A k \in 1 .. Len(Tail(r)) : Tail(r)[k] = r[k + 1] /\ k + 1 \in 1 .. Len(r)
           /\ Head(r) = r[1] /\ 1 \in 1 .. Len(r)
<1>1. PICK t : t = Tail(r)
  OBVIOUS
<1>2. /\ t \in Seq(S) /\ Len(t) = Len(r) - 1 /\ Len(r) \in Nat
      /\ \A k \in 1 .. Len(t) : t[k] = r[k + 1] /\ k + 1 \in 1 .. Len(r)
      /\ Head(r) = r[1] /\ 1 \in 1 .. Len(r)
  BY <1>1
<1>3. ASSUME NEW k \in 1 .. Len(t), NEW m \in 1 .. Len(t), k < m
      PROVE  /\ k + 1 \in 1 .. Len(r) /\ m + 1 \in 1 .. Len(r) /\ k + 1 < m + 1
             /\ t[k] = r[k + 1] /\ t[m] = r[m + 1]
  BY <1>2, <1>3
<1>4. \A k, m \in 1 .. Len(t) : k < m /\ t[k] = t[m] => t[k] = One("queue")
  BY <1>3 DEF Releasable
<1>5. \A k, m, n \in 1 .. Len(t) :
         k < m /\ m < n => ~(t[k] = One("queue") /\ t[m] = One("queue") /\ t[n] = One("queue"))
  <2> SUFFICES ASSUME NEW k \in 1 .. Len(t), NEW m \in 1 .. Len(t), NEW n \in 1 .. Len(t), k < m, m < n
               PROVE  ~(t[k] = One("queue") /\ t[m] = One("queue") /\ t[n] = One("queue"))
    OBVIOUS
  <2>1. /\ k + 1 \in 1 .. Len(r) /\ m + 1 \in 1 .. Len(r) /\ n + 1 \in 1 .. Len(r)
        /\ k + 1 < m + 1 /\ m + 1 < n + 1
        /\ t[k] = r[k + 1] /\ t[m] = r[m + 1] /\ t[n] = r[n + 1]
    BY <1>3
  <2> QED
    BY <2>1 DEF Releasable
<1>6. \A k, m \in 1 .. Len(t) : k < m /\ t[k] = One("swapChain") => t[m] # One("queue")
  BY <1>3 DEF Releasable
<1>7. Releasable(t)
  BY <1>4, <1>5, <1>6 DEF Releasable
<1> QED
  BY <1>1, <1>2, <1>7

\* A release takes one reference of what is released, and the swap chain's
\* reference to the queue only when the queue is not released any more.
LEMMA ReleaseHolds == ASSUME ReferenceInv, ReleaseNext PROVE ReferenceInv'
<1> DEFINE r == toRelease
           t == Tail(toRelease)
           o == Head(toRelease)
           held == references
           left == references'
           last == o = One("swapChain") /\ references[o] = 1
           gone == {o} \cup (IF last THEN {One("queue")} ELSE {})
<1>1. pc = "release" /\ pc' = "release" /\ r # <<>> /\ toRelease' = t
      /\ UNCHANGED <<bytecode, pipelines>>
  BY DEF ReleaseNext, sceneVars
<1>2. left = [p \in DOMAIN held |-> IF p \in gone THEN held[p] - 1 ELSE held[p]]
  BY DEF ReleaseNext
<1>3. Left(r, held) /\ \A p \in DOMAIN held : held[p] \in Int
  BY <1>1 DEF ReferenceInv
<1>4. r \in Seq(DOMAIN held) /\ Releasable(r)
  BY <1>3 DEF Left
<1>5. /\ t \in Seq(DOMAIN held) /\ Releasable(t) /\ Len(t) = Len(r) - 1
      /\ \A k \in 1 .. Len(t) : t[k] = r[k + 1] /\ k + 1 \in 1 .. Len(r)
      /\ o = r[1] /\ 1 \in 1 .. Len(r)
  BY <1>1, <1>4, RestReleasable
<1>6. Len(r) \in Nat /\ Len(t) \in Nat
  BY <1>4, <1>5
<1>7. \A k \in 1 .. Len(t) : t[k] \in DOMAIN held
  BY <1>5
<1> HIDE DEF r, t, o, held, left
<1>8. DOMAIN left = DOMAIN held /\ \A p \in DOMAIN left : left[p] \in Int
  BY <1>2, <1>3
<1>9. ASSUME NEW k \in 1 .. Len(t), t[k] # One("queue")
      PROVE  left[t[k]] = 1
  <2>1. held[t[k]] = 1
    <3>1. k + 1 \in 1 .. Len(r) /\ t[k] = r[k + 1]
      BY <1>5
    <3> QED
      BY <1>3, <1>9, <3>1 DEF Left
  <2>2. t[k] # o
    <3>1. 1 < k + 1 /\ k + 1 \in 1 .. Len(r) /\ r[k + 1] = t[k]
      BY <1>5, <1>6
    <3> QED
      BY <1>4, <1>5, <1>9, <3>1 DEF Releasable
  <2> QED
    BY <1>2, <1>7, <1>9, <2>1, <2>2
<1>10. ASSUME NEW k \in 1 .. Len(t), t[k] = One("queue")
       PROVE  /\ ~last
              /\ IF o = One("queue") THEN held[t[k]] > 1 /\ left[t[k]] = held[t[k]] - 1
                                     ELSE held[t[k]] > 0 /\ left[t[k]] = held[t[k]]
  <2>1. 1 < k + 1 /\ k + 1 \in 1 .. Len(r) /\ r[k + 1] = t[k]
    BY <1>5, <1>6
  <2>2. ~last
    BY <1>4, <1>5, <1>10, <2>1 DEF Releasable
  <2>3. CASE o = One("queue")
    <3>1. held[r[1]] > 1
      BY <1>3, <1>5, <1>10, <2>1, <2>3 DEF Left
    <3>2. left[t[k]] = held[t[k]] - 1
      BY <1>2, <1>7, <1>10, <2>3
    <3> QED
      BY <1>5, <1>10, <2>2, <2>3, <3>1, <3>2
  <2>4. CASE o # One("queue")
    <3>1. held[t[k]] > 0
      BY <1>3, <1>10, <2>1 DEF Left
    <3>2. left[t[k]] = held[t[k]]
      BY <1>2, <1>7, <1>10, <2>2, <2>4
    <3> QED
      BY <2>2, <2>4, <3>1, <3>2
  <2> QED
    BY <2>3, <2>4
<1>11. \A k \in 1 .. Len(t) : t[k] = One("queue") => left[t[k]] > 0
  BY <1>3, <1>7, <1>10
<1>12. ASSUME NEW k \in 1 .. Len(t), NEW m \in 1 .. Len(t), k < m,
              t[k] = One("queue"), t[m] = One("queue")
       PROVE  left[t[k]] > 1
  <2>1. /\ 1 < k + 1 /\ k + 1 < m + 1 /\ k + 1 \in 1 .. Len(r) /\ m + 1 \in 1 .. Len(r)
        /\ r[k + 1] = t[k] /\ r[m + 1] = t[m]
    BY <1>5, <1>6, <1>12
  <2>2. o # One("queue")
    BY <1>4, <1>5, <1>12, <2>1 DEF Releasable
  <2>3. held[t[k]] > 1
    BY <1>3, <1>12, <2>1 DEF Left
  <2> QED
    BY <1>10, <1>12, <2>2, <2>3
<1>13. Left(t, left)
  BY <1>5, <1>8, <1>9, <1>11, <1>12 DEF Left
<1>14. Compiled' /\ Holding'
  BY <1>1 DEF ReferenceInv, Compiled, Holding, Loads, Loading, Stages, Drawing
<1>15. toRelease' \in Seq(DOMAIN references')
  BY <1>1, <1>5, <1>8 DEF left, held
<1> QED
  BY <1>1, <1>8, <1>13, <1>14, <1>15 DEF ReferenceInv, left

LEMMA ReferenceStep == ReferenceInv /\ SceneInv /\ [Next]_vars => ReferenceInv'
<1> SUFFICES ASSUME ReferenceInv, SceneInv, [Next]_vars PROVE ReferenceInv'
  OBVIOUS
<1>1. CASE \/ \E model \in Models : LoadObject(model)
           \/ Initialize \/ EnumAdapter \/ CreateDevice \/ AddObject
  BY <1>1, LoadHolds
<1>2. CASE FillBuffers \/ CreateViews \/ DrawObjects
  BY <1>2, DrawHolds
<1>3. CASE BeginCleanUp
  BY <1>3, CleanUpHolds
<1>4. CASE ReleaseNext
  BY <1>4, ReleaseHolds
<1>5. CASE Exit
  <2>1. UNCHANGED <<bytecode, references, toRelease>> /\ pc' = "exited"
    BY <1>5 DEF Exit, sceneVars, comVars
  <2> QED
    BY <2>1, HoldsSame DEF ReferenceInv, Compiled
<1>6. CASE Ended \/ UNCHANGED vars
  <2>1. UNCHANGED <<pc, bytecode, pipelines, references, toRelease>>
    BY <1>6 DEF Ended, vars, sceneVars, comVars
  <2>2. Compiled' /\ Needed' = Needed
    BY <2>1 DEF ReferenceInv, Compiled, Needed, Pipelines, All, One, DeviceObjects
  <2>3. Holding'
    BY <2>1, <2>2 DEF ReferenceInv, Holding, Held
  <2> QED
    BY <2>1, <2>2, <2>3 DEF ReferenceInv, Left
<1> QED
  BY <1>1, <1>2, <1>3, <1>4, <1>5, <1>6 DEF Next

\* For any number of buffers and objects: the pipeline states are compiled from
\* blobs that are still held, and the clean-up branch releases nothing that is
\* gone, the queue's second release being the swap chain's reference.
THEOREM UsesLiveTheorem == Spec => []UsesLiveObjects
<1>1. ReferenceInv => UsesLiveObjects
  <2> SUFFICES ASSUME ReferenceInv PROVE UsesLiveObjects
    OBVIOUS
  <2>1. ASSUME pc = "release", toRelease # <<>> PROVE references[Head(toRelease)] > 0
    <3>1. Left(toRelease, references)
      BY <2>1 DEF ReferenceInv
    <3>2. Head(toRelease) = toRelease[1] /\ 1 \in 1 .. Len(toRelease)
      BY <2>1, <3>1 DEF Left
    <3> QED
      BY <3>1, <3>2 DEF Left
  <2> QED
    BY <2>1 DEF ReferenceInv, Compiled, UsesLiveObjects
<1>2. Init => SceneInv /\ ReferenceInv
  BY SceneInit, ReferenceInit
<1>3. SceneInv /\ ReferenceInv /\ [Next]_vars => (SceneInv /\ ReferenceInv)'
  BY SceneStep, ReferenceStep
<1> QED
  BY <1>1, <1>2, <1>3, PTL DEF Spec

-----------------------------------------------------------------------------
(* Type correctness, with the invariants above.                             *)

\* The references that are left. Only the queue's can be one too few, once the
\* swap chain is gone.
Least(o) == IF o = One("queue") THEN -1 ELSE 0
Counted ==
    /\ \A o \in DOMAIN references : references[o] \in Least(o) .. Held(o)
    /\ {One("queue"), One("swapChain")} \subseteq DOMAIN references
          => references[One("queue")] >= references[One("swapChain")] - 1

LEMMA AllHeld ==
    ASSUME \A o \in DOMAIN references : references[o] = Held(o) PROVE Counted
  BY DEF Counted, Least, Held, One

LEMMA ReleaseCounts == ASSUME Counted, ReferenceInv, ReleaseNext PROVE Counted'
<1> DEFINE o == Head(toRelease)
           last == o = One("swapChain") /\ references[o] = 1
           gone == {o} \cup (IF last THEN {One("queue")} ELSE {})
           held == references
           left == references'
           q == One("queue")
           c == One("swapChain")
<1>1. left = [p \in DOMAIN held |-> IF p \in gone THEN held[p] - 1 ELSE held[p]]
  BY DEF ReleaseNext
<1>2. Left(toRelease, held) /\ o = toRelease[1] /\ 1 \in 1 .. Len(toRelease)
  <2>1. toRelease \in Seq(DOMAIN references) /\ toRelease # <<>>
    BY DEF ReferenceInv, ReleaseNext
  <2> QED
    BY <2>1 DEF ReferenceInv, ReleaseNext
<1>3. o \in DOMAIN held /\ (o # q => held[o] = 1) /\ (o = q => held[o] > 0)
  BY <1>2 DEF Left
<1>4. q # c
  BY DEF One
<1>5. /\ \A p \in DOMAIN held : held[p] \in Least(p) .. Held(p)
      /\ {q, c} \subseteq DOMAIN held => held[q] >= held[c] - 1
  BY DEF Counted
<1>6. DOMAIN left = DOMAIN held
  BY <1>1
<1>7. Held(q) = 2 /\ Least(q) = -1 /\ \A p : p # q => Held(p) = 1 /\ Least(p) = 0
  BY DEF Held, Least
<1> HIDE DEF o, held, left, q, c
<1>8. ASSUME NEW p \in DOMAIN held, p # q PROVE left[p] \in Least(p) .. Held(p)
  <2>1. CASE p = o
    <3>1. left[p] = 0
      BY <1>1, <1>3, <1>8, <2>1
    <3> QED
      BY <1>7, <1>8, <3>1
  <2>2. CASE p # o
    <3>1. left[p] = held[p]
      BY <1>1, <1>8, <2>2 DEF q
    <3> QED
      BY <1>5, <1>8, <3>1
  <2> QED
    BY <2>1, <2>2
<1>9. ASSUME q \in DOMAIN held
      PROVE  /\ left[q] \in Least(q) .. Held(q)
             /\ c \in DOMAIN held => left[q] >= left[c] - 1
  <2>1. held[q] \in -1 .. 2 /\ (c \in DOMAIN held => held[c] \in 0 .. 1 /\ held[q] >= held[c] - 1)
    BY <1>4, <1>5, <1>7, <1>9
  <2>2. CASE o = q
    <3>1. left[q] = held[q] - 1 /\ held[q] > 0
      BY <1>1, <1>3, <1>9, <2>2
    <3>2. c \in DOMAIN held => left[c] = held[c]
      BY <1>1, <1>4, <2>2 DEF q, c
    <3> QED
      BY <1>7, <2>1, <3>1, <3>2
  <2>3. CASE o = c
    <3>1. held[c] = 1 /\ c \in DOMAIN held
      BY <1>3, <1>4, <2>3
    <3>2. q \in gone /\ c \in gone
      BY <2>3, <3>1 DEF c, q, held
    <3>3. left[q] = held[q] - 1 /\ left[c] = 0
      BY <1>1, <1>9, <3>1, <3>2
    <3> QED
      BY <1>7, <2>1, <3>1, <3>3
  <2>4. CASE o # q /\ o # c
    <3>1. q \notin gone /\ c \notin gone
      BY <1>4, <2>4 DEF c
    <3>2. left[q] = held[q] /\ (c \in DOMAIN held => left[c] = held[c])
      BY <1>1, <1>9, <3>1
    <3> QED
      BY <1>7, <2>1, <3>2
  <2> QED
    BY <2>2, <2>3, <2>4
<1>10. \A p \in DOMAIN left : left[p] \in Least(p) .. Held(p)
  BY <1>6, <1>8, <1>9
<1>11. {q, c} \subseteq DOMAIN left => left[q] >= left[c] - 1
  BY <1>6, <1>9
<1> QED
  BY <1>10, <1>11 DEF Counted, Least, Held, left, q, c

LEMMA CountedStep == Counted /\ ReferenceInv /\ [Next]_vars => Counted'
<1> SUFFICES ASSUME Counted, ReferenceInv, [Next]_vars PROVE Counted'
  OBVIOUS
<1>1. CASE UNCHANGED references
  BY <1>1 DEF Counted, Least, Held, One
<1>2. CASE ReleaseNext
  BY <1>2, ReleaseCounts
<1>3. ASSUME NEW more, references' = Acquire(more), pc \in Loads \cup Drawing PROVE Counted'
  <2>1. \A o \in DOMAIN references' : references'[o] = Held(o)
    BY <1>3, AcquireHolds DEF ReferenceInv, Holding
  <2>2. DOMAIN references' = DOMAIN Acquire(more)
    BY <1>3
  <2> QED
    BY <2>1 DEF Counted, Least, Held, One
<1>4. ASSUME CreateDevice \/ AddObject \/ FillBuffers \/ CreateViews \/ BeginCleanUp
      PROVE  Counted'
  <2>1. pc \in Loads \cup Drawing
    BY <1>4 DEF CreateDevice, AddObject, LoadGeometry, LoadShader, CreatePipelineState, FillBuffers,
                CreateViews, BeginCleanUp, Loads, Loading, Stages, Drawing
  <2>2. UNCHANGED references \/ \E more : references' = Acquire(more)
    BY <1>4 DEF CreateDevice, AddObject, LoadGeometry, LoadShader, CreatePipelineState, FillBuffers,
                CreateViews, BeginCleanUp, comVars
  <2> QED
    BY <1>1, <1>3, <2>1, <2>2
<1> QED
  BY <1>1, <1>2, <1>4 DEF Next, vars, comVars, LoadObject, Initialize, EnumAdapter, DrawObjects, Exit,
                          Ended

Places == {"main", "adapters", "geometry", "pipeline", "views", "frame", "release", "exited",
           "broken"} \cup Stages

\* What the buffers hold, and what a draw can fetch from them.
BuffersOK ==
    /\ vertexBuffer \in UNION {[0 .. n - 1 -> Vertices \cup {Unset}] : n \in 0 .. UINT16_MAX}
    /\ indexBuffer \in UNION {[0 .. n - 1 -> 0 .. UINT16_MAX] : n \in 0 .. MeshLimit}
FrameOK ==
    frame # <<>> =>
        /\ DOMAIN frame = 0 .. Loaded - 1
        /\ \A i \in DOMAIN frame :
              frame[i] \in [0 .. indexCount[Model(i)] - 1 -> Vertices \cup {Unset}]

\* What the other invariants leave out of TypeOK.
RestOK ==
    /\ pc \in Places /\ build \in Builds
    /\ memory \in Seq(0 .. MemoryLimit)
    /\ device \in {Garbage} \cup 0 .. Len(memory) - 1
    /\ indexCount \in [Models -> 0 .. MeshLimit]
    /\ views \in Seq({"vertices", "camera"})
    /\ BuffersOK /\ FrameOK

LEMMA RestInit == Init => RestOK
<1> SUFFICES ASSUME Init PROVE RestOK
  OBVIOUS
<1>1. PICK n \in 0 .. AdapterLimit : memory \in [1 .. n -> 0 .. MemoryLimit]
  BY DEF Init
<1>2. memory \in Seq(0 .. MemoryLimit)
  BY <1>1, CountAssumption
<1>3. BuffersOK
  <2>1. /\ <<>> \in [0 .. 0 - 1 -> Vertices \cup {Unset}] /\ <<>> \in [0 .. 0 - 1 -> 0 .. UINT16_MAX]
        /\ 0 \in 0 .. UINT16_MAX /\ 0 \in 0 .. MeshLimit
    BY CountAssumption DEF UINT16_MAX
  <2> QED
    BY <2>1 DEF Init, BuffersOK
<1> QED
  BY <1>2, <1>3 DEF Init, RestOK, FrameOK, Places

\* Where the control goes.
LEMMA PlacesStep == pc \in Places /\ [Next]_vars => pc' \in Places
  BY DEF Places, Stages, Next, vars, LoadObject, Initialize, EnumAdapter, CreateDevice, AddObject,
         LoadGeometry, LoadShader, CreatePipelineState, FillBuffers, CreateViews, DrawObjects,
         BeginCleanUp, ReleaseNext, Exit, Ended

LEMMA DeviceStep ==
    AdapterInv /\ RestOK /\ [Next]_vars
        => memory' = memory /\ device' \in {Garbage} \cup 0 .. Len(memory) - 1
<1> SUFFICES ASSUME AdapterInv, RestOK, [Next]_vars
             PROVE  memory' = memory /\ device' \in {Garbage} \cup 0 .. Len(memory) - 1
  OBVIOUS
<1>1. CASE CreateDevice
  <2>1. memory' = memory /\ adapterCount = Len(memory)
    BY <1>1 DEF CreateDevice
  <2>2. \/ device' \in 0 .. adapterCount - 1 \/ device' = bestAdapter \/ device' = device
    BY <1>1 DEF CreateDevice
  <2>3. bestAdapter \in {Garbage} \cup 0 .. adapterCount - 1
    BY DEF AdapterInv
  <2> QED
    BY <2>1, <2>2, <2>3 DEF RestOK
<1>2. CASE UNCHANGED <<memory, device>>
  BY <1>2 DEF RestOK
<1>3. CreateDevice \/ UNCHANGED <<memory, device>>
  BY DEF Next, vars, adapterVars, LoadObject, Initialize, EnumAdapter, AddObject, LoadGeometry,
         LoadShader, CreatePipelineState, FillBuffers, CreateViews, DrawObjects, BeginCleanUp,
         ReleaseNext, Exit, Ended
<1> QED
  BY <1>1, <1>2, <1>3

\* What is copied into the buffers.
LEMMA BuffersStep == SceneInv /\ RestOK /\ [Next]_vars => BuffersOK'
<1> SUFFICES ASSUME SceneInv, RestOK, [Next]_vars PROVE BuffersOK'
  OBVIOUS
<1>1. CASE UNCHANGED <<vertexBuffer, indexBuffer>>
  BY <1>1 DEF RestOK, BuffersOK, Vertices, Unset, UINT16_MAX
<1>2. CASE /\ FillBuffers
           /\ vertexBuffer' = Copied(vertices(Model(0)), vertexCount(SizingModel), Unset)
           /\ indexBuffer' = Copied(indices(Model(0)), indexCount[SizingModel], 0)
           /\ geometryIndex < Len(geometry)
  <2> DEFINE model == Model(0)
             n == indexCount[model]
             s == indexCount[SizingModel]
  <2>1. SizingModel \in Models /\ model \in Models
    <3>1. Len(geometry) - 1 \in Int /\ geometry \in Seq(Models)
      BY DEF SceneInv, InStep
    <3>2. geometryIndex \in Nat
      BY <3>1, ModRange, CountAssumption DEF geometryIndex, UINT16_MAX
    <3>3. geometryIndex + 1 \in 1 .. Len(geometry) /\ 0 + 1 \in 1 .. Len(geometry)
      BY <1>2, <3>1, <3>2
    <3> QED
      BY <3>1, <3>3 DEF SizingModel, Model
  <2>2. n \in 0 .. MeshLimit /\ s \in 0 .. MeshLimit
    BY <2>1 DEF RestOK
  <2>3. /\ vertexCount(SizingModel) \in 0 .. UINT16_MAX
        /\ vertexCount(model) \in 0 .. UINT16_MAX /\ vertexCount(model) <= n
    BY <2>2, VertexCounts
  <2> HIDE DEF model, n, s
  <2>4. ASSUME NEW v \in DOMAIN vertices(model) PROVE vertices(model)[v] \in Vertices
    <3>1. vertices(model) = [u \in 0 .. vertexCount(model) - 1 |-> <<model, n - vertexCount(model) + u>>]
      BY DEF vertices, n
    <3>2. v \in 0 .. vertexCount(model) - 1 /\ vertices(model)[v] = <<model, n - vertexCount(model) + v>>
      BY <3>1
    <3>3. n - vertexCount(model) + v \in 0 .. MeshLimit - 1
      BY <2>2, <2>3, <3>2, CountAssumption
    <3> QED
      BY <2>1, <3>2, <3>3 DEF Vertices
  <2>5. ASSUME NEW k \in DOMAIN indices(model) PROVE indices(model)[k] \in 0 .. UINT16_MAX
    <3>1. indices(model) = [m \in 0 .. n - 1 |-> m % Uint16Modulus]
      BY DEF indices, n
    <3>2. k \in Int /\ indices(model)[k] = k % Uint16Modulus
      BY <3>1
    <3> QED
      BY <3>2, ModRange
  <2>6. vertexBuffer' \in [0 .. vertexCount(SizingModel) - 1 -> Vertices \cup {Unset}]
    BY <1>2, <2>4 DEF Copied, model
  <2>7. indexBuffer' \in [0 .. s - 1 -> 0 .. UINT16_MAX]
    <3>1. 0 \in 0 .. UINT16_MAX
      BY CountAssumption DEF UINT16_MAX
    <3> QED
      BY <1>2, <2>5, <3>1 DEF Copied, model, s
  <2> QED
    BY <2>2, <2>3, <2>6, <2>7 DEF BuffersOK, Vertices, Unset, UINT16_MAX
<1>3. \/ UNCHANGED <<vertexBuffer, indexBuffer>>
      \/ /\ FillBuffers
         /\ vertexBuffer' = Copied(vertices(Model(0)), vertexCount(SizingModel), Unset)
         /\ indexBuffer' = Copied(indices(Model(0)), indexCount[SizingModel], 0)
         /\ geometryIndex < Len(geometry)
  BY DEF Next, vars, bufferVars, LoadObject, Initialize, EnumAdapter, CreateDevice, AddObject,
         LoadGeometry, LoadShader, CreatePipelineState, FillBuffers, CreateViews, DrawObjects,
         BeginCleanUp, ReleaseNext, Exit, Ended
<1> QED
  BY <1>1, <1>2, <1>3

\* No geometry and no pipeline is added behind a frame.
LEMMA FrameStep == SceneInv /\ RestOK /\ [Next]_vars => FrameOK'
<1> SUFFICES ASSUME SceneInv, RestOK, [Next]_vars PROVE FrameOK'
  OBVIOUS
<1>1. CASE DrawObjects
  <2>1. /\ frame' = [i \in 0 .. Loaded - 1 |-> Fetch(i)]
        /\ UNCHANGED <<indexCount, geometry, pipelines>>
    BY <1>1 DEF DrawObjects, Loaded, sceneVars
  <2>2. DOMAIN frame' = 0 .. Loaded' - 1
    BY <2>1 DEF Loaded
  <2>3. ASSUME NEW i \in DOMAIN frame'
        PROVE  frame'[i] \in [0 .. indexCount[Model(i)] - 1 -> Vertices \cup {Unset}]
    <3>1. ASSUME NEW k \in DOMAIN indexBuffer, indexBuffer[k] \in DOMAIN vertexBuffer
          PROVE  vertexBuffer[indexBuffer[k]] \in Vertices \cup {Unset}
      <4>1. PICK n : vertexBuffer \in [0 .. n - 1 -> Vertices \cup {Unset}]
        BY DEF RestOK, BuffersOK
      <4> QED
        BY <3>1, <4>1
    <3>2. frame'[i] = Fetch(i)
      BY <2>1
    <3> QED
      BY <3>1, <3>2 DEF Fetch
  <2>4. \A i : Model(i)' = Model(i)
    BY <2>1 DEF Model
  <2> QED
    BY <2>1, <2>2, <2>3, <2>4 DEF FrameOK, Vertices, Unset
<1>2. CASE UNCHANGED <<frame, pipelines, geometry, indexCount>>
  BY <1>2 DEF RestOK, FrameOK, Loaded, Model, Vertices, Unset
<1>3. CASE LoadGeometry \/ CreatePipelineState
  <2>1. frame' = frame /\ frame = <<>>
    BY <1>3 DEF LoadGeometry, CreatePipelineState, SceneInv, BufferInv, Loads, Loading
  <2> QED
    BY <2>1 DEF FrameOK
<1>4. \/ DrawObjects \/ LoadGeometry \/ CreatePipelineState
      \/ UNCHANGED <<frame, pipelines, geometry, indexCount>>
  BY DEF Next, vars, sceneVars, LoadObject, Initialize, EnumAdapter, CreateDevice, AddObject,
         LoadShader, FillBuffers, CreateViews, BeginCleanUp, ReleaseNext, Exit, Ended
<1> QED
  BY <1>1, <1>2, <1>3, <1>4

LEMMA RestStep == AdapterInv /\ SceneInv /\ RestOK /\ [Next]_vars => RestOK'
<1> SUFFICES ASSUME AdapterInv, SceneInv, RestOK, [Next]_vars PROVE RestOK'
  OBVIOUS
<1>1. indexCount' = indexCount /\ build' = build
  BY DEF Next, vars, LoadObject, Initialize, EnumAdapter, CreateDevice, AddObject, LoadGeometry,
         LoadShader, CreatePipelineState, FillBuffers, CreateViews, DrawObjects, BeginCleanUp,
         ReleaseNext, Exit, Ended
<1>2. views' = views \/ views' = NewViews
  BY DEF Next, vars, bufferVars, LoadObject, Initialize, EnumAdapter, CreateDevice, AddObject,
         LoadGeometry, LoadShader, CreatePipelineState, FillBuffers, CreateViews, DrawObjects,
         BeginCleanUp, ReleaseNext, Exit, Ended
<1>3. views' \in Seq({"vertices", "camera"})
  <2>1. views \in Seq({"vertices", "camera"})
    BY DEF RestOK
  <2>2. NewViews \in Seq({"vertices", "camera"})
    BY DEF NewViews
  <2> QED
    BY <1>2, <2>1, <2>2
<1>4. pc' \in Places
  BY PlacesStep DEF RestOK
<1>5. memory' = memory /\ device' \in {Garbage} \cup 0 .. Len(memory) - 1
  BY DeviceStep
<1>6. FrameOK' /\ BuffersOK'
  BY FrameStep, BuffersStep
<1>7. device' \in {Garbage} \cup 0 .. Len(memory') - 1 /\ memory' \in Seq(0 .. MemoryLimit)
  BY <1>5 DEF RestOK
<1>8. indexCount' \in [Models -> 0 .. MeshLimit] /\ build' \in Builds
  BY <1>1 DEF RestOK
<1> QED
  BY <1>3, <1>4, <1>6, <1>7, <1>8 DEF RestOK, Garbage

LEMMA TypesFollow == AdapterInv /\ SceneInv /\ ReferenceInv /\ Counted /\ RestOK => TypeOK
<1> SUFFICES ASSUME AdapterInv, SceneInv, ReferenceInv, Counted, RestOK PROVE TypeOK
  OBVIOUS
<1>1. bestAdapter \in {Garbage} \cup 0 .. Len(memory) - 1
  BY DEF AdapterInv
<1>2. bestDedicatedVMEM \in 0 .. MemoryLimit
  <2>1. CASE bestAdapter = Garbage
    BY <2>1, CountAssumption DEF AdapterInv
  <2>2. CASE bestAdapter # Garbage
    <3>1. bestAdapter + 1 \in 1 .. Len(memory) /\ memory[bestAdapter + 1] = bestDedicatedVMEM
      BY <2>2 DEF AdapterInv
    <3>2. PICK S : S = 0 .. MemoryLimit
      OBVIOUS
    <3>3. memory \in Seq(S)
      BY <3>2 DEF RestOK
    <3>4. memory[bestAdapter + 1] \in S
      BY <3>1, <3>3
    <3> QED
      BY <3>1, <3>2, <3>4
  <2> QED
    BY <2>1, <2>2
<1>3. objects \in Seq(Models) /\ geometry \in Seq(Models) /\ pipelines \in Seq(Nat)
  BY DEF SceneInv, InStep
<1>4. bytecode \in [Stages -> Nat] /\ toRelease \in Seq(DOMAIN references)
  BY DEF ReferenceInv, Compiled
<1>5. adapterCount \in 0 .. Len(memory)
  BY DEF AdapterInv
<1>6. \A o \in DOMAIN references : references[o] \in (IF o = One("queue") THEN -1 ELSE 0) .. Held(o)
  BY DEF Counted, Least
<1> QED
  BY <1>1, <1>2, <1>3, <1>4, <1>5, <1>6 DEF RestOK, BuffersOK, FrameOK, Places, TypeOK

\* Every variable has its type in every state that can be reached: the buffers
\* hold indices of 16 bits and vertices of the models, a frame what can be
\* fetched from them, for each index of each pipeline's model. No object loses
\* more references than it has, but for the queue, which is released once more
\* than it is held. The branch releases only objects that were acquired, and an
\* adapter is one of the machine's.
THEOREM TypeCorrect == Spec => []TypeOK
<1> DEFINE Inv == AdapterInv /\ SceneInv /\ ReferenceInv /\ Counted /\ RestOK
<1>1. Init => Inv
  <2>1. Init => Counted
    BY DEF Init, Counted, Least, Held, One
  <2> QED
    BY <2>1, AdapterInit, SceneInit, ReferenceInit, RestInit
<1>2. Inv /\ [Next]_vars => Inv'
  BY AdapterStep, SceneStep, ReferenceStep, CountedStep, RestStep
<1>3. Inv => TypeOK
  BY TypesFollow
<1> QED
  BY <1>1, <1>2, <1>3, PTL DEF Spec
=============================================================================
