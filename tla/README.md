# Verification of the graphics engine

TLA+ models, TLC runs and TLAPS proofs for the program in this repository: a
Direct3D 12 renderer (`GraphicsEngine/`) that loads Wavefront OBJ models with
the single-header library `fast_obj/` and draws them in an endless frame loop.
`DirectXShaderCompiler/` is a vendored third-party compiler and is left aside.

Paths below are relative to `src/`; `G` is
`GraphicsEngine/GraphicsEngine/GraphicsEngine.cpp`, `F` is `fast_obj/fast_obj.h`.

## 1. The system

| component | code | state | operations |
|---|---|---|---|
| Frame loop | `G:31-188, 743-753`, `Thread/main.cpp` | `_frameCounter`, three `_frameData` (command allocator, fence, auto-reset event), `_commandList`, the graphics queue, the swap chain's present queue, window messages, `quit` | `Render`, `HandleMessages`, `WindowProc`, called from `main()`'s `while (true)` |
| Geometry loader | `G:656-737` | two buffers and their 16- and 32-bit counters | `LoadGeometry` |
| OBJ block reader | `F:1470-1535` | a buffer of two blocks, the carried line | loop of `fast_obj_read_with_callbacks` |
| OBJ mesh builder | `F:489-545, 661-940, 1211-1364, 1537-1552` | the flat arrays of `fastObjMesh`, the current object, group and material of `fastObjData` | `parse_buffer` and its `parse_*` handlers, `flush_object`, `flush_group` |
| Material library reader | `F:909-1207` | `materials`, the material under construction, `found_d` | `parse_usemtl`, `read_mtllib` |
| Growing arrays | `F:255-291` | size and capacity in front of the data | `array_push`, `array_realloc` |
| Number and name parsing | `F:342-940, 1211-1364` | the read pointer | `parse_int`, `parse_float`, `skip_*`, the reading part of every `parse_*`, the switch of `parse_buffer` |
| Window and device setup | `G:8-29, 190-376` | `bestAdapter`, the D3D and DXGI objects | `Engine()`, `Initialize`, `InitWindow`, `InitDX` |
| Scene | `G:378-590`, `Object.cpp` | `_objects`, `_geometry`, `_graphicsPipelineStates`, the GPU buffers | `LoadObject(s)`, `AddObject`, second half of `InitDX` |
| Shader loading | `G:593-655` | references to the bytecode blobs | `LoadShader` |
| Teardown | `G:129-171` | reference counts | the clean-up branch of `Render` |
| Mesh disposal | `F:1367-1395` | none | `fast_obj_destroy` |
| Math helpers, HLSL shaders, test | `MathFunctions.h`, `Math.h`, `*.hlsl`, `fast_obj/test` | none | pure functions |

How they interact. `main()` gives the engine its objects and calls
`Initialize`, which for each object calls `AddObject` -> `LoadGeometry` ->
`fast_obj_read`. The block reader cuts the file into whole lines and hands them
to the mesh builder; `LoadGeometry` walks the two parallel arrays
(`face_vertices`, `indices`) that come out; the result is copied into GPU
buffers. Then `main()` calls `Render` for ever. Everything up to there is
sequential. In the frame loop several actors run at once: the main thread, the
graphics queue (which executes asynchronously and signals fences), DXGI (which
blocks `Present1` when its queue is full), the driver that sets events, and
whoever posts or sends messages to the window.

What is hard, and what makes each part correct:

* Frame loop: a context may be reset only when the queue no longer executes
  from it, for every order of queue progress, signal and arming of the event;
  a wake-up must not be lost; the 32-bit counter overflows; the results of
  `Signal`, `SetEventOnCompletion` and the list's `Reset` are ignored; the
  clean-up must wait for the queue; a close must lead to it.
* Block reader: no byte lost, repeated or moved at a seam, none written
  outside the buffer, the last line completed, the loop ends.
* Mesh builder: five arrays grow independently and are related by counting
  only; objects, groups, materials and colours come in any order, and state
  survives from line to line and from buffer to buffer.
* Geometry loader: the loop that counts and the loop that fills must agree in
  unsigned and 16-bit arithmetic.
* Material library: a material is what its own lines say, and nothing that an
  earlier material or library left in `mtl` or `found_d`; a fallback exists only
  for a name that was not there; an index into `materials` stays valid.
* Growing arrays: the capacity covers every element for the width that
  `fastObjUInt` really has, and a failing allocation in one array says what the
  others still mean.
* Number and name parsing: every handler stops in front of the newline of its own
  line, however short or broken the line is, because the next `skip_line` would
  otherwise swallow the next one; what is read is what is written.
* Setup: `bestAdapter` is assigned only inside the comparison, and the array
  behind it has 16 places.
* Scene: the buffers are sized by the geometry loaded last, filled with the first
  and drawn with the counts of each.
* Shader loading and teardown: no object is used after its last reference is
  released, although the graphics queue is released twice and the bytecode outlives
  the result that it came in.

`PROJECT.json` lists every hazard at its line, with the properties that cover
it. One has none: a face without corners makes the loop of `G:681` turn nearly 2^32
times, undefined from its first read outside of the mesh on.

## 2. Modules

| module | models | runs |
|---|---|---|
| `FramePacing` | abstract: what the frame contexts promise | through `FrameLoop` |
| `FrameLoop` | the frame loop; implements `FramePacing` | `frame_loop_*` |
| `ObjReader` | the block reader | through `ObjText` |
| `ObjText` | `parse_buffer` as a reader of characters, composed with `ObjReader` | |
| `MCText` | `ObjText` with the lines of the run | `obj_reader` |
| `ObjLines` | what the lines of an OBJ file may be | |
| `ObjMesh` | abstract: the faces that the lines describe | through `MeshBuilder` |
| `MeshBuilder` | the line handlers; implements `ObjMesh` | |
| `MCMesh` | `MeshBuilder` with the face lines of the runs | `mesh`, `mesh_bad_corners` |
| `FlatArrays` | where in fast_obj's flat arrays a face begins: the partial sums of `face_vertices` | through `MeshBuilder` and `Geometry` |
| `Geometry` | `LoadGeometry` | `geometry*` |
| `MtlReader` | `read_mtllib` and `parse_usemtl` | `materials*` |
| `GrowArray` | `array_push`, `array_realloc` | `grow_array` |
| `Engine` | adapters, scene, shaders, draws and clean-up | |
| `MCEngine` | `Engine` with the symmetry of the model files | `engine_life` |
| `*Proofs` | theorems about the module they are named after | |

Each module has its parameters as CONSTANTS, bounds included, and one `.cfg` per
question gives them values; only `MeshBuilder` and `ObjText` have parameters that
a `.cfg` cannot express and so an MC module, as has the symmetry of `Engine`. Operators
marked *Variant* are plausible wrong versions of the definition below them;
nothing in a specification uses them. For each property of a run a variant is
known (`mutants` in `PROJECT.json`) with which TLC finds the property violated,
so no property holds by the shape of the model.

### FrameLoop

An action is one call of `Render` that another actor can observe or that may
fail: `BeginFrame` (:31-37), `WaitFrame` (`WaitForSingleObject`),
`ResetAllocator`, `ResetList`, `CloseList`, `ExecuteCommandLists`,
`SignalFrame`, `ArmFrame` (`SetEventOnCompletion`), `Present` (with
`_frameCounter++`), `HandleMessages`, and for the clean-up branch `BeginDrain`,
`DrainArm`, `DrainSignal`, `DrainWait`, `Release`. `GpuRetire` and `GpuSignal`
are the queue; `PostMessage` and `SendClose` the environment. `fence`, `event`
and `waiters` are Direct3D's side of `frameEndFence` and `frameEndEvent`, one
entry per context and one (`Wfi`) for the fence of the clean-up branch. What is
external is taken from how `Render` uses it: an auto-reset event, a fence whose
completed value sets the event at once, a queue that works in order, and a
present queue that blocks at `PresentLatency`.

Abstracted: the commands recorded into the list (no property depends on them),
the reference counts of what `Release` frees, and the kind of input messages.

### ObjReader

`ReadFile`, `ParseBuffer` and `LineTooLong` are the three things an iteration
can do. `parsed` is a history of everything `parse_buffer` was given, so the
properties compare it with the file. `shortReads`, chosen initially, tells the
library's own `file_read` from a callback that may return less than it is asked
for. `Init` takes any file of `Letters` and newlines; `Start(files)` is the initial
state for a set of files, so that the run of `ObjText` can choose some.

### ObjText

`HandOver` is `ParseBuffer` with what `parse_buffer` makes of the buffer: `Turns`
is its loop, `Dispatch` its switch, and an operator for each `skip_*` and `parse_*`
takes the buffer and the pointer and returns a value and the next pointer. A line
becomes its kind, its corners, whether `parse_face` got through it, whether a
vertex has colours, and a name. `parse_int` works in two's complement modulo
`IntModulus` (the overflow is undefined in C; wrapping is what the build does).
`parse_float` is followed only as far as it moves the pointer. The loops over the
lines of a buffer and over the corners of a face are each a function `next` from a
position to the next; `Path` is where such a loop has been, from its first position
to the one it stays at. `Value` sums up digits. Both are recursive functions, so
that the module can be proved about.

`LinesApart` and `AsWritten` read the same text a second time with nothing but
splitting at separators: `Split` keeps empty pieces (the fields of `1//2`), `Words`
does not, and `Decimal` is the value of digits without a limit. `AsWritten` speaks of
lines with a carriage return at most before the newline (`PlainLine`): the switch of
`parse_buffer` does not take it for a separator behind `v`, `f`, `o` and `g`, the
handlers do.

### MeshBuilder and ObjMesh

One action per kind of line, `EndBuffer` for the end of `parse_buffer`,
`EndFile` for the final flush. Vertex data is abstracted to the number of
elements and, for positions, to the colour of the line; numbers are taken as
parsed. `ObjMesh` keeps what the lines *say*: each face with its own corners
and with the object, group and material in force. The refinement mapping reads
the flat arrays back as a consumer of the mesh does, by summing up
`face_vertices` and by looking a face up in the object and group ranges;
`ObjMeshSpec` says that what is read back is what was said. A face before the
first `usemtl` carries material index 0 in the arrays and no material in
`ObjMesh`; `firstUse` is the history variable that tells those faces apart.
`BadCorners` lets a face line contain something that is no corner. `WellFormed`
restricts references to those that do not reach behind the first
element, which is what the library assumes without a check.

### Geometry

`CountFace` is an iteration of the first loop, `Allocate` the two `calloc`s and
the assert, `EmitTriangle` an iteration of the inner loop, `NextFace` the end of
the outer one, `Return` the final asserts. A vertex is the mesh index it was
copied from. All arithmetic is modulo `Uint16Modulus` or `Uint32Modulus`. A
store outside the allocation has no effect in the model (it is undefined in the
program); that none happens is what `WritesInBounds` says. `counted` and
`wrapped` are history variables.

A face can have no corner at all: `parse_face` (`F:738-788`) makes one of a line `f`
with nothing behind it. The inner loop then turns until `j` reaches 2^32 - 1 and
reads and writes far outside of the arrays. The model lets it, and shows that the
asserts of a Debug build need not notice: the count of the first loop and what the
second has emitted are lower by the same six, modulo 2^32 (a face of four corners and
one of none pass with no index at all). `DrawsTheFan` leaves such meshes out
(`NoEmptyFace`), in a Release build all with a face of fewer than two corners.

### MtlReader

`OpenLibrary` and `CloseLibrary` are the two ends of `read_mtllib`, `NewMtl`,
`SetAttribute`, `ReadD` and `ReadTr` its lines, `UseMtl` is `parse_usemtl` in the
OBJ file between two libraries. `said` is a history of the lines, which the
properties read again in a second way: `About` says which lines belong to which
`newmtl`. That includes the lines in front of the first `newmtl` of a library,
which the code leaves in `mtl` for it. `d` and `Tr` share a field; all other
attributes, colours and texture maps, are one handler with the attribute as
parameter.

### GrowArray

`ParseFace` is what the end of `parse_face` does to the arrays with an element per
face. The size of an array is the length of its data, which is what the header
counts. Any of the reallocations that a face asks for may fail; `array_push` then
has already stored the null pointer. The mask `~15u` has the width of
`unsigned int` (`IntModulus`), the rest that of `fastObjUInt` (`UintModulus`):
`FAST_OBJ_UINT_TYPE` (`F:84`) may make the second wider than the first.

### Engine

One machine, from `main()` to the last `Release`; `pc` is the place in the
code. `LoadObject` is main()'s call before `Initialize`. `EnumAdapter` is an
iteration of the loop over the adapters, `CreateDevice` what follows up to the
first `AddObject`. `LoadGeometry`, `LoadShader` for each stage and
`CreatePipelineState` are the parts of `AddObject`; `FillBuffers` and
`CreateViews` are the rest of `InitDX`, `DrawObjects` the draw loop of `Render`,
`BeginCleanUp`, `ReleaseNext` and `Exit` its clean-up branch (its waits are in
`FrameLoop`). `EVALUATE` and a failing assert lead to `broken`, a shader with
errors to `exited`. `build` says whether the asserts are checked.

An object is the model file it was loaded from, a vertex its model and position.
`LoadGeometry` takes the number of indices of a model as given (`indexCount`, any
number, although the loops emit three at a time); what the loops make of a mesh is in
`Geometry`. It breaks where there is no mesh or an assert fails, the one on
`UINT16_MAX` among them, which a Release build does not check. The geometry then has
the 32-bit `indexCount`, the 16-bit `vertexCount`, which has started over, the vertices
that were stored last (`vertices`) and indices of 16 bits (`indices`). `SizingModel` is the
geometry that both buffers are sized by, `Copied` what is left of the first one's
data in them. Reading `bestAdapter` unassigned, or after the loop has stored behind
`adapter`, gives any adapter. A copy behind the end of a buffer is undefined: the
program breaks, or goes on with the buffer as it is and has changed memory of others,
which the model does not have. A GPU read outside a buffer returns nothing.
`IndicesSelectVertices` relates the two buffers: whatever was loaded, no index in one
selects a place of the other that does not exist or was never written to, because the
copies are cut at the same place and what is behind them is zero. `DrawnAsLoaded` needs
more: the first model's data must fit (`Fits`).
`references` counts what each COM object is held by: `CreateSwapChainForHwnd`
takes a reference to the queue, and the second release of the queue (`G:164`) gives
that one back in the swap chain's place. `UsesLiveObjects` says that no `Release`
of the branch comes to an object without a reference. It says nothing of what
objects release among themselves: the swap chain, released after the queue, finds its
own reference to the queue gone, and the count of the model then falls to -1, which
`TypeOK` allows to the queue alone. What
DXGI does there is external, and no comment or test of the program speaks of it. The
adapters of `EnumAdapters`, the root signature's blob, the vertex, index and camera
buffers, their descriptor heap, the back buffers and the bytecode blobs are never
released; the process ends behind the branch. Of the compiler only how an output of a result is counted is
taken (`DirectXShaderCompiler/include/dxc/Support/dxcapi.impl.h`).

## 3. Runs

| run | question | result |
|---|---|---|
| `frame_loop_wrap` | three contexts, three presents in flight, a counter that overflows again and again, two messages: is a wait ever lost, what saves the contexts after an overflow, does a close always end the program? | `TypeOK`, `NoLostWakeup`, `EarlyOnlyWhenFull`, `WaitEnds`, `CloseLeadsToExit` hold |
| `frame_loop_failures` | ten frames in which any call may fail, checked or ignored, and WM_CLOSE may be sent: does the loop implement `FramePacing`? | `PacingSpec`, `AllocatorIdle`, `SubmittedListIsCurrent`, `ReleaseOnlyWhenIdle`, `RenderTargetIsBackBuffer` and the inductive invariant hold |
| `frame_loop_exit` | does the program end only through the clean-up branch? | `CleanExit` is violated (finding 1) |
| `obj_reader` | all files of up to 5 characters, with and without short reads, and all files of up to three lines of 23 forms, in blocks of 10: what does `parse_buffer` make of the file? | `WithinBuffer`, `InOrder`, `CompleteWhenLinesFit`, `LettersInOrder`, `LinesApart`, `AsWritten`, `Terminates` hold |
| `mesh` | every mixture of six lines of any kind, cut into buffers anywhere | `FacesTiled`, `IndexOffsetsAgree`, `ColorsAligned`, `TypeOK`, `ObjMeshSpec` hold |
| `mesh_bad_corners` | a face line with something that is no corner | `IndexPerFaceVertex` is violated (finding 3) |
| `geometry` | all meshes of up to four faces of 0 to 5 corners, both builds | `DrawsTheFan`, `WritesInBounds`, `CountsAgree`, `TypeOK` and the inductive invariant hold |
| `geometry_degenerate` | a face with one corner | `IndexAssert` is violated (finding 2) |
| `engine_life` | up to three adapters and four objects of two models, both builds, any call failing | `DeviceOnBestAdapter`, `UsesLiveObjects`, `IndicesSelectVertices`, `DrawnAsLoaded`, `TypeOK` hold |
| `materials` | every mixture of seven lines of an OBJ file and its libraries | `FallbackOnlyIfMissing`, `MaterialInForce`, `MaterialsAsDescribed`, `TypeOK` hold |
| `materials_dissolve` | a `Tr` line behind the `d` line of another material | `TrIgnoredOnlyAfterD` is violated (finding 4) |
| `grow_array` | two arrays that grow five times and run out of memory at any of them | `WithinCapacity`, `ConsecutiveToTheLast`, `ParallelUnlessFailed` hold |

Bounds, and why they are enough.

* `CounterModulus = 13` stands for 2^32: 13 % 3 = 1 = 2^32 % 3, so an overflow
  shifts the contexts as it does in the program, and 13 counts let every
  context be used more than four times between two overflows. `FrameLimit`
  equal to the modulus lets the counter run on for ever (the state space is a
  loop); smaller, it stops the run before the overflow. `InboxLimit` 2 puts a
  message before and behind a close. The failures run stops at 10 frames, when
  every context has been used three times, and the exit run at 3.
* `PresentLatency = 3` is DXGI's default. After an overflow the events are set too
  early and the loop relies on the present queue alone. A context can then really
  be reset while the queue executes from it, in this run too;
  `EarlyOnlyWhenFull` says that this takes as many queued presents as there are
  contexts, so a latency below `_bufferCount` would rule it out.
* `BufferSize = 10`: the lines of `MCText` have up to 9 characters and therefore fit, but
  for `f 3/ -2/-1`, which has one too many (`LinesFit`): a file with it may be cut off,
  and `CompleteWhenLinesFit` says nothing of it. In any
  three lines a seam falls anywhere, and files of up to 5 characters
  run over the seams when reads are short (`FileLimit`). Their `FileLetters` are what
  blank lines, faces, corners and separators are made of. `IntModulus = 32` lets a number of two digits
  overflow (19) or not (12).
* `engine_life`: `AdapterSlots = 3` with up to three adapters fills the array, and
  `MemoryLimit` 2 gives adapters without memory, equal and better ones in any
  order. Two models of up to four indices and four objects make the last
  geometry smaller, equal or larger than the first and those between.
  `Uint16Modulus = 3` makes `geometryIndex` wrap with the fourth object; models of
  three and four indices are what a Debug build stops, and what leaves a Release
  build with none or one vertex. The models are symmetric.
* Six lines in the mesh run: a violation of the relations between the arrays
  needs a line that starts a range, one that moves the arrays, one that ends the
  range and one that reads it, and relative references need up to two elements
  before them. The face lines of `MCMesh` have no, one and two corners, so that
  faces and indices are counted differently, and refer to elements from either
  end with and without attributes. A buffer may end after any line. Colours and
  materials are symmetric.
* Faces with no corner and with one are those that take indices away, one with two
  adds none, and up to four faces put each of them beside triangles and larger fans.
  `Uint16Modulus = 16` and `Uint32Modulus = 64` with up to 36 indices: the
  16-bit counter overflows, and UINT16_MAX is a multiple of three in both
  (15 and 65535), so the last triangle that fits ends at the same place.
* Seven lines in the materials run: the shortest file in which a material could
  take over something of another library has `mtllib`, `newmtl`, an attribute,
  `mtllib`, `newmtl`, an attribute and a `usemtl`. Two names make duplicates,
  fallbacks that a later library defines, and misses. With `One = 3` the opacity
  1 differs from that of `Tr 1` and both from the default.
* `PushLimit = 75` is the most that `LimitAssumption` allows for `IntModulus`
  128: one and a half times the size and the rounding stay below it. Above, the
  mask and the growth wrap; in the program that is some 2.8 billion elements.
  A `fastObjUInt` twice as wide (256) stands for 64 bits against 32.

Deadlock is checked everywhere but in `frame_loop_failures`, where an ignored
failure of `Signal` or `SetEventOnCompletion` really leaves `Render` waiting
for ever.

Fairness. `WF(MainThread)`: `main()` calls `Render` in an endless loop and
nothing in the process suspends the thread; a blocked call is a disabled
action. `WF(GpuStep)`: the driver executes what was submitted; a hung or
removed device is not modelled. Users and other programs are not fair: nobody
has to send a message. The loop of `ObjReader` is weakly fair as ordinary
sequential code (`TextSpec`: `ReadFile`, `ParseBuffer` or `LineTooLong`). The other specifications have no liveness property checked.

## 4. Findings

1. `G:184`: when WM_CLOSE is *sent* by another thread, `PeekMessage` delivers
   it and then returns WM_QUIT; `HandleMessages` calls `exit(0)` before `Render`
   can take the branch "Clear memory on application end" (`G:130`).
2. `G:667`: a face with one corner adds (1 - 2) * 3 in unsigned arithmetic; the
   count is too small for what the second loop writes and the assert at `G:728`
   fails.
3. `F:766`: `parse_face` pushes an index per corner as it goes and returns
   without a face at a corner it cannot read, so `indices` is not "one element
   for each face vertex" (`F:137`) and every later face is read from the corners
   of others.
4. `F:1111`: "Ignore Tr if we've already read d" is decided by `found_d`, which
   `newmtl` does not reset with the material: a `d` line makes `read_mtllib`
   ignore the `Tr` lines of every later material of the library, which stay
   opaque.

## 5. Theorems

Proved with TLAPS for every value of the constants that satisfies the
assumptions named in the modules: the typing of the parameters, for the arrays
also a limit on their size, and where a theorem says so a run that ends before
the frame counter overflows.

* `FrameLoopProofs`. `TypeCorrect`. `AllocatorIdleTheorem`,
  `SubmittedListTheorem` and `ReleaseTheorem` follow from `Inductive`, the
  invariant `IInv`. `AllocatorIdle` alone is not inductive: that the context is
  idle after its wait needs `IdleWhenSignalled` (a set event means idle); that
  a set event means idle after a signal needs `QueueOrder` (of a context the
  queue holds one execution, then one signal), and after an immediate
  `SetEventOnCompletion` needs `ArmedInTime` and `ValuesBounded` (no fence is
  ahead of the frames begun); `EventConsumed` and `WaitersDue` rule out a stale
  waiter that would set the event for an older signal. These parts are claimed
  until the counter overflows (`wrapped`), because they are false afterwards.
  `WfiInv` says that the clean-up's signal is the last work the queue gets,
  which holds across the overflow and gives `ReleaseOnlyWhenIdle`; `ListInv`
  gives `SubmittedListIsCurrent` although a failed `Reset` goes unnoticed.
  `WakeupTheorem`: no wait is lost, across the overflow and with ignored failures
  left aside as the property does. A context that is waited for has its event set
  or a waiter that something in the queue will serve (`WakeInv`); this holds
  because the last signal the queue has for a fence is the one the fence was last
  armed for (`LastSignalIsOwn`), and later values only come after it.
  `RenderTargetTheorem`: the swap chain's back buffer is the frame index, since
  both advance by one modulo `BufferCount` with a successful `Present`
  (`TargetInv`). The step of the remainder (`NextRemainder`) is proved from
  the uniqueness of quotient and remainder.
  `RefinementTheorem`: with `FrameLimit < CounterModulus`, `Spec => PacingSpec`,
  step by step from the same invariant, and `ExclusiveTheorem`: what `FramePacing`
  promises then holds of the loop, for any set of contexts.
  `EarlyTheorem` says what is left after an overflow: a context is recorded into
  while the queue executes from it only with as many presents queued as there
  are contexts. `NeverEarlyTheorem` draws the conclusion: with
  `PresentLatency < BufferCount` it never is. The invariant `LapInv` describes the
  queue lap by lap of the counter: its works are those of consecutive frames modulo
  `CounterModulus`, each an execution, a signal and a flip (`InTurn`); once a frame
  of this lap has been signalled, its fence has the value of such a frame
  (`Follows`); an event has one waiter at most, and none while it is set
  (`OneWaiter`); and the last frames before an overflow are waited for with their own
  values (`EndOfLap`). Both assume `WideCounter`: no `Signal` fails silently, and the
  counter has at least `PresentLatency + 2 * BufferCount` values. The program's
  has 2^32, with at most 16 queued presents and three contexts; below the bound a
  fence value of the lap before passes for one of this lap.
* `FlatArraysProofs`. The library's induction theorems take an operator as
  parameter and cannot be used here, but its theorem on well-founded relations
  takes sets: `LeastNumber` and `SetInduction` follow from it, and `Recursion`, that a
  function defined from its predecessor exists. With these the sums and flattened
  sequences that the properties are written with can be reasoned about:
  `SumsFacts`, `SumsAppend`, `SumsMonotone`, `SumsConstant`, `FlattenFacts` (the c-th
  element of the k-th sequence stands behind the lengths of the k - 1 before it),
  `FlattenAppend` and `FlattenConcat`. They say nothing of the program: they are what
  the other proofs rest on.
* `ObjReaderProofs`. `WithinBufferTheorem`: for every block size, file and
  sequence of read sizes, because a carried line has no newline in it and is
  therefore shorter than a block (`CarryInv`). `InOrderTheorem`: what has been
  parsed, what is in the buffer and the rest of the file always make the file
  (`WholeInv`). `CompleteTheorem`: with lines that fit and full reads nothing is
  left at the end, because the loop ends only behind the last block and what it
  leaves in the buffer there contains no line (`SeamInv`). `LettersTheorem` needs
  no full reads: the letters of what is parsed, buffered and unread are those of
  the file (`LettersInv`), since only newlines are put in between.
  `VariantTheorem`: whatever the reads return, every turn of the loop lowers
  `Variant`, a natural number; it is the part of `Terminates` that needs no fairness.

  The rest is about `ObjText`, for files and lines of any length.
  `TextReaderTheorem`: with `parse_buffer` behind it the block reader is still the
  block reader. `SeamlessTheorem`, `WholeFileTheorem` and `LinesApartTheorem` rest
  on one idea: what an operator of the parser returns depends on the text up to the
  newline of its line only. `Same(b, c, d, p, e)` says that buffer `b`, shifted by
  `d`, and buffer `c` have the same characters from `p` up to a newline at `e`; there is a
  lemma for each operator that its results are the same and its pointer stays at or
  before that newline (`SameTurn` for the whole switch). Two walks
  along the same `next` are one (`OneWalk`), so the turns of two buffers of whole
  lines are the turns of both in one (`TurnsConcat`). That makes `Seamless` inductive:
  `lines` is always `Turns(parsed)` although it was read block by block
  (`TextInv`). With `CompleteTheorem` the size of the blocks then makes no
  difference to a whole file. `LinesApart` follows when the newlines are enumerated
  (`Rising`), each turn between two of them.
  `AsWrittenTheorem` compares the two readings of a line: `Value` modulo `IntModulus`
  is `Decimal` in the range of int; words and fields are enumerated like the
  lines (`WordsAre`, `FieldsAre`); `FieldRead` and `CornerInWord` say what `parse_int`
  and `parse_face` make of them, `FaceOfWords`, `VertexOfWords` and `NameOfWords` what
  the switch makes of a line.
* `MeshBuilderProofs`. `FacesTiledTheorem`, `ColorsAlignedTheorem` and
  `TypeCorrect`, for files of any length and any cut into buffers.
  `ColorsAligned` is strengthened with what holds inside a buffer (`ColorInv`):
  once a position has a colour, the array reaches at least to it.
  `IndexPerFaceVertexTheorem`, `IndexOffsetsTheorem` and `ObjMeshTheorem` are for
  files without the face lines of finding 3 (`BadCorners = FALSE`), with which they
  are false. `IndexInv`: `indices` is as long as the sum of `face_vertices`, and the
  index offset of every finished and current range is the sum in front of its first
  face. `ObjMeshTheorem` is the refinement: reading the arrays back after a
  line is what `ObjMesh` makes of the line. It needs that the finished objects and
  groups end where the current one begins and that stored materials exist
  (`ReadBackInv`), so that no face changes its owner when a range is flushed or an empty one dropped.
* `GeometryProofs`. `WritesInBoundsTheorem` and `CountsAgreeTheorem`: the
  invariant relates the position of the second loop to the partial sums of the
  first (`CountInv`, `EmitInv`). Both properties speak of meshes without degenerate
  faces whose count stays below 2^32, which is where the code is right.
  `TypeCorrect` needs neither. `DrawsTheFanTheorem`: `FanInv` says that the
  vertices written so far are the beginning of the fans, `baseIndex` is the sum of the
  corners of the faces done, and the count is right but for three indices, in 32
  bits, for each face with one corner. It is for meshes whose number of
  corners, three times over, stays below 2^32 (`CornersFit`): beyond, the count in a
  Debug build could come round to a multiple of 2^32 and pass the asserts. The
  invariant is that of meshes whose faces all have a corner (`FewCorners`), which
  is a premise of `DrawsTheFan` in a Debug build too (`NoEmptyFace`).
* `MtlReaderProofs`. `FallbackTheorem` and `MaterialInForceTheorem`, for files of
  any length. The invariant adds that the material under construction is never
  a fallback, so that a push cannot break either, and that no push moves the
  materials that are there. `TypeCorrect`. `MaterialsTheorem`: every `newmtl` line has
  its material, as the lines about it say. What `MaterialsAsDescribed` says is not
  inductive: before the first `newmtl` line of a library there is no material yet
  that the lines are about, and whether a `Tr` counts depends on `found_d`. `Reading`
  ties both to the lines since the last `mtllib` line; each kind of line is a lemma
  (`PrefixRead` and `LastRead` in front of and behind the first `newmtl`,
  `FirstDescribed`, and `DescribedKept` for the materials that are complete because a
  line stands behind them that ends what is about them).
* `EngineProofs`. `DeviceTheorem`: after each adapter the choice is the best so
  far (`AdapterInv`); the theorem is for machines whose adapters fit the array. `IndicesTheorem` and
  `DrawnTheorem`, for any number of objects, models and sizes: geometries follow
  the objects one by one (`InStep`), in a Debug build those that 16 bits count
  (`Asserted`), the buffers have the sizes of one of them (`SizingLoaded`) and hold what
  fits of the first (`Filled`). `BuffersAgree` is then a matter of the two copies: behind
  the first model's data the index buffer is zero, and vertex 0 is there. As
  `DrawnAsLoaded` does, `DrawnTheorem` speaks of the vertices only if the first model
  fits (`Fits`).
  `UsesLiveTheorem`: `ReferenceInv` says of every object that is still to be released
  that it is held, and of the queue, while two of its releases are to come, that it
  is held twice (`Left`); what is to be released is followed as a flattened
  sequence. `TypeCorrect`: of the reference counts it needs that the queue's is at
  least the swap chain's less one (`Counted`), for the swap chain takes one of the
  queue's along; of a frame, that what it fetches has been copied (`BuffersOK`).
* `GrowArrayProofs`. `WithinCapacityTheorem`, `ConsecutiveTheorem` and
  `ParallelTheorem`, for every width of both types and every pattern of failures,
  as long as `LimitAssumption` holds. The inductive part (`Sound`) bounds the
  capacity from above, `2 * capacity <= 3 * (size + 1) + 30`: no growth reaches
  the width of `unsigned int`, so that rounding is rounding up.

Only model-checked: `WaitEnds`, `CloseLeadsToExit` and `Terminates`, because the
prover does not reason about fairness. The four violated properties have
counterexamples. Every other property of a run is a theorem.

## 6. Not modelled

Device removal and hung GPUs, several windows, failing allocations in
`fast_obj` other than in its arrays, malformed references that reach outside the
arrays, the values of floating-point numbers, the copies of names, the recorded
commands, the fields of descriptors. `fast_obj_destroy` and the math helpers are never called
by the engine. `DirectXShaderCompiler/` is by far the largest directory and is a
vendored copy of another project: the engine calls it through one function, and
no model of this program can say anything about it but how that call is used.
That is why the modelled lines are a small share of the files in the repository and nearly
all of the program's own. `components` in `PROJECT.json` gives the reason for each
part.

## 7. Plan

Done: the frame loop with its abstract specification, because it is the behaviour
with real concurrency; the path of the data into the engine (`ObjReader`,
`ObjText`, `MeshBuilder` with `ObjMesh`, `Geometry`, `MtlReader`, `GrowArray`);
the life of the engine's objects (`Engine`); their runs and proofs.

Next, in this order:

1. `ObjPipeline`: the mesh builder and `LoadGeometry` composed, so that the triangles
   drawn are compared with the lines of the file.
2. The abstract specification of the block reader (a file is a sequence of lines
   handed over once each) and its refinement.
