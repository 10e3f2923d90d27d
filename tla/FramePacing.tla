---------------------------- MODULE FramePacing ----------------------------
(***************************************************************************)
(* What the frame loop of Engine::Render promises: the frame contexts      *)
(* (gpu_frame_data_t: command allocator, fence, event) pass between the    *)
(* processor, which records into at most one of them, and the graphics     *)
(* queue, which executes from those submitted to it.  A context is never   *)
(* on both sides, and the engine is closed only when both have let go.     *)
(* FrameLoop implements this module.                                       *)
(***************************************************************************)
CONSTANT Contexts   \* the entries of _frameData

VARIABLES
    cpu,      \* the context whose allocator the main thread records into
    gpu,      \* the contexts whose commands the graphics queue still executes
    closed    \* the engine has released its objects

vars == <<cpu, gpu, closed>>

TypeOK ==
    /\ cpu \subseteq Contexts
    /\ gpu \subseteq Contexts
    /\ closed \in BOOLEAN

Init == cpu = {} /\ gpu = {} /\ closed = FALSE

\* The main thread takes a context that the queue has finished with.
Acquire(i) ==
    /\ cpu = {} /\ i \notin gpu /\ ~closed
    /\ cpu' = {i}
    /\ UNCHANGED <<gpu, closed>>

\* It hands the recorded commands to the queue.
Submit(i) ==
    /\ cpu = {i}
    /\ cpu' = {}
    /\ gpu' = gpu \cup {i}
    /\ UNCHANGED closed

\* The queue has executed them.
Retire(i) ==
    /\ i \in gpu
    /\ gpu' = gpu \ {i}
    /\ UNCHANGED <<cpu, closed>>

\* A failed call stops the main thread while it records.
Abandon ==
    /\ cpu # {}
    /\ cpu' = {}
    /\ UNCHANGED <<gpu, closed>>

Close ==
    /\ cpu = {} /\ gpu = {}
    /\ closed' = TRUE
    /\ UNCHANGED <<cpu, gpu>>

Next ==
    \/ \E i \in Contexts : Acquire(i) \/ Submit(i) \/ Retire(i)
    \/ Abandon
    \/ Close

Spec == Init /\ [][Next]_vars

\* No context is recorded into while the queue executes from it, one context
\* is recorded into at a time, and nothing is in use once the engine closed:
\* the reason Engine::Render keeps _bufferCount frame contexts.
Exclusive ==
    /\ cpu \cap gpu = {}
    /\ \A i, j \in cpu : i = j
    /\ closed => cpu = {} /\ gpu = {}
=============================================================================
