----------------------------- MODULE FrameLoop -----------------------------
(***************************************************************************)
(* Engine::Render and what it interacts with: the main thread that calls   *)
(* it in an endless loop, the Direct3D graphics queue that executes what   *)
(* is submitted to it, the fences and auto-reset events that tie the two   *)
(* together, the swap chain, the window's messages and the way out of the  *)
(* program.                                                                *)
(*                                                                         *)
(* One action is one call of Render that another actor can observe or that *)
(* can fail.  Entry i of _frameData is context i: its frameEndFence and    *)
(* frameEndEvent are fence[i] and event[i].  Index Wfi of the same two     *)
(* functions is the fence and event pair of the clean-up branch.           *)
(***************************************************************************)
EXTENDS Integers, Sequences, FiniteSets

CONSTANTS
    BufferCount,      \* _bufferCount, 3 in GraphicsEngine.h
    CounterModulus,   \* 2^32: the values of the uint32_t _frameCounter
    PresentLatency,   \* presents DXGI queues before Present1 blocks
    FrameLimit,       \* bound of a run: no frame starts at this counter value
    InboxLimit,       \* bound of a run: posted messages waiting
    EvaluateFails,    \* may a call inside EVALUATE return an error?
    SilentFailures,   \* the calls that may fail with their HRESULT ignored
    SentClose         \* may another thread send WM_CLOSE (not post it)?

ASSUME BufferCountAssumption == BufferCount \in Nat \ {0}
ASSUME CounterModulusAssumption == CounterModulus \in Nat \ {0}
ASSUME PresentLatencyAssumption == PresentLatency \in Nat \ {0}
ASSUME FrameLimitAssumption == FrameLimit \in 1 .. CounterModulus
ASSUME InboxLimitAssumption == InboxLimit \in Nat
ASSUME FailuresAssumption ==
    /\ EvaluateFails \in BOOLEAN
    /\ SilentFailures \subseteq {"listReset", "signal", "arm"}
    /\ SentClose \in BOOLEAN

VARIABLES
    pc,               \* where the main thread is in Render
    bufferIndex,      \* local of Render
    frameCounter,     \* _frameCounter
    wrapped,          \* history: _frameCounter has overflowed
    fence,            \* completed value of every fence
    event,            \* is the auto-reset event signalled?
    waiters,          \* values SetEventOnCompletion still waits for
    graphicsQueue,    \* submitted to _graphicsQueue and not yet executed
    listOpen,         \* _commandList is recording
    listAllocator,    \* the context whose allocator backs _commandList
    backBuffer,       \* the swap chain's current back buffer
    inbox,            \* messages posted to the window
    sentPending,      \* a sent WM_CLOSE waits for the thread to peek
    quit,             \* the static bool of GraphicsEngine.cpp
    released          \* the clean-up branch has released the objects

mainVars == <<pc, bufferIndex, frameCounter, wrapped>>
syncVars == <<fence, event, waiters, graphicsQueue>>
listVars == <<listOpen, listAllocator>>
windowVars == <<inbox, sentPending, quit>>
vars == <<mainVars, syncVars, listVars, backBuffer, windowVars, released>>

-----------------------------------------------------------------------------

Contexts == 0 .. BufferCount - 1
Wfi == BufferCount
Fences == 0 .. BufferCount

\* What the graphics queue holds: the commands of a frame with the context
\* that backs them, Signal(fence, value), or the flip of a Present1.
Execution == [op : {"execute"}, ctx : Contexts]
FenceSignal == [op : {"signal"}, ctx : Fences, value : Nat]
Flip == [op : {"present"}]
Work == Execution \cup FenceSignal \cup Flip

IsExecutionOf(w, i) == w.op = "execute" /\ w.ctx = i
IsSignalOf(w, f) == w.op = "signal" /\ w.ctx = f
InFlight(i) == \E k \in DOMAIN graphicsQueue : IsExecutionOf(graphicsQueue[k], i)
IsFlip(w) == w.op = "present"
QueuedPresents == Cardinality({k \in DOMAIN graphicsQueue : IsFlip(graphicsQueue[k])})

Message == {"input", "close"}

Recording == {"reset", "list", "close", "execute"}
Draining == {"wfiArm", "wfiSignal", "wfiWait", "release"}
Locations == {"render", "wait", "signal", "arm", "present", "pump"}
                 \cup Recording \cup Draining \cup {"exited", "broken"}

\* Variant: every event is created signalled.
AllSignalledAtCreation(f) == TRUE

\* CreateEvent's bInitialState: TRUE for the frames, FALSE for wfiEvent.
SignalledAtCreation(f) == f # Wfi

Init ==
    /\ pc = "render"
    /\ bufferIndex = 0
    /\ frameCounter = 0
    /\ wrapped = FALSE
    /\ fence = [f \in Fences |-> 0]
    /\ event = [f \in Fences |-> SignalledAtCreation(f)]
    /\ waiters = [f \in Fences |-> {}]
    /\ graphicsQueue = <<>>
    /\ listOpen = FALSE
    /\ listAllocator = 0
    /\ backBuffer = 0
    /\ inbox = <<>>
    /\ sentPending = FALSE
    /\ quit = FALSE
    /\ released = FALSE

-----------------------------------------------------------------------------
(* The calls shared by the frame branch and the clean-up branch.           *)

\* Variant: the event is created with manual reset.
WaitForManualEvent(f) == event[f] /\ UNCHANGED event

\* WaitForSingleObject(event, INFINITE) on an auto-reset event.
WaitForEvent(f) ==
    /\ event[f]
    /\ event' = [event EXCEPT ![f] = FALSE]

\* Variant: only a completion still to come sets the event.
SetEventOnLaterCompletion(f, value) ==
    waiters' = [waiters EXCEPT ![f] = @ \cup {value}] /\ UNCHANGED event

\* Variant: armed with the counter, where the queue signals the counter + 1.
SetEventOnPreviousValue(f, value) ==
    IF fence[f] >= value - 1
    THEN event' = [event EXCEPT ![f] = TRUE] /\ UNCHANGED waiters
    ELSE waiters' = [waiters EXCEPT ![f] = @ \cup {value - 1}] /\ UNCHANGED event

\* fence->SetEventOnCompletion(value, event): a value already completed sets
\* the event at once.
SetEventOnCompletion(f, value) ==
    IF fence[f] >= value
    THEN event' = [event EXCEPT ![f] = TRUE] /\ UNCHANGED waiters
    ELSE waiters' = [waiters EXCEPT ![f] = @ \cup {value}] /\ UNCHANGED event

\* Variant: the queue signals the counter, where the wait is for the counter + 1.
QueueSignalPrevious(f, value) ==
    graphicsQueue' = Append(graphicsQueue, [op |-> "signal", ctx |-> f, value |-> value - 1])

\* _graphicsQueue->Signal(fence, value)
QueueSignal(f, value) ==
    graphicsQueue' = Append(graphicsQueue, [op |-> "signal", ctx |-> f, value |-> value])

\* A call whose HRESULT nobody looks at does nothing when it fails.
FailsSilently(call) == call \in SilentFailures

\* __debugbreak() of EVALUATE: the program does not go on.
Break == EvaluateFails /\ pc' = "broken"

-----------------------------------------------------------------------------
(* One frame.                                                              *)

\* Variant: the context of the next frame.
NextFrameIndex(counter) == (counter + 1) % BufferCount

FrameIndex(counter) == counter % BufferCount

BeginFrame ==
    /\ pc = "render" /\ ~quit
    /\ frameCounter < FrameLimit
    /\ bufferIndex' = FrameIndex(frameCounter)
    /\ pc' = "wait"
    /\ UNCHANGED <<frameCounter, wrapped, syncVars, listVars, backBuffer, windowVars, released>>

WaitFrame ==
    /\ pc = "wait"
    /\ WaitForEvent(bufferIndex)
    /\ pc' = "reset"
    /\ UNCHANGED <<bufferIndex, frameCounter, wrapped, fence, waiters, graphicsQueue,
                   listVars, backBuffer, windowVars, released>>

\* commandAllocator->Reset(): recycles the memory of the context's commands.
ResetAllocator ==
    /\ pc = "reset"
    /\ pc' = "list" \/ Break
    /\ UNCHANGED <<bufferIndex, frameCounter, wrapped, syncVars, listVars, backBuffer,
                   windowVars, released>>

\* _commandList->Reset(allocator): its result is not stored, and the EVALUATE
\* that follows looks at the allocator's once more.
ResetList ==
    /\ pc = "list"
    /\ \/ listOpen' = TRUE /\ listAllocator' = bufferIndex
       \/ FailsSilently("listReset") /\ UNCHANGED listVars
    /\ pc' = "close"
    /\ UNCHANGED <<bufferIndex, frameCounter, wrapped, syncVars, backBuffer, windowVars, released>>

\* Variant: the result of Close() is not looked at.
CloseListUnchecked ==
    /\ pc = "close"
    /\ listOpen' = FALSE
    /\ pc' = "execute"
    /\ UNCHANGED <<bufferIndex, frameCounter, wrapped, syncVars, listAllocator, backBuffer,
                   windowVars, released>>

\* Recording goes to the list; Close() returns an error when the list was not
\* recording, and EVALUATE stops there.
CloseList ==
    /\ pc = "close"
    /\ \/ listOpen /\ listOpen' = FALSE /\ pc' = "execute"
       \/ ~listOpen /\ UNCHANGED listOpen /\ pc' = "broken"
       \/ Break /\ UNCHANGED listOpen
    /\ UNCHANGED <<bufferIndex, frameCounter, wrapped, syncVars, listAllocator, backBuffer,
                   windowVars, released>>

ExecuteCommandLists ==
    /\ pc = "execute"
    /\ graphicsQueue' = Append(graphicsQueue, [op |-> "execute", ctx |-> listAllocator])
    /\ pc' = "signal"
    /\ UNCHANGED <<bufferIndex, frameCounter, wrapped, fence, event, waiters, listVars,
                   backBuffer, windowVars, released>>

SignalFrame ==
    /\ pc = "signal"
    /\ \/ QueueSignal(bufferIndex, frameCounter + 1)
       \/ FailsSilently("signal") /\ UNCHANGED graphicsQueue
    /\ pc' = "arm"
    /\ UNCHANGED <<bufferIndex, frameCounter, wrapped, fence, event, waiters, listVars,
                   backBuffer, windowVars, released>>

ArmFrame ==
    /\ pc = "arm"
    /\ \/ SetEventOnCompletion(bufferIndex, frameCounter + 1)
       \/ FailsSilently("arm") /\ UNCHANGED <<event, waiters>>
    /\ pc' = "present"
    /\ UNCHANGED <<bufferIndex, frameCounter, wrapped, fence, graphicsQueue, listVars,
                   backBuffer, windowVars, released>>

\* Variant: a counter that does not overflow.
AdvanceUnbounded ==
    /\ frameCounter' = frameCounter + 1
    /\ UNCHANGED wrapped

\* _frameCounter++ on 32 bits.
AdvanceCounter ==
    /\ frameCounter' = IF frameCounter + 1 = CounterModulus THEN 0 ELSE frameCounter + 1
    /\ wrapped' = (wrapped \/ frameCounter + 1 = CounterModulus)

\* _frameCounter++ and Present1, which blocks while the presents queued are as
\* many as DXGI allows.
Present ==
    /\ pc = "present"
    /\ QueuedPresents < PresentLatency
    /\ AdvanceCounter
    /\ \/ /\ graphicsQueue' = Append(graphicsQueue, [op |-> "present"])
          /\ backBuffer' = (backBuffer + 1) % BufferCount
          /\ pc' = "pump"
       \/ Break /\ UNCHANGED <<graphicsQueue, backBuffer>>
    /\ UNCHANGED <<bufferIndex, fence, event, waiters, listVars, windowVars, released>>

-----------------------------------------------------------------------------
(* HandleMessages: one PeekMessage a frame.  WM_CLOSE, sent or posted, ends *)
(* in WindowProc's WM_DESTROY: the window's messages are discarded, WM_QUIT *)
(* is posted to the thread and quit is set.  PeekMessage delivers sent      *)
(* messages first, then returns posted ones, then WM_QUIT.                  *)

\* Variant: WindowProc does not set quit.
DestroyWindowOnly == inbox' = <<>> /\ UNCHANGED quit

DestroyWindow == quit' = TRUE /\ inbox' = <<>>

PeekNothing ==
    /\ pc = "pump" /\ ~sentPending /\ inbox = <<>>
    /\ pc' = "render"
    /\ UNCHANGED <<bufferIndex, frameCounter, wrapped, syncVars, listVars, backBuffer,
                   windowVars, released>>

\* The message dispatched is not WM_QUIT, also when its dispatch posts one.
DispatchPosted ==
    /\ pc = "pump" /\ ~sentPending /\ inbox # <<>>
    /\ IF Head(inbox) = "close"
       THEN DestroyWindow
       ELSE inbox' = Tail(inbox) /\ UNCHANGED quit
    /\ pc' = "render"
    /\ UNCHANGED <<bufferIndex, frameCounter, wrapped, syncVars, listVars, backBuffer,
                   sentPending, released>>

\* The sent WM_CLOSE is delivered inside PeekMessage, which then finds no
\* message but WM_QUIT: HandleMessages calls exit(0).
RetrieveQuit ==
    /\ pc = "pump" /\ sentPending
    /\ sentPending' = FALSE
    /\ DestroyWindow
    /\ pc' = "exited"
    /\ UNCHANGED <<bufferIndex, frameCounter, wrapped, syncVars, listVars, backBuffer, released>>

HandleMessages == PeekNothing \/ DispatchPosted \/ RetrieveQuit

-----------------------------------------------------------------------------
(* The clean-up branch of Render, taken once quit is set.                  *)

BeginDrain ==
    /\ pc = "render" /\ quit
    /\ pc' = "wfiArm" \/ Break
    /\ UNCHANGED <<bufferIndex, frameCounter, wrapped, syncVars, listVars, backBuffer,
                   windowVars, released>>

DrainArm ==
    /\ pc = "wfiArm"
    /\ \/ SetEventOnCompletion(Wfi, 1)
       \/ FailsSilently("arm") /\ UNCHANGED <<event, waiters>>
    /\ pc' = "wfiSignal"
    /\ UNCHANGED <<bufferIndex, frameCounter, wrapped, fence, graphicsQueue, listVars,
                   backBuffer, windowVars, released>>

DrainSignal ==
    /\ pc = "wfiSignal"
    /\ \/ QueueSignal(Wfi, 1)
       \/ FailsSilently("signal") /\ UNCHANGED graphicsQueue
    /\ pc' = "wfiWait"
    /\ UNCHANGED <<bufferIndex, frameCounter, wrapped, fence, event, waiters, listVars,
                   backBuffer, windowVars, released>>

DrainWait ==
    /\ pc = "wfiWait"
    /\ WaitForEvent(Wfi)
    /\ pc' = "release"
    /\ UNCHANGED <<bufferIndex, frameCounter, wrapped, fence, waiters, graphicsQueue,
                   listVars, backBuffer, windowVars, released>>

\* The Release calls, among them the Reset of every command allocator, and
\* exit(0).
Release ==
    /\ pc = "release"
    /\ released' = TRUE
    /\ pc' = "exited"
    /\ UNCHANGED <<bufferIndex, frameCounter, wrapped, syncVars, listVars, backBuffer, windowVars>>

-----------------------------------------------------------------------------
(* The graphics queue executes its work in order.  A signal writes the      *)
(* fence's value and sets the event of every waiter that value satisfies.   *)

GpuRetire ==
    /\ graphicsQueue # <<>>
    /\ Head(graphicsQueue).op \in {"execute", "present"}
    /\ graphicsQueue' = Tail(graphicsQueue)
    /\ UNCHANGED <<mainVars, fence, event, waiters, listVars, backBuffer, windowVars, released>>

GpuSignal ==
    /\ graphicsQueue # <<>>
    /\ Head(graphicsQueue).op = "signal"
    /\ LET f == Head(graphicsQueue).ctx
           v == Head(graphicsQueue).value
           due == {w \in waiters[f] : w <= v}
       IN  /\ fence' = [fence EXCEPT ![f] = v]
           /\ event' = [event EXCEPT ![f] = @ \/ due # {}]
           /\ waiters' = [waiters EXCEPT ![f] = @ \ due]
    /\ graphicsQueue' = Tail(graphicsQueue)
    /\ UNCHANGED <<mainVars, listVars, backBuffer, windowVars, released>>

GpuStep == GpuRetire \/ GpuSignal

-----------------------------------------------------------------------------
(* The user and other programs, while the window exists.                   *)

PostMessage(m) ==
    /\ ~quit /\ pc \notin {"exited", "broken"}
    /\ Len(inbox) < InboxLimit
    /\ inbox' = Append(inbox, m)
    /\ UNCHANGED <<mainVars, syncVars, listVars, backBuffer, sentPending, quit, released>>

SendClose ==
    /\ SentClose
    /\ ~quit /\ pc \notin {"exited", "broken"}
    /\ sentPending' = TRUE
    /\ UNCHANGED <<mainVars, syncVars, listVars, backBuffer, inbox, quit, released>>

-----------------------------------------------------------------------------

MainThread ==
    \/ BeginFrame \/ WaitFrame \/ ResetAllocator \/ ResetList \/ CloseList
    \/ ExecuteCommandLists \/ SignalFrame \/ ArmFrame \/ Present
    \/ HandleMessages
    \/ BeginDrain \/ DrainArm \/ DrainSignal \/ DrainWait \/ Release

\* The program has stopped, or the run has reached its bound on frames.
Stopped ==
    /\ \/ pc \in {"exited", "broken"}
       \/ pc = "render" /\ ~quit /\ frameCounter = FrameLimit
    /\ UNCHANGED vars

Next ==
    \/ MainThread
    \/ GpuStep
    \/ \E m \in Message : PostMessage(m)
    \/ SendClose
    \/ Stopped

Spec == Init /\ [][Next]_vars

\* main() calls Render in an endless loop, and the driver executes what was
\* submitted.  Nobody is obliged to send a message.
FairSpec == Spec /\ WF_vars(MainThread) /\ WF_vars(GpuStep)

-----------------------------------------------------------------------------
(* Properties.                                                             *)

\* Every variable has its type; the bounds of the counter are those of
\* uint32_t _frameCounter.
TypeOK ==
    /\ pc \in Locations
    /\ bufferIndex \in Contexts
    /\ frameCounter \in 0 .. CounterModulus - 1
    /\ wrapped \in BOOLEAN
    /\ fence \in [Fences -> Nat]
    /\ event \in [Fences -> BOOLEAN]
    /\ waiters \in [Fences -> SUBSET Nat]
    /\ graphicsQueue \in Seq(Work)
    /\ listOpen \in BOOLEAN
    /\ listAllocator \in Contexts
    /\ backBuffer \in Contexts
    /\ inbox \in Seq(Message)
    /\ sentPending \in BOOLEAN
    /\ quit \in BOOLEAN
    /\ released \in BOOLEAN

\* Until the 32-bit _frameCounter overflows, the context that Render resets
\* and records into has no commands left in the graphics queue: what the
\* wait on frameEndEvent is there for.
AllocatorIdle ==
    ~wrapped /\ pc \in Recording => ~InFlight(bufferIndex)

\* After the overflow a fence still holds its old, larger value, and
\* SetEventOnCompletion sets the event at once.  All the same a context is
\* reused early only with the presents of as many frames as there are contexts
\* waiting: never when DXGI queues fewer.
EarlyOnlyWhenFull ==
    pc \in Recording /\ InFlight(bufferIndex) => QueuedPresents >= BufferCount

\* The commands Render submits are those recorded in this frame's allocator,
\* although the result of _commandList->Reset is not looked at.
SubmittedListIsCurrent ==
    pc = "execute" => listAllocator = bufferIndex /\ ~listOpen

\* The frame is drawn into the swap chain's current back buffer: Render takes
\* _swapChainBuffer[_frameCounter % _bufferCount] and never asks the swap
\* chain.  An overflow keeps the two in step only if the modulus is a
\* multiple of _bufferCount.
RenderTargetIsBackBuffer ==
    /\ pc \in Recording
    /\ ~wrapped \/ CounterModulus % BufferCount = 0
    => bufferIndex = backBuffer

\* While no call fails silently, a context that the main thread does not hold
\* has its event set or a signal in the queue that will set it: the wait of
\* a later frame always ends.
EventWillCome(i) ==
    \/ event[i]
    \/ bufferIndex = i /\ pc \in Recording \cup {"signal", "arm"}
    \/ \E k \in DOMAIN graphicsQueue :
         /\ IsSignalOf(graphicsQueue[k], i)
         /\ \E v \in waiters[i] : v <= graphicsQueue[k].value
NoLostWakeup ==
    SilentFailures = {} => \A i \in Contexts : EventWillCome(i) \/ pc = "broken"

\* When the clean-up branch resets the allocators and releases the objects
\* the graphics queue has nothing left to execute.
ReleaseOnlyWhenIdle ==
    pc = "release" \/ released => graphicsQueue = <<>>

\* The program ends only after its clean-up branch: "Clear memory on
\* application end".
CleanExit ==
    pc = "exited" => released

\* A posted WM_CLOSE that is still waiting when the loop turns leads to the
\* end of the program, however many frames are in flight and whatever is
\* posted before it.
CloseRequested == \E k \in DOMAIN inbox : inbox[k] = "close"
CloseLeadsToExit == CloseRequested ~> pc = "exited" /\ released

\* Every frame that waits for its context gets it, also across the overflow.
WaitEnds == pc = "wait" ~> pc = "reset"

-----------------------------------------------------------------------------
(* The inductive invariant behind AllocatorIdle, SubmittedListIsCurrent and *)
(* ReleaseOnlyWhenIdle, in named parts.  What it says of the contexts holds  *)
(* until the counter overflows.                                             *)

HasSignal(f) == \E k \in DOMAIN graphicsQueue : IsSignalOf(graphicsQueue[k], f)
Idle(i) == ~InFlight(i) /\ ~HasSignal(i)
Acquired == Recording \cup {"signal", "arm"}

\* Of a context the queue holds one execution at most, then one signal at most.
QueueOrder ==
    \A i \in Contexts : \A k, l \in DOMAIN graphicsQueue :
        /\ IsExecutionOf(graphicsQueue[k], i) /\ IsExecutionOf(graphicsQueue[l], i) => k = l
        /\ IsSignalOf(graphicsQueue[k], i) /\ IsSignalOf(graphicsQueue[l], i) => k = l
        /\ IsExecutionOf(graphicsQueue[k], i) /\ IsSignalOf(graphicsQueue[l], i) => k < l

\* A set event, or recording, means that the queue is done with the context.
IdleWhenSignalled ==
    \A i \in Contexts : event[i] \/ (pc \in Recording /\ bufferIndex = i) => Idle(i)

\* Between its wait and its arming an event is not set and has no waiter.
EventConsumed ==
    /\ pc \in Acquired => ~event[bufferIndex] /\ waiters[bufferIndex] = {}
    /\ pc = "signal" => ~HasSignal(bufferIndex)

\* Fences and queued signals stay at or below the value of the last frame.
Bound == IF pc \in {"arm", "present"} THEN frameCounter + 1 ELSE frameCounter
ValuesBounded ==
    \A i \in Contexts :
        /\ fence[i] <= Bound
        /\ \A k \in DOMAIN graphicsQueue :
              IsSignalOf(graphicsQueue[k], i) => graphicsQueue[k].value <= Bound

\* When Render arms the event, its signal is still queued or all is executed.
ArmedInTime ==
    pc = "arm" =>
        /\ fence[bufferIndex] >= frameCounter + 1 => Idle(bufferIndex)
        /\ \A k \in DOMAIN graphicsQueue :
              IsSignalOf(graphicsQueue[k], bufferIndex)
                  => graphicsQueue[k].value = frameCounter + 1

\* The signal queued for a context satisfies all that wait for it.
WaitersDue ==
    \A i \in Contexts :
        /\ event[i] => waiters[i] = {}
        /\ \A k \in DOMAIN graphicsQueue :
              IsSignalOf(graphicsQueue[k], i)
                  => \A w \in waiters[i] : w <= graphicsQueue[k].value

\* The list records, and was recorded, in the allocator of this frame.
ListInv ==
    /\ listOpen => pc \in {"close", "broken"}
    /\ pc = "close" /\ listOpen => listAllocator = bufferIndex
    /\ pc = "execute" => listAllocator = bufferIndex

\* The signal of the clean-up branch is the last work the queue receives.
WfiInv ==
    /\ \A k \in DOMAIN graphicsQueue :
          IsSignalOf(graphicsQueue[k], Wfi) => k = Len(graphicsQueue) /\ pc = "wfiWait"
    /\ fence[Wfi] # 0 \/ event[Wfi] => graphicsQueue = <<>> /\ pc \in {"wfiWait", "release", "exited"}
    /\ pc = "release" \/ released => graphicsQueue = <<>>
    /\ released => pc = "exited"

PacingInv ==
    /\ QueueOrder
    /\ IdleWhenSignalled
    /\ EventConsumed
    /\ ValuesBounded
    /\ ArmedInTime
    /\ WaitersDue

IInv ==
    /\ TypeOK
    /\ ListInv
    /\ WfiInv
    /\ ~wrapped => PacingInv

-----------------------------------------------------------------------------
(* The frame loop implements FramePacing as long as _frameCounter does not  *)
(* overflow.                                                                *)

Held == IF pc \in Recording THEN {bufferIndex} ELSE {}
Busy == {i \in Contexts : InFlight(i)}

Pacing == INSTANCE FramePacing WITH
    Contexts <- Contexts,
    cpu <- Held,
    gpu <- Busy,
    closed <- released

\* The contexts of Render are used as FramePacing promises: never recorded
\* into while the queue executes from them, and all idle when it cleans up.
PacingSpec == Pacing!Spec

\* What keeps a bounded run short of the overflow.
NoOverflow ==
    FrameLimit < CounterModulus =>
        /\ ~wrapped
        /\ frameCounter <= FrameLimit
        /\ pc \in Acquired \cup {"wait", "present"} => frameCounter < FrameLimit
=============================================================================
