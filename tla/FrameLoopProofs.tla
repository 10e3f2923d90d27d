-------------------------- MODULE FrameLoopProofs --------------------------
(* Proofs about FrameLoop, for every number of contexts, every counter       *)
(* modulus, every latency and every choice of the calls that may fail.       *)
EXTENDS FrameLoop, FiniteSetTheorems, TLAPS

USE BufferCountAssumption, CounterModulusAssumption, FrameLimitAssumption,
    FailuresAssumption

-----------------------------------------------------------------------------
(* Sequences.                                                               *)

LEMMA AppendFacts ==
    ASSUME NEW S, NEW q \in Seq(S), NEW e \in S
    PROVE  /\ Append(q, e) \in Seq(S)
           /\ Len(Append(q, e)) = Len(q) + 1
           /\ DOMAIN Append(q, e) = 1 .. Len(q) + 1
           /\ \A k \in 1 .. Len(q) : Append(q, e)[k] = q[k]
           /\ Append(q, e)[Len(q) + 1] = e
  OBVIOUS

LEMMA TailFacts ==
    ASSUME NEW S, NEW q \in Seq(S), q # <<>>
    PROVE  /\ Tail(q) \in Seq(S)
           /\ Len(q) \in Nat \ {0}
           /\ Len(Tail(q)) = Len(q) - 1
           /\ DOMAIN Tail(q) = 1 .. Len(q) - 1
           /\ \A k \in 1 .. Len(q) - 1 : Tail(q)[k] = q[k + 1]
           /\ Head(q) = q[1]
           /\ Head(q) \in S
  OBVIOUS

-----------------------------------------------------------------------------
(* Types.                                                                   *)

LEMMA IndexType == ASSUME NEW c \in Nat PROVE FrameIndex(c) \in Contexts
  BY DEF FrameIndex, Contexts

LEMMA WorkType ==
    /\ \A i \in Contexts : [op |-> "execute", ctx |-> i] \in Work
    /\ \A f \in Fences, v \in Nat : [op |-> "signal", ctx |-> f, value |-> v] \in Work
    /\ [op |-> "present"] \in Work
    /\ \A w \in Work : w.op = "execute" => w.ctx \in Contexts
    /\ \A w \in Work : w.op = "signal" => w.ctx \in Fences /\ w.value \in Nat
  BY DEF Work, Execution, FenceSignal, Flip

LEMMA SetEventType ==
    ASSUME TypeOK, NEW f \in Fences, NEW v \in Nat, SetEventOnCompletion(f, v)
    PROVE  event' \in [Fences -> BOOLEAN] /\ waiters' \in [Fences -> SUBSET Nat]
  BY ZenonT(30) DEF TypeOK, SetEventOnCompletion

LEMMA TypeInit == Init => TypeOK
  BY DEF Init, TypeOK, Locations, Contexts, Fences, SignalledAtCreation

LEMMA TypeStep == TypeOK /\ [Next]_vars => TypeOK'
<1> SUFFICES ASSUME TypeOK, [Next]_vars PROVE TypeOK'
  OBVIOUS
<1> USE DEF TypeOK, mainVars, syncVars, listVars, windowVars
<1>1. CASE BeginFrame
  BY <1>1, IndexType DEF BeginFrame, Locations
<1>2. CASE WaitFrame
  BY <1>2 DEF WaitFrame, WaitForEvent, Locations, Recording
<1>3. CASE ResetAllocator
  BY <1>3 DEF ResetAllocator, Break, Locations, Recording
<1>4. CASE ResetList
  BY <1>4 DEF ResetList, FailsSilently, Locations, Recording
<1>5. CASE CloseList
  BY <1>5 DEF CloseList, Break, Locations, Recording
<1>6. CASE ExecuteCommandLists
  BY <1>6, WorkType, AppendFacts DEF ExecuteCommandLists, Locations
<1>7. CASE SignalFrame
  <2>1. bufferIndex \in Fences /\ frameCounter + 1 \in Nat
    BY DEF Contexts, Fences
  <2>2. graphicsQueue' \in Seq(Work)
    <3>1. Append(graphicsQueue, [op |-> "signal", ctx |-> bufferIndex, value |-> frameCounter + 1])
              \in Seq(Work)
      BY <2>1, WorkType, AppendFacts
    <3> QED
      BY <1>7, <3>1 DEF SignalFrame, QueueSignal
  <2> QED
    BY <1>7, <2>2 DEF SignalFrame, Locations
<1>8. CASE ArmFrame
  <2>1. bufferIndex \in Fences /\ frameCounter + 1 \in Nat
    BY DEF Contexts, Fences
  <2> QED
    BY <1>8, <2>1, ZenonT(30) DEF ArmFrame, SetEventOnCompletion, Locations
<1>9. CASE Present
  <2>1. frameCounter' \in 0 .. CounterModulus - 1 /\ wrapped' \in BOOLEAN
    BY <1>9 DEF Present, AdvanceCounter
  <2>2. (backBuffer + 1) % BufferCount \in Contexts
    BY DEF Contexts
  <2>3. graphicsQueue' \in Seq(Work)
    <3>1. Append(graphicsQueue, [op |-> "present"]) \in Seq(Work)
      BY WorkType, AppendFacts
    <3> QED
      BY <1>9, <3>1 DEF Present
  <2> QED
    BY <1>9, <2>1, <2>2, <2>3 DEF Present, Break, Locations
<1>10. CASE HandleMessages
  <2>1. \/ inbox' = inbox
        \/ inbox' = <<>>
        \/ inbox # <<>> /\ inbox' = Tail(inbox)
    BY <1>10 DEF HandleMessages, PeekNothing, DispatchPosted, RetrieveQuit, DestroyWindow
  <2>2. inbox' \in Seq(Message)
    <3>1. inbox \in Seq(Message)
      OBVIOUS
    <3>2. inbox # <<>> => Tail(inbox) \in Seq(Message)
      BY <3>1
    <3>3. <<>> \in Seq(Message)
      OBVIOUS
    <3> QED
      BY <2>1, <3>1, <3>2, <3>3
  <2> QED
    BY <1>10, <2>2 DEF HandleMessages, PeekNothing, DispatchPosted, RetrieveQuit,
                       DestroyWindow, Locations
<1>11. CASE BeginDrain
  BY <1>11 DEF BeginDrain, Break, Locations, Draining
<1>12. CASE DrainArm
  <2>1. Wfi \in Fences
    BY DEF Fences, Wfi
  <2> QED
    <3>1. event' \in [Fences -> BOOLEAN] /\ waiters' \in [Fences -> SUBSET Nat]
      BY <1>12, <2>1, SetEventType DEF DrainArm
    <3> QED
      BY <1>12, <3>1 DEF DrainArm, Locations, Draining
<1>13. CASE DrainSignal
  <2>1. Wfi \in Fences
    BY DEF Fences, Wfi
  <2>2. graphicsQueue' \in Seq(Work)
    <3>1. Append(graphicsQueue, [op |-> "signal", ctx |-> Wfi, value |-> 1]) \in Seq(Work)
      BY <2>1, WorkType, AppendFacts
    <3> QED
      BY <1>13, <3>1 DEF DrainSignal, QueueSignal
  <2> QED
    BY <1>13, <2>2 DEF DrainSignal, Locations, Draining
<1>14. CASE DrainWait
  BY <1>14 DEF DrainWait, WaitForEvent, Locations, Draining
<1>15. CASE Release
  BY <1>15 DEF Release, Locations
<1>16. CASE GpuRetire
  BY <1>16, TailFacts DEF GpuRetire
<1>17. CASE GpuSignal
  <2> DEFINE f == Head(graphicsQueue).ctx
             v == Head(graphicsQueue).value
             due == {w \in waiters[f] : w <= v}
  <2>1. /\ Tail(graphicsQueue) \in Seq(Work)
        /\ f \in Fences /\ v \in Nat
    BY <1>17, TailFacts, WorkType DEF GpuSignal
  <2>2. fence' = [fence EXCEPT ![f] = v]
    BY <1>17 DEF GpuSignal
  <2>3. event' = [event EXCEPT ![f] = @ \/ due # {}]
    BY <1>17 DEF GpuSignal
  <2>4. waiters' = [waiters EXCEPT ![f] = @ \ due]
    BY <1>17 DEF GpuSignal
  <2>5. UNCHANGED <<mainVars, listVars, backBuffer, windowVars, released>>
        /\ graphicsQueue' = Tail(graphicsQueue)
    BY <1>17 DEF GpuSignal
  <2> HIDE DEF f, v, due
  <2>6. event' \in [Fences -> BOOLEAN]
    BY <2>1, <2>3
  <2>7. waiters' \in [Fences -> SUBSET Nat]
    BY <2>1, <2>4
  <2> QED
    BY <2>1, <2>2, <2>5, <2>6, <2>7
<1>18. CASE \E m \in Message : PostMessage(m)
  BY <1>18 DEF PostMessage
<1>19. CASE SendClose
  BY <1>19 DEF SendClose
<1>20. CASE Stopped \/ UNCHANGED vars
  BY <1>20 DEF Stopped, vars
<1> QED
  BY <1>1, <1>2, <1>3, <1>4, <1>5, <1>6, <1>7, <1>8, <1>9, <1>10, <1>11, <1>12, <1>13,
     <1>14, <1>15, <1>16, <1>17, <1>18, <1>19, <1>20 DEF Next, MainThread, GpuStep

\* Every reachable state has the declared types, in particular the counter
\* stays within the values of its machine type.
THEOREM TypeCorrect == Spec => []TypeOK
  BY TypeInit, TypeStep, PTL DEF Spec

-----------------------------------------------------------------------------
(* What an append and a removal do to the positions of the queue.           *)

LEMMA AppendWork ==
    ASSUME TypeOK, NEW e \in Work, graphicsQueue' = Append(graphicsQueue, e)
    PROVE  /\ DOMAIN graphicsQueue \subseteq Nat
           /\ Len(graphicsQueue') = Len(graphicsQueue) + 1
           /\ graphicsQueue' # <<>>
           /\ Len(graphicsQueue) + 1 \in DOMAIN graphicsQueue'
           /\ graphicsQueue'[Len(graphicsQueue) + 1] = e
           /\ \A k \in DOMAIN graphicsQueue :
                /\ k < Len(graphicsQueue) + 1
                /\ k \in DOMAIN graphicsQueue'
                /\ graphicsQueue'[k] = graphicsQueue[k]
           /\ \A k \in DOMAIN graphicsQueue' :
                k \in DOMAIN graphicsQueue \/ k = Len(graphicsQueue) + 1
  BY AppendFacts DEF TypeOK

LEMMA TailWork ==
    ASSUME TypeOK, graphicsQueue # <<>>, graphicsQueue' = Tail(graphicsQueue)
    PROVE  /\ 1 \in DOMAIN graphicsQueue
           /\ Head(graphicsQueue) = graphicsQueue[1]
           /\ Head(graphicsQueue) \in Work
           /\ Len(graphicsQueue) \in Nat
           /\ Len(graphicsQueue') = Len(graphicsQueue) - 1
           /\ \A k \in DOMAIN graphicsQueue' :
                /\ k \in Nat \ {0}
                /\ k + 1 \in DOMAIN graphicsQueue
                /\ graphicsQueue'[k] = graphicsQueue[k + 1]
           /\ \A k \in DOMAIN graphicsQueue :
                k = 1 \/ (k - 1 \in DOMAIN graphicsQueue' /\ (k - 1) + 1 = k)
  BY TailFacts DEF TypeOK

-----------------------------------------------------------------------------
(* The command list.                                                        *)

LEMMA ListStep == ListInv /\ [Next]_vars => ListInv'
<1> SUFFICES ASSUME ListInv, [Next]_vars PROVE ListInv'
  OBVIOUS
<1> USE DEF ListInv, mainVars, listVars
<1>1. CASE ResetList
  BY <1>1 DEF ResetList
<1>2. CASE CloseList
  BY <1>2 DEF CloseList, Break
<1>3. CASE \/ BeginFrame \/ WaitFrame \/ ResetAllocator \/ ExecuteCommandLists
           \/ SignalFrame \/ ArmFrame \/ Present
  BY <1>3 DEF BeginFrame, WaitFrame, ResetAllocator, ExecuteCommandLists, SignalFrame,
              ArmFrame, Present, Break
<1>4. CASE HandleMessages
  BY <1>4 DEF HandleMessages, PeekNothing, DispatchPosted, RetrieveQuit
<1>5. CASE BeginDrain \/ DrainArm \/ DrainSignal \/ DrainWait \/ Release
  BY <1>5 DEF BeginDrain, DrainArm, DrainSignal, DrainWait, Release, Break
<1>6. CASE GpuStep \/ (\E m \in Message : PostMessage(m)) \/ SendClose
  BY <1>6 DEF GpuStep, GpuRetire, GpuSignal, PostMessage, SendClose
<1>7. CASE Stopped \/ UNCHANGED vars
  BY <1>7 DEF Stopped, vars
<1> QED
  BY <1>1, <1>2, <1>3, <1>4, <1>5, <1>6, <1>7 DEF Next, MainThread

-----------------------------------------------------------------------------
(* The clean-up branch.                                                     *)

LEMMA WfiStep == TypeOK /\ WfiInv /\ [Next]_vars => WfiInv'
<1> SUFFICES ASSUME TypeOK, WfiInv, [Next]_vars PROVE WfiInv'
  OBVIOUS
<1> USE DEF mainVars, syncVars
<1>0. /\ Wfi \in Fences /\ \A i \in Contexts : i \in Fences /\ i # Wfi
      /\ fence \in [Fences -> Nat] /\ event \in [Fences -> BOOLEAN]
      /\ bufferIndex \in Contexts
  BY DEF Wfi, Contexts, Fences, TypeOK
<1>1. CASE \/ BeginFrame \/ ResetAllocator \/ ResetList \/ CloseList \/ BeginDrain
           \/ Release \/ HandleMessages
           \/ (\E m \in Message : PostMessage(m)) \/ SendClose \/ Stopped
           \/ UNCHANGED vars
  BY <1>1 DEF WfiInv, BeginFrame, ResetAllocator, ResetList, CloseList, BeginDrain, Release,
              HandleMessages, PeekNothing, DispatchPosted, RetrieveQuit, PostMessage,
              SendClose, Stopped, Break, vars
<1>2. CASE WaitFrame
  BY <1>0, <1>2 DEF WfiInv, WaitFrame, WaitForEvent
<1>3. CASE ArmFrame
  BY <1>0, <1>3 DEF WfiInv, ArmFrame, SetEventOnCompletion
<1>4. CASE ExecuteCommandLists
  <2> DEFINE e == [op |-> "execute", ctx |-> listAllocator]
  <2>1. e \in Work /\ e.op = "execute" /\ graphicsQueue' = Append(graphicsQueue, e)
    BY <1>4, WorkType DEF ExecuteCommandLists, TypeOK
  <2> HIDE DEF e
  <2> QED
    BY <1>4, <2>1, AppendWork DEF WfiInv, ExecuteCommandLists, IsSignalOf
<1>5. CASE SignalFrame
  <2> DEFINE e == [op |-> "signal", ctx |-> bufferIndex, value |-> frameCounter + 1]
  <2>1. e \in Work /\ ~IsSignalOf(e, Wfi)
    BY <1>0, WorkType DEF IsSignalOf, TypeOK
  <2>2. graphicsQueue' = Append(graphicsQueue, e) \/ graphicsQueue' = graphicsQueue
    BY <1>5 DEF SignalFrame, QueueSignal
  <2>3. pc = "signal" /\ pc' = "arm" /\ UNCHANGED <<fence, event, released>>
    BY <1>5 DEF SignalFrame
  <2> HIDE DEF e
  <2>4. CASE graphicsQueue' = graphicsQueue
    BY <2>3, <2>4 DEF WfiInv
  <2>5. CASE graphicsQueue' = Append(graphicsQueue, e)
    BY <2>1, <2>3, <2>5, AppendWork DEF WfiInv
  <2> QED
    BY <2>2, <2>4, <2>5
<1>6. CASE Present
  <2> DEFINE e == [op |-> "present"]
  <2>1. e \in Work /\ ~IsSignalOf(e, Wfi)
    BY WorkType DEF IsSignalOf
  <2>2. graphicsQueue' = Append(graphicsQueue, e) \/ graphicsQueue' = graphicsQueue
    BY <1>6 DEF Present
  <2>3. pc = "present" /\ pc' \in {"pump", "broken"} /\ UNCHANGED <<fence, event, released>>
    BY <1>6 DEF Present, Break
  <2> HIDE DEF e
  <2>4. CASE graphicsQueue' = graphicsQueue
    BY <2>3, <2>4 DEF WfiInv
  <2>5. CASE graphicsQueue' = Append(graphicsQueue, e)
    BY <2>1, <2>3, <2>5, AppendWork DEF WfiInv
  <2> QED
    BY <2>2, <2>4, <2>5
<1>7. CASE DrainArm
  BY <1>0, <1>7 DEF WfiInv, DrainArm, SetEventOnCompletion
<1>8. CASE DrainSignal
  <2> DEFINE e == [op |-> "signal", ctx |-> Wfi, value |-> 1]
  <2>1. e \in Work
    BY <1>0, WorkType
  <2>2. graphicsQueue' = Append(graphicsQueue, e) \/ graphicsQueue' = graphicsQueue
    BY <1>8 DEF DrainSignal, QueueSignal
  <2>3. pc = "wfiSignal" /\ pc' = "wfiWait" /\ UNCHANGED <<fence, event, released>>
    BY <1>8 DEF DrainSignal
  <2> HIDE DEF e
  <2>4. CASE graphicsQueue' = graphicsQueue
    BY <2>3, <2>4 DEF WfiInv
  <2>5. CASE graphicsQueue' = Append(graphicsQueue, e)
    BY <2>1, <2>3, <2>5, AppendWork DEF WfiInv
  <2> QED
    BY <2>2, <2>4, <2>5
<1>9. CASE DrainWait
  BY <1>0, <1>9 DEF WfiInv, DrainWait, WaitForEvent
<1>10. CASE GpuRetire
  BY <1>10, TailWork DEF WfiInv, GpuRetire, IsSignalOf
<1>11. CASE GpuSignal
  <2> DEFINE f == Head(graphicsQueue).ctx
  <2>1. /\ graphicsQueue # <<>> /\ graphicsQueue' = Tail(graphicsQueue)
        /\ IsSignalOf(graphicsQueue[1], f) /\ f \in Fences
        /\ pc' = pc /\ released' = released
    BY <1>11, TailWork, WorkType DEF GpuSignal, IsSignalOf
  <2>2. \A g \in Fences : g # f => fence'[g] = fence[g] /\ event'[g] = event[g]
    BY <1>0, <1>11 DEF GpuSignal
  <2> HIDE DEF f
  <2>3. \A k \in DOMAIN graphicsQueue' :
           IsSignalOf(graphicsQueue'[k], Wfi) => k = Len(graphicsQueue') /\ pc = "wfiWait"
    BY <2>1, TailWork DEF WfiInv
  <2>4. CASE f = Wfi
    <3>1. pc = "wfiWait" /\ Len(graphicsQueue) = 1
      BY <2>1, <2>4, TailWork DEF WfiInv
    <3>2. graphicsQueue' = <<>>
      BY <2>1, <3>1 DEF TypeOK
    <3> QED
      BY <2>1, <2>3, <3>1, <3>2 DEF WfiInv
  <2>5. CASE f # Wfi
    BY <1>0, <2>1, <2>2, <2>3, <2>5 DEF WfiInv
  <2> QED
    BY <2>4, <2>5
<1> QED
  BY <1>1, <1>2, <1>3, <1>4, <1>5, <1>6, <1>7, <1>8, <1>9, <1>10, <1>11
     DEF Next, MainThread, GpuStep

-----------------------------------------------------------------------------
(* The contexts, until the counter overflows.                               *)

LEMMA ContextsAreFences ==
    /\ Wfi \in Fences
    /\ \A i \in Contexts : i \in Fences /\ i # Wfi
  BY DEF Wfi, Contexts, Fences

LEMMA PacingStep == TypeOK /\ ListInv /\ PacingInv /\ [Next]_vars /\ ~wrapped' => PacingInv'
<1> SUFFICES ASSUME TypeOK, ListInv, PacingInv, [Next]_vars, ~wrapped' PROVE PacingInv'
  OBVIOUS
<1> USE ContextsAreFences DEF mainVars, syncVars, PacingInv, QueueOrder, IdleWhenSignalled,
        EventConsumed, ValuesBounded, ArmedInTime, WaitersDue, Bound, Acquired, Recording,
        Idle, InFlight, HasSignal
<1>0. /\ fence \in [Fences -> Nat] /\ event \in [Fences -> BOOLEAN]
      /\ waiters \in [Fences -> SUBSET Nat]
      /\ bufferIndex \in Contexts /\ frameCounter \in Nat
      /\ DOMAIN graphicsQueue \subseteq Nat
      /\ \A i \in Contexts : fence[i] \in Nat
      /\ \A i \in Contexts : \A k \in DOMAIN graphicsQueue :
            IsSignalOf(graphicsQueue[k], i) => graphicsQueue[k].value \in Nat
  <2>1. \A k \in DOMAIN graphicsQueue : graphicsQueue[k] \in Work
    BY DEF TypeOK
  <2> QED
    BY <2>1, WorkType DEF TypeOK, IsSignalOf
<1>1. CASE \/ BeginFrame \/ ResetAllocator \/ ResetList \/ CloseList
  BY <1>0, <1>1 DEF BeginFrame, ResetAllocator, ResetList, CloseList, Break
<1>2. CASE \/ BeginDrain \/ Release \/ HandleMessages
           \/ (\E m \in Message : PostMessage(m)) \/ SendClose \/ Stopped
           \/ UNCHANGED vars
  BY <1>0, <1>2 DEF BeginDrain, Release, HandleMessages, PeekNothing, DispatchPosted,
                    RetrieveQuit, PostMessage, SendClose, Stopped, Break, vars
<1>3. CASE WaitFrame
  BY <1>0, <1>3 DEF WaitFrame, WaitForEvent
<1>4. CASE ArmFrame
  BY <1>0, <1>4 DEF ArmFrame, SetEventOnCompletion
<1>5. CASE DrainArm
  BY <1>0, <1>5 DEF DrainArm, SetEventOnCompletion
<1>6. CASE DrainWait
  BY <1>0, <1>6 DEF DrainWait, WaitForEvent
<1>7. CASE ExecuteCommandLists
  <2> DEFINE e == [op |-> "execute", ctx |-> bufferIndex]
  <2>1. /\ e \in Work /\ graphicsQueue' = Append(graphicsQueue, e)
        /\ \A i \in Contexts : ~IsSignalOf(e, i) /\ (IsExecutionOf(e, i) <=> i = bufferIndex)
    BY <1>0, <1>7, WorkType DEF ExecuteCommandLists, ListInv, IsSignalOf, IsExecutionOf
  <2>2. /\ pc = "execute" /\ pc' = "signal"
        /\ UNCHANGED <<bufferIndex, frameCounter, fence, event, waiters>>
    BY <1>7 DEF ExecuteCommandLists
  <2> HIDE DEF e
  <2>3. QueueOrder'
    BY <1>0, <2>1, <2>2, AppendWork
  <2>4. IdleWhenSignalled' /\ EventConsumed'
    BY <1>0, <2>1, <2>2, AppendWork
  <2>5. ValuesBounded'
    BY <1>0, <2>1, <2>2, AppendWork
  <2>6. ArmedInTime' /\ WaitersDue'
    BY <1>0, <2>1, <2>2, AppendWork
  <2> QED
    BY <2>3, <2>4, <2>5, <2>6
<1>8. CASE SignalFrame
  <2> DEFINE e == [op |-> "signal", ctx |-> bufferIndex, value |-> frameCounter + 1]
  <2>1. /\ e \in Work /\ e.value = frameCounter + 1
        /\ \A i \in Contexts : ~IsExecutionOf(e, i) /\ (IsSignalOf(e, i) <=> i = bufferIndex)
    BY <1>0, WorkType DEF IsSignalOf, IsExecutionOf
  <2>2. graphicsQueue' = Append(graphicsQueue, e) \/ graphicsQueue' = graphicsQueue
    BY <1>8 DEF SignalFrame, QueueSignal
  <2>3. /\ pc = "signal" /\ pc' = "arm"
        /\ UNCHANGED <<bufferIndex, frameCounter, fence, event, waiters>>
    BY <1>8 DEF SignalFrame
  <2> HIDE DEF e
  <2>4. CASE graphicsQueue' = graphicsQueue
    <3>1. QueueOrder' /\ IdleWhenSignalled' /\ EventConsumed' /\ WaitersDue'
      BY <1>0, <2>3, <2>4
    <3>2. ValuesBounded'
      BY <1>0, <2>3, <2>4
    <3>3. ArmedInTime'
      BY <1>0, <2>3, <2>4
    <3> QED
      BY <3>1, <3>2, <3>3
  <2>5. CASE graphicsQueue' = Append(graphicsQueue, e)
    <3>1. QueueOrder'
      BY <1>0, <2>1, <2>3, <2>5, AppendWork
    <3>2. IdleWhenSignalled' /\ EventConsumed'
      BY <1>0, <2>1, <2>3, <2>5, AppendWork
    <3>3. ValuesBounded'
      BY <1>0, <2>1, <2>3, <2>5, AppendWork
    <3>4. ArmedInTime'
      BY <1>0, <2>1, <2>3, <2>5, AppendWork
    <3>5. WaitersDue'
      BY <1>0, <2>1, <2>3, <2>5, AppendWork
    <3> QED
      BY <3>1, <3>2, <3>3, <3>4, <3>5
  <2> QED
    BY <2>2, <2>4, <2>5
<1>9. CASE Present
  <2> DEFINE e == [op |-> "present"]
  <2>1. e \in Work /\ \A i \in Contexts : ~IsSignalOf(e, i) /\ ~IsExecutionOf(e, i)
    BY WorkType DEF IsSignalOf, IsExecutionOf
  <2>2. graphicsQueue' = Append(graphicsQueue, e) \/ graphicsQueue' = graphicsQueue
    BY <1>9 DEF Present
  <2>3. /\ pc = "present" /\ pc' \in {"pump", "broken"} /\ frameCounter' = frameCounter + 1
        /\ UNCHANGED <<bufferIndex, fence, event, waiters>>
    BY <1>0, <1>9 DEF Present, AdvanceCounter, Break, TypeOK
  <2> HIDE DEF e
  <2>4. CASE graphicsQueue' = graphicsQueue
    BY <1>0, <2>3, <2>4
  <2>5. CASE graphicsQueue' = Append(graphicsQueue, e)
    BY <1>0, <2>1, <2>3, <2>5, AppendWork
  <2> QED
    BY <2>2, <2>4, <2>5
<1>10. CASE DrainSignal
  <2> DEFINE e == [op |-> "signal", ctx |-> Wfi, value |-> 1]
  <2>1. e \in Work /\ \A i \in Contexts : ~IsSignalOf(e, i) /\ ~IsExecutionOf(e, i)
    BY WorkType DEF IsSignalOf, IsExecutionOf
  <2>2. graphicsQueue' = Append(graphicsQueue, e) \/ graphicsQueue' = graphicsQueue
    BY <1>10 DEF DrainSignal, QueueSignal
  <2>3. /\ pc' = "wfiWait"
        /\ UNCHANGED <<bufferIndex, frameCounter, fence, event, waiters>> /\ pc = "wfiSignal"
    BY <1>10 DEF DrainSignal
  <2> HIDE DEF e
  <2>4. CASE graphicsQueue' = graphicsQueue
    BY <1>0, <2>3, <2>4
  <2>5. CASE graphicsQueue' = Append(graphicsQueue, e)
    BY <1>0, <2>1, <2>3, <2>5, AppendWork
  <2> QED
    BY <2>2, <2>4, <2>5
<1>11. CASE GpuRetire
  <2>1. /\ graphicsQueue # <<>> /\ graphicsQueue' = Tail(graphicsQueue)
        /\ UNCHANGED <<pc, bufferIndex, frameCounter, fence, event, waiters>>
    BY <1>11 DEF GpuRetire
  <2>2. QueueOrder'
    BY <1>0, <2>1, TailWork
  <2> QED
    BY <1>0, <2>1, <2>2, TailWork
<1>12. CASE GpuSignal
  <2>0. PICK f \in Fences, v \in Nat :
           /\ f = Head(graphicsQueue).ctx /\ v = Head(graphicsQueue).value
           /\ IsSignalOf(graphicsQueue[1], f) /\ v = graphicsQueue[1].value
    BY <1>12, TailWork, WorkType DEF GpuSignal, IsSignalOf
  <2> DEFINE due == {w \in waiters[f] : w <= v}
  <2>1. /\ graphicsQueue # <<>> /\ graphicsQueue' = Tail(graphicsQueue)
        /\ IsSignalOf(graphicsQueue[1], f) /\ f \in Fences
        /\ v = graphicsQueue[1].value /\ v \in Nat
        /\ UNCHANGED <<pc, bufferIndex, frameCounter>>
    BY <1>12, <2>0 DEF GpuSignal
  <2>2. \A g \in Fences : g # f =>
           fence'[g] = fence[g] /\ event'[g] = event[g] /\ waiters'[g] = waiters[g]
    BY <1>0, <1>12, <2>0 DEF GpuSignal
  <2>3. fence'[f] = v /\ (event'[f] => event[f] \/ due # {}) /\ waiters'[f] = waiters[f] \ due
    BY <1>0, <1>12, <2>0 DEF GpuSignal
  <2>4. f \in Contexts => due = waiters[f]
    BY <2>1, TailWork
  <2> HIDE DEF due
  <2>5. f \in Contexts => Idle(f)'
    BY <1>0, <2>1, TailWork, SMTT(30)
  <2>6. \A i \in Contexts : Idle(i) => Idle(i)'
    BY <2>1, TailWork
  <2>7. QueueOrder'
    BY <1>0, <2>1, TailWork
  <2>8. IdleWhenSignalled'
    BY <2>1, <2>2, <2>5, <2>6
  <2>9. EventConsumed'
    <3>1. pc = "signal" => ~HasSignal(bufferIndex)'
      BY <1>0, <2>1, TailWork
    <3>2. pc \in Acquired => ~event'[bufferIndex] /\ waiters'[bufferIndex] = {}
      <4>1. CASE bufferIndex = f
        BY <1>0, <2>3, <2>4, <4>1
      <4>2. CASE bufferIndex # f
        BY <1>0, <2>2, <4>2
      <4> QED
        BY <4>1, <4>2
    <3> QED
      BY <2>1, <3>1, <3>2
  <2>10. ValuesBounded'
    BY <1>0, <2>1, <2>2, <2>3, TailWork, SMTT(30)
  <2>11. ArmedInTime'
    BY <1>0, <2>1, <2>2, <2>5, <2>6, TailWork
  <2>12. WaitersDue'
    BY <1>0, <2>1, <2>2, <2>3, <2>4, <2>5, TailWork
  <2> QED
    BY <2>7, <2>8, <2>9, <2>10, <2>11, <2>12
<1> QED
  BY <1>1, <1>2, <1>3, <1>4, <1>5, <1>6, <1>7, <1>8, <1>9, <1>10, <1>11, <1>12
     DEF Next, MainThread, GpuStep

-----------------------------------------------------------------------------
(* The inductive invariant and the theorems.                                *)

LEMMA IInvInit == Init => IInv
<1> SUFFICES ASSUME Init PROVE IInv
  OBVIOUS
<1>1. TypeOK
  BY TypeInit
<1>2. /\ pc = "render" /\ graphicsQueue = <<>> /\ ~listOpen /\ ~released
      /\ frameCounter = 0
      /\ \A f \in Fences : fence[f] = 0 /\ waiters[f] = {}
      /\ ~event[Wfi]
  BY ContextsAreFences DEF Init, SignalledAtCreation
<1>3. DOMAIN graphicsQueue = {}
  BY <1>2
<1>4. ListInv
  BY <1>2 DEF ListInv
<1>5. WfiInv
  BY <1>2, <1>3, ContextsAreFences DEF WfiInv
<1>6. PacingInv
  BY <1>2, <1>3, ContextsAreFences
     DEF PacingInv, QueueOrder, IdleWhenSignalled, EventConsumed, ValuesBounded, Bound,
         ArmedInTime, WaitersDue, Idle, InFlight, HasSignal, Acquired, Recording
<1> QED
  BY <1>1, <1>4, <1>5, <1>6 DEF IInv

LEMMA IInvStep == IInv /\ [Next]_vars => IInv'
<1> SUFFICES ASSUME IInv, [Next]_vars PROVE IInv'
  OBVIOUS
<1>1. TypeOK'
  BY TypeStep DEF IInv
<1>2. ListInv'
  BY ListStep DEF IInv
<1>3. WfiInv'
  BY WfiStep DEF IInv
<1>4. wrapped => wrapped'
  BY DEF Next, MainThread, GpuStep, BeginFrame, WaitFrame, ResetAllocator, ResetList,
         CloseList, ExecuteCommandLists, SignalFrame, ArmFrame, Present, AdvanceCounter,
         HandleMessages, PeekNothing, DispatchPosted, RetrieveQuit, BeginDrain, DrainArm,
         DrainSignal, DrainWait, Release, GpuRetire, GpuSignal, PostMessage, SendClose,
         Stopped, vars, mainVars
<1>5. ~wrapped' => PacingInv'
  BY <1>4, PacingStep DEF IInv
<1> QED
  BY <1>1, <1>2, <1>3, <1>5 DEF IInv

\* IInv is an invariant of the frame loop.
THEOREM Inductive == Spec => []IInv
  BY IInvInit, IInvStep, PTL DEF Spec

\* Until the 32-bit counter overflows, the context Render resets and records
\* into is not in use by the graphics queue, whatever calls fail.
THEOREM AllocatorIdleTheorem == Spec => []AllocatorIdle
<1>1. IInv => AllocatorIdle
  BY DEF IInv, TypeOK, PacingInv, IdleWhenSignalled, AllocatorIdle, Idle
<1> QED
  BY <1>1, Inductive, PTL

\* What Render submits was recorded in the allocator of its own context.
THEOREM SubmittedListTheorem == Spec => []SubmittedListIsCurrent
<1>1. IInv => SubmittedListIsCurrent
  BY DEF IInv, ListInv, SubmittedListIsCurrent
<1> QED
  BY <1>1, Inductive, PTL

\* The clean-up branch releases the objects only when the queue is empty.
THEOREM ReleaseTheorem == Spec => []ReleaseOnlyWhenIdle
<1>1. IInv => ReleaseOnlyWhenIdle
  BY DEF IInv, WfiInv, ReleaseOnlyWhenIdle
<1> QED
  BY <1>1, Inductive, PTL

-----------------------------------------------------------------------------
(* The frame loop implements FramePacing.                                   *)

LEMMA NoOverflowStep == TypeOK /\ NoOverflow /\ [Next]_vars => NoOverflow'
<1> SUFFICES ASSUME TypeOK, NoOverflow, [Next]_vars, FrameLimit < CounterModulus
             PROVE  NoOverflow'
  BY DEF NoOverflow
<1>0. frameCounter \in Nat /\ FrameLimit \in Nat /\ CounterModulus \in Nat
  BY DEF TypeOK
<1> USE DEF NoOverflow, mainVars, Acquired, Recording
<1>1. CASE BeginFrame
  <2>1. frameCounter < FrameLimit
    BY <1>0, <1>1 DEF BeginFrame, FrameLimitAssumption
  <2>2. frameCounter' = frameCounter /\ wrapped' = wrapped
    BY <1>1 DEF BeginFrame
  <2>3. ~wrapped /\ frameCounter <= FrameLimit
    OBVIOUS
  <2> QED
    BY <2>1, <2>2, <2>3
<1>2. CASE Present
  <2>1. ~wrapped /\ frameCounter < FrameLimit /\ frameCounter + 1 # CounterModulus
    BY <1>0, <1>2 DEF Present
  <2>2. frameCounter' = frameCounter + 1 /\ ~wrapped'
    BY <1>2, <2>1 DEF Present, AdvanceCounter
  <2>3. pc' \in {"pump", "broken"}
    BY <1>2 DEF Present, Break
  <2> QED
    BY <1>0, <2>1, <2>2, <2>3
<1>3. CASE \/ WaitFrame \/ ResetAllocator \/ ResetList \/ CloseList
           \/ ExecuteCommandLists \/ SignalFrame \/ ArmFrame
  BY <1>0, <1>3 DEF WaitFrame, ResetAllocator, ResetList, CloseList, ExecuteCommandLists,
              SignalFrame, ArmFrame, Break
<1>4. CASE \/ HandleMessages \/ BeginDrain \/ DrainArm \/ DrainSignal \/ DrainWait \/ Release
           \/ GpuStep \/ (\E m \in Message : PostMessage(m)) \/ SendClose
           \/ Stopped \/ UNCHANGED vars
  BY <1>0, <1>4 DEF HandleMessages, PeekNothing, DispatchPosted, RetrieveQuit, BeginDrain,
              DrainArm, DrainSignal, DrainWait, Release, GpuStep, GpuRetire, GpuSignal,
              PostMessage, SendClose, Stopped, Break, vars
<1> QED
  BY <1>1, <1>2, <1>3, <1>4 DEF Next, MainThread

LEMMA RefineStep == IInv /\ ~wrapped /\ [Next]_vars => [Pacing!Next]_Pacing!vars
<1> SUFFICES ASSUME IInv, ~wrapped, [Next]_vars PROVE [Pacing!Next]_Pacing!vars
  OBVIOUS
<1>0. TypeOK /\ ListInv /\ WfiInv /\ PacingInv /\ bufferIndex \in Contexts
  BY DEF IInv, TypeOK
<1> USE DEF mainVars, syncVars, Held, Recording, Pacing!vars
<1>1. CASE WaitFrame
  <2>1. /\ pc = "wait" /\ pc' = "reset" /\ event[bufferIndex]
        /\ UNCHANGED <<bufferIndex, graphicsQueue, released>>
    BY <1>1 DEF WaitFrame, WaitForEvent
  <2>2. bufferIndex \notin Busy /\ Busy' = Busy /\ ~released
    BY <1>0, <2>1 DEF PacingInv, IdleWhenSignalled, Idle, Busy, InFlight, WfiInv
  <2>3. Pacing!Acquire(bufferIndex)
    BY <2>1, <2>2 DEF Pacing!Acquire
  <2> QED
    BY <1>0, <2>3 DEF Pacing!Next
<1>2. CASE ExecuteCommandLists
  <2> DEFINE e == [op |-> "execute", ctx |-> bufferIndex]
  <2>1. /\ e \in Work /\ \A i \in Contexts : IsExecutionOf(e, i) <=> i = bufferIndex
        /\ graphicsQueue' = Append(graphicsQueue, e)
        /\ pc = "execute" /\ pc' = "signal" /\ UNCHANGED <<bufferIndex, released>>
    BY <1>0, <1>2, WorkType DEF ExecuteCommandLists, ListInv, IsExecutionOf
  <2> HIDE DEF e
  <2>2. \A i \in Contexts : InFlight(i)' <=> InFlight(i) \/ i = bufferIndex
    BY <1>0, <2>1, AppendWork DEF InFlight
  <2>3. Busy' = Busy \cup {bufferIndex}
    BY <1>0, <2>2 DEF Busy
  <2>4. Pacing!Submit(bufferIndex)
    BY <2>1, <2>3 DEF Pacing!Submit
  <2> QED
    BY <1>0, <2>4 DEF Pacing!Next
<1>3. CASE GpuRetire
  <2>1. /\ graphicsQueue # <<>> /\ graphicsQueue' = Tail(graphicsQueue)
        /\ UNCHANGED <<pc, bufferIndex, released>>
    BY <1>3 DEF GpuRetire
  <2>2. CASE graphicsQueue[1].op = "execute"
    <3>1. PICK i \in Contexts : IsExecutionOf(graphicsQueue[1], i)
      BY <1>0, <2>1, <2>2, TailWork, WorkType DEF IsExecutionOf
    <3>2. i \in Busy
      BY <1>0, <2>1, <3>1, TailWork DEF Busy, InFlight
    <3>3. ~InFlight(i)'
      BY <1>0, <2>1, <3>1, TailWork DEF PacingInv, QueueOrder, InFlight
    <3>4. \A j \in Contexts : j # i => (InFlight(j)' <=> InFlight(j))
      BY <1>0, <2>1, <3>1, TailWork DEF InFlight, IsExecutionOf
    <3>5. Busy' = Busy \ {i}
      BY <3>3, <3>4 DEF Busy
    <3>6. Pacing!Retire(i)
      BY <2>1, <3>2, <3>5 DEF Pacing!Retire
    <3> QED
      BY <3>6 DEF Pacing!Next
  <2>3. CASE graphicsQueue[1].op # "execute"
    <3>1. \A j \in Contexts : InFlight(j)' <=> InFlight(j)
      BY <1>0, <2>1, <2>3, TailWork DEF InFlight, IsExecutionOf
    <3> QED
      BY <2>1, <3>1 DEF Busy
  <2> QED
    BY <2>2, <2>3
<1>4. CASE GpuSignal
  <2>1. /\ graphicsQueue # <<>> /\ graphicsQueue' = Tail(graphicsQueue)
        /\ UNCHANGED <<pc, bufferIndex, released>>
        /\ graphicsQueue[1].op # "execute"
    BY <1>0, <1>4, TailWork DEF GpuSignal
  <2>2. \A j \in Contexts : InFlight(j)' <=> InFlight(j)
    BY <1>0, <2>1, TailWork DEF InFlight, IsExecutionOf
  <2> QED
    BY <2>1, <2>2 DEF Busy
<1>5. CASE SignalFrame \/ Present \/ DrainSignal
  <2>1. \A j \in Contexts : InFlight(j)' <=> InFlight(j)
    <3>1. CASE graphicsQueue' = graphicsQueue
      BY <3>1 DEF InFlight
    <3>2. ASSUME NEW e \in Work, e.op # "execute", graphicsQueue' = Append(graphicsQueue, e)
          PROVE  \A j \in Contexts : InFlight(j)' <=> InFlight(j)
      BY <1>0, <3>2, AppendWork DEF InFlight, IsExecutionOf
    <3>3. graphicsQueue' # graphicsQueue
             => \E e \in Work : e.op # "execute" /\ graphicsQueue' = Append(graphicsQueue, e)
      <4>1. CASE SignalFrame
        <5>1. bufferIndex \in Fences /\ frameCounter + 1 \in Nat
          BY <1>0, ContextsAreFences DEF TypeOK
        <5> QED
          BY <4>1, <5>1, WorkType DEF SignalFrame, QueueSignal
      <4>2. CASE Present
        BY <4>2, WorkType DEF Present
      <4>3. CASE DrainSignal
        BY <4>3, WorkType, ContextsAreFences DEF DrainSignal, QueueSignal
      <4> QED
        BY <1>5, <4>1, <4>2, <4>3
    <3> QED
      BY <3>1, <3>2, <3>3
  <2>2. pc \notin Recording /\ pc' \notin Recording /\ released' = released
    BY <1>5 DEF SignalFrame, Present, DrainSignal, Break
  <2> QED
    BY <2>1, <2>2 DEF Busy
<1>6. CASE ResetAllocator \/ ResetList \/ CloseList
  <2>1. UNCHANGED <<bufferIndex, graphicsQueue, released>>
    BY <1>6 DEF ResetAllocator, ResetList, CloseList
  <2>2. Busy' = Busy
    BY <2>1 DEF Busy, InFlight
  <2>3. pc \in Recording /\ pc' \in Recording \cup {"broken"}
    BY <1>6 DEF ResetAllocator, ResetList, CloseList, Break
  <2>4. CASE pc' \in Recording
    BY <2>1, <2>2, <2>3, <2>4
  <2>5. CASE pc' = "broken"
    BY <2>1, <2>2, <2>3, <2>5 DEF Pacing!Next, Pacing!Abandon
  <2> QED
    BY <2>3, <2>4, <2>5
<1>7. CASE Release
  <2>1. graphicsQueue = <<>> /\ UNCHANGED graphicsQueue
    BY <1>0, <1>7 DEF Release, WfiInv
  <2>2. Busy = {} /\ Busy' = {}
    BY <2>1 DEF Busy, InFlight
  <2> QED
    BY <1>7, <2>2 DEF Release, Pacing!Next, Pacing!Close
<1>8. CASE \/ BeginFrame \/ ArmFrame \/ HandleMessages \/ BeginDrain \/ DrainArm \/ DrainWait
           \/ (\E m \in Message : PostMessage(m)) \/ SendClose \/ Stopped \/ UNCHANGED vars
  <2>1. UNCHANGED <<graphicsQueue, released>>
    BY <1>8 DEF BeginFrame, ArmFrame, HandleMessages, PeekNothing, DispatchPosted,
                RetrieveQuit, BeginDrain, DrainArm, DrainWait, PostMessage, SendClose,
                Stopped, vars
  <2>2. Held' = Held
    BY <1>8 DEF BeginFrame, ArmFrame, HandleMessages, PeekNothing, DispatchPosted,
                RetrieveQuit, BeginDrain, DrainArm, DrainWait, PostMessage, SendClose,
                Stopped, Break, vars
  <2>3. Busy' = Busy
    BY <2>1 DEF Busy, InFlight
  <2> QED
    BY <2>1, <2>2, <2>3
<1> QED
  BY <1>1, <1>2, <1>3, <1>4, <1>5, <1>6, <1>7, <1>8 DEF Next, MainThread, GpuStep

\* A frame loop that stops short of the overflow is an implementation of
\* FramePacing: the fences and events hand every context over as it promises.
THEOREM RefinementTheorem == FrameLimit < CounterModulus => (Spec => PacingSpec)
<1> SUFFICES ASSUME FrameLimit < CounterModulus PROVE Spec => PacingSpec
  OBVIOUS
<1>1. Init => NoOverflow
  BY DEF Init, NoOverflow, Acquired, Recording
<1>2. Init => Pacing!Init
  BY DEF Init, Pacing!Init, Held, Busy, InFlight, Recording
<1>3. NoOverflow => ~wrapped
  BY DEF NoOverflow
<1>4. IInv => TypeOK
  BY DEF IInv
<1> QED
  BY <1>1, <1>2, <1>3, <1>4, IInvInit, IInvStep, NoOverflowStep, RefineStep, PTL
     DEF Spec, PacingSpec, Pacing!Spec

\* What FramePacing promises keeps a context on one side, whoever implements
\* it: its own invariant, by induction over its steps.
LEMMA PacingExclusive == Pacing!Spec => []Pacing!Exclusive
<1> DEFINE Inv == /\ Busy \subseteq Contexts
                  /\ Held = {} \/ \E i \in Contexts : Held = {i}
                  /\ Held \cap Busy = {}
                  /\ released => Held = {} /\ Busy = {}
<1>1. Pacing!Init => Inv
  BY DEF Pacing!Init
<1>2. Inv /\ [Pacing!Next]_Pacing!vars => Inv'
  <2> SUFFICES ASSUME Inv, [Pacing!Next]_Pacing!vars PROVE Inv'
    OBVIOUS
  <2>1. ASSUME NEW i \in Contexts, Pacing!Acquire(i) PROVE Inv'
    BY <2>1 DEF Pacing!Acquire
  <2>2. ASSUME NEW i \in Contexts, Pacing!Submit(i) PROVE Inv'
    BY <2>2 DEF Pacing!Submit
  <2>3. ASSUME NEW i \in Contexts, Pacing!Retire(i) PROVE Inv'
    BY <2>3 DEF Pacing!Retire
  <2>4. CASE Pacing!Abandon
    BY <2>4 DEF Pacing!Abandon
  <2>5. CASE Pacing!Close
    BY <2>5 DEF Pacing!Close
  <2>6. CASE UNCHANGED Pacing!vars
    BY <2>6 DEF Pacing!vars
  <2> QED
    BY <2>1, <2>2, <2>3, <2>4, <2>5, <2>6 DEF Pacing!Next
<1>3. Inv => Pacing!Exclusive
  BY DEF Pacing!Exclusive
<1> QED
  BY <1>1, <1>2, <1>3, PTL DEF Pacing!Spec

\* Hence, for any number of contexts, Render never records into a context that
\* the queue executes from, records into one at a time, and has closed only
\* when both have let go of all.
THEOREM ExclusiveTheorem == FrameLimit < CounterModulus => (Spec => []Pacing!Exclusive)
  BY RefinementTheorem, PacingExclusive, PTL DEF PacingSpec

-----------------------------------------------------------------------------
(* No wake-up is lost, also when the counter overflows again and again.      *)

\* When Render arms the event of its context, the fence has the value of this
\* frame or the last signal queued for it will give it that value.
LastSignalIsOwn ==
    \/ fence[bufferIndex] = frameCounter + 1 /\ ~HasSignal(bufferIndex)
    \/ \E k \in DOMAIN graphicsQueue :
         /\ IsSignalOf(graphicsQueue[k], bufferIndex)
         /\ graphicsQueue[k].value = frameCounter + 1
         /\ \A l \in DOMAIN graphicsQueue :
               IsSignalOf(graphicsQueue[l], bufferIndex) => l <= k

WakeInv ==
    SilentFailures = {} =>
        /\ \A i \in Contexts : EventWillCome(i) \/ pc = "broken"
        /\ pc = "arm" => LastSignalIsOwn

LEMMA WakeInit == Init => WakeInv
  BY ContextsAreFences DEF Init, WakeInv, EventWillCome, SignalledAtCreation

\* Work that is appended hides no signal, and none of its own is added to the
\* contexts other than the one that it is for.
LEMMA WakeAppend ==
    ASSUME TypeOK, NEW e \in Work, graphicsQueue' = Append(graphicsQueue, e),
           UNCHANGED <<event, waiters>>, pc' # "broken",
           NEW i \in Contexts, EventWillCome(i),
           bufferIndex' = bufferIndex,
           pc \in Recording \cup {"signal", "arm"} => pc' \in Recording \cup {"signal", "arm"}
    PROVE  EventWillCome(i)'
  BY AppendWork DEF EventWillCome

LEMMA WakeStep == TypeOK /\ WakeInv /\ [Next]_vars => WakeInv'
<1> SUFFICES ASSUME TypeOK, WakeInv, [Next]_vars, SilentFailures = {} PROVE WakeInv'
  BY DEF WakeInv
<1> USE ContextsAreFences DEF mainVars, syncVars, Recording
<1>0. /\ fence \in [Fences -> Nat] /\ event \in [Fences -> BOOLEAN]
      /\ waiters \in [Fences -> SUBSET Nat]
      /\ bufferIndex \in Contexts /\ frameCounter \in Nat
      /\ \A call : ~FailsSilently(call)
      /\ \A i \in Contexts : EventWillCome(i) \/ pc = "broken"
      /\ pc = "arm" => LastSignalIsOwn
  BY DEF TypeOK, FailsSilently, WakeInv
<1>1. SUFFICES /\ \A i \in Contexts : EventWillCome(i)' \/ pc' = "broken"
               /\ pc' = "arm" => LastSignalIsOwn'
  BY DEF WakeInv
<1>2. CASE \/ BeginFrame \/ ResetAllocator \/ ResetList \/ CloseList
           \/ BeginDrain \/ Release
  BY <1>0, <1>2 DEF BeginFrame, ResetAllocator, ResetList, CloseList, BeginDrain, Release,
                    Break, EventWillCome
<1>3. CASE \/ HandleMessages \/ (\E m \in Message : PostMessage(m)) \/ SendClose \/ Stopped
           \/ UNCHANGED vars
  <2>1. UNCHANGED <<bufferIndex, frameCounter, fence, event, waiters, graphicsQueue>>
    BY <1>3 DEF HandleMessages, PeekNothing, DispatchPosted, RetrieveQuit, PostMessage,
                SendClose, Stopped, vars
  <2>2. \/ pc' = pc
        \/ pc = "pump" /\ (pc' = "render" \/ pc' = "exited")
    <3>1. CASE HandleMessages
      BY <3>1 DEF HandleMessages, PeekNothing, DispatchPosted, RetrieveQuit
    <3>2. CASE (\E m \in Message : PostMessage(m)) \/ SendClose \/ Stopped \/ UNCHANGED vars
      BY <3>2 DEF PostMessage, SendClose, Stopped, vars
    <3> QED
      BY <1>3, <3>1, <3>2
  <2>3. \A i \in Contexts : EventWillCome(i) /\ pc' # "broken" => EventWillCome(i)'
    BY <2>1, <2>2 DEF EventWillCome
  <2>4. LastSignalIsOwn' <=> LastSignalIsOwn
    BY <2>1 DEF LastSignalIsOwn, HasSignal
  <2> QED
    BY <1>0, <2>2, <2>3, <2>4
<1>4. CASE WaitFrame
  BY <1>0, <1>4 DEF WaitFrame, WaitForEvent, EventWillCome
<1>5. CASE DrainArm
  BY <1>0, <1>5 DEF DrainArm, SetEventOnCompletion, EventWillCome
<1>6. CASE DrainWait
  BY <1>0, <1>6 DEF DrainWait, WaitForEvent, EventWillCome
<1>7. CASE ExecuteCommandLists
  <2> DEFINE e == [op |-> "execute", ctx |-> listAllocator]
  <2>1. e \in Work /\ graphicsQueue' = Append(graphicsQueue, e)
    BY <1>7, WorkType DEF ExecuteCommandLists, TypeOK
  <2>2. pc = "execute" /\ pc' = "signal" /\ UNCHANGED <<bufferIndex, event, waiters>>
    BY <1>7 DEF ExecuteCommandLists
  <2> HIDE DEF e
  <2> QED
    BY <1>0, <2>1, <2>2, WakeAppend
<1>8. CASE SignalFrame
  <2> DEFINE e == [op |-> "signal", ctx |-> bufferIndex, value |-> frameCounter + 1]
  <2>1. e \in Work /\ e.value = frameCounter + 1 /\ IsSignalOf(e, bufferIndex)
    BY <1>0, WorkType DEF IsSignalOf
  <2>2. graphicsQueue' = Append(graphicsQueue, e)
    BY <1>0, <1>8 DEF SignalFrame, QueueSignal
  <2>3. pc = "signal" /\ pc' = "arm"
        /\ UNCHANGED <<bufferIndex, frameCounter, fence, event, waiters>>
    BY <1>8 DEF SignalFrame
  <2> HIDE DEF e
  <2>4. \A i \in Contexts : EventWillCome(i)'
    BY <1>0, <2>1, <2>2, <2>3, WakeAppend
  <2>5. LastSignalIsOwn'
    <3>1. Len(graphicsQueue) \in Nat
          /\ \A l \in DOMAIN graphicsQueue' : l <= Len(graphicsQueue) + 1
      BY <2>1, <2>2, AppendWork DEF TypeOK
    <3> QED
      BY <2>1, <2>2, <2>3, <3>1, AppendWork DEF LastSignalIsOwn
  <2> QED
    BY <2>4, <2>5
<1>9. CASE ArmFrame
  <2>1. pc = "arm" /\ pc' = "present" /\ UNCHANGED <<bufferIndex, frameCounter, fence, graphicsQueue>>
        /\ SetEventOnCompletion(bufferIndex, frameCounter + 1) /\ LastSignalIsOwn
    BY <1>0, <1>9 DEF ArmFrame
  <2>2. EventWillCome(bufferIndex)'
    <3>1. CASE fence[bufferIndex] >= frameCounter + 1
      BY <1>0, <2>1, <3>1 DEF SetEventOnCompletion, EventWillCome
    <3>2. CASE ~(fence[bufferIndex] >= frameCounter + 1)
      <4>1. PICK k \in DOMAIN graphicsQueue :
              IsSignalOf(graphicsQueue[k], bufferIndex) /\ graphicsQueue[k].value = frameCounter + 1
        BY <1>0, <2>1, <3>2 DEF LastSignalIsOwn
      <4>2. frameCounter + 1 \in waiters'[bufferIndex]
        BY <1>0, <2>1, <3>2 DEF SetEventOnCompletion
      <4> QED
        BY <1>0, <2>1, <4>1, <4>2 DEF EventWillCome
    <3> QED
      BY <3>1, <3>2
  <2>3. ASSUME NEW i \in Contexts, i # bufferIndex PROVE EventWillCome(i)'
    BY <1>0, <2>1, <2>3 DEF SetEventOnCompletion, EventWillCome
  <2> QED
    BY <2>1, <2>2, <2>3
<1>10. CASE Present
  <2> DEFINE e == [op |-> "present"]
  <2>1. e \in Work
    BY WorkType
  <2>2. pc = "present" /\ UNCHANGED <<bufferIndex, event, waiters>>
        /\ ((pc' = "pump" /\ graphicsQueue' = Append(graphicsQueue, e)) \/ pc' = "broken")
    BY <1>10 DEF Present, Break
  <2> HIDE DEF e
  <2> QED
    BY <1>0, <2>1, <2>2, WakeAppend
<1>11. CASE DrainSignal
  <2> DEFINE e == [op |-> "signal", ctx |-> Wfi, value |-> 1]
  <2>1. e \in Work /\ graphicsQueue' = Append(graphicsQueue, e)
    BY <1>0, <1>11, WorkType DEF DrainSignal, QueueSignal
  <2>2. pc = "wfiSignal" /\ pc' = "wfiWait" /\ UNCHANGED <<bufferIndex, event, waiters>>
    BY <1>11 DEF DrainSignal
  <2> HIDE DEF e
  <2> QED
    BY <1>0, <2>1, <2>2, WakeAppend
<1>12. CASE GpuRetire
  <2>1. /\ graphicsQueue # <<>> /\ graphicsQueue' = Tail(graphicsQueue)
        /\ UNCHANGED <<pc, bufferIndex, frameCounter, fence, event, waiters>>
        /\ \A i \in Contexts : ~IsSignalOf(graphicsQueue[1], i)
    BY <1>12, TailWork DEF GpuRetire, IsSignalOf
  <2>2. ASSUME NEW i \in Contexts, EventWillCome(i) PROVE EventWillCome(i)'
    BY <2>1, <2>2, TailWork DEF EventWillCome
  <2>3. ASSUME LastSignalIsOwn PROVE LastSignalIsOwn'
    <3>1. CASE fence[bufferIndex] = frameCounter + 1 /\ ~HasSignal(bufferIndex)
      BY <1>0, <2>1, <3>1, TailWork DEF LastSignalIsOwn, HasSignal
    <3>2. ASSUME NEW k \in DOMAIN graphicsQueue, IsSignalOf(graphicsQueue[k], bufferIndex),
                 graphicsQueue[k].value = frameCounter + 1,
                 \A l \in DOMAIN graphicsQueue :
                    IsSignalOf(graphicsQueue[l], bufferIndex) => l <= k
          PROVE  LastSignalIsOwn'
      <4>1. k # 1
        BY <1>0, <2>1, <3>2
      <4>2. k - 1 \in DOMAIN graphicsQueue' /\ graphicsQueue'[k - 1] = graphicsQueue[k]
        BY <2>1, <3>2, <4>1, TailWork
      <4>3. \A l \in DOMAIN graphicsQueue' :
               IsSignalOf(graphicsQueue'[l], bufferIndex) => l <= k - 1
        BY <2>1, <3>2, TailWork DEF TypeOK
      <4> QED
        BY <2>1, <3>2, <4>2, <4>3 DEF LastSignalIsOwn
    <3> QED
      BY <2>3, <3>1, <3>2 DEF LastSignalIsOwn
  <2> QED
    BY <1>0, <2>1, <2>2, <2>3
<1>13. CASE GpuSignal
  <2> DEFINE f == Head(graphicsQueue).ctx
             v == Head(graphicsQueue).value
             due == {w \in waiters[f] : w <= v}
  <2>1. /\ graphicsQueue # <<>> /\ graphicsQueue' = Tail(graphicsQueue)
        /\ UNCHANGED <<pc, bufferIndex, frameCounter>>
        /\ graphicsQueue[1] = Head(graphicsQueue) /\ Head(graphicsQueue).op = "signal"
    BY <1>13, TailWork DEF GpuSignal
  <2>2. /\ f \in Fences /\ v \in Nat /\ graphicsQueue[1].value = v
        /\ \A i \in Contexts : IsSignalOf(graphicsQueue[1], i) <=> i = f
    BY <2>1, TailWork, WorkType DEF IsSignalOf
  <2>3. /\ fence' = [fence EXCEPT ![f] = v]
        /\ event' = [event EXCEPT ![f] = @ \/ due # {}]
        /\ waiters' = [waiters EXCEPT ![f] = @ \ due]
    BY <1>13 DEF GpuSignal
  <2>4. \A w : w \in due <=> w \in waiters[f] /\ w <= v
    OBVIOUS
  <2> HIDE DEF f, v, due
  <2>5. ASSUME NEW i \in Contexts, EventWillCome(i) PROVE EventWillCome(i)'
    <3>1. CASE event[i] \/ (bufferIndex = i /\ pc \in Recording \cup {"signal", "arm"})
      BY <1>0, <2>1, <2>2, <2>3, <3>1 DEF EventWillCome
    <3>2. CASE i = f /\ due # {}
      BY <1>0, <2>2, <2>3, <3>2 DEF EventWillCome
    <3>3. ASSUME NEW k \in DOMAIN graphicsQueue, IsSignalOf(graphicsQueue[k], i),
                 NEW w \in waiters[i], w <= graphicsQueue[k].value,
                 ~(i = f /\ due # {})
          PROVE  EventWillCome(i)'
      <4>1. waiters'[i] = waiters[i]
        BY <1>0, <2>2, <2>3, <3>3
      <4>2. k # 1
        BY <2>2, <2>4, <3>3
      <4>3. k - 1 \in DOMAIN graphicsQueue' /\ graphicsQueue'[k - 1] = graphicsQueue[k]
        BY <2>1, <4>2, <3>3, TailWork
      <4> QED
        BY <3>3, <4>1, <4>3 DEF EventWillCome
    <3> QED
      BY <2>5, <3>1, <3>2, <3>3 DEF EventWillCome
  <2>6. LastSignalIsOwn => LastSignalIsOwn'
    <3> SUFFICES ASSUME LastSignalIsOwn PROVE LastSignalIsOwn'
      OBVIOUS
    <3>1. CASE fence[bufferIndex] = frameCounter + 1 /\ ~HasSignal(bufferIndex)
      <4>1. bufferIndex # f
        BY <1>0, <2>1, <2>2, <3>1, TailWork DEF HasSignal
      <4> QED
        BY <1>0, <2>1, <2>2, <2>3, <3>1, <4>1, TailWork DEF LastSignalIsOwn, HasSignal
    <3>2. ASSUME NEW k \in DOMAIN graphicsQueue, IsSignalOf(graphicsQueue[k], bufferIndex),
                 graphicsQueue[k].value = frameCounter + 1,
                 \A l \in DOMAIN graphicsQueue :
                    IsSignalOf(graphicsQueue[l], bufferIndex) => l <= k
          PROVE  LastSignalIsOwn'
      <4>1. CASE k = 1
        <5>1. bufferIndex = f /\ v = frameCounter + 1
          BY <1>0, <2>2, <3>2, <4>1
        <5>2. fence'[bufferIndex] = frameCounter + 1
          BY <1>0, <2>2, <2>3, <5>1
        <5>3. ~HasSignal(bufferIndex)'
          BY <2>1, <3>2, <4>1, TailWork DEF HasSignal
        <5> QED
          BY <2>1, <5>2, <5>3 DEF LastSignalIsOwn
      <4>2. CASE k # 1
        <5>1. k - 1 \in DOMAIN graphicsQueue' /\ graphicsQueue'[k - 1] = graphicsQueue[k]
          BY <2>1, <3>2, <4>2, TailWork
        <5>2. \A l \in DOMAIN graphicsQueue' :
                 IsSignalOf(graphicsQueue'[l], bufferIndex) => l <= k - 1
          BY <2>1, <3>2, TailWork DEF TypeOK
        <5> QED
          BY <2>1, <3>2, <5>1, <5>2 DEF LastSignalIsOwn
      <4> QED
        BY <4>1, <4>2
    <3> QED
      BY <3>1, <3>2 DEF LastSignalIsOwn
  <2> QED
    BY <1>0, <2>1, <2>5, <2>6
<1> QED
  BY <1>2, <1>3, <1>4, <1>5, <1>6, <1>7, <1>8, <1>9, <1>10, <1>11, <1>12, <1>13
     DEF Next, MainThread, GpuStep

\* For any number of contexts, also across overflows of the counter: as long as
\* no call fails silently, the event that the next use of a context waits for
\* is set or will be by a signal that is in the queue.
THEOREM WakeupTheorem == Spec => []NoLostWakeup
<1>1. WakeInv => NoLostWakeup
  BY DEF WakeInv, NoLostWakeup
<1> QED
  BY <1>1, TypeInit, TypeStep, WakeInit, WakeStep, PTL DEF Spec

-----------------------------------------------------------------------------
(* Arithmetic of the index: the remainders of neighbours.                    *)

LEMMA Quotient ==
    ASSUME NEW n \in Nat \ {0}, NEW a \in Nat
    PROVE  \E q \in Nat, r \in 0 .. n - 1 : a = n * q + r /\ a % n = r
<1>1. a \div n \in Nat /\ a % n \in 0 .. n - 1 /\ a = n * (a \div n) + (a % n)
  OBVIOUS
<1> QED
  BY <1>1

\* A difference of the quotients would be a difference of n or more.
LEMMA Unique ==
    ASSUME NEW n \in Nat \ {0}, NEW q \in Int, NEW p \in Int,
           NEW r \in 0 .. n - 1, NEW s \in 0 .. n - 1, n * q + r = n * p + s
    PROVE  r = s
<1>1. n * (q - p) = s - r
  OBVIOUS
<1>2. ~(q > p)
  <2> SUFFICES ASSUME q > p PROVE FALSE
    OBVIOUS
  <2> DEFINE d == q - p - 1
  <2>1. d \in Nat /\ q - p = d + 1
    OBVIOUS
  <2> HIDE DEF d
  <2>2. n * (d + 1) = n * d + n /\ n * d >= 0
    BY <2>1
  <2> QED
    BY <1>1, <2>1, <2>2
<1>3. ~(p > q)
  <2> SUFFICES ASSUME p > q PROVE FALSE
    OBVIOUS
  <2> DEFINE d == p - q - 1
  <2>1. d \in Nat /\ q - p = -(d + 1)
    OBVIOUS
  <2> HIDE DEF d
  <2>2. n * (-(d + 1)) = -(n * d) - n /\ n * d >= 0
    BY <2>1
  <2> QED
    BY <1>1, <2>1, <2>2
<1> QED
  BY <1>2, <1>3

LEMMA SmallRemainder ==
    ASSUME NEW n \in Nat \ {0}, NEW a \in 0 .. n - 1
    PROVE  a % n = a
  OBVIOUS

LEMMA OwnRemainder == ASSUME NEW n \in Nat \ {0} PROVE n % n = 0
<1>1. PICK q \in Nat, r \in 0 .. n - 1 : n = n * q + r /\ n % n = r
  BY Quotient
<1>2. n * 1 + 0 = n * q + r /\ 0 \in 0 .. n - 1 /\ 1 \in Int
  BY <1>1
<1> QED
  BY <1>1, <1>2, Unique

LEMMA NextRemainder ==
    ASSUME NEW n \in Nat \ {0}, NEW a \in Nat
    PROVE  (a + 1) % n = ((a % n) + 1) % n
<1>1. PICK q \in Nat, r \in 0 .. n - 1 : a = n * q + r /\ a % n = r
  BY Quotient
<1>2. a + 1 \in Nat
  OBVIOUS
<1>3. PICK p \in Nat, s \in 0 .. n - 1 : a + 1 = n * p + s /\ (a + 1) % n = s
  BY <1>2, Quotient
<1>4. CASE r + 1 < n
  <2> DEFINE t == r + 1
  <2>1. t \in 0 .. n - 1
    BY <1>4
  <2>2. n * q + t = n * p + s
    BY <1>1, <1>3
  <2>3. t % n = t
    BY <2>1, SmallRemainder
  <2>4. s = t
    <3> HIDE DEF t
    <3> QED
      BY <2>1, <2>2, Unique
  <2> QED
    BY <1>1, <1>3, <2>3, <2>4
<1>5. CASE r + 1 = n
  <2>1. n * (q + 1) = n * q + n
    OBVIOUS
  <2>2. n * (q + 1) + 0 = n * p + s
    BY <1>1, <1>3, <1>5, <2>1
  <2>3. q + 1 \in Int /\ 0 \in 0 .. n - 1
    OBVIOUS
  <2>4. s = 0
    BY <2>2, <2>3, Unique
  <2>5. (r + 1) % n = 0
    BY <1>5, OwnRemainder
  <2> QED
    BY <1>1, <1>3, <2>4, <2>5
<1> QED
  BY <1>1, <1>4, <1>5

\* The index and the back buffer both follow the counter, unless it overflows
\* at a value that the contexts do not divide.
TargetInv ==
    ~wrapped \/ CounterModulus % BufferCount = 0 =>
        /\ pc # "broken" => backBuffer = FrameIndex(frameCounter)
        /\ pc \in Acquired \cup {"wait", "present"} => bufferIndex = FrameIndex(frameCounter)

LEMMA TargetInit == Init => TargetInv
  BY SmallRemainder DEF Init, TargetInv, FrameIndex, Acquired, Recording

LEMMA TargetStep == TypeOK /\ TargetInv /\ [Next]_vars => TargetInv'
<1> SUFFICES ASSUME TypeOK, TargetInv, [Next]_vars PROVE TargetInv'
  OBVIOUS
<1> USE DEF TargetInv, mainVars, Acquired, Recording
<1>1. CASE BeginFrame
  BY <1>1 DEF BeginFrame
<1>2. CASE Present
  <2> SUFFICES ASSUME ~wrapped' \/ CounterModulus % BufferCount = 0, pc' # "broken"
               PROVE  pc' = "pump" /\ backBuffer' = FrameIndex(frameCounter')
    BY <1>2 DEF Present, Break
  <2>1. pc' = "pump" /\ backBuffer' = (FrameIndex(frameCounter) + 1) % BufferCount
    BY <1>2 DEF Present, AdvanceCounter, Break
  <2>2. backBuffer' = (frameCounter + 1) % BufferCount
    <3>1. frameCounter \in Nat
      BY DEF TypeOK
    <3> QED
      BY <2>1, <3>1, NextRemainder DEF FrameIndex
  <2>3. CASE frameCounter + 1 = CounterModulus
    <3>1. frameCounter' = 0 /\ wrapped'
      BY <1>2, <2>3 DEF Present, AdvanceCounter
    <3>2. 0 % BufferCount = 0
      BY SmallRemainder
    <3> QED
      BY <2>1, <2>2, <2>3, <3>1, <3>2 DEF FrameIndex
  <2>4. CASE frameCounter + 1 # CounterModulus
    BY <1>2, <2>1, <2>2, <2>4 DEF Present, AdvanceCounter, FrameIndex
  <2> QED
    BY <2>3, <2>4
<1>3. CASE \/ WaitFrame \/ ResetAllocator \/ ResetList \/ CloseList
           \/ ExecuteCommandLists \/ SignalFrame \/ ArmFrame
  BY <1>3 DEF WaitFrame, ResetAllocator, ResetList, CloseList, ExecuteCommandLists,
              SignalFrame, ArmFrame, Break
<1>4. CASE \/ HandleMessages \/ BeginDrain \/ DrainArm \/ DrainSignal \/ DrainWait \/ Release
  BY <1>4 DEF HandleMessages, PeekNothing, DispatchPosted, RetrieveQuit, BeginDrain,
              DrainArm, DrainSignal, DrainWait, Release, Break
<1>5. CASE GpuStep \/ (\E m \in Message : PostMessage(m)) \/ SendClose \/ Stopped \/ UNCHANGED vars
  BY <1>5 DEF GpuStep, GpuRetire, GpuSignal, PostMessage, SendClose, Stopped, vars
<1> QED
  BY <1>1, <1>2, <1>3, <1>4, <1>5 DEF Next, MainThread

\* For any number of contexts: the frame is drawn into the current back buffer,
\* after an overflow too if the contexts divide the range of the counter.
THEOREM RenderTargetTheorem == Spec => []RenderTargetIsBackBuffer
<1>1. TargetInv => RenderTargetIsBackBuffer
  BY DEF TargetInv, RenderTargetIsBackBuffer, Acquired, Recording
<1> QED
  BY <1>1, TypeInit, TypeStep, TargetInit, TargetStep, PTL DEF Spec

LEMMA Near ==
    ASSUME NEW n \in Nat \ {0}, NEW a \in Nat, NEW b \in Nat, a % n = b % n, a < b
    PROVE  b - a >= n
<1>1. PICK q \in Nat, r \in 0 .. n - 1 : a = n * q + r /\ a % n = r
  BY Quotient
<1>2. PICK p \in Nat, t \in 0 .. n - 1 : b = n * p + t /\ b % n = t
  BY Quotient
<1>3. r = t /\ n * q < n * p
  BY <1>1, <1>2
<1>4. q < p
  <2> SUFFICES ASSUME ~(q < p) PROVE FALSE
    OBVIOUS
  <2> DEFINE d == q - p
  <2>1. d \in Nat /\ q = p + d
    OBVIOUS
  <2> HIDE DEF d
  <2>2. n * (p + d) = n * p + n * d /\ n * d >= 0
    BY <2>1
  <2> QED
    BY <1>3, <2>1, <2>2
<1> DEFINE e == p - q - 1
<1>5. e \in Nat /\ p = q + e + 1
  BY <1>4
<1> HIDE DEF e
<1>6. n * (q + e + 1) = n * q + n * e + n /\ n * e >= 0
  BY <1>5
<1> QED
  BY <1>1, <1>2, <1>3, <1>5, <1>6

\* Among n neighbours every remainder occurs.
LEMMA Window ==
    ASSUME NEW n \in Nat \ {0}, NEW w \in Nat, NEW c \in Nat
    PROVE  \E v \in w .. w + n - 1 : v % n = c % n
<1>1. PICK r \in 0 .. n - 1 : c % n = r
  BY Quotient
<1>2. PICK q \in Nat, t \in 0 .. n - 1 : w = n * q + t
  BY Quotient, ZenonT(30)
<1>3. ASSUME NEW m \in Nat, NEW v \in Nat, v = n * m + r PROVE v % n = r
  <2>1. PICK p \in Nat, u \in 0 .. n - 1 : v = n * p + u /\ v % n = u
    BY Quotient
  <2> QED
    BY <1>3, <2>1, Unique, SMTT(30)
<1>4. CASE t <= r
  <2> DEFINE v == n * q + r
  <2>1. n * q \in Nat
    OBVIOUS
  <2>2. v \in w .. w + n - 1 /\ v \in Nat
    BY <1>2, <1>4, <2>1
  <2>3. v % n = r
    BY <1>3, <2>2
  <2> QED
    BY <1>1, <2>2, <2>3
<1>5. CASE t > r
  <2> DEFINE v == n * (q + 1) + r
  <2>1. n * (q + 1) = n * q + n /\ n * q \in Nat /\ q + 1 \in Nat
    OBVIOUS
  <2>2. v \in w .. w + n - 1 /\ v \in Nat
    BY <1>2, <1>5, <2>1
  <2>3. v % n = r
    BY <1>3, <2>1, <2>2
  <2> QED
    BY <1>1, <2>2, <2>3
<1> QED
  BY <1>4, <1>5

-----------------------------------------------------------------------------
(* Behind an overflow. While no Signal fails silently, the queue holds the    *)
(* end of the frames' works one behind the other, each with the counter that  *)
(* its frame had.                                                            *)

\* The counter of the frame d presents before the one at c.
Ago(c, d) == IF d <= c THEN c - d ELSE c - d + CounterModulus

\* q is the end of these works, the last n of them of the frame at c itself.
InTurn(q, n, c) ==
    \A k \in 1 .. Len(q), d \in Nat :
        /\ Len(q) - k - n = 3 * d - 1 => q[k] = [op |-> "execute", ctx |-> FrameIndex(Ago(c, d))]
        /\ Len(q) - k - n = 3 * d - 2 =>
              q[k] = [op |-> "signal", ctx |-> FrameIndex(Ago(c, d)), value |-> Ago(c, d) + 1]
        /\ Len(q) - k - n = 3 * d - 3 => q[k] = [op |-> "present"]

LEMMA TurnExecute ==
    ASSUME NEW q \in Seq(Work), NEW c \in Nat, InTurn(q, 0, c),
           NEW e \in Work, e = [op |-> "execute", ctx |-> FrameIndex(c)]
    PROVE  InTurn(Append(q, e), 1, c)
<1>1. PICK r : r = Append(q, e)
  OBVIOUS
<1>2. /\ Len(r) = Len(q) + 1 /\ r[Len(q) + 1] = e /\ Len(q) \in Nat
      /\ \A k \in 1 .. Len(q) : r[k] = q[k]
  BY <1>1, AppendFacts
<1>3. ASSUME NEW k \in 1 .. Len(r), NEW d \in Nat
      PROVE  /\ Len(r) - k - 1 = 3 * d - 1 => r[k] = [op |-> "execute", ctx |-> FrameIndex(Ago(c, d))]
             /\ Len(r) - k - 1 = 3 * d - 2 =>
                  r[k] = [op |-> "signal", ctx |-> FrameIndex(Ago(c, d)), value |-> Ago(c, d) + 1]
             /\ Len(r) - k - 1 = 3 * d - 3 => r[k] = [op |-> "present"]
  <2>1. CASE k <= Len(q)
    <3>1. k \in 1 .. Len(q) /\ Len(r) - k - 1 = Len(q) - k - 0 /\ r[k] = q[k]
      BY <1>2, <2>1
    <3> QED
      BY <3>1 DEF InTurn
  <2>2. CASE ~(k <= Len(q))
    <3>1. k = Len(q) + 1 /\ Len(r) - k - 1 = -1 /\ r[k] = e
      BY <1>2, <2>2
    <3>2. Len(r) - k - 1 = 3 * d - 1 => d = 0
      BY <3>1
    <3>3. Ago(c, 0) = c
      BY DEF Ago
    <3> QED
      BY <3>1, <3>2, <3>3
  <2> QED
    BY <2>1, <2>2
<1> QED
  BY <1>1, <1>3 DEF InTurn

LEMMA TurnSignal ==
    ASSUME NEW q \in Seq(Work), NEW c \in Nat, InTurn(q, 1, c),
           NEW e \in Work, e = [op |-> "signal", ctx |-> FrameIndex(c), value |-> c + 1]
    PROVE  InTurn(Append(q, e), 2, c)
<1>1. PICK r : r = Append(q, e)
  OBVIOUS
<1>2. /\ Len(r) = Len(q) + 1 /\ r[Len(q) + 1] = e /\ Len(q) \in Nat
      /\ \A k \in 1 .. Len(q) : r[k] = q[k]
  BY <1>1, AppendFacts
<1>3. ASSUME NEW k \in 1 .. Len(r), NEW d \in Nat
      PROVE  /\ Len(r) - k - 2 = 3 * d - 1 => r[k] = [op |-> "execute", ctx |-> FrameIndex(Ago(c, d))]
             /\ Len(r) - k - 2 = 3 * d - 2 =>
                  r[k] = [op |-> "signal", ctx |-> FrameIndex(Ago(c, d)), value |-> Ago(c, d) + 1]
             /\ Len(r) - k - 2 = 3 * d - 3 => r[k] = [op |-> "present"]
  <2>1. CASE k <= Len(q)
    <3>1. k \in 1 .. Len(q) /\ Len(r) - k - 2 = Len(q) - k - 1 /\ r[k] = q[k]
      BY <1>2, <2>1
    <3> QED
      BY <3>1 DEF InTurn
  <2>2. CASE ~(k <= Len(q))
    <3>1. k = Len(q) + 1 /\ Len(r) - k - 2 = -2 /\ r[k] = e
      BY <1>2, <2>2
    <3>2. Len(r) - k - 2 = 3 * d - 2 => d = 0
      BY <3>1
    <3>3. Ago(c, 0) = c
      BY DEF Ago
    <3> QED
      BY <3>1, <3>2, <3>3
  <2> QED
    BY <2>1, <2>2
<1> QED
  BY <1>1, <1>3 DEF InTurn

\* A frame more behind, whether the counter overflows or not.
LEMMA TurnPresent ==
    ASSUME NEW q \in Seq(Work), NEW c \in 0 .. CounterModulus - 1, InTurn(q, 2, c),
           NEW m \in Nat, m < CounterModulus, Len(q) <= 3 * m + 2,
           NEW e \in Work, e = [op |-> "present"],
           NEW b \in Nat, b = IF c + 1 = CounterModulus THEN 0 ELSE c + 1
    PROVE  InTurn(Append(q, e), 0, b)
<1>1. PICK r : r = Append(q, e)
  OBVIOUS
<1>2. /\ Len(r) = Len(q) + 1 /\ r[Len(q) + 1] = e /\ Len(q) \in Nat
      /\ \A k \in 1 .. Len(q) : r[k] = q[k]
  BY <1>1, AppendFacts
<1>3. ASSUME NEW k \in 1 .. Len(r), NEW d \in Nat
      PROVE  /\ Len(r) - k - 0 = 3 * d - 1 => r[k] = [op |-> "execute", ctx |-> FrameIndex(Ago(b, d))]
             /\ Len(r) - k - 0 = 3 * d - 2 =>
                  r[k] = [op |-> "signal", ctx |-> FrameIndex(Ago(b, d)), value |-> Ago(b, d) + 1]
             /\ Len(r) - k - 0 = 3 * d - 3 => r[k] = [op |-> "present"]
  <2>1. CASE k <= Len(q)
    <3>1. k \in 1 .. Len(q) /\ Len(q) - k - 2 = Len(r) - k - 3 /\ r[k] = q[k]
      BY <1>2, <2>1
    <3>2. CASE d = 0
      BY <1>2, <3>1, <3>2
    <3>3. CASE d # 0
      <4>1. PICK f \in Nat : d = f + 1
        BY <3>3
      <4>2. /\ Len(r) - k - 0 = 3 * d - 1 => Len(q) - k - 2 = 3 * f - 1
            /\ Len(r) - k - 0 = 3 * d - 2 => Len(q) - k - 2 = 3 * f - 2
            /\ Len(r) - k - 0 = 3 * d - 3 => Len(q) - k - 2 = 3 * f - 3
        BY <1>2, <3>1, <4>1
      <4>3. Len(r) - k - 0 = 3 * d - 1 \/ Len(r) - k - 0 = 3 * d - 2 => f <= m
        BY <1>2, <3>1, <4>1
      <4>4. f <= m => Ago(b, d) = Ago(c, f)
        BY <4>1 DEF Ago
      <4> QED
        BY <3>1, <4>2, <4>3, <4>4 DEF InTurn
    <3> QED
      BY <3>2, <3>3
  <2>2. CASE ~(k <= Len(q))
    <3>1. k = Len(q) + 1 /\ Len(r) - k - 0 = 0 /\ r[k] = e
      BY <1>2, <2>2
    <3>2. ~(Len(r) - k - 0 = 3 * d - 1) /\ ~(Len(r) - k - 0 = 3 * d - 2)
      BY <3>1
    <3> QED
      BY <3>1, <3>2
  <2> QED
    BY <2>1, <2>2
<1> QED
  BY <1>1, <1>3 DEF InTurn

LEMMA TurnTail ==
    ASSUME NEW q \in Seq(Work), NEW n \in Nat, NEW c \in Nat, InTurn(q, n, c), q # <<>>
    PROVE  InTurn(Tail(q), n, c)
<1>1. PICK r : r = Tail(q)
  OBVIOUS
<1>2. /\ Len(r) = Len(q) - 1 /\ Len(q) \in Nat \ {0}
      /\ \A k \in 1 .. Len(q) - 1 : r[k] = q[k + 1]
  BY <1>1, TailFacts
<1>3. ASSUME NEW k \in 1 .. Len(r), NEW d \in Nat
      PROVE  /\ Len(r) - k - n = 3 * d - 1 => r[k] = [op |-> "execute", ctx |-> FrameIndex(Ago(c, d))]
             /\ Len(r) - k - n = 3 * d - 2 =>
                  r[k] = [op |-> "signal", ctx |-> FrameIndex(Ago(c, d)), value |-> Ago(c, d) + 1]
             /\ Len(r) - k - n = 3 * d - 3 => r[k] = [op |-> "present"]
  <2>1. PICK l \in 1 .. Len(q) : l = k + 1
    BY <1>2
  <2>2. Len(r) - k - n = Len(q) - l - n /\ r[k] = q[l]
    BY <1>2, <2>1
  <2> QED
    BY <2>2 DEF InTurn
<1> QED
  BY <1>1, <1>3 DEF InTurn

\* Every work in the queue is one of a frame d presents ago.
LEMMA TurnKinds ==
    ASSUME NEW q \in Seq(Work), NEW n \in 0 .. 2, NEW k \in 1 .. Len(q)
    PROVE  \E d \in Nat : \/ Len(q) - k - n = 3 * d - 1 \/ Len(q) - k - n = 3 * d - 2
                          \/ Len(q) - k - n = 3 * d - 3
<1>1. PICK x \in Nat : x = Len(q) - k - n + 3
  <2>1. Len(q) - k - n + 3 \in Nat
    OBVIOUS
  <2> QED
    BY <2>1
<1>2. PICK d \in Nat : x = 3 * d \/ x = 3 * d + 1 \/ x = 3 * d + 2
  <2>1. x \div 3 \in Nat /\ (x = 3 * (x \div 3) \/ x = 3 * (x \div 3) + 1 \/ x = 3 * (x \div 3) + 2)
    OBVIOUS
  <2> QED
    BY <2>1
<1>3. CASE x = 3 * d
  BY <1>1, <1>3
<1>4. CASE x = 3 * d + 1
  BY <1>1, <1>4
<1>5. CASE x = 3 * d + 2
  BY <1>1, <1>5
<1> QED
  BY <1>2, <1>3, <1>4, <1>5

\* A signal in the queue is that of the frame d presents ago.
LEMMA TurnOfSignal ==
    ASSUME NEW q \in Seq(Work), NEW n \in 0 .. 2, NEW c \in Nat, InTurn(q, n, c)
    PROVE  \A k \in 1 .. Len(q) : q[k].op = "signal" =>
              \E d \in Nat : /\ Len(q) - k - n = 3 * d - 2
                             /\ q[k].ctx = FrameIndex(Ago(c, d)) /\ q[k].value = Ago(c, d) + 1
<1> SUFFICES ASSUME NEW k \in 1 .. Len(q), q[k].op = "signal"
             PROVE  \E d \in Nat : /\ Len(q) - k - n = 3 * d - 2
                                   /\ q[k].ctx = FrameIndex(Ago(c, d)) /\ q[k].value = Ago(c, d) + 1
  OBVIOUS
<1>1. PICK d \in Nat : \/ Len(q) - k - n = 3 * d - 1 \/ Len(q) - k - n = 3 * d - 2
                       \/ Len(q) - k - n = 3 * d - 3
  BY TurnKinds
<1>2. ASSUME Len(q) - k - n = 3 * d - 1 PROVE FALSE
  <2>1. q[k] = [op |-> "execute", ctx |-> FrameIndex(Ago(c, d))]
    BY <1>2 DEF InTurn
  <2>2. q[k].op = "execute"
    BY <2>1
  <2> QED
    BY <2>2
<1>3. ASSUME Len(q) - k - n = 3 * d - 3 PROVE FALSE
  <2>1. q[k] = [op |-> "present"]
    BY <1>3 DEF InTurn
  <2>2. q[k].op = "present"
    BY <2>1
  <2> QED
    BY <2>2
<1>4. Len(q) - k - n = 3 * d - 2
  BY <1>1, <1>2, <1>3
<1>5. q[k] = [op |-> "signal", ctx |-> FrameIndex(Ago(c, d)), value |-> Ago(c, d) + 1]
  BY <1>4 DEF InTurn
<1>6. q[k].ctx = FrameIndex(Ago(c, d)) /\ q[k].value = Ago(c, d) + 1
  BY <1>5
<1> QED
  BY <1>4, <1>6

\* An execution in the queue is that of the frame d presents ago.
LEMMA TurnOfExecution ==
    ASSUME NEW q \in Seq(Work), NEW n \in 0 .. 2, NEW c \in Nat, InTurn(q, n, c)
    PROVE  \A k \in 1 .. Len(q) : q[k].op = "execute" =>
             \E d \in Nat : Len(q) - k - n = 3 * d - 1 /\ q[k].ctx = FrameIndex(Ago(c, d))
<1> SUFFICES ASSUME NEW k \in 1 .. Len(q), q[k].op = "execute"
             PROVE  \E d \in Nat : Len(q) - k - n = 3 * d - 1 /\ q[k].ctx = FrameIndex(Ago(c, d))
  OBVIOUS
<1>1. PICK d \in Nat : \/ Len(q) - k - n = 3 * d - 1 \/ Len(q) - k - n = 3 * d - 2
                       \/ Len(q) - k - n = 3 * d - 3
  BY TurnKinds
<1>2. ASSUME Len(q) - k - n = 3 * d - 2 PROVE FALSE
  <2>1. q[k] = [op |-> "signal", ctx |-> FrameIndex(Ago(c, d)), value |-> Ago(c, d) + 1]
    BY <1>2 DEF InTurn
  <2>2. q[k].op = "signal"
    BY <2>1
  <2> QED
    BY <2>2
<1>3. ASSUME Len(q) - k - n = 3 * d - 3 PROVE FALSE
  <2>1. q[k] = [op |-> "present"]
    BY <1>3 DEF InTurn
  <2>2. q[k].op = "present"
    BY <2>1
  <2> QED
    BY <2>2
<1>4. Len(q) - k - n = 3 * d - 1
  BY <1>1, <1>2, <1>3
<1>5. q[k] = [op |-> "execute", ctx |-> FrameIndex(Ago(c, d))]
  BY <1>4 DEF InTurn
<1>6. q[k].ctx = FrameIndex(Ago(c, d))
  BY <1>5
<1> QED
  BY <1>4, <1>6

\* The flips of m frames.
LEMMA FlipCount ==
    ASSUME NEW q \in Seq(Work), NEW n \in 0 .. 2, NEW c \in Nat, InTurn(q, n, c),
           NEW m \in Nat, n + 3 * m < Len(q) + 3
    PROVE  Cardinality({k \in DOMAIN q : IsFlip(q[k])}) >= m
<1> DEFINE flips == {k \in DOMAIN q : IsFlip(q[k])}
           f == [j \in 1 .. m |-> Len(q) - n - 3 * j + 3]
<1>1. IsFiniteSet(flips) /\ Cardinality(flips) \in Nat
  <2>1. IsFiniteSet(1 .. Len(q))
    BY FS_Interval
  <2>2. flips \in SUBSET (1 .. Len(q))
    OBVIOUS
  <2>3. IsFiniteSet(flips)
    <3> HIDE DEF flips
    <3> QED
      BY <2>1, <2>2, FS_Subset
  <2> QED
    BY <2>3, FS_CardinalityType
<1>2. ASSUME NEW j \in 1 .. m PROVE f[j] \in flips
  <2>1. Len(q) - n - 3 * j + 3 \in 1 .. Len(q)
    OBVIOUS
  <2>2. PICK k \in 1 .. Len(q) : k = Len(q) - n - 3 * j + 3
    BY <2>1
  <2>3. Len(q) - k - n = 3 * j - 3 /\ j \in Nat
    BY <2>2
  <2>4. q[k] = [op |-> "present"]
    BY <2>3 DEF InTurn
  <2> QED
    BY <2>2, <2>4 DEF IsFlip
<1>3. \A i, j \in 1 .. m : f[i] = f[j] => i = j
  OBVIOUS
<1>4. f \in Injection(1 .. m, flips)
  <2>1. f \in [1 .. m -> flips]
    BY <1>2
  <2> HIDE DEF f, flips
  <2> QED
    BY <1>3, <2>1 DEF Injection, IsInjective
<1>5. Cardinality(1 .. m) = m
  BY FS_Interval
<1> HIDE DEF f, flips
<1>6. Cardinality(1 .. m) <= Cardinality(flips)
  BY <1>1, <1>4, FS_Injection
<1> QED
  BY <1>1, <1>5, <1>6 DEF flips

\* Which frame was the last to append a signal, and whether the queue of len
\* works has executed that of the frame at v.
Latest(n, c) == IF n = 2 THEN c ELSE c - 1
Signalled(v, len, n, c) == 3 * (c - v) - 2 + n >= len

\* After a frame of this lap has been signalled, its fence holds the value of such
\* a frame, and not of one before it.
Follows(values, len, n, c) ==
    \A v \in 0 .. Latest(n, c) : Signalled(v, len, n, c) =>
        /\ v <= values[FrameIndex(v)] - 1
        /\ values[FrameIndex(v)] - 1 <= Latest(n, c)
        /\ Signalled(values[FrameIndex(v)] - 1, len, n, c)

IsValues(values) == \A i \in Contexts : values[i] \in Nat

LEMMA FollowsExecute ==
    ASSUME NEW values, NEW len \in Nat, NEW c \in Nat, Follows(values, len, 0, c), IsValues(values)
    PROVE  Follows(values, len + 1, 1, c)
<1>1. \A v \in Int : Signalled(v, len + 1, 1, c) <=> Signalled(v, len, 0, c)
  BY DEF Signalled
<1>2. Latest(1, c) = Latest(0, c) /\ Latest(0, c) \in Int
  BY DEF Latest
<1>3. \A v \in 0 .. Latest(0, c) : v \in Int /\ values[FrameIndex(v)] - 1 \in Int
  BY <1>2, IndexType DEF IsValues
<1> QED
  BY <1>1, <1>2, <1>3 DEF Follows

LEMMA FollowsSignal ==
    ASSUME NEW values, NEW len \in Nat, NEW c \in Nat, Follows(values, len, 1, c), IsValues(values)
    PROVE  Follows(values, len + 1, 2, c)
<1>1. \A v \in Int : Signalled(v, len + 1, 2, c) <=> Signalled(v, len, 1, c)
  BY DEF Signalled
<1>2. Latest(2, c) = c /\ Latest(1, c) = c - 1
  BY DEF Latest
<1>3. ASSUME NEW v \in 0 .. c, Signalled(v, len + 1, 2, c) PROVE v \in 0 .. c - 1
  <2>1. v # c
    BY <1>3 DEF Signalled
  <2> QED
    BY <2>1
<1>4. \A v \in 0 .. c - 1 : v \in Int /\ values[FrameIndex(v)] - 1 \in Int
  BY IndexType DEF IsValues
<1>5. ASSUME NEW v \in 0 .. Latest(2, c), Signalled(v, len + 1, 2, c)
      PROVE  /\ v <= values[FrameIndex(v)] - 1
             /\ values[FrameIndex(v)] - 1 <= Latest(2, c)
             /\ Signalled(values[FrameIndex(v)] - 1, len + 1, 2, c)
  <2>1. v \in 0 .. c - 1 /\ Signalled(v, len, 1, c)
    BY <1>1, <1>2, <1>3, <1>5
  <2>2. /\ v <= values[FrameIndex(v)] - 1
        /\ values[FrameIndex(v)] - 1 <= c - 1
        /\ Signalled(values[FrameIndex(v)] - 1, len, 1, c)
    BY <1>2, <2>1 DEF Follows
  <2>3. values[FrameIndex(v)] - 1 \in Int
    BY <1>4, <2>1
  <2>4. values[FrameIndex(v)] - 1 <= c
    BY <2>2, <2>3
  <2> QED
    BY <1>1, <1>2, <2>2, <2>3, <2>4
<1> QED
  BY <1>5 DEF Follows

LEMMA FollowsPresent ==
    ASSUME NEW values, NEW len \in Nat, NEW c \in Nat, Follows(values, len, 2, c), IsValues(values),
           NEW b \in Nat, b = c + 1 \/ b = 0
    PROVE  Follows(values, len + 1, 0, b)
<1>1. CASE b = 0
  BY <1>1 DEF Follows, Latest
<1>2. CASE b = c + 1
  <2>1. \A v \in Int : Signalled(v, len + 1, 0, b) <=> Signalled(v, len, 2, c)
    BY <1>2 DEF Signalled
  <2>2. Latest(0, b) = c /\ Latest(2, c) = c
    BY <1>2 DEF Latest
  <2>3. \A v \in 0 .. c : v \in Int /\ values[FrameIndex(v)] - 1 \in Int
    BY IndexType DEF IsValues
  <2> QED
    BY <2>1, <2>2, <2>3 DEF Follows
<1> QED
  BY <1>1, <1>2

\* The work at the head is not a signal.
LEMMA FollowsRetire ==
    ASSUME NEW values, NEW q \in Seq(Work), NEW n \in 0 .. 2, NEW c \in Nat,
           InTurn(q, n, c), Follows(values, Len(q), n, c), IsValues(values),
           q # <<>>, q[1].op # "signal"
    PROVE  Follows(values, Len(q) - 1, n, c)
<1>1. PICK len \in Nat \ {0} : len = Len(q)
  BY TailFacts
<1>2. ASSUME NEW v \in 0 .. Latest(n, c), Signalled(v, len - 1, n, c) PROVE Signalled(v, len, n, c)
  <2> SUFFICES ASSUME ~Signalled(v, len, n, c) PROVE FALSE
    OBVIOUS
  <2>1. Latest(n, c) \in Int /\ Latest(n, c) <= c
    BY DEF Latest
  <2>2. PICK d \in Nat : d = c - v
    <3>1. c - v \in Nat
      BY <2>1
    <3> QED
      BY <3>1
  <2>3. len - 1 - n = 3 * d - 2
    <3>1. 3 * d - 2 + n >= len - 1 /\ ~(3 * d - 2 + n >= len)
      BY <1>2, <2>2 DEF Signalled
    <3> QED
      BY <3>1
  <2>4. q[1].op = "signal"
    <3>1. 1 \in 1 .. Len(q) /\ Len(q) - 1 - n = 3 * d - 2
      BY <1>1, <2>3
    <3>2. q[1] = [op |-> "signal", ctx |-> FrameIndex(Ago(c, d)), value |-> Ago(c, d) + 1]
      BY <3>1 DEF InTurn
    <3> QED
      BY <3>2
  <2> QED
    BY <2>4
<1>3. \A v \in Int : Signalled(v, len, n, c) => Signalled(v, len - 1, n, c)
  BY DEF Signalled
<1>4. \A v \in 0 .. Latest(n, c) : v \in Int /\ values[FrameIndex(v)] - 1 \in Int
  <2>1. Latest(n, c) \in Int
    BY DEF Latest
  <2> QED
    BY <2>1, IndexType DEF IsValues
<1>5. Follows(values, len, n, c)
  BY <1>1
<1>6. Follows(values, len - 1, n, c)
  BY <1>2, <1>3, <1>4, <1>5 DEF Follows
<1> QED
  BY <1>1, <1>6

\* The signal at the head is that of the frame d presents ago.
LEMMA FollowsFence ==
    ASSUME NEW values, NEW others, NEW len \in Nat \ {0}, NEW n \in 0 .. 2, NEW c \in Nat,
           Follows(values, len, n, c), IsValues(values),
           NEW d \in Nat, len - 1 - n = 3 * d - 2,
           \A i \in Contexts : others[i] = IF i = FrameIndex(Ago(c, d)) THEN Ago(c, d) + 1
                                                                     ELSE values[i]
    PROVE  Follows(others, len - 1, n, c)
<1>1. Latest(n, c) \in Int /\ Latest(n, c) <= c
  BY DEF Latest
<1>2. ASSUME NEW v \in 0 .. Latest(n, c), Signalled(v, len - 1, n, c)
      PROVE  /\ v <= others[FrameIndex(v)] - 1
             /\ others[FrameIndex(v)] - 1 <= Latest(n, c)
             /\ Signalled(others[FrameIndex(v)] - 1, len - 1, n, c)
  <2>1. c - v >= d /\ d <= c
    BY <1>1, <1>2 DEF Signalled
  <2>2. Ago(c, d) = c - d /\ c - d \in Nat
    BY <2>1 DEF Ago
  <2>3. FrameIndex(v) \in Contexts /\ v \in Nat
    BY IndexType
  <2>4. CASE FrameIndex(v) = FrameIndex(Ago(c, d))
    <3>1. others[FrameIndex(v)] - 1 = c - d
      BY <2>2, <2>3, <2>4
    <3>2. v <= c - d /\ Signalled(c - d, len - 1, n, c)
      BY <2>1 DEF Signalled
    <3>3. c - d <= Latest(n, c)
      BY DEF Latest
    <3> QED
      BY <3>1, <3>2, <3>3
  <2>5. CASE FrameIndex(v) # FrameIndex(Ago(c, d))
    <3>1. others[FrameIndex(v)] = values[FrameIndex(v)] /\ values[FrameIndex(v)] - 1 \in Int
      BY <2>3, <2>5 DEF IsValues
    <3>2. v # c - d
      BY <2>2, <2>5
    <3>3. Signalled(v, len, n, c)
      BY <1>1, <2>1, <3>2 DEF Signalled
    <3>4. /\ v <= values[FrameIndex(v)] - 1
          /\ values[FrameIndex(v)] - 1 <= Latest(n, c)
          /\ Signalled(values[FrameIndex(v)] - 1, len, n, c)
      BY <3>3 DEF Follows
    <3>5. Signalled(values[FrameIndex(v)] - 1, len - 1, n, c)
      BY <3>1, <3>4 DEF Signalled
    <3> QED
      BY <3>1, <3>4, <3>5
  <2> QED
    BY <2>4, <2>5
<1> QED
  BY <1>2 DEF Follows

Looping == {"render", "wait", "present", "pump"} \cup Acquired

\* The works of the frame at the counter that are in the queue, or were.
Begun == IF pc = "signal" THEN 1 ELSE IF pc \in {"arm", "present"} THEN 2 ELSE 0

InContext == pc \in Acquired \cup {"wait", "present"} => bufferIndex = FrameIndex(frameCounter)
LengthOK == Len(graphicsQueue) <= 3 * PresentLatency + Begun

\* An event has one waiter at most, and none when it is set or about to be armed.
OneWaiter ==
    /\ \A i \in Contexts : event[i] => waiters[i] = {}
    /\ \A i \in Contexts : \A x, y \in waiters[i] : x = y
    /\ pc \in Acquired => ~event[bufferIndex] /\ waiters[bufferIndex] = {}

\* The last frames before an overflow wait for their own signals: nobody gets
\* their contexts before.
EndOfLap ==
    \A k \in DOMAIN graphicsQueue :
        graphicsQueue[k].op = "signal" /\ graphicsQueue[k].value > CounterModulus - BufferCount =>
            /\ ~event[graphicsQueue[k].ctx]
            /\ waiters[graphicsQueue[k].ctx] \subseteq {graphicsQueue[k].value}
            /\ pc \in Recording \cup {"signal"} => bufferIndex # graphicsQueue[k].ctx
            /\ pc = "arm" /\ bufferIndex = graphicsQueue[k].ctx
                   => graphicsQueue[k].value = frameCounter + 1

LapInv ==
    pc \in Looping =>
        /\ InContext /\ LengthOK /\ OneWaiter /\ EndOfLap
        /\ InTurn(graphicsQueue, Begun, frameCounter)
        /\ Follows(fence, Len(graphicsQueue), Begun, frameCounter)

\* The counter is far wider than the latency: 2^32, of at most 16 presents. And no
\* Signal fails silently.
WideCounter ==
    /\ "signal" \notin SilentFailures
    /\ CounterModulus >= PresentLatency + 2 * BufferCount

LEMMA LapInit == Init => LapInv
<1> SUFFICES ASSUME Init PROVE LapInv
  OBVIOUS
<1>1. graphicsQueue = <<>> /\ Len(graphicsQueue) = 0 /\ frameCounter = 0 /\ Begun = 0 /\ pc = "render"
  BY DEF Init, Begun
<1>2. InTurn(graphicsQueue, Begun, frameCounter)
  BY <1>1 DEF InTurn
<1>3. Follows(fence, Len(graphicsQueue), Begun, frameCounter)
  BY <1>1 DEF Follows, Latest
<1>4. InContext /\ LengthOK /\ EndOfLap
  BY <1>1, PresentLatencyAssumption DEF InContext, LengthOK, EndOfLap, Acquired, Recording
<1>5. OneWaiter
  BY <1>1, ContextsAreFences DEF Init, OneWaiter, Acquired, Recording
<1> QED
  BY <1>2, <1>3, <1>4, <1>5 DEF LapInv

LEMMA LapTypes ==
    ASSUME TypeOK
    PROVE  /\ graphicsQueue \in Seq(Work) /\ Len(graphicsQueue) \in Nat
           /\ frameCounter \in 0 .. CounterModulus - 1 /\ frameCounter \in Nat
           /\ bufferIndex \in Contexts /\ IsValues(fence)
           /\ Begun \in 0 .. 2
           /\ DOMAIN graphicsQueue = 1 .. Len(graphicsQueue)
  BY ContextsAreFences DEF TypeOK, Begun, IsValues

\* An action that does not touch what LapInv speaks of, or little of it.
LEMMA LapQuiet ==
    ASSUME LapInv, pc \in Looping,
           UNCHANGED <<graphicsQueue, fence, event, waiters, frameCounter>>,
           Begun' = Begun, InContext',
           \/ pc' = pc /\ bufferIndex' = bufferIndex
           \/ pc \in Recording /\ pc' \in Recording /\ bufferIndex' = bufferIndex
           \/ pc' \in {"render", "wait", "pump"}
    PROVE  LapInv'
<1>1. /\ LengthOK /\ OneWaiter /\ EndOfLap
      /\ InTurn(graphicsQueue, Begun, frameCounter)
      /\ Follows(fence, Len(graphicsQueue), Begun, frameCounter)
  BY DEF LapInv
<1>2. LengthOK'
  BY <1>1 DEF LengthOK
<1>3. OneWaiter'
  BY <1>1 DEF OneWaiter, Acquired, Recording
<1>4. EndOfLap'
  BY <1>1 DEF EndOfLap, Recording
<1> QED
  BY <1>1, <1>2, <1>3, <1>4 DEF LapInv

LEMMA LapWait == ASSUME TypeOK, LapInv, WaitFrame PROVE LapInv'
<1>1. /\ pc = "wait" /\ pc' = "reset" /\ event[bufferIndex] /\ bufferIndex \in Contexts
      /\ event' = [event EXCEPT ![bufferIndex] = FALSE]
      /\ UNCHANGED <<bufferIndex, graphicsQueue, fence, waiters, frameCounter>>
  BY DEF WaitFrame, WaitForEvent, TypeOK
<1>2. /\ InContext /\ LengthOK /\ OneWaiter /\ EndOfLap
      /\ InTurn(graphicsQueue, Begun, frameCounter)
      /\ Follows(fence, Len(graphicsQueue), Begun, frameCounter)
  BY <1>1 DEF LapInv, Looping
<1>3. Begun' = Begun
  BY <1>1 DEF Begun
<1>4. InContext' /\ LengthOK'
  BY <1>1, <1>2, <1>3 DEF InContext, LengthOK, Acquired, Recording
<1>5. \A i \in Contexts : event'[i] = (event[i] /\ i # bufferIndex)
  BY <1>1, ContextsAreFences DEF TypeOK
<1>6. OneWaiter'
  BY <1>1, <1>2, <1>5 DEF OneWaiter
<1>7. EndOfLap'
  <2>1. \A k \in DOMAIN graphicsQueue :
           graphicsQueue[k].op = "signal" /\ graphicsQueue[k].value > CounterModulus - BufferCount
               => bufferIndex # graphicsQueue[k].ctx
    BY <1>1, <1>2 DEF EndOfLap
  <2>2. \A f : f # bufferIndex => event'[f] = event[f]
    BY <1>1 DEF TypeOK
  <2> QED
    BY <1>1, <1>2, <2>1, <2>2 DEF EndOfLap, Recording
<1> QED
  BY <1>1, <1>2, <1>3, <1>4, <1>6, <1>7 DEF LapInv

LEMMA LapExecute == ASSUME TypeOK, ListInv, LapInv, ExecuteCommandLists PROVE LapInv'
<1> DEFINE q == graphicsQueue
           c == frameCounter
           e == [op |-> "execute", ctx |-> FrameIndex(c)]
<1>1. /\ pc = "execute" /\ pc' = "signal"
      /\ UNCHANGED <<bufferIndex, fence, event, waiters, frameCounter>>
  BY DEF ExecuteCommandLists
<1>2. /\ InContext /\ LengthOK /\ OneWaiter /\ EndOfLap
      /\ InTurn(q, 0, c) /\ Follows(fence, Len(q), 0, c)
  BY <1>1 DEF LapInv, Looping, Acquired, Recording, Begun
<1>3. q' = Append(q, e)
  BY <1>1, <1>2 DEF ExecuteCommandLists, ListInv, InContext, Acquired, Recording
<1>4. q \in Seq(Work) /\ c \in Nat /\ e \in Work /\ IsValues(fence) /\ Len(q) \in Nat
  BY LapTypes, IndexType, WorkType
<1> HIDE DEF q, c, e
<1>5. Len(q') = Len(q) + 1 /\ DOMAIN q' = 1 .. Len(q) + 1 /\ q'[Len(q) + 1] = e
      /\ \A k \in 1 .. Len(q) : q'[k] = q[k]
  BY <1>3, <1>4, AppendFacts
<1>6. InTurn(q', 1, c)
  BY <1>2, <1>3, <1>4, TurnExecute DEF e
<1>7. Follows(fence, Len(q'), 1, c)
  BY <1>2, <1>4, <1>5, FollowsExecute
<1>8. Begun' = 1 /\ Begun = 0
  BY <1>1 DEF Begun
<1>9. InContext' /\ OneWaiter'
  BY <1>1, <1>2 DEF InContext, OneWaiter, Acquired, Recording
<1>10. LengthOK'
  BY <1>2, <1>4, <1>5, <1>8, PresentLatencyAssumption DEF LengthOK, q
<1>11. EndOfLap'
  <2>1. q'[Len(q) + 1].op # "signal"
    BY <1>5 DEF e
  <2>2. \A k \in DOMAIN q' : k \in 1 .. Len(q) \/ k = Len(q) + 1
    BY <1>4, <1>5
  <2>3. DOMAIN q = 1 .. Len(q)
    BY <1>4
  <2> QED
    BY <1>1, <1>2, <1>5, <2>1, <2>2, <2>3 DEF EndOfLap, Recording, q
<1> QED
  BY <1>1, <1>6, <1>7, <1>8, <1>9, <1>10, <1>11 DEF LapInv, q, c

LEMMA LapSignal == ASSUME WideCounter, TypeOK, LapInv, SignalFrame PROVE LapInv'
<1> DEFINE q == graphicsQueue
           c == frameCounter
           e == [op |-> "signal", ctx |-> FrameIndex(c), value |-> c + 1]
<1>1. /\ pc = "signal" /\ pc' = "arm"
      /\ UNCHANGED <<bufferIndex, fence, event, waiters, frameCounter>>
  BY DEF SignalFrame
<1>2. /\ InContext /\ LengthOK /\ OneWaiter /\ EndOfLap
      /\ InTurn(q, 1, c) /\ Follows(fence, Len(q), 1, c)
  BY <1>1 DEF LapInv, Looping, Acquired, Recording, Begun
<1>3. q' = Append(q, e) /\ bufferIndex = FrameIndex(c)
  BY <1>1, <1>2 DEF SignalFrame, QueueSignal, FailsSilently, WideCounter, InContext, Acquired
<1>4. q \in Seq(Work) /\ c \in Nat /\ e \in Work /\ IsValues(fence) /\ Len(q) \in Nat
  BY LapTypes, IndexType, WorkType, ContextsAreFences
<1> HIDE DEF q, c, e
<1>5. Len(q') = Len(q) + 1 /\ DOMAIN q' = 1 .. Len(q) + 1 /\ q'[Len(q) + 1] = e
      /\ \A k \in 1 .. Len(q) : q'[k] = q[k]
  BY <1>3, <1>4, AppendFacts
<1>6. InTurn(q', 2, c)
  BY <1>2, <1>3, <1>4, TurnSignal DEF e
<1>7. Follows(fence, Len(q'), 2, c)
  BY <1>2, <1>4, <1>5, FollowsSignal
<1>8. Begun' = 2 /\ Begun = 1
  BY <1>1 DEF Begun
<1>9. InContext' /\ OneWaiter'
  BY <1>1, <1>2 DEF InContext, OneWaiter, Acquired, Recording
<1>10. LengthOK'
  BY <1>2, <1>4, <1>5, <1>8, PresentLatencyAssumption DEF LengthOK, q
<1>11. EndOfLap'
  <2>1. e.ctx = bufferIndex /\ e.value = c + 1
    BY <1>3 DEF e
  <2>2. ~event[bufferIndex] /\ waiters[bufferIndex] = {}
    BY <1>1, <1>2 DEF OneWaiter, Acquired
  <2>3. \A k \in DOMAIN q' : k \in 1 .. Len(q) \/ k = Len(q) + 1
    BY <1>4, <1>5
  <2>4. DOMAIN q = 1 .. Len(q)
    BY <1>4
  <2>5. ASSUME NEW k \in 1 .. Len(q), q'[k].op = "signal", q'[k].value > CounterModulus - BufferCount
        PROVE  /\ ~event[q'[k].ctx] /\ waiters[q'[k].ctx] \subseteq {q'[k].value}
               /\ bufferIndex # q'[k].ctx
    BY <1>1, <1>2, <1>5, <2>4, <2>5 DEF EndOfLap, q
  <2>6. ASSUME NEW k \in DOMAIN q', q'[k].op = "signal", q'[k].value > CounterModulus - BufferCount
        PROVE  /\ ~event[q'[k].ctx] /\ waiters[q'[k].ctx] \subseteq {q'[k].value}
               /\ bufferIndex = q'[k].ctx => q'[k].value = c + 1
    <3>1. CASE k \in 1 .. Len(q)
      BY <2>5, <2>6, <3>1
    <3>2. CASE k = Len(q) + 1
      BY <1>5, <2>1, <2>2, <3>2
    <3> QED
      BY <2>3, <3>1, <3>2
  <2> QED
    BY <1>1, <2>6 DEF EndOfLap, Recording, q, c
<1> QED
  BY <1>1, <1>6, <1>7, <1>8, <1>9, <1>10, <1>11 DEF LapInv, q, c

\* So far behind the overflow a fence that has passed the value has the signal of
\* this very frame.
LEMMA NotArmedEarly ==
    ASSUME WideCounter, TypeOK, pc = "arm", LapInv, frameCounter + 1 > CounterModulus - BufferCount,
           graphicsQueue # <<>>
    PROVE  ~(fence[bufferIndex] >= frameCounter + 1)
<1> DEFINE c == frameCounter
           len == Len(graphicsQueue)
           w == c - PresentLatency - BufferCount
<1>1. /\ bufferIndex = FrameIndex(c) /\ len <= 3 * PresentLatency + 2
      /\ Follows(fence, len, 2, c)
  BY DEF LapInv, Looping, InContext, LengthOK, Acquired, Begun
<1>2. c \in Nat /\ len \in Nat \ {0} /\ IsValues(fence) /\ BufferCount \in Nat \ {0}
      /\ PresentLatency \in Nat
  BY LapTypes, PresentLatencyAssumption, TailFacts
<1>3. w \in Nat
  BY <1>2 DEF WideCounter
<1>4. PICK v \in w .. w + BufferCount - 1 : FrameIndex(v) = FrameIndex(c)
  <2> HIDE DEF w, c
  <2> QED
    BY <1>2, <1>3, Window DEF FrameIndex
<1>5. v \in 0 .. c /\ c - v >= PresentLatency + 1
  BY <1>2, <1>3
<1>6. Signalled(v, len, 2, c)
  <2>1. 3 * (c - v) - 2 + 2 >= 3 * PresentLatency + 3
    BY <1>2, <1>5
  <2>2. 3 * (c - v) - 2 + 2 >= len
    BY <1>1, <1>2, <1>5, <2>1
  <2> QED
    BY <2>2 DEF Signalled
<1> HIDE DEF c, len, w
<1>7. fence[bufferIndex] - 1 <= c /\ Signalled(fence[bufferIndex] - 1, len, 2, c)
  BY <1>1, <1>4, <1>5, <1>6 DEF Follows, Latest
<1>8. fence[bufferIndex] \in Nat
  BY LapTypes DEF IsValues
<1>9. fence[bufferIndex] - 1 # c
  BY <1>2, <1>7 DEF Signalled
<1> QED
  BY <1>2, <1>7, <1>8, <1>9 DEF c

LEMMA LapArm == ASSUME WideCounter, TypeOK, LapInv, ArmFrame PROVE LapInv'
<1> DEFINE q == graphicsQueue
           c == frameCounter
           b == bufferIndex
<1>1. /\ pc = "arm" /\ pc' = "present"
      /\ UNCHANGED <<bufferIndex, fence, graphicsQueue, frameCounter>>
  BY DEF ArmFrame
<1>2. /\ InContext /\ LengthOK /\ OneWaiter /\ EndOfLap
      /\ InTurn(q, 2, c) /\ Follows(fence, Len(q), 2, c)
  BY <1>1 DEF LapInv, Looping, Acquired, Recording, Begun
<1>3. Begun' = 2 /\ Begun = 2
  BY <1>1 DEF Begun
<1>4. InContext' /\ LengthOK'
  BY <1>1, <1>2, <1>3 DEF InContext, LengthOK, Acquired
<1>5. b \in Contexts /\ b \in Fences /\ c \in Nat /\ event \in [Fences -> BOOLEAN]
      /\ waiters \in [Fences -> SUBSET Nat] /\ Contexts \subseteq Fences
  BY LapTypes, ContextsAreFences DEF TypeOK
<1>6. ~event[b] /\ waiters[b] = {}
  BY <1>1, <1>2 DEF OneWaiter, Acquired
<1>7. ASSUME NEW k \in DOMAIN q, q[k].op = "signal", q[k].value > CounterModulus - BufferCount
      PROVE  /\ ~event[q[k].ctx] /\ waiters[q[k].ctx] \subseteq {q[k].value}
             /\ q[k].ctx = b => q[k].value = c + 1 /\ ~(fence[b] >= c + 1)
  <2>1. /\ ~event[q[k].ctx] /\ waiters[q[k].ctx] \subseteq {q[k].value}
        /\ q[k].ctx = b => q[k].value = c + 1
    BY <1>1, <1>2, <1>7 DEF EndOfLap
  <2>2. q # <<>>
    BY <1>7
  <2>3. c + 1 > CounterModulus - BufferCount => ~(fence[b] >= c + 1)
    BY <1>1, <2>2, NotArmedEarly
  <2> QED
    BY <1>7, <2>1, <2>3
<1> HIDE DEF q, c, b
<1>8. CASE fence[b] >= c + 1 /\ event' = [event EXCEPT ![b] = TRUE] /\ UNCHANGED waiters
  <2>1. OneWaiter'
    BY <1>1, <1>2, <1>5, <1>6, <1>8 DEF OneWaiter, Acquired, Recording
  <2>2. \A f : f # b => event'[f] = event[f]
    BY <1>5, <1>8
  <2>3. EndOfLap'
    BY <1>1, <1>7, <1>8, <2>2 DEF EndOfLap, Recording, q
  <2> QED
    BY <1>1, <1>2, <1>3, <1>4, <2>1, <2>3 DEF LapInv, q, c
<1>9. CASE waiters' = [waiters EXCEPT ![b] = @ \cup {c + 1}] /\ UNCHANGED event
  <2>1. waiters'[b] = {c + 1} /\ \A f : f # b => waiters'[f] = waiters[f]
    BY <1>5, <1>6, <1>9
  <2>2. OneWaiter'
    BY <1>1, <1>2, <1>5, <1>6, <1>9, <2>1 DEF OneWaiter, Acquired, Recording
  <2>3. EndOfLap'
    BY <1>1, <1>7, <1>9, <2>1 DEF EndOfLap, Recording, q
  <2> QED
    BY <1>1, <1>2, <1>3, <1>4, <2>2, <2>3 DEF LapInv, q, c
<1>10. CASE UNCHANGED <<event, waiters>>
  <2>1. OneWaiter'
    BY <1>1, <1>2, <1>10 DEF OneWaiter, Acquired, Recording
  <2>2. EndOfLap'
    BY <1>1, <1>7, <1>10 DEF EndOfLap, Recording, q
  <2> QED
    BY <1>1, <1>2, <1>3, <1>4, <2>1, <2>2 DEF LapInv, q, c
<1>11. \/ fence[b] >= c + 1 /\ event' = [event EXCEPT ![b] = TRUE] /\ UNCHANGED waiters
       \/ waiters' = [waiters EXCEPT ![b] = @ \cup {c + 1}] /\ UNCHANGED event
       \/ UNCHANGED <<event, waiters>>
  BY DEF ArmFrame, SetEventOnCompletion, b, c
<1> QED
  BY <1>8, <1>9, <1>10, <1>11

LEMMA LapPresent == ASSUME WideCounter, TypeOK, LapInv, Present, pc' \in Looping PROVE LapInv'
<1> DEFINE q == graphicsQueue
           c == frameCounter
           e == [op |-> "present"]
<1>1. /\ pc = "present" /\ pc' = "pump" /\ QueuedPresents < PresentLatency
      /\ q' = Append(q, e) /\ UNCHANGED <<bufferIndex, fence, event, waiters>>
  BY DEF Present, Break, Looping, Acquired, Recording
<1>2. /\ LengthOK /\ OneWaiter /\ EndOfLap
      /\ InTurn(q, 2, c) /\ Follows(fence, Len(q), 2, c)
  BY <1>1 DEF LapInv, Looping, Acquired, Recording, Begun
<1>3. q \in Seq(Work) /\ c \in 0 .. CounterModulus - 1 /\ c \in Nat /\ e \in Work
      /\ IsValues(fence) /\ Len(q) \in Nat
  BY LapTypes, WorkType
<1>4. PICK b \in Nat : /\ b = IF c + 1 = CounterModulus THEN 0 ELSE c + 1
                       /\ frameCounter' = b
  BY <1>3 DEF Present, AdvanceCounter
<1>5. Len(q) + 1 <= 3 * PresentLatency
  <2>1. PresentLatency \in Nat
    BY PresentLatencyAssumption
  <2> SUFFICES ASSUME 2 + 3 * PresentLatency < Len(q) + 3 PROVE FALSE
    BY <1>3, <2>1
  <2>2. 2 \in 0 .. 2
    OBVIOUS
  <2> HIDE DEF q, c, e
  <2>3. Cardinality({k \in DOMAIN q : IsFlip(q[k])}) >= PresentLatency
    BY <1>2, <1>3, <2>1, <2>2, FlipCount
  <2>4. QueuedPresents = Cardinality({k \in DOMAIN q : IsFlip(q[k])})
    BY DEF QueuedPresents, q
  <2>5. IsFiniteSet({k \in DOMAIN q : IsFlip(q[k])})
    <3> DEFINE flips == {k \in DOMAIN q : IsFlip(q[k])}
    <3>1. IsFiniteSet(1 .. Len(q))
      BY <1>3, FS_Interval
    <3>2. flips \in SUBSET (1 .. Len(q))
      BY <1>3
    <3> HIDE DEF flips
    <3>3. IsFiniteSet(flips)
      BY <3>1, <3>2, FS_Subset
    <3> QED
      BY <3>3 DEF flips
  <2>6. QueuedPresents \in Nat
    BY <2>4, <2>5, FS_CardinalityType
  <2> QED
    BY <1>1, <2>1, <2>3, <2>4, <2>6
<1>6. PresentLatency \in Nat /\ PresentLatency < CounterModulus /\ Len(q) <= 3 * PresentLatency + 2
  BY <1>3, <1>5, PresentLatencyAssumption DEF WideCounter
<1> HIDE DEF q, c, e
<1>7. Len(q') = Len(q) + 1 /\ DOMAIN q' = 1 .. Len(q) + 1 /\ q'[Len(q) + 1] = e
      /\ \A k \in 1 .. Len(q) : q'[k] = q[k]
  BY <1>1, <1>3, AppendFacts
<1>8. InTurn(q', 0, b)
  BY <1>1, <1>2, <1>3, <1>4, <1>6, TurnPresent DEF e
<1>9. Follows(fence, Len(q'), 0, b)
  <2>1. b = c + 1 \/ b = 0
    BY <1>4
  <2> QED
    BY <1>2, <1>3, <1>7, <2>1, FollowsPresent
<1>10. Begun' = 0
  BY <1>1 DEF Begun
<1>11. InContext' /\ OneWaiter'
  BY <1>1, <1>2 DEF InContext, OneWaiter, Acquired, Recording
<1>12. LengthOK'
  BY <1>5, <1>6, <1>7, <1>10 DEF LengthOK, q
<1>13. EndOfLap'
  <2>1. e.op # "signal"
    BY DEF e
  <2>2. \A k \in DOMAIN q' : k \in 1 .. Len(q) \/ k = Len(q) + 1
    BY <1>3, <1>7
  <2>3. DOMAIN q = 1 .. Len(q)
    BY <1>3
  <2> QED
    BY <1>1, <1>2, <1>7, <2>1, <2>2, <2>3 DEF EndOfLap, Recording, q
<1> QED
  BY <1>1, <1>4, <1>8, <1>9, <1>10, <1>11, <1>12, <1>13 DEF LapInv, q

\* The queue executes what is not a signal.
LEMMA LapRetire == ASSUME TypeOK, LapInv, pc \in Looping, GpuRetire PROVE LapInv'
<1> DEFINE q == graphicsQueue
           c == frameCounter
<1>1. /\ q # <<>> /\ q' = Tail(q) /\ Head(q).op # "signal"
      /\ UNCHANGED <<pc, bufferIndex, frameCounter, fence, event, waiters>>
  BY DEF GpuRetire, mainVars
<1>2. /\ InContext /\ LengthOK /\ OneWaiter /\ EndOfLap
      /\ InTurn(q, Begun, c) /\ Follows(fence, Len(q), Begun, c)
  BY DEF LapInv
<1>3. q \in Seq(Work) /\ c \in Nat /\ IsValues(fence) /\ Len(q) \in Nat /\ Begun \in 0 .. 2
  BY LapTypes
<1>4. Begun' = Begun
  BY <1>1 DEF Begun
<1> HIDE DEF q, c
<1>5. /\ Len(q') = Len(q) - 1 /\ DOMAIN q' = 1 .. Len(q) - 1
      /\ \A k \in 1 .. Len(q) - 1 : q'[k] = q[k + 1]
      /\ Head(q) = q[1]
  BY <1>1, <1>3, TailFacts
<1>6. InTurn(q', Begun, c)
  <2>1. Begun \in Nat
    BY <1>3
  <2> QED
    BY <1>1, <1>2, <1>3, <2>1, TurnTail
<1>7. Follows(fence, Len(q'), Begun, c)
  BY <1>1, <1>2, <1>3, <1>5, FollowsRetire
<1>8. InContext' /\ OneWaiter'
  BY <1>1, <1>2 DEF InContext, OneWaiter
<1>9. LengthOK'
  BY <1>2, <1>3, <1>4, <1>5, PresentLatencyAssumption DEF LengthOK, q
<1>10. EndOfLap'
  <2>1. \A k \in DOMAIN q' : k + 1 \in DOMAIN q /\ q'[k] = q[k + 1]
    BY <1>3, <1>5
  <2> QED
    BY <1>1, <1>2, <2>1, ZenonT(30) DEF EndOfLap, q
<1> QED
  BY <1>1, <1>4, <1>6, <1>7, <1>8, <1>9, <1>10 DEF LapInv, q, c

\* The queue signals.
LEMMA LapGpuSignal ==
    ASSUME WideCounter, TypeOK, LapInv, pc \in Looping, GpuSignal
    PROVE  LapInv'
<1> DEFINE q == graphicsQueue
           c == frameCounter
           n == Begun
           f == q[1].ctx
           v == q[1].value
           due == {x \in waiters[f] : x <= v}
<1>1. /\ q # <<>> /\ q' = Tail(q) /\ Head(q).op = "signal"
      /\ UNCHANGED <<pc, bufferIndex, frameCounter>>
  BY DEF GpuSignal, mainVars
<1>2. /\ InContext /\ LengthOK /\ OneWaiter /\ EndOfLap
      /\ InTurn(q, n, c) /\ Follows(fence, Len(q), n, c)
  BY DEF LapInv
<1>3. q \in Seq(Work) /\ c \in 0 .. CounterModulus - 1 /\ c \in Nat /\ IsValues(fence)
      /\ Len(q) \in Nat \ {0} /\ n \in 0 .. 2 /\ n \in Nat
  BY <1>1, LapTypes, TailFacts
<1>4. Begun' = n
  BY <1>1 DEF Begun
<1>5. /\ Len(q') = Len(q) - 1 /\ DOMAIN q' = 1 .. Len(q) - 1 /\ 1 \in 1 .. Len(q)
      /\ \A k \in 1 .. Len(q) - 1 : q'[k] = q[k + 1]
      /\ Head(q) = q[1] /\ q[1].op = "signal"
  <2> HIDE DEF q
  <2> QED
    BY <1>1, <1>3, TailFacts
<1>6. /\ fence' = [fence EXCEPT ![f] = v]
      /\ event' = [event EXCEPT ![f] = @ \/ due # {}]
      /\ waiters' = [waiters EXCEPT ![f] = @ \ due]
  BY <1>5 DEF GpuSignal
<1>7. /\ fence \in [Fences -> Nat] /\ event \in [Fences -> BOOLEAN]
      /\ waiters \in [Fences -> SUBSET Nat] /\ Contexts \subseteq Fences
  BY ContextsAreFences DEF TypeOK
<1> HIDE DEF q, c, n, f, v, due
<1>0. \A k \in 1 .. Len(q) : q[k].op = "signal" =>
         \E d \in Nat : /\ Len(q) - k - n = 3 * d - 2
                        /\ q[k].ctx = FrameIndex(Ago(c, d)) /\ q[k].value = Ago(c, d) + 1
  <2>1. q \in Seq(Work) /\ n \in 0 .. 2 /\ c \in Nat /\ InTurn(q, n, c)
    BY <1>2, <1>3
  <2> QED
    BY <2>1, TurnOfSignal, ZenonT(30)
<1>8. PICK d \in Nat : /\ Len(q) - 1 - n = 3 * d - 2
                       /\ q[1].ctx = FrameIndex(Ago(c, d)) /\ q[1].value = Ago(c, d) + 1
  BY <1>0, <1>5
<1>9. f = FrameIndex(Ago(c, d)) /\ v = Ago(c, d) + 1
  BY <1>8 DEF f, v
<1>10. d <= PresentLatency /\ PresentLatency \in Nat /\ CounterModulus \in Nat /\ BufferCount \in Nat
  BY <1>2, <1>3, <1>8, PresentLatencyAssumption DEF LengthOK, q, n
<1>11. Ago(c, d) \in Nat /\ f \in Contexts
  <2>1. Ago(c, d) \in Nat
    BY <1>3, <1>10, BufferCountAssumption DEF Ago, WideCounter
  <2> QED
    BY <1>9, <2>1, IndexType
<1>12. InTurn(q', n, c)
  BY <1>1, <1>2, <1>3, TurnTail
<1>13. Follows(fence', Len(q'), n, c)
  <2>1. \A i \in Contexts : fence'[i] = IF i = FrameIndex(Ago(c, d)) THEN Ago(c, d) + 1 ELSE fence[i]
    BY <1>6, <1>7, <1>9
  <2> QED
    <3>1. Follows(fence', Len(q) - 1, n, c)
      BY <1>2, <1>3, <1>8, <2>1, FollowsFence
    <3> QED
      BY <1>5, <3>1
<1>14. OneWaiter'
  <2>1. \A i \in Contexts : i # f => event'[i] = event[i] /\ waiters'[i] = waiters[i]
    BY <1>6, <1>7
  <2>2. event'[f] = (event[f] \/ due # {}) /\ waiters'[f] = waiters[f] \ due
    BY <1>6, <1>7, <1>11
  <2>3. due \subseteq waiters[f] /\ \A x, y \in waiters[f] : x = y
    BY <1>2, <1>11 DEF due, OneWaiter
  <2>4. event'[f] => waiters'[f] = {}
    <3>1. event[f] => waiters[f] = {}
      BY <1>2, <1>11 DEF OneWaiter
    <3>2. CASE event[f]
      BY <2>2, <3>1, <3>2
    <3>3. CASE due # {}
      BY <2>2, <2>3, <3>3
    <3> QED
      BY <2>2, <3>2, <3>3
  <2>5. pc \in Acquired /\ bufferIndex = f => ~event'[f] /\ waiters'[f] = {}
    <3>1. pc \in Acquired /\ bufferIndex = f => ~event[f] /\ waiters[f] = {}
      BY <1>2 DEF OneWaiter
    <3> QED
      BY <2>2, <2>3, <3>1
  <2>6. \A x, y \in waiters'[f] : x = y
    BY <2>2, <2>3
  <2>7. bufferIndex \in Contexts
    BY LapTypes
  <2> QED
    BY <1>1, <1>2, <2>1, <2>4, <2>5, <2>6, <2>7 DEF OneWaiter
<1>15. EndOfLap'
  <2>1. ASSUME NEW k \in 1 .. Len(q) - 1, q[k + 1].op = "signal",
               q[k + 1].value > CounterModulus - BufferCount, q[k + 1].ctx = f
        PROVE  v < q[k + 1].value
    <3>1. PICK l \in 1 .. Len(q) : l = k + 1
      BY <1>3
    <3>2. PICK g \in Nat : /\ Len(q) - l - n = 3 * g - 2
                           /\ q[l].ctx = FrameIndex(Ago(c, g)) /\ q[l].value = Ago(c, g) + 1
      <4>1. q[l].op = "signal"
        BY <2>1, <3>1
      <4> QED
        BY <1>0, <4>1
    <3>3. q[l].value = Ago(c, g) + 1
      BY <3>2
    <3>4. g < d
      BY <1>3, <1>8, <3>1, <3>2
    <3>5. Ago(c, g) + 1 > CounterModulus - BufferCount
      BY <2>1, <3>1, <3>3
    <3>6. CounterModulus >= PresentLatency + 2 * BufferCount /\ BufferCount >= 1
      BY BufferCountAssumption DEF WideCounter
    <3>7. Ago(c, d) < Ago(c, g)
      BY <1>3, <1>10, <3>4, <3>5, <3>6 DEF Ago
    <3> QED
      BY <1>3, <1>9, <1>11, <3>1, <3>3, <3>7 DEF Ago
  <2>2. ASSUME NEW k \in 1 .. Len(q) - 1, q[k + 1].op = "signal",
               q[k + 1].value > CounterModulus - BufferCount
        PROVE  event'[q[k + 1].ctx] = event[q[k + 1].ctx]
               /\ waiters'[q[k + 1].ctx] \subseteq waiters[q[k + 1].ctx]
    <3>1. CASE q[k + 1].ctx # f
      BY <1>6, <1>7, <3>1
    <3>2. CASE q[k + 1].ctx = f
      <4>1. waiters[f] \subseteq {q[k + 1].value}
        <5>1. k + 1 \in DOMAIN q
          BY <1>3
        <5> QED
          BY <1>2, <2>2, <3>2, <5>1 DEF EndOfLap, q
      <4>2. v < q[k + 1].value /\ v \in Nat
        BY <1>9, <1>11, <2>1, <2>2, <3>2
      <4>3. due = {}
        <5>1. \A x \in waiters[f] : x = q[k + 1].value /\ x \in Nat
          BY <1>7, <1>11, <4>1
        <5>2. \A x \in waiters[f] : ~(x <= v)
          BY <4>2, <5>1
        <5> QED
          BY <5>2 DEF due
      <4> QED
        BY <1>6, <1>7, <1>11, <3>2, <4>3
    <3> QED
      BY <3>1, <3>2
  <2>3. \A k \in DOMAIN q' : k \in 1 .. Len(q) - 1 /\ k + 1 \in DOMAIN q /\ q'[k] = q[k + 1]
    BY <1>3, <1>5
  <2>4. UNCHANGED <<pc, bufferIndex, frameCounter>> /\ EndOfLap
    BY <1>1, <1>2
  <2>5. ASSUME NEW k \in DOMAIN q', q'[k].op = "signal", q'[k].value > CounterModulus - BufferCount
        PROVE  /\ ~event'[q'[k].ctx]
               /\ waiters'[q'[k].ctx] \subseteq {q'[k].value}
               /\ pc' \in Recording \cup {"signal"} => bufferIndex' # q'[k].ctx
               /\ pc' = "arm" /\ bufferIndex' = q'[k].ctx => q'[k].value = frameCounter' + 1
    <3>1. PICK l \in DOMAIN q : l = k + 1 /\ q'[k] = q[l]
      BY <2>3
    <3>2. event'[q[l].ctx] = event[q[l].ctx] /\ waiters'[q[l].ctx] \subseteq waiters[q[l].ctx]
      BY <2>2, <2>3, <2>5, <3>1
    <3>3. q[l].op = "signal" /\ q[l].value > CounterModulus - BufferCount
      BY <2>5, <3>1
    <3>4. /\ ~event[q[l].ctx] /\ waiters[q[l].ctx] \subseteq {q[l].value}
          /\ pc \in Recording \cup {"signal"} => bufferIndex # q[l].ctx
          /\ pc = "arm" /\ bufferIndex = q[l].ctx => q[l].value = frameCounter + 1
      BY <2>4, <3>3 DEF EndOfLap, q
    <3> QED
      BY <2>4, <3>1, <3>2, <3>4
  <2> QED
    BY <2>5 DEF EndOfLap, q
<1>16. InContext'
  BY <1>1, <1>2 DEF InContext
<1>17. LengthOK'
  BY <1>2, <1>3, <1>4, <1>5, PresentLatencyAssumption DEF LengthOK, q, n
<1> QED
  BY <1>1, <1>4, <1>12, <1>13, <1>14, <1>15, <1>16, <1>17 DEF LapInv, q, c

LEMMA LapStep == WideCounter /\ IInv /\ LapInv /\ [Next]_vars => LapInv'
<1> SUFFICES ASSUME WideCounter, IInv, LapInv, [Next]_vars, pc' \in Looping PROVE LapInv'
  BY DEF LapInv
<1>1. TypeOK /\ ListInv
  BY DEF IInv
<1>2. pc \in Looping
  BY DEF Next, MainThread, BeginFrame, WaitFrame, ResetAllocator, ResetList, CloseList,
         ExecuteCommandLists, SignalFrame, ArmFrame, Present, HandleMessages, PeekNothing,
         DispatchPosted, RetrieveQuit, BeginDrain, DrainArm, DrainSignal, DrainWait, Release,
         GpuStep, GpuRetire, GpuSignal, PostMessage, SendClose, Stopped, Break, vars, mainVars,
         Looping, Acquired, Recording
<1>3. CASE WaitFrame
  BY <1>1, <1>3, LapWait
<1>4. CASE ExecuteCommandLists
  BY <1>1, <1>4, LapExecute
<1>5. CASE SignalFrame
  BY <1>1, <1>5, LapSignal
<1>6. CASE ArmFrame
  BY <1>1, <1>6, LapArm
<1>7. CASE Present
  BY <1>1, <1>7, LapPresent
<1>8. CASE GpuStep
  BY <1>1, <1>2, <1>8, LapRetire, LapGpuSignal DEF GpuStep
<1>9. CASE BeginFrame \/ ResetAllocator \/ ResetList \/ CloseList
  <2>1. /\ UNCHANGED <<graphicsQueue, fence, event, waiters, frameCounter>> /\ Begun' = Begun
        /\ \/ pc \in Recording /\ pc' \in Recording /\ bufferIndex' = bufferIndex
           \/ pc' = "wait" /\ bufferIndex' = FrameIndex(frameCounter)
    BY <1>9 DEF BeginFrame, ResetAllocator, ResetList, CloseList, Break, syncVars, Begun, Looping,
                Acquired, Recording
  <2>2. InContext'
    BY <1>2, <2>1 DEF LapInv, InContext, Acquired
  <2> QED
    BY <1>2, <2>1, <2>2, LapQuiet
<1>10. CASE HandleMessages
  <2>1. /\ UNCHANGED <<graphicsQueue, fence, event, waiters, frameCounter>> /\ Begun' = Begun
        /\ pc' = "render"
    BY <1>10 DEF HandleMessages, PeekNothing, DispatchPosted, RetrieveQuit, syncVars, Begun, Looping,
                 Acquired, Recording
  <2>2. InContext'
    BY <2>1 DEF InContext, Acquired, Recording
  <2> QED
    BY <1>2, <2>1, <2>2, LapQuiet
<1>11. CASE (\E m \in Message : PostMessage(m)) \/ SendClose \/ Stopped \/ UNCHANGED vars
  <2>1. UNCHANGED <<graphicsQueue, fence, event, waiters, frameCounter, pc, bufferIndex>>
    BY <1>11 DEF PostMessage, SendClose, Stopped, vars, mainVars, syncVars
  <2>2. InContext' /\ Begun' = Begun
    BY <1>2, <2>1 DEF LapInv, InContext, Begun
  <2> QED
    BY <1>2, <2>1, <2>2, LapQuiet
<1>12. ~(BeginDrain \/ DrainArm \/ DrainSignal \/ DrainWait \/ Release)
  BY DEF BeginDrain, DrainArm, DrainSignal, DrainWait, Release, Break, Looping, Acquired, Recording
<1> QED
  BY <1>3, <1>4, <1>5, <1>6, <1>7, <1>8, <1>9, <1>10, <1>11, <1>12 DEF Next, MainThread

\* A context in flight that is recorded into was last used by a frame at least as
\* many presents ago as there are contexts: or else that frame was one of the last
\* before the overflow, whose signal nobody passes.
LEMMA EarlyFollows ==
    ASSUME WideCounter, TypeOK, LapInv, pc \in Recording, InFlight(bufferIndex)
    PROVE  QueuedPresents >= BufferCount /\ PresentLatency >= BufferCount
<1> DEFINE q == graphicsQueue
           c == frameCounter
<1>1. /\ bufferIndex = FrameIndex(c) /\ Len(q) <= 3 * PresentLatency /\ EndOfLap
      /\ InTurn(q, 0, c)
  <2>1. Begun = 0 /\ pc \in Looping
    BY DEF Begun, Looping, Acquired, Recording
  <2>2. InContext /\ LengthOK /\ EndOfLap /\ InTurn(graphicsQueue, Begun, frameCounter)
    BY <2>1 DEF LapInv
  <2>3. bufferIndex = FrameIndex(c)
    BY <2>2 DEF InContext, Acquired
  <2>4. Len(q) <= 3 * PresentLatency + 0
    BY <2>1, <2>2 DEF LengthOK
  <2>5. Len(q) <= 3 * PresentLatency
    BY <2>4, PresentLatencyAssumption
  <2> QED
    BY <2>1, <2>2, <2>3, <2>5
<1>2. q \in Seq(Work) /\ c \in 0 .. CounterModulus - 1 /\ c \in Nat /\ Len(q) \in Nat
      /\ DOMAIN q = 1 .. Len(q)
      /\ BufferCount \in Nat \ {0} /\ PresentLatency \in Nat
      /\ CounterModulus >= PresentLatency + 2 * BufferCount
  BY LapTypes, BufferCountAssumption, PresentLatencyAssumption DEF WideCounter
<1>0. PICK k \in DOMAIN q : q[k].op = "execute" /\ q[k].ctx = bufferIndex
  BY DEF InFlight, IsExecutionOf
<1> HIDE DEF q, c
<1>3. k \in 1 .. Len(q) /\ q[k].op = "execute" /\ q[k].ctx = FrameIndex(c)
  BY <1>0, <1>1, <1>2
<1>4. PICK d \in Nat : Len(q) - k - 0 = 3 * d - 1 /\ q[k].ctx = FrameIndex(Ago(c, d))
  <2>1. 0 \in 0 .. 2
    OBVIOUS
  <2>2. \A i \in 1 .. Len(q) : q[i].op = "execute" =>
           \E d \in Nat : Len(q) - i - 0 = 3 * d - 1 /\ q[i].ctx = FrameIndex(Ago(c, d))
    BY <1>1, <1>2, <2>1, TurnOfExecution, ZenonT(30)
  <2> QED
    BY <1>3, <2>2
<1>5. d >= 1 /\ d <= PresentLatency /\ k + 1 \in 1 .. Len(q)
  BY <1>1, <1>2, <1>4
<1>6. FrameIndex(Ago(c, d)) = FrameIndex(c)
  BY <1>3, <1>4
<1>7. d >= BufferCount
  <2>1. CASE d <= c
    <3>1. c - d \in Nat /\ Ago(c, d) = c - d /\ c - d < c
      BY <1>2, <1>5, <2>1 DEF Ago
    <3>2. PICK a \in Nat : a = c - d
      BY <3>1
    <3>3. c - a >= BufferCount
      BY <1>2, <1>6, <3>1, <3>2, Near DEF FrameIndex
    <3> QED
      BY <1>2, <3>2, <3>3
  <2>2. CASE ~(d <= c)
    <3> SUFFICES ASSUME d < BufferCount PROVE FALSE
      BY <1>2
    <3>1. PICK l \in 1 .. Len(q) : l = k + 1
      BY <1>5
    <3>2. Len(q) - l - 0 = 3 * d - 2
      BY <1>2, <1>4, <3>1
    <3>3. q[l] = [op |-> "signal", ctx |-> FrameIndex(Ago(c, d)), value |-> Ago(c, d) + 1]
      BY <1>1, <3>2 DEF InTurn
    <3>4. Ago(c, d) + 1 > CounterModulus - BufferCount
      BY <1>2, <2>2 DEF Ago
    <3>5. q[l].ctx # bufferIndex
      <4>1. l \in DOMAIN q /\ q[l].op = "signal" /\ q[l].value = Ago(c, d) + 1
        BY <1>2, <3>3
      <4> QED
        BY <1>1, <3>4, <4>1 DEF EndOfLap, q
    <3> QED
      BY <1>1, <1>6, <3>3, <3>5
  <2> QED
    BY <2>1, <2>2
<1>8. Cardinality({j \in DOMAIN q : IsFlip(q[j])}) >= BufferCount
  <2>1. 0 + 3 * BufferCount < Len(q) + 3
    BY <1>2, <1>4, <1>5, <1>7
  <2>2. 0 \in 0 .. 2 /\ BufferCount \in Nat
    BY <1>2
  <2> QED
    BY <1>1, <1>2, <2>1, <2>2, FlipCount
<1>9. PresentLatency >= BufferCount
  BY <1>2, <1>5, <1>7
<1> QED
  BY <1>8, <1>9 DEF QueuedPresents, q

\* For any number of contexts, any latency and any counter that is wide enough for
\* them: a context is recorded into while the queue executes from it only with the
\* presents of as many frames queued as there are contexts.
THEOREM EarlyTheorem == WideCounter => (Spec => []EarlyOnlyWhenFull)
<1> SUFFICES ASSUME WideCounter PROVE Spec => []EarlyOnlyWhenFull
  OBVIOUS
<1>1. IInv /\ LapInv => EarlyOnlyWhenFull
  BY EarlyFollows DEF IInv, EarlyOnlyWhenFull
<1>2. Init => IInv /\ LapInv
  BY IInvInit, LapInit
<1>3. IInv /\ LapInv /\ [Next]_vars => (IInv /\ LapInv)'
  BY IInvStep, LapStep
<1> QED
  BY <1>1, <1>2, <1>3, PTL DEF Spec

\* With fewer presents queued than there are contexts the overflow does no harm:
\* no context is recorded into while the queue executes from it.
THEOREM NeverEarlyTheorem ==
    WideCounter /\ PresentLatency < BufferCount =>
        (Spec => [](pc \in Recording => ~InFlight(bufferIndex)))
<1> SUFFICES ASSUME WideCounter, PresentLatency < BufferCount
             PROVE  Spec => [](pc \in Recording => ~InFlight(bufferIndex))
  OBVIOUS
<1>1. IInv /\ LapInv => (pc \in Recording => ~InFlight(bufferIndex))
  <2>1. ~(PresentLatency >= BufferCount)
    BY BufferCountAssumption, PresentLatencyAssumption
  <2> QED
    BY <2>1, EarlyFollows DEF IInv
<1>2. Init => IInv /\ LapInv
  BY IInvInit, LapInit
<1>3. IInv /\ LapInv /\ [Next]_vars => (IInv /\ LapInv)'
  BY IInvStep, LapStep
<1> QED
  BY <1>1, <1>2, <1>3, PTL DEF Spec
=============================================================================
