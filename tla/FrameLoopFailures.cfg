\* The first 10 frames, in which every call of Render may fail, checked or not,
\* and WM_CLOSE may be sent: every context is used three times or more.
SPECIFICATION Spec
CONSTANTS
    BufferCount = 3
    CounterModulus = 13
    PresentLatency = 3
    FrameLimit = 10
    InboxLimit = 1
    EvaluateFails = TRUE
    SilentFailures = {"listReset", "signal", "arm"}
    SentClose = TRUE
INVARIANTS
    IInv
    AllocatorIdle
    SubmittedListIsCurrent
    ReleaseOnlyWhenIdle
    RenderTargetIsBackBuffer
PROPERTIES
    PacingSpec
\* A Signal or SetEventOnCompletion that failed leaves Render waiting for ever.
CHECK_DEADLOCK FALSE
