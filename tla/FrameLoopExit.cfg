\* WM_CLOSE sent by another thread.
SPECIFICATION Spec
CONSTANTS
    BufferCount = 3
    CounterModulus = 7
    PresentLatency = 3
    FrameLimit = 3
    InboxLimit = 1
    EvaluateFails = FALSE
    SilentFailures = {}
    SentClose = TRUE
INVARIANTS
    CleanExit
