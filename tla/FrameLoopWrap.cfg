\* _bufferCount contexts and DXGI's default of 3 presents; the counter runs
\* through its overflow again and again (13 % 3 = 1, as 2^32 % 3).
SPECIFICATION FairSpec
CONSTANTS
    BufferCount = 3
    CounterModulus = 13
    PresentLatency = 3
    FrameLimit = 13
    InboxLimit = 2
    EvaluateFails = FALSE
    SilentFailures = {}
    SentClose = FALSE
INVARIANTS
    TypeOK
    NoLostWakeup
    EarlyOnlyWhenFull
PROPERTIES
    CloseLeadsToExit
    WaitEnds
