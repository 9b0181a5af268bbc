\* Calls at the edges of what is accepted, and calls that deviate from them in one thing.
CONSTANTS
    Session <- MCSession
    Sms = 132
    I32Max = 8000000
SPECIFICATION Spec
INVARIANTS TypeOK RejectedForCause RefusedForCause OutputFits BroadcastFillsView RawGemmIsLaunched
    PipelineIsDeep ChosenIsBest SameCodeSameLaunch ScalesReadAreWritten
