SPECIFICATION FairSpec
CONSTANTS
    Names <- MCNames
    Copied <- MCCopied
    Jobs <- AllJobs
    Payload <- PayloadOfJob
    Loading <- LoadingOfJob
    Reading <- ReadingOfJob
CHECK_DEADLOCK FALSE
INVARIANTS
    RoundTrip
    
    EffectDespiteHooks
PROPERTIES
    Completes
