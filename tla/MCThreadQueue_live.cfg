\* Messages of 2 to 6 words in a ring of 6, every message fits every consumer.
CONSTANTS
    Producers <- TwoProducers
    Consumers <- ThreeConsumers
    Size = 6
    Bodies <- MixedBodies
    Limits <- LargeLimits
    Calls <- MixedCalls
    Spurious = FALSE
SPECIFICATION FairSpec
INVARIANTS WakeupsCoverUnread
PROPERTIES AllCallsReturn
