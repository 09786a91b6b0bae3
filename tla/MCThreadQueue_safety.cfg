\* Messages of 2 to 6 words, consumers of different limits, spurious wakeups.
\* A thread may wait for ever (see the violation runs), so the system may stop.
CONSTANTS
    Producers <- TwoProducers
    Consumers <- TwoConsumers
    Size = 7
    Bodies <- MixedBodies
    Limits <- SmallLimits
    Calls <- SafetyCalls
    Spurious = TRUE
SPECIFICATION Spec
INVARIANTS TypeOK UnreadTileRing UnreadIntact DeliveredInOrder SkipsAreJustified
PROPERTIES ImplementsMessageQueue
CHECK_DEADLOCK FALSE
