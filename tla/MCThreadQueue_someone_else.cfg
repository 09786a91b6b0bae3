\* Messages of 3 and 4 words in a ring of 7, one consumer that the long ones
\* do not fit.
CONSTANTS
    Producers <- OneProducer
    Consumers <- TwoConsumers
    Size = 7
    Bodies <- SkipBodies
    Limits <- SkipLimits
    Calls <- SkipCalls
    Spurious = FALSE
SPECIFICATION FairSpec
PROPERTIES SomeoneElseConsumes
CHECK_DEADLOCK FALSE
