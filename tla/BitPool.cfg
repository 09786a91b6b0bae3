\* A pool of one word, one of part of a word of l1, and one of more than one.
CONSTANTS
    W = 2
    Capacities = {2, 6, 10}
SPECIFICATION Spec
INVARIANTS TypeOK SummaryExact
PROPERTIES ImplementsSlotPool
