\* One producer and one consumer.
SPECIFICATION FairSpec
CONSTANTS
    Producers = {p1}
    Consumers = {c1}
    First = 1
    Last = 5
    NULL = null
PROPERTIES
    AllConsumersGetSignal
CHECK_DEADLOCK FALSE
