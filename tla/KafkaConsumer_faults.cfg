SPECIFICATION KafkaSpec
CONSTANTS
    Partition = {"A", "B"}
    Message = {"a1", "a2", "b1"}
    Home <- TwoPartitions
    Garbage = {"b1"}
    None = None
    MaxStarts = 2
    MaxBreaks = 1
INVARIANTS NoneSkipped EnteredOnce DecidedInOrder
PROPERTY RequestsSettle
CHECK_DEADLOCK FALSE
