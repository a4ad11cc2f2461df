--------------------------- MODULE MCKafkaConsumer ---------------------------
(***************************************************************************)
(* Two partitions: one with two requests of one user, the other with a     *)
(* garbled request.                                                        *)
(***************************************************************************)
EXTENDS KafkaConsumer

TwoPartitions == [r \in Message |-> IF r \in {"a1", "a2"} THEN "A" ELSE "B"]
=============================================================================
