--------------------------- MODULE MCKafkaOffsets ---------------------------
(* Small instances of KafkaOffsets.tla for TLC.                            *)
EXTENDS KafkaOffsets
=============================================================================
