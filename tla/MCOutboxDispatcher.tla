------------------------- MODULE MCOutboxDispatcher -------------------------
(* Small instances of OutboxDispatcher for TLC.                            *)
EXTENDS OutboxDispatcher

CONSTANTS d1, d2

MCDispatcher == {d1, d2}
FirstPoison  == {1}
AllFaults    == {"kafka_error", "db_error", "crash"}
=============================================================================
