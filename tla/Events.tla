------------------------------- MODULE Events -------------------------------
(* The event queue of firmware/src/pmu_handler.c as its producers see it: a *)
(* bounded FIFO that refuses an event when it is full.  The output driver   *)
(* and the protection system share it.                                      *)
EXTENDS Naturals, Sequences

CONSTANTS Sources,      \* the outputs that events are about
          QueueSize     \* PMU_HANDLER_EVENT_QUEUE_SIZE

ASSUME EventsAssumption == QueueSize \in Nat

VARIABLE queue

EventTypes == {"CHANNEL_ON", "CHANNEL_OFF", "CHANNEL_FAULT", "CHANNEL_CLEARED",
               "SYSTEM_UNDERVOLT", "SYSTEM_OVERVOLT", "SYSTEM_OVERTEMP"}

System == 0      \* the source PMU_Handler_PushSystemEvent gives its events

Event == [type : EventTypes, source : Sources \cup {System}]

Queues == {q \in Seq(Event) : Len(q) <= QueueSize}

\* PMU_Handler_PushEvent: HAL_ERROR of a full queue is ignored by every caller.
Push(q, type, source) ==
    IF Len(q) < QueueSize THEN Append(q, [type |-> type, source |-> source]) ELSE q
=============================================================================
