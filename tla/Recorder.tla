------------------------------ MODULE Recorder ------------------------------
(***************************************************************************)
(* What the capture writer promises, without files, channels and           *)
(* goroutines: events are taken in while there is room and dropped when    *)
(* there is none; a tape grows record by record, each drop announced as    *)
(* part of a gap no later than the next event written; a crash leaves a    *)
(* beginning of the tape, with at least what was durable; after an I/O     *)
(* error nothing more is promised than that the tape stays as it was.      *)
(***************************************************************************)
EXTENDS Integers, SequencesExt

CONSTANT Capacity   \* events that may wait to be written, the writer's own included

VARIABLES
    offered,    \* events offered so far, numbered from 1
    pending,    \* events taken in and not yet written
    late,       \* drops whose Offer has not returned
    lost,       \* drops whose Offer has, not yet announced
    records,    \* the tape: gaps [gap |-> n, id |-> 0] and events [gap |-> 0, id |-> i]
    durable,    \* how many of the records no crash can take
    broken,     \* an I/O operation has failed
    phase       \* open, closing, closed, crashed

recorderVars == <<offered, pending, late, lost, records, durable, broken, phase>>

Init ==
    /\ offered = 0 /\ pending = <<>> /\ late = 0 /\ lost = 0
    /\ records = <<>> /\ durable = 0
    /\ broken = FALSE /\ phase = "open"

Accept ==
    /\ phase \in {"open", "closing"} /\ Len(pending) < Capacity
    /\ offered' = offered + 1
    /\ pending' = Append(pending, offered')
    /\ UNCHANGED <<late, lost, records, durable, broken, phase>>

\* One place is the writer's own: an event may be dropped when it is free.
Drop ==
    /\ phase \in {"open", "closing"} /\ Len(pending) >= Capacity - 1
    /\ offered' = offered + 1
    /\ late' = late + 1
    /\ UNCHANGED <<pending, lost, records, durable, broken, phase>>

\* The Offer of a dropped event returns.
Count ==
    /\ phase # "crashed" /\ late > 0
    /\ late' = late - 1 /\ lost' = lost + 1
    /\ UNCHANGED <<offered, pending, records, durable, broken, phase>>

Announced == IF lost = 0 THEN <<>> ELSE <<[gap |-> lost, id |-> 0]>>

\* More is written, or a part of it and then an error.
Grow(more) ==
    /\ IF broken THEN UNCHANGED <<records, broken>>
       ELSE \/ records' = records \o more /\ UNCHANGED broken
            \/ /\ \E n \in 0..Len(more) : records' = records \o SubSeq(more, 1, n)
               /\ broken' = TRUE
    /\ durable' \in durable..Len(records')

\* The next event, after a gap for all the drops there are to announce.
Write ==
    /\ phase \in {"open", "closing"} /\ pending # <<>>
    /\ Grow(Append(Announced, [gap |-> 0, id |-> Head(pending)]))
    /\ pending' = Tail(pending)
    /\ lost' = 0
    /\ UNCHANGED <<offered, late, phase>>

\* What has been written becomes durable, or the attempt fails.
Sync == /\ phase \in {"open", "closing"}
        /\ Grow(<<>>)
        /\ UNCHANGED <<offered, pending, late, lost, phase>>

StartClose == /\ phase = "open"
              /\ phase' = "closing"
              /\ UNCHANGED <<offered, pending, late, lost, records, durable, broken>>

\* Closing ends with nothing pending, the last drops announced and all durable.
FinishClose ==
    /\ phase = "closing" /\ pending = <<>>
    /\ Grow(Announced)
    /\ ~broken' => durable' = Len(records')
    /\ lost' = 0
    /\ phase' = "closed"
    /\ UNCHANGED <<offered, pending, late>>

Crash ==
    /\ phase # "crashed"
    /\ \E n \in durable..Len(records) : records' = SubSeq(records, 1, n)
    /\ durable' \in durable..Len(records')
    /\ phase' = "crashed"
    /\ UNCHANGED <<offered, pending, late, lost, broken>>

Next == Accept \/ Drop \/ Count \/ Write \/ Sync \/ StartClose \/ FinishClose \/ Crash

Spec == Init /\ [][Next]_recorderVars
=============================================================================
