--------------------------- MODULE TeachingStream ---------------------------
(***************************************************************************)
(* A client follows the events of a teaching run: stream_teaching_events    *)
(* (api/teaching_routes.py).  A connection replays the stored events after  *)
(* Last-Event-ID, a bounded batch of them, and ends; the client comes back. *)
(* That the log only grows, one number after another, is what               *)
(* TeachingRuns!EventsTellTheRun shows.                                     *)
(***************************************************************************)
EXTENDS Naturals, Sequences

CONSTANTS
    MaxEvents,   \* bound: events of the run
    BatchSize,   \* MAX_EVENTS_PER_BATCH
    MaxBreaks    \* bound: connections that break

ASSUME StreamAssumption == MaxEvents \in Nat /\ BatchSize \in Nat \ {0} /\ MaxBreaks \in Nat

VARIABLES
    logged,    \* events of the run so far: 1, 2, ... logged
    open,      \* is the client connected
    wire,      \* frames still to come
    seen,      \* what the client has: the numbers in the order they came
    lastId,    \* the Last-Event-ID it will send; 0: none
    stored,    \* events there were when it connected
    more,      \* this connection has said that there are more
    complete,  \* the last connection ended without saying so
    breaks

streamVars == <<logged, open, wire, seen, lastId, stored, more, complete, breaks>>

More == 0  \* the frame batch.truncated; the others are numbers of events

StreamInit ==
    /\ logged \in 0..MaxEvents
    /\ open = FALSE /\ wire = <<>> /\ seen = <<>> /\ lastId = 0
    /\ stored = 0 /\ more = FALSE /\ complete = FALSE /\ breaks = 0

\* The worker or the run store appends an event.
LogEvent ==
    /\ logged < MaxEvents
    /\ logged' = logged + 1
    /\ UNCHANGED <<open, wire, seen, lastId, stored, more, complete, breaks>>

\* list_events: those after the given number, in order.
EventsAfter(after) == [i \in 1..(logged - after) |-> after + i]

\* A batch that does not say that it is not all.
BatchUnmarked(events) ==
    IF Len(events) > BatchSize THEN SubSeq(events, 1, BatchSize) ELSE events

\* The batch, and a last frame when it is not all of them.
Batch(events) ==
    IF Len(events) > BatchSize THEN Append(SubSeq(events, 1, BatchSize), More) ELSE events

Connect ==
    /\ ~open /\ open' = TRUE
    /\ wire' = Batch(EventsAfter(lastId))
    /\ stored' = logged
    /\ more' = FALSE /\ complete' = FALSE
    /\ UNCHANGED <<logged, seen, lastId, breaks>>

\* The client takes a frame: an event moves its Last-Event-ID.
Receive ==
    /\ wire # <<>>
    /\ wire' = Tail(wire)
    /\ \/ Head(wire) = More /\ more' = TRUE /\ UNCHANGED <<seen, lastId>>
       \/ /\ Head(wire) # More
          /\ seen' = Append(seen, Head(wire)) /\ lastId' = Head(wire)
          /\ UNCHANGED more
    /\ UNCHANGED <<logged, open, stored, complete, breaks>>

EndOfStream ==
    /\ open /\ wire = <<>>
    /\ open' = FALSE
    /\ complete' = ~more
    /\ UNCHANGED <<logged, wire, seen, lastId, stored, more, breaks>>

\* The connection breaks; the client keeps its last number, or is reloaded and has none.
Break ==
    /\ open
    /\ breaks < MaxBreaks
    /\ open' = FALSE /\ wire' = <<>> /\ breaks' = breaks + 1
    /\ \/ UNCHANGED <<seen, lastId>>
       \/ seen' = <<>> /\ lastId' = 0
    /\ UNCHANGED <<logged, stored, more, complete>>

StreamNext == LogEvent \/ Connect \/ Receive \/ EndOfStream \/ Break

StreamSpec == StreamInit /\ [][StreamNext]_streamVars

-----------------------------------------------------------------------------
StreamTypeOK ==
    /\ logged \in 0..MaxEvents /\ lastId \in 0..MaxEvents /\ stored \in 0..MaxEvents
    /\ \A i \in DOMAIN seen : seen[i] \in 1..MaxEvents
    /\ open \in BOOLEAN /\ more \in BOOLEAN /\ complete \in BOOLEAN /\ breaks \in 0..MaxBreaks

\* Whatever breaks between, a client that comes back with the number it has seen last
\* gets every event once and in order; and when a connection ends without announcing
\* more, it has all there were when it connected, a full batch included.
EveryEventOnce ==
    /\ seen = [i \in 1..lastId |-> i]
    /\ complete => lastId >= stored
=============================================================================
