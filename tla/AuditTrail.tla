----------------------------- MODULE AuditTrail -----------------------------
(***************************************************************************)
(* The audit sink (audit/sink.py): one file of records, each holding the    *)
(* hash of the one before it, written by the sinks of several processes.    *)
(* A sink keeps the head of the chain in memory and a buffer for the low    *)
(* risk events that arrive while it is switched off.                        *)
(*                                                                          *)
(* The hash of a record covers the hash before it and its own content, so   *)
(* it is modelled by what it pins down: the sequence of the contents from   *)
(* the first record of its chain up to itself.  The number of a record is   *)
(* the length of that sequence.                                             *)
(***************************************************************************)
EXTENDS Naturals, Sequences, FiniteSets, SequencesExt

CONSTANTS
    Processes,       \* the processes that write the file
    Events,          \* what a record can say; the request it serves is part of it
    BufferCapacity,  \* events a sink keeps while it is switched off
    MaxFaults        \* bound: failed writes and crashes

\* What a writer of the file is: a sink has a buffer of a length, and there is one.
ASSUME SinksAreReal ==
    /\ Processes # {}
    /\ BufferCapacity \in Nat /\ MaxFaults \in Nat

VARIABLES
    trail,      \* the lines of the file
    head,       \* process -> _last_hash, the chain it believes the file ends with
    available,  \* process -> the sink is switched on
    buffer,     \* process -> events waiting for the sink to be switched on
    restoring,  \* process -> set_available(True) has not flushed yet
    faults,     \* history: failed writes and crashes so far
    behind,     \* history: process -> the file grew behind its head
    acked,      \* history: events whose append returned
    lost        \* history: events in the buffer of a process that died

trailVars == <<trail, head, available, buffer, restoring, faults, behind, acked, lost>>
switches == <<available, restoring>>

Lines == [torn : BOOLEAN, chain : Seq(Events), behind : BOOLEAN]

Record(p, e) == [torn |-> FALSE, chain |-> Append(head[p], e), behind |-> behind[p]]
TornLine == [torn |-> TRUE, chain |-> <<>>, behind |-> FALSE]

\* _load_records stops at the first line that cannot be parsed.
FirstTorn == SelectInSeq(trail, LAMBDA line : line.torn)
Readable == IF FirstTorn = 0 THEN trail ELSE SubSeq(trail, 1, FirstTorn - 1)
LastReadable == IF Readable = <<>> THEN <<>> ELSE Last(Readable).chain

AuditInit ==
    /\ trail = <<>>
    /\ head = [p \in Processes |-> <<>>]
    /\ available = [p \in Processes |-> TRUE]
    /\ buffer = [p \in Processes |-> <<>>]
    /\ restoring = [p \in Processes |-> FALSE]
    /\ faults = 0
    /\ behind = [p \in Processes |-> FALSE]
    /\ acked = {}
    /\ lost = {}

-----------------------------------------------------------------------------
(* One append.                                                              *)

\* The record is built on the head, written, and only then becomes the head.
Written(p, e) ==
    /\ trail' = Append(trail, Record(p, e))
    /\ head' = [head EXCEPT ![p] = Append(@, e)]
    /\ behind' = [q \in Processes |-> q # p]
    /\ UNCHANGED faults

\* What a write that did not return leaves in the file: nothing, half a line,
\* or the whole record.
Remains(p, e) == {trail, Append(trail, TornLine), Append(trail, Record(p, e))}

\* Mutant: the head moves before the write is known to have succeeded.
WriteRaisesHeadFirst(p, e) ==
    /\ faults < MaxFaults
    /\ faults' = faults + 1
    /\ trail' \in Remains(p, e)
    /\ behind' = [q \in Processes |-> behind[q] \/ trail' # trail]
    /\ head' = [head EXCEPT ![p] = Append(@, e)]

\* The write raises: the head stays, whatever the file has got.
WriteRaises(p, e) ==
    /\ faults < MaxFaults
    /\ faults' = faults + 1
    /\ trail' \in Remains(p, e)
    /\ behind' = [q \in Processes |-> behind[q] \/ trail' # trail]
    /\ UNCHANGED head

\* Mutant: one event too many.
RefusesLate(p, risk) ==
    /\ ~available[p]
    /\ risk = "high" \/ Len(buffer[p]) > BufferCapacity

Refuses(p, risk) ==
    /\ ~available[p]
    /\ risk = "high" \/ Len(buffer[p]) >= BufferCapacity

\* append: its outcome is ok, refused (fail-closed) or failed (the disk).
AppendEvent(p, e, risk, outcome) ==
    /\ \/ /\ outcome = "ok"
          /\ available[p]
          /\ Written(p, e)
          /\ UNCHANGED buffer
       \/ /\ outcome = "failed"
          /\ available[p]
          /\ WriteRaises(p, e)
          /\ UNCHANGED buffer
       \/ /\ outcome = "refused"
          /\ Refuses(p, risk)
          /\ UNCHANGED <<trail, head, behind, faults, buffer>>
       \/ /\ outcome = "ok"
          /\ ~available[p]
          /\ ~Refuses(p, risk)
          /\ buffer' = [buffer EXCEPT ![p] = Append(@, e)]
          /\ UNCHANGED <<trail, head, behind, faults>>
    /\ acked' = IF outcome = "ok" THEN acked \cup {e} ELSE acked
    /\ UNCHANGED <<switches, lost>>

-----------------------------------------------------------------------------
(* The switch, the flush of the buffer, and restarts.                       *)

\* set_available(False), and set_available(True) up to the flush.
SwitchOff(p) ==
    /\ available[p] /\ ~restoring[p]
    /\ available' = [available EXCEPT ![p] = FALSE]
    /\ UNCHANGED <<trail, head, buffer, restoring, faults, behind, acked, lost>>

SwitchOn(p) ==
    /\ ~available[p]
    /\ available' = [available EXCEPT ![p] = TRUE]
    /\ restoring' = [restoring EXCEPT ![p] = TRUE]
    /\ UNCHANGED <<trail, head, buffer, faults, behind, acked, lost>>

\* The lines of a flush that wrote the first n waiting events.
Flushed(p, n) ==
    [i \in 1..n |-> [torn |-> FALSE,
                     chain |-> head[p] \o SubSeq(buffer[p], 1, i),
                     behind |-> behind[p] /\ i = 1]]

\* Mutant: the event leaves the buffer before it is written.
StillWaitingNext(p, n) == SubSeq(buffer[p], n + 2, Len(buffer[p]))

\* _flush_buffer under the lock: all of it, or the first n events and then a
\* write that raises; the event it was writing stays first in the buffer.
StillWaiting(p, n) == SubSeq(buffer[p], n + 1, Len(buffer[p]))

FlushBuffer(p) ==
    /\ restoring[p]
    /\ restoring' = [restoring EXCEPT ![p] = FALSE]
    /\ \E n \in 0..Len(buffer[p]) :
          /\ head' = [head EXCEPT ![p] = @ \o SubSeq(buffer[p], 1, n)]
          /\ buffer' = [buffer EXCEPT ![p] = StillWaiting(p, n)]
          /\ \/ /\ n = Len(buffer[p])
                /\ trail' = trail \o Flushed(p, n)
                /\ behind' = [q \in Processes |->
                                 IF n = 0 THEN behind[q] ELSE q # p]
                /\ UNCHANGED faults
             \/ /\ n < Len(buffer[p])
                /\ faults < MaxFaults
                /\ faults' = faults + 1
                /\ \E tail \in {<<>>, <<TornLine>>, <<Flushed(p, n + 1)[n + 1]>>} :
                      /\ trail' = trail \o Flushed(p, n) \o tail
                      /\ behind' = [q \in Processes |->
                                       \/ tail # <<>>
                                       \/ IF n = 0 THEN behind[q] ELSE q # p]
    /\ UNCHANGED <<available, acked, lost>>

\* refresh_chain_head, and the constructor of the sink after a restart.
HeadRead(p) ==
    /\ head' = [head EXCEPT ![p] = LastReadable]
    /\ behind' = [behind EXCEPT ![p] = Readable # trail]

\* The process dies; what it was writing may have reached the file.  The next
\* one opens the sink switched on, with an empty buffer.
DiesWriting(p, e) ==
    /\ trail' \in Remains(p, e)
    /\ head' = [head EXCEPT ![p] = LastReadable']
    /\ behind' = [q \in Processes |->
                     IF q = p THEN Readable' # trail'
                     ELSE behind[q] \/ trail' # trail]

DiesIdle(p) == UNCHANGED trail /\ HeadRead(p)

Restarted(p) ==
    /\ faults < MaxFaults
    /\ faults' = faults + 1
    /\ available' = [available EXCEPT ![p] = TRUE]
    /\ restoring' = [restoring EXCEPT ![p] = FALSE]
    /\ buffer' = [buffer EXCEPT ![p] = <<>>]
    /\ lost' = lost \cup ToSet(buffer[p])
    /\ UNCHANGED acked

-----------------------------------------------------------------------------
(* verify_chain_report and the properties of the file.                      *)

\* The chain a record follows.
Before(line) == Front(line.chain)
Follows(i) == Before(Readable[i]) = IF i = 1 THEN <<>> ELSE Readable[i - 1].chain
BrokenLinks == {i \in 1..Len(Readable) : ~Follows(i)}

\* A torn line hides the links before it: the report stops at the torn line.
VerifyChain ==
    IF FirstTorn # 0
    THEN [ok |-> FALSE, at |-> FirstTorn, problem |-> "malformed_line"]
    ELSE IF BrokenLinks = {} THEN [ok |-> TRUE, at |-> Len(trail), problem |-> "none"]
    ELSE [ok |-> FALSE, problem |-> "broken_link",
          at |-> CHOOSE i \in BrokenLinks : \A j \in BrokenLinks : i <= j]

AuditTypeOK ==
    /\ trail \in Seq(Lines)
    /\ head \in [Processes -> Seq(Events)]
    /\ available \in [Processes -> BOOLEAN]
    /\ buffer \in [Processes -> Seq(Events)]
    /\ \A p \in Processes : Len(buffer[p]) <= BufferCapacity
    /\ restoring \in [Processes -> BOOLEAN]
    /\ faults \in 0..MaxFaults
    /\ behind \in [Processes -> BOOLEAN]
    /\ acked \subseteq Events /\ lost \subseteq Events

\* Whatever is written, fails, is torn or restarted: every complete record
\* follows a record that is in the file above it (its hash never names one that
\* was lost), and before the first torn line a link is broken only where a
\* sink wrote although the file had grown behind its head (sink.py:241, 207).
TrailHolds ==
    /\ \A i \in DOMAIN trail :
          ~trail[i].torn =>
             \/ Before(trail[i]) = <<>>
             \/ \E j \in 1..(i - 1) : trail[j].chain = Before(trail[i])
    /\ VerifyChain.problem = "broken_link" => trail[VerifyChain.at].behind

RecordsOf(e) == {i \in DOMAIN trail : ~trail[i].torn /\ Last(trail[i].chain) = e}
Recorded == {Last(line.chain) : line \in {l \in ToSet(trail) : ~l.torn}}
=============================================================================
