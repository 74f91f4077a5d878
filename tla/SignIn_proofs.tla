--------------------------- MODULE SignIn_proofs ---------------------------
(***************************************************************************)
(* Signing in and its audit trail: one session for an invitation, a session *)
(* that was given up is refused, the limiter's bound, the links of the file *)
(* and what is kept in it.  For any requests, processes, windows and sizes. *)
(***************************************************************************)
EXTENDS SignIn, AccountSums, SequenceTheorems

SignSpec == SignInit /\ [][SignNext]_<<trailVars, signVars>>

-----------------------------------------------------------------------------
(* The chain of the file.                                                   *)

\* A chain is in a file when it is empty or some line ends it.
InFile(t, chain) == chain = <<>> \/ \E j \in DOMAIN t : t[j].chain = chain

Whole(t, n) == \A j \in 1..n : ~t[j].torn
FileEnd(t) == IF t = <<>> THEN <<>> ELSE t[Len(t)].chain

\* A line follows one above it; unless a line is torn up to there, it follows the one
\* right above it or its writer was behind.
Linked(t, i) ==
    /\ ~t[i].torn =>
         \/ Before(t[i]) = <<>>
         \/ \E j \in 1..(i - 1) : t[j].chain = Before(t[i])
    /\ Whole(t, i) =>
         \/ t[i].behind
         \/ Before(t[i]) = IF i = 1 THEN <<>> ELSE t[i - 1].chain

\* A sink that is not behind has the end of the file for a head.
HeadHolds(t, chain, isBehind) ==
    /\ InFile(t, chain)
    /\ Whole(t, Len(t)) /\ ~isBehind => chain = FileEnd(t)

ChainInv ==
    /\ \A i \in DOMAIN trail : Linked(trail, i)
    /\ \A p \in Processes : HeadHolds(trail, head[p], behind[p])

-----------------------------------------------------------------------------
(* The requests.                                                            *)

Pcs == {"new", "register", "limited", "exchange", "declined", "readBack", "flush", "project",
        "mark", "done", "refused", "error", "authenticate", "served", "denied", "revoke", "revoked"}
Row == [event : Events, projected : BOOLEAN]
PcsOf(r) ==
    CASE KindOf[r] = "exchange" ->
           {"new", "register", "limited", "exchange", "declined", "readBack", "flush",
            "project", "mark", "done", "refused", "error"}
      [] KindOf[r] = "call" -> {"new", "authenticate", "served", "denied", "refused", "error"}
      [] OTHER -> {"new", "revoke", "revoked", "done", "error"}
Request == [pc : Pcs, on : Processes \cup {None}, window : Windows, row : Nat,
            ends : SUBSET Sessions, over : SUBSET Sessions]

Shapes ==
    /\ store \in {"postgres", "memory"}
    /\ sessions \in [Sessions -> {None, "live", "expired", "revoked"}]
    /\ invited \in [Invitations -> {"live", "expired"} \cup Exchanges]
    /\ outbox \in Seq(Row)
    /\ projector \in Requests \cup {None}
    /\ now \in Windows
    /\ counter \in [window : Windows, attempts : Nat]
    /\ admitted \in [Windows -> Nat] /\ rewound \in Nat
    /\ req \in [Requests -> Request]
    /\ closed \subseteq Sessions
    /\ \A r \in Requests :
          /\ req[r].pc \in PcsOf(r)
          /\ req[r].pc # "new" => req[r].on \in Processes

\* What an exchange has done so far.
Asking == {"new", "register", "limited", "exchange", "declined", "refused"}
Granted == {"readBack", "flush", "project", "mark", "done"}
HasRow(e) == \E k \in DOMAIN outbox : outbox[k].event = e
Exchanging ==
    /\ sessions[FirstSession] # None
    /\ \A r \in Exchanges :
          /\ sessions[r] # None <=> invited[TokenOf[r]] = r
          /\ sessions[r] # None <=> HasRow(Says(r, "exchanged"))
          /\ req[r].pc \in Asking => sessions[r] = None
          /\ req[r].pc \in Granted => sessions[r] # None
    /\ \A j, k \in DOMAIN outbox : outbox[j].event = outbox[k].event => j = k
    /\ \A k \in DOMAIN outbox : \E r \in Exchanges : outbox[k].event = Says(r, "exchanged")

Over(s) == sessions[s] \in {"expired", "revoked"}
Ending ==
    /\ \A s \in closed : Over(s)
    /\ \A r \in Requests :
          /\ \A s \in req[r].ends : sessions[s] # None
          /\ req[r].pc = "revoked" => \A s \in req[r].ends : Over(s)
          /\ req[r].over \subseteq closed
          /\ KindOf[r] = "logout" => req[r].ends \subseteq {CookieOf[r]}
          /\ KindOf[r] = "call" /\ req[r].pc = "served" => CookieOf[r] \notin req[r].over

Counting ==
    LET h == counter.window
        n == IF counter.attempts <= Limit THEN counter.attempts ELSE Limit
    IN /\ \A w \in Windows :
             /\ w > h => admitted[w] <= Limit * rewound
             /\ w < h => admitted[w] <= Limit * rewound + Limit
       /\ admitted[h] <= Limit * rewound + n
       /\ store = "postgres" => rewound = 0

Untold == {"new", "register", "limited", "exchange", "declined", "revoke", "revoked",
           "authenticate", "denied"}
Waiting(e) == \E p \in Processes : \E i \in DOMAIN buffer[p] : buffer[p][i] = e
Times(e) == Cardinality(RecordsOf(e))
Marking(k) == \E r \in Requests : req[r].pc = "mark" /\ req[r].row = k

\* Who projects a row holds the lock, and nobody has projected it.
Projecting ==
    \A r \in Requests :
       req[r].pc \in {"project", "mark"} =>
          /\ projector = r
          /\ req[r].row \in DOMAIN outbox /\ ~outbox[req[r].row].projected

Accepted == \A e \in acked \ lost : e \in Recorded \/ Waiting(e)

\* A row is marked when its event is in the file; until somebody is about to mark it,
\* its event can be written once more.
RowsKept ==
    /\ \A r \in Requests : req[r].pc = "mark" => outbox[req[r].row].event \in Recorded
    /\ \A k \in DOMAIN outbox, e \in Events :
          outbox[k].event = e =>
             IF outbox[k].projected THEN e \in Recorded ELSE Marking(k) \/ Times(e) <= faults

\* An event waits in one place.
OnePlace ==
    \A p, q \in Processes : \A i \in DOMAIN buffer[p], j \in DOMAIN buffer[q] :
       buffer[p][i] = buffer[q][j] => p = q /\ i = j

FewTimes ==
    \A e :
       /\ Times(e) <= 1 + faults
       /\ Waiting(e) => Times(e) <= faults

\* What has not been said is not in the file, nor about to be.
Unsaid ==
    \A r \in Requests :
       /\ ~Waiting(Says(r, "exchanged"))
       /\ ~HasRow(Says(r, "exchanged")) => Times(Says(r, "exchanged")) = 0
       /\ req[r].pc \in Untold =>
             \A w \in Sayings \ {"exchanged"} :
                Times(Says(r, w)) = 0 /\ ~Waiting(Says(r, w))

Keeping == Accepted /\ RowsKept /\ OnePlace /\ FewTimes /\ Unsaid

SignInv == AuditTypeOK /\ Shapes /\ ChainInv /\ Exchanging /\ Ending /\ Counting /\ Projecting /\ Keeping
-----------------------------------------------------------------------------
(* The readable part of the file.                                           *)

\* The first torn line is where the report says it is.
LEMMA FirstTornIsFirst ==
    ASSUME trail \in Seq(Lines)
    PROVE  /\ FirstTorn \in 0..Len(trail)
           /\ FirstTorn = 0 => Whole(trail, Len(trail))
           /\ FirstTorn # 0 => trail[FirstTorn].torn /\ Whole(trail, FirstTorn - 1)
<1> DEFINE I == {i \in 1..Len(trail) : trail[i].torn}
<1>1. FirstTorn = IF I # {} THEN Min(I) ELSE 0
  BY DEF FirstTorn, SelectInSeq
<1>2. CASE I = {}
  <2>1. FirstTorn = 0
    BY <1>1, <1>2
  <2>2. \A j \in 1..Len(trail) : ~trail[j].torn
    BY <1>2
  <2> QED BY <2>1, <2>2 DEF Whole
<1>3. CASE I # {}
  <2>1. Len(trail) \in Nat /\ I \subseteq Nat
    OBVIOUS
  <2>2. \E n \in I : \A m \in I : n <= m
    BY <1>3, <2>1, LeastNatural
  <2>3. Min(I) \in I /\ \A m \in I : Min(I) <= m
    BY <2>2 DEF Min
  <2>4. \A j \in 1..(Min(I) - 1) : ~trail[j].torn
    BY <2>1, <2>3
  <2>5. FirstTorn = Min(I)
    BY <1>1, <1>3
  <2> QED BY <2>1, <2>3, <2>4, <2>5 DEF Whole
<1> QED BY <1>2, <1>3

\* What can be read is the file up to its first torn line.
LEMMA ReadablePart ==
    ASSUME trail \in Seq(Lines)
    PROVE  /\ Readable \in Seq(Lines)
           /\ Len(Readable) = IF FirstTorn = 0 THEN Len(trail) ELSE FirstTorn - 1
           /\ \A i \in 1..Len(Readable) : Readable[i] = trail[i]
           /\ Whole(trail, Len(Readable))
           /\ Readable = trail => Whole(trail, Len(trail))
<1>1. /\ FirstTorn \in 0..Len(trail)
      /\ FirstTorn = 0 => Whole(trail, Len(trail))
      /\ FirstTorn # 0 => trail[FirstTorn].torn /\ Whole(trail, FirstTorn - 1)
  BY FirstTornIsFirst
<1> HIDE DEF FirstTorn
<1>2. CASE FirstTorn = 0
  BY <1>1, <1>2 DEF Readable
<1>3. CASE FirstTorn # 0
  <2> DEFINE n == FirstTorn - 1
  <2>1. n \in Nat /\ n < Len(trail) /\ Readable = SubSeq(trail, 1, n) /\ Whole(trail, n)
    BY <1>1, <1>3 DEF Readable
  <2>2. \A i \in 1..n : trail[i] \in Lines
    BY <2>1
  <2>3. /\ Readable \in Seq(Lines) /\ Len(Readable) = n
        /\ \A i \in 1..n : Readable[i] = trail[i]
    <3> HIDE DEF n
    <3>1. /\ SubSeq(trail, 1, n) \in Seq(Lines)
          /\ Len(SubSeq(trail, 1, n)) = IF 1 <= n THEN n - 1 + 1 ELSE 0
          /\ \A i \in 1..(n - 1 + 1) : SubSeq(trail, 1, n)[i] = trail[1 + i - 1]
      BY <2>1, <2>2, SubSeqProperties
    <3> QED BY <2>1, <3>1
  <2>4. Readable # trail
    BY <2>1, <2>3
  <2> QED BY <1>3, <2>1, <2>3, <2>4
<1> QED BY <1>2, <1>3

\* The chain a sink starts from when it reads the file is in the file; unless some
\* line is torn, it is the one the file ends with.
LEMMA HeadFromFile ==
    ASSUME trail \in Seq(Lines)
    PROVE  /\ LastReadable \in Seq(Events)
           /\ InFile(trail, LastReadable)
           /\ Readable = trail => LastReadable = FileEnd(trail)
<1>1. /\ Readable \in Seq(Lines)
      /\ Len(Readable) = IF FirstTorn = 0 THEN Len(trail) ELSE FirstTorn - 1
      /\ \A i \in 1..Len(Readable) : Readable[i] = trail[i]
      /\ FirstTorn \in 0..Len(trail)
  BY ReadablePart, FirstTornIsFirst
<1> HIDE DEF Readable, FirstTorn
<1>2. CASE Readable = <<>>
  BY <1>2 DEF LastReadable, InFile, FileEnd
<1>3. CASE Readable # <<>>
  <2> DEFINE k == Len(Readable)
  <2>1. k \in 1..Len(trail)
    BY <1>1, <1>3
  <2>2. LastReadable = trail[k].chain
    BY <1>1, <1>3, <2>1 DEF LastReadable, Last
  <2>3. trail[k] \in Lines /\ trail # <<>>
    BY <2>1
  <2>4. trail[k].chain \in Seq(Events)
    BY <2>3 DEF Lines
  <2> QED BY <2>1, <2>2, <2>3, <2>4 DEF InFile, FileEnd
<1> QED BY <1>2, <1>3

-----------------------------------------------------------------------------
(* Lines added to a file.                                                   *)

\* Complete lines that follow one another, the first of them a chain of the file.
NextLines(t, new, chain, isBehind) ==
    /\ t \in Seq(Lines) /\ new \in Seq(Lines)
    /\ HeadHolds(t, chain, isBehind)
    /\ \A k \in DOMAIN new :
         /\ Before(new[k]) = IF k = 1 THEN chain ELSE new[k - 1].chain
         /\ k = 1 => new[k].behind = isBehind

\* Adding them keeps the links of the file.
LEMMA LinesAreLinked ==
    ASSUME NEW t, NEW new, NEW chain, NEW isBehind \in BOOLEAN,
           NextLines(t, new, chain, isBehind), \A i \in DOMAIN t : Linked(t, i)
    PROVE  \A i \in DOMAIN (t \o new) : Linked(t \o new, i)
<1> DEFINE u == t \o new
<1>1. t \in Seq(Lines) /\ new \in Seq(Lines) /\ Len(t) \in Nat /\ Len(new) \in Nat
  BY DEF NextLines
<1>2. /\ u \in Seq(Lines) /\ Len(u) = Len(t) + Len(new)
      /\ \A i \in 1..Len(t) + Len(new) : u[i] = IF i <= Len(t) THEN t[i] ELSE new[i - Len(t)]
  BY <1>1, ConcatProperties
<1> HIDE DEF u
<1> SUFFICES ASSUME NEW i \in DOMAIN u PROVE Linked(u, i)
  BY DEF u
<1>3. i \in 1..(Len(t) + Len(new))
  BY <1>2
<1>4. CASE i <= Len(t)
  <2>1. /\ i \in DOMAIN t /\ u[i] = t[i] /\ \A j \in 1..i : u[j] = t[j]
        /\ i # 1 => u[i - 1] = t[i - 1]
    BY <1>1, <1>2, <1>3, <1>4
  <2>2. Linked(t, i)
    BY <2>1
  <2> QED BY <1>3, <2>1, <2>2 DEF Linked, Whole
<1>5. CASE i > Len(t)
  <2> DEFINE k == i - Len(t)
  <2>1. k \in DOMAIN new /\ u[i] = new[k] /\ (k > 1 => u[i - 1] = new[k - 1])
    BY <1>1, <1>2, <1>3, <1>5
  <2>2. /\ Before(new[k]) = IF k = 1 THEN chain ELSE new[k - 1].chain
        /\ k = 1 => new[k].behind = isBehind
        /\ HeadHolds(t, chain, isBehind)
    BY <2>1 DEF NextLines
  <2>3. CASE k > 1
    <3>1. i - 1 \in 1..(i - 1) /\ i # 1
      BY <1>1, <1>3, <2>3
    <3>2. Before(u[i]) = u[i - 1].chain
      BY <2>1, <2>2, <2>3
    <3> QED BY <3>1, <3>2 DEF Linked
  <2>4. CASE k = 1
    <3>1. i = Len(t) + 1 /\ Before(u[i]) = chain /\ u[i].behind = isBehind
      BY <1>1, <1>3, <2>1, <2>2, <2>4
    <3>2. \A j \in 1..Len(t) : u[j] = t[j]
      BY <1>1, <1>2
    <3>3. chain = <<>> \/ \E j \in 1..(i - 1) : u[j].chain = chain
      BY <1>1, <2>2, <3>1, <3>2 DEF HeadHolds, InFile
    <3>4. Whole(u, i) /\ ~isBehind => chain = FileEnd(t)
      <4>1. Whole(u, i) => Whole(t, Len(t))
        BY <1>1, <3>1, <3>2 DEF Whole
      <4> QED BY <2>2, <4>1 DEF HeadHolds
    <3>5. FileEnd(t) = IF i = 1 THEN <<>> ELSE u[i - 1].chain
      BY <1>1, <3>1, <3>2 DEF FileEnd
    <3> QED BY <3>1, <3>3, <3>4, <3>5 DEF Linked
  <2> QED BY <1>1, <1>3, <1>5, <2>3, <2>4
<1> QED BY <1>1, <1>3, <1>4, <1>5

\* So does half a line.
LEMMA TornIsLinked ==
    ASSUME NEW t \in Seq(Lines), \A i \in DOMAIN t : Linked(t, i)
    PROVE  /\ Append(t, TornLine) \in Seq(Lines)
           /\ ~Whole(Append(t, TornLine), Len(Append(t, TornLine)))
           /\ \A i \in DOMAIN Append(t, TornLine) : Linked(Append(t, TornLine), i)
<1> DEFINE u == Append(t, TornLine)
<1>1. TornLine \in Lines /\ TornLine.torn
  BY EmptySeq DEF TornLine, Lines
<1>2. /\ u \in Seq(Lines) /\ Len(u) = Len(t) + 1
      /\ \A i \in 1..Len(t) : u[i] = t[i]
      /\ u[Len(t) + 1] = TornLine
  BY <1>1, AppendProperties
<1>3. ~Whole(u, Len(u))
  BY <1>1, <1>2 DEF Whole
<1>4. ASSUME NEW i \in DOMAIN u PROVE Linked(u, i)
  <2> HIDE DEF u
  <2>1. i \in 1..(Len(t) + 1) /\ Len(t) \in Nat
    BY <1>2
  <2>2. CASE i <= Len(t)
    <3>1. i \in DOMAIN t /\ Linked(t, i) /\ \A j \in 1..i : u[j] = t[j]
      BY <1>2, <2>1, <2>2
    <3> QED BY <2>1, <3>1 DEF Linked, Whole
  <2>3. CASE i = Len(t) + 1
    <3>1. u[i].torn /\ i \in 1..i
      BY <1>1, <1>2, <2>1, <2>3
    <3> QED BY <3>1 DEF Linked, Whole
  <2> QED BY <2>1, <2>2, <2>3
<1> QED BY <1>2, <1>3, <1>4

\* Who is behind the longer file is right about its head, and so is the writer.
LEMMA HeadsOfLongerFile ==
    ASSUME NEW t \in Seq(Lines), NEW new \in Seq(Lines), NEW chain, InFile(t, chain)
    PROVE  /\ HeadHolds(t \o new, chain, TRUE)
           /\ new # <<>> => HeadHolds(t \o new, new[Len(new)].chain, FALSE)
<1> DEFINE u == t \o new
<1>1. Len(t) \in Nat /\ Len(new) \in Nat
  OBVIOUS
<1>2. /\ u \in Seq(Lines) /\ Len(u) = Len(t) + Len(new)
      /\ \A i \in 1..Len(t) + Len(new) : u[i] = IF i <= Len(t) THEN t[i] ELSE new[i - Len(t)]
  BY <1>1, ConcatProperties
<1> HIDE DEF u
<1>3. InFile(u, chain)
  BY <1>1, <1>2 DEF InFile
<1>4. ASSUME new # <<>> PROVE HeadHolds(u, new[Len(new)].chain, FALSE)
  <2>1. Len(new) > 0 /\ u # <<>> /\ u[Len(u)] = new[Len(new)] /\ Len(u) \in DOMAIN u
    BY <1>1, <1>2, <1>4
  <2> QED BY <2>1 DEF HeadHolds, InFile, FileEnd
<1> QED BY <1>3, <1>4 DEF HeadHolds, u

-----------------------------------------------------------------------------
(* The writes of the sink.                                                  *)

\* Every step of the sink, by whichever request it is taken.
AuditStep ==
    \E p \in Processes :
        \/ HeadRead(p) /\ UNCHANGED <<trail, switches, buffer, faults, acked, lost>>
        \/ \E e \in Events, risk \in {"low", "high"}, outcome \in {"ok", "refused", "failed"} :
              AppendEvent(p, e, risk, outcome)
        \/ SwitchOff(p) \/ SwitchOn(p) \/ FlushBuffer(p)
        \/ Restarted(p) /\ (DiesIdle(p) \/ \E e \in Events : DiesWriting(p, e))

\* The record of an event follows the head of its writer.
LEMMA RecordFollows ==
    ASSUME AuditTypeOK, ChainInv, NEW p \in Processes, NEW e \in Events
    PROVE  /\ NextLines(trail, <<Record(p, e)>>, head[p], behind[p])
           /\ <<Record(p, e)>> \in Seq(Lines) /\ Record(p, e) \in Lines
           /\ Append(trail, Record(p, e)) = trail \o <<Record(p, e)>>
           /\ Record(p, e).chain = Append(head[p], e)
           /\ ~Record(p, e).torn /\ Last(Record(p, e).chain) = e
           /\ Append(head[p], e) \in Seq(Events)
<1>1. head[p] \in Seq(Events) /\ behind[p] \in BOOLEAN /\ trail \in Seq(Lines)
  BY DEF AuditTypeOK
<1> DEFINE c == Append(head[p], e)
           n == Len(head[p])
<1>2. /\ c \in Seq(Events) /\ Len(c) = n + 1 /\ n \in Nat
      /\ \A i \in 1..n : c[i] = head[p][i]
      /\ c[n + 1] = e
  BY <1>1, AppendProperties
<1>3. Front(c) = head[p]
  <2> HIDE DEF c
  <2>1. \A i \in 1..n : c[i] \in Events
    BY <1>2
  <2>2. /\ SubSeq(c, 1, n) \in Seq(Events)
        /\ Len(SubSeq(c, 1, n)) = IF 1 <= n THEN n - 1 + 1 ELSE 0
        /\ \A i \in 1..(n - 1 + 1) : SubSeq(c, 1, n)[i] = c[1 + i - 1]
    BY <1>2, <2>1, SubSeqProperties
  <2>3. Len(SubSeq(c, 1, n)) = n /\ \A i \in 1..n : SubSeq(c, 1, n)[i] = head[p][i]
    BY <1>2, <2>2
  <2>4. SubSeq(c, 1, n) = head[p]
    BY <1>1, <2>2, <2>3, SeqEqual
  <2> QED BY <1>2, <2>4 DEF Front
<1>4. /\ Record(p, e) \in Lines /\ ~Record(p, e).torn /\ Record(p, e).chain = c
      /\ Record(p, e).behind = behind[p]
  BY <1>1, <1>2 DEF Record, Lines
<1>5. Last(c) = e
  BY <1>2 DEF Last
<1>6. <<Record(p, e)>> \in Seq(Lines)
  BY <1>4
<1>7. Append(trail, Record(p, e)) = trail \o <<Record(p, e)>>
  BY <1>1, <1>4, AppendIsConcat
<1>8. HeadHolds(trail, head[p], behind[p])
  BY DEF ChainInv
<1>9. NextLines(trail, <<Record(p, e)>>, head[p], behind[p])
  <2>1. Before(Record(p, e)) = head[p]
    BY <1>3, <1>4 DEF Before
  <2>2. ASSUME NEW k \in DOMAIN <<Record(p, e)>>
        PROVE  k = 1 /\ <<Record(p, e)>>[k] = Record(p, e)
    OBVIOUS
  <2> QED BY <1>1, <1>4, <1>6, <1>8, <2>1, <2>2 DEF NextLines
<1> QED BY <1>2, <1>4, <1>5, <1>6, <1>7, <1>9

\* What a write that did not return leaves is linked, and whoever knows that the
\* file grew is right about its head.
LEMMA RemainsAreLinked ==
    ASSUME AuditTypeOK, ChainInv, NEW p \in Processes, NEW e \in Events,
           NEW u \in Remains(p, e)
    PROVE  /\ u \in Seq(Lines)
           /\ \A i \in DOMAIN u : Linked(u, i)
           /\ \A q \in Processes : HeadHolds(u, head[q], behind[q] \/ u # trail)
<1>1. /\ trail \in Seq(Lines) /\ \A i \in DOMAIN trail : Linked(trail, i)
      /\ \A q \in Processes : HeadHolds(trail, head[q], behind[q])
      /\ behind[p] \in BOOLEAN
  BY DEF AuditTypeOK, ChainInv
<1>2. CASE u = trail
  BY <1>1, <1>2 DEF HeadHolds
<1>3. CASE u = Append(trail, TornLine)
  <2>1. /\ u \in Seq(Lines) /\ ~Whole(u, Len(u)) /\ \A i \in DOMAIN u : Linked(u, i)
    BY <1>1, <1>3, TornIsLinked
  <2>2. TornLine \in Lines
    BY EmptySeq DEF TornLine, Lines
  <2>3. Len(u) = Len(trail) + 1 /\ \A i \in 1..Len(trail) : u[i] = trail[i]
    BY <1>1, <1>3, <2>2, AppendProperties
  <2>4. \A q \in Processes : InFile(u, head[q])
    BY <1>1, <2>1, <2>3 DEF HeadHolds, InFile
  <2> QED BY <2>1, <2>4 DEF HeadHolds
<1>4. CASE u = Append(trail, Record(p, e))
  <2>1. /\ NextLines(trail, <<Record(p, e)>>, head[p], behind[p])
        /\ u = trail \o <<Record(p, e)>>
        /\ <<Record(p, e)>> \in Seq(Lines) /\ Record(p, e) \in Lines
    BY <1>4, RecordFollows
  <2>2. \A i \in DOMAIN u : Linked(u, i)
    BY <1>1, <2>1, LinesAreLinked
  <2>3. u \in Seq(Lines) /\ Len(u) = Len(trail) + 1
    BY <1>1, <1>4, <2>1, AppendProperties
  <2>4. u # trail
    BY <1>1, <2>3
  <2>5. \A q \in Processes : HeadHolds(u, head[q], TRUE)
    <3> TAKE q \in Processes
    <3>1. InFile(trail, head[q])
      BY <1>1 DEF HeadHolds
    <3> QED BY <1>1, <2>1, <3>1, HeadsOfLongerFile
  <2> QED BY <2>2, <2>3, <2>4, <2>5
<1> QED BY <1>2, <1>3, <1>4 DEF Remains

\* The lines of a flush.
LEMMA FlushedFollow ==
    ASSUME AuditTypeOK, ChainInv, NEW p \in Processes, NEW n \in 0..Len(buffer[p])
    PROVE  /\ NextLines(trail, Flushed(p, n), head[p], behind[p])
           /\ Flushed(p, n) \in Seq(Lines) /\ Len(Flushed(p, n)) = n
           /\ head[p] \o SubSeq(buffer[p], 1, n) \in Seq(Events)
           /\ n = 0 => head[p] \o SubSeq(buffer[p], 1, n) = head[p]
           /\ n > 0 => Flushed(p, n)[n].chain = head[p] \o SubSeq(buffer[p], 1, n)
           /\ \A i \in 1..n : /\ ~Flushed(p, n)[i].torn
                              /\ Last(Flushed(p, n)[i].chain) = buffer[p][i]
<1>1. /\ head[p] \in Seq(Events) /\ behind[p] \in BOOLEAN /\ trail \in Seq(Lines)
      /\ buffer[p] \in Seq(Events) /\ n \in Nat /\ n <= Len(buffer[p])
  BY DEF AuditTypeOK
<1> DEFINE m == Len(head[p])
           s(i) == SubSeq(buffer[p], 1, i)
           c(i) == head[p] \o s(i)
<1>2. \A i \in 0..n : /\ s(i) \in Seq(Events) /\ Len(s(i)) = i
                      /\ \A j \in 1..i : s(i)[j] = buffer[p][j]
  <2> TAKE i \in 0..n
  <2>1. \A j \in 1..i : buffer[p][j] \in Events
    BY <1>1
  <2>2. /\ s(i) \in Seq(Events) /\ Len(s(i)) = IF 1 <= i THEN i - 1 + 1 ELSE 0
        /\ \A j \in 1..(i - 1 + 1) : s(i)[j] = buffer[p][1 + j - 1]
    BY <2>1, SubSeqProperties
  <2>3. Len(s(i)) = i
    BY <2>2
  <2>4. \A j \in 1..i : s(i)[j] = buffer[p][j]
    BY <2>2
  <2> QED BY <2>2, <2>3, <2>4
<1> HIDE DEF s
<1>3. \A i \in 0..n : /\ c(i) \in Seq(Events) /\ Len(c(i)) = m + i
                      /\ \A j \in 1..(m + i) : c(i)[j] = IF j <= m THEN head[p][j] ELSE buffer[p][j - m]
  <2> TAKE i \in 0..n
  <2>1. /\ c(i) \in Seq(Events) /\ Len(c(i)) = Len(head[p]) + Len(s(i))
        /\ \A j \in 1..Len(head[p]) + Len(s(i)) :
              c(i)[j] = IF j <= Len(head[p]) THEN head[p][j] ELSE s(i)[j - Len(head[p])]
    BY <1>1, <1>2, ConcatProperties
  <2>2. Len(s(i)) = i /\ (\A j \in 1..i : s(i)[j] = buffer[p][j]) /\ m \in Nat
    BY <1>1, <1>2
  <2> QED BY <2>1, <2>2
<1>4. c(0) = head[p]
  <2>1. Len(c(0)) = m /\ c(0) \in Seq(Events) /\ m \in Nat
        /\ \A j \in 1..m : c(0)[j] = head[p][j]
    BY <1>1, <1>3
  <2> QED BY <1>1, <2>1, SeqEqual
<1> HIDE DEF c
<1>5. \A i \in 1..n : Front(c(i)) = c(i - 1) /\ Last(c(i)) = buffer[p][i] /\ c(i) # <<>>
  <2> TAKE i \in 1..n
  <2>1. /\ c(i) \in Seq(Events) /\ Len(c(i)) = m + i /\ m \in Nat /\ i - 1 \in 0..n
        /\ \A j \in 1..(m + i) : c(i)[j] = IF j <= m THEN head[p][j] ELSE buffer[p][j - m]
    BY <1>1, <1>3
  <2>2. /\ c(i - 1) \in Seq(Events) /\ Len(c(i - 1)) = m + (i - 1)
        /\ \A j \in 1..(m + (i - 1)) :
              c(i - 1)[j] = IF j <= m THEN head[p][j] ELSE buffer[p][j - m]
    BY <1>3, <2>1
  <2> DEFINE k == m + i - 1
             f == SubSeq(c(i), 1, k)
  <2>3. k \in Nat /\ \A j \in 1..k : c(i)[j] \in Events
    BY <2>1
  <2>4. /\ f \in Seq(Events) /\ Len(f) = IF 1 <= k THEN k - 1 + 1 ELSE 0
        /\ \A j \in 1..(k - 1 + 1) : f[j] = c(i)[1 + j - 1]
    BY <2>3, SubSeqProperties
  <2>5. Len(f) = Len(c(i - 1)) /\ \A j \in 1..Len(f) : f[j] = c(i - 1)[j]
    BY <2>1, <2>2, <2>3, <2>4
  <2>6. f = c(i - 1)
    BY <2>2, <2>4, <2>5, SeqEqual
  <2>7. Last(c(i)) = buffer[p][i] /\ c(i) # <<>>
    BY <2>1 DEF Last
  <2> QED BY <2>1, <2>6, <2>7 DEF Front
<1>6. \A i \in 1..n : [torn |-> FALSE, chain |-> c(i), behind |-> behind[p] /\ i = 1] \in Lines
  BY <1>1, <1>3 DEF Lines
<1>7. Flushed(p, n) = [i \in 1..n |-> [torn |-> FALSE, chain |-> c(i), behind |-> behind[p] /\ i = 1]]
  BY DEF Flushed, c, s
<1>8. Flushed(p, n) \in Seq(Lines) /\ Len(Flushed(p, n)) = n
  BY <1>1, <1>6, <1>7
<1>9. \A i \in 1..n : /\ ~Flushed(p, n)[i].torn /\ Flushed(p, n)[i].chain = c(i)
                      /\ Before(Flushed(p, n)[i]) = c(i - 1)
                      /\ Last(Flushed(p, n)[i].chain) = buffer[p][i]
                      /\ i = 1 => Flushed(p, n)[i].behind = behind[p]
  BY <1>1, <1>5, <1>7 DEF Before
<1>10. HeadHolds(trail, head[p], behind[p])
  BY DEF ChainInv
<1>11. NextLines(trail, Flushed(p, n), head[p], behind[p])
  <2>1. ASSUME NEW k \in DOMAIN Flushed(p, n)
        PROVE  /\ Before(Flushed(p, n)[k]) = IF k = 1 THEN head[p] ELSE Flushed(p, n)[k - 1].chain
               /\ k = 1 => Flushed(p, n)[k].behind = behind[p]
    <3>1. k \in 1..n /\ (k # 1 => k - 1 \in 1..n)
      BY <1>1, <1>8
    <3> QED BY <1>4, <1>9, <3>1
  <2> QED BY <1>1, <1>8, <1>10, <2>1 DEF NextLines
<1>12. c(n) \in Seq(Events) /\ (n > 0 => Flushed(p, n)[n].chain = c(n)) /\ (n = 0 => c(n) = head[p])
  BY <1>1, <1>3, <1>4, <1>9
<1> QED BY <1>8, <1>9, <1>11, <1>12 DEF c, s

-----------------------------------------------------------------------------
(* The sink keeps its types and the links of the file.                      *)

LEMMA AuditInit1 ==
    AuditInit => AuditTypeOK /\ ChainInv
<1> SUFFICES ASSUME AuditInit PROVE AuditTypeOK /\ ChainInv
  OBVIOUS
<1>1. <<>> \in Seq(Lines) /\ <<>> \in Seq(Events) /\ Len(<<>>) = 0
  BY EmptySeq
<1>2. AuditTypeOK
  BY <1>1, SinksAreReal DEF AuditInit, AuditTypeOK
<1>3. ChainInv
  BY <1>1 DEF AuditInit, ChainInv, HeadHolds, InFile, FileEnd
<1> QED BY <1>2, <1>3

LEMMA WrittenKeeps ==
    ASSUME AuditTypeOK, ChainInv, NEW p \in Processes, NEW e \in Events, Written(p, e)
    PROVE  /\ trail' \in Seq(Lines) /\ head' \in [Processes -> Seq(Events)]
           /\ behind' \in [Processes -> BOOLEAN] /\ faults' = faults
           /\ ChainInv'
<1>1. /\ trail \in Seq(Lines) /\ \A i \in DOMAIN trail : Linked(trail, i)
      /\ head \in [Processes -> Seq(Events)]
      /\ \A q \in Processes : HeadHolds(trail, head[q], behind[q]) /\ behind[q] \in BOOLEAN
  BY DEF AuditTypeOK, ChainInv
<1> DEFINE new == <<Record(p, e)>>
<1>2. /\ NextLines(trail, new, head[p], behind[p]) /\ new \in Seq(Lines)
      /\ Append(trail, Record(p, e)) = trail \o new /\ Record(p, e) \in Lines
      /\ Record(p, e).chain = Append(head[p], e) /\ Append(head[p], e) \in Seq(Events)
  BY RecordFollows
<1>3. /\ trail' = trail \o new /\ head' = [head EXCEPT ![p] = Append(@, e)]
      /\ behind' = [q \in Processes |-> q # p] /\ faults' = faults
  BY <1>2 DEF Written
<1>4. trail' \in Seq(Lines)
  BY <1>1, <1>2, <1>3, ConcatProperties
<1>5. \A i \in DOMAIN trail' : Linked(trail', i)
  BY <1>1, <1>2, <1>3, LinesAreLinked
<1>6. \A q \in Processes : HeadHolds(trail', head'[q], behind'[q])
  <2> TAKE q \in Processes
  <2>1. /\ HeadHolds(trail \o new, head[q], TRUE)
        /\ new # <<>> => HeadHolds(trail \o new, new[Len(new)].chain, FALSE)
    <3>1. InFile(trail, head[q])
      BY <1>1 DEF HeadHolds
    <3> QED BY <1>1, <1>2, <3>1, HeadsOfLongerFile
  <2>2. new # <<>> /\ Len(new) = 1 /\ new[1] = Record(p, e)
    OBVIOUS
  <2>3. CASE q = p
    <3>1. head'[q] = Append(head[p], e) /\ behind'[q] = FALSE
      BY <1>1, <1>3, <2>3
    <3> QED BY <1>2, <1>3, <2>1, <2>2, <3>1
  <2>4. CASE q # p
    <3>1. head'[q] = head[q] /\ behind'[q] = TRUE
      BY <1>1, <1>3, <2>4
    <3> QED BY <1>3, <2>1, <3>1
  <2> QED BY <2>3, <2>4
<1>7. head' \in [Processes -> Seq(Events)] /\ behind' \in [Processes -> BOOLEAN]
  BY <1>1, <1>2, <1>3
<1> QED BY <1>3, <1>4, <1>5, <1>6, <1>7 DEF ChainInv

LEMMA RaisingKeeps ==
    ASSUME AuditTypeOK, ChainInv, NEW p \in Processes, NEW e \in Events, WriteRaises(p, e)
    PROVE  /\ trail' \in Seq(Lines) /\ head' \in [Processes -> Seq(Events)]
           /\ behind' \in [Processes -> BOOLEAN] /\ faults' \in 0..MaxFaults
           /\ ChainInv'
<1>1. /\ head \in [Processes -> Seq(Events)] /\ behind \in [Processes -> BOOLEAN]
      /\ faults \in 0..MaxFaults /\ MaxFaults \in Nat
  BY SinksAreReal DEF AuditTypeOK
<1>2. /\ trail' \in Remains(p, e) /\ head' = head /\ faults' = faults + 1 /\ faults < MaxFaults
      /\ behind' = [q \in Processes |-> behind[q] \/ trail' # trail]
  BY DEF WriteRaises
<1>3. /\ trail' \in Seq(Lines)
      /\ \A i \in DOMAIN trail' : Linked(trail', i)
      /\ \A q \in Processes : HeadHolds(trail', head[q], behind[q] \/ trail' # trail)
  BY <1>2, RemainsAreLinked
<1>4. \A q \in Processes : HeadHolds(trail', head'[q], behind'[q])
  BY <1>2, <1>3
<1> QED BY <1>1, <1>2, <1>3, <1>4 DEF ChainInv

\* Lines are appended in any grouping.
LEMMA ConcatOfLines == \A a, b, c \in Seq(Lines) : (a \o b) \o c = a \o (b \o c)
<1> TAKE a, b, c \in Seq(Lines)
<1> HIDE DEF Lines
<1> QED BY ConcatAssociative

\* A sequence and its last element.
LEMMA ConcatLast ==
    ASSUME NEW t \in Seq(Lines), NEW new \in Seq(Lines), NEW more \in Seq(Lines),
           Len(more) = Len(new) + 1, \A i \in 1..Len(new) : more[i] = new[i]
    PROVE  (t \o new) \o <<more[Len(new) + 1]>> = t \o more
<1> DEFINE n == Len(new)
           last == <<more[n + 1]>>
<1>1. more[n + 1] \in Lines /\ last \in Seq(Lines) /\ n \in Nat
  OBVIOUS
<1>2. /\ new \o last \in Seq(Lines) /\ Len(new \o last) = Len(new) + Len(last)
      /\ \A i \in 1..Len(new) + Len(last) :
            (new \o last)[i] = IF i <= Len(new) THEN new[i] ELSE last[i - Len(new)]
  BY <1>1, ConcatProperties
<1>3. Len(last) = 1 /\ last[1] = more[n + 1]
  OBVIOUS
<1> HIDE DEF last
<1>4. \A i \in 1..(n + 1) : (new \o last)[i] = more[i]
  <2> TAKE i \in 1..(n + 1)
  <2>1. CASE i <= n
    BY <1>1, <1>2, <1>3, <2>1
  <2>2. CASE i = n + 1
    BY <1>1, <1>2, <1>3, <2>2
  <2>3. i <= n \/ i = n + 1
    BY <1>1
  <2> QED BY <2>1, <2>2, <2>3
<1>5. new \o last = more
  BY <1>2, <1>3, <1>4, SeqEqual
<1>6. (t \o new) \o last = t \o (new \o last)
  BY <1>1, ConcatOfLines, Zenon
<1> QED BY <1>5, <1>6 DEF last

LEMMA FlushKeeps ==
    ASSUME AuditTypeOK, ChainInv, NEW p \in Processes, FlushBuffer(p)
    PROVE  /\ trail' \in Seq(Lines) /\ head' \in [Processes -> Seq(Events)]
           /\ behind' \in [Processes -> BOOLEAN] /\ faults' \in 0..MaxFaults
           /\ ChainInv'
<1>1. /\ trail \in Seq(Lines) /\ \A i \in DOMAIN trail : Linked(trail, i)
      /\ head \in [Processes -> Seq(Events)] /\ buffer[p] \in Seq(Events)
      /\ \A q \in Processes : HeadHolds(trail, head[q], behind[q]) /\ behind[q] \in BOOLEAN
      /\ \A q \in Processes : InFile(trail, head[q])
      /\ faults \in 0..MaxFaults /\ MaxFaults \in Nat
  BY SinksAreReal DEF AuditTypeOK, ChainInv, HeadHolds
<1>2. PICK n \in 0..Len(buffer[p]) :
          /\ head' = [head EXCEPT ![p] = @ \o SubSeq(buffer[p], 1, n)]
          /\ \/ /\ n = Len(buffer[p])
                /\ trail' = trail \o Flushed(p, n)
                /\ behind' = [q \in Processes |-> IF n = 0 THEN behind[q] ELSE q # p]
                /\ faults' = faults
             \/ /\ n < Len(buffer[p])
                /\ faults < MaxFaults
                /\ faults' = faults + 1
                /\ \E tail \in {<<>>, <<TornLine>>, <<Flushed(p, n + 1)[n + 1]>>} :
                      /\ trail' = trail \o Flushed(p, n) \o tail
                      /\ behind' = [q \in Processes |->
                                       \/ tail # <<>>
                                       \/ IF n = 0 THEN behind[q] ELSE q # p]
  BY DEF FlushBuffer
<1> DEFINE new == Flushed(p, n)
           u == trail \o new
           bh == [q \in Processes |-> IF n = 0 THEN behind[q] ELSE q # p]
<1>3. /\ NextLines(trail, new, head[p], behind[p]) /\ new \in Seq(Lines) /\ Len(new) = n
      /\ head[p] \o SubSeq(buffer[p], 1, n) \in Seq(Events)
      /\ n = 0 => head[p] \o SubSeq(buffer[p], 1, n) = head[p]
      /\ n > 0 => new[n].chain = head[p] \o SubSeq(buffer[p], 1, n)
  BY FlushedFollow
<1>12. n \in Nat /\ faults' \in 0..MaxFaults
  <2>1. Len(buffer[p]) \in Nat
    BY <1>1
  <2>2. faults' = faults \/ (faults < MaxFaults /\ faults' = faults + 1)
    BY <1>2
  <2> QED BY <1>1, <2>1, <2>2
<1>4. /\ head' \in [Processes -> Seq(Events)] /\ n \in Nat /\ faults' \in 0..MaxFaults
      /\ \A q \in Processes : q # p => head'[q] = head[q]
      /\ head'[p] = head[p] \o SubSeq(buffer[p], 1, n)
  <2>1. head' = [head EXCEPT ![p] = head[p] \o SubSeq(buffer[p], 1, n)]
    BY <1>1, <1>2
  <2>2. head[p] \o SubSeq(buffer[p], 1, n) \in Seq(Events)
    BY <1>3
  <2> QED BY <1>1, <1>12, <2>1, <2>2
<1> HIDE DEF new
<1>5. u \in Seq(Lines) /\ \A i \in DOMAIN u : Linked(u, i)
  BY <1>1, <1>3, LinesAreLinked, ConcatProperties
<1>6. \A q \in Processes : HeadHolds(u, head'[q], bh[q])
  <2>1. CASE n = 0
    <3>1. new = <<>> /\ u = trail
      BY <1>1, <1>3, <2>1, ConcatEmptySeq
    <3>2. \A q \in Processes : head'[q] = head[q] /\ bh[q] = behind[q]
      BY <1>3, <1>4, <2>1
    <3> QED BY <1>1, <3>1, <3>2
  <2>2. CASE n > 0
    <3>1. new # <<>> /\ Len(new) = n
      BY <1>3, <1>4, <2>2
    <3> TAKE q \in Processes
    <3>2. /\ HeadHolds(u, head[q], TRUE)
          /\ HeadHolds(u, new[n].chain, FALSE)
      BY <1>1, <1>3, <3>1, HeadsOfLongerFile
    <3>3. n # 0
      BY <2>2
    <3>4. CASE q = p
      <4>1. head'[q] = new[n].chain /\ bh[q] = FALSE
        BY <1>3, <1>4, <2>2, <3>3, <3>4
      <4> QED BY <3>2, <4>1
    <3>5. CASE q # p
      <4>1. head'[q] = head[q] /\ bh[q] = TRUE
        BY <1>4, <3>3, <3>5
      <4> QED BY <3>2, <4>1
    <3> QED BY <3>4, <3>5
  <2> QED BY <1>4, <2>1, <2>2
<1>7. bh \in [Processes -> BOOLEAN]
  BY <1>1
<1>8. CASE trail' = u /\ behind' = bh
  <2>1. \A q \in Processes : HeadHolds(trail', head'[q], behind'[q])
    BY <1>6, <1>8
  <2> QED BY <1>4, <1>5, <1>7, <1>8, <2>1 DEF ChainInv
<1>9. CASE /\ trail' = u \o <<>>
           /\ behind' = [q \in Processes |-> <<>> # <<>> \/ bh[q]]
  <2>1. trail' = u
    BY <1>5, <1>9, ConcatEmptySeq
  <2>2. behind' = bh
    BY <1>7, <1>9
  <2> QED BY <1>8, <2>1, <2>2
<1>10. CASE /\ trail' = u \o <<TornLine>>
            /\ behind' = [q \in Processes |-> <<TornLine>> # <<>> \/ bh[q]]
  <2>1. TornLine \in Lines /\ <<TornLine>> \in Seq(Lines)
    BY EmptySeq DEF TornLine, Lines
  <2>2. trail' = Append(u, TornLine)
    BY <1>5, <1>10, <2>1, AppendIsConcat
  <2> HIDE DEF u
  <2>3. /\ trail' \in Seq(Lines) /\ \A i \in DOMAIN trail' : Linked(trail', i)
    BY <1>5, <2>2, TornIsLinked
  <2>4. \A q \in Processes : HeadHolds(u, head'[q], bh[q]) /\ behind'[q] = TRUE
    BY <1>6, <1>10 DEF u
  <2>5. \A q \in Processes : HeadHolds(trail', head'[q], TRUE)
    <3> TAKE q \in Processes
    <3>1. InFile(u, head'[q])
      BY <2>4 DEF HeadHolds
    <3> QED BY <1>5, <1>10, <2>1, <3>1, HeadsOfLongerFile DEF u
  <2>6. \A q \in Processes : HeadHolds(trail', head'[q], behind'[q])
    BY <2>4, <2>5
  <2> QED BY <1>4, <1>10, <2>3, <2>6 DEF ChainInv
<1>11. CASE /\ trail' = u \o <<Flushed(p, n + 1)[n + 1]>>
            /\ behind' = [q \in Processes |-> <<Flushed(p, n + 1)[n + 1]>> # <<>> \/ bh[q]]
            /\ n < Len(buffer[p])
  <2> DEFINE more == Flushed(p, n + 1)
             v == trail \o more
  <2>1. n + 1 \in 0..Len(buffer[p])
    BY <1>1, <1>11
  <2>2. NextLines(trail, more, head[p], behind[p]) /\ more \in Seq(Lines) /\ Len(more) = n + 1
    BY <2>1, FlushedFollow
  <2>3. \A i \in 1..n : more[i] = new[i]
    BY <1>4 DEF Flushed, new
  <2> HIDE DEF more
  <2>4. v \in Seq(Lines) /\ \A i \in DOMAIN v : Linked(v, i)
    BY <1>1, <2>2, LinesAreLinked, ConcatProperties
  <2>5. trail' = v
    <3>1. /\ trail \in Seq(Lines) /\ new \in Seq(Lines) /\ more \in Seq(Lines) /\ n \in Nat
          /\ Len(new) = n /\ Len(more) = n + 1 /\ \A i \in 1..n : more[i] = new[i]
      BY <1>1, <1>3, <1>12, <2>2, <2>3
    <3>2. (trail \o new) \o <<more[Len(new) + 1]>> = trail \o more
      BY <3>1, ConcatLast
    <3> QED BY <1>11, <3>1, <3>2 DEF more
  <2>6. \A q \in Processes : behind'[q] = TRUE
    BY <1>11
  <2>7. \A q \in Processes : HeadHolds(trail', head'[q], TRUE)
    <3> TAKE q \in Processes
    <3>1. InFile(u, head'[q])
      BY <1>6 DEF HeadHolds
    <3>2. more[n + 1] \in Lines
      BY <1>4, <2>2
    <3>3. <<more[n + 1]>> \in Seq(Lines)
      BY <3>2
    <3> HIDE DEF u, v
    <3> QED BY <1>5, <1>11, <3>1, <3>3, HeadsOfLongerFile DEF more
  <2>8. \A q \in Processes : HeadHolds(trail', head'[q], behind'[q])
    BY <2>6, <2>7
  <2>9. behind' \in [Processes -> BOOLEAN]
    BY <1>11
  <2> QED BY <1>4, <2>4, <2>5, <2>8, <2>9 DEF ChainInv
<1> QED
  <2>1. CASE n = Len(buffer[p]) /\ trail' = u /\ behind' = bh
    BY <1>8, <2>1
  <2>2. CASE /\ n < Len(buffer[p])
             /\ \E tail \in {<<>>, <<TornLine>>, <<Flushed(p, n + 1)[n + 1]>>} :
                      /\ trail' = u \o tail
                      /\ behind' = [q \in Processes |-> tail # <<>> \/ bh[q]]
    BY <1>9, <1>10, <1>11, <2>2
  <2>3. [q \in Processes |-> bh[q]] = bh
    OBVIOUS
  <2> QED BY <1>2, <2>1, <2>2 DEF new

LEMMA DeathKeeps ==
    ASSUME AuditTypeOK, ChainInv, NEW p \in Processes,
           DiesIdle(p) \/ \E e \in Events : DiesWriting(p, e)
    PROVE  /\ trail' \in Seq(Lines) /\ head' \in [Processes -> Seq(Events)]
           /\ behind' \in [Processes -> BOOLEAN]
           /\ ChainInv'
<1>1. /\ trail \in Seq(Lines) /\ \A i \in DOMAIN trail : Linked(trail, i)
      /\ head \in [Processes -> Seq(Events)] /\ behind \in [Processes -> BOOLEAN]
      /\ \A q \in Processes : HeadHolds(trail, head[q], behind[q])
  BY DEF AuditTypeOK, ChainInv
<1>2. /\ trail' \in Seq(Lines) /\ \A i \in DOMAIN trail' : Linked(trail', i)
      /\ \A q \in Processes : HeadHolds(trail', head[q], behind[q] \/ trail' # trail)
  <2>1. CASE DiesIdle(p)
    BY <1>1, <2>1 DEF DiesIdle, HeadHolds
  <2>2. CASE \E e \in Events : DiesWriting(p, e)
    BY <2>2, RemainsAreLinked DEF DiesWriting
  <2> QED BY <2>1, <2>2
<1>3. /\ LastReadable' \in Seq(Events)
      /\ InFile(trail', LastReadable')
      /\ Readable' = trail' => LastReadable' = FileEnd(trail')
  <2>1. trail \in Seq(Lines) => /\ LastReadable \in Seq(Events)
                                /\ InFile(trail, LastReadable)
                                /\ Readable = trail => LastReadable = FileEnd(trail)
    BY HeadFromFile
  <2>2. (trail \in Seq(Lines) => /\ LastReadable \in Seq(Events)
                                 /\ InFile(trail, LastReadable)
                                 /\ Readable = trail => LastReadable = FileEnd(trail))'
    BY HeadFromFile, PTL
  <2> QED BY <1>2, <2>2
<1>4. /\ head' = [head EXCEPT ![p] = LastReadable']
      /\ \A q \in Processes : q # p => (~behind'[q] => ~behind[q] /\ trail' = trail)
      /\ ~behind'[p] => Readable' = trail'
      /\ behind' \in [Processes -> BOOLEAN]
  <2>1. CASE DiesIdle(p)
    <3>1. /\ trail' = trail /\ head' = [head EXCEPT ![p] = LastReadable]
          /\ behind' = [behind EXCEPT ![p] = Readable # trail]
      BY <2>1 DEF DiesIdle, HeadRead
    <3>2. LastReadable' = LastReadable /\ Readable' = Readable
      BY <3>1 DEF LastReadable, Readable, FirstTorn, SelectInSeq
    <3> QED BY <1>1, <3>1, <3>2
  <2>2. CASE \E e \in Events : DiesWriting(p, e)
    <3>1. /\ head' = [head EXCEPT ![p] = LastReadable']
          /\ behind' = [q \in Processes |-> IF q = p THEN Readable' # trail'
                                            ELSE behind[q] \/ trail' # trail]
      BY <2>2 DEF DiesWriting
    <3> QED BY <3>1
  <2> QED BY <2>1, <2>2
<1>5. \A q \in Processes : HeadHolds(trail', head'[q], behind'[q])
  <2> TAKE q \in Processes
  <2>1. CASE q = p
    <3>1. head'[q] = LastReadable'
      BY <1>1, <1>4, <2>1
    <3> QED BY <1>3, <1>4, <2>1, <3>1 DEF HeadHolds
  <2>2. CASE q # p
    <3>1. head'[q] = head[q]
      BY <1>1, <1>4, <2>2
    <3> QED BY <1>2, <1>4, <2>2, <3>1 DEF HeadHolds
  <2> QED BY <2>1, <2>2
<1>6. head' \in [Processes -> Seq(Events)]
  BY <1>1, <1>3, <1>4
<1> QED BY <1>2, <1>4, <1>5, <1>6 DEF ChainInv

\* Every step of the sink keeps its types and the links of the file.
LEMMA AuditNext ==
    AuditTypeOK /\ ChainInv /\ AuditStep => AuditTypeOK' /\ ChainInv'
<1> SUFFICES ASSUME AuditTypeOK, ChainInv, AuditStep
             PROVE  AuditTypeOK' /\ ChainInv'
  OBVIOUS
<1> DEFINE FileOK == /\ trail' \in Seq(Lines) /\ head' \in [Processes -> Seq(Events)]
                     /\ behind' \in [Processes -> BOOLEAN]
           RestOK == /\ available' \in [Processes -> BOOLEAN]
                     /\ buffer' \in [Processes -> Seq(Events)]
                     /\ \A p \in Processes : Len(buffer'[p]) <= BufferCapacity
                     /\ restoring' \in [Processes -> BOOLEAN]
                     /\ faults' \in 0..MaxFaults
                     /\ acked' \subseteq Events /\ lost' \subseteq Events
<1>1. /\ trail \in Seq(Lines) /\ head \in [Processes -> Seq(Events)]
      /\ behind \in [Processes -> BOOLEAN] /\ available \in [Processes -> BOOLEAN]
      /\ buffer \in [Processes -> Seq(Events)]
      /\ \A p \in Processes : buffer[p] \in Seq(Events) /\ Len(buffer[p]) <= BufferCapacity
      /\ restoring \in [Processes -> BOOLEAN]
      /\ faults \in 0..MaxFaults /\ acked \subseteq Events /\ lost \subseteq Events
      /\ MaxFaults \in Nat /\ BufferCapacity \in Nat
  BY SinksAreReal DEF AuditTypeOK
<1>2. ASSUME UNCHANGED <<trail, head, behind>> PROVE FileOK /\ ChainInv'
  BY <1>1, <1>2 DEF ChainInv
<1>3. FileOK /\ RestOK => AuditTypeOK'
  BY DEF AuditTypeOK
<1> SUFFICES FileOK /\ ChainInv' /\ RestOK
  BY <1>3
<1> HIDE DEF FileOK
<1>4. PICK p \in Processes :
        \/ HeadRead(p) /\ UNCHANGED <<trail, switches, buffer, faults, acked, lost>>
        \/ \E e \in Events, risk \in {"low", "high"}, outcome \in {"ok", "refused", "failed"} :
              AppendEvent(p, e, risk, outcome)
        \/ SwitchOff(p) \/ SwitchOn(p) \/ FlushBuffer(p)
        \/ Restarted(p) /\ (DiesIdle(p) \/ \E e \in Events : DiesWriting(p, e))
  BY DEF AuditStep
<1>5. CASE HeadRead(p) /\ UNCHANGED <<trail, switches, buffer, faults, acked, lost>>
  <2>1. FileOK /\ ChainInv'
    BY <1>5, DeathKeeps DEF DiesIdle, FileOK
  <2>2. RestOK
    BY <1>1, <1>5 DEF switches
  <2> QED BY <2>1, <2>2
<1>6. ASSUME NEW e \in Events, NEW risk \in {"low", "high"},
             NEW outcome \in {"ok", "refused", "failed"}, AppendEvent(p, e, risk, outcome)
      PROVE  FileOK /\ ChainInv' /\ RestOK
  <2>1. /\ acked' \subseteq Events /\ lost' = lost
        /\ available' = available /\ restoring' = restoring
    BY <1>1, <1>6 DEF AppendEvent, switches
  <2>2. CASE Written(p, e) /\ buffer' = buffer
    <3>1. FileOK /\ ChainInv' /\ faults' = faults
      BY <2>2, WrittenKeeps DEF FileOK
    <3> QED BY <1>1, <2>1, <2>2, <3>1
  <2>3. CASE WriteRaises(p, e) /\ buffer' = buffer
    <3>1. FileOK /\ ChainInv' /\ faults' \in 0..MaxFaults
      BY <2>3, RaisingKeeps DEF FileOK
    <3> QED BY <1>1, <2>1, <2>3, <3>1
  <2>4. CASE UNCHANGED <<trail, head, behind, faults, buffer>>
    BY <1>1, <1>2, <2>1, <2>4
  <2>5. CASE /\ ~Refuses(p, risk) /\ ~available[p]
             /\ buffer' = [buffer EXCEPT ![p] = Append(@, e)]
             /\ UNCHANGED <<trail, head, behind, faults>>
    <3>1. Len(buffer[p]) < BufferCapacity
      BY <1>1, <2>5 DEF Refuses
    <3>2. Append(buffer[p], e) \in Seq(Events) /\ Len(Append(buffer[p], e)) = Len(buffer[p]) + 1
      BY <1>1, AppendProperties
    <3>3. Len(Append(buffer[p], e)) <= BufferCapacity
      BY <1>1, <3>1, <3>2
    <3>4. \A q \in Processes : buffer'[q] \in {buffer[q], Append(buffer[p], e)}
      BY <1>1, <2>5
    <3>5. /\ buffer' \in [Processes -> Seq(Events)]
          /\ \A q \in Processes : Len(buffer'[q]) <= BufferCapacity
      <4>1. buffer' \in [Processes -> Seq(Events)]
        BY <1>1, <2>5, <3>2
      <4>2. \A q \in Processes : Len(buffer'[q]) <= BufferCapacity
        BY <1>1, <3>3, <3>4
      <4> QED BY <4>1, <4>2
    <3> QED BY <1>1, <1>2, <2>1, <2>5, <3>5
  <2> QED BY <1>6, <2>2, <2>3, <2>4, <2>5 DEF AppendEvent
<1>7. CASE SwitchOff(p) \/ SwitchOn(p)
  <2>1. UNCHANGED <<trail, head, behind, buffer, faults, acked, lost>>
    BY <1>7 DEF SwitchOff, SwitchOn
  <2>2. available' \in [Processes -> BOOLEAN] /\ restoring' \in [Processes -> BOOLEAN]
    BY <1>1, <1>7 DEF SwitchOff, SwitchOn
  <2> QED BY <1>1, <1>2, <2>1, <2>2
<1>8. CASE FlushBuffer(p)
  <2>1. FileOK /\ ChainInv' /\ faults' \in 0..MaxFaults
    BY <1>8, FlushKeeps DEF FileOK
  <2>2. PICK n \in 0..Len(buffer[p]) : buffer' = [buffer EXCEPT ![p] = StillWaiting(p, n)]
    BY <1>8 DEF FlushBuffer
  <2>3. UNCHANGED <<available, acked, lost>> /\ restoring' \in [Processes -> BOOLEAN]
    BY <1>1, <1>8 DEF FlushBuffer
  <2>4. StillWaiting(p, n) \in Seq(Events) /\ Len(StillWaiting(p, n)) <= BufferCapacity
    <3>1. /\ Len(buffer[p]) \in Nat /\ n \in Nat /\ n <= Len(buffer[p])
          /\ \A i \in (n + 1)..Len(buffer[p]) : buffer[p][i] \in Events
      BY <1>1
    <3>2. /\ StillWaiting(p, n) \in Seq(Events)
          /\ Len(StillWaiting(p, n)) = IF n + 1 <= Len(buffer[p])
                                       THEN Len(buffer[p]) - (n + 1) + 1 ELSE 0
      BY <3>1, SubSeqProperties DEF StillWaiting
    <3> QED BY <1>1, <3>1, <3>2
  <2>5. \A q \in Processes : buffer'[q] \in {buffer[q], StillWaiting(p, n)}
    BY <1>1, <2>2
  <2>6. /\ buffer' \in [Processes -> Seq(Events)]
        /\ \A q \in Processes : Len(buffer'[q]) <= BufferCapacity
    <3>1. buffer' \in [Processes -> Seq(Events)]
      BY <1>1, <2>2, <2>4
    <3>2. \A q \in Processes : Len(buffer'[q]) <= BufferCapacity
      BY <1>1, <2>4, <2>5
    <3> QED BY <3>1, <3>2
  <2> QED BY <1>1, <2>1, <2>3, <2>6
<1>9. CASE Restarted(p) /\ (DiesIdle(p) \/ \E e \in Events : DiesWriting(p, e))
  <2>1. FileOK /\ ChainInv'
    BY <1>9, DeathKeeps DEF FileOK
  <2>2. /\ faults < MaxFaults /\ faults' = faults + 1
        /\ available' = [available EXCEPT ![p] = TRUE]
        /\ restoring' = [restoring EXCEPT ![p] = FALSE]
        /\ buffer' = [buffer EXCEPT ![p] = <<>>]
        /\ lost' = lost \cup ToSet(buffer[p]) /\ acked' = acked
    BY <1>9 DEF Restarted
  <2>3. faults' \in 0..MaxFaults
    BY <1>1, <2>2
  <2>4. lost' \subseteq Events
    BY <1>1, <2>2 DEF ToSet
  <2>5. <<>> \in Seq(Events) /\ Len(<<>>) = 0
    BY EmptySeq
  <2>6. \A q \in Processes : buffer'[q] \in {buffer[q], <<>>}
    BY <1>1, <2>2
  <2>7. /\ buffer' \in [Processes -> Seq(Events)]
        /\ \A q \in Processes : Len(buffer'[q]) <= BufferCapacity
    <3>1. 0 <= BufferCapacity
      BY <1>1
    <3>2. buffer' \in [Processes -> Seq(Events)]
      BY <1>1, <2>2, <2>5
    <3>3. \A q \in Processes : Len(buffer'[q]) <= BufferCapacity
      BY <1>1, <2>5, <2>6, <3>1, Zenon
    <3> QED BY <3>2, <3>3
  <2> QED BY <1>1, <2>1, <2>2, <2>3, <2>4, <2>7
<1> QED BY <1>4, <1>5, <1>6, <1>7, <1>8, <1>9

LEMMA ChainIsTrail ==
    AuditTypeOK /\ ChainInv => TrailHolds
<1> SUFFICES ASSUME AuditTypeOK, ChainInv PROVE TrailHolds
  OBVIOUS
<1>1. trail \in Seq(Lines) /\ \A i \in DOMAIN trail : Linked(trail, i)
  BY DEF AuditTypeOK, ChainInv
<1>2. ASSUME VerifyChain.problem = "broken_link" PROVE trail[VerifyChain.at].behind
  <2>1. FirstTorn = 0 /\ BrokenLinks # {}
    BY <1>2 DEF VerifyChain
  <2>2. Readable = trail /\ Whole(trail, Len(trail))
    BY <1>1, <2>1, FirstTornIsFirst DEF Readable
  <2>3. BrokenLinks \subseteq Nat
    BY <1>1, <2>2 DEF BrokenLinks
  <2>4. \E n \in BrokenLinks : \A m \in BrokenLinks : n <= m
    BY <2>1, <2>3, LeastNatural
  <2>5. VerifyChain.at \in BrokenLinks
    BY <2>1, <2>4 DEF VerifyChain
  <2> DEFINE i == VerifyChain.at
  <2>6. i \in 1..Len(trail) /\ ~(Before(trail[i]) = IF i = 1 THEN <<>> ELSE trail[i - 1].chain)
    BY <1>1, <2>2, <2>5 DEF BrokenLinks, Follows
  <2> HIDE DEF i
  <2>7. Whole(trail, i) /\ Linked(trail, i)
    BY <1>1, <2>2, <2>6 DEF Whole
  <2>8. trail[i].behind
    BY <2>6, <2>7 DEF Linked
  <2> QED BY <2>8 DEF i
<1> QED BY <1>1, <1>2 DEF TrailHolds, Linked

-----------------------------------------------------------------------------
(* The requests keep their shape.                                           *)

\* A step of one request changes where it is, and nothing else of any request.
Moved(r, x) ==
    /\ req' \in [Requests -> Request]
    /\ req'[r].pc = x
    /\ \A q \in Requests :
          /\ q # r => req'[q] = req[q]
          /\ req'[q].on = req[q].on /\ req'[q].window = req[q].window
          /\ req'[q].row = req[q].row
          /\ req'[q].ends = req[q].ends /\ req'[q].over = req[q].over

LEMMA GoToMoves ==
    ASSUME req \in [Requests -> Request], NEW r \in Requests, NEW x \in Pcs, GoTo(r, x)
    PROVE  Moved(r, x)
<1>1. req' = [req EXCEPT ![r] = [req[r] EXCEPT !.pc = x]]
  BY DEF GoTo
<1>2. [req[r] EXCEPT !.pc = x] \in Request
  BY DEF Request
<1>3. req' \in [Requests -> Request] /\ req'[r].pc = x /\ \A q \in Requests : q # r => req'[q] = req[q]
  BY <1>1, <1>2 DEF Request
<1>4. /\ req'[r].on = req[r].on /\ req'[r].window = req[r].window
      /\ req'[r].row = req[r].row
      /\ req'[r].ends = req[r].ends /\ req'[r].over = req[r].over
  BY <1>1 DEF Request
<1> QED BY <1>3, <1>4 DEF Moved

\* Where a request is tells what it asks for.
LEMMA KindOfPc ==
    ASSUME Shapes, NEW r \in Requests
    PROVE  /\ req[r].pc \in {"register", "limited", "exchange", "declined", "readBack", "flush",
                             "project", "mark"} => KindOf[r] = "exchange" /\ r \in Exchanges
           /\ req[r].pc \in {"authenticate", "served", "denied"} => KindOf[r] = "call"
           /\ req[r].pc \in {"revoke", "revoked"} => KindOf[r] \in {"logout", "logoutAll"}
           /\ req[r].pc # "new" => req[r].on \in Processes
           /\ req[r] \in Request
  BY RequestsAreWellFormed DEF Shapes, PcsOf, Exchanges

\* The step of a request to a place its kind has keeps the requests in shape.
LEMMA MovedShape ==
    ASSUME Shapes, NEW r \in Requests, NEW x, x \in PcsOf(r), Moved(r, x), req[r].pc # "new"
    PROVE  /\ req' \in [Requests -> Request]
           /\ \A q \in Requests : /\ req'[q].pc \in PcsOf(q)
                                  /\ req'[q].pc # "new" => req'[q].on \in Processes
  BY DEF Shapes, Moved

LEMMA ArriveShape ==
    ASSUME Shapes, NEW r \in Requests, Arrive(r)
    PROVE  /\ req' \in [Requests -> Request]
           /\ req[r].pc = "new"
           /\ \A q \in Requests : q # r => req'[q] = req[q]
           /\ req'[r].pc = CASE KindOf[r] = "exchange" -> "register"
                             [] KindOf[r] = "call" -> "authenticate"
                             [] OTHER -> "revoke"
           /\ req'[r].ends = CASE KindOf[r] = "logout" -> {CookieOf[r]}
                               [] KindOf[r] = "logoutAll" -> {s \in Sessions : sessions[s] # None}
                               [] OTHER -> {}
           /\ req'[r].over = closed /\ req'[r].on \in Processes
           /\ req'[r].row = req[r].row
           /\ KindOf[r] # "exchange" => HasCookie(CookieOf[r]) /\ CookieOf[r] \in Sessions
<1> DEFINE to == CASE KindOf[r] = "exchange" -> "register"
                   [] KindOf[r] = "call" -> "authenticate"
                   [] OTHER -> "revoke"
           given == CASE KindOf[r] = "logout" -> {CookieOf[r]}
                      [] KindOf[r] = "logoutAll" -> {s \in Sessions : sessions[s] # None}
                      [] OTHER -> {}
<1>1. PICK p \in Serving : req' = [req EXCEPT ![r] =
          [@ EXCEPT !.on = p, !.window = now, !.pc = to, !.ends = given, !.over = closed]]
  BY DEF Arrive
<1>2. p \in Processes
  BY SinksAreReal DEF Serving
<1>3. /\ req \in [Requests -> Request] /\ now \in Windows /\ closed \subseteq Sessions
      /\ KindOf[r] # "exchange" => CookieOf[r] \in Sessions
      /\ KindOf[r] \in {"exchange", "logout", "logoutAll", "call"}
  BY RequestsAreWellFormed DEF Shapes
<1>4. to \in Pcs
  BY DEF Pcs
<1>5. given \in SUBSET Sessions
  BY <1>3
<1>6. req[r].pc = "new" /\ (KindOf[r] # "exchange" => HasCookie(CookieOf[r]))
  BY DEF Arrive, At
<1> HIDE DEF to, given
<1> DEFINE n == [req[r] EXCEPT !.on = p, !.window = now, !.pc = to, !.ends = given, !.over = closed]
<1>7. n \in Request /\ n.pc = to /\ n.ends = given /\ n.over = closed /\ n.on = p /\ n.row = req[r].row
  <2>1. req[r] \in Request
    BY <1>3
  <2>2. /\ n.pc = to /\ n.ends = given /\ n.over = closed /\ n.on = p /\ n.row = req[r].row
        /\ n.window = now
    BY <2>1 DEF Request
  <2>5. n \in Request
    BY <1>2, <1>3, <1>4, <1>5, <2>1 DEF Request
  <2> QED BY <2>2, <2>5
<1> HIDE DEF n
<1>8. req' = [req EXCEPT ![r] = n]
  BY <1>1 DEF n
<1>9. req' \in [Requests -> Request] /\ req'[r] = n /\ \A q \in Requests : q # r => req'[q] = req[q]
  BY <1>3, <1>7, <1>8
<1> QED BY <1>2, <1>3, <1>6, <1>7, <1>9 DEF to, given

LEMMA ShapesInit ==
    SignInit => Shapes
<1> SUFFICES ASSUME SignInit PROVE Shapes
  OBVIOUS
<1>1. 0 \in Windows /\ <<>> \in Seq(Row) /\ "new" \in Pcs
  BY RequestsAreWellFormed, EmptySeq DEF Windows, Pcs
<1>2. req \in [Requests -> Request]
  BY <1>1 DEF SignInit, Request
<1>3. \A r \in Requests : req[r].pc = "new" /\ "new" \in PcsOf(r)
  BY RequestsAreWellFormed DEF SignInit, PcsOf
<1>4. store \in {"postgres", "memory"}
  BY RequestsAreWellFormed DEF SignInit
<1>5. /\ sessions \in [Sessions -> {None, "live", "expired", "revoked"}]
      /\ invited \in [Invitations -> {"live", "expired"} \cup Exchanges]
      /\ outbox \in Seq(Row) /\ projector \in Requests \cup {None} /\ now \in Windows
      /\ counter \in [window : Windows, attempts : Nat]
      /\ admitted \in [Windows -> Nat] /\ rewound \in Nat /\ closed \subseteq Sessions
  BY <1>1 DEF SignInit
<1> QED BY <1>2, <1>3, <1>4, <1>5 DEF Shapes

\* The count of the limiter, and what it lets through.
LEMMA CountShape ==
    ASSUME Shapes, NEW r \in Requests, Register(r)
    PROVE  /\ counter' \in [window : Windows, attempts : Nat]
           /\ admitted' \in [Windows -> Nat] /\ rewound' \in Nat
           /\ \E x \in {"exchange", "limited"} : Moved(r, x)
           /\ req[r].pc = "register"
<1> DEFINE w == req[r].window
           count == IF store = "postgres" THEN CountForward(w) ELSE CountInMemory(w)
<1>1. /\ req[r].pc = "register" /\ req \in [Requests -> Request] /\ w \in Windows
      /\ counter \in [window : Windows, attempts : Nat]
      /\ admitted \in [Windows -> Nat] /\ rewound \in Nat
  BY KindOfPc DEF Register, At, Shapes, Request
<1>2. count \in [window : Windows, attempts : Nat]
  BY <1>1 DEF CountForward, CountInMemory
<1>3. /\ counter' = count
      /\ GoTo(r, IF count.attempts <= Limit THEN "exchange" ELSE "limited")
      /\ admitted' = IF count.attempts <= Limit
                     THEN [admitted EXCEPT ![count.window] = @ + 1] ELSE admitted
      /\ rewound' = IF count.window < counter.window THEN rewound + 1 ELSE rewound
  BY DEF Register
<1> HIDE DEF count, w
<1>4. \E x \in {"exchange", "limited"} : GoTo(r, x)
  BY <1>3
<1>5. \E x \in {"exchange", "limited"} : Moved(r, x)
  BY <1>1, <1>4, GoToMoves DEF Pcs
<1>6. admitted' \in [Windows -> Nat] /\ rewound' \in Nat
  BY <1>1, <1>2, <1>3
<1> QED BY <1>1, <1>2, <1>3, <1>5, <1>6

\* Where each of the other steps takes its request.
LEMMA StepsMove ==
    ASSUME Shapes, NEW r \in Requests
    PROVE  /\ Exchange(r) => /\ req[r].pc = "exchange"
                             /\ Moved(r, IF store = "postgres" THEN "readBack" ELSE "flush")
           /\ Decline(r) => req[r].pc = "exchange" /\ Moved(r, "declined")
           /\ ReadBack(r) => /\ req[r].pc = "readBack"
                             /\ Moved(r, IF sessions[r] = "live" THEN "flush" ELSE "error")
           /\ NothingPending(r) => req[r].pc = "flush" /\ Moved(r, "done")
           /\ Mark(r) => req[r].pc = "mark" /\ Moved(r, "flush")
           /\ Revoke(r) => /\ req[r].pc = "revoke"
                           /\ Moved(r, IF KindOf[r] = "logout" /\ ToRevoke(r) = {}
                                       THEN "done" ELSE "revoked")
           /\ Authenticate(r) => /\ req[r].pc = "authenticate"
                                 /\ Moved(r, IF sessions[CookieOf[r]] = "live"
                                             THEN "served" ELSE "denied")
           /\ Project(r) => /\ req[r].pc = "project"
                            /\ Moved(r, "mark") \/ Moved(r, "done")
<1>1. req \in [Requests -> Request]
  BY DEF Shapes
<1>2. /\ Exchange(r) => At(r, "exchange") /\ GoTo(r, IF store = "postgres" THEN "readBack" ELSE "flush")
      /\ Decline(r) => At(r, "exchange") /\ GoTo(r, "declined")
      /\ ReadBack(r) => At(r, "readBack") /\ GoTo(r, IF sessions[r] = "live" THEN "flush" ELSE "error")
      /\ NothingPending(r) => At(r, "flush") /\ GoTo(r, "done")
      /\ Mark(r) => At(r, "mark") /\ GoTo(r, "flush")
      /\ Revoke(r) => /\ At(r, "revoke")
                      /\ GoTo(r, IF KindOf[r] = "logout" /\ ToRevoke(r) = {} THEN "done" ELSE "revoked")
      /\ Authenticate(r) => /\ At(r, "authenticate")
                            /\ GoTo(r, IF sessions[CookieOf[r]] = "live" THEN "served" ELSE "denied")
      /\ Project(r) => /\ At(r, "project")
                       /\ GoTo(r, "mark") \/ GoTo(r, "done")
  BY DEF Exchange, Decline, ReadBack, NothingPending, Mark, Revoke, Authenticate, Project
<1>3. \A x \in Pcs : GoTo(r, x) => Moved(r, x)
  BY <1>1, GoToMoves
<1>4. {"readBack", "flush", "declined", "error", "done", "revoked", "served", "denied", "mark"} \subseteq Pcs
  BY DEF Pcs
<1> QED BY <1>2, <1>3, <1>4 DEF At

LEMMA TakeRowMoves ==
    ASSUME Shapes, NEW r \in Requests, TakeRow(r)
    PROVE  /\ req' \in [Requests -> Request]
           /\ req[r].pc = "flush" /\ req'[r].pc = "project"
           /\ Pending # {} /\ req'[r].row \in Pending
           /\ req'[r].on = req[r].on /\ req'[r].ends = req[r].ends /\ req'[r].over = req[r].over
           /\ \A q \in Requests : q # r => req'[q] = req[q]
<1>1. /\ req \in [Requests -> Request] /\ Pending # {} /\ outbox \in Seq(Row)
      /\ req[r].pc = "flush"
      /\ req' = [req EXCEPT ![r] = [@ EXCEPT !.pc = "project", !.row = Min(Pending)]]
  BY DEF TakeRow, Shapes, At
<1>2. Pending \in SUBSET Nat
  BY <1>1 DEF Pending
<1>3. \E n \in Pending : \A m \in Pending : n <= m
  BY <1>1, <1>2, LeastNatural
<1>4. Min(Pending) \in Pending /\ Min(Pending) \in Nat
  BY <1>2, <1>3 DEF Min
<1> HIDE DEF Min
<1>5. "project" \in Pcs
  BY DEF Pcs
<1> DEFINE n == [req[r] EXCEPT !.pc = "project", !.row = Min(Pending)]
<1>6. /\ n \in Request /\ n.pc = "project" /\ n.row = Min(Pending) /\ n.on = req[r].on
      /\ n.ends = req[r].ends /\ n.over = req[r].over
  BY <1>1, <1>4, <1>5 DEF Request
<1> HIDE DEF n
<1>7. req' = [req EXCEPT ![r] = n]
  BY <1>1 DEF n
<1> QED BY <1>1, <1>4, <1>6, <1>7

LEMMA TellMoves ==
    ASSUME Shapes, NEW r \in Requests, Tell(r)
    PROVE  /\ req[r].pc \in DOMAIN Tells /\ DOMAIN Tells = {"limited", "declined", "revoked", "denied"}
           /\ \E outcome \in {"ok", "refused", "failed"} :
                /\ AppendEvent(req[r].on, Says(r, req[r].pc), Tells[req[r].pc].risk, outcome)
                /\ Moved(r, IF outcome = "ok" THEN Tells[req[r].pc].then ELSE "error")
                /\ closed' = IF outcome = "ok" /\ req[r].pc = "revoked"
                             THEN closed \cup req[r].ends ELSE closed
           /\ Tells[req[r].pc].then = IF req[r].pc = "revoked" THEN "done" ELSE "refused"
           /\ Tells[req[r].pc].risk \in {"low", "high"}
           /\ Tells[req[r].pc].risk = "low" => req[r].pc \in {"limited", "revoked"}
<1>1. req[r].pc \in DOMAIN Tells /\ DOMAIN Tells = {"limited", "declined", "revoked", "denied"}
  BY DEF Tell, Tells
<1>2. /\ Tells[req[r].pc].then = IF req[r].pc = "revoked" THEN "done" ELSE "refused"
      /\ Tells[req[r].pc].risk \in {"low", "high"}
      /\ Tells[req[r].pc].risk = "low" => req[r].pc \in {"limited", "revoked"}
  BY <1>1 DEF Tells
<1>3. PICK outcome \in {"ok", "refused", "failed"} :
        /\ AppendEvent(req[r].on, Says(r, req[r].pc), Tells[req[r].pc].risk, outcome)
        /\ GoTo(r, IF outcome = "ok" THEN Tells[req[r].pc].then ELSE "error")
        /\ IF outcome = "ok" /\ req[r].pc = "revoked" THEN Answered(r) ELSE UNCHANGED closed
  BY DEF Tell
<1> DEFINE x == IF outcome = "ok" THEN Tells[req[r].pc].then ELSE "error"
<1>4. x \in Pcs
  BY <1>2 DEF Pcs
<1> HIDE DEF x
<1>5. Moved(r, x)
  BY <1>3, <1>4, GoToMoves DEF Shapes, x
<1>6. closed' = IF outcome = "ok" /\ req[r].pc = "revoked" THEN closed \cup req[r].ends ELSE closed
  BY <1>3 DEF Answered
<1> QED BY <1>1, <1>2, <1>3, <1>5, <1>6 DEF x

LEMMA CrashMoves ==
    ASSUME Shapes, Crash
    PROVE  /\ req' \in [Requests -> Request]
           /\ \A q \in Requests :
                /\ \/ req'[q] = req[q]
                   \/ /\ req'[q].pc = "error" /\ req[q].pc \notin {"done", "served", "refused", "error"}
                      /\ req[q].on \in Processes
                /\ req'[q].on = req[q].on /\ req'[q].row = req[q].row
                /\ req'[q].ends = req[q].ends /\ req'[q].over = req[q].over
           /\ projector' \in {projector, None}
           /\ \E p \in Processes :
                /\ Restarted(p)
                /\ \A q \in Requests : req'[q].pc = IF q \in Unfinished(p) THEN "error" ELSE req[q].pc
                /\ projector' = IF projector \in Unfinished(p) THEN None ELSE projector
                /\ \/ DiesIdle(p)
                   \/ \E r \in Unfinished(p) : \E e \in Writing(r) : DiesWriting(p, e)
<1>1. PICK p \in Processes :
          /\ Restarted(p)
          /\ \/ DiesIdle(p)
             \/ \E r \in Unfinished(p) : \E e \in Writing(r) : DiesWriting(p, e)
          /\ req' = [r \in Requests |->
                       IF r \in Unfinished(p) THEN [req[r] EXCEPT !.pc = "error"] ELSE req[r]]
          /\ projector' = IF projector \in Unfinished(p) THEN None ELSE projector
  BY DEF Crash
<1>2. req \in [Requests -> Request] /\ "error" \in Pcs
  BY DEF Shapes, Pcs
<1> DEFINE n(q) == [req[q] EXCEPT !.pc = "error"]
<1>3. \A q \in Requests : /\ n(q) \in Request /\ n(q).pc = "error" /\ n(q).on = req[q].on
                          /\ n(q).row = req[q].row
                          /\ n(q).ends = req[q].ends /\ n(q).over = req[q].over
  BY <1>2 DEF Request
<1>4. \A q \in Requests : req'[q] = IF q \in Unfinished(p) THEN n(q) ELSE req[q]
  BY <1>1
<1> HIDE DEF n
<1>5. \A q \in Requests : req'[q] \in Request
  BY <1>2, <1>3, <1>4
<1>6. req' \in [Requests -> Request]
  <2>1. req' = [r \in Requests |-> req'[r]]
    BY <1>1
  <2> QED BY <1>5, <2>1
<1>7. \A q \in Unfinished(p) : q \in Requests /\ req[q].on = p /\ req[q].pc \notin {"done", "served", "refused", "error"}
  BY DEF Unfinished
<1> QED BY <1>1, <1>3, <1>4, <1>6, <1>7

\* The parts of the shape that are not about requests.
StoreShape ==
    /\ store \in {"postgres", "memory"}
    /\ sessions \in [Sessions -> {None, "live", "expired", "revoked"}]
    /\ invited \in [Invitations -> {"live", "expired"} \cup Exchanges]
    /\ outbox \in Seq(Row)
    /\ projector \in Requests \cup {None}
    /\ now \in Windows
    /\ counter \in [window : Windows, attempts : Nat]
    /\ admitted \in [Windows -> Nat] /\ rewound \in Nat
    /\ closed \subseteq Sessions

RequestShape ==
    /\ req \in [Requests -> Request]
    /\ \A q \in Requests : /\ req[q].pc \in PcsOf(q)
                           /\ req[q].pc # "new" => req[q].on \in Processes

LEMMA PlacesOf ==
    ASSUME NEW r \in Requests
    PROVE  /\ {"new", "error"} \subseteq PcsOf(r)
           /\ KindOf[r] = "exchange" =>
                {"register", "limited", "exchange", "declined", "readBack", "flush",
                 "project", "mark", "done", "refused"} \subseteq PcsOf(r)
           /\ KindOf[r] = "call" => {"authenticate", "served", "denied", "refused"} \subseteq PcsOf(r)
           /\ KindOf[r] \in {"logout", "logoutAll"} => {"revoke", "revoked", "done"} \subseteq PcsOf(r)
           /\ KindOf[r] \in {"exchange", "call", "logout", "logoutAll"}
  BY RequestsAreWellFormed DEF PcsOf

LEMMA RequestShapeNext ==
    ASSUME Shapes, SignNext
    PROVE  RequestShape'
<1> SUFFICES /\ req' \in [Requests -> Request]
             /\ \A q \in Requests : /\ req'[q].pc \in PcsOf(q)
                                    /\ req'[q].pc # "new" => req'[q].on \in Processes
  BY DEF RequestShape
<1>1. ASSUME NEW r \in Requests, NEW x, x \in PcsOf(r), Moved(r, x), req[r].pc # "new"
      PROVE  RequestShape'
  BY <1>1, MovedShape DEF RequestShape
<1>2. ASSUME NEW r \in Requests, Arrive(r) PROVE RequestShape'
  <2>1. req' \in [Requests -> Request] /\ req'[r].on \in Processes /\ req'[r].pc \in PcsOf(r)
    BY <1>2, ArriveShape, PlacesOf
  <2>2. \A q \in Requests : q # r => req'[q] = req[q]
    BY <1>2, ArriveShape
  <2> QED BY <2>1, <2>2 DEF RequestShape, Shapes
<1>3. ASSUME NEW r \in Requests, Register(r) PROVE RequestShape'
  BY <1>1, <1>3, CountShape, KindOfPc, PlacesOf
<1>4. ASSUME NEW r \in Requests,
             Exchange(r) \/ Decline(r) \/ ReadBack(r) \/ NothingPending(r) \/ Mark(r) \/ Project(r)
      PROVE  RequestShape'
  <2>1. \E x \in {"readBack", "flush", "declined", "error", "done", "mark"} : Moved(r, x)
    BY <1>4, StepsMove
  <2>2. req[r].pc # "new" /\ KindOf[r] = "exchange"
    BY <1>4, StepsMove, KindOfPc
  <2>3. {"readBack", "flush", "declined", "error", "done", "mark"} \subseteq PcsOf(r)
    BY <2>2, PlacesOf
  <2> QED BY <1>1, <2>1, <2>2, <2>3
<1>5. ASSUME NEW r \in Requests, TakeRow(r) PROVE RequestShape'
  <2>1. /\ req' \in [Requests -> Request] /\ req[r].pc = "flush" /\ req'[r].pc = "project"
        /\ req'[r].on = req[r].on /\ \A q \in Requests : q # r => req'[q] = req[q]
    BY <1>5, TakeRowMoves
  <2>2. "project" \in PcsOf(r) /\ req[r].on \in Processes
    BY <2>1, KindOfPc, PlacesOf
  <2> QED BY <2>1, <2>2 DEF RequestShape, Shapes
<1>6. ASSUME NEW r \in Requests, Revoke(r) PROVE RequestShape'
  <2>1. req[r].pc # "new" /\ \E x \in {"done", "revoked"} : Moved(r, x)
    BY <1>6, StepsMove
  <2>2. {"done", "revoked"} \subseteq PcsOf(r)
    BY <1>6, StepsMove, KindOfPc, PlacesOf
  <2> QED BY <1>1, <2>1, <2>2
<1>7. ASSUME NEW r \in Requests, Authenticate(r) PROVE RequestShape'
  <2>1. req[r].pc # "new" /\ \E x \in {"served", "denied"} : Moved(r, x)
    BY <1>7, StepsMove
  <2>2. {"served", "denied"} \subseteq PcsOf(r)
    BY <1>7, StepsMove, KindOfPc, PlacesOf
  <2> QED BY <1>1, <2>1, <2>2
<1>8. ASSUME NEW r \in Requests, Tell(r) PROVE RequestShape'
  <2>1. \E x \in {IF req[r].pc = "revoked" THEN "done" ELSE "refused", "error"} : Moved(r, x)
    BY <1>8, TellMoves
  <2>2. req[r].pc \in {"limited", "declined", "revoked", "denied"}
    BY <1>8, TellMoves
  <2>3. {IF req[r].pc = "revoked" THEN "done" ELSE "refused", "error"} \subseteq PcsOf(r)
    BY <2>2, KindOfPc, PlacesOf
  <2> QED BY <1>1, <2>1, <2>2, <2>3
<1>9. CASE NextWindow \/ Expire \/ Switch
  <2>1. req' = req
    BY <1>9 DEF NextWindow, Expire, Switch
  <2> QED BY <2>1 DEF RequestShape, Shapes
<1>10. CASE Crash
  <2>1. req' \in [Requests -> Request]
    BY <1>10, CrashMoves
  <2>2. ASSUME NEW q \in Requests
        PROVE  req'[q].pc \in PcsOf(q) /\ (req'[q].pc # "new" => req'[q].on \in Processes)
    <3>1. \/ req'[q] = req[q]
          \/ req'[q].pc = "error" /\ req[q].on \in Processes /\ req'[q].on = req[q].on
      BY <1>10, CrashMoves
    <3>2. req[q].pc \in PcsOf(q) /\ (req[q].pc # "new" => req[q].on \in Processes)
      BY DEF Shapes
    <3> QED BY <3>1, <3>2, PlacesOf
  <2> QED BY <2>1, <2>2 DEF RequestShape
<1> QED BY <1>2, <1>3, <1>4, <1>5, <1>6, <1>7, <1>8, <1>9, <1>10 DEF SignNext, RequestShape

\* Marking a row changes nothing else of the outbox.
LEMMA MarkedRow ==
    ASSUME Shapes, NEW r \in Requests, Mark(r)
    PROVE  /\ outbox' \in Seq(Row) /\ Len(outbox') = Len(outbox)
           /\ \A k \in 1..Len(outbox) :
                /\ outbox'[k].event = outbox[k].event
                /\ k # req[r].row => outbox'[k] = outbox[k]
                /\ k = req[r].row => outbox'[k].projected
<1>1. /\ outbox \in Seq(Row)
      /\ outbox' = [outbox EXCEPT ![req[r].row] = [outbox[req[r].row] EXCEPT !.projected = TRUE]]
  BY DEF Mark, Shapes
<1> DEFINE n == req[r].row
           m == [outbox[n] EXCEPT !.projected = TRUE]
<1>2. CASE n \in 1..Len(outbox)
  <2>1. outbox[n] \in Row
    BY <1>1, <1>2
  <2>2. m \in Row /\ m.event = outbox[n].event /\ m.projected = TRUE
    BY <2>1 DEF Row
  <2> HIDE DEF m, n
  <2>3. outbox' = [outbox EXCEPT ![n] = m]
    BY <1>1 DEF m, n
  <2>4. /\ outbox' \in Seq(Row) /\ Len(outbox') = Len(outbox)
        /\ \A k \in 1..Len(outbox) : outbox'[k] = IF k = n THEN m ELSE outbox[k]
    <3>1. outbox \in Seq(Row) /\ m \in Row /\ n \in 1..Len(outbox)
      BY <1>1, <1>2, <2>2
    <3> QED BY <2>3, <3>1, ExceptSeq
  <2> QED BY <2>2, <2>4 DEF n
<1>3. CASE n \notin 1..Len(outbox)
  <2>1. outbox' = outbox
    BY <1>1, <1>3
  <2> QED BY <1>1, <1>3, <2>1
<1> QED BY <1>2, <1>3

LEMMA StoreShapeNext ==
    ASSUME Shapes, SignNext
    PROVE  StoreShape'
<1>1. /\ store \in {"postgres", "memory"}
      /\ sessions \in [Sessions -> {None, "live", "expired", "revoked"}]
      /\ invited \in [Invitations -> {"live", "expired"} \cup Exchanges]
      /\ outbox \in Seq(Row)
      /\ projector \in Requests \cup {None}
      /\ now \in Windows
      /\ counter \in [window : Windows, attempts : Nat]
      /\ admitted \in [Windows -> Nat] /\ rewound \in Nat
      /\ closed \subseteq Sessions
      /\ \A r \in Requests : req[r].ends \subseteq Sessions
  BY DEF Shapes, Request
<1>2. ASSUME UNCHANGED <<sessions, invited, outbox, now, counter, admitted, rewound, closed, store>>,
             projector' \in Requests \cup {None}
      PROVE  StoreShape'
  BY <1>1, <1>2 DEF StoreShape
<1>3. ASSUME NEW r \in Requests,
             \/ Arrive(r) \/ Decline(r) \/ ReadBack(r) \/ TakeRow(r) \/ NothingPending(r)
             \/ Project(r) \/ Authenticate(r)
      PROVE  StoreShape'
  <2>1. /\ UNCHANGED <<sessions, invited, outbox, now, counter, admitted, rewound, closed, store>>
        /\ projector' \in {projector, r, None}
    BY <1>3 DEF Arrive, Decline, ReadBack, TakeRow, NothingPending, Project, Authenticate
  <2> QED BY <1>1, <1>2, <2>1
<1>4. ASSUME NEW r \in Requests, Register(r) PROVE StoreShape'
  <2>1. UNCHANGED <<sessions, invited, outbox, now, closed, store, projector>>
    BY <1>4 DEF Register
  <2>2. /\ counter' \in [window : Windows, attempts : Nat]
        /\ admitted' \in [Windows -> Nat] /\ rewound' \in Nat
    BY <1>4, CountShape
  <2> QED BY <1>1, <2>1, <2>2 DEF StoreShape
<1>5. ASSUME NEW r \in Requests, Exchange(r) PROVE StoreShape'
  <2>1. /\ UNCHANGED <<now, closed, store, projector, counter, admitted, rewound>>
        /\ invited' = [invited EXCEPT ![TokenOf[r]] = r]
        /\ sessions' = [sessions EXCEPT ![r] = "live"]
        /\ outbox' = Append(outbox, [event |-> Says(r, "exchanged"), projected |-> FALSE])
    BY <1>5 DEF Exchange
  <2>2. r \in Exchanges
    BY <1>5, StepsMove, KindOfPc
  <2>3. [event |-> Says(r, "exchanged"), projected |-> FALSE] \in Row
    BY RequestsAreWellFormed DEF Row, Says, Sayings
  <2>4. invited' \in [Invitations -> {"live", "expired"} \cup Exchanges]
    BY <1>1, <2>1, <2>2
  <2>5. sessions' \in [Sessions -> {None, "live", "expired", "revoked"}]
    BY <1>1, <2>1
  <2>6. outbox' \in Seq(Row)
    BY <1>1, <2>1, <2>3, AppendProperties
  <2> QED BY <1>1, <2>1, <2>4, <2>5, <2>6 DEF StoreShape
<1>6. ASSUME NEW r \in Requests, Mark(r) PROVE StoreShape'
  <2>1. /\ UNCHANGED <<sessions, invited, now, counter, admitted, rewound, closed, store>>
        /\ outbox' = [outbox EXCEPT ![req[r].row].projected = TRUE]
        /\ projector' \in {None, r}
    BY <1>6 DEF Mark
  <2>2. outbox' \in Seq(Row)
    BY <1>6, MarkedRow
  <2> QED BY <1>1, <2>1, <2>2 DEF StoreShape
<1>7. ASSUME NEW r \in Requests, Revoke(r) PROVE StoreShape'
  <2>1. /\ UNCHANGED <<invited, outbox, projector, now, counter, admitted, rewound, store>>
        /\ sessions' = [s \in Sessions |-> IF s \in ToRevoke(r) THEN "revoked" ELSE sessions[s]]
        /\ closed' \in {closed, closed \cup req[r].ends}
    BY <1>7 DEF Revoke, Answered
  <2> QED BY <1>1, <2>1 DEF StoreShape
<1>8. ASSUME NEW r \in Requests, Tell(r) PROVE StoreShape'
  <2>1. UNCHANGED <<invited, outbox, projector, now, counter, admitted, rewound, store, sessions>>
    BY <1>8 DEF Tell
  <2>2. closed' \in {closed, closed \cup req[r].ends}
    BY <1>8, TellMoves
  <2> QED BY <1>1, <2>1, <2>2 DEF StoreShape
<1>9. CASE NextWindow
  <2>1. /\ UNCHANGED <<sessions, invited, outbox, projector, counter, admitted, rewound, closed, store>>
        /\ now < LastWindow /\ now' = now + 1
    BY <1>9 DEF NextWindow
  <2>2. now' \in Windows
    BY <1>1, <2>1, RequestsAreWellFormed DEF Windows
  <2> QED BY <1>1, <2>1, <2>2 DEF StoreShape
<1>10. CASE Expire
  <2>1. UNCHANGED <<outbox, projector, now, counter, admitted, rewound, closed, store>>
    BY <1>10 DEF Expire
  <2>2. /\ sessions' \in [Sessions -> {None, "live", "expired", "revoked"}]
        /\ invited' \in [Invitations -> {"live", "expired"} \cup Exchanges]
    BY <1>1, <1>10 DEF Expire
  <2> QED BY <1>1, <2>1, <2>2 DEF StoreShape
<1>11. CASE Switch
  <2>1. UNCHANGED <<sessions, invited, outbox, now, counter, admitted, rewound, closed, store, projector>>
    BY <1>11 DEF Switch
  <2> QED BY <1>1, <1>2, <2>1
<1>12. CASE Crash
  <2>1. UNCHANGED <<sessions, invited, outbox, now, counter, admitted, rewound, closed, store>>
    BY <1>12 DEF Crash
  <2>2. projector' \in {projector, None}
    BY <1>12, CrashMoves
  <2> QED BY <1>1, <1>2, <2>1, <2>2
<1> QED BY <1>3, <1>4, <1>5, <1>6, <1>7, <1>8, <1>9, <1>10, <1>11, <1>12 DEF SignNext

LEMMA ShapesNext ==
    Shapes /\ SignNext => Shapes'
  BY RequestShapeNext, StoreShapeNext DEF Shapes, RequestShape, StoreShape

-----------------------------------------------------------------------------
(* An invitation, its session and its event.                                *)

LEMMA ExchangingInit ==
    SignInit => Exchanging
<1> SUFFICES ASSUME SignInit PROVE Exchanging
  OBVIOUS
<1>1. /\ outbox = <<>> /\ \A r \in Requests : req[r].pc = "new"
      /\ \A i \in Invitations : invited[i] = "live"
      /\ \A s \in Sessions : sessions[s] = IF s = FirstSession THEN "live" ELSE None
  BY DEF SignInit
<1>2. FirstSession \in Sessions /\ FirstSession \notin Exchanges /\ "live" \notin Exchanges
  BY RequestsAreWellFormed DEF Sessions, Exchanges
<1>3. \A r \in Exchanges : r \in Sessions /\ TokenOf[r] \in Invitations /\ r # FirstSession
                           /\ r \in Requests
  BY <1>2, RequestsAreWellFormed DEF Sessions, Exchanges
<1>4. \A e : ~HasRow(e)
  BY <1>1 DEF HasRow
<1> QED BY <1>1, <1>2, <1>3, <1>4 DEF Exchanging, Granted, None

\* A step that creates no session and stages no event.
LEMMA ExchangingKept ==
    ASSUME Shapes, Exchanging,
           \A s \in Sessions : sessions'[s] = None <=> sessions[s] = None,
           \A i \in Invitations, r \in Exchanges : invited'[i] = r <=> invited[i] = r,
           DOMAIN outbox' = DOMAIN outbox,
           \A k \in DOMAIN outbox : outbox'[k].event = outbox[k].event,
           \A r \in Exchanges : /\ req'[r].pc \in Asking => sessions[r] = None
                                /\ req'[r].pc \in Granted => sessions[r] # None
    PROVE  Exchanging'
<1>1. \A e : HasRow(e)' <=> HasRow(e)
  BY DEF HasRow
<1>2. FirstSession \in Sessions /\ \A r \in Exchanges : r \in Sessions /\ TokenOf[r] \in Invitations
  BY RequestsAreWellFormed DEF Sessions, Exchanges
<1>3. sessions'[FirstSession] # None
  BY <1>2 DEF Exchanging
<1>4. \A r \in Exchanges :
          /\ sessions'[r] # None <=> invited'[TokenOf[r]] = r
          /\ sessions'[r] # None <=> HasRow(Says(r, "exchanged"))'
          /\ req'[r].pc \in Asking => sessions'[r] = None
          /\ req'[r].pc \in Granted => sessions'[r] # None
  <2> TAKE r \in Exchanges
  <2>1. /\ sessions[r] # None <=> invited[TokenOf[r]] = r
        /\ sessions[r] # None <=> HasRow(Says(r, "exchanged"))
    BY DEF Exchanging
  <2> QED BY <1>1, <1>2, <2>1
<1>5. /\ \A j, k \in DOMAIN outbox' : outbox'[j].event = outbox'[k].event => j = k
      /\ \A k \in DOMAIN outbox' : \E r \in Exchanges : outbox'[k].event = Says(r, "exchanged")
  BY DEF Exchanging
<1> QED BY <1>3, <1>4, <1>5 DEF Exchanging

\* The exchange itself.
LEMMA ExchangeKeeps ==
    ASSUME Shapes, Exchanging, NEW r \in Requests, Exchange(r)
    PROVE  Exchanging'
<1>1. /\ sessions \in [Sessions -> {None, "live", "expired", "revoked"}]
      /\ invited \in [Invitations -> {"live", "expired"} \cup Exchanges]
      /\ outbox \in Seq(Row)
  BY DEF Shapes
<1>2. /\ r \in Exchanges /\ req[r].pc = "exchange" /\ TokenOf[r] \in Invitations
      /\ invited[TokenOf[r]] = "live" /\ r # FirstSession /\ FirstSession \in Sessions
      /\ "live" \notin Exchanges /\ \A q \in Exchanges : q \in Sessions /\ TokenOf[q] \in Invitations
      /\ \A q \in Exchanges : q \in Requests
  BY StepsMove, KindOfPc, RequestsAreWellFormed DEF Exchange, Consumable, Exchanges, Sessions
<1> DEFINE new == [event |-> Says(r, "exchanged"), projected |-> FALSE]
<1>3. /\ sessions' = [sessions EXCEPT ![r] = "live"]
      /\ invited' = [invited EXCEPT ![TokenOf[r]] = r]
      /\ outbox' = Append(outbox, new)
  BY DEF Exchange
<1>4. /\ Moved(r, "readBack") \/ Moved(r, "flush")
  BY StepsMove
<1>5. new \in Row /\ new.event = Says(r, "exchanged")
  BY RequestsAreWellFormed DEF Row, Says, Sayings
<1> HIDE DEF new
<1> DEFINE n == Len(outbox)
<1>6. /\ DOMAIN outbox' = 1..(n + 1) /\ DOMAIN outbox = 1..n /\ n \in Nat
      /\ \A k \in 1..n : outbox'[k] = outbox[k]
      /\ outbox'[n + 1].event = Says(r, "exchanged")
  <2>1. /\ outbox' \in Seq(Row) /\ Len(outbox') = n + 1 /\ n \in Nat
        /\ \A k \in 1..n : outbox'[k] = outbox[k]
        /\ outbox'[n + 1] = new
    BY <1>1, <1>3, <1>5, AppendProperties
  <2> QED BY <1>1, <1>5, <2>1
<1> HIDE DEF n
<1>7. sessions[r] = None
  BY <1>2 DEF Exchanging, Asking
<1>8. \A e : HasRow(e)' <=> HasRow(e) \/ e = Says(r, "exchanged")
  BY <1>6 DEF HasRow
<1>9. ~HasRow(Says(r, "exchanged"))
  BY <1>2, <1>7 DEF Exchanging
<1>10. \A q \in Exchanges : q # r => Says(q, "exchanged") # Says(r, "exchanged")
  BY DEF Says
<1>11. ASSUME NEW q \in Exchanges
       PROVE  /\ sessions'[q] # None <=> invited'[TokenOf[q]] = q
              /\ sessions'[q] # None <=> HasRow(Says(q, "exchanged"))'
              /\ req'[q].pc \in Asking => sessions'[q] = None
              /\ req'[q].pc \in Granted => sessions'[q] # None
  <2>1. /\ sessions[q] # None <=> invited[TokenOf[q]] = q
        /\ sessions[q] # None <=> HasRow(Says(q, "exchanged"))
        /\ req[q].pc \in Asking => sessions[q] = None
        /\ req[q].pc \in Granted => sessions[q] # None
    BY DEF Exchanging
  <2>2. CASE q = r
    <3>1. sessions'[q] = "live" /\ invited'[TokenOf[q]] = q /\ "live" # None
      BY <1>1, <1>2, <1>3, <2>2 DEF None
    <3>2. req'[q].pc \notin Asking
      BY <1>4, <2>2 DEF Moved, Asking
    <3> QED BY <1>8, <2>2, <3>1, <3>2
  <2>3. CASE q # r
    <3>1. sessions'[q] = sessions[q] /\ req'[q] = req[q]
      BY <1>1, <1>2, <1>3, <1>4, <2>3 DEF Moved
    <3>2. invited'[TokenOf[q]] = q <=> invited[TokenOf[q]] = q
      BY <1>1, <1>2, <1>3, <2>3
    <3> QED BY <1>8, <1>10, <2>1, <2>3, <3>1, <3>2
  <2> QED BY <2>2, <2>3
<1>12. ASSUME NEW j \in DOMAIN outbox', NEW k \in DOMAIN outbox', outbox'[j].event = outbox'[k].event
       PROVE  j = k
  <2>1. \A i \in 1..n : outbox[i].event # Says(r, "exchanged")
    BY <1>6, <1>9 DEF HasRow
  <2>2. j \in 1..n \/ j = n + 1
    BY <1>6
  <2>3. k \in 1..n \/ k = n + 1
    BY <1>6
  <2> QED BY <1>6, <1>12, <2>1, <2>2, <2>3 DEF Exchanging
<1>13. \A k \in DOMAIN outbox' : \E q \in Exchanges : outbox'[k].event = Says(q, "exchanged")
  <2> TAKE k \in DOMAIN outbox'
  <2>1. k \in 1..n \/ k = n + 1
    BY <1>6
  <2> QED BY <1>2, <1>6, <2>1 DEF Exchanging
<1>14. sessions'[FirstSession] # None
  BY <1>1, <1>2, <1>3 DEF Exchanging
<1> QED BY <1>11, <1>12, <1>13, <1>14 DEF Exchanging

LEMMA ExchangingNext ==
    Shapes /\ Exchanging /\ SignNext => Exchanging'
<1> SUFFICES ASSUME Shapes, Exchanging, SignNext PROVE Exchanging'
  OBVIOUS
<1>1. \A r \in Exchanges : /\ r \in Requests /\ r \in Sessions /\ KindOf[r] = "exchange"
                           /\ req[r].pc \in Asking => sessions[r] = None
                           /\ req[r].pc \in Granted => sessions[r] # None
  BY DEF Exchanges, Exchanging, Sessions
<1>2. ASSUME UNCHANGED <<sessions, invited, outbox>>, NEW r \in Requests,
             \A q \in Requests : q # r => req'[q] = req[q],
             r \in Exchanges => /\ req'[r].pc \in Asking => req[r].pc \in Asking
                                /\ req'[r].pc \in Granted => req[r].pc \in Granted
      PROVE  Exchanging'
  <2>1. \A q \in Exchanges : /\ req'[q].pc \in Asking => sessions[q] = None
                             /\ req'[q].pc \in Granted => sessions[q] # None
    BY <1>1, <1>2
  <2> QED BY <1>2, <2>1, ExchangingKept
<1>3. ASSUME NEW r \in Requests, Arrive(r) PROVE Exchanging'
  <2>1. UNCHANGED <<sessions, invited, outbox>>
    BY <1>3 DEF Arrive
  <2>2. /\ \A q \in Requests : q # r => req'[q] = req[q]
        /\ req[r].pc = "new" /\ (KindOf[r] = "exchange" => req'[r].pc = "register")
    BY <1>3, ArriveShape
  <2> QED BY <1>1, <1>2, <2>1, <2>2 DEF Asking, Granted
<1>4. ASSUME NEW r \in Requests,
             Register(r) \/ Decline(r) \/ ReadBack(r) \/ NothingPending(r) \/ Project(r) \/ Authenticate(r)
      PROVE  Exchanging'
  <2>1. UNCHANGED <<sessions, invited, outbox>>
    BY <1>4 DEF Register, Decline, ReadBack, NothingPending, Project, Authenticate
  <2>2. PICK x : /\ Moved(r, x)
                 /\ \/ req[r].pc \in Asking \ {"new"} /\ x \in {"exchange", "limited", "declined"}
                    \/ req[r].pc \in Granted /\ x \in {"flush", "error", "done", "mark"}
                    \/ req[r].pc = "authenticate"
    BY <1>4, CountShape, StepsMove DEF Asking, Granted
  <2>3. \A q \in Requests : q # r => req'[q] = req[q]
    BY <2>2 DEF Moved
  <2>4. r \in Exchanges => req[r].pc # "authenticate"
    BY <1>1, KindOfPc
  <2>5. req'[r].pc = x
    BY <2>2 DEF Moved
  <2> QED BY <1>2, <2>1, <2>2, <2>3, <2>4, <2>5 DEF Asking, Granted
<1>5. ASSUME NEW r \in Requests, TakeRow(r) PROVE Exchanging'
  <2>1. UNCHANGED <<sessions, invited, outbox>>
    BY <1>5 DEF TakeRow
  <2> QED BY <1>2, <1>5, <2>1, TakeRowMoves DEF Asking, Granted
<1>6. ASSUME NEW r \in Requests, Tell(r) PROVE Exchanging'
  <2>1. UNCHANGED <<sessions, invited, outbox>>
    BY <1>6 DEF Tell
  <2>2. PICK x \in {IF req[r].pc = "revoked" THEN "done" ELSE "refused", "error"} : Moved(r, x)
    BY <1>6, TellMoves
  <2>3. req[r].pc \in {"limited", "declined", "revoked", "denied"}
    BY <1>6, TellMoves
  <2>4. r \in Exchanges => req[r].pc \in {"limited", "declined"}
    BY <1>1, <2>3, KindOfPc
  <2> QED BY <1>2, <2>1, <2>2, <2>4 DEF Asking, Granted, Moved
<1>7. ASSUME NEW r \in Requests, Mark(r) PROVE Exchanging'
  <2>1. UNCHANGED <<sessions, invited>> /\ req[r].pc = "mark" /\ Moved(r, "flush")
    BY <1>7, StepsMove DEF Mark
  <2>2. /\ DOMAIN outbox' = DOMAIN outbox
        /\ \A k \in DOMAIN outbox : outbox'[k].event = outbox[k].event
    BY <1>7, MarkedRow DEF Shapes
  <2>3. \A q \in Exchanges : /\ req'[q].pc \in Asking => sessions[q] = None
                             /\ req'[q].pc \in Granted => sessions[q] # None
    BY <1>1, <2>1 DEF Moved, Asking, Granted
  <2> QED BY <2>1, <2>2, <2>3, ExchangingKept
<1>8. ASSUME NEW r \in Requests, Revoke(r) PROVE Exchanging'
  <2>1. /\ UNCHANGED <<invited, outbox>> /\ req[r].pc = "revoke"
        /\ sessions' = [s \in Sessions |-> IF s \in ToRevoke(r) THEN "revoked" ELSE sessions[s]]
        /\ \E x : Moved(r, x)
    BY <1>8, StepsMove DEF Revoke
  <2>2. \A s \in Sessions : sessions'[s] = None <=> sessions[s] = None
    BY <2>1 DEF ToRevoke, AllLive, None
  <2>3. r \notin Exchanges
    BY <1>1, <2>1, KindOfPc
  <2>4. \A q \in Exchanges : /\ req'[q].pc \in Asking => sessions[q] = None
                             /\ req'[q].pc \in Granted => sessions[q] # None
    BY <1>1, <2>1, <2>3 DEF Moved
  <2> QED BY <2>1, <2>2, <2>4, ExchangingKept
<1>9. CASE Expire
  <2>1. UNCHANGED <<outbox, req>>
    BY <1>9 DEF Expire
  <2>2. \A s \in Sessions : sessions'[s] = None <=> sessions[s] = None
    BY <1>9 DEF Expire, Shapes, None
  <2>3. {"live", "expired"} \cap Exchanges = {}
    BY RequestsAreWellFormed DEF Exchanges
  <2>4. \A i \in Invitations, r \in Exchanges : invited'[i] = r <=> invited[i] = r
    BY <1>9, <2>3 DEF Expire, Shapes
  <2> QED BY <1>1, <2>1, <2>2, <2>4, ExchangingKept
<1>10. CASE NextWindow \/ Switch
  <2>1. UNCHANGED <<sessions, invited, outbox, req>>
    BY <1>10 DEF NextWindow, Switch
  <2> QED BY <1>1, <2>1, ExchangingKept
<1>11. CASE Crash
  <2>1. UNCHANGED <<sessions, invited, outbox>>
    BY <1>11 DEF Crash
  <2>2. \A q \in Requests : req'[q] = req[q] \/ req'[q].pc = "error"
    BY <1>11, CrashMoves
  <2>3. \A q \in Exchanges : /\ req'[q].pc \in Asking => sessions[q] = None
                             /\ req'[q].pc \in Granted => sessions[q] # None
    BY <1>1, <2>2 DEF Asking, Granted
  <2> QED BY <2>1, <2>3, ExchangingKept
<1> QED BY <1>3, <1>4, <1>5, <1>6, <1>7, <1>8, <1>9, <1>10, <1>11, ExchangeKeeps DEF SignNext

-----------------------------------------------------------------------------
(* What a logout ended stays ended.                                         *)

LEMMA SessionsAge ==
    ASSUME Shapes, Exchanging, SignNext
    PROVE  \A s \in Sessions : /\ sessions[s] # None => sessions'[s] # None
                               /\ Over(s) => Over(s)'
<1>1. sessions \in [Sessions -> {None, "live", "expired", "revoked"}]
  BY DEF Shapes
<1>2. CASE sessions' = sessions
  BY <1>2 DEF Over
<1>3. ASSUME NEW r \in Requests, Exchange(r)
      PROVE  \A s \in Sessions : /\ sessions[s] # None => sessions'[s] # None
                                 /\ Over(s) => Over(s)'
  <2>1. r \in Exchanges /\ req[r].pc = "exchange"
    BY <1>3, StepsMove, KindOfPc
  <2>2. sessions[r] = None
    BY <2>1 DEF Exchanging, Asking
  <2>3. sessions' = [sessions EXCEPT ![r] = "live"]
    BY <1>3 DEF Exchange
  <2> QED BY <1>1, <2>2, <2>3 DEF Over, None
<1>4. ASSUME NEW r \in Requests, Revoke(r)
      PROVE  \A s \in Sessions : /\ sessions[s] # None => sessions'[s] # None
                                 /\ Over(s) => Over(s)'
  <2>1. sessions' = [s \in Sessions |-> IF s \in ToRevoke(r) THEN "revoked" ELSE sessions[s]]
    BY <1>4 DEF Revoke
  <2> QED BY <2>1 DEF Over, None
<1>5. CASE Expire
  BY <1>1, <1>5 DEF Expire, Over, None
<1>6. SignNext => \/ sessions' = sessions
                  \/ (\E r \in Requests : Exchange(r) \/ Revoke(r))
                  \/ Expire
  BY DEF SignNext, Arrive, Register, Decline, ReadBack, TakeRow, NothingPending, Project, Mark,
         Authenticate, Tell, NextWindow, Switch, Crash
<1> QED BY <1>2, <1>3, <1>4, <1>5, <1>6

LEMMA EndingInit ==
    SignInit => Ending
  BY RequestsAreWellFormed DEF SignInit, Ending, Over

\* A step that ends nothing and serves no call.
LEMMA EndingKept ==
    ASSUME Shapes, Exchanging, Ending, SignNext, closed' = closed,
           \A r \in Requests : /\ req'[r].ends = req[r].ends /\ req'[r].over = req[r].over
                               /\ req'[r].pc = "revoked" => req[r].pc = "revoked"
                               /\ req'[r].pc = "served" => req[r].pc = "served"
    PROVE  Ending'
<1>1. /\ closed \subseteq Sessions /\ \A r \in Requests : req[r].ends \subseteq Sessions
  BY DEF Shapes, Request
<1>2. \A s \in Sessions : /\ sessions[s] # None => sessions'[s] # None
                          /\ Over(s) => Over(s)'
  BY SessionsAge
<1>3. \A s \in closed' : Over(s)'
  BY <1>1, <1>2 DEF Ending
<1>4. ASSUME NEW r \in Requests
      PROVE  /\ \A s \in req'[r].ends : sessions'[s] # None
             /\ req'[r].pc = "revoked" => \A s \in req'[r].ends : Over(s)'
             /\ req'[r].over \subseteq closed'
             /\ KindOf[r] = "logout" => req'[r].ends \subseteq {CookieOf[r]}
             /\ KindOf[r] = "call" /\ req'[r].pc = "served" => CookieOf[r] \notin req'[r].over
  BY <1>1, <1>2 DEF Ending
<1> QED BY <1>3, <1>4 DEF Ending

LEMMA EndingNext ==
    Shapes /\ Exchanging /\ Ending /\ SignNext => Ending'
<1> SUFFICES ASSUME Shapes, Exchanging, Ending, SignNext PROVE Ending'
  OBVIOUS
<1>1. /\ sessions \in [Sessions -> {None, "live", "expired", "revoked"}]
      /\ closed \subseteq Sessions
      /\ \A r \in Requests : req[r].ends \subseteq Sessions /\ req[r] \in Request
  BY DEF Shapes, Request
<1>2. \A s \in Sessions : /\ sessions[s] # None => sessions'[s] # None
                          /\ Over(s) => Over(s)'
  BY SessionsAge
<1>3. /\ \A s \in closed : Over(s)
      /\ \A r \in Requests :
          /\ \A s \in req[r].ends : sessions[s] # None
          /\ req[r].pc = "revoked" => \A s \in req[r].ends : Over(s)
          /\ req[r].over \subseteq closed
          /\ KindOf[r] = "logout" => req[r].ends \subseteq {CookieOf[r]}
          /\ KindOf[r] = "call" /\ req[r].pc = "served" => CookieOf[r] \notin req[r].over
  BY DEF Ending
<1> DEFINE Fine(r) == /\ \A s \in req'[r].ends : sessions'[s] # None
                      /\ req'[r].pc = "revoked" => \A s \in req'[r].ends : Over(s)'
                      /\ req'[r].over \subseteq closed'
                      /\ KindOf[r] = "logout" => req'[r].ends \subseteq {CookieOf[r]}
                      /\ KindOf[r] = "call" /\ req'[r].pc = "served" => CookieOf[r] \notin req'[r].over
<1>4. ASSUME closed \subseteq closed', NEW q \in Requests, req'[q] = req[q]
      PROVE  Fine(q)
  BY <1>1, <1>2, <1>3, <1>4
<1>5. ASSUME \A s \in closed' : Over(s)', \A q \in Requests : Fine(q) PROVE Ending'
  BY <1>5 DEF Ending
<1> HIDE DEF Fine
<1>6. ASSUME NEW r \in Requests, Arrive(r) PROVE Ending'
  <2>1. sessions' = sessions /\ closed' = closed
    BY <1>6 DEF Arrive
  <2>2. /\ \A q \in Requests : q # r => req'[q] = req[q]
        /\ req'[r].pc \notin {"revoked", "served"}
        /\ req'[r].ends = CASE KindOf[r] = "logout" -> {CookieOf[r]}
                            [] KindOf[r] = "logoutAll" -> {s \in Sessions : sessions[s] # None}
                            [] OTHER -> {}
        /\ req'[r].over = closed
        /\ KindOf[r] # "exchange" => HasCookie(CookieOf[r])
    BY <1>6, ArriveShape
  <2>3. KindOf[r] \in {"exchange", "logout", "logoutAll", "call"}
    BY PlacesOf
  <2>4. KindOf[r] = "logout" => sessions[CookieOf[r]] # None
    BY <2>2 DEF HasCookie, Exchanging, At, Granted
  <2>5. \A s \in req'[r].ends : sessions'[s] # None
    BY <2>1, <2>2, <2>3, <2>4
  <2>6. Fine(r)
    BY <2>1, <2>2, <2>5 DEF Fine
  <2> QED BY <1>2, <1>3, <1>4, <1>5, <2>1, <2>2, <2>6, <1>1
<1>7. ASSUME NEW r \in Requests, Revoke(r) PROVE Ending'
  <2>1. /\ req[r].pc = "revoke"
        /\ Moved(r, IF KindOf[r] = "logout" /\ ToRevoke(r) = {} THEN "done" ELSE "revoked")
        /\ KindOf[r] \in {"logout", "logoutAll"}
    BY <1>7, StepsMove, KindOfPc
  <2>2. /\ sessions' = [s \in Sessions |-> IF s \in ToRevoke(r) THEN "revoked" ELSE sessions[s]]
        /\ closed' = IF KindOf[r] = "logout" /\ ToRevoke(r) = {} THEN closed \cup req[r].ends ELSE closed
    BY <1>7 DEF Revoke, Answered
  <2>3. \A s \in req[r].ends : Over(s)'
    <3> TAKE s \in req[r].ends
    <3>1. s \in Sessions /\ sessions[s] \in {"live", "expired", "revoked"}
      BY <1>1, <1>3
    <3>2. sessions[s] = "live" => s \in ToRevoke(r)
      BY <1>3, <2>1, <3>1 DEF ToRevoke, AllLive
    <3> QED BY <2>2, <3>1, <3>2 DEF Over
  <2>4. \A s \in closed' : Over(s)'
    BY <1>1, <1>2, <1>3, <2>2, <2>3
  <2>5. closed \subseteq closed'
    BY <2>2
  <2>6. Fine(r)
    <3>1. req'[r].ends = req[r].ends /\ req'[r].over = req[r].over /\ req'[r].pc \in {"done", "revoked"}
      BY <2>1 DEF Moved
    <3> QED BY <1>1, <1>2, <1>3, <2>3, <2>5, <3>1 DEF Fine
  <2>7. \A q \in Requests : q # r => req'[q] = req[q]
    BY <2>1 DEF Moved
  <2> QED BY <1>4, <1>5, <2>4, <2>5, <2>6, <2>7
<1>8. ASSUME NEW r \in Requests, Authenticate(r) PROVE Ending'
  <2>1. /\ Moved(r, IF sessions[CookieOf[r]] = "live" THEN "served" ELSE "denied")
        /\ sessions' = sessions /\ closed' = closed
    BY <1>8, StepsMove DEF Authenticate
  <2>2. req'[r].ends = req[r].ends /\ req'[r].over = req[r].over
    BY <2>1 DEF Moved
  <2>3. req'[r].pc = "served" => sessions[CookieOf[r]] = "live"
    BY <2>1 DEF Moved
  <2>4. req'[r].pc # "revoked"
    BY <2>1 DEF Moved
  <2>5. req'[r].pc = "served" => CookieOf[r] \notin req[r].over
    BY <1>3, <2>3 DEF Over
  <2>6. Fine(r)
    BY <1>3, <2>1, <2>2, <2>4, <2>5 DEF Fine
  <2>7. \A q \in Requests : q # r => req'[q] = req[q]
    BY <2>1 DEF Moved
  <2> QED BY <1>1, <1>2, <1>3, <1>4, <1>5, <2>1, <2>6, <2>7
<1>9. ASSUME NEW r \in Requests, Tell(r) PROVE Ending'
  <2>1. PICK x \in {"done", "refused", "error"} : Moved(r, x)
    BY <1>9, TellMoves
  <2>2. \/ closed' = closed
        \/ req[r].pc = "revoked" /\ closed' = closed \cup req[r].ends
    BY <1>9, TellMoves
  <2>3. sessions' = sessions
    BY <1>9 DEF Tell
  <2>4. \A s \in closed' : Over(s)'
    BY <1>1, <1>2, <1>3, <2>2
  <2>5. closed \subseteq closed'
    BY <2>2
  <2>6. Fine(r)
    BY <1>3, <2>1, <2>3, <2>5 DEF Fine, Moved
  <2>7. \A q \in Requests : q # r => req'[q] = req[q]
    BY <2>1 DEF Moved
  <2> QED BY <1>4, <1>5, <2>4, <2>5, <2>6, <2>7
<1>10. ASSUME NEW r \in Requests, NEW x \in Pcs \ {"revoked", "served"}, Moved(r, x), closed' = closed
       PROVE  Ending'
  BY <1>10, EndingKept DEF Moved
<1>11. ASSUME NEW r \in Requests,
              \/ Register(r) \/ Exchange(r) \/ Decline(r) \/ ReadBack(r) \/ NothingPending(r)
              \/ Project(r) \/ Mark(r)
       PROVE  Ending'
  <2>1. closed' = closed
    BY <1>11 DEF Register, Exchange, Decline, ReadBack, NothingPending, Project, Mark
  <2>2. \E x \in Pcs \ {"revoked", "served"} : Moved(r, x)
    BY <1>11, CountShape, StepsMove DEF Pcs
  <2> QED BY <1>10, <2>1, <2>2
<1>12. ASSUME NEW r \in Requests, TakeRow(r) PROVE Ending'
  <2>1. closed' = closed
    BY <1>12 DEF TakeRow
  <2> QED BY <1>12, <2>1, TakeRowMoves, EndingKept
<1>13. CASE NextWindow \/ Expire \/ Switch
  <2>1. closed' = closed /\ req' = req
    BY <1>13 DEF NextWindow, Expire, Switch
  <2> QED BY <2>1, EndingKept
<1>14. CASE Crash
  <2>1. closed' = closed
    BY <1>14 DEF Crash
  <2>2. \A q \in Requests : /\ req'[q] = req[q] \/ req'[q].pc = "error"
                            /\ req'[q].ends = req[q].ends /\ req'[q].over = req[q].over
    BY <1>14, CrashMoves
  <2> QED BY <2>1, <2>2, EndingKept
<1> QED BY <1>6, <1>7, <1>8, <1>9, <1>11, <1>12, <1>13, <1>14 DEF SignNext

-----------------------------------------------------------------------------
(* The count of the limiter.                                                *)

LEMMA CountingInit ==
    SignInit => Counting
<1> SUFFICES ASSUME SignInit PROVE Counting
  OBVIOUS
<1>1. /\ counter.window = 0 /\ counter.attempts = 0 /\ rewound = 0 /\ Limit \in Nat
      /\ \A w \in Windows : admitted[w] = 0 /\ w \in Nat
      /\ 0 \in Windows
  BY RequestsAreWellFormed DEF SignInit, Windows
<1>2. Limit * rewound = 0 /\ 0 <= Limit
  BY <1>1
<1> QED BY <1>1, <1>2 DEF Counting

LEMMA CountingNext ==
    Shapes /\ Counting /\ SignNext => Counting'
<1> SUFFICES ASSUME Shapes, Counting, SignNext PROVE Counting'
  OBVIOUS
<1>1. ASSUME UNCHANGED <<counter, admitted, rewound, store>> PROVE Counting'
  BY <1>1 DEF Counting
<1>2. ASSUME NEW r \in Requests, Register(r) PROVE Counting'
  <2> DEFINE h == counter.window
             a == counter.attempts
             w == req[r].window
             h2 == counter'.window
             a2 == counter'.attempts
             L == Limit * rewound
             L2 == Limit * rewound'
             Cap(n) == IF n <= Limit THEN n ELSE Limit
  <2>1. /\ h \in Nat /\ a \in Nat /\ w \in Nat /\ h \in Windows /\ w \in Windows
        /\ counter = [window |-> h, attempts |-> a]
        /\ Limit \in Nat /\ rewound \in Nat /\ Windows \subseteq Nat
        /\ admitted \in [Windows -> Nat]
    BY <1>2, KindOfPc, RequestsAreWellFormed DEF Shapes, Windows, Request
  <2>2. /\ counter' = IF store = "postgres" THEN CountForward(w) ELSE CountInMemory(w)
        /\ admitted' = IF a2 <= Limit THEN [admitted EXCEPT ![h2] = @ + 1] ELSE admitted
        /\ rewound' = IF h2 < h THEN rewound + 1 ELSE rewound
        /\ store' = store
    BY <1>2 DEF Register
  <2>3. \/ h2 = w /\ a2 = 1 /\ w # h
        \/ h2 = h /\ a2 = a + 1
    BY <2>1, <2>2 DEF CountForward, CountInMemory
  <2>4. store = "postgres" => h2 >= h
    BY <2>1, <2>2 DEF CountForward
  <2>5. h2 \in Windows /\ a2 \in Nat /\ h2 \in Nat /\ a2 >= 1
    BY <2>1, <2>3
  <2>6. L \in Nat /\ L2 = IF h2 < h THEN L + Limit ELSE L
    <3>1. Limit * (rewound + 1) = Limit * rewound + Limit /\ Limit * rewound \in Nat
      BY <2>1
    <3> QED BY <2>2, <3>1
  <2>7. /\ \A v \in Windows : /\ v > h => admitted[v] <= L
                              /\ v < h => admitted[v] <= L + Limit
        /\ admitted[h] <= L + Cap(a)
        /\ store = "postgres" => rewound = 0
    BY DEF Counting
  <2>8. \A v \in Windows : admitted'[v] = IF v = h2 /\ a2 <= Limit THEN admitted[v] + 1 ELSE admitted[v]
    BY <2>1, <2>2, <2>5
  <2>9. store' = "postgres" => rewound' = 0
    BY <2>1, <2>2, <2>4, <2>5, <2>7
  <2> HIDE DEF L, L2, h, a, w, h2, a2
  <2>10. ASSUME NEW v \in Windows
         PROVE  /\ v > h2 => admitted'[v] <= L2
                /\ v < h2 => admitted'[v] <= L2 + Limit
    <3>1. v \in Nat /\ admitted[v] \in Nat
      BY <2>1
    <3>2. v # h2 => admitted'[v] = admitted[v]
      BY <2>8
    <3>3. admitted[v] <= L + Limit
      BY <2>1, <2>6, <2>7, <3>1
    <3>4. v > h => admitted[v] <= L
      BY <2>7
    <3>5. CASE h2 < h
      BY <2>1, <2>5, <2>6, <3>1, <3>2, <3>3, <3>5
    <3>6. CASE ~(h2 < h)
      BY <2>1, <2>5, <2>6, <3>1, <3>2, <3>3, <3>4, <3>6
    <3> QED BY <3>5, <3>6
  <2>11. admitted'[h2] <= L2 + Cap(a2)
    <3>1. admitted[h2] \in Nat
      BY <2>1, <2>5
    <3>2. admitted'[h2] = IF a2 <= Limit THEN admitted[h2] + 1 ELSE admitted[h2]
      BY <2>5, <2>8
    <3>3. CASE h2 = w /\ a2 = 1 /\ w # h
      <4>1. CASE h2 < h
        BY <2>1, <2>5, <2>6, <2>7, <3>1, <3>2, <3>3, <4>1
      <4>2. CASE h2 > h
        BY <2>1, <2>5, <2>6, <2>7, <3>1, <3>2, <3>3, <4>2
      <4> QED BY <2>1, <2>5, <3>3, <4>1, <4>2
    <3>4. CASE h2 = h /\ a2 = a + 1
      BY <2>1, <2>5, <2>6, <2>7, <3>1, <3>2, <3>4
    <3> QED BY <2>3, <3>3, <3>4
  <2> QED BY <2>9, <2>10, <2>11 DEF Counting, L, L2, h, a, h2, a2
<1>3. SignNext => UNCHANGED <<counter, admitted, rewound, store>> \/ \E r \in Requests : Register(r)
  BY DEF SignNext, Arrive, Exchange, Decline, ReadBack, TakeRow, NothingPending, Project, Mark,
         Revoke, Authenticate, Tell, NextWindow, Expire, Switch, Crash
<1> QED BY <1>1, <1>2, <1>3

-----------------------------------------------------------------------------
(* How often the file says something.                                       *)

Carries(line, e) == ~line.torn /\ Last(line.chain) = e

LEMMA RecordsAre ==
    ASSUME trail \in Seq(Lines)
    PROVE  /\ \A e : RecordsOf(e) = {i \in DOMAIN trail : Carries(trail[i], e)}
           /\ \A e : IsFiniteSet(RecordsOf(e)) /\ Times(e) \in Nat
           /\ \A e : e \in Recorded <=> \E i \in DOMAIN trail : Carries(trail[i], e)
           /\ \A e : e \in Recorded <=> Times(e) # 0
<1>1. \A e : RecordsOf(e) = {i \in DOMAIN trail : Carries(trail[i], e)}
  BY DEF RecordsOf, Carries
<1>2. \A e : IsFiniteSet(RecordsOf(e)) /\ Times(e) \in Nat /\ (RecordsOf(e) = {} <=> Times(e) = 0)
  <2> TAKE e
  <2>1. IsFiniteSet(1..Len(trail))
    BY FS_Interval
  <2>2. RecordsOf(e) \subseteq 1..Len(trail)
    BY <1>1
  <2>3. IsFiniteSet(RecordsOf(e))
    BY <2>1, <2>2, FS_Subset
  <2> QED BY <2>3, FS_CardinalityType, FS_EmptySet DEF Times
<1>3. \A e : e \in Recorded <=> \E i \in DOMAIN trail : Carries(trail[i], e)
  BY DEF Recorded, Carries, ToSet
<1> QED BY <1>1, <1>2, <1>3

\* The file says e once more at most, and nothing else more often.
Adds(S) ==
    /\ trail' \in Seq(Lines)
    /\ \A e : /\ Times(e)' \in Nat
              /\ e \notin S => Times(e)' = Times(e)
              /\ Times(e)' <= Times(e) + 1
    /\ Recorded \subseteq Recorded'

LEMMA RecordsPrimed ==
    ASSUME trail' \in Seq(Lines)
    PROVE  /\ \A e : RecordsOf(e)' = {i \in DOMAIN trail' : Carries(trail'[i], e)}
           /\ \A e : IsFiniteSet(RecordsOf(e)') /\ Times(e)' \in Nat
           /\ \A e : e \in Recorded' <=> \E i \in DOMAIN trail' : Carries(trail'[i], e)
           /\ \A e : e \in Recorded' <=> Times(e)' # 0
<1>1. (trail \in Seq(Lines) =>
           /\ \A e : RecordsOf(e) = {i \in DOMAIN trail : Carries(trail[i], e)}
           /\ \A e : IsFiniteSet(RecordsOf(e)) /\ Times(e) \in Nat
           /\ \A e : e \in Recorded <=> \E i \in DOMAIN trail : Carries(trail[i], e)
           /\ \A e : e \in Recorded <=> Times(e) # 0)'
  BY RecordsAre, PTL
<1> QED BY <1>1

LEMMA NothingAdded ==
    ASSUME trail \in Seq(Lines), trail' = trail
    PROVE  Adds({}) /\ \A e : Times(e)' = Times(e)
<1>1. \A e : Times(e)' = Times(e)
  BY DEF Times, RecordsOf
<1>2. Recorded' = Recorded
  BY DEF Recorded
<1> QED BY <1>1, <1>2, RecordsAre DEF Adds

\* Lines that say different things.
LEMMA LinesAdd ==
    ASSUME trail \in Seq(Lines), NEW new \in Seq(Lines), trail' = trail \o new, NEW S,
           \A k \in DOMAIN new : ~new[k].torn => Last(new[k].chain) \in S,
           \A j, k \in DOMAIN new :
              ~new[j].torn /\ ~new[k].torn /\ Last(new[j].chain) = Last(new[k].chain) => j = k
    PROVE  /\ Adds(S)
           /\ \A k \in DOMAIN new : ~new[k].torn => Last(new[k].chain) \in Recorded'
<1>1. /\ trail' \in Seq(Lines) /\ Len(trail') = Len(trail) + Len(new)
      /\ \A i \in 1..Len(trail) + Len(new) :
            trail'[i] = IF i <= Len(trail) THEN trail[i] ELSE new[i - Len(trail)]
  BY ConcatProperties
<1> DEFINE m == Len(trail)
           n == Len(new)
<1>2. /\ m \in Nat /\ n \in Nat /\ DOMAIN trail = 1..m /\ DOMAIN trail' = 1..(m + n) /\ DOMAIN new = 1..n
      /\ \A i \in 1..m : trail'[i] = trail[i]
      /\ \A k \in 1..n : trail'[m + k] = new[k] /\ m + k \in 1..(m + n)
      /\ \A i \in 1..(m + n) : i \in 1..m \/ \E k \in 1..n : i = m + k
  <2>1. m \in Nat /\ n \in Nat /\ DOMAIN trail = 1..m /\ DOMAIN trail' = 1..(m + n) /\ DOMAIN new = 1..n
    BY <1>1
  <2>2. \A i \in 1..m : trail'[i] = trail[i]
    BY <1>1, <2>1
  <2>3. \A k \in 1..n : trail'[m + k] = new[k] /\ m + k \in 1..(m + n)
    BY <1>1, <2>1
  <2>4. ASSUME NEW i \in 1..(m + n) PROVE i \in 1..m \/ \E k \in 1..n : i = m + k
    <3>1. CASE i <= m
      BY <2>1, <3>1
    <3>2. CASE i > m
      <4>1. i - m \in 1..n /\ i = m + (i - m)
        BY <2>1, <3>2
      <4> QED BY <4>1
    <3> QED BY <2>1, <3>1, <3>2
  <2> QED BY <2>1, <2>2, <2>3, <2>4
<1> HIDE DEF m, n
<1>3. ASSUME NEW e
      PROVE  /\ Times(e)' \in Nat
             /\ e \notin S => Times(e)' = Times(e)
             /\ Times(e)' <= Times(e) + 1
             /\ e \in Recorded => e \in Recorded'
  <2> DEFINE R == RecordsOf(e)
             Q == RecordsOf(e)'
             N == {k \in 1..n : Carries(new[k], e)}
  <2>1. /\ R = {i \in 1..m : Carries(trail[i], e)} /\ IsFiniteSet(R) /\ Times(e) \in Nat
        /\ Q = {i \in 1..(m + n) : Carries(trail'[i], e)} /\ IsFiniteSet(Q) /\ Times(e)' \in Nat
    BY <1>1, <1>2, RecordsAre, RecordsPrimed
  <2>2. Times(e) = Cardinality(R) /\ Times(e)' = Cardinality(Q)
    BY DEF Times
  <2> HIDE DEF R, Q
  <2>3. R \subseteq Q
    BY <1>2, <2>1
  <2>4. Q \subseteq R \cup {m + k : k \in N}
    <3> SUFFICES ASSUME NEW i \in Q PROVE i \in R \/ \E k \in N : i = m + k
      OBVIOUS
    <3>1. i \in 1..(m + n) /\ Carries(trail'[i], e)
      BY <2>1
    <3> QED BY <1>2, <2>1, <3>1
  <2>5. \A j, k \in N : j = k
    BY <1>2 DEF Carries
  <2>6. e \notin S => N = {}
    BY <1>2 DEF Carries
  <2>7. CASE N = {}
    <3>1. Q = R
      BY <2>3, <2>4, <2>7
    <3>2. Times(e)' = Times(e)
      BY <2>2, <3>1
    <3>3. e \in Recorded => e \in Recorded'
      BY <1>1, <3>2, RecordsAre, RecordsPrimed
    <3> QED BY <2>1, <3>2, <3>3
  <2>8. CASE N # {}
    <3>1. PICK k \in N : TRUE
      BY <2>8
    <3>2. Q \subseteq R \cup {m + k}
      BY <2>4, <2>5, <3>1
    <3>3. Cardinality(R \cup {m + k}) <= Cardinality(R) + 1 /\ IsFiniteSet(R \cup {m + k})
          /\ Cardinality(R \cup {m + k}) \in Nat /\ Cardinality(R) \in Nat
      <4>1. IsFiniteSet(R \cup {m + k})
        BY <2>1, FS_AddElement
      <4>2. Cardinality(R \cup {m + k}) = IF m + k \in R THEN Cardinality(R) ELSE Cardinality(R) + 1
        BY <2>1, FS_AddElement
      <4>3. Cardinality(R) \in Nat
        BY <2>1, FS_CardinalityType
      <4> QED BY <4>1, <4>2, <4>3
    <3>4. Cardinality(Q) <= Cardinality(R \cup {m + k}) /\ Cardinality(Q) \in Nat
      BY <2>1, <3>2, <3>3, FS_Subset, FS_CardinalityType
    <3>5. Cardinality(Q) <= Cardinality(R) + 1
      BY <3>3, <3>4
    <3>6. e \in S
      BY <2>6, <2>8
    <3>7. e \in Recorded'
      <4>1. m + k \in 1..(m + n) /\ Carries(trail'[m + k], e)
        BY <1>2, <3>1
      <4> QED BY <1>1, <1>2, <4>1, RecordsPrimed
    <3> QED BY <2>1, <2>2, <3>5, <3>6, <3>7
  <2> QED BY <2>7, <2>8
<1>4. ASSUME NEW k \in DOMAIN new, ~new[k].torn PROVE Last(new[k].chain) \in Recorded'
  <2>1. m + k \in DOMAIN trail' /\ Carries(trail'[m + k], Last(new[k].chain))
    BY <1>2, <1>4 DEF Carries
  <2> QED BY <1>1, <2>1, RecordsPrimed
<1>5. Adds(S)
  BY <1>1, <1>3 DEF Adds
<1> QED BY <1>4, <1>5

\* A record adds its event.
LEMMA RecordAdds ==
    ASSUME AuditTypeOK, ChainInv, NEW p \in Processes, NEW e \in Events,
           trail' = Append(trail, Record(p, e))
    PROVE  Adds({e}) /\ e \in Recorded'
<1> DEFINE new == <<Record(p, e)>>
<1>1. /\ new \in Seq(Lines) /\ trail' = trail \o new /\ trail \in Seq(Lines)
      /\ ~Record(p, e).torn /\ Last(Record(p, e).chain) = e
  BY RecordFollows DEF AuditTypeOK
<1>2. DOMAIN new = {1} /\ new[1] = Record(p, e)
  OBVIOUS
<1> HIDE DEF new
<1>3. /\ \A k \in DOMAIN new : ~new[k].torn => Last(new[k].chain) \in {e}
      /\ \A j, k \in DOMAIN new :
              ~new[j].torn /\ ~new[k].torn /\ Last(new[j].chain) = Last(new[k].chain) => j = k
  BY <1>1, <1>2
<1>4. Adds({e}) /\ \A k \in DOMAIN new : ~new[k].torn => Last(new[k].chain) \in Recorded'
  BY <1>1, <1>3, LinesAdd
<1> QED BY <1>1, <1>2, <1>4

LEMMA RemainsAdd ==
    ASSUME AuditTypeOK, ChainInv, NEW p \in Processes, NEW e \in Events, trail' \in Remains(p, e)
    PROVE  Adds({e})
<1>1. trail \in Seq(Lines)
  BY DEF AuditTypeOK
<1>2. CASE trail' = trail
  BY <1>1, <1>2, NothingAdded DEF Adds
<1>3. CASE trail' = Append(trail, TornLine)
  <2> DEFINE new == <<TornLine>>
  <2>1. TornLine \in Lines /\ TornLine.torn /\ new \in Seq(Lines)
    BY EmptySeq DEF TornLine, Lines
  <2>2. trail' = trail \o new
    BY <1>1, <1>3, <2>1, AppendIsConcat
  <2>3. \A k \in DOMAIN new : new[k].torn
    BY <2>1
  <2> HIDE DEF new
  <2> QED BY <1>1, <2>1, <2>2, <2>3, LinesAdd
<1>4. CASE trail' = Append(trail, Record(p, e))
  BY <1>4, RecordAdds
<1> QED BY <1>2, <1>3, <1>4 DEF Remains

\* A flush adds the events it has written, and the one it was writing at most.
LEMMA FlushAdds ==
    ASSUME AuditTypeOK, ChainInv, OnePlace, NEW p \in Processes, FlushBuffer(p)
    PROVE  \E n \in 0..Len(buffer[p]) :
             /\ buffer' = [buffer EXCEPT ![p] = SubSeq(buffer[p], n + 1, Len(buffer[p]))]
             /\ \A i \in 1..n : buffer[p][i] \in Recorded'
             /\ \/ faults' = faults /\ n = Len(buffer[p]) /\ Adds({buffer[p][i] : i \in 1..n})
                \/ /\ faults' = faults + 1 /\ n < Len(buffer[p])
                   /\ Adds({buffer[p][i] : i \in 1..(n + 1)})
<1>1. trail \in Seq(Lines) /\ buffer[p] \in Seq(Events)
  BY DEF AuditTypeOK
<1>2. PICK n \in 0..Len(buffer[p]) :
          /\ buffer' = [buffer EXCEPT ![p] = StillWaiting(p, n)]
          /\ \/ /\ n = Len(buffer[p]) /\ faults' = faults
                /\ trail' = trail \o Flushed(p, n)
             \/ /\ n < Len(buffer[p]) /\ faults' = faults + 1
                /\ \E tail \in {<<>>, <<TornLine>>, <<Flushed(p, n + 1)[n + 1]>>} :
                      trail' = trail \o Flushed(p, n) \o tail
  BY DEF FlushBuffer
<1>3. ASSUME NEW m \in 0..Len(buffer[p]), NEW new \in Seq(Lines), trail' = trail \o new,
             Len(new) = m \/ (Len(new) = m + 1 /\ new[m + 1].torn),
             \A i \in 1..m : new[i] = Flushed(p, m)[i]
      PROVE  /\ Adds({buffer[p][i] : i \in 1..m})
             /\ \A i \in 1..m : buffer[p][i] \in Recorded'
  <2>1. \A i \in 1..m : ~new[i].torn /\ Last(new[i].chain) = buffer[p][i]
    <3>1. \A i \in 1..m : /\ ~Flushed(p, m)[i].torn
                         /\ Last(Flushed(p, m)[i].chain) = buffer[p][i]
      BY FlushedFollow
    <3> QED BY <1>3, <3>1
  <2>2. m \in Nat /\ \A k \in DOMAIN new : k \in 1..m \/ (k = m + 1 /\ new[k].torn)
    BY <1>1, <1>3
  <2>3. 1..m \subseteq DOMAIN new /\ 1..m \subseteq DOMAIN buffer[p]
    BY <1>1, <1>3
  <2>4. \A i, j \in 1..m : buffer[p][i] = buffer[p][j] => i = j
    BY <2>3 DEF OnePlace
  <2>5. \A k \in DOMAIN new : ~new[k].torn => Last(new[k].chain) \in {buffer[p][i] : i \in 1..m}
    BY <2>1, <2>2
  <2>6. \A j, k \in DOMAIN new :
              ~new[j].torn /\ ~new[k].torn /\ Last(new[j].chain) = Last(new[k].chain) => j = k
    BY <2>1, <2>2, <2>4
  <2>7. /\ Adds({buffer[p][i] : i \in 1..m})
        /\ \A k \in DOMAIN new : ~new[k].torn => Last(new[k].chain) \in Recorded'
    BY <1>1, <1>3, <2>5, <2>6, LinesAdd
  <2> QED BY <2>1, <2>3, <2>7
<1>4. n \in Nat /\ Len(buffer[p]) \in Nat
  BY <1>1
<1>5. Flushed(p, n) \in Seq(Lines) /\ Len(Flushed(p, n)) = n
  BY FlushedFollow
<1>6. CASE trail' = trail \o Flushed(p, n)
  <2>1. /\ Adds({buffer[p][i] : i \in 1..n})
        /\ \A i \in 1..n : buffer[p][i] \in Recorded'
    BY <1>3, <1>5, <1>6
  <2>2. \A A, B : A \subseteq B /\ Adds(A) => Adds(B)
    BY DEF Adds
  <2>3. {buffer[p][i] : i \in 1..n} \subseteq {buffer[p][i] : i \in 1..(n + 1)}
    BY <1>4
  <2>4. Adds({buffer[p][i] : i \in 1..(n + 1)})
    BY <2>1, <2>2, <2>3
  <2> QED BY <1>2, <2>1, <2>4 DEF StillWaiting
<1>7. ASSUME n < Len(buffer[p]), trail' = trail \o Flushed(p, n) \o <<TornLine>>,
             faults' = faults + 1
      PROVE  /\ Adds({buffer[p][i] : i \in 1..(n + 1)})
             /\ \A i \in 1..n : buffer[p][i] \in Recorded'
  <2>1. TornLine \in Lines /\ TornLine.torn /\ <<TornLine>> \in Seq(Lines)
    BY EmptySeq DEF TornLine, Lines
  <2> DEFINE new == Append(Flushed(p, n), TornLine)
  <2>2. /\ new \in Seq(Lines) /\ Len(new) = n + 1 /\ new[n + 1].torn
        /\ \A i \in 1..n : new[i] = Flushed(p, n)[i]
    BY <1>5, <2>1, AppendProperties
  <2>3. trail' = trail \o new
    <3>1. new = Flushed(p, n) \o <<TornLine>>
      BY <1>5, <2>1, AppendIsConcat
    <3> HIDE DEF new
    <3> QED BY <1>1, <1>5, <1>7, <2>1, <3>1, ConcatOfLines, Zenon
  <2> HIDE DEF new
  <2>4. /\ Adds({buffer[p][i] : i \in 1..n})
        /\ \A i \in 1..n : buffer[p][i] \in Recorded'
    BY <1>3, <2>2, <2>3
  <2>5. \A A, B : A \subseteq B /\ Adds(A) => Adds(B)
    BY DEF Adds
  <2>6. {buffer[p][i] : i \in 1..n} \subseteq {buffer[p][i] : i \in 1..(n + 1)}
    BY <1>4
  <2> QED BY <2>4, <2>5, <2>6
<1>8. ASSUME n < Len(buffer[p]),
             trail' = trail \o Flushed(p, n) \o <<Flushed(p, n + 1)[n + 1]>>
      PROVE  /\ Adds({buffer[p][i] : i \in 1..(n + 1)})
             /\ \A i \in 1..n : buffer[p][i] \in Recorded'
  <2> DEFINE more == Flushed(p, n + 1)
  <2>1. n + 1 \in 0..Len(buffer[p])
    BY <1>4, <1>8
  <2>2. more \in Seq(Lines) /\ Len(more) = n + 1
    BY <2>1, FlushedFollow
  <2>3. \A i \in 1..n : more[i] = Flushed(p, n)[i]
    BY <1>4 DEF Flushed
  <2>4. trail' = trail \o more
    <3> DEFINE new == Flushed(p, n)
    <3>1. /\ trail \in Seq(Lines) /\ new \in Seq(Lines) /\ more \in Seq(Lines) /\ n \in Nat
          /\ Len(new) = n /\ Len(more) = n + 1 /\ \A i \in 1..n : more[i] = new[i]
      BY <1>1, <1>4, <1>5, <2>2, <2>3
    <3> HIDE DEF new, more
    <3>2. (trail \o new) \o <<more[Len(new) + 1]>> = trail \o more
      BY <3>1, ConcatLast
    <3>3. trail' = (trail \o new) \o <<more[n + 1]>>
      BY <1>8 DEF more, new
    <3> QED BY <3>1, <3>2, <3>3
  <2>5. /\ Adds({buffer[p][i] : i \in 1..(n + 1)})
        /\ \A i \in 1..(n + 1) : buffer[p][i] \in Recorded'
    BY <1>3, <2>1, <2>2, <2>4
  <2>6. 1..n \subseteq 1..(n + 1)
    BY <1>4
  <2> QED BY <2>5, <2>6
<1>9. CASE trail' = trail \o Flushed(p, n) \o <<>>
  <2>1. trail \o Flushed(p, n) \in Seq(Lines)
    BY <1>1, <1>5, ConcatProperties
  <2>2. trail' = trail \o Flushed(p, n)
    BY <1>9, <2>1, ConcatEmptySeq
  <2> QED BY <1>6, <2>2
<1> QED BY <1>2, <1>6, <1>7, <1>8, <1>9 DEF StillWaiting

-----------------------------------------------------------------------------
(* The lock of the outbox.                                                  *)

LEMMA ProjectingInit ==
    SignInit => Projecting
  BY DEF SignInit, Projecting

LEMMA ProjectingNext ==
    Shapes /\ Projecting /\ SignNext => Projecting'
<1> SUFFICES ASSUME Shapes, Projecting, SignNext PROVE Projecting'
  OBVIOUS
<1>1. /\ None \notin Requests /\ DOMAIN outbox = 1..Len(outbox)
      /\ \A r \in Requests : req[r].pc \in {"project", "mark"} =>
            /\ projector = r
            /\ req[r].row \in DOMAIN outbox /\ ~outbox[req[r].row].projected
  BY RequestsAreWellFormed DEF Projecting, Shapes
<1>2. ASSUME projector' = projector,
             DOMAIN outbox \subseteq DOMAIN outbox', \A k \in DOMAIN outbox : outbox'[k] = outbox[k],
             \A r \in Requests : /\ req'[r].row = req[r].row
                                 /\ req'[r].pc \in {"project", "mark"} => req[r].pc \in {"project", "mark"}
      PROVE  Projecting'
  BY <1>1, <1>2 DEF Projecting
<1>3. ASSUME NEW r \in Requests, projector \in {None, r},
             req[r].pc \notin {"project", "mark"}, NEW q \in Requests
      PROVE  req[q].pc \notin {"project", "mark"}
  BY <1>1, <1>3
<1>4. ASSUME NEW r \in Requests, Arrive(r) PROVE Projecting'
  <2>1. UNCHANGED <<projector, outbox>>
    BY <1>4 DEF Arrive
  <2>2. /\ \A q \in Requests : q # r => req'[q] = req[q]
        /\ req'[r].row = req[r].row /\ req'[r].pc \notin {"project", "mark"}
    BY <1>4, ArriveShape
  <2> QED BY <1>2, <2>1, <2>2
<1>5. ASSUME NEW r \in Requests, NEW x \in Pcs \ {"project", "mark"}, Moved(r, x),
             projector' = projector,
             DOMAIN outbox \subseteq DOMAIN outbox', \A k \in DOMAIN outbox : outbox'[k] = outbox[k]
      PROVE  Projecting'
  <2>1. \A q \in Requests : /\ req'[q].row = req[q].row
                            /\ req'[q].pc \in {"project", "mark"} => req[q].pc \in {"project", "mark"}
    BY <1>5 DEF Moved
  <2> QED BY <1>2, <1>5, <2>1
<1>6. ASSUME NEW r \in Requests,
             \/ Register(r) \/ Decline(r) \/ ReadBack(r) \/ Revoke(r) \/ Authenticate(r) \/ Tell(r)
      PROVE  Projecting'
  <2>1. UNCHANGED <<projector, outbox>>
    BY <1>6 DEF Register, Decline, ReadBack, Revoke, Authenticate, Tell
  <2>2. \E x \in Pcs \ {"project", "mark"} : Moved(r, x)
    BY <1>6, CountShape, StepsMove, TellMoves DEF Pcs
  <2> QED BY <1>5, <2>1, <2>2
<1>7. ASSUME NEW r \in Requests, Exchange(r) PROVE Projecting'
  <2>1. /\ projector' = projector
        /\ outbox' = Append(outbox, [event |-> Says(r, "exchanged"), projected |-> FALSE])
        /\ outbox \in Seq(Row)
    BY <1>7 DEF Exchange, Shapes
  <2>2. [event |-> Says(r, "exchanged"), projected |-> FALSE] \in Row
    BY RequestsAreWellFormed DEF Row, Says, Sayings
  <2>3. DOMAIN outbox \subseteq DOMAIN outbox' /\ \A k \in DOMAIN outbox : outbox'[k] = outbox[k]
    <3>1. /\ outbox' \in Seq(Row) /\ Len(outbox') = Len(outbox) + 1 /\ Len(outbox) \in Nat
          /\ \A k \in 1..Len(outbox) : outbox'[k] = outbox[k]
      BY <2>1, <2>2, AppendProperties
    <3> QED BY <2>1, <3>1
  <2>4. \E x \in Pcs \ {"project", "mark"} : Moved(r, x)
    BY <1>7, StepsMove DEF Pcs
  <2> QED BY <1>5, <2>1, <2>3, <2>4
<1>8. ASSUME NEW r \in Requests, TakeRow(r) PROVE Projecting'
  <2>1. projector \in {None, r} /\ projector' = r /\ outbox' = outbox
    BY <1>8 DEF TakeRow
  <2>2. /\ req[r].pc = "flush" /\ req'[r].row \in Pending
        /\ \A q \in Requests : q # r => req'[q] = req[q]
    BY <1>8, TakeRowMoves
  <2>3. \A q \in Requests : q # r => req'[q].pc \notin {"project", "mark"}
    BY <1>3, <2>1, <2>2
  <2>4. req'[r].row \in DOMAIN outbox' /\ ~outbox'[req'[r].row].projected
    BY <2>1, <2>2 DEF Pending
  <2> QED BY <2>1, <2>3, <2>4 DEF Projecting
<1>9. ASSUME NEW r \in Requests, NothingPending(r) PROVE Projecting'
  <2>1. projector \in {None, r} /\ req[r].pc = "flush" /\ Moved(r, "done")
    BY <1>9, StepsMove DEF NothingPending
  <2>2. \A q \in Requests : req'[q].pc \notin {"project", "mark"}
    BY <1>3, <2>1 DEF Moved
  <2> QED BY <2>2 DEF Projecting
<1>10. ASSUME NEW r \in Requests, Project(r) PROVE Projecting'
  <2>1. req[r].pc = "project" /\ outbox' = outbox
    BY <1>10, StepsMove DEF Project
  <2>2. \/ Moved(r, "mark") /\ projector' = projector
        \/ Moved(r, "done") /\ projector' = None
    <3>1. \/ GoTo(r, "mark") /\ projector' = projector
          \/ GoTo(r, "done") /\ projector' = None
      BY <1>10 DEF Project
    <3>2. req \in [Requests -> Request] /\ "mark" \in Pcs /\ "done" \in Pcs
      BY DEF Shapes, Pcs
    <3> QED BY <3>1, <3>2, GoToMoves
  <2>3. \A q \in Requests : q # r => req[q].pc \notin {"project", "mark"}
    BY <1>1, <2>1
  <2>4. CASE Moved(r, "mark") /\ projector' = projector
    BY <1>1, <2>1, <2>3, <2>4 DEF Projecting, Moved
  <2>5. CASE Moved(r, "done")
    BY <2>3, <2>5 DEF Projecting, Moved
  <2> QED BY <2>2, <2>4, <2>5
<1>11. ASSUME NEW r \in Requests, Mark(r) PROVE Projecting'
  <2>1. req[r].pc = "mark" /\ Moved(r, "flush")
    BY <1>11, StepsMove
  <2>2. \A q \in Requests : q # r => req[q].pc \notin {"project", "mark"}
    BY <1>1, <2>1
  <2> QED BY <2>1, <2>2 DEF Projecting, Moved
<1>12. CASE NextWindow \/ Expire \/ Switch
  <2>1. UNCHANGED <<projector, outbox, req>>
    BY <1>12 DEF NextWindow, Expire, Switch
  <2> QED BY <1>2, <2>1
<1>13. CASE Crash
  <2>1. PICK p \in Processes :
           /\ \A q \in Requests : req'[q].pc = IF q \in Unfinished(p) THEN "error" ELSE req[q].pc
           /\ projector' = IF projector \in Unfinished(p) THEN None ELSE projector
    BY <1>13, CrashMoves
  <2>2. outbox' = outbox /\ \A q \in Requests : req'[q].row = req[q].row
    BY <1>13, CrashMoves DEF Crash
  <2> QED BY <1>1, <2>1, <2>2 DEF Projecting
<1> QED BY <1>4, <1>6, <1>7, <1>8, <1>9, <1>10, <1>11, <1>12, <1>13 DEF SignNext

-----------------------------------------------------------------------------
(* Every step is a step of the sink, or leaves it alone.                    *)

\* What is being projected is an event.
LEMMA RowEvents ==
    ASSUME Shapes, Projecting, NEW r \in Requests, req[r].pc \in {"project", "mark"}
    PROVE  req[r].row \in DOMAIN outbox /\ outbox[req[r].row].event \in Events
<1>1. outbox \in Seq(Row) /\ req[r].row \in DOMAIN outbox
  BY DEF Projecting, Shapes
<1>2. outbox[req[r].row] \in Row
  BY <1>1
<1> QED BY <1>1, <1>2 DEF Row

LEMMA SinkSteps ==
    ASSUME Shapes, Projecting, SignNext
    PROVE  AuditStep \/ UNCHANGED trailVars
<1>1. ASSUME NEW r \in Requests, TakeRow(r) PROVE AuditStep \/ UNCHANGED trailVars
  <2>1. req[r].on \in Processes
    BY <1>1, TakeRowMoves, KindOfPc
  <2>2. \/ HeadRead(req[r].on) /\ UNCHANGED <<trail, switches, buffer, faults, acked, lost>>
        \/ UNCHANGED trailVars
    BY <1>1 DEF TakeRow
  <2> QED BY <2>1, <2>2 DEF AuditStep
<1>2. ASSUME NEW r \in Requests, Project(r) PROVE AuditStep
  <2>1. req[r].pc = "project" /\ req[r].on \in Processes
    BY <1>2, StepsMove, KindOfPc
  <2>2. outbox[req[r].row].event \in Events
    BY <2>1, RowEvents
  <2>3. \E outcome \in {"ok", "refused", "failed"} :
           AppendEvent(req[r].on, outbox[req[r].row].event, "high", outcome)
    BY <1>2 DEF Project
  <2> QED BY <2>1, <2>2, <2>3 DEF AuditStep
<1>3. ASSUME NEW r \in Requests, Tell(r) PROVE AuditStep
  <2>1. req[r].pc \in {"limited", "declined", "revoked", "denied"} /\ req[r].on \in Processes
    BY <1>3, TellMoves, KindOfPc
  <2>2. Says(r, req[r].pc) \in Events
    BY <2>1, RequestsAreWellFormed DEF Says, Sayings
  <2>3. /\ Tells[req[r].pc].risk \in {"low", "high"}
        /\ \E outcome \in {"ok", "refused", "failed"} :
              AppendEvent(req[r].on, Says(r, req[r].pc), Tells[req[r].pc].risk, outcome)
    BY <1>3, TellMoves
  <2> QED BY <2>1, <2>2, <2>3 DEF AuditStep
<1>4. ASSUME Switch PROVE AuditStep
  <2>1. \E p \in Serving : SwitchOff(p) \/ SwitchOn(p) \/ FlushBuffer(p)
    BY <1>4 DEF Switch
  <2>2. Serving \subseteq Processes
    BY SinksAreReal DEF Serving
  <2> QED BY <2>1, <2>2 DEF AuditStep
<1>5. ASSUME Crash PROVE AuditStep
  <2>1. PICK p \in Processes :
                /\ Restarted(p)
                /\ \/ DiesIdle(p)
                   \/ \E r \in Unfinished(p) : \E e \in Writing(r) : DiesWriting(p, e)
    BY <1>5 DEF Crash
  <2>2. \A r \in Unfinished(p) : Writing(r) \subseteq Events
    <3> SUFFICES ASSUME NEW r \in Requests PROVE Writing(r) \subseteq Events
      BY DEF Unfinished
    <3>1. req[r].pc = "project" => outbox[req[r].row].event \in Events
      BY RowEvents
    <3>2. req[r].pc \in DOMAIN Tells => Says(r, req[r].pc) \in Events
      BY RequestsAreWellFormed DEF Says, Sayings, Tells
    <3> QED BY <3>1, <3>2 DEF Writing, At
  <2> QED BY <2>1, <2>2 DEF AuditStep
<1>6. ASSUME NEW r \in Requests,
             \/ Arrive(r) \/ Register(r) \/ Exchange(r) \/ Decline(r) \/ ReadBack(r)
             \/ NothingPending(r) \/ Mark(r) \/ Revoke(r) \/ Authenticate(r)
      PROVE  UNCHANGED trailVars
  BY <1>6 DEF Arrive, Register, Exchange, Decline, ReadBack, NothingPending, Mark, Revoke, Authenticate
<1>7. NextWindow \/ Expire => UNCHANGED trailVars
  BY DEF NextWindow, Expire
<1> QED BY <1>1, <1>2, <1>3, <1>4, <1>5, <1>6, <1>7 DEF SignNext

-----------------------------------------------------------------------------
(* What was said is kept.                                                   *)

LEMMA KeepingInit ==
    SignInit => Keeping
<1> SUFFICES ASSUME SignInit PROVE Keeping
  OBVIOUS
<1>1. /\ trail = <<>> /\ faults = 0 /\ acked = {} /\ outbox = <<>>
      /\ \A p \in Processes : buffer[p] = <<>>
      /\ \A r \in Requests : req[r].pc = "new"
  BY DEF SignInit, AuditInit
<1>2. <<>> \in Seq(Lines) /\ DOMAIN (<<>>) = {}
  BY EmptySeq
<1>3. \A e : Times(e) = 0
  <2> TAKE e
  <2>1. RecordsOf(e) = {}
    BY <1>1, <1>2 DEF RecordsOf
  <2> QED BY <2>1, FS_EmptySet DEF Times
<1>4. \A e : ~Waiting(e)
  BY <1>1, <1>2 DEF Waiting
<1> QED BY <1>1, <1>2, <1>3, <1>4 DEF Keeping, Accepted, RowsKept, OnePlace, FewTimes, Unsaid

\* A step that leaves the file and the buffers alone.
LEMMA QuietKeeps ==
    ASSUME AuditTypeOK, Shapes, Projecting, Keeping,
           UNCHANGED <<trail, buffer, faults, acked, lost>>,
           DOMAIN outbox \subseteq DOMAIN outbox',
           \A k \in DOMAIN outbox :
              /\ outbox'[k].event = outbox[k].event
              /\ \/ outbox'[k].projected /\ (outbox[k].projected \/ Marking(k))
                 \/ ~outbox'[k].projected /\ ~outbox[k].projected /\ (Marking(k) => Marking(k)'),
           \A k \in DOMAIN outbox' \ DOMAIN outbox :
              /\ ~outbox'[k].projected
              /\ \E r \in Requests : /\ outbox'[k].event = Says(r, "exchanged")
                                   /\ ~HasRow(Says(r, "exchanged")),
           \A r \in Requests :
              /\ req'[r].pc = "mark" => req[r].pc = "mark" /\ req'[r].row = req[r].row
              /\ req'[r].pc \in Untold => req[r].pc \in Untold
    PROVE  Keeping'
<1>1. \A e : (Times(e)' = Times(e)) /\ (Waiting(e)' <=> Waiting(e))
  BY NothingAdded DEF AuditTypeOK, Waiting
<1>2. Recorded' = Recorded /\ faults' = faults /\ faults \in Nat
  BY SinksAreReal DEF AuditTypeOK, Recorded
<1>3. Accepted' /\ OnePlace' /\ FewTimes'
  <2>1. Accepted /\ OnePlace /\ FewTimes
    BY DEF Keeping
  <2>2. Accepted'
    BY <1>1, <1>2, <2>1 DEF Accepted
  <2>3. OnePlace'
    BY <2>1 DEF OnePlace
  <2>4. FewTimes'
    BY <1>1, <1>2, <2>1 DEF FewTimes
  <2> QED BY <2>2, <2>3, <2>4
<1>4. RowsKept /\ Unsaid
  BY DEF Keeping
<1>5. \A r \in Requests : req'[r].pc = "mark" => outbox'[req'[r].row].event \in Recorded'
  BY <1>2, <1>4 DEF RowsKept, Projecting
<1>6. ASSUME NEW k \in DOMAIN outbox', NEW e \in Events, outbox'[k].event = e
      PROVE  IF outbox'[k].projected THEN e \in Recorded' ELSE Marking(k)' \/ Times(e)' <= faults'
  <2>1. CASE k \in DOMAIN outbox
    <3>1. outbox[k].event = e
      BY <1>6, <2>1
    <3>2. IF outbox[k].projected THEN e \in Recorded ELSE Marking(k) \/ Times(e) <= faults
      BY <1>4, <2>1, <3>1 DEF RowsKept
    <3>3. CASE outbox'[k].projected /\ (outbox[k].projected \/ Marking(k))
      <4>1. Marking(k) => e \in Recorded
        BY <1>4, <3>1 DEF RowsKept, Marking
      <4> QED BY <1>2, <3>2, <3>3, <4>1
    <3>4. CASE ~outbox'[k].projected /\ ~outbox[k].projected /\ (Marking(k) => Marking(k)')
      BY <1>1, <1>2, <3>2, <3>4
    <3> QED BY <2>1, <3>3, <3>4
  <2>2. CASE k \notin DOMAIN outbox
    <3>1. PICK r \in Requests : e = Says(r, "exchanged") /\ ~HasRow(Says(r, "exchanged"))
      BY <1>6, <2>2
    <3>2. Times(e) = 0
      BY <1>4, <3>1 DEF Unsaid
    <3>3. ~outbox'[k].projected
      BY <2>2
    <3>4. Times(e)' <= faults'
      BY <1>1, <1>2, <3>2
    <3> QED BY <3>3, <3>4
  <2> QED BY <2>1, <2>2
<1>7. RowsKept'
  BY <1>5, <1>6 DEF RowsKept
<1>8. \A e : HasRow(e) => HasRow(e)'
  BY DEF HasRow
<1>9. Unsaid'
  BY <1>1, <1>4, <1>8 DEF Unsaid
<1> QED BY <1>3, <1>7, <1>9 DEF Keeping

\* A step that may add the events of S to the file.  What it adds is a pending row, waits,
\* or was said by a request that is done saying it; unless a fault is counted it can be
\* added once more, waits no longer, and its row is about to be marked.
JustTold(e) == \E q \in Requests, w \in Sayings \ {"exchanged"} :
                  e = Says(q, w) /\ req'[q].pc \notin Untold

LEMMA AdditionsKeep ==
    ASSUME AuditTypeOK, Exchanging, Keeping, NEW S \in SUBSET Events, Adds(S),
           outbox' = outbox, faults' = faults \/ faults' = faults + 1, OnePlace',
           \A e \in acked' \ lost' : e \in acked \ lost \/ e \in Recorded' \/ Waiting(e)',
           \A e : Waiting(e) => Waiting(e)' \/ e \in Recorded' \/ e \in lost',
           \A e : Waiting(e)' => Waiting(e) \/ (Times(e)' = 0 /\ JustTold(e)),
           \A e \in S : HasRow(e) \/ Waiting(e) \/ JustTold(e),
           \A e \in S : \/ faults' = faults + 1
                        \/ /\ Times(e) <= faults /\ ~Waiting(e)'
                           /\ \A k \in DOMAIN outbox : outbox[k].event = e => Marking(k)',
           \A k \in DOMAIN outbox :
              \/ Marking(k) => Marking(k)'
              \/ faults' = faults + 1 /\ outbox[k].event \notin S,
           \A q \in Requests :
              /\ req'[q].pc \in Untold => req[q].pc \in Untold
              /\ req'[q].pc = "mark" => \/ req[q].pc = "mark" /\ req'[q].row = req[q].row
                                        \/ outbox[req'[q].row].event \in Recorded'
    PROVE  Keeping'
<1>1. /\ trail \in Seq(Lines) /\ faults \in Nat /\ faults' \in Nat /\ faults <= faults'
      /\ faults' = faults + 1 => ~(faults' = faults)
  BY SinksAreReal DEF AuditTypeOK
<1>2. \A e : Times(e) \in Nat
  BY <1>1, RecordsAre
<1>3. /\ Recorded \subseteq Recorded'
      /\ \A e : /\ Times(e)' \in Nat
                /\ e \notin S => Times(e)' = Times(e)
                /\ Times(e)' <= Times(e) + 1
  BY DEF Adds
<1>4. Accepted /\ RowsKept /\ FewTimes /\ Unsaid
  BY DEF Keeping
<1>5. Accepted'
  <2> SUFFICES ASSUME NEW e \in acked' \ lost' PROVE e \in Recorded' \/ Waiting(e)'
    BY DEF Accepted
  <2>1. CASE e \in acked \ lost
    <3>1. e \in Recorded \/ Waiting(e)
      BY <1>4, <2>1 DEF Accepted
    <3> QED BY <1>3, <3>1
  <2> QED BY <2>1
<1>6. ASSUME NEW e
      PROVE  /\ Times(e)' <= 1 + faults'
             /\ Waiting(e)' => Times(e)' <= faults'
  <2>1. /\ Times(e) <= 1 + faults
        /\ Waiting(e) => Times(e) <= faults
    BY <1>4 DEF FewTimes
  <2>2. CASE e \notin S
    <3>1. Times(e)' = Times(e)
      BY <1>3, <2>2
    <3>2. Waiting(e)' => Times(e) <= faults \/ Times(e)' = 0
      BY <2>1
    <3> QED BY <1>1, <1>2, <2>1, <3>1, <3>2
  <2>3. CASE e \in S /\ faults' = faults + 1
    <3>1. Times(e)' <= Times(e) + 1 /\ Times(e)' \in Nat /\ Times(e) \in Nat
      BY <1>2, <1>3
    <3>2. Waiting(e)' => Times(e) <= faults \/ Times(e)' = 0
      BY <2>1
    <3> QED BY <1>1, <2>1, <2>3, <3>1, <3>2
  <2>4. CASE e \in S /\ faults' # faults + 1
    <3>1. Times(e) <= faults /\ ~Waiting(e)'
      BY <2>4
    <3>2. Times(e)' <= Times(e) + 1 /\ Times(e)' \in Nat /\ Times(e) \in Nat
      BY <1>2, <1>3
    <3> QED BY <1>1, <3>1, <3>2
  <2> QED BY <2>2, <2>3, <2>4
<1>7. FewTimes'
  BY <1>6 DEF FewTimes
<1>8. ASSUME NEW k \in DOMAIN outbox, NEW e \in Events, outbox[k].event = e
      PROVE  IF outbox[k].projected THEN e \in Recorded' ELSE Marking(k)' \/ Times(e)' <= faults'
  <2>1. IF outbox[k].projected THEN e \in Recorded ELSE Marking(k) \/ Times(e) <= faults
    BY <1>4, <1>8 DEF RowsKept
  <2>2. Times(e) <= 1 + faults
    BY <1>4 DEF FewTimes
  <2>3. Times(e)' <= Times(e) + 1 /\ Times(e)' \in Nat /\ Times(e) \in Nat
    BY <1>2, <1>3
  <2>4. CASE outbox[k].projected
    BY <1>3, <2>1, <2>4
  <2>5. CASE ~outbox[k].projected /\ e \notin S
    <3>1. Times(e)' = Times(e)
      BY <1>3, <2>5
    <3>2. CASE Times(e) <= faults
      BY <1>1, <2>3, <3>1, <3>2, <2>5
    <3>3. CASE Marking(k)
      <4>1. Marking(k)' \/ faults' = faults + 1
        BY <3>3
      <4>2. faults' = faults + 1 => Times(e)' <= faults'
        BY <1>1, <2>2, <2>3, <3>1
      <4> QED BY <2>5, <4>1, <4>2
    <3> QED BY <2>1, <2>5, <3>2, <3>3
  <2>6. CASE ~outbox[k].projected /\ e \in S
    <3>1. Marking(k)' \/ faults' = faults + 1
      BY <1>8, <2>6
    <3>2. Marking(k) => Marking(k)'
      BY <1>8, <2>6
    <3>3. Times(e) <= faults /\ faults' = faults + 1 => Times(e)' <= faults'
      BY <1>1, <2>3
    <3> QED BY <2>1, <2>6, <3>1, <3>2, <3>3
  <2> QED BY <2>4, <2>5, <2>6
<1>9. ASSUME NEW q \in Requests, req'[q].pc = "mark"
      PROVE  outbox[req'[q].row].event \in Recorded'
  <2>1. req[q].pc = "mark" => outbox[req[q].row].event \in Recorded
    BY <1>4 DEF RowsKept
  <2> QED BY <1>3, <1>9, <2>1
<1>10. RowsKept'
  BY <1>8, <1>9 DEF RowsKept
<1>11. \A e : HasRow(e) => \E q \in Exchanges : e = Says(q, "exchanged")
  BY DEF HasRow, Exchanging
<1>12. \A q, u : \A w, v : Says(q, w) = Says(u, v) => q = u /\ w = v
  BY DEF Says
<1>13. \A q \in Requests : Says(q, "exchanged") \in S => HasRow(Says(q, "exchanged"))
  <2> TAKE q \in Requests
  <2>1. ~Waiting(Says(q, "exchanged"))
    BY <1>4 DEF Unsaid
  <2>2. ~JustTold(Says(q, "exchanged"))
    BY <1>12 DEF JustTold
  <2> QED BY <2>1, <2>2
<1>14. \A e : HasRow(e)' <=> HasRow(e)
  BY DEF HasRow
<1>15. ASSUME NEW q \in Requests
       PROVE  /\ ~Waiting(Says(q, "exchanged"))'
              /\ ~HasRow(Says(q, "exchanged"))' => Times(Says(q, "exchanged"))' = 0
  <2>1. /\ ~Waiting(Says(q, "exchanged"))
        /\ ~HasRow(Says(q, "exchanged")) => Times(Says(q, "exchanged")) = 0
    BY <1>4 DEF Unsaid
  <2>2. ~JustTold(Says(q, "exchanged"))
    BY <1>12 DEF JustTold
  <2> QED BY <1>3, <1>13, <1>14, <2>1, <2>2
<1>16. ASSUME NEW q \in Requests, req'[q].pc \in Untold, NEW w \in Sayings \ {"exchanged"}
       PROVE  Times(Says(q, w))' = 0 /\ ~Waiting(Says(q, w))'
  <2>1. Times(Says(q, w)) = 0 /\ ~Waiting(Says(q, w))
    BY <1>4, <1>16 DEF Unsaid
  <2>2. ~JustTold(Says(q, w)) /\ ~HasRow(Says(q, w))
    BY <1>11, <1>12, <1>16 DEF JustTold
  <2>3. Says(q, w) \notin S
    BY <2>1, <2>2
  <2> QED BY <1>3, <2>1, <2>2, <2>3
<1>17. Unsaid'
  BY <1>15, <1>16 DEF Unsaid
<1> QED BY <1>5, <1>7, <1>10, <1>17 DEF Keeping

LEMMA RowsAreRows ==
    ASSUME Shapes
    PROVE  \A k \in DOMAIN outbox : outbox[k].event \in Events /\ outbox[k].projected \in BOOLEAN
<1> TAKE k \in DOMAIN outbox
<1>1. outbox \in Seq(Row)
  BY DEF Shapes
<1>2. outbox[k] \in Row
  BY <1>1
<1> QED BY <1>2 DEF Row

\* A step of requests that nobody marks a row in.
LEMMA IdleKeeps ==
    ASSUME AuditTypeOK, Shapes, Projecting, Keeping,
           UNCHANGED <<trail, buffer, faults, acked, lost, outbox>>,
           \A q \in Requests :
              /\ req[q].pc = "mark" => req'[q].pc = "mark" /\ req'[q].row = req[q].row
              /\ req'[q].pc = "mark" => req[q].pc = "mark" /\ req'[q].row = req[q].row
              /\ req'[q].pc \in Untold => req[q].pc \in Untold
    PROVE  Keeping'
<1>1. \A k : Marking(k) => Marking(k)'
  BY DEF Marking
<1>3. \A k \in DOMAIN outbox : outbox[k].projected \in BOOLEAN
  BY RowsAreRows
<1>4. \A k \in DOMAIN outbox :
         \/ outbox'[k].projected /\ (outbox[k].projected \/ Marking(k))
         \/ ~outbox'[k].projected /\ ~outbox[k].projected /\ (Marking(k) => Marking(k)')
  BY <1>1, <1>3
<1>5. DOMAIN outbox \subseteq DOMAIN outbox' /\ DOMAIN outbox' \ DOMAIN outbox = {}
  OBVIOUS
<1>6. /\ \A k \in DOMAIN outbox : outbox'[k].event = outbox[k].event
      /\ UNCHANGED <<trail, buffer, faults, acked, lost>>
  OBVIOUS
<1> QED BY <1>4, <1>5, <1>6, QuietKeeps

LEMMA QuietStepsKeep ==
    ASSUME AuditTypeOK, Shapes, Exchanging, Projecting, Keeping, NEW r \in Requests,
           \/ Arrive(r) \/ Register(r) \/ Exchange(r) \/ Decline(r) \/ ReadBack(r)
           \/ TakeRow(r) \/ NothingPending(r) \/ Mark(r) \/ Revoke(r) \/ Authenticate(r)
    PROVE  Keeping'
<1>1. outbox \in Seq(Row) /\ DOMAIN outbox = 1..Len(outbox)
  BY DEF Shapes
<1>2. ASSUME NEW x \in Pcs \ {"mark"}, Moved(r, x), req[r].pc # "mark",
             x \in Untold => req[r].pc \in Untold,
             UNCHANGED <<trail, buffer, faults, acked, lost, outbox>>
      PROVE  Keeping'
  <2>1. \A q \in Requests :
           /\ req[q].pc = "mark" => req'[q].pc = "mark" /\ req'[q].row = req[q].row
           /\ req'[q].pc = "mark" => req[q].pc = "mark" /\ req'[q].row = req[q].row
           /\ req'[q].pc \in Untold => req[q].pc \in Untold
    BY <1>2 DEF Moved
  <2> QED BY <1>2, <2>1, IdleKeeps
<1>3. CASE Arrive(r)
  <2>1. UNCHANGED <<trail, buffer, faults, acked, lost, outbox>>
    BY <1>3 DEF Arrive, trailVars
  <2>2. /\ req[r].pc = "new" /\ \A q \in Requests : q # r => req'[q] = req[q]
        /\ req'[r].pc \in {"register", "authenticate", "revoke"}
    BY <1>3, ArriveShape
  <2>3. \A q \in Requests :
           /\ req[q].pc = "mark" => req'[q].pc = "mark" /\ req'[q].row = req[q].row
           /\ req'[q].pc = "mark" => req[q].pc = "mark" /\ req'[q].row = req[q].row
           /\ req'[q].pc \in Untold => req[q].pc \in Untold
    BY <2>2 DEF Untold
  <2> QED BY <2>1, <2>3, IdleKeeps
<1>4. CASE Register(r)
  <2>1. UNCHANGED <<trail, buffer, faults, acked, lost, outbox>>
    BY <1>4 DEF Register, trailVars
  <2>2. req[r].pc = "register" /\ \E x \in {"exchange", "limited"} : Moved(r, x)
    BY <1>4, CountShape
  <2> QED BY <1>2, <2>1, <2>2 DEF Pcs, Untold
<1>5. CASE Decline(r) \/ ReadBack(r) \/ NothingPending(r) \/ Revoke(r) \/ Authenticate(r)
  <2>1. UNCHANGED <<trail, buffer, faults, acked, lost, outbox>>
    BY <1>5 DEF Decline, ReadBack, NothingPending, Revoke, Authenticate, trailVars
  <2>2. /\ req[r].pc # "mark"
        /\ \E x \in {"declined", "flush", "error", "done", "revoked", "served", "denied"} :
              Moved(r, x) /\ (x \in Untold => req[r].pc \in Untold)
    BY <1>5, StepsMove DEF Untold
  <2> QED BY <1>2, <2>1, <2>2 DEF Pcs
<1>6. CASE TakeRow(r)
  <2>1. UNCHANGED <<trail, buffer, faults, acked, lost, outbox>>
    BY <1>6 DEF TakeRow, trailVars
  <2>2. /\ req[r].pc = "flush" /\ req'[r].pc = "project"
        /\ \A q \in Requests : q # r => req'[q] = req[q]
    BY <1>6, TakeRowMoves
  <2>3. \A q \in Requests :
           /\ req[q].pc = "mark" => req'[q].pc = "mark" /\ req'[q].row = req[q].row
           /\ req'[q].pc = "mark" => req[q].pc = "mark" /\ req'[q].row = req[q].row
           /\ req'[q].pc \in Untold => req[q].pc \in Untold
    BY <2>2 DEF Untold
  <2> QED BY <2>1, <2>3, IdleKeeps
<1>7. ASSUME NEW x \in {"readBack", "flush"}, Moved(r, x)
      PROVE  \A q \in Requests :
               /\ req'[q].pc = "mark" => req[q].pc = "mark" /\ req'[q].row = req[q].row
               /\ req'[q].pc \in Untold => req[q].pc \in Untold
  BY <1>7 DEF Moved, Untold
<1>8. CASE Exchange(r)
  <2> DEFINE new == [event |-> Says(r, "exchanged"), projected |-> FALSE]
  <2>1. UNCHANGED <<trail, buffer, faults, acked, lost>> /\ outbox' = Append(outbox, new)
    BY <1>8 DEF Exchange, trailVars
  <2>2. req[r].pc = "exchange" /\ \E x \in {"readBack", "flush"} : Moved(r, x)
    BY <1>8, StepsMove
  <2>3. new \in Row /\ new.event = Says(r, "exchanged") /\ ~new.projected
    BY RequestsAreWellFormed DEF Row, Says, Sayings
  <2>4. ~HasRow(Says(r, "exchanged"))
    <3>1. r \in Exchanges
      BY <2>2, KindOfPc
    <3>2. sessions[r] = None
      BY <2>2, <3>1 DEF Exchanging, Asking
    <3> QED BY <3>1, <3>2 DEF Exchanging
  <2> HIDE DEF new
  <2>5. /\ outbox' \in Seq(Row) /\ DOMAIN outbox' = 1..(Len(outbox) + 1) /\ Len(outbox) \in Nat
        /\ \A k \in DOMAIN outbox : outbox'[k] = outbox[k]
        /\ outbox'[Len(outbox) + 1] = new
    BY <1>1, <2>1, <2>3, AppendProperties
  <2>6. DOMAIN outbox \subseteq DOMAIN outbox' /\ DOMAIN outbox' \ DOMAIN outbox = {Len(outbox) + 1}
    BY <1>1, <2>5
  <2>7. \A k : Marking(k) => Marking(k)'
    BY <2>2 DEF Marking, Moved
  <2>8. \A k \in DOMAIN outbox : outbox[k].projected \in BOOLEAN
    BY RowsAreRows
  <2>9. \A k \in DOMAIN outbox :
           /\ outbox'[k].event = outbox[k].event
           /\ \/ outbox'[k].projected /\ (outbox[k].projected \/ Marking(k))
              \/ ~outbox'[k].projected /\ ~outbox[k].projected /\ (Marking(k) => Marking(k)')
    BY <2>5, <2>7, <2>8
  <2>10. \A k \in DOMAIN outbox' \ DOMAIN outbox :
            /\ ~outbox'[k].projected
            /\ \E q \in Requests : /\ outbox'[k].event = Says(q, "exchanged")
                                 /\ ~HasRow(Says(q, "exchanged"))
    BY <2>3, <2>4, <2>5, <2>6
  <2>11. \A q \in Requests :
               /\ req'[q].pc = "mark" => req[q].pc = "mark" /\ req'[q].row = req[q].row
               /\ req'[q].pc \in Untold => req[q].pc \in Untold
    BY <1>7, <2>2
  <2> QED BY <2>1, <2>6, <2>9, <2>10, <2>11, QuietKeeps
<1>9. CASE Mark(r)
  <2>1. UNCHANGED <<trail, buffer, faults, acked, lost>>
    BY <1>9 DEF Mark, trailVars
  <2>2. req[r].pc = "mark" /\ Moved(r, "flush")
    BY <1>9, StepsMove
  <2>3. /\ outbox' \in Seq(Row) /\ DOMAIN outbox' = DOMAIN outbox
        /\ \A k \in DOMAIN outbox :
              /\ outbox'[k].event = outbox[k].event
              /\ k # req[r].row => outbox'[k] = outbox[k]
              /\ k = req[r].row => outbox'[k].projected
    BY <1>1, <1>9, MarkedRow
  <2>4. Marking(req[r].row)
    BY <2>2 DEF Marking
  <2>5. \A k : k # req[r].row /\ Marking(k) => Marking(k)'
    BY <2>2 DEF Marking, Moved
  <2>6. \A k \in DOMAIN outbox : outbox[k].projected \in BOOLEAN
    BY RowsAreRows
  <2>7. \A k \in DOMAIN outbox :
           /\ outbox'[k].event = outbox[k].event
           /\ \/ outbox'[k].projected /\ (outbox[k].projected \/ Marking(k))
              \/ ~outbox'[k].projected /\ ~outbox[k].projected /\ (Marking(k) => Marking(k)')
    BY <2>3, <2>4, <2>5, <2>6
  <2>8. \A q \in Requests :
               /\ req'[q].pc = "mark" => req[q].pc = "mark" /\ req'[q].row = req[q].row
               /\ req'[q].pc \in Untold => req[q].pc \in Untold
    BY <1>7, <2>2
  <2> QED BY <2>1, <2>3, <2>7, <2>8, QuietKeeps
<1> QED BY <1>3, <1>4, <1>5, <1>6, <1>8, <1>9

\* What leaves a buffer from the front, and what is put at its end.
LEMMA DropKeeps ==
    ASSUME AuditTypeOK, OnePlace, NEW p \in Processes, NEW n \in 0..Len(buffer[p]),
           buffer' = [buffer EXCEPT ![p] = SubSeq(buffer[p], n + 1, Len(buffer[p]))]
    PROVE  /\ OnePlace'
           /\ \A e : Waiting(e)' => Waiting(e)
           /\ \A e : Waiting(e) => Waiting(e)' \/ \E i \in 1..n : e = buffer[p][i]
           /\ \A e : (\E i \in 1..n : e = buffer[p][i]) => ~Waiting(e)'
<1> DEFINE rest == SubSeq(buffer[p], n + 1, Len(buffer[p]))
<1>1. /\ buffer \in [Processes -> Seq(Events)] /\ buffer[p] \in Seq(Events)
      /\ n \in Nat /\ Len(buffer[p]) \in Nat /\ n <= Len(buffer[p])
      /\ \A q \in Processes : DOMAIN buffer[q] = 1..Len(buffer[q])
  BY DEF AuditTypeOK
<1>2. /\ rest \in Seq(Events) /\ Len(rest) = Len(buffer[p]) - n
      /\ \A i \in 1..Len(rest) : rest[i] = buffer[p][n + i]
  <2>1. \A i \in (n + 1)..Len(buffer[p]) : buffer[p][i] \in Events
    BY <1>1
  <2>2. /\ rest \in Seq(Events)
        /\ Len(rest) = IF n + 1 <= Len(buffer[p]) THEN Len(buffer[p]) - (n + 1) + 1 ELSE 0
        /\ \A i \in 1..(Len(buffer[p]) - (n + 1) + 1) : rest[i] = buffer[p][(n + 1) + i - 1]
    BY <1>1, <2>1, SubSeqProperties
  <2> HIDE DEF rest
  <2>3. Len(rest) = Len(buffer[p]) - n
    BY <1>1, <2>2
  <2>4. \A i \in 1..Len(rest) : rest[i] = buffer[p][n + i]
    <3> TAKE i \in 1..Len(rest)
    <3>1. i \in 1..(Len(buffer[p]) - (n + 1) + 1) /\ (n + 1) + i - 1 = n + i
      BY <1>1, <2>3
    <3> QED BY <2>2, <3>1
  <2> QED BY <2>2, <2>3, <2>4
<1>3. buffer'[p] = rest /\ \A q \in Processes : q # p => buffer'[q] = buffer[q]
  BY <1>1
<1> HIDE DEF rest
<1>4. DOMAIN rest = 1..(Len(buffer[p]) - n) /\ \A i \in DOMAIN rest : n + i \in DOMAIN buffer[p]
  BY <1>1, <1>2
<1> DEFINE was(q, i) == IF q = p THEN n + i ELSE i
<1>5. \A q \in Processes : \A i \in DOMAIN buffer'[q] :
         was(q, i) \in DOMAIN buffer[q] /\ buffer'[q][i] = buffer[q][was(q, i)]
  BY <1>2, <1>3, <1>4
<1>6. \A q \in Processes : \A i, j \in DOMAIN buffer'[q] : was(q, i) = was(q, j) => i = j
  BY <1>1, <1>3, <1>4
<1> HIDE DEF was
<1>7. OnePlace'
  <2> SUFFICES ASSUME NEW q \in Processes, NEW u \in Processes, NEW i \in DOMAIN buffer'[q],
                      NEW j \in DOMAIN buffer'[u], buffer'[q][i] = buffer'[u][j]
               PROVE  q = u /\ i = j
    BY DEF OnePlace
  <2>1. q = u /\ was(q, i) = was(u, j)
    BY <1>5 DEF OnePlace
  <2> QED BY <1>6, <2>1
<1>8. \A e : Waiting(e)' => Waiting(e)
  BY <1>5 DEF Waiting
<1>9. ASSUME NEW e, Waiting(e)
      PROVE  Waiting(e)' \/ \E i \in 1..n : e = buffer[p][i]
  <2>1. PICK q \in Processes : \E i \in DOMAIN buffer[q] : buffer[q][i] = e
    BY <1>9 DEF Waiting
  <2>2. PICK i \in DOMAIN buffer[q] : buffer[q][i] = e
    BY <2>1
  <2>3. CASE q # p
    BY <1>3, <2>2, <2>3 DEF Waiting
  <2>4. CASE q = p /\ i \in 1..n
    BY <2>2, <2>4
  <2>5. CASE q = p /\ i \notin 1..n
    <3>1. i - n \in DOMAIN rest /\ n + (i - n) = i
      BY <1>1, <1>4, <2>2, <2>5
    <3>2. buffer'[p][i - n] = e
      BY <1>2, <1>3, <1>4, <2>2, <2>5, <3>1
    <3> QED BY <1>3, <3>1, <3>2 DEF Waiting
  <2> QED BY <2>3, <2>4, <2>5
<1>10. ASSUME NEW e, NEW i \in 1..n, e = buffer[p][i], Waiting(e)'
       PROVE  FALSE
  <2>1. PICK q \in Processes : \E j \in DOMAIN buffer'[q] : buffer'[q][j] = e
    BY <1>10 DEF Waiting
  <2>2. PICK j \in DOMAIN buffer'[q] : buffer'[q][j] = e
    BY <2>1
  <2>3. was(q, j) \in DOMAIN buffer[q] /\ buffer[q][was(q, j)] = e /\ i \in DOMAIN buffer[p]
    BY <1>1, <1>5, <2>2
  <2>4. q = p /\ was(q, j) = i
    BY <1>10, <2>3 DEF OnePlace
  <2>5. j \in 1..(Len(buffer[p]) - n) /\ n + j = i
    BY <1>3, <1>4, <2>2, <2>4 DEF was
  <2> QED BY <1>1, <2>5
<1> QED BY <1>7, <1>8, <1>9, <1>10

LEMMA PutKeeps ==
    ASSUME AuditTypeOK, OnePlace, NEW p \in Processes, NEW d \in Events, ~Waiting(d),
           buffer' = [buffer EXCEPT ![p] = Append(@, d)]
    PROVE  /\ OnePlace'
           /\ \A e : Waiting(e)' => Waiting(e) \/ e = d
           /\ \A e : Waiting(e) => Waiting(e)'
           /\ \A e : e = d => Waiting(e)'
<1>1. /\ buffer \in [Processes -> Seq(Events)] /\ buffer[p] \in Seq(Events)
      /\ Len(buffer[p]) \in Nat
      /\ \A q \in Processes : DOMAIN buffer[q] = 1..Len(buffer[q])
  BY DEF AuditTypeOK
<1>2. buffer'[p] = Append(buffer[p], d) /\ \A q \in Processes : q # p => buffer'[q] = buffer[q]
  BY <1>1
<1> DEFINE last == Len(buffer[p]) + 1
<1>3. /\ DOMAIN buffer'[p] = DOMAIN buffer[p] \cup {last} /\ last \notin DOMAIN buffer[p]
      /\ \A i \in DOMAIN buffer[p] : buffer'[p][i] = buffer[p][i]
      /\ buffer'[p][last] = d
  <2>1. /\ buffer'[p] \in Seq(Events) /\ Len(buffer'[p]) = Len(buffer[p]) + 1
        /\ \A i \in 1..Len(buffer[p]) : buffer'[p][i] = buffer[p][i]
        /\ buffer'[p][Len(buffer[p]) + 1] = d
    BY <1>1, <1>2, AppendProperties
  <2> QED BY <1>1, <2>1
<1> HIDE DEF last
<1>4. \A q \in Processes : \A i \in DOMAIN buffer'[q] :
         \/ i \in DOMAIN buffer[q] /\ buffer'[q][i] = buffer[q][i]
         \/ q = p /\ i = last /\ buffer'[q][i] = d
  BY <1>2, <1>3
<1>5. \A q \in Processes : \A i \in DOMAIN buffer[q] :
         i \in DOMAIN buffer'[q] /\ buffer'[q][i] = buffer[q][i]
  BY <1>2, <1>3
<1>6. \A q \in Processes : \A i \in DOMAIN buffer[q] : buffer[q][i] # d
  BY DEF Waiting
<1>7. OnePlace'
  <2> SUFFICES ASSUME NEW q \in Processes, NEW u \in Processes, NEW i \in DOMAIN buffer'[q],
                      NEW j \in DOMAIN buffer'[u], buffer'[q][i] = buffer'[u][j]
               PROVE  q = u /\ i = j
    BY DEF OnePlace
  <2> QED BY <1>4, <1>6 DEF OnePlace
<1>8. \A e : Waiting(e)' => Waiting(e) \/ e = d
  BY <1>4 DEF Waiting
<1>9. \A e : Waiting(e) => Waiting(e)'
  BY <1>5 DEF Waiting
<1>10. \A e : e = d => Waiting(e)'
  BY <1>3 DEF Waiting
<1> QED BY <1>7, <1>8, <1>9, <1>10

\* What an append does to the file, to the buffers and to what was accepted.
Appended(e) == /\ Adds({e}) /\ e \in Recorded'
               /\ UNCHANGED <<faults, buffer, lost>> /\ acked' = acked \cup {e}
Raised(e) == /\ Adds({e}) /\ faults' = faults + 1
             /\ UNCHANGED <<buffer, acked, lost>>
Refused == UNCHANGED <<trail, faults, buffer, acked, lost>>
Buffered(p, e) == /\ UNCHANGED <<trail, faults, lost>> /\ acked' = acked \cup {e}
                  /\ buffer' = [buffer EXCEPT ![p] = Append(@, e)]

LEMMA AppendAdds ==
    ASSUME AuditTypeOK, ChainInv, NEW p \in Processes, NEW e \in Events, NEW risk,
           NEW outcome \in {"ok", "refused", "failed"}, AppendEvent(p, e, risk, outcome)
    PROVE  \/ outcome = "ok" /\ Appended(e)
           \/ outcome = "failed" /\ Raised(e)
           \/ outcome = "refused" /\ Refused
           \/ outcome = "ok" /\ Buffered(p, e) /\ risk # "high"
<1>1. lost' = lost /\ acked' = IF outcome = "ok" THEN acked \cup {e} ELSE acked
  BY DEF AppendEvent
<1>2. CASE outcome = "ok" /\ Written(p, e) /\ buffer' = buffer
  <2>1. trail' = Append(trail, Record(p, e)) /\ faults' = faults
    BY <1>2 DEF Written
  <2>2. Adds({e}) /\ e \in Recorded'
    BY <2>1, RecordAdds
  <2> QED BY <1>1, <1>2, <2>1, <2>2 DEF Appended
<1>3. CASE outcome = "failed" /\ WriteRaises(p, e) /\ buffer' = buffer
  <2>1. trail' \in Remains(p, e) /\ faults' = faults + 1
    BY <1>3 DEF WriteRaises
  <2>2. Adds({e})
    BY <2>1, RemainsAdd
  <2> QED BY <1>1, <1>3, <2>1, <2>2 DEF Raised
<1>4. CASE outcome = "refused" /\ UNCHANGED <<trail, faults, buffer>>
  BY <1>1, <1>4 DEF Refused
<1>5. CASE /\ outcome = "ok" /\ ~available[p] /\ ~Refuses(p, risk)
           /\ buffer' = [buffer EXCEPT ![p] = Append(@, e)] /\ UNCHANGED <<trail, faults>>
  <2>1. risk # "high"
    BY <1>5 DEF Refuses
  <2> QED BY <1>1, <1>5, <2>1 DEF Buffered
<1> QED BY <1>2, <1>3, <1>4, <1>5 DEF AppendEvent

\* A step that leaves the file alone; what comes to wait was just told.
LEMMA WaitingKeeps ==
    ASSUME AuditTypeOK, Exchanging, Keeping, UNCHANGED <<trail, outbox, faults, lost>>, OnePlace',
           \A e \in acked' : e \in acked \/ Waiting(e)',
           \A e : Waiting(e) => Waiting(e)',
           \A e : Waiting(e)' => Waiting(e) \/ (Times(e) = 0 /\ JustTold(e)),
           \A k : Marking(k) => Marking(k)',
           \A q \in Requests :
              /\ req'[q].pc \in Untold => req[q].pc \in Untold
              /\ req'[q].pc = "mark" => \/ req[q].pc = "mark" /\ req'[q].row = req[q].row
                                        \/ outbox[req'[q].row].event \in Recorded'
    PROVE  Keeping'
<1>1. PICK S \in SUBSET Events : \A e : e \notin S
  <2>1. {} \in SUBSET Events /\ \A e : e \notin {}
    OBVIOUS
  <2> QED BY <2>1, Zenon
<1>2. trail \in Seq(Lines) /\ trail' = trail
  BY DEF AuditTypeOK
<1>3. \A e : Times(e)' = Times(e)
  BY <1>2, NothingAdded
<1>4. \A e : Times(e) \in Nat
  BY <1>2, RecordsAre
<1>5. Adds(S)
  <2>1. Recorded' = Recorded
    BY <1>2 DEF Recorded
  <2>2. \A e : Times(e)' \in Nat /\ Times(e)' <= Times(e) + 1
    BY <1>3, <1>4
  <2> QED BY <1>2, <1>3, <2>1, <2>2 DEF Adds
<1>6. \A e : Waiting(e)' => Waiting(e) \/ (Times(e)' = 0 /\ JustTold(e))
  BY <1>3
<1>7. /\ outbox' = outbox /\ faults' = faults
      /\ \A e \in acked' \ lost' : e \in acked \ lost \/ e \in Recorded' \/ Waiting(e)'
  OBVIOUS
<1> QED BY <1>1, <1>5, <1>6, <1>7, AdditionsKeep

\* Who projects a row is alone: nobody marks one.
LEMMA NobodyMarks ==
    ASSUME Projecting, NEW r \in Requests, req[r].pc = "project"
    PROVE  \A q \in Requests : req[q].pc # "mark"
  BY DEF Projecting

LEMMA ProjectKeeps ==
    ASSUME AuditTypeOK, ChainInv, Shapes, Exchanging, Projecting, Keeping,
           NEW r \in Requests, Project(r)
    PROVE  Keeping'
<1>1. req[r].pc = "project" /\ outbox' = outbox
  BY StepsMove DEF Project
<1>2. PICK p \in Processes : req[r].on = p
  BY <1>1, KindOfPc
<1>3. PICK k \in DOMAIN outbox : req[r].row = k /\ ~outbox[k].projected
  BY <1>1 DEF Projecting
<1>4. PICK e \in Events : outbox[k].event = e
  BY <1>1, <1>3, RowEvents
<1>5. PICK outcome \in {"ok", "refused", "failed"} :
         AppendEvent(p, e, "high", outcome) /\ GoTo(r, IF outcome = "ok" THEN "mark" ELSE "done")
  BY <1>2, <1>3, <1>4 DEF Project
<1>6. Moved(r, IF outcome = "ok" THEN "mark" ELSE "done")
  <2>1. req \in [Requests -> Request] /\ (IF outcome = "ok" THEN "mark" ELSE "done") \in Pcs
    BY DEF Shapes, Pcs
  <2> QED BY <1>5, <2>1, GoToMoves
<1>7. /\ \A j : ~Marking(j)
      /\ \A q \in Requests : req'[q].pc = "mark" => q = r /\ outcome = "ok" /\ req'[r].row = k
      /\ \A q \in Requests : req'[q].pc \in Untold => req[q].pc \in Untold
  <2>1. \A q \in Requests : req[q].pc # "mark"
    BY <1>1, NobodyMarks
  <2> QED BY <1>3, <1>6, <2>1 DEF Marking, Moved, Untold
<1>8. HasRow(e) /\ ~Waiting(e) /\ Times(e) <= faults /\ \A j \in DOMAIN outbox : outbox[j].event = e => j = k
  <2>1. PICK q \in Exchanges : e = Says(q, "exchanged")
    BY <1>4 DEF Exchanging
  <2>2. ~Waiting(e)
    BY <2>1 DEF Keeping, Unsaid, Exchanges
  <2>3. Times(e) <= faults
    BY <1>3, <1>4, <1>7 DEF Keeping, RowsKept
  <2> QED BY <1>4, <2>2, <2>3 DEF HasRow, Exchanging
<1>9. OnePlace
  BY DEF Keeping
<1>10. CASE outcome = "ok" /\ Appended(e)
  <2>1. OnePlace' /\ \A d : Waiting(d)' <=> Waiting(d)
    BY <1>9, <1>10 DEF OnePlace, Waiting, Appended
  <2>2. Marking(k)'
    BY <1>3, <1>6, <1>10 DEF Marking, Moved
  <2>3. outbox[k].event \in Recorded'
    BY <1>4, <1>10 DEF Appended
  <2> QED BY <1>1, <1>4, <1>7, <1>8, <1>10, <2>1, <2>2, <2>3, AdditionsKeep DEF Appended
<1>11. CASE outcome = "failed" /\ Raised(e)
  <2>1. OnePlace' /\ \A d : Waiting(d)' <=> Waiting(d)
    BY <1>9, <1>11 DEF OnePlace, Waiting, Raised
  <2> QED BY <1>1, <1>4, <1>7, <1>8, <1>11, <2>1, AdditionsKeep DEF Raised
<1>12. CASE outcome = "refused" /\ Refused
  <2>1. OnePlace' /\ \A d : Waiting(d)' <=> Waiting(d)
    BY <1>9, <1>12 DEF OnePlace, Waiting, Refused
  <2> QED BY <1>1, <1>7, <1>12, <2>1, WaitingKeeps DEF Refused
<1>13. PICK risk : risk = "high" /\ AppendEvent(p, e, risk, outcome)
  BY <1>5
<1> QED BY <1>10, <1>11, <1>12, <1>13, AppendAdds

LEMMA TellKeeps ==
    ASSUME AuditTypeOK, ChainInv, Shapes, Exchanging, Projecting, Keeping,
           NEW r \in Requests, Tell(r)
    PROVE  Keeping'
<1>1. PICK w \in {"limited", "declined", "revoked", "denied"} : req[r].pc = w
  BY TellMoves
<1>2. outbox' = outbox
  BY DEF Tell
<1>3. PICK p \in Processes : req[r].on = p
  BY <1>1, KindOfPc
<1>4. PICK e \in Events : e = Says(r, w)
  BY RequestsAreWellFormed DEF Says, Sayings
<1>5. PICK outcome \in {"ok", "refused", "failed"} :
         /\ AppendEvent(p, e, Tells[w].risk, outcome)
         /\ Moved(r, IF outcome = "ok" THEN Tells[w].then ELSE "error")
  BY <1>1, <1>3, <1>4, TellMoves
<1>6. req'[r].pc \in {"done", "refused", "error"} /\ \A q \in Requests : q # r => req'[q] = req[q]
  BY <1>1, <1>5, TellMoves DEF Moved
<1>7. /\ \A j : Marking(j) => Marking(j)'
      /\ \A q \in Requests : req'[q].pc = "mark" => req[q].pc = "mark" /\ req'[q].row = req[q].row
      /\ \A q \in Requests : req'[q].pc \in Untold => req[q].pc \in Untold
  BY <1>1, <1>6 DEF Marking, Untold
<1>8. JustTold(e)
  BY <1>1, <1>4, <1>6 DEF JustTold, Untold, Sayings
<1>9. Times(e) = 0 /\ ~Waiting(e)
  BY <1>1, <1>4 DEF Keeping, Unsaid, Untold, Sayings
<1>10. \A j \in DOMAIN outbox : outbox[j].event # e
  BY <1>4 DEF Exchanging, Says
<1>11. OnePlace /\ faults \in Nat /\ 0 <= faults
  BY SinksAreReal DEF Keeping, AuditTypeOK
<1>12. CASE outcome = "ok" /\ Appended(e)
  <2>1. OnePlace' /\ \A d : Waiting(d)' <=> Waiting(d)
    BY <1>11, <1>12 DEF OnePlace, Waiting, Appended
  <2>2. Times(e) <= faults
    BY <1>9, <1>11
  <2> QED BY <1>2, <1>7, <1>8, <1>9, <1>10, <1>12, <2>1, <2>2, AdditionsKeep DEF Appended
<1>13. CASE outcome = "failed" /\ Raised(e)
  <2>1. OnePlace' /\ \A d : Waiting(d)' <=> Waiting(d)
    BY <1>11, <1>13 DEF OnePlace, Waiting, Raised
  <2> QED BY <1>2, <1>7, <1>8, <1>13, <2>1, AdditionsKeep DEF Raised
<1>14. CASE outcome = "refused" /\ Refused
  <2>1. OnePlace' /\ \A d : Waiting(d)' <=> Waiting(d)
    BY <1>11, <1>14 DEF OnePlace, Waiting, Refused
  <2> QED BY <1>2, <1>7, <1>14, <2>1, WaitingKeeps DEF Refused
<1>15. CASE outcome = "ok" /\ Buffered(p, e)
  <2>1. /\ OnePlace'
        /\ \A d : Waiting(d)' => Waiting(d) \/ d = e
        /\ \A d : Waiting(d) => Waiting(d)'
        /\ \A d : d = e => Waiting(d)'
    BY <1>9, <1>11, <1>15, PutKeeps DEF Buffered
  <2>2. \A d : Waiting(d)' => Waiting(d) \/ (Times(d) = 0 /\ JustTold(d))
    <3> SUFFICES ASSUME NEW d, Waiting(d)', ~Waiting(d)
                 PROVE  Times(d) = 0 /\ JustTold(d)
      OBVIOUS
    <3>1. d = e
      BY <2>1
    <3> QED BY <1>8, <1>9, <3>1
  <2>3. \A d \in acked' : d \in acked \/ Waiting(d)'
    BY <1>15, <2>1 DEF Buffered
  <2> QED BY <1>2, <1>7, <1>15, <2>1, <2>2, <2>3, WaitingKeeps DEF Buffered
<1> QED BY <1>5, <1>12, <1>13, <1>14, <1>15, AppendAdds

\* A flush: what it writes waited, in that buffer only.
LEMMA FlushingKeeps ==
    ASSUME AuditTypeOK, ChainInv, Exchanging, Keeping, NEW p \in Processes, FlushBuffer(p),
           UNCHANGED <<outbox, req>>
    PROVE  Keeping'
<1>1. acked' = acked /\ lost' = lost /\ OnePlace /\ FewTimes /\ Unsaid
  BY DEF FlushBuffer, Keeping
<1>2. PICK n \in 0..Len(buffer[p]) :
             /\ buffer' = [buffer EXCEPT ![p] = SubSeq(buffer[p], n + 1, Len(buffer[p]))]
             /\ \A i \in 1..n : buffer[p][i] \in Recorded'
             /\ \/ faults' = faults /\ n = Len(buffer[p]) /\ Adds({buffer[p][i] : i \in 1..n})
                \/ /\ faults' = faults + 1 /\ n < Len(buffer[p])
                   /\ Adds({buffer[p][i] : i \in 1..(n + 1)})
  BY <1>1, FlushAdds
<1>3. /\ OnePlace'
      /\ \A e : Waiting(e)' => Waiting(e)
      /\ \A e : Waiting(e) => Waiting(e)' \/ \E i \in 1..n : e = buffer[p][i]
      /\ \A e : (\E i \in 1..n : e = buffer[p][i]) => ~Waiting(e)'
  BY <1>1, <1>2, DropKeeps
<1>4. \A e : Waiting(e) => Waiting(e)' \/ e \in Recorded' \/ e \in lost'
  BY <1>2, <1>3
<1>5. /\ \A j : Marking(j) => Marking(j)'
      /\ \A q \in Requests : /\ req'[q].pc \in Untold => req[q].pc \in Untold
                             /\ req'[q].pc = "mark" => req[q].pc = "mark" /\ req'[q].row = req[q].row
  BY DEF Marking
<1>6. buffer[p] \in Seq(Events) /\ Len(buffer[p]) \in Nat /\ n \in Nat
  BY DEF AuditTypeOK
<1>7. PICK m \in {n, n + 1} : /\ Adds({buffer[p][i] : i \in 1..m}) /\ m <= Len(buffer[p])
                              /\ \/ faults' = faults /\ m = n
                                 \/ faults' = faults + 1
  BY <1>2, <1>6
<1>8. PICK S : S = {buffer[p][i] : i \in 1..m}
  OBVIOUS
<1>9. \A e \in S : e \in Events /\ Waiting(e) /\ \E i \in 1..m : e = buffer[p][i]
  <2> TAKE e \in S
  <2>1. PICK i \in 1..m : e = buffer[p][i]
    BY <1>8
  <2>2. i \in DOMAIN buffer[p] /\ i \in 1..Len(buffer[p])
    BY <1>6, <1>7
  <2>3. e \in Events /\ Waiting(e)
    BY <1>6, <2>1, <2>2 DEF Waiting
  <2> QED BY <2>1, <2>3
<1>10. Adds(S) /\ S \in SUBSET Events
  BY <1>7, <1>8, <1>9
<1>11. \A e \in S : \/ faults' = faults + 1
                    \/ /\ Times(e) <= faults /\ ~Waiting(e)'
                       /\ \A k \in DOMAIN outbox : outbox[k].event = e => Marking(k)'
  <2> SUFFICES ASSUME NEW e \in S, faults' # faults + 1
               PROVE  /\ Times(e) <= faults /\ ~Waiting(e)'
                      /\ \A k \in DOMAIN outbox : outbox[k].event # e
    OBVIOUS
  <2>1. Times(e) <= faults
    BY <1>1, <1>9 DEF FewTimes
  <2>2. ~Waiting(e)'
    BY <1>3, <1>7, <1>9
  <2>3. \A k \in DOMAIN outbox : outbox[k].event # e
    BY <1>1, <1>9 DEF Exchanging, Exchanges, Unsaid
  <2> QED BY <2>1, <2>2, <2>3
<1>12. faults' = faults \/ faults' = faults + 1
  BY <1>7
<1> QED BY <1>1, <1>3, <1>4, <1>5, <1>9, <1>10, <1>11, <1>12, AdditionsKeep

\* A process dies: what it may have been writing is a pending row or was being told, what
\* waited in it is lost.
LEMMA CrashKeeps ==
    ASSUME AuditTypeOK, ChainInv, Shapes, Exchanging, Projecting, Keeping, Crash
    PROVE  Keeping'
<1>1. PICK p \in Processes :
         /\ Restarted(p)
         /\ \A q \in Requests : req'[q].pc = IF q \in Unfinished(p) THEN "error" ELSE req[q].pc
         /\ \/ DiesIdle(p)
            \/ \E r \in Unfinished(p) : \E e \in Writing(r) : DiesWriting(p, e)
  BY CrashMoves
<1>2. outbox' = outbox /\ \A q \in Requests : req'[q].row = req[q].row
  BY CrashMoves DEF Crash
<1>3. /\ faults' = faults + 1 /\ buffer' = [buffer EXCEPT ![p] = <<>>]
      /\ lost' = lost \cup ToSet(buffer[p]) /\ acked' = acked
  BY <1>1 DEF Restarted
<1>4. buffer[p] \in Seq(Events) /\ Len(buffer[p]) \in Nat /\ trail \in Seq(Lines)
  BY DEF AuditTypeOK
<1>5. PICK n \in 0..Len(buffer[p]) : n = Len(buffer[p])
  BY <1>4
<1>6. SubSeq(buffer[p], n + 1, Len(buffer[p])) = <<>>
  <2>1. \A i \in (n + 1)..Len(buffer[p]) : buffer[p][i] \in Events
    BY <1>4, <1>5
  <2>2. /\ SubSeq(buffer[p], n + 1, Len(buffer[p])) \in Seq(Events)
        /\ Len(SubSeq(buffer[p], n + 1, Len(buffer[p]))) = 0
    BY <1>4, <1>5, <2>1, SubSeqProperties
  <2> QED BY <2>2, EmptySeq
<1>7. /\ OnePlace'
      /\ \A e : Waiting(e)' => Waiting(e)
      /\ \A e : Waiting(e) => Waiting(e)' \/ \E i \in 1..n : e = buffer[p][i]
  <2>1. buffer' = [buffer EXCEPT ![p] = SubSeq(buffer[p], n + 1, Len(buffer[p]))]
    BY <1>3, <1>6
  <2>2. OnePlace
    BY DEF Keeping
  <2> QED BY <2>1, <2>2, DropKeeps
<1>8. \A e : Waiting(e) => Waiting(e)' \/ e \in Recorded' \/ e \in lost'
  <2>1. \A i \in 1..n : buffer[p][i] \in lost'
    BY <1>3, <1>4, <1>5 DEF ToSet
  <2> QED BY <1>7, <2>1
<1>9. \A q \in Requests :
         /\ req'[q].pc \in Untold => req[q].pc \in Untold
         /\ req'[q].pc = "mark" => req[q].pc = "mark" /\ req'[q].row = req[q].row
  BY <1>1, <1>2 DEF Untold
<1>10. \A e \in acked' \ lost' : e \in acked \ lost
  BY <1>3
<1>11. CASE DiesIdle(p)
  <2>1. PICK S \in SUBSET Events : \A e : e \notin S
    <3>1. {} \in SUBSET Events /\ \A e : e \notin {}
      OBVIOUS
    <3> QED BY <3>1, Zenon
  <2>2. trail' = trail
    BY <1>11 DEF DiesIdle
  <2>3. Adds(S)
    <3>1. \A e : Times(e)' = Times(e)
      BY <1>4, <2>2, NothingAdded
    <3>2. \A e : Times(e) \in Nat
      BY <1>4, RecordsAre
    <3>3. Recorded' = Recorded
      BY <2>2 DEF Recorded
    <3>4. \A e : Times(e)' \in Nat /\ Times(e)' <= Times(e) + 1
      BY <3>1, <3>2
    <3> QED BY <1>4, <2>2, <3>1, <3>3, <3>4 DEF Adds
  <2> QED BY <1>2, <1>3, <1>7, <1>8, <1>9, <1>10, <2>1, <2>3, AdditionsKeep
<1>12. ASSUME NEW r \in Unfinished(p), NEW e \in Writing(r), DiesWriting(p, e)
       PROVE  Keeping'
  <2>1. r \in Requests /\ req'[r].pc = "error"
    BY <1>1, <1>12 DEF Unfinished
  <2>2. \/ req[r].pc = "project" /\ outbox[req[r].row].event = e
        \/ \E w \in {"limited", "declined", "revoked", "denied"} : e = Says(r, w)
    BY <1>12 DEF Writing, At, Tells
  <2>3. e \in Events
    <3>1. req[r].pc = "project" => outbox[req[r].row].event \in Events
      BY <2>1, RowEvents
    <3>2. \A w \in {"limited", "declined", "revoked", "denied"} : Says(r, w) \in Events
      BY <2>1, RequestsAreWellFormed DEF Says, Sayings
    <3> QED BY <2>2, <3>1, <3>2
  <2>4. trail' \in Remains(p, e)
    BY <1>12 DEF DiesWriting
  <2>5. Adds({e})
    BY <2>3, <2>4, RemainsAdd
  <2>6. HasRow(e) \/ JustTold(e)
    <3>1. CASE req[r].pc = "project" /\ outbox[req[r].row].event = e
      <4>1. req[r].row \in DOMAIN outbox
        BY <2>1, <3>1 DEF Projecting
      <4> QED BY <3>1, <4>1 DEF HasRow
    <3>2. CASE \E w \in {"limited", "declined", "revoked", "denied"} : e = Says(r, w)
      BY <2>1, <3>2 DEF JustTold, Untold, Sayings
    <3> QED BY <2>2, <3>1, <3>2
  <2>7. \A k \in DOMAIN outbox : ~Marking(k) \/ outbox[k].event # e
    <3>1. CASE req[r].pc = "project"
      BY <2>1, <3>1, NobodyMarks DEF Marking
    <3>2. CASE \E w \in {"limited", "declined", "revoked", "denied"} : e = Says(r, w)
      BY <3>2 DEF Exchanging, Says
    <3> QED BY <2>2, <3>1, <3>2
  <2> QED BY <1>2, <1>3, <1>7, <1>8, <1>9, <1>10, <2>3, <2>5, <2>6, <2>7, AdditionsKeep
<1> QED BY <1>1, <1>11, <1>12

LEMMA KeepingNext ==
    AuditTypeOK /\ ChainInv /\ Shapes /\ Exchanging /\ Projecting /\ Keeping /\ SignNext => Keeping'
<1> SUFFICES ASSUME AuditTypeOK, ChainInv, Shapes, Exchanging, Projecting, Keeping, SignNext
             PROVE  Keeping'
  OBVIOUS
<1>1. CASE Switch
  <2>1. UNCHANGED <<outbox, req>>
    BY <1>1 DEF Switch
  <2>2. PICK p \in Serving : SwitchOff(p) \/ SwitchOn(p) \/ FlushBuffer(p)
    BY <1>1 DEF Switch
  <2>3. p \in Processes
    BY SinksAreReal DEF Serving
  <2>4. CASE SwitchOff(p) \/ SwitchOn(p)
    <3>1. UNCHANGED <<trail, buffer, faults, acked, lost, outbox>>
      BY <2>1, <2>4 DEF SwitchOff, SwitchOn
    <3> QED BY <2>1, <3>1, IdleKeeps
  <2>5. CASE FlushBuffer(p)
    BY <2>1, <2>3, <2>5, FlushingKeeps
  <2> QED BY <2>2, <2>4, <2>5
<1>2. CASE NextWindow \/ Expire
  <2>1. UNCHANGED <<trail, buffer, faults, acked, lost, outbox>> /\ req' = req
    BY <1>2 DEF NextWindow, Expire, trailVars
  <2> QED BY <2>1, IdleKeeps
<1>3. ASSUME NEW r \in Requests,
             \/ Arrive(r) \/ Register(r) \/ Exchange(r) \/ Decline(r) \/ ReadBack(r)
             \/ TakeRow(r) \/ NothingPending(r) \/ Mark(r) \/ Revoke(r) \/ Authenticate(r)
      PROVE  Keeping'
  BY <1>3, QuietStepsKeep
<1>4. ASSUME NEW r \in Requests, Project(r) PROVE Keeping'
  BY <1>4, ProjectKeeps
<1>5. ASSUME NEW r \in Requests, Tell(r) PROVE Keeping'
  BY <1>5, TellKeeps
<1>6. CASE Crash
  BY <1>6, CrashKeeps
<1> QED BY <1>1, <1>2, <1>3, <1>4, <1>5, <1>6 DEF SignNext

-----------------------------------------------------------------------------
(* The invariant and the theorems.                                          *)

LEMMA SignInvInit ==
    SignInit => SignInv
<1> SUFFICES ASSUME SignInit PROVE SignInv
  OBVIOUS
<1>1. AuditTypeOK /\ ChainInv
  BY AuditInit1 DEF SignInit
<1> QED BY <1>1, ShapesInit, ExchangingInit, EndingInit, CountingInit, ProjectingInit, KeepingInit
        DEF SignInv

LEMMA SignInvNext ==
    SignInv /\ [SignNext]_<<trailVars, signVars>> => SignInv'
<1> SUFFICES ASSUME SignInv, [SignNext]_<<trailVars, signVars>> PROVE SignInv'
  OBVIOUS
<1>1. AuditTypeOK /\ Shapes /\ ChainInv /\ Exchanging /\ Ending /\ Counting /\ Projecting /\ Keeping
  BY DEF SignInv
<1>2. ASSUME UNCHANGED trailVars PROVE AuditTypeOK' /\ ChainInv'
  <2>1. AuditTypeOK'
    BY <1>1, <1>2 DEF AuditTypeOK, trailVars
  <2>2. ChainInv'
    BY <1>1, <1>2 DEF ChainInv, trailVars
  <2> QED BY <2>1, <2>2
<1>3. CASE SignNext
  <2>1. AuditTypeOK' /\ ChainInv'
    BY <1>1, <1>2, <1>3, SinkSteps, AuditNext
  <2> QED BY <1>1, <1>3, <2>1, ShapesNext, ExchangingNext, EndingNext, CountingNext,
             ProjectingNext, KeepingNext DEF SignInv
<1>4. CASE UNCHANGED <<trailVars, signVars>>
  <2>1. AuditTypeOK' /\ ChainInv'
    BY <1>2, <1>4
  <2>2. /\ UNCHANGED <<trail, head, available, buffer, restoring, faults, behind, acked, lost>>
        /\ UNCHANGED <<load, store, drills, sessions, invited, outbox, projector, now, counter,
                       admitted, rewound, req, closed>>
    BY <1>4 DEF trailVars, signVars
  <2>3. Shapes'
    BY <1>1, <2>2 DEF Shapes
  <2>4. Exchanging'
    BY <1>1, <2>2 DEF Exchanging, HasRow
  <2>5. Ending'
    BY <1>1, <2>2 DEF Ending, Over
  <2>6. Counting'
    BY <1>1, <2>2 DEF Counting
  <2>7. Projecting'
    BY <1>1, <2>2 DEF Projecting
  <2>8. Keeping'
    BY <1>1, <2>2, IdleKeeps
  <2> QED BY <2>1, <2>3, <2>4, <2>5, <2>6, <2>7, <2>8 DEF SignInv
<1> QED BY <1>3, <1>4

\* The invariant of the sign-in part and its audit trail (api/auth_routes.py,
\* audit/sink.py, audit/outbox.py).
THEOREM SignIsInvariant == SignSpec => []SignInv
  BY SignInvInit, SignInvNext, PTL DEF SignSpec

\* Every variable keeps to its type: sessions and invitations to their states, what
\* is staged to events, the buffers of the sinks to their capacity (sink.py:276).
THEOREM SignInTypes == SignSpec => []SignTypeOK
<1>1. SignInv => SignTypeOK
  <2> SUFFICES ASSUME SignInv PROVE SignTypeOK
    OBVIOUS
  <2>1. AuditTypeOK /\ Shapes
    BY DEF SignInv
  <2>2. \A k \in DOMAIN outbox : outbox[k].event \in Events /\ outbox[k].projected \in BOOLEAN
    BY <2>1, RowsAreRows
  <2> QED BY <2>1, <2>2 DEF SignTypeOK, Shapes
<1> QED BY <1>1, SignIsInvariant, PTL

\* Whatever is written, fails, is torn or restarted, every complete record follows one
\* above it and a link is broken only by a sink the file had left behind (sink.py:241).
THEOREM TrailIsLinked == SignSpec => []TrailHolds
<1>1. SignInv => TrailHolds
  BY ChainIsTrail DEF SignInv
<1> QED BY <1>1, SignIsInvariant, PTL

\* However many requests present an invitation, it has one session and one staged
\* event, those of the request that consumed it (identity_store.py:309).
THEOREM InvitationsAreUsedOnce == SignSpec => []OneSessionPerInvitation
<1>1. SignInv => OneSessionPerInvitation
  <2> SUFFICES ASSUME SignInv, NEW r \in Exchanges
               PROVE  /\ sessions[r] # None <=> invited[TokenOf[r]] = r
                      /\ Cardinality({k \in DOMAIN outbox : outbox[k].event = Says(r, "exchanged")})
                           = IF sessions[r] = None THEN 0 ELSE 1
                      /\ At(r, "done") => invited[TokenOf[r]] = r
    BY DEF OneSessionPerInvitation
  <2>1. /\ sessions[r] # None <=> invited[TokenOf[r]] = r
        /\ sessions[r] # None <=> HasRow(Says(r, "exchanged"))
        /\ req[r].pc \in Granted => sessions[r] # None
        /\ \A j, k \in DOMAIN outbox : outbox[j].event = outbox[k].event => j = k
    BY DEF SignInv, Exchanging
  <2> DEFINE rows == {k \in DOMAIN outbox : outbox[k].event = Says(r, "exchanged")}
  <2>2. CASE sessions[r] = None
    <3>1. rows = {}
      BY <2>1, <2>2 DEF HasRow
    <3>2. Cardinality(rows) = 0
      BY <3>1, FS_EmptySet
    <3> QED BY <2>1, <2>2, <3>2 DEF At, Granted
  <2>3. CASE sessions[r] # None
    <3>1. PICK k \in DOMAIN outbox : outbox[k].event = Says(r, "exchanged")
      BY <2>1, <2>3 DEF HasRow
    <3>2. rows = {k}
      BY <2>1, <3>1
    <3>3. Cardinality(rows) = 1
      BY <3>2, FS_Singleton
    <3> QED BY <2>1, <2>3, <3>3 DEF At
  <2> QED BY <2>2, <2>3
<1> QED BY <1>1, SignIsInvariant, PTL

\* Once a logout was answered, no call that comes later is served with one of the
\* sessions it had to end (identity_store.py:423).
THEOREM RevocationHolds == SignSpec => []RevokedIsRefused
<1>1. SignInv => RevokedIsRefused
  BY DEF SignInv, Ending, RevokedIsRefused, At
<1> QED BY <1>1, SignIsInvariant, PTL

\* The limiter lets Limit attempts through in a window, and in memory as many again
\* for each time the count went back to an older one (rate_limit.py:52).
THEOREM WindowsAreLimited == SignSpec => []WindowLimit
<1>1. SignInv => WindowLimit
  <2> SUFFICES ASSUME SignInv PROVE WindowLimit
    OBVIOUS
  <2>1. /\ Limit \in Nat /\ rewound \in Nat /\ counter.window \in Windows
        /\ counter.attempts \in Nat /\ \A w \in Windows : admitted[w] \in Nat /\ w \in Nat
    BY RequestsAreWellFormed DEF SignInv, Shapes, Windows
  <2>2. Limit * (1 + rewound) = Limit * rewound + Limit /\ Limit * rewound \in Nat
    BY <2>1
  <2> DEFINE n == IF counter.attempts <= Limit THEN counter.attempts ELSE Limit
  <2>3. /\ \A w \in Windows :
             /\ w > counter.window => admitted[w] <= Limit * rewound
             /\ w < counter.window => admitted[w] <= Limit * rewound + Limit
        /\ admitted[counter.window] <= Limit * rewound + n
        /\ store = "postgres" => rewound = 0
    BY DEF SignInv, Counting
  <2>4. n \in Nat /\ n <= Limit
    BY <2>1
  <2> DEFINE most == Limit * rewound
  <2>5. \A w \in Windows : admitted[w] <= most + Limit
    <3> HIDE DEF n, most
    <3> TAKE w \in Windows
    <3>1. most \in Nat /\ admitted[w] \in Nat /\ w \in Nat /\ counter.window \in Nat
      BY <2>1, <2>2 DEF most
    <3>2. /\ w > counter.window => admitted[w] <= most
          /\ w < counter.window => admitted[w] <= most + Limit
          /\ w = counter.window => admitted[w] <= most + n
      BY <2>3 DEF most
    <3> QED BY <2>1, <2>4, <3>1, <3>2
  <2> QED BY <2>2, <2>3, <2>5 DEF WindowLimit
<1> QED BY <1>1, SignIsInvariant, PTL

\* What was accepted is in the file, waits, or was lost with its process; a row marked
\* as projected is in the file; and only a fault writes an event again (outbox.py:199).
THEOREM AcceptedIsKept == SignSpec => []EventsAreKept
<1>1. SignInv => EventsAreKept
  <2> SUFFICES ASSUME SignInv PROVE EventsAreKept
    OBVIOUS
  <2>1. AuditTypeOK /\ Shapes /\ Accepted /\ RowsKept /\ FewTimes
    BY DEF SignInv, Keeping
  <2>2. \A e : Waiting(e) => \E p \in Processes : e \in ToSet(buffer[p])
    BY DEF Waiting, ToSet
  <2>3. \A e \in acked \ lost : e \in Recorded \/ \E p \in Processes : e \in ToSet(buffer[p])
    BY <2>1, <2>2 DEF Accepted
  <2>4. \A k \in DOMAIN outbox : outbox[k].projected => outbox[k].event \in Recorded
    <3> TAKE k \in DOMAIN outbox
    <3>1. PICK e \in Events : outbox[k].event = e
      BY <2>1, RowsAreRows
    <3> QED BY <2>1, <3>1 DEF RowsKept
  <2>5. \A e \in Recorded : Cardinality(RecordsOf(e)) <= 1 + faults
    BY <2>1 DEF FewTimes, Times
  <2> QED BY <2>3, <2>4, <2>5 DEF EventsAreKept
<1> QED BY <1>1, SignIsInvariant, PTL
=============================================================================
