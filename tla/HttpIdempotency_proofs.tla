----------------------- MODULE HttpIdempotency_proofs -----------------------
(***************************************************************************)
(* Proofs about HttpIdempotency, for any sets of keys, contents and        *)
(* requests.                                                               *)
(***************************************************************************)
EXTENDS HttpIdempotency, TLAPS

\* The cache keeps only what is within the limit.
LEMMA BoundedIsCached ==
    ASSUME NEW b \in Bodies
    PROVE  /\ Bounded(b) \in CachedBodies
           /\ b \in CachedBodies => Bounded(b) = b
           /\ Bounded(b) = b \/ Bounded(b) = TooLarge
<1>1. CASE b = TooLarge
  BY <1>1 DEF Bounded, CachedBodies, Bodies
<1>2. CASE b = NoBody
  <2>1. ~b.large
    BY <1>2 DEF NoBody
  <2> QED
    BY <1>2, <2>1 DEF Bounded, CachedBodies
<1>3. CASE b \in Response
  <2>1. b # TooLarge
    BY <1>3, HttpAssumption
  <2>2. b.large \in BOOLEAN
    BY <1>3 DEF Response
  <2>3. CASE b.large
    <3>1. b \notin CachedBodies
      BY <1>3, <2>1, <2>3 DEF CachedBodies, NoBody
    <3> QED
      BY <2>1, <2>3, <3>1 DEF Bounded, CachedBodies
  <2>4. CASE ~b.large
    BY <1>3, <2>1, <2>4 DEF Bounded, CachedBodies
  <2> QED
    BY <2>2, <2>3, <2>4
<1> QED
  BY <1>1, <1>2, <1>3 DEF Bodies

\* One step changes the request it is about, the row of its key, and nothing of others.
LEMMA Typing ==
    ASSUME TypeOK, [Next]_vars
    PROVE  TypeOK'
<1> USE DEF TypeOK, Row, Goto, Answer
<1>1. NoBody \in Bodies /\ CachedBodies \subseteq Bodies /\ NoBody \in CachedBodies
  BY DEF Bodies, CachedBodies
<1>2. ASSUME NEW q \in Requests
      PROVE  req[q].key \in Keys /\ req[q].content \in Contents /\ req[q].body \in Bodies
  BY DEF RequestType
<1>3. ASSUME NEW q \in Requests, NEW pc \in RequestPc, Goto(q, pc)
      PROVE  req' \in [Requests -> RequestType]
  BY <1>3 DEF RequestType
<1>4. ASSUME NEW q \in Requests, NEW s \in Status, NEW b \in Bodies, Answer(q, s, b)
      PROVE  req' \in [Requests -> RequestType]
  BY <1>4 DEF RequestType, RequestPc
<1>5. ASSUME NEW q \in Requests, Take(q)
      PROVE  row' \in [Keys -> RowType] /\ req' \in [Requests -> RequestType]
  <2>1. req' \in [Requests -> RequestType]
    BY <1>3, <1>5 DEF Take, RequestPc
  <2> QED
    BY <1>2, <1>5, <2>1 DEF Take, RowType, RowState
<1>6. ASSUME NEW q \in Requests, NEW refused \in BOOLEAN, Returns(q, refused)
      PROVE  req' \in [Requests -> RequestType]
  <2>1. PICK large \in BOOLEAN :
            req' = [req EXCEPT ![q] = [@ EXCEPT !.pc = "complete",
                       !.body = [by |-> q, refused |-> refused, large |-> large]]]
    BY <1>6 DEF Returns
  <2>2. [by |-> q, refused |-> refused, large |-> large] \in Bodies
    BY DEF Response, Bodies
  <2> QED
    BY <2>1, <2>2 DEF RequestType, RequestPc
<1>7. ASSUME NEW q \in Requests, CacheResponse(q)
      PROVE  row' \in [Keys -> RowType]
  <2> DEFINE after == [row[req[q].key] EXCEPT !.state = "completed", !.body = Bounded(req[q].body)]
  <2>1. Bounded(req[q].body) \in CachedBodies
    BY <1>2, BoundedIsCached
  <2>2. after \in RowType
    BY <1>2, <2>1 DEF RowType, RowState
  <2> QED
    BY <1>2, <1>7, <2>2 DEF CacheResponse
<1>8. ASSUME NEW q \in Requests, Commit(q)
      PROVE  effects' \in [Keys -> Nat]
  BY <1>2, <1>8 DEF Commit
<1>9. CASE UNCHANGED vars
  BY <1>9 DEF vars
<1>10. ASSUME NEW q \in Requests, Arrive(q)
       PROVE  TypeOK'
  BY <1>3, <1>10 DEF Arrive, RequestPc
<1>11. ASSUME NEW q \in Requests, Insert(q)
       PROVE  TypeOK'
  <2>1. req' \in [Requests -> RequestType]
    BY <1>3, <1>11 DEF Insert, RequestPc
  <2>2. row' \in [Keys -> RowType]
    BY <1>1, <1>2, <1>11 DEF Insert, RowType, RowState, NoRow
  <2> QED
    BY <1>11, <2>1, <2>2 DEF Insert
<1>12. ASSUME NEW q \in Requests, Read(q)
       PROVE  TypeOK'
  <2>1. row[req[q].key].body \in Bodies
    BY <1>1, <1>2 DEF RowType
  <2>2. \/ \E s \in Status, b \in Bodies : Answer(q, s, b)
        \/ \E pc \in RequestPc : Goto(q, pc)
    BY <1>1, <1>12, <2>1 DEF Read, Status, RequestPc
  <2>3. req' \in [Requests -> RequestType]
    BY <1>3, <1>4, <2>2
  <2> QED
    BY <1>12, <2>3 DEF Read
<1>13. ASSUME NEW q \in Requests, Retake(q)
       PROVE  TypeOK'
  <2>1. CASE Take(q)
    BY <1>5, <1>13, <2>1 DEF Retake
  <2>2. CASE Answer(q, "in_progress", NoBody) /\ UNCHANGED row
    <3>1. req' \in [Requests -> RequestType]
      BY <1>1, <1>4, <2>2 DEF Status
    <3> QED
      BY <1>13, <2>2, <3>1 DEF Retake
  <2> QED
    BY <1>13, <2>1, <2>2 DEF Retake
<1>14. ASSUME NEW q \in Requests, MarkIndeterminate(q)
       PROVE  TypeOK'
  <2>1. \E s \in Status : Answer(q, s, NoBody)
    BY <1>14 DEF MarkIndeterminate, Status
  <2>2. req' \in [Requests -> RequestType]
    BY <1>1, <1>4, <2>1
  <2>3. row' \in [Keys -> RowType]
    <3> DEFINE after == [row[req[q].key] EXCEPT !.state = "indeterminate", !.owner = NoRequest]
    <3>1. after \in RowType
      BY <1>2 DEF RowType, RowState
    <3> QED
      BY <1>2, <1>14, <3>1 DEF MarkIndeterminate
  <2> QED
    BY <1>14, <2>2, <2>3 DEF MarkIndeterminate
<1>15. ASSUME NEW q \in Requests, CommandReturns(q)
       PROVE  TypeOK'
  BY <1>6, <1>8, <1>15 DEF CommandReturns
<1>16. ASSUME NEW q \in Requests, CommandRaises(q)
       PROVE  TypeOK'
  BY <1>3, <1>16 DEF CommandRaises, RequestPc
<1>17. ASSUME NEW q \in Requests, CommandRaisesAfterCommit(q)
       PROVE  TypeOK'
  <2>1. req' \in [Requests -> RequestType]
    BY <1>3, <1>17 DEF CommandRaisesAfterCommit, RequestPc
  <2> QED
    BY <1>2, <1>8, <1>17, <2>1 DEF CommandRaisesAfterCommit
<1>18. ASSUME NEW q \in Requests, InteractionRefused(q)
       PROVE  TypeOK'
  BY <1>6, <1>18 DEF InteractionRefused
<1>19. ASSUME NEW q \in Requests, Complete(q)
       PROVE  TypeOK'
  <2>1. \E s \in Status, b \in Bodies : Answer(q, s, b)
    BY <1>1, <1>2, <1>19 DEF Complete, Status
  <2>2. req' \in [Requests -> RequestType]
    BY <1>4, <2>1
  <2>3. row' \in [Keys -> RowType]
    BY <1>7, <1>19 DEF Complete
  <2> QED
    BY <1>19, <2>2, <2>3 DEF Complete
<1>20. ASSUME NEW q \in Requests, Release(q)
       PROVE  TypeOK'
  <2>1. req' \in [Requests -> RequestType]
    BY <1>1, <1>4, <1>20 DEF Release, Status
  <2>2. row' \in [Keys -> RowType]
    <3> DEFINE freed == [row[req[q].key] EXCEPT !.state = "released"]
    <3>1. freed \in RowType
      BY <1>2 DEF RowType, RowState
    <3>2. row' = row \/ row' = [row EXCEPT ![req[q].key] = freed]
      BY <1>20 DEF Release
    <3> HIDE DEF freed
    <3> QED
      BY <1>2, <3>1, <3>2
  <2> QED
    BY <1>20, <2>1, <2>2 DEF Release
<1>21. ASSUME NEW q \in Requests, Crash(q)
       PROVE  TypeOK'
  BY <1>3, <1>21 DEF Crash, RequestPc
<1>22. ASSUME NEW k \in Keys, ExpireLease(k)
       PROVE  TypeOK'
  BY <1>22 DEF ExpireLease, RowType
<1> QED
  BY <1>9, <1>10, <1>11, <1>12, <1>13, <1>14, <1>15, <1>16, <1>17, <1>18, <1>19, <1>20,
     <1>21, <1>22 DEF Next

LEMMA InitialTyping == Init => TypeOK
<1> SUFFICES ASSUME Init
             PROVE  TypeOK
  OBVIOUS
<1>1. row \in [Keys -> RowType]
  BY DEF Init, NoRow, RowType, RowState, CachedBodies
<1>2. req \in [Requests -> RequestType]
  BY DEF Init, RequestType, RequestPc, Status, Bodies
<1> QED
  BY <1>1, <1>2 DEF Init, TypeOK

\* Rows and requests keep their shapes, and the cache its bound.
THEOREM TypeCorrectHttp == Spec => []TypeOK
<1>1. TypeOK /\ [Next]_vars => TypeOK'
  BY Typing
<1> QED
  BY InitialTyping, <1>1, PTL DEF Spec

-----------------------------------------------------------------------------
(* Ownership.                                                              *)

\* The part of KeyTellsRequests that is about who is busy; inductive by itself.
Ownership ==
    /\ OneExecutor
    /\ \A q \in Requests : BusyOwns(q) /\ ReadSameContent(q)

\* What the three ways of moving a request leave alone.
Moves(q, pc) ==
    /\ \A p \in Requests :
         /\ req'[p].key = req[p].key
         /\ req'[p].content = req[p].content
         /\ p # q => req'[p] = req[p]
    /\ req'[q].pc = pc

LEMMA GotoMoves ==
    ASSUME TypeOK, NEW q \in Requests, NEW pc, Goto(q, pc)
    PROVE  Moves(q, pc) /\ req'[q].status = req[q].status /\ req'[q].body = req[q].body
BY DEF TypeOK, RequestType, Goto, Moves

LEMMA AnswerMoves ==
    ASSUME TypeOK, NEW q \in Requests, NEW s, NEW b, Answer(q, s, b)
    PROVE  Moves(q, "answered") /\ req'[q].status = s /\ req'[q].body = b
BY DEF TypeOK, RequestType, Answer, Moves

LEMMA ReturnsMoves ==
    ASSUME TypeOK, NEW q \in Requests, NEW refused \in BOOLEAN, Returns(q, refused)
    PROVE  /\ Moves(q, "complete")
           /\ req'[q].status = req[q].status
           /\ req'[q].body \in Response
           /\ req'[q].body.refused = refused
<1>1. PICK large \in BOOLEAN :
          req' = [req EXCEPT ![q] = [@ EXCEPT !.pc = "complete",
                     !.body = [by |-> q, refused |-> refused, large |-> large]]]
  BY DEF Returns
<1> QED
  BY <1>1 DEF TypeOK, RequestType, Moves, Response

\* The three ways in which the row of a key is written.
LEMMA TakeWrites ==
    ASSUME TypeOK, NEW q \in Requests, Take(q)
    PROVE  /\ Moves(q, "execute")
           /\ req'[q].status = req[q].status
           /\ row'[req[q].key] = [row[req[q].key] EXCEPT !.state = "pending", !.owner = q,
                                                         !.live = TRUE]
           /\ \A k \in Keys : k # req[q].key => row'[k] = row[k]
<1>1. req[q].key \in Keys
  BY DEF TypeOK, RequestType
<1>2. Goto(q, "execute")
  BY DEF Take
<1>3. Moves(q, "execute") /\ req'[q].status = req[q].status
  BY <1>2, GotoMoves
<1> QED
  BY <1>1, <1>3 DEF TypeOK, Take

LEMMA CacheWrites ==
    ASSUME TypeOK, NEW q \in Requests, CacheResponse(q), NEW k \in Keys
    PROVE  IF k = req[q].key /\ StillOwner(q)
           THEN /\ row'[k].state = "completed"
                /\ row'[k].hash = row[k].hash
                /\ row'[k].body = Bounded(req[q].body)
           ELSE row'[k] = row[k]
<1>1. req[q].key \in Keys /\ row[k] \in RowType
  BY DEF TypeOK, RequestType
<1>2. CASE k = req[q].key /\ StillOwner(q)
  <2> DEFINE after == [row[k] EXCEPT !.state = "completed", !.body = Bounded(req[q].body)]
  <2>1. /\ after.state = "completed"
        /\ after.hash = row[k].hash
        /\ after.body = Bounded(req[q].body)
    BY <1>1 DEF RowType
  <2>2. row'[k] = after
    BY <1>2 DEF TypeOK, CacheResponse
  <2> QED
    BY <1>2, <2>1, <2>2
<1>3. CASE ~(k = req[q].key /\ StillOwner(q))
  BY <1>1, <1>3 DEF TypeOK, CacheResponse
<1> QED
  BY <1>2, <1>3

\* Nobody becomes busy: whoever is busy was busy before.
LEMMA NobodyNew ==
    ASSUME OneExecutor, NEW q \in Requests, NEW pc, Moves(q, pc),
           pc \in {"execute", "complete", "release"} => Busy(q)
    PROVE  OneExecutor'
<1>1. \A p \in Requests : Busy(p)' => Busy(p)
  BY DEF Busy, Moves
<1>2. \A p \in Requests : req'[p].key = req[p].key
  BY DEF Moves
<1> QED
  BY <1>1, <1>2 DEF OneExecutor

\* One request becomes busy with a key nobody is busy with.
LEMMA OneNew ==
    ASSUME OneExecutor, NEW q \in Requests, NEW pc, Moves(q, pc),
           \A p \in Requests : req[p].key = req[q].key => ~Busy(p)
    PROVE  OneExecutor'
<1>1. \A p \in Requests : Busy(p)' => Busy(p) \/ p = q
  BY DEF Busy, Moves
<1>2. \A p \in Requests : req'[p].key = req[p].key
  BY DEF Moves
<1> QED
  BY <1>1, <1>2 DEF OneExecutor

LEMMA OwnershipStays ==
    ASSUME TypeOK, Ownership, [Next]_vars
    PROVE  Ownership'
<1> USE DEF TypeOK, Ownership, BusyOwns, ReadSameContent, Busy, StillOwner, Row
<1>0. \A p \in Requests : req[p].key \in Keys /\ req[p].content \in Contents
  BY DEF RequestType
<1>1. ASSUME NEW q \in Requests, Arrive(q)
      PROVE  Ownership'
  <2>1. Moves(q, "claim")
    BY <1>1, GotoMoves DEF Arrive
  <2>2. OneExecutor'
    BY <2>1, NobodyNew
  <2> QED
    BY <1>0, <1>1, <2>1, <2>2 DEF Arrive, Moves
<1>2. ASSUME NEW q \in Requests, Insert(q)
      PROVE  Ownership'
  <2>1. Moves(q, "execute")
    BY <1>2, GotoMoves DEF Insert
  <2>2. OneExecutor'
    BY <1>2, <2>1, OneNew DEF Insert
  <2>3. /\ row'[req[q].key].state = "pending"
        /\ row'[req[q].key].owner = q
        /\ row'[req[q].key].hash = {req[q].content}
        /\ \A k \in Keys : k # req[q].key => row'[k] = row[k]
    BY <1>0, <1>2 DEF Insert, NoRow
  <2> QED
    BY <1>0, <1>2, <2>1, <2>2, <2>3 DEF Insert, Moves
<1>3. ASSUME NEW q \in Requests, Read(q)
      PROVE  Ownership'
  <2>1. ASSUME NEW s, NEW b, Answer(q, s, b)
        PROVE  Ownership'
    <3>1. Moves(q, "answered")
      BY <2>1, AnswerMoves
    <3>2. OneExecutor'
      BY <3>1, NobodyNew
    <3> QED
      BY <1>0, <1>3, <3>1, <3>2 DEF Read, Moves
  <2>2. ASSUME NEW pc \in {"retake", "expire"}, ~OtherContent(q), Goto(q, pc)
        PROVE  Ownership'
    <3>1. Moves(q, pc)
      BY <2>2, GotoMoves
    <3>2. OneExecutor'
      BY <3>1, NobodyNew
    <3> QED
      BY <1>0, <1>3, <2>2, <3>1, <3>2 DEF Read, Moves, OtherContent
  <2> QED
    BY <1>3, <2>1, <2>2 DEF Read
<1>4. ASSUME NEW q \in Requests, Retake(q)
      PROVE  Ownership'
  <2>1. CASE Row(q).state = "released"
    <3>1. Take(q)
      BY <1>4, <2>1 DEF Retake
    <3>2. /\ Moves(q, "execute")
          /\ row'[req[q].key] = [row[req[q].key] EXCEPT !.state = "pending", !.owner = q,
                                                        !.live = TRUE]
          /\ \A k \in Keys : k # req[q].key => row'[k] = row[k]
      BY <3>1, TakeWrites
    <3>3. /\ row'[req[q].key].state = "pending"
          /\ row'[req[q].key].owner = q
          /\ row'[req[q].key].hash = row[req[q].key].hash
      BY <1>0, <3>2 DEF RowType
    <3>4. OneExecutor'
      BY <2>1, <3>2, OneNew
    <3>5. ASSUME NEW p \in Requests, p # q
          PROVE  BusyOwns(p)' /\ ReadSameContent(p)'
      <4>1. /\ row[req[p].key].state = "indeterminate" => row'[req[p].key] = row[req[p].key]
            /\ row'[req[p].key].hash = row[req[p].key].hash
            /\ row'[req[p].key].state = "absent" => row[req[p].key].state = "absent"
            /\ Busy(p) => row'[req[p].key] = row[req[p].key]
        <5>1. CASE req[p].key = req[q].key
          BY <2>1, <3>3, <5>1
        <5>2. CASE req[p].key # req[q].key
          BY <1>0, <3>2, <5>2
        <5> QED
          BY <5>1, <5>2
      <4> QED
        <5>1. req'[p] = req[p]
          BY <3>2, <3>5 DEF Moves
        <5>2. BusyOwns(p) /\ ReadSameContent(p)
          OBVIOUS
        <5>3. BusyOwns(p)'
          BY <4>1, <5>1, <5>2
        <5>4. ReadSameContent(p)'
          BY <4>1, <5>1, <5>2
        <5> QED
          BY <5>3, <5>4
    <3>6. BusyOwns(q)' /\ ReadSameContent(q)'
      BY <1>4, <3>2, <3>3 DEF Retake, Moves
    <3> QED
      BY <3>4, <3>5, <3>6
  <2>2. CASE Row(q).state # "released"
    <3>1. Moves(q, "answered")
      BY <1>4, <2>2, AnswerMoves DEF Retake
    <3>2. OneExecutor'
      BY <3>1, NobodyNew
    <3> QED
      BY <1>0, <1>4, <2>2, <3>1, <3>2 DEF Retake, Moves
  <2> QED
    BY <2>1, <2>2
<1>5. ASSUME NEW q \in Requests, MarkIndeterminate(q)
      PROVE  Ownership'
  <2>1. Moves(q, "answered")
    BY <1>5, AnswerMoves DEF MarkIndeterminate
  <2>2. OneExecutor'
    BY <2>1, NobodyNew
  <2>3. \A k \in Keys :
          \/ row'[k] = row[k]
          \/ row'[k].state = "indeterminate" /\ row'[k].hash = row[k].hash /\ row[k].state # "absent"
    <3> DEFINE after == [row[req[q].key] EXCEPT !.state = "indeterminate", !.owner = NoRequest]
    <3>1. after.state = "indeterminate" /\ after.hash = row[req[q].key].hash
      BY <1>0 DEF RowType
    <3> QED
      BY <1>0, <1>5, <3>1 DEF MarkIndeterminate
  <2> QED
    BY <1>0, <2>1, <2>2, <2>3 DEF Moves
<1>6. ASSUME NEW q \in Requests, CommandReturns(q) \/ InteractionRefused(q)
      PROVE  Ownership'
  <2>1. Moves(q, "complete")
    BY <1>6, ReturnsMoves DEF CommandReturns, InteractionRefused
  <2>2. OneExecutor'
    BY <1>6, <2>1, NobodyNew DEF CommandReturns, InteractionRefused
  <2>3. UNCHANGED row /\ req[q].pc = "execute"
    BY <1>6 DEF CommandReturns, InteractionRefused
  <2> QED
    BY <1>0, <2>1, <2>2, <2>3 DEF Moves
<1>7. ASSUME NEW q \in Requests, CommandRaises(q) \/ CommandRaisesAfterCommit(q)
      PROVE  Ownership'
  <2>1. Moves(q, "release")
    BY <1>7, GotoMoves DEF CommandRaises, CommandRaisesAfterCommit
  <2>2. OneExecutor'
    BY <1>7, <2>1, NobodyNew DEF CommandRaises, CommandRaisesAfterCommit
  <2>3. UNCHANGED row /\ req[q].pc = "execute"
    BY <1>7 DEF CommandRaises, CommandRaisesAfterCommit
  <2> QED
    BY <1>0, <2>1, <2>2, <2>3 DEF Moves
<1>8. ASSUME NEW q \in Requests, Complete(q)
      PROVE  Ownership'
  <2>1. Moves(q, "answered")
    BY <1>8, AnswerMoves DEF Complete
  <2>2. OneExecutor'
    BY <2>1, NobodyNew
  <2>3. ASSUME NEW k \in Keys
        PROVE  \/ row'[k] = row[k]
               \/ /\ k = req[q].key /\ StillOwner(q)
                  /\ row'[k].state = "completed" /\ row'[k].hash = row[k].hash
    <3>1. CASE CacheResponse(q)
      <4> HIDE DEF StillOwner
      <4> QED
        BY <3>1, CacheWrites
    <3>2. CASE UNCHANGED row
      BY <3>2
    <3> QED
      BY <1>8, <3>1, <3>2 DEF Complete
  <2> QED
    BY <1>0, <1>8, <2>1, <2>2, <2>3 DEF Complete, Moves, OneExecutor
<1>9. ASSUME NEW q \in Requests, Release(q)
      PROVE  Ownership'
  <2>1. Moves(q, "answered")
    BY <1>9, AnswerMoves DEF Release
  <2>2. OneExecutor'
    BY <2>1, NobodyNew
  <2>3. \A k \in Keys :
          \/ row'[k] = row[k]
          \/ /\ k = req[q].key /\ StillOwner(q)
             /\ row'[k].state = "released" /\ row'[k].hash = row[k].hash
    BY <1>0, <1>9 DEF Release, RowType
  <2> QED
    BY <1>0, <1>9, <2>1, <2>2, <2>3 DEF Release, Moves, OneExecutor
<1>10. ASSUME NEW q \in Requests, Crash(q)
       PROVE  Ownership'
  <2>1. Moves(q, "lost")
    BY <1>10, GotoMoves DEF Crash
  <2>2. OneExecutor'
    BY <2>1, NobodyNew
  <2> QED
    BY <1>0, <1>10, <2>1, <2>2 DEF Crash, Moves
<1>11. ASSUME NEW k \in Keys, ExpireLease(k)
       PROVE  Ownership'
  <2>1. \A l \in Keys : /\ row'[l].state = row[l].state
                        /\ row'[l].owner = row[l].owner
                        /\ row'[l].hash = row[l].hash
    BY <1>11 DEF ExpireLease, RowType
  <2> QED
    BY <1>0, <1>11, <2>1 DEF ExpireLease, OneExecutor
<1>12. CASE UNCHANGED vars
  BY <1>12 DEF vars, OneExecutor
<1> QED
  BY <1>1, <1>2, <1>3, <1>4, <1>5, <1>6, <1>7, <1>8, <1>9, <1>10, <1>11, <1>12 DEF Next

-----------------------------------------------------------------------------
(* Effects.                                                                *)

\* A step that posts nothing, and after which the rows in "absent" or "released" and the
\* requests in "execute" or "release" are where OnlyDoubts was known before.
LEMMA NothingPosted ==
    ASSUME EffectsTell, UNCHANGED <<effects, doubts>>,
           \A k \in Keys : row'[k].state \in {"absent", "released"} => OnlyDoubts(k),
           \A p \in Requests : req'[p].pc \in {"execute", "release"} => OnlyDoubts(req'[p].key)
    PROVE  EffectsTell'
BY DEF EffectsTell, RepeatsAreAccounted, OnlyDoubts

LEMMA EffectsStay ==
    ASSUME TypeOK, Ownership, EffectsTell, [Next]_vars
    PROVE  EffectsTell'
<1>0. \A p \in Requests : req[p].key \in Keys
  BY DEF TypeOK, RequestType
<1>00. /\ \A k \in Keys : row[k].state \in {"absent", "released"} => OnlyDoubts(k)
       /\ \A p \in Requests : req[p].pc \in {"execute", "release"} => OnlyDoubts(req[p].key)
  BY DEF EffectsTell
<1>1. ASSUME NEW q \in Requests, NEW pc \in RequestPc, Goto(q, pc), UNCHANGED row,
             pc \in {"execute", "release"} => req[q].pc \in {"execute", "release"},
             UNCHANGED <<effects, doubts>>
      PROVE  EffectsTell'
  <2>1. Moves(q, pc)
    BY <1>1, GotoMoves
  <2>2. \A p \in Requests : req'[p].pc \in {"execute", "release"} => OnlyDoubts(req'[p].key)
    BY <1>00, <1>1, <2>1 DEF Moves
  <2> QED
    BY <1>00, <1>1, <2>2, NothingPosted
<1>2. ASSUME NEW q \in Requests, NEW s, NEW b, Answer(q, s, b), UNCHANGED <<effects, doubts>>,
             \A k \in Keys : row'[k].state \in {"absent", "released"} => OnlyDoubts(k)
      PROVE  EffectsTell'
  <2>1. Moves(q, "answered")
    BY <1>2, AnswerMoves
  <2>2. \A p \in Requests : req'[p].pc \in {"execute", "release"} => OnlyDoubts(req'[p].key)
    BY <1>00, <2>1 DEF Moves
  <2> QED
    BY <1>2, <2>2, NothingPosted
<1>3. ASSUME NEW q \in Requests, Insert(q) \/ (Retake(q) /\ Take(q) /\ Row(q).state = "released")
      PROVE  EffectsTell'
  <2>1. Moves(q, "execute") /\ UNCHANGED <<effects, doubts>>
    BY <1>3, GotoMoves, TakeWrites DEF Insert, Retake
  <2>2. OnlyDoubts(req[q].key)
    BY <1>0, <1>00, <1>3 DEF Insert, Row
  <2>3. /\ row'[req[q].key].state = "pending"
        /\ \A k \in Keys : k # req[q].key => row'[k] = row[k]
    <3>1. CASE Insert(q)
      <4> DEFINE after == [NoRow EXCEPT !.state = "pending", !.hash = {req[q].content},
                                        !.owner = q, !.live = TRUE]
      <4>1. after.state = "pending"
        BY DEF NoRow
      <4>2. row' = [row EXCEPT ![req[q].key] = after]
        BY <3>1 DEF Insert
      <4> HIDE DEF after
      <4> QED
        BY <1>0, <4>1, <4>2 DEF TypeOK
    <3>2. CASE Take(q)
      <4>1. row[req[q].key] \in RowType
        BY <1>0 DEF TypeOK
      <4>2. /\ row'[req[q].key] = [row[req[q].key] EXCEPT !.state = "pending", !.owner = q,
                                                          !.live = TRUE]
            /\ \A k \in Keys : k # req[q].key => row'[k] = row[k]
        BY <3>2, TakeWrites
      <4> QED
        BY <4>1, <4>2 DEF RowType
    <3> QED
      BY <1>3, <3>1, <3>2
  <2>4. \A k \in Keys : row'[k].state \in {"absent", "released"} => OnlyDoubts(k)
    BY <1>00, <2>3
  <2>5. \A p \in Requests : req'[p].pc \in {"execute", "release"} => OnlyDoubts(req'[p].key)
    BY <1>00, <2>1, <2>2 DEF Moves
  <2> QED
    BY <2>1, <2>4, <2>5, NothingPosted
<1>4. ASSUME NEW q \in Requests, Read(q)
      PROVE  EffectsTell'
  <2>1. \/ \E s \in Status, b \in Bodies \cup CachedBodies : Answer(q, s, b)
        \/ \E pc \in {"retake", "expire"} : Goto(q, pc)
    <3>1. Row(q).body \in CachedBodies /\ NoBody \in CachedBodies
      BY <1>0 DEF Row, TypeOK, RowType, CachedBodies
    <3> QED
      BY <1>4, <3>1 DEF Read, Status
  <2>2. UNCHANGED <<row, effects, doubts>>
    BY <1>4 DEF Read
  <2> QED
    BY <1>00, <1>1, <1>2, <2>1, <2>2 DEF RequestPc
<1>5. ASSUME NEW q \in Requests, MarkIndeterminate(q)
      PROVE  EffectsTell'
  <2>1. \E s \in Status : Answer(q, s, NoBody)
    BY <1>5 DEF MarkIndeterminate, Status
  <2>2. \A k \in Keys : row'[k] = row[k] \/ row'[k].state = "indeterminate"
    <3> DEFINE after == [row[req[q].key] EXCEPT !.state = "indeterminate", !.owner = NoRequest]
    <3>1. after.state = "indeterminate"
      BY <1>0 DEF TypeOK, RowType
    <3> QED
      BY <1>0, <1>5, <3>1 DEF MarkIndeterminate, TypeOK
  <2> QED
    BY <1>00, <1>2, <1>5, <2>1, <2>2 DEF MarkIndeterminate
<1>6. ASSUME NEW q \in Requests, NEW refused \in BOOLEAN, req[q].pc = "execute",
             Returns(q, refused), UNCHANGED <<row, doubts>>, Commit(q) \/ UNCHANGED effects
      PROVE  EffectsTell'
  <2>1. Moves(q, "complete")
    BY <1>6, ReturnsMoves
  <2>2. OnlyDoubts(req[q].key)
    BY <1>00, <1>6
  <2>3. CASE UNCHANGED effects
    <3>1. \A p \in Requests : req'[p].pc \in {"execute", "release"} => OnlyDoubts(req'[p].key)
      BY <1>00, <2>1 DEF Moves
    <3> QED
      BY <1>00, <1>6, <2>3, <3>1, NothingPosted
  <2>4. CASE Commit(q)
    <3>1. /\ effects'[req[q].key] = doubts[req[q].key] + 1
          /\ \A k \in Keys : k # req[q].key => effects'[k] = effects[k]
      BY <1>0, <2>2, <2>4 DEF Commit, OnlyDoubts, TypeOK
    <3>2. row[req[q].key].state \notin {"absent", "released"}
      BY <1>6 DEF Ownership, BusyOwns, Busy, StillOwner, Row
    <3>3. \A p \in Requests :
            req'[p].pc \in {"execute", "release"} => p # q /\ req[p].key # req[q].key
      BY <1>6, <2>1 DEF Ownership, OneExecutor, Busy, Moves
    <3>4. RepeatsAreAccounted'
      BY <1>6, <3>1 DEF EffectsTell, RepeatsAreAccounted, TypeOK
    <3>5. \A k \in Keys : row'[k].state \in {"absent", "released"} => OnlyDoubts(k)'
      BY <1>00, <1>6, <3>1, <3>2 DEF OnlyDoubts
    <3>6. \A p \in Requests : req'[p].pc \in {"execute", "release"} => OnlyDoubts(req[p].key)'
      BY <1>0, <1>00, <1>6, <2>1, <3>1, <3>3 DEF OnlyDoubts, Moves
    <3>7. \A p \in Requests : req'[p].key = req[p].key
      BY <2>1 DEF Moves
    <3> QED
      BY <3>4, <3>5, <3>6, <3>7 DEF EffectsTell, OnlyDoubts
  <2> QED
    BY <1>6, <2>3, <2>4
<1>7. ASSUME NEW q \in Requests, CommandRaisesAfterCommit(q)
      PROVE  EffectsTell'
  <2>1. Moves(q, "release") /\ UNCHANGED row
    BY <1>7, GotoMoves DEF CommandRaisesAfterCommit
  <2>2. \A k \in Keys : \/ effects'[k] = effects[k] /\ doubts'[k] = doubts[k]
                        \/ effects'[k] = effects[k] + 1 /\ doubts'[k] = doubts[k] + 1
    BY <1>0, <1>7 DEF CommandRaisesAfterCommit, Commit, TypeOK
  <2>3. \A k \in Keys : effects[k] \in Nat /\ doubts[k] \in Nat
    BY DEF TypeOK
  <2>4. \A k \in Keys : OnlyDoubts(k) => OnlyDoubts(k)'
    BY <2>2, <2>3 DEF OnlyDoubts
  <2>5. RepeatsAreAccounted'
    BY <2>2, <2>3 DEF EffectsTell, RepeatsAreAccounted
  <2>6. \A p \in Requests : req'[p].pc \in {"execute", "release"} => OnlyDoubts(req[p].key)
    BY <1>00, <1>7, <2>1 DEF CommandRaisesAfterCommit, Moves
  <2>7. \A p \in Requests : req'[p].key = req[p].key
    BY <2>1 DEF Moves
  <2> QED
    BY <1>0, <1>00, <2>1, <2>4, <2>5, <2>6, <2>7 DEF EffectsTell, OnlyDoubts
<1>8. ASSUME NEW q \in Requests, Complete(q)
      PROVE  EffectsTell'
  <2>1. \E s \in Status, b \in Bodies : Answer(q, s, b)
    BY <1>8 DEF Complete, Status, TypeOK, RequestType, Bodies
  <2>2. ASSUME NEW k \in Keys
        PROVE  row'[k] = row[k] \/ row'[k].state = "completed"
    <3>1. CASE CacheResponse(q)
      BY <3>1, CacheWrites
    <3>2. CASE UNCHANGED row
      BY <3>2
    <3> QED
      BY <1>8, <3>1, <3>2 DEF Complete
  <2> QED
    BY <1>00, <1>2, <1>8, <2>1, <2>2 DEF Complete
<1>9. ASSUME NEW q \in Requests, Release(q)
      PROVE  EffectsTell'
  <2>1. Answer(q, "error", NoBody) /\ UNCHANGED <<effects, doubts>>
    BY <1>9 DEF Release
  <2>2. \A k \in Keys : row'[k] = row[k] \/ k = req[q].key
    BY <1>0, <1>9 DEF Release, TypeOK
  <2>3. OnlyDoubts(req[q].key)
    BY <1>00, <1>9 DEF Release
  <2> QED
    BY <1>00, <1>2, <2>1, <2>2, <2>3
<1>10. ASSUME NEW k \in Keys, ExpireLease(k)
       PROVE  EffectsTell'
  <2>1. \A l \in Keys : row'[l].state = row[l].state
    BY <1>10 DEF ExpireLease, TypeOK, RowType
  <2> QED
    BY <1>00, <1>10, <2>1, NothingPosted DEF ExpireLease
<1>11. CASE UNCHANGED vars
  BY <1>00, <1>11, NothingPosted DEF vars
<1>12. ASSUME NEW q \in Requests, Arrive(q) \/ CommandRaises(q) \/ Crash(q)
       PROVE  EffectsTell'
  <2>1. \E pc \in RequestPc :
          /\ Goto(q, pc)
          /\ pc \in {"execute", "release"} => req[q].pc \in {"execute", "release"}
    BY <1>12 DEF Arrive, CommandRaises, Crash, RequestPc
  <2>2. UNCHANGED <<row, effects, doubts>>
    BY <1>12 DEF Arrive, CommandRaises, Crash
  <2> QED
    BY <1>1, <2>1, <2>2
<1>13. ASSUME NEW q \in Requests, Retake(q)
       PROVE  EffectsTell'
  <2>1. CASE Row(q).state = "released"
    BY <1>3, <1>13, <2>1 DEF Retake
  <2>2. CASE Row(q).state # "released"
    BY <1>00, <1>2, <1>13, <2>2 DEF Retake
  <2> QED
    BY <2>1, <2>2
<1>14. ASSUME NEW q \in Requests, CommandReturns(q) \/ InteractionRefused(q)
       PROVE  EffectsTell'
  BY <1>6, <1>14 DEF CommandReturns, InteractionRefused
<1> QED
  BY <1>3, <1>4, <1>5, <1>7, <1>8, <1>9, <1>10, <1>11, <1>12, <1>13, <1>14 DEF Next

-----------------------------------------------------------------------------
(* The theorems.                                                           *)

LEMMA Beginning == Init => Ownership /\ EffectsTell
<1> SUFFICES ASSUME Init
             PROVE  Ownership /\ EffectsTell
  OBVIOUS
<1>1. \A q \in Requests : req[q].pc = "unsent" /\ req[q].key \in Keys
  BY DEF Init
<1>2. Ownership
  BY <1>1 DEF Ownership, OneExecutor, BusyOwns, ReadSameContent, Busy
<1>3. \A k \in Keys : effects[k] = 0 /\ doubts[k] = 0
  BY DEF Init
<1>4. EffectsTell
  BY <1>1, <1>3 DEF EffectsTell, RepeatsAreAccounted, OnlyDoubts
<1> QED
  BY <1>2, <1>4

\* No key is ever executed twice at the same time.
THEOREM KeysHaveOneExecutor == Spec => []OneExecutor
<1>1. TypeOK /\ Ownership /\ [Next]_vars => Ownership'
  BY OwnershipStays
<1>2. Ownership => OneExecutor
  BY DEF Ownership
<1> QED
  BY TypeCorrectHttp, Beginning, <1>1, <1>2, PTL DEF Spec

\* Only an endpoint that raises after its commit lets a retry repeat the effect.
THEOREM RepeatsComeFromDoubts == Spec => []RepeatsAreAccounted
<1>1. TypeOK /\ Ownership /\ [Next]_vars => Ownership'
  BY OwnershipStays
<1>2. TypeOK /\ Ownership /\ EffectsTell /\ [Next]_vars => EffectsTell'
  BY EffectsStay
<1>3. EffectsTell => RepeatsAreAccounted
  BY DEF EffectsTell
<1> QED
  BY TypeCorrectHttp, Beginning, <1>1, <1>2, <1>3, PTL DEF Spec

\* Every statement that writes a row names the state it expects.
LEMMA SettledStays ==
    ASSUME TypeOK, [Next]_vars, NEW k \in Keys,
           row[k].state \in {"completed", "indeterminate"}
    PROVE  row'[k] = row[k]
<1>0. \A p \in Requests : req[p].key \in Keys
  BY DEF TypeOK, RequestType
<1> USE <1>0 DEF TypeOK, Row
<1>1. ASSUME NEW q \in Requests, Insert(q)
      PROVE  row'[k] = row[k]
  BY <1>1 DEF Insert
<1>2. ASSUME NEW q \in Requests, Retake(q)
      PROVE  row'[k] = row[k]
  BY <1>2 DEF Retake, Take
<1>3. ASSUME NEW q \in Requests, MarkIndeterminate(q)
      PROVE  row'[k] = row[k]
  BY <1>3 DEF MarkIndeterminate
<1>4. ASSUME NEW q \in Requests, Complete(q)
      PROVE  row'[k] = row[k]
  BY <1>4, CacheWrites DEF Complete, StillOwner
<1>5. ASSUME NEW q \in Requests, Release(q)
      PROVE  row'[k] = row[k]
  BY <1>5 DEF Release, StillOwner
<1>6. ASSUME NEW l \in Keys, ExpireLease(l)
      PROVE  row'[k] = row[k]
  BY <1>6 DEF ExpireLease
<1>7. ASSUME NEW q \in Requests,
             \/ Arrive(q) \/ Read(q) \/ CommandReturns(q) \/ CommandRaises(q)
             \/ CommandRaisesAfterCommit(q) \/ InteractionRefused(q) \/ Crash(q)
      PROVE  row'[k] = row[k]
  BY <1>7 DEF Arrive, Read, CommandReturns, CommandRaises, CommandRaisesAfterCommit,
              InteractionRefused, Crash
<1>8. CASE UNCHANGED vars
  BY <1>8 DEF vars
<1> QED
  BY <1>1, <1>2, <1>3, <1>4, <1>5, <1>6, <1>7, <1>8 DEF Next

\* A settled key never changes, however late its owner.
THEOREM SettledKeysStay == Spec => SettledRowsStay
<1>1. TypeOK /\ [Next]_vars =>
        [\A k \in Keys :
            row[k].state \in {"completed", "indeterminate"} => row'[k] = row[k]]_vars
  BY SettledStays
<1> QED
  BY TypeCorrectHttp, <1>1, PTL DEF Spec, SettledRowsStay

-----------------------------------------------------------------------------
(* Successes.                                                              *)

\* What a step does to a request.
Proceeds(p) ==
    /\ req'[p].status = req[p].status /\ req'[p].body = req[p].body
    /\ req'[p].pc = "complete" => req[p].pc = "complete"
    /\ Busy(p)' => Busy(p) \/ Row(p).state \in {"absent", "released"}

Concludes(p) ==
    /\ req[p].pc = "execute" /\ req'[p].pc = "complete"
    /\ req'[p].status = req[p].status
    /\ req'[p].body \in Response
    /\ req'[p].body.refused \/ effects'[req[p].key] > 0

Fails(p) == req'[p].pc = "answered" /\ ~Succeeded(p)'

Replays(p) ==
    /\ req'[p].pc = "answered"
    /\ Row(p).state = "completed" /\ Row(p).hash = {req[p].content}
    /\ req'[p].body = Row(p).body

Finishes(p) ==
    /\ req[p].pc = "complete" /\ req'[p].pc = "answered"
    /\ req'[p].body = req[p].body
    /\ CacheResponse(p)

LEMMA RequestSteps ==
    ASSUME TypeOK, [Next]_vars, NEW p \in Requests
    PROVE  /\ req'[p].key = req[p].key /\ req'[p].content = req[p].content
           /\ Proceeds(p) \/ Concludes(p) \/ Fails(p) \/ Replays(p) \/ Finishes(p)
<1> DEFINE Goal == /\ req'[p].key = req[p].key /\ req'[p].content = req[p].content
                   /\ Proceeds(p) \/ Concludes(p) \/ Fails(p) \/ Replays(p) \/ Finishes(p)
<1>1. ASSUME req'[p] = req[p]
      PROVE  Goal
  BY <1>1 DEF Proceeds, Busy
<1>2. ASSUME NEW q \in Requests, NEW pc, Goto(q, pc), pc # "complete",
             pc \in {"execute", "release"} => Busy(q) \/ Row(q).state \in {"absent", "released"}
      PROVE  Goal
  <2>1. Moves(q, pc) /\ req'[q].status = req[q].status /\ req'[q].body = req[q].body
    BY <1>2, GotoMoves
  <2>2. CASE p = q
    BY <1>2, <2>1, <2>2 DEF Moves, Proceeds, Busy
  <2> QED
    BY <1>1, <2>1, <2>2 DEF Moves
<1>3. ASSUME NEW q \in Requests, NEW s, NEW b, Answer(q, s, b), s \notin {"ok", "replay"}
      PROVE  Goal
  <2>1. Moves(q, "answered") /\ req'[q].status = s
    BY <1>3, AnswerMoves
  <2>2. CASE p = q
    BY <1>3, <2>1, <2>2 DEF Moves, Fails, Succeeded
  <2> QED
    BY <1>1, <2>1, <2>2 DEF Moves
<1>4. ASSUME NEW q \in Requests, NEW refused \in BOOLEAN, req[q].pc = "execute",
             Returns(q, refused), refused \/ Commit(q)
      PROVE  Goal
  <2>1. /\ Moves(q, "complete")
        /\ req'[q].status = req[q].status
        /\ req'[q].body \in Response
        /\ req'[q].body.refused = refused
    BY <1>4, ReturnsMoves
  <2>2. Commit(q) => effects'[req[q].key] > 0
    BY DEF TypeOK, RequestType, Commit
  <2>3. CASE p = q
    BY <1>4, <2>1, <2>2, <2>3 DEF Moves, Concludes
  <2> QED
    BY <1>1, <2>1, <2>3 DEF Moves
<1>5. ASSUME NEW q \in Requests, Read(q)
      PROVE  Goal
  <2>1. CASE ~OtherContent(q) /\ Row(q).state = "completed" /\ Answer(q, "replay", Row(q).body)
    <3>1. Moves(q, "answered") /\ req'[q].body = Row(q).body
      BY <2>1, AnswerMoves
    <3>2. CASE p = q
      BY <2>1, <3>1, <3>2 DEF Moves, Replays, OtherContent
    <3> QED
      BY <1>1, <3>1, <3>2 DEF Moves
  <2>2. CASE Answer(q, "violation", NoBody) \/ Answer(q, "reconcile", NoBody)
    BY <1>3, <2>2
  <2>3. CASE Goto(q, "retake") \/ Goto(q, "expire")
    BY <1>2, <2>3
  <2> QED
    BY <1>5, <2>1, <2>2, <2>3 DEF Read
<1>6. ASSUME NEW q \in Requests, Complete(q)
      PROVE  Goal
  <2>1. CASE CacheResponse(q) /\ Answer(q, "ok", req[q].body)
    <3>1. Moves(q, "answered") /\ req'[q].body = req[q].body
      BY <2>1, AnswerMoves
    <3>2. CASE p = q
      BY <1>6, <2>1, <3>1, <3>2 DEF Moves, Finishes, Complete
    <3> QED
      BY <1>1, <3>1, <3>2 DEF Moves
  <2>2. CASE Answer(q, "error", NoBody)
    BY <1>3, <2>2
  <2> QED
    BY <1>6, <2>1, <2>2 DEF Complete
<1>7. ASSUME NEW q \in Requests, Insert(q) \/ Retake(q)
      PROVE  Goal
  BY <1>2, <1>3, <1>7 DEF Insert, Retake, Take
<1>8. ASSUME NEW q \in Requests, MarkIndeterminate(q) \/ Release(q)
      PROVE  Goal
  BY <1>3, <1>8 DEF MarkIndeterminate, Release
<1>9. ASSUME NEW q \in Requests, CommandReturns(q) \/ InteractionRefused(q)
      PROVE  Goal
  BY <1>4, <1>9 DEF CommandReturns, InteractionRefused
<1>10. ASSUME NEW q \in Requests,
              Arrive(q) \/ CommandRaises(q) \/ CommandRaisesAfterCommit(q) \/ Crash(q)
       PROVE  Goal
  BY <1>2, <1>10 DEF Arrive, CommandRaises, CommandRaisesAfterCommit, Crash, Busy
<1>11. ASSUME NEW k \in Keys, ExpireLease(k)
       PROVE  Goal
  BY <1>1, <1>11 DEF ExpireLease
<1>12. CASE UNCHANGED vars
  BY <1>1, <1>12 DEF vars
<1> QED
  BY <1>5, <1>6, <1>7, <1>8, <1>9, <1>10, <1>11, <1>12 DEF Next

\* Effects are never undone.
LEMMA EffectsRemain ==
    ASSUME TypeOK, [Next]_vars, NEW k \in Keys, effects[k] > 0
    PROVE  effects'[k] > 0
<1>1. ASSUME NEW q \in Requests, Commit(q)
      PROVE  effects'[k] > 0
  BY <1>1 DEF Commit, TypeOK, RequestType
<1>2. ASSUME UNCHANGED effects
      PROVE  effects'[k] > 0
  BY <1>2
<1> QED
  BY <1>1, <1>2 DEF Next, vars, Arrive, Insert, Read, Retake, MarkIndeterminate, CommandReturns,
     CommandRaises, CommandRaisesAfterCommit, InteractionRefused, Complete, Release, Crash,
     ExpireLease

\* Only guard.complete settles a key with a response.
LEMMA RowsComplete ==
    ASSUME TypeOK, [Next]_vars, NEW k \in Keys, row'[k].state = "completed"
    PROVE  \/ row[k].state = "completed"
           \/ \E q \in Requests : /\ req[q].pc = "complete" /\ req[q].key = k
                                  /\ row'[k].body = Bounded(req[q].body)
<1> DEFINE Goal == \/ row[k].state = "completed"
                   \/ \E q \in Requests : /\ req[q].pc = "complete" /\ req[q].key = k
                                          /\ row'[k].body = Bounded(req[q].body)
<1>0. row[k] \in RowType /\ \A p \in Requests : req[p].key \in Keys
  BY DEF TypeOK, RequestType
<1>1. ASSUME NEW q \in Requests, NEW r, r.state # "completed",
             row' = [row EXCEPT ![req[q].key] = r] \/ UNCHANGED row
      PROVE  Goal
  BY <1>0, <1>1 DEF TypeOK
<1>2. ASSUME NEW q \in Requests, Insert(q)
      PROVE  Goal
  <2>1. [NoRow EXCEPT !.state = "pending", !.hash = {req[q].content},
                      !.owner = q, !.live = TRUE].state # "completed"
    BY DEF NoRow
  <2> QED
    BY <1>1, <1>2, <2>1 DEF Insert
<1>3. ASSUME NEW q \in Requests, Retake(q)
      PROVE  Goal
  <2>1. [row[req[q].key] EXCEPT !.state = "pending", !.owner = q, !.live = TRUE].state
          # "completed"
    BY <1>0 DEF TypeOK, RowType
  <2> QED
    BY <1>1, <1>3, <2>1 DEF Retake, Take
<1>4. ASSUME NEW q \in Requests, MarkIndeterminate(q)
      PROVE  Goal
  <2>1. [row[req[q].key] EXCEPT !.state = "indeterminate", !.owner = NoRequest].state
          # "completed"
    BY <1>0 DEF TypeOK, RowType
  <2> QED
    BY <1>1, <1>4, <2>1 DEF MarkIndeterminate
<1>5. ASSUME NEW q \in Requests, Complete(q)
      PROVE  Goal
  <2>1. CASE CacheResponse(q)
    BY <1>5, <2>1, CacheWrites DEF Complete
  <2> QED
    BY <1>5, <2>1 DEF Complete
<1>6. ASSUME NEW q \in Requests, Release(q)
      PROVE  Goal
  <2>1. [row[req[q].key] EXCEPT !.state = "released"].state # "completed"
    BY <1>0 DEF TypeOK, RowType
  <2> QED
    BY <1>1, <1>6, <2>1 DEF Release
<1>7. ASSUME NEW l \in Keys, ExpireLease(l)
      PROVE  Goal
  BY <1>0, <1>7 DEF ExpireLease, TypeOK, RowType
<1>8. ASSUME UNCHANGED row
      PROVE  Goal
  BY <1>8
<1> QED
  BY <1>2, <1>3, <1>4, <1>5, <1>6, <1>7, <1>8 DEF Next, vars, Arrive, Read, CommandReturns,
     CommandRaises, CommandRaisesAfterCommit, InteractionRefused, Crash

\* The part of KeyTellsRequests that is about successful answers.
Successes ==
    /\ \A q \in Requests :
         /\ SuccessEnds(q)
         /\ req[q].pc = "complete" =>
              req[q].body \in Response /\ Happened(req[q].body, req[q].key)
    /\ \A k \in Keys :
         row[k].state = "completed" => Happened(row[k].body, k)

LEMMA SuccessesStay ==
    ASSUME TypeOK, Ownership, Successes, [Next]_vars
    PROVE  Successes'
<1>0. \A p \in Requests : /\ req[p].key \in Keys /\ req[p].body \in Bodies
                          /\ req'[p].key = req[p].key /\ req'[p].content = req[p].content
  BY RequestSteps DEF TypeOK, RequestType
<1>1. \A p \in Requests :
        Proceeds(p) \/ Concludes(p) \/ Fails(p) \/ Replays(p) \/ Finishes(p)
  BY RequestSteps
<1>2. \A k \in Keys : Settled(k) => row'[k] = row[k]
  BY SettledStays DEF Settled
<1>3. \A b, k : k \in Keys /\ Happened(b, k) => Happened(b, k)'
  BY EffectsRemain DEF Happened
<1>4. ASSUME NEW p \in Requests, Settled(req[p].key), ~Busy(p)
      PROVE  ~Busy(p)'
  BY <1>1, <1>4 DEF Proceeds, Concludes, Fails, Replays, Finishes, Busy, Settled, Row
<1>5. ASSUME NEW q \in Requests, req'[q].pc = "complete"
      PROVE  (req[q].body \in Response /\ Happened(req[q].body, req[q].key))'
  <2>1. CASE Concludes(q)
    BY <1>0, <2>1 DEF Concludes, Happened
  <2>2. CASE Proceeds(q)
    <3>1. req[q].body \in Response /\ Happened(req[q].body, req[q].key)
      BY <1>5, <2>2 DEF Proceeds, Successes
    <3>2. req[q].key \in Keys /\ req'[q].key = req[q].key /\ req'[q].body = req[q].body
      BY <1>0, <2>2 DEF Proceeds
    <3> QED
      BY <3>1, <3>2, EffectsRemain DEF Happened
  <2> QED
    BY <1>1, <1>5, <2>1, <2>2 DEF Fails, Replays, Finishes
<1>6. ASSUME NEW k \in Keys, row'[k].state = "completed"
      PROVE  Happened(row[k].body, k)'
  <2>1. CASE row[k].state = "completed"
    <3>1. Happened(row[k].body, k) /\ row'[k] = row[k]
      BY <1>2, <2>1 DEF Settled, Successes
    <3> QED
      BY <3>1, EffectsRemain DEF Happened
  <2>2. CASE row[k].state # "completed"
    <3>1. PICK q \in Requests : /\ req[q].pc = "complete" /\ req[q].key = k
                                /\ row'[k].body = Bounded(req[q].body)
      BY <1>6, <2>2, RowsComplete
    <3>2. Happened(req[q].body, k)
      BY <3>1 DEF Successes
    <3>3. Bounded(req[q].body) = req[q].body \/ Bounded(req[q].body) \notin Response
      BY <1>0, BoundedIsCached, HttpAssumption
    <3> QED
      BY <3>1, <3>2, <3>3, EffectsRemain DEF Happened
  <2> QED
    BY <2>1, <2>2
<1>7. ASSUME NEW q \in Requests, Succeeded(q)'
      PROVE  \/ Succeeded(q) /\ req'[q].body = req[q].body
             \/ Replays(q) \/ Finishes(q)
  <2>1. ~Concludes(q)
    BY <1>7 DEF Concludes, Successes, SuccessEnds, Succeeded, Busy
  <2> QED
    BY <1>1, <1>7, <2>1 DEF Proceeds, Fails, Succeeded
<1>8. ASSUME NEW q \in Requests, req[q].pc = "complete"
      PROVE  /\ StillOwner(q) \/ Row(q).state = "indeterminate"
             /\ Row(q).hash = {req[q].content}
             /\ \A p \in Requests : req[p].key = req[q].key =>
                   ~Succeeded(p) /\ (p # q => ~Busy(p))
  <2>1. Busy(q)
    BY <1>8 DEF Busy
  <2> QED
    BY <2>1 DEF Ownership, OneExecutor, BusyOwns, Successes, SuccessEnds
<1>9. ASSUME NEW q \in Requests, Succeeded(q), req'[q].body = req[q].body
      PROVE  SuccessEnds(q)'
  <2>1. SuccessEnds(q) /\ Succeeded(q) /\ req[q].key \in Keys
    BY <1>0, <1>9 DEF Successes
  <2>2. row'[req[q].key] = row[req[q].key]
    BY <1>2, <2>1 DEF SuccessEnds
  <2>3. Happened(req[q].body, req[q].key)'
    BY <1>0, <1>9, <2>1, EffectsRemain DEF SuccessEnds, Happened
  <2>4. ASSUME NEW p \in Requests, req[p].key = req[q].key
        PROVE  ~Busy(p)'
    BY <1>4, <2>1, <2>4 DEF SuccessEnds
  <2>5. ASSUME NEW p \in Requests, req[p].key = req[q].key,
               Row(q).state = "indeterminate", Succeeded(p)'
        PROVE  p = q
    <3>1. ~Replays(p)
      BY <2>5 DEF Replays, Row
    <3>2. ~Finishes(p)
      BY <1>8, <1>9, <2>5 DEF Finishes
    <3> QED
      BY <1>7, <2>1, <2>5, <3>1, <3>2 DEF SuccessEnds
  <2>6. Settled(req[q].key)' /\ Row(q)' = Row(q)
    BY <1>0, <2>1, <2>2 DEF SuccessEnds, Settled, Row
  <2> QED
    BY <1>0, <1>9, <2>1, <2>3, <2>4, <2>5, <2>6 DEF SuccessEnds
<1>10. ASSUME NEW q \in Requests, Replays(q)
       PROVE  SuccessEnds(q)'
  <2>1. Settled(req[q].key) /\ req[q].key \in Keys
    BY <1>0, <1>10 DEF Replays, Settled, Row
  <2>2. row'[req[q].key] = row[req[q].key]
    BY <1>2, <2>1
  <2>3. Happened(req[q].body, req[q].key)'
    BY <1>0, <1>6, <1>10, <2>1, <2>2 DEF Replays, Row, Happened
  <2>4. ASSUME NEW p \in Requests, req[p].key = req[q].key
        PROVE  ~Busy(p)'
    BY <1>4, <1>10, <2>1, <2>4 DEF Replays, Ownership, BusyOwns, StillOwner, Row
  <2>5. Settled(req[q].key)' /\ Row(q)' = Row(q)
    BY <1>0, <2>1, <2>2 DEF Settled, Row
  <2>6. Row(q).body = Bounded(Row(q).body)
    <3>1. Row(q).body \in CachedBodies /\ CachedBodies \subseteq Bodies
      BY <2>1 DEF TypeOK, RowType, Row, Bodies, CachedBodies
    <3> QED
      BY <3>1, BoundedIsCached
  <2> QED
    BY <1>0, <1>10, <2>3, <2>4, <2>5, <2>6 DEF SuccessEnds, Replays
<1>11. ASSUME NEW q \in Requests, Finishes(q)
       PROVE  SuccessEnds(q)'
  <2>1. req[q].pc = "complete" /\ req[q].key \in Keys /\ req'[q].body = req[q].body
    BY <1>0, <1>11 DEF Finishes
  <2>2. \/ Row(q)'.state = "completed" /\ Row(q)'.body = Bounded(req[q].body)
        \/ Row(q)'.state = "indeterminate"
    BY <1>0, <1>8, <1>11, <2>1, CacheWrites DEF Finishes, Row, StillOwner
  <2>3. Row(q)'.hash = {req[q].content}
    BY <1>0, <1>8, <1>11, <2>1, CacheWrites DEF Finishes, Row
  <2>4. Happened(req[q].body, req[q].key)'
    BY <1>0, <2>1, EffectsRemain DEF Successes, Happened
  <2>5. ASSUME NEW p \in Requests, req[p].key = req[q].key
        PROVE  ~Busy(p)'
    <3>1. CASE p = q
      BY <1>11, <3>1 DEF Finishes, Busy
    <3>2. CASE p # q
      <4>1. ~Busy(p) /\ Row(q).state \in {"pending", "indeterminate"}
        BY <1>8, <2>1, <2>5, <3>2 DEF StillOwner
      <4> QED
        BY <1>1, <2>5, <4>1 DEF Proceeds, Concludes, Fails, Replays, Finishes, Busy, Row
    <3> QED
      BY <3>1, <3>2
  <2>6. ASSUME NEW p \in Requests, req[p].key = req[q].key,
               Row(q)'.state = "indeterminate", Succeeded(p)'
        PROVE  p = q
    <3>1. ~Succeeded(p) /\ (Finishes(p) => p = q)
      BY <1>8, <2>1, <2>6 DEF Finishes, Busy
    <3>2. ~Replays(p)
      BY <1>8, <2>1, <2>6 DEF Replays, Row, StillOwner
    <3> QED
      BY <1>7, <2>6, <3>1, <3>2
  <2> QED
    BY <1>0, <2>1, <2>2, <2>3, <2>4, <2>5, <2>6 DEF SuccessEnds, Settled, Row
<1>12. \A q \in Requests : SuccessEnds(q)'
  BY <1>7, <1>9, <1>10, <1>11 DEF SuccessEnds
<1> QED
  BY <1>5, <1>6, <1>12 DEF Successes

\* What the row of a key says of its requests, as the runs check it.
THEOREM KeysTellRequests == Spec => []KeyTellsRequests
<1>1. TypeOK /\ Ownership /\ [Next]_vars => Ownership'
  BY OwnershipStays
<1>2. TypeOK /\ Ownership /\ EffectsTell /\ [Next]_vars => EffectsTell'
  BY EffectsStay
<1>3. TypeOK /\ Ownership /\ Successes /\ [Next]_vars => Successes'
  BY SuccessesStay
<1>4. Init => Successes
  BY DEF Init, Successes, SuccessEnds, Succeeded, NoRow
<1>5. Ownership /\ EffectsTell /\ Successes => KeyTellsRequests
  BY DEF Ownership, Successes, KeyTellsRequests
<1> QED
  BY TypeCorrectHttp, Beginning, <1>1, <1>2, <1>3, <1>4, <1>5, PTL DEF Spec

\* All successful answers under one key are one answer, and it is true.
THEOREM SuccessesAgree == Spec => []AnswersAgree
<1>1. ASSUME TypeOK, KeyTellsRequests
      PROVE  AnswersAgree
  <2> SUFFICES ASSUME NEW p \in Requests, NEW q \in Requests,
                      Succeeded(p), Succeeded(q), req[p].key = req[q].key
               PROVE  /\ req[p].content = req[q].content
                      /\ Bounded(req[p].body) = Bounded(req[q].body)
                      /\ req[p].body \in Response /\ ~req[p].body.refused =>
                           effects[req[p].key] > 0
    BY DEF AnswersAgree
  <2>1. SuccessEnds(p) /\ SuccessEnds(q) /\ Row(p) = Row(q)
    <3>1. SuccessEnds(p) /\ SuccessEnds(q)
      BY <1>1 DEF KeyTellsRequests
    <3>2. Row(p) = Row(q)
      BY DEF Row
    <3> QED
      BY <3>1, <3>2
  <2>2. req[p].content = req[q].content
    BY <2>1 DEF SuccessEnds
  <2>3. Bounded(req[p].body) = Bounded(req[q].body)
    <3>1. CASE Row(q).state = "completed"
      BY <2>1, <3>1 DEF SuccessEnds
    <3>2. CASE Row(q).state = "indeterminate"
      BY <2>1, <3>2 DEF SuccessEnds
    <3> QED
      BY <2>1, <3>1, <3>2 DEF SuccessEnds, Settled, Row
  <2> QED
    BY <2>1, <2>2, <2>3 DEF SuccessEnds, Happened
<1> QED
  BY TypeCorrectHttp, KeysTellRequests, <1>1, PTL

-----------------------------------------------------------------------------
(* The refinement of KeyPromise.                                           *)

\* What the refinement needs besides: a row that is not there has no content, answers
\* about to be given are true, and nobody has succeeded before the answer.
Honest ==
    /\ \A k \in Keys : row[k].state = "absent" => row[k].hash = {}
    /\ \A q \in Requests : AnswerIsTrue(q) /\ (req[q].pc # "answered" => ~Succeeded(q))

\* Rows are never deleted.
LEMMA RowsStayThere ==
    ASSUME TypeOK, [Next]_vars, NEW k \in Keys, row'[k].state = "absent"
    PROVE  row'[k] = row[k]
<1>0. row[k] \in RowType /\ \A p \in Requests : req[p].key \in Keys
  BY DEF TypeOK, RequestType
<1>1. ASSUME NEW q \in Requests, NEW r, r.state # "absent",
             row' = [row EXCEPT ![req[q].key] = r] \/ UNCHANGED row
      PROVE  row'[k] = row[k]
  BY <1>0, <1>1 DEF TypeOK
<1>2. ASSUME NEW q \in Requests, Insert(q)
      PROVE  row'[k] = row[k]
  <2>1. [NoRow EXCEPT !.state = "pending", !.hash = {req[q].content},
                      !.owner = q, !.live = TRUE].state # "absent"
    BY DEF NoRow
  <2> QED
    BY <1>1, <1>2, <2>1 DEF Insert
<1>3. ASSUME NEW q \in Requests, Retake(q)
      PROVE  row'[k] = row[k]
  <2>1. [row[req[q].key] EXCEPT !.state = "pending", !.owner = q, !.live = TRUE].state
          # "absent"
    BY <1>0 DEF TypeOK, RowType
  <2> QED
    BY <1>1, <1>3, <2>1 DEF Retake, Take
<1>4. ASSUME NEW q \in Requests, MarkIndeterminate(q)
      PROVE  row'[k] = row[k]
  <2>1. [row[req[q].key] EXCEPT !.state = "indeterminate", !.owner = NoRequest].state
          # "absent"
    BY <1>0 DEF TypeOK, RowType
  <2> QED
    BY <1>1, <1>4, <2>1 DEF MarkIndeterminate
<1>5. ASSUME NEW q \in Requests, Complete(q)
      PROVE  row'[k] = row[k]
  BY <1>5, CacheWrites DEF Complete
<1>6. ASSUME NEW q \in Requests, Release(q)
      PROVE  row'[k] = row[k]
  <2>1. [row[req[q].key] EXCEPT !.state = "released"].state # "absent"
    BY <1>0 DEF TypeOK, RowType
  <2> QED
    BY <1>1, <1>6, <2>1 DEF Release
<1>7. ASSUME NEW l \in Keys, ExpireLease(l)
      PROVE  row'[k] = row[k]
  BY <1>0, <1>7 DEF ExpireLease, TypeOK, RowType
<1>8. ASSUME UNCHANGED row
      PROVE  row'[k] = row[k]
  BY <1>8
<1> QED
  BY <1>2, <1>3, <1>4, <1>5, <1>6, <1>7, <1>8 DEF Next, vars, Arrive, Read, CommandReturns,
     CommandRaises, CommandRaisesAfterCommit, InteractionRefused, Crash

\* A step posts nothing, or it is an endpoint's, and at most one answer is made.
LEMMA Answering ==
    ASSUME TypeOK, Ownership, EffectsTell, Honest, [Next]_vars, NEW p \in Requests
    PROVE  AnswerIsTrue(p)' /\ (req'[p].pc # "answered" => ~Succeeded(p)')
<1> DEFINE Goal == AnswerIsTrue(p)' /\ (req'[p].pc # "answered" => ~Succeeded(p)')
<1>0. /\ req[p].key \in Keys /\ req'[p].key = req[p].key
      /\ AnswerIsTrue(p) /\ (req[p].pc # "answered" => ~Succeeded(p))
      /\ \A q \in Requests : req[q].key \in Keys
  BY RequestSteps DEF TypeOK, RequestType, Honest
<1>1. ASSUME req'[p] = req[p],
             req[p].pc = "complete" =>
                effects'[req[p].key] = effects[req[p].key] /\ doubts'[req[p].key] = doubts[req[p].key]
      PROVE  Goal
  BY <1>0, <1>1 DEF AnswerIsTrue, Succeeded
<1>2. ASSUME NEW q \in Requests, NEW pc, Goto(q, pc), pc \notin {"complete", "answered"},
             req[q].pc # "answered",
             p # q => UNCHANGED <<effects, doubts>> \/ req[p].key # req[q].key \/ ~Busy(p),
             \A k \in Keys : k # req[q].key => effects'[k] = effects[k] /\ doubts'[k] = doubts[k]
      PROVE  Goal
  <2>1. Moves(q, pc) /\ req'[q].status = req[q].status
    BY <1>2, GotoMoves
  <2>2. CASE p = q
    BY <1>0, <1>2, <2>1, <2>2 DEF Moves, AnswerIsTrue, Succeeded
  <2>3. CASE p # q
    <3>1. req'[p] = req[p]
      BY <2>1, <2>3 DEF Moves
    <3> QED
      BY <1>0, <1>1, <1>2, <2>3, <3>1 DEF Busy
  <2> QED
    BY <2>2, <2>3
<1>3. ASSUME NEW q \in Requests, NEW s, NEW b, Answer(q, s, b), UNCHANGED <<effects, doubts>>
      PROVE  Goal
  <2>1. Moves(q, "answered")
    BY <1>3, AnswerMoves
  <2>2. CASE p = q
    BY <2>1, <2>2 DEF Moves, AnswerIsTrue
  <2>3. CASE p # q
    BY <1>1, <1>3, <2>1, <2>3 DEF Moves
  <2> QED
    BY <2>2, <2>3
<1>4. ASSUME NEW q \in Requests, req[q].pc = "execute", p # q, req[p].key = req[q].key
      PROVE  ~Busy(p)
  BY <1>4 DEF Ownership, OneExecutor, Busy
<1>5. ASSUME NEW q \in Requests, CommandReturns(q)
      PROVE  Goal
  <2>1. /\ Moves(q, "complete") /\ req'[q].status = req[q].status
    BY <1>5, ReturnsMoves DEF CommandReturns
  <2>2. /\ effects'[req[q].key] = doubts[req[q].key] + 1
        /\ \A k \in Keys : k # req[q].key => effects'[k] = effects[k]
        /\ doubts' = doubts
    BY <1>0, <1>5 DEF CommandReturns, Commit, TypeOK, EffectsTell, OnlyDoubts
  <2>3. CASE p = q
    BY <1>0, <1>5, <2>1, <2>2, <2>3 DEF Moves, AnswerIsTrue, Succeeded, CommandReturns
  <2>4. CASE p # q
    <3>1. req'[p] = req[p] /\ req[q].pc = "execute"
      BY <1>5, <2>1, <2>4 DEF Moves, CommandReturns
    <3> QED
      BY <1>0, <1>1, <1>4, <2>2, <2>4, <3>1 DEF Busy
  <2> QED
    BY <2>3, <2>4
<1>6. ASSUME NEW q \in Requests, InteractionRefused(q)
      PROVE  Goal
  <2>1. /\ Moves(q, "complete") /\ req'[q].status = req[q].status /\ req'[q].body.refused
        /\ UNCHANGED <<effects, doubts>> /\ req[q].key \in Interactions
    BY <1>6, ReturnsMoves DEF InteractionRefused
  <2>2. CASE p = q
    BY <1>0, <1>6, <2>1, <2>2 DEF Moves, AnswerIsTrue, Succeeded, InteractionRefused
  <2>3. CASE p # q
    BY <1>1, <2>1, <2>3 DEF Moves
  <2> QED
    BY <2>2, <2>3
<1>7. ASSUME NEW q \in Requests, CommandRaisesAfterCommit(q)
      PROVE  Goal
  <2>1. \A k \in Keys : k # req[q].key => effects'[k] = effects[k] /\ doubts'[k] = doubts[k]
    BY <1>0, <1>7 DEF CommandRaisesAfterCommit, Commit, TypeOK
  <2>2. Goto(q, "release") /\ req[q].pc = "execute"
    BY <1>7 DEF CommandRaisesAfterCommit
  <2> QED
    BY <1>2, <1>4, <2>1, <2>2
<1>8. ASSUME NEW q \in Requests, Arrive(q) \/ CommandRaises(q) \/ Crash(q)
      PROVE  Goal
  BY <1>2, <1>8 DEF Arrive, CommandRaises, Crash
<1>9. ASSUME NEW q \in Requests, Insert(q) \/ Retake(q) \/ Read(q)
      PROVE  Goal
  BY <1>2, <1>3, <1>9 DEF Insert, Retake, Take, Read
<1>10. ASSUME NEW q \in Requests, MarkIndeterminate(q) \/ Complete(q) \/ Release(q)
       PROVE  Goal
  BY <1>3, <1>10 DEF MarkIndeterminate, Complete, Release
<1>11. ASSUME NEW k \in Keys, ExpireLease(k)
       PROVE  Goal
  BY <1>1, <1>11 DEF ExpireLease
<1>12. CASE UNCHANGED vars
  BY <1>1, <1>12 DEF vars
<1> QED
  BY <1>5, <1>6, <1>7, <1>8, <1>9, <1>10, <1>11, <1>12 DEF Next

LEMMA HonestStays ==
    ASSUME TypeOK, Ownership, EffectsTell, Honest, [Next]_vars
    PROVE  Honest'
<1>1. \A k \in Keys : row'[k].state = "absent" => row'[k].hash = {}
  BY RowsStayThere DEF Honest
<1> QED
  BY <1>1, Answering DEF Honest

\* What KeyPromise sees of a key.
SameAnswers(k) == Kept(k)' = Kept(k) /\ Told(k)' = Told(k)

SameCounts(k) == effects'[k] = effects[k] /\ doubts'[k] = doubts[k]

SameView(k) ==
    /\ Phase(k)' = Phase(k) /\ row'[k].hash = row[k].hash /\ Acting(k)' = Acting(k)
    /\ SameCounts(k) /\ SameAnswers(k)

Answers == Response \cup {TooLarge}

IsTrue(k, a) == effects[k] = doubts[k] + 1 \/ (k \in Interactions /\ a \in Refusals)

\* The moves of KeyPromise, for the columns of one key.
Takes(k) ==
    /\ Phase(k) = "free" /\ ~Acting(k) /\ effects[k] = doubts[k]
    /\ Phase(k)' = "taken" /\ Acting(k)' = TRUE
    /\ \E c \in Contents : row[k].hash \subseteq {c} /\ row'[k].hash = {c}
    /\ SameCounts(k) /\ SameAnswers(k)

Acts(k) ==
    /\ Acting(k) /\ effects[k] = doubts[k] /\ Told(k) = {}
    /\ Acting(k)' = FALSE /\ effects'[k] = effects[k] + 1
    /\ doubts'[k] \in {doubts[k], doubts[k] + 1}
    /\ Phase(k)' = Phase(k) /\ row'[k].hash = row[k].hash /\ SameAnswers(k)

Stops(k) ==
    /\ Acting(k) /\ Acting(k)' = FALSE
    /\ Phase(k)' = Phase(k) /\ row'[k].hash = row[k].hash /\ SameCounts(k) /\ SameAnswers(k)

KeepsCommand(k) == row'[k].hash = row[k].hash /\ Acting(k)' = Acting(k) /\ SameCounts(k)

Settles(k) ==
    /\ Phase(k) = "taken" /\ ~Acting(k) /\ Told(k) = {} /\ Phase(k)' = "done"
    /\ \E a \in Answers : /\ IsTrue(k, a) /\ Kept(k)' = {a}
                          /\ Told(k)' \in {Told(k), row[k].hash \X {a}}
    /\ KeepsCommand(k)

Repeats(k) ==
    /\ Phase(k) = "done" /\ Phase(k)' = "done" /\ Kept(k)' = Kept(k)
    /\ Told(k)' = row[k].hash \X Kept(k)
    /\ KeepsCommand(k)

TellsLate(k) ==
    /\ Phase(k) = "unknown" /\ ~Acting(k) /\ Told(k) = {} /\ Phase(k)' = "unknown"
    /\ \E a \in Answers : IsTrue(k, a) /\ Told(k)' = row[k].hash \X {a}
    /\ KeepsCommand(k) /\ Kept(k)' = Kept(k)

GivesBack(k) ==
    /\ Phase(k) = "taken" /\ ~Acting(k) /\ effects[k] = doubts[k] /\ Phase(k)' = "free"
    /\ KeepsCommand(k) /\ SameAnswers(k)

GivesUp(k) ==
    /\ Phase(k) = "taken" /\ Phase(k)' = "unknown"
    /\ KeepsCommand(k) /\ SameAnswers(k)

MovesAsPromised(k) ==
    \/ Takes(k) \/ Acts(k) \/ Stops(k) \/ Settles(k) \/ Repeats(k) \/ TellsLate(k)
    \/ GivesBack(k) \/ GivesUp(k)

KeysAreSound == TypeOK /\ Ownership /\ EffectsTell /\ Successes /\ Honest

\* What a key was told is what its succeeded requests were answered.
LEMMA ToldStays ==
    ASSUME NEW k \in Keys,
           \A p \in Requests : req'[p].key = req[p].key /\ req'[p].content = req[p].content,
           \A p \in Requests : req[p].key = k =>
              /\ Succeeded(p)' <=> Succeeded(p)
              /\ Succeeded(p) => req'[p].body = req[p].body
    PROVE  Told(k)' = Told(k)
<1>1. \A p \in Requests :
        req[p].key = k /\ Succeeded(p) => Bounded(req'[p].body) = Bounded(req[p].body)
  OBVIOUS
<1>2. ASSUME NEW x PROVE x \in Told(k)' <=> x \in Told(k)
  BY <1>1 DEF Told
<1> QED BY <1>2 DEF Told

LEMMA ToldOnce ==
    ASSUME NEW k \in Keys, NEW q \in Requests, req[q].key = k, Succeeded(q)',
           \A p \in Requests : /\ req'[p].key = req[p].key /\ req'[p].content = req[p].content
                               /\ p # q => req'[p] = req[p],
           NEW c, NEW a, c = req[q].content, a = Bounded(req'[q].body),
           \A p \in Requests : p # q /\ req[p].key = k /\ Succeeded(p) =>
              req[p].content = c /\ Bounded(req[p].body) = a
    PROVE  Told(k)' = {c} \X {a}
<1>1. \A p \in Requests : p # q => (Succeeded(p)' <=> Succeeded(p))
  BY DEF Succeeded
<1>2. ASSUME NEW p \in Requests, req'[p].key = k, Succeeded(p)'
      PROVE  <<req'[p].content, Bounded(req'[p].body)>> = <<c, a>>
  <2>1. CASE p = q
    BY <2>1
  <2>2. CASE p # q
    BY <1>1, <1>2, <2>2
  <2> QED BY <2>1, <2>2
<1>3. <<c, a>> = <<req'[q].content, Bounded(req'[q].body)>> /\ req'[q].key = k
  OBVIOUS
<1>4. ASSUME NEW x PROVE x \in Told(k)' <=> x = <<c, a>>
  BY <1>2, <1>3 DEF Told
<1> QED BY <1>4 DEF Told

\* Whoever is busy with a key has it alone, and nobody was answered under it.
LEMMA AloneWith ==
    ASSUME KeysAreSound, NEW k \in Keys, NEW q \in Requests, req[q].key = k, Busy(q)
    PROVE  /\ Told(k) = {} /\ row[k].hash = {req[q].content}
           /\ (row[k].state = "pending" /\ row[k].owner = q) \/ row[k].state = "indeterminate"
           /\ Acting(k) <=> req[q].pc = "execute"
           /\ \A p \in Requests : req[p].key = k => ~Succeeded(p) /\ (p # q => ~Busy(p))
<1>1. \A p \in Requests : req[p].key = k => ~Succeeded(p) /\ (p # q => ~Busy(p))
  BY DEF KeysAreSound, Ownership, OneExecutor, Successes, SuccessEnds
<1>2. Told(k) = {}
  BY <1>1 DEF Told
<1>3. Acting(k) <=> req[q].pc = "execute"
  BY <1>1 DEF Acting, Busy
<1>4. /\ row[k].hash = {req[q].content}
      /\ (row[k].state = "pending" /\ row[k].owner = q) \/ row[k].state = "indeterminate"
  BY DEF KeysAreSound, Ownership, BusyOwns, StillOwner, Row
<1> QED BY <1>1, <1>2, <1>3, <1>4

\* A key no step is about.
LEMMA OthersLook ==
    ASSUME NEW q \in Requests, NEW pc, Moves(q, pc), NEW k \in Keys, k # req[q].key,
           row'[k] = row[k], SameCounts(k)
    PROVE  SameView(k)
<1>1. \A p \in Requests : req[p].key = k => req'[p] = req[p]
  BY DEF Moves
<1>2. \A p \in Requests : req'[p].key = req[p].key /\ req'[p].content = req[p].content
  BY DEF Moves
<1>3. Told(k)' = Told(k)
  BY <1>1, <1>2, ToldStays DEF Succeeded
<1>4. Acting(k)' = Acting(k)
  BY <1>1, <1>2 DEF Acting
<1> QED BY <1>3, <1>4 DEF SameView, SameAnswers, Phase, Kept

\* The request of a step, and where it goes: who acts under its key.
LEMMA ActingMoves ==
    ASSUME NEW q \in Requests, NEW pc, Moves(q, pc), NEW k \in Keys, k = req[q].key
    PROVE  /\ pc = "execute" => Acting(k)' = TRUE
           /\ pc # "execute" /\ (\A p \in Requests : req[p].key = k /\ p # q => ~Busy(p))
                => Acting(k)' = FALSE
           /\ pc # "execute" /\ req[q].pc # "execute" => Acting(k)' = Acting(k)
<1>1. ASSUME pc = "execute" PROVE Acting(k)' = TRUE
  BY <1>1 DEF Moves, Acting
<1>2. ASSUME pc # "execute", \A p \in Requests : req[p].key = k /\ p # q => ~Busy(p)
      PROVE  Acting(k)' = FALSE
  BY <1>2 DEF Moves, Acting, Busy
<1>3. ASSUME pc # "execute", req[q].pc # "execute" PROVE Acting(k)' = Acting(k)
  BY <1>3 DEF Moves, Acting
<1> QED BY <1>1, <1>2, <1>3

\* A request goes on, or is answered with nothing: nobody is told anything.
LEMMA NothingTold ==
    ASSUME NEW q \in Requests, NEW pc, Moves(q, pc), ~Succeeded(q), ~Succeeded(q)',
           NEW k \in Keys
    PROVE  Told(k)' = Told(k)
<1>1. \A p \in Requests : req'[p].key = req[p].key /\ req'[p].content = req[p].content
  BY DEF Moves
<1>2. \A p \in Requests : /\ Succeeded(p)' <=> Succeeded(p)
                          /\ Succeeded(p) => req'[p].body = req[p].body
  BY DEF Moves, Succeeded
<1> QED BY <1>1, <1>2, ToldStays

\* A request whose step is not an endpoint's, and that is not served by it, leaves its
\* key as it is, or as its row says.
LEMMA UnservedStep ==
    ASSUME KeysAreSound, NEW q \in Requests, NEW pc, Moves(q, pc), ~Succeeded(q), ~Succeeded(q)',
           UNCHANGED <<effects, doubts>>, req[q].pc # "execute", pc # "execute",
           NEW k \in Keys, k = req[q].key, row'[k].hash = row[k].hash
    PROVE  KeepsCommand(k) /\ Told(k)' = Told(k)
<1>1. Told(k)' = Told(k)
  BY NothingTold
<1>2. Acting(k)' = Acting(k)
  BY ActingMoves
<1> QED BY <1>1, <1>2 DEF KeepsCommand, SameCounts

LEMMA QuietStep ==
    ASSUME KeysAreSound, NEW q \in Requests, NEW pc, Moves(q, pc), ~Succeeded(q), ~Succeeded(q)',
           UNCHANGED <<effects, doubts>>, req[q].pc # "execute", pc # "execute",
           NEW k \in Keys, k = req[q].key, row'[k] = row[k]
    PROVE  SameView(k)
<1>1. KeepsCommand(k) /\ Told(k)' = Told(k)
  BY UnservedStep
<1> QED BY <1>1 DEF SameView, KeepsCommand, SameAnswers, Phase, Kept

\* A row nobody settled keeps no answer.
LEMMA TakingStep ==
    ASSUME KeysAreSound, NEW q \in Requests, Moves(q, "execute"), req'[q].status = req[q].status,
           req[q].pc \in {"claim", "retake"}, UNCHANGED <<effects, doubts>>,
           NEW k \in Keys, k = req[q].key, row[k].state \in {"absent", "released"},
           row[k].hash \subseteq {req[q].content},
           row'[k].state = "pending", row'[k].hash = {req[q].content}
    PROVE  Takes(k)
<1>1. ~Succeeded(q) /\ ~Succeeded(q)'
  BY DEF KeysAreSound, Honest, Succeeded
<1>2. Told(k)' = Told(k)
  BY <1>1, NothingTold
<1>3. \A p \in Requests : req[p].key = k => ~Busy(p)
  BY DEF KeysAreSound, Ownership, BusyOwns, StillOwner, Row
<1>4. ~Acting(k)
  BY <1>3 DEF Acting, Busy
<1>5. Acting(k)' = TRUE
  BY ActingMoves
<1>6. effects[k] = doubts[k]
  BY DEF KeysAreSound, EffectsTell, OnlyDoubts
<1>7. Phase(k) = "free" /\ Phase(k)' = "taken" /\ Kept(k)' = Kept(k)
  BY DEF Phase, Kept
<1>8. req[q].content \in Contents
  BY DEF KeysAreSound, TypeOK, RequestType
<1> QED BY <1>2, <1>4, <1>5, <1>6, <1>7, <1>8 DEF Takes, SameCounts, SameAnswers

LEMMA ClaimMoves ==
    ASSUME KeysAreSound, NEW q \in Requests, Insert(q) \/ (Retake(q) /\ Row(q).state = "released"),
           NEW k \in Keys, k = req[q].key
    PROVE  Takes(k)
<1>1. CASE Insert(q)
  <2>1. Moves(q, "execute") /\ req'[q].status = req[q].status
    BY <1>1, GotoMoves DEF Insert, KeysAreSound
  <2> DEFINE after == [NoRow EXCEPT !.state = "pending", !.hash = {req[q].content},
                                    !.owner = q, !.live = TRUE]
  <2>2. after.state = "pending" /\ after.hash = {req[q].content}
    BY DEF NoRow
  <2>3. row'[k] = after
    BY <1>1 DEF Insert, KeysAreSound, TypeOK
  <2> HIDE DEF after
  <2>4. row[k].state = "absent" /\ row[k].hash = {}
    BY <1>1 DEF Insert, Row, KeysAreSound, Honest
  <2> QED BY <1>1, <2>1, <2>2, <2>3, <2>4, TakingStep DEF Insert
<1>2. CASE Retake(q) /\ Row(q).state = "released"
  <2>1. Take(q) /\ UNCHANGED <<effects, doubts>> /\ req[q].pc = "retake"
    BY <1>2 DEF Retake
  <2>2. /\ Moves(q, "execute") /\ req'[q].status = req[q].status
        /\ row'[k] = [row[k] EXCEPT !.state = "pending", !.owner = q, !.live = TRUE]
    BY <2>1, TakeWrites DEF KeysAreSound
  <2>3. row'[k].state = "pending" /\ row'[k].hash = row[k].hash
    BY <2>2 DEF KeysAreSound, TypeOK, RowType
  <2>4. row[k].hash = {req[q].content}
    BY <2>1 DEF KeysAreSound, Ownership, ReadSameContent, Row
  <2> QED BY <1>2, <2>1, <2>2, <2>3, <2>4, TakingStep DEF Row
<1> QED BY <1>1, <1>2

\* The step of an endpoint.
LEMMA EndpointMoves ==
    ASSUME KeysAreSound, NEW q \in Requests, NEW k \in Keys, k = req[q].key,
           req[q].pc = "execute",
           \/ CommandReturns(q) \/ CommandRaises(q) \/ CommandRaisesAfterCommit(q)
           \/ InteractionRefused(q) \/ Crash(q)
    PROVE  Acts(k) \/ Stops(k)
<1>1. PICK pc : /\ Moves(q, pc) /\ pc \in {"complete", "release", "lost"}
                /\ req'[q].status = req[q].status
  BY GotoMoves, ReturnsMoves DEF CommandReturns, CommandRaises, CommandRaisesAfterCommit,
     InteractionRefused, Crash, KeysAreSound
<1>2. /\ Busy(q) /\ Told(k) = {} /\ Acting(k)
      /\ \A p \in Requests : req[p].key = k => ~Succeeded(p) /\ (p # q => ~Busy(p))
  BY AloneWith DEF Busy
<1>3. Acting(k)' = FALSE
  BY <1>1, <1>2, ActingMoves
<1>4. Told(k)' = Told(k)
  BY <1>1, <1>2, NothingTold DEF Succeeded
<1>5. UNCHANGED row
  BY DEF CommandReturns, CommandRaises, CommandRaisesAfterCommit, InteractionRefused, Crash
<1>6. Phase(k)' = Phase(k) /\ row'[k].hash = row[k].hash /\ SameAnswers(k)
  BY <1>4, <1>5 DEF Phase, SameAnswers, Kept
<1>7. effects[k] = doubts[k] /\ effects[k] \in Nat /\ doubts[k] \in Nat
  BY DEF KeysAreSound, EffectsTell, OnlyDoubts, TypeOK
<1>8. CASE CommandReturns(q) \/ CommandRaisesAfterCommit(q)
  <2>1. effects'[k] = effects[k] + 1 /\ doubts'[k] \in {doubts[k], doubts[k] + 1}
    BY <1>8 DEF CommandReturns, CommandRaisesAfterCommit, Commit, KeysAreSound, TypeOK
  <2> QED BY <1>2, <1>3, <1>6, <1>7, <2>1 DEF Acts
<1>9. CASE CommandRaises(q) \/ InteractionRefused(q) \/ Crash(q)
  <2>1. SameCounts(k)
    BY <1>9 DEF CommandRaises, InteractionRefused, Crash, SameCounts
  <2> QED BY <1>2, <1>3, <1>6, <2>1 DEF Stops
<1> QED BY <1>8, <1>9

\* guard.complete: the answer is true, and for the content the key is for.
LEMMA CompleteMoves ==
    ASSUME KeysAreSound, NEW q \in Requests, Complete(q), NEW k \in Keys, k = req[q].key
    PROVE  SameView(k) \/ Settles(k) \/ TellsLate(k)
<1> DEFINE a == Bounded(req[q].body)
<1>1. /\ req[q].pc = "complete" /\ Busy(q) /\ UNCHANGED <<effects, doubts>>
      /\ Told(k) = {} /\ row[k].hash = {req[q].content} /\ ~Acting(k)
      /\ (row[k].state = "pending" /\ row[k].owner = q) \/ row[k].state = "indeterminate"
      /\ \A p \in Requests : req[p].key = k => ~Succeeded(p) /\ (p # q => ~Busy(p))
  BY AloneWith DEF Complete, Busy
<1>2. a \in Answers /\ IsTrue(k, a)
  <2>1. req[q].body \in Response /\ AnswerIsTrue(q)
    BY <1>1 DEF KeysAreSound, Successes, Honest
  <2>2. a = req[q].body \/ a = TooLarge
    BY DEF Bounded
  <2>3. req[q].body.refused => a \in Refusals
    BY <2>1, <2>2 DEF Refusals
  <2> HIDE DEF a
  <2> QED BY <1>1, <2>1, <2>2, <2>3 DEF Answers, IsTrue, AnswerIsTrue
<1>3. PICK s, b : Answer(q, s, b) /\ ((s = "ok" /\ b = req[q].body) \/ s = "error")
  <2>1. CASE Answer(q, "ok", req[q].body)
    BY <2>1
  <2>2. CASE Answer(q, "error", NoBody)
    BY <2>2
  <2> QED BY <2>1, <2>2 DEF Complete
<1>4. Moves(q, "answered") /\ req'[q].status = s /\ req'[q].body = b
  BY <1>3, AnswerMoves DEF KeysAreSound
<1>5. Acting(k)' = Acting(k)
  <2>1. PICK pc : Moves(q, pc) /\ pc # "execute" /\ req[q].pc # "execute"
    BY <1>1, <1>4
  <2> QED BY <2>1, ActingMoves
<1>6. s = "error" => Told(k)' = Told(k)
  BY <1>1, <1>4, NothingTold DEF Succeeded
<1>7. s = "ok" => Told(k)' = row[k].hash \X {a}
  <2> SUFFICES ASSUME s = "ok" PROVE Told(k)' = {req[q].content} \X {a}
    BY <1>1
  <2>1. b = req[q].body /\ Succeeded(q)'
    BY <1>3, <1>4 DEF Succeeded
  <2>2. \A p \in Requests : /\ req'[p].key = req[p].key /\ req'[p].content = req[p].content
                            /\ p # q => req'[p] = req[p]
    BY <1>4 DEF Moves
  <2>3. a = Bounded(req'[q].body)
    BY <1>4, <2>1
  <2> HIDE DEF a
  <2> QED BY <1>1, <2>1, <2>2, <2>3, ToldOnce
<1>8. CASE row[k].state = "pending" /\ row[k].owner = q /\ row' # row
  <2>1. CacheResponse(q) /\ StillOwner(q)
    BY <1>8, <1>3 DEF Complete, StillOwner, Row
  <2>2. row'[k].state = "completed" /\ row'[k].hash = row[k].hash /\ row'[k].body = a
    BY <2>1, CacheWrites DEF KeysAreSound
  <2>3. Phase(k) = "taken" /\ Phase(k)' = "done" /\ Kept(k)' = {a}
    BY <1>8, <2>2 DEF Phase, Kept
  <2> HIDE DEF a
  <2>4. Told(k)' \in {Told(k), row[k].hash \X {a}}
    BY <1>3, <1>6, <1>7
  <2> QED BY <1>1, <1>2, <1>5, <2>2, <2>3, <2>4 DEF Settles, KeepsCommand, SameCounts
<1>9. CASE ~(row[k].state = "pending" /\ row[k].owner = q /\ row' # row)
  <2>1. row' = row
    BY <1>9 DEF Complete, CacheResponse, StillOwner, Row
  <2>2. Phase(k)' = Phase(k) /\ Kept(k)' = Kept(k) /\ KeepsCommand(k)
    BY <1>1, <1>5, <2>1 DEF Phase, Kept, KeepsCommand, SameCounts
  <2>3. CASE s = "error"
    BY <1>6, <2>2, <2>3 DEF SameView, SameAnswers, KeepsCommand
  <2>4. CASE s = "ok"
    <3>1. CacheResponse(q)
      BY <1>3, <1>4, <2>4, AnswerMoves DEF Complete, KeysAreSound
    <3>2. row[k].state = "indeterminate"
      <4>1. StillOwner(q) => row'[k].state = "completed"
        BY <3>1, CacheWrites DEF KeysAreSound
      <4> QED BY <1>1, <2>1, <4>1 DEF StillOwner, Row
    <3>3. Phase(k) = "unknown" /\ Phase(k)' = "unknown"
      BY <2>2, <3>2 DEF Phase
    <3> HIDE DEF a
    <3> QED BY <1>1, <1>2, <1>7, <2>2, <2>4, <3>3 DEF TellsLate
  <2> QED BY <1>3, <2>3, <2>4
<1> QED BY <1>8, <1>9

LEMMA ReleaseMoves ==
    ASSUME KeysAreSound, NEW q \in Requests, Release(q), NEW k \in Keys, k = req[q].key
    PROVE  SameView(k) \/ GivesBack(k)
<1>1. /\ req[q].pc = "release" /\ Busy(q) /\ UNCHANGED <<effects, doubts>> /\ ~Acting(k)
      /\ ~Succeeded(q)
  BY AloneWith DEF Release, Busy
<1>2. Moves(q, "answered") /\ ~Succeeded(q)'
  BY AnswerMoves DEF Release, KeysAreSound, Succeeded
<1>3. CASE row' = row
  BY <1>1, <1>2, <1>3, QuietStep
<1>4. CASE row' # row
  <2>1. StillOwner(q) /\ row' = [row EXCEPT ![req[q].key].state = "released"]
    BY <1>4 DEF Release
  <2>2. row[k].state = "pending" /\ row'[k].state = "released" /\ row'[k].hash = row[k].hash
    BY <2>1 DEF StillOwner, Row, KeysAreSound, TypeOK, RowType
  <2>3. KeepsCommand(k) /\ Told(k)' = Told(k)
    BY <1>1, <1>2, <2>2, UnservedStep
  <2>4. Phase(k) = "taken" /\ Phase(k)' = "free" /\ Kept(k)' = Kept(k)
    BY <2>2 DEF Phase, Kept
  <2>5. effects[k] = doubts[k]
    BY <1>1 DEF KeysAreSound, EffectsTell, OnlyDoubts
  <2> QED BY <1>1, <2>3, <2>4, <2>5 DEF GivesBack, SameAnswers
<1> QED BY <1>3, <1>4

LEMMA ExpiryMoves ==
    ASSUME KeysAreSound, NEW q \in Requests, MarkIndeterminate(q), NEW k \in Keys, k = req[q].key
    PROVE  SameView(k) \/ GivesUp(k)
<1>1. /\ req[q].pc = "expire" /\ UNCHANGED <<effects, doubts>> /\ ~Succeeded(q)
  BY DEF MarkIndeterminate, KeysAreSound, Honest
<1>2. Moves(q, "answered") /\ ~Succeeded(q)'
  BY AnswerMoves DEF MarkIndeterminate, KeysAreSound, Succeeded
<1>3. CASE row' = row
  BY <1>1, <1>2, <1>3, QuietStep
<1>4. CASE row' # row
  <2> DEFINE after == [row[k] EXCEPT !.state = "indeterminate", !.owner = NoRequest]
  <2>1. row[k].state = "pending" /\ row' = [row EXCEPT ![k] = after]
    BY <1>4 DEF MarkIndeterminate, Row
  <2>2. after.state = "indeterminate" /\ after.hash = row[k].hash
    BY DEF KeysAreSound, TypeOK, RowType
  <2>3. row'[k] = after
    BY <2>1 DEF KeysAreSound, TypeOK
  <2> HIDE DEF after
  <2>4. row'[k].state = "indeterminate" /\ row'[k].hash = row[k].hash
    BY <2>2, <2>3
  <2>5. KeepsCommand(k) /\ Told(k)' = Told(k)
    BY <1>1, <1>2, <2>4, UnservedStep
  <2>6. Phase(k) = "taken" /\ Phase(k)' = "unknown" /\ Kept(k)' = Kept(k)
    BY <2>1, <2>4 DEF Phase, Kept
  <2> QED BY <2>5, <2>6 DEF GivesUp, SameAnswers
<1> QED BY <1>3, <1>4

\* The SELECT: a replay repeats what is kept, and nothing else is an answer.
LEMMA ReadMoves ==
    ASSUME KeysAreSound, NEW q \in Requests, Read(q), NEW k \in Keys, k = req[q].key
    PROVE  SameView(k) \/ Repeats(k)
<1>1. /\ req[q].pc = "claim" /\ UNCHANGED <<row, effects, doubts>> /\ ~Succeeded(q)
  BY DEF Read, KeysAreSound, Honest
<1>2. CASE \/ Answer(q, "violation", NoBody) \/ Answer(q, "reconcile", NoBody)
           \/ Goto(q, "retake") \/ Goto(q, "expire")
  <2>1. PICK pc : Moves(q, pc) /\ pc # "execute" /\ ~Succeeded(q)'
    BY <1>1, <1>2, AnswerMoves, GotoMoves DEF KeysAreSound, Succeeded
  <2> QED BY <1>1, <2>1, QuietStep
<1>3. CASE ~OtherContent(q) /\ Row(q).state = "completed" /\ Answer(q, "replay", Row(q).body)
  <2>1. Moves(q, "answered") /\ req'[q].status = "replay" /\ req'[q].body = row[k].body
    BY <1>3, AnswerMoves DEF KeysAreSound, Row
  <2>2. row[k].state = "completed" /\ row[k].hash = {req[q].content}
    BY <1>3 DEF OtherContent, Row
  <2>3. Bounded(row[k].body) = row[k].body
    <3>1. row[k].body \in CachedBodies /\ CachedBodies \subseteq Bodies
      BY DEF KeysAreSound, TypeOK, RowType, Bodies, CachedBodies
    <3> QED BY <3>1, BoundedIsCached
  <2>4. \A p \in Requests : req[p].key = k /\ Succeeded(p) =>
           req[p].content = req[q].content /\ Bounded(req[p].body) = row[k].body
    BY <2>2 DEF KeysAreSound, Successes, SuccessEnds, Row
  <2>5. \A p \in Requests : /\ req'[p].key = req[p].key /\ req'[p].content = req[p].content
                            /\ p # q => req'[p] = req[p]
    BY <2>1 DEF Moves
  <2>6. Succeeded(q)'
    BY <2>1 DEF Succeeded
  <2>7. Told(k)' = {req[q].content} \X {row[k].body}
    <3>1. row[k].body = Bounded(req'[q].body)
      BY <2>1, <2>3
    <3> QED BY <2>4, <2>5, <2>6, <3>1, ToldOnce
  <2>8. Acting(k)' = Acting(k)
    <3>1. PICK pc : Moves(q, pc) /\ pc # "execute" /\ req[q].pc # "execute"
      BY <1>1, <2>1
    <3> QED BY <3>1, ActingMoves
  <2> QED BY <1>1, <2>2, <2>7, <2>8 DEF Repeats, KeepsCommand, SameCounts, Phase, Kept
<1> QED BY <1>2, <1>3 DEF Read

\* Each step of a request is a move of its key, or is not seen, and other keys stand.
LEMMA RequestMoves ==
    ASSUME KeysAreSound, NEW q \in Requests, NEW k \in Keys, k = req[q].key,
           \/ Arrive(q) \/ Insert(q) \/ Read(q) \/ Retake(q) \/ MarkIndeterminate(q)
           \/ CommandReturns(q) \/ CommandRaises(q) \/ CommandRaisesAfterCommit(q)
           \/ InteractionRefused(q) \/ Complete(q) \/ Release(q) \/ Crash(q)
    PROVE  SameView(k) \/ MovesAsPromised(k)
<1>1. CASE Insert(q) \/ (Retake(q) /\ Row(q).state = "released")
  BY <1>1, ClaimMoves DEF MovesAsPromised
<1>2. CASE Read(q)
  BY <1>2, ReadMoves DEF MovesAsPromised
<1>3. CASE MarkIndeterminate(q)
  BY <1>3, ExpiryMoves DEF MovesAsPromised
<1>4. CASE Complete(q)
  BY <1>4, CompleteMoves DEF MovesAsPromised
<1>5. CASE Release(q)
  BY <1>5, ReleaseMoves DEF MovesAsPromised
<1>6. CASE \/ CommandReturns(q) \/ CommandRaises(q) \/ CommandRaisesAfterCommit(q)
           \/ InteractionRefused(q) \/ (Crash(q) /\ req[q].pc = "execute")
  <2>1. req[q].pc = "execute"
    BY <1>6 DEF CommandReturns, CommandRaises, CommandRaisesAfterCommit, InteractionRefused
  <2> QED BY <1>6, <2>1, EndpointMoves DEF MovesAsPromised
<1>7. CASE Arrive(q) \/ (Crash(q) /\ req[q].pc # "execute")
  <2>1. PICK pc : Goto(q, pc) /\ pc \in {"claim", "lost"}
    BY <1>7 DEF Arrive, Crash
  <2>2. /\ UNCHANGED <<row, effects, doubts>> /\ req[q].pc # "execute"
        /\ req[q].pc # "answered"
    BY <1>7 DEF Arrive, Crash
  <2>3. Moves(q, pc) /\ req'[q].status = req[q].status /\ pc # "execute"
    BY <2>1, GotoMoves DEF KeysAreSound
  <2>4. ~Succeeded(q) /\ ~Succeeded(q)'
    BY <2>2, <2>3 DEF KeysAreSound, Honest, Succeeded
  <2>5. row'[k] = row[k]
    BY <2>2
  <2> QED BY <2>2, <2>3, <2>4, <2>5, QuietStep
<1>8. CASE Retake(q) /\ Row(q).state # "released"
  <2>1. /\ Answer(q, "in_progress", NoBody) /\ UNCHANGED <<row, effects, doubts>>
        /\ req[q].pc = "retake"
    BY <1>8 DEF Retake
  <2>2. Moves(q, "answered") /\ ~Succeeded(q)'
    BY <2>1, AnswerMoves DEF KeysAreSound, Succeeded
  <2>3. PICK pc : Moves(q, pc) /\ pc # "execute" /\ req[q].pc # "execute"
    BY <2>1, <2>2
  <2>4. ~Succeeded(q)
    BY <2>1 DEF KeysAreSound, Honest
  <2>5. row'[k] = row[k]
    BY <2>1
  <2> QED BY <2>1, <2>2, <2>3, <2>4, <2>5, QuietStep
<1> QED BY <1>1, <1>2, <1>3, <1>4, <1>5, <1>6, <1>7, <1>8

\* A step of a request writes at most the row of its key.
LEMMA OthersStand ==
    ASSUME KeysAreSound, NEW q \in Requests, NEW k \in Keys, k # req[q].key,
           \/ Arrive(q) \/ Insert(q) \/ Read(q) \/ Retake(q) \/ MarkIndeterminate(q)
           \/ CommandReturns(q) \/ CommandRaises(q) \/ CommandRaisesAfterCommit(q)
           \/ InteractionRefused(q) \/ Complete(q) \/ Release(q) \/ Crash(q)
    PROVE  SameView(k)
<1>0. req[q].key \in Keys
  BY DEF KeysAreSound, TypeOK, RequestType
<1>1. \E pc : Moves(q, pc)
  <2>1. CASE \/ Arrive(q) \/ Insert(q) \/ CommandRaises(q) \/ CommandRaisesAfterCommit(q)
             \/ Crash(q)
    BY <2>1, GotoMoves DEF Arrive, Insert, CommandRaises, CommandRaisesAfterCommit, Crash,
       KeysAreSound
  <2>2. CASE Read(q) \/ Retake(q)
    BY <2>2, GotoMoves, AnswerMoves DEF Read, Retake, Take, KeysAreSound
  <2>3. CASE MarkIndeterminate(q) \/ Complete(q) \/ Release(q)
    BY <2>3, AnswerMoves DEF MarkIndeterminate, Complete, Release, KeysAreSound
  <2>4. CASE CommandReturns(q) \/ InteractionRefused(q)
    BY <2>4, ReturnsMoves DEF CommandReturns, InteractionRefused, KeysAreSound
  <2> QED BY <2>1, <2>2, <2>3, <2>4
<1>2. row'[k] = row[k]
  BY <1>0 DEF Arrive, Insert, Read, Retake, Take, MarkIndeterminate, CommandReturns,
     CommandRaises, CommandRaisesAfterCommit, InteractionRefused, Complete, CacheResponse,
     Release, Crash, KeysAreSound, TypeOK
<1>3. SameCounts(k)
  BY <1>0 DEF Arrive, Insert, Read, Retake, MarkIndeterminate, CommandReturns,
     CommandRaises, CommandRaisesAfterCommit, InteractionRefused, Complete, Release, Crash,
     Commit, SameCounts, KeysAreSound, TypeOK
<1> QED BY <1>1, <1>2, <1>3, OthersLook

\* Time passes unseen.
LEMMA LeaseIsNotSeen ==
    ASSUME KeysAreSound, NEW l \in Keys, ExpireLease(l), NEW k \in Keys
    PROVE  SameView(k)
<1>1. row'[k].state = row[k].state /\ row'[k].hash = row[k].hash /\ row'[k].body = row[k].body
  BY DEF ExpireLease, KeysAreSound, TypeOK, RowType
<1>2. UNCHANGED <<req, effects, doubts>>
  BY DEF ExpireLease
<1> QED BY <1>1, <1>2 DEF SameView, SameCounts, SameAnswers, Phase, Kept, Told, Acting, Succeeded

LEMMA StepMoves ==
    ASSUME KeysAreSound, [Next]_vars
    PROVE  \/ \A k \in Keys : SameView(k)
           \/ \E l \in Keys : MovesAsPromised(l) /\ \A k \in Keys \ {l} : SameView(k)
<1>1. CASE UNCHANGED vars
  BY <1>1 DEF vars, SameView, SameCounts, SameAnswers, Phase, Kept, Told, Acting, Succeeded
<1>2. ASSUME NEW l \in Keys, ExpireLease(l)
      PROVE  \A k \in Keys : SameView(k)
  BY <1>2, LeaseIsNotSeen
<1>3. ASSUME NEW q \in Requests,
             \/ Arrive(q) \/ Insert(q) \/ Read(q) \/ Retake(q) \/ MarkIndeterminate(q)
             \/ CommandReturns(q) \/ CommandRaises(q) \/ CommandRaisesAfterCommit(q)
             \/ InteractionRefused(q) \/ Complete(q) \/ Release(q) \/ Crash(q)
      PROVE  \/ \A k \in Keys : SameView(k)
             \/ \E l \in Keys : MovesAsPromised(l) /\ \A k \in Keys \ {l} : SameView(k)
  <2>1. PICK l \in Keys : l = req[q].key
    BY DEF KeysAreSound, TypeOK, RequestType
  <2>2. \A k \in Keys \ {l} : SameView(k)
    BY <1>3, <2>1, OthersStand
  <2>3. SameView(l) \/ MovesAsPromised(l)
    BY <1>3, <2>1, RequestMoves
  <2> QED BY <2>2, <2>3
<1> QED BY <1>1, <1>2, <1>3 DEF Next

\* Two functions that agree everywhere but at one place.
LEMMA ChangedAt ==
    ASSUME NEW S, NEW q \in S, NEW f, NEW g,
           f = [p \in S |-> f[p]], g = [p \in S |-> g[p]],
           \A p \in S \ {q} : g[p] = f[p]
    PROVE  g = [f EXCEPT ![q] = g[q]] /\ (g[q] = f[q] => g = f)
  OBVIOUS

\* What KeyPromise sees of all keys, in its own variables.
phaseBar == [k \in Keys |-> Phase(k)]
boundBar == [k \in Keys |-> row[k].hash]
actingBar == [k \in Keys |-> Acting(k)]
keptBar == [k \in Keys |-> Kept(k)]
toldBar == [k \in Keys |-> Told(k)]

LEMMA StutterIsNotSeen ==
    ASSUME TypeOK, TypeOK', \A k \in Keys : SameView(k)
    PROVE  UNCHANGED Promise!promiseVars
<1>1. /\ effects = [k \in Keys |-> effects[k]] /\ effects' = [k \in Keys |-> effects'[k]]
      /\ doubts = [k \in Keys |-> doubts[k]] /\ doubts' = [k \in Keys |-> doubts'[k]]
  BY DEF TypeOK
<1>2. effects' = effects /\ doubts' = doubts
  BY <1>1 DEF SameView, SameCounts
<1>3. UNCHANGED <<phaseBar, boundBar, actingBar, keptBar, toldBar>>
  BY DEF SameView, SameAnswers, phaseBar, boundBar, actingBar, keptBar, toldBar
<1> QED BY <1>2, <1>3 DEF Promise!promiseVars, phaseBar, boundBar, actingBar, keptBar, toldBar

\* A move of one key that leaves the others alone is a step of KeyPromise.
LEMMA MoveIsPromised ==
    ASSUME TypeOK, TypeOK', NEW l \in Keys, MovesAsPromised(l),
           \A k \in Keys \ {l} : SameView(k)
    PROVE  Promise!PromiseNext
<1>1. /\ phaseBar' = [phaseBar EXCEPT ![l] = phaseBar'[l]]
      /\ phaseBar'[l] = phaseBar[l] => phaseBar' = phaseBar
  <2>1. \A k \in Keys \ {l} : phaseBar'[k] = phaseBar[k]
    BY DEF SameView, phaseBar
  <2>2. phaseBar = [k \in Keys |-> phaseBar[k]] /\ phaseBar' = [k \in Keys |-> phaseBar'[k]]
    BY DEF phaseBar
  <2> QED BY <2>1, <2>2, ChangedAt
<1>2. /\ boundBar' = [boundBar EXCEPT ![l] = boundBar'[l]]
      /\ boundBar'[l] = boundBar[l] => boundBar' = boundBar
  <2>1. \A k \in Keys \ {l} : boundBar'[k] = boundBar[k]
    BY DEF SameView, boundBar
  <2>2. boundBar = [k \in Keys |-> boundBar[k]] /\ boundBar' = [k \in Keys |-> boundBar'[k]]
    BY DEF boundBar
  <2> QED BY <2>1, <2>2, ChangedAt
<1>3. /\ actingBar' = [actingBar EXCEPT ![l] = actingBar'[l]]
      /\ actingBar'[l] = actingBar[l] => actingBar' = actingBar
  <2>1. \A k \in Keys \ {l} : actingBar'[k] = actingBar[k]
    BY DEF SameView, actingBar
  <2>2. /\ actingBar = [k \in Keys |-> actingBar[k]]
        /\ actingBar' = [k \in Keys |-> actingBar'[k]]
    BY DEF actingBar
  <2> QED BY <2>1, <2>2, ChangedAt
<1>4. /\ keptBar' = [keptBar EXCEPT ![l] = keptBar'[l]]
      /\ keptBar'[l] = keptBar[l] => keptBar' = keptBar
  <2>1. \A k \in Keys \ {l} : keptBar'[k] = keptBar[k]
    BY DEF SameView, SameAnswers, keptBar
  <2>2. keptBar = [k \in Keys |-> keptBar[k]] /\ keptBar' = [k \in Keys |-> keptBar'[k]]
    BY DEF keptBar
  <2> QED BY <2>1, <2>2, ChangedAt
<1>5. /\ toldBar' = [toldBar EXCEPT ![l] = toldBar'[l]]
      /\ toldBar'[l] = toldBar[l] => toldBar' = toldBar
  <2>1. \A k \in Keys \ {l} : toldBar'[k] = toldBar[k]
    BY DEF SameView, SameAnswers, toldBar
  <2>2. toldBar = [k \in Keys |-> toldBar[k]] /\ toldBar' = [k \in Keys |-> toldBar'[k]]
    BY DEF toldBar
  <2> QED BY <2>1, <2>2, ChangedAt
<1>6. /\ effects' = [effects EXCEPT ![l] = effects'[l]]
      /\ doubts' = [doubts EXCEPT ![l] = doubts'[l]]
      /\ effects'[l] = effects[l] => effects' = effects
      /\ doubts'[l] = doubts[l] => doubts' = doubts
  <2>1. \A k \in Keys \ {l} : effects'[k] = effects[k] /\ doubts'[k] = doubts[k]
    BY DEF SameView, SameCounts
  <2>2. /\ effects = [k \in Keys |-> effects[k]] /\ effects' = [k \in Keys |-> effects'[k]]
        /\ doubts = [k \in Keys |-> doubts[k]] /\ doubts' = [k \in Keys |-> doubts'[k]]
    BY DEF TypeOK
  <2> QED BY <2>1, <2>2, ChangedAt
<1>7. /\ phaseBar[l] = Phase(l) /\ phaseBar'[l] = Phase(l)'
      /\ boundBar[l] = row[l].hash /\ boundBar'[l] = row'[l].hash
      /\ keptBar[l] = Kept(l) /\ keptBar'[l] = Kept(l)'
      /\ toldBar[l] = Told(l) /\ toldBar'[l] = Told(l)'
  BY DEF phaseBar, boundBar, keptBar, toldBar
<1>8. actingBar[l] = Acting(l) /\ actingBar'[l] = Acting(l)'
  BY DEF actingBar
<1>9. CASE Takes(l)
  <2>1. PICK c \in Contents : row[l].hash \subseteq {c} /\ row'[l].hash = {c}
    BY <1>9 DEF Takes
  <2>2. /\ phaseBar[l] = "free" /\ ~actingBar[l] /\ effects[l] = doubts[l]
        /\ boundBar[l] \subseteq {c}
        /\ phaseBar' = [phaseBar EXCEPT ![l] = "taken"]
        /\ boundBar' = [boundBar EXCEPT ![l] = {c}]
        /\ UNCHANGED <<effects, doubts, keptBar, toldBar>>
    BY <1>1, <1>2, <1>4, <1>5, <1>6, <1>7, <1>8, <1>9, <2>1 DEF Takes, SameCounts, SameAnswers
  <2>3. actingBar' = [actingBar EXCEPT ![l] = TRUE]
    BY <1>3, <1>8, <1>9 DEF Takes
  <2>4. Promise!Take(l, c)
    BY <2>2, <2>3 DEF Promise!Take, phaseBar, boundBar, actingBar, keptBar, toldBar
  <2> QED BY <2>4 DEF Promise!PromiseNext
<1>10. CASE Acts(l)
  <2>1. /\ actingBar[l] /\ effects[l] = doubts[l] /\ toldBar[l] = {}
        /\ effects' = [effects EXCEPT ![l] = @ + 1]
        /\ UNCHANGED doubts \/ doubts' = [doubts EXCEPT ![l] = @ + 1]
        /\ UNCHANGED <<phaseBar, boundBar, keptBar, toldBar>>
    BY <1>1, <1>2, <1>4, <1>5, <1>6, <1>7, <1>8, <1>10 DEF Acts, SameAnswers
  <2>2. actingBar' = [actingBar EXCEPT ![l] = FALSE]
    BY <1>3, <1>8, <1>10 DEF Acts
  <2>3. Promise!Act(l)
    BY <2>1, <2>2 DEF Promise!Act, phaseBar, boundBar, actingBar, keptBar, toldBar
  <2> QED BY <2>3 DEF Promise!PromiseNext
<1>11. CASE Stops(l)
  <2>1. /\ actingBar[l]
        /\ UNCHANGED <<phaseBar, boundBar, effects, doubts, keptBar, toldBar>>
    BY <1>1, <1>2, <1>4, <1>5, <1>6, <1>7, <1>8, <1>11 DEF Stops, SameCounts, SameAnswers
  <2>2. actingBar' = [actingBar EXCEPT ![l] = FALSE]
    BY <1>3, <1>8, <1>11 DEF Stops
  <2>3. Promise!Stop(l)
    BY <2>1, <2>2 DEF Promise!Stop, phaseBar, boundBar, actingBar, keptBar, toldBar
  <2> QED BY <2>3 DEF Promise!PromiseNext
<1>12. ASSUME KeepsCommand(l)
       PROVE  UNCHANGED <<boundBar, actingBar, effects, doubts>>
  BY <1>2, <1>3, <1>6, <1>7, <1>8, <1>12 DEF KeepsCommand, SameCounts
<1>13. CASE Settles(l)
  <2>1. PICK a \in Answers : /\ IsTrue(l, a) /\ Kept(l)' = {a}
                             /\ Told(l)' \in {Told(l), row[l].hash \X {a}}
    BY <1>13 DEF Settles
  <2>2. /\ phaseBar[l] = "taken" /\ ~actingBar[l] /\ toldBar[l] = {}
        /\ phaseBar' = [phaseBar EXCEPT ![l] = "done"]
        /\ keptBar' = [keptBar EXCEPT ![l] = {a}]
        /\ toldBar' \in {toldBar, [toldBar EXCEPT ![l] = boundBar[l] \X {a}]}
    BY <1>1, <1>4, <1>5, <1>7, <1>8, <1>13, <2>1 DEF Settles
  <2>3. Promise!IsTrue(l, a)
    BY <2>1 DEF IsTrue, Promise!IsTrue
  <2>4. UNCHANGED <<boundBar, actingBar, effects, doubts>>
    BY <1>12, <1>13 DEF Settles
  <2>5. Promise!Finish(l, a)
    BY <2>2, <2>3, <2>4 DEF Promise!Finish, phaseBar, boundBar, actingBar, keptBar, toldBar
  <2> QED BY <2>5 DEF Promise!PromiseNext, Answers
<1>14. CASE Repeats(l)
  <2>1. /\ phaseBar[l] = "done"
        /\ toldBar' = [toldBar EXCEPT ![l] = boundBar[l] \X keptBar[l]]
        /\ UNCHANGED <<phaseBar, keptBar>>
    BY <1>1, <1>4, <1>5, <1>7, <1>14 DEF Repeats
  <2>2. UNCHANGED <<boundBar, actingBar, effects, doubts>>
    BY <1>12, <1>14 DEF Repeats
  <2>3. Promise!Repeat(l)
    BY <2>1, <2>2 DEF Promise!Repeat, phaseBar, boundBar, actingBar, keptBar, toldBar
  <2> QED BY <2>3 DEF Promise!PromiseNext
<1>15. CASE TellsLate(l)
  <2>1. PICK a \in Answers : IsTrue(l, a) /\ Told(l)' = row[l].hash \X {a}
    BY <1>15 DEF TellsLate
  <2>2. /\ phaseBar[l] = "unknown" /\ ~actingBar[l] /\ toldBar[l] = {}
        /\ toldBar' = [toldBar EXCEPT ![l] = boundBar[l] \X {a}]
        /\ UNCHANGED <<phaseBar, keptBar>>
    BY <1>1, <1>4, <1>5, <1>7, <1>8, <1>15, <2>1 DEF TellsLate
  <2>3. Promise!IsTrue(l, a)
    BY <2>1 DEF IsTrue, Promise!IsTrue
  <2>4. UNCHANGED <<boundBar, actingBar, effects, doubts>>
    BY <1>12, <1>15 DEF TellsLate
  <2>5. Promise!TellLate(l, a)
    BY <2>2, <2>3, <2>4 DEF Promise!TellLate, phaseBar, boundBar, actingBar, keptBar, toldBar
  <2> QED BY <2>5 DEF Promise!PromiseNext, Answers
<1>16. CASE GivesBack(l)
  <2>1. /\ phaseBar[l] = "taken" /\ ~actingBar[l] /\ effects[l] = doubts[l]
        /\ phaseBar' = [phaseBar EXCEPT ![l] = "free"]
        /\ UNCHANGED <<keptBar, toldBar>>
    BY <1>1, <1>4, <1>5, <1>7, <1>8, <1>16 DEF GivesBack, SameAnswers
  <2>2. UNCHANGED <<boundBar, actingBar, effects, doubts>>
    BY <1>12, <1>16 DEF GivesBack
  <2>3. Promise!GiveBack(l)
    BY <2>1, <2>2 DEF Promise!GiveBack, phaseBar, boundBar, actingBar, keptBar, toldBar
  <2> QED BY <2>3 DEF Promise!PromiseNext
<1>17. CASE GivesUp(l)
  <2>1. /\ phaseBar[l] = "taken" /\ phaseBar' = [phaseBar EXCEPT ![l] = "unknown"]
        /\ UNCHANGED <<keptBar, toldBar>>
    BY <1>1, <1>4, <1>5, <1>7, <1>17 DEF GivesUp, SameAnswers
  <2>2. UNCHANGED <<boundBar, actingBar, effects, doubts>>
    BY <1>12, <1>17 DEF GivesUp
  <2>3. Promise!GiveUp(l)
    BY <2>1, <2>2 DEF Promise!GiveUp, phaseBar, boundBar, actingBar, keptBar, toldBar
  <2> QED BY <2>3 DEF Promise!PromiseNext
<1> QED BY <1>9, <1>10, <1>11, <1>13, <1>14, <1>15, <1>16, <1>17 DEF MovesAsPromised

LEMMA PromiseBegins == Init => Promise!PromiseInit
<1> SUFFICES ASSUME Init PROVE Promise!PromiseInit
  OBVIOUS
<1>1. ASSUME NEW k \in Keys
      PROVE  /\ Phase(k) = "free" /\ row[k].hash = {} /\ Kept(k) = {} /\ Told(k) = {}
             /\ Acting(k) = FALSE
  <2>1. row[k].state = "absent" /\ row[k].hash = {}
    BY DEF Init, NoRow
  <2>2. \A q \in Requests : req[q].pc = "unsent" /\ req[q].status = "none"
    BY DEF Init
  <2> QED BY <2>1, <2>2 DEF Phase, Kept, Told, Acting, Succeeded
<1>2. effects = [k \in Keys |-> 0] /\ doubts = [k \in Keys |-> 0]
  BY DEF Init
<1> QED BY <1>1, <1>2 DEF Promise!PromiseInit

LEMMA HonestBegins == Init => Honest
<1> SUFFICES ASSUME Init PROVE Honest
  OBVIOUS
<1>1. \A q \in Requests : req[q].pc = "unsent" /\ req[q].status = "none"
  BY DEF Init
<1>2. \A k \in Keys : row[k].hash = {}
  BY DEF Init, NoRow
<1> QED BY <1>1, <1>2 DEF Honest, AnswerIsTrue, Succeeded

\* An idempotency key of the HTTP API implements KeyPromise: each statement of the
\* guard, each commit of an endpoint and each crash is a move of one key, or unseen.
THEOREM KeysKeepTheirPromise == Spec => KeepsPromise
<1>1. TypeOK /\ Ownership /\ [Next]_vars => Ownership'
  BY OwnershipStays
<1>2. TypeOK /\ Ownership /\ EffectsTell /\ [Next]_vars => EffectsTell'
  BY EffectsStay
<1>3. TypeOK /\ Ownership /\ Successes /\ [Next]_vars => Successes'
  BY SuccessesStay
<1>4. TypeOK /\ Ownership /\ EffectsTell /\ Honest /\ [Next]_vars => Honest'
  BY HonestStays
<1>5. Init => Successes
  BY DEF Init, Successes, SuccessEnds, Succeeded, NoRow
<1>6. TypeOK /\ TypeOK' /\ KeysAreSound /\ [Next]_vars
        => [Promise!PromiseNext]_(Promise!promiseVars)
  BY StepMoves, MoveIsPromised, StutterIsNotSeen
<1>7. TypeOK /\ Ownership /\ EffectsTell /\ Successes /\ Honest => KeysAreSound
  BY DEF KeysAreSound
<1> QED BY TypeCorrectHttp, Beginning, HonestBegins, PromiseBegins, <1>1, <1>2, <1>3, <1>4,
        <1>5, <1>6, <1>7, PTL DEF Spec, KeepsPromise, Promise!PromiseSpec
=============================================================================
