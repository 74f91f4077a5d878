------------------------ MODULE ToolExecution_proofs ------------------------
(***************************************************************************)
(* Proofs about ToolExecution, for any number of requests, keys,           *)
(* confirmations and projects, any scripts and costs: what may run, what a *)
(* key answers and what is booked.                                         *)
(***************************************************************************)
EXTENDS ToolExecution, AccountSums, TLAPS

InCall == {"authorise", "reserve", "consume", "dispatch", "tool", "report"}

RequestRow ==
    [pc : RequestPc, k : 0..MaxCalls, epoch : Nat, result : Results,
     code : {"policy", "other"}, of : Runs \cup {NoAccount}]

RequestsOK ==
    /\ req \in [Runs -> RequestRow]
    /\ \A r \in Runs : req[r].k <= Len(Script[r])
    /\ \A r \in Runs : req[r].pc \in InCall => req[r].k >= 1

EntryRow ==
    [state : {"none", "pending", "completed", "released"},
     content : {ContentOf[r] : r \in Runs} \cup {NoKey},
     owner : Runs \cup {NoAccount}]

EntriesOK == entry \in [Keys -> EntryRow]

Ledgers == [account : [Accounts -> Account], reservation : [Reservations -> Reservation]]

TInv == TypeOK /\ RequestsOK /\ EntriesOK

-----------------------------------------------------------------------------
(* Calls and requests.                                                     *)

LEMMA ScriptLengths ==
    \A r \in Runs : /\ Len(Script[r]) \in Nat /\ Len(Script[r]) <= MaxCalls
                    /\ \A k \in 1..Len(Script[r]) : Script[r][k] \in Tools
  BY ToolExecutionAssumption

LEMMA CurrentIsCall ==
    ASSUME RequestsOK, NEW r \in Runs, req[r].pc \in InCall
    PROVE  /\ Current(r) \in Calls
           /\ Current(r)[1] = r /\ Current(r)[2] = req[r].k
           /\ req[r].k \in 1..MaxCalls
           /\ Tool(r) \in Tools
           /\ LogicalId(Current(r)) \in LogicalIds
<1>1. req[r].k \in 1..Len(Script[r]) /\ req[r].k \in 1..MaxCalls
  BY ScriptLengths, BudgetTreeAssumption DEF RequestsOK, RequestRow
<1>2. Current(r) \in Calls /\ Current(r)[1] = r /\ Current(r)[2] = req[r].k
  BY <1>1 DEF Current, Calls
<1>3. Tool(r) \in Tools
  BY <1>1, <1>2, ScriptLengths DEF Tool, ToolOf
<1> QED BY <1>1, <1>2, <1>3 DEF LogicalIds

\* What a request may become.
LEMMA RowTypes ==
    ASSUME RequestsOK, NEW r \in Runs, NEW row \in RequestRow,
           row.k <= Len(Script[r]), row.pc \in InCall => row.k >= 1,
           req' = [req EXCEPT ![r] = row]
    PROVE  RequestsOK'
<1>1. req' \in [Runs -> RequestRow] /\ req'[r] = row /\ \A q \in Runs \ {r} : req'[q] = req[q]
  BY DEF RequestsOK
<1> QED BY <1>1 DEF RequestsOK

LEMMA GotoTypes ==
    ASSUME RequestsOK, NEW r \in Runs, NEW pc \in RequestPc, Goto(r, pc),
           pc \in InCall => req[r].pc \in InCall
    PROVE  RequestsOK'
<1> DEFINE row == [req[r] EXCEPT !.pc = pc]
<1>1. row \in RequestRow /\ row.k = req[r].k /\ row.pc = pc
  <2>1. req[r] \in RequestRow
    BY DEF RequestsOK
  <2> QED BY <2>1 DEF RequestRow
<1>2. req' = [req EXCEPT ![r] = row]
  BY DEF Goto, RequestsOK
<1>3. row.k <= Len(Script[r]) /\ (row.pc \in InCall => row.k >= 1)
  BY <1>1 DEF RequestsOK
<1> HIDE DEF row
<1> QED BY <1>1, <1>2, <1>3, RowTypes

LEMMA AnsweredTypes ==
    ASSUME RequestsOK, NEW r \in Runs, NEW result \in Results, NEW of \in Runs \cup {NoAccount},
           Answered(r, result, of)
    PROVE  RequestsOK'
<1> DEFINE row == [req[r] EXCEPT !.pc = "done", !.result = result, !.of = of]
<1>1. row \in RequestRow /\ row.k = req[r].k /\ row.pc = "done"
  <2>1. req[r] \in RequestRow
    BY DEF RequestsOK
  <2> QED BY <2>1 DEF RequestRow, RequestPc
<1>2. req' = [req EXCEPT ![r] = row]
  BY DEF Answered
<1>3. row.k <= Len(Script[r]) /\ row.pc \notin InCall
  BY <1>1 DEF RequestsOK, InCall
<1> HIDE DEF row
<1> QED BY <1>1, <1>2, <1>3, RowTypes

\* A call that ends goes on to the next, or leaves the calls.
LEMMA CallEndsTypes ==
    ASSUME RequestsOK, NEW r \in Runs, req[r].pc \in InCall,
           NEW result \in Results, NEW code \in {"policy", "other"},
           CallFails(r, result, code) \/ CallSucceeds(r) \/ Raises(r)
    PROVE  RequestsOK'
<1>1. /\ req[r].k \in 1..Len(Script[r]) /\ Len(Script[r]) \in Nat /\ Len(Script[r]) <= MaxCalls
      /\ req[r].k \in 0..MaxCalls /\ MaxCalls \in Nat /\ req[r] \in RequestRow
  BY ScriptLengths, CurrentIsCall, BudgetTreeAssumption DEF RequestsOK, RequestRow
<1>2. ASSUME NEW row, req' = [req EXCEPT ![r] = row],
             \/ row = [req[r] EXCEPT !.pc = "finish"]
             \/ row = [req[r] EXCEPT !.pc = "reject", !.result = result, !.code = code]
             \/ row = [req[r] EXCEPT !.pc = "settle", !.result = "raised"]
      PROVE  RequestsOK'
  <2>1. row \in RequestRow /\ row.k = req[r].k /\ row.pc \notin InCall
    BY <1>1, <1>2 DEF RequestRow, RequestPc, Results, InCall
  <2>2. row.k <= Len(Script[r])
    BY <2>1, <1>1
  <2> QED BY <2>1, <2>2, <1>2, RowTypes
<1>3. ASSUME NEW row, req' = [req EXCEPT ![r] = row], req[r].k < Len(Script[r]),
             row = [req[r] EXCEPT !.pc = "authorise", !.k = req[r].k + 1]
      PROVE  RequestsOK'
  <2>1. row \in RequestRow /\ row.k = req[r].k + 1 /\ row.pc = "authorise"
    <3>1. req[r].k + 1 \in 0..MaxCalls
      BY <1>1, <1>3
    <3> QED BY <1>1, <1>3, <3>1 DEF RequestRow, RequestPc
  <2>2. row.k <= Len(Script[r]) /\ row.k >= 1
    BY <2>1, <1>1, <1>3
  <2> QED BY <2>1, <2>2, <1>3, RowTypes
<1>4. CASE CallFails(r, result, code)
  <2>1. CASE Tool(r) \in Optional /\ req[r].k < Len(Script[r])
    <3>1. req' = [req EXCEPT ![r] = [req[r] EXCEPT !.pc = "authorise", !.k = req[r].k + 1]]
      BY <1>4, <2>1 DEF CallFails, RequestsOK, RequestRow
    <3> QED BY <3>1, <2>1, <1>3
  <2>2. CASE Tool(r) \in Optional /\ ~(req[r].k < Len(Script[r]))
    <3>1. req' = [req EXCEPT ![r] = [req[r] EXCEPT !.pc = "finish"]]
      BY <1>4, <2>2 DEF CallFails, RequestsOK, RequestRow
    <3> QED BY <3>1, <1>2
  <2>3. CASE Tool(r) \notin Optional
    <3>1. req' = [req EXCEPT ![r] = [req[r] EXCEPT !.pc = "reject", !.result = result, !.code = code]]
      BY <1>4, <2>3 DEF CallFails, RequestsOK, RequestRow
    <3> QED BY <3>1, <1>2
  <2> QED BY <2>1, <2>2, <2>3
<1>5. CASE CallSucceeds(r)
  <2>1. CASE req' = [req EXCEPT ![r].pc = "authorise", ![r].k = @ + 1] /\ req[r].k < Len(Script[r])
    <3>1. req' = [req EXCEPT ![r] = [req[r] EXCEPT !.pc = "authorise", !.k = req[r].k + 1]]
      BY <2>1 DEF RequestsOK, RequestRow
    <3> QED BY <3>1, <2>1, <1>3
  <2>2. CASE Goto(r, "finish")
    BY <2>2, GotoTypes DEF RequestPc, InCall
  <2> QED BY <1>5, <2>1, <2>2 DEF CallSucceeds
<1>6. CASE Raises(r)
  <2>1. req' = [req EXCEPT ![r] = [req[r] EXCEPT !.pc = "settle", !.result = "raised"]]
    BY <1>6 DEF Raises, RequestsOK, RequestRow
  <2> QED BY <2>1, <1>2
<1> QED BY <1>4, <1>5, <1>6

-----------------------------------------------------------------------------
(* The ledger.                                                             *)

LEMMA Ids ==
    /\ \A r \in Runs, k \in 1..MaxCalls, d \in Dims :
         /\ CallOf(r, k, d) \in Reservations
         /\ AccountOf(CallOf(r, k, d)) = r
    /\ \A a \in Projects \cup Runs, d \in Dims :
         /\ Grant(a, d) \in Reservations
         /\ AccountOf(Grant(a, d)) = Parent(a)
         /\ Parent(a) \in Accounts
    /\ \A id \in Reservations : id.dim \in Dims /\ AccountOf(id) \in Accounts
    /\ Counter \in Dims /\ Cost \in Dims
  BY BudgetTreeAssumption, ToolExecutionAssumption
     DEF CallOf, Grant, AccountOf, Parent, Reservations, Accounts

LEMMA LedgerParts ==
    ASSUME NEW l \in Ledgers
    PROVE  /\ l = [account |-> l.account, reservation |-> l.reservation]
           /\ l.account \in [Accounts -> Account]
           /\ l.reservation \in [Reservations -> Reservation]
           /\ \A a \in Accounts : /\ l.account[a].reserved \in [Dims -> Int]
                                  /\ l.account[a].consumed \in [Dims -> Nat]
           /\ \A id \in Reservations : /\ l.reservation[id].amount \in Nat
                                       /\ l.reservation[id].consumed \in Nat
                                       /\ l.reservation[id].state \in ReservationState
  BY DEF Ledgers, Account, Reservation

LEMMA BookType ==
    ASSUME NEW l \in Ledgers, NEW a \in Accounts,
           NEW reserved \in [Dims -> Int], NEW consumed \in [Dims -> Nat],
           NEW reservation \in [Reservations -> Reservation]
    PROVE  Book(l, a, reserved, consumed, reservation) \in Ledgers
<1>1. l.account \in [Accounts -> Account] /\ l.account[a] \in Account
  BY DEF Ledgers
<1>2. [l.account[a] EXCEPT !.reserved = reserved, !.consumed = consumed] \in Account
  BY <1>1 DEF Account
<1> QED BY <1>1, <1>2 DEF Ledgers, Book

LEMMA BatchReserveType ==
    ASSUME NEW l \in Ledgers, NEW a \in Accounts, NEW to, NEW k,
           NEW amounts \in [Dims -> Nat]
    PROVE  BatchReserve(l, a, to, k, amounts) \in Ledgers
<1>1. [d \in Dims |-> l.account[a].reserved[d] + amounts[d]] \in [Dims -> Int]
  BY LedgerParts
<1>2. HeldFor(l, to, k, amounts) \in [Reservations -> Reservation]
  BY LedgerParts, Ids DEF HeldFor, Reservation, ReservationState
<1> QED BY <1>1, <1>2, LedgerParts, BookType DEF BatchReserve

LEMMA OpenAccountType ==
    ASSUME NEW l \in Ledgers, NEW a \in Accounts,
           NEW limits \in [Dims -> Nat], NEW kept \in [Dims -> Nat]
    PROVE  OpenAccount(l, a, limits, kept) \in Ledgers
<1>1. [open |-> TRUE, limits |-> limits, kept |-> kept, reserved |-> Nothing,
       consumed |-> Nothing] \in Account
  BY DEF Account, Nothing
<1> QED BY <1>1, LedgerParts DEF OpenAccount, Ledgers

LEMMA GrantType ==
    ASSUME NEW l \in Ledgers, NEW a \in Projects \cup Runs, NEW amounts \in [Dims -> Nat]
    PROVE  GrantToChild(l, a, amounts) \in Ledgers
<1>1. Nothing \in [Dims -> Nat] /\ a \in Accounts /\ Parent(a) \in Accounts
  BY Ids DEF Nothing, Accounts
<1>2. BatchReserve(l, Parent(a), a, 0, amounts) \in Ledgers
  BY <1>1, BatchReserveType
<1> QED BY <1>1, <1>2, OpenAccountType DEF GrantToChild

LEMMA MarkType ==
    ASSUME NEW l \in Ledgers, NEW id \in Reservations
    PROVE  MarkInFlight(l, id) \in Ledgers
<1>1. [l.reservation[id] EXCEPT !.state = "in_flight"] \in Reservation
  BY DEF Ledgers, Reservation, ReservationState
<1>2. MarkInFlight(l, id) = [account |-> l.account, reservation |->
        [l.reservation EXCEPT ![id] = [@ EXCEPT !.state = "in_flight"]]]
  BY LedgerParts DEF MarkInFlight
<1> QED BY <1>1, <1>2 DEF Ledgers

LEMMA SettleType ==
    ASSUME NEW l \in Ledgers, NEW id \in Reservations, NEW actual \in Nat
    PROVE  Settle(l, id, actual) \in Ledgers
<1> DEFINE a == l.account[AccountOf(id)]
<1>1. AccountOf(id) \in Accounts /\ id.dim \in Dims
  BY Ids
<1>2. /\ [a.reserved EXCEPT ![id.dim] = @ - l.reservation[id].amount] \in [Dims -> Int]
      /\ [a.consumed EXCEPT ![id.dim] = @ + actual] \in [Dims -> Nat]
  BY <1>1, LedgerParts
<1>3. [l.reservation EXCEPT ![id] = [@ EXCEPT !.state = "settled", !.consumed = actual]]
        \in [Reservations -> Reservation]
  <2>1. [l.reservation[id] EXCEPT !.state = "settled", !.consumed = actual] \in Reservation
    BY DEF Ledgers, Reservation, ReservationState
  <2> QED BY <2>1, LedgerParts
<1> QED BY <1>1, <1>2, <1>3, BookType DEF Settle

LEMMA ReleaseType ==
    ASSUME NEW l \in Ledgers, NEW r \in Runs, NEW k \in 1..MaxCalls
    PROVE  ReleaseQuietly(l, r, k) \in Ledgers
<1>1. r \in Accounts
  BY DEF Accounts
<1>2. [d \in Dims |->
         l.account[r].reserved[d]
           - IF Releasable(l, CallOf(r, k, d)) THEN l.reservation[CallOf(r, k, d)].amount ELSE 0]
        \in [Dims -> Int]
  BY <1>1, Ids, LedgerParts
<1>3. [id \in Reservations |->
         IF id.to = r /\ id.call = k /\ Releasable(l, id)
         THEN [l.reservation[id] EXCEPT !.state = "released"]
         ELSE l.reservation[id]] \in [Reservations -> Reservation]
  <2>1. \A id \in Reservations : [l.reservation[id] EXCEPT !.state = "released"] \in Reservation
    BY DEF Ledgers, Reservation, ReservationState
  <2> QED BY <2>1, LedgerParts
<1> QED BY <1>1, <1>2, <1>3, LedgerParts, BookType DEF ReleaseQuietly

LEMMA CloseType ==
    ASSUME NEW l \in Ledgers, NEW r \in Runs
    PROVE  CloseAccount(l, r) \in Ledgers
<1> DEFINE p == l.account[Parent(r)]
<1>1. Parent(r) \in Accounts /\ r \in Accounts
  BY Ids DEF Accounts
<1>2. /\ [d \in Dims |-> p.reserved[d] - l.reservation[Grant(r, d)].amount] \in [Dims -> Int]
      /\ [d \in Dims |-> p.consumed[d] + l.account[r].consumed[d]] \in [Dims -> Nat]
  BY <1>1, Ids, LedgerParts
<1>3. GrantSettled(l, r) \in [Reservations -> Reservation]
  <2>1. \A id \in Reservations :
          [l.reservation[id] EXCEPT
             !.state = "settled", !.consumed = l.account[r].consumed[id.dim]] \in Reservation
    <3>1. \A id \in Reservations : l.account[r].consumed[id.dim] \in Nat
      BY Ids, <1>1, LedgerParts
    <3>2. \A id \in Reservations : l.reservation[id] \in Reservation
      BY LedgerParts
    <3> QED BY <3>1, <3>2 DEF Reservation, ReservationState
  <2> QED BY <2>1, LedgerParts DEF GrantSettled
<1> QED BY <1>1, <1>2, <1>3, BookType DEF CloseAccount

-----------------------------------------------------------------------------
(* Types.                                                                  *)

LEMMA InitTypes == Init => TInv
<1> SUFFICES ASSUME Init PROVE TInv
  OBVIOUS
<1>1. Nothing \in [Dims -> Nat] /\ Nothing \in [Dims -> Int]
  BY DEF Nothing
<1>2. ledger \in Ledgers
  <2>1. \A a \in Accounts : [open |-> FALSE, limits |-> Nothing, kept |-> Nothing,
           reserved |-> Nothing, consumed |-> Nothing] \in Account
    BY <1>1 DEF Account
  <2>2. [state |-> "none", amount |-> 0, consumed |-> 0] \in Reservation
    BY DEF Reservation, ReservationState
  <2> QED BY <2>1, <2>2 DEF Init, EmptyLedger, Ledgers
<1>3. RequestsOK
  <2>1. PICK load \in Loads :
          req = [r \in Runs |-> [pc |-> IF r \in load THEN "new" ELSE "never", k |-> 0,
                                epoch |-> 0, result |-> "none", code |-> "other", of |-> r]]
    BY DEF Init
  <2>2. \A r \in Runs : req[r] \in RequestRow /\ req[r].k = 0 /\ req[r].pc \notin InCall
    BY <2>1, BudgetTreeAssumption DEF RequestRow, RequestPc, Results, InCall
  <2>3. req \in [Runs -> RequestRow]
    BY <2>1, <2>2
  <2> QED BY <2>2, <2>3, ScriptLengths DEF RequestsOK
<1>4. EntriesOK
  BY DEF Init, EntriesOK, EntryRow, NoEntry
<1>5. TypeOK
  BY <1>2, <1>3, <1>4, ToolExecutionAssumption
     DEF TypeOK, Init, RequestsOK, RequestRow, EntriesOK, EntryRow, Ledgers, ActionState
<1> QED BY <1>3, <1>4, <1>5 DEF TInv

\* TInv in the parts the actions change.
OthersOK ==
    /\ conf \in [Confirmations -> [status : {"none", "issued", "consumed"}, live : BOOLEAN]]
    /\ action \in [Calls -> ActionState]
    /\ listed \in [LogicalIds -> Calls \cup {<<>>}]
    /\ sink \in [up : BOOLEAN, buffered : 0..BufferCapacity]
    /\ epoch \in Nat /\ faults \in Nat
    /\ intents \subseteq Calls /\ ran \subseteq Calls

LEMMA Parts ==
    /\ TInv <=> RequestsOK /\ EntriesOK /\ OthersOK /\ ledger \in Ledgers
    /\ TInv' <=> RequestsOK' /\ EntriesOK' /\ OthersOK' /\ ledger' \in Ledgers
  BY DEF TInv, TypeOK, RequestsOK, RequestRow, EntriesOK, EntryRow, OthersOK, Ledgers

LEMMA KeyTypes ==
    ASSUME TInv, NEW r \in Runs,
           ClaimKey(r) \/ WithoutKey(r) \/ WaitTooLong(r) \/ SettleKey(r)
    PROVE  TInv'
<1> USE Parts
<1>1. CASE ClaimKey(r)
  <2>1. KeyOf[r] \in Keys /\ UNCHANGED <<conf, action, listed, ledger, sink, epoch, faults, intents, ran>>
    BY <1>1, ToolExecutionAssumption DEF ClaimKey
  <2>2. OthersOK' /\ ledger' \in Ledgers
    BY <2>1 DEF OthersOK
  <2>3. RequestsOK' /\ EntriesOK'
    <3>1. CASE Take(r)
      <4>1. RequestsOK'
        BY <3>1, GotoTypes DEF Take, RequestPc, InCall
      <4>2. [state |-> "pending", content |-> ContentOf[r], owner |-> r] \in EntryRow
        BY DEF EntryRow
      <4> QED BY <3>1, <4>1, <4>2, <2>1 DEF Take, EntriesOK
    <3>2. ASSUME UNCHANGED entry PROVE EntriesOK'
      BY <3>2 DEF EntriesOK
    <3>3. CASE Answered(r, "denied", r) /\ UNCHANGED entry
      BY <3>2, <3>3, AnsweredTypes DEF Results
    <3>4. CASE Answered(r, "failed", r) /\ UNCHANGED entry
      BY <3>2, <3>4, AnsweredTypes DEF Results
    <3>5. CASE Goto(r, "waiting") /\ UNCHANGED entry
      BY <3>2, <3>5, GotoTypes DEF RequestPc, InCall
    <3>6. CASE /\ entry[KeyOf[r]].state = "completed" /\ UNCHANGED entry
               /\ Answered(r, "ok", entry[KeyOf[r]].owner)
      <4>1. entry[KeyOf[r]].owner \in Runs \cup {NoAccount}
        BY <2>1 DEF EntriesOK, EntryRow
      <4> QED BY <3>2, <3>6, <4>1, AnsweredTypes DEF Results
    <3> QED BY <1>1, <3>1, <3>3, <3>4, <3>5, <3>6 DEF ClaimKey
  <2> QED BY <2>2, <2>3
<1>2. CASE WithoutKey(r)
  <2>1. RequestsOK'
    BY <1>2, GotoTypes DEF WithoutKey, RequestPc, InCall
  <2> QED BY <1>2, <2>1 DEF WithoutKey, EntriesOK, OthersOK
<1>3. CASE WaitTooLong(r)
  <2>1. RequestsOK'
    BY <1>3, GotoTypes DEF WaitTooLong, RequestPc, InCall
  <2> QED BY <1>3, <2>1 DEF WaitTooLong, EntriesOK, OthersOK
<1>4. CASE SettleKey(r)
  <2>1. UNCHANGED <<conf, action, listed, ledger, sink, epoch, faults, intents, ran>>
    BY <1>4 DEF SettleKey
  <2>2. OthersOK' /\ ledger' \in Ledgers
    BY <2>1 DEF OthersOK
  <2>3. EntriesOK'
    <3>1. CASE KeyOf[r] = NoKey
      BY <1>4, <3>1 DEF SettleKey, EntriesOK
    <3>2. CASE KeyOf[r] \in Keys
      <4>1. \E state \in {"completed", "released"} :
              entry' = [entry EXCEPT ![KeyOf[r]].state = state]
        BY <1>4, <3>2, ToolExecutionAssumption DEF SettleKey
      <4> QED BY <4>1, <3>2 DEF EntriesOK, EntryRow
    <3> QED BY <3>1, <3>2, ToolExecutionAssumption
  <2>4. RequestsOK'
    <3>1. [req EXCEPT ![r].pc = "done"] \in [Runs -> RequestRow]
      BY DEF RequestsOK, RequestRow, RequestPc
    <3>2. \A q \in Runs : /\ req'[q] \in RequestRow
                          /\ req'[q].k = req[q].k
                          /\ req'[q].pc \in InCall => req[q].pc \in InCall
      <4> DEFINE ended == [req EXCEPT ![r].pc = "done"]
      <4>1. ended \in [Runs -> RequestRow]
        BY <3>1
      <4>2. \A q \in Runs : /\ ended[q].k = req[q].k
                            /\ ended[q].pc \in InCall => req[q].pc \in InCall
        BY <1>4 DEF RequestsOK, RequestRow, InCall
      <4>3. req' = ended \/ req' = Awake(ended)
        BY <1>4 DEF SettleKey
      <4>4. \A q \in Runs : /\ [ended[q] EXCEPT !.pc = "awake"] \in RequestRow
                            /\ [ended[q] EXCEPT !.pc = "awake"].k = ended[q].k
                            /\ [ended[q] EXCEPT !.pc = "awake"].pc \notin InCall
        BY <4>1 DEF RequestRow, RequestPc, InCall
      <4> HIDE DEF ended
      <4> QED BY <4>1, <4>2, <4>3, <4>4 DEF Awake
    <3>3. req' \in [Runs -> RequestRow]
      <4>1. DOMAIN req' = Runs /\ req' = [q \in Runs |-> req'[q]]
        BY <1>4, <3>1 DEF SettleKey, Awake
      <4> QED BY <4>1, <3>2
    <3> QED BY <3>2, <3>3 DEF RequestsOK
  <2> QED BY <2>2, <2>3, <2>4
<1> QED BY <1>1, <1>2, <1>3, <1>4

LEMMA SinkTypes ==
    ASSUME OthersOK
    PROVE  /\ \A risk : Record(risk) =>
                sink' \in [up : BOOLEAN, buffered : 0..BufferCapacity] /\ faults' \in Nat
           /\ \A risk : Refused(risk) =>
                sink' \in [up : BOOLEAN, buffered : 0..BufferCapacity] /\ faults' \in Nat
           /\ Breaks => sink' \in [up : BOOLEAN, buffered : 0..BufferCapacity] /\ faults' \in Nat
<1>1. \A risk : Record(risk) => sink' \in [up : BOOLEAN, buffered : 0..BufferCapacity]
  <2>1. BufferCapacity \in Nat /\ sink.buffered \in 0..BufferCapacity /\ sink.up \in BOOLEAN
        /\ sink = [up |-> sink.up, buffered |-> sink.buffered]
    BY ToolExecutionAssumption DEF OthersOK
  <2>2. CASE sink.up
    BY <2>1, <2>2 DEF Record, OthersOK
  <2>3. CASE ~sink.up
    <3>1. \A risk : Accepts(risk) => sink.buffered + 1 \in 0..BufferCapacity
      BY <2>1, <2>3 DEF Accepts
    <3>2. \A risk : Record(risk) => sink' = [up |-> sink.up, buffered |-> sink.buffered + 1]
      BY <2>1, <2>3 DEF Record
    <3> QED BY <2>1, <3>1, <3>2 DEF Record
  <2> QED BY <2>2, <2>3
<1>2. Fault => faults' \in Nat
  BY DEF OthersOK, Fault
<1> QED BY <1>1, <1>2 DEF OthersOK, Record, Refused, Breaks

LEMMA AdmitTypes ==
    ASSUME TInv, NEW r \in Runs, Admit(r)
    PROVE  TInv'
<1> USE Parts
<1> DEFINE p == ProjectOf[r]
           l1 == OpenedTenant
           grantable == l1.account[p].open \/ Fits(l1, Tenant, ProjectGrant)
           l2 == IF l1.account[p].open \/ ~grantable THEN l1 ELSE GrantToChild(l1, p, ProjectGrant)
<1>1. p \in Projects /\ Tenant \in Accounts /\ Nothing \in [Dims -> Nat]
  BY BudgetTreeAssumption DEF Accounts, Nothing
<1>2. l1 \in Ledgers
  BY <1>1, OpenAccountType, BudgetTreeAssumption DEF OpenedTenant
<1>3. l2 \in Ledgers
  BY <1>1, <1>2, GrantType, BudgetTreeAssumption
<1>4. GrantToChild(l2, r, NodeGrant[r]) \in Ledgers
  BY <1>3, GrantType, ToolExecutionAssumption
<1>5. \/ /\ ledger' = GrantToChild(l2, r, NodeGrant[r])
         /\ req' = [req EXCEPT ![r] =
                 [@ EXCEPT !.epoch = epoch,
                           !.pc = IF Script[r] = <<>> THEN "finish" ELSE "authorise",
                           !.k = IF Script[r] = <<>> THEN 0 ELSE 1]]
      \/ ledger' = l2 /\ Raises(r)
  BY DEF Admit
<1>6. ledger' \in Ledgers
  BY <1>3, <1>4, <1>5
<1>7. RequestsOK'
  <2>1. CASE Raises(r)
    <3>1. [req[r] EXCEPT !.pc = "settle", !.result = "raised"] \in RequestRow
      BY DEF RequestsOK, RequestRow, RequestPc, Results
    <3>2. req' = [req EXCEPT ![r] = [req[r] EXCEPT !.pc = "settle", !.result = "raised"]]
      BY <2>1 DEF Raises, RequestsOK, RequestRow
    <3> QED BY <3>1, <3>2, RowTypes DEF RequestsOK, RequestRow, InCall
  <2>2. ASSUME NEW k \in 0..MaxCalls, k <= Len(Script[r]),
               NEW pc \in {"finish", "authorise"}, pc = "authorise" => k >= 1,
               req' = [req EXCEPT ![r] = [req[r] EXCEPT !.epoch = epoch, !.pc = pc, !.k = k]]
        PROVE  RequestsOK'
    <3> DEFINE row == [req[r] EXCEPT !.epoch = epoch, !.pc = pc, !.k = k]
    <3>1. row \in RequestRow /\ row.k = k /\ row.pc = pc
      <4>1. req[r] \in RequestRow /\ epoch \in Nat
        BY DEF RequestsOK, OthersOK
      <4> QED BY <2>2, <4>1 DEF RequestRow, RequestPc
    <3>2. row.pc \in InCall => row.k >= 1
      BY <3>1, <2>2 DEF InCall
    <3>3. req' = [req EXCEPT ![r] = row]
      BY <2>2
    <3>4. row.k <= Len(Script[r])
      BY <2>2, <3>1
    <3> HIDE DEF row
    <3> QED BY <3>1, <3>2, <3>3, <3>4, RowTypes
  <2>3. Script[r] # <<>> => 1 \in 0..MaxCalls /\ 1 <= Len(Script[r])
    BY ToolExecutionAssumption, BudgetTreeAssumption
  <2>4. 0 \in 0..MaxCalls /\ 0 <= Len(Script[r])
    BY BudgetTreeAssumption, ScriptLengths
  <2>5. CASE Script[r] = <<>> /\ ~Raises(r)
    <3>1. req' = [req EXCEPT ![r] = [req[r] EXCEPT !.epoch = epoch, !.pc = "finish", !.k = 0]]
      BY <1>5, <2>5
    <3> QED BY <3>1, <2>2, <2>4
  <2>6. CASE Script[r] # <<>> /\ ~Raises(r)
    <3>1. req' = [req EXCEPT ![r] = [req[r] EXCEPT !.epoch = epoch, !.pc = "authorise", !.k = 1]]
      BY <1>5, <2>6
    <3>2. 1 >= 1
      OBVIOUS
    <3> HIDE DEF p, l1, l2, grantable
    <3> QED BY <3>1, <3>2, <2>2, <2>3, <2>6
  <2> QED BY <2>1, <2>5, <2>6
<1>8. EntriesOK' /\ OthersOK'
  BY DEF Admit, EntriesOK, OthersOK
<1> QED BY <1>6, <1>7, <1>8

LEMMA CallTypes ==
    ASSUME TInv, NEW r \in Runs,
           Authorise(r) \/ Reserve(r) \/ Consume(r) \/ Dispatch(r) \/ CallTool(r) \/ Report(r)
    PROVE  TInv'
<1> USE Parts
<1>0. req[r].pc \in InCall
  BY DEF Authorise, Reserve, Consume, Dispatch, CallTool, Report, At, InCall
<1>1. /\ Current(r) \in Calls /\ req[r].k \in 1..MaxCalls /\ Tool(r) \in Tools
      /\ LogicalId(Current(r)) \in LogicalIds
  BY <1>0, CurrentIsCall
<1>2. /\ CallOf(r, req[r].k, Cost) \in Reservations
      /\ CallOf(r, req[r].k, Counter) \in Reservations
      /\ ReleaseQuietly(ledger, r, req[r].k) \in Ledgers
      /\ CallCost[Tool(r)] \in [Dims -> Nat] /\ Spends[Tool(r)] \subseteq Nat
  <2>1. CallCost[Tool(r)] \in [Dims -> Nat] /\ CallCost[Tool(r)][Cost] \in Nat
    BY <1>1, Ids, ToolExecutionAssumption
  <2>2. Spends[Tool(r)] \subseteq 0..CallCost[Tool(r)][Cost]
    BY <1>1, ToolExecutionAssumption
  <2>3. Spends[Tool(r)] \subseteq Nat
    BY <2>1, <2>2
  <2> QED BY <1>1, <2>1, <2>3, Ids, ReleaseType
<1>3. /\ "denied" \in Results /\ "failed" \in Results /\ "reconciliation_required" \in Results
      /\ "policy" \in {"policy", "other"} /\ "other" \in {"policy", "other"}
      /\ \A pc \in InCall : pc \in RequestPc
  BY DEF Results, RequestPc, InCall
<1>4. Fault => faults' \in Nat
  BY DEF OthersOK, Fault
<1>5. CASE Authorise(r)
  <2>1. RequestsOK'
    <3>1. CASE CallFails(r, "denied", "policy")
      BY <3>1, <1>0, <1>3, CallEndsTypes
    <3>2. CASE Goto(r, "reserve")
      BY <3>2, <1>0, GotoTypes DEF RequestPc
    <3>3. CASE Raises(r)
      BY <3>3, <1>0, <1>3, CallEndsTypes
    <3> QED BY <1>5, <3>1, <3>2, <3>3 DEF Authorise
  <2>2. OthersOK' /\ EntriesOK' /\ ledger' \in Ledgers
    BY <1>5, <1>4 DEF Authorise, OthersOK, EntriesOK
  <2> QED BY <2>1, <2>2
<1>6. CASE Reserve(r)
  <2>1. RequestsOK'
    <3>1. CASE CallFails(r, "denied", "other")
      BY <3>1, <1>0, <1>3, CallEndsTypes
    <3>2. CASE Goto(r, "consume") \/ Goto(r, "dispatch")
      BY <3>2, <1>0, GotoTypes DEF RequestPc
    <3> QED BY <1>6, <3>1, <3>2 DEF Reserve
  <2>2. ledger' \in Ledgers
    <3>1. BatchReserve(ledger, r, r, req[r].k, CallCost[Tool(r)]) \in Ledgers
      BY <1>2, BatchReserveType DEF Accounts
    <3> QED BY <1>6, <3>1 DEF Reserve
  <2>3. OthersOK' /\ EntriesOK'
    <3>1. action' \in [Calls -> ActionState] /\ listed' \in [LogicalIds -> Calls \cup {<<>>}]
      <4>1. /\ \/ action' = [action EXCEPT ![Current(r)] = "planned"]
               \/ action' = action
            /\ \/ listed' = [listed EXCEPT ![LogicalId(Current(r))] = Current(r)]
               \/ listed' = listed
        BY <1>6 DEF Reserve
      <4> QED BY <4>1, <1>1 DEF OthersOK, ActionState
    <3> QED BY <1>6, <3>1 DEF Reserve, OthersOK, EntriesOK
  <2> QED BY <2>1, <2>2, <2>3
<1>7. CASE Consume(r)
  <2>1. RequestsOK'
    <3>1. CASE CallFails(r, "denied", "other") \/ CallFails(r, "denied", "policy")
      BY <3>1, <1>0, <1>3, CallEndsTypes
    <3>2. CASE Goto(r, "dispatch")
      BY <3>2, <1>0, GotoTypes DEF RequestPc
    <3>3. CASE Raises(r)
      BY <3>3, <1>0, <1>3, CallEndsTypes
    <3> QED BY <1>7, <3>1, <3>2, <3>3 DEF Consume
  <2>2. ledger' \in Ledgers
    BY <1>7, <1>2 DEF Consume
  <2>3. OthersOK' /\ EntriesOK'
    <3>1. Spend(r) => conf' \in [Confirmations -> [status : {"none", "issued", "consumed"}, live : BOOLEAN]]
      BY DEF Spend, OthersOK
    <3> QED BY <1>7, <1>4, <3>1 DEF Consume, OthersOK, EntriesOK
  <2> QED BY <2>1, <2>2, <2>3
<1>8. CASE Dispatch(r)
  <2>1. RequestsOK'
    <3>1. CASE CallFails(r, "denied", "other")
      BY <3>1, <1>0, <1>3, CallEndsTypes
    <3>2. CASE Goto(r, "tool")
      BY <3>2, <1>0, GotoTypes DEF RequestPc
    <3>3. CASE Raises(r)
      BY <3>3, <1>0, <1>3, CallEndsTypes
    <3> QED BY <1>8, <3>1, <3>2, <3>3 DEF Dispatch
  <2>2. ledger' \in Ledgers
    <3>1. MarkInFlight(ledger, CallOf(r, req[r].k, Cost)) \in Ledgers
      BY <1>2, MarkType
    <3> QED BY <1>8, <1>2, <3>1 DEF Dispatch
  <2>3. OthersOK' /\ EntriesOK'
    <3>1. sink' \in [up : BOOLEAN, buffered : 0..BufferCapacity] /\ faults' \in Nat
      BY <1>8, SinkTypes DEF Dispatch, OthersOK
    <3>2. /\ action' = action \/ action' = [action EXCEPT ![Current(r)] = "dispatched"]
          /\ intents' = intents \/ intents' = intents \cup {Current(r)}
      BY <1>8 DEF Dispatch
    <3>3. action' \in [Calls -> ActionState] /\ intents' \subseteq Calls
      BY <3>2, <1>1 DEF OthersOK, ActionState
    <3> QED BY <1>8, <3>1, <3>3 DEF Dispatch, OthersOK, EntriesOK
  <2> QED BY <2>1, <2>2, <2>3
<1>9. CASE CallTool(r)
  <2>1. RequestsOK'
    BY <1>9, <1>0, GotoTypes DEF CallTool, RequestPc
  <2>2. ledger' \in Ledgers
    <3>1. \A actual \in Nat : Settle(ledger, CallOf(r, req[r].k, Cost), actual) \in Ledgers
      BY <1>2, SettleType
    <3> QED BY <1>9, <1>2, <3>1 DEF CallTool
  <2>3. OthersOK' /\ EntriesOK'
    <3>1. action' \in [Calls -> ActionState]
      BY <1>9, <1>1 DEF CallTool, OthersOK, ActionState
    <3>2. ran' \subseteq Calls
      BY <1>9, <1>1 DEF CallTool, OthersOK
    <3> QED BY <1>9, <1>4, <3>1, <3>2 DEF CallTool, OthersOK, EntriesOK
  <2> QED BY <2>1, <2>2, <2>3
<1>10. CASE Report(r)
  <2>1. RequestsOK'
    <3>1. CASE CallFails(r, "denied", "other") \/ CallFails(r, "reconciliation_required", "other")
      BY <3>1, <1>0, <1>3, CallEndsTypes
    <3>2. CASE CallSucceeds(r) \/ Raises(r)
      BY <3>2, <1>0, <1>3, CallEndsTypes
    <3> QED BY <1>10, <3>1, <3>2 DEF Report
  <2>2. ledger' \in Ledgers
    <3>1. Settle(MarkInFlight(ledger, CallOf(r, req[r].k, Counter)), CallOf(r, req[r].k, Counter), 1) \in Ledgers
      BY <1>2, MarkType, SettleType
    <3> QED BY <1>10, <1>2, <3>1 DEF Report
  <2>3. OthersOK' /\ EntriesOK'
    <3>1. sink' \in [up : BOOLEAN, buffered : 0..BufferCapacity] /\ faults' \in Nat
      BY <1>10, SinkTypes DEF Report
    <3> QED BY <1>10, <3>1 DEF Report, OthersOK, EntriesOK
  <2> QED BY <2>1, <2>2, <2>3
<1> QED BY <1>5, <1>6, <1>7, <1>8, <1>9, <1>10

LEMMA EndTypes ==
    ASSUME TInv, NEW r \in Runs, Reject(r) \/ Finish(r)
    PROVE  TInv'
<1> USE Parts
<1>1. req[r] \in RequestRow /\ req[r].k <= Len(Script[r])
  BY DEF RequestsOK
<1>2. ASSUME NEW result \in Results,
             req' = [req EXCEPT ![r] = [req[r] EXCEPT !.pc = "settle", !.result = result]]
      PROVE  RequestsOK'
  <2> DEFINE row == [req[r] EXCEPT !.pc = "settle", !.result = result]
  <2>1. row \in RequestRow /\ row.k = req[r].k /\ row.pc \notin InCall
    BY <1>1 DEF RequestRow, RequestPc, InCall
  <2> HIDE DEF row
  <2> QED BY <1>1, <1>2, <2>1, RowTypes DEF row
<1>3. ASSUME Raises(r) PROVE RequestsOK'
  BY <1>1, <1>2, <1>3 DEF Raises, Results, RequestRow
<1>4. CASE Reject(r)
  <2>1. RequestsOK'
    <3>1. ASSUME Goto(r, "finish") PROVE RequestsOK'
      BY <3>1, GotoTypes DEF RequestPc, InCall
    <3> QED BY <1>3, <1>4, <3>1 DEF Reject
  <2>2. sink' \in [up : BOOLEAN, buffered : 0..BufferCapacity] /\ faults' \in Nat
    BY <1>4, SinkTypes DEF Reject
  <2> QED BY <1>4, <2>1, <2>2 DEF Reject, OthersOK, EntriesOK
<1>5. CASE Finish(r)
  <2>1. RequestsOK'
    <3>1. ASSUME NEW result \in Results, req' = [req EXCEPT ![r].pc = "settle", ![r].result = result]
          PROVE RequestsOK'
      BY <1>1, <1>2, <3>1 DEF RequestRow
    <3>2. (IF req[r].result = "none" THEN "ok" ELSE req[r].result) \in Results
      BY <1>1 DEF RequestRow, Results
    <3> QED BY <1>3, <1>5, <3>1, <3>2 DEF Finish
  <2>2. sink' \in [up : BOOLEAN, buffered : 0..BufferCapacity] /\ faults' \in Nat
    BY <1>5, SinkTypes DEF Finish, OthersOK
  <2>3. ledger' \in Ledgers
    BY <1>5, CloseType DEF Finish
  <2> QED BY <1>5, <2>1, <2>2, <2>3 DEF Finish, OthersOK, EntriesOK
<1> QED BY <1>4, <1>5

LEMMA AroundTypes ==
    ASSUME TInv,
           \/ \E c \in Confirmations : Confirm(c) \/ Expire(c)
           \/ \E i \in LogicalIds : Reconcile(i)
           \/ \E up \in BOOLEAN : SetAvailable(up)
           \/ RevokeAll
           \/ UNCHANGED vars
    PROVE  TInv'
<1> USE Parts
<1>1. Fault => faults' \in Nat
  BY DEF OthersOK, Fault
<1>2. ASSUME NEW c \in Confirmations, Confirm(c) \/ Expire(c) PROVE TInv'
  <2>1. conf' \in [Confirmations -> [status : {"none", "issued", "consumed"}, live : BOOLEAN]]
    <3>1. CASE Confirm(c)
      <4>1. [status |-> "issued", live |-> TRUE]
              \in [status : {"none", "issued", "consumed"}, live : BOOLEAN]
        OBVIOUS
      <4> QED BY <3>1, <4>1 DEF Confirm, OthersOK
    <3>2. CASE Expire(c)
      BY <3>2 DEF Expire, OthersOK
    <3> QED BY <1>2, <3>1, <3>2
  <2>2. UNCHANGED <<req, entry, action, listed, ledger, sink, epoch, faults, intents, ran>>
    BY <1>2 DEF Confirm, Expire
  <2> QED BY <2>1, <2>2 DEF RequestsOK, EntriesOK, OthersOK
<1>3. ASSUME NEW i \in LogicalIds, Reconcile(i) PROVE TInv'
  <2>1. listed[i] \in Calls
    BY <1>3 DEF Reconcile, OthersOK
  <2>2. CallOf(listed[i][1], listed[i][2], Cost) \in Reservations
    BY <2>1, Ids DEF Calls
  <2>3. i[1] \in Tools
    BY ScriptLengths DEF LogicalIds, LogicalId, Calls, ToolOf
  <2>4. ledger' \in Ledgers
    BY <1>3, <2>2, <2>3, SettleType, ToolExecutionAssumption DEF Reconcile
  <2> QED BY <1>3, <2>4 DEF Reconcile, RequestsOK, EntriesOK, OthersOK
<1>4. ASSUME NEW up \in BOOLEAN, SetAvailable(up) PROVE TInv'
  <2>1. BufferCapacity \in Nat /\ sink = [up |-> sink.up, buffered |-> sink.buffered]
        /\ sink.buffered \in 0..BufferCapacity
    BY ToolExecutionAssumption DEF OthersOK
  <2>2. CASE up = TRUE
    <3>1. sink' = [up |-> TRUE, buffered |-> 0] /\ faults' = faults
      BY <1>4, <2>1, <2>2 DEF SetAvailable
    <3>2. sink' \in [up : BOOLEAN, buffered : 0..BufferCapacity] /\ faults' \in Nat
      BY <2>1, <3>1 DEF OthersOK
    <3> QED BY <1>4, <3>2 DEF SetAvailable, RequestsOK, EntriesOK, OthersOK
  <2>3. CASE up = FALSE
    <3>1. sink' = [up |-> FALSE, buffered |-> sink.buffered] /\ Fault
      BY <1>4, <2>1, <2>3 DEF SetAvailable
    <3> QED BY <1>1, <1>4, <2>1, <3>1 DEF SetAvailable, RequestsOK, EntriesOK, OthersOK
  <2> QED BY <2>2, <2>3
<1>5. CASE RevokeAll
  BY <1>1, <1>5 DEF RevokeAll, RequestsOK, EntriesOK, OthersOK
<1>6. CASE UNCHANGED vars
  BY <1>6 DEF vars, RequestsOK, EntriesOK, OthersOK
<1> QED BY <1>2, <1>3, <1>4, <1>5, <1>6

LEMMA NextTypes == TInv /\ [Next]_vars => TInv'
  BY KeyTypes, AdmitTypes, CallTypes, EndTypes, AroundTypes DEF Next, RequestStep

\* The table, the accounts, the actions and the requests only ever hold what they may
\* hold: in particular no request goes past the last call of its script, and no account
\* consumes less than nothing.
THEOREM TypeCorrectTools == Spec => []TypeOK
<1>1. TInv => TypeOK
  BY DEF TInv
<1> QED BY InitTypes, NextTypes, <1>1, PTL DEF Spec

-----------------------------------------------------------------------------
(* What a step does to the threads.                                        *)

\* A call that ends goes on, is over with all calls, is rejected, or its exception leaves.
LEMMA CallEnds ==
    ASSUME RequestsOK, NEW r \in Runs, NEW result \in Results, NEW code \in {"policy", "other"},
           CallFails(r, result, code) \/ CallSucceeds(r) \/ Raises(r)
    PROVE  /\ \A q \in Runs \ {r} : req'[q] = req[q]
           /\ req'[r].of = req[r].of
           /\ \/ req'[r].pc = "authorise" /\ req'[r].k = req[r].k + 1
              \/ req'[r].pc \in {"finish", "reject"} /\ req'[r].k = req[r].k
              \/ req'[r].pc = "settle" /\ req'[r].k = req[r].k /\ req'[r].result = "raised"
<1>1. req \in [Runs -> RequestRow]
  BY DEF RequestsOK
<1>2. CASE CallFails(r, result, code)
  BY <1>1, <1>2 DEF CallFails, RequestRow
<1>3. CASE CallSucceeds(r)
  BY <1>1, <1>3 DEF CallSucceeds, Goto, RequestRow
<1>4. CASE Raises(r)
  BY <1>1, <1>4 DEF Raises, RequestRow
<1> QED BY <1>2, <1>3, <1>4

LEMMA Goes ==
    ASSUME RequestsOK, NEW r \in Runs, NEW pc \in RequestPc, Goto(r, pc)
    PROVE  /\ \A q \in Runs \ {r} : req'[q] = req[q]
           /\ req'[r] = [req[r] EXCEPT !.pc = pc]
           /\ req'[r].pc = pc /\ req'[r].k = req[r].k /\ req'[r].of = req[r].of
           /\ req'[r].result = req[r].result
  BY DEF Goto, RequestsOK, RequestRow

\* The steps of one who executes: its own thread moves, nobody else's, and it goes on
\* executing until it settles the key.
LEMMA Inside ==
    ASSUME RequestsOK, NEW r \in Runs,
           \/ Admit(r) \/ Authorise(r) \/ Reserve(r) \/ Consume(r) \/ Dispatch(r)
           \/ CallTool(r) \/ Report(r) \/ Reject(r) \/ Finish(r)
    PROVE  /\ req[r].pc \in Executing /\ req'[r].pc \in Executing
           /\ \A q \in Runs \ {r} : req'[q] = req[q]
           /\ req'[r].of = req[r].of
           /\ UNCHANGED entry
<1>1. req \in [Runs -> RequestRow]
  BY DEF RequestsOK
<1>2. /\ \A pc \in Executing : pc \in RequestPc
      /\ \A result \in {"denied", "failed", "reconciliation_required"} : result \in Results
  BY DEF Executing, RequestPc, Results
<1>3. ASSUME NEW pc \in Executing, Goto(r, pc)
      PROVE  /\ req'[r].pc \in Executing /\ \A q \in Runs \ {r} : req'[q] = req[q]
             /\ req'[r].of = req[r].of
  BY <1>2, <1>3, Goes
<1>4. ASSUME NEW result \in Results, NEW code \in {"policy", "other"},
             CallFails(r, result, code) \/ CallSucceeds(r) \/ Raises(r)
      PROVE  /\ req'[r].pc \in Executing /\ \A q \in Runs \ {r} : req'[q] = req[q]
             /\ req'[r].of = req[r].of
  BY <1>4, CallEnds DEF Executing
<1>5. CASE Admit(r)
  <2>1. CASE Raises(r)
    BY <1>4, <1>5, <2>1 DEF Admit, Executing, At, Results
  <2>2. CASE req' = [req EXCEPT ![r] =
                 [@ EXCEPT !.epoch = epoch,
                           !.pc = IF Script[r] = <<>> THEN "finish" ELSE "authorise",
                           !.k = IF Script[r] = <<>> THEN 0 ELSE 1]]
    BY <1>1, <1>5, <2>2 DEF Admit, Executing, At, RequestRow
  <2> QED BY <1>5, <2>1, <2>2 DEF Admit
<1>6. CASE Authorise(r)
  BY <1>2, <1>3, <1>4, <1>6 DEF Authorise, At, Executing
<1>7. CASE Reserve(r)
  BY <1>2, <1>3, <1>4, <1>7 DEF Reserve, At, Executing
<1>8. CASE Consume(r)
  BY <1>2, <1>3, <1>4, <1>8 DEF Consume, At, Executing
<1>9. CASE Dispatch(r)
  BY <1>2, <1>3, <1>4, <1>9 DEF Dispatch, At, Executing
<1>10. CASE CallTool(r)
  BY <1>2, <1>3, <1>10 DEF CallTool, At, Executing
<1>11. CASE Report(r)
  BY <1>2, <1>3, <1>4, <1>11 DEF Report, At, Executing
<1>12. CASE Reject(r)
  BY <1>2, <1>3, <1>4, <1>12 DEF Reject, At, Executing
<1>13. CASE Finish(r)
  <2>1. CASE Raises(r)
    BY <1>2, <1>4, <1>13, <2>1 DEF Finish, At, Executing
  <2>2. CASE ~Raises(r)
    <3>1. \E result : req' = [req EXCEPT ![r].pc = "settle", ![r].result = result]
      BY <1>13, <2>2 DEF Finish
    <3> QED BY <1>1, <1>13, <3>1 DEF Finish, At, Executing, RequestRow
  <2> QED BY <2>1, <2>2
<1> QED BY <1>5, <1>6, <1>7, <1>8, <1>9, <1>10, <1>11, <1>12, <1>13

LEMMA AroundRequests ==
    ASSUME \/ \E c \in Confirmations : Confirm(c) \/ Expire(c)
           \/ \E i \in LogicalIds : Reconcile(i)
           \/ \E up \in BOOLEAN : SetAvailable(up)
           \/ RevokeAll
           \/ UNCHANGED vars
    PROVE  UNCHANGED <<req, entry, ran>>
  BY DEF Confirm, Expire, Reconcile, SetAvailable, RevokeAll, vars

-----------------------------------------------------------------------------
(* One execution per key.                                                  *)

\* Who executes under a key has the entry; a success is that of the entry.
KeyInv ==
    \A r \in Runs :
        /\ req[r].pc # "done" => req[r].of = r
        /\ KeyOf[r] # NoKey =>
             /\ req[r].pc \in Executing =>
                  /\ entry[KeyOf[r]].state = "pending"
                  /\ entry[KeyOf[r]].content = ContentOf[r]
                  /\ entry[KeyOf[r]].owner = r
             /\ req[r].pc = "done" /\ req[r].result = "ok" =>
                  /\ entry[KeyOf[r]].state = "completed"
                  /\ entry[KeyOf[r]].content = ContentOf[r]
                  /\ entry[KeyOf[r]].owner = req[r].of

LEMMA KeyInvInit == Init => KeyInv
<1> SUFFICES ASSUME Init PROVE KeyInv
  OBVIOUS
<1>1. \A r \in Runs : req[r].pc \in {"new", "never"} /\ req[r].of = r
  BY DEF Init
<1> QED BY <1>1 DEF KeyInv, Executing

LEMMA KeyInvClaims ==
    ASSUME TInv, KeyInv, NEW r \in Runs, ClaimKey(r)
    PROVE  KeyInv'
<1>1. KeyOf[r] \in Keys /\ req[r].pc \in {"new", "awake", "late"} /\ req \in [Runs -> RequestRow]
      /\ entry \in [Keys -> EntryRow]
      /\ \A q \in Runs : KeyOf[q] # NoKey => KeyOf[q] \in Keys
  BY ToolExecutionAssumption DEF ClaimKey, TInv, RequestsOK, EntriesOK
<1>2. CASE Take(r)
  <2>1. /\ \A q \in Runs \ {r} : req'[q] = req[q]
        /\ req'[r].pc = "admission" /\ req'[r].of = req[r].of
    BY <1>1, <1>2, Goes DEF Take, TInv, RequestPc
  <2>2. entry'[KeyOf[r]] = [state |-> "pending", content |-> ContentOf[r], owner |-> r]
        /\ \A x \in Keys \ {KeyOf[r]} : entry'[x] = entry[x]
    <3>1. entry' = [entry EXCEPT ![KeyOf[r]] =
             [state |-> "pending", content |-> ContentOf[r], owner |-> r]]
      BY <1>2 DEF Take
    <3>2. entry \in [Keys -> EntryRow] /\ KeyOf[r] \in Keys
      BY <1>1
    <3> DEFINE claimed == [state |-> "pending", content |-> ContentOf[r], owner |-> r]
    <3>3. entry' = [entry EXCEPT ![KeyOf[r]] = claimed]
      BY <3>1
    <3> HIDE DEF claimed
    <3>5. entry'[KeyOf[r]] = claimed /\ \A x \in Keys \ {KeyOf[r]} : entry'[x] = entry[x]
      BY <3>2, <3>3
    <3> QED BY <3>5 DEF claimed
  <2>3. ASSUME NEW q \in Runs \ {r}, KeyOf[q] = KeyOf[r]
        PROVE  req[q].pc \notin Executing /\ ~(req[q].pc = "done" /\ req[q].result = "ok")
    <3>1. entry[KeyOf[r]].state \in {"none", "released"}
      BY <1>2 DEF Take
    <3>2. KeyOf[q] # NoKey
      BY <1>1, <2>3, ToolExecutionAssumption
    <3> QED BY <2>3, <3>1, <3>2 DEF KeyInv
  <2>4. req[r].of = r
    BY <1>1 DEF KeyInv
  <2>5. ASSUME NEW q \in Runs \ {r}, KeyOf[q] # NoKey, KeyOf[q] # KeyOf[r]
        PROVE  entry'[KeyOf[q]] = entry[KeyOf[q]]
    BY <1>1, <2>2, <2>5
  <2>6. KeyOf[r] # NoKey /\ \A q \in Runs \ {r} : req'[q] = req[q]
    BY <1>1, <2>1, ToolExecutionAssumption
  <2> QED BY <2>1, <2>2, <2>3, <2>4, <2>5, <2>6 DEF KeyInv
<1>3. CASE Goto(r, "waiting") /\ UNCHANGED entry
  <2>1. /\ \A q \in Runs \ {r} : req'[q] = req[q]
        /\ req'[r].pc = "waiting" /\ req'[r].of = req[r].of
    BY <1>3, Goes DEF TInv, RequestPc
  <2>2. req[r].of = r
    BY <1>1 DEF KeyInv
  <2> QED BY <1>3, <2>1, <2>2 DEF KeyInv, Executing
<1>4. CASE (Answered(r, "denied", r) \/ Answered(r, "failed", r)) /\ UNCHANGED entry
  <2>1. /\ \A q \in Runs \ {r} : req'[q] = req[q]
        /\ req'[r].pc = "done" /\ req'[r].result # "ok"
    <3>1. \E result \in {"denied", "failed"} :
            req' = [req EXCEPT ![r] = [@ EXCEPT !.pc = "done", !.result = result, !.of = r]]
      BY <1>4 DEF Answered
    <3> QED BY <1>1, <3>1 DEF RequestRow
  <2> QED BY <1>4, <2>1 DEF KeyInv, Executing
<1>5. CASE /\ entry[KeyOf[r]].state = "completed" /\ entry[KeyOf[r]].content = ContentOf[r]
           /\ Answered(r, "ok", entry[KeyOf[r]].owner) /\ UNCHANGED entry
  <2>1. /\ \A q \in Runs \ {r} : req'[q] = req[q]
        /\ req'[r].pc = "done" /\ req'[r].of = entry[KeyOf[r]].owner
    BY <1>1, <1>5 DEF Answered, RequestRow
  <2> QED BY <1>5, <2>1 DEF KeyInv, Executing
<1> QED BY <1>2, <1>3, <1>4, <1>5 DEF ClaimKey

LEMMA KeyInvSettles ==
    ASSUME TInv, KeyInv, NEW r \in Runs, SettleKey(r)
    PROVE  KeyInv'
<1>1. req[r].pc = "settle" /\ req \in [Runs -> RequestRow] /\ entry \in [Keys -> EntryRow]
      /\ \A q \in Runs : KeyOf[q] # NoKey => KeyOf[q] \in Keys
  BY ToolExecutionAssumption DEF SettleKey, At, TInv, RequestsOK, EntriesOK
<1>2. /\ req'[r].pc = "done" /\ req'[r].result = req[r].result /\ req'[r].of = req[r].of
      /\ \A q \in Runs \ {r} :
           \/ req'[q] = req[q]
           \/ req[q].pc = "waiting" /\ req'[q].pc = "awake" /\ req'[q].of = req[q].of
  <2> DEFINE ended == [req EXCEPT ![r].pc = "done"]
  <2>1. /\ ended[r].pc = "done" /\ ended[r].result = req[r].result /\ ended[r].of = req[r].of
        /\ \A q \in Runs \ {r} : ended[q] = req[q]
        /\ ended \in [Runs -> RequestRow]
    BY <1>1 DEF RequestRow, RequestPc
  <2>2. req' = ended \/ req' = Awake(ended)
    BY DEF SettleKey
  <2>3. \A q \in Runs : [ended[q] EXCEPT !.pc = "awake"].of = ended[q].of
                      /\ [ended[q] EXCEPT !.pc = "awake"].pc = "awake"
    BY <2>1 DEF RequestRow
  <2> HIDE DEF ended
  <2>4. CASE req' = ended
    BY <2>1, <2>4
  <2>5. CASE req' = Awake(ended)
    <3>1. \A q \in Runs : req'[q] = IF ended[q].pc = "waiting" THEN [ended[q] EXCEPT !.pc = "awake"]
                                  ELSE ended[q]
      BY <2>5 DEF Awake
    <3> QED BY <2>1, <2>3, <3>1
  <2> QED BY <2>2, <2>4, <2>5
<1>3. CASE KeyOf[r] = NoKey
  <2>1. entry' = entry
    BY <1>3 DEF SettleKey
  <2>2. ASSUME NEW q \in Runs \ {r}
        PROVE  /\ req'[q].pc \in Executing \cup {"done"} => req'[q] = req[q]
               /\ req'[q].pc # "done" => req'[q].of = q
    BY <1>2 DEF Executing, KeyInv
  <2> QED BY <1>2, <1>3, <2>1, <2>2 DEF KeyInv
<1>4. CASE KeyOf[r] # NoKey
  <2>1. /\ entry'[KeyOf[r]].content = entry[KeyOf[r]].content
        /\ entry'[KeyOf[r]].owner = entry[KeyOf[r]].owner
        /\ req[r].result = "ok" => entry'[KeyOf[r]].state = "completed"
        /\ \A x \in Keys \ {KeyOf[r]} : entry'[x] = entry[x]
    <3>1. entry' = [entry EXCEPT ![KeyOf[r]] =
             [entry[KeyOf[r]] EXCEPT !.state = IF req[r].result = "ok" THEN "completed" ELSE "released"]]
      BY <1>1, <1>4 DEF SettleKey
    <3>2. KeyOf[r] \in Keys /\ entry[KeyOf[r]] \in EntryRow
      BY <1>1, <1>4
    <3>3. entry'[KeyOf[r]] =
            [entry[KeyOf[r]] EXCEPT !.state = IF req[r].result = "ok" THEN "completed" ELSE "released"]
      BY <1>1, <3>1, <3>2
    <3> QED BY <1>1, <3>1, <3>2, <3>3 DEF EntryRow
  <2>2. /\ entry[KeyOf[r]].state = "pending" /\ entry[KeyOf[r]].content = ContentOf[r]
        /\ entry[KeyOf[r]].owner = r /\ req[r].of = r
    BY <1>1, <1>4 DEF KeyInv, Executing
  <2>3. ASSUME NEW q \in Runs \ {r}, KeyOf[q] = KeyOf[r]
        PROVE  req[q].pc \notin Executing /\ ~(req[q].pc = "done" /\ req[q].result = "ok")
    BY <1>4, <2>2, <2>3 DEF KeyInv
  <2>4. ASSUME NEW q \in Runs \ {r}
        PROVE  /\ req'[q].pc \in Executing => req'[q] = req[q]
               /\ req'[q].pc = "done" => req'[q] = req[q]
               /\ req'[q].pc # "done" => req'[q].of = q
    BY <1>2 DEF Executing, KeyInv
  <2>5. ASSUME NEW q \in Runs \ {r}, KeyOf[q] # NoKey, req'[q] = req[q]
        PROVE  /\ req'[q].pc \in Executing =>
                    /\ entry'[KeyOf[q]].state = "pending"
                    /\ entry'[KeyOf[q]].content = ContentOf[q]
                    /\ entry'[KeyOf[q]].owner = q
               /\ req'[q].pc = "done" /\ req'[q].result = "ok" =>
                    /\ entry'[KeyOf[q]].state = "completed"
                    /\ entry'[KeyOf[q]].content = ContentOf[q]
                    /\ entry'[KeyOf[q]].owner = req'[q].of
    BY <1>1, <2>1, <2>3, <2>5 DEF KeyInv
  <2>6. /\ req'[r].pc \notin Executing
        /\ req'[r].result = "ok" =>
             /\ entry'[KeyOf[r]].state = "completed" /\ entry'[KeyOf[r]].content = ContentOf[r]
             /\ entry'[KeyOf[r]].owner = req'[r].of
    BY <1>2, <2>1, <2>2 DEF Executing
  <2> QED BY <1>2, <2>4, <2>5, <2>6 DEF KeyInv
<1> QED BY <1>3, <1>4

LEMMA KeyInvNext == TInv /\ KeyInv /\ [Next]_vars => KeyInv'
<1> SUFFICES ASSUME TInv, KeyInv, [Next]_vars PROVE KeyInv'
  OBVIOUS
<1>0. RequestsOK
  BY DEF TInv
<1>1. ASSUME NEW r \in Runs, WithoutKey(r) PROVE KeyInv'
  <2>1. /\ \A q \in Runs \ {r} : req'[q] = req[q]
        /\ req'[r].pc = "admission" /\ req'[r].of = req[r].of
        /\ req[r].pc = "new" /\ KeyOf[r] = NoKey /\ entry' = entry
    BY <1>0, <1>1, Goes DEF WithoutKey, At, RequestPc
  <2>2. req[r].of = r
    BY <2>1 DEF KeyInv
  <2> QED BY <2>1, <2>2 DEF KeyInv
<1>2. ASSUME NEW r \in Runs, WaitTooLong(r) PROVE KeyInv'
  <2>1. /\ \A q \in Runs \ {r} : req'[q] = req[q]
        /\ req'[r].pc = "late" /\ req'[r].of = req[r].of
        /\ req[r].pc = "waiting" /\ entry' = entry
    BY <1>0, <1>2, Goes DEF WaitTooLong, At, RequestPc
  <2>2. req[r].of = r
    BY <2>1 DEF KeyInv
  <2> QED BY <2>1, <2>2 DEF KeyInv, Executing
<1>3. ASSUME NEW r \in Runs,
             \/ Admit(r) \/ Authorise(r) \/ Reserve(r) \/ Consume(r) \/ Dispatch(r)
             \/ CallTool(r) \/ Report(r) \/ Reject(r) \/ Finish(r)
      PROVE  KeyInv'
  <2>1. /\ req[r].pc \in Executing /\ req'[r].pc \in Executing /\ req'[r].pc # "done"
        /\ req[r].pc # "done"
        /\ \A q \in Runs \ {r} : req'[q] = req[q]
        /\ req'[r].of = req[r].of
        /\ entry' = entry
    BY <1>0, <1>3, Inside DEF Executing
  <2> QED BY <2>1 DEF KeyInv
<1>4. ASSUME UNCHANGED <<req, entry, ran>> PROVE KeyInv'
  BY <1>4 DEF KeyInv
<1> QED BY <1>1, <1>2, <1>3, <1>4, KeyInvClaims, KeyInvSettles, AroundRequests DEF Next, RequestStep

\* However requests interleave on the table's condition variable, with the 30 s running
\* out at any moment and executions failing anywhere, two requests with one key never
\* execute at the same time, and their successes are one execution's.
THEOREM OneExecution == Spec => []OneExecutionPerKey
<1>1. KeyInv => OneExecutionPerKey
  BY DEF KeyInv, OneExecutionPerKey, At, Executing
<1> QED BY InitTypes, NextTypes, KeyInvInit, KeyInvNext, <1>1, PTL DEF Spec

-----------------------------------------------------------------------------
(* Nobody waits in vain.                                                   *)

\* For whoever waits there is a thread with the same key that still runs, and will
\* wake it when it settles.
NobodyWaitsInVain ==
    \A r \in Runs : At(r, "waiting") =>
        \E q \in Runs \ {r} : KeyOf[q] = KeyOf[r] /\ req[q].pc \in Executing

InHand(x) == \E q \in Runs : KeyOf[q] = x /\ req[q].pc \in Executing

\* A pending entry has a thread that will settle it, and who waits waits for one.
WaitInv ==
    /\ \A x \in Keys : entry[x].state = "pending" => InHand(x)
    /\ \A r \in Runs : req[r].pc = "waiting" => KeyOf[r] \in Keys /\ entry[KeyOf[r]].state = "pending"

\* What executes goes on doing so, or settles; only the claim of r may put it to waiting.
LEMMA InHandStays ==
    ASSUME NEW r \in Runs, NEW x \in Keys, InHand(x),
           \A q \in Runs \ {r} : req[q].pc \in Executing => req'[q].pc \in Executing,
           req[r].pc \in Executing /\ KeyOf[r] = x => req'[r].pc \in Executing
    PROVE  InHand(x)'
<1>1. PICK q \in Runs : KeyOf[q] = x /\ req[q].pc \in Executing
  BY DEF InHand
<1>2. req'[q].pc \in Executing
  BY <1>1
<1> QED BY <1>1, <1>2 DEF InHand

LEMMA WaitInvClaims ==
    ASSUME TInv, WaitInv, NEW r \in Runs, ClaimKey(r)
    PROVE  WaitInv'
<1>1. /\ KeyOf[r] \in Keys /\ req[r].pc \in {"new", "awake", "late"}
      /\ req \in [Runs -> RequestRow] /\ entry \in [Keys -> EntryRow]
  BY ToolExecutionAssumption DEF ClaimKey, TInv, RequestsOK, EntriesOK
<1>2. req[r].pc \notin Executing
  BY <1>1 DEF Executing
<1>3. ASSUME \A q \in Runs \ {r} : req'[q] = req[q], NEW x \in Keys, InHand(x)
      PROVE  InHand(x)'
  BY <1>2, <1>3, InHandStays
<1>4. CASE Take(r)
  <2>1. (\A q \in Runs \ {r} : req'[q] = req[q]) /\ req'[r].pc = "admission"
    BY <1>1, <1>4, Goes DEF Take, TInv, RequestPc
  <2>2. entry'[KeyOf[r]].state = "pending" /\ \A x \in Keys \ {KeyOf[r]} : entry'[x] = entry[x]
    <3> DEFINE claimed == [state |-> "pending", content |-> ContentOf[r], owner |-> r]
    <3>1. entry' = [entry EXCEPT ![KeyOf[r]] = claimed] /\ claimed.state = "pending"
      BY <1>4 DEF Take
    <3> HIDE DEF claimed
    <3> QED BY <1>1, <3>1
  <2>3. InHand(KeyOf[r])'
    BY <2>1 DEF InHand, Executing
  <2>4. ASSUME NEW x \in Keys, entry'[x].state = "pending" PROVE InHand(x)'
    BY <1>3, <2>1, <2>2, <2>3, <2>4 DEF WaitInv
  <2>5. ASSUME NEW q \in Runs, req'[q].pc = "waiting"
        PROVE  KeyOf[q] \in Keys /\ entry'[KeyOf[q]].state = "pending"
    BY <2>1, <2>2, <2>5 DEF WaitInv
  <2> QED BY <2>4, <2>5 DEF WaitInv
<1>5. CASE Goto(r, "waiting") /\ entry[KeyOf[r]].state = "pending" /\ UNCHANGED entry
  <2>1. \A q \in Runs \ {r} : req'[q] = req[q]
    BY <1>1, <1>5, Goes DEF TInv, RequestPc
  <2> QED BY <1>1, <1>3, <1>5, <2>1 DEF WaitInv
<1>6. CASE (\E result, of : Answered(r, result, of)) /\ UNCHANGED entry
  <2>1. (\A q \in Runs \ {r} : req'[q] = req[q]) /\ req'[r].pc = "done"
    BY <1>1, <1>6 DEF Answered, RequestRow
  <2> QED BY <1>3, <1>6, <2>1 DEF WaitInv
<1> QED BY <1>4, <1>5, <1>6 DEF ClaimKey

\* The condition variable is one for all keys: whoever waits is woken.
LEMMA WaitInvSettles ==
    ASSUME TInv, KeyInv, WaitInv, NEW r \in Runs, SettleKey(r)
    PROVE  WaitInv'
<1>1. /\ req[r].pc = "settle" /\ req \in [Runs -> RequestRow] /\ entry \in [Keys -> EntryRow]
      /\ KeyOf[r] \in Keys \cup {NoKey}
  BY ToolExecutionAssumption DEF SettleKey, At, TInv, RequestsOK, EntriesOK
<1> DEFINE ended == [req EXCEPT ![r].pc = "done"]
<1>2. /\ ended[r].pc = "done" /\ \A q \in Runs \ {r} : ended[q] = req[q]
      /\ \A q \in Runs : [ended[q] EXCEPT !.pc = "awake"].pc = "awake"
  BY <1>1 DEF RequestRow, RequestPc
<1>3. req' = IF KeyOf[r] = NoKey THEN ended ELSE Awake(ended)
  BY DEF SettleKey
<1> HIDE DEF ended
<1>4. CASE KeyOf[r] = NoKey
  <2>1. entry' = entry /\ req'[r].pc = "done" /\ \A q \in Runs \ {r} : req'[q] = req[q]
    BY <1>2, <1>3, <1>4 DEF SettleKey
  <2>2. ASSUME NEW x \in Keys, InHand(x) PROVE InHand(x)'
    BY <1>4, <2>1, <2>2, InHandStays, ToolExecutionAssumption
  <2> QED BY <2>1, <2>2 DEF WaitInv
<1>5. CASE KeyOf[r] # NoKey
  <2>1. \A q \in Runs : req'[q] = IF ended[q].pc = "waiting" THEN [ended[q] EXCEPT !.pc = "awake"]
                                ELSE ended[q]
    BY <1>3, <1>5 DEF Awake
  <2>2. /\ \A q \in Runs : req'[q].pc # "waiting"
        /\ \A q \in Runs \ {r} : req[q].pc \in Executing => req'[q].pc \in Executing
    BY <1>2, <2>1 DEF Executing
  <2>3. entry'[KeyOf[r]].state # "pending" /\ \A x \in Keys \ {KeyOf[r]} : entry'[x] = entry[x]
    <3> DEFINE e == [entry[KeyOf[r]] EXCEPT !.state =
                       IF req[r].result = "ok" THEN "completed" ELSE "released"]
    <3>1. entry' = [entry EXCEPT ![KeyOf[r]] = e]
      BY <1>1, <1>5 DEF SettleKey
    <3>2. e.state # "pending"
      BY <1>1, <1>5 DEF EntryRow
    <3> HIDE DEF e
    <3> QED BY <1>1, <1>5, <3>1, <3>2
  <2>4. ASSUME NEW x \in Keys \ {KeyOf[r]}, InHand(x) PROVE InHand(x)'
    BY <2>2, <2>4, InHandStays
  <2> QED BY <2>2, <2>3, <2>4 DEF WaitInv
<1> QED BY <1>4, <1>5

LEMMA WaitInvNext == TInv /\ KeyInv /\ WaitInv /\ [Next]_vars => WaitInv'
<1> SUFFICES ASSUME TInv, KeyInv, WaitInv, [Next]_vars PROVE WaitInv'
  OBVIOUS
<1>0. RequestsOK
  BY DEF TInv
<1>1. ASSUME NEW r \in Runs,
             \A q \in Runs \ {r} : req'[q] = req[q],
             req[r].pc \in Executing => req'[r].pc \in Executing,
             req'[r].pc # "waiting", entry' = entry
      PROVE  WaitInv'
  <2>1. ASSUME NEW x \in Keys, InHand(x) PROVE InHand(x)'
    BY <1>1, <2>1, InHandStays
  <2> QED BY <1>1, <2>1 DEF WaitInv
<1>2. ASSUME NEW r \in Runs, WithoutKey(r) PROVE WaitInv'
  <2>1. /\ \A q \in Runs \ {r} : req'[q] = req[q]
        /\ req'[r].pc = "admission" /\ entry' = entry
    BY <1>0, <1>2, Goes DEF WithoutKey, RequestPc
  <2> QED BY <1>1, <2>1 DEF Executing
<1>3. ASSUME NEW r \in Runs, WaitTooLong(r) PROVE WaitInv'
  <2>1. /\ \A q \in Runs \ {r} : req'[q] = req[q]
        /\ req'[r].pc = "late" /\ req[r].pc = "waiting" /\ entry' = entry
    BY <1>0, <1>3, Goes DEF WaitTooLong, At, RequestPc
  <2> QED BY <1>1, <2>1 DEF Executing
<1>4. ASSUME NEW r \in Runs,
             \/ Admit(r) \/ Authorise(r) \/ Reserve(r) \/ Consume(r) \/ Dispatch(r)
             \/ CallTool(r) \/ Report(r) \/ Reject(r) \/ Finish(r)
      PROVE  WaitInv'
  <2>1. /\ req'[r].pc \in Executing
        /\ \A q \in Runs \ {r} : req'[q] = req[q]
        /\ entry' = entry
    BY <1>0, <1>4, Inside
  <2>2. req'[r].pc # "waiting"
    BY <2>1 DEF Executing
  <2> QED BY <1>1, <2>1, <2>2
<1>5. ASSUME UNCHANGED <<req, entry, ran>> PROVE WaitInv'
  BY <1>5 DEF WaitInv, InHand
<1> QED BY <1>2, <1>3, <1>4, <1>5, WaitInvClaims, WaitInvSettles, AroundRequests
        DEF Next, RequestStep

\* However claims, executions that fail anywhere, and the 30 s interleave, nobody sleeps
\* on the condition variable after the last thread that could wake it has settled.
THEOREM WaitingIsForSomebody == Spec => []NobodyWaitsInVain
<1>1. Init => WaitInv
  <2> SUFFICES ASSUME Init PROVE WaitInv
    OBVIOUS
  <2>1. \A r \in Runs : req[r].pc \in {"new", "never"}
    BY DEF Init
  <2>2. \A x \in Keys : entry[x].state = "none"
    BY DEF Init, NoEntry
  <2> QED BY <2>1, <2>2 DEF WaitInv
<1>2. WaitInv => NobodyWaitsInVain
  <2> SUFFICES ASSUME WaitInv, NEW r \in Runs, At(r, "waiting")
      PROVE  \E q \in Runs \ {r} : KeyOf[q] = KeyOf[r] /\ req[q].pc \in Executing
    BY DEF NobodyWaitsInVain
  <2>1. PICK q \in Runs : KeyOf[q] = KeyOf[r] /\ req[q].pc \in Executing
    BY DEF WaitInv, InHand, At
  <2>2. q # r
    BY <2>1 DEF At, Executing
  <2> QED BY <2>1, <2>2
<1> QED BY InitTypes, NextTypes, KeyInvInit, KeyInvNext, WaitInvNext, <1>1, <1>2, PTL DEF Spec

-----------------------------------------------------------------------------
(* One confirmation, one call.                                             *)

\* The calls a confirmation is spent on: those made, and those about to be.
AboutToRun(r) == req[r].pc \in {"dispatch", "tool"} /\ Tool(r) \in HighImpact
Carriers ==
    {c \in ran : ToolOf(c) \in HighImpact} \cup {Current(r) : r \in {q \in Runs : AboutToRun(q)}}

ShownFor(c) ==
    LET shown == ConfirmationOf[c[1]] IN
    /\ shown \in Confirmations
    /\ <<c[1], ToolOf(c)>> \in Covers[shown]
    /\ CallCost[ToolOf(c)][Cost] <= Ceiling[shown]

Spent(shown) == conf[shown].status = "consumed"

\* Strengthening: peek lets nobody without a confirmation through.
ConfInv ==
    /\ \A c \in Carriers : ShownFor(c) /\ Spent(ConfirmationOf[c[1]])
    /\ \A c, d \in Carriers : ConfirmationOf[c[1]] = ConfirmationOf[d[1]] => c = d
    /\ \A r \in Runs : req[r].pc \in {"reserve", "consume"} /\ Tool(r) \in HighImpact =>
         ConfirmationOf[r] \in Confirmations

\* A step that adds no carrier and takes no confirmation back.
LEMMA ConfInvKept ==
    ASSUME ConfInv, Carriers' \subseteq Carriers,
           \A shown \in Confirmations : Spent(shown) => Spent(shown)',
           NEW r \in Runs, \A q \in Runs \ {r} : req'[q] = req[q],
           req'[r].pc \in {"reserve", "consume"} /\ Tool(r)' \in HighImpact =>
                ConfirmationOf[r] \in Confirmations
    PROVE  ConfInv'
<1>1. \A c \in Carriers' : ShownFor(c) /\ Spent(ConfirmationOf[c[1]])'
  BY DEF ConfInv, ShownFor
<1>2. \A c, d \in Carriers' : ConfirmationOf[c[1]] = ConfirmationOf[d[1]] => c = d
  BY DEF ConfInv
<1>3. ASSUME NEW q \in Runs, req'[q].pc \in {"reserve", "consume"}, Tool(q)' \in HighImpact
      PROVE  ConfirmationOf[q] \in Confirmations
  BY <1>3 DEF ConfInv, Tool, Current
<1> QED BY <1>1, <1>2, <1>3 DEF ConfInv, ShownFor

\* No carrier is added when the thread is not about to run a call afterwards, or was
\* about to run the same call.
LEMMA NoNewCarrier ==
    ASSUME NEW r \in Runs, \A q \in Runs \ {r} : req'[q] = req[q],
           \/ req'[r].pc \notin {"dispatch", "tool"}
           \/ Tool(r)' \notin HighImpact
           \/ req'[r].k = req[r].k /\ req[r].pc \in {"dispatch", "tool"},
           \/ ran' = ran
           \/ req[r].pc \in {"dispatch", "tool"} /\ ran' = ran \cup {Current(r)}
    PROVE  Carriers' \subseteq Carriers
<1> SUFFICES ASSUME NEW c \in Carriers' PROVE c \in Carriers
  OBVIOUS
<1>1. CASE c \in ran' /\ ToolOf(c) \in HighImpact
  <2>1. CASE c \in ran
    BY <1>1, <2>1 DEF Carriers
  <2>2. CASE c = Current(r) /\ req[r].pc \in {"dispatch", "tool"}
    BY <1>1, <2>2 DEF Carriers, AboutToRun, Tool
  <2> QED BY <1>1, <2>1, <2>2
<1>2. ASSUME NEW q \in Runs, AboutToRun(q)', c = Current(q)' PROVE c \in Carriers
  <2>1. CASE q = r
    BY <1>2, <2>1 DEF Carriers, AboutToRun, Tool, Current
  <2>2. CASE q # r
    BY <1>2, <2>2 DEF Carriers, AboutToRun, Tool, Current
  <2> QED BY <2>1, <2>2
<1> QED BY <1>1, <1>2 DEF Carriers

LEMMA ConfInvInit == Init => ConfInv
<1> SUFFICES ASSUME Init PROVE ConfInv
  OBVIOUS
<1>1. ran = {} /\ \A r \in Runs : req[r].pc \in {"new", "never"}
  BY DEF Init
<1> QED BY <1>1 DEF ConfInv, Carriers, AboutToRun

\* The one step that adds a carrier.
LEMMA SpendAdds ==
    ASSUME TInv, ConfInv, NEW r \in Runs, Tool(r) \in HighImpact, At(r, "consume"),
           Spend(r), Goto(r, "dispatch"), UNCHANGED ran
    PROVE  ConfInv'
<1> DEFINE shown == ConfirmationOf[r]
<1>1. /\ \A q \in Runs \ {r} : req'[q] = req[q]
      /\ req'[r].pc = "dispatch" /\ req'[r].k = req[r].k /\ req[r].pc = "consume"
  BY Goes DEF TInv, RequestPc, At
<1>2. /\ Current(r) \in Calls /\ Current(r)[1] = r /\ Tool(r) = ToolOf(Current(r))
  BY <1>1, CurrentIsCall DEF TInv, InCall, Tool
<1>3. shown \in Confirmations
  BY <1>1 DEF ConfInv
<1>4. /\ conf[shown].status = "issued" /\ <<r, Tool(r)>> \in Covers[shown]
      /\ CallCost[Tool(r)][Cost] <= Ceiling[shown]
      /\ conf' = [conf EXCEPT ![shown].status = "consumed"]
  BY DEF Spend, Valid
<1>5. /\ Spent(shown)'
      /\ \A x \in Confirmations : Spent(x) => Spent(x)'
  BY <1>3, <1>4 DEF Spent, TInv, TypeOK
<1>6. ShownFor(Current(r))
  BY <1>2, <1>3, <1>4 DEF ShownFor
<1>7. Carriers' \subseteq Carriers \cup {Current(r)}
  <2> SUFFICES ASSUME NEW c \in Carriers' PROVE c \in Carriers \cup {Current(r)}
    OBVIOUS
  <2>1. CASE c \in ran' /\ ToolOf(c) \in HighImpact
    BY <2>1 DEF Carriers
  <2>2. ASSUME NEW q \in Runs, AboutToRun(q)', c = Current(q)'
        PROVE  c \in Carriers \cup {Current(r)}
    BY <1>1, <2>2 DEF Carriers, AboutToRun, Tool, Current
  <2> QED BY <2>1, <2>2 DEF Carriers
<1>8. \A c \in Carriers : ConfirmationOf[c[1]] # shown
  BY <1>4 DEF ConfInv, Spent
<1>9. \A c \in Carriers' : ShownFor(c) /\ Spent(ConfirmationOf[c[1]])'
  BY <1>2, <1>5, <1>6, <1>7 DEF ConfInv, ShownFor
<1>10. \A c, d \in Carriers' : ConfirmationOf[c[1]] = ConfirmationOf[d[1]] => c = d
  BY <1>2, <1>7, <1>8 DEF ConfInv
<1>11. ASSUME NEW q \in Runs, req'[q].pc \in {"reserve", "consume"}, Tool(q)' \in HighImpact
       PROVE  ConfirmationOf[q] \in Confirmations
  BY <1>1, <1>11 DEF ConfInv, Tool, Current
<1> QED BY <1>9, <1>10, <1>11 DEF ConfInv, ShownFor

\* Where a thread waits, is admitted or ends, it carries nothing.
LEMMA ConfInvOutside ==
    ASSUME TInv, ConfInv, NEW r \in Runs,
           \/ ClaimKey(r) \/ WithoutKey(r) \/ WaitTooLong(r) \/ SettleKey(r) \/ Admit(r)
           \/ Reject(r) \/ Finish(r)
    PROVE  ConfInv'
<1>0. req \in [Runs -> RequestRow] /\ ran' = ran /\ conf' = conf
  BY DEF TInv, RequestsOK, ClaimKey, WithoutKey, WaitTooLong, SettleKey, Admit, Reject, Finish
<1>1. ASSUME \A q \in Runs : \/ req'[q] = req[q]
                             \/ req'[q].pc \notin {"reserve", "consume", "dispatch", "tool"}
      PROVE  ConfInv'
  <2>1. Carriers' \subseteq Carriers
    <3> SUFFICES ASSUME NEW q \in Runs, AboutToRun(q)' PROVE AboutToRun(q) /\ Current(q)' = Current(q)
      BY <1>0 DEF Carriers
    <3> QED BY <1>1 DEF AboutToRun, Tool, Current
  <2>2. \A c \in Carriers' : ShownFor(c) /\ Spent(ConfirmationOf[c[1]])'
    BY <1>0, <2>1 DEF ConfInv, ShownFor, Spent
  <2>3. \A c, d \in Carriers' : ConfirmationOf[c[1]] = ConfirmationOf[d[1]] => c = d
    BY <2>1 DEF ConfInv
  <2>4. ASSUME NEW q \in Runs, req'[q].pc \in {"reserve", "consume"}, Tool(q)' \in HighImpact
        PROVE  ConfirmationOf[q] \in Confirmations
    BY <1>1, <2>4 DEF ConfInv, Tool, Current
  <2> QED BY <2>2, <2>3, <2>4 DEF ConfInv, ShownFor
<1>2. CASE ClaimKey(r)
  <2>1. CASE \E pc \in {"admission", "waiting"} : Goto(r, pc)
    BY <1>0, <1>1, <2>1 DEF Goto, RequestRow
  <2>2. CASE \E result, of : Answered(r, result, of)
    BY <1>0, <1>1, <2>2 DEF Answered, RequestRow
  <2> QED BY <1>2, <2>1, <2>2 DEF ClaimKey, Take
<1>3. CASE WithoutKey(r)
  BY <1>0, <1>1, <1>3 DEF WithoutKey, Goto, RequestRow
<1>4. CASE WaitTooLong(r)
  BY <1>0, <1>1, <1>4 DEF WaitTooLong, Goto, RequestRow
<1>5. CASE SettleKey(r)
  <2> DEFINE ended == [req EXCEPT ![r].pc = "done"]
  <2>1. /\ \A q \in Runs \ {r} : ended[q] = req[q]
        /\ ended[r].pc = "done" /\ ended \in [Runs -> RequestRow]
    BY <1>0 DEF RequestRow, RequestPc
  <2>2. req' = ended \/ req' = Awake(ended)
    BY <1>5 DEF SettleKey
  <2> HIDE DEF ended
  <2>3. CASE req' = ended
    BY <1>1, <2>1, <2>3
  <2>4. CASE req' = Awake(ended)
    <3>1. \A q \in Runs : req'[q] = IF ended[q].pc = "waiting" THEN [ended[q] EXCEPT !.pc = "awake"]
                                  ELSE ended[q]
      BY <2>4 DEF Awake
    <3>2. \A q \in Runs : [ended[q] EXCEPT !.pc = "awake"].pc = "awake"
      BY <2>1 DEF RequestRow
    <3> QED BY <1>1, <2>1, <3>1, <3>2
  <2> QED BY <2>2, <2>3, <2>4
<1>6. CASE Admit(r)
  <2>1. CASE Raises(r)
    BY <1>0, <1>1, <2>1 DEF Raises, RequestRow
  <2>2. CASE req' = [req EXCEPT ![r] =
                 [@ EXCEPT !.epoch = epoch,
                           !.pc = IF Script[r] = <<>> THEN "finish" ELSE "authorise",
                           !.k = IF Script[r] = <<>> THEN 0 ELSE 1]]
    BY <1>0, <1>1, <2>2 DEF RequestRow
  <2> QED BY <1>6, <2>1, <2>2 DEF Admit
<1>7. CASE Reject(r)
  <2>1. Goto(r, "finish") \/ Raises(r)
    BY <1>7 DEF Reject
  <2> QED BY <1>0, <1>1, <2>1 DEF Raises, Goto, RequestRow
<1>8. CASE Finish(r)
  <2>1. \E result : req' = [req EXCEPT ![r].pc = "settle", ![r].result = result]
    BY <1>8 DEF Finish, Raises
  <2> QED BY <1>0, <1>1, <2>1 DEF RequestRow
<1> QED BY <1>2, <1>3, <1>4, <1>5, <1>6, <1>7, <1>8

LEMMA ConfInvCall ==
    ASSUME TInv, ConfInv, NEW r \in Runs,
           Authorise(r) \/ Reserve(r) \/ Consume(r) \/ Dispatch(r) \/ CallTool(r) \/ Report(r)
    PROVE  ConfInv'
<1>0. RequestsOK /\ \A q \in Runs \ {r} : req'[q] = req[q]
  BY Inside DEF TInv
<1>1. ASSUME \E result \in Results, code \in {"policy", "other"} :
                 CallFails(r, result, code) \/ CallSucceeds(r) \/ Raises(r),
             ran' = ran, \A shown \in Confirmations : Spent(shown) => Spent(shown)'
      PROVE  ConfInv'
  <2>1. req'[r].pc \in {"authorise", "finish", "reject", "settle"}
    BY <1>0, <1>1, CallEnds
  <2>2. Carriers' \subseteq Carriers
    BY <1>0, <1>1, <2>1, NoNewCarrier
  <2> QED BY <1>0, <1>1, <2>1, <2>2, ConfInvKept
<1>2. /\ \A result \in {"denied", "reconciliation_required"} : result \in Results
      /\ "policy" \in {"policy", "other"} /\ "other" \in {"policy", "other"}
  BY DEF Results
<1>3. CASE Authorise(r)
  <2>1. ran' = ran /\ conf' = conf /\ req[r].pc = "authorise"
    BY <1>3 DEF Authorise, At
  <2>2. CASE CallFails(r, "denied", "policy") \/ Raises(r)
    BY <1>1, <1>2, <2>1, <2>2 DEF Spent
  <2>3. CASE Goto(r, "reserve") /\ ~CallFails(r, "denied", "policy")
    <3>1. req'[r].pc = "reserve" /\ req'[r].k = req[r].k
      BY <1>0, <2>3, Goes DEF RequestPc
    <3>2. Tool(r)' = Tool(r)
      BY <3>1 DEF Tool, Current
    <3>3. Tool(r) \in HighImpact => ConfirmationOf[r] \in Confirmations
      BY <1>3, <2>2, <2>3, ToolExecutionAssumption DEF Authorise, Raises, Goto
    <3>4. Carriers' \subseteq Carriers
      BY <1>0, <2>1, <3>1, NoNewCarrier
    <3> QED BY <1>0, <2>1, <3>2, <3>3, <3>4, ConfInvKept DEF Spent
  <2> QED BY <1>3, <2>2, <2>3 DEF Authorise
<1>4. CASE Reserve(r)
  <2>1. ran' = ran /\ conf' = conf /\ req[r].pc = "reserve"
    BY <1>4 DEF Reserve, At
  <2>2. CASE CallFails(r, "denied", "other")
    BY <1>1, <1>2, <2>1, <2>2 DEF Spent
  <2>3. CASE Goto(r, IF Tool(r) \in HighImpact THEN "consume" ELSE "dispatch")
    <3>1. /\ req'[r].pc = (IF Tool(r) \in HighImpact THEN "consume" ELSE "dispatch")
          /\ req'[r].k = req[r].k
      BY <1>0, <2>3, Goes DEF RequestPc
    <3>2. Tool(r)' = Tool(r)
      BY <3>1 DEF Tool, Current
    <3>3. Carriers' \subseteq Carriers
      BY <1>0, <2>1, <3>1, <3>2, NoNewCarrier
    <3>4. Tool(r) \in HighImpact => ConfirmationOf[r] \in Confirmations
      BY <2>1 DEF ConfInv
    <3> QED BY <1>0, <2>1, <3>2, <3>3, <3>4, ConfInvKept DEF Spent
  <2> QED BY <1>4, <2>2, <2>3 DEF Reserve
<1>5. CASE Consume(r)
  <2>1. ran' = ran /\ At(r, "consume") /\ conf \in [Confirmations -> [status : {"none", "issued", "consumed"}, live : BOOLEAN]]
    BY <1>5 DEF Consume, TInv, TypeOK
  <2>2. Spend(r) \/ conf' = conf => \A shown \in Confirmations : Spent(shown) => Spent(shown)'
    BY <2>1 DEF Spend, Spent
  <2>3. CASE CallFails(r, "denied", "other") \/ CallFails(r, "denied", "policy") \/ Raises(r)
    BY <1>1, <1>2, <1>5, <2>1, <2>2, <2>3 DEF Consume
  <2>4. CASE Spend(r) /\ Goto(r, "dispatch")
    <3>1. CASE Tool(r) \in HighImpact
      BY <2>1, <2>4, <3>1, SpendAdds
    <3>2. CASE Tool(r) \notin HighImpact
      <4>1. req'[r].k = req[r].k /\ req'[r].pc = "dispatch"
        BY <1>0, <2>4, Goes DEF RequestPc
      <4>2. Tool(r)' \notin HighImpact
        BY <3>2, <4>1 DEF Tool, Current
      <4>3. Carriers' \subseteq Carriers
        BY <1>0, <2>1, <4>2, NoNewCarrier
      <4> QED BY <1>0, <2>2, <2>4, <4>2, <4>3, ConfInvKept
    <3> QED BY <3>1, <3>2
  <2> QED BY <1>5, <2>3, <2>4 DEF Consume
<1>6. CASE Dispatch(r)
  <2>1. ran' = ran /\ conf' = conf /\ req[r].pc = "dispatch"
    BY <1>6 DEF Dispatch, At
  <2>2. CASE CallFails(r, "denied", "other") \/ Raises(r)
    BY <1>1, <1>2, <2>1, <2>2 DEF Spent
  <2>3. CASE Goto(r, "tool")
    <3>1. req'[r].pc = "tool" /\ req'[r].k = req[r].k
      BY <1>0, <2>3, Goes DEF RequestPc
    <3>2. Carriers' \subseteq Carriers
      BY <1>0, <2>1, <3>1, NoNewCarrier
    <3> QED BY <1>0, <2>1, <3>1, <3>2, ConfInvKept DEF Spent
  <2> QED BY <1>6, <2>2, <2>3 DEF Dispatch
<1>7. CASE CallTool(r)
  <2>1. /\ req'[r].pc = "report" /\ req[r].pc = "tool"
        /\ ran' = ran \cup {Current(r)} /\ conf' = conf
    BY <1>0, <1>7, Goes DEF CallTool, At, RequestPc
  <2>2. Carriers' \subseteq Carriers
    BY <1>0, <2>1, NoNewCarrier
  <2> QED BY <1>0, <2>1, <2>2, ConfInvKept DEF Spent
<1>8. CASE Report(r)
  <2>1. ran' = ran /\ conf' = conf
    BY <1>8 DEF Report
  <2>2. \E result \in {"denied", "reconciliation_required"} :
          CallFails(r, result, "other") \/ CallSucceeds(r) \/ Raises(r)
    BY <1>8 DEF Report
  <2> QED BY <1>1, <1>2, <2>1, <2>2 DEF Spent
<1> QED BY <1>3, <1>4, <1>5, <1>6, <1>7, <1>8

LEMMA ConfInvNext == TInv /\ ConfInv /\ [Next]_vars => ConfInv'
<1> SUFFICES ASSUME TInv, ConfInv, [Next]_vars PROVE ConfInv'
  OBVIOUS
<1>1. ASSUME UNCHANGED <<req, entry, ran>>,
             \A shown \in Confirmations : Spent(shown) => Spent(shown)'
      PROVE  ConfInv'
  <2>1. Carriers' = Carriers
    BY <1>1 DEF Carriers, AboutToRun, Tool, Current
  <2>2. \A c \in Carriers' : ShownFor(c) /\ Spent(ConfirmationOf[c[1]])'
    BY <1>1, <2>1 DEF ConfInv, ShownFor
  <2> QED BY <1>1, <2>1, <2>2 DEF ConfInv, ShownFor, Tool, Current
<1>2. ASSUME \/ \E c \in Confirmations : Confirm(c) \/ Expire(c)
             \/ \E i \in LogicalIds : Reconcile(i)
             \/ \E up \in BOOLEAN : SetAvailable(up)
             \/ RevokeAll
             \/ UNCHANGED vars
      PROVE  ConfInv'
  <2>1. UNCHANGED <<req, entry, ran>>
    BY <1>2, AroundRequests
  <2>2. conf \in [Confirmations -> [status : {"none", "issued", "consumed"}, live : BOOLEAN]]
    BY DEF TInv, TypeOK
  <2>3. \A shown \in Confirmations : Spent(shown) => Spent(shown)'
    <3>1. ASSUME NEW c \in Confirmations, Confirm(c) \/ Expire(c)
          PROVE  \A shown \in Confirmations : Spent(shown) => Spent(shown)'
      BY <2>2, <3>1 DEF Confirm, Expire, Spent
    <3>2. ASSUME UNCHANGED conf
          PROVE  \A shown \in Confirmations : Spent(shown) => Spent(shown)'
      BY <3>2 DEF Spent
    <3> QED BY <1>2, <3>1, <3>2 DEF Reconcile, SetAvailable, RevokeAll, vars
  <2> QED BY <1>1, <2>1, <2>3
<1> QED BY <1>2, ConfInvOutside, ConfInvCall DEF Next, RequestStep

\* A high-impact tool runs only on a confirmation that was shown for that call at that
\* cost, and no confirmation carries two calls, of whatever requests: although peek, the
\* ceiling check, the reservation and the consumption are separate steps.
THEOREM ConfirmedCallsOnce == Spec => []ConfirmedOnce
<1>1. ConfInv => ConfirmedOnce
  <2> SUFFICES ASSUME ConfInv, NEW c \in ran, ToolOf(c) \in HighImpact
               PROVE  LET shown == ConfirmationOf[c[1]] IN
                      /\ shown # NoConfirmation
                      /\ <<c[1], ToolOf(c)>> \in Covers[shown]
                      /\ CallCost[ToolOf(c)][Cost] <= Ceiling[shown]
                      /\ conf[shown].status = "consumed"
                      /\ \A other \in ran :
                           ToolOf(other) \in HighImpact /\ ConfirmationOf[other[1]] = shown => other = c
    BY DEF ConfirmedOnce
  <2>1. c \in Carriers /\ \A other \in ran : ToolOf(other) \in HighImpact => other \in Carriers
    BY DEF Carriers
  <2>2. ShownFor(c) /\ Spent(ConfirmationOf[c[1]])
    BY <2>1 DEF ConfInv
  <2>3. NoConfirmation \notin Confirmations
    BY ToolExecutionAssumption
  <2>4. \A other \in ran :
          ToolOf(other) \in HighImpact /\ ConfirmationOf[other[1]] = ConfirmationOf[c[1]] => other = c
    BY <2>1 DEF ConfInv
  <2> QED BY <2>2, <2>3, <2>4 DEF ShownFor, Spent
<1> QED BY InitTypes, NextTypes, ConfInvInit, ConfInvNext, <1>1, PTL DEF Spec

-----------------------------------------------------------------------------
(* What the ledger books: no call that was made is forgotten, the grant of  *)
(* an answered interaction comes back, and every account is the sum of its  *)
(* reservations and never overdrawn.                                        *)

St(id) == ledger.reservation[id].state
StateIn(l, id) == l.reservation[id].state

Before == {"never", "new", "waiting", "awake", "late", "admission"}
Started == InCall \cup {"reject", "finish"}
Booked == {"consume", "dispatch", "tool", "report"}

Unknown(r, j) == <<r, j>> \in Calls /\ action[<<r, j>>] = "unknown"

\* Strengthening, request by request.  Before it is admitted nothing is booked for it.
NotYet(r) ==
    req[r].pc \in Before =>
        /\ \A d \in Dims : St(Grant(r, d)) = "none"
        /\ \A j \in 1..MaxCalls, d \in Dims : St(CallOf(r, j, d)) \notin Unsettled
        /\ \A j \in 1..MaxCalls : <<r, j>> \notin ran

\* While it runs its grant is held, and what is open is of the current call or of one
\* whose outcome nobody knows.
Running(r) ==
    req[r].pc \in Started =>
        /\ \A d \in Dims : St(Grant(r, d)) = "held"
        /\ \A j \in 1..MaxCalls, d \in Dims : St(CallOf(r, j, d)) \in Unsettled =>
             Unknown(r, j) \/ (j = req[r].k /\ req[r].pc \in Booked)

InCallBooks(r) ==
    /\ req[r].pc \in {"consume", "dispatch"} =>
         /\ \A d \in Dims : St(CallOf(r, req[r].k, d)) = "held"
         /\ action[Current(r)] = "planned"
    /\ req[r].pc = "tool" =>
         /\ Current(r) \in intents /\ action[Current(r)] = "dispatched"
         /\ St(CallOf(r, req[r].k, Cost)) = "in_flight"
         /\ St(CallOf(r, req[r].k, Counter)) = "held"
    /\ req[r].pc = "report" =>
         /\ St(CallOf(r, req[r].k, Counter)) = "held"
         /\ \/ St(CallOf(r, req[r].k, Cost)) = "settled"
            \/ St(CallOf(r, req[r].k, Cost)) = "in_flight" /\ action[Current(r)] = "unknown"

Returned(r) ==
    \/ \A d \in Dims : St(Grant(r, d)) \in {"none", "settled"}
    \/ \E c \in Calls : c[1] = r /\ action[c] = "unknown"

Answer(r) == req[r].pc \in {"settle", "done"} /\ req[r].result # "raised" => Returned(r)

Ran(r) ==
    \A j \in 1..MaxCalls : <<r, j>> \in ran =>
        /\ j <= req[r].k
        /\ req[r].pc \in {"authorise", "reserve", "consume", "dispatch", "tool"} => j # req[r].k
        /\ <<r, j>> \in intents
        /\ \/ St(CallOf(r, j, Cost)) = "settled"
           \/ /\ St(CallOf(r, j, Cost)) = "in_flight"
              /\ action[<<r, j>>] = "unknown"
              /\ St(Grant(r, Cost)) = "held"

BooksOf(r) == NotYet(r) /\ Running(r) /\ InCallBooks(r) /\ Answer(r) /\ Ran(r)
LInv == \A r \in Runs : BooksOf(r)

-----------------------------------------------------------------------------
(* What the operations of the ledger do to the state of a reservation.     *)

LEMMA IdParts ==
    /\ \A r, k, d : CallOf(r, k, d).to = r /\ CallOf(r, k, d).call = k /\ CallOf(r, k, d).dim = d
    /\ \A a, d : Grant(a, d).to = a /\ Grant(a, d).call = 0 /\ Grant(a, d).dim = d
    /\ \A r, q, k, j, d, e :
         CallOf(r, k, d) = CallOf(q, j, e) <=> r = q /\ k = j /\ d = e
    /\ \A id \in Reservations :
         /\ id.to \in Projects \cup Runs
         /\ id.call = 0 \/ (id.to \in Runs /\ id.call \in 1..MaxCalls)
         /\ id.call = 0 => id = Grant(id.to, id.dim)
         /\ id.call # 0 => id = CallOf(id.to, id.call, id.dim)
  BY BudgetTreeAssumption DEF CallOf, Grant, Reservations

LEMMA OpenStates ==
    ASSUME NEW l \in Ledgers, NEW a, NEW limits, NEW kept, NEW id \in Reservations
    PROVE  StateIn(OpenAccount(l, a, limits, kept), id) = StateIn(l, id)
  BY DEF OpenAccount, StateIn, Ledgers

LEMMA ReserveStates ==
    ASSUME NEW l \in Ledgers, NEW a, NEW to, NEW k, NEW amounts, NEW id \in Reservations
    PROVE  StateIn(BatchReserve(l, a, to, k, amounts), id) =
             IF id.to = to /\ id.call = k THEN "held" ELSE StateIn(l, id)
  BY DEF BatchReserve, Book, HeldFor, StateIn

LEMMA GrantStates ==
    ASSUME NEW l \in Ledgers, NEW a \in Projects \cup Runs, NEW amounts \in [Dims -> Nat],
           NEW id \in Reservations
    PROVE  StateIn(GrantToChild(l, a, amounts), id) =
             IF id.to = a /\ id.call = 0 THEN "held" ELSE StateIn(l, id)
<1>1. Parent(a) \in Accounts
  BY Ids
<1>2. BatchReserve(l, Parent(a), a, 0, amounts) \in Ledgers
  BY <1>1, BatchReserveType
<1> QED BY <1>2, OpenStates, ReserveStates DEF GrantToChild

LEMMA MarkStates ==
    ASSUME NEW l \in Ledgers, NEW at \in Reservations, NEW id \in Reservations
    PROVE  StateIn(MarkInFlight(l, at), id) = IF id = at THEN "in_flight" ELSE StateIn(l, id)
<1>1. MarkInFlight(l, at) = [account |-> l.account, reservation |->
        [l.reservation EXCEPT ![at] = [@ EXCEPT !.state = "in_flight"]]]
  BY LedgerParts DEF MarkInFlight
<1>2. l.reservation \in [Reservations -> Reservation]
  BY DEF Ledgers
<1> QED BY <1>1, <1>2 DEF StateIn, Reservation

LEMMA SettleStates ==
    ASSUME NEW l \in Ledgers, NEW at \in Reservations, NEW actual, NEW id \in Reservations
    PROVE  StateIn(Settle(l, at, actual), id) = IF id = at THEN "settled" ELSE StateIn(l, id)
<1>1. l.reservation \in [Reservations -> Reservation]
  BY DEF Ledgers
<1>2. Settle(l, at, actual).reservation =
        [l.reservation EXCEPT ![at] = [@ EXCEPT !.state = "settled", !.consumed = actual]]
  BY DEF Settle, Book
<1> QED BY <1>1, <1>2 DEF StateIn, Reservation

LEMMA ReleaseStates ==
    ASSUME NEW l \in Ledgers, NEW r, NEW k, NEW id \in Reservations
    PROVE  StateIn(ReleaseQuietly(l, r, k), id) =
             IF id.to = r /\ id.call = k /\ StateIn(l, id) = "held" THEN "released"
             ELSE StateIn(l, id)
<1>1. l.reservation[id] \in Reservation
  BY DEF Ledgers
<1>2. ReleaseQuietly(l, r, k).reservation[id] =
        IF id.to = r /\ id.call = k /\ Releasable(l, id)
        THEN [l.reservation[id] EXCEPT !.state = "released"]
        ELSE l.reservation[id]
  BY DEF ReleaseQuietly, Book
<1> QED BY <1>1, <1>2 DEF StateIn, Reservation, Releasable

LEMMA CloseStates ==
    ASSUME NEW l \in Ledgers, NEW r, NEW id \in Reservations
    PROVE  StateIn(CloseAccount(l, r), id) =
             IF id.to = r /\ id.call = 0 THEN "settled" ELSE StateIn(l, id)
<1>1. l.reservation[id] \in Reservation
  BY DEF Ledgers
<1>2. CloseAccount(l, r).reservation[id] =
        IF id.to = r /\ id.call = 0
        THEN [l.reservation[id] EXCEPT
                !.state = "settled", !.consumed = l.account[r].consumed[id.dim]]
        ELSE l.reservation[id]
  BY DEF CloseAccount, Book, GrantSettled
<1> QED BY <1>1, <1>2 DEF StateIn, Reservation

-----------------------------------------------------------------------------
(* The frame: what is booked for one request does not depend on another.   *)

LEMMA MyIds ==
    ASSUME NEW r \in Runs
    PROVE  /\ \A d \in Dims : Grant(r, d) \in Reservations
           /\ \A j \in 1..MaxCalls, d \in Dims : CallOf(r, j, d) \in Reservations
           /\ \A j \in 1..MaxCalls : j # 0
           /\ Counter \in Dims /\ Cost \in Dims /\ Counter # Cost
<1>1. \A j \in 1..MaxCalls : j # 0
  BY BudgetTreeAssumption
<1> QED BY <1>1, Ids, ToolExecutionAssumption

LEMMA RanAreCalls ==
    ASSUME TInv, TInv'
    PROVE  \A r, j : <<r, j>> \in ran \cup ran' => <<r, j>> \in Calls
  BY DEF TInv, TypeOK

\* The thread did not move, or only among the places before its admission; and its books
\* are the same, but for a settlement of what is unknown.
LEMMA BooksKept ==
    ASSUME TInv, TInv', NEW r \in Runs, BooksOf(r),
           \/ req'[r] = req[r]
           \/ req[r].pc \in Before /\ req'[r].pc \in Before,
           \A d \in Dims : St(Grant(r, d))' = St(Grant(r, d)),
           \A j \in 1..MaxCalls, d \in Dims :
               \/ St(CallOf(r, j, d))' = St(CallOf(r, j, d))
               \/ d = Cost /\ St(CallOf(r, j, d))' = "settled" /\ Unknown(r, j),
           \A c \in Calls : c[1] = r => action'[c] = action[c],
           \A c \in Calls : c[1] = r => (c \in ran' <=> c \in ran),
           intents \subseteq intents'
    PROVE  BooksOf(r)'
<1>0. /\ Cost \in Dims /\ Counter \in Dims /\ Cost # Counter
      /\ \A j \in 1..MaxCalls : <<r, j>> \in ran <=> <<r, j>> \in ran'
      /\ \A j \in 1..MaxCalls : Unknown(r, j)' <=> Unknown(r, j)
      /\ Unsettled = {"held", "in_flight"}
  BY RanAreCalls, MyIds DEF Unknown, Unsettled
<1>1. NotYet(r)'
  BY <1>0 DEF BooksOf, NotYet, Before
<1>2. CASE req[r].pc \in Before /\ req'[r].pc \in Before
  <2>1. /\ req'[r].pc \notin Started /\ req'[r].pc \notin {"settle", "done"}
        /\ req'[r].pc \notin {"consume", "dispatch", "tool", "report"}
    BY <1>2 DEF Before, Started, InCall
  <2>2. \A j \in 1..MaxCalls : <<r, j>> \notin ran'
    BY <1>0, <1>2 DEF BooksOf, NotYet
  <2> QED BY <1>1, <2>1, <2>2 DEF BooksOf, Running, InCallBooks, Answer, Ran
<1>3. CASE req'[r] = req[r]
  <2>1. Running(r)'
    BY <1>0, <1>3 DEF BooksOf, Running
  <2>2. ASSUME req[r].pc \in InCall
        PROVE  /\ Current(r)' = Current(r) /\ Current(r) \in Calls
               /\ Current(r)[1] = r /\ req[r].k \in 1..MaxCalls
               /\ Unknown(r, req[r].k) <=> action[Current(r)] = "unknown"
               /\ action'[Current(r)] = action[Current(r)]
    BY <1>3, <2>2, CurrentIsCall DEF TInv, Current, Unknown
  <2>3. InCallBooks(r)'
    <3>1. CASE req[r].pc \in {"consume", "dispatch"}
      <4>1. req[r].pc \in InCall /\ req[r].pc \in Started /\ req[r].pc \notin {"tool", "report"}
        BY <3>1 DEF InCall, Started
      <4>2. ASSUME NEW d \in Dims PROVE St(CallOf(r, req[r].k, d))' = "held"
        <5>1. req[r].k \in 1..MaxCalls /\ ~Unknown(r, req[r].k)
          BY <2>2, <3>1, <4>1 DEF BooksOf, InCallBooks
        <5>2. St(CallOf(r, req[r].k, d))' = St(CallOf(r, req[r].k, d))
          <6>1. \A k \in 1..MaxCalls : req'[r].k = k /\ req[r].k = k =>
                  (CallOf(r, req[r].k, d) = CallOf(r, k, d))
            OBVIOUS
          <6> QED BY <5>1, <1>3
        <5> QED BY <3>1, <5>2 DEF BooksOf, InCallBooks
      <4>3. action'[Current(r)'] = "planned"
        BY <2>2, <3>1, <4>1 DEF BooksOf, InCallBooks
      <4> QED BY <1>3, <4>1, <4>2, <4>3 DEF InCallBooks
    <3>2. CASE req[r].pc = "tool"
      BY <1>0, <1>3, <2>2, <3>2 DEF BooksOf, InCallBooks, InCall
    <3>3. CASE req[r].pc = "report"
      BY <1>0, <1>3, <2>2, <3>3 DEF BooksOf, InCallBooks, InCall
    <3> QED BY <1>3, <3>1, <3>2, <3>3 DEF InCallBooks
  <2>4. Answer(r)'
    BY <1>3 DEF BooksOf, Answer, Returned
  <2>5. Ran(r)'
    BY <1>0, <1>3, RanAreCalls DEF BooksOf, Ran, Unknown
  <2> QED BY <1>1, <2>1, <2>3, <2>4, <2>5 DEF BooksOf
<1> QED BY <1>2, <1>3

-----------------------------------------------------------------------------
(* The steps of the thread itself.                                         *)

\* A call ended.  If the thread goes on, nothing of the call is open unless its outcome is
\* unknown; what ran stays booked as it was.
LEMMA Ended ==
    ASSUME TInv, TInv', NEW r \in Runs, BooksOf(r), req[r].pc \in InCall,
           UNCHANGED <<action, ran>>, intents \subseteq intents',
           \/ req'[r].pc = "authorise" /\ req'[r].k = req[r].k + 1
           \/ req'[r].pc \in {"finish", "reject"} /\ req'[r].k = req[r].k
           \/ req'[r].pc = "settle" /\ req'[r].k = req[r].k /\ req'[r].result = "raised",
           \A d \in Dims : St(Grant(r, d))' = St(Grant(r, d)),
           \A j \in (1..MaxCalls) \ {req[r].k}, d \in Dims :
               St(CallOf(r, j, d))' = St(CallOf(r, j, d)),
           req'[r].pc # "settle" =>
               \A d \in Dims : \A k \in {req[r].k} :
                   St(CallOf(r, k, d))' \in Unsettled => Unknown(r, k),
           \A k \in {req[r].k} : <<r, k>> \in ran =>
               St(CallOf(r, k, Cost))' = St(CallOf(r, k, Cost))
    PROVE  BooksOf(r)'
<1>0. /\ req[r].k \in 1..MaxCalls /\ req[r].k \in Nat /\ Cost \in Dims /\ MaxCalls \in Nat
      /\ req'[r].pc \notin Before /\ req'[r].pc \notin Booked
      /\ req[r].pc \in Started
  BY CurrentIsCall, MyIds, BudgetTreeAssumption DEF TInv, Before, Booked, InCall, Started
<1>1. NotYet(r)'
  BY <1>0 DEF NotYet
<1>2. Running(r)'
  <2> SUFFICES ASSUME req'[r].pc \in Started
               PROVE  /\ \A d \in Dims : St(Grant(r, d))' = "held"
                      /\ \A j \in 1..MaxCalls, d \in Dims :
                           St(CallOf(r, j, d))' \in Unsettled => Unknown(r, j)'
    BY DEF Running
  <2>1. req'[r].pc # "settle"
    BY DEF Started, InCall
  <2>2. \A d \in Dims : St(Grant(r, d))' = "held"
    BY <1>0 DEF BooksOf, Running
  <2>3. ASSUME NEW j \in 1..MaxCalls, NEW d \in Dims, St(CallOf(r, j, d))' \in Unsettled
        PROVE  Unknown(r, j)
    <3>1. CASE j = req[r].k
      BY <2>1, <2>3, <3>1
    <3>2. CASE j # req[r].k
      BY <1>0, <2>3, <3>2 DEF BooksOf, Running
    <3> QED BY <3>1, <3>2
  <2>4. \A j : Unknown(r, j)' <=> Unknown(r, j)
    BY DEF Unknown
  <2> QED BY <2>2, <2>3, <2>4
<1>3. InCallBooks(r)'
  BY <1>0 DEF InCallBooks, Booked
<1>4. Answer(r)'
  BY DEF Answer
<1>5. Ran(r)'
  <2> SUFFICES ASSUME NEW j \in 1..MaxCalls, <<r, j>> \in ran
               PROVE  /\ j <= req'[r].k
                      /\ req'[r].pc \in {"authorise", "reserve", "consume", "dispatch", "tool"}
                           => j # req'[r].k
                      /\ <<r, j>> \in intents'
                      /\ \/ St(CallOf(r, j, Cost))' = "settled"
                         \/ /\ St(CallOf(r, j, Cost))' = "in_flight"
                            /\ action'[<<r, j>>] = "unknown"
                            /\ St(Grant(r, Cost))' = "held"
    BY DEF Ran
  <2>1. /\ j <= req[r].k /\ <<r, j>> \in intents
        /\ \/ St(CallOf(r, j, Cost)) = "settled"
           \/ /\ St(CallOf(r, j, Cost)) = "in_flight"
              /\ action[<<r, j>>] = "unknown"
              /\ St(Grant(r, Cost)) = "held"
    BY DEF BooksOf, Ran
  <2>2. j <= req'[r].k /\ (req'[r].pc = "authorise" => j # req'[r].k)
    BY <1>0, <2>1
  <2>3. St(CallOf(r, j, Cost))' = St(CallOf(r, j, Cost)) /\ St(Grant(r, Cost))' = St(Grant(r, Cost))
    <3>1. CASE j = req[r].k
      BY <1>0, <3>1
    <3>2. CASE j # req[r].k
      BY <1>0, <3>2
    <3> QED BY <1>0, <3>1, <3>2
  <2> QED BY <2>1, <2>2, <2>3
<1> QED BY <1>1, <1>2, <1>3, <1>4, <1>5 DEF BooksOf

\* The thread goes on within a call.
LEMMA Moved ==
    ASSUME TInv, TInv', NEW r \in Runs, BooksOf(r), req[r].pc \in InCall,
           req'[r].pc \in InCall \ {"authorise"}, req'[r].k = req[r].k,
           intents \subseteq intents',
           \A j \in (1..MaxCalls) \ {req[r].k} :
               /\ <<r, j>> \in Calls => action'[<<r, j>>] = action[<<r, j>>]
               /\ <<r, j>> \in ran' => <<r, j>> \in ran,
           \A d \in Dims : St(Grant(r, d))' = St(Grant(r, d)),
           \A j \in (1..MaxCalls) \ {req[r].k}, d \in Dims :
               St(CallOf(r, j, d))' = St(CallOf(r, j, d)),
           \A k \in {req[r].k} :
               /\ <<r, k>> \in ran' =>
                    /\ req'[r].pc = "report" /\ <<r, k>> \in intents'
                    /\ \/ St(CallOf(r, k, Cost))' = "settled"
                       \/ St(CallOf(r, k, Cost))' = "in_flight" /\ action'[<<r, k>>] = "unknown"
               /\ req'[r].pc = "reserve" =>
                    \A d \in Dims : St(CallOf(r, k, d))' \in Unsettled => Unknown(r, k)',
           InCallBooks(r)'
    PROVE  BooksOf(r)'
<1>0. /\ req[r].k \in 1..MaxCalls /\ Cost \in Dims
      /\ req'[r].pc \notin Before /\ req[r].pc \in Started /\ req'[r].pc \in Started
      /\ req'[r].pc # "reserve" => req'[r].pc \in Booked
      /\ req'[r].pc \notin {"settle", "done"}
      /\ \A d \in Dims : St(Grant(r, d)) = "held"
  <2>1. req[r].pc \in Started
    BY DEF Started
  <2>2. \A d \in Dims : St(Grant(r, d)) = "held"
    BY <2>1 DEF BooksOf, Running
  <2> QED BY <2>1, <2>2, CurrentIsCall, MyIds DEF TInv, Before, Booked, InCall, Started
<1>1. NotYet(r)' /\ Answer(r)'
  BY <1>0 DEF NotYet, Answer
<1>2. Running(r)'
  <2>1. ASSUME NEW j \in 1..MaxCalls, NEW d \in Dims, St(CallOf(r, j, d))' \in Unsettled
        PROVE  Unknown(r, j)' \/ (j = req'[r].k /\ req'[r].pc \in Booked)
    <3>1. CASE j = req[r].k
      BY <1>0, <2>1, <3>1
    <3>2. CASE j # req[r].k
      BY <1>0, <2>1, <3>2 DEF BooksOf, Running, Unknown
    <3> QED BY <3>1, <3>2
  <2> QED BY <1>0, <2>1 DEF Running
<1>3. Ran(r)'
  <2> SUFFICES ASSUME NEW j \in 1..MaxCalls, <<r, j>> \in ran'
               PROVE  /\ j <= req'[r].k
                      /\ req'[r].pc \in {"authorise", "reserve", "consume", "dispatch", "tool"}
                           => j # req'[r].k
                      /\ <<r, j>> \in intents'
                      /\ \/ St(CallOf(r, j, Cost))' = "settled"
                         \/ /\ St(CallOf(r, j, Cost))' = "in_flight"
                            /\ action'[<<r, j>>] = "unknown"
                            /\ St(Grant(r, Cost))' = "held"
    BY DEF Ran
  <2>1. CASE j = req[r].k
    BY <1>0, <2>1
  <2>2. CASE j # req[r].k
    <3>1. <<r, j>> \in ran /\ <<r, j>> \in Calls
      BY <2>2, RanAreCalls
    <3>2. St(CallOf(r, j, Cost))' = St(CallOf(r, j, Cost)) /\ action'[<<r, j>>] = action[<<r, j>>]
      BY <1>0, <2>2, <3>1
    <3> QED BY <1>0, <2>2, <3>1, <3>2 DEF BooksOf, Ran
  <2> QED BY <2>1, <2>2
<1> QED BY <1>1, <1>2, <1>3 DEF BooksOf

\* Where a call stands.
LEMMA InTheCall ==
    ASSUME TInv, NEW r \in Runs, req[r].pc \in InCall
    PROVE  /\ req[r].k \in 1..MaxCalls /\ Current(r) = <<r, req[r].k>> /\ Current(r) \in Calls
           /\ ledger \in Ledgers /\ RequestsOK
           /\ CallCost[Tool(r)] \in [Dims -> Nat]
  BY CurrentIsCall, Parts, ToolExecutionAssumption DEF Current, TInv

LEMMA AuthoriseBooks ==
    ASSUME TInv, TInv', NEW r \in Runs, BooksOf(r), Authorise(r)
    PROVE  BooksOf(r)'
<1>1. /\ req[r].pc = "authorise" /\ req[r].pc \in InCall /\ req[r].pc \in Started
      /\ UNCHANGED <<action, ledger, intents, ran>>
      /\ "policy" \in {"policy", "other"} /\ "denied" \in Results
  BY DEF Authorise, At, InCall, Started, Results
<1>2. req[r].k \in 1..MaxCalls /\ RequestsOK
  BY <1>1, InTheCall
<1>3. \A d \in Dims : St(CallOf(r, req[r].k, d)) \in Unsettled => Unknown(r, req[r].k)
  BY <1>1, <1>2 DEF BooksOf, Running, Booked
<1>4. CASE CallFails(r, "denied", "policy") \/ Raises(r)
  <2>1. \/ req'[r].pc = "authorise" /\ req'[r].k = req[r].k + 1
        \/ req'[r].pc \in {"finish", "reject"} /\ req'[r].k = req[r].k
        \/ req'[r].pc = "settle" /\ req'[r].k = req[r].k /\ req'[r].result = "raised"
    BY <1>1, <1>2, <1>4, CallEnds
  <2>2. \A id : St(id)' = St(id)
    BY <1>1 DEF St
  <2> QED BY <1>1, <1>3, <2>1, <2>2, Ended
<1>5. CASE Goto(r, "reserve")
  <2>1. req'[r].pc = "reserve" /\ req'[r].k = req[r].k /\ req'[r].pc \in InCall \ {"authorise"}
    BY <1>2, <1>5, Goes DEF RequestPc, InCall
  <2>2. /\ \A id : St(id)' = St(id)
        /\ \A j : Unknown(r, j)' <=> Unknown(r, j)
    BY <1>1 DEF St, Unknown
  <2>3. <<r, req[r].k>> \notin ran
    BY <1>1, <1>2 DEF BooksOf, Ran
  <2>4. InCallBooks(r)'
    BY <2>1 DEF InCallBooks
  <2> QED BY <1>1, <1>3, <2>1, <2>2, <2>3, <2>4, Moved
<1> QED BY <1>4, <1>5 DEF Authorise

LEMMA ReserveBooks ==
    ASSUME TInv, TInv', NEW r \in Runs, BooksOf(r), Reserve(r)
    PROVE  BooksOf(r)'
<1>1. /\ req[r].pc = "reserve" /\ req[r].pc \in InCall /\ req[r].pc \in Started
      /\ UNCHANGED <<intents, ran>>
      /\ "other" \in {"policy", "other"} /\ "denied" \in Results
  BY DEF Reserve, At, InCall, Started, Results
<1>2. /\ req[r].k \in 1..MaxCalls /\ RequestsOK /\ ledger \in Ledgers
      /\ Current(r) = <<r, req[r].k>> /\ Current(r) \in Calls
  BY <1>1, InTheCall
<1>3. <<r, req[r].k>> \notin ran
  BY <1>1, <1>2 DEF BooksOf, Ran
<1>4. CASE CallFails(r, "denied", "other") /\ UNCHANGED <<ledger, action, listed>>
  <2>1. \/ req'[r].pc = "authorise" /\ req'[r].k = req[r].k + 1
        \/ req'[r].pc \in {"finish", "reject"} /\ req'[r].k = req[r].k
        \/ req'[r].pc = "settle" /\ req'[r].k = req[r].k /\ req'[r].result = "raised"
    BY <1>1, <1>2, <1>4, CallEnds
  <2>2. \A id : St(id)' = St(id)
    BY <1>4 DEF St
  <2>3. \A d \in Dims : St(CallOf(r, req[r].k, d)) \in Unsettled => Unknown(r, req[r].k)
    BY <1>1, <1>2 DEF BooksOf, Running, Booked
  <2> QED BY <1>1, <1>4, <2>1, <2>2, <2>3, Ended
<1>5. CASE /\ ledger' = BatchReserve(ledger, r, r, req[r].k, CallCost[Tool(r)])
           /\ action' = [action EXCEPT ![Current(r)] = "planned"]
           /\ Goto(r, IF Tool(r) \in HighImpact THEN "consume" ELSE "dispatch")
  <2>1. req'[r].pc \in {"consume", "dispatch"} /\ req'[r].k = req[r].k
    BY <1>2, <1>5, Goes DEF RequestPc
  <2>2. \A id \in Reservations :
          St(id)' = IF id.to = r /\ id.call = req[r].k THEN "held" ELSE St(id)
    BY <1>2, <1>5, ReserveStates DEF St, StateIn
  <2>3. /\ \A d \in Dims : St(Grant(r, d))' = St(Grant(r, d))
        /\ \A j \in (1..MaxCalls) \ {req[r].k}, d \in Dims :
               St(CallOf(r, j, d))' = St(CallOf(r, j, d))
        /\ \A d \in Dims : \A k \in {req[r].k} : St(CallOf(r, k, d))' = "held"
    BY <1>2, <2>2, MyIds, IdParts
  <2>4. /\ action'[<<r, req[r].k>>] = "planned"
        /\ \A j \in (1..MaxCalls) \ {req[r].k} :
             <<r, j>> \in Calls => action'[<<r, j>>] = action[<<r, j>>]
    BY <1>2, <1>5 DEF TInv, TypeOK
  <2>5. InCallBooks(r)'
    BY <1>2, <2>1, <2>3, <2>4 DEF InCallBooks, Current
  <2>6. req'[r].pc \in InCall \ {"authorise"} /\ req'[r].pc # "reserve"
    BY <2>1 DEF InCall
  <2> QED BY <1>1, <1>3, <2>1, <2>3, <2>4, <2>5, <2>6, Moved
<1> QED BY <1>4, <1>5 DEF Reserve

\* What a release does to the books of a call that is still all held.
LEMMA Released ==
    ASSUME TInv, NEW r \in Runs, req[r].pc \in InCall,
           ledger' = ReleaseQuietly(ledger, r, req[r].k)
    PROVE  /\ \A d \in Dims : St(Grant(r, d))' = St(Grant(r, d))
           /\ \A j \in (1..MaxCalls) \ {req[r].k}, d \in Dims :
                St(CallOf(r, j, d))' = St(CallOf(r, j, d))
           /\ \A k \in {req[r].k}, d \in Dims :
                St(CallOf(r, k, d))' =
                    IF St(CallOf(r, k, d)) = "held" THEN "released" ELSE St(CallOf(r, k, d))
<1>1. req[r].k \in 1..MaxCalls /\ ledger \in Ledgers
  BY InTheCall
<1>2. \A id \in Reservations :
        St(id)' = IF id.to = r /\ id.call = req[r].k /\ St(id) = "held" THEN "released" ELSE St(id)
  BY <1>1, ReleaseStates DEF St, StateIn
<1> QED BY <1>1, <1>2, MyIds, IdParts

LEMMA ConsumeBooks ==
    ASSUME TInv, TInv', NEW r \in Runs, BooksOf(r), Consume(r)
    PROVE  BooksOf(r)'
<1>1. /\ req[r].pc = "consume" /\ req[r].pc \in InCall
      /\ UNCHANGED <<action, intents, ran>>
      /\ "other" \in {"policy", "other"} /\ "policy" \in {"policy", "other"} /\ "denied" \in Results
  BY DEF Consume, At, InCall, Results
<1>2. req[r].k \in 1..MaxCalls /\ RequestsOK /\ Current(r) = <<r, req[r].k>>
  BY <1>1, InTheCall
<1>3. <<r, req[r].k>> \notin ran /\ \A d \in Dims : St(CallOf(r, req[r].k, d)) = "held"
  BY <1>1, <1>2 DEF BooksOf, Ran, InCallBooks
<1>4. CASE Goto(r, "dispatch") /\ UNCHANGED ledger
  <2>1. /\ req'[r].pc = "dispatch" /\ req'[r].k = req[r].k
        /\ req'[r].pc \in InCall \ {"authorise"} /\ req'[r].pc # "reserve"
    BY <1>2, <1>4, Goes DEF RequestPc, InCall
  <2>2. \A id : St(id)' = St(id)
    BY <1>4 DEF St
  <2>3. InCallBooks(r)'
    BY <1>1, <1>2, <1>3, <2>1, <2>2 DEF BooksOf, InCallBooks, Current
  <2> QED BY <1>1, <1>3, <2>1, <2>2, <2>3, Moved
<1>5. CASE /\ CallFails(r, "denied", "other") \/ CallFails(r, "denied", "policy")
           /\ ledger' = ReleaseQuietly(ledger, r, req[r].k)
  <2>1. \/ req'[r].pc = "authorise" /\ req'[r].k = req[r].k + 1
        \/ req'[r].pc \in {"finish", "reject"} /\ req'[r].k = req[r].k
        \/ req'[r].pc = "settle" /\ req'[r].k = req[r].k /\ req'[r].result = "raised"
    BY <1>1, <1>2, <1>5, CallEnds
  <2>2. \A d \in Dims : \A k \in {req[r].k} : St(CallOf(r, k, d))' \notin Unsettled
    BY <1>1, <1>3, <1>5, Released DEF Unsettled
  <2> QED BY <1>1, <1>3, <1>5, <2>1, <2>2, Released, Ended
<1>6. CASE Raises(r) /\ UNCHANGED ledger
  <2>1. req'[r].pc = "settle" /\ req'[r].k = req[r].k /\ req'[r].result = "raised"
    <3>1. req[r] \in RequestRow
      BY <1>2 DEF RequestsOK
    <3> QED BY <1>2, <1>6, <3>1 DEF Raises, RequestRow, RequestsOK
  <2>2. \A id : St(id)' = St(id)
    BY <1>6 DEF St
  <2> QED BY <1>1, <1>3, <2>1, <2>2, Ended
<1> QED BY <1>4, <1>5, <1>6 DEF Consume

LEMMA DispatchBooks ==
    ASSUME TInv, TInv', NEW r \in Runs, BooksOf(r), Dispatch(r)
    PROVE  BooksOf(r)'
<1>1. /\ req[r].pc = "dispatch" /\ req[r].pc \in InCall
      /\ UNCHANGED <<ran>> /\ intents \subseteq intents'
      /\ "other" \in {"policy", "other"} /\ "denied" \in Results
  BY DEF Dispatch, At, InCall, Results
<1>2. /\ req[r].k \in 1..MaxCalls /\ RequestsOK /\ ledger \in Ledgers
      /\ Current(r) = <<r, req[r].k>> /\ Current(r) \in Calls
  BY <1>1, InTheCall
<1>3. <<r, req[r].k>> \notin ran /\ \A d \in Dims : St(CallOf(r, req[r].k, d)) = "held"
  BY <1>1, <1>2 DEF BooksOf, Ran, InCallBooks
<1>4. CASE /\ CallFails(r, "denied", "other") \/ Raises(r)
           /\ ledger' = ReleaseQuietly(ledger, r, req[r].k)
           /\ UNCHANGED <<action, intents>>
  <2>1. \/ req'[r].pc = "authorise" /\ req'[r].k = req[r].k + 1
        \/ req'[r].pc \in {"finish", "reject"} /\ req'[r].k = req[r].k
        \/ req'[r].pc = "settle" /\ req'[r].k = req[r].k /\ req'[r].result = "raised"
    BY <1>1, <1>2, <1>4, CallEnds
  <2>2. \A d \in Dims : \A k \in {req[r].k} : St(CallOf(r, k, d))' \notin Unsettled
    BY <1>1, <1>3, <1>4, Released DEF Unsettled
  <2> QED BY <1>1, <1>3, <1>4, <2>1, <2>2, Released, Ended
<1>5. CASE /\ intents' = intents \cup {Current(r)}
           /\ action' = [action EXCEPT ![Current(r)] = "dispatched"]
           /\ ledger' = MarkInFlight(ledger, CallOf(r, req[r].k, Cost))
           /\ Goto(r, "tool")
  <2>1. /\ req'[r].pc = "tool" /\ req'[r].k = req[r].k
        /\ req'[r].pc \in InCall \ {"authorise"} /\ req'[r].pc # "reserve"
    BY <1>2, <1>5, Goes DEF RequestPc, InCall
  <2>2. \A id \in Reservations :
          St(id)' = IF id = CallOf(r, req[r].k, Cost) THEN "in_flight" ELSE St(id)
    BY <1>2, <1>5, MyIds, MarkStates DEF St, StateIn
  <2>3. /\ \A d \in Dims : St(Grant(r, d))' = St(Grant(r, d))
        /\ \A j \in (1..MaxCalls) \ {req[r].k}, d \in Dims :
               St(CallOf(r, j, d))' = St(CallOf(r, j, d))
        /\ \A k \in {req[r].k} : /\ St(CallOf(r, k, Cost))' = "in_flight"
                                 /\ St(CallOf(r, k, Counter))' = "held"
    <3>1. \A d \in Dims : Grant(r, d) # CallOf(r, req[r].k, Cost)
      BY <1>2, MyIds, IdParts
    <3>2. \A j \in (1..MaxCalls) \ {req[r].k}, d \in Dims : CallOf(r, j, d) # CallOf(r, req[r].k, Cost)
      BY IdParts
    <3>3. CallOf(r, req[r].k, Counter) # CallOf(r, req[r].k, Cost)
      BY MyIds, IdParts
    <3> QED BY <1>2, <1>3, <2>2, <3>1, <3>2, <3>3, MyIds
  <2>4. /\ action'[<<r, req[r].k>>] = "dispatched"
        /\ \A j \in (1..MaxCalls) \ {req[r].k} :
             <<r, j>> \in Calls => action'[<<r, j>>] = action[<<r, j>>]
    BY <1>2, <1>5 DEF TInv, TypeOK
  <2>5. InCallBooks(r)'
    BY <1>2, <1>5, <2>1, <2>3, <2>4 DEF InCallBooks, Current
  <2> QED BY <1>1, <1>3, <2>1, <2>3, <2>4, <2>5, Moved
<1> QED BY <1>4, <1>5 DEF Dispatch

LEMMA CallToolBooks ==
    ASSUME TInv, TInv', NEW r \in Runs, BooksOf(r), CallTool(r)
    PROVE  BooksOf(r)'
<1>1. /\ req[r].pc = "tool" /\ req[r].pc \in InCall
      /\ intents' = intents /\ ran' = ran \cup {Current(r)}
  BY DEF CallTool, At, InCall
<1>2. /\ req[r].k \in 1..MaxCalls /\ RequestsOK /\ ledger \in Ledgers
      /\ Current(r) = <<r, req[r].k>> /\ Current(r) \in Calls
  BY <1>1, InTheCall
<1>3. /\ Current(r) \in intents /\ St(CallOf(r, req[r].k, Cost)) = "in_flight"
      /\ St(CallOf(r, req[r].k, Counter)) = "held"
  BY <1>1 DEF BooksOf, InCallBooks
<1>4. /\ req'[r].pc = "report" /\ req'[r].k = req[r].k
      /\ req'[r].pc \in InCall \ {"authorise"} /\ req'[r].pc # "reserve"
  BY <1>2, Goes DEF CallTool, RequestPc, InCall
<1>5. \A j \in (1..MaxCalls) \ {req[r].k} :
        /\ <<r, j>> \in Calls => action'[<<r, j>>] = action[<<r, j>>]
        /\ <<r, j>> \in ran' => <<r, j>> \in ran
  BY <1>1, <1>2 DEF CallTool, TInv, TypeOK
<1>6. /\ \A d \in Dims : St(Grant(r, d))' = St(Grant(r, d))
      /\ \A j \in (1..MaxCalls) \ {req[r].k}, d \in Dims :
             St(CallOf(r, j, d))' = St(CallOf(r, j, d))
      /\ \A k \in {req[r].k} :
           /\ St(CallOf(r, k, Counter))' = "held"
           /\ \/ St(CallOf(r, k, Cost))' = "settled"
              \/ St(CallOf(r, k, Cost))' = "in_flight" /\ action'[<<r, k>>] = "unknown"
  <2>0. /\ \A d \in Dims : Grant(r, d) # CallOf(r, req[r].k, Cost)
        /\ \A j \in (1..MaxCalls) \ {req[r].k}, d \in Dims : CallOf(r, j, d) # CallOf(r, req[r].k, Cost)
        /\ CallOf(r, req[r].k, Counter) # CallOf(r, req[r].k, Cost)
    <3>1. \A d \in Dims : Grant(r, d) # CallOf(r, req[r].k, Cost)
      BY <1>2, MyIds, IdParts
    <3>2. \A j \in (1..MaxCalls) \ {req[r].k}, d \in Dims : CallOf(r, j, d) # CallOf(r, req[r].k, Cost)
      BY IdParts
    <3>3. CallOf(r, req[r].k, Counter) # CallOf(r, req[r].k, Cost)
      BY MyIds, IdParts
    <3> QED BY <3>1, <3>2, <3>3
  <2>1. CASE \E actual : ledger' = Settle(ledger, CallOf(r, req[r].k, Cost), actual)
    <3>1. \A id \in Reservations :
            St(id)' = IF id = CallOf(r, req[r].k, Cost) THEN "settled" ELSE St(id)
      BY <1>2, <2>1, MyIds, SettleStates DEF St, StateIn
    <3> QED BY <1>2, <1>3, <2>0, <3>1, MyIds
  <2>2. CASE action' = [action EXCEPT ![Current(r)] = "unknown"] /\ UNCHANGED ledger
    <3>1. \A id : St(id)' = St(id)
      BY <2>2 DEF St
    <3>2. action'[<<r, req[r].k>>] = "unknown"
      BY <1>2, <2>2 DEF TInv, TypeOK
    <3> QED BY <1>3, <3>1, <3>2
  <2> QED BY <2>1, <2>2 DEF CallTool
<1>7. InCallBooks(r)'
  BY <1>2, <1>4, <1>6 DEF InCallBooks, Current
<1> QED BY <1>1, <1>2, <1>3, <1>4, <1>5, <1>6, <1>7, Moved

LEMMA ReportBooks ==
    ASSUME TInv, TInv', NEW r \in Runs, BooksOf(r), Report(r)
    PROVE  BooksOf(r)'
<1>1. /\ req[r].pc = "report" /\ req[r].pc \in InCall
      /\ UNCHANGED <<action, intents, ran>>
      /\ "other" \in {"policy", "other"} /\ "denied" \in Results
      /\ "reconciliation_required" \in Results
  BY DEF Report, At, InCall, Results
<1>2. /\ req[r].k \in 1..MaxCalls /\ RequestsOK /\ ledger \in Ledgers
      /\ Current(r) = <<r, req[r].k>> /\ Current(r) \in Calls
  BY <1>1, InTheCall
<1>3. /\ St(CallOf(r, req[r].k, Counter)) = "held"
      /\ \/ St(CallOf(r, req[r].k, Cost)) = "settled"
         \/ St(CallOf(r, req[r].k, Cost)) = "in_flight" /\ Unknown(r, req[r].k)
  BY <1>1, <1>2 DEF BooksOf, InCallBooks, Unknown
<1>4. \/ req'[r].pc = "authorise" /\ req'[r].k = req[r].k + 1
      \/ req'[r].pc \in {"finish", "reject"} /\ req'[r].k = req[r].k
      \/ req'[r].pc = "settle" /\ req'[r].k = req[r].k /\ req'[r].result = "raised"
  <2>1. \E result \in {"denied", "reconciliation_required"} :
          CallFails(r, result, "other") \/ CallSucceeds(r) \/ Raises(r)
    BY DEF Report
  <2> QED BY <1>1, <1>2, <2>1, CallEnds
<1>5. \A d \in Dims : d \in {Counter, Cost}
  BY ToolExecutionAssumption
<1>6. CASE ledger' = ReleaseQuietly(ledger, r, req[r].k)
  <2>1. /\ \A d \in Dims : \A k \in {req[r].k} : St(CallOf(r, k, d))' \in Unsettled => Unknown(r, k)
        /\ \A k \in {req[r].k} : St(CallOf(r, k, Cost))' = St(CallOf(r, k, Cost))
    BY <1>1, <1>3, <1>5, <1>6, MyIds, Released DEF Unsettled
  <2> QED BY <1>1, <1>4, <1>6, <2>1, Released, Ended
<1>7. CASE ledger' = Settle(MarkInFlight(ledger, CallOf(r, req[r].k, Counter)),
                            CallOf(r, req[r].k, Counter), 1)
  <2> DEFINE counter == CallOf(r, req[r].k, Counter)
  <2>1. counter \in Reservations
    BY <1>2, MyIds
  <2>2. MarkInFlight(ledger, counter) \in Ledgers
    BY <1>2, <2>1, MarkType
  <2>3. \A id \in Reservations : St(id)' = IF id = counter THEN "settled" ELSE St(id)
    BY <1>2, <1>7, <2>1, <2>2, MarkStates, SettleStates DEF St, StateIn
  <2>4. \A d \in Dims : Grant(r, d) # counter
    BY <1>2, MyIds, IdParts
  <2>5. \A j \in (1..MaxCalls) \ {req[r].k}, d \in Dims : CallOf(r, j, d) # counter
    BY IdParts
  <2>6. CallOf(r, req[r].k, Cost) # counter
    BY MyIds, IdParts
  <2> HIDE DEF counter
  <2>7. /\ \A d \in Dims : St(Grant(r, d))' = St(Grant(r, d))
        /\ \A j \in (1..MaxCalls) \ {req[r].k}, d \in Dims :
             St(CallOf(r, j, d))' = St(CallOf(r, j, d))
        /\ \A k \in {req[r].k} : St(CallOf(r, k, Cost))' = St(CallOf(r, k, Cost))
        /\ \A k \in {req[r].k} : St(CallOf(r, k, Counter))' = "settled"
    BY <1>2, <2>1, <2>3, <2>4, <2>5, <2>6, MyIds DEF counter
  <2>8. \A d \in Dims : \A k \in {req[r].k} : St(CallOf(r, k, d))' \in Unsettled => Unknown(r, k)
    BY <1>3, <1>5, <2>7 DEF Unsettled
  <2> QED BY <1>1, <1>4, <2>7, <2>8, Ended
<1> QED BY <1>6, <1>7 DEF Report

LEMMA AdmitBooks ==
    ASSUME TInv, TInv', NEW r \in Runs, BooksOf(r), Admit(r)
    PROVE  /\ BooksOf(r)'
           /\ \A id \in Reservations : id.to \in Runs \ {r} => St(id)' = St(id)
<1> DEFINE p == ProjectOf[r]
           l1 == OpenedTenant
           grantable == l1.account[p].open \/ Fits(l1, Tenant, ProjectGrant)
           l2 == IF l1.account[p].open \/ ~grantable THEN l1 ELSE GrantToChild(l1, p, ProjectGrant)
<1>1. p \in Projects /\ p \notin Runs /\ Tenant \in Accounts /\ Nothing \in [Dims -> Nat]
      /\ ledger \in Ledgers /\ RequestsOK /\ ProjectGrant \in [Dims -> Nat]
      /\ NodeGrant[r] \in [Dims -> Nat] /\ TenantLimit \in [Dims -> Nat]
      /\ CompletionReserve \in [Dims -> Nat]
  BY BudgetTreeAssumption, ToolExecutionAssumption, Parts DEF Accounts, Nothing
<1>2. l1 \in Ledgers /\ \A id \in Reservations : StateIn(l1, id) = StateIn(ledger, id)
  BY <1>1, OpenAccountType, OpenStates DEF OpenedTenant
<1>3. l2 \in Ledgers /\ \A id \in Reservations : id.to \in Runs => StateIn(l2, id) = StateIn(ledger, id)
  <2>1. GrantToChild(l1, p, ProjectGrant) \in Ledgers
    BY <1>1, <1>2, GrantType
  <2>2. \A id \in Reservations : id.to \in Runs =>
          StateIn(GrantToChild(l1, p, ProjectGrant), id) = StateIn(l1, id)
    BY <1>1, <1>2, GrantStates
  <2> HIDE DEF l1
  <2> QED BY <1>2, <2>1, <2>2
<1>4. \A id \in Reservations : id.to \in Runs =>
        StateIn(GrantToChild(l2, r, NodeGrant[r]), id) =
          IF id.to = r /\ id.call = 0 THEN "held" ELSE StateIn(ledger, id)
  <2> HIDE DEF l2
  <2> QED BY <1>1, <1>3, GrantStates
<1>5. /\ req[r].pc = "admission" /\ UNCHANGED <<action, intents, ran>>
      /\ \/ /\ ledger' = GrantToChild(l2, r, NodeGrant[r])
            /\ req' = [req EXCEPT ![r] =
                 [@ EXCEPT !.epoch = epoch,
                           !.pc = IF Script[r] = <<>> THEN "finish" ELSE "authorise",
                           !.k = IF Script[r] = <<>> THEN 0 ELSE 1]]
         \/ ledger' = l2 /\ Raises(r)
  BY DEF Admit, At
<1> HIDE DEF l2
<1>6. \A id \in Reservations : id.to \in Runs \ {r} => St(id)' = St(id)
  BY <1>3, <1>4, <1>5 DEF St, StateIn
<1>7. req[r].pc \in Before /\ \A j \in 1..MaxCalls : <<r, j>> \notin ran'
  BY <1>5 DEF BooksOf, NotYet, Before
<1>8. Ran(r)'
  BY <1>7 DEF Ran
<1>9. CASE ledger' = l2 /\ Raises(r)
  <2>1. req'[r].pc = "settle" /\ req'[r].result = "raised"
    BY <1>1, <1>9 DEF Raises, RequestRow, RequestsOK
  <2> QED BY <1>6, <1>8, <2>1
        DEF BooksOf, NotYet, Running, InCallBooks, Answer, Before, Started, InCall
<1>10. CASE /\ ledger' = GrantToChild(l2, r, NodeGrant[r])
            /\ req' = [req EXCEPT ![r] =
                 [@ EXCEPT !.epoch = epoch,
                           !.pc = IF Script[r] = <<>> THEN "finish" ELSE "authorise",
                           !.k = IF Script[r] = <<>> THEN 0 ELSE 1]]
  <2>1. req'[r].pc \in {"finish", "authorise"}
    BY <1>1, <1>10 DEF RequestRow, RequestsOK
  <2>2. \A d \in Dims : St(Grant(r, d))' = "held"
    BY <1>4, <1>10, MyIds, IdParts DEF St, StateIn
  <2>3. \A j \in 1..MaxCalls, d \in Dims : St(CallOf(r, j, d))' = St(CallOf(r, j, d))
    BY <1>4, <1>10, MyIds, IdParts DEF St, StateIn
  <2>4. \A j \in 1..MaxCalls, d \in Dims : St(CallOf(r, j, d))' \notin Unsettled
    BY <1>7, <2>3 DEF BooksOf, NotYet
  <2> QED BY <1>6, <1>8, <2>1, <2>2, <2>4
        DEF BooksOf, NotYet, Running, InCallBooks, Answer, Before, Started, InCall
<1> QED BY <1>5, <1>9, <1>10

LEMMA RejectBooks ==
    ASSUME TInv, TInv', NEW r \in Runs, BooksOf(r), Reject(r)
    PROVE  BooksOf(r)'
<1>1. /\ req[r].pc = "reject" /\ UNCHANGED <<action, ledger, intents, ran>> /\ RequestsOK
      /\ req[r].pc \notin InCall /\ req[r].pc \in Started
      /\ req[r].pc \notin Booked /\ (Goto(r, "finish") \/ Raises(r))
  BY DEF Reject, At, TInv, InCall, Started, Booked
<1>2. /\ req'[r].k = req[r].k
      /\ \/ req'[r].pc = "finish"
         \/ req'[r].pc = "settle" /\ req'[r].result = "raised"
  BY <1>1 DEF Reject, Goto, Raises, RequestRow, RequestsOK
<1>3. (\A id : St(id)' = St(id)) /\ \A j : Unknown(r, j)' <=> Unknown(r, j)
  BY <1>1 DEF St, Unknown
<1>4. NotYet(r)' /\ InCallBooks(r)' /\ Answer(r)'
  BY <1>2 DEF NotYet, InCallBooks, Answer, Before
<1>5. Running(r)'
  BY <1>1, <1>2, <1>3 DEF BooksOf, Running, Started, InCall, Booked
<1>6. Ran(r)'
  BY <1>1, <1>2, <1>3 DEF BooksOf, Ran
<1> QED BY <1>4, <1>5, <1>6 DEF BooksOf

LEMMA FinishBooks ==
    ASSUME TInv, TInv', NEW r \in Runs, BooksOf(r), Finish(r)
    PROVE  /\ BooksOf(r)'
           /\ \A id \in Reservations : id.to \in Runs \ {r} => St(id)' = St(id)
<1>1. /\ req[r].pc = "finish" /\ UNCHANGED <<action, intents, ran>> /\ RequestsOK
      /\ req[r].pc \in Started /\ req[r].pc \notin Booked /\ ledger \in Ledgers
  BY Parts DEF Finish, At, Started, Booked
<1>2. req'[r].k = req[r].k /\ req'[r].pc = "settle"
  <2>1. \E result : req' = [req EXCEPT ![r].pc = "settle", ![r].result = result]
    BY DEF Finish, Raises
  <2> QED BY <1>1, <2>1 DEF RequestRow, RequestsOK
<1>3. NotYet(r)' /\ InCallBooks(r)' /\ Running(r)'
  BY <1>2 DEF NotYet, InCallBooks, Running, Before, Started, InCall
<1>4. CASE Outstanding(ledger, r) /\ UNCHANGED ledger
  <2>1. PICK id \in Reservations : AccountOf(id) = r /\ St(id) \in Unsettled
    BY <1>4 DEF Outstanding, St
  <2>2. id.to = r /\ id.call \in 1..MaxCalls /\ id = CallOf(r, id.call, id.dim) /\ id.dim \in Dims
    <3>1. id.call # 0
      BY <2>1, Ids, IdParts, BudgetTreeAssumption DEF AccountOf, Parent
    <3> QED BY <2>1, <3>1, Ids, IdParts DEF AccountOf
  <2>3. Unknown(r, id.call)
    BY <1>1, <2>1, <2>2 DEF BooksOf, Running
  <2>4. Answer(r)'
    <3>1. <<r, id.call>>[1] = r /\ action'[<<r, id.call>>] = "unknown" /\ <<r, id.call>> \in Calls
      BY <1>1, <2>3 DEF Unknown
    <3>2. Returned(r)'
      BY <3>1 DEF Returned
    <3> QED BY <3>2 DEF Answer
  <2>5. \A x : St(x)' = St(x)
    BY <1>4 DEF St
  <2>6. Ran(r)'
    BY <1>1, <1>2, <2>5 DEF BooksOf, Ran
  <2> QED BY <1>3, <2>4, <2>5, <2>6 DEF BooksOf
<1>5. CASE ~Outstanding(ledger, r) /\ ledger' = CloseAccount(ledger, r)
  <2>1. \A id \in Reservations :
          St(id)' = IF id.to = r /\ id.call = 0 THEN "settled" ELSE St(id)
    BY <1>1, <1>5, CloseStates DEF St, StateIn
  <2>2. \A d \in Dims : St(Grant(r, d))' = "settled"
    BY <2>1, MyIds, IdParts
  <2>3. \A j \in 1..MaxCalls, d \in Dims :
          /\ St(CallOf(r, j, d))' = St(CallOf(r, j, d))
          /\ St(CallOf(r, j, d)) \notin Unsettled
    BY <1>5, <2>1, MyIds, IdParts, Ids DEF Outstanding, St
  <2>4. Answer(r)'
    BY <2>2 DEF Answer, Returned
  <2>5. Ran(r)'
    BY <1>1, <1>2, <2>3, MyIds DEF BooksOf, Ran, Unsettled
  <2>6. \A id \in Reservations : id.to \in Runs \ {r} => St(id)' = St(id)
    BY <2>1
  <2> QED BY <1>3, <2>4, <2>5, <2>6 DEF BooksOf
<1> QED BY <1>4, <1>5 DEF Finish

\* From before the admission to an answer, or from the settling of the key to it.
LEMMA AnsweredBooks ==
    ASSUME TInv, TInv', NEW r \in Runs, BooksOf(r), req'[r].pc = "done",
           \/ req[r].pc \in Before
           \/ req[r].pc = "settle" /\ req'[r].result = req[r].result /\ req'[r].k = req[r].k,
           UNCHANGED <<action, ledger, intents, ran>>
    PROVE  BooksOf(r)'
<1>1. (\A id : St(id)' = St(id)) /\ (Returned(r)' <=> Returned(r))
  BY DEF St, Returned
<1>2. NotYet(r)' /\ InCallBooks(r)' /\ Running(r)'
  BY DEF NotYet, InCallBooks, Running, Before, Started, InCall
<1>3. CASE req[r].pc \in Before
  <2>1. Returned(r)
    BY <1>3 DEF BooksOf, NotYet, Returned
  <2> QED BY <1>1, <1>2, <1>3, <2>1 DEF BooksOf, NotYet, Ran, Answer
<1>4. CASE req[r].pc = "settle" /\ req'[r].result = req[r].result /\ req'[r].k = req[r].k
  BY <1>1, <1>2, <1>4 DEF BooksOf, Ran, Answer
<1> QED BY <1>3, <1>4

LEMMA KeyBooks ==
    ASSUME TInv, TInv', LInv, NEW r \in Runs,
           ClaimKey(r) \/ WithoutKey(r) \/ WaitTooLong(r) \/ SettleKey(r)
    PROVE  LInv'
<1>1. UNCHANGED <<action, ledger, intents, ran>> /\ req \in [Runs -> RequestRow]
  BY Parts DEF ClaimKey, WithoutKey, WaitTooLong, SettleKey, RequestsOK
<1>2. ASSUME NEW q \in Runs, req'[q] = req[q] \/ (req[q].pc \in Before /\ req'[q].pc \in Before)
      PROVE  BooksOf(q)'
  <2>1. (\A id : St(id)' = St(id)) /\ BooksOf(q)
    BY <1>1 DEF St, LInv
  <2> QED BY <1>1, <1>2, <2>1, BooksKept
<1>3. ASSUME NEW pc \in {"admission", "waiting", "late"}, Goto(r, pc), req[r].pc \in Before
      PROVE  LInv'
  <2>1. req'[r].pc \in Before /\ \A q \in Runs \ {r} : req'[q] = req[q]
    BY <1>1, <1>3 DEF Goto, RequestRow, Before
  <2> QED BY <1>2, <1>3, <2>1 DEF LInv
<1>4. CASE ClaimKey(r)
  <2>1. req[r].pc \in Before
    BY <1>4 DEF ClaimKey, Before
  <2>2. CASE \E result, of : Answered(r, result, of)
    <3>1. req'[r].pc = "done" /\ \A q \in Runs \ {r} : req'[q] = req[q]
      BY <1>1, <2>2 DEF Answered, RequestRow
    <3>2. BooksOf(r)'
      BY <1>1, <2>1, <3>1, AnsweredBooks DEF LInv
    <3> QED BY <1>2, <3>1, <3>2 DEF LInv
  <2>3. CASE \E pc \in {"admission", "waiting"} : Goto(r, pc)
    BY <1>3, <2>1, <2>3
  <2> QED BY <1>4, <2>2, <2>3 DEF ClaimKey, Take
<1>5. CASE WithoutKey(r)
  BY <1>3, <1>5 DEF WithoutKey, At, Before
<1>6. CASE WaitTooLong(r)
  BY <1>3, <1>6 DEF WaitTooLong, At, Before
<1>7. CASE SettleKey(r)
  <2> DEFINE ended == [req EXCEPT ![r].pc = "done"]
  <2>1. /\ \A q \in Runs \ {r} : ended[q] = req[q]
        /\ ended[r].pc = "done" /\ ended[r].result = req[r].result /\ ended[r].k = req[r].k
        /\ ended \in [Runs -> RequestRow]
    BY <1>1 DEF RequestRow, RequestPc
  <2>2. req' = ended \/ req' = Awake(ended)
    BY <1>7 DEF SettleKey
  <2> HIDE DEF ended
  <2>3. \A q \in Runs : \/ req'[q] = ended[q]
                        \/ ended[q].pc = "waiting" /\ req'[q].pc = "awake"
    <3>1. CASE req' = ended
      BY <3>1
    <3>2. CASE req' = Awake(ended)
      <4>1. \A q \in Runs : req'[q] = IF ended[q].pc = "waiting" THEN [ended[q] EXCEPT !.pc = "awake"]
                                    ELSE ended[q]
        BY <3>2 DEF Awake
      <4>2. \A q \in Runs : [ended[q] EXCEPT !.pc = "awake"].pc = "awake"
        BY <2>1 DEF RequestRow
      <4> QED BY <4>1, <4>2
    <3> QED BY <2>2, <3>1, <3>2
  <2>4. /\ req'[r].pc = "done" /\ req[r].pc = "settle" /\ req'[r].result = req[r].result
        /\ req'[r].k = req[r].k
    BY <1>7, <2>1, <2>3 DEF SettleKey, At
  <2>5. BooksOf(r)'
    BY <1>1, <2>4, AnsweredBooks DEF LInv
  <2>6. ASSUME NEW q \in Runs \ {r} PROVE BooksOf(q)'
    BY <1>2, <2>1, <2>3 DEF Before
  <2> QED BY <2>5, <2>6 DEF LInv
<1> QED BY <1>4, <1>5, <1>6, <1>7

\* A thread books under its own name.
LEMMA OthersUntouched ==
    ASSUME TInv, TInv', NEW r \in Runs,
           Authorise(r) \/ Reserve(r) \/ Consume(r) \/ Dispatch(r) \/ CallTool(r) \/ Report(r)
    PROVE  /\ \A id \in Reservations : id.to \in Runs \ {r} => St(id)' = St(id)
           /\ \A c \in Calls : c[1] # r => action'[c] = action[c]
           /\ \A c \in Calls : c[1] # r => (c \in ran' <=> c \in ran)
           /\ intents \subseteq intents'
<1>1. req[r].pc \in InCall
  BY DEF Authorise, Reserve, Consume, Dispatch, CallTool, Report, At, InCall
<1>2. /\ req[r].k \in 1..MaxCalls /\ ledger \in Ledgers
      /\ Current(r) = <<r, req[r].k>> /\ Current(r) \in Calls
      /\ Counter \in Dims /\ Cost \in Dims
  BY <1>1, InTheCall, MyIds
<1>3. \A d \in Dims : CallOf(r, req[r].k, d) \in Reservations /\ CallOf(r, req[r].k, d).to = r
  BY <1>2, MyIds, IdParts
<1>4. \A id \in Reservations : id.to \in Runs \ {r} => St(id)' = St(id)
  <2>1. CASE UNCHANGED ledger
    BY <2>1 DEF St
  <2>2. CASE ledger' = BatchReserve(ledger, r, r, req[r].k, CallCost[Tool(r)])
    BY <1>2, <2>2, ReserveStates DEF St, StateIn
  <2>3. CASE ledger' = ReleaseQuietly(ledger, r, req[r].k)
    BY <1>2, <2>3, ReleaseStates DEF St, StateIn
  <2>4. CASE ledger' = MarkInFlight(ledger, CallOf(r, req[r].k, Cost))
    <3>1. CallOf(r, req[r].k, Cost) \in Reservations
      BY <1>2, <1>3
    <3>2. \A id \in Reservations :
            St(id)' = IF id = CallOf(r, req[r].k, Cost) THEN "in_flight" ELSE St(id)
      BY <1>2, <2>4, <3>1, MarkStates DEF St, StateIn
    <3> QED BY <1>2, <1>3, <3>2
  <2>5. CASE \E actual : ledger' = Settle(ledger, CallOf(r, req[r].k, Cost), actual)
    <3>1. CallOf(r, req[r].k, Cost) \in Reservations
      BY <1>2, <1>3
    <3>2. \A id \in Reservations :
            St(id)' = IF id = CallOf(r, req[r].k, Cost) THEN "settled" ELSE St(id)
      BY <1>2, <2>5, <3>1, SettleStates DEF St, StateIn
    <3> QED BY <1>2, <1>3, <3>2
  <2>6. CASE ledger' = Settle(MarkInFlight(ledger, CallOf(r, req[r].k, Counter)),
                              CallOf(r, req[r].k, Counter), 1)
    <3>1. CallOf(r, req[r].k, Counter) \in Reservations
      BY <1>2, <1>3
    <3>2. MarkInFlight(ledger, CallOf(r, req[r].k, Counter)) \in Ledgers
      BY <1>2, <3>1, MarkType
    <3>3. \A id \in Reservations :
            St(id)' = IF id = CallOf(r, req[r].k, Counter) THEN "settled" ELSE St(id)
      BY <1>2, <2>6, <3>1, <3>2, MarkStates, SettleStates DEF St, StateIn
    <3> QED BY <1>2, <1>3, <3>3
  <2> QED BY <2>1, <2>2, <2>3, <2>4, <2>5, <2>6
        DEF Authorise, Reserve, Consume, Dispatch, CallTool, Report
<1>5. \A c \in Calls : c[1] # r => action'[c] = action[c]
  <2>1. action' = action \/ \E state : action' = [action EXCEPT ![Current(r)] = state]
    BY DEF Authorise, Reserve, Consume, Dispatch, CallTool, Report
  <2>2. \A c : c[1] # r => c # Current(r)
    BY <1>2
  <2> QED BY <2>1, <2>2 DEF TInv, TypeOK
<1>6. /\ ran' = ran \/ ran' = ran \cup {Current(r)}
      /\ intents' = intents \/ intents' = intents \cup {Current(r)}
  BY DEF Authorise, Reserve, Consume, Dispatch, CallTool, Report
<1> QED BY <1>2, <1>4, <1>5, <1>6

LEMMA StepBooks ==
    ASSUME TInv, TInv', LInv, NEW r \in Runs,
           \/ Admit(r) \/ Authorise(r) \/ Reserve(r) \/ Consume(r) \/ Dispatch(r)
           \/ CallTool(r) \/ Report(r) \/ Reject(r) \/ Finish(r)
    PROVE  LInv'
<1>1. BooksOf(r)
  BY DEF LInv
<1>2. BooksOf(r)'
  BY <1>1, AdmitBooks, AuthoriseBooks, ReserveBooks, ConsumeBooks, DispatchBooks, CallToolBooks,
     ReportBooks, RejectBooks, FinishBooks
<1>3. /\ \A id \in Reservations : id.to \in Runs \ {r} => St(id)' = St(id)
      /\ \A c \in Calls : c[1] # r => action'[c] = action[c]
      /\ \A c \in Calls : c[1] # r => (c \in ran' <=> c \in ran)
      /\ intents \subseteq intents'
  <2>1. CASE Admit(r)
    BY <1>1, <2>1, AdmitBooks DEF Admit
  <2>2. CASE Finish(r)
    BY <1>1, <2>2, FinishBooks DEF Finish
  <2>3. CASE Reject(r)
    BY <2>3 DEF Reject, St
  <2>4. CASE \/ Authorise(r) \/ Reserve(r) \/ Consume(r) \/ Dispatch(r)
             \/ CallTool(r) \/ Report(r)
    BY <2>4, OthersUntouched
  <2> QED BY <2>1, <2>2, <2>3, <2>4
<1>4. ASSUME NEW q \in Runs \ {r} PROVE BooksOf(q)'
  <2>1. req'[q] = req[q]
    BY Inside DEF TInv
  <2>2. /\ \A d \in Dims : St(Grant(q, d))' = St(Grant(q, d))
        /\ \A j \in 1..MaxCalls, d \in Dims : St(CallOf(q, j, d))' = St(CallOf(q, j, d))
    BY <1>3, MyIds, IdParts
  <2>3. BooksOf(q)
    BY DEF LInv
  <2>4. /\ \A c \in Calls : c[1] = q => action'[c] = action[c]
        /\ \A c \in Calls : c[1] = q => (c \in ran' <=> c \in ran)
    BY <1>3
  <2> QED BY <1>3, <2>1, <2>2, <2>3, <2>4, BooksKept
<1> QED BY <1>2, <1>4 DEF LInv

LEMMA AroundBooks ==
    ASSUME TInv, TInv', LInv,
           \/ \E c \in Confirmations : Confirm(c) \/ Expire(c)
           \/ \E i \in LogicalIds : Reconcile(i)
           \/ \E up \in BOOLEAN : SetAvailable(up)
           \/ RevokeAll
           \/ UNCHANGED vars
    PROVE  LInv'
<1>1. UNCHANGED <<req, action, intents, ran>>
  BY DEF Confirm, Expire, Reconcile, SetAvailable, RevokeAll, vars
<1>2. \/ \A id \in Reservations : St(id)' = St(id)
      \/ \E c \in Calls : /\ action[c] = "unknown"
                          /\ \A id \in Reservations :
                               St(id)' = IF id = CallOf(c[1], c[2], Cost) THEN "settled" ELSE St(id)
  <2>1. ASSUME NEW i \in LogicalIds, Reconcile(i)
        PROVE  \E c \in Calls : /\ action[c] = "unknown"
                                /\ \A id \in Reservations :
                                    St(id)' = IF id = CallOf(c[1], c[2], Cost) THEN "settled" ELSE St(id)
    <3>1. listed[i] \in Calls /\ action[listed[i]] = "unknown"
      BY <2>1 DEF Reconcile, TInv, TypeOK
    <3>2. CallOf(listed[i][1], listed[i][2], Cost) \in Reservations
      BY <3>1, Ids DEF Calls
    <3>3. \E actual : ledger' = Settle(ledger, CallOf(listed[i][1], listed[i][2], Cost), actual)
      BY <2>1 DEF Reconcile
    <3>4. ledger \in Ledgers
      BY Parts
    <3>5. \A id \in Reservations :
            St(id)' = IF id = CallOf(listed[i][1], listed[i][2], Cost) THEN "settled" ELSE St(id)
      BY <3>2, <3>3, <3>4, SettleStates DEF St, StateIn
    <3> QED BY <3>1, <3>5
  <2>2. CASE UNCHANGED ledger
    BY <2>2 DEF St
  <2> QED BY <2>1, <2>2 DEF Confirm, Expire, SetAvailable, RevokeAll, vars
<1>3. ASSUME NEW q \in Runs PROVE BooksOf(q)'
  <2>1. /\ \A d \in Dims : St(Grant(q, d))' = St(Grant(q, d))
        /\ \A j \in 1..MaxCalls, d \in Dims :
             \/ St(CallOf(q, j, d))' = St(CallOf(q, j, d))
             \/ d = Cost /\ St(CallOf(q, j, d))' = "settled" /\ Unknown(q, j)
    <3>1. CASE \A id \in Reservations : St(id)' = St(id)
      BY <3>1, MyIds
    <3>2. ASSUME NEW c \in Calls, action[c] = "unknown",
                 \A id \in Reservations :
                   St(id)' = IF id = CallOf(c[1], c[2], Cost) THEN "settled" ELSE St(id)
          PROVE  /\ \A d \in Dims : St(Grant(q, d))' = St(Grant(q, d))
                 /\ \A j \in 1..MaxCalls, d \in Dims :
                      \/ St(CallOf(q, j, d))' = St(CallOf(q, j, d))
                      \/ d = Cost /\ St(CallOf(q, j, d))' = "settled" /\ Unknown(q, j)
      <4>1. c = <<c[1], c[2]>> /\ c[2] \in 1..MaxCalls
        BY DEF Calls
      <4>2. \A d \in Dims : Grant(q, d) # CallOf(c[1], c[2], Cost)
        BY <4>1, MyIds, IdParts
      <4>3. \A j \in 1..MaxCalls, d \in Dims :
              CallOf(q, j, d) = CallOf(c[1], c[2], Cost) => d = Cost /\ Unknown(q, j)
        BY <3>2, <4>1, IdParts DEF Unknown
      <4> QED BY <3>2, <4>2, <4>3, MyIds
    <3> QED BY <1>2, <3>1, <3>2
  <2>2. BooksOf(q)
    BY DEF LInv
  <2> QED BY <1>1, <2>1, <2>2, BooksKept
<1> QED BY <1>3 DEF LInv

LEMMA LInvInit == Init => LInv
<1> SUFFICES ASSUME Init, NEW r \in Runs PROVE BooksOf(r)
  BY DEF LInv
<1>1. req[r].pc \in {"new", "never"} /\ ran = {} /\ ledger = EmptyLedger
  BY DEF Init
<1>2. \A id \in Reservations : St(id) = "none"
  BY <1>1 DEF St, EmptyLedger
<1> QED BY <1>1, <1>2, MyIds
      DEF BooksOf, NotYet, Running, InCallBooks, Answer, Ran, Unsettled, Started, InCall

LEMMA LInvNext == TInv /\ LInv /\ [Next]_vars => LInv'
<1> SUFFICES ASSUME TInv, LInv, [Next]_vars PROVE LInv'
  OBVIOUS
<1>1. TInv'
  BY NextTypes
<1> QED BY <1>1, KeyBooks, StepBooks, AroundBooks DEF Next, RequestStep

-----------------------------------------------------------------------------
\* No call that was made is forgotten: whatever fails after it, its intent is in the
\* trail and its cost is in flight or settled, and while the outcome is unknown the grant
\* of its run is not given back.
THEOREM RanIsBooked == Spec => []WhatRanIsNotForgotten
<1>1. TInv /\ LInv => WhatRanIsNotForgotten
  <2> SUFFICES ASSUME TInv, LInv, NEW c \in ran
               PROVE  LET cost == ledger.reservation[CallOf(c[1], c[2], Cost)] IN
                      /\ c \in intents
                      /\ cost.state \in {"in_flight", "settled"}
                      /\ cost.state = "in_flight" =>
                           /\ action[c] = "unknown"
                           /\ ledger.reservation[Grant(c[1], Cost)].state = "held"
    BY DEF WhatRanIsNotForgotten
  <2>1. c = <<c[1], c[2]>> /\ c[1] \in Runs /\ c[2] \in 1..MaxCalls
    BY DEF TInv, TypeOK, Calls
  <2>2. Ran(c[1])
    BY <2>1 DEF LInv, BooksOf
  <2> QED BY <2>1, <2>2 DEF Ran, St
<1> QED BY InitTypes, NextTypes, LInvInit, LInvNext, <1>1, PTL DEF Spec

\* Every interaction that is answered, successful or rejected, has given back what its
\* calls did not spend, or one of its outcomes is unknown.
THEOREM AnsweredGivesBack == Spec => []GrantsComeBack
<1>1. LInv => GrantsComeBack
  BY DEF LInv, BooksOf, Answer, Returned, GrantsComeBack, At, St
<1> QED BY InitTypes, NextTypes, LInvInit, LInvNext, <1>1, PTL DEF Spec

-----------------------------------------------------------------------------
(* The accounts add up.                                                    *)

\* Strengthening.  What is reserved or consumed is the sum over the reservations on the
\* account, and the account covers it.
Balanced(l) ==
    \A a \in Accounts, d \in Dims :
        /\ l.account[a].reserved[d] = SumFunctionOnSet(Amounts(l), OnAccount(l, a, d, Unsettled))
        /\ l.account[a].consumed[d] = SumFunctionOnSet(Costs(l), OnAccount(l, a, d, {"settled"}))
        /\ Available(l, a, d) >= 0

\* An account that is not open has no reservations and was not granted anything; one that
\* is open may spend what it was granted.
Granted(l) ==
    /\ \A id \in Reservations : l.reservation[id].state # "none" => l.account[AccountOf(id)].open
    /\ \A a \in Projects \cup Runs, d \in Dims :
         /\ l.account[a].open <=> l.reservation[Grant(a, d)].state # "none"
         /\ l.account[a].open => l.account[a].limits[d] = l.reservation[Grant(a, d)].amount

\* A call holds its upper bound.
Priced(l) ==
    \A c \in Calls, d \in Dims :
        l.reservation[CallOf(c[1], c[2], d)].state # "none" =>
            l.reservation[CallOf(c[1], c[2], d)].amount = CallCost[ToolOf(c)][d]

Sound(l) == Balanced(l) /\ Granted(l) /\ Priced(l)

\* Nothing was reserved for the calls that are still to come.
Fresh(r) ==
    req[r].pc \in InCall =>
        \A j \in 1..MaxCalls, d \in Dims :
            j > req[r].k \/ (j = req[r].k /\ req[r].pc \in {"authorise", "reserve"})
              => ledger.reservation[CallOf(r, j, d)].state = "none"

\* The index lists an action under its own name.
Indexed == \A i \in LogicalIds : listed[i] # <<>> => LogicalId(listed[i]) = i

SumInv == Sound(ledger) /\ (\A r \in Runs : Fresh(r)) /\ Indexed

-----------------------------------------------------------------------------
(* One reservation per dimension changes: the columns move by it.          *)

Held(l, id) == IF l.reservation[id].state \in Unsettled THEN l.reservation[id].amount ELSE 0
SpentOn(l, id) == IF l.reservation[id].state = "settled" THEN l.reservation[id].consumed ELSE 0

LEMMA ReservationsAreFinite == IsFiniteSet(Reservations)
<1> DEFINE owners == Projects \cup Runs
           numbers == 0..MaxCalls
           slots == (owners \X numbers) \X Dims
           name == [s \in slots |-> CallOf(s[1][1], s[1][2], s[2])]
<1>1. IsFiniteSet(Dims)
  <2>1. Dims = {Counter} \cup {Cost}
    BY ToolExecutionAssumption
  <2> QED BY <2>1, FS_Singleton, FS_Union
<1>2. IsFiniteSet(owners) /\ IsFiniteSet(numbers)
  <2>1. 0 \in Int /\ MaxCalls \in Int
    BY BudgetTreeAssumption
  <2> QED BY <2>1, AccountsAreFinite, FS_Union, FS_Interval
<1>3. IsFiniteSet(slots)
  <2> HIDE DEF owners, numbers
  <2> QED BY <1>1, <1>2, FS_Product
<1> DEFINE names == {name[s] : s \in slots}
<1>4. IsFiniteSet(names)
  <2>1. name \in Surjection(slots, names)
    <3>1. name \in [slots -> names]
      OBVIOUS
    <3>2. \A n \in names : \E s \in slots : name[s] = n
      OBVIOUS
    <3> HIDE DEF name, slots, names
    <3> QED BY <3>1, <3>2 DEF Surjection
  <2> HIDE DEF name, slots, names
  <2> QED BY <1>3, <2>1, FS_Surjection
<1>5. Reservations \subseteq names
  <2> SUFFICES ASSUME NEW id \in Reservations PROVE id \in names
    OBVIOUS
  <2>1. id.to \in owners /\ id.call \in numbers /\ id.dim \in Dims
        /\ id = CallOf(id.to, id.call, id.dim)
    BY IdParts, Ids, BudgetTreeAssumption DEF Reservations, CallOf
  <2>2. <<<<id.to, id.call>>, id.dim>> \in slots
    BY <2>1
  <2>3. name[<<<<id.to, id.call>>, id.dim>>] = id
    BY <2>1, <2>2
  <2> QED BY <2>2, <2>3
<1> HIDE DEF names
<1> QED BY <1>4, <1>5, FS_Subset

\* The same to the sums.
Alike(l, m, id) ==
    /\ l.reservation[id].state \in Unsettled <=> m.reservation[id].state \in Unsettled
    /\ l.reservation[id].state = "settled" <=> m.reservation[id].state = "settled"
    /\ l.reservation[id].amount = m.reservation[id].amount
    /\ l.reservation[id].consumed = m.reservation[id].consumed

LEMMA ColumnsMove ==
    ASSUME NEW l \in Ledgers, NEW m \in Ledgers, NEW at \in Reservations, NEW a, NEW d,
           AccountOf(at) = a, at.dim = d,
           \A id \in Reservations : AccountOf(id) = a /\ id.dim = d /\ id # at => Alike(l, m, id)
    PROVE  /\ SumFunctionOnSet(Amounts(m), OnAccount(m, a, d, Unsettled)) =
                SumFunctionOnSet(Amounts(l), OnAccount(l, a, d, Unsettled))
                  + Held(m, at) - Held(l, at)
           /\ SumFunctionOnSet(Costs(m), OnAccount(m, a, d, {"settled"})) =
                SumFunctionOnSet(Costs(l), OnAccount(l, a, d, {"settled"}))
                  + SpentOn(m, at) - SpentOn(l, at)
<1>1. IsFiniteSet(Reservations)
  BY ReservationsAreFinite
<1>2. /\ \A id \in Reservations : Amounts(l)[id] = l.reservation[id].amount
      /\ \A id \in Reservations : Amounts(m)[id] = m.reservation[id].amount
      /\ \A id \in Reservations : Costs(l)[id] = l.reservation[id].consumed
      /\ \A id \in Reservations : Costs(m)[id] = m.reservation[id].consumed
  BY DEF Amounts, Costs
<1>3. /\ \A id \in Reservations : Amounts(l)[id] \in Int /\ Costs(l)[id] \in Int
      /\ \A id \in Reservations : Amounts(m)[id] \in Int /\ Costs(m)[id] \in Int
  BY <1>2, LedgerParts
<1> DEFINE A == OnAccount(l, a, d, Unsettled)
           B == OnAccount(m, a, d, Unsettled)
           C == OnAccount(l, a, d, {"settled"})
           D == OnAccount(m, a, d, {"settled"})
<1>4. A \in SUBSET Reservations /\ B \in SUBSET Reservations
      /\ C \in SUBSET Reservations /\ D \in SUBSET Reservations
  BY DEF OnAccount
<1>5. A \ {at} = B \ {at} /\ C \ {at} = D \ {at}
  BY DEF OnAccount, Alike
<1>6. /\ \A id \in A \ {at} : Amounts(l)[id] = Amounts(m)[id]
      /\ \A id \in C \ {at} : Costs(l)[id] = Costs(m)[id]
  BY <1>2 DEF OnAccount, Alike
<1>7. /\ Held(m, at) = IF at \in B THEN Amounts(m)[at] ELSE 0
      /\ Held(l, at) = IF at \in A THEN Amounts(l)[at] ELSE 0
      /\ SpentOn(m, at) = IF at \in D THEN Costs(m)[at] ELSE 0
      /\ SpentOn(l, at) = IF at \in C THEN Costs(l)[at] ELSE 0
  BY <1>2 DEF OnAccount, Held, SpentOn
<1> DEFINE f == Amounts(l)
           g == Amounts(m)
           u == Costs(l)
           v == Costs(m)
<1>8. SumFunctionOnSet(g, B) =
        SumFunctionOnSet(f, A) + (IF at \in B THEN g[at] ELSE 0) - (IF at \in A THEN f[at] ELSE 0)
  <2>1. (\A id \in A : f[id] \in Int) /\ \A id \in B : g[id] \in Int
    BY <1>3, <1>4
  <2>2. \A id \in A \ {at} : f[id] = g[id]
    BY <1>6
  <2> HIDE DEF A, B, f, g
  <2> QED BY <1>1, <1>4, <1>5, <2>1, <2>2, SumPosted
<1>9. SumFunctionOnSet(v, D) =
        SumFunctionOnSet(u, C) + (IF at \in D THEN v[at] ELSE 0) - (IF at \in C THEN u[at] ELSE 0)
  <2>1. (\A id \in C : u[id] \in Int) /\ \A id \in D : v[id] \in Int
    BY <1>3, <1>4
  <2>2. \A id \in C \ {at} : u[id] = v[id]
    BY <1>6
  <2> HIDE DEF C, D, u, v
  <2> QED BY <1>1, <1>4, <1>5, <2>1, <2>2, SumPosted
<1> QED BY <1>7, <1>8, <1>9

LEMMA ColumnsStay ==
    ASSUME NEW l \in Ledgers, NEW m \in Ledgers, NEW a, NEW d,
           \A id \in Reservations : AccountOf(id) = a /\ id.dim = d => Alike(l, m, id)
    PROVE  /\ SumFunctionOnSet(Amounts(m), OnAccount(m, a, d, Unsettled)) =
                SumFunctionOnSet(Amounts(l), OnAccount(l, a, d, Unsettled))
           /\ SumFunctionOnSet(Costs(m), OnAccount(m, a, d, {"settled"})) =
                SumFunctionOnSet(Costs(l), OnAccount(l, a, d, {"settled"}))
<1> DEFINE A == OnAccount(l, a, d, Unsettled)
           C == OnAccount(l, a, d, {"settled"})
<1>1. OnAccount(m, a, d, Unsettled) = A /\ OnAccount(m, a, d, {"settled"}) = C
  BY DEF OnAccount, Alike
<1>2. /\ \A id \in A : Amounts(l)[id] = Amounts(m)[id]
      /\ \A id \in C : Costs(l)[id] = Costs(m)[id]
  BY DEF OnAccount, Alike, Amounts, Costs
<1>3. IsFiniteSet(A) /\ IsFiniteSet(C)
  <2>1. A \subseteq Reservations /\ C \subseteq Reservations
    BY DEF OnAccount
  <2> HIDE DEF A, C
  <2> QED BY <2>1, ReservationsAreFinite, FS_Subset
<1>4. SumFunctionOnSet(Amounts(l), A) = SumFunctionOnSet(Amounts(m), A)
  <2> HIDE DEF A, C
  <2> QED BY <1>2, <1>3, SumSame
<1>5. SumFunctionOnSet(Costs(l), C) = SumFunctionOnSet(Costs(m), C)
  <2> HIDE DEF A, C
  <2> QED BY <1>2, <1>3, SumSame
<1> QED BY <1>1, <1>4, <1>5

Posted(l, m, a, d, id) ==
    /\ m.account[a].reserved[d] = l.account[a].reserved[d] + Held(m, id) - Held(l, id)
    /\ m.account[a].consumed[d] = l.account[a].consumed[d] + SpentOn(m, id) - SpentOn(l, id)
    /\ Available(m, a, d) >= 0

\* Account a posts amounts in the slot of call k of to, in all dimensions.
LEMMA Posts ==
    ASSUME NEW l \in Ledgers, NEW m \in Ledgers, Balanced(l),
           NEW a \in Accounts, NEW to, NEW k,
           \A d \in Dims : /\ CallOf(to, k, d) \in Reservations
                           /\ AccountOf(CallOf(to, k, d)) = a,
           \A id \in Reservations : ~ (id.to = to /\ id.call = k) => Alike(l, m, id),
           \A b \in Accounts \ {a} : m.account[b] = l.account[b],
           \A d \in Dims : Posted(l, m, a, d, CallOf(to, k, d))
    PROVE  Balanced(m)
<1> SUFFICES ASSUME NEW b \in Accounts, NEW d \in Dims
             PROVE  /\ m.account[b].reserved[d] =
                         SumFunctionOnSet(Amounts(m), OnAccount(m, b, d, Unsettled))
                    /\ m.account[b].consumed[d] =
                         SumFunctionOnSet(Costs(m), OnAccount(m, b, d, {"settled"}))
                    /\ Available(m, b, d) >= 0
  BY DEF Balanced
<1> DEFINE at == CallOf(to, k, d)
<1>1. at \in Reservations /\ AccountOf(at) = a /\ at.dim = d
  BY IdParts
<1>2. /\ l.account[b].reserved[d] =
           SumFunctionOnSet(Amounts(l), OnAccount(l, b, d, Unsettled))
      /\ l.account[b].consumed[d] =
           SumFunctionOnSet(Costs(l), OnAccount(l, b, d, {"settled"}))
      /\ Available(l, b, d) >= 0
  BY DEF Balanced
<1>3. \A id \in Reservations : id.to = to /\ id.call = k /\ id.dim = d => id = at
  BY IdParts, <1>1 DEF CallOf, Grant
<1>4. CASE b = a
  <2>1. \A id \in Reservations : AccountOf(id) = a /\ id.dim = d /\ id # at => Alike(l, m, id)
    BY <1>3
  <2>2. /\ m.account[a].reserved[d] = l.account[a].reserved[d] + Held(m, at) - Held(l, at)
        /\ m.account[a].consumed[d] = l.account[a].consumed[d] + SpentOn(m, at) - SpentOn(l, at)
        /\ Available(m, a, d) >= 0
    BY DEF Posted
  <2> HIDE DEF at
  <2>3. /\ SumFunctionOnSet(Amounts(m), OnAccount(m, a, d, Unsettled)) =
             SumFunctionOnSet(Amounts(l), OnAccount(l, a, d, Unsettled)) + Held(m, at) - Held(l, at)
        /\ SumFunctionOnSet(Costs(m), OnAccount(m, a, d, {"settled"})) =
             SumFunctionOnSet(Costs(l), OnAccount(l, a, d, {"settled"}))
               + SpentOn(m, at) - SpentOn(l, at)
    BY <1>1, <2>1, ColumnsMove
  <2> QED BY <1>2, <1>4, <2>2, <2>3
<1>5. CASE b # a
  <2>1. \A id \in Reservations : AccountOf(id) = b /\ id.dim = d => Alike(l, m, id)
    <3> SUFFICES ASSUME NEW id \in Reservations, AccountOf(id) = b, id.dim = d,
                        id.to = to, id.call = k
                 PROVE  FALSE
      OBVIOUS
    <3>1. id = at
      BY <1>3
    <3> QED BY <1>1, <1>5, <3>1
  <2>2. m.account[b] = l.account[b]
    BY <1>5
  <2>3. Available(m, b, d) = Available(l, b, d)
    BY <2>2 DEF Available
  <2> HIDE DEF at
  <2> QED BY <1>2, <2>1, <2>2, <2>3, ColumnsStay
<1> QED BY <1>4, <1>5

LEMMA BalanceSheet ==
    ASSUME NEW l \in Ledgers, Balanced(l), NEW a \in Accounts, NEW d \in Dims
    PROVE  /\ l.account[a].reserved[d] \in Nat
           /\ l.account[a].consumed[d] \in Nat
           /\ l.account[a].limits[d] \in Nat
           /\ l.account[a].kept[d] \in Nat
           /\ l.account[a].consumed[d] + l.account[a].reserved[d] <= l.account[a].limits[d]
           /\ \A id \in Reservations :
                AccountOf(id) = a /\ id.dim = d => Held(l, id) <= l.account[a].reserved[d]
<1>1. l.account[a] \in Account /\ \A id \in Reservations : l.reservation[id] \in Reservation
  BY DEF Ledgers
<1> DEFINE A == OnAccount(l, a, d, Unsettled)
           f == Amounts(l)
<1>2. l.account[a].reserved[d] = SumFunctionOnSet(f, A) /\ Available(l, a, d) >= 0
  BY DEF Balanced
<1>3. IsFiniteSet(A)
  <2>1. A \subseteq Reservations
    BY DEF OnAccount
  <2> HIDE DEF A
  <2> QED BY <2>1, ReservationsAreFinite, FS_Subset
<1>4. \A id \in A : f[id] \in Nat
  BY <1>1 DEF OnAccount, Amounts, Reservation
<1>5. /\ SumFunctionOnSet(f, A) \in Nat
      /\ \A id \in A : f[id] <= SumFunctionOnSet(f, A)
  <2> HIDE DEF A, f
  <2> QED BY <1>3, <1>4, SumBounds
<1>6. ASSUME NEW id \in Reservations, AccountOf(id) = a, id.dim = d
      PROVE  Held(l, id) <= l.account[a].reserved[d]
  <2>1. CASE l.reservation[id].state \in Unsettled
    <3>1. id \in A /\ f[id] = Held(l, id)
      BY <1>6, <2>1 DEF OnAccount, Amounts, Held
    <3> HIDE DEF A, f
    <3> QED BY <1>2, <1>5, <3>1
  <2>2. CASE l.reservation[id].state \notin Unsettled
    <3> HIDE DEF A, f
    <3> QED BY <1>2, <1>5, <2>2 DEF Held
  <2> QED BY <2>1, <2>2
<1>7. l.account[a].reserved[d] \in Nat
  <2> HIDE DEF A, f
  <2> QED BY <1>2, <1>5
<1>8. l.account[a].consumed[d] \in Nat /\ l.account[a].limits[d] \in Nat /\ l.account[a].kept[d] \in Nat
  BY <1>1 DEF Account
<1>9. l.account[a].consumed[d] + l.account[a].reserved[d] <= l.account[a].limits[d]
  BY <1>2, <1>7, <1>8 DEF Available
<1> HIDE DEF A, f
<1> QED BY <1>6, <1>7, <1>8, <1>9

-----------------------------------------------------------------------------
(* Every operation keeps a ledger sound.                                   *)

LEMMA Slots ==
    /\ \A c \in Calls : /\ c = <<c[1], c[2]>> /\ c[1] \in Runs /\ c[2] \in 1..MaxCalls
                       /\ c[2] # 0
                       /\ CallCost[ToolOf(c)] \in [Dims -> Nat]
    /\ \A c \in Calls, d \in Dims : /\ CallOf(c[1], c[2], d) \in Reservations
                                  /\ AccountOf(CallOf(c[1], c[2], d)) = c[1]
    /\ Runs \subseteq Accounts
<1>1. \A c \in Calls : /\ c = <<c[1], c[2]>> /\ c[1] \in Runs /\ c[2] \in 1..MaxCalls
                       /\ c[2] # 0
                       /\ ToolOf(c) \in Tools
  BY ScriptLengths, BudgetTreeAssumption DEF Calls, ToolOf
<1>2. \A t \in Tools : CallCost[t] \in [Dims -> Nat]
  BY ToolExecutionAssumption
<1>3. Runs \subseteq Accounts
  BY DEF Accounts
<1> QED BY <1>1, <1>2, <1>3, Ids

LEMMA Grants ==
    /\ \A a \in Projects \cup Runs :
         /\ Parent(a) \in Accounts /\ Parent(a) # a
         /\ a \in Accounts /\ a # Tenant
    /\ \A a \in Projects \cup Runs, d \in Dims :
         /\ CallOf(a, 0, d) = Grant(a, d) /\ Grant(a, d) \in Reservations
         /\ AccountOf(Grant(a, d)) = Parent(a)
    /\ Tenant \in Accounts
    /\ \A id \in Reservations : AccountOf(id) \in Accounts
<1>1. \A a \in Projects \cup Runs : Parent(a) # a /\ a \in Accounts /\ a # Tenant
  BY BudgetTreeAssumption DEF Parent, Accounts
<1>2. \A a \in Projects \cup Runs : Parent(a) \in Accounts
  BY BudgetTreeAssumption DEF Parent, Accounts
<1>3. Tenant \in Accounts
  BY DEF Accounts
<1>4. \A a, d : CallOf(a, 0, d) = Grant(a, d)
  BY DEF CallOf, Grant
<1> QED BY <1>1, <1>2, <1>3, <1>4, Ids

\* Opening an account that nothing lies on.
LEMMA OpenBalanced ==
    ASSUME NEW l \in Ledgers, Balanced(l), NEW a \in Accounts,
           NEW limits \in [Dims -> Nat], NEW kept \in [Dims -> Nat],
           \A d \in Dims : kept[d] <= limits[d],
           \A id \in Reservations : AccountOf(id) = a => l.reservation[id].state = "none"
    PROVE  Balanced(OpenAccount(l, a, limits, kept))
<1> DEFINE m == OpenAccount(l, a, limits, kept)
<1>1. /\ m \in Ledgers /\ m.reservation = l.reservation
      /\ \A b \in Accounts \ {a} : m.account[b] = l.account[b]
      /\ m.account[a].reserved = Nothing /\ m.account[a].consumed = Nothing
      /\ m.account[a].limits = limits /\ m.account[a].kept = kept
  BY OpenAccountType, LedgerParts DEF OpenAccount
<1> HIDE DEF m
<1> SUFFICES ASSUME NEW b \in Accounts, NEW d \in Dims
             PROVE  /\ m.account[b].reserved[d] =
                         SumFunctionOnSet(Amounts(m), OnAccount(m, b, d, Unsettled))
                    /\ m.account[b].consumed[d] =
                         SumFunctionOnSet(Costs(m), OnAccount(m, b, d, {"settled"}))
                    /\ Available(m, b, d) >= 0
  BY DEF Balanced, m
<1>2. CASE b = a
  <2>1. OnAccount(m, a, d, Unsettled) = {} /\ OnAccount(m, a, d, {"settled"}) = {}
    BY <1>1 DEF OnAccount, Unsettled
  <2>2. m.account[a].reserved[d] = 0 /\ m.account[a].consumed[d] = 0
    BY <1>1 DEF Nothing
  <2>3. Available(m, a, d) >= 0
    <3>1. limits[d] \in Nat /\ kept[d] \in Nat /\ kept[d] <= limits[d]
      OBVIOUS
    <3> QED BY <1>1, <2>2, <3>1 DEF Available
  <2> QED BY <1>2, <2>1, <2>2, <2>3, SumOfNothing
<1>3. CASE b # a
  <2>1. m.account[b] = l.account[b]
    BY <1>1, <1>3
  <2>2. /\ Amounts(m) = Amounts(l) /\ Costs(m) = Costs(l)
        /\ OnAccount(m, b, d, Unsettled) = OnAccount(l, b, d, Unsettled)
        /\ OnAccount(m, b, d, {"settled"}) = OnAccount(l, b, d, {"settled"})
    BY <1>1 DEF OnAccount, Amounts, Costs
  <2> QED BY <2>1, <2>2 DEF Balanced, Available
<1> QED BY <1>2, <1>3

LEMMA OpenTenantSound ==
    ASSUME NEW l \in Ledgers, Sound(l), ~l.account[Tenant].open
    PROVE  Sound(OpenAccount(l, Tenant, TenantLimit, CompletionReserve))
<1> DEFINE m == OpenAccount(l, Tenant, TenantLimit, CompletionReserve)
<1>1. /\ m.reservation = l.reservation
      /\ \A b \in Accounts \ {Tenant} : m.account[b] = l.account[b]
      /\ m.account[Tenant].open
  BY Grants, LedgerParts DEF OpenAccount
<1>2. Balanced(m)
  <2>1. \A id \in Reservations : AccountOf(id) = Tenant => l.reservation[id].state = "none"
    BY DEF Sound, Granted
  <2> QED BY <2>1, Grants, OpenBalanced, BudgetTreeAssumption, ReserveIsWithinLimit DEF Sound
<1> HIDE DEF m
<1>3. Granted(m)
  <2>1. \A a \in Accounts : l.account[a].open => m.account[a].open
    BY <1>1
  <2>2. \A a \in Projects \cup Runs : m.account[a] = l.account[a]
    BY <1>1, Grants
  <2> QED BY <1>1, <2>1, <2>2, Grants DEF Sound, Granted
<1>4. Priced(m)
  BY <1>1 DEF Sound, Priced
<1> QED BY <1>2, <1>3, <1>4 DEF Sound, m

\* What a batch shows in the columns of the account that reserves.
LEMMA BatchBalanced ==
    ASSUME NEW l \in Ledgers, Balanced(l), NEW a \in Accounts, NEW to, NEW k,
           NEW amounts \in [Dims -> Nat], Fits(l, a, amounts),
           \A d \in Dims : /\ CallOf(to, k, d) \in Reservations
                           /\ AccountOf(CallOf(to, k, d)) = a
                           /\ l.reservation[CallOf(to, k, d)].state = "none"
    PROVE  Balanced(BatchReserve(l, a, to, k, amounts))
<1> DEFINE m == BatchReserve(l, a, to, k, amounts)
<1>1. m \in Ledgers
  BY BatchReserveType
<1>2. /\ m.reservation = HeldFor(l, to, k, amounts)
      /\ \A b \in Accounts \ {a} : m.account[b] = l.account[b]
      /\ m.account[a].reserved = [d \in Dims |-> l.account[a].reserved[d] + amounts[d]]
      /\ m.account[a].consumed = l.account[a].consumed
      /\ m.account[a].limits = l.account[a].limits
      /\ m.account[a].kept = l.account[a].kept
  <2>1. l.account \in [Accounts -> Account] /\ l.account[a] \in Account
    BY DEF Ledgers
  <2> QED BY <2>1 DEF BatchReserve, Book, Account
<1> HIDE DEF m
<1>3. \A id \in Reservations : ~ (id.to = to /\ id.call = k) => Alike(l, m, id)
  BY <1>2 DEF HeldFor, Alike
<1>4. ASSUME NEW d \in Dims
      PROVE  Posted(l, m, a, d, CallOf(to, k, d))
  <2> DEFINE id == CallOf(to, k, d)
  <2>1. id \in Reservations /\ id.to = to /\ id.call = k /\ id.dim = d
        /\ l.reservation[id].state = "none"
    BY IdParts
  <2>2. m.reservation[id] = [state |-> "held", amount |-> amounts[d], consumed |-> 0]
    BY <1>2, <2>1 DEF HeldFor
  <2> HIDE DEF id
  <2>3. Held(m, id) = amounts[d] /\ SpentOn(m, id) = 0
    BY <2>2 DEF Held, SpentOn, Unsettled
  <2>4. Held(l, id) = 0 /\ SpentOn(l, id) = 0
    BY <2>1 DEF Held, SpentOn, Unsettled
  <2>5. /\ l.account[a].reserved[d] \in Nat /\ l.account[a].consumed[d] \in Nat
        /\ l.account[a].limits[d] \in Nat /\ l.account[a].kept[d] \in Nat
    BY BalanceSheet
  <2>6. amounts[d] \in Nat /\ amounts[d] <= Available(l, a, d)
    BY DEF Fits
  <2>7. Available(m, a, d) >= 0
    BY <1>2, <2>5, <2>6 DEF Available
  <2> QED BY <1>2, <2>3, <2>4, <2>5, <2>6, <2>7 DEF id, Posted
<1>5. Balanced(m)
  BY <1>1, <1>2, <1>3, <1>4, Posts
<1> QED BY <1>5 DEF m

LEMMA ReserveSound ==
    ASSUME NEW l \in Ledgers, Sound(l), NEW c \in Calls,
           \A d \in Dims : l.reservation[CallOf(c[1], c[2], d)].state = "none",
           Fits(l, c[1], CallCost[ToolOf(c)])
    PROVE  Sound(BatchReserve(l, c[1], c[1], c[2], CallCost[ToolOf(c)]))
<1> DEFINE r == c[1]
           k == c[2]
           amounts == CallCost[ToolOf(c)]
           m == BatchReserve(l, r, r, k, amounts)
<1>0. r \in Runs /\ r \in Accounts /\ k # 0 /\ amounts \in [Dims -> Nat]
      /\ k \in 1..MaxCalls
  BY Slots
<1>1. Balanced(m)
  BY <1>0, Slots, BatchBalanced DEF Sound
<1>2. /\ m.reservation = HeldFor(l, r, k, amounts)
      /\ \A b \in Accounts : m.account[b].open = l.account[b].open
                             /\ m.account[b].limits = l.account[b].limits
  <2>1. l.account \in [Accounts -> Account]
    BY DEF Ledgers
  <2> QED BY <1>0, <2>1 DEF BatchReserve, Book, Account
<1>3. l.account[r].open
  BY DEF Fits
<1> HIDE DEF m
<1>4. \A id \in Reservations :
        m.reservation[id] = IF id.to = r /\ id.call = k
                            THEN [state |-> "held", amount |-> amounts[id.dim], consumed |-> 0]
                            ELSE l.reservation[id]
  BY <1>2 DEF HeldFor
<1>5. \A a \in Projects \cup Runs, d \in Dims :
        m.reservation[Grant(a, d)] = l.reservation[Grant(a, d)]
  BY <1>0, <1>4, Grants DEF Grant
<1>6. \A id \in Reservations : id.to = r /\ id.call = k => AccountOf(id) = r
  BY <1>0 DEF AccountOf
<1>7. Granted(m)
  <2>1. \A id \in Reservations : m.reservation[id].state # "none" => m.account[AccountOf(id)].open
    BY <1>2, <1>3, <1>4, <1>6, Grants DEF Sound, Granted
  <2>2. \A a \in Projects \cup Runs, d \in Dims :
         /\ m.account[a].open <=> m.reservation[Grant(a, d)].state # "none"
         /\ m.account[a].open => m.account[a].limits[d] = m.reservation[Grant(a, d)].amount
    BY <1>2, <1>5, Grants DEF Sound, Granted
  <2> QED BY <2>1, <2>2 DEF Granted
<1>8. Priced(m)
  <2> SUFFICES ASSUME NEW b \in Calls, NEW d \in Dims,
                      m.reservation[CallOf(b[1], b[2], d)].state # "none"
               PROVE  m.reservation[CallOf(b[1], b[2], d)].amount = CallCost[ToolOf(b)][d]
    BY DEF Priced
  <2> DEFINE id == CallOf(b[1], b[2], d)
  <2>1. id \in Reservations /\ id.to = b[1] /\ id.call = b[2] /\ id.dim = d
    BY Slots, IdParts
  <2>2. CASE b = c
    <3>1. m.reservation[id] = [state |-> "held", amount |-> amounts[d], consumed |-> 0]
      BY <1>4, <2>1, <2>2
    <3> QED BY <2>2, <3>1
  <2>3. CASE b # c
    <3>1. ~ (b[1] = r /\ b[2] = k)
      BY <2>3, Slots
    <3>2. m.reservation[id] = l.reservation[id]
      BY <1>4, <2>1, <3>1
    <3> QED BY <3>2 DEF Sound, Priced
  <2> QED BY <2>2, <2>3
<1> QED BY <1>1, <1>7, <1>8 DEF Sound, m

LEMMA GrantSound ==
    ASSUME NEW l \in Ledgers, Sound(l), NEW a \in Projects \cup Runs,
           NEW amounts \in [Dims -> Nat], Fits(l, Parent(a), amounts), ~l.account[a].open
    PROVE  Sound(GrantToChild(l, a, amounts))
<1> DEFINE p == Parent(a)
           n == BatchReserve(l, p, a, 0, amounts)
           m == OpenAccount(n, a, amounts, Nothing)
<1>0. /\ p \in Accounts /\ p # a /\ a \in Accounts /\ Nothing \in [Dims -> Nat]
      /\ \A d \in Dims : Nothing[d] <= amounts[d]
  BY Grants DEF Nothing
<1>1. \A d \in Dims : l.reservation[Grant(a, d)].state = "none"
  BY DEF Sound, Granted
<1>2. n \in Ledgers /\ Balanced(n)
  BY <1>0, <1>1, Grants, BatchBalanced, BatchReserveType DEF Sound
<1>3. /\ \A b \in Accounts : n.account[b].open = l.account[b].open
                             /\ n.account[b].limits = l.account[b].limits
      /\ n.account[a] = l.account[a]
  <2>1. l.account \in [Accounts -> Account]
    BY DEF Ledgers
  <2> QED BY <1>0, <2>1 DEF BatchReserve, Book, Account
<1>4. \A id \in Reservations :
        n.reservation[id] = IF id.to = a /\ id.call = 0
                            THEN [state |-> "held", amount |-> amounts[id.dim], consumed |-> 0]
                            ELSE l.reservation[id]
  BY DEF BatchReserve, Book, HeldFor
<1>5. \A id \in Reservations : AccountOf(id) = a => n.reservation[id].state = "none"
  <2> SUFFICES ASSUME NEW id \in Reservations, AccountOf(id) = a
               PROVE  n.reservation[id].state = "none"
    OBVIOUS
  <2>1. ~ (id.to = a /\ id.call = 0)
    BY <1>0 DEF AccountOf
  <2>2. l.reservation[id].state = "none"
    BY DEF Sound, Granted
  <2> QED BY <1>4, <2>1, <2>2
<1> HIDE DEF n
<1>6. Balanced(m)
  BY <1>0, <1>2, <1>5, OpenBalanced
<1>7. /\ m.reservation = n.reservation
      /\ m.account[a].open /\ m.account[a].limits = amounts
      /\ \A b \in Accounts \ {a} : m.account[b] = n.account[b]
  BY <1>0, <1>2, LedgerParts DEF OpenAccount
<1>8. l.account[p].open
  BY DEF Fits
<1> HIDE DEF m
<1>9. Granted(m)
  <2>1. ASSUME NEW id \in Reservations, m.reservation[id].state # "none"
        PROVE  m.account[AccountOf(id)].open
    <3>1. CASE id.to = a /\ id.call = 0
      <4>1. AccountOf(id) = p
        BY <3>1 DEF AccountOf
      <4> QED BY <1>0, <1>3, <1>7, <1>8, <4>1
    <3>2. CASE ~ (id.to = a /\ id.call = 0)
      <4>1. l.reservation[id].state # "none"
        BY <1>4, <1>7, <2>1, <3>2
      <4>2. l.account[AccountOf(id)].open /\ AccountOf(id) \in Accounts
        BY <4>1, Grants DEF Sound, Granted
      <4> QED BY <1>3, <1>7, <4>2
    <3> QED BY <3>1, <3>2
  <2>2. ASSUME NEW b \in Projects \cup Runs, NEW d \in Dims
        PROVE  /\ m.account[b].open <=> m.reservation[Grant(b, d)].state # "none"
               /\ m.account[b].open => m.account[b].limits[d] = m.reservation[Grant(b, d)].amount
    <3>1. /\ Grant(b, d) \in Reservations /\ Grant(b, d).to = b /\ Grant(b, d).call = 0
          /\ Grant(b, d).dim = d /\ b \in Accounts
      BY Grants, IdParts
    <3>2. CASE b = a
      <4>1. m.reservation[Grant(b, d)] = [state |-> "held", amount |-> amounts[d], consumed |-> 0]
        BY <1>4, <1>7, <3>1, <3>2
      <4> QED BY <1>7, <3>2, <4>1
    <3>3. CASE b # a
      <4>1. m.reservation[Grant(b, d)] = l.reservation[Grant(b, d)]
        BY <1>4, <1>7, <3>1, <3>3
      <4>2. m.account[b].open = l.account[b].open /\ m.account[b].limits = l.account[b].limits
        BY <1>3, <1>7, <3>1, <3>3
      <4> QED BY <4>1, <4>2 DEF Sound, Granted
    <3> QED BY <3>2, <3>3
  <2> QED BY <2>1, <2>2 DEF Granted
<1>10. Priced(m)
  <2> SUFFICES ASSUME NEW c \in Calls, NEW d \in Dims
               PROVE  m.reservation[CallOf(c[1], c[2], d)] = l.reservation[CallOf(c[1], c[2], d)]
    BY DEF Sound, Priced
  <2>1. CallOf(c[1], c[2], d) \in Reservations /\ CallOf(c[1], c[2], d).call # 0
    BY Slots, IdParts
  <2> QED BY <1>4, <1>7, <2>1
<1>11. Sound(m)
  BY <1>6, <1>9, <1>10 DEF Sound
<1> QED BY <1>11 DEF m, n, GrantToChild

\* What the other two parts of Sound depend on.
LEMMA ShapeKept ==
    ASSUME NEW l, NEW m, Granted(l), Priced(l),
           \A b \in Accounts : /\ m.account[b].open = l.account[b].open
                               /\ m.account[b].limits = l.account[b].limits,
           \A id \in Reservations :
              /\ m.reservation[id].amount = l.reservation[id].amount
              /\ m.reservation[id].state = "none" <=> l.reservation[id].state = "none"
    PROVE  Granted(m) /\ Priced(m)
<1>1. Granted(m)
  BY Grants DEF Granted
<1>2. Priced(m)
  BY Slots DEF Priced
<1> QED BY <1>1, <1>2

LEMMA MarkSound ==
    ASSUME NEW l \in Ledgers, Sound(l), NEW at \in Reservations,
           l.reservation[at].state = "held"
    PROVE  Sound(MarkInFlight(l, at))
<1> DEFINE m == MarkInFlight(l, at)
<1>1. m \in Ledgers
  BY MarkType
<1>2. /\ m.account = l.account
      /\ \A id \in Reservations : m.reservation[id] =
           IF id = at THEN [l.reservation[id] EXCEPT !.state = "in_flight"] ELSE l.reservation[id]
  <2>1. m = [account |-> l.account, reservation |->
               [l.reservation EXCEPT ![at] = [@ EXCEPT !.state = "in_flight"]]]
    BY LedgerParts DEF MarkInFlight
  <2>2. l.reservation \in [Reservations -> Reservation]
    BY DEF Ledgers
  <2> QED BY <2>1, <2>2
<1> HIDE DEF m
<1>3. \A id \in Reservations :
        /\ m.reservation[id].amount = l.reservation[id].amount
        /\ m.reservation[id].consumed = l.reservation[id].consumed
        /\ m.reservation[id].state = IF id = at THEN "in_flight" ELSE l.reservation[id].state
  <2>1. \A id \in Reservations : l.reservation[id] \in Reservation
    BY DEF Ledgers
  <2> QED BY <1>2, <2>1 DEF Reservation
<1>4. \A id \in Reservations : Alike(l, m, id)
  BY <1>3 DEF Alike, Unsettled
<1>5. Balanced(m)
  <2> SUFFICES ASSUME NEW a \in Accounts, NEW d \in Dims
               PROVE  /\ m.account[a].reserved[d] =
                           SumFunctionOnSet(Amounts(m), OnAccount(m, a, d, Unsettled))
                      /\ m.account[a].consumed[d] =
                           SumFunctionOnSet(Costs(m), OnAccount(m, a, d, {"settled"}))
                      /\ Available(m, a, d) >= 0
    BY DEF Balanced
  <2> QED BY <1>1, <1>2, <1>4, ColumnsStay DEF Sound, Balanced, Available
<1>6. Granted(m) /\ Priced(m)
  BY <1>2, <1>3, ShapeKept DEF Sound
<1> QED BY <1>5, <1>6 DEF Sound, m

LEMMA SettleSound ==
    ASSUME NEW l \in Ledgers, Sound(l), NEW c \in Calls, NEW e \in Dims,
           l.reservation[CallOf(c[1], c[2], e)].state \in Unsettled,
           NEW actual \in 0..CallCost[ToolOf(c)][e]
    PROVE  Sound(Settle(l, CallOf(c[1], c[2], e), actual))
<1> DEFINE r == c[1]
           at == CallOf(r, c[2], e)
           m == Settle(l, at, actual)
<1>0. /\ r \in Accounts /\ at \in Reservations /\ AccountOf(at) = r /\ at.dim = e
      /\ at.to = r /\ at.call = c[2]
      /\ CallCost[ToolOf(c)][e] \in Nat /\ actual \in Nat
      /\ actual <= CallCost[ToolOf(c)][e]
      /\ l.reservation[at].state \in Unsettled
  <2>1. CallCost[ToolOf(c)] \in [Dims -> Nat]
    BY Slots
  <2> QED BY <2>1, Slots, IdParts
<1>1. l.reservation[at].amount = CallCost[ToolOf(c)][e]
  BY <1>0 DEF Sound, Priced, Unsettled
<1>2. m \in Ledgers
  BY <1>0, SettleType
<1> HIDE DEF at
<1>3. /\ \A id \in Reservations : m.reservation[id] =
           IF id = at THEN [l.reservation[id] EXCEPT !.state = "settled", !.consumed = actual]
           ELSE l.reservation[id]
      /\ \A b \in Accounts \ {r} : m.account[b] = l.account[b]
      /\ m.account[r].open = l.account[r].open /\ m.account[r].limits = l.account[r].limits
      /\ m.account[r].kept = l.account[r].kept
      /\ m.account[r].reserved =
           [l.account[r].reserved EXCEPT ![e] = @ - l.reservation[at].amount]
      /\ m.account[r].consumed = [l.account[r].consumed EXCEPT ![e] = @ + actual]
  <2>1. /\ l.account \in [Accounts -> Account] /\ l.account[r] \in Account
        /\ l.reservation \in [Reservations -> Reservation]
    BY <1>0 DEF Ledgers
  <2> QED BY <1>0, <2>1 DEF Settle, Book, Account
<1> HIDE DEF m
<1>4. \A id \in Reservations :
        /\ m.reservation[id].amount = l.reservation[id].amount
        /\ id # at => Alike(l, m, id)
        /\ m.reservation[id].state = IF id = at THEN "settled" ELSE l.reservation[id].state
        /\ id = at => m.reservation[id].consumed = actual
  <2>1. \A id \in Reservations : l.reservation[id] \in Reservation
    BY DEF Ledgers
  <2> QED BY <1>3, <2>1 DEF Reservation, Alike
<1>5. \A id \in Reservations : ~ (id.to = r /\ id.call = c[2]) => Alike(l, m, id)
  BY <1>0, <1>4
<1>6. ASSUME NEW d \in Dims
      PROVE  Posted(l, m, r, d, CallOf(r, c[2], d))
  <2> DEFINE id == CallOf(r, c[2], d)
  <2>1. id \in Reservations /\ (id = at <=> d = e)
    BY Slots, IdParts DEF at
  <2>2. /\ l.account[r].reserved[d] \in Nat /\ l.account[r].consumed[d] \in Nat
        /\ l.account[r].limits[d] \in Nat /\ l.account[r].kept[d] \in Nat
        /\ l.account[r].reserved \in [Dims -> Int] /\ l.account[r].consumed \in [Dims -> Nat]
    BY <1>0, BalanceSheet, LedgerParts DEF Sound
  <2>3. Available(l, r, d) >= 0
    BY <1>0 DEF Sound, Balanced
  <2> HIDE DEF id
  <2>4. CASE d = e
    <3>1. Held(m, id) = 0 /\ SpentOn(m, id) = actual
      BY <1>0, <1>4, <2>1, <2>4 DEF Held, SpentOn, Unsettled
    <3>2. Held(l, id) = l.reservation[at].amount /\ SpentOn(l, id) = 0
      BY <1>0, <2>1, <2>4 DEF Held, SpentOn, Unsettled
    <3>3. /\ m.account[r].reserved[d] = l.account[r].reserved[d] - l.reservation[at].amount
          /\ m.account[r].consumed[d] = l.account[r].consumed[d] + actual
      BY <1>3, <2>2, <2>4
    <3>4. l.reservation[at].amount \in Nat /\ actual <= l.reservation[at].amount
      BY <1>0, <1>1
    <3>5. Available(m, r, d) >= 0
      <4>1. /\ m.account[r].limits[d] = l.account[r].limits[d]
            /\ m.account[r].kept[d] = l.account[r].kept[d]
        BY <1>3
      <4>2. actual \in Nat
        BY <1>0
      <4> HIDE DEF r
      <4> QED BY <2>2, <2>3, <3>3, <3>4, <4>1, <4>2 DEF Available
    <3> QED BY <1>0, <2>2, <3>1, <3>2, <3>3, <3>4, <3>5 DEF Posted, id
  <2>5. CASE d # e
    <3>1. Held(m, id) = Held(l, id) /\ SpentOn(m, id) = SpentOn(l, id)
      BY <1>4, <2>1, <2>5 DEF Alike, Held, SpentOn
    <3>2. Held(l, id) \in Int /\ SpentOn(l, id) \in Int
      BY <2>1, LedgerParts DEF Held, SpentOn
    <3>3. /\ m.account[r].reserved[d] = l.account[r].reserved[d]
          /\ m.account[r].consumed[d] = l.account[r].consumed[d]
      BY <1>3, <2>2, <2>5
    <3>4. Available(m, r, d) >= 0
      BY <1>3, <2>3, <3>3 DEF Available
    <3> QED BY <2>2, <3>1, <3>2, <3>3, <3>4 DEF Posted, id
  <2> QED BY <2>4, <2>5
<1>7. Balanced(m)
  <2>1. \A d \in Dims : /\ CallOf(r, c[2], d) \in Reservations
                        /\ AccountOf(CallOf(r, c[2], d)) = r
    BY Slots
  <2> QED BY <1>0, <1>2, <1>3, <1>5, <1>6, <2>1, Posts DEF Sound
<1>8. Granted(m) /\ Priced(m)
  <2>1. \A b \in Accounts : /\ m.account[b].open = l.account[b].open
                            /\ m.account[b].limits = l.account[b].limits
    BY <1>3
  <2>2. \A id \in Reservations :
              /\ m.reservation[id].amount = l.reservation[id].amount
              /\ m.reservation[id].state = "none" <=> l.reservation[id].state = "none"
    BY <1>0, <1>4 DEF Unsettled
  <2> QED BY <2>1, <2>2, ShapeKept DEF Sound
<1> QED BY <1>7, <1>8 DEF Sound, m, at

LEMMA ReleaseSound ==
    ASSUME NEW l \in Ledgers, Sound(l), NEW r \in Runs, NEW k \in 1..MaxCalls
    PROVE  Sound(ReleaseQuietly(l, r, k))
<1> DEFINE m == ReleaseQuietly(l, r, k)
<1>0. /\ r \in Accounts
      /\ \A d \in Dims : CallOf(r, k, d) \in Reservations /\ AccountOf(CallOf(r, k, d)) = r
  BY Ids DEF Accounts
<1>1. m \in Ledgers
  BY ReleaseType
<1>2. /\ \A id \in Reservations : m.reservation[id] =
           IF id.to = r /\ id.call = k /\ Releasable(l, id)
           THEN [l.reservation[id] EXCEPT !.state = "released"] ELSE l.reservation[id]
      /\ \A b \in Accounts \ {r} : m.account[b] = l.account[b]
      /\ m.account[r].open = l.account[r].open /\ m.account[r].limits = l.account[r].limits
      /\ m.account[r].kept = l.account[r].kept
      /\ m.account[r].consumed = l.account[r].consumed
      /\ \A d \in Dims : m.account[r].reserved[d] =
           l.account[r].reserved[d]
             - IF Releasable(l, CallOf(r, k, d)) THEN l.reservation[CallOf(r, k, d)].amount ELSE 0
  <2>1. l.account \in [Accounts -> Account] /\ l.account[r] \in Account
    BY <1>0 DEF Ledgers
  <2> QED BY <1>0, <2>1 DEF ReleaseQuietly, Book, Account
<1> HIDE DEF m
<1>3. \A id \in Reservations :
        /\ m.reservation[id].amount = l.reservation[id].amount
        /\ ~ (id.to = r /\ id.call = k) => Alike(l, m, id)
        /\ id.to = r /\ id.call = k =>
             /\ m.reservation[id].state =
                  IF Releasable(l, id) THEN "released" ELSE l.reservation[id].state
             /\ m.reservation[id].consumed = l.reservation[id].consumed
        /\ m.reservation[id].state = "none" <=> l.reservation[id].state = "none"
  <2>1. \A id \in Reservations : l.reservation[id] \in Reservation
    BY DEF Ledgers
  <2> QED BY <1>2, <2>1 DEF Reservation, Alike, Releasable
<1>4. ASSUME NEW d \in Dims
      PROVE  Posted(l, m, r, d, CallOf(r, k, d))
  <2> DEFINE id == CallOf(r, k, d)
  <2>1. id \in Reservations /\ id.to = r /\ id.call = k
    BY <1>0, IdParts
  <2>2. /\ l.account[r].reserved[d] \in Nat /\ l.account[r].consumed[d] \in Nat
        /\ l.account[r].limits[d] \in Nat /\ l.account[r].kept[d] \in Nat
    BY <1>0, BalanceSheet DEF Sound
  <2>3. Available(l, r, d) >= 0 /\ l.reservation[id].amount \in Nat
        /\ l.reservation[id].consumed \in Nat
    BY <1>0, <2>1, LedgerParts DEF Sound, Balanced
  <2>4. m.account[r].reserved[d] =
          l.account[r].reserved[d] - IF Releasable(l, id) THEN l.reservation[id].amount ELSE 0
    BY <1>2
  <2> HIDE DEF id
  <2>5. /\ Held(l, id) - Held(m, id) =
             IF Releasable(l, id) THEN l.reservation[id].amount ELSE 0
        /\ SpentOn(m, id) = SpentOn(l, id)
        /\ Held(l, id) \in Int /\ Held(m, id) \in Int /\ SpentOn(l, id) \in Int
    BY <1>3, <2>1, <2>3 DEF Releasable, Held, SpentOn, Unsettled
  <2>6. Available(m, r, d) >= 0
    BY <1>2, <2>2, <2>3, <2>4 DEF Available
  <2> QED BY <1>2, <2>2, <2>3, <2>4, <2>5, <2>6 DEF Posted, id
<1>5. Balanced(m)
  BY <1>0, <1>1, <1>2, <1>3, <1>4, Posts DEF Sound
<1>6. Granted(m) /\ Priced(m)
  <2>1. \A b \in Accounts : /\ m.account[b].open = l.account[b].open
                            /\ m.account[b].limits = l.account[b].limits
    BY <1>2
  <2> QED BY <1>3, <2>1, ShapeKept DEF Sound
<1> QED BY <1>5, <1>6 DEF Sound, m

LEMMA CloseSound ==
    ASSUME NEW l \in Ledgers, Sound(l), NEW r \in Runs,
           \A d \in Dims : l.reservation[Grant(r, d)].state = "held"
    PROVE  Sound(CloseAccount(l, r))
<1> DEFINE p == Parent(r)
           m == CloseAccount(l, r)
<1>0. /\ p \in Accounts /\ r \in Accounts /\ p # r
      /\ \A d \in Dims : /\ CallOf(r, 0, d) = Grant(r, d) /\ Grant(r, d) \in Reservations
                         /\ AccountOf(Grant(r, d)) = p
  BY Grants
<1>1. m \in Ledgers
  BY CloseType
<1> HIDE DEF p
<1>2. /\ \A id \in Reservations : m.reservation[id] =
           IF id.to = r /\ id.call = 0
           THEN [l.reservation[id] EXCEPT
                   !.state = "settled", !.consumed = l.account[r].consumed[id.dim]]
           ELSE l.reservation[id]
      /\ \A b \in Accounts \ {p} : m.account[b] = l.account[b]
      /\ m.account[p].open = l.account[p].open /\ m.account[p].limits = l.account[p].limits
      /\ m.account[p].kept = l.account[p].kept
      /\ \A d \in Dims :
           /\ m.account[p].reserved[d] =
                l.account[p].reserved[d] - l.reservation[Grant(r, d)].amount
           /\ m.account[p].consumed[d] = l.account[p].consumed[d] + l.account[r].consumed[d]
  <2>1. l.account \in [Accounts -> Account] /\ l.account[p] \in Account
    BY <1>0 DEF Ledgers
  <2> QED BY <1>0, <2>1 DEF CloseAccount, Book, Account, GrantSettled, p
<1> HIDE DEF m
<1>3. \A id \in Reservations :
        /\ m.reservation[id].amount = l.reservation[id].amount
        /\ ~ (id.to = r /\ id.call = 0) => Alike(l, m, id)
        /\ id.to = r /\ id.call = 0 =>
             /\ m.reservation[id].state = "settled"
             /\ m.reservation[id].consumed = l.account[r].consumed[id.dim]
  <2>1. \A id \in Reservations : l.reservation[id] \in Reservation
    BY DEF Ledgers
  <2> QED BY <1>2, <2>1 DEF Reservation, Alike
<1>4. ASSUME NEW d \in Dims
      PROVE  Posted(l, m, p, d, CallOf(r, 0, d))
  <2> DEFINE id == Grant(r, d)
  <2>1. /\ id \in Reservations /\ id.to = r /\ id.call = 0 /\ id.dim = d
        /\ l.reservation[id].state = "held" /\ AccountOf(id) = p
    BY <1>0, IdParts
  <2>2. /\ l.account[p].reserved[d] \in Nat /\ l.account[p].consumed[d] \in Nat
        /\ l.account[p].limits[d] \in Nat /\ l.account[p].kept[d] \in Nat
    BY <1>0, BalanceSheet DEF Sound
  <2>3. Available(l, p, d) >= 0 /\ l.reservation[id].amount \in Nat
    BY <1>0, <2>1, LedgerParts DEF Sound, Balanced
  <2>4. /\ l.account[r].consumed[d] \in Nat
        /\ l.account[r].consumed[d] <= l.reservation[id].amount
    <3>1. /\ l.account[r].reserved[d] \in Nat /\ l.account[r].consumed[d] \in Nat
          /\ l.account[r].limits[d] \in Nat
          /\ l.account[r].consumed[d] + l.account[r].reserved[d] <= l.account[r].limits[d]
      BY <1>0, BalanceSheet DEF Sound
    <3>2. l.account[r].limits[d] = l.reservation[id].amount
      BY <1>0, <2>1 DEF Sound, Granted
    <3> HIDE DEF id
    <3> QED BY <3>1, <3>2
  <2>5. /\ m.account[p].reserved[d] = l.account[p].reserved[d] - l.reservation[id].amount
        /\ m.account[p].consumed[d] = l.account[p].consumed[d] + l.account[r].consumed[d]
    BY <1>2
  <2> HIDE DEF id
  <2>6. /\ Held(l, id) = l.reservation[id].amount /\ SpentOn(l, id) = 0
        /\ Held(m, id) = 0 /\ SpentOn(m, id) = l.account[r].consumed[d]
    BY <1>3, <2>1 DEF Held, SpentOn, Unsettled
  <2>7. Available(m, p, d) >= 0
    <3>1. /\ m.account[p].limits[d] = l.account[p].limits[d]
          /\ m.account[p].kept[d] = l.account[p].kept[d]
      BY <1>2
    <3> QED BY <2>2, <2>3, <2>4, <2>5, <3>1 DEF Available
  <2>8. Posted(l, m, p, d, id)
    BY <2>2, <2>3, <2>4, <2>5, <2>6, <2>7 DEF Posted
  <2> QED BY <1>0, <2>8 DEF id
<1>5. Balanced(m)
  <2>1. \A d \in Dims : CallOf(r, 0, d) \in Reservations /\ AccountOf(CallOf(r, 0, d)) = p
    BY <1>0
  <2>2. /\ Balanced(l)
        /\ \A id \in Reservations : ~ (id.to = r /\ id.call = 0) => Alike(l, m, id)
        /\ \A b \in Accounts \ {p} : m.account[b] = l.account[b]
    BY <1>2, <1>3 DEF Sound
  <2> QED BY <1>0, <1>1, <1>4, <2>1, <2>2, Posts
<1>6. Granted(m) /\ Priced(m)
  <2>1. \A b \in Accounts : /\ m.account[b].open = l.account[b].open
                            /\ m.account[b].limits = l.account[b].limits
    BY <1>2
  <2>2. \A id \in Reservations : m.reservation[id].state = "none" <=> l.reservation[id].state = "none"
    <3> TAKE id \in Reservations
    <3>1. CASE id.to = r /\ id.call = 0
      <4>1. id = Grant(r, id.dim) /\ id.dim \in Dims
        BY <3>1, IdParts, Ids
      <4>2. l.reservation[id].state = "held"
        BY <4>1
      <4> QED BY <1>3, <3>1, <4>2
    <3>2. CASE ~ (id.to = r /\ id.call = 0)
      BY <1>2, <3>2
    <3> QED BY <3>1, <3>2
  <2> QED BY <1>3, <2>1, <2>2, ShapeKept DEF Sound
<1> QED BY <1>5, <1>6 DEF Sound, m

-----------------------------------------------------------------------------
(* The steps of the requests keep it.                                      *)

\* What a step of a call does to the ledger: it stays sound, and only the slot of the call
\* changes.
LEMMA CallSound ==
    ASSUME TInv, LInv, SumInv, NEW r \in Runs,
           Authorise(r) \/ Reserve(r) \/ Consume(r) \/ Dispatch(r) \/ CallTool(r) \/ Report(r)
    PROVE  /\ Sound(ledger')
           /\ \A id \in Reservations :
                ~ (id.to = r /\ id.call = req[r].k) => StateIn(ledger', id) = StateIn(ledger, id)
<1>1. req[r].pc \in InCall
  BY DEF Authorise, Reserve, Consume, Dispatch, CallTool, Report, At, InCall
<1> DEFINE c == Current(r)
           k == req[r].k
<1>2. /\ ledger \in Ledgers /\ Sound(ledger) /\ InCallBooks(r) /\ Fresh(r)
      /\ c \in Calls /\ c[1] = r /\ c[2] = k /\ Tool(r) = ToolOf(c)
      /\ k \in 1..MaxCalls /\ Cost \in Dims /\ Counter \in Dims
  BY <1>1, InTheCall, CurrentIsCall, MyIds DEF SumInv, LInv, BooksOf, Tool
<1> HIDE DEF c, k
<1>3. \A d \in Dims : CallOf(r, k, d) \in Reservations /\ CallOf(r, k, d).to = r
                      /\ CallOf(r, k, d).call = k
  BY <1>2, MyIds, IdParts
<1>4. /\ \A d \in Dims : \A id \in Reservations : id = CallOf(r, k, d) => id.to = r /\ id.call = k
  BY <1>3
<1>5. CASE UNCHANGED ledger
  BY <1>2, <1>5
<1>6. CASE ledger' = ReleaseQuietly(ledger, r, k)
  BY <1>2, <1>6, ReleaseSound, ReleaseStates DEF k
<1>7. CASE Reserve(r) /\ ledger' = BatchReserve(ledger, r, r, k, CallCost[Tool(r)])
           /\ Fits(ledger, r, CallCost[Tool(r)])
  <2>1. \A d \in Dims : ledger.reservation[CallOf(c[1], c[2], d)].state = "none"
    <3>1. req[r].pc = "reserve"
      BY <1>7 DEF Reserve, At
    <3> QED BY <1>1, <1>2, <3>1 DEF Fresh, k
  <2>2. Sound(BatchReserve(ledger, c[1], c[1], c[2], CallCost[ToolOf(c)]))
    BY <1>2, <1>7, <2>1, ReserveSound
  <2> QED BY <1>2, <1>7, <2>2, ReserveStates DEF k
<1>8. CASE Dispatch(r) /\ ledger' = MarkInFlight(ledger, CallOf(r, k, Cost))
  <2>1. ledger.reservation[CallOf(r, k, Cost)].state = "held"
    <3>1. req[r].pc = "dispatch"
      BY <1>8 DEF Dispatch, At
    <3> QED BY <1>2, <3>1 DEF InCallBooks, St, k
  <2>2. CallOf(r, k, Cost) \in Reservations
    BY <1>2, <1>3
  <2> QED BY <1>2, <1>4, <1>8, <2>1, <2>2, MarkSound, MarkStates DEF k
<1>9. CASE /\ CallTool(r)
           /\ \E actual \in Spends[Tool(r)] \cup {0} :
                ledger' = Settle(ledger, CallOf(r, k, Cost), actual)
  <2>1. ledger.reservation[CallOf(r, k, Cost)].state \in Unsettled
    <3>1. req[r].pc = "tool"
      BY <1>9 DEF CallTool, At
    <3> QED BY <1>2, <3>1 DEF InCallBooks, St, k, Unsettled
  <2>2. PICK actual \in Spends[Tool(r)] \cup {0} :
          ledger' = Settle(ledger, CallOf(r, k, Cost), actual)
    BY <1>9
  <2>3. actual \in 0..CallCost[ToolOf(c)][Cost]
    <3>1. Tool(r) \in Tools
      BY <1>1, CurrentIsCall, Parts
    <3>2. CallCost[Tool(r)][Cost] \in Nat /\ Spends[Tool(r)] \subseteq 0..CallCost[Tool(r)][Cost]
      BY <1>2, <3>1, ToolExecutionAssumption
    <3> QED BY <1>2, <3>2
  <2>4. Sound(Settle(ledger, CallOf(c[1], c[2], Cost), actual))
    BY <1>2, <2>1, <2>3, SettleSound
  <2>5. CallOf(r, k, Cost) \in Reservations
    BY <1>2, <1>3
  <2> QED BY <1>2, <1>4, <2>2, <2>4, <2>5, SettleStates DEF k
<1>10. CASE /\ Report(r)
            /\ ledger' = Settle(MarkInFlight(ledger, CallOf(r, k, Counter)),
                                CallOf(r, k, Counter), 1)
  <2> DEFINE m == MarkInFlight(ledger, CallOf(r, k, Counter))
  <2>0. CallOf(r, k, Counter) \in Reservations
    BY <1>2, <1>3
  <2>1. ledger.reservation[CallOf(r, k, Counter)].state = "held"
    <3>1. req[r].pc = "report"
      BY <1>10 DEF Report, At
    <3> QED BY <1>2, <3>1 DEF InCallBooks, St, k
  <2>2. m \in Ledgers /\ Sound(m)
    BY <1>2, <2>0, <2>1, MarkType, MarkSound
  <2>3. \A id \in Reservations : StateIn(m, id) =
          IF id = CallOf(r, k, Counter) THEN "in_flight" ELSE StateIn(ledger, id)
    BY <1>2, <2>0, MarkStates
  <2> HIDE DEF m
  <2>4. m.reservation[CallOf(c[1], c[2], Counter)].state \in Unsettled
    BY <1>2, <2>0, <2>3 DEF StateIn, Unsettled
  <2>5. 1 \in 0..CallCost[ToolOf(c)][Counter]
    <3>1. Tool(r) \in Tools
      BY <1>1, CurrentIsCall, Parts
    <3> QED BY <1>2, <3>1, ToolExecutionAssumption
  <2>6. Sound(Settle(m, CallOf(c[1], c[2], Counter), 1))
    BY <1>2, <2>2, <2>4, <2>5, SettleSound
  <2>7. \A id \in Reservations : StateIn(Settle(m, CallOf(r, k, Counter), 1), id) =
          IF id = CallOf(r, k, Counter) THEN "settled" ELSE StateIn(m, id)
    BY <2>0, <2>2, SettleStates
  <2>8. ledger' = Settle(m, CallOf(r, k, Counter), 1)
    BY <1>10 DEF m
  <2> QED BY <1>2, <1>4, <2>3, <2>6, <2>7, <2>8 DEF k
<1> QED
  <2>1. CASE Authorise(r)
    BY <2>1, <1>5 DEF Authorise
  <2>2. CASE Reserve(r)
    BY <2>2, <1>5, <1>7 DEF Reserve, k
  <2>3. CASE Consume(r)
    BY <2>3, <1>5, <1>6 DEF Consume, k
  <2>4. CASE Dispatch(r)
    BY <2>4, <1>6, <1>8 DEF Dispatch, k
  <2>5. CASE CallTool(r)
    BY <2>5, <1>5, <1>9 DEF CallTool, k
  <2>6. CASE Report(r)
    BY <2>6, <1>6, <1>10 DEF Report, k
  <2> QED BY <2>1, <2>2, <2>3, <2>4, <2>5, <2>6

\* The frame of Fresh.
LEMMA FreshKept ==
    ASSUME TInv, NEW r \in Runs, Fresh(r),
           \/ req'[r].pc \notin InCall
           \/ /\ req[r].pc \in InCall
              /\ \A j \in (1..MaxCalls) \ {req[r].k}, d \in Dims :
                   St(CallOf(r, j, d))' = St(CallOf(r, j, d))
              /\ \/ req'[r].k = req[r].k + 1
                 \/ req'[r].k = req[r].k /\ req'[r].pc \notin {"authorise", "reserve"}
                 \/ /\ req'[r].k = req[r].k /\ req[r].pc \in {"authorise", "reserve"}
                    /\ UNCHANGED ledger
           \/ /\ req'[r] = req[r]
              /\ \A j \in 1..MaxCalls, d \in Dims :
                   St(CallOf(r, j, d)) = "none" => St(CallOf(r, j, d))' = "none"
    PROVE  Fresh(r)'
<1> SUFFICES ASSUME req'[r].pc \in InCall, NEW j \in 1..MaxCalls, NEW d \in Dims,
                    j > req'[r].k \/ (j = req'[r].k /\ req'[r].pc \in {"authorise", "reserve"})
             PROVE  St(CallOf(r, j, d))' = "none"
  BY DEF Fresh, St
<1>0. MaxCalls \in Nat
  BY BudgetTreeAssumption
<1>1. CASE req'[r] = req[r] /\ \A i \in 1..MaxCalls, e \in Dims :
             St(CallOf(r, i, e)) = "none" => St(CallOf(r, i, e))' = "none"
  BY <1>1 DEF Fresh, St
<1>2. CASE req[r].pc \in InCall /\ ~ (req'[r] = req[r] /\ \A i \in 1..MaxCalls, e \in Dims :
             St(CallOf(r, i, e)) = "none" => St(CallOf(r, i, e))' = "none")
  <2>1. req[r].k \in 1..MaxCalls
    BY <1>2, InTheCall
  <2>2. CASE j > req[r].k
    <3>1. St(CallOf(r, j, d))' = St(CallOf(r, j, d)) /\ j # req[r].k
      BY <1>0, <1>2, <2>1, <2>2
    <3>2. St(CallOf(r, j, d)) = "none"
      BY <1>2, <2>2 DEF Fresh, St
    <3> QED BY <3>1, <3>2
  <2>3. CASE ~ (j > req[r].k)
    <3>1. /\ req'[r].k = req[r].k /\ j = req[r].k /\ req[r].pc \in {"authorise", "reserve"}
          /\ UNCHANGED ledger
      BY <1>0, <1>2, <2>1, <2>3
    <3>2. St(CallOf(r, j, d)) = "none"
      BY <1>2, <3>1 DEF Fresh, St
    <3> QED BY <3>1, <3>2 DEF St
  <2> QED BY <2>2, <2>3
<1> QED BY <1>1, <1>2

\* Steps of a call, but for the index.
LEMMA CallFresh ==
    ASSUME TInv, TInv', LInv, SumInv, NEW r \in Runs,
           Authorise(r) \/ Reserve(r) \/ Consume(r) \/ Dispatch(r) \/ CallTool(r) \/ Report(r)
    PROVE  Sound(ledger') /\ \A q \in Runs : Fresh(q)'
<1>1. req[r].pc \in InCall /\ RequestsOK /\ req[r].k \in 1..MaxCalls
  <2>1. req[r].pc \in InCall
    BY DEF Authorise, Reserve, Consume, Dispatch, CallTool, Report, At, InCall
  <2> QED BY <2>1, InTheCall
<1>2. /\ Sound(ledger')
      /\ \A id \in Reservations : ~ (id.to = r /\ id.call = req[r].k) => St(id)' = St(id)
  BY CallSound DEF St, StateIn
<1>3. ASSUME NEW q \in Runs \ {r} PROVE Fresh(q)'
  <2>1. req'[q] = req[q]
    BY <1>1, Inside
  <2>2. \A j \in 1..MaxCalls, d \in Dims : St(CallOf(q, j, d))' = St(CallOf(q, j, d))
    BY <1>2, MyIds, IdParts
  <2> QED BY <2>1, <2>2, FreshKept DEF SumInv
<1>4. Fresh(r)'
  <2>1. \A j \in (1..MaxCalls) \ {req[r].k}, d \in Dims :
          St(CallOf(r, j, d))' = St(CallOf(r, j, d))
    BY <1>2, MyIds, IdParts
  <2>2. \/ req'[r].pc \notin InCall
        \/ req'[r].k = req[r].k + 1
        \/ req'[r].k = req[r].k /\ req'[r].pc \notin {"authorise", "reserve"}
        \/ /\ req'[r].k = req[r].k /\ req[r].pc \in {"authorise", "reserve"}
           /\ UNCHANGED ledger
    <3>1. ASSUME NEW result \in {"denied", "reconciliation_required"},
                 NEW code \in {"policy", "other"},
                 CallFails(r, result, code) \/ CallSucceeds(r) \/ Raises(r)
          PROVE  req'[r].pc \notin InCall \/ req'[r].k = req[r].k + 1
      <4>1. result \in Results
        BY DEF Results
      <4>2. \/ req'[r].pc = "authorise" /\ req'[r].k = req[r].k + 1
            \/ req'[r].pc \in {"finish", "reject"}
            \/ req'[r].pc = "settle"
        BY <1>1, <3>1, <4>1, CallEnds
      <4> QED BY <4>2 DEF InCall
    <3>2. ASSUME NEW pc \in {"consume", "dispatch", "tool", "report"}, Goto(r, pc)
          PROVE  req'[r].k = req[r].k /\ req'[r].pc \notin {"authorise", "reserve"}
      BY <1>1, <3>2, Goes DEF RequestPc
    <3>3. CASE Authorise(r)
      <4>1. CASE Goto(r, "reserve")
        <5>1. req'[r].k = req[r].k
          BY <1>1, <4>1, Goes DEF RequestPc
        <5> QED BY <3>3, <5>1 DEF Authorise, At
      <4> QED BY <3>1, <3>3, <4>1 DEF Authorise
    <3>4. CASE Reserve(r)
      BY <3>1, <3>2, <3>4 DEF Reserve
    <3>5. CASE Consume(r)
      BY <3>1, <3>2, <3>5 DEF Consume
    <3>6. CASE Dispatch(r)
      BY <3>1, <3>2, <3>6 DEF Dispatch
    <3>7. CASE CallTool(r)
      BY <3>2, <3>7 DEF CallTool
    <3>8. CASE Report(r)
      BY <3>1, <3>8 DEF Report
    <3> QED BY <3>3, <3>4, <3>5, <3>6, <3>7, <3>8
  <2> QED BY <1>1, <2>1, <2>2, FreshKept DEF SumInv
<1> QED BY <1>2, <1>3, <1>4

LEMMA AdmitFresh ==
    ASSUME TInv, TInv', LInv, SumInv, NEW r \in Runs, Admit(r)
    PROVE  Sound(ledger') /\ \A q \in Runs : Fresh(q)'
<1> DEFINE p == ProjectOf[r]
           l1 == OpenedTenant
           grantable == l1.account[p].open \/ Fits(l1, Tenant, ProjectGrant)
           l2 == IF l1.account[p].open \/ ~grantable THEN l1 ELSE GrantToChild(l1, p, ProjectGrant)
<1>1. /\ p \in Projects /\ p \notin Runs /\ Tenant \in Accounts /\ Nothing \in [Dims -> Nat]
      /\ ledger \in Ledgers /\ RequestsOK /\ ProjectGrant \in [Dims -> Nat]
      /\ NodeGrant[r] \in [Dims -> Nat] /\ TenantLimit \in [Dims -> Nat]
      /\ CompletionReserve \in [Dims -> Nat]
      /\ Parent(p) = Tenant /\ Parent(r) = p
      /\ Sound(ledger) /\ BooksOf(r)
  BY BudgetTreeAssumption, ToolExecutionAssumption, Parts
     DEF Accounts, Nothing, Parent, SumInv, LInv
<1>2. /\ l1 \in Ledgers /\ Sound(l1)
      /\ \A id \in Reservations : StateIn(l1, id) = StateIn(ledger, id)
  BY <1>1, OpenAccountType, OpenStates, OpenTenantSound DEF OpenedTenant
<1> HIDE DEF l1
<1>3. /\ l2 \in Ledgers /\ Sound(l2)
      /\ \A id \in Reservations : id.to \in Runs => StateIn(l2, id) = StateIn(ledger, id)
  <2>1. CASE l1.account[p].open \/ ~grantable
    BY <1>2, <2>1
  <2>2. CASE ~ (l1.account[p].open \/ ~grantable)
    <3>1. Fits(l1, Parent(p), ProjectGrant) /\ ~l1.account[p].open
      BY <1>1, <2>2
    <3>2. l2 = GrantToChild(l1, p, ProjectGrant)
      BY <2>2
    <3> HIDE DEF l2, grantable
    <3>3. l2 \in Ledgers /\ Sound(l2)
      BY <1>1, <1>2, <3>1, <3>2, GrantType, GrantSound
    <3>4. \A id \in Reservations : id.to \in Runs => StateIn(l2, id) = StateIn(l1, id)
      BY <1>1, <1>2, <3>2, GrantStates
    <3> QED BY <1>2, <3>3, <3>4
  <2> QED BY <2>1, <2>2
<1>4. /\ req[r].pc = "admission"
      /\ \/ /\ ledger' = GrantToChild(l2, r, NodeGrant[r])
            /\ Fits(l2, p, NodeGrant[r])
            /\ req' = [req EXCEPT ![r] =
                 [@ EXCEPT !.epoch = epoch,
                           !.pc = IF Script[r] = <<>> THEN "finish" ELSE "authorise",
                           !.k = IF Script[r] = <<>> THEN 0 ELSE 1]]
         \/ ledger' = l2 /\ Raises(r)
  BY DEF Admit, At, l1
<1> HIDE DEF l2
<1>5. \A d \in Dims : StateIn(l2, Grant(r, d)) = "none"
  <2>1. \A d \in Dims : St(Grant(r, d)) = "none"
    BY <1>1, <1>4 DEF BooksOf, NotYet, Before
  <2>2. \A d \in Dims : Grant(r, d) \in Reservations /\ Grant(r, d).to = r
    BY MyIds, IdParts
  <2> QED BY <1>3, <2>1, <2>2 DEF St, StateIn
<1>6. ~l2.account[r].open
  <2>1. Cost \in Dims
    BY MyIds
  <2> QED BY <1>3, <1>5, <2>1 DEF Sound, Granted, StateIn
<1>7. \A j \in 1..MaxCalls, d \in Dims : StateIn(l2, CallOf(r, j, d)) = "none"
  BY <1>3, <1>6, Ids DEF Sound, Granted, StateIn
<1>8. \A id \in Reservations : id.to \in Runs /\ id.call # 0 =>
        StateIn(ledger', id) = StateIn(l2, id)
  <2>1. CASE ledger' = l2
    BY <2>1
  <2>2. CASE ledger' = GrantToChild(l2, r, NodeGrant[r])
    BY <1>1, <1>3, <2>2, GrantStates
  <2> QED BY <1>4, <2>1, <2>2
<1>9. Sound(ledger')
  <2>1. CASE ledger' = l2
    BY <1>3, <2>1
  <2>2. CASE ledger' = GrantToChild(l2, r, NodeGrant[r]) /\ Fits(l2, p, NodeGrant[r])
    BY <1>1, <1>3, <1>6, <2>2, GrantSound
  <2> QED BY <1>4, <2>1, <2>2
<1>10. \A q \in Runs, j \in 1..MaxCalls, d \in Dims :
         /\ CallOf(q, j, d) \in Reservations
         /\ CallOf(q, j, d).to = q /\ CallOf(q, j, d).call # 0
  BY MyIds, IdParts
<1>11. \A q \in Runs, j \in 1..MaxCalls, d \in Dims :
         StateIn(ledger', CallOf(q, j, d)) = StateIn(ledger, CallOf(q, j, d))
  BY <1>3, <1>8, <1>10
<1>12. ASSUME NEW q \in Runs \ {r} PROVE Fresh(q)'
  <2>1. req'[q] = req[q]
    BY <1>1, Inside
  <2> QED BY <1>11, <2>1, FreshKept DEF SumInv, St, StateIn
<1>13. Fresh(r)'
  BY <1>7, <1>8, <1>10 DEF Fresh, StateIn
<1> QED BY <1>9, <1>12, <1>13

LEMMA FinishFresh ==
    ASSUME TInv, TInv', LInv, SumInv, NEW r \in Runs, Finish(r)
    PROVE  Sound(ledger') /\ \A q \in Runs : Fresh(q)'
<1>1. /\ req[r].pc = "finish" /\ req[r].pc \in Started /\ RequestsOK /\ ledger \in Ledgers
      /\ BooksOf(r) /\ Sound(ledger)
  BY Parts DEF Finish, At, Started, LInv, SumInv
<1>2. Sound(ledger')
  <2>1. CASE ledger' = CloseAccount(ledger, r)
    <3>1. \A d \in Dims : ledger.reservation[Grant(r, d)].state = "held"
      BY <1>1 DEF BooksOf, Running, St
    <3> QED BY <1>1, <2>1, <3>1, CloseSound
  <2> QED BY <1>1, <2>1 DEF Finish
<1>3. \A q \in Runs \ {r}, j \in 1..MaxCalls, d \in Dims : St(CallOf(q, j, d))' = St(CallOf(q, j, d))
  BY <1>1, FinishBooks, MyIds, IdParts
<1>4. ASSUME NEW q \in Runs \ {r} PROVE Fresh(q)'
  <2>1. req'[q] = req[q]
    BY <1>1, Inside
  <2> QED BY <1>3, <2>1, FreshKept DEF SumInv
<1>5. req'[r].pc \notin InCall
  <2>1. \E result : req' = [req EXCEPT ![r].pc = "settle", ![r].result = result]
    BY DEF Finish, Raises
  <2> QED BY <1>1, <2>1 DEF RequestsOK, RequestRow, InCall
<1>6. Fresh(r)'
  BY <1>5 DEF Fresh
<1> QED BY <1>2, <1>4, <1>6

\* Where the ledger is not touched and no thread enters a call.
LEMMA QuietFresh ==
    ASSUME TInv, SumInv, UNCHANGED ledger,
           \A q \in Runs : req'[q] = req[q] \/ req'[q].pc \notin InCall
    PROVE  Sound(ledger') /\ \A q \in Runs : Fresh(q)'
  BY DEF SumInv, Fresh

LEMMA KeyFresh ==
    ASSUME TInv, SumInv, NEW r \in Runs,
           ClaimKey(r) \/ WithoutKey(r) \/ WaitTooLong(r) \/ SettleKey(r) \/ Reject(r)
    PROVE  Sound(ledger') /\ \A q \in Runs : Fresh(q)'
<1>1. req \in [Runs -> RequestRow] /\ UNCHANGED ledger
  BY Parts DEF RequestsOK, ClaimKey, WithoutKey, WaitTooLong, SettleKey, Reject
<1>2. ASSUME NEW pc \in {"admission", "waiting", "late", "finish"}, Goto(r, pc)
      PROVE  \A q \in Runs : req'[q] = req[q] \/ req'[q].pc \notin InCall
  BY <1>1, <1>2 DEF Goto, RequestRow, InCall
<1>3. ASSUME NEW result, NEW of, Answered(r, result, of)
      PROVE  \A q \in Runs : req'[q] = req[q] \/ req'[q].pc \notin InCall
  BY <1>1, <1>3 DEF Answered, RequestRow, InCall
<1>4. CASE SettleKey(r)
  <2> DEFINE ended == [req EXCEPT ![r].pc = "done"]
  <2>1. /\ \A q \in Runs \ {r} : ended[q] = req[q]
        /\ ended[r].pc = "done" /\ ended \in [Runs -> RequestRow]
    BY <1>1 DEF RequestRow, RequestPc
  <2>2. req' = ended \/ req' = Awake(ended)
    BY <1>4 DEF SettleKey
  <2> HIDE DEF ended
  <2>3. \A q \in Runs : req'[q] = ended[q] \/ req'[q].pc = "awake"
    <3>1. CASE req' = ended
      BY <3>1
    <3>2. CASE req' = Awake(ended)
      <4>1. \A q \in Runs : req'[q] = IF ended[q].pc = "waiting"
                                      THEN [ended[q] EXCEPT !.pc = "awake"] ELSE ended[q]
        BY <3>2 DEF Awake
      <4>2. \A q \in Runs : [ended[q] EXCEPT !.pc = "awake"].pc = "awake"
        BY <2>1 DEF RequestRow
      <4> QED BY <4>1, <4>2
    <3> QED BY <2>2, <3>1, <3>2
  <2>4. \A q \in Runs : req'[q] = req[q] \/ req'[q].pc \notin InCall
    BY <2>1, <2>3 DEF InCall
  <2> QED BY <1>1, <2>4, QuietFresh
<1>5. CASE Raises(r)
  <2>1. \A q \in Runs : req'[q] = req[q] \/ req'[q].pc \notin InCall
    BY <1>1, <1>5 DEF Raises, RequestRow, InCall
  <2> QED BY <1>1, <2>1, QuietFresh
<1>6. CASE \E pc \in {"admission", "waiting", "late", "finish"} : Goto(r, pc)
  BY <1>1, <1>2, <1>6, QuietFresh
<1>7. CASE \E result, of : Answered(r, result, of)
  BY <1>1, <1>3, <1>7, QuietFresh
<1> QED BY <1>4, <1>5, <1>6, <1>7 DEF ClaimKey, Take, WithoutKey, WaitTooLong, Reject

\* Reconciling settles what the index lists under the tool's own name.
LEMMA AroundFresh ==
    ASSUME TInv, SumInv,
           \/ \E c \in Confirmations : Confirm(c) \/ Expire(c)
           \/ \E i \in LogicalIds : Reconcile(i)
           \/ \E up \in BOOLEAN : SetAvailable(up)
           \/ RevokeAll
           \/ UNCHANGED vars
    PROVE  Sound(ledger') /\ \A q \in Runs : Fresh(q)'
<1>1. req' = req
  BY AroundRequests
<1>2. ASSUME NEW i \in LogicalIds, Reconcile(i)
      PROVE  Sound(ledger') /\ \A q \in Runs : Fresh(q)'
  <2> DEFINE c == listed[i]
  <2>1. c \in Calls /\ LogicalId(c) = i /\ ledger \in Ledgers /\ Sound(ledger)
    BY <1>2, Parts DEF Reconcile, TInv, TypeOK, SumInv, Indexed
  <2>2. PICK actual \in Spends[i[1]] : ledger' = Settle(ledger, CallOf(c[1], c[2], Cost), actual)
    BY <1>2 DEF Reconcile
  <2>3. ledger.reservation[CallOf(c[1], c[2], Cost)].state = "in_flight"
    BY <1>2 DEF Reconcile
  <2> HIDE DEF c
  <2>4. i[1] = ToolOf(c) /\ ToolOf(c) \in Tools /\ Cost \in Dims
    BY <2>1, ScriptLengths, Ids DEF LogicalId, Calls, ToolOf
  <2>5. actual \in 0..CallCost[ToolOf(c)][Cost]
    BY <2>2, <2>4, ToolExecutionAssumption
  <2>6. Sound(ledger')
    BY <2>1, <2>2, <2>3, <2>4, <2>5, SettleSound DEF Unsettled
  <2>7. CallOf(c[1], c[2], Cost) \in Reservations
    BY <2>1, <2>4, Slots
  <2>8. \A id \in Reservations :
          StateIn(ledger', id) = IF id = CallOf(c[1], c[2], Cost) THEN "settled" ELSE StateIn(ledger, id)
    BY <2>1, <2>2, <2>7, SettleStates
  <2>9. \A id \in Reservations : StateIn(ledger, id) = "none" => StateIn(ledger', id) = "none"
    BY <2>3, <2>8 DEF StateIn
  <2>10. \A q \in Runs, j \in 1..MaxCalls, d \in Dims : CallOf(q, j, d) \in Reservations
    BY MyIds
  <2> QED BY <1>1, <2>6, <2>9, <2>10 DEF SumInv, Fresh, StateIn
<1>3. CASE UNCHANGED ledger
  BY <1>1, <1>3, QuietFresh
<1> QED BY <1>2, <1>3 DEF Confirm, Expire, SetAvailable, RevokeAll, vars

LEMMA IndexedNext == TInv /\ Indexed /\ [Next]_vars => Indexed'
<1> SUFFICES ASSUME TInv, Indexed, [Next]_vars PROVE Indexed'
  OBVIOUS
<1>1. CASE UNCHANGED listed
  BY <1>1 DEF Indexed
<1>2. ASSUME NEW r \in Runs, Reserve(r) PROVE Indexed'
  <2>1. Current(r) \in Calls
    <3>1. req[r].pc \in InCall
      BY <1>2 DEF Reserve, At, InCall
    <3> QED BY <3>1, InTheCall
  <2>2. UNCHANGED listed \/ listed' = [listed EXCEPT ![LogicalId(Current(r))] = Current(r)]
    BY <1>2 DEF Reserve
  <2>3. listed \in [LogicalIds -> Calls \cup {<<>>}]
    BY DEF TInv, TypeOK
  <2>4. CASE listed' = [listed EXCEPT ![LogicalId(Current(r))] = Current(r)]
    <3> DEFINE c == Current(r)
    <3>1. \A i \in LogicalIds : listed'[i] = IF i = LogicalId(c) THEN c ELSE listed[i]
      BY <2>3, <2>4
    <3> HIDE DEF c
    <3> QED BY <3>1 DEF Indexed
  <2> QED BY <1>1, <2>2, <2>4
<1>3. ASSUME NEW r \in Runs, RequestStep(r) \/ WaitTooLong(r), ~Reserve(r) PROVE UNCHANGED listed
  BY <1>3 DEF RequestStep, ClaimKey, WithoutKey, WaitTooLong, SettleKey, Admit, Authorise,
              Consume, Dispatch, CallTool, Report, Reject, Finish
<1>4. CASE \/ \E c \in Confirmations : Confirm(c) \/ Expire(c)
           \/ \E i \in LogicalIds : Reconcile(i)
           \/ \E up \in BOOLEAN : SetAvailable(up)
           \/ RevokeAll
           \/ UNCHANGED vars
  BY <1>1, <1>4 DEF Confirm, Expire, Reconcile, SetAvailable, RevokeAll, vars
<1> QED BY <1>1, <1>2, <1>3, <1>4 DEF Next

LEMMA SumInvInit == Init => SumInv
<1> SUFFICES ASSUME Init PROVE SumInv
  OBVIOUS
<1>1. /\ \A id \in Reservations :
           ledger.reservation[id] = [state |-> "none", amount |-> 0, consumed |-> 0]
      /\ \A a \in Accounts :
           ledger.account[a] = [open |-> FALSE, limits |-> Nothing, kept |-> Nothing,
                                reserved |-> Nothing, consumed |-> Nothing]
  BY DEF Init, EmptyLedger
<1>2. Balanced(ledger)
  <2> SUFFICES ASSUME NEW a \in Accounts, NEW d \in Dims
               PROVE  /\ ledger.account[a].reserved[d] =
                           SumFunctionOnSet(Amounts(ledger), OnAccount(ledger, a, d, Unsettled))
                      /\ ledger.account[a].consumed[d] =
                           SumFunctionOnSet(Costs(ledger), OnAccount(ledger, a, d, {"settled"}))
                      /\ Available(ledger, a, d) >= 0
    BY DEF Balanced
  <2>1. OnAccount(ledger, a, d, Unsettled) = {} /\ OnAccount(ledger, a, d, {"settled"}) = {}
    BY <1>1 DEF OnAccount, Unsettled
  <2>2. /\ ledger.account[a].reserved[d] = 0 /\ ledger.account[a].consumed[d] = 0
        /\ Available(ledger, a, d) = 0
    BY <1>1 DEF Nothing, Available
  <2> QED BY <2>1, <2>2, SumOfNothing
<1>3. Granted(ledger)
  BY <1>1, Grants DEF Granted
<1>4. Priced(ledger)
  BY <1>1, Slots DEF Priced
<1>5. \A r \in Runs : Fresh(r)
  BY <1>1, MyIds DEF Fresh
<1>6. Indexed
  BY DEF Init, Indexed
<1> QED BY <1>2, <1>3, <1>4, <1>5, <1>6 DEF SumInv, Sound

LEMMA SumInvNext == TInv /\ LInv /\ SumInv /\ [Next]_vars => SumInv'
<1> SUFFICES ASSUME TInv, LInv, SumInv, [Next]_vars PROVE SumInv'
  OBVIOUS
<1>1. TInv' /\ Indexed'
  BY NextTypes, IndexedNext DEF SumInv
<1>2. Sound(ledger') /\ \A q \in Runs : Fresh(q)'
  BY <1>1, KeyFresh, AdmitFresh, CallFresh, FinishFresh, AroundFresh DEF Next, RequestStep
<1> QED BY <1>1, <1>2 DEF SumInv

\* Every account of the tree, the tenant's, a project's or a run's, shows as reserved and
\* as consumed what the reservations on it add up to, and is never overdrawn: in every
\* order of reservations, releases, settlements, grants and closings, for any number of
\* runs and any limits.
THEOREM TreeReconciles == Spec => []LedgerReconciles
<1>1. SumInv => LedgerReconciles
  BY DEF SumInv, Sound, Balanced, LedgerReconciles
<1> QED BY InitTypes, NextTypes, LInvInit, LInvNext, SumInvInit, SumInvNext, <1>1, PTL DEF Spec
=============================================================================
