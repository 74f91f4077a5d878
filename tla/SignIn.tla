------------------------------- MODULE SignIn -------------------------------
(***************************************************************************)
(* Signing in and out (api/auth_routes.py): exchanging an invitation for a  *)
(* session, the limiter in front of it, revocation, authentication, and the *)
(* audit events of all of them: those of an exchange go through the outbox  *)
(* (audit/outbox.py), the others straight to the sink.                      *)
(*                                                                          *)
(* store is "postgres" (several processes; rows, advisory lock, definer     *)
(* functions) or "memory" (one process and its locks).  One principal.      *)
(***************************************************************************)
EXTENDS AuditTrail

CONSTANTS
    Requests,      \* the requests
    Loads,         \* bound: the pairs of an adapter and the requests it gets
    KindOf,        \* request -> "exchange", "logout", "logoutAll" or "call"
    TokenOf,       \* exchange -> the invitation it presents
    CookieOf,      \* any other request -> the session its cookie names
    FirstSession,  \* a session signed in before
    Invitations,
    Limit,         \* attempts in one window of the limiter
    LastWindow     \* bound: windows of the limiter

VARIABLES
    load,      \* the requests that may arrive
    store,     \* the adapter
    drills,    \* bound: times a sink may still be switched off
    sessions,  \* session -> none, live, expired or revoked; named by its request
    invited,   \* invitation -> live, expired, or the request that consumed it
    outbox,    \* sequence of [event, projected]
    projector, \* request that holds the advisory lock (the lock of the outbox)
    now,       \* the current window
    counter,   \* the limiter's row: window and attempts
    admitted,  \* history: window -> attempts let through
    rewound,   \* history: times the count went back to an older window
    req,       \* request -> its state
    closed     \* history: sessions some answered logout had to end

signVars == <<load, store, drills, sessions, invited, outbox, projector, now, counter,
              admitted, rewound, req, closed>>

Exchanges == {r \in Requests : KindOf[r] = "exchange"}
Sessions == Exchanges \cup {FirstSession}
Windows == 0..LastWindow
None == "none"

Says(r, what) == <<r, what>>
Sayings == {"exchanged", "limited", "declined", "revoked", "denied"}

\* A request is no marker, an exchange presents an invitation and any other request
\* names a session; a record can say what each of them did.
ASSUME RequestsAreWellFormed ==
    /\ Limit \in Nat /\ LastWindow \in Nat
    /\ {FirstSession, None, "live", "expired"} \cap Requests = {}
    /\ \A r \in Requests :
          IF KindOf[r] = "exchange" THEN TokenOf[r] \in Invitations
          ELSE KindOf[r] \in {"logout", "logoutAll", "call"} /\ CookieOf[r] \in Sessions
    /\ Requests \X Sayings \subseteq Events
    /\ \A l \in Loads : l.store \in {"postgres", "memory"} /\ l.drills \in Nat

SignInit ==
    /\ AuditInit
    /\ \E l \in Loads : store = l.store /\ load = l.load /\ drills = l.drills
    /\ sessions = [s \in Sessions |-> IF s = FirstSession THEN "live" ELSE None]
    /\ invited = [i \in Invitations |-> "live"]
    /\ outbox = <<>>
    /\ projector = None
    /\ now = 0
    /\ counter = [window |-> 0, attempts |-> 0]
    /\ admitted = [w \in Windows |-> 0]
    /\ rewound = 0
    /\ req = [r \in Requests |->
                [pc |-> "new", on |-> None, window |-> 0, row |-> 0, ends |-> {}, over |-> {}]]
    /\ closed = {}

-----------------------------------------------------------------------------
(* Steps of a request.                                                      *)

At(r, pc) == req[r].pc = pc
GoTo(r, pc) == req' = [req EXCEPT ![r].pc = pc]

\* The client holds the cookie: it was answered with it.
HasCookie(s) == s = FirstSession \/ (s \in Exchanges /\ At(s, "done"))

\* The in-memory adapters hold for one process.
Serving == IF store = "postgres" THEN Processes ELSE {CHOOSE p \in Processes : TRUE}

\* A request arrives.  A logout gives its sessions up, a call may come after
\* a logout that was answered.  The clock is read here (now = clock.now()).
Arrive(r) ==
    /\ r \in load
    /\ At(r, "new")
    /\ KindOf[r] = "exchange" \/ HasCookie(CookieOf[r])
    /\ \E p \in Serving :
          req' = [req EXCEPT ![r] =
                    [@ EXCEPT !.on = p,
                              !.window = now,
                              !.pc = CASE KindOf[r] = "exchange" -> "register"
                                       [] KindOf[r] = "call" -> "authenticate"
                                       [] OTHER -> "revoke",
                              !.ends = CASE KindOf[r] = "logout" -> {CookieOf[r]}
                                         [] KindOf[r] = "logoutAll" ->
                                              {s \in Sessions : sessions[s] # None}
                                         [] OTHER -> {},
                              !.over = closed]]
    /\ UNCHANGED <<trailVars, load, store, drills, sessions, invited, outbox, projector, now,
                   counter, admitted, rewound, closed>>

\* register: the clock is read before the lock of the row (of the limiter) is
\* taken, so the window of a request may be older than the one counted now.

\* Mutant: the row starts again whenever the window differs.
CountAnyChange(w) ==
    IF counter.window # w THEN [window |-> w, attempts |-> 1]
    ELSE [counter EXCEPT !.attempts = @ + 1]

\* register_auth_attempt never goes back to an older window.
CountForward(w) ==
    IF counter.window < w THEN [window |-> w, attempts |-> 1]
    ELSE [counter EXCEPT !.attempts = @ + 1]

\* InMemoryRateLimiter.register starts again whenever the window differs.
CountInMemory(w) ==
    IF counter.window # w \/ counter.attempts = 0 THEN [window |-> w, attempts |-> 1]
    ELSE [counter EXCEPT !.attempts = @ + 1]

Register(r) ==
    /\ At(r, "register")
    /\ LET w == req[r].window
           count == IF store = "postgres" THEN CountForward(w) ELSE CountInMemory(w)
       IN /\ counter' = count
          /\ GoTo(r, IF count.attempts <= Limit THEN "exchange" ELSE "limited")
          /\ admitted' = IF count.attempts <= Limit
                         THEN [admitted EXCEPT ![count.window] = @ + 1] ELSE admitted
          /\ rewound' = IF count.window < counter.window
                        THEN rewound + 1 ELSE rewound
    /\ UNCHANGED <<trailVars, load, store, drills, sessions, invited, outbox, projector, now, closed>>

\* exchange: the invitation is consumed, the session is created and the event is
\* staged in one transaction (one critical section).
\* Mutant: only the expiry is asked for.
ConsumableUnlessExpired(i) == invited[i] # "expired"

Consumable(i) == invited[i] = "live"

Exchange(r) ==
    /\ At(r, "exchange")
    /\ Consumable(TokenOf[r])
    /\ invited' = [invited EXCEPT ![TokenOf[r]] = r]
    /\ sessions' = [sessions EXCEPT ![r] = "live"]
    /\ outbox' = Append(outbox, [event |-> Says(r, "exchanged"), projected |-> FALSE])
    /\ GoTo(r, IF store = "postgres" THEN "readBack" ELSE "flush")
    /\ UNCHANGED <<trailVars, load, store, drills, projector, now, counter, admitted, rewound, closed>>

\* Unknown, expired and consumed are one answer.
Decline(r) ==
    /\ At(r, "exchange")
    /\ ~Consumable(TokenOf[r])
    /\ GoTo(r, "declined")
    /\ UNCHANGED <<trailVars, load, store, drills, sessions, invited, outbox, projector, now,
                   counter, admitted, rewound, closed>>

\* The row is read again in a transaction of its own; a revocation or an expiry
\* in between turns the finished exchange into an internal error.
ReadBack(r) ==
    /\ At(r, "readBack")
    /\ GoTo(r, IF sessions[r] = "live" THEN "flush" ELSE "error")
    /\ UNCHANGED <<trailVars, load, store, drills, sessions, invited, outbox, projector, now,
                   counter, admitted, rewound, closed>>

-----------------------------------------------------------------------------
(* flush_pending.                                                           *)

Pending == {k \in DOMAIN outbox : ~outbox[k].projected}

\* The lock, the oldest pending row, and in the database the head of the file.
TakeRow(r) ==
    /\ At(r, "flush")
    /\ projector \in {None, r}
    /\ Pending # {}
    /\ projector' = r
    /\ req' = [req EXCEPT ![r] = [@ EXCEPT !.pc = "project", !.row = Min(Pending)]]
    /\ IF store = "postgres"
       THEN /\ HeadRead(req[r].on)
            /\ UNCHANGED <<trail, switches, buffer, faults, acked, lost>>
       ELSE UNCHANGED trailVars
    /\ UNCHANGED <<load, store, drills, sessions, invited, outbox, now, counter, admitted, rewound, closed>>

NothingPending(r) ==
    /\ At(r, "flush")
    /\ projector \in {None, r}
    /\ Pending = {}
    /\ projector' = None
    /\ GoTo(r, "done")
    /\ UNCHANGED <<trailVars, load, store, drills, sessions, invited, outbox, now,
                   counter, admitted, rewound, closed>>

\* The append; a failure rolls back, the row stays and the client is answered.
Project(r) ==
    /\ At(r, "project")
    /\ \E outcome \in {"ok", "refused", "failed"} :
          /\ AppendEvent(req[r].on, outbox[req[r].row].event, "high", outcome)
          /\ GoTo(r, IF outcome = "ok" THEN "mark" ELSE "done")
          /\ projector' = IF outcome = "ok" THEN projector ELSE None
    /\ UNCHANGED <<load, store, drills, sessions, invited, outbox, now, counter, admitted, rewound, closed>>

Mark(r) ==
    /\ At(r, "mark")
    /\ outbox' = [outbox EXCEPT ![req[r].row].projected = TRUE]
    /\ projector' = IF store = "postgres" THEN None ELSE r
    /\ GoTo(r, "flush")
    /\ UNCHANGED <<trailVars, load, store, drills, sessions, invited, now, counter, admitted, rewound, closed>>

-----------------------------------------------------------------------------
(* Revocation, authentication, and the events that go straight to the sink. *)

\* Mutant: a logout of all devices spares the one that asks for it.
AllButOwn(r) == {s \in Sessions : sessions[s] = "live" /\ s # CookieOf[r]}

\* revoke_all_for ends the live ones, revoke ends its own unless it is revoked.
AllLive(r) == {s \in Sessions : sessions[s] = "live"}

ToRevoke(r) ==
    IF KindOf[r] = "logoutAll" THEN AllLive(r)
    ELSE {s \in {CookieOf[r]} : sessions[s] \in {"live", "expired"}}

Answered(r) == closed' = closed \cup req[r].ends

\* The revocation commits before anything is audited; a logout that finds its
\* session revoked is answered without an event.
Revoke(r) ==
    /\ At(r, "revoke")
    /\ sessions' = [s \in Sessions |-> IF s \in ToRevoke(r) THEN "revoked" ELSE sessions[s]]
    /\ IF KindOf[r] = "logout" /\ ToRevoke(r) = {}
       THEN GoTo(r, "done") /\ Answered(r)
       ELSE GoTo(r, "revoked") /\ UNCHANGED closed
    /\ UNCHANGED <<trailVars, load, store, drills, invited, outbox, projector, now,
                   counter, admitted, rewound>>

\* _authenticate: the signature is good, the session is looked up every time.
Authenticate(r) ==
    /\ At(r, "authenticate")
    /\ GoTo(r, IF sessions[CookieOf[r]] = "live" THEN "served" ELSE "denied")
    /\ UNCHANGED <<trailVars, load, store, drills, sessions, invited, outbox, projector, now,
                   counter, admitted, rewound, closed>>

\* The event of a step, its risk, and the answer once it is in.
Tells == [limited  |-> [risk |-> "low",  then |-> "refused"],
          declined |-> [risk |-> "high", then |-> "refused"],
          revoked  |-> [risk |-> "low",  then |-> "done"],
          denied   |-> [risk |-> "high", then |-> "refused"]]

\* An append that raises turns the answer into an error.
Tell(r) ==
    /\ req[r].pc \in DOMAIN Tells
    /\ LET tell == Tells[req[r].pc]
       IN \E outcome \in {"ok", "refused", "failed"} :
            /\ AppendEvent(req[r].on, Says(r, req[r].pc), tell.risk, outcome)
            /\ GoTo(r, IF outcome = "ok" THEN tell.then ELSE "error")
            /\ IF outcome = "ok" /\ req[r].pc = "revoked"
               THEN Answered(r) ELSE UNCHANGED closed
    /\ UNCHANGED <<load, store, drills, sessions, invited, outbox, projector, now,
                   counter, admitted, rewound>>

-----------------------------------------------------------------------------
(* Time, outages, crashes.                                                  *)

NextWindow ==
    /\ now < LastWindow
    /\ now' = now + 1
    /\ UNCHANGED <<trailVars, load, store, drills, sessions, invited, outbox, projector, counter,
                   admitted, rewound, req, closed>>

Expire ==
    /\ \/ \E i \in Invitations :
             /\ invited[i] = "live"
             /\ invited' = [invited EXCEPT ![i] = "expired"]
             /\ UNCHANGED sessions
       \/ \E s \in Sessions :
             /\ sessions[s] = "live"
             /\ sessions' = [sessions EXCEPT ![s] = "expired"]
             /\ UNCHANGED invited
    /\ UNCHANGED <<trailVars, load, store, drills, outbox, projector, now, counter,
                   admitted, rewound, req, closed>>

Switch ==
    /\ \E p \in Serving :
          \/ drills > 0 /\ SwitchOff(p) /\ drills' = drills - 1
          \/ (SwitchOn(p) \/ FlushBuffer(p)) /\ UNCHANGED drills
    /\ UNCHANGED <<load, store, sessions, invited, outbox, projector, now, counter,
                   admitted, rewound, req, closed>>

\* What a request would have been writing when its process died.
Writing(r) == IF At(r, "project") THEN {outbox[req[r].row].event}
              ELSE IF req[r].pc \in DOMAIN Tells THEN {Says(r, req[r].pc)}
              ELSE {}

Unfinished(p) == {r \in Requests : /\ req[r].on = p
                                   /\ req[r].pc \notin {"done", "served", "refused", "error"}}

\* A process dies: its transactions roll back, so the lock is free and the row
\* still pending.  (In memory everything is gone with it, so nothing is shown.)
Crash ==
    /\ store = "postgres"
    /\ \E p \in Processes :
          /\ Unfinished(p) # {}
          /\ Restarted(p)
          /\ \/ DiesIdle(p)
             \/ \E r \in Unfinished(p) : \E e \in Writing(r) : DiesWriting(p, e)
          /\ req' = [r \in Requests |->
                       IF r \in Unfinished(p) THEN [req[r] EXCEPT !.pc = "error"] ELSE req[r]]
          /\ projector' = IF projector \in Unfinished(p) THEN None ELSE projector
    /\ UNCHANGED <<load, store, drills, sessions, invited, outbox, now, counter, admitted, rewound, closed>>

SignNext ==
    \/ \E r \in Requests :
          \/ Arrive(r) \/ Register(r)
          \/ Exchange(r) \/ Decline(r) \/ ReadBack(r)
          \/ TakeRow(r) \/ NothingPending(r) \/ Project(r) \/ Mark(r)
          \/ Revoke(r) \/ Authenticate(r) \/ Tell(r)
    \/ NextWindow \/ Expire \/ Switch \/ Crash

-----------------------------------------------------------------------------
(* Properties.                                                              *)

SignTypeOK ==
    /\ AuditTypeOK
    /\ store \in {"postgres", "memory"}
    /\ sessions \in [Sessions -> {None, "live", "expired", "revoked"}]
    /\ invited \in [Invitations -> {"live", "expired"} \cup Exchanges]
    /\ \A k \in DOMAIN outbox : outbox[k].event \in Events /\ outbox[k].projected \in BOOLEAN
    /\ projector \in Requests \cup {None}
    /\ counter.window \in Windows
    /\ closed \subseteq Sessions

\* An invitation, its session and its event come and go together: a consumed
\* invitation has exactly one session and one staged event, those of the request
\* that consumed it, and only that request is answered with a cookie, however
\* many present the token at once (identity_store.py:309).
OneSessionPerInvitation ==
    \A r \in Exchanges :
          /\ sessions[r] # None <=> invited[TokenOf[r]] = r
          /\ Cardinality({k \in DOMAIN outbox : outbox[k].event = Says(r, "exchanged")})
               = IF sessions[r] = None THEN 0 ELSE 1
          /\ At(r, "done") => invited[TokenOf[r]] = r

\* Once a logout (of one session, or of all the sessions there were when it
\* came) has been answered, no call that comes later is served with one of those
\* sessions, whatever was exchanged or expired meanwhile (identity_store.py:423).
RevokedIsRefused ==
    \A r \in Requests :
       KindOf[r] = "call" /\ At(r, "served") => CookieOf[r] \notin req[r].over

\* In one window the limiter lets at most Limit attempts through, and in memory
\* that many again each time a request that read the clock in an older window
\* counted after a newer one (rate_limit.py:52).
WindowLimit ==
    /\ \A w \in Windows : admitted[w] <= Limit * (1 + rewound)
    /\ store = "postgres" => rewound = 0

\* What was accepted is kept: an event whose append returned is in the file, or
\* waits in a buffer, or its process died while it waited; a row marked as
\* projected is in the file; and an event is in the file twice only if a write
\* or a process failed (sink.py:379, outbox.py:199).
EventsAreKept ==
    /\ \A e \in acked \ lost :
          e \in Recorded \/ \E p \in Processes : e \in ToSet(buffer[p])
    /\ \A k \in DOMAIN outbox : outbox[k].projected => outbox[k].event \in Recorded
    /\ \A e \in Recorded : Cardinality(RecordsOf(e)) <= 1 + faults
=============================================================================
