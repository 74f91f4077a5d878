------------------------------ MODULE Products ------------------------------
(***************************************************************************)
(* Plans, tasks, self reports, evidence and messages of one project         *)
(* (db/product_store.py, db/learning_store.py, db/evidence_store.py), step  *)
(* by step of their transactions, and the projection of the evidence        *)
(* (learning/projector.py).  The in-memory adapters do the same steps under *)
(* one lock.  Mastery is projected from two logs: the evidence table, and   *)
(* the log the tools of the runtime write, which lives in the process.      *)
(***************************************************************************)
EXTENDS Naturals, Sequences, FiniteSets, SequencesExt

CONSTANTS
    Calls,         \* the calls that may be made
    CallKind,      \* call -> diagnose, generate, replace, move, submit, append,
                   \*         observe, mastery
    TaskCalled,    \* move or submit -> its task
    MoveFrom,      \* move -> expected_status
    MoveTo,        \* move -> next_status
    Stages,        \* tasks of a plan; a generated plan assesses each of them
    FirstPlan,     \* the generated plan there is at the start, version 1
    Components,    \* what is assessed; a stage has its component
    ComponentOf,   \* stage -> component
    Observed,      \* observe -> the kind and the verdicts a tool is given
    PriorEvents,   \* what the runtime's log holds at the start, numbered from 1
    Superseded,    \* pairs of one of them and a component that a correction revoked
    CallLoads,     \* bound: the adapters and the calls they get
    MaxFailures    \* bound: transactions that fail, and restarts

VARIABLES
    backing,    \* "postgres" or "memory"
    callers,    \* the calls that may be made
    diagnoses,  \* the diagnoses, in order
    plans,      \* committed plans: [version, by, assessed]
    status,     \* task -> none, pending, in_progress, done or skipped
    rowLock,    \* task -> the transaction that holds its row
    reports,    \* committed self reports: [by, task, under]
    events,     \* committed evidence
    nextSeq,    \* the identity sequence of the evidence table
    observed,   \* the runtime's log
    lastSeq,    \* _next_seq of the runtime's log
    lastMessage, \* last_message_seq of the conversation
    messages,   \* committed messages: [by, seq]
    lock,       \* the lock of the in-memory adapter, or the conversation's row
    failures,   \* failed transactions and restarts so far
    restarts,   \* history: restarts so far
    moves,      \* history: the moves that changed a status
    call        \* call -> its state

productVars == <<backing, callers, diagnoses, plans, status, rowLock, reports, events,
                 nextSeq, observed, lastSeq, lastMessage, messages, lock, failures,
                 restarts, moves, call>>
logVars == <<observed, lastSeq, restarts>>

Plans == {c \in Calls : CallKind[c] \in {"generate", "replace"}} \cup {FirstPlan}
Tasks == Plans \X (1..Stages)
TasksOf(p) == {p} \X (1..Stages)
NoOne == "none"

\* A plan is numbered by its call; moves and reports name tasks there may be.
ASSUME CallsAreWellFormed ==
    /\ IsFiniteSet(Calls) /\ Stages \in Nat /\ MaxFailures \in Nat
    /\ NoOne \notin Calls /\ FirstPlan \notin Calls
    /\ \A c \in Calls : CallKind[c] \in {"move", "submit"} => TaskCalled[c] \in Tasks
    /\ \A l \in CallLoads : l.backing \in {"postgres", "memory"} /\ l.calls \subseteq Calls

Levels == <<"unknown", "introduced", "practiced", "demonstrated">>

\* The verdicts of one event are of the levels there are.
AreVerdicts(verdicts) ==
    /\ Len(verdicts) \in Nat /\ DOMAIN verdicts = 1..Len(verdicts)
    /\ \A i \in DOMAIN verdicts : verdicts[i].level \in {Levels[k] : k \in 1..4}

\* What is in the log at the start, and what a tool adds to it.
ASSUME EvidenceIsWellFormed ==
    /\ IsFiniteSet(PriorEvents)
    /\ \A e \in PriorEvents : e.seq \in Nat /\ AreVerdicts(e.verdicts)
    /\ \A c \in Calls : CallKind[c] = "observe" => AreVerdicts(Observed[c].verdicts)

\* LEGAL_TRANSITIONS.
Legal == {<<"pending", "in_progress">>, <<"pending", "skipped">>,
          <<"in_progress", "done">>, <<"in_progress", "skipped">>}

-----------------------------------------------------------------------------
(* The projection: a fold over the evidence in the order of its numbers.    *)

Rank(level) == CHOOSE i \in 1..4 : Levels[i] = level

EmptyBucket == [count |-> 0, negative |-> 0, groups |-> {}, best |-> "unknown"]

\* Only valid verdicts of learning evidence that no correction revoked.
Considered(e, v) == /\ e.kind = "learning"
                    /\ <<e.by, v.component>> \notin Superseded
                    /\ v.valid

CountVerdict(bucket, v) ==
    [count |-> bucket.count + 1,
     negative |-> bucket.negative + IF v.direction = "negative" THEN 1 ELSE 0,
     groups |-> bucket.groups \cup {v.group},
     best |-> IF v.direction = "positive" /\ Rank(v.level) > Rank(bucket.best)
              THEN v.level ELSE bucket.best]

\* The verdicts on a component that count, each at its place in its event.
Verdicts(evidence, c) ==
    UNION {{<<e, i>> : i \in {k \in DOMAIN e.verdicts : /\ e.verdicts[k].component = c
                                                      /\ Considered(e, e.verdicts[k])}}
             : e \in evidence}
VerdictAt(place) == place[1].verdicts[place[2]]

\* The last of some: by the number of the event; two events may have the same, and
\* then their random ids decide.
LastOf(places) ==
    LET event == CHOOSE e \in {p[1] : p \in places} : \A p \in places : p[1].seq <= e.seq
    IN <<event, Max({p[2] : p \in {q \in places : q[1] = event}})>>

Bucket(evidence, c) ==
    LET after[read \in SUBSET Verdicts(evidence, c)] ==
          IF read = {} THEN EmptyBucket
          ELSE CountVerdict(after[read \ {LastOf(read)}], VerdictAt(LastOf(read)))
    IN after[Verdicts(evidence, c)]

\* _confidence_for: by the number of independent groups.
Confidence(groups) == CASE groups = 0 -> "insufficient" [] groups = 1 -> "low"
                        [] groups = 2 -> "medium" [] OTHER -> "high"

Watermark(evidence) == IF evidence = {} THEN 0 ELSE Max({e.seq : e \in evidence})

\* A component nothing counts for is left out; its level reads as unknown.
Projection(evidence) ==
    [watermark |-> Watermark(evidence),
     components |->
       [c \in Components |->
          LET b == Bucket(evidence, c)
          IN [level |-> b.best, confidence |-> Confidence(Cardinality(b.groups)),
              count |-> b.count, negative |-> b.negative]]]

-----------------------------------------------------------------------------
ProductInit ==
    /\ \E l \in CallLoads : backing = l.backing /\ callers = l.calls
    /\ diagnoses = <<>>
    /\ plans = {[version |-> 1, by |-> FirstPlan, assessed |-> TRUE]}
    /\ status = [t \in Tasks |-> IF t[1] = FirstPlan THEN "pending" ELSE NoOne]
    /\ rowLock = [t \in Tasks |-> NoOne]
    /\ reports = {}
    /\ events = {}
    /\ nextSeq = 1
    /\ observed = PriorEvents
    /\ lastSeq = Cardinality(PriorEvents)
    /\ restarts = 0
    /\ lastMessage = 0
    /\ messages = {}
    /\ lock = NoOne
    /\ failures = 0
    /\ moves = <<>>
    /\ call = [c \in Calls |-> [pc |-> "new", number |-> 0, answer |-> <<>>]]

Is(c, kind, pc) == c \in callers /\ CallKind[c] = kind /\ call[c].pc = pc
Go(c, pc) == call' = [call EXCEPT ![c].pc = pc]
GoWith(c, pc, n) == call' = [call EXCEPT ![c].pc = pc, ![c].number = n]

\* In memory every operation holds the repository's lock to its end.
Mine(c) == backing = "memory" => lock \in {NoOne, c}
Hold(c) == lock' = IF backing = "memory" THEN c ELSE lock
Release(c) == lock' = IF lock = c THEN NoOne ELSE lock

-----------------------------------------------------------------------------
(* Diagnoses and plans.                                                     *)

Diagnose(c) ==
    /\ Is(c, "diagnose", "new")
    /\ Mine(c)
    /\ diagnoses' = Append(diagnoses, c)
    /\ Go(c, "done")
    /\ UNCHANGED <<logVars, backing, callers, plans, status, rowLock, reports, events, nextSeq,
                   lastMessage, messages, lock, failures, moves>>

\* generate_plan reads the latest diagnosis in a transaction of its own.
ReadDiagnosis(c) ==
    /\ Is(c, "generate", "new")
    /\ Mine(c)
    /\ IF diagnoses = <<>> THEN Go(c, "refused")
       ELSE call' = [call EXCEPT ![c].pc = "plan", ![c].answer = <<Last(diagnoses)>>]
    /\ UNCHANGED <<logVars, backing, callers, diagnoses, plans, status, rowLock, reports, events,
                   nextSeq, lastMessage, messages, lock, failures, moves>>

Versions == {p.version : p \in plans}

\* The next version is read before anything is inserted.
ReadVersion(c) ==
    /\ Is(c, "generate", "plan") \/ Is(c, "replace", "new")
    /\ Mine(c)
    /\ Hold(c)
    /\ GoWith(c, "insert", Max(Versions) + 1)
    /\ UNCHANGED <<logVars, backing, callers, diagnoses, plans, status, rowLock, reports, events,
                   nextSeq, lastMessage, messages, failures, moves>>

\* UNIQUE (project_id, version): an insert waits for the open transaction that
\* has inserted the same version, and fails on a committed one.
OpenPlan(v) == \E d \in Plans \cap Calls : call[d].pc = "inserted" /\ call[d].number = v
VersionIsTaken(v) == v \in Versions

InsertPlan(c) ==
    /\ c \in Plans \cap Calls
    /\ call[c].pc = "insert"
    /\ ~OpenPlan(call[c].number)
    /\ ~VersionIsTaken(call[c].number)
    /\ Go(c, "inserted")
    /\ UNCHANGED <<logVars, backing, callers, diagnoses, plans, status, rowLock, reports, events,
                   nextSeq, lastMessage, messages, lock, failures, moves>>

PlanConflict(c) ==
    /\ c \in Plans \cap Calls
    /\ call[c].pc = "insert"
    /\ VersionIsTaken(call[c].number)
    /\ Go(c, "conflict")
    /\ Release(c)
    /\ UNCHANGED <<logVars, backing, callers, diagnoses, plans, status, rowLock, reports, events,
                   nextSeq, lastMessage, messages, failures, moves>>

\* The plan, its milestones and tasks and, of a generated plan, one assessment
\* for each task are committed together.
CommitPlan(c) ==
    /\ c \in Plans \cap Calls
    /\ call[c].pc = "inserted"
    /\ plans' = plans \cup {[version |-> call[c].number, by |-> c,
                             assessed |-> CallKind[c] = "generate"]}
    /\ status' = [t \in Tasks |-> IF t \in TasksOf(c) THEN "pending" ELSE status[t]]
    /\ Go(c, "done")
    /\ Release(c)
    /\ UNCHANGED <<logVars, backing, callers, diagnoses, rowLock, reports, events, nextSeq,
                   lastMessage, messages, failures, moves>>

-----------------------------------------------------------------------------
(* Task status.                                                             *)

Asked(c) == <<MoveFrom[c], MoveTo[c]>>

\* Mutant: the move does not ask for the status it expects.
AnyOpenStatus(c) == status[TaskCalled[c]] \in {"pending", "in_progress"}

\* UPDATE ... WHERE status = expected: the row decides, once it is free.
AsExpected(c) == status[TaskCalled[c]] = MoveFrom[c]

Move(c) ==
    /\ Is(c, "move", "new")
    /\ Asked(c) \in Legal
    /\ Mine(c)
    /\ rowLock[TaskCalled[c]] = NoOne
    /\ AsExpected(c)
    /\ status' = [status EXCEPT ![TaskCalled[c]] = MoveTo[c]]
    /\ moves' = Append(moves, [task |-> TaskCalled[c], by |-> c,
                               from |-> MoveFrom[c], to |-> MoveTo[c]])
    /\ Go(c, "done")
    /\ UNCHANGED <<logVars, backing, callers, diagnoses, plans, rowLock, reports, events, nextSeq,
                   lastMessage, messages, lock, failures>>

MoveMissed(c) ==
    /\ Is(c, "move", "new")
    /\ Asked(c) \in Legal
    /\ Mine(c)
    /\ ~AsExpected(c)
    /\ Hold(c)
    /\ Go(c, "reread")
    /\ UNCHANGED <<logVars, backing, callers, diagnoses, plans, status, rowLock, reports, events,
                   nextSeq, lastMessage, messages, failures, moves>>

\* Nothing was updated: not visible, already there (a repeat), or a conflict.
Reread(c) ==
    /\ Is(c, "move", "reread")
    /\ Go(c, CASE status[TaskCalled[c]] = NoOne -> "refused"
               [] status[TaskCalled[c]] = MoveTo[c] -> "done"
               [] OTHER -> "conflict")
    /\ Release(c)
    /\ UNCHANGED <<logVars, backing, callers, diagnoses, plans, status, rowLock, reports, events,
                   nextSeq, lastMessage, messages, failures, moves>>

MoveIllegal(c) ==
    /\ Is(c, "move", "new")
    /\ Asked(c) \notin Legal
    /\ Go(c, "refused")
    /\ UNCHANGED <<logVars, backing, callers, diagnoses, plans, status, rowLock, reports, events,
                   nextSeq, lastMessage, messages, lock, failures, moves>>

-----------------------------------------------------------------------------
(* Self reports and the evidence they are.                                  *)

Assessed(t) == \E p \in plans : p.by = t[1] /\ p.assessed

\* Mutant: the status is read without locking the row.
LockNothing(c) == rowLock' = rowLock

\* SELECT status ... FOR UPDATE.
LockRow(c) == rowLock' = [rowLock EXCEPT ![TaskCalled[c]] = c]

\* The task must be in progress and carry an assessment frozen with its plan.
BeginReport(c) ==
    /\ Is(c, "submit", "new")
    /\ Mine(c)
    /\ rowLock[TaskCalled[c]] = NoOne
    /\ status[TaskCalled[c]] = "in_progress"
    /\ Assessed(TaskCalled[c])
    /\ LockRow(c)
    /\ Hold(c)
    /\ Go(c, "report")
    /\ UNCHANGED <<logVars, backing, callers, diagnoses, plans, status, reports, events, nextSeq,
                   lastMessage, messages, failures, moves>>

RefuseReport(c) ==
    /\ Is(c, "submit", "new")
    /\ Mine(c)
    /\ rowLock[TaskCalled[c]] = NoOne
    /\ status[TaskCalled[c]] # "in_progress" \/ ~Assessed(TaskCalled[c])
    /\ Go(c, "refused")
    /\ UNCHANGED <<logVars, backing, callers, diagnoses, plans, status, rowLock, reports, events,
                   nextSeq, lastMessage, messages, lock, failures, moves>>

\* The submission and its evidence are inserted; the number comes from the
\* identity sequence, which no rollback gives back.
InsertEvidence(c) ==
    /\ Is(c, "submit", "report")
    /\ nextSeq' = nextSeq + 1
    /\ GoWith(c, "reported", nextSeq)
    /\ UNCHANGED <<logVars, backing, callers, diagnoses, plans, status, rowLock, reports, events,
                   lastMessage, messages, lock, failures, moves>>

\* _self_report_verdict.
SelfReport(c) ==
    [component |-> ComponentOf[TaskCalled[c][2]], valid |-> TRUE,
     direction |-> "positive", level |-> "introduced", group |-> c]

UnlockRow(c) == rowLock' = [t \in Tasks |-> IF rowLock[t] = c THEN NoOne ELSE rowLock[t]]

CommitReport(c) ==
    /\ Is(c, "submit", "reported")
    /\ reports' = reports \cup {[by |-> c, task |-> TaskCalled[c],
                                 under |-> status[TaskCalled[c]]]}
    /\ events' = events \cup {[seq |-> call[c].number, by |-> c, task |-> TaskCalled[c],
                               kind |-> "learning", verdicts |-> <<SelfReport(c)>>]}
    /\ Go(c, "done")
    /\ UnlockRow(c)
    /\ Release(c)
    /\ UNCHANGED <<logVars, backing, callers, diagnoses, plans, status, nextSeq,
                   lastMessage, messages, failures, moves>>

-----------------------------------------------------------------------------
(* The runtime's log, and the mastery view of both logs.                    *)

\* EvidenceLog.append takes no lock: it counts, and reads the count again when
\* the event is built, so two tools at once may number their events alike.
CountEvent(c) ==
    /\ Is(c, "observe", "new")
    /\ lastSeq' = lastSeq + 1
    /\ Go(c, "counted")
    /\ UNCHANGED <<observed, restarts, backing, callers, diagnoses, plans, status, rowLock,
                   reports, events, nextSeq, lastMessage, messages, lock, failures, moves>>

RecordObservation(c) ==
    /\ Is(c, "observe", "counted")
    /\ observed' = observed \cup {[seq |-> lastSeq, by |-> c, task |-> Observed[c].task,
                                   kind |-> Observed[c].kind, verdicts |-> Observed[c].verdicts]}
    /\ Go(c, "done")
    /\ UNCHANGED <<lastSeq, restarts, backing, callers, diagnoses, plans, status, rowLock,
                   reports, events, nextSeq, lastMessage, messages, lock, failures, moves>>

\* The table is read first, in a transaction of its own.
ReadEvidence(c) ==
    /\ Is(c, "mastery", "new")
    /\ Mine(c)
    /\ call' = [call EXCEPT ![c].pc = "read", ![c].answer = <<events>>]
    /\ UNCHANGED <<logVars, backing, callers, diagnoses, plans, status, rowLock, reports,
                   events, nextSeq, lastMessage, messages, lock, failures, moves>>

\* Then the log, and everything is folded again from the start.
ReadMastery(c) ==
    /\ Is(c, "mastery", "read")
    /\ LET kept == call[c].answer[1]
       IN call' = [call EXCEPT ![c].pc = "done",
                               ![c].answer = <<kept, observed, restarts,
                                               Projection(kept \cup observed)>>]
    /\ UNCHANGED <<logVars, backing, callers, diagnoses, plans, status, rowLock, reports,
                   events, nextSeq, lastMessage, messages, lock, failures, moves>>

-----------------------------------------------------------------------------
(* Messages.                                                                *)

\* UPDATE conversations SET last_message_seq + 1: the row is held to the commit.
TakeNumber(c) ==
    /\ Is(c, "append", "new")
    /\ lock = NoOne
    /\ lock' = c
    /\ GoWith(c, "numbered", lastMessage + 1)
    /\ UNCHANGED <<logVars, backing, callers, diagnoses, plans, status, rowLock, reports, events,
                   nextSeq, lastMessage, messages, failures, moves>>

CommitMessage(c) ==
    /\ Is(c, "append", "numbered")
    /\ lastMessage' = call[c].number
    /\ messages' = messages \cup {[by |-> c, seq |-> call[c].number]}
    /\ lock' = NoOne
    /\ Go(c, "done")
    /\ UNCHANGED <<logVars, backing, callers, diagnoses, plans, status, rowLock, reports, events,
                   nextSeq, failures, moves>>

\* The database drops an open transaction: everything it did is undone, its
\* locks are free, the number of the evidence is used up.
Fail(c) ==
    /\ backing = "postgres"
    /\ failures < MaxFailures
    /\ call[c].pc \in {"insert", "inserted", "reread", "report", "reported", "numbered"}
    /\ failures' = failures + 1
    /\ Go(c, "error")
    /\ UnlockRow(c)
    /\ Release(c)
    /\ UNCHANGED <<logVars, backing, callers, diagnoses, plans, status, reports, events, nextSeq,
                   lastMessage, messages, moves>>

\* The process restarts: open transactions roll back, tools stop, and the
\* runtime's log is empty again.  (In memory everything is gone.)
Restart ==
    /\ backing = "postgres"
    /\ failures < MaxFailures
    /\ failures' = failures + 1
    /\ restarts' = restarts + 1
    /\ observed' = {}
    /\ lastSeq' = 0
    /\ rowLock' = [t \in Tasks |-> NoOne]
    /\ lock' = NoOne
    /\ call' = [c \in Calls |->
                  IF call[c].pc \in {"new", "done", "refused", "conflict"} THEN call[c]
                  ELSE [call[c] EXCEPT !.pc = "error"]]
    /\ UNCHANGED <<backing, callers, diagnoses, plans, status, reports, events, nextSeq,
                   lastMessage, messages, moves>>

ProductNext ==
    \/ Restart
    \/ \E c \in Calls :
       \/ Diagnose(c) \/ ReadDiagnosis(c) \/ ReadVersion(c)
       \/ InsertPlan(c) \/ PlanConflict(c) \/ CommitPlan(c)
       \/ Move(c) \/ MoveMissed(c) \/ Reread(c) \/ MoveIllegal(c)
       \/ BeginReport(c) \/ RefuseReport(c) \/ InsertEvidence(c) \/ CommitReport(c)
       \/ CountEvent(c) \/ RecordObservation(c) \/ ReadEvidence(c) \/ ReadMastery(c)
       \/ TakeNumber(c) \/ CommitMessage(c)
       \/ Fail(c)

-----------------------------------------------------------------------------
(* Properties.                                                              *)

Statuses == {NoOne, "pending", "in_progress", "done", "skipped"}

ProductTypeOK ==
    /\ backing \in {"postgres", "memory"}
    /\ callers \subseteq Calls
    /\ diagnoses \in Seq(Calls)
    /\ plans \subseteq [version : 1..(Cardinality(Plans)), by : Plans, assessed : BOOLEAN]
    /\ status \in [Tasks -> Statuses]
    /\ rowLock \in [Tasks -> Calls \cup {NoOne}]
    /\ reports \subseteq [by : Calls, task : Tasks, under : Statuses]
    /\ nextSeq \in Nat /\ lastSeq \in Nat /\ lastMessage \in Nat
    /\ restarts \in 0..MaxFailures
    /\ messages \subseteq [by : Calls, seq : Nat]
    /\ lock \in Calls \cup {NoOne}
    /\ failures \in 0..MaxFailures

HasPlan(t) == \E p \in plans : p.by = t[1]

\* Where the first n of some moves leave a task.
MovesOf(taken, t, n) == {i \in 1..n : taken[i].task = t}
StatusAfter(taken, t, n) ==
    IF MovesOf(taken, t, n) = {} THEN "pending" ELSE taken[Max(MovesOf(taken, t, n))].to

\* The versions of a plan are numbered without a hole and nobody's plan is
\* overwritten; the status of each task is the end of one legal path from
\* pending, so of two callers who expect the same status one moves it; messages
\* are numbered without a hole or a double (product_store.py:306, 483).
PlansAndTasks ==
    /\ Versions = 1..Cardinality(plans)
    /\ \A p, q \in plans : p.version = q.version => p = q
    /\ \A c \in Plans : (\E p \in plans : p.by = c) <=> (c = FirstPlan \/ call[c].pc = "done")
    /\ \A i \in DOMAIN moves :
          /\ HasPlan(moves[i].task)
          /\ moves[i].from = StatusAfter(moves, moves[i].task, i - 1)
          /\ <<moves[i].from, moves[i].to>> \in Legal
    /\ \A t \in Tasks :
          status[t] = IF HasPlan(t) THEN StatusAfter(moves, t, Len(moves)) ELSE NoOne
    /\ {m.seq : m \in messages} = 1..lastMessage
    /\ Cardinality(messages) = lastMessage

\* What a component's mastery has to say: the valid verdicts of learning evidence that
\* were not revoked, in no order, and the levels the positive ones show.
Counted(evidence, c) ==
    UNION {{e} \X {i \in DOMAIN e.verdicts : /\ e.verdicts[i].component = c
                                             /\ e.verdicts[i].valid
                                             /\ e.kind = "learning"
                                             /\ <<e.by, c>> \notin Superseded}
             : e \in evidence}
Shown(evidence, c) ==
    {VerdictAt(p).level : p \in {q \in Counted(evidence, c) : VerdictAt(q).direction = "positive"}}

\* Every committed report is one piece of evidence, made while its task was in
\* progress and for the component its plan assesses, and has a number of its own.
ReportsAreEvidence ==
    /\ \A r \in reports :
          /\ r.under = "in_progress"
          /\ \E e \in events :
                /\ e.by = r.by /\ e.task = r.task
                /\ e.verdicts[1].component = ComponentOf[r.task[2]]
    /\ Cardinality(events) = Cardinality(reports)
    /\ \A d, e \in events : d.seq = e.seq => d = e

\* Mastery is earned: reports are evidence, and every mastery view ever answered
\* counts exactly the valid evidence it read: its level is the highest a positive
\* verdict shows.  What the table shows is never taken back by later evidence or a
\* restart, and what the runtime's log shows only by a restart, although events
\* become visible in another order than they are numbered, or are numbered alike
\* (evidence.py:221).
MasteryIsEarned ==
    /\ ReportsAreEvidence
    /\ \A m \in {c \in callers : Is(c, "mastery", "done")} :
          LET kept == call[m].answer[1]
              seen == kept \cup call[m].answer[2]
              told == call[m].answer[4].components
              now == Projection(events \cup observed).components
              table == Projection(kept).components
          IN \A c \in Components :
                /\ told[c].count = Cardinality(Counted(seen, c))
                /\ told[c].level = "unknown" <=> Shown(seen, c) \subseteq {"unknown"}
                /\ told[c].level # "unknown" => told[c].level \in Shown(seen, c)
                /\ \A level \in Shown(seen, c) : Rank(level) <= Rank(told[c].level)
                /\ Rank(table[c].level) <= Rank(now[c].level)
                /\ call[m].answer[3] = restarts => Rank(told[c].level) <= Rank(now[c].level)
=============================================================================
