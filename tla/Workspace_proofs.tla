--------------------------- MODULE Workspace_proofs ---------------------------
(***************************************************************************)
(* What a learner works in.  Projects: an edit starts from the version it   *)
(* names; in postgres none is lost, in memory one only to an edit that had  *)
(* read the project before it.  The stream of a run: a client that follows  *)
(* the events misses none and sees none twice.  Plans and tasks: versions   *)
(* are 1, 2, 3 and so on, a task makes legal moves only and one at a time,  *)
(* and a report becomes evidence while its task is in progress.  Mastery is *)
(* what the evidence shows.  Answers of a search, and what their citations  *)
(* say, stay true.  Documents: every character under a heading is in a      *)
(* piece that carries the headings in force at its line.  For any calls,    *)
(* people and tenants, lines, documents, evidence and queries, any number   *)
(* of events, size of a batch or a piece, and broken connections; and each  *)
(* part keeps its types and its bounds.                                     *)
(***************************************************************************)
EXTENDS Projects, TeachingStream, Products, Retrieval, Chunking, AccountSums, SequenceTheorems, TLAPS

-----------------------------------------------------------------------------
(* Projects.                                                                *)

Texts ==
    {"", "first"} \cup {EditOf[e].name : e \in Edits} \cup {EditOf[e].goal : e \in Edits}
Tenants ==
    {"none"} \cup {TenantOf[a] : a \in People} \cup {EditOf[e].tenant : e \in Edits}
ProjectRow == [version : Nat, tenant : Tenants, name : Texts, goal : Texts]
WriteRecord == [of : Edits, from : ProjectRow, over : ProjectRow, to : ProjectRow]

ProjectShapes ==
    /\ edits \subseteq Edits /\ shelf \in {"postgres", "memory"}
    /\ project \in [ProjectIds -> ProjectRow]
    /\ edit \in [Edits -> [pc : EditPc, seen : ProjectRow]]
    /\ writes \subseteq WriteRecord

P(e) == EditOf[e].project
MaySee(e) == Visible(EditOf[e].by, P(e))

\* What a thread in the middle of an edit has read is what is there, or an edit has
\* been made since.
Reading(e) ==
    edit[e].pc = "write" =>
        /\ shelf = "memory" /\ EditOf[e].kind = "edit" /\ MaySee(e)
        /\ edit[e].seen.version = EditOf[e].version
        /\ edit[e].seen.tenant = project[P(e)].tenant
        /\ edit[e].seen = project[P(e)] \/ \E x \in writes : x.to = project[P(e)] /\ P(x.of) = P(e)

\* What a creator of a project may rely on.
Creating(e) ==
    /\ edit[e].pc = "grant" =>
         /\ shelf = "memory"
         /\ project[P(e)].version > 0 /\ project[P(e)].tenant = TenantOf[EditOf[e].by]
    /\ Asks(e, "create", "ok") => MaySee(e)

\* What is known of an edit that was made.
Made(w) ==
    /\ EditOf[w.of].kind = "edit" /\ edit[w.of].pc = "ok" /\ MaySee(w.of)
    /\ w.from.version = EditOf[w.of].version
    /\ w.to = Edited(w.from, w.of)
    /\ w.from # w.over =>
         shelf = "memory" /\ \E x \in writes \ {w} : x.to = w.over /\ P(x.of) = P(w.of)

\* The versions of a project in postgres are one chain.
OneChain ==
    shelf = "postgres" =>
        /\ \A w \in writes : w.to.version <= project[P(w.of)].version
        /\ \A v, w \in writes : v # w /\ P(v.of) = P(w.of) => v.to.version # w.to.version

ProjectsInv ==
    /\ ProjectShapes
    /\ \A e \in Edits : Reading(e) /\ Creating(e)
    /\ \A w \in writes : Made(w)
    /\ OneChain

-----------------------------------------------------------------------------
LEMMA EditedIsProject ==
    ASSUME NEW from \in ProjectRow, NEW e \in Edits
    PROVE  /\ Edited(from, e) \in ProjectRow
           /\ Edited(from, e).version = from.version + 1
           /\ Edited(from, e).tenant = from.tenant
<1>1. EditOf[e].name \in Texts /\ EditOf[e].goal \in Texts
  BY DEF Texts
<1> QED BY <1>1 DEF Edited, ProjectRow

\* A step that edits nothing keeps the invariant when it changes no project that
\* exists and leaves every call it moves in order.
LEMMA OthersKeep ==
    ASSUME ProjectsInv, ProjectShapes', writes' = writes, shelf' = shelf, granted \subseteq granted',
           \A p \in ProjectIds : project[p].version > 0 => project'[p] = project[p],
           \A e \in Edits : \/ edit'[e] = edit[e]
                            \/ edit[e].pc # "ok" /\ Reading(e)' /\ Creating(e)'
    PROVE  ProjectsInv'
<1>1. \A e \in Edits : P(e) \in ProjectIds
  BY ProjectsAssumption DEF P
<1>2. ASSUME NEW e \in Edits, MaySee(e)
      PROVE  MaySee(e)' /\ project'[P(e)] = project[P(e)]
  BY <1>1, <1>2 DEF MaySee, Visible, P
<1>3. ASSUME NEW e \in Edits PROVE Reading(e)' /\ Creating(e)'
  <2>1. CASE edit'[e] = edit[e]
    <3>1. Reading(e) /\ Creating(e)
      BY DEF ProjectsInv
    <3>2. Reading(e)'
      BY <1>2, <2>1, <3>1 DEF Reading, P
    <3>3. Creating(e)'
      BY <1>1, <1>2, <2>1, <3>1 DEF Creating, Asks, P
    <3> QED BY <3>2, <3>3
  <2> QED BY <2>1
<1>4. ASSUME NEW w \in writes PROVE Made(w)'
  <2>1. Made(w) /\ w.of \in Edits
    BY DEF ProjectsInv, ProjectShapes, WriteRecord
  <2>2. edit'[w.of].pc = "ok"
    BY <2>1 DEF Made
  <2>3. MaySee(w.of)'
    BY <1>2, <2>1 DEF Made
  <2> QED BY <2>1, <2>2, <2>3 DEF Made, Edited, P
<1>5. OneChain'
  <2>1. \A w \in writes : w.of \in Edits /\ project'[P(w.of)] = project[P(w.of)]
    BY <1>2 DEF ProjectsInv, Made, ProjectShapes, WriteRecord
  <2> QED BY <2>1 DEF ProjectsInv, OneChain, P
<1> QED BY <1>3, <1>4, <1>5 DEF ProjectsInv

\* An edit keeps it when it starts from the version it names, in postgres from the
\* project it replaces.
LEMMA WriteKeeps ==
    ASSUME ProjectsInv, NEW e \in Edits, NEW from \in ProjectRow, Write(e, from),
           UNCHANGED <<edits, shelf, granted>>,
           EditOf[e].kind = "edit", edit[e].pc # "ok", MaySee(e),
           from.version = EditOf[e].version, from.tenant = project[P(e)].tenant,
           \/ from = project[P(e)]
           \/ shelf = "memory" /\ \E x \in writes : x.to = project[P(e)] /\ P(x.of) = P(e)
    PROVE  ProjectsInv'
<1> DEFINE new == [of |-> e, from |-> from, over |-> project[P(e)], to |-> Edited(from, e)]
<1>1. \A d \in Edits : P(d) \in ProjectIds
  BY ProjectsAssumption DEF P
<1>2. /\ project' = [project EXCEPT ![P(e)] = Edited(from, e)]
      /\ writes' = writes \cup {new}
      /\ edit' = [edit EXCEPT ![e].pc = "ok"]
  BY DEF Write, Ends, P
<1>3. /\ Edited(from, e) \in ProjectRow /\ from.version \in Nat
      /\ Edited(from, e).version = from.version + 1
      /\ Edited(from, e).tenant = from.tenant
  BY EditedIsProject DEF ProjectRow
<1>4. /\ project \in [ProjectIds -> ProjectRow] /\ writes \subseteq WriteRecord
      /\ edit \in [Edits -> [pc : EditPc, seen : ProjectRow]]
  BY DEF ProjectsInv, ProjectShapes
<1>5. new \in WriteRecord /\ new.of = e /\ new.from = from /\ new.over = project[P(e)]
      /\ new.to = Edited(from, e)
  BY <1>1, <1>3, <1>4 DEF WriteRecord
<1> HIDE DEF new
<1>6. ProjectShapes'
  <2>1. project' \in [ProjectIds -> ProjectRow]
    BY <1>1, <1>2, <1>3, <1>4
  <2>2. edit' \in [Edits -> [pc : EditPc, seen : ProjectRow]]
    BY <1>2, <1>4 DEF EditPc
  <2> QED BY <1>2, <1>4, <1>5, <2>1, <2>2 DEF ProjectsInv, ProjectShapes
<1>7. project'[P(e)] = Edited(from, e)
      /\ \A p \in ProjectIds : p # P(e) => project'[p] = project[p]
  BY <1>1, <1>2, <1>4
<1>8. edit'[e].pc = "ok" /\ \A d \in Edits : d # e => edit'[d] = edit[d]
  BY <1>2, <1>4
<1>9. \A p \in ProjectIds : project[p].version > 0 =>
         project'[p].version > 0 /\ project'[p].tenant = project[p].tenant
  BY <1>1, <1>3, <1>7
<1>10. ASSUME NEW d \in Edits, MaySee(d) PROVE MaySee(d)'
  BY <1>1, <1>9, <1>10 DEF MaySee, Visible, P
<1>11. ASSUME NEW d \in Edits PROVE Reading(d)' /\ Creating(d)'
  <2>1. Reading(d) /\ Creating(d)
    BY DEF ProjectsInv
  <2>2. CASE d = e
    BY <1>8, <2>2 DEF Reading, Creating, Asks
  <2>3. CASE d # e
    <3>1. edit'[d] = edit[d]
      BY <1>8, <2>3
    <3>2. Creating(d)'
      BY <1>1, <1>9, <1>10, <2>1, <3>1 DEF Creating, Asks, P
    <3>3. Reading(d)'
      <4> SUFFICES ASSUME edit[d].pc = "write" PROVE Reading(d)'
        BY <3>1 DEF Reading
      <4>1. /\ shelf = "memory" /\ EditOf[d].kind = "edit" /\ MaySee(d)
            /\ edit[d].seen.version = EditOf[d].version
            /\ edit[d].seen.tenant = project[P(d)].tenant
            /\ \/ edit[d].seen = project[P(d)]
               \/ \E x \in writes : x.to = project[P(d)] /\ P(x.of) = P(d)
        BY <2>1 DEF Reading
      <4>2. MaySee(d)' /\ project'[P(d)].tenant = project[P(d)].tenant
        BY <1>1, <1>9, <1>10, <4>1 DEF MaySee, Visible
      <4>3. \/ edit'[d].seen = project'[P(d)]
            \/ \E x \in writes' : x.to = project'[P(d)] /\ P(x.of) = P(d)
        <5>1. CASE P(d) = P(e)
          BY <1>2, <1>5, <1>7, <5>1
        <5>2. CASE P(d) # P(e)
          BY <1>1, <1>2, <1>7, <3>1, <4>1, <5>2
        <5> QED BY <5>1, <5>2
      <4> QED BY <3>1, <4>1, <4>2, <4>3 DEF Reading, P
    <3> QED BY <3>2, <3>3
  <2> QED BY <2>2, <2>3
<1>12. ASSUME NEW w \in writes PROVE Made(w) /\ w.of \in Edits /\ w.of # e
  BY <1>4 DEF ProjectsInv, Made, WriteRecord
<1>13. ASSUME NEW w \in writes PROVE Made(w)'
  <2>1. /\ EditOf[w.of].kind = "edit" /\ edit'[w.of].pc = "ok" /\ MaySee(w.of)'
        /\ w.from.version = EditOf[w.of].version
        /\ w.to = Edited(w.from, w.of)
    BY <1>8, <1>10, <1>12 DEF Made
  <2>2. w.from # w.over =>
          shelf' = "memory" /\ \E x \in writes' \ {w} : x.to = w.over /\ P(x.of) = P(w.of)
    BY <1>2, <1>12 DEF Made
  <2> QED BY <2>1, <2>2 DEF Made, Edited, P
<1>14. ASSUME NEW w, w = new PROVE Made(w)'
  <2>1. MaySee(e)'
    BY <1>10
  <2>2. w.from # w.over =>
          shelf' = "memory" /\ \E x \in writes' \ {w} : x.to = w.over /\ P(x.of) = P(w.of)
    <3> SUFFICES ASSUME from # project[P(e)]
                 PROVE  shelf' = "memory" /\ \E x \in writes' \ {w} :
                           x.to = project[P(e)] /\ P(x.of) = P(e)
      BY <1>5, <1>14
    <3>1. PICK x \in writes : x.to = project[P(e)] /\ P(x.of) = P(e)
      OBVIOUS
    <3>2. x # w
      BY <1>5, <1>12, <1>14
    <3> QED BY <1>2, <3>1, <3>2
  <2>3. /\ EditOf[w.of].kind = "edit" /\ edit'[w.of].pc = "ok" /\ MaySee(w.of)'
        /\ w.from.version = EditOf[w.of].version
        /\ w.to = Edited(w.from, w.of)
    BY <1>5, <1>8, <1>14, <2>1
  <2> QED BY <2>2, <2>3 DEF Made, Edited, P
<1>15. OneChain'
  <2> SUFFICES ASSUME shelf = "postgres" PROVE OneChain'
    BY DEF OneChain
  <2>1. /\ \A w \in writes : w.to.version <= project[P(w.of)].version
        /\ \A v, w \in writes : v # w /\ P(v.of) = P(w.of) => v.to.version # w.to.version
    BY DEF ProjectsInv, OneChain
  <2>2. from = project[P(e)] /\ new.to.version = project[P(e)].version + 1
        /\ project[P(e)].version \in Nat
    BY <1>3, <1>5
  <2>3. \A w \in writes : w.to.version \in Nat /\ P(w.of) \in ProjectIds
                          /\ project[P(w.of)].version \in Nat
    BY <1>1, <1>4, <1>12 DEF WriteRecord, ProjectRow
  <2>4. ASSUME NEW w \in writes'
        PROVE  w.to.version <= project'[P(w.of)].version
    <3>1. CASE w \in writes
      <4>1. CASE P(w.of) = P(e)
        BY <1>3, <1>7, <2>1, <2>2, <2>3, <3>1, <4>1
      <4>2. CASE P(w.of) # P(e)
        BY <1>7, <2>1, <2>3, <3>1, <4>2
      <4> QED BY <4>1, <4>2
    <3>2. CASE w = new
      BY <1>3, <1>5, <1>7, <3>2
    <3> QED BY <1>2, <2>4, <3>1, <3>2
  <2>5. \A w \in writes : P(w.of) = P(e) => w.to.version # new.to.version
    BY <2>1, <2>2, <2>3
  <2>6. ASSUME NEW v \in writes', NEW w \in writes', v # w, P(v.of) = P(w.of)
        PROVE  v.to.version # w.to.version
    BY <1>2, <1>5, <2>1, <2>5, <2>6
  <2> QED BY <2>4, <2>6 DEF OneChain, P
<1> QED BY <1>2, <1>6, <1>11, <1>13, <1>14, <1>15 DEF ProjectsInv
-----------------------------------------------------------------------------
LEMMA ProjectsInvInit == ProjectsInit => ProjectsInv
<1> SUFFICES ASSUME ProjectsInit PROVE ProjectsInv
  OBVIOUS
<1>1. NoProject \in ProjectRow /\ \A t \in Tenants : NewProject(t, "first", "") \in ProjectRow
  BY DEF NoProject, NewProject, ProjectRow, Tenants, Texts
<1>2. project \in [ProjectIds -> ProjectRow]
  <2>1. PICK t \in {TenantOf[a] : a \in People} :
          project = [p \in ProjectIds |-> IF p = FirstProject THEN NewProject(t, "first", "")
                                                             ELSE NoProject]
    BY DEF ProjectsInit
  <2>2. t \in Tenants
    BY <2>1 DEF Tenants
  <2> QED BY <1>1, <2>1, <2>2
<1>3. edit \in [Edits -> [pc : EditPc, seen : ProjectRow]] /\ \A e \in Edits : edit[e].pc = "new"
  BY <1>1 DEF ProjectsInit, EditPc
<1>4. ProjectShapes
  BY <1>2, <1>3, ProjectsAssumption DEF ProjectsInit, ProjectShapes
<1>5. \A e \in Edits : Reading(e) /\ Creating(e)
  BY <1>3 DEF Reading, Creating, Asks
<1>6. writes = {}
  BY DEF ProjectsInit
<1> QED BY <1>4, <1>5, <1>6 DEF ProjectsInv, OneChain

\* A call that ends without a word to its user leaves the others alone.
LEMMA EndsAlone ==
    ASSUME ProjectsInv, NEW e \in Edits, NEW answer \in EditPc, Ends(e, answer),
           edit[e].pc # "ok"
    PROVE  /\ edit' \in [Edits -> [pc : EditPc, seen : ProjectRow]]
           /\ edit'[e].pc = answer
           /\ \A d \in Edits : d # e => edit'[d] = edit[d]
  BY DEF ProjectsInv, ProjectShapes, Ends

\* One that changes nothing else and makes no promise.
LEMMA AnswersKeep ==
    ASSUME ProjectsInv, NEW e \in Edits, NEW answer \in EditPc \ {"ok", "grant", "write"},
           Ends(e, answer), edit[e].pc # "ok",
           UNCHANGED <<edits, shelf, project, granted, writes>>
    PROVE  ProjectsInv'
<1>1. /\ edit' \in [Edits -> [pc : EditPc, seen : ProjectRow]]
      /\ edit'[e].pc = answer
      /\ \A d \in Edits : d # e => edit'[d] = edit[d]
  BY EndsAlone
<1>2. ProjectShapes'
  BY <1>1 DEF ProjectsInv, ProjectShapes
<1>3. Reading(e)' /\ Creating(e)'
  BY <1>1 DEF Reading, Creating, Asks
<1> QED BY <1>1, <1>2, <1>3, OthersKeep

\* What Insert makes of the shelf.
LEMMA Inserted ==
    ASSUME ProjectsInv, NEW e \in Edits, Insert(e), project[P(e)].version = 0
    PROVE  /\ P(e) \in ProjectIds
           /\ project' \in [ProjectIds -> ProjectRow]
           /\ project'[P(e)].version = 1 /\ project'[P(e)].tenant = EditOf[e].tenant
           /\ \A p \in ProjectIds : project[p].version > 0 => project'[p] = project[p]
<1>1. P(e) \in ProjectIds /\ project \in [ProjectIds -> ProjectRow]
  BY ProjectsAssumption DEF P, ProjectsInv, ProjectShapes
<1>2. NewProject(EditOf[e].tenant, EditOf[e].name, EditOf[e].goal) \in ProjectRow
  BY DEF NewProject, ProjectRow, Tenants, Texts
<1> QED BY <1>1, <1>2 DEF Insert, NewProject, P

LEMMA CreatingKeeps ==
    ASSUME ProjectsInv, NEW e \in Edits,
           CreateUngranted(e) \/ CreateAndGrant(e) \/ CreateOnly(e)
    PROVE  ProjectsInv'
<1>1. /\ Insert(e) /\ project[P(e)].version = 0 /\ edit[e].pc = "new"
      /\ UNCHANGED <<edits, shelf, writes>> /\ granted \subseteq granted'
  BY DEF CreateUngranted, CreateAndGrant, CreateOnly, Asks, P
<1>2. PICK answer \in {"ok", "grant"} : Ends(e, answer)
  BY DEF CreateUngranted, CreateAndGrant, CreateOnly
<1>3. /\ P(e) \in ProjectIds
      /\ project' \in [ProjectIds -> ProjectRow]
      /\ project'[P(e)].version = 1 /\ project'[P(e)].tenant = EditOf[e].tenant
      /\ \A p \in ProjectIds : project[p].version > 0 => project'[p] = project[p]
  BY <1>1, Inserted
<1>4. /\ edit' \in [Edits -> [pc : EditPc, seen : ProjectRow]]
      /\ edit'[e].pc = answer
      /\ \A d \in Edits : d # e => edit'[d] = edit[d]
  BY <1>1, <1>2, EndsAlone DEF EditPc
<1>5. ProjectShapes'
  BY <1>1, <1>3, <1>4 DEF ProjectsInv, ProjectShapes
<1>6. Reading(e)'
  BY <1>4 DEF Reading
<1>7. Creating(e)'
  <2>1. CASE CreateUngranted(e)
    <3>1. EditOf[e].kind = "found" /\ edit'[e].pc = "ok"
      BY <2>1, <1>1, <1>4 DEF CreateUngranted, Asks, Ends, ProjectsInv, ProjectShapes
    <3> QED BY <3>1 DEF Creating, Asks
  <2>2. CASE CreateAndGrant(e)
    <3>1. /\ EditOf[e].kind = "create" /\ edit'[e].pc = "ok"
          /\ <<TenantOf[EditOf[e].by], EditOf[e].by, P(e)>> \in granted'
      BY <2>2, <1>1, <1>4 DEF CreateAndGrant, Asks, Ends, Grants, P, ProjectsInv, ProjectShapes
    <3>2. EditOf[e].tenant = TenantOf[EditOf[e].by]
      BY <3>1, ProjectsAssumption
    <3>3. MaySee(e)'
      BY <1>3, <3>1, <3>2 DEF MaySee, Visible, P
    <3> QED BY <3>1, <3>3 DEF Creating
  <2>3. CASE CreateOnly(e)
    <3>1. /\ EditOf[e].kind = "create" /\ edit'[e].pc = "grant" /\ shelf = "memory"
      BY <2>3, <1>1, <1>4 DEF CreateOnly, Asks, Ends, ProjectsInv, ProjectShapes
    <3>2. EditOf[e].tenant = TenantOf[EditOf[e].by]
      BY <3>1, ProjectsAssumption
    <3> QED BY <1>1, <1>3, <3>1, <3>2 DEF Creating, Asks, P
  <2> QED BY <2>1, <2>2, <2>3
<1> QED BY <1>1, <1>3, <1>4, <1>5, <1>6, <1>7, OthersKeep

LEMMA GrantOwnKeeps ==
    ASSUME ProjectsInv, NEW e \in Edits, GrantOwn(e)
    PROVE  ProjectsInv'
<1>1. /\ edit[e].pc = "grant" /\ EditOf[e].kind = "create" /\ Ends(e, "ok")
      /\ UNCHANGED <<edits, shelf, project, writes>>
      /\ granted \subseteq granted'
      /\ <<TenantOf[EditOf[e].by], EditOf[e].by, P(e)>> \in granted'
  BY DEF GrantOwn, Asks, Grants, P
<1>2. /\ edit' \in [Edits -> [pc : EditPc, seen : ProjectRow]]
      /\ edit'[e].pc = "ok"
      /\ \A d \in Edits : d # e => edit'[d] = edit[d]
  BY <1>1, EndsAlone DEF EditPc
<1>3. Creating(e)
  BY DEF ProjectsInv
<1>4. MaySee(e)'
  BY <1>1, <1>3 DEF Creating, MaySee, Visible, P
<1>5. Reading(e)' /\ Creating(e)'
  BY <1>2, <1>4 DEF Reading, Creating
<1>6. ProjectShapes'
  BY <1>1, <1>2 DEF ProjectsInv, ProjectShapes
<1> QED BY <1>1, <1>2, <1>5, <1>6, OthersKeep

LEMMA GrantProjectKeeps ==
    ASSUME ProjectsInv, NEW e \in Edits, GrantProject(e)
    PROVE  ProjectsInv'
<1>1. /\ edit[e].pc = "new" /\ EditOf[e].kind = "grant"
      /\ UNCHANGED <<edits, shelf, project, writes>>
      /\ granted \subseteq granted'
  BY DEF GrantProject, Asks
<1>2. PICK answer \in {"ok", "denied"} : Ends(e, answer)
  BY DEF GrantProject
<1>3. /\ edit' \in [Edits -> [pc : EditPc, seen : ProjectRow]]
      /\ edit'[e].pc = answer
      /\ \A d \in Edits : d # e => edit'[d] = edit[d]
  BY <1>1, <1>2, EndsAlone DEF EditPc
<1>4. Reading(e)' /\ Creating(e)'
  BY <1>1, <1>3 DEF Reading, Creating, Asks
<1>5. ProjectShapes'
  BY <1>1, <1>3 DEF ProjectsInv, ProjectShapes
<1> QED BY <1>1, <1>3, <1>4, <1>5, OthersKeep

LEMMA RefusalsKeep ==
    ASSUME ProjectsInv, NEW e \in Edits, CreateRefused(e) \/ RefuseEdit(e) \/ LookAgain(e)
    PROVE  ProjectsInv'
<1>1. edit[e].pc # "ok" /\ UNCHANGED <<edits, shelf, project, granted, writes>>
  BY DEF CreateRefused, RefuseEdit, LookAgain, Asks
<1>2. PICK answer \in {"exists", "invalid", "conflict", "denied"} : Ends(e, answer)
  BY DEF CreateRefused, RefuseEdit, LookAgain
<1>3. answer \in EditPc \ {"ok", "grant", "write"}
  BY DEF EditPc
<1> QED BY <1>1, <1>2, <1>3, AnswersKeep

LEMMA UpdateRowKeeps ==
    ASSUME ProjectsInv, NEW e \in Edits, UpdateRow(e)
    PROVE  ProjectsInv'
<1>1. /\ edit[e].pc = "new" /\ EditOf[e].kind = "edit"
      /\ UNCHANGED <<edits, shelf, granted>>
  BY DEF UpdateRow, Asks
<1>2. CASE Matches(e) /\ Write(e, project[P(e)])
  <2>1. project[P(e)] \in ProjectRow
    BY ProjectsAssumption DEF ProjectsInv, ProjectShapes, P
  <2>2. MaySee(e) /\ project[P(e)].version = EditOf[e].version
    BY <1>2 DEF Matches, MaySee, P
  <2> QED BY <1>1, <1>2, <2>1, <2>2, WriteKeeps
<1>3. CASE Ends(e, "look") /\ UNCHANGED <<project, writes>>
  <2>1. "look" \in EditPc \ {"ok", "grant", "write"}
    BY DEF EditPc
  <2> QED BY <1>1, <1>3, <2>1, AnswersKeep
<1> QED BY <1>2, <1>3 DEF UpdateRow, P

LEMMA ReadProjectKeeps ==
    ASSUME ProjectsInv, NEW e \in Edits, ReadProject(e)
    PROVE  ProjectsInv'
<1>1. /\ edit[e].pc = "new" /\ EditOf[e].kind = "edit" /\ shelf = "memory"
      /\ UNCHANGED <<edits, shelf, project, granted, writes>>
  BY DEF ReadProject, Asks
<1>2. CASE \E answer \in {"denied", "conflict"} : Ends(e, answer)
  <2>1. "denied" \in EditPc \ {"ok", "grant", "write"}
        /\ "conflict" \in EditPc \ {"ok", "grant", "write"}
    BY DEF EditPc
  <2> QED BY <1>1, <1>2, <2>1, AnswersKeep
<1>3. CASE Matches(e) /\ edit' = [edit EXCEPT ![e] = [pc |-> "write", seen |-> project[P(e)]]]
  <2>1. project[P(e)] \in ProjectRow /\ edit \in [Edits -> [pc : EditPc, seen : ProjectRow]]
    BY ProjectsAssumption DEF ProjectsInv, ProjectShapes, P
  <2>2. /\ edit' \in [Edits -> [pc : EditPc, seen : ProjectRow]]
        /\ edit'[e].pc = "write" /\ edit'[e].seen = project[P(e)]
        /\ \A d \in Edits : d # e => edit'[d] = edit[d]
    BY <1>3, <2>1 DEF EditPc
  <2>3. MaySee(e)' /\ project[P(e)].version = EditOf[e].version
    BY <1>1, <1>3 DEF Matches, MaySee, Visible, P
  <2>4. Reading(e)' /\ Creating(e)'
    BY <1>1, <2>2, <2>3 DEF Reading, Creating, Asks, P
  <2>5. ProjectShapes'
    BY <1>1, <2>2 DEF ProjectsInv, ProjectShapes
  <2> QED BY <1>1, <2>2, <2>4, <2>5, OthersKeep
<1> QED BY <1>2, <1>3 DEF ReadProject, P

LEMMA WriteProjectKeeps ==
    ASSUME ProjectsInv, NEW e \in Edits, WriteProject(e)
    PROVE  ProjectsInv'
<1>1. edit[e].pc = "write" /\ Write(e, edit[e].seen) /\ UNCHANGED <<edits, shelf, granted>>
  BY DEF WriteProject, Asks
<1>2. edit[e].seen \in ProjectRow
  BY DEF ProjectsInv, ProjectShapes
<1>3. Reading(e)
  BY DEF ProjectsInv
<1> QED BY <1>1, <1>2, <1>3, WriteKeeps DEF Reading

LEMMA ProjectsInvNext == ProjectsInv /\ [ProjectsNext]_projectVars => ProjectsInv'
<1> SUFFICES ASSUME ProjectsInv, [ProjectsNext]_projectVars PROVE ProjectsInv'
  OBVIOUS
<1>1. CASE UNCHANGED projectVars
  <2>1. ProjectShapes'
    BY <1>1 DEF ProjectsInv, ProjectShapes, projectVars
  <2> QED BY <1>1, <2>1, OthersKeep DEF projectVars
<1>2. ASSUME NEW e \in edits,
             \/ CreateRefused(e) \/ CreateUngranted(e) \/ CreateAndGrant(e) \/ CreateOnly(e)
             \/ GrantOwn(e) \/ GrantProject(e)
             \/ RefuseEdit(e) \/ UpdateRow(e) \/ LookAgain(e) \/ ReadProject(e) \/ WriteProject(e)
      PROVE  ProjectsInv'
  <2>1. e \in Edits
    BY DEF ProjectsInv, ProjectShapes
  <2> QED BY <1>2, <2>1, CreatingKeeps, GrantOwnKeeps, GrantProjectKeeps, RefusalsKeep,
             UpdateRowKeeps, ReadProjectKeeps, WriteProjectKeeps
<1> QED BY <1>1, <1>2 DEF ProjectsNext

\* No edit is lost in postgres; in memory one is lost only to an edit that had read the
\* project before it; who created a project sees it (ProjectsHold).
THEOREM EditsAreNotLost == ProjectsSpec => []ProjectsHold
<1>1. ProjectsInv => ProjectsHold
  <2> SUFFICES ASSUME ProjectsInv PROVE ProjectsHold
    OBVIOUS
  <2>1. ASSUME NEW w \in writes
        PROVE  /\ w.from.version = EditOf[w.of].version
               /\ w.to = Edited(w.from, w.of)
               /\ Visible(EditOf[w.of].by, EditOf[w.of].project)
               /\ w.from # w.over =>
                    /\ shelf = "memory"
                    /\ \E x \in writes \ {w} :
                         x.to = w.over /\ EditOf[x.of].project = EditOf[w.of].project
    BY DEF ProjectsInv, Made, MaySee, P
  <2>2. \A v, w \in writes :
          /\ shelf = "postgres" /\ v # w
          /\ EditOf[v.of].project = EditOf[w.of].project
          => v.to.version # w.to.version
    BY DEF ProjectsInv, OneChain, P
  <2>3. ASSUME NEW e \in edits
        PROVE  /\ Asks(e, "create", "ok") => Visible(EditOf[e].by, EditOf[e].project)
               /\ shelf = "postgres" => edit[e].pc # "grant"
    BY DEF ProjectsInv, ProjectShapes, Creating, MaySee, P
  <2> QED BY <2>1, <2>2, <2>3 DEF ProjectsHold
<1> QED BY <1>1, ProjectsInvInit, ProjectsInvNext, PTL DEF ProjectsSpec

\* The edits that were made, and every other call that got what it asked for.
Served == {e \in Edits : edit[e].pc = "ok"}

\* A version is not ahead of the calls that could have raised it.
NotAhead ==
    /\ edits \in EditLoads
    /\ granted \subseteq TenantsNamed \X People \X ProjectIds
    /\ \A p \in ProjectIds : project[p].version <= 1 + Cardinality(Served)
    /\ \A e \in Edits : edit[e].pc = "write" => edit[e].seen.version <= 1 + Cardinality(Served)

ProjectsTyped == ProjectsInv /\ NotAhead

\* One more call is answered.
LEMMA ServedGrows ==
    ASSUME ProjectShapes, ProjectShapes', NEW e \in Edits,
           \A d \in Edits \ {e} : edit'[d] = edit[d],
           edit[e].pc # "ok"
    PROVE  /\ Cardinality(Served) \in Nat /\ Cardinality(Served') \in Nat
           /\ Cardinality(Served') = Cardinality(Served) + IF edit'[e].pc = "ok" THEN 1 ELSE 0
<1>1. IsFiniteSet(Served)
  BY ProjectsAssumption, FS_Subset DEF Served
<1>2. Cardinality(Served) \in Nat
  BY <1>1, FS_CardinalityType
<1>3. CASE edit'[e].pc = "ok"
  <2>1. Served' = Served \cup {e} /\ e \notin Served
    BY <1>3 DEF Served
  <2>2. Cardinality(Served') = Cardinality(Served) + 1
    <3> HIDE DEF Served
    <3> QED BY <1>1, <2>1, FS_AddElement
  <2> QED BY <1>2, <1>3, <2>2
<1>4. CASE edit'[e].pc # "ok"
  <2>1. Served' = Served
    BY <1>4 DEF Served
  <2> QED BY <1>2, <1>4, <2>1
<1> QED BY <1>3, <1>4

LEMMA NotAheadGoesOn ==
    ASSUME ProjectsInv, ProjectsInv', NotAhead, NEW e \in Edits,
           edits' = edits,
           edit[e].pc # "ok",
           \A d \in Edits \ {e} : edit'[d] = edit[d],
           granted' \subseteq TenantsNamed \X People \X ProjectIds,
           edit'[e].pc = "write" => \E p \in ProjectIds : edit'[e].seen = project[p],
           \A p \in ProjectIds :
              \/ project'[p] = project[p]
              \/ project'[p].version = 1
              \/ /\ edit'[e].pc = "ok"
                 /\ \/ \E q \in ProjectIds : project'[p].version = project[q].version + 1
                    \/ edit[e].pc = "write" /\ project'[p].version = edit[e].seen.version + 1
    PROVE  NotAhead'
<1>1. ProjectShapes /\ ProjectShapes'
  BY DEF ProjectsInv
<1>2. /\ Cardinality(Served) \in Nat /\ Cardinality(Served') \in Nat
      /\ Cardinality(Served) <= Cardinality(Served')
      /\ edit'[e].pc = "ok" => Cardinality(Served') = Cardinality(Served) + 1
  BY <1>1, ServedGrows
<1>3. /\ \A p \in ProjectIds : project[p].version \in Nat /\ project'[p].version \in Nat
      /\ \A d \in Edits : edit[d].seen.version \in Nat
  BY <1>1 DEF ProjectShapes, ProjectRow
<1> HIDE DEF Served
<1>4. ASSUME NEW p \in ProjectIds PROVE project'[p].version <= 1 + Cardinality(Served')
  BY <1>2, <1>3 DEF NotAhead
<1>5. ASSUME NEW d \in Edits, edit'[d].pc = "write"
      PROVE  edit'[d].seen.version <= 1 + Cardinality(Served')
  <2>1. CASE d = e
    BY <1>2, <1>3, <1>5, <2>1 DEF NotAhead
  <2>2. CASE d # e
    BY <1>2, <1>3, <1>5, <2>2 DEF NotAhead
  <2> QED BY <2>1, <2>2
<1> QED BY <1>4, <1>5 DEF NotAhead

LEMMA NotAheadNext == ProjectsTyped /\ [ProjectsNext]_projectVars => ProjectsTyped'
<1> SUFFICES ASSUME ProjectsInv, NotAhead, [ProjectsNext]_projectVars PROVE NotAhead'
  BY ProjectsInvNext DEF ProjectsTyped
<1>0. ProjectsInv'
  BY ProjectsInvNext
<1>1. CASE UNCHANGED projectVars
  BY <1>1 DEF projectVars, NotAhead, Served
<1>2. ASSUME NEW e \in edits,
             \/ CreateRefused(e) \/ CreateUngranted(e) \/ CreateAndGrant(e) \/ CreateOnly(e)
             \/ GrantOwn(e) \/ GrantProject(e)
             \/ RefuseEdit(e) \/ UpdateRow(e) \/ LookAgain(e) \/ ReadProject(e) \/ WriteProject(e)
      PROVE  NotAhead'
  <2>1. ProjectShapes /\ e \in Edits /\ P(e) \in ProjectIds /\ EditOf[e].by \in People
    BY ProjectsAssumption DEF ProjectsInv, ProjectShapes, P
  <2>2. /\ edit \in [Edits -> [pc : EditPc, seen : ProjectRow]]
        /\ project \in [ProjectIds -> ProjectRow]
    BY <2>1 DEF ProjectShapes
  <2>3. /\ edits' = edits /\ edit[e].pc # "ok"
        /\ \A d \in Edits \ {e} : edit'[d] = edit[d]
    BY <1>2, <2>1, <2>2 DEF CreateRefused, CreateUngranted, CreateAndGrant, CreateOnly, GrantOwn,
       GrantProject, RefuseEdit, UpdateRow, LookAgain, ReadProject, WriteProject, Write, Asks, Ends
  <2>4. edit'[e].pc = "write" => \E p \in ProjectIds : edit'[e].seen = project[p]
    BY <1>2, <2>1, <2>2 DEF CreateRefused, CreateUngranted, CreateAndGrant, CreateOnly, GrantOwn,
       GrantProject, RefuseEdit, UpdateRow, LookAgain, ReadProject, WriteProject, Write, Asks, Ends, P
  <2>5. granted' \subseteq TenantsNamed \X People \X ProjectIds
    <3>1. /\ TenantOf[EditOf[e].by] \in TenantsNamed /\ EditOf[e].tenant \in TenantsNamed
          /\ EditOf[e].project \in ProjectIds
      BY <2>1 DEF TenantsNamed, P
    <3>2. granted \subseteq TenantsNamed \X People \X ProjectIds
      BY DEF NotAhead
    <3>3. granted' = granted \/ granted' = granted \cup Grants(e)
          \/ granted' = granted \cup {<<EditOf[e].tenant, EditOf[e].by, EditOf[e].project>>}
      BY <1>2 DEF CreateRefused, CreateUngranted, CreateAndGrant, CreateOnly, GrantOwn,
         GrantProject, RefuseEdit, UpdateRow, LookAgain, ReadProject, WriteProject
    <3> QED BY <2>1, <3>1, <3>2, <3>3 DEF Grants
  <2>6. ASSUME NEW p \in ProjectIds
        PROVE \/ project'[p] = project[p]
              \/ project'[p].version = 1
              \/ /\ edit'[e].pc = "ok"
                 /\ \/ \E q \in ProjectIds : project'[p].version = project[q].version + 1
                    \/ edit[e].pc = "write" /\ project'[p].version = edit[e].seen.version + 1
    <3>1. CASE UNCHANGED project
      BY <3>1
    <3>2. CASE Insert(e)
      BY <2>2, <2>6, <3>2 DEF Insert, NewProject
    <3>3. CASE UpdateRow(e) /\ ~UNCHANGED project
      BY <2>1, <2>2, <2>6, <3>3 DEF UpdateRow, Write, Edited, Ends, P
    <3>4. CASE WriteProject(e)
      BY <2>1, <2>2, <2>6, <3>4 DEF WriteProject, Write, Edited, Ends, Asks, P
    <3> QED BY <1>2, <3>1, <3>2, <3>3, <3>4 DEF CreateRefused, CreateUngranted, CreateAndGrant,
       CreateOnly, GrantOwn, GrantProject, RefuseEdit, LookAgain, ReadProject
  <2> QED BY <1>0, <2>1, <2>3, <2>4, <2>5, <2>6, NotAheadGoesOn
<1> QED BY <1>1, <1>2 DEF ProjectsNext

LEMMA NotAheadInit == ProjectsInit => ProjectsTyped
<1> SUFFICES ASSUME ProjectsInit PROVE NotAhead
  BY ProjectsInvInit DEF ProjectsTyped
<1>1. ProjectShapes
  BY ProjectsInvInit DEF ProjectsInv
<1>2. Cardinality(Served) \in Nat
  BY ProjectsAssumption, FS_Subset, FS_CardinalityType DEF Served
<1>3. PICK t \in {TenantOf[a] : a \in People} :
         /\ project = [p \in ProjectIds |-> IF p = FirstProject THEN NewProject(t, "first", "")
                                                            ELSE NoProject]
         /\ granted = {<<t, a, FirstProject>> : a \in {b \in People : TenantOf[b] = t}}
  BY DEF ProjectsInit
<1>4. \A p \in ProjectIds : project[p].version \in {0, 1}
  BY <1>3 DEF NewProject, NoProject
<1>5. granted \subseteq TenantsNamed \X People \X ProjectIds
  <2>1. \A a \in People : <<t, a, FirstProject>> \in TenantsNamed \X People \X ProjectIds
    BY ProjectsAssumption DEF TenantsNamed
  <2> QED BY <1>3, <2>1
<1>6. edits \in EditLoads /\ edit = [e \in Edits |-> [pc |-> "new", seen |-> NoProject]]
  BY DEF ProjectsInit
<1>7. \A e \in Edits : edit[e].pc = "new"
  BY <1>6
<1> QED BY <1>2, <1>4, <1>5, <1>6, <1>7 DEF NotAhead

\* No version is ahead of the calls that were answered, and what is granted names a
\* tenant, a person and a project there may be.
THEOREM ProjectTypes == ProjectsSpec => []ProjectsTypeOK
<1>1. ProjectsTyped => ProjectsTypeOK
  <2> SUFFICES ASSUME ProjectsInv, NotAhead PROVE ProjectsTypeOK
    BY DEF ProjectsTyped
  <2>1. Cardinality(Served) \in Nat /\ Cardinality(Edits) \in Nat
        /\ Cardinality(Served) <= Cardinality(Edits)
    BY ProjectsAssumption, FS_Subset, FS_CardinalityType DEF Served
  <2>2. \A p \in ProjectIds : project[p].version \in 0..(1 + Cardinality(Edits))
    BY <2>1 DEF ProjectsInv, ProjectShapes, ProjectRow, NotAhead
  <2>3. /\ \A e \in Edits : edit[e].pc \in EditPc
        /\ \A w \in writes : w.of \in Edits
    BY DEF ProjectsInv, ProjectShapes, WriteRecord
  <2> QED BY <2>2, <2>3 DEF ProjectsTypeOK, NotAhead, ProjectsInv, ProjectShapes
<1> QED BY <1>1, NotAheadInit, NotAheadNext, PTL DEF ProjectsSpec


-----------------------------------------------------------------------------
(* The stream of a run.                                                     *)

\* The events after the given one up to the n-th, and behind them one mark More or none.
IsFrames(frames, from, n, marks) ==
    /\ frames \in Seq(Nat)
    /\ Len(frames) = n - from + marks
    /\ \A i \in 1..(n - from) : frames[i] = from + i
    /\ marks = 1 => frames[n - from + 1] = More

StreamShapes ==
    /\ logged \in Nat /\ lastId \in Nat /\ stored \in Nat /\ breaks \in Nat
    /\ lastId <= logged /\ stored <= logged

\* What the client has are the first lastId events.
SeenSoFar ==
    /\ seen \in Seq(Nat) /\ Len(seen) = lastId
    /\ \A i \in 1..lastId : seen[i] = i

\* What is on the wire continues what the client has, and ends with all that was
\* stored or with the announcement of more.
WireContinues ==
    /\ ~open => wire = <<>>
    /\ open => ~complete /\ lastId <= stored
    /\ open /\ more => wire = <<>>
    /\ open /\ ~more => \E n \in Nat, marks \in {0, 1} :
         /\ lastId <= n /\ n <= stored
         /\ IsFrames(wire, lastId, n, marks)
         /\ marks = 0 => n = stored
    /\ complete => lastId >= stored

StreamInv == StreamShapes /\ SeenSoFar /\ WireContinues

\* The batch is the beginning of the events, whole or marked.
LEMMA BatchIsFrames ==
    ASSUME NEW from \in Nat, NEW upTo \in Nat, from <= upTo, NEW sent,
           IsFrames(sent, from, upTo, 0)
    PROVE  \E n \in Nat, marks \in {0, 1} :
             /\ from <= n /\ n <= upTo
             /\ IsFrames(Batch(sent), from, n, marks)
             /\ marks = 0 => n = upTo
<1>1. sent \in Seq(Nat) /\ Len(sent) = upTo - from /\ BatchSize \in Nat \ {0}
  BY StreamAssumption DEF IsFrames
<1>2. CASE Len(sent) <= BatchSize
  <2>1. Batch(sent) = sent
    BY <1>1, <1>2 DEF Batch
  <2>2. IsFrames(Batch(sent), from, upTo, 0) /\ 0 \in {0, 1}
    BY <2>1
  <2> QED BY <2>2
<1>3. CASE Len(sent) > BatchSize
  <2> DEFINE part == SubSeq(sent, 1, BatchSize)
             n == from + BatchSize
  <2>1. part \in Seq(Nat) /\ Len(part) = BatchSize
    BY <1>1, <1>3
  <2>2. \A i \in 1..BatchSize : part[i] = from + i
    BY <1>1, <1>3 DEF IsFrames
  <2>3. Batch(sent) = Append(part, More)
    BY <1>3 DEF Batch
  <2>4. n \in Nat /\ from <= n /\ n <= upTo /\ n - from = BatchSize
    BY <1>1, <1>3
  <2> HIDE DEF part
  <2>5. /\ Append(part, More) \in Seq(Nat)
        /\ Len(Append(part, More)) = BatchSize + 1
        /\ \A i \in 1..BatchSize : Append(part, More)[i] = part[i]
        /\ Append(part, More)[BatchSize + 1] = More
    BY <1>1, <2>1 DEF More
  <2>6. IsFrames(Append(part, More), from, n, 1)
    BY <2>2, <2>4, <2>5 DEF IsFrames
  <2> QED BY <2>3, <2>4, <2>6
<1> QED BY <1>1, <1>2, <1>3

LEMMA EmptyIsEmpty ==
    ASSUME NEW s \in Seq(Nat), Len(s) = 0
    PROVE  s = <<>>
  OBVIOUS

\* Taking the first frame leaves the frames after it.
LEMMA TakeAFrame ==
    ASSUME NEW frames, NEW from \in Nat, NEW n \in Nat, from <= n, NEW marks \in {0, 1},
           IsFrames(frames, from, n, marks), frames # <<>>
    PROVE  /\ from < n => Head(frames) = from + 1 /\ IsFrames(Tail(frames), from + 1, n, marks)
           /\ from = n => Head(frames) = More /\ Tail(frames) = <<>>
<1>1. /\ frames \in Seq(Nat) /\ Len(frames) > 0 /\ Head(frames) = frames[1]
      /\ Tail(frames) \in Seq(Nat) /\ Len(Tail(frames)) = Len(frames) - 1
      /\ \A i \in 1..(Len(frames) - 1) : Tail(frames)[i] = frames[i + 1]
  BY DEF IsFrames
<1>2. ASSUME from < n
      PROVE  Head(frames) = from + 1 /\ IsFrames(Tail(frames), from + 1, n, marks)
  <2>1. Len(Tail(frames)) = n - (from + 1) + marks
    BY <1>1, <1>2 DEF IsFrames
  <2>2. Head(frames) = from + 1
    BY <1>1, <1>2 DEF IsFrames
  <2>3. \A i \in 1..(n - (from + 1)) : Tail(frames)[i] = from + 1 + i
    <3> TAKE i \in 1..(n - (from + 1))
    <3>1. i + 1 \in 1..(n - from) /\ i \in 1..(Len(frames) - 1)
      BY <1>1, <1>2 DEF IsFrames
    <3> QED BY <1>1, <3>1 DEF IsFrames
  <2>4. marks = 1 => Tail(frames)[n - (from + 1) + 1] = More
    <3> HAVE marks = 1
    <3>1. n - from \in 1..(Len(frames) - 1) /\ n - (from + 1) + 1 = n - from
      BY <1>2 DEF IsFrames
    <3> QED BY <1>1, <3>1 DEF IsFrames
  <2> QED BY <1>1, <2>1, <2>2, <2>3, <2>4 DEF IsFrames
<1>3. ASSUME from = n PROVE Head(frames) = More /\ Tail(frames) = <<>>
  <2>1. marks = 1 /\ Len(frames) = 1
    BY <1>1, <1>3 DEF IsFrames
  <2>2. Head(frames) = More
    BY <1>1, <1>3, <2>1 DEF IsFrames
  <2>3. Tail(frames) \in Seq(Nat) /\ Len(Tail(frames)) = 0
    BY <1>1, <2>1
  <2>4. Tail(frames) = <<>>
    BY <2>3, EmptyIsEmpty
  <2> QED BY <2>2, <2>4
<1> QED BY <1>2, <1>3

LEMMA StreamInvInit == StreamInit => StreamInv
<1> SUFFICES ASSUME StreamInit PROVE StreamInv
  OBVIOUS
<1>1. StreamShapes
  BY StreamAssumption DEF StreamInit, StreamShapes
<1>2. SeenSoFar
  BY DEF StreamInit, SeenSoFar
<1>3. WireContinues
  BY DEF StreamInit, WireContinues
<1> QED BY <1>1, <1>2, <1>3 DEF StreamInv

LEMMA LogKeeps == StreamInv /\ LogEvent => StreamInv'
<1> SUFFICES ASSUME StreamInv, LogEvent PROVE StreamInv'
  OBVIOUS
<1>1. StreamShapes'
  BY DEF StreamInv, StreamShapes, LogEvent
<1>2. SeenSoFar'
  BY DEF StreamInv, SeenSoFar, LogEvent
<1>3. WireContinues'
  BY DEF StreamInv, WireContinues, LogEvent
<1> QED BY <1>1, <1>2, <1>3 DEF StreamInv

LEMMA ConnectKeeps == StreamInv /\ Connect => StreamInv'
<1> SUFFICES ASSUME StreamInv, Connect PROVE StreamInv'
  OBVIOUS
<1>1. StreamShapes'
  BY DEF StreamInv, StreamShapes, Connect
<1>2. SeenSoFar'
  BY DEF StreamInv, SeenSoFar, Connect
<1>3. IsFrames(EventsAfter(lastId), lastId, logged, 0)
  <2>1. lastId \in Nat /\ logged \in Nat /\ lastId <= logged
    BY DEF StreamInv, StreamShapes
  <2>2. logged - lastId \in Nat /\ \A i \in 1..(logged - lastId) : lastId + i \in Nat
    BY <2>1
  <2>3. EventsAfter(lastId) \in Seq(Nat) /\ Len(EventsAfter(lastId)) = logged - lastId
    BY <2>2 DEF EventsAfter
  <2>4. \A i \in 1..(logged - lastId) : EventsAfter(lastId)[i] = lastId + i
    BY <2>1 DEF EventsAfter
  <2> QED BY <2>1, <2>2, <2>3, <2>4 DEF IsFrames
<1>4. \E n \in Nat, marks \in {0, 1} :
        /\ lastId <= n /\ n <= logged
        /\ IsFrames(wire', lastId, n, marks)
        /\ marks = 0 => n = logged
  <2>1. lastId \in Nat /\ logged \in Nat /\ lastId <= logged
    BY DEF StreamInv, StreamShapes
  <2>2. wire' = Batch(EventsAfter(lastId))
    BY DEF Connect
  <2> HIDE DEF EventsAfter, Batch, IsFrames
  <2> QED BY <1>3, <2>1, <2>2, BatchIsFrames
<1>5. /\ open' /\ ~more' /\ ~complete' /\ lastId' = lastId /\ stored' = logged
      /\ lastId <= logged
  BY DEF StreamInv, StreamShapes, Connect
<1>6. WireContinues'
  BY <1>4, <1>5 DEF WireContinues
<1> QED BY <1>1, <1>2, <1>6 DEF StreamInv

LEMMA ReceiveKeeps == StreamInv /\ Receive => StreamInv'
<1> SUFFICES ASSUME StreamInv, Receive PROVE StreamInv'
  OBVIOUS
<1>1. /\ open /\ ~more /\ ~complete /\ wire # <<>> /\ wire' = Tail(wire)
      /\ UNCHANGED <<logged, open, stored, complete, breaks>>
  BY DEF StreamInv, WireContinues, Receive
<1>2. PICK n \in Nat, marks \in {0, 1} :
        /\ lastId <= n /\ n <= stored
        /\ IsFrames(wire, lastId, n, marks)
        /\ marks = 0 => n = stored
  BY <1>1 DEF StreamInv, WireContinues
<1>3. lastId \in Nat /\ logged \in Nat /\ stored \in Nat /\ stored <= logged
  BY DEF StreamInv, StreamShapes
<1>4. CASE lastId < n
  <2>1. Head(wire) = lastId + 1 /\ IsFrames(wire', lastId + 1, n, marks)
    BY <1>1, <1>2, <1>3, <1>4, TakeAFrame
  <2>2. lastId' = lastId + 1 /\ seen' = Append(seen, lastId + 1) /\ more' = more
    BY <1>3, <2>1 DEF Receive, More
  <2>3. StreamShapes'
    BY <1>1, <1>2, <1>3, <1>4, <2>2 DEF StreamInv, StreamShapes
  <2>4. SeenSoFar'
    <3>1. /\ seen \in Seq(Nat) /\ Len(seen) = lastId
          /\ \A i \in 1..lastId : seen[i] = i
      BY DEF StreamInv, SeenSoFar
    <3>2. /\ seen' \in Seq(Nat) /\ Len(seen') = lastId + 1
          /\ seen'[lastId + 1] = lastId + 1
          /\ \A i \in 1..lastId : seen'[i] = seen[i]
      BY <1>3, <2>2, <3>1
    <3> QED BY <1>3, <2>2, <3>1, <3>2 DEF SeenSoFar
  <2>5. WireContinues'
    <3>1. lastId' <= n /\ n <= stored' /\ IsFrames(wire', lastId', n, marks)
          /\ (marks = 0 => n = stored')
      BY <1>1, <1>2, <1>3, <1>4, <2>1, <2>2
    <3>2. open' /\ ~more' /\ ~complete' /\ lastId' <= stored'
      BY <1>1, <1>2, <1>3, <1>4, <2>2
    <3> QED BY <3>1, <3>2 DEF WireContinues
  <2> QED BY <2>3, <2>4, <2>5 DEF StreamInv
<1>5. CASE lastId = n
  <2>1. Head(wire) = More /\ wire' = <<>>
    BY <1>1, <1>2, <1>3, <1>5, TakeAFrame
  <2>2. more' = TRUE /\ seen' = seen /\ lastId' = lastId
    BY <2>1 DEF Receive
  <2>3. StreamShapes'
    BY <1>1, <2>2 DEF StreamInv, StreamShapes
  <2>4. SeenSoFar'
    BY <2>2 DEF StreamInv, SeenSoFar
  <2>5. WireContinues'
    BY <1>1, <1>2, <1>3, <2>1, <2>2 DEF WireContinues
  <2> QED BY <2>3, <2>4, <2>5 DEF StreamInv
<1> QED BY <1>2, <1>3, <1>4, <1>5

LEMMA EndKeeps == StreamInv /\ EndOfStream => StreamInv'
<1> SUFFICES ASSUME StreamInv, EndOfStream PROVE StreamInv'
  OBVIOUS
<1>1. StreamShapes'
  BY DEF StreamInv, StreamShapes, EndOfStream
<1>2. SeenSoFar'
  BY DEF StreamInv, SeenSoFar, EndOfStream
<1>3. ASSUME ~more PROVE lastId >= stored
  <2>1. PICK n \in Nat, marks \in {0, 1} :
          /\ lastId <= n /\ n <= stored
          /\ IsFrames(wire, lastId, n, marks)
          /\ marks = 0 => n = stored
    BY <1>3 DEF StreamInv, WireContinues, EndOfStream
  <2>2. Len(wire) = 0 /\ lastId \in Nat /\ stored \in Nat
    BY DEF EndOfStream, StreamInv, StreamShapes
  <2>3. marks = 0 /\ n = lastId
    BY <2>1, <2>2 DEF IsFrames
  <2> QED BY <2>1, <2>2, <2>3
<1>4. open' = FALSE /\ wire' = <<>> /\ complete' = ~more /\ UNCHANGED <<lastId, stored>>
  BY DEF EndOfStream
<1>5. WireContinues'
  BY <1>3, <1>4 DEF WireContinues
<1> QED BY <1>1, <1>2, <1>5 DEF StreamInv

LEMMA BreakKeeps == StreamInv /\ Break => StreamInv'
<1> SUFFICES ASSUME StreamInv, Break PROVE StreamInv'
  OBVIOUS
<1>1. StreamShapes'
  BY DEF StreamInv, StreamShapes, Break
<1>2. SeenSoFar'
  <2>1. CASE UNCHANGED <<seen, lastId>>
    BY <2>1 DEF StreamInv, SeenSoFar
  <2>2. CASE seen' = <<>> /\ lastId' = 0
    BY <2>2 DEF SeenSoFar
  <2> QED BY <2>1, <2>2 DEF Break
<1>3. WireContinues'
  BY DEF StreamInv, WireContinues, Break
<1> QED BY <1>1, <1>2, <1>3 DEF StreamInv

LEMMA StreamInvNext == StreamInv /\ [StreamNext]_streamVars => StreamInv'
<1> SUFFICES ASSUME StreamInv, [StreamNext]_streamVars PROVE StreamInv'
  OBVIOUS
<1>1. CASE UNCHANGED streamVars
  BY <1>1 DEF StreamInv, StreamShapes, SeenSoFar, WireContinues, streamVars
<1> QED BY <1>1, LogKeeps, ConnectKeeps, ReceiveKeeps, EndKeeps, BreakKeeps DEF StreamNext

\* Reconnecting with the last number seen loses and repeats nothing, and a connection
\* that announces no more has given all there was (EveryEventOnce).
THEOREM EventsOnce == StreamSpec => []EveryEventOnce
<1>1. StreamInv => EveryEventOnce
  <2> SUFFICES ASSUME StreamInv PROVE EveryEventOnce
    OBVIOUS
  <2>1. /\ seen \in Seq(Nat) /\ Len(seen) = lastId /\ lastId \in Nat
        /\ \A i \in 1..lastId : seen[i] = i
    BY DEF StreamInv, StreamShapes, SeenSoFar
  <2>2. seen = [i \in 1..lastId |-> i]
    BY <2>1
  <2> QED BY <2>2 DEF StreamInv, WireContinues, EveryEventOnce
<1> QED BY <1>1, StreamInvInit, StreamInvNext, PTL DEF StreamSpec

\* Numbers that are given out are within the bounds.
StreamBounds ==
    /\ logged <= MaxEvents /\ breaks \in 0..MaxBreaks
    /\ open \in BOOLEAN /\ more \in BOOLEAN /\ complete \in BOOLEAN

StreamTyped == StreamInv /\ StreamBounds

LEMMA StreamBoundsKept == StreamTyped /\ [StreamNext]_streamVars => StreamTyped'
<1> SUFFICES ASSUME StreamInv, StreamBounds, [StreamNext]_streamVars PROVE StreamBounds'
  BY StreamInvNext DEF StreamTyped
<1>1. logged \in Nat /\ breaks \in Nat /\ MaxEvents \in Nat /\ MaxBreaks \in Nat
  BY StreamAssumption DEF StreamInv, StreamShapes
<1>2. CASE LogEvent
  BY <1>1, <1>2 DEF StreamBounds, LogEvent
<1>3. CASE Connect
  BY <1>1, <1>3 DEF StreamBounds, Connect
<1>4. CASE Receive
  BY <1>1, <1>4 DEF StreamBounds, Receive
<1>5. CASE EndOfStream
  BY <1>1, <1>5 DEF StreamBounds, StreamInv, WireContinues, EndOfStream
<1>6. CASE Break
  <2>1. /\ breaks < MaxBreaks /\ breaks' = breaks + 1 /\ logged' = logged
        /\ open' = FALSE /\ more' = more /\ complete' = complete
    BY <1>6 DEF Break
  <2>2. open' \in BOOLEAN /\ more' \in BOOLEAN /\ complete' \in BOOLEAN
    BY <2>1, Zenon DEF StreamBounds
  <2>3. logged' <= MaxEvents /\ breaks' \in 0..MaxBreaks
    BY <1>1, <2>1 DEF StreamBounds
  <2> QED BY <2>2, <2>3 DEF StreamBounds
<1>7. CASE UNCHANGED streamVars
  BY <1>1, <1>7 DEF StreamBounds, streamVars
<1> QED BY <1>2, <1>3, <1>4, <1>5, <1>6, <1>7 DEF StreamNext

\* The client is asked for no event there is not.
THEOREM StreamTypes == StreamSpec => []StreamTypeOK
<1>1. StreamInit => StreamTyped
  <2>1. StreamInit => StreamBounds
    <3> SUFFICES ASSUME StreamInit PROVE StreamBounds
      OBVIOUS
    <3>1. logged \in 0..MaxEvents /\ open = FALSE /\ more = FALSE /\ complete = FALSE /\ breaks = 0
      BY DEF StreamInit
    <3>2. open \in BOOLEAN /\ more \in BOOLEAN /\ complete \in BOOLEAN
      BY <3>1, Zenon
    <3>3. logged <= MaxEvents /\ breaks \in 0..MaxBreaks
      BY <3>1, StreamAssumption
    <3> QED BY <3>2, <3>3 DEF StreamBounds
  <2> QED BY <2>1, StreamInvInit DEF StreamTyped
<1>2. StreamTyped => StreamTypeOK
  <2> SUFFICES ASSUME StreamShapes, SeenSoFar, StreamBounds PROVE StreamTypeOK
    BY DEF StreamTyped, StreamInv
  <2>1. logged \in 0..MaxEvents /\ lastId \in 0..MaxEvents /\ stored \in 0..MaxEvents
    BY StreamAssumption DEF StreamShapes, StreamBounds
  <2>2. DOMAIN seen = 1..lastId
    BY <2>1 DEF SeenSoFar
  <2>3. \A i \in DOMAIN seen : seen[i] \in 1..MaxEvents
    BY <2>1, <2>2, StreamAssumption DEF SeenSoFar
  <2> QED BY <2>1, <2>3 DEF StreamBounds, StreamTypeOK
<1> QED BY <1>1, <1>2, StreamBoundsKept, PTL DEF StreamSpec

-----------------------------------------------------------------------------
(* Plans, tasks, reports and messages.                                      *)

ProductSpec == ProductInit /\ [][ProductNext]_productVars

PlanRecord == [version : Nat, by : Plans, assessed : BOOLEAN]
MoveRecord == [task : Tasks, by : Calls, from : Statuses, to : Statuses]

CallShape ==
    /\ DOMAIN call = Calls
    /\ \A c \in Calls : DOMAIN call[c] = {"pc", "number", "answer"} /\ call[c].number \in Nat

\* A version that was read is one of those there are or the next; only one open
\* transaction has inserted the next one.
Planned ==
    /\ plans \subseteq PlanRecord /\ IsFiniteSet(plans)
    /\ Versions = 1..Cardinality(plans)
    /\ \A p, q \in plans : p.version = q.version => p = q
    /\ \A c \in Plans : (\E p \in plans : p.by = c) <=> (c = FirstPlan \/ call[c].pc = "done")
    /\ \A c \in Plans \cap Calls :
          /\ call[c].pc = "insert" => call[c].number \in 1..(Cardinality(plans) + 1)
          /\ call[c].pc = "inserted" => call[c].number = Cardinality(plans) + 1
    /\ \A c, d \in Plans \cap Calls :
          call[c].pc = "inserted" /\ call[d].pc = "inserted" => c = d

TasksMoved ==
    /\ status \in [Tasks -> Statuses]
    /\ moves \in Seq(MoveRecord)
    /\ \A i \in DOMAIN moves :
          /\ HasPlan(moves[i].task)
          /\ moves[i].from = StatusAfter(moves, moves[i].task, i - 1)
          /\ <<moves[i].from, moves[i].to>> \in Legal
    /\ \A t \in Tasks : status[t] = IF HasPlan(t) THEN StatusAfter(moves, t, Len(moves)) ELSE NoOne

\* Whoever reports holds the row of a task in progress.
Locked ==
    /\ rowLock \in [Tasks -> Calls \cup {NoOne}]
    /\ \A c \in Calls : call[c].pc \in {"report", "reported"} =>
          /\ CallKind[c] = "submit"
          /\ rowLock[TaskCalled[c]] = c
          /\ status[TaskCalled[c]] = "in_progress"

\* Numbers of the evidence table that were given out are used once.
Reported ==
    /\ nextSeq \in Nat
    /\ IsFiniteSet(reports) /\ IsFiniteSet(events) /\ Cardinality(events) = Cardinality(reports)
    /\ \A r \in reports :
          /\ r.by \in Calls /\ CallKind[r.by] = "submit" /\ call[r.by].pc = "done"
          /\ r.under = "in_progress"
          /\ \E e \in events :
                /\ e.by = r.by /\ e.task = r.task
                /\ e.verdicts[1].component = ComponentOf[r.task[2]]
    /\ \A e \in events :
          /\ e.by \in Calls /\ CallKind[e.by] = "submit" /\ call[e.by].pc = "done"
          /\ e.seq \in Nat /\ e.seq < nextSeq
    /\ \A d, e \in events : d.seq = e.seq => d = e
    /\ \A c \in Calls : call[c].pc = "reported" =>
          /\ call[c].number < nextSeq
          /\ \A e \in events : e.seq # call[c].number
    /\ \A c, d \in Calls :
          call[c].pc = "reported" /\ call[d].pc = "reported" /\ call[c].number = call[d].number
            => c = d

\* Whoever has taken a number holds the conversation.
Numbered ==
    /\ lastMessage \in Nat /\ IsFiniteSet(messages)
    /\ \A m \in messages : m.seq \in 1..lastMessage
    /\ {m.seq : m \in messages} = 1..lastMessage
    /\ Cardinality(messages) = lastMessage
    /\ \A c \in Calls : call[c].pc = "numbered" => lock = c /\ call[c].number = lastMessage + 1

ProductInv == CallShape /\ Planned /\ TasksMoved /\ Locked /\ Reported /\ Numbered

-----------------------------------------------------------------------------
(* One caller goes on.                                                      *)

Alone(c) == CallShape' /\ \A d \in Calls \ {c} : call'[d] = call[d]

LEMMA GoIsAlone ==
    ASSUME CallShape, NEW c \in Calls, NEW pc, Go(c, pc)
    PROVE  Alone(c) /\ call'[c].pc = pc /\ call'[c].number = call[c].number
  BY DEF CallShape, Alone, Go

LEMMA GoWithIsAlone ==
    ASSUME CallShape, NEW c \in Calls, NEW pc, NEW n \in Nat, GoWith(c, pc, n)
    PROVE  Alone(c) /\ call'[c].pc = pc /\ call'[c].number = n
  BY DEF CallShape, Alone, GoWith

LEMMA AnswerIsAlone ==
    ASSUME CallShape, NEW c \in Calls, NEW pc, NEW a,
           call' = [call EXCEPT ![c].pc = pc, ![c].answer = a]
    PROVE  Alone(c) /\ call'[c].pc = pc /\ call'[c].number = call[c].number
  BY DEF CallShape, Alone

LEMMA PlanCalls ==
    /\ \A c \in Calls : c \in Plans <=> CallKind[c] \in {"generate", "replace"}
    /\ \A c \in Plans : c # FirstPlan => c \in Calls
    /\ FirstPlan \in Plans /\ FirstPlan \notin Calls
  BY CallsAreWellFormed DEF Plans

LEMMA PlannedStays ==
    ASSUME Planned, NEW c \in Calls, Alone(c), UNCHANGED plans,
           c \in Plans => call[c].pc # "done" /\ call'[c].pc \notin {"insert", "inserted", "done"}
    PROVE  Planned'
<1>1. \A d \in Calls : d # c => call'[d] = call[d]
  BY DEF Alone
<1>2. \A d \in Plans : d # FirstPlan => d \in Calls
  BY PlanCalls
<1>3. Versions' = Versions
  BY DEF Versions
<1>4. \A d \in Plans : d # FirstPlan => (call'[d].pc = "done" <=> call[d].pc = "done")
  BY <1>1, <1>2
<1>5. \A d \in Plans \cap Calls :
          /\ call'[d].pc = "insert" => call[d].pc = "insert" /\ call'[d].number = call[d].number
          /\ call'[d].pc = "inserted" => call[d].pc = "inserted" /\ call'[d].number = call[d].number
  BY <1>1
<1> QED BY <1>3, <1>4, <1>5 DEF Planned

LEMMA MovedStays ==
    ASSUME TasksMoved, UNCHANGED <<plans, status, moves>>
    PROVE  TasksMoved'
  BY DEF TasksMoved, HasPlan, StatusAfter, MovesOf

LEMMA LockedStays ==
    ASSUME Locked, NEW c \in Calls, Alone(c), UNCHANGED <<status, rowLock>>,
           call'[c].pc \in {"report", "reported"} => call[c].pc \in {"report", "reported"}
    PROVE  Locked'
<1>1. \A d \in Calls : call'[d].pc \in {"report", "reported"} => call[d].pc \in {"report", "reported"}
  BY DEF Alone
<1> QED BY <1>1 DEF Locked

LEMMA ReportedStays ==
    ASSUME Reported, NEW c \in Calls, Alone(c), UNCHANGED <<reports, events, nextSeq>>,
           call'[c].pc # "reported",
           CallKind[c] = "submit" => call[c].pc # "done"
    PROVE  Reported'
<1>1. \A d \in Calls : d # c => call'[d] = call[d]
  BY DEF Alone
<1>2. \A d \in Calls : call'[d].pc = "reported" => call[d].pc = "reported" /\ call'[d].number = call[d].number
  BY <1>1
<1>3. \A d \in Calls : CallKind[d] = "submit" /\ call[d].pc = "done" => call'[d].pc = "done"
  BY <1>1
<1> QED BY <1>2, <1>3 DEF Reported

LEMMA NumberedStays ==
    ASSUME Numbered, NEW c \in Calls, Alone(c), UNCHANGED <<messages, lastMessage>>,
           call'[c].pc # "numbered",
           lock' = lock \/ lock \in {NoOne, c}
    PROVE  Numbered'
<1>1. \A d \in Calls : call'[d].pc = "numbered" =>
         d # c /\ call[d].pc = "numbered" /\ call'[d].number = call[d].number
  BY DEF Alone
<1>2. \A d \in Calls : d # c /\ lock = d => lock' = d
  BY CallsAreWellFormed
<1> QED BY <1>1, <1>2 DEF Numbered

\* A call that only looks, is refused or gives up.
Quiet(c) ==
    /\ UNCHANGED <<plans, status, moves, rowLock, reports, events, nextSeq, messages, lastMessage>>
    /\ call[c].pc # "done"
    /\ call'[c].pc \notin {"insert", "inserted", "report", "reported", "numbered"}
    /\ c \in Plans => call'[c].pc # "done"
    /\ lock' = lock \/ lock \in {NoOne, c}

LEMMA QuietCallsKeep ==
    ASSUME ProductInv, NEW c \in Calls, Alone(c), Quiet(c)
    PROVE  ProductInv'
<1>1. Planned'
  BY PlannedStays DEF ProductInv, Quiet
<1>2. TasksMoved'
  BY MovedStays DEF ProductInv, Quiet
<1>3. Locked'
  BY LockedStays DEF ProductInv, Quiet
<1>4. Reported'
  BY ReportedStays DEF ProductInv, Quiet
<1>5. Numbered'
  BY NumberedStays DEF ProductInv, Quiet
<1> QED BY <1>1, <1>2, <1>3, <1>4, <1>5 DEF ProductInv, Alone

\* Holding and releasing the lock of the memory adapter.
LEMMA HoldIsMine ==
    ASSUME NEW c \in Calls, Mine(c), Hold(c), Numbered
    PROVE  lock' = lock \/ lock \in {NoOne, c}
  BY DEF Mine, Hold

LEMMA ReleaseIsMine ==
    ASSUME NEW c \in Calls, Release(c)
    PROVE  lock' = lock \/ lock \in {NoOne, c}
  BY DEF Release

LEMMA QuietActions ==
    ASSUME ProductInv, NEW c \in Calls,
           \/ Diagnose(c) \/ ReadDiagnosis(c) \/ PlanConflict(c) \/ MoveMissed(c) \/ Reread(c)
           \/ MoveIllegal(c) \/ RefuseReport(c) \/ CountEvent(c) \/ RecordObservation(c)
           \/ ReadEvidence(c) \/ ReadMastery(c)
    PROVE  ProductInv'
<1> USE DEF Is
<1>1. CallShape
  BY DEF ProductInv
<1>2. CASE Diagnose(c)
  <2>1. Alone(c) /\ call'[c].pc = "done"
    BY <1>1, <1>2, GoIsAlone DEF Diagnose
  <2>2. Quiet(c)
    BY <1>2, <2>1, PlanCalls DEF Diagnose, Quiet
  <2> QED BY <2>1, <2>2, QuietCallsKeep
<1>3. CASE ReadDiagnosis(c)
  <2>1. Alone(c) /\ call'[c].pc \in {"refused", "plan"}
    <3>1. CASE diagnoses = <<>>
      BY <1>1, <1>3, <3>1, GoIsAlone DEF ReadDiagnosis
    <3>2. CASE diagnoses # <<>>
      <4>1. call' = [call EXCEPT ![c].pc = "plan", ![c].answer = <<Last(diagnoses)>>]
        BY <1>3, <3>2 DEF ReadDiagnosis
      <4> QED BY <1>1, <4>1, AnswerIsAlone
    <3> QED BY <3>1, <3>2
  <2>2. Quiet(c)
    BY <1>3, <2>1 DEF ReadDiagnosis, Quiet
  <2> QED BY <2>1, <2>2, QuietCallsKeep
<1>4. CASE PlanConflict(c)
  <2>1. Alone(c) /\ call'[c].pc = "conflict"
    BY <1>1, <1>4, GoIsAlone DEF PlanConflict
  <2>2. Quiet(c)
    BY <1>4, <2>1, ReleaseIsMine DEF PlanConflict, Quiet
  <2> QED BY <2>1, <2>2, QuietCallsKeep
<1>5. CASE MoveMissed(c)
  <2>1. Alone(c) /\ call'[c].pc = "reread"
    BY <1>1, <1>5, GoIsAlone DEF MoveMissed
  <2>2. Quiet(c)
    BY <1>5, <2>1, HoldIsMine DEF MoveMissed, Quiet, ProductInv
  <2> QED BY <2>1, <2>2, QuietCallsKeep
<1>6. CASE Reread(c)
  <2> DEFINE pc == CASE status[TaskCalled[c]] = NoOne -> "refused"
                     [] status[TaskCalled[c]] = MoveTo[c] -> "done"
                     [] OTHER -> "conflict"
  <2>1. pc \in {"refused", "done", "conflict"}
    BY DEF NoOne
  <2>2. Go(c, pc)
    BY <1>6 DEF Reread
  <2> HIDE DEF pc
  <2>3. Alone(c) /\ call'[c].pc = pc
    BY <1>1, <2>2, GoIsAlone
  <2>4. Quiet(c)
    BY <1>6, <2>1, <2>3, ReleaseIsMine, PlanCalls DEF Reread, Quiet
  <2> QED BY <2>3, <2>4, QuietCallsKeep
<1>7. CASE MoveIllegal(c)
  <2>1. Alone(c) /\ call'[c].pc = "refused"
    BY <1>1, <1>7, GoIsAlone DEF MoveIllegal
  <2>2. Quiet(c)
    BY <1>7, <2>1 DEF MoveIllegal, Quiet
  <2> QED BY <2>1, <2>2, QuietCallsKeep
<1>8. CASE RefuseReport(c)
  <2>1. Alone(c) /\ call'[c].pc = "refused"
    BY <1>1, <1>8, GoIsAlone DEF RefuseReport
  <2>2. Quiet(c)
    BY <1>8, <2>1 DEF RefuseReport, Quiet
  <2> QED BY <2>1, <2>2, QuietCallsKeep
<1>9. CASE CountEvent(c)
  <2>1. Alone(c) /\ call'[c].pc = "counted"
    BY <1>1, <1>9, GoIsAlone DEF CountEvent
  <2>2. Quiet(c)
    BY <1>9, <2>1 DEF CountEvent, Quiet
  <2> QED BY <2>1, <2>2, QuietCallsKeep
<1>10. CASE RecordObservation(c)
  <2>1. Alone(c) /\ call'[c].pc = "done"
    BY <1>1, <1>10, GoIsAlone DEF RecordObservation
  <2>2. Quiet(c)
    BY <1>10, <2>1, PlanCalls DEF RecordObservation, Quiet
  <2> QED BY <2>1, <2>2, QuietCallsKeep
<1>11. CASE ReadEvidence(c)
  <2>1. Alone(c) /\ call'[c].pc = "read"
    BY <1>1, <1>11, AnswerIsAlone DEF ReadEvidence
  <2>2. Quiet(c)
    BY <1>11, <2>1 DEF ReadEvidence, Quiet
  <2> QED BY <2>1, <2>2, QuietCallsKeep
<1>12. CASE ReadMastery(c)
  <2> DEFINE kept == call[c].answer[1]
             told == <<kept, observed, restarts, Projection(kept \cup observed)>>
  <2>1. call' = [call EXCEPT ![c].pc = "done", ![c].answer = told]
    BY <1>12 DEF ReadMastery
  <2> HIDE DEF told
  <2>2. Alone(c) /\ call'[c].pc = "done"
    BY <1>1, <2>1, AnswerIsAlone
  <2>3. Quiet(c)
    BY <1>12, <2>2, PlanCalls DEF ReadMastery, Quiet
  <2> QED BY <2>2, <2>3, QuietCallsKeep
<1> QED BY <1>2, <1>3, <1>4, <1>5, <1>6, <1>7, <1>8, <1>9, <1>10, <1>11, <1>12

-----------------------------------------------------------------------------
(* The steps that change something.                                         *)

\* The number of the next version is one more than the plans there are.
LEMMA NextVersion ==
    ASSUME Planned
    PROVE  /\ Cardinality(plans) \in Nat /\ Cardinality(plans) >= 1
           /\ Max(Versions) = Cardinality(plans)
<1> DEFINE n == Cardinality(plans)
<1>1. n \in Nat /\ Versions = 1..n
  BY FS_CardinalityType DEF Planned
<1>2. \E p \in plans : p.by = FirstPlan
  BY PlanCalls DEF Planned
<1>3. plans # {}
  BY <1>2
<1>4. Versions # {}
  BY <1>3 DEF Versions
<1> HIDE DEF n
<1>5. n >= 1
  BY <1>1, <1>4
<1>6. \A x \in 1..n : (\A y \in 1..n : x >= y) <=> x = n
  BY <1>1, <1>5
<1>7. Max(1..n) = n
  BY <1>1, <1>5, <1>6 DEF Max
<1> QED BY <1>1, <1>5, <1>7 DEF n

LEMMA ReadVersionKeeps ==
    ASSUME ProductInv, NEW c \in Calls, ReadVersion(c)
    PROVE  ProductInv'
<1>1. CallShape /\ Planned /\ TasksMoved /\ Locked /\ Reported /\ Numbered
  BY DEF ProductInv
<1>2. /\ c \in Plans /\ call[c].pc \notin {"done", "insert", "inserted"}
      /\ CallKind[c] # "submit"
  BY PlanCalls DEF ReadVersion, Is
<1>3. /\ Cardinality(plans) \in Nat /\ Cardinality(plans) >= 1
      /\ Max(Versions) = Cardinality(plans)
  BY <1>1, NextVersion
<1>4. GoWith(c, "insert", Cardinality(plans) + 1)
  BY <1>3 DEF ReadVersion
<1>5. Alone(c) /\ call'[c].pc = "insert" /\ call'[c].number = Cardinality(plans) + 1
  BY <1>1, <1>3, <1>4, GoWithIsAlone
<1>6. UNCHANGED <<plans, status, rowLock, reports, events, nextSeq, lastMessage, messages, moves>>
  BY DEF ReadVersion
<1>7. Planned'
  <2>1. \A d \in Calls : d # c => call'[d] = call[d]
    BY <1>5 DEF Alone
  <2>2. \A d \in Plans : d # FirstPlan => (call'[d].pc = "done" <=> call[d].pc = "done")
    BY <1>2, <1>5, <2>1, PlanCalls
  <2>3. \A d \in Plans \cap Calls : call'[d].pc = "inserted" => d # c /\ call'[d] = call[d]
    BY <1>5, <2>1
  <2>4. \A d \in Plans \cap Calls :
          call'[d].pc = "insert" => call'[d].number \in 1..(Cardinality(plans) + 1)
    BY <1>1, <1>3, <1>5, <2>1 DEF Planned
  <2>5. Versions' = Versions
    BY <1>6 DEF Versions
  <2> QED BY <1>1, <1>6, <2>2, <2>3, <2>4, <2>5 DEF Planned
<1>8. TasksMoved' /\ Locked' /\ Reported' /\ Numbered'
  <2>1. lock' = lock \/ lock \in {NoOne, c}
    BY <1>1, HoldIsMine DEF ReadVersion
  <2> QED BY <1>1, <1>2, <1>5, <1>6, <2>1, MovedStays, LockedStays, ReportedStays, NumberedStays
<1> QED BY <1>5, <1>7, <1>8 DEF ProductInv, Alone

LEMMA InsertPlanKeeps ==
    ASSUME ProductInv, NEW c \in Calls, InsertPlan(c)
    PROVE  ProductInv'
<1>1. CallShape /\ Planned /\ TasksMoved /\ Locked /\ Reported /\ Numbered
  BY DEF ProductInv
<1>2. c \in Plans /\ call[c].pc = "insert" /\ CallKind[c] # "submit"
  BY PlanCalls DEF InsertPlan
<1>3. Alone(c) /\ call'[c].pc = "inserted" /\ call'[c].number = call[c].number
  BY <1>1, GoIsAlone DEF InsertPlan
<1>4. UNCHANGED <<plans, status, rowLock, reports, events, nextSeq, lastMessage, messages, moves, lock>>
  BY DEF InsertPlan
<1>5. Planned'
  <2>1. \A d \in Calls : d # c => call'[d] = call[d]
    BY <1>3 DEF Alone
  <2>2. \A d \in Plans : d # FirstPlan => (call'[d].pc = "done" <=> call[d].pc = "done")
    BY <1>2, <1>3, <2>1, PlanCalls
  <2>3. Cardinality(plans) \in Nat /\ Versions = 1..Cardinality(plans)
    BY <1>1, NextVersion DEF Planned
  <2>4. call[c].number \in 1..(Cardinality(plans) + 1) /\ call[c].number \notin Versions
    BY <1>1, <1>2 DEF Planned, InsertPlan, VersionIsTaken
  <2>5. call[c].number = Cardinality(plans) + 1
    BY <2>3, <2>4
  <2>6. \A d \in Plans \cap Calls : call[d].pc # "inserted"
    BY <1>1, <2>5 DEF Planned, InsertPlan, OpenPlan
  <2>7. \A d \in Plans \cap Calls : call'[d].pc = "inserted" => d = c
    BY <2>1, <2>6
  <2>8. \A d \in Plans \cap Calls :
          call'[d].pc = "insert" => call[d].pc = "insert" /\ call'[d].number = call[d].number
    BY <1>3, <2>1
  <2>9. Versions' = Versions
    BY <1>4 DEF Versions
  <2> QED BY <1>1, <1>3, <1>4, <2>2, <2>5, <2>7, <2>8, <2>9 DEF Planned
<1>6. TasksMoved' /\ Locked' /\ Reported' /\ Numbered'
  BY <1>1, <1>2, <1>3, <1>4, MovedStays, LockedStays, ReportedStays, NumberedStays
<1> QED BY <1>3, <1>5, <1>6 DEF ProductInv, Alone

LEMMA CommitPlanKeeps ==
    ASSUME ProductInv, NEW c \in Calls, CommitPlan(c)
    PROVE  ProductInv'
<1> DEFINE n == Cardinality(plans)
           new == [version |-> call[c].number, by |-> c, assessed |-> CallKind[c] = "generate"]
<1>1. CallShape /\ Planned /\ TasksMoved /\ Locked /\ Reported /\ Numbered
  BY DEF ProductInv
<1>2. c \in Plans /\ call[c].pc = "inserted" /\ CallKind[c] # "submit" /\ c # FirstPlan
  BY PlanCalls DEF CommitPlan
<1>3. Alone(c) /\ call'[c].pc = "done" /\ call'[c].number = call[c].number
  BY <1>1, GoIsAlone DEF CommitPlan
<1>4. /\ plans' = plans \cup {new}
      /\ status' = [t \in Tasks |-> IF t \in TasksOf(c) THEN "pending" ELSE status[t]]
      /\ UNCHANGED <<rowLock, reports, events, nextSeq, lastMessage, messages, moves>>
  BY DEF CommitPlan
<1>5. n \in Nat /\ n >= 1 /\ Versions = 1..n /\ call[c].number = n + 1
  BY <1>1, <1>2, NextVersion DEF Planned
<1>6. \A p \in plans : p.version \in 1..n /\ p.by # c
  BY <1>1, <1>2, <1>5 DEF Planned, Versions
<1>7. new \notin plans /\ new.version = n + 1 /\ new.by = c /\ new \in PlanRecord
  BY <1>2, <1>5, <1>6 DEF PlanRecord
<1>8. \A d \in Calls : d # c => call'[d] = call[d]
  BY <1>3 DEF Alone
<1> HIDE DEF new
<1>9. Planned'
  <2>1. IsFiniteSet(plans') /\ Cardinality(plans') = n + 1
    BY <1>1, <1>4, <1>7, FS_AddElement DEF Planned
  <2>2. Versions' = 1..(n + 1)
    <3>1. Versions' = Versions \cup {n + 1}
      BY <1>4, <1>7 DEF Versions
    <3> HIDE DEF n
    <3> QED BY <1>5, <3>1
  <2> HIDE DEF n
  <2>3. \A p, q \in plans' : p.version = q.version => p = q
    BY <1>1, <1>4, <1>5, <1>6, <1>7 DEF Planned
  <2>4. \A d \in Plans : (\E p \in plans' : p.by = d) <=> (d = FirstPlan \/ call'[d].pc = "done")
    <3> TAKE d \in Plans
    <3>1. CASE d = c
      BY <1>3, <1>4, <1>7, <3>1
    <3>2. CASE d # c
      <4>1. (\E p \in plans' : p.by = d) <=> (\E p \in plans : p.by = d)
        BY <1>4, <1>7, <3>2
      <4>2. d = FirstPlan \/ call'[d] = call[d]
        BY <1>8, <3>2, PlanCalls
      <4> QED BY <1>1, <4>1, <4>2 DEF Planned
    <3> QED BY <3>1, <3>2
  <2>5. \A d \in Plans \cap Calls : call'[d].pc # "inserted"
    BY <1>1, <1>2, <1>3, <1>8 DEF Planned
  <2>6. \A d \in Plans \cap Calls : call'[d].pc = "insert" => call'[d].number \in 1..(n + 2)
    <3> SUFFICES ASSUME NEW d \in Plans \cap Calls, call'[d].pc = "insert"
                 PROVE  call'[d].number \in 1..(n + 2)
      OBVIOUS
    <3>1. d # c /\ call'[d] = call[d]
      BY <1>3, <1>8
    <3>2. call[d].number \in 1..(n + 1)
      BY <1>1, <3>1 DEF Planned, n
    <3> QED BY <1>5, <3>1, <3>2
  <2>7. plans' \subseteq PlanRecord
    BY <1>1, <1>4, <1>7 DEF Planned
  <2> QED BY <1>5, <2>1, <2>2, <2>3, <2>4, <2>5, <2>6, <2>7 DEF Planned
<1>10. \A t \in Tasks : HasPlan(t)' <=> HasPlan(t) \/ t \in TasksOf(c)
  <2> TAKE t \in Tasks
  <2>1. HasPlan(t)' <=> HasPlan(t) \/ t[1] = c
    BY <1>4, <1>7 DEF HasPlan
  <2>2. t[1] = c <=> t \in TasksOf(c)
    BY <1>2 DEF Tasks, TasksOf
  <2> QED BY <2>1, <2>2
<1>11. \A t \in TasksOf(c) : t \in Tasks /\ ~HasPlan(t)
  <2> SUFFICES ASSUME NEW t \in TasksOf(c) PROVE t \in Tasks /\ ~HasPlan(t)
    OBVIOUS
  <2>1. t \in Tasks /\ t[1] = c
    BY <1>2 DEF Tasks, TasksOf
  <2> QED BY <1>6, <2>1 DEF HasPlan
<1>12. TasksMoved'
  <2>2. status' \in [Tasks -> Statuses]
    BY <1>1, <1>4 DEF TasksMoved, Statuses
  <2>3. \A i \in DOMAIN moves : moves[i].task \in Tasks
    <3> SUFFICES ASSUME NEW i \in DOMAIN moves PROVE moves[i].task \in Tasks
      OBVIOUS
    <3>1. moves[i] \in MoveRecord
      BY <1>1 DEF TasksMoved
    <3> QED BY <3>1 DEF MoveRecord
  <2>4. \A i \in DOMAIN moves : HasPlan(moves[i].task)'
    BY <1>1, <1>4, <1>10, <2>3 DEF TasksMoved
  <2>5. \A t \in TasksOf(c) : StatusAfter(moves, t, Len(moves)) = "pending"
    <3> SUFFICES ASSUME NEW t \in TasksOf(c) PROVE StatusAfter(moves, t, Len(moves)) = "pending"
      OBVIOUS
    <3>1. DOMAIN moves = 1..Len(moves) /\ ~HasPlan(t)
      BY <1>1, <1>11 DEF TasksMoved
    <3>2. \A i \in DOMAIN moves : HasPlan(moves[i].task)
      BY <1>1 DEF TasksMoved
    <3>3. MovesOf(moves, t, Len(moves)) = {}
      BY <3>1, <3>2 DEF MovesOf
    <3> QED BY <3>3 DEF StatusAfter
  <2>6. \A t \in Tasks : status'[t] = IF HasPlan(t)' THEN StatusAfter(moves, t, Len(moves)) ELSE NoOne
    <3> TAKE t \in Tasks
    <3>1. CASE t \in TasksOf(c)
      BY <1>4, <1>10, <2>5, <3>1
    <3>2. CASE t \notin TasksOf(c)
      BY <1>1, <1>4, <1>10, <3>2 DEF TasksMoved
    <3> QED BY <3>1, <3>2
  <2> QED BY <1>1, <1>4, <2>2, <2>4, <2>6 DEF TasksMoved
<1>13. Locked'
  <2>1. \A d \in Calls : call'[d].pc \in {"report", "reported"} =>
           call[d].pc \in {"report", "reported"}
    BY <1>3, <1>8
  <2>2. \A d \in Calls : call[d].pc \in {"report", "reported"} =>
           status'[TaskCalled[d]] = "in_progress"
    <3> SUFFICES ASSUME NEW d \in Calls, call[d].pc \in {"report", "reported"}
                 PROVE  status'[TaskCalled[d]] = "in_progress"
      OBVIOUS
    <3>1. CallKind[d] = "submit" /\ status[TaskCalled[d]] = "in_progress"
      BY <1>1 DEF Locked
    <3>2. TaskCalled[d] \in Tasks
      BY <3>1, CallsAreWellFormed
    <3>3. HasPlan(TaskCalled[d])
      BY <1>1, <3>1, <3>2 DEF TasksMoved, NoOne
    <3> QED BY <1>4, <1>11, <3>1, <3>2, <3>3
  <2> QED BY <1>1, <1>4, <2>1, <2>2 DEF Locked
<1>14. Reported' /\ Numbered'
  <2>1. lock' = lock \/ lock \in {NoOne, c}
    BY ReleaseIsMine DEF CommitPlan
  <2> QED BY <1>1, <1>2, <1>3, <1>4, <2>1, ReportedStays, NumberedStays
<1> QED BY <1>3, <1>9, <1>12, <1>13, <1>14 DEF ProductInv, Alone

\* What is bounded has a greatest element.
LEMMA GreatestBounded ==
    ASSUME NEW k \in Nat, NEW T \in SUBSET Nat, T # {}, \A x \in T : x <= k
    PROVE  \E n \in T : \A m \in T : n >= m
<1> DEFINE B == {k - x : x \in T}
<1>1. B \in SUBSET Nat /\ B # {}
  <2>1. \A x \in T : x \in Nat /\ x <= k
    OBVIOUS
  <2>2. \A x \in T : k - x \in Nat
    BY <2>1
  <2> QED BY <2>2
<1>2. PICK b \in B : \A y \in B : b <= y
  <2> HIDE DEF B
  <2> QED BY <1>1, LeastNatural
<1>3. PICK n \in T : b = k - n
  OBVIOUS
<1>4. \A m \in T : k - n <= k - m
  BY <1>2, <1>3
<1>5. \A m \in T : n >= m
  <2> TAKE m \in T
  <2>1. k - n <= k - m /\ n \in Nat /\ m \in Nat
    BY <1>4
  <2> QED BY <2>1
<1> QED BY <1>5

\* One more move of a task leaves it where the move goes, and the others alone.
LEMMA MoveIsLast ==
    ASSUME NEW s \in Seq(MoveRecord), NEW m \in MoveRecord, NEW u \in Seq(MoveRecord),
           Len(u) = Len(s) + 1, u[Len(s) + 1] = m, \A i \in DOMAIN s : u[i] = s[i]
    PROVE  /\ \A t, k : k \in 0..Len(s) => StatusAfter(u, t, k) = StatusAfter(s, t, k)
           /\ StatusAfter(u, m.task, Len(s) + 1) = m.to
           /\ \A t : t # m.task =>
                StatusAfter(u, t, Len(s) + 1) = StatusAfter(s, t, Len(s))
<1> DEFINE n == Len(s)
<1>1. /\ n \in Nat /\ Len(u) = n + 1 /\ u[n + 1] = m
      /\ \A i \in 1..n : u[i] = s[i]
  OBVIOUS
<1> HIDE DEF n
<1>3. \A t, k : k \in 0..n => StatusAfter(u, t, k) = StatusAfter(s, t, k)
  <2> SUFFICES ASSUME NEW t, NEW k \in 0..n PROVE StatusAfter(u, t, k) = StatusAfter(s, t, k)
    OBVIOUS
  <2>1. \A i \in 1..k : u[i] = s[i] /\ i \in 1..n
    BY <1>1
  <2> DEFINE I == {i \in 1..k : s[i].task = t}
  <2>2. MovesOf(u, t, k) = I /\ MovesOf(s, t, k) = I
    BY <2>1 DEF MovesOf
  <2>3. I # {} => Max(I) \in I
    <3>1. I \in SUBSET Nat /\ (\A i \in I : i <= k) /\ k \in Nat
      BY <1>1
    <3> HIDE DEF I
    <3>2. I # {} => \E i \in I : \A j \in I : i >= j
      BY <3>1, GreatestBounded
    <3> QED BY <3>2 DEF Max
  <2>4. I # {} => u[Max(I)] = s[Max(I)]
    BY <2>1, <2>3
  <2> HIDE DEF I
  <2> QED BY <2>2, <2>4 DEF StatusAfter
<1>4. StatusAfter(u, m.task, n + 1) = m.to
  <2> DEFINE I == MovesOf(u, m.task, n + 1)
  <2>1. n + 1 \in I /\ I \subseteq 1..(n + 1)
    BY <1>1 DEF MovesOf
  <2> HIDE DEF I
  <2>2. \A x \in I : (\A y \in I : x >= y) <=> x = n + 1
    BY <1>1, <2>1
  <2>3. Max(I) = n + 1
    BY <1>1, <2>1, <2>2 DEF Max
  <2> QED BY <1>1, <2>1, <2>3 DEF StatusAfter, I
<1>5. \A t : t # m.task => StatusAfter(u, t, n + 1) = StatusAfter(s, t, n)
  <2> SUFFICES ASSUME NEW t, t # m.task PROVE StatusAfter(u, t, n + 1) = StatusAfter(s, t, n)
    OBVIOUS
  <2>1. \A i \in 1..(n + 1) : u[i].task = t => i \in 1..n
    BY <1>1
  <2>2. \A i \in 1..n : i \in 1..(n + 1)
    BY <1>1
  <2>3. MovesOf(u, t, n + 1) = MovesOf(u, t, n)
    BY <2>1, <2>2 DEF MovesOf
  <2>4. StatusAfter(u, t, n + 1) = StatusAfter(u, t, n)
    BY <2>3 DEF StatusAfter
  <2>5. n \in 0..n
    BY <1>1
  <2>6. StatusAfter(u, t, n) = StatusAfter(s, t, n)
    BY <1>3, <2>5
  <2> QED BY <2>4, <2>6
<1> QED BY <1>3, <1>4, <1>5 DEF n

LEMMA MoveKeeps ==
    ASSUME ProductInv, NEW c \in Calls, Move(c)
    PROVE  ProductInv'
<1> DEFINE t0 == TaskCalled[c]
           m == [task |-> t0, by |-> c, from |-> MoveFrom[c], to |-> MoveTo[c]]
<1>1. CallShape /\ Planned /\ TasksMoved /\ Locked /\ Reported /\ Numbered
  BY DEF ProductInv
<1>2. CallKind[c] = "move" /\ call[c].pc = "new" /\ c \notin Plans /\ t0 \in Tasks
  BY PlanCalls, CallsAreWellFormed DEF Move, Is
<1>3. Alone(c) /\ call'[c].pc = "done"
  BY <1>1, GoIsAlone DEF Move
<1>4. /\ rowLock[t0] = NoOne /\ status[t0] = MoveFrom[c] /\ <<MoveFrom[c], MoveTo[c]>> \in Legal
      /\ status' = [status EXCEPT ![t0] = MoveTo[c]]
      /\ moves' = Append(moves, m)
      /\ UNCHANGED <<plans, rowLock, reports, events, nextSeq, lastMessage, messages, lock>>
  BY DEF Move, AsExpected, Asked
<1>5. MoveFrom[c] \in Statuses \ {NoOne} /\ MoveTo[c] \in Statuses
  BY <1>4 DEF Legal, Statuses, NoOne
<1>6. m \in MoveRecord /\ m.task = t0 /\ m.to = MoveTo[c] /\ m.from = MoveFrom[c]
  BY <1>2, <1>5 DEF MoveRecord
<1> HIDE DEF m, t0
<1>7. TasksMoved'
  <2> DEFINE n == Len(moves)
  <2>1. status \in [Tasks -> Statuses] /\ moves \in Seq(MoveRecord) /\ n \in Nat
    BY <1>1 DEF TasksMoved
  <2>2. /\ moves' \in Seq(MoveRecord) /\ Len(moves') = n + 1
        /\ moves'[n + 1] = m
        /\ \A i \in DOMAIN moves : moves'[i] = moves[i]
        /\ \A t, k : k \in 0..n => StatusAfter(moves', t, k) = StatusAfter(moves, t, k)
        /\ StatusAfter(moves', t0, n + 1) = MoveTo[c]
        /\ \A t : t # t0 => StatusAfter(moves', t, n + 1) = StatusAfter(moves, t, n)
    <3>2. PICK u : u = moves'
      OBVIOUS
    <3>3. u = Append(moves, m) /\ m.task = t0 /\ m.to = MoveTo[c]
      BY <1>4, <1>6, <3>2
    <3>4. PICK s : s = moves
      OBVIOUS
    <3>5. s \in Seq(MoveRecord) /\ n = Len(s) /\ u = Append(s, m)
      BY <2>1, <3>3, <3>4 DEF n
    <3>6. /\ u \in Seq(MoveRecord) /\ Len(u) = Len(s) + 1 /\ u[Len(s) + 1] = m
          /\ \A i \in DOMAIN s : u[i] = s[i]
      BY <1>6, <3>5, AppendProperties
    <3>7. /\ \A t, k : k \in 0..Len(s) => StatusAfter(u, t, k) = StatusAfter(s, t, k)
          /\ StatusAfter(u, m.task, Len(s) + 1) = m.to
          /\ \A t : t # m.task => StatusAfter(u, t, Len(s) + 1) = StatusAfter(s, t, Len(s))
      BY <1>6, <3>5, <3>6, MoveIsLast
    <3>8. StatusAfter(u, t0, n + 1) = MoveTo[c]
      BY <3>3, <3>5, <3>7
    <3>9. \A t : t # t0 => StatusAfter(u, t, n + 1) = StatusAfter(s, t, n)
      BY <3>3, <3>5, <3>7
    <3>10. \A t, k : k \in 0..n => StatusAfter(u, t, k) = StatusAfter(s, t, k)
      BY <3>5, <3>7
    <3> QED BY <3>2, <3>3, <3>4, <3>5, <3>6, <3>8, <3>9, <3>10
  <2>3. \A t : HasPlan(t)' <=> HasPlan(t)
    BY <1>4 DEF HasPlan
  <2>4. HasPlan(t0) /\ status[t0] = StatusAfter(moves, t0, n)
    BY <1>1, <1>2, <1>4, <1>5 DEF TasksMoved
  <2> HIDE DEF n
  <2>5. DOMAIN moves = 1..n /\ DOMAIN moves' = 1..(n + 1)
    BY <2>1, <2>2 DEF n
  <2>6. \A i \in DOMAIN moves' :
          /\ \E p \in plans' : p.by = moves'[i].task[1]
          /\ moves'[i].from = StatusAfter(moves', moves'[i].task, i - 1)
          /\ <<moves'[i].from, moves'[i].to>> \in Legal
    <3> TAKE i \in DOMAIN moves'
    <3>1. CASE i \in 1..n
      <4>1. moves'[i] = moves[i] /\ i - 1 \in 0..n
        BY <2>1, <2>2, <2>5, <3>1
      <4>2. /\ HasPlan(moves[i].task) /\ moves[i].from = StatusAfter(moves, moves[i].task, i - 1)
            /\ <<moves[i].from, moves[i].to>> \in Legal
        BY <1>1, <2>5, <3>1 DEF TasksMoved
      <4>3. \A t : StatusAfter(moves', t, i - 1) = StatusAfter(moves, t, i - 1)
        BY <2>2, <4>1
      <4>4. PICK t : t = moves[i].task
        OBVIOUS
      <4>5. HasPlan(t)' /\ StatusAfter(moves', t, i - 1) = moves[i].from
        BY <2>3, <4>2, <4>3, <4>4
      <4>6. moves'[i].task = t
        BY <4>1, <4>4
      <4> QED BY <4>1, <4>2, <4>5, <4>6 DEF HasPlan
    <3>2. CASE i = n + 1
      <4>1. moves'[i] = m /\ i - 1 = n /\ n \in 0..n
        BY <2>1, <2>2, <3>2
      <4>2. HasPlan(t0)' /\ StatusAfter(moves', t0, n) = MoveFrom[c]
        BY <1>4, <2>2, <2>3, <2>4, <4>1
      <4> QED BY <1>4, <1>6, <4>1, <4>2 DEF HasPlan
    <3> QED BY <2>1, <2>5, <3>1, <3>2
  <2>7. \A t \in Tasks : status'[t] = IF HasPlan(t)' THEN StatusAfter(moves', t, n + 1) ELSE NoOne
    <3> TAKE t \in Tasks
    <3>1. CASE t = t0
      BY <1>2, <1>4, <2>1, <2>2, <2>3, <2>4, <3>1
    <3>2. CASE t # t0
      <4>1. status'[t] = status[t]
        BY <1>4, <2>1, <3>2
      <4> QED BY <1>1, <2>2, <2>3, <3>2, <4>1 DEF TasksMoved, n
    <3> QED BY <3>1, <3>2
  <2>8. status' \in [Tasks -> Statuses]
    BY <1>4, <1>5, <2>1
  <2> QED BY <2>2, <2>6, <2>7, <2>8 DEF TasksMoved, HasPlan
<1>8. Locked'
  <2>1. \A d \in Calls : call'[d].pc \in {"report", "reported"} =>
           call[d].pc \in {"report", "reported"}
    BY <1>3 DEF Alone
  <2>2. \A d \in Calls : call[d].pc \in {"report", "reported"} => TaskCalled[d] # t0
    BY <1>1, <1>4, CallsAreWellFormed DEF Locked
  <2>3. \A d \in Calls : call[d].pc \in {"report", "reported"} =>
           status'[TaskCalled[d]] = status[TaskCalled[d]]
    <3> SUFFICES ASSUME NEW d \in Calls, call[d].pc \in {"report", "reported"}
                 PROVE  status'[TaskCalled[d]] = status[TaskCalled[d]]
      OBVIOUS
    <3>1. TaskCalled[d] \in Tasks
      BY <1>1, CallsAreWellFormed DEF Locked
    <3> QED BY <1>1, <1>4, <2>2, <3>1 DEF TasksMoved
  <2> QED BY <1>1, <1>4, <2>1, <2>3 DEF Locked
<1>9. Planned' /\ Reported' /\ Numbered'
  BY <1>1, <1>2, <1>3, <1>4, PlannedStays, ReportedStays, NumberedStays
<1> QED BY <1>3, <1>7, <1>8, <1>9 DEF ProductInv, Alone

LEMMA BeginReportKeeps ==
    ASSUME ProductInv, NEW c \in Calls, BeginReport(c)
    PROVE  ProductInv'
<1>1. CallShape /\ Planned /\ TasksMoved /\ Locked /\ Reported /\ Numbered
  BY DEF ProductInv
<1>2. /\ CallKind[c] = "submit" /\ call[c].pc = "new" /\ c \notin Plans
      /\ TaskCalled[c] \in Tasks
  BY PlanCalls, CallsAreWellFormed DEF BeginReport, Is
<1>3. Alone(c) /\ call'[c].pc = "report"
  BY <1>1, GoIsAlone DEF BeginReport
<1>4. /\ rowLock[TaskCalled[c]] = NoOne /\ status[TaskCalled[c]] = "in_progress"
      /\ rowLock' = [rowLock EXCEPT ![TaskCalled[c]] = c]
      /\ UNCHANGED <<plans, status, moves, reports, events, nextSeq, lastMessage, messages>>
  BY DEF BeginReport, LockRow
<1>5. Locked'
  <2> SUFFICES ASSUME NEW d \in Calls, call'[d].pc \in {"report", "reported"}
               PROVE  /\ CallKind[d] = "submit"
                      /\ rowLock'[TaskCalled[d]] = d
                      /\ status'[TaskCalled[d]] = "in_progress"
    BY <1>1, <1>2, <1>4 DEF Locked
  <2>1. CASE d = c
    BY <1>1, <1>2, <1>4, <2>1 DEF Locked
  <2>2. CASE d # c
    <3>1. call[d].pc \in {"report", "reported"}
      BY <1>3, <2>2 DEF Alone
    <3>2. /\ CallKind[d] = "submit" /\ rowLock[TaskCalled[d]] = d
          /\ status[TaskCalled[d]] = "in_progress"
      BY <1>1, <3>1 DEF Locked
    <3>3. TaskCalled[d] \in Tasks /\ TaskCalled[d] # TaskCalled[c]
      BY <1>4, <3>2, CallsAreWellFormed
    <3> QED BY <1>1, <1>4, <3>2, <3>3 DEF Locked
  <2> QED BY <2>1, <2>2
<1>6. Planned' /\ TasksMoved' /\ Reported' /\ Numbered'
  <2>1. lock' = lock \/ lock \in {NoOne, c}
    BY <1>1, HoldIsMine DEF BeginReport
  <2> QED BY <1>1, <1>2, <1>3, <1>4, <2>1, PlannedStays, MovedStays, ReportedStays, NumberedStays
<1> QED BY <1>3, <1>5, <1>6 DEF ProductInv, Alone

LEMMA InsertEvidenceKeeps ==
    ASSUME ProductInv, NEW c \in Calls, InsertEvidence(c)
    PROVE  ProductInv'
<1>1. CallShape /\ Planned /\ TasksMoved /\ Locked /\ Reported /\ Numbered
  BY DEF ProductInv
<1>2. CallKind[c] = "submit" /\ call[c].pc = "report" /\ c \notin Plans /\ nextSeq \in Nat
  BY <1>1, PlanCalls DEF InsertEvidence, Is, Reported
<1>3. Alone(c) /\ call'[c].pc = "reported" /\ call'[c].number = nextSeq
  BY <1>1, <1>2, GoWithIsAlone DEF InsertEvidence
<1>4. /\ nextSeq' = nextSeq + 1
      /\ UNCHANGED <<plans, status, moves, rowLock, reports, events, lastMessage, messages, lock>>
  BY DEF InsertEvidence
<1>5. Reported'
  <2>1. \A d \in Calls : d # c => call'[d] = call[d]
    BY <1>3 DEF Alone
  <2>2. \A d \in Calls : call[d].pc = "done" => call'[d] = call[d]
    BY <1>2, <2>1
  <2>3. \A e \in events : e.seq \in Nat /\ e.seq < nextSeq /\ e.seq < nextSeq + 1 /\ e.seq # nextSeq
    BY <1>1, <1>2 DEF Reported
  <2>4. \A d \in Calls : call'[d].pc = "reported" =>
          /\ call'[d].number < nextSeq + 1
          /\ \A e \in events : e.seq # call'[d].number
    <3> SUFFICES ASSUME NEW d \in Calls, call'[d].pc = "reported"
                 PROVE  /\ call'[d].number < nextSeq + 1
                        /\ \A e \in events : e.seq # call'[d].number
      OBVIOUS
    <3>1. CASE d = c
      BY <1>2, <1>3, <2>3, <3>1
    <3>2. CASE d # c
      <4>1. /\ call'[d].number = call[d].number /\ call[d].number < nextSeq
            /\ call[d].number \in Nat /\ \A e \in events : e.seq # call[d].number
        BY <1>1, <2>1, <3>2 DEF Reported, CallShape
      <4> QED BY <1>2, <4>1
    <3> QED BY <3>1, <3>2
  <2>5. \A d \in Calls : d # c /\ call'[d].pc = "reported" =>
          call[d].pc = "reported" /\ call'[d].number = call[d].number /\ call'[d].number # nextSeq
    BY <1>1, <1>2, <2>1 DEF Reported, CallShape
  <2>6. \A d, f \in Calls :
          call'[d].pc = "reported" /\ call'[f].pc = "reported" /\ call'[d].number = call'[f].number
            => d = f
    BY <1>1, <1>3, <2>5 DEF Reported
  <2> QED BY <1>1, <1>2, <1>4, <2>2, <2>3, <2>4, <2>6 DEF Reported
<1>6. Locked'
  BY <1>1, <1>2, <1>3, <1>4, LockedStays
<1>7. Planned' /\ TasksMoved' /\ Numbered'
  BY <1>1, <1>2, <1>3, <1>4, PlannedStays, MovedStays, NumberedStays
<1> QED BY <1>3, <1>5, <1>6, <1>7 DEF ProductInv, Alone

\* Giving up its own row lock takes nobody else's.
LEMMA UnlockedStays ==
    ASSUME Locked, NEW c \in Calls, Alone(c), UNCHANGED status, UnlockRow(c),
           call'[c].pc \notin {"report", "reported"}
    PROVE  Locked'
<1>1. rowLock' = [t \in Tasks |-> IF rowLock[t] = c THEN NoOne ELSE rowLock[t]]
  BY DEF UnlockRow
<1>2. rowLock' \in [Tasks -> Calls \cup {NoOne}]
  BY <1>1 DEF Locked
<1>3. \A d \in Calls : call'[d].pc \in {"report", "reported"} =>
         d # c /\ call[d].pc \in {"report", "reported"}
  BY DEF Alone
<1>4. \A d \in Calls : call[d].pc \in {"report", "reported"} /\ d # c =>
         rowLock'[TaskCalled[d]] = d
  BY <1>1, CallsAreWellFormed DEF Locked
<1> QED BY <1>2, <1>3, <1>4 DEF Locked

LEMMA CommitReportKeeps ==
    ASSUME ProductInv, NEW c \in Calls, CommitReport(c)
    PROVE  ProductInv'
<1> DEFINE t0 == TaskCalled[c]
           r0 == [by |-> c, task |-> t0, under |-> status[t0]]
           e0 == [seq |-> call[c].number, by |-> c, task |-> t0,
                  kind |-> "learning", verdicts |-> <<SelfReport(c)>>]
<1>1. CallShape /\ Planned /\ TasksMoved /\ Locked /\ Reported /\ Numbered
  BY DEF ProductInv
<1>2. CallKind[c] = "submit" /\ call[c].pc = "reported" /\ c \notin Plans
  BY PlanCalls DEF CommitReport, Is
<1>3. Alone(c) /\ call'[c].pc = "done"
  BY <1>1, GoIsAlone DEF CommitReport
<1>4. /\ reports' = reports \cup {r0} /\ events' = events \cup {e0}
      /\ UNCHANGED <<plans, status, moves, nextSeq, lastMessage, messages>>
  BY DEF CommitReport
<1>5. status[t0] = "in_progress"
  BY <1>1, <1>2 DEF Locked
<1>6. e0.verdicts[1].component = ComponentOf[t0[2]] /\ e0.seq = call[c].number /\ e0.by = c /\ e0.task = t0
  BY DEF SelfReport
<1>7. r0.by = c /\ r0.task = t0 /\ r0.under = "in_progress"
  BY <1>5
<1>8. \A d \in Calls : d # c => call'[d] = call[d]
  BY <1>3 DEF Alone
<1> HIDE DEF r0, e0, t0
<1>9. r0 \notin reports /\ e0 \notin events
  BY <1>1, <1>2, <1>6, <1>7 DEF Reported
<1>10. Reported'
  <2>1. /\ IsFiniteSet(reports') /\ Cardinality(reports') = Cardinality(reports) + 1
        /\ IsFiniteSet(events') /\ Cardinality(events') = Cardinality(events) + 1
        /\ Cardinality(events) = Cardinality(reports)
    BY <1>1, <1>4, <1>9, FS_AddElement DEF Reported
  <2>2. \A d \in Calls : call[d].pc = "done" => call'[d].pc = "done"
    BY <1>3, <1>8
  <2>3. \A r \in reports' :
          /\ r.by \in Calls /\ CallKind[r.by] = "submit" /\ call'[r.by].pc = "done"
          /\ r.under = "in_progress"
          /\ \E e \in events' :
                /\ e.by = r.by /\ e.task = r.task
                /\ e.verdicts[1].component = ComponentOf[r.task[2]]
    <3> TAKE r \in reports'
    <3>1. CASE r = r0
      BY <1>2, <1>3, <1>4, <1>6, <1>7, <3>1
    <3>2. CASE r \in reports
      <4>1. /\ r.by \in Calls /\ CallKind[r.by] = "submit" /\ call[r.by].pc = "done"
            /\ r.under = "in_progress"
            /\ \E e \in events :
                  /\ e.by = r.by /\ e.task = r.task
                  /\ e.verdicts[1].component = ComponentOf[r.task[2]]
        BY <1>1, <3>2 DEF Reported
      <4> QED BY <1>4, <2>2, <4>1
    <3> QED BY <1>4, <3>1, <3>2
  <2>4. \A e \in events' :
          /\ e.by \in Calls /\ CallKind[e.by] = "submit" /\ call'[e.by].pc = "done"
          /\ e.seq \in Nat /\ e.seq < nextSeq
    <3> TAKE e \in events'
    <3>1. CASE e = e0
      BY <1>1, <1>2, <1>3, <1>6, <3>1 DEF Reported, CallShape
    <3>2. CASE e \in events
      BY <1>1, <2>2, <3>2 DEF Reported
    <3> QED BY <1>4, <3>1, <3>2
  <2>5. \A e \in events : e.seq # e0.seq
    BY <1>1, <1>2, <1>6 DEF Reported
  <2>6. \A d, e \in events' : d.seq = e.seq => d = e
    BY <1>1, <1>4, <2>5 DEF Reported
  <2>7. \A d \in Calls : call'[d].pc = "reported" =>
          d # c /\ call[d].pc = "reported" /\ call'[d].number = call[d].number
    BY <1>3, <1>8
  <2>8. \A d \in Calls : call'[d].pc = "reported" => call'[d].number # e0.seq
    BY <1>1, <1>2, <1>6, <2>7 DEF Reported
  <2>9. \A d \in Calls : call'[d].pc = "reported" =>
          /\ call'[d].number < nextSeq
          /\ \A e \in events' : e.seq # call'[d].number
    BY <1>1, <1>4, <2>7, <2>8 DEF Reported
  <2>10. \A d, f \in Calls :
          call'[d].pc = "reported" /\ call'[f].pc = "reported" /\ call'[d].number = call'[f].number
            => d = f
    BY <1>1, <2>7 DEF Reported
  <2> QED BY <1>1, <1>4, <2>1, <2>3, <2>4, <2>6, <2>9, <2>10 DEF Reported
<1>11. Locked'
  BY <1>1, <1>3, <1>4, UnlockedStays DEF CommitReport
<1>12. Planned' /\ TasksMoved' /\ Numbered'
  <2>1. lock' = lock \/ lock \in {NoOne, c}
    BY ReleaseIsMine DEF CommitReport
  <2> QED BY <1>1, <1>2, <1>3, <1>4, <2>1, PlannedStays, MovedStays, NumberedStays
<1> QED BY <1>3, <1>10, <1>11, <1>12 DEF ProductInv, Alone

LEMMA TakeNumberKeeps ==
    ASSUME ProductInv, NEW c \in Calls, TakeNumber(c)
    PROVE  ProductInv'
<1>1. CallShape /\ Planned /\ TasksMoved /\ Locked /\ Reported /\ Numbered
  BY DEF ProductInv
<1>2. CallKind[c] = "append" /\ call[c].pc = "new" /\ c \notin Plans /\ lastMessage + 1 \in Nat
  BY <1>1, PlanCalls DEF TakeNumber, Is, Numbered
<1>3. Alone(c) /\ call'[c].pc = "numbered" /\ call'[c].number = lastMessage + 1
  BY <1>1, <1>2, GoWithIsAlone DEF TakeNumber
<1>4. /\ lock = NoOne /\ lock' = c
      /\ UNCHANGED <<plans, status, moves, rowLock, reports, events, nextSeq, lastMessage, messages>>
  BY DEF TakeNumber
<1>5. \A d \in Calls : call'[d].pc = "numbered" => d = c
  <2>1. \A d \in Calls : call[d].pc # "numbered"
    BY <1>1, <1>4, CallsAreWellFormed DEF Numbered
  <2> QED BY <1>3, <2>1 DEF Alone
<1>6. Numbered'
  BY <1>1, <1>3, <1>4, <1>5 DEF Numbered
<1>7. Planned' /\ TasksMoved' /\ Locked' /\ Reported'
  BY <1>1, <1>2, <1>3, <1>4, PlannedStays, MovedStays, LockedStays, ReportedStays
<1> QED BY <1>3, <1>6, <1>7 DEF ProductInv, Alone

LEMMA CommitMessageKeeps ==
    ASSUME ProductInv, NEW c \in Calls, CommitMessage(c)
    PROVE  ProductInv'
<1> DEFINE m0 == [by |-> c, seq |-> call[c].number]
<1>1. CallShape /\ Planned /\ TasksMoved /\ Locked /\ Reported /\ Numbered
  BY DEF ProductInv
<1>2. CallKind[c] = "append" /\ call[c].pc = "numbered" /\ c \notin Plans
  BY PlanCalls DEF CommitMessage, Is
<1>3. Alone(c) /\ call'[c].pc = "done"
  BY <1>1, GoIsAlone DEF CommitMessage
<1>4. /\ lastMessage' = call[c].number /\ messages' = messages \cup {m0}
      /\ UNCHANGED <<plans, status, moves, rowLock, reports, events, nextSeq>>
  BY DEF CommitMessage
<1>5. lock = c /\ call[c].number = lastMessage + 1 /\ lastMessage \in Nat
  BY <1>1, <1>2 DEF Numbered
<1>6. m0.seq = lastMessage + 1
  BY <1>5
<1> HIDE DEF m0
<1>7. Numbered'
  <2>1. \A m \in messages : m.seq \in 1..lastMessage
    BY <1>1 DEF Numbered
  <2>2. m0 \notin messages
    BY <1>5, <1>6, <2>1
  <2>3. IsFiniteSet(messages') /\ Cardinality(messages') = lastMessage + 1
    BY <1>1, <1>4, <2>2, FS_AddElement DEF Numbered
  <2>4. \A m \in messages' : m.seq \in 1..(lastMessage + 1)
    BY <1>4, <1>5, <1>6, <2>1
  <2>5. {m.seq : m \in messages'} = {m.seq : m \in messages} \cup {lastMessage + 1}
    BY <1>4, <1>6
  <2>6. {m.seq : m \in messages'} = 1..(lastMessage + 1)
    BY <1>1, <1>5, <2>5 DEF Numbered
  <2>7. \A d \in Calls : call'[d].pc # "numbered"
    <3>1. \A d \in Calls : d # c => call[d].pc # "numbered" /\ call'[d] = call[d]
      BY <1>1, <1>3, <1>5 DEF Numbered, Alone
    <3> QED BY <1>3, <3>1
  <2> QED BY <1>4, <1>5, <2>3, <2>4, <2>6, <2>7 DEF Numbered
<1>8. Planned' /\ TasksMoved' /\ Locked' /\ Reported'
  BY <1>1, <1>2, <1>3, <1>4, PlannedStays, MovedStays, LockedStays, ReportedStays
<1> QED BY <1>3, <1>7, <1>8 DEF ProductInv, Alone

LEMMA FailKeeps ==
    ASSUME ProductInv, NEW c \in Calls, Fail(c)
    PROVE  ProductInv'
<1>1. CallShape /\ Planned /\ TasksMoved /\ Locked /\ Reported /\ Numbered
  BY DEF ProductInv
<1>2. call[c].pc # "done"
  BY DEF Fail
<1>3. Alone(c) /\ call'[c].pc = "error"
  BY <1>1, GoIsAlone DEF Fail
<1>4. /\ UNCHANGED <<plans, status, moves, reports, events, nextSeq, lastMessage, messages>>
      /\ UnlockRow(c)
  BY DEF Fail
<1>5. Locked'
  BY <1>1, <1>3, <1>4, UnlockedStays
<1>6. Planned' /\ TasksMoved' /\ Reported' /\ Numbered'
  <2>1. lock' = lock \/ lock \in {NoOne, c}
    BY ReleaseIsMine DEF Fail
  <2> QED BY <1>1, <1>2, <1>3, <1>4, <2>1, PlannedStays, MovedStays, ReportedStays, NumberedStays
<1> QED BY <1>3, <1>5, <1>6 DEF ProductInv, Alone

LEMMA RestartKeeps ==
    ASSUME ProductInv, Restart
    PROVE  ProductInv'
<1>1. CallShape /\ Planned /\ TasksMoved /\ Locked /\ Reported /\ Numbered
  BY DEF ProductInv
<1>2. /\ UNCHANGED <<plans, status, moves, reports, events, nextSeq, lastMessage, messages>>
      /\ rowLock' = [t \in Tasks |-> NoOne]
      /\ call' = [c \in Calls |->
                    IF call[c].pc \in {"new", "done", "refused", "conflict"} THEN call[c]
                    ELSE [call[c] EXCEPT !.pc = "error"]]
  BY DEF Restart
<1>3. \A c \in Calls :
        \/ call[c].pc \in {"new", "done", "refused", "conflict"} /\ call'[c] = call[c]
        \/ /\ call[c].pc \notin {"new", "done", "refused", "conflict"}
           /\ call'[c].pc = "error" /\ call'[c].number = call[c].number
           /\ DOMAIN call'[c] = DOMAIN call[c]
  BY <1>1, <1>2 DEF CallShape
<1>4. CallShape'
  BY <1>1, <1>2, <1>3 DEF CallShape
<1>5. \A c \in Calls :
        /\ call'[c].pc \notin {"insert", "inserted", "report", "reported", "numbered"}
        /\ call'[c].pc = "done" <=> call[c].pc = "done"
  BY <1>3
<1>6. Planned'
  <2>1. \A c \in Plans : c # FirstPlan => (call'[c].pc = "done" <=> call[c].pc = "done")
    BY <1>5, PlanCalls
  <2>2. Versions' = Versions
    BY <1>2 DEF Versions
  <2> QED BY <1>1, <1>2, <1>5, <2>1, <2>2 DEF Planned
<1>7. TasksMoved'
  BY <1>1, <1>2, MovedStays
<1>8. Locked'
  BY <1>2, <1>5 DEF Locked
<1>9. Reported'
  BY <1>1, <1>2, <1>5 DEF Reported
<1>10. Numbered'
  BY <1>1, <1>2, <1>5 DEF Numbered
<1> QED BY <1>4, <1>6, <1>7, <1>8, <1>9, <1>10 DEF ProductInv

LEMMA ProductInvInit == ProductInit => ProductInv
<1> SUFFICES ASSUME ProductInit PROVE ProductInv
  OBVIOUS
<1> DEFINE p0 == [version |-> 1, by |-> FirstPlan, assessed |-> TRUE]
<1>1. /\ plans = {p0} /\ moves = <<>>
      /\ status = [t \in Tasks |-> IF t[1] = FirstPlan THEN "pending" ELSE NoOne]
      /\ rowLock = [t \in Tasks |-> NoOne]
      /\ reports = {} /\ events = {} /\ nextSeq = 1 /\ lastMessage = 0 /\ messages = {}
      /\ call = [c \in Calls |-> [pc |-> "new", number |-> 0, answer |-> <<>>]]
  BY DEF ProductInit
<1>2. p0.version = 1 /\ p0.by = FirstPlan /\ p0 \in PlanRecord
  BY PlanCalls DEF PlanRecord
<1>3. \A c \in Calls : call[c].pc = "new" /\ call[c].number = 0
  BY <1>1
<1>4. CallShape
  BY <1>1 DEF CallShape
<1> HIDE DEF p0
<1>5. Planned
  <2>1. IsFiniteSet(plans) /\ Cardinality(plans) = 1
    BY <1>1, FS_Singleton
  <2>2. Versions = 1..1
    BY <1>1, <1>2 DEF Versions
  <2>3. \A c \in Plans : c # FirstPlan => call[c].pc # "done"
    BY <1>3, PlanCalls
  <2>4. \A c \in Plans \cap Calls : call[c].pc = "new"
    BY <1>3
  <2> QED BY <1>1, <1>2, <2>1, <2>2, <2>3, <2>4 DEF Planned
<1>6. TasksMoved
  <2>1. \A t : HasPlan(t) <=> t[1] = FirstPlan
    BY <1>1, <1>2 DEF HasPlan
  <2>2. \A t : StatusAfter(moves, t, Len(moves)) = "pending"
    <3>1. \A t : MovesOf(moves, t, Len(moves)) = {}
      BY <1>1 DEF MovesOf
    <3> QED BY <3>1 DEF StatusAfter
  <2>3. moves \in Seq(MoveRecord) /\ DOMAIN moves = {}
    BY <1>1
  <2> QED BY <1>1, <2>1, <2>2, <2>3 DEF TasksMoved, Statuses
<1>7. Locked
  BY <1>1, <1>3 DEF Locked
<1>8. Reported
  BY <1>1, <1>3, FS_EmptySet DEF Reported
<1>9. Numbered
  BY <1>1, <1>3, FS_EmptySet DEF Numbered
<1> QED BY <1>4, <1>5, <1>6, <1>7, <1>8, <1>9 DEF ProductInv

LEMMA ProductInvNext == ProductInv /\ [ProductNext]_productVars => ProductInv'
<1> SUFFICES ASSUME ProductInv, [ProductNext]_productVars PROVE ProductInv'
  OBVIOUS
<1>1. CASE Restart
  BY <1>1, RestartKeeps
<1>2. ASSUME NEW c \in Calls,
             \/ Diagnose(c) \/ ReadDiagnosis(c) \/ PlanConflict(c) \/ MoveMissed(c) \/ Reread(c)
             \/ MoveIllegal(c) \/ RefuseReport(c) \/ CountEvent(c) \/ RecordObservation(c)
             \/ ReadEvidence(c) \/ ReadMastery(c)
      PROVE  ProductInv'
  BY <1>2, QuietActions
<1>3. ASSUME NEW c \in Calls,
             \/ ReadVersion(c) \/ InsertPlan(c) \/ CommitPlan(c) \/ Move(c) \/ BeginReport(c)
             \/ InsertEvidence(c) \/ CommitReport(c) \/ TakeNumber(c) \/ CommitMessage(c) \/ Fail(c)
      PROVE  ProductInv'
  BY <1>3, ReadVersionKeeps, InsertPlanKeeps, CommitPlanKeeps, MoveKeeps, BeginReportKeeps,
     InsertEvidenceKeeps, CommitReportKeeps, TakeNumberKeeps, CommitMessageKeeps, FailKeeps
<1>4. CASE UNCHANGED productVars
  <2>1. UNCHANGED <<call, plans, status, moves, rowLock, reports, events, nextSeq, messages,
                    lastMessage, lock>>
    BY <1>4 DEF productVars
  <2>2. Planned' /\ CallShape'
    <3>1. Versions' = Versions
      BY <2>1 DEF Versions
    <3> QED BY <2>1, <3>1 DEF ProductInv, Planned, CallShape
  <2>3. TasksMoved'
    BY <2>1, MovedStays DEF ProductInv
  <2>4. Locked'
    BY <2>1 DEF ProductInv, Locked
  <2>5. Reported'
    BY <2>1 DEF ProductInv, Reported
  <2>6. Numbered'
    BY <2>1 DEF ProductInv, Numbered
  <2> QED BY <2>2, <2>3, <2>4, <2>5, <2>6 DEF ProductInv
<1> QED BY <1>1, <1>2, <1>3, <1>4 DEF ProductNext

\* However many clients replace plans, move tasks and append messages at once, and
\* whatever transactions fail: versions and message numbers have no hole and no double,
\* and each task has followed one legal path (product_store.py:306, 483).
THEOREM PlansAreNumberedAndMovesLegal == ProductSpec => []PlansAndTasks
<1>1. ProductInv => PlansAndTasks
  BY DEF ProductInv, Planned, TasksMoved, Numbered, PlansAndTasks
<1> QED BY <1>1, ProductInvInit, ProductInvNext, PTL DEF ProductSpec

\* A report that is committed was made while its task was in progress, whatever moves
\* race it, and is one numbered piece of evidence (learning_store.py:123).
THEOREM ReportsBecomeEvidence == ProductSpec => []ReportsAreEvidence
<1>1. ProductInv => ReportsAreEvidence
  BY DEF ProductInv, Reported, ReportsAreEvidence
<1> QED BY <1>1, ProductInvInit, ProductInvNext, PTL DEF ProductSpec

\* What numbers no transaction hands out twice: a call makes one plan.
OnePlanEach == \A p, q \in plans : p.by = q.by => p = q

Bounded ==
    /\ \E l \in CallLoads : backing = l.backing /\ callers = l.calls
    /\ diagnoses \in Seq(Calls)
    /\ reports \subseteq [by : Calls, task : Tasks, under : Statuses]
    /\ lastSeq \in Nat
    /\ restarts \in Nat /\ failures \in Nat /\ restarts <= failures /\ failures <= MaxFailures
    /\ messages \subseteq [by : Calls, seq : Nat]
    /\ lock \in Calls \cup {NoOne}

ProductTyped == ProductInv /\ OnePlanEach /\ Bounded

LEMMA OnePlanNext ==
    ASSUME ProductInv, OnePlanEach, [ProductNext]_productVars
    PROVE  OnePlanEach'
<1>1. CASE UNCHANGED plans
  BY <1>1 DEF OnePlanEach
<1>2. ASSUME NEW c \in Calls, CommitPlan(c) PROVE OnePlanEach'
  <2> DEFINE new == [version |-> call[c].number, by |-> c, assessed |-> CallKind[c] = "generate"]
  <2>1. plans' = plans \cup {new} /\ call[c].pc = "inserted" /\ c \in Plans /\ c # FirstPlan
    BY <1>2, PlanCalls DEF CommitPlan
  <2>2. \A p \in plans : p.by # c
    BY <2>1 DEF ProductInv, Planned
  <2>3. new.by = c
    OBVIOUS
  <2> HIDE DEF new
  <2> QED BY <2>1, <2>2, <2>3 DEF OnePlanEach
<1>3. UNCHANGED plans \/ \E c \in Calls : CommitPlan(c)
  BY DEF ProductNext, productVars, Restart, Diagnose, ReadDiagnosis, ReadVersion, InsertPlan,
     PlanConflict, Move, MoveMissed, Reread, MoveIllegal, BeginReport, RefuseReport,
     InsertEvidence, CommitReport, CountEvent, RecordObservation, ReadEvidence, ReadMastery,
     TakeNumber, CommitMessage, Fail
<1> QED BY <1>1, <1>2, <1>3

\* So there are no more plans than calls that make one, and the first.
LEMMA PlansAreFew ==
    ASSUME ProductInv, OnePlanEach
    PROVE  Cardinality(plans) <= Cardinality(Plans) /\ Cardinality(Plans) \in Nat
<1>1. IsFiniteSet(Plans)
  <2>1. IsFiniteSet({c \in Calls : CallKind[c] \in {"generate", "replace"}})
    BY CallsAreWellFormed, FS_Subset
  <2> QED BY <2>1, FS_AddElement DEF Plans
<1> DEFINE maker == [p \in plans |-> p.by]
<1>2. IsFiniteSet(plans) /\ plans \subseteq PlanRecord
  BY DEF ProductInv, Planned
<1>3. maker \in Injection(plans, Plans)
  BY <1>2 DEF OnePlanEach, PlanRecord, Injection, IsInjective
<1> QED BY <1>1, <1>2, <1>3, FS_Injection, FS_CardinalityType

\* What a step does to the records that no invariant above speaks of.
LEMMA BoundedNext ==
    ASSUME ProductInv, Bounded, [ProductNext]_productVars
    PROVE  Bounded'
<1>1. /\ CallShape /\ status \in [Tasks -> Statuses]
      /\ \A c \in Calls : CallKind[c] = "submit" => TaskCalled[c] \in Tasks
  BY CallsAreWellFormed DEF ProductInv, TasksMoved
<1>2. UNCHANGED <<backing, callers>>
  BY DEF ProductNext, productVars, Restart, Diagnose, ReadDiagnosis, ReadVersion, InsertPlan,
     PlanConflict, CommitPlan, Move, MoveMissed, Reread, MoveIllegal, BeginReport, RefuseReport,
     InsertEvidence, CommitReport, CountEvent, RecordObservation, ReadEvidence, ReadMastery,
     TakeNumber, CommitMessage, Fail
<1>3. diagnoses' \in Seq(Calls)
  <2>1. CASE UNCHANGED diagnoses
    BY <2>1 DEF Bounded
  <2>2. ASSUME NEW c \in Calls, Diagnose(c) PROVE diagnoses' \in Seq(Calls)
    BY <2>2 DEF Bounded, Diagnose
  <2> QED BY <2>1, <2>2
    DEF ProductNext, productVars, Restart, ReadDiagnosis, ReadVersion, InsertPlan,
     PlanConflict, CommitPlan, Move, MoveMissed, Reread, MoveIllegal, BeginReport, RefuseReport,
     InsertEvidence, CommitReport, CountEvent, RecordObservation, ReadEvidence, ReadMastery,
     TakeNumber, CommitMessage, Fail
<1>4. reports' \subseteq [by : Calls, task : Tasks, under : Statuses]
  <2>1. CASE UNCHANGED reports
    BY <2>1 DEF Bounded
  <2>2. ASSUME NEW c \in Calls, CommitReport(c)
        PROVE  reports' \subseteq [by : Calls, task : Tasks, under : Statuses]
    <3>1. TaskCalled[c] \in Tasks /\ status[TaskCalled[c]] \in Statuses
      BY <1>1, <2>2 DEF CommitReport, Is
    <3> QED BY <2>2, <3>1 DEF Bounded, CommitReport
  <2> QED BY <2>1, <2>2
    DEF ProductNext, productVars, Restart, Diagnose, ReadDiagnosis, ReadVersion, InsertPlan,
     PlanConflict, CommitPlan, Move, MoveMissed, Reread, MoveIllegal, BeginReport, RefuseReport,
     InsertEvidence, CountEvent, RecordObservation, ReadEvidence, ReadMastery,
     TakeNumber, CommitMessage, Fail
<1>5. messages' \subseteq [by : Calls, seq : Nat]
  <2>1. CASE UNCHANGED messages
    BY <2>1 DEF Bounded
  <2>2. ASSUME NEW c \in Calls, CommitMessage(c) PROVE messages' \subseteq [by : Calls, seq : Nat]
    BY <1>1, <2>2 DEF Bounded, CommitMessage, CallShape
  <2> QED BY <2>1, <2>2
    DEF ProductNext, productVars, Restart, Diagnose, ReadDiagnosis, ReadVersion, InsertPlan,
     PlanConflict, CommitPlan, Move, MoveMissed, Reread, MoveIllegal, BeginReport, RefuseReport,
     InsertEvidence, CommitReport, CountEvent, RecordObservation, ReadEvidence, ReadMastery,
     TakeNumber, Fail
<1>6. lock' \in Calls \cup {NoOne}
  BY DEF Bounded, Hold, Release,
     ProductNext, productVars, Restart, Diagnose, ReadDiagnosis, ReadVersion, InsertPlan,
     PlanConflict, CommitPlan, Move, MoveMissed, Reread, MoveIllegal, BeginReport, RefuseReport,
     InsertEvidence, CommitReport, CountEvent, RecordObservation, ReadEvidence, ReadMastery,
     TakeNumber, CommitMessage, Fail
<1>7. \/ UNCHANGED <<lastSeq, failures, restarts>>
      \/ lastSeq' = lastSeq + 1 /\ UNCHANGED <<failures, restarts>>
      \/ /\ lastSeq' \in {0, lastSeq} /\ restarts' \in {restarts, restarts + 1}
         /\ failures < MaxFailures /\ failures' = failures + 1
  <2>1. CASE Restart
    BY <2>1 DEF Restart
  <2>2. ASSUME NEW c \in Calls, Fail(c)
        PROVE  UNCHANGED <<lastSeq, restarts>> /\ failures < MaxFailures /\ failures' = failures + 1
    BY <2>2 DEF Fail, logVars
  <2>3. ASSUME NEW c \in Calls, CountEvent(c)
        PROVE  lastSeq' = lastSeq + 1 /\ UNCHANGED <<failures, restarts>>
    BY <2>3 DEF CountEvent
  <2>4. ASSUME NEW c \in Calls,
               \/ Diagnose(c) \/ ReadDiagnosis(c) \/ ReadVersion(c) \/ InsertPlan(c)
               \/ PlanConflict(c) \/ CommitPlan(c) \/ Move(c) \/ MoveMissed(c) \/ Reread(c)
               \/ MoveIllegal(c) \/ BeginReport(c) \/ RefuseReport(c) \/ InsertEvidence(c)
               \/ CommitReport(c) \/ RecordObservation(c) \/ ReadEvidence(c) \/ ReadMastery(c)
               \/ TakeNumber(c) \/ CommitMessage(c)
        PROVE  UNCHANGED <<lastSeq, failures, restarts>>
    BY <2>4, Zenon DEF logVars, Diagnose, ReadDiagnosis, ReadVersion, InsertPlan, PlanConflict,
       CommitPlan, Move, MoveMissed, Reread, MoveIllegal, BeginReport, RefuseReport,
       InsertEvidence, CommitReport, RecordObservation, ReadEvidence, ReadMastery,
       TakeNumber, CommitMessage
  <2>5. CASE UNCHANGED productVars
    BY <2>5 DEF productVars
  <2> QED BY <2>1, <2>2, <2>3, <2>4, <2>5 DEF ProductNext
<1>8. /\ lastSeq' \in Nat /\ restarts' \in Nat /\ failures' \in Nat
      /\ restarts' <= failures' /\ failures' <= MaxFailures
  BY <1>7, CallsAreWellFormed DEF Bounded
<1> QED BY <1>2, <1>3, <1>4, <1>5, <1>6, <1>8 DEF Bounded

LEMMA BoundedInit == ProductInit => ProductTyped
<1> SUFFICES ASSUME ProductInit PROVE OnePlanEach /\ Bounded
  BY ProductInvInit DEF ProductTyped
<1>1. OnePlanEach
  BY DEF ProductInit, OnePlanEach
<1>2. lastSeq \in Nat
  BY EvidenceIsWellFormed, FS_CardinalityType DEF ProductInit
<1> QED BY <1>1, <1>2, CallsAreWellFormed DEF ProductInit, Bounded

\* Versions of plans stop at the calls that can make one; failures at their bound.
THEOREM ProductTypes == ProductSpec => []ProductTypeOK
<1>1. ProductTyped => ProductTypeOK
  <2> SUFFICES ASSUME ProductInv, OnePlanEach, Bounded PROVE ProductTypeOK
    BY DEF ProductTyped
  <2>1. plans \subseteq [version : 1..(Cardinality(Plans)), by : Plans, assessed : BOOLEAN]
    <3>1. /\ plans \subseteq PlanRecord /\ Cardinality(plans) \in Nat
          /\ \A p \in plans : p.version \in 1..Cardinality(plans)
      BY FS_CardinalityType DEF ProductInv, Planned, Versions
    <3>2. \A p \in plans : p.version \in 1..Cardinality(Plans)
      BY <3>1, PlansAreFew
    <3> QED BY <3>1, <3>2 DEF PlanRecord
  <2>2. backing \in {"postgres", "memory"} /\ callers \subseteq Calls
    BY CallsAreWellFormed DEF Bounded
  <2>3. restarts \in 0..MaxFailures /\ failures \in 0..MaxFailures
    BY CallsAreWellFormed DEF Bounded
  <2> QED BY <2>1, <2>2, <2>3 DEF Bounded, ProductInv, TasksMoved, Locked, Reported, Numbered, ProductTypeOK
<1>2. ProductTyped /\ [ProductNext]_productVars => ProductTyped'
  BY ProductInvNext, OnePlanNext, BoundedNext DEF ProductTyped
<1> QED BY <1>1, <1>2, BoundedInit, PTL DEF ProductSpec


-----------------------------------------------------------------------------
(* The mastery views.                                                       *)

LevelNames == {Levels[k] : k \in 1..4}

IsEvidence(evidence) ==
    /\ IsFiniteSet(evidence)
    /\ \A e \in evidence : e.seq \in Nat /\ AreVerdicts(e.verdicts)

\* What a bucket says after some places, in whatever order they were counted.
ShownAt(places) ==
    {VerdictAt(p).level : p \in {q \in places : VerdictAt(q).direction = "positive"}}
CountsTell(bucket, places) ==
    /\ bucket.count = Cardinality(places)
    /\ ShownAt(places) \subseteq LevelNames /\ bucket.best \in LevelNames
    /\ bucket.best # "unknown" => bucket.best \in ShownAt(places)
    /\ \A level \in ShownAt(places) : Rank(level) <= Rank(bucket.best)

LEMMA LevelsAreRanked ==
    /\ LevelNames = {"unknown", "introduced", "practiced", "demonstrated"}
    /\ \A level \in LevelNames : Rank(level) \in 1..4
    /\ \A level \in LevelNames : Rank(level) <= 1 => level = "unknown"
    /\ Rank("unknown") = 1
<1>1. /\ Levels[1] = "unknown" /\ Levels[2] = "introduced"
      /\ Levels[3] = "practiced" /\ Levels[4] = "demonstrated"
  BY DEF Levels
<1>2. \A k \in 1..4 : k = 1 \/ k = 2 \/ k = 3 \/ k = 4
  OBVIOUS
<1>3. LevelNames = {"unknown", "introduced", "practiced", "demonstrated"}
  BY <1>1, <1>2 DEF LevelNames
<1>4. \A level \in LevelNames : Rank(level) \in 1..4 /\ Levels[Rank(level)] = level
  BY DEF LevelNames, Rank
<1>5. \A level \in LevelNames : Rank(level) <= 1 => level = "unknown"
  <2> SUFFICES ASSUME NEW level \in LevelNames, Rank(level) <= 1
               PROVE  level = "unknown"
    OBVIOUS
  <2>1. Rank(level) = 1
    BY <1>4
  <2> QED BY <1>1, <1>4, <2>1
<1>6. Rank("unknown") = 1
  <2>1. Rank("unknown") \in 1..4 /\ Levels[Rank("unknown")] = "unknown"
    BY <1>3, <1>4
  <2> QED BY <1>1, <1>2, <2>1
<1> QED BY <1>3, <1>4, <1>5, <1>6

LEMMA MaxOfFinite ==
    ASSUME NEW S \in SUBSET Nat, IsFiniteSet(S), S # {}
    PROVE  \E m \in S : \A n \in S : n <= m
<1> DEFINE Good == {T \in SUBSET S : T # {} => \E m \in T : \A n \in T : n <= m}
<1>1. ASSUME NEW T \in SUBSET S, \A x \in T : T \ {x} \in Good
      PROVE  T \in Good
  <2> SUFFICES ASSUME T # {} PROVE \E m \in T : \A n \in T : n <= m
    OBVIOUS
  <2>1. PICK x \in T : TRUE
    OBVIOUS
  <2>2. CASE T = {x}
    BY <2>2
  <2>3. CASE T # {x}
    <3>1. PICK m \in T \ {x} : \A n \in T \ {x} : n <= m
      BY <1>1, <2>1, <2>3
    <3>2. CASE x <= m
      BY <3>1, <3>2
    <3>3. CASE m <= x
      BY <2>1, <3>1, <3>3
    <3> QED BY <2>1, <3>1, <3>2, <3>3
  <2> QED BY <2>2, <2>3
<1>2. \A T \in SUBSET S : T \in Good
  <2> HIDE DEF Good
  <2> QED BY <1>1, SubsetInduction
<1> QED BY <1>2

\* The verdicts that count are finitely many, each of a level there is.
LEMMA VerdictsAreFinite ==
    ASSUME NEW evidence, IsEvidence(evidence), NEW c
    PROVE  /\ IsFiniteSet(Verdicts(evidence, c))
           /\ \A p \in Verdicts(evidence, c) :
                /\ p = <<p[1], p[2]>> /\ p[1] \in evidence
                /\ p[1].seq \in Nat /\ p[2] \in Nat /\ VerdictAt(p).level \in LevelNames
<1> DEFINE places(e) == {k \in DOMAIN e.verdicts : /\ e.verdicts[k].component = c
                                                   /\ Considered(e, e.verdicts[k])}
           Own(e) == {<<e, i>> : i \in places(e)}
           owns == {Own(e) : e \in evidence}
<1>1. ASSUME NEW e \in evidence PROVE IsFiniteSet(Own(e))
  <2>1. Len(e.verdicts) \in Nat /\ DOMAIN e.verdicts = 1..Len(e.verdicts)
    BY DEF IsEvidence, AreVerdicts
  <2>2. IsFiniteSet(1..Len(e.verdicts))
    BY <2>1, FS_Interval
  <2>3. places(e) \subseteq 1..Len(e.verdicts)
    BY <2>1
  <2> HIDE DEF places
  <2>4. IsFiniteSet(places(e))
    BY <2>2, <2>3, FS_Subset
  <2>5. [i \in places(e) |-> <<e, i>>] \in Surjection(places(e), Own(e))
    BY DEF Surjection
  <2> HIDE DEF Own
  <2> QED BY <2>4, <2>5, FS_Surjection
<1>2. IsFiniteSet(owns)
  <2> HIDE DEF Own
  <2>1. [e \in evidence |-> Own(e)] \in Surjection(evidence, owns)
    BY DEF Surjection
  <2> HIDE DEF owns
  <2> QED BY <2>1, FS_Surjection DEF IsEvidence
<1>3. \A T \in owns : IsFiniteSet(T)
  <2> HIDE DEF Own
  <2> QED BY <1>1
<1>4. Verdicts(evidence, c) = UNION owns
  BY DEF Verdicts
<1>5. IsFiniteSet(Verdicts(evidence, c))
  <2> HIDE DEF owns
  <2> QED BY <1>2, <1>3, <1>4, FS_UNION
<1>6. ASSUME NEW p \in Verdicts(evidence, c)
      PROVE  /\ p = <<p[1], p[2]>> /\ p[1] \in evidence
             /\ p[1].seq \in Nat /\ p[2] \in Nat /\ VerdictAt(p).level \in LevelNames
  <2>1. PICK e \in evidence : p \in Own(e)
    BY <1>4
  <2>2. PICK i \in DOMAIN e.verdicts : p = <<e, i>>
    BY <2>1
  <2>3. AreVerdicts(e.verdicts) /\ e.seq \in Nat
    BY DEF IsEvidence
  <2>4. i \in Nat /\ e.verdicts[i].level \in LevelNames
    BY <2>3 DEF AreVerdicts, LevelNames
  <2> QED BY <2>2, <2>3, <2>4 DEF VerdictAt
<1> QED BY <1>5, <1>6

\* Of some places that count there is a last one.
LEMMA LastIsThere ==
    ASSUME NEW evidence, IsEvidence(evidence), NEW c,
           NEW places \in SUBSET Verdicts(evidence, c), places # {}
    PROVE  LastOf(places) \in places
<1> DEFINE S == {p[1] : p \in places}
           N == {p[1].seq : p \in places}
           event == CHOOSE e \in S : \A p \in places : p[1].seq <= e.seq
           I == {p[2] : p \in {q \in places : q[1] = event}}
<1>1. /\ IsFiniteSet(places)
      /\ \A p \in places : p = <<p[1], p[2]>> /\ p[1].seq \in Nat /\ p[2] \in Nat
  BY VerdictsAreFinite, FS_Subset
<1>2. event \in S /\ \A p \in places : p[1].seq <= event.seq
  <2>1. IsFiniteSet(N)
    <3>1. [p \in places |-> p[1].seq] \in Surjection(places, N)
      BY DEF Surjection
    <3> HIDE DEF N
    <3> QED BY <1>1, <3>1, FS_Surjection
  <2>2. N \in SUBSET Nat /\ N # {}
    BY <1>1
  <2>3. PICK m \in N : \A n \in N : n <= m
    <3> HIDE DEF N
    <3> QED BY <2>1, <2>2, MaxOfFinite
  <2>4. \E e \in S : \A p \in places : p[1].seq <= e.seq
    BY <2>3
  <2> HIDE DEF S
  <2> QED BY <2>4
<1> HIDE DEF event
<1>3. Max(I) \in I
  <2>1. IsFiniteSet(I)
    <3> DEFINE Q == {q \in places : q[1] = event}
    <3>1. IsFiniteSet(Q)
      BY <1>1, FS_Subset
    <3>2. [p \in Q |-> p[2]] \in Surjection(Q, I)
      BY DEF Surjection
    <3> HIDE DEF Q, I
    <3> QED BY <3>1, <3>2, FS_Surjection
  <2>2. I \in SUBSET Nat /\ I # {}
    BY <1>1, <1>2
  <2> HIDE DEF I
  <2>3. \E m \in I : \A n \in I : n <= m
    BY <2>1, <2>2, MaxOfFinite
  <2> QED BY <2>2, <2>3 DEF Max
<1>4. PICK p \in places : p[1] = event /\ p[2] = Max(I)
  BY <1>3
<1>5. LastOf(places) = <<event, Max(I)>>
  BY DEF LastOf, event
<1> QED BY <1>1, <1>4, <1>5

\* What the bucket is after some places, if g has what it is after the fewer ones.
After(g, places) ==
    IF places = {} THEN EmptyBucket
    ELSE CountVerdict(g[places \ {LastOf(places)}], VerdictAt(LastOf(places)))

IsFold(g, places) == g = [T \in SUBSET places |-> After(g, T)]

LEMMA BucketIsChosen ==
    ASSUME NEW evidence, NEW c
    PROVE  Bucket(evidence, c) =
             (CHOOSE g : IsFold(g, Verdicts(evidence, c)))[Verdicts(evidence, c)]
  BY DEF Bucket, IsFold, After

\* The fold exists: extend one for up to n places to those of n + 1.
LEMMA FoldExists ==
    ASSUME NEW S, IsFiniteSet(S), \A T \in SUBSET S : T # {} => LastOf(T) \in T
    PROVE  \E g : IsFold(g, S)
<1> DEFINE level(n) == {T \in SUBSET S : Cardinality(T) <= n}
           Solves(g, n) == g = [T \in level(n) |-> After(g, T)]
           bad == {n \in Nat : ~ \E g : Solves(g, n)}
<1>1. \A T \in SUBSET S : IsFiniteSet(T) /\ Cardinality(T) \in Nat
  BY FS_Subset, FS_CardinalityType
<1>2. \A T \in SUBSET S : T # {} =>
        /\ T \ {LastOf(T)} \in SUBSET S
        /\ Cardinality(T \ {LastOf(T)}) = Cardinality(T) - 1
  BY <1>1, FS_RemoveElement
<1>3. \A n \in Nat : \E g : Solves(g, n)
  <2> SUFFICES ASSUME bad # {} PROVE FALSE
    OBVIOUS
  <2>1. PICK n \in bad : \A m \in bad : n <= m
    <3>1. bad \in SUBSET Nat
      BY DEF bad
    <3> HIDE DEF bad
    <3> QED BY <3>1, LeastNatural
  <2>2. CASE n = 0
    <3> DEFINE g == [T \in level(0) |-> EmptyBucket]
    <3>1. \A T \in level(0) : T = {}
      BY <1>1, FS_EmptySet
    <3>2. g = [T \in level(0) |-> After(g, T)]
      BY <3>1 DEF After
    <3> QED BY <2>2, <3>2
  <2>3. CASE n # 0
    <3>1. n - 1 \in Nat /\ n \in Nat
      BY <2>3
    <3>2. n - 1 \notin bad
      <4> HIDE DEF bad
      <4> QED BY <2>1, <3>1
    <3>3. PICK g : Solves(g, n - 1)
      BY <3>1, <3>2
    <3> DEFINE h == [T \in level(n) |-> After(g, T)]
    <3>4. ASSUME NEW T \in level(n)
          PROVE  After(g, T) = After(h, T)
      <4>1. CASE T = {}
        BY <4>1 DEF After
      <4>2. CASE T # {}
        <5> DEFINE R == T \ {LastOf(T)}
        <5>1. R \in level(n) /\ R \in level(n - 1)
          BY <1>1, <1>2, <3>1, <4>2
        <5>2. h[R] = g[R]
          <6>1. h[R] = After(g, R)
            BY <5>1
          <6>2. g[R] = After(g, R)
            BY <3>3, <5>1
          <6> QED BY <6>1, <6>2
        <5> HIDE DEF h
        <5> QED BY <4>2, <5>2 DEF After
      <4> QED BY <4>1, <4>2
    <3>5. Solves(h, n)
      <4>1. h = [T \in level(n) |-> After(h, T)]
        BY <3>4
      <4> QED BY <4>1
    <3>6. n \notin bad
      <4> HIDE DEF Solves
      <4> QED BY <3>5
    <3> QED BY <3>6
  <2> QED BY <2>2, <2>3
<1>4. PICK g : Solves(g, Cardinality(S))
  BY <1>1, <1>3
<1>5. level(Cardinality(S)) = SUBSET S
  BY FS_Subset
<1> QED BY <1>4, <1>5 DEF IsFold

\* Counting one more verdict.
LEMMA CountedTells ==
    ASSUME NEW places, IsFiniteSet(places), NEW p \in places, NEW bucket,
           CountsTell(bucket, places \ {p}), VerdictAt(p).level \in LevelNames
    PROVE  CountsTell(CountVerdict(bucket, VerdictAt(p)), places)
<1> DEFINE v == VerdictAt(p)
           rest == places \ {p}
           b == CountVerdict(bucket, v)
<1>1. /\ b.count = bucket.count + 1
      /\ b.best = IF v.direction = "positive" /\ Rank(v.level) > Rank(bucket.best)
                  THEN v.level ELSE bucket.best
  BY DEF CountVerdict
<1>2. Cardinality(places) \in Nat /\ Cardinality(rest) = Cardinality(places) - 1
  BY FS_CardinalityType, FS_RemoveElement
<1>3. b.count = Cardinality(places)
  BY <1>1, <1>2 DEF CountsTell
<1>4. ShownAt(places) = ShownAt(rest) \cup (IF v.direction = "positive" THEN {v.level} ELSE {})
  BY DEF ShownAt
<1>5. bucket.best \in LevelNames /\ v.level \in LevelNames
  BY DEF CountsTell
<1>6. Rank(bucket.best) \in 1..4 /\ Rank(v.level) \in 1..4
  BY <1>5, LevelsAreRanked
<1>7. \A level \in ShownAt(rest) :
        level \in LevelNames /\ Rank(level) \in 1..4 /\ Rank(level) <= Rank(bucket.best)
  BY LevelsAreRanked DEF CountsTell
<1>8. ShownAt(places) \subseteq LevelNames
  BY <1>4, <1>5, <1>7
<1> HIDE DEF v, rest, b
<1>9. ASSUME v.direction = "positive" /\ Rank(v.level) > Rank(bucket.best)
      PROVE  CountsTell(b, places)
  <2>1. b.best = v.level
    BY <1>1, <1>9
  <2>2. \A level \in ShownAt(rest) : Rank(level) <= Rank(v.level)
    <3> SUFFICES ASSUME NEW level \in ShownAt(rest) PROVE Rank(level) <= Rank(v.level)
      OBVIOUS
    <3>1. Rank(level) <= Rank(bucket.best)
      BY <1>7
    <3> QED BY <1>6, <1>7, <1>9, <3>1
  <2> QED BY <1>3, <1>4, <1>5, <1>6, <1>8, <1>9, <2>1, <2>2 DEF CountsTell
<1>10. ASSUME ~(v.direction = "positive" /\ Rank(v.level) > Rank(bucket.best))
       PROVE  CountsTell(b, places)
  <2>1. b.best = bucket.best
    BY <1>1, <1>10
  <2>2. bucket.best # "unknown" => bucket.best \in ShownAt(places)
    BY <1>4 DEF CountsTell, rest
  <2>3. v.direction = "positive" => Rank(v.level) <= Rank(bucket.best)
    BY <1>6, <1>10
  <2> QED BY <1>3, <1>4, <1>5, <1>7, <1>8, <2>1, <2>2, <2>3 DEF CountsTell
<1> QED BY <1>9, <1>10 DEF b, v

\* A bucket counts what counts, and shows the highest level of it.
LEMMA BucketTells ==
    ASSUME NEW evidence, IsEvidence(evidence), NEW c
    PROVE  CountsTell(Bucket(evidence, c), Verdicts(evidence, c))
<1> DEFINE S == Verdicts(evidence, c)
           g == CHOOSE f : IsFold(f, S)
           Good == {T \in SUBSET S : CountsTell(g[T], T)}
<1>1. /\ IsFiniteSet(S)
      /\ \A p \in S : VerdictAt(p).level \in LevelNames
  BY VerdictsAreFinite
<1>2. \A T \in SUBSET S : T # {} => LastOf(T) \in T
  BY LastIsThere
<1>3. IsFold(g, S)
  <2> HIDE DEF S
  <2> QED BY <1>1, <1>2, FoldExists
<1>4. Bucket(evidence, c) = g[S]
  BY BucketIsChosen
<1> HIDE DEF g, S
<1>5. \A T \in SUBSET S : g[T] = After(g, T)
  BY <1>3 DEF IsFold
<1>6. ASSUME NEW T \in SUBSET S, \A x \in T : T \ {x} \in Good
      PROVE  T \in Good
  <2>1. IsFiniteSet(T)
    BY <1>1, FS_Subset
  <2>2. CASE T = {}
    <3>1. g[T] = EmptyBucket
      BY <1>5, <2>2 DEF After
    <3>2. EmptyBucket.count = 0 /\ EmptyBucket.best = "unknown"
      BY DEF EmptyBucket
    <3>3. ShownAt({}) = {} /\ Cardinality({}) = 0 /\ "unknown" \in LevelNames
      BY FS_EmptySet, LevelsAreRanked DEF ShownAt
    <3> QED BY <2>2, <3>1, <3>2, <3>3 DEF CountsTell
  <2>3. CASE T # {}
    <3> DEFINE p == LastOf(T)
    <3>1. p \in T /\ VerdictAt(p).level \in LevelNames
      BY <1>1, <1>2, <2>3
    <3>2. CountsTell(g[T \ {p}], T \ {p})
      BY <1>6, <3>1
    <3>3. g[T] = CountVerdict(g[T \ {p}], VerdictAt(p))
      BY <1>5, <2>3 DEF After
    <3> HIDE DEF p
    <3>4. CountsTell(g[T], T)
      BY <2>1, <3>1, <3>2, <3>3, CountedTells
    <3> QED BY <3>4
  <2> QED BY <2>2, <2>3
<1>7. \A T \in SUBSET S : T \in Good
  <2> HIDE DEF Good
  <2> QED BY <1>1, <1>6, SubsetInduction
<1>8. S \in Good
  BY <1>7
<1> QED BY <1>4, <1>8 DEF S

\* What counts is what was meant to.
LEMMA CountedAreVerdicts ==
    ASSUME NEW evidence, NEW c
    PROVE  /\ Verdicts(evidence, c) = Counted(evidence, c)
           /\ ShownAt(Verdicts(evidence, c)) = Shown(evidence, c)
<1> DEFINE V == Verdicts(evidence, c)
           C == Counted(evidence, c)
<1>1. ASSUME NEW p \in V PROVE p \in C
  <2>0. PICK e \in evidence : \E k \in DOMAIN e.verdicts :
          /\ p = <<e, k>> /\ e.verdicts[k].component = c /\ Considered(e, e.verdicts[k])
    BY DEF Verdicts
  <2>1. PICK i \in DOMAIN e.verdicts :
          /\ p = <<e, i>> /\ e.verdicts[i].component = c /\ Considered(e, e.verdicts[i])
    BY <2>0
  <2>2. /\ e.verdicts[i].valid /\ e.kind = "learning" /\ <<e.by, c>> \notin Superseded
    BY <2>1 DEF Considered
  <2> DEFINE I == {k \in DOMAIN e.verdicts : /\ e.verdicts[k].component = c
                                             /\ e.verdicts[k].valid
                                             /\ e.kind = "learning"
                                             /\ <<e.by, c>> \notin Superseded}
  <2>3. i \in I
    BY <2>1, <2>2
  <2>4. p \in {e} \X I
    BY <2>1, <2>3
  <2> QED BY <2>4 DEF Counted
<1>2. ASSUME NEW p \in C PROVE p \in V
  <2>1. PICK e \in evidence :
          p \in {e} \X {k \in DOMAIN e.verdicts : /\ e.verdicts[k].component = c
                                                  /\ e.verdicts[k].valid
                                                  /\ e.kind = "learning"
                                                  /\ <<e.by, c>> \notin Superseded}
    BY DEF Counted
  <2>2. PICK i \in DOMAIN e.verdicts :
          /\ p = <<e, i>> /\ e.verdicts[i].component = c /\ e.verdicts[i].valid
          /\ e.kind = "learning" /\ <<e.by, c>> \notin Superseded
    BY <2>1
  <2>3. Considered(e, e.verdicts[i])
    BY <2>2 DEF Considered
  <2> QED BY <2>2, <2>3 DEF Verdicts
<1>3. V = C
  <2> HIDE DEF V, C
  <2> QED BY <1>1, <1>2
<1> QED BY <1>3 DEF ShownAt, Shown

\* A view of some evidence, and of more of it.
LEMMA ViewTells ==
    ASSUME NEW evidence, IsEvidence(evidence), NEW c \in Components
    PROVE  /\ Projection(evidence).components[c].count = Cardinality(Counted(evidence, c))
           /\ Shown(evidence, c) \subseteq LevelNames
           /\ Projection(evidence).components[c].level \in LevelNames
           /\ Projection(evidence).components[c].level # "unknown"
                => Projection(evidence).components[c].level \in Shown(evidence, c)
           /\ \A level \in Shown(evidence, c) :
                Rank(level) <= Rank(Projection(evidence).components[c].level)
<1> DEFINE b == Bucket(evidence, c)
<1>1. /\ Projection(evidence).components[c].count = b.count
      /\ Projection(evidence).components[c].level = b.best
  BY DEF Projection
<1>2. CountsTell(b, Verdicts(evidence, c))
  BY BucketTells
<1> HIDE DEF b
<1> QED BY <1>1, <1>2, CountedAreVerdicts DEF CountsTell

LEMMA UnknownShowsNothing ==
    ASSUME NEW evidence, IsEvidence(evidence), NEW c \in Components
    PROVE  Projection(evidence).components[c].level = "unknown"
             <=> Shown(evidence, c) \subseteq {"unknown"}
<1> DEFINE best == Projection(evidence).components[c].level
<1>1. /\ Shown(evidence, c) \subseteq LevelNames /\ best \in LevelNames
      /\ best # "unknown" => best \in Shown(evidence, c)
      /\ \A level \in Shown(evidence, c) : Rank(level) <= Rank(best)
  BY ViewTells
<1> HIDE DEF best
<1>2. ASSUME best = "unknown", NEW level \in Shown(evidence, c) PROVE level = "unknown"
  <2>1. Rank(level) <= 1 /\ level \in LevelNames
    BY <1>1, <1>2, LevelsAreRanked
  <2> QED BY <2>1, LevelsAreRanked
<1> QED BY <1>1, <1>2 DEF best

LEMMA MoreIsNoLess ==
    ASSUME NEW few, NEW many, IsEvidence(few), IsEvidence(many), few \subseteq many,
           NEW c \in Components
    PROVE  Rank(Projection(few).components[c].level) <= Rank(Projection(many).components[c].level)
<1> DEFINE low == Projection(few).components[c].level
           high == Projection(many).components[c].level
<1>1. /\ low \in LevelNames /\ high \in LevelNames
      /\ low # "unknown" => low \in Shown(few, c)
      /\ \A level \in Shown(many, c) : Rank(level) <= Rank(high)
  BY ViewTells
<1>2. Shown(few, c) \subseteq Shown(many, c)
  BY DEF Shown, Counted
<1> HIDE DEF low, high
<1>3. low = "unknown" => Rank(low) <= Rank(high)
  BY <1>1, LevelsAreRanked
<1>4. low # "unknown" => Rank(low) <= Rank(high)
  BY <1>1, <1>2
<1> QED BY <1>3, <1>4 DEF low, high

-----------------------------------------------------------------------------
\* What a view of mastery has read is still there, and the view is its projection.
IsAnswer(answer, table, log, times) ==
    /\ answer[1] \subseteq table
    /\ IsEvidence(answer[2])
    /\ answer[3] \in Nat /\ answer[3] <= times
    /\ answer[3] = times => answer[2] \subseteq log
    /\ answer[4] = Projection(answer[1] \cup answer[2])
IsView(view, table, log, times) ==
    /\ view.pc = "read" => view.answer[1] \subseteq table
    /\ view.pc = "done" => IsAnswer(view.answer, table, log, times)

ViewInv ==
    /\ callers \subseteq Calls
    /\ restarts \in Nat /\ lastSeq \in Nat
    /\ IsEvidence(events) /\ IsEvidence(observed)
    /\ \A c \in Calls : CallKind[c] = "mastery" => IsView(call[c], events, observed, restarts)

LEMMA ViewInvNow ==
    ASSUME callers' \subseteq Calls, restarts' \in Nat, lastSeq' \in Nat,
           IsEvidence(events'), IsEvidence(observed'),
           \A c \in Calls : CallKind[c] = "mastery" => IsView(call'[c], events', observed', restarts')
    PROVE  ViewInv'
  BY DEF ViewInv

\* More evidence takes no view back.
LEMMA ViewStays ==
    ASSUME NEW view, NEW table, NEW log, NEW times, NEW table2, NEW log2,
           IsView(view, table, log, times), table \subseteq table2, log \subseteq log2
    PROVE  IsView(view, table2, log2, times)
  BY DEF IsView, IsAnswer

\* Another call goes on, and some evidence may be added.
LEMMA OthersKeepViews ==
    ASSUME ViewInv, NEW c \in Calls, Alone(c),
           CallKind[c] # "mastery" \/ call'[c].pc \notin {"read", "done"},
           UNCHANGED <<callers, restarts>>, lastSeq' \in Nat,
           IsEvidence(events'), IsEvidence(observed'),
           events \subseteq events', observed \subseteq observed'
    PROVE  ViewInv'
<1>1. ASSUME NEW d \in Calls, CallKind[d] = "mastery"
      PROVE  IsView(call'[d], events', observed', restarts')
  <2>1. CASE d = c
    BY <1>1, <2>1 DEF IsView
  <2>2. CASE d # c
    <3>1. call'[d] = call[d] /\ restarts' = restarts
      BY <2>2 DEF Alone
    <3>2. IsView(call[d], events, observed, restarts)
      BY <1>1 DEF ViewInv
    <3>3. IsView(call[d], events', observed', restarts)
      BY <3>2, ViewStays
    <3> QED BY <3>1, <3>3
  <2> QED BY <2>1, <2>2
<1>2. callers' \subseteq Calls /\ restarts' \in Nat
  BY DEF ViewInv
<1> QED BY <1>1, <1>2, ViewInvNow

LEMMA SelfReportIsVerdict ==
    ASSUME NEW c PROVE AreVerdicts(<<SelfReport(c)>>)
<1> DEFINE v == <<SelfReport(c)>>
<1>1. Len(v) = 1 /\ DOMAIN v = 1..1 /\ v[1] = SelfReport(c)
  OBVIOUS
<1>2. SelfReport(c).level = "introduced"
  BY DEF SelfReport
<1>3. "introduced" \in {Levels[k] : k \in 1..4}
  BY LevelsAreRanked DEF LevelNames
<1> HIDE DEF v
<1>4. AreVerdicts(v)
  BY <1>1, <1>2, <1>3 DEF AreVerdicts
<1> QED BY <1>4 DEF v

LEMMA OneMoreIsEvidence ==
    ASSUME NEW evidence, IsEvidence(evidence), NEW e, e.seq \in Nat, AreVerdicts(e.verdicts)
    PROVE  IsEvidence(evidence \cup {e})
  BY FS_AddElement DEF IsEvidence

LEMMA CommitReportKeepsViews ==
    ASSUME ProductInv, ViewInv, NEW c \in Calls, CommitReport(c)
    PROVE  ViewInv'
<1> DEFINE e == [seq |-> call[c].number, by |-> c, task |-> TaskCalled[c],
                 kind |-> "learning", verdicts |-> <<SelfReport(c)>>]
<1>1. CallKind[c] = "submit" /\ CallShape /\ call[c].number \in Nat
  BY DEF CommitReport, Is, ProductInv, CallShape
<1>2. Alone(c) /\ events' = events \cup {e} /\ UNCHANGED <<logVars, callers>>
  BY <1>1, GoIsAlone DEF CommitReport
<1>3. e.seq \in Nat /\ e.verdicts = <<SelfReport(c)>>
  BY <1>1
<1> HIDE DEF e
<1>4. IsEvidence(events')
  BY <1>2, <1>3, SelfReportIsVerdict, OneMoreIsEvidence DEF ViewInv
<1>5. UNCHANGED <<observed, lastSeq, restarts>>
  BY <1>2 DEF logVars
<1>6. IsEvidence(observed') /\ lastSeq' \in Nat
  BY <1>5 DEF ViewInv
<1> QED BY <1>1, <1>2, <1>4, <1>5, <1>6, OthersKeepViews

LEMMA CountEventKeepsViews ==
    ASSUME ProductInv, ViewInv, NEW c \in Calls, CountEvent(c)
    PROVE  ViewInv'
<1>1. CallKind[c] = "observe" /\ CallShape
  BY DEF CountEvent, Is, ProductInv
<1>2. Alone(c) /\ lastSeq' = lastSeq + 1 /\ UNCHANGED <<callers, restarts, events, observed>>
  BY <1>1, GoIsAlone DEF CountEvent
<1>3. lastSeq' \in Nat /\ IsEvidence(events') /\ IsEvidence(observed')
  BY <1>2 DEF ViewInv
<1> QED BY <1>1, <1>2, <1>3, OthersKeepViews

LEMMA RecordObservationKeepsViews ==
    ASSUME ProductInv, ViewInv, NEW c \in Calls, RecordObservation(c)
    PROVE  ViewInv'
<1> DEFINE e == [seq |-> lastSeq, by |-> c, task |-> Observed[c].task,
                 kind |-> Observed[c].kind, verdicts |-> Observed[c].verdicts]
<1>1. CallKind[c] = "observe" /\ CallShape
  BY DEF RecordObservation, Is, ProductInv
<1>2. /\ Alone(c) /\ observed' = observed \cup {e}
      /\ UNCHANGED <<callers, restarts, events, lastSeq>>
  BY <1>1, GoIsAlone DEF RecordObservation
<1>3. e.seq \in Nat /\ AreVerdicts(e.verdicts)
  BY <1>1, EvidenceIsWellFormed DEF ViewInv
<1> HIDE DEF e
<1>4. IsEvidence(observed')
  BY <1>2, <1>3, OneMoreIsEvidence DEF ViewInv
<1>5. IsEvidence(events') /\ lastSeq' \in Nat
  BY <1>2 DEF ViewInv
<1> QED BY <1>1, <1>2, <1>4, <1>5, OthersKeepViews

\* The step of a view itself.
LEMMA ViewGoesOn ==
    ASSUME ViewInv, NEW c \in Calls, Alone(c),
           UNCHANGED <<callers, restarts, lastSeq, events, observed>>,
           IsView(call'[c], events, observed, restarts)
    PROVE  ViewInv'
<1>1. ASSUME NEW d \in Calls, CallKind[d] = "mastery"
      PROVE  IsView(call'[d], events', observed', restarts')
  <2>1. IsView(call'[d], events, observed, restarts)
    BY <1>1 DEF Alone, ViewInv
  <2> QED BY <2>1
<1>2. /\ callers' \subseteq Calls /\ restarts' \in Nat /\ lastSeq' \in Nat
      /\ IsEvidence(events') /\ IsEvidence(observed')
  BY DEF ViewInv
<1> QED BY <1>1, <1>2, ViewInvNow

LEMMA ReadEvidenceKeepsViews ==
    ASSUME ProductInv, ViewInv, NEW c \in Calls, ReadEvidence(c)
    PROVE  ViewInv'
<1>1. /\ CallShape
      /\ call' = [call EXCEPT ![c].pc = "read", ![c].answer = <<events>>]
      /\ UNCHANGED <<callers, restarts, lastSeq, events, observed>>
  BY DEF ReadEvidence, ProductInv, logVars
<1>2. Alone(c) /\ call'[c].pc = "read"
  BY <1>1, AnswerIsAlone
<1>3. call'[c].answer = <<events>>
  BY <1>1 DEF CallShape
<1>4. IsView(call'[c], events, observed, restarts)
  BY <1>2, <1>3 DEF IsView
<1> QED BY <1>1, <1>2, <1>4, ViewGoesOn

LEMMA ReadMasteryKeepsViews ==
    ASSUME ProductInv, ViewInv, NEW c \in Calls, ReadMastery(c)
    PROVE  ViewInv'
<1> DEFINE kept == call[c].answer[1]
           answer == <<kept, observed, restarts, Projection(kept \cup observed)>>
<1>1. /\ CallShape /\ CallKind[c] = "mastery" /\ call[c].pc = "read"
      /\ call' = [call EXCEPT ![c].pc = "done", ![c].answer = answer]
      /\ UNCHANGED <<callers, restarts, lastSeq, events, observed>>
  BY DEF ReadMastery, ProductInv, logVars, Is
<1>2. kept \subseteq events
  BY <1>1 DEF ViewInv, IsView
<1>3. /\ answer[1] = kept /\ answer[2] = observed /\ answer[3] = restarts
      /\ answer[4] = Projection(kept \cup observed)
  OBVIOUS
<1> HIDE DEF answer
<1>4. Alone(c) /\ call'[c].pc = "done"
  BY <1>1, AnswerIsAlone
<1>5. call'[c].answer = answer
  BY <1>1 DEF CallShape
<1> HIDE DEF kept
<1>6. IsAnswer(answer, events, observed, restarts)
  BY <1>2, <1>3 DEF IsAnswer, ViewInv
<1>7. IsView(call'[c], events, observed, restarts)
  BY <1>4, <1>5, <1>6 DEF IsView
<1> QED BY <1>1, <1>4, <1>7, ViewGoesOn

\* A restart empties the log: what a view read of it no longer counts.
LEMMA RestartKeepsViews ==
    ASSUME ProductInv, ViewInv, Restart
    PROVE  ViewInv'
<1>1. /\ UNCHANGED <<callers, events>> /\ restarts' = restarts + 1
      /\ observed' = {} /\ lastSeq' = 0
      /\ call' = [c \in Calls |->
                    IF call[c].pc \in {"new", "done", "refused", "conflict"} THEN call[c]
                    ELSE [call[c] EXCEPT !.pc = "error"]]
  BY DEF Restart
<1>2. restarts \in Nat /\ callers \subseteq Calls /\ IsEvidence(events)
  BY DEF ViewInv
<1>3. ASSUME NEW c \in Calls, CallKind[c] = "mastery"
      PROVE  IsView(call'[c], events, {}, restarts + 1)
  <2>1. CASE call[c].pc \in {"new", "done", "refused", "conflict"}
    <3>1. call'[c] = call[c] /\ call[c].pc # "read"
      BY <1>1, <2>1
    <3>2. IsView(call[c], events, observed, restarts)
      BY <1>3 DEF ViewInv
    <3>3. call[c].pc = "done" => IsAnswer(call[c].answer, events, {}, restarts + 1)
      BY <1>2, <3>2 DEF IsView, IsAnswer
    <3> QED BY <3>1, <3>3 DEF IsView
  <2>2. CASE call[c].pc \notin {"new", "done", "refused", "conflict"}
    <3>1. call'[c].pc = "error"
      BY <1>1, <2>2 DEF ProductInv, CallShape
    <3> QED BY <3>1 DEF IsView
  <2> QED BY <2>1, <2>2
<1>4. IsEvidence({})
  BY FS_EmptySet DEF IsEvidence
<1> QED BY <1>1, <1>2, <1>3, <1>4, ViewInvNow

\* The other calls read and write no evidence.
LEMMA OtherCallsKeepViews ==
    ASSUME ProductInv, ViewInv, NEW c \in Calls,
           \/ Diagnose(c) \/ ReadDiagnosis(c) \/ ReadVersion(c)
           \/ InsertPlan(c) \/ PlanConflict(c) \/ CommitPlan(c)
           \/ Move(c) \/ MoveMissed(c) \/ Reread(c) \/ MoveIllegal(c)
           \/ BeginReport(c) \/ RefuseReport(c) \/ InsertEvidence(c)
           \/ TakeNumber(c) \/ CommitMessage(c)
           \/ Fail(c)
    PROVE  ViewInv'
<1>1. CallShape /\ Planned /\ nextSeq \in Nat /\ lastMessage \in Nat
  BY DEF ProductInv, Reported, Numbered
<1>2. UNCHANGED <<callers, events, logVars>>
  BY DEF Diagnose, ReadDiagnosis, ReadVersion, InsertPlan, PlanConflict, CommitPlan, Move,
         MoveMissed, Reread, MoveIllegal, BeginReport, RefuseReport, InsertEvidence,
         TakeNumber, CommitMessage, Fail
<1>3. Alone(c) /\ (CallKind[c] # "mastery" \/ call'[c].pc \notin {"read", "done"})
  <2>1. ASSUME NEW pc, Go(c, pc), CallKind[c] # "mastery" \/ pc \notin {"read", "done"}
        PROVE  Alone(c) /\ (CallKind[c] # "mastery" \/ call'[c].pc \notin {"read", "done"})
    BY <1>1, <2>1, GoIsAlone
  <2>2. ASSUME NEW pc, NEW n \in Nat, GoWith(c, pc, n), CallKind[c] # "mastery"
        PROVE  Alone(c) /\ (CallKind[c] # "mastery" \/ call'[c].pc \notin {"read", "done"})
    BY <1>1, <2>2, GoWithIsAlone
  <2>3. CASE Diagnose(c)
    BY <2>1, <2>3 DEF Diagnose, Is
  <2>4. CASE ReadDiagnosis(c)
    <3>1. CASE diagnoses = <<>>
      BY <2>1, <2>4, <3>1 DEF ReadDiagnosis, Is
    <3>2. CASE diagnoses # <<>>
      <4>1. /\ call' = [call EXCEPT ![c].pc = "plan", ![c].answer = <<Last(diagnoses)>>]
            /\ CallKind[c] # "mastery"
        BY <2>4, <3>2 DEF ReadDiagnosis, Is
      <4> QED BY <1>1, <4>1, AnswerIsAlone
    <3> QED BY <3>1, <3>2
  <2>5. CASE ReadVersion(c)
    <3>1. Max(Versions) + 1 \in Nat
      BY <1>1, NextVersion
    <3> QED BY <2>2, <2>5, <3>1 DEF ReadVersion, Is
  <2>6. CASE InsertPlan(c) \/ PlanConflict(c) \/ CommitPlan(c)
    <3>1. CallKind[c] # "mastery"
      BY <2>6, PlanCalls DEF InsertPlan, PlanConflict, CommitPlan
    <3> QED BY <2>1, <2>6, <3>1 DEF InsertPlan, PlanConflict, CommitPlan
  <2>7. CASE Move(c) \/ MoveMissed(c) \/ Reread(c) \/ MoveIllegal(c)
    BY <2>1, <2>7 DEF Move, MoveMissed, Reread, MoveIllegal, Is
  <2>8. CASE BeginReport(c) \/ RefuseReport(c)
    BY <2>1, <2>8 DEF BeginReport, RefuseReport, Is
  <2>9. CASE InsertEvidence(c)
    BY <1>1, <2>2, <2>9 DEF InsertEvidence, Is
  <2>10. CASE TakeNumber(c)
    BY <1>1, <2>2, <2>10 DEF TakeNumber, Is
  <2>11. CASE CommitMessage(c)
    BY <2>1, <2>11 DEF CommitMessage, Is
  <2>12. CASE Fail(c)
    BY <2>1, <2>12 DEF Fail
  <2> QED BY <2>3, <2>4, <2>5, <2>6, <2>7, <2>8, <2>9, <2>10, <2>11, <2>12
<1>4. UNCHANGED <<observed, lastSeq, restarts, callers, events>>
  BY <1>2 DEF logVars
<1>5. IsEvidence(events') /\ IsEvidence(observed') /\ lastSeq' \in Nat
  BY <1>4 DEF ViewInv
<1> QED BY <1>3, <1>4, <1>5, OthersKeepViews

LEMMA ViewInvInit == ProductInit => ViewInv
<1> SUFFICES ASSUME ProductInit PROVE ViewInv
  OBVIOUS
<1>1. /\ callers \subseteq Calls /\ events = {} /\ observed = PriorEvents
      /\ lastSeq = Cardinality(PriorEvents) /\ restarts = 0
      /\ \A c \in Calls : call[c].pc = "new"
  BY CallsAreWellFormed DEF ProductInit
<1>2. lastSeq \in Nat
  BY <1>1, EvidenceIsWellFormed, FS_CardinalityType
<1>3. IsEvidence(events) /\ IsEvidence(observed)
  BY <1>1, EvidenceIsWellFormed, FS_EmptySet DEF IsEvidence
<1>4. \A c \in Calls : IsView(call[c], events, observed, restarts)
  BY <1>1 DEF IsView
<1> QED BY <1>1, <1>2, <1>3, <1>4 DEF ViewInv

LEMMA ViewInvNext == ProductInv /\ ViewInv /\ [ProductNext]_productVars => ViewInv'
<1> SUFFICES ASSUME ProductInv, ViewInv, [ProductNext]_productVars PROVE ViewInv'
  OBVIOUS
<1>1. CASE Restart
  BY <1>1, RestartKeepsViews
<1>2. ASSUME NEW c \in Calls,
             \/ CommitReport(c) \/ CountEvent(c) \/ RecordObservation(c)
             \/ ReadEvidence(c) \/ ReadMastery(c)
      PROVE  ViewInv'
  BY <1>2, CommitReportKeepsViews, CountEventKeepsViews, RecordObservationKeepsViews,
     ReadEvidenceKeepsViews, ReadMasteryKeepsViews
<1>3. ASSUME NEW c \in Calls,
             \/ Diagnose(c) \/ ReadDiagnosis(c) \/ ReadVersion(c)
             \/ InsertPlan(c) \/ PlanConflict(c) \/ CommitPlan(c)
             \/ Move(c) \/ MoveMissed(c) \/ Reread(c) \/ MoveIllegal(c)
             \/ BeginReport(c) \/ RefuseReport(c) \/ InsertEvidence(c)
             \/ TakeNumber(c) \/ CommitMessage(c)
             \/ Fail(c)
      PROVE  ViewInv'
  BY <1>3, OtherCallsKeepViews
<1>4. CASE UNCHANGED productVars
  <2>1. UNCHANGED <<callers, restarts, lastSeq, events, observed, call>>
    BY <1>4 DEF productVars
  <2> QED BY <2>1, ViewInvNow DEF ViewInv
<1> QED BY <1>1, <1>2, <1>3, <1>4 DEF ProductNext

LEMMA ViewsAreEarned ==
    ASSUME ViewInv, NEW m \in callers, Is(m, "mastery", "done"), NEW c \in Components
    PROVE  LET kept == call[m].answer[1]
               found == kept \cup call[m].answer[2]
               told == call[m].answer[4].components
               now == Projection(events \cup observed).components
               table == Projection(kept).components
           IN /\ told[c].count = Cardinality(Counted(found, c))
              /\ told[c].level = "unknown" <=> Shown(found, c) \subseteq {"unknown"}
              /\ told[c].level # "unknown" => told[c].level \in Shown(found, c)
              /\ \A level \in Shown(found, c) : Rank(level) <= Rank(told[c].level)
              /\ Rank(table[c].level) <= Rank(now[c].level)
              /\ call[m].answer[3] = restarts => Rank(told[c].level) <= Rank(now[c].level)
<1> DEFINE kept == call[m].answer[1]
           log == call[m].answer[2]
           found == kept \cup log
           all == events \cup observed
<1>1. /\ m \in Calls /\ IsAnswer(call[m].answer, events, observed, restarts)
      /\ IsEvidence(events) /\ IsEvidence(observed)
  BY DEF ViewInv, IsView, Is
<1>2. /\ kept \subseteq events /\ IsEvidence(log)
      /\ call[m].answer[4] = Projection(found)
      /\ call[m].answer[3] = restarts => log \subseteq observed
  BY <1>1 DEF IsAnswer
<1> HIDE DEF kept, log
<1>3. IsEvidence(kept) /\ IsEvidence(found) /\ IsEvidence(all)
  BY <1>1, <1>2, FS_Subset, FS_Union DEF IsEvidence
<1>4. kept \subseteq all /\ (call[m].answer[3] = restarts => found \subseteq all)
  BY <1>2
<1> HIDE DEF found, all
<1>5. /\ Projection(found).components[c].count = Cardinality(Counted(found, c))
      /\ Projection(found).components[c].level = "unknown" <=> Shown(found, c) \subseteq {"unknown"}
      /\ Projection(found).components[c].level # "unknown"
           => Projection(found).components[c].level \in Shown(found, c)
      /\ \A level \in Shown(found, c) :
           Rank(level) <= Rank(Projection(found).components[c].level)
  BY <1>3, ViewTells, UnknownShowsNothing
<1>6. Rank(Projection(kept).components[c].level) <= Rank(Projection(all).components[c].level)
  BY <1>3, <1>4, MoreIsNoLess
<1>7. call[m].answer[3] = restarts =>
        Rank(Projection(found).components[c].level) <= Rank(Projection(all).components[c].level)
  BY <1>3, <1>4, MoreIsNoLess
<1> QED BY <1>2, <1>5, <1>6, <1>7 DEF found, all, kept, log

\* Every view of mastery ever answered counts the valid evidence it read and shows its
\* highest level, in whatever order events become visible and however they are numbered;
\* later evidence and restarts take back nothing the table shows (evidence.py:221).
THEOREM MasteryIsEarnedForGood == ProductSpec => []MasteryIsEarned
<1>1. ViewInv /\ ReportsAreEvidence => MasteryIsEarned
  BY ViewsAreEarned DEF MasteryIsEarned
<1>2. ProductInv => ReportsAreEvidence
  BY DEF ProductInv, Reported, ReportsAreEvidence
<1> QED BY <1>1, <1>2, ProductInvInit, ProductInvNext, ViewInvInit, ViewInvNext, PTL
        DEF ProductSpec
-----------------------------------------------------------------------------
(* Searching, reading citations back, and the evidence of an answer.        *)

RetrievalSpec == RetrievalInit /\ [][RetrievalNext]_retrievalVars

\* What is true of an answer when it is given, and needs nothing but the answer.
AnswerIsEarned(a) ==
    /\ a.from \subseteq Documents
    /\ a.found \in Seq(Candidates(a))
    /\ Len(a.found) = Min({a.limit, Cardinality(Candidates(a))})
    /\ \A i \in DOMAIN a.found :
          {c \in Candidates(a) : RanksBefore(c, a.found[i], a.query)}
            = {a.found[j] : j \in 1..(i - 1)}

\* What is true of a citation that was read back, whatever is published later.
ReadIsTrue(r) ==
    /\ r.got # NoPiece =>
          /\ Citation(r.got) = [r.asked EXCEPT !.hash = Piece(r.got).text]
          /\ r.asked.hash \in {"", Piece(r.got).text}
    /\ \A c \in PiecesOf(Documents) : r.asked = Citation(c) => r.got = c

Searching ==
    /\ DOMAIN hits = Lookups
    /\ \A l \in Lookups : hits[l] = NoAnswer \/ AnswerIsEarned(hits[l])
    /\ \A l \in Lookups : hits[l].from \subseteq published

CitationsHold ==
    /\ DOMAIN read = Lookups
    /\ \A l \in Lookups : read[l] = NoRead \/ ReadIsTrue(read[l])

Judging ==
    /\ DOMAIN verdict = Lookups
    /\ \A l \in Lookups :
          verdict[l] = NoVerdict \/ \E s \in Signals : verdict[l] = AssessRetrieval(s)

RetrievalInv ==
    /\ lookups \subseteq Lookups /\ published \subseteq Documents
    /\ Searching /\ CitationsHold /\ Judging

\* The lesser of two numbers.
LEMMA MinOfTwo ==
    ASSUME NEW m \in Nat, NEW n \in Nat
    PROVE  Min({m, n}) \in Nat /\ Min({m, n}) \in {m, n} /\ Min({m, n}) <= m /\ Min({m, n}) <= n
<1>1. \E x \in {m, n} : \A y \in {m, n} : x <= y
  <2>1. CASE m <= n
    BY <2>1
  <2>2. CASE n <= m
    BY <2>2
  <2> QED BY <2>1, <2>2
<1> QED BY <1>1 DEF Min

\* The pieces that rank before each piece of a finite set.
LEMMA PiecesHavePlaces ==
    ASSUME NEW S, IsFiniteSet(S), NEW query,
           \A x \in S : ~RanksBefore(x, x, query),
           \A x, y, z \in S :
               RanksBefore(x, y, query) /\ RanksBefore(y, z, query) => RanksBefore(x, z, query),
           \A x, y \in S : x # y => RanksBefore(x, y, query) \/ RanksBefore(y, x, query)
    PROVE  /\ \A x, y \in S : RanksBefore(x, y, query) =>
                  PiecesBefore(x, S, query) < PiecesBefore(y, S, query)
           /\ \A x, y \in S : PiecesBefore(x, S, query) = PiecesBefore(y, S, query) => x = y
           /\ \A x \in S : PiecesBefore(x, S, query) \in 0..(Cardinality(S) - 1)
           /\ \A k \in 0..(Cardinality(S) - 1) : \E x \in S : PiecesBefore(x, S, query) = k
<1> DEFINE below == [c \in S |-> {b \in S : RanksBefore(b, c, query)}]
           place == [c \in S |-> PiecesBefore(c, S, query)]
<1>1. \A x, y \in S : x \in below[y] <=> RanksBefore(x, y, query)
  OBVIOUS
<1>2. \A x \in S : place[x] = Cardinality(below[x]) /\ below[x] \subseteq S
  BY DEF PiecesBefore
<1>3. \A x \in S : place[x] = PiecesBefore(x, S, query)
  OBVIOUS
<1> HIDE DEF below, place
<1>4. /\ \A x, y \in S : x \in below[y] => place[x] < place[y]
      /\ \A x, y \in S : place[x] = place[y] => x = y
      /\ \A x \in S : place[x] \in 0..(Cardinality(S) - 1)
      /\ \A k \in 0..(Cardinality(S) - 1) : \E x \in S : place[x] = k
  <2>1. \A x \in S : below[x] \subseteq S /\ x \notin below[x]
    BY <1>1, <1>2
  <2>2. \A x, y, z \in S : x \in below[y] /\ y \in below[z] => x \in below[z]
    BY <1>1
  <2>3. \A x, y \in S : x # y => x \in below[y] \/ y \in below[x]
    BY <1>1
  <2> QED BY <1>2, <2>1, <2>2, <2>3, OrderHasPlaces
<1> QED BY <1>1, <1>3, <1>4

\* When each piece of a list stands as far down as pieces rank before it, those before
\* it in the list are the ones that rank before it.
LEMMA PlacesDecide ==
    ASSUME NEW S, NEW query, Cardinality(S) \in Nat,
           \A x, y \in S : x # y => RanksBefore(x, y, query) \/ RanksBefore(y, x, query),
           \A x, y \in S : RanksBefore(x, y, query) =>
               PiecesBefore(x, S, query) < PiecesBefore(y, S, query),
           \A x, y \in S : PiecesBefore(x, S, query) = PiecesBefore(y, S, query) => x = y,
           \A x \in S : PiecesBefore(x, S, query) \in 0..(Cardinality(S) - 1),
           NEW m \in Nat, m <= Cardinality(S), NEW found,
           \A k \in 1..m : found[k] \in S /\ PiecesBefore(found[k], S, query) = k - 1
    PROVE  \A i \in 1..m : \A c \in S :
             RanksBefore(c, found[i], query) <=> \E j \in 1..(i - 1) : c = found[j]
<1> SUFFICES ASSUME NEW i \in 1..m
             PROVE  \A c \in S :
                      RanksBefore(c, found[i], query) <=> \E j \in 1..(i - 1) : c = found[j]
  OBVIOUS
<1>1. i \in Nat /\ i <= m /\ found[i] \in S /\ PiecesBefore(found[i], S, query) = i - 1
  OBVIOUS
<1>2. ASSUME NEW c \in S, RanksBefore(c, found[i], query)
      PROVE  \E j \in 1..(i - 1) : c = found[j]
  <2>1. PiecesBefore(c, S, query) < i - 1 /\ PiecesBefore(c, S, query) \in 0..(Cardinality(S) - 1)
    BY <1>1, <1>2
  <2> DEFINE k == PiecesBefore(c, S, query) + 1
  <2>2. k \in 1..(i - 1) /\ k \in 1..m /\ k - 1 = PiecesBefore(c, S, query)
    BY <1>1, <2>1
  <2> HIDE DEF k
  <2>3. PiecesBefore(found[k], S, query) = PiecesBefore(c, S, query) /\ found[k] \in S
    BY <2>2
  <2>4. c = found[k]
    BY <2>3
  <2> QED BY <2>2, <2>4
<1>3. ASSUME NEW j \in 1..(i - 1)
      PROVE  found[j] \in S /\ RanksBefore(found[j], found[i], query)
  <2>1. j \in 1..m /\ j < i
    BY <1>1
  <2>2. found[j] \in S /\ PiecesBefore(found[j], S, query) = j - 1
    BY <2>1
  <2>3. j - 1 # i - 1 /\ ~(i - 1 < j - 1)
    BY <1>1, <2>1
  <2>4. found[i] # found[j] /\ ~RanksBefore(found[i], found[j], query)
    BY <1>1, <2>2, <2>3
  <2> QED BY <1>1, <2>2, <2>4
<1> QED BY <1>2, <1>3

\* What the sort key of a piece is made of.
LEMMA ScoreIsANumber ==
    ASSUME NEW c, NEW query, IsFiniteSet(query.terms)
    PROVE  Score(c, query) \in Nat
<1> DEFINE inHeading == query.terms \cap Piece(c).heading
           inBody == (query.terms \ inHeading) \cap Piece(c).body
<1>1. inHeading \subseteq query.terms /\ inBody \subseteq query.terms
  OBVIOUS
<1>2. Cardinality(inHeading) \in Nat /\ Cardinality(inBody) \in Nat
  <2> HIDE DEF inHeading, inBody
  <2> QED BY <1>1, FS_Subset, FS_CardinalityType
<1>3. Score(c, query) =
        (IF query.phrase \in Piece(c).body THEN 100 ELSE 0)
          + 10 * Cardinality(inHeading) + 3 * Cardinality(inBody)
          + (IF query.terms # {} /\ inHeading \cup inBody = query.terms THEN 15 ELSE 0)
  BY DEF Score
<1> HIDE DEF inHeading, inBody
<1> QED BY <1>2, <1>3

\* The pieces of some documents are finitely many.
LEMMA PiecesAreFinite ==
    ASSUME NEW D \in SUBSET Documents
    PROVE  /\ IsFiniteSet(PiecesOf(D))
           /\ \A c \in PiecesOf(D) : 
                /\ c = [document |-> c.document, index |-> c.index]
                /\ c.document \in D /\ c.index \in DOMAIN ChunksOf[c.document]
           /\ \A d \in D : \A i \in DOMAIN ChunksOf[d] : [document |-> d, index |-> i] \in PiecesOf(D)
<1> DEFINE Own(d) == {[document |-> d, index |-> i] : i \in DOMAIN ChunksOf[d]}
           owns == {Own(d) : d \in D}
<1>1. ASSUME NEW d \in D PROVE IsFiniteSet(Own(d))
  <2>1. Len(ChunksOf[d]) \in Nat /\ DOMAIN ChunksOf[d] = 1..Len(ChunksOf[d])
    BY PiecesHaveKeys
  <2>2. IsFiniteSet(DOMAIN ChunksOf[d])
    BY <2>1, FS_Interval
  <2>3. [i \in DOMAIN ChunksOf[d] |-> [document |-> d, index |-> i]]
          \in Surjection(DOMAIN ChunksOf[d], Own(d))
    BY DEF Surjection
  <2> QED BY <2>2, <2>3, FS_Surjection
<1>2. IsFiniteSet(owns)
  <2>1. [d \in D |-> Own(d)] \in Surjection(D, owns)
    <3> HIDE DEF Own
    <3> QED BY DEF Surjection
  <2>2. IsFiniteSet(D)
    BY PiecesHaveKeys, FS_Subset
  <2> HIDE DEF Own, owns
  <2> QED BY <2>1, <2>2, FS_Surjection
<1>3. \A T \in owns : IsFiniteSet(T)
  <2> HIDE DEF Own
  <2> QED BY <1>1
<1>4. PiecesOf(D) = UNION owns
  BY DEF PiecesOf
<1>5. IsFiniteSet(PiecesOf(D))
  <2> HIDE DEF owns
  <2> QED BY <1>2, <1>3, <1>4, FS_UNION
<1> HIDE DEF owns
<1> QED BY <1>5 DEF PiecesOf

\* The candidates of an answer are finitely many, of the newest version each, and the
\* sort key decides between any two.
LEMMA CandidatesAreSorted ==
    ASSUME NEW a, a.from \subseteq Documents, IsFiniteSet(a.query.terms)
    PROVE  /\ IsFiniteSet(Candidates(a)) /\ Candidates(a) \subseteq PiecesOf(a.from)
           /\ \A x \in Candidates(a) : ~RanksBefore(x, x, a.query)
           /\ \A x, y, z \in Candidates(a) :
                RanksBefore(x, y, a.query) /\ RanksBefore(y, z, a.query) => RanksBefore(x, z, a.query)
           /\ \A x, y \in Candidates(a) :
                x # y => RanksBefore(x, y, a.query) \/ RanksBefore(y, x, a.query)
<1> DEFINE S == Candidates(a)
<1>1. S \subseteq PiecesOf(a.from)
  BY DEF Candidates
<1>2. IsFiniteSet(S)
  <2> HIDE DEF S
  <2> QED BY <1>1, PiecesAreFinite, FS_Subset
<1>3. ASSUME NEW x \in S
      PROVE  /\ Score(x, a.query) \in Nat /\ Source(x) \in Nat
             /\ x.document \in a.from /\ x.document \in Documents
             /\ x.index \in DOMAIN ChunksOf[x.document] /\ x.index \in Nat
             /\ x = [document |-> x.document, index |-> x.index]
  <2>1. Score(x, a.query) \in Nat
    BY ScoreIsANumber
  <2>2. /\ x.document \in a.from /\ x.index \in DOMAIN ChunksOf[x.document]
        /\ x = [document |-> x.document, index |-> x.index]
    <3> HIDE DEF S
    <3> QED BY <1>1, PiecesAreFinite
  <2>3. x.document \in Documents /\ Source(x) \in Nat /\ x.index \in Nat
    BY <2>2, PiecesHaveKeys DEF Source
  <2> QED BY <2>1, <2>2, <2>3
<1>4. ASSUME NEW x \in S, NEW y \in S, Source(x) = Source(y), x.index = y.index
      PROVE  x = y
  <2>1. /\ ~(VersionOf[y.document] > VersionOf[x.document])
        /\ ~(VersionOf[x.document] > VersionOf[y.document])
    <3>1. ChunksOf[x.document] # <<>> /\ ChunksOf[y.document] # <<>>
      BY <1>3, PiecesHaveKeys
    <3>2. SourceRank[x.document] = Source(y) /\ SourceRank[y.document] = Source(x)
      BY <1>4 DEF Source
    <3> QED BY <1>3, <3>1, <3>2 DEF Candidates
  <2>2. VersionOf[x.document] \in Nat /\ VersionOf[y.document] \in Nat
    BY <1>3, PiecesHaveKeys
  <2>3. VersionOf[x.document] = VersionOf[y.document]
    BY <2>1, <2>2
  <2>4. x.document = y.document
    BY <1>3, <1>4, <2>3, PiecesHaveKeys DEF Source
  <2> QED BY <1>3, <1>4, <2>4
<1> HIDE DEF S
<1>5. ASSUME NEW x \in S PROVE ~RanksBefore(x, x, a.query)
  BY <1>3 DEF RanksBefore
<1>6. ASSUME NEW x \in S, NEW y \in S, NEW z \in S,
             RanksBefore(x, y, a.query), RanksBefore(y, z, a.query)
      PROVE  RanksBefore(x, z, a.query)
  BY <1>3, <1>6 DEF RanksBefore
<1>7. ASSUME NEW x \in S, NEW y \in S, x # y
      PROVE  RanksBefore(x, y, a.query) \/ RanksBefore(y, x, a.query)
  BY <1>3, <1>4, <1>7 DEF RanksBefore
<1>8. /\ IsFiniteSet(S) /\ S \subseteq PiecesOf(a.from)
      /\ \A x \in S : ~RanksBefore(x, x, a.query)
      /\ \A x, y, z \in S :
           RanksBefore(x, y, a.query) /\ RanksBefore(y, z, a.query) => RanksBefore(x, z, a.query)
      /\ \A x, y \in S :
           x # y => RanksBefore(x, y, a.query) \/ RanksBefore(y, x, a.query)
  BY <1>1, <1>2, <1>5, <1>6, <1>7
<1> QED BY <1>8 DEF S

\* What may be searched are the candidates of an answer that is given now.
LEMMA SearchedAreCandidates ==
    ASSUME published \subseteq Documents, NEW query, NEW limit, NEW found,
           NEW a, a = [query |-> query, limit |-> limit, from |-> published, found |-> found]
    PROVE  {c \in Searchable : query.terms # {} /\ Score(c, query) > 0} = Candidates(a)
<1>1. ASSUME NEW c \in PiecesOf(published)
      PROVE  Newest(c) <=> \A d \in published :
               SourceRank[d] = Source(c) /\ VersionOf[d] > VersionOf[c.document] => ChunksOf[d] = <<>>
  <2>1. c.document \in Documents
    BY PiecesAreFinite
  <2>2. VersionOf[c.document] \in Nat /\ \A d \in published : VersionOf[d] \in Nat
    BY <2>1, PiecesHaveKeys
  <2>3. \A d \in published :
          (VersionOf[d] <= VersionOf[c.document]) <=> ~(VersionOf[d] > VersionOf[c.document])
    BY <2>2
  <2> QED BY <2>3 DEF Newest
<1>2. a.query = query /\ a.from = published
  OBVIOUS
<1>3. \A c \in PiecesOf(published) : c.index \in DOMAIN ChunksOf[c.document]
  BY PiecesAreFinite
<1> QED BY <1>1, <1>2, <1>3 DEF Searchable, Stored, Candidates

\* What is found is in its place.
LEMMA FoundIsEarned ==
    ASSUME published \subseteq Documents, NEW query, IsFiniteSet(query.terms), NEW limit \in Nat,
           NEW a, a = [query |-> query, limit |-> limit, from |-> published,
                       found |-> RankChunks(query, limit)]
    PROVE  AnswerIsEarned(a)
<1> DEFINE S == Candidates(a)
           m == Min({limit, Cardinality(S)})
<1>1. a.query = query /\ a.limit = limit /\ a.from = published /\ a.found = RankChunks(query, limit)
  OBVIOUS
<1>2. {c \in Searchable : query.terms # {} /\ Score(c, query) > 0} = S
  BY SearchedAreCandidates
<1>3. a.found = [place \in 1..m |-> CHOOSE c \in S : PiecesBefore(c, S, query) = place - 1]
  <2> DEFINE T == {c \in Searchable : query.terms # {} /\ Score(c, query) > 0}
  <2>1. a.found = [place \in 1..Min({limit, Cardinality(T)}) |->
                     CHOOSE c \in T : PiecesBefore(c, T, query) = place - 1]
    BY <1>1 DEF RankChunks
  <2>2. T = S
    BY <1>2
  <2> HIDE DEF T, S
  <2> QED BY <2>1, <2>2
<1>4. /\ IsFiniteSet(S)
      /\ \A x \in S : ~RanksBefore(x, x, query)
      /\ \A x, y, z \in S :
           RanksBefore(x, y, query) /\ RanksBefore(y, z, query) => RanksBefore(x, z, query)
      /\ \A x, y \in S : x # y => RanksBefore(x, y, query) \/ RanksBefore(y, x, query)
  BY <1>1, CandidatesAreSorted
<1>5. Cardinality(S) \in Nat
  BY <1>4, FS_CardinalityType
<1>6. m \in Nat /\ m <= Cardinality(S)
  BY <1>5, MinOfTwo
<1> HIDE DEF S, m
<1>7. /\ \A x, y \in S : RanksBefore(x, y, query) =>
           PiecesBefore(x, S, query) < PiecesBefore(y, S, query)
      /\ \A x, y \in S : PiecesBefore(x, S, query) = PiecesBefore(y, S, query) => x = y
      /\ \A x \in S : PiecesBefore(x, S, query) \in 0..(Cardinality(S) - 1)
      /\ \A k \in 0..(Cardinality(S) - 1) : \E x \in S : PiecesBefore(x, S, query) = k
  BY <1>4, PiecesHavePlaces
<1>8. ASSUME NEW k \in 1..m
      PROVE  a.found[k] \in S /\ PiecesBefore(a.found[k], S, query) = k - 1
  <2>1. k - 1 \in 0..(Cardinality(S) - 1)
    BY <1>5, <1>6
  <2>2. \E c \in S : PiecesBefore(c, S, query) = k - 1
    BY <1>7, <2>1
  <2>3. a.found[k] = CHOOSE c \in S : PiecesBefore(c, S, query) = k - 1
    BY <1>3
  <2> QED BY <2>2, <2>3
<1>9. DOMAIN a.found = 1..m /\ a.found = [place \in 1..m |-> a.found[place]]
  BY <1>3
<1> DEFINE found == a.found
<1>10. found \in Seq(S) /\ Len(found) = m
  <2> HIDE DEF found
  <2>1. found \in [1..m -> S]
    BY <1>8, <1>9 DEF found
  <2> QED BY <1>6, <2>1
<1>11. \A i \in 1..m :
         {c \in S : RanksBefore(c, found[i], query)} = {found[j] : j \in 1..(i - 1)}
  <2>1. \A k \in 1..m : found[k] \in S /\ PiecesBefore(found[k], S, query) = k - 1
    BY <1>8
  <2> HIDE DEF found
  <2>2. \A i \in 1..m : \A c \in S :
          RanksBefore(c, found[i], query) <=> \E j \in 1..(i - 1) : c = found[j]
    BY <1>4, <1>5, <1>6, <1>7, <2>1, PlacesDecide
  <2>3. \A i \in 1..m : \A j \in 1..(i - 1) : found[j] \in S
    BY <1>6, <2>1
  <2> QED BY <2>2, <2>3
<1> QED BY <1>1, <1>9, <1>10, <1>11 DEF AnswerIsEarned, S, m

\* The verdict of any signals: a state is found, supported when nothing is missing, and
\* partly supported only with a claim that is known to be asked for and stands.
LEMMA AssessmentIsHonest ==
    ASSUME NEW s \in Signals
    PROVE  LET v == AssessRetrieval(s)
           IN /\ v.state # "raised"
              /\ v.state = "supported" <=>
                   /\ s.required # {} /\ s.required \subseteq s.covered
                   /\ s.faults = {} /\ s.candidates > 0 /\ ~s.below
              /\ v.state = "partially_supported" => s.required # {} /\ v.covered # {}
              /\ v.signals = {s}
<1> DEFINE v == AssessRetrieval(s)
           claims == EffectiveClaims(s)
           issues == IssuesOf(s)
           state == DerivedState(issues, claims)
<1>1. /\ s.candidates \in 0..1 /\ s.below \in BOOLEAN
      /\ s.faults \subseteq {"steps", "fetch", "scope", "unknown"}
      /\ s.candidates = 0 => ~s.below
  BY DEF Signals
<1>2. issues = {} <=>
        /\ s.required # {} /\ s.required \subseteq s.covered
        /\ s.faults = {} /\ s.candidates > 0 /\ ~s.below
  <2>1. issues = {} <=> /\ "scope" \notin s.faults /\ "unknown" \notin s.faults
                        /\ "fetch" \notin s.faults /\ s.candidates # 0
                        /\ ~(s.candidates > 0 /\ s.below) /\ ~Gap(s)
    BY DEF IssuesOf
  <2>2. s.faults = {} <=> /\ "scope" \notin s.faults /\ "unknown" \notin s.faults
                          /\ "fetch" \notin s.faults /\ "steps" \notin s.faults
    BY <1>1
  <2>3. s.candidates # 0 <=> s.candidates > 0
    BY <1>1
  <2> QED BY <2>1, <2>2, <2>3 DEF Gap
<1>3. s.required = {} => "MISSING_SUPPORT" \in issues
  BY DEF IssuesOf, Gap
<1>4. claims = IF s.required = {} THEN {} ELSE s.covered
  BY DEF EffectiveClaims
<1>5. v.state = (IF Contradicts(state, issues, s.required, claims) THEN "raised" ELSE state)
      /\ v.covered = claims /\ v.signals = {s}
  BY DEF AssessRetrieval
<1> HIDE DEF v, claims, issues
<1>6. /\ state = "supported" <=> issues = {}
      /\ state = "partially_supported" <=> issues # {} /\ claims # {}
      /\ state = "insufficient" <=> issues # {} /\ claims = {}
      /\ state \in {"supported", "partially_supported", "insufficient"}
  BY DEF DerivedState
<1> HIDE DEF state
<1>7. ~Contradicts(state, issues, s.required, claims)
  BY <1>2, <1>3, <1>4, <1>6 DEF Contradicts
<1>8. /\ v.state # "raised"
      /\ v.state = "supported" <=>
           /\ s.required # {} /\ s.required \subseteq s.covered
           /\ s.faults = {} /\ s.candidates > 0 /\ ~s.below
      /\ v.state = "partially_supported" => s.required # {} /\ v.covered # {}
      /\ v.signals = {s}
  BY <1>2, <1>4, <1>5, <1>6, <1>7
<1> QED BY <1>8 DEF v

LEMMA RetrievalInvInit == RetrievalInit => RetrievalInv
<1> SUFFICES ASSUME RetrievalInit PROVE RetrievalInv
  OBVIOUS
<1>1. lookups \subseteq Lookups /\ published \subseteq Documents
  BY LookupsAreWellFormed DEF RetrievalInit
<1>2. Searching
  <2>1. NoAnswer.from = {}
    BY DEF NoAnswer
  <2> QED BY <2>1 DEF Searching, RetrievalInit
<1>3. CitationsHold /\ Judging
  BY DEF CitationsHold, Judging, RetrievalInit
<1> QED BY <1>1, <1>2, <1>3 DEF RetrievalInv

\* What is asked for was cited, so all pieces of its document are stored.
LEMMA CitedArePublished ==
    ASSUME RetrievalInv, NEW c \in CitedPieces
    PROVE  c \in PiecesOf(published)
<1>1. PICK l \in lookups : c \in Range(hits[l].found)
  BY DEF CitedPieces
<1>2. PICK i \in DOMAIN hits[l].found : c = hits[l].found[i]
  BY <1>1 DEF Range
<1>3. hits[l] # NoAnswer
  <2> SUFFICES ASSUME hits[l] = NoAnswer PROVE FALSE
    OBVIOUS
  <2>1. NoAnswer.found = <<>>
    BY DEF NoAnswer
  <2> QED BY <1>2, <2>1
<1>4. AnswerIsEarned(hits[l]) /\ hits[l].from \subseteq published
  BY <1>3 DEF RetrievalInv, Searching
<1>5. c \in Candidates(hits[l])
  BY <1>2, <1>4 DEF AnswerIsEarned
<1> QED BY <1>4, <1>5 DEF Candidates, PiecesOf

\* A citation that is read gives what it names.
LEMMA ReadGivesTheCited ==
    ASSUME RetrievalInv, NEW asked \in Askable
    PROVE  ReadIsTrue([asked |-> asked, got |-> ReadSpan(asked)])
<1> DEFINE there == {c \in Stored : /\ c.document = asked.document
                                    /\ Piece(c).from = asked.from /\ Piece(c).to = asked.to
                                    /\ Source(c) = asked.source
                                    /\ asked.hash \in {"", Piece(c).text}}
           got == ReadSpan(asked)
<1>1. PICK c \in CitedPieces, b \in CitedPieces, h \in Hashes :
        asked = [source |-> Source(b), document |-> c.document, from |-> Piece(c).from,
                 to |-> Piece(c).to, hash |-> h]
  BY DEF Askable
<1>2. c \in PiecesOf(published) /\ published \subseteq Documents
  BY CitedArePublished DEF RetrievalInv
<1>3. got = IF there = {} THEN NoPiece ELSE CHOOSE x \in there : TRUE
  BY DEF ReadSpan
<1>4. there # {} => got \in there
  BY <1>3
<1>5. ASSUME got # NoPiece
      PROVE  /\ Citation(got) = [asked EXCEPT !.hash = Piece(got).text]
             /\ asked.hash \in {"", Piece(got).text}
  <2>1. got \in there
    BY <1>3, <1>4, <1>5
  <2>2. /\ got.document = asked.document /\ Source(got) = asked.source
        /\ Piece(got).from = asked.from /\ Piece(got).to = asked.to
        /\ asked.hash \in {"", Piece(got).text}
    BY <2>1
  <2> HIDE DEF got, there
  <2>3. Citation(got) = [source |-> Source(b), document |-> c.document, from |-> Piece(c).from,
                         to |-> Piece(c).to, hash |-> Piece(got).text]
    BY <1>1, <2>2 DEF Citation
  <2>4. [asked EXCEPT !.hash = Piece(got).text]
          = [source |-> Source(b), document |-> c.document, from |-> Piece(c).from,
             to |-> Piece(c).to, hash |-> Piece(got).text]
    BY <1>1
  <2> QED BY <2>2, <2>3, <2>4
<1>6. ASSUME NEW x \in PiecesOf(Documents), asked = Citation(x)
      PROVE  got = x
  <2>1. /\ asked.document = x.document /\ asked.source = Source(x) /\ asked.hash = Piece(x).text
        /\ asked.from = Piece(x).from /\ asked.to = Piece(x).to
    BY <1>6 DEF Citation
  <2>2. asked.document = c.document
    BY <1>1
  <2>3. /\ c.document \in published
        /\ x = [document |-> x.document, index |-> x.index]
        /\ x.document \in Documents /\ x.index \in DOMAIN ChunksOf[x.document]
    BY <1>2, PiecesAreFinite
  <2>4. x \in Stored
    BY <1>2, <2>1, <2>2, <2>3, PiecesAreFinite DEF Stored
  <2>5. x \in there
    BY <2>1, <2>4
  <2>6. got \in there
    BY <1>4, <2>5
  <2>7. /\ got \in PiecesOf(published) /\ got.document = x.document
        /\ Piece(got).from = Piece(x).from /\ Piece(got).to = Piece(x).to
    BY <2>1, <2>6 DEF Stored
  <2> HIDE DEF got, there
  <2>8. /\ got = [document |-> got.document, index |-> got.index]
        /\ got.index \in DOMAIN ChunksOf[got.document]
    BY <1>2, <2>7, PiecesAreFinite
  <2>9. got.index = x.index
    BY <2>3, <2>7, <2>8, PiecesHaveKeys DEF Piece
  <2> QED BY <2>3, <2>7, <2>8, <2>9
<1> DEFINE r == [asked |-> asked, got |-> got]
<1>7. r.asked = asked /\ r.got = got
  OBVIOUS
<1> HIDE DEF r, got
<1>8. ReadIsTrue(r)
  BY <1>5, <1>6, <1>7 DEF ReadIsTrue
<1> QED BY <1>8 DEF r, got

LEMMA RetrievalInvNext == RetrievalInv /\ [RetrievalNext]_retrievalVars => RetrievalInv'
<1> SUFFICES ASSUME RetrievalInv, [RetrievalNext]_retrievalVars
             PROVE  RetrievalInv'
  OBVIOUS
<1> USE DEF RetrievalInv
<1>1. ASSUME NEW d \in Documents, PublishVersion(d)
      PROVE  RetrievalInv'
  <2>1. Searching'
    BY <1>1 DEF Searching, PublishVersion
  <2>2. CitationsHold' /\ Judging'
    BY <1>1 DEF CitationsHold, Judging, PublishVersion
  <2> QED BY <1>1, <2>1, <2>2 DEF PublishVersion
<1>2. ASSUME NEW l \in lookups, SearchKnowledge(l)
      PROVE  RetrievalInv'
  <2> DEFINE found == RankChunks(QueryOf[l], LimitOf[l])
             a == [query |-> QueryOf[l], limit |-> LimitOf[l], from |-> published, found |-> found]
  <2>1. /\ hits' = [hits EXCEPT ![l] = a]
        /\ verdict' = [verdict EXCEPT ![l] = AssessRetrieval(SearchSignals(found))]
        /\ lookups' = lookups /\ published' = published /\ read' = read
        /\ LookupKind[l] = "search" /\ l \in Lookups
    BY <1>2 DEF SearchKnowledge, Waits
  <2>2. AnswerIsEarned(a)
    <3>1. LimitOf[l] \in Nat /\ IsFiniteSet(QueryOf[l].terms)
      BY <2>1, LookupsAreWellFormed
    <3> QED BY <3>1, FoundIsEarned
  <2>3. SearchSignals(found) \in Signals
    BY DEF SearchSignals, Signals
  <2>4. a.from = published
    OBVIOUS
  <2> HIDE DEF a, found
  <2>5. Searching'
    <3>1. DOMAIN hits' = Lookups
      BY <2>1 DEF Searching
    <3>2. ASSUME NEW m \in Lookups
          PROVE  (hits'[m] = NoAnswer \/ AnswerIsEarned(hits'[m])) /\ hits'[m].from \subseteq published'
      <4>1. CASE m = l
        BY <2>1, <2>2, <2>4, <4>1 DEF Searching
      <4>2. CASE m # l
        BY <2>1, <4>2 DEF Searching
      <4> QED BY <4>1, <4>2
    <3> QED BY <3>1, <3>2 DEF Searching
  <2>6. CitationsHold'
    BY <2>1 DEF CitationsHold
  <2>7. Judging'
    BY <2>1, <2>3 DEF Judging
  <2> QED BY <2>1, <2>5, <2>6, <2>7
<1>3. ASSUME NEW l \in lookups, Judge(l)
      PROVE  RetrievalInv'
  <2>1. Judging'
    BY <1>3 DEF Judging, Judge
  <2>2. Searching' /\ CitationsHold'
    BY <1>3 DEF Searching, CitationsHold, Judge
  <2> QED BY <1>3, <2>1, <2>2 DEF Judge
<1>4. ASSUME NEW l \in lookups, ReadSourceSpan(l)
      PROVE  RetrievalInv'
  <2>1. PICK asked \in Askable : read' = [read EXCEPT ![l] = [asked |-> asked, got |-> ReadSpan(asked)]]
    BY <1>4 DEF ReadSourceSpan
  <2>2. ReadIsTrue([asked |-> asked, got |-> ReadSpan(asked)])
    BY ReadGivesTheCited
  <2>3. CitationsHold'
    <3>1. DOMAIN read' = Lookups
      BY <2>1 DEF CitationsHold
    <3>2. ASSUME NEW m \in Lookups
          PROVE  read'[m] = NoRead \/ ReadIsTrue(read'[m])
      <4>1. CASE m = l
        BY <2>1, <2>2, <4>1 DEF CitationsHold
      <4>2. CASE m # l
        BY <2>1, <4>2 DEF CitationsHold
      <4> QED BY <4>1, <4>2
    <3> QED BY <3>1, <3>2 DEF CitationsHold
  <2>4. Searching' /\ Judging'
    BY <1>4 DEF Searching, Judging, ReadSourceSpan
  <2> QED BY <1>4, <2>3, <2>4 DEF ReadSourceSpan
<1>5. CASE UNCHANGED retrievalVars
  BY <1>5 DEF retrievalVars, Searching, CitationsHold, Judging
<1> QED BY <1>1, <1>2, <1>3, <1>4, <1>5 DEF RetrievalNext

\* What the records say of the answers.
LEMMA RecordsStayTrue == RetrievalInv => AnswersStayTrue
<1> SUFFICES ASSUME RetrievalInv PROVE AnswersStayTrue
  OBVIOUS
<1>1. ASSUME NEW l \in Searched
      PROVE  l \in Lookups /\ AnswerIsEarned(hits[l])
  <2>1. l \in Lookups /\ hits[l].limit > 0
    BY DEF Searched, RetrievalInv
  <2>2. NoAnswer.limit = 0
    BY DEF NoAnswer
  <2>3. hits[l] # NoAnswer
    BY <2>1, <2>2
  <2> QED BY <2>1, <2>3 DEF RetrievalInv, Searching
<1>2. ASSUME NEW l \in Searched, NEW c \in Range(hits[l].found)
      PROVE  /\ c \in Candidates(hits[l]) /\ hits[l].from \subseteq Documents
             /\ c \in PiecesOf(Documents)
             /\ c.document \in hits[l].from /\ c.index \in DOMAIN ChunksOf[c.document]
  <2>1. PICK i \in DOMAIN hits[l].found : c = hits[l].found[i]
    BY DEF Range
  <2>2. c \in Candidates(hits[l]) /\ hits[l].from \subseteq Documents
    <3>1. AnswerIsEarned(hits[l])
      BY <1>1
    <3>2. /\ hits[l].found \in Seq(Candidates(hits[l]))
          /\ hits[l].from \subseteq Documents
      BY <3>1 DEF AnswerIsEarned
    <3> QED BY <2>1, <3>2
  <2>3. c \in PiecesOf(hits[l].from)
    BY <2>2 DEF Candidates
  <2>4. c \in PiecesOf(Documents)
    BY <2>2, <2>3 DEF PiecesOf
  <2> QED BY <2>2, <2>3, <2>4, PiecesAreFinite
<1>3. NeverGoesBack
  <2> SUFFICES ASSUME NEW l \in Searched, NEW m \in Searched, hits[l].from \subseteq hits[m].from,
                      NEW c \in Range(hits[l].found), NEW d \in Range(hits[m].found),
                      Source(c) = Source(d)
               PROVE  VersionOf[c.document] <= VersionOf[d.document]
    BY DEF NeverGoesBack
  <2>1. c.document \in hits[m].from /\ c.document \in Documents /\ d.document \in Documents
    BY <1>2
  <2>2. ChunksOf[c.document] # <<>>
    BY <1>2, <2>1, PiecesHaveKeys
  <2>3. ~(VersionOf[c.document] > VersionOf[d.document])
    BY <1>2, <2>1, <2>2 DEF Candidates, Source
  <2> QED BY <2>1, <2>3, PiecesHaveKeys
<1>4. PlacesAreEarned
  <2> SUFFICES ASSUME NEW l \in Searched
               PROVE  /\ Len(hits[l].found) = Min({hits[l].limit, Cardinality(Candidates(hits[l]))})
                      /\ \A i \in DOMAIN hits[l].found :
                           {c \in Candidates(hits[l]) : RanksBefore(c, hits[l].found[i], hits[l].query)}
                             = {hits[l].found[j] : j \in 1..(i - 1)}
    BY DEF PlacesAreEarned
  <2> QED BY <1>1 DEF AnswerIsEarned
<1>5. CitationsReadBack
  <2> SUFFICES ASSUME NEW l \in lookups, read[l] # NoRead
               PROVE  /\ read[l].got # NoPiece =>
                           /\ Citation(read[l].got) = [read[l].asked EXCEPT !.hash = Piece(read[l].got).text]
                           /\ read[l].asked.hash \in {"", Piece(read[l].got).text}
                      /\ \A m \in Searched : \A c \in Range(hits[m].found) :
                           read[l].asked = Citation(c) => read[l].got = c
    BY DEF CitationsReadBack
  <2>1. ReadIsTrue(read[l])
    BY DEF RetrievalInv, CitationsHold
  <2> QED BY <1>2, <2>1 DEF ReadIsTrue
<1>6. EvidenceIsNotOverstated
  <2> SUFFICES ASSUME NEW l \in lookups, NEW s \in verdict[l].signals
               PROVE  /\ verdict[l].state # "raised"
                      /\ verdict[l].state = "supported" <=>
                           /\ s.required # {} /\ s.required \subseteq s.covered
                           /\ s.faults = {} /\ s.candidates > 0 /\ ~s.below
                      /\ verdict[l].state = "partially_supported" =>
                           s.required # {} /\ verdict[l].covered # {}
    BY DEF EvidenceIsNotOverstated
  <2>1. NoVerdict.signals = {}
    BY DEF NoVerdict
  <2>2. PICK t \in Signals : verdict[l] = AssessRetrieval(t)
    BY <2>1 DEF RetrievalInv, Judging
  <2>3. s = t
    BY <2>2, AssessmentIsHonest
  <2> QED BY <2>2, <2>3, AssessmentIsHonest
<1> QED BY <1>3, <1>4, <1>5, <1>6 DEF AnswersStayTrue

\* What a search answers stays true: the newest version there was, every piece in its
\* place, a citation that is read later gives what was cited, and no evidence overstated.
THEOREM AnswersAreTrueForGood == RetrievalSpec => []AnswersStayTrue
<1> QED BY RetrievalInvInit, RetrievalInvNext, RecordsStayTrue, PTL DEF RetrievalSpec

\* What is read back is a piece that is stored.
ReadStored ==
    /\ lookups \in LookupLoads
    /\ \A l \in Lookups : read[l].got = NoPiece \/ read[l].got.document \in Documents

LEMMA SpanIsStored ==
    ASSUME published \subseteq Documents, NEW asked, NEW c, c = ReadSpan(asked)
    PROVE  c = NoPiece \/ c.document \in Documents
<1> DEFINE there == {p \in Stored : /\ p.document = asked.document
                                    /\ Piece(p).from = asked.from /\ Piece(p).to = asked.to
                                    /\ Source(p) = asked.source
                                    /\ asked.hash \in {"", Piece(p).text}}
<1>1. there # {} => c \in there
  BY DEF ReadSpan
<1>2. \A p \in Stored : p.document \in Documents
  BY DEF Stored, PiecesOf
<1>3. there = {} => c = NoPiece
  BY DEF ReadSpan
<1> QED BY <1>1, <1>2, <1>3

LEMMA ReadStoredNext ==
    RetrievalInv /\ ReadStored /\ [RetrievalNext]_retrievalVars => RetrievalInv' /\ ReadStored'
<1> SUFFICES ASSUME RetrievalInv, ReadStored, [RetrievalNext]_retrievalVars PROVE ReadStored'
  BY RetrievalInvNext
<1>1. CASE UNCHANGED <<lookups, read>>
  BY <1>1 DEF ReadStored
<1>2. ASSUME NEW l \in lookups, ReadSourceSpan(l) PROVE ReadStored'
  <2>1. PICK asked \in Askable : read' = [read EXCEPT ![l] = [asked |-> asked, got |-> ReadSpan(asked)]]
    BY <1>2 DEF ReadSourceSpan
  <2>2. ReadSpan(asked) = NoPiece \/ ReadSpan(asked).document \in Documents
    BY SpanIsStored DEF RetrievalInv
  <2>3. lookups' = lookups /\ DOMAIN read = Lookups
    BY <1>2 DEF ReadSourceSpan, RetrievalInv, CitationsHold
  <2>4. ASSUME NEW m \in Lookups PROVE read'[m].got = NoPiece \/ read'[m].got.document \in Documents
    <3>1. CASE m = l
      BY <2>1, <2>2, <2>3, <3>1
    <3>2. CASE m # l
      BY <2>1, <2>3, <3>2 DEF ReadStored
    <3> QED BY <3>1, <3>2
  <2> QED BY <2>3, <2>4 DEF ReadStored
<1> QED BY <1>1, <1>2 DEF RetrievalNext, PublishVersion, SearchKnowledge, Judge, retrievalVars

\* Whatever is asked, an answer is judged by one of the four states.
LEMMA StateIsNamed ==
    ASSUME NEW s
    PROVE  AssessRetrieval(s).state \in {"supported", "partially_supported", "insufficient", "raised"}
  BY DEF AssessRetrieval, DerivedState

\* The hits of a search and what a citation reads back are pieces of documents there are.
THEOREM RetrievalTypes == RetrievalSpec => []RetrievalTypeOK
<1>1. RetrievalInit => RetrievalInv /\ ReadStored
  <2>1. RetrievalInit => ReadStored
    BY DEF RetrievalInit, ReadStored, NoRead
  <2> QED BY <2>1, RetrievalInvInit
<1>2. RetrievalInv /\ ReadStored => RetrievalTypeOK
  <2> SUFFICES ASSUME RetrievalInv, ReadStored PROVE RetrievalTypeOK
    OBVIOUS
  <2>1. published \subseteq Documents /\ lookups \subseteq Lookups
    BY DEF RetrievalInv
  <2>2. ASSUME NEW l \in lookups, NEW c \in Range(hits[l].found) PROVE c.document \in Documents
    <3>1. c \in PiecesOf(published)
      BY CitedArePublished DEF CitedPieces
    <3> QED BY <2>1, <3>1 DEF PiecesOf
  <2>3. ASSUME NEW l \in lookups
        PROVE  verdict[l].state \in {"none", "supported", "partially_supported", "insufficient", "raised"}
    <3>1. verdict[l] = NoVerdict \/ \E s \in Signals : verdict[l] = AssessRetrieval(s)
      BY <2>1 DEF RetrievalInv, Judging
    <3> QED BY <3>1, StateIsNamed DEF NoVerdict
  <2> QED BY <2>1, <2>2, <2>3 DEF ReadStored, RetrievalTypeOK
<1> QED BY <1>1, <1>2, ReadStoredNext, PTL DEF RetrievalSpec


-----------------------------------------------------------------------------
(* Cutting a document: what a text says of its lines.                       *)

Line == [start : Nat, end : Nat, is : LineKinds]

IsText(text) ==
    /\ text.media \in {"markdown", "plain"}
    /\ Len(text.lines) \in Nat /\ DOMAIN text.lines = 1..Len(text.lines)
    /\ \A k \in DOMAIN text.lines :
          text.lines[k] \in Line /\ text.lines[k].start <= text.lines[k].end
    /\ \A j, k \in DOMAIN text.lines : j < k => text.lines[j].end < text.lines[k].start

\* The text so far, and with more lines.
GrowsTo(text, grown) ==
    /\ grown.media = text.media
    /\ Len(text.lines) <= Len(grown.lines)
    /\ \A k \in 1..Len(text.lines) : grown.lines[k] = text.lines[k]

OpenAt(fences, lines, k) == IF k = 1 THEN NoFence ELSE FenceAfter(fences[k - 1], lines[k - 1])
IsOpenTo(fences, lines, n) == fences = [k \in 1..(n + 1) |-> OpenAt(fences, lines, k)]

LEMMA OpenIsChosen ==
    ASSUME NEW lines
    PROVE  OpenBefore(lines) = CHOOSE fences : IsOpenTo(fences, lines, Len(lines))
  BY DEF OpenBefore, IsOpenTo, OpenAt

\* The fences exist: extend those before n lines to the next one.
LEMMA FencesExist ==
    ASSUME NEW lines, NEW n \in Nat
    PROVE  \E fences : IsOpenTo(fences, lines, n)
<1> DEFINE bad == {m \in Nat : ~ \E fences : IsOpenTo(fences, lines, m)}
<1>1. ASSUME NEW m \in bad, \A q \in bad : m <= q
      PROVE  FALSE
  <2>1. m \in Nat
    BY DEF bad
  <2>2. CASE m = 0
    <3> DEFINE fences == [k \in 1..(0 + 1) |-> NoFence]
    <3>1. fences = [k \in 1..(0 + 1) |-> OpenAt(fences, lines, k)]
      BY DEF OpenAt
    <3>2. IsOpenTo(fences, lines, m)
      BY <2>2, <3>1 DEF IsOpenTo
    <3> QED BY <3>2
  <2>3. CASE m # 0
    <3>1. m - 1 \in Nat /\ (m - 1) + 1 = m
      BY <2>1, <2>3
    <3>2. m - 1 \notin bad
      <4> HIDE DEF bad
      <4> QED BY <1>1, <2>1, <3>1
    <3>3. PICK g : IsOpenTo(g, lines, m - 1)
      BY <3>1, <3>2
    <3> DEFINE h == [k \in 1..(m + 1) |-> OpenAt(g, lines, k)]
    <3>4. \A k \in 1..m : g[k] = OpenAt(g, lines, k)
      BY <3>1, <3>3 DEF IsOpenTo
    <3>5. \A k \in 1..m : h[k] = g[k]
      BY <2>1, <3>4
    <3>6. \A k \in 1..(m + 1) : OpenAt(h, lines, k) = OpenAt(g, lines, k)
      <4> HIDE DEF h
      <4> SUFFICES ASSUME NEW k \in 1..(m + 1) PROVE OpenAt(h, lines, k) = OpenAt(g, lines, k)
        OBVIOUS
      <4>1. CASE k = 1
        BY <4>1 DEF OpenAt
      <4>2. CASE k # 1
        <5>1. k - 1 \in 1..m
          BY <2>1, <4>2
        <5> QED BY <3>5, <5>1 DEF OpenAt
      <4> QED BY <4>1, <4>2
    <3>7. IsOpenTo(h, lines, m)
      BY <3>6 DEF IsOpenTo
    <3> QED BY <3>7
  <2> QED BY <2>2, <2>3
<1>2. bad \in SUBSET Nat
  BY DEF bad
<1>3. bad = {}
  <2> HIDE DEF bad
  <2> QED BY <1>1, <1>2, LeastNatural
<1> QED BY <1>3

LEMMA FencesFollow ==
    ASSUME NEW lines, Len(lines) \in Nat
    PROVE  /\ OpenBefore(lines)[1] = NoFence
           /\ \A k \in 1..Len(lines) :
                OpenBefore(lines)[k + 1] = FenceAfter(OpenBefore(lines)[k], lines[k])
<1> DEFINE fences == OpenBefore(lines)
<1>1. IsOpenTo(fences, lines, Len(lines))
  BY OpenIsChosen, FencesExist
<1> HIDE DEF fences
<1>2. \A k \in 1..(Len(lines) + 1) : fences[k] = OpenAt(fences, lines, k)
  BY <1>1 DEF IsOpenTo
<1>3. fences[1] = NoFence
  BY <1>2 DEF OpenAt
<1>4. ASSUME NEW k \in 1..Len(lines) PROVE fences[k + 1] = FenceAfter(fences[k], lines[k])
  <2>1. k + 1 \in 1..(Len(lines) + 1) /\ k + 1 # 1 /\ (k + 1) - 1 = k
    OBVIOUS
  <2> QED BY <1>2, <2>1 DEF OpenAt
<1> QED BY <1>3, <1>4 DEF fences

\* Later lines change nothing of what the earlier ones say.
LEMMA FencesStay ==
    ASSUME NEW text, NEW grown, IsText(text), IsText(grown), GrowsTo(text, grown)
    PROVE  \A k \in 1..(Len(text.lines) + 1) :
              OpenBefore(grown.lines)[k] = OpenBefore(text.lines)[k]
<1> DEFINE n == Len(text.lines)
           f == OpenBefore(text.lines)
           g == OpenBefore(grown.lines)
           bad == {k \in Nat : k \in 1..(n + 1) /\ g[k] # f[k]}
<1>1. n \in Nat /\ Len(grown.lines) \in Nat /\ n <= Len(grown.lines)
  BY DEF IsText, GrowsTo
<1>2. /\ f[1] = NoFence /\ g[1] = NoFence
      /\ \A k \in 1..n : f[k + 1] = FenceAfter(f[k], text.lines[k])
      /\ \A k \in 1..n : g[k + 1] = FenceAfter(g[k], text.lines[k])
  <2>1. \A k \in 1..n : k \in 1..Len(grown.lines) /\ grown.lines[k] = text.lines[k]
    BY <1>1 DEF GrowsTo
  <2> QED BY <1>1, <2>1, FencesFollow
<1> HIDE DEF f, g, n
<1>3. ASSUME NEW k \in bad, \A q \in bad : k <= q
      PROVE  FALSE
  <2>1. k \in 1..(n + 1) /\ g[k] # f[k]
    BY DEF bad
  <2>2. k # 1
    BY <1>2, <2>1
  <2>3. k - 1 \in 1..n /\ (k - 1) + 1 = k /\ k - 1 \in Nat /\ k - 1 \in 1..(n + 1)
    BY <1>1, <2>1, <2>2
  <2>4. k - 1 \notin bad
    <3> HIDE DEF bad
    <3> QED BY <1>3, <2>1, <2>3
  <2>5. g[k - 1] = f[k - 1]
    BY <2>3, <2>4
  <2>6. /\ f[(k - 1) + 1] = FenceAfter(f[k - 1], text.lines[k - 1])
        /\ g[(k - 1) + 1] = FenceAfter(g[k - 1], text.lines[k - 1])
    BY <1>2, <2>3
  <2> QED BY <2>1, <2>3, <2>5, <2>6
<1>4. bad \in SUBSET Nat
  BY DEF bad
<1>5. bad = {}
  <2> HIDE DEF bad
  <2> QED BY <1>3, <1>4, LeastNatural
<1>6. \A k \in 1..(n + 1) : k \in Nat
  BY <1>1
<1> QED BY <1>5, <1>6 DEF f, g, n

LEMMA LinesStay ==
    ASSUME NEW text, NEW grown, IsText(text), IsText(grown), GrowsTo(text, grown),
           NEW k \in 1..Len(text.lines)
    PROVE  /\ k \in Headings(grown) <=> k \in Headings(text)
           /\ k \in Body(grown) <=> k \in Body(text)
           /\ Above(grown, k) = Above(text, k)
<1> DEFINE n == Len(text.lines)
<1>1. n \in Nat /\ Len(grown.lines) \in Nat /\ n <= Len(grown.lines)
  BY DEF IsText, GrowsTo
<1>2. /\ DOMAIN text.lines = 1..n /\ DOMAIN grown.lines = 1..Len(grown.lines)
      /\ grown.media = text.media
      /\ \A i \in 1..n : grown.lines[i] = text.lines[i]
  BY DEF IsText, GrowsTo
<1>3. \A i \in 1..n : OpenBefore(grown.lines)[i] = OpenBefore(text.lines)[i]
  <2>1. \A i \in 1..n : i \in 1..(Len(text.lines) + 1)
    BY <1>1
  <2> QED BY <2>1, FencesStay
<1>4. \A i \in 1..n : i \in Headings(grown) <=> i \in Headings(text)
  BY <1>1, <1>2, <1>3 DEF Headings
<1>5. k \in Body(grown) <=> k \in Body(text)
  BY <1>1, <1>2, <1>3, <1>4 DEF Body, IsCode
<1>6. Headings(grown) \subseteq 1..Len(grown.lines) /\ Headings(text) \subseteq 1..n
  BY <1>2 DEF Headings
<1>7. \A i : i \in Above(grown, k) <=> i \in Above(text, k)
  <2>1. \A i : i \in Headings(grown) /\ i <= k <=> i \in Headings(text) /\ i <= k
    BY <1>1, <1>4, <1>6
  <2>2. \A i \in Headings(text) : i \in 1..n
    BY <1>6
  <2>3. \A j : j \in Headings(grown) /\ j <= k => grown.lines[j] = text.lines[j]
    BY <1>2, <2>1, <2>2
  <2> HIDE DEF n
  <2> QED BY <2>1, <2>3 DEF Above
<1> QED BY <1>4, <1>5, <1>7 DEF n

\* The headings above the next line.
LEMMA AboveNext ==
    ASSUME NEW text, IsText(text), NEW k \in Nat, k + 1 \in DOMAIN text.lines
    PROVE  /\ k + 1 \notin Headings(text) => Above(text, k + 1) = Above(text, k)
           /\ k + 1 \in Headings(text) =>
                Above(text, k + 1) =
                  {i \in Above(text, k) : text.lines[i].is.level < text.lines[k + 1].is.level}
                    \cup {k + 1}
<1>1. \A i \in Headings(text) : i \in Nat /\ text.lines[i].is.level \in Nat
  BY KindsAreWellFormed DEF IsText, Headings, Line
<1>2. \A i \in Headings(text) : i <= k + 1 <=> i <= k \/ i = k + 1
  BY <1>1
<1>3. \A i \in Headings(text) : i <= k => i < k + 1
  BY <1>1
<1>4. ASSUME k + 1 \notin Headings(text) PROVE Above(text, k + 1) = Above(text, k)
  BY <1>2, <1>4 DEF Above
<1>5. ASSUME k + 1 \in Headings(text)
      PROVE  Above(text, k + 1) =
               {i \in Above(text, k) : text.lines[i].is.level < text.lines[k + 1].is.level}
                 \cup {k + 1}
  <2>1. \A i \in Headings(text) :
          text.lines[k + 1].is.level > text.lines[i].is.level
            <=> text.lines[i].is.level < text.lines[k + 1].is.level
    BY <1>1, <1>5
  <2>2. \A j \in Headings(text) : ~ (k + 1 < j /\ j <= k + 1)
    BY <1>1
  <2>3. k + 1 \in Above(text, k + 1)
    BY <1>5, <2>2 DEF Above
  <2>4. \A i : i # k + 1 => (i \in Above(text, k + 1) <=>
          i \in Above(text, k) /\ text.lines[i].is.level < text.lines[k + 1].is.level)
    BY <1>2, <1>3, <1>5, <2>1 DEF Above
  <2>5. k + 1 \notin Above(text, k)
    BY DEF Above
  <2> QED BY <2>3, <2>4, <2>5
<1> QED BY <1>4, <1>5
-----------------------------------------------------------------------------
(* Places in a set of numbers, and the open headings.                       *)

LEMMA UpToIsPlace ==
    ASSUME NEW n \in Nat, NEW S \in SUBSET (1..n)
    PROVE  /\ IsFiniteSet(S) /\ Cardinality(S) \in Nat
           /\ \A i \in S : UpTo(S, i) \in 1..Cardinality(S)
           /\ \A i, j \in S : i < j => UpTo(S, i) < UpTo(S, j)
           /\ \A i, j \in S : UpTo(S, i) = UpTo(S, j) => i = j
           /\ \A place \in 1..Cardinality(S) : \E i \in S : UpTo(S, i) = place
<1> DEFINE below == [i \in S |-> {j \in S : j < i}]
           place0 == [i \in S |-> Cardinality(below[i])]
<1>1. IsFiniteSet(1..n)
  BY FS_Interval
<1>2. IsFiniteSet(S) /\ Cardinality(S) \in Nat
  BY <1>1, FS_Subset, FS_CardinalityType
<1>3. \A i \in S : i \in Nat
  OBVIOUS
<1>4. \A i \in S : UpTo(S, i) = place0[i] + 1
  <2> SUFFICES ASSUME NEW i \in S PROVE UpTo(S, i) = place0[i] + 1
    OBVIOUS
  <2> DEFINE B == {j \in S : j < i}
  <2>0. \A j \in S : j <= i <=> j < i \/ j = i
    BY <1>3
  <2>1. {j \in S : j <= i} = B \cup {i}
    BY <2>0
  <2>2. i \notin B /\ IsFiniteSet(B)
    BY <1>2, <1>3, FS_Subset
  <2>3. Cardinality(B \cup {i}) = Cardinality(B) + 1
    BY <2>2, FS_AddElement
  <2>4. place0[i] = Cardinality(B)
    OBVIOUS
  <2> HIDE DEF B, place0
  <2> QED BY <2>1, <2>3, <2>4 DEF UpTo
<1>5. \A x, y \in S : x \in below[y] <=> x < y
  OBVIOUS
<1>6. /\ \A x \in S : place0[x] = Cardinality(below[x])
      /\ \A x \in S : below[x] \subseteq S
  OBVIOUS
<1> HIDE DEF below, place0
<1>12. \A x \in S : below[x] \subseteq S /\ x \notin below[x]
  BY <1>3, <1>5, <1>6
<1>13. \A x, y, z \in S : x \in below[y] /\ y \in below[z] => x \in below[z]
  <2> SUFFICES ASSUME NEW x \in S, NEW y \in S, NEW z \in S, x \in below[y], y \in below[z]
               PROVE  x \in below[z]
    OBVIOUS
  <2>1. x \in Nat /\ y \in Nat /\ z \in Nat
    BY <1>3
  <2>2. x < y /\ y < z
    BY <1>5
  <2>3. x < z
    BY <2>1, <2>2
  <2> QED BY <1>5, <2>3
<1>14. \A x, y \in S : x # y => x \in below[y] \/ y \in below[x]
  <2> SUFFICES ASSUME NEW x \in S, NEW y \in S, x # y PROVE x \in below[y] \/ y \in below[x]
    OBVIOUS
  <2>1. x \in Nat /\ y \in Nat /\ (x < y \/ y < x)
    BY <1>3
  <2> QED BY <1>5, <2>1
<1>7. /\ \A x, y \in S : x \in below[y] => place0[x] < place0[y]
      /\ \A x, y \in S : place0[x] = place0[y] => x = y
      /\ \A x \in S : place0[x] \in 0..(Cardinality(S) - 1)
      /\ \A k \in 0..(Cardinality(S) - 1) : \E x \in S : place0[x] = k
  <2>1. IsFiniteSet(S) /\ \A x \in S : place0[x] = Cardinality(below[x])
    BY <1>2, <1>6
  <2> QED BY <2>1, <1>12, <1>13, <1>14, OrderHasPlaces
<1>8. \A i \in S : UpTo(S, i) \in 1..Cardinality(S)
  BY <1>2, <1>4, <1>7
<1>9. \A i, j \in S : i < j => UpTo(S, i) < UpTo(S, j)
  BY <1>2, <1>4, <1>5, <1>7
<1>10. ASSUME NEW i \in S, NEW j \in S, UpTo(S, i) = UpTo(S, j) PROVE i = j
  <2>1. place0[i] + 1 = place0[j] + 1 /\ place0[i] \in Nat /\ place0[j] \in Nat
    BY <1>2, <1>4, <1>7, <1>10
  <2>2. place0[i] = place0[j]
    BY <2>1
  <2> QED BY <1>7, <2>2
<1>11. ASSUME NEW place \in 1..Cardinality(S) PROVE \E i \in S : UpTo(S, i) = place
  <2>1. place - 1 \in 0..(Cardinality(S) - 1) /\ (place - 1) + 1 = place
    BY <1>2
  <2>2. PICK i \in S : place0[i] = place - 1
    BY <1>7, <2>1
  <2> QED BY <1>4, <2>1, <2>2
<1> QED BY <1>2, <1>8, <1>9, <1>10, <1>11

\* In a set that begins another, places are the same.
LEMMA BeginningKeepsPlaces ==
    ASSUME NEW S, NEW T \in SUBSET S, \A i \in T, j \in S : j <= i => j \in T
    PROVE  \A i \in T : UpTo(T, i) = UpTo(S, i)
<1> SUFFICES ASSUME NEW i \in T PROVE UpTo(T, i) = UpTo(S, i)
  OBVIOUS
<1>1. {j \in T : j <= i} = {j \in S : j <= i}
  OBVIOUS
<1> QED BY <1>1 DEF UpTo

\* The stack holds the headings above a line.
StackTells(st, text, k) ==
    /\ Len(st) = Cardinality(Above(text, k)) /\ DOMAIN st = 1..Len(st)
    /\ \A i \in Above(text, k) :
          st[UpTo(Above(text, k), i)] = <<text.lines[i].is.level, text.lines[i].is.title>>

\* Their titles are the path of the line.
PathOf(st) == [i \in DOMAIN st |-> st[i][2]]

LEMMA StackIsPath ==
    ASSUME NEW text, IsText(text), NEW k \in Nat, NEW st, StackTells(st, text, k)
    PROVE  IsPath(PathOf(st), text, k)
<1> DEFINE A == Above(text, k)
           n == Len(text.lines)
<1>1. n \in Nat /\ A \in SUBSET (1..n)
  BY DEF IsText, Above, Headings
<1>2. \A i \in A : UpTo(A, i) \in DOMAIN st
  BY <1>1, UpToIsPlace DEF StackTells
<1>3. \A i \in A : st[UpTo(A, i)] = <<text.lines[i].is.level, text.lines[i].is.title>>
  BY DEF StackTells
<1>4. DOMAIN st = 1..Cardinality(A)
  BY DEF StackTells
<1>5. \A i \in A : st[UpTo(A, i)][2] = text.lines[i].is.title
  BY <1>3
<1> HIDE DEF A
<1> QED BY <1>2, <1>4, <1>5 DEF IsPath, PathOf, A

AreAbove(above, st, level) == \A i \in DOMAIN st : i \in above <=> st[i][1] < level

\* The first entries of a stack and one more.
PushedOn(pushed, st, keep, entry, T) ==
    /\ pushed \in Seq(T)
    /\ Len(pushed) = keep + 1 /\ DOMAIN pushed = 1..(keep + 1)
    /\ pushed[keep + 1] = entry
    /\ \A p \in 1..keep : pushed[p] = st[p]
IsEntry(entry, level, title) == entry = <<level, title>>
IsPushed(pushed, st, keep, entry) == pushed = Append(SubSeq(st, 1, keep), entry)

LEMMA Pushed ==
    ASSUME NEW T, NEW st \in Seq(T), NEW keep \in 0..Len(st), NEW entry \in T,
           NEW pushed, IsPushed(pushed, st, keep, entry)
    PROVE  PushedOn(pushed, st, keep, entry, T)
<1> DEFINE kept == SubSeq(st, 1, keep)
<1>1. keep \in Int /\ 1 \in Int /\ \A p \in 1..keep : st[p] \in T
  OBVIOUS
<1>2. kept \in Seq(T) /\ Len(kept) = keep /\ \A p \in 1..keep : kept[p] = st[p]
  <2>1. /\ kept \in Seq(T)
        /\ Len(kept) = IF 1 <= keep THEN keep - 1 + 1 ELSE 0
        /\ \A p \in 1..(keep - 1 + 1) : kept[p] = st[1 + p - 1]
    BY <1>1, SubSeqProperties
  <2> HIDE DEF kept
  <2>2. Len(kept) = keep
    BY <2>1
  <2>3. \A p \in 1..keep : p \in 1..(keep - 1 + 1) /\ 1 + p - 1 = p
    OBVIOUS
  <2> QED BY <2>1, <2>2, <2>3
<1>3. pushed = Append(kept, entry)
  BY DEF IsPushed
<1> HIDE DEF kept
<1>4. /\ pushed \in Seq(T) /\ Len(pushed) = Len(kept) + 1
      /\ pushed[Len(kept) + 1] = entry
      /\ \A p \in 1..Len(kept) : pushed[p] = kept[p]
  BY <1>2, <1>3, AppendProperties
<1>5. DOMAIN pushed = 1..(keep + 1)
  BY <1>2, <1>4
<1> QED BY <1>2, <1>4, <1>5 DEF PushedOn

\* Popping to a level and pushing a heading leaves the headings above the next line.
LEMMA PushedTells ==
    ASSUME NEW text, IsText(text), NEW k \in Nat, k + 1 \in Headings(text),
           NEW T, NEW st \in Seq(T), StackTells(st, text, k),
           NEW keep, NEW level, NEW title,
           level = text.lines[k + 1].is.level, title = text.lines[k + 1].is.title,
           NEW entry \in T, IsEntry(entry, level, title),
           NEW above \in SUBSET DOMAIN st, AreAbove(above, st, level),
           keep = Max({0} \cup above),
           NEW pushed, IsPushed(pushed, st, keep, entry)
    PROVE  pushed \in Seq(T) /\ StackTells(pushed, text, k + 1)
<1> DEFINE A == Above(text, k)
           K == {i \in A : text.lines[i].is.level < level}
           B == Above(text, k + 1)
           n == Len(text.lines)
<1>1. n \in Nat /\ A \in SUBSET (1..n) /\ K \in SUBSET (1..n) /\ B \in SUBSET (1..n)
  BY DEF IsText, Above, Headings
<1>2. /\ \A i \in Headings(text) : i \in Nat /\ text.lines[i].is.level \in Nat
      /\ k + 1 \in DOMAIN text.lines /\ level \in Nat
  BY KindsAreWellFormed DEF IsText, Headings, Line
<1>3. A \subseteq Headings(text)
  BY DEF Above
<1>4. B = K \cup {k + 1} /\ k + 1 \notin K
  <2>1. k + 1 \notin A
    BY DEF Above
  <2> QED BY <1>2, <2>1, AboveNext
<1>5. \A i \in K, j \in A : j <= i => j \in K
  <2> SUFFICES ASSUME NEW i \in K, NEW j \in A, j <= i, j # i
               PROVE  text.lines[j].is.level < level
    OBVIOUS
  <2>1. j < i /\ i <= k /\ i \in Headings(text) /\ j \in Headings(text)
    BY <1>1, <1>3 DEF Above
  <2>2. text.lines[i].is.level > text.lines[j].is.level
    BY <2>1 DEF Above
  <2>3. text.lines[i].is.level < level
    OBVIOUS
  <2> QED BY <1>2, <2>1, <2>2, <2>3
<1>6. \A i \in K : UpTo(K, i) = UpTo(A, i)
  <2>1. K \in SUBSET A
    OBVIOUS
  <2> HIDE DEF A, K
  <2> QED BY <1>5, <2>1, BeginningKeepsPlaces
<1>7. /\ Len(st) = Cardinality(A) /\ DOMAIN st = 1..Len(st)
      /\ \A i \in A : st[UpTo(A, i)] = <<text.lines[i].is.level, text.lines[i].is.title>>
  BY DEF StackTells
<1>8. \A i \in A : i \in K <=> text.lines[i].is.level < level
  OBVIOUS
<1>9. \A i \in K : i < k + 1 /\ i \in A
  <2> SUFFICES ASSUME NEW i \in K
               PROVE  i < k + 1 /\ i \in A
    OBVIOUS
  <2>1. i \in A
    OBVIOUS
  <2>2. i <= k
    BY <2>1 DEF Above
  <2> HIDE DEF A, K
  <2>3. i \in Nat
    BY <1>2, <1>3, <2>1
  <2> QED BY <2>1, <2>2, <2>3
<1> HIDE DEF A, K, B, n
<1>10. /\ Cardinality(A) \in Nat /\ Cardinality(K) \in Nat
       /\ \A i \in A : UpTo(A, i) \in 1..Cardinality(A)
       /\ \A i, j \in A : UpTo(A, i) = UpTo(A, j) => i = j
       /\ \A place \in 1..Cardinality(A) : \E i \in A : UpTo(A, i) = place
       /\ \A i \in K : UpTo(K, i) \in 1..Cardinality(K)
       /\ \A place \in 1..Cardinality(K) : \E i \in K : UpTo(K, i) = place
  BY <1>1, UpToIsPlace
<1>11. above = 1..Cardinality(K)
  <2>1. ASSUME NEW p \in above PROVE p \in 1..Cardinality(K)
    <3>1. p \in 1..Cardinality(A) /\ st[p][1] < level
      BY <1>7 DEF AreAbove
    <3>2. PICK i \in A : UpTo(A, i) = p
      BY <1>10, <3>1
    <3>3. i \in K
      BY <1>7, <1>8, <3>1, <3>2
    <3> QED BY <1>6, <1>10, <3>2, <3>3
  <2>2. ASSUME NEW p \in 1..Cardinality(K) PROVE p \in above
    <3>1. PICK i \in K : UpTo(K, i) = p
      BY <1>10
    <3>2. i \in A /\ UpTo(A, i) = p /\ text.lines[i].is.level < level
      BY <1>6, <1>8, <1>9, <3>1
    <3>3. p \in DOMAIN st /\ st[p][1] < level
      BY <1>7, <1>10, <3>2
    <3> QED BY <3>3 DEF AreAbove
  <2> QED BY <2>1, <2>2
<1>12. keep = Cardinality(K)
  <2> DEFINE c == Cardinality(K)
  <2>1. c \in Nat /\ keep = Max({0} \cup 1..c)
    BY <1>10, <1>11
  <2> HIDE DEF c
  <2>2. \A x \in {0} \cup 1..c : (\A y \in {0} \cup 1..c : x >= y) <=> x = c
    BY <2>1
  <2>3. c \in {0} \cup 1..c
    BY <2>1
  <2>4. Max({0} \cup 1..c) = c
    BY <2>2, <2>3 DEF Max
  <2> QED BY <2>1, <2>4 DEF c
<1>13. Cardinality(K) <= Cardinality(A)
  <2>1. K \subseteq A
    BY <1>9
  <2> QED BY <1>1, <2>1, UpToIsPlace, FS_Subset
<1>14. /\ pushed \in Seq(T)
       /\ Len(pushed) = keep + 1 /\ DOMAIN pushed = 1..(keep + 1)
       /\ pushed[keep + 1] = <<level, title>>
       /\ \A p \in 1..keep : pushed[p] = st[p]
  <2>1. keep \in 0..Len(st)
    BY <1>7, <1>10, <1>12, <1>13
  <2>2. PushedOn(pushed, st, keep, entry, T)
    BY <2>1, Pushed
  <2> QED BY <2>2 DEF IsEntry, PushedOn
<1>15. Cardinality(B) = keep + 1
  BY <1>1, <1>4, <1>12, UpToIsPlace, FS_AddElement
<1>16. \A i \in K : UpTo(B, i) = UpTo(K, i)
  <2>1. K \in SUBSET B /\ \A i \in K, j \in B : j <= i => j \in K
    <3> SUFFICES ASSUME NEW i \in K, NEW j \in B, j <= i PROVE j \in K
      BY <1>4
    <3>1. j # k + 1
      BY <1>1, <1>9
    <3> QED BY <1>4, <3>1
  <2> QED BY <2>1, BeginningKeepsPlaces
<1>17. UpTo(B, k + 1) = keep + 1
  <2>0. \A j \in B : j <= k + 1
    BY <1>1, <1>4, <1>9
  <2>1. {j \in B : j <= k + 1} = B
    BY <2>0
  <2> QED BY <1>15, <2>1 DEF UpTo
<1>18. \A i \in B : pushed[UpTo(B, i)] = <<text.lines[i].is.level, text.lines[i].is.title>>
  <2> TAKE i \in B
  <2>1. CASE i = k + 1
    BY <1>14, <1>17, <2>1
  <2>2. CASE i # k + 1
    <3>1. i \in K /\ i \in A
      BY <1>4, <1>9, <2>2
    <3>2. UpTo(B, i) = UpTo(A, i) /\ UpTo(B, i) \in 1..keep
      BY <1>6, <1>10, <1>12, <1>16, <3>1
    <3> QED BY <1>7, <1>14, <3>1, <3>2
  <2> QED BY <2>1, <2>2
<1>19. StackTells(pushed, text, k + 1)
  BY <1>14, <1>15, <1>18 DEF StackTells, B
<1> QED BY <1>14, <1>19

-----------------------------------------------------------------------------
(* The units of the lines read so far.                                      *)

IsSequence(s) == \E S : s \in Seq(S)

LEMMA AppendedTo ==
    ASSUME NEW s, IsSequence(s), NEW e
    PROVE  /\ IsSequence(Append(s, e)) /\ Append(s, e) # <<>>
           /\ Len(s) \in Nat /\ DOMAIN s = 1..Len(s)
           /\ Len(Append(s, e)) = Len(s) + 1
           /\ DOMAIN Append(s, e) = 1..(Len(s) + 1)
           /\ \A i \in 1..Len(s) : Append(s, e)[i] = s[i]
           /\ Append(s, e)[Len(s) + 1] = e
<1>1. PICK S : s \in Seq(S)
  BY DEF IsSequence
<1> DEFINE T == S \cup {e}
<1>2. s \in Seq(T) /\ e \in T
  BY <1>1
<1> HIDE DEF T
<1> DEFINE a == Append(s, e)
<1>3. /\ a \in Seq(T) /\ a # <<>> /\ Len(a) = Len(s) + 1
      /\ \A i \in 1..Len(s) : a[i] = s[i]
      /\ a[Len(s) + 1] = e
  BY <1>2, AppendProperties
<1> HIDE DEF a
<1>4. /\ Len(s) \in Nat /\ DOMAIN s = 1..Len(s)
      /\ DOMAIN a = 1..Len(a)
  BY <1>2, <1>3
<1>5. IsSequence(a)
  BY <1>3 DEF IsSequence
<1> QED BY <1>3, <1>4, <1>5 DEF a

Touches(span, line) == span.start <= line.end /\ line.start <= span.end
Said(text) == Body(text) \cup Headings(text)

\* No line that a unit touches is under other headings, and a heading's unit holds no text.
UnitTells(u, text) ==
    /\ u.start \in Nat /\ u.end \in Nat /\ u.start <= u.end
    /\ \A k \in DOMAIN text.lines : Touches(u, text.lines[k]) => IsPath(u.path, text, k)
    /\ u.heading \in BOOLEAN
    /\ u.heading => \A k \in Body(text) : ~ Touches(u, text.lines[k])

\* In order, they end by line m and hold all that is said until then.
UnitsHold(us, text, m) ==
    /\ IsSequence(us)
    /\ m \in 0..Len(text.lines)
    /\ \A i \in DOMAIN us :
          UnitTells(us[i], text) /\ m # 0 /\ us[i].end <= text.lines[m].end
    /\ \A i, j \in DOMAIN us : i < j => us[i].end < us[j].start
    /\ \A k \in Said(text) : k <= m =>
          \E i \in DOMAIN us :
             us[i].start <= text.lines[k].start /\ text.lines[k].end <= us[i].end

LEMMA UnitOfLines ==
    ASSUME NEW text, IsText(text), NEW b \in DOMAIN text.lines, NEW a \in 1..b, NEW u,
           u.start = text.lines[a].start, u.end = text.lines[b].end,
           \A k \in a..b : IsPath(u.path, text, k),
           u.heading \in BOOLEAN,
           u.heading => \A k \in a..b : k \notin Body(text)
    PROVE  UnitTells(u, text)
<1>1. /\ Len(text.lines) \in Nat /\ DOMAIN text.lines = 1..Len(text.lines)
      /\ a \in DOMAIN text.lines /\ a \in Nat /\ b \in Nat
  BY DEF IsText
<1>2. \A k \in DOMAIN text.lines :
        /\ text.lines[k].start \in Nat /\ text.lines[k].end \in Nat
        /\ text.lines[k].start <= text.lines[k].end
        /\ k \in Nat
  BY <1>1 DEF IsText, Line
<1>3. \A j, k \in DOMAIN text.lines : j < k => text.lines[j].end < text.lines[k].start
  BY DEF IsText
<1>4. u.start \in Nat /\ u.end \in Nat /\ u.start <= u.end
  <2>1. a = b \/ a < b
    BY <1>1
  <2>2. CASE a = b
    BY <1>1, <1>2, <2>2
  <2>3. CASE a < b
    <3>1. text.lines[a].end < text.lines[b].start
      BY <1>1, <1>3, <2>3
    <3> QED BY <1>1, <1>2, <3>1
  <2> QED BY <2>1, <2>2, <2>3
<1>5. ASSUME NEW k \in DOMAIN text.lines, Touches(u, text.lines[k])
      PROVE  k \in a..b
  <2>1. text.lines[a].start <= text.lines[k].end /\ text.lines[k].start <= text.lines[b].end
    BY <1>5 DEF Touches
  <2>2. ~ (k < a)
    <3> SUFFICES ASSUME k < a PROVE FALSE
      OBVIOUS
    <3>1. text.lines[k].end < text.lines[a].start
      BY <1>1, <1>3
    <3> QED BY <1>1, <1>2, <2>1, <3>1
  <2>3. ~ (b < k)
    <3> SUFFICES ASSUME b < k PROVE FALSE
      OBVIOUS
    <3>1. text.lines[b].end < text.lines[k].start
      BY <1>1, <1>3
    <3> QED BY <1>1, <1>2, <2>1, <3>1
  <2> QED BY <1>1, <1>2, <2>2, <2>3
<1>6. \A k \in Body(text) : k \in DOMAIN text.lines
  BY DEF Body
<1> QED BY <1>4, <1>5, <1>6 DEF UnitTells

LEMMA UnitAdded ==
    ASSUME NEW text, IsText(text), NEW b \in DOMAIN text.lines, NEW a \in 1..b, NEW u,
           u.start = text.lines[a].start, u.end = text.lines[b].end,
           \A k \in a..b : IsPath(u.path, text, k),
           u.heading \in BOOLEAN,
           u.heading => \A k \in a..b : k \notin Body(text),
           NEW us, UnitsHold(us, text, a - 1)
    PROVE  UnitsHold(Append(us, u), text, b)
<1>1. /\ Len(text.lines) \in Nat /\ DOMAIN text.lines = 1..Len(text.lines)
      /\ a \in DOMAIN text.lines /\ a \in Nat /\ b \in Nat /\ b # 0
  BY DEF IsText
<1>2. \A k \in DOMAIN text.lines :
        /\ text.lines[k].start \in Nat /\ text.lines[k].end \in Nat
        /\ text.lines[k].start <= text.lines[k].end
        /\ k \in Nat
  BY <1>1 DEF IsText, Line
<1>3. \A j, k \in DOMAIN text.lines : j < k => text.lines[j].end < text.lines[k].start
  BY DEF IsText
<1>4. UnitTells(u, text)
  BY UnitOfLines
<1>5. /\ IsSequence(us)
      /\ \A i \in DOMAIN us :
           UnitTells(us[i], text) /\ a - 1 # 0 /\ us[i].end <= text.lines[a - 1].end
      /\ \A i, j \in DOMAIN us : i < j => us[i].end < us[j].start
      /\ \A k \in Said(text) : k <= a - 1 =>
           \E i \in DOMAIN us :
              us[i].start <= text.lines[k].start /\ text.lines[k].end <= us[i].end
  BY DEF UnitsHold
<1> DEFINE grown == Append(us, u)
           n == Len(us)
<1>6. /\ IsSequence(grown) /\ n \in Nat /\ DOMAIN us = 1..n
      /\ DOMAIN grown = 1..(n + 1)
      /\ \A i \in 1..n : grown[i] = us[i]
      /\ grown[n + 1] = u
  BY <1>5, AppendedTo
<1> HIDE DEF grown, n
<1>7. ASSUME NEW i \in 1..n
      PROVE  /\ UnitTells(us[i], text) /\ us[i].end < u.start /\ us[i].end \in Nat
             /\ us[i].end <= text.lines[b].end
  <2>1. UnitTells(us[i], text) /\ a - 1 # 0 /\ us[i].end <= text.lines[a - 1].end
    BY <1>5, <1>6
  <2>2. a - 1 \in DOMAIN text.lines /\ a - 1 < a
    BY <1>1, <2>1
  <2>3. text.lines[a - 1].end < text.lines[a].start
    BY <1>1, <1>3, <2>2
  <2>4. us[i].end \in Nat
    BY <2>1 DEF UnitTells
  <2>5. us[i].end < u.start
    BY <1>1, <1>2, <2>1, <2>2, <2>3, <2>4
  <2>6. u.start <= u.end /\ u.start \in Nat /\ u.end \in Nat
    BY <1>4 DEF UnitTells
  <2> QED BY <2>1, <2>4, <2>5, <2>6
<1>8. u.start \in Nat /\ u.end \in Nat /\ u.end = text.lines[b].end
  BY <1>1, <1>2
<1>9. ASSUME NEW i \in DOMAIN grown
      PROVE  UnitTells(grown[i], text) /\ b # 0 /\ grown[i].end <= text.lines[b].end
  <2>1. i \in 1..n \/ i = n + 1
    BY <1>6, <1>9
  <2> QED BY <1>1, <1>4, <1>6, <1>7, <1>8, <2>1
<1>10. ASSUME NEW i \in DOMAIN grown, NEW j \in DOMAIN grown, i < j
       PROVE  grown[i].end < grown[j].start
  <2>1. i \in 1..n /\ (j \in 1..n \/ j = n + 1)
    BY <1>6, <1>10
  <2> QED BY <1>5, <1>6, <1>7, <1>10, <2>1
<1>11. ASSUME NEW k \in Said(text), k <= b
       PROVE  \E i \in DOMAIN grown :
                 grown[i].start <= text.lines[k].start /\ text.lines[k].end <= grown[i].end
  <2>1. k \in DOMAIN text.lines /\ k \in Nat
    BY <1>2 DEF Said, Body, Headings
  <2>2. CASE k <= a - 1
    <3>1. PICK i \in DOMAIN us :
             us[i].start <= text.lines[k].start /\ text.lines[k].end <= us[i].end
      BY <1>5, <2>2
    <3>2. i \in DOMAIN grown /\ grown[i] = us[i]
      BY <1>6, <3>1
    <3> QED BY <3>1, <3>2
  <2>3. CASE ~ (k <= a - 1)
    <3>1. (k = a \/ a < k) /\ (k = b \/ k < b)
      BY <1>1, <1>11, <2>1, <2>3
    <3>2. text.lines[a].start <= text.lines[k].start
      <4>1. a < k => text.lines[a].end < text.lines[k].start
        BY <1>1, <1>3, <2>1
      <4> QED BY <1>1, <1>2, <2>1, <3>1, <4>1
    <3>3. text.lines[k].end <= text.lines[b].end
      <4>1. k < b => text.lines[k].end < text.lines[b].start
        BY <1>3, <2>1
      <4> QED BY <1>2, <2>1, <3>1, <4>1
    <3>4. n + 1 \in DOMAIN grown /\ grown[n + 1] = u
      BY <1>6
    <3> QED BY <3>2, <3>3, <3>4
  <2> QED BY <2>2, <2>3
<1>12. b \in 0..Len(text.lines)
  BY <1>1
<1> QED BY <1>6, <1>9, <1>10, <1>11, <1>12 DEF UnitsHold, grown

\* A line that is no text adds no unit.
LEMMA LineSkipped ==
    ASSUME NEW text, IsText(text), NEW us, NEW m \in Nat, UnitsHold(us, text, m),
           m + 1 \in DOMAIN text.lines, m + 1 \notin Said(text)
    PROVE  UnitsHold(us, text, m + 1)
<1>1. /\ Len(text.lines) \in Nat /\ DOMAIN text.lines = 1..Len(text.lines)
      /\ \A k \in DOMAIN text.lines :
        /\ text.lines[k].start \in Nat /\ text.lines[k].end \in Nat
        /\ text.lines[k].start <= text.lines[k].end
        /\ k \in Nat
  BY DEF IsText, Line
<1>2. ASSUME NEW i \in DOMAIN us
      PROVE  UnitTells(us[i], text) /\ m + 1 # 0 /\ us[i].end <= text.lines[m + 1].end
  <2>1. UnitTells(us[i], text) /\ m # 0 /\ us[i].end <= text.lines[m].end
    BY DEF UnitsHold
  <2>2. m \in DOMAIN text.lines /\ m < m + 1
    BY <1>1, <2>1
  <2>3. text.lines[m].end < text.lines[m + 1].start
    BY <2>2 DEF IsText
  <2>4. us[i].end \in Nat
    BY <2>1 DEF UnitTells
  <2> QED BY <1>1, <2>1, <2>2, <2>3, <2>4
<1>3. \A k \in Said(text) : k <= m + 1 => k <= m
  <2>1. \A k \in Said(text) : k \in Nat /\ k # m + 1
    BY <1>1 DEF Said, Body, Headings
  <2> QED BY <2>1
<1>4. m + 1 \in 0..Len(text.lines)
  BY <1>1
<1>5. \A k \in Said(text) : k <= m + 1 =>
        \E i \in DOMAIN us :
           us[i].start <= text.lines[k].start /\ text.lines[k].end <= us[i].end
  BY <1>3 DEF UnitsHold
<1> QED BY <1>2, <1>4, <1>5 DEF UnitsHold

LEMMA UnitsStay ==
    ASSUME NEW text, NEW grown, IsText(text), IsText(grown), GrowsTo(text, grown),
           NEW us, NEW m, UnitsHold(us, text, m)
    PROVE  UnitsHold(us, grown, m)
<1>1. /\ Len(text.lines) \in Nat /\ DOMAIN text.lines = 1..Len(text.lines)
      /\ Len(grown.lines) \in Nat /\ DOMAIN grown.lines = 1..Len(grown.lines)
      /\ Len(text.lines) <= Len(grown.lines)
      /\ \A k \in DOMAIN text.lines : grown.lines[k] = text.lines[k]
      /\ m \in 0..Len(text.lines)
  BY DEF IsText, GrowsTo, UnitsHold
<1>2. \A k \in DOMAIN text.lines :
        /\ k \in Body(grown) <=> k \in Body(text)
        /\ k \in Said(grown) <=> k \in Said(text)
        /\ Above(grown, k) = Above(text, k)
  BY <1>1, LinesStay DEF Said
<1>3. \A path, k : k \in DOMAIN text.lines /\ IsPath(path, text, k) => IsPath(path, grown, k)
  <2> SUFFICES ASSUME NEW path, NEW k \in DOMAIN text.lines, IsPath(path, text, k)
               PROVE  IsPath(path, grown, k)
    OBVIOUS
  <2>1. \A i \in Above(text, k) : grown.lines[i] = text.lines[i]
    BY <1>1 DEF Above, Headings
  <2> QED BY <1>2, <2>1 DEF IsPath
<1>4. \A k \in Said(grown) : k <= m => k \in Said(text) /\ grown.lines[k] = text.lines[k]
  <2> SUFFICES ASSUME NEW k \in Said(grown), k <= m
               PROVE  k \in Said(text) /\ grown.lines[k] = text.lines[k]
    OBVIOUS
  <2>1. k \in DOMAIN text.lines
    BY <1>1 DEF Said, Body, Headings
  <2> QED BY <1>1, <1>2, <2>1
<1>5. ASSUME NEW i \in DOMAIN us
      PROVE  UnitTells(us[i], grown) /\ m # 0 /\ us[i].end <= grown.lines[m].end
  <2>1. UnitTells(us[i], text) /\ m # 0 /\ us[i].end <= text.lines[m].end
    BY DEF UnitsHold
  <2>2. m \in DOMAIN text.lines /\ grown.lines[m] = text.lines[m]
    BY <1>1, <2>1
  <2>3. us[i].start \in Nat /\ us[i].end \in Nat /\ us[i].start <= us[i].end
    BY <2>1 DEF UnitTells
  <2>4. ASSUME NEW k \in DOMAIN grown.lines, Touches(us[i], grown.lines[k])
        PROVE  k \in DOMAIN text.lines
    <3>1. grown.lines[k].start <= us[i].end
      BY <2>4 DEF Touches
    <3>2. k \in Nat /\ m \in DOMAIN grown.lines /\ m \in Nat
          /\ grown.lines[k].start \in Nat /\ grown.lines[m].end \in Nat
      BY <1>1, <2>2 DEF IsText, Line
    <3>3. m < k => grown.lines[m].end < grown.lines[k].start
      BY <3>2 DEF IsText
    <3>4. ~ (m < k)
      BY <2>1, <2>2, <2>3, <3>1, <3>2, <3>3
    <3> QED BY <1>1, <3>2, <3>4
  <2>5. \A k \in DOMAIN grown.lines : Touches(us[i], grown.lines[k]) => IsPath(us[i].path, grown, k)
    <3> SUFFICES ASSUME NEW k \in DOMAIN grown.lines, Touches(us[i], grown.lines[k])
                 PROVE  IsPath(us[i].path, grown, k)
      OBVIOUS
    <3>1. k \in DOMAIN text.lines /\ grown.lines[k] = text.lines[k]
      BY <1>1, <2>4
    <3>2. IsPath(us[i].path, text, k)
      BY <2>1, <3>1 DEF UnitTells
    <3> QED BY <1>3, <3>1, <3>2
  <2>6. us[i].heading => \A k \in Body(grown) : ~ Touches(us[i], grown.lines[k])
    <3> SUFFICES ASSUME us[i].heading, NEW k \in Body(grown), Touches(us[i], grown.lines[k])
                 PROVE  FALSE
      OBVIOUS
    <3>0. k \in DOMAIN grown.lines
      BY DEF Body
    <3>1. k \in DOMAIN text.lines /\ grown.lines[k] = text.lines[k]
      BY <1>1, <2>4, <3>0
    <3>2. k \in Body(text)
      BY <1>2, <3>1
    <3> QED BY <2>1, <3>1, <3>2 DEF UnitTells
  <2>7. us[i].heading \in BOOLEAN
    BY <2>1 DEF UnitTells
  <2>8. UnitTells(us[i], grown)
    BY <2>3, <2>5, <2>6, <2>7 DEF UnitTells
  <2> QED BY <2>1, <2>2, <2>8
<1>6. \A k \in Said(grown) : k <= m =>
        \E i \in DOMAIN us :
           us[i].start <= grown.lines[k].start /\ grown.lines[k].end <= us[i].end
  BY <1>4 DEF UnitsHold
<1>7. m \in 0..Len(grown.lines)
  BY <1>1
<1> QED BY <1>5, <1>6, <1>7 DEF UnitsHold

\* The open lines: the last ones, under the same headings.
OpenLines(lines, text, n) ==
    /\ IsSequence(lines)
    /\ n \in 0..Len(text.lines) /\ Len(lines) \in 0..n
    /\ \A i \in 1..Len(lines) : lines[i] = text.lines[n - Len(lines) + i]
    /\ \A k \in (n - Len(lines) + 1)..n : Above(text, k) = Above(text, n)

\* They become a unit.
LEMMA LinesFlushed ==
    ASSUME NEW text, IsText(text), NEW n, NEW lines, OpenLines(lines, text, n),
           NEW path, IsPath(path, text, n),
           NEW us, UnitsHold(us, text, n - Len(lines))
    PROVE  /\ lines # <<>> => UnitsHold(Append(us, UnitOf(lines, path)), text, n)
           /\ lines = <<>> => UnitsHold(us, text, n)
<1>1. /\ Len(text.lines) \in Nat /\ DOMAIN text.lines = 1..Len(text.lines)
      /\ n \in Nat /\ n <= Len(text.lines) /\ Len(lines) \in 0..n
  BY DEF IsText, OpenLines
<1>2. ASSUME lines = <<>> PROVE UnitsHold(us, text, n)
  <2>1. Len(lines) = 0
    BY <1>2
  <2>2. n - Len(lines) = n
    BY <1>1, <2>1
  <2> QED BY <2>2
<1>3. ASSUME lines # <<>> PROVE UnitsHold(Append(us, UnitOf(lines, path)), text, n)
  <2>1. Len(lines) # 0
    <3>1. PICK S : lines \in Seq(S)
      BY DEF OpenLines, IsSequence
    <3> QED BY <1>3, <3>1, EmptySeq
  <2> DEFINE a == n - Len(lines) + 1
             u == UnitOf(lines, path)
  <2>2. a \in 1..n /\ n \in DOMAIN text.lines /\ a - 1 = n - Len(lines)
    BY <1>1, <2>1
  <2>3. lines[1] = text.lines[a] /\ Last(lines) = text.lines[n]
    <3>1. \A i \in 1..Len(lines) : lines[i] = text.lines[n - Len(lines) + i]
      BY DEF OpenLines
    <3>2. 1 \in 1..Len(lines) /\ Len(lines) \in 1..Len(lines) /\ n - Len(lines) + Len(lines) = n
      BY <1>1, <2>1
    <3>3. lines[Len(lines)] = text.lines[n]
      BY <3>1, <3>2
    <3> QED BY <3>1, <3>2, <3>3 DEF Last
  <2>4. u.start = text.lines[a].start /\ u.end = text.lines[n].end /\ u.path = path
        /\ u.heading = FALSE
    BY <2>3 DEF UnitOf
  <2>5. \A k \in a..n : IsPath(u.path, text, k)
    <3>1. \A k \in a..n : Above(text, k) = Above(text, n)
      BY DEF OpenLines
    <3> QED BY <2>4, <3>1 DEF IsPath
  <2>6. UnitsHold(us, text, a - 1)
    BY <2>2
  <2>7. /\ u.heading \in BOOLEAN
        /\ u.heading => \A k \in a..n : k \notin Body(text)
    BY <2>4
  <2> HIDE DEF a, u
  <2>8. UnitsHold(Append(us, u), text, n)
    BY <2>2, <2>4, <2>5, <2>6, <2>7, UnitAdded
  <2> QED BY <2>8 DEF u
<1> QED BY <1>2, <1>3

-----------------------------------------------------------------------------
(* Reading a line.                                                          *)

ExtendsBy(text, grown, line) ==
    /\ IsText(text) /\ IsText(grown) /\ GrowsTo(text, grown)
    /\ Len(grown.lines) = Len(text.lines) + 1
    /\ grown.lines[Len(text.lines) + 1] = line

LEMMA TextExtended ==
    ASSUME NEW text, IsText(text), IsSequence(text.lines),
           NEW line \in Line, line.start <= line.end,
           Len(text.lines) # 0 => text.lines[Len(text.lines)].end < line.start,
           NEW grown, grown.media = text.media, grown.lines = Append(text.lines, line)
    PROVE  ExtendsBy(text, grown, line) /\ IsSequence(grown.lines)
<1> DEFINE n == Len(text.lines)
<1>1. /\ n \in Nat /\ DOMAIN text.lines = 1..n
      /\ \A k \in 1..n : text.lines[k] \in Line /\ text.lines[k].start <= text.lines[k].end
      /\ \A j, k \in 1..n : j < k => text.lines[j].end < text.lines[k].start
  BY DEF IsText
<1>2. /\ IsSequence(grown.lines)
      /\ Len(grown.lines) = n + 1 /\ DOMAIN grown.lines = 1..(n + 1)
      /\ \A k \in 1..n : grown.lines[k] = text.lines[k]
      /\ grown.lines[n + 1] = line
  BY AppendedTo
<1> HIDE DEF n
<1>3. \A k \in 1..(n + 1) : k \in 1..n \/ k = n + 1
  BY <1>1
<1>4. \A k \in 1..(n + 1) : grown.lines[k] \in Line /\ grown.lines[k].start <= grown.lines[k].end
  BY <1>1, <1>2, <1>3
<1>5. ASSUME NEW j \in 1..(n + 1), NEW k \in 1..(n + 1), j < k
      PROVE  grown.lines[j].end < grown.lines[k].start
  <2>1. j \in 1..n
    BY <1>1, <1>5
  <2>2. CASE k \in 1..n
    BY <1>1, <1>2, <1>5, <2>1, <2>2
  <2>3. CASE k = n + 1
    <3>1. n \in 1..n /\ n # 0 /\ (j = n \/ j < n)
      BY <1>1, <2>1
    <3>2. text.lines[n].end < line.start
      BY <3>1 DEF n
    <3>3. j < n => text.lines[j].end < text.lines[n].start
      BY <1>1, <2>1, <3>1
    <3>4. /\ text.lines[j].end \in Nat /\ text.lines[n].end \in Nat /\ text.lines[n].start \in Nat
          /\ text.lines[n].start <= text.lines[n].end /\ line.start \in Nat
      BY <1>1, <2>1, <3>1 DEF Line
    <3>5. \A a, b, c, d \in Nat : a < b /\ b <= c /\ c < d => a < d
      OBVIOUS
    <3>6. text.lines[j].end < line.start
      <4>1. CASE j = n
        BY <3>2, <4>1
      <4>2. CASE j < n
        BY <3>2, <3>3, <3>4, <3>5, <4>2
      <4> QED BY <3>1, <4>1, <4>2
    <3>7. grown.lines[j] = text.lines[j] /\ grown.lines[k] = line
      BY <1>2, <2>1, <2>3
    <3> QED BY <3>6, <3>7
  <2> QED BY <1>3, <2>2, <2>3
<1>6. IsText(grown)
  <2>1. grown.media \in {"markdown", "plain"}
    BY DEF IsText
  <2>2. Len(grown.lines) \in Nat
    BY <1>1, <1>2
  <2> QED BY <1>2, <1>4, <1>5, <2>1, <2>2 DEF IsText
<1>7. GrowsTo(text, grown)
  BY <1>1, <1>2 DEF GrowsTo, n
<1> QED BY <1>2, <1>6, <1>7 DEF ExtendsBy, n

\* What one more line leaves as it is.
LEMMA NextFence ==
    ASSUME NEW text, NEW grown, NEW line, ExtendsBy(text, grown, line)
    PROVE  /\ Len(text.lines) \in Nat /\ Len(text.lines) + 1 \in DOMAIN grown.lines
           /\ OpenBefore(grown.lines)[Len(text.lines) + 1] = OpenBefore(text.lines)[Len(text.lines) + 1]
           /\ OpenBefore(grown.lines)[Len(grown.lines) + 1] =
                FenceAfter(OpenBefore(text.lines)[Len(text.lines) + 1], line)
<1> DEFINE n == Len(text.lines)
<1>1. /\ n \in Nat /\ Len(grown.lines) = n + 1 /\ DOMAIN grown.lines = 1..(n + 1)
      /\ IsText(text) /\ IsText(grown) /\ GrowsTo(text, grown) /\ grown.lines[n + 1] = line
  BY DEF ExtendsBy, IsText
<1>2. n + 1 \in 1..(n + 1) /\ n + 1 \in Nat
  BY <1>1
<1>3. OpenBefore(grown.lines)[n + 1] = OpenBefore(text.lines)[n + 1]
  BY <1>1, <1>2, FencesStay
<1>4. \A k \in 1..Len(grown.lines) :
        OpenBefore(grown.lines)[k + 1] = FenceAfter(OpenBefore(grown.lines)[k], grown.lines[k])
  BY <1>1, <1>2, FencesFollow
<1>5. OpenBefore(grown.lines)[(n + 1) + 1] = FenceAfter(OpenBefore(grown.lines)[n + 1], line)
  BY <1>1, <1>2, <1>4
<1> HIDE DEF n
<1> QED BY <1>1, <1>2, <1>3, <1>5 DEF n

LEMMA AboveLast ==
    ASSUME NEW text, NEW grown, NEW line, ExtendsBy(text, grown, line)
    PROVE  /\ Above(grown, Len(text.lines)) = Above(text, Len(text.lines))
           /\ Len(text.lines) + 1 \notin Headings(grown) =>
                Above(grown, Len(text.lines) + 1) = Above(text, Len(text.lines))
<1> DEFINE n == Len(text.lines)
<1>1. /\ n \in Nat /\ Len(grown.lines) = n + 1 /\ DOMAIN grown.lines = 1..(n + 1)
      /\ DOMAIN text.lines = 1..n
      /\ IsText(text) /\ IsText(grown) /\ GrowsTo(text, grown)
  BY DEF ExtendsBy, IsText
<1>2. Above(grown, n) = Above(text, n)
  <2>1. CASE n = 0
    <3>1. \A i \in Headings(grown) : ~ (i <= 0)
      BY <1>1 DEF Headings
    <3>2. \A i \in Headings(text) : FALSE
      BY <1>1, <2>1 DEF Headings
    <3>3. Above(grown, 0) = {} /\ Above(text, 0) = {}
      BY <3>1, <3>2 DEF Above
    <3> QED BY <2>1, <3>3
  <2>2. CASE n # 0
    <3>1. n \in 1..n
      BY <1>1, <2>2
    <3> QED BY <1>1, <3>1, LinesStay
  <2> QED BY <2>1, <2>2
<1>3. n + 1 \notin Headings(grown) => Above(grown, n + 1) = Above(grown, n)
  BY <1>1, AboveNext
<1> QED BY <1>2, <1>3

LEMMA StackStays ==
    ASSUME NEW text, NEW grown, NEW line, ExtendsBy(text, grown, line),
           NEW st, StackTells(st, text, Len(text.lines))
    PROVE  /\ StackTells(st, grown, Len(text.lines))
           /\ Len(text.lines) + 1 \notin Headings(grown) => StackTells(st, grown, Len(text.lines) + 1)
<1>1. \A i \in Above(text, Len(text.lines)) : grown.lines[i] = text.lines[i]
  BY DEF Above, Headings, ExtendsBy, GrowsTo, IsText
<1>2. /\ Len(st) = Cardinality(Above(text, Len(text.lines))) /\ DOMAIN st = 1..Len(st)
      /\ \A i \in Above(text, Len(text.lines)) :
            st[UpTo(Above(text, Len(text.lines)), i)]
              = <<grown.lines[i].is.level, grown.lines[i].is.title>>
  BY <1>1 DEF StackTells
<1> QED BY <1>2, AboveLast DEF StackTells

\* Open lines go on to a line that is no heading.
LEMMA OpenGoOn ==
    ASSUME NEW text, NEW grown, NEW line, ExtendsBy(text, grown, line),
           Len(text.lines) + 1 \notin Headings(grown),
           NEW lines, OpenLines(lines, text, Len(text.lines))
    PROVE  OpenLines(Append(lines, line), grown, Len(text.lines) + 1)
<1> DEFINE n == Len(text.lines)
           q == Len(lines)
           longer == Append(lines, line)
<1>1. /\ n \in Nat /\ Len(grown.lines) = n + 1 /\ DOMAIN grown.lines = 1..(n + 1)
      /\ IsText(text) /\ IsText(grown) /\ GrowsTo(text, grown) /\ grown.lines[n + 1] = line
      /\ \A k \in 1..n : grown.lines[k] = text.lines[k]
  BY DEF ExtendsBy, IsText, GrowsTo
<1>2. /\ IsSequence(lines) /\ q \in 0..n
      /\ \A i \in 1..q : lines[i] = text.lines[n - q + i]
      /\ \A k \in (n - q + 1)..n : Above(text, k) = Above(text, n)
  BY DEF OpenLines
<1>3. /\ IsSequence(longer) /\ Len(longer) = q + 1
      /\ \A i \in 1..q : longer[i] = lines[i]
      /\ longer[q + 1] = line
  BY <1>2, AppendedTo
<1>4. Above(grown, n + 1) = Above(text, n)
  BY AboveLast
<1>5. \A k \in 1..n : Above(grown, k) = Above(text, k)
  BY <1>1, LinesStay
<1> HIDE DEF n, q, longer
<1>6. ASSUME NEW i \in 1..(q + 1) PROVE longer[i] = grown.lines[(n + 1) - (q + 1) + i]
  <2>1. CASE i \in 1..q
    <3>1. n - q + i \in 1..n /\ (n + 1) - (q + 1) + i = n - q + i
      BY <1>1, <1>2, <2>1
    <3> QED BY <1>1, <1>2, <1>3, <2>1, <3>1
  <2>2. CASE i = q + 1
    <3>1. (n + 1) - (q + 1) + i = n + 1
      BY <1>1, <1>2, <2>2
    <3> QED BY <1>1, <1>3, <2>2, <3>1
  <2> QED BY <1>2, <2>1, <2>2
<1>7. ASSUME NEW k \in ((n + 1) - (q + 1) + 1)..(n + 1) PROVE Above(grown, k) = Above(grown, n + 1)
  <2>1. CASE k = n + 1
    BY <2>1
  <2>2. CASE k # n + 1
    <3>1. k \in (n - q + 1)..n /\ k \in 1..n
      BY <1>1, <1>2, <2>2
    <3> QED BY <1>2, <1>4, <1>5, <3>1
  <2> QED BY <2>1, <2>2
<1>8. n + 1 \in 0..Len(grown.lines) /\ Len(longer) \in 0..(n + 1)
  BY <1>1, <1>2, <1>3
<1>9. OpenLines(longer, grown, n + 1)
  BY <1>3, <1>6, <1>7, <1>8 DEF OpenLines
<1> QED BY <1>9 DEF n, longer

\* What the variables say of the text while lines are read.
LinesHold(text, fen, st, pend, fenc, us) ==
    /\ IsText(text) /\ IsSequence(text.lines)
    /\ fen = IF text.media = "markdown"
             THEN OpenBefore(text.lines)[Len(text.lines) + 1] ELSE NoFence
    /\ IsSequence(st) /\ StackTells(st, text, Len(text.lines))
    /\ fen = NoFence => /\ fenc = <<>>
                        /\ OpenLines(pend, text, Len(text.lines))
                        /\ UnitsHold(us, text, Len(text.lines) - Len(pend))
    /\ fen # NoFence => /\ pend = <<>> /\ fenc # <<>>
                        /\ OpenLines(fenc, text, Len(text.lines))
                        /\ UnitsHold(us, text, Len(text.lines) - Len(fenc))

LEMMA NoneOpen ==
    ASSUME NEW text, NEW n \in 0..Len(text.lines), Len(text.lines) \in Nat
    PROVE  OpenLines(<<>>, text, n) /\ n - Len(<<>>) = n
<1>1. Len(<<>>) = 0 /\ IsSequence(<<>>)
  BY EmptySeq DEF IsSequence
<1>2. \A k : k \notin (n + 1)..n
  OBVIOUS
<1>3. n - 0 + 1 = n + 1 /\ n - 0 = n
  OBVIOUS
<1> QED BY <1>1, <1>2, <1>3 DEF OpenLines

LEMMA NoFenceIsText ==
    ASSUME NEW kind \in LineKinds, kind.kind = "fence", NEW run
    PROVE  [char |-> kind.char, run |-> run] # NoFence
<1>1. kind.char # "none"
  BY KindsAreWellFormed
<1>2. [char |-> kind.char, run |-> run].char = kind.char /\ NoFence.char = "none"
  BY DEF NoFence
<1> QED BY <1>1, <1>2

LEMMA ReadsFenced ==
    ASSUME NEW text, NEW grown, NEW line, ExtendsBy(text, grown, line), IsSequence(grown.lines),
           NEW fen, NEW st, NEW pend, NEW fenc, NEW us,
           LinesHold(text, fen, st, pend, fenc, us),
           text.media = "markdown", fen # NoFence
    PROVE  /\ ClosesFence(line, fen) =>
                LinesHold(grown, NoFence, st, pend, <<>>,
                          Append(us, UnitOf(Append(fenc, line), PathOf(st))))
           /\ ~ ClosesFence(line, fen) => LinesHold(grown, fen, st, pend, Append(fenc, line), us)
<1> DEFINE n == Len(text.lines)
<1>1. /\ n \in Nat /\ Len(grown.lines) = n + 1 /\ DOMAIN grown.lines = 1..(n + 1)
      /\ IsText(text) /\ IsText(grown) /\ GrowsTo(text, grown)
      /\ grown.media = "markdown"
  BY DEF ExtendsBy, IsText, GrowsTo
<1>2. /\ fen = OpenBefore(text.lines)[n + 1]
      /\ IsSequence(st) /\ StackTells(st, text, n)
      /\ pend = <<>> /\ fenc # <<>> /\ OpenLines(fenc, text, n)
      /\ UnitsHold(us, text, n - Len(fenc))
  BY DEF LinesHold
<1>3. /\ OpenBefore(grown.lines)[n + 1] = fen
      /\ OpenBefore(grown.lines)[Len(grown.lines) + 1] = FenceAfter(fen, line)
  BY <1>2, NextFence
<1>4. n + 1 \notin Headings(grown)
  BY <1>3 DEF Headings
<1>5. StackTells(st, grown, n + 1)
  BY <1>2, <1>4, StackStays
<1>6. OpenLines(Append(fenc, line), grown, n + 1)
  BY <1>2, <1>4, OpenGoOn
<1>7. UnitsHold(us, grown, n - Len(fenc))
  BY <1>1, <1>2, UnitsStay
<1>8. /\ Len(fenc) \in Nat /\ Len(Append(fenc, line)) = Len(fenc) + 1 /\ Append(fenc, line) # <<>>
      /\ (n + 1) - Len(Append(fenc, line)) = n - Len(fenc)
  <2>1. IsSequence(fenc)
    BY <1>2 DEF OpenLines
  <2>2. /\ Len(fenc) \in Nat /\ Len(Append(fenc, line)) = Len(fenc) + 1
        /\ Append(fenc, line) # <<>>
    BY <2>1, AppendedTo
  <2> QED BY <1>1, <2>2
<1>9. IsPath(PathOf(st), grown, n + 1)
  <2>1. n + 1 \in Nat
    BY <1>1
  <2> QED BY <1>1, <1>5, <2>1, StackIsPath
<1>10. ASSUME ClosesFence(line, fen)
       PROVE  LinesHold(grown, NoFence, st, pend, <<>>,
                        Append(us, UnitOf(Append(fenc, line), PathOf(st))))
  <2>1. OpenBefore(grown.lines)[Len(grown.lines) + 1] = NoFence
    BY <1>3, <1>10 DEF FenceAfter
  <2>2. UnitsHold(Append(us, UnitOf(Append(fenc, line), PathOf(st))), grown, n + 1)
    BY <1>1, <1>6, <1>7, <1>8, <1>9, LinesFlushed
  <2>3. OpenLines(<<>>, grown, n + 1) /\ (n + 1) - Len(<<>>) = n + 1
    BY <1>1, NoneOpen
  <2> HIDE DEF n
  <2> QED BY <1>1, <1>2, <1>5, <2>1, <2>2, <2>3 DEF LinesHold
<1>11. ASSUME ~ ClosesFence(line, fen)
       PROVE  LinesHold(grown, fen, st, pend, Append(fenc, line), us)
  <2>1. OpenBefore(grown.lines)[Len(grown.lines) + 1] = fen
    BY <1>3, <1>11 DEF FenceAfter
  <2> HIDE DEF n
  <2> QED BY <1>1, <1>2, <1>5, <1>6, <1>7, <1>8, <2>1 DEF LinesHold
<1> QED BY <1>10, <1>11

\* A line outside a fence: what every such line finds.
LEMMA OutsideFence ==
    ASSUME NEW text, NEW grown, NEW line, ExtendsBy(text, grown, line), IsSequence(grown.lines),
           NEW st, NEW pend, NEW fenc, NEW us,
           LinesHold(text, NoFence, st, pend, fenc, us)
    PROVE  /\ Len(text.lines) \in Nat /\ Len(grown.lines) = Len(text.lines) + 1
           /\ Len(text.lines) + 1 \in DOMAIN grown.lines
           /\ grown.lines[Len(text.lines) + 1] = line
           /\ IsText(grown) /\ grown.media = text.media /\ grown.media \in {"markdown", "plain"}
           /\ grown.media = "markdown" =>
                /\ OpenBefore(grown.lines)[Len(text.lines) + 1] = NoFence
                /\ OpenBefore(grown.lines)[Len(grown.lines) + 1] = FenceAfter(NoFence, line)
           /\ IsSequence(st)
           /\ StackTells(st, grown, Len(text.lines))
           /\ Len(text.lines) + 1 \notin Headings(grown) => StackTells(st, grown, Len(text.lines) + 1)
           /\ fenc = <<>> /\ IsSequence(pend) /\ Len(pend) \in Nat
           /\ OpenLines(pend, text, Len(text.lines))
           /\ UnitsHold(us, grown, Len(text.lines) - Len(pend))
           /\ UnitsHold(IF pend = <<>> THEN us ELSE Append(us, UnitOf(pend, PathOf(st))),
                        grown, Len(text.lines))
<1> DEFINE n == Len(text.lines)
<1>1. /\ n \in Nat /\ Len(grown.lines) = n + 1 /\ DOMAIN grown.lines = 1..(n + 1)
      /\ IsText(text) /\ IsText(grown) /\ GrowsTo(text, grown)
      /\ grown.media = text.media /\ grown.media \in {"markdown", "plain"}
      /\ grown.lines[n + 1] = line
  BY DEF ExtendsBy, IsText, GrowsTo
<1>2. /\ text.media = "markdown" => OpenBefore(text.lines)[n + 1] = NoFence
      /\ IsSequence(st) /\ StackTells(st, text, n)
      /\ fenc = <<>> /\ OpenLines(pend, text, n)
      /\ UnitsHold(us, text, n - Len(pend))
  BY DEF LinesHold
<1>3. grown.media = "markdown" =>
        /\ OpenBefore(grown.lines)[n + 1] = NoFence
        /\ OpenBefore(grown.lines)[Len(grown.lines) + 1] = FenceAfter(NoFence, line)
  BY <1>1, <1>2, NextFence
<1>4. /\ StackTells(st, grown, n)
      /\ n + 1 \notin Headings(grown) => StackTells(st, grown, n + 1)
  BY <1>2, StackStays
<1>5. IsSequence(pend) /\ Len(pend) \in Nat
  BY <1>1, <1>2 DEF OpenLines
<1>6. UnitsHold(us, grown, n - Len(pend))
  BY <1>1, <1>2, UnitsStay
<1>7. IsPath(PathOf(st), text, n)
  BY <1>1, <1>2, StackIsPath
<1>8. UnitsHold(IF pend = <<>> THEN us ELSE Append(us, UnitOf(pend, PathOf(st))), text, n)
  BY <1>1, <1>2, <1>7, LinesFlushed
<1>9. UnitsHold(IF pend = <<>> THEN us ELSE Append(us, UnitOf(pend, PathOf(st))), grown, n)
  BY <1>1, <1>8, UnitsStay
<1>10. n + 1 \in DOMAIN grown.lines
  BY <1>1
<1> QED BY <1>1, <1>2, <1>3, <1>4, <1>5, <1>6, <1>9, <1>10

LEMMA ReadsOpening ==
    ASSUME NEW text, NEW grown, NEW line \in Line, ExtendsBy(text, grown, line),
           IsSequence(grown.lines),
           NEW st, NEW pend, NEW fenc, NEW us,
           LinesHold(text, NoFence, st, pend, fenc, us),
           text.media = "markdown", OpensFence(line)
    PROVE  LinesHold(grown, [char |-> line.is.char, run |-> line.is.run], st, <<>>, <<line>>,
                     IF pend = <<>> THEN us ELSE Append(us, UnitOf(pend, PathOf(st))))
<1> DEFINE n == Len(text.lines)
           fen == [char |-> line.is.char, run |-> line.is.run]
           flushed == IF pend = <<>> THEN us ELSE Append(us, UnitOf(pend, PathOf(st)))
<1>1. /\ n \in Nat /\ Len(grown.lines) = n + 1 /\ DOMAIN grown.lines = 1..(n + 1)
      /\ grown.lines[n + 1] = line
      /\ IsText(grown) /\ grown.media = "markdown"
      /\ OpenBefore(grown.lines)[Len(grown.lines) + 1] = FenceAfter(NoFence, line)
      /\ IsSequence(st)
      /\ n + 1 \notin Headings(grown) => StackTells(st, grown, n + 1)
      /\ UnitsHold(flushed, grown, n)
  <2>1. n \in Nat /\ DOMAIN grown.lines = 1..Len(grown.lines)
    BY DEF ExtendsBy, IsText
  <2> QED BY <2>1, OutsideFence
<1>2. line.is.kind = "fence" /\ line.is \in LineKinds
  BY DEF OpensFence, Line
<1>3. fen # NoFence
  BY <1>2, NoFenceIsText
<1>4. FenceAfter(NoFence, line) = fen
  BY DEF FenceAfter
<1>5. n + 1 \notin Headings(grown)
  BY <1>1, <1>2 DEF Headings, IsHeading
<1> HIDE DEF flushed, fen
<1>6. OpenLines(<<line>>, grown, n + 1) /\ (n + 1) - Len(<<line>>) = n
  <2>1. /\ IsSequence(<<line>>) /\ Len(<<line>>) = 1 /\ <<line>>[1] = line
    <3>1. <<line>> \in Seq(Line)
      OBVIOUS
    <3> QED BY <3>1 DEF IsSequence
  <2>2. (n + 1) - 1 + 1 = n + 1 /\ 1 \in 0..(n + 1) /\ n + 1 \in 0..Len(grown.lines)
        /\ (n + 1) - 1 = n
    BY <1>1
  <2>3. \A i \in 1..1 : i = 1
    OBVIOUS
  <2>4. \A k \in (n + 1)..(n + 1) : k = n + 1
    BY <1>1
  <2> HIDE DEF n
  <2>5. \A i \in 1..Len(<<line>>) : <<line>>[i] = grown.lines[(n + 1) - Len(<<line>>) + i]
    BY <1>1, <2>1, <2>2, <2>3
  <2>6. \A k \in ((n + 1) - Len(<<line>>) + 1)..(n + 1) : Above(grown, k) = Above(grown, n + 1)
    BY <2>1, <2>2, <2>4
  <2> QED BY <2>1, <2>2, <2>5, <2>6 DEF OpenLines
<1>7. <<line>> # <<>>
  OBVIOUS
<1> HIDE DEF n
<1>8. LinesHold(grown, fen, st, <<>>, <<line>>, flushed)
  BY <1>1, <1>3, <1>4, <1>5, <1>6, <1>7 DEF LinesHold
<1> QED BY <1>8 DEF fen, flushed

LEMMA ReadsBlank ==
    ASSUME NEW text, NEW grown, NEW line \in Line, ExtendsBy(text, grown, line),
           IsSequence(grown.lines),
           NEW st, NEW pend, NEW fenc, NEW us,
           LinesHold(text, NoFence, st, pend, fenc, us),
           IsBlank(line)
    PROVE  LinesHold(grown, NoFence, st, <<>>, fenc,
                     IF pend = <<>> THEN us ELSE Append(us, UnitOf(pend, PathOf(st))))
<1> DEFINE n == Len(text.lines)
           flushed == IF pend = <<>> THEN us ELSE Append(us, UnitOf(pend, PathOf(st)))
<1>1. /\ n \in Nat /\ Len(grown.lines) = n + 1 /\ n + 1 \in DOMAIN grown.lines
      /\ grown.lines[n + 1] = line
      /\ IsText(grown)
      /\ grown.media = "markdown" =>
           /\ OpenBefore(grown.lines)[n + 1] = NoFence
           /\ OpenBefore(grown.lines)[Len(grown.lines) + 1] = FenceAfter(NoFence, line)
      /\ IsSequence(st) /\ fenc = <<>>
      /\ n + 1 \notin Headings(grown) => StackTells(st, grown, n + 1)
      /\ UnitsHold(flushed, grown, n)
  BY OutsideFence
<1>2. ~ OpensFence(line) /\ ~ IsHeading(line)
  BY DEF OpensFence, IsBlank, IsHeading
<1>3. FenceAfter(NoFence, line) = NoFence
  BY <1>2 DEF FenceAfter
<1>4. n + 1 \notin Headings(grown) /\ n + 1 \notin Said(grown)
  BY <1>1, <1>2 DEF Said, Headings, Body, IsCode
<1> HIDE DEF flushed
<1>5. UnitsHold(flushed, grown, n + 1)
  BY <1>1, <1>4, LineSkipped
<1>6. OpenLines(<<>>, grown, n + 1) /\ (n + 1) - Len(<<>>) = n + 1
  <2>1. n + 1 \in 0..Len(grown.lines) /\ Len(grown.lines) \in Nat
    BY <1>1
  <2> QED BY <2>1, NoneOpen
<1> HIDE DEF n
<1>7. LinesHold(grown, NoFence, st, <<>>, fenc, flushed)
  BY <1>1, <1>3, <1>4, <1>5, <1>6 DEF LinesHold
<1> QED BY <1>7 DEF flushed

LEMMA ReadsText ==
    ASSUME NEW text, NEW grown, NEW line \in Line, ExtendsBy(text, grown, line),
           IsSequence(grown.lines),
           NEW st, NEW pend, NEW fenc, NEW us,
           LinesHold(text, NoFence, st, pend, fenc, us),
           text.media = "markdown" => ~ OpensFence(line) /\ ~ IsHeading(line)
    PROVE  LinesHold(grown, NoFence, st, Append(pend, line), fenc, us)
<1> DEFINE n == Len(text.lines)
<1>1. /\ n \in Nat /\ Len(grown.lines) = n + 1 /\ n + 1 \in DOMAIN grown.lines
      /\ grown.lines[n + 1] = line
      /\ IsText(grown) /\ grown.media = text.media
      /\ grown.media = "markdown" =>
           OpenBefore(grown.lines)[Len(grown.lines) + 1] = FenceAfter(NoFence, line)
      /\ IsSequence(st) /\ fenc = <<>> /\ IsSequence(pend) /\ Len(pend) \in Nat
      /\ n + 1 \notin Headings(grown) => StackTells(st, grown, n + 1)
      /\ OpenLines(pend, text, n)
      /\ UnitsHold(us, grown, n - Len(pend))
  BY OutsideFence
<1>2. text.media = "markdown" => FenceAfter(NoFence, line) = NoFence
  BY DEF FenceAfter
<1>3. n + 1 \notin Headings(grown)
  BY <1>1 DEF Headings
<1>4. OpenLines(Append(pend, line), grown, n + 1)
  BY <1>1, <1>3, OpenGoOn
<1>5. Len(Append(pend, line)) = Len(pend) + 1
  BY <1>1, AppendedTo
<1>6. (n + 1) - Len(Append(pend, line)) = n - Len(pend)
  BY <1>1, <1>5
<1> HIDE DEF n
<1> QED BY <1>1, <1>2, <1>3, <1>4, <1>6 DEF LinesHold

LEMMA ReadsHeading ==
    ASSUME NEW text, NEW grown, NEW line \in Line, ExtendsBy(text, grown, line),
           IsSequence(grown.lines),
           NEW st, NEW pend, NEW fenc, NEW us,
           LinesHold(text, NoFence, st, pend, fenc, us),
           text.media = "markdown", IsHeading(line), NEW keep,
           keep = Max({0} \cup {i \in DOMAIN st : st[i][1] < line.is.level}),
           NEW pushed,
           pushed = Append(SubSeq(st, 1, keep), <<line.is.level, line.is.title>>)
    PROVE  LinesHold(grown, NoFence, pushed, <<>>, fenc,
                     Append(IF pend = <<>> THEN us ELSE Append(us, UnitOf(pend, PathOf(st))),
                            [start |-> line.start, end |-> line.end,
                             path |-> PathOf(pushed), heading |-> TRUE]))
<1> DEFINE n == Len(text.lines)
           flushed == IF pend = <<>> THEN us ELSE Append(us, UnitOf(pend, PathOf(st)))
           u == [start |-> line.start, end |-> line.end, path |-> PathOf(pushed), heading |-> TRUE]
<1>1. /\ n \in Nat /\ Len(grown.lines) = n + 1 /\ n + 1 \in DOMAIN grown.lines
      /\ grown.lines[n + 1] = line
      /\ IsText(grown) /\ grown.media = "markdown"
      /\ OpenBefore(grown.lines)[n + 1] = NoFence
      /\ OpenBefore(grown.lines)[Len(grown.lines) + 1] = FenceAfter(NoFence, line)
      /\ IsSequence(st) /\ fenc = <<>>
      /\ StackTells(st, grown, n)
      /\ UnitsHold(flushed, grown, n)
  BY OutsideFence
<1>2. ~ OpensFence(line)
  BY DEF OpensFence, IsHeading
<1>3. FenceAfter(NoFence, line) = NoFence
  BY <1>2 DEF FenceAfter
<1>4. n + 1 \in Headings(grown)
  BY <1>1 DEF Headings
<1>5. n + 1 \notin Body(grown)
  BY <1>1, <1>2, <1>4 DEF Body, IsCode
<1> HIDE DEF flushed
<1>6. IsSequence(pushed) /\ StackTells(pushed, grown, n + 1)
  <2>1. PICK S : st \in Seq(S)
    BY <1>1 DEF IsSequence
  <2> DEFINE level == line.is.level
             title == line.is.title
             entry == <<level, title>>
             T == S \cup {entry}
             above == {i \in DOMAIN st : st[i][1] < level}
  <2>2. st \in Seq(T) /\ entry \in T
    BY <2>1
  <2>3. level = grown.lines[n + 1].is.level /\ title = grown.lines[n + 1].is.title
    BY <1>1
  <2>4. /\ keep = Max({0} \cup above) /\ above \in SUBSET DOMAIN st /\ AreAbove(above, st, level)
        /\ IsPushed(pushed, st, keep, entry) /\ IsEntry(entry, level, title)
    BY DEF AreAbove, IsPushed, IsEntry
  <2> HIDE DEF T, above, entry, level, title, n
  <2>5. pushed \in Seq(T) /\ StackTells(pushed, grown, n + 1)
    BY <1>1, <1>4, <2>2, <2>3, <2>4, PushedTells
  <2> QED BY <2>5 DEF IsSequence
<1>7. IsPath(PathOf(pushed), grown, n + 1)
  <2>1. n + 1 \in Nat
    BY <1>1
  <2> QED BY <1>1, <1>6, <2>1, StackIsPath
<1>8. UnitsHold(Append(flushed, u), grown, n + 1)
  <2>1. /\ u.start = grown.lines[n + 1].start /\ u.end = grown.lines[n + 1].end
        /\ u.path = PathOf(pushed) /\ u.heading = TRUE
    BY <1>1
  <2>2. \A k \in (n + 1)..(n + 1) : k = n + 1
    BY <1>1
  <2>3. n + 1 \in 1..(n + 1) /\ (n + 1) - 1 = n
    BY <1>1
  <2> DEFINE a == n + 1
  <2>4. /\ a \in DOMAIN grown.lines /\ a \in 1..a /\ a - 1 = n
        /\ u.start = grown.lines[a].start /\ u.end = grown.lines[a].end
        /\ \A k \in a..a : IsPath(u.path, grown, k)
        /\ u.heading \in BOOLEAN
        /\ u.heading => \A k \in a..a : k \notin Body(grown)
    BY <1>1, <1>5, <1>7, <2>1, <2>2, <2>3
  <2> HIDE DEF a, u, n
  <2>5. UnitsHold(flushed, grown, a - 1)
    BY <1>1, <2>4
  <2>6. UnitsHold(Append(flushed, u), grown, a)
    BY <1>1, <2>4, <2>5, UnitAdded
  <2> QED BY <2>6 DEF a
<1>9. OpenLines(<<>>, grown, n + 1) /\ (n + 1) - Len(<<>>) = n + 1
  <2>1. n + 1 \in 0..Len(grown.lines) /\ Len(grown.lines) \in Nat
    BY <1>1
  <2> QED BY <2>1, NoneOpen
<1> HIDE DEF n, u
<1>10. LinesHold(grown, NoFence, pushed, <<>>, fenc, Append(flushed, u))
  BY <1>1, <1>3, <1>6, <1>8, <1>9 DEF LinesHold
<1> QED BY <1>10 DEF flushed, u

LinesInv == LinesHold(Text, fence, stack, pending, fenced, units)

\* A step that reads a line keeps what the variables say of the text.
LEMMA LinesRead ==
    ASSUME LinesInv, ReadLine
    PROVE  LinesInv'
<1>1. PICK kind \in LineKinds :
         /\ doc' = Append(doc, LineAt(kind))
         /\ \/ FencedLine(LineAt(kind)) \/ OpeningLine(LineAt(kind)) \/ BlankLine(LineAt(kind))
            \/ HeadingLine(LineAt(kind)) \/ TextLine(LineAt(kind))
  BY DEF ReadLine
<1> DEFINE line == LineAt(kind)
           text == Text
           grown == [media |-> media', lines |-> doc']
<1>2. /\ IsText(text) /\ IsSequence(text.lines)
      /\ text.media = media /\ text.lines = doc
      /\ grown.media = text.media /\ grown.lines = Append(text.lines, line)
  BY <1>1 DEF LinesInv, LinesHold, Text, ReadLine
<1>3. /\ line \in Line /\ line.start <= line.end /\ line.is = kind
      /\ Len(text.lines) # 0 => text.lines[Len(text.lines)].end < line.start
  <2>0. kind.size \in Nat
    BY KindsAreWellFormed
  <2>1. Len(doc) \in Nat /\ DOMAIN doc = 1..Len(doc) /\ (doc = <<>> <=> Len(doc) = 0)
    <3>1. PICK S : doc \in Seq(S)
      BY <1>2 DEF IsSequence
    <3> QED BY <3>1, EmptySeq
  <2>2. CASE Len(doc) = 0
    <3>1. line = [start |-> 0, end |-> 0 + kind.size, is |-> kind]
      BY <2>1, <2>2 DEF LineAt
    <3> QED BY <1>2, <2>0, <2>2, <3>1 DEF Line
  <2>3. CASE Len(doc) # 0
    <3>1. Len(doc) \in DOMAIN doc
      BY <2>1, <2>3
    <3>2. doc[Len(doc)].end \in Nat
      BY <1>2, <3>1 DEF IsText, Line
    <3>3. line = [start |-> doc[Len(doc)].end + 1,
                  end |-> doc[Len(doc)].end + 1 + kind.size, is |-> kind]
      BY <2>1, <2>3 DEF LineAt, Last
    <3> QED BY <1>2, <2>0, <3>2, <3>3 DEF Line
  <2> QED BY <2>2, <2>3
<1> HIDE DEF line, grown
<1>4. ExtendsBy(text, grown, line) /\ IsSequence(grown.lines)
  <2> HIDE DEF text
  <2> QED BY <1>2, <1>3, TextExtended
<1>5. LinesHold(text, fence, stack, pending, fenced, units)
  BY DEF LinesInv
<1>6. Path = PathOf(stack)
  BY DEF Path, PathOf
<1>7. WithParagraph = IF pending = <<>> THEN units ELSE Append(units, UnitOf(pending, PathOf(stack)))
  BY <1>6 DEF WithParagraph
<1> SUFFICES LinesHold(grown, fence', stack', pending', fenced', units')
  BY DEF LinesInv, Text, grown
<1> HIDE DEF text
<1>8. CASE FencedLine(line)
  <2>1. media = "markdown" /\ fence # NoFence /\ stack' = stack /\ pending' = pending
    BY <1>8 DEF FencedLine
  <2>2. CASE ClosesFence(line, fence)
    <3>1. /\ units' = Append(units, UnitOf(Append(fenced, line), PathOf(stack)))
          /\ fence' = NoFence /\ fenced' = <<>>
      BY <1>6, <1>8, <2>2 DEF FencedLine
    <3>2. LinesHold(grown, NoFence, stack, pending, <<>>,
                    Append(units, UnitOf(Append(fenced, line), PathOf(stack))))
      BY <1>2, <1>4, <1>5, <2>1, <2>2, ReadsFenced
    <3> QED BY <2>1, <3>1, <3>2
  <2>3. CASE ~ ClosesFence(line, fence)
    <3>1. fenced' = Append(fenced, line) /\ units' = units /\ fence' = fence
      BY <1>8, <2>3 DEF FencedLine
    <3>2. LinesHold(grown, fence, stack, pending, Append(fenced, line), units)
      BY <1>2, <1>4, <1>5, <2>1, <2>3, ReadsFenced
    <3> QED BY <2>1, <3>1, <3>2
  <2> QED BY <2>2, <2>3
<1>9. CASE OpeningLine(line)
  <2>1. /\ media = "markdown" /\ fence = NoFence /\ OpensFence(line)
        /\ units' = WithParagraph /\ pending' = <<>> /\ stack' = stack
        /\ fence' = [char |-> line.is.char, run |-> line.is.run] /\ fenced' = <<line>>
    BY <1>9 DEF OpeningLine
  <2>2. LinesHold(grown, [char |-> line.is.char, run |-> line.is.run], stack, <<>>, <<line>>,
                  WithParagraph)
    BY <1>2, <1>3, <1>4, <1>5, <1>7, <2>1, ReadsOpening
  <2> QED BY <2>1, <2>2
<1>10. CASE BlankLine(line)
  <2>1. /\ fence = NoFence /\ IsBlank(line) /\ units' = WithParagraph /\ pending' = <<>>
        /\ stack' = stack /\ fence' = fence /\ fenced' = fenced
    BY <1>10 DEF BlankLine
  <2>2. LinesHold(grown, NoFence, stack, <<>>, fenced, WithParagraph)
    BY <1>2, <1>3, <1>4, <1>5, <1>7, <2>1, ReadsBlank
  <2> QED BY <2>1, <2>2
<1>11. CASE HeadingLine(line)
  <2>1. /\ media = "markdown" /\ fence = NoFence /\ IsHeading(line)
        /\ stack' = Append(PopTo(line.is.level), <<line.is.level, line.is.title>>)
        /\ units' = Append(WithParagraph, [start |-> line.start, end |-> line.end,
                                           path |-> Path', heading |-> TRUE])
        /\ pending' = <<>> /\ fence' = fence /\ fenced' = fenced
    BY <1>11 DEF HeadingLine
  <2>2. Path' = PathOf(stack')
    BY DEF Path, PathOf
  <2> DEFINE keep == Max({0} \cup {i \in DOMAIN stack : stack[i][1] < line.is.level})
             pushed == Append(SubSeq(stack, 1, keep), <<line.is.level, line.is.title>>)
             flushed == WithParagraph
  <2>3. stack' = pushed
    BY <2>1 DEF PopTo
  <2>4. /\ keep = Max({0} \cup {i \in DOMAIN stack : stack[i][1] < line.is.level})
        /\ pushed = Append(SubSeq(stack, 1, keep), <<line.is.level, line.is.title>>)
    OBVIOUS
  <2> HIDE DEF keep, pushed
  <2>5. LinesHold(grown, NoFence, pushed, <<>>, fenced,
                  Append(flushed, [start |-> line.start, end |-> line.end,
                                   path |-> PathOf(pushed), heading |-> TRUE]))
    BY <1>2, <1>3, <1>4, <1>5, <1>7, <2>1, <2>4, ReadsHeading
  <2> QED BY <2>1, <2>2, <2>3, <2>5
<1>12. CASE TextLine(line)
  <2>1. /\ fence = NoFence /\ ~ IsBlank(line)
        /\ media = "markdown" => ~ OpensFence(line) /\ ~ IsHeading(line)
        /\ pending' = Append(pending, line)
        /\ stack' = stack /\ fence' = fence /\ fenced' = fenced /\ units' = units
    BY <1>12 DEF TextLine
  <2>2. LinesHold(grown, NoFence, stack, Append(pending, line), fenced, units)
    BY <1>2, <1>3, <1>4, <1>5, <2>1, ReadsText
  <2> QED BY <2>1, <2>2
<1> QED BY <1>1, <1>8, <1>9, <1>10, <1>11, <1>12 DEF line

\* The text ends: every unit is there.
LEMMA TextEnds ==
    ASSUME LinesInv
    PROVE  UnitsHold(IF fence # NoFence THEN Append(units, UnitOf(fenced, Path)) ELSE WithParagraph,
                     Text, Len(doc))
<1> DEFINE text == Text
<1>1. text.lines = doc /\ text.media = media
  BY DEF Text
<1>2. LinesHold(text, fence, stack, pending, fenced, units)
  BY DEF LinesInv
<1>3. Path = PathOf(stack)
  BY DEF Path, PathOf
<1> HIDE DEF text
<1>4. IsText(text) /\ Len(doc) \in Nat /\ StackTells(stack, text, Len(doc))
  BY <1>1, <1>2 DEF LinesHold, IsText
<1>5. IsPath(Path, text, Len(doc))
  BY <1>3, <1>4, StackIsPath
<1>6. CASE fence # NoFence
  <2>1. /\ fenced # <<>> /\ OpenLines(fenced, text, Len(doc))
        /\ UnitsHold(units, text, Len(doc) - Len(fenced))
    BY <1>1, <1>2, <1>6 DEF LinesHold
  <2>2. UnitsHold(Append(units, UnitOf(fenced, Path)), text, Len(doc))
    BY <1>4, <1>5, <2>1, LinesFlushed
  <2> QED BY <1>6, <2>2 DEF text
<1>7. CASE fence = NoFence
  <2>1. /\ OpenLines(pending, text, Len(doc))
        /\ UnitsHold(units, text, Len(doc) - Len(pending))
    BY <1>1, <1>2, <1>7 DEF LinesHold
  <2>2. UnitsHold(WithParagraph, text, Len(doc))
    BY <1>4, <1>5, <2>1, LinesFlushed DEF WithParagraph
  <2> QED BY <1>7, <2>2 DEF text
<1> QED BY <1>6, <1>7

-----------------------------------------------------------------------------
(* Units make sections.                                                     *)

\* A set of numbers that is bounded has a greatest.
LEMMA MaxOf ==
    ASSUME NEW S \in SUBSET Nat, NEW x \in S, NEW bound \in Nat, \A y \in S : y <= bound
    PROVE  Max(S) \in S /\ \A y \in S : y <= Max(S)
<1> DEFINE above == {m \in Nat : \A y \in S : y <= m}
<1>1. above \in SUBSET Nat /\ bound \in above
  OBVIOUS
<1>2. PICK m \in above : \A q \in above : m <= q
  <2> HIDE DEF above
  <2> QED BY <1>1, LeastNatural
<1>3. m \in Nat /\ \A y \in S : y <= m /\ y \in Nat
  OBVIOUS
<1>4. m \in S
  <2> SUFFICES ASSUME m \notin S PROVE FALSE
    OBVIOUS
  <2>1. \A y \in S : y # m
    OBVIOUS
  <2>2. \A y \in S : y <= m - 1
    BY <1>3, <2>1
  <2>3. m - 1 \in Nat
    BY <1>3, <2>1
  <2>4. m - 1 \in above
    BY <2>2, <2>3
  <2> HIDE DEF above
  <2>5. m <= m - 1
    BY <1>2, <2>4
  <2> QED BY <1>3, <2>5
<1>5. \A z \in S : (\A y \in S : z >= y) <=> z = m
  BY <1>3, <1>4
<1>6. Max(S) = CHOOSE z \in S : \A y \in S : z >= y
  BY DEF Max
<1>7. Max(S) = m
  BY <1>4, <1>5, <1>6
<1> QED BY <1>3, <1>4, <1>7

LEMMA UnitsOfSection ==
    ASSUME NEW us, Len(us) \in Nat, NEW i \in 1..Len(us)
    PROVE  /\ Max(UnitsFrom(us, i)) \in i..Len(us)
           /\ \A m \in i..Len(us) : m \in UnitsFrom(us, i) <=> m <= Max(UnitsFrom(us, i))
           /\ \A m \in UnitsFrom(us, i) : us[m].path = us[i].path
           /\ UnitsFrom(us, i) \subseteq i..Max(UnitsFrom(us, i))
<1> DEFINE F == UnitsFrom(us, i)
           n == Len(us)
<1>1. /\ n \in Nat /\ i \in Nat /\ i <= n /\ 1 <= i
      /\ \A m : m \in F <=> m \in i..n /\ \A j \in (i + 1)..m : ~ Begins(us, j)
  BY DEF UnitsFrom
<1> HIDE DEF F, n
<1>2. i \in F
  <2>1. \A j : j \notin (i + 1)..i
    BY <1>1
  <2>2. i \in i..n
    BY <1>1
  <2> QED BY <1>1, <2>1, <2>2
<1>3. F \in SUBSET Nat /\ \A m \in F : m <= n
  BY <1>1
<1>4. Max(F) \in F /\ \A m \in F : m <= Max(F)
  BY <1>1, <1>2, <1>3, MaxOf
<1>5. ASSUME NEW m \in i..n, m <= Max(F) PROVE m \in F
  <2>1. Max(F) \in i..n /\ \A j \in (i + 1)..Max(F) : ~ Begins(us, j)
    BY <1>1, <1>4
  <2>2. \A j \in (i + 1)..m : j \in (i + 1)..Max(F)
    BY <1>1, <1>5, <2>1
  <2> QED BY <1>1, <2>1, <2>2
<1>6. \A m \in F : us[m].path = us[i].path
  <2> DEFINE bad == {m \in Nat : m \in F /\ us[m].path # us[i].path}
  <2>1. ASSUME NEW m \in bad, \A q \in bad : m <= q
        PROVE  FALSE
    <3>1. m \in F /\ us[m].path # us[i].path /\ m \in Nat
      OBVIOUS
    <3>2. m # i /\ m \in i..n
      BY <1>1, <3>1
    <3>3. m - 1 \in Nat /\ m - 1 \in i..n /\ m - 1 < m /\ m \in (i + 1)..m
      BY <1>1, <3>1, <3>2
    <3>4. \A j \in (i + 1)..(m - 1) : j \in (i + 1)..m
      BY <1>1, <3>3
    <3>5. m - 1 \in F
      BY <1>1, <3>1, <3>3, <3>4
    <3>6. m - 1 \notin bad
      <4> HIDE DEF bad
      <4> QED BY <2>1, <3>1, <3>3
    <3>7. us[m - 1].path = us[i].path
      BY <3>3, <3>5, <3>6
    <3>8. ~ Begins(us, m)
      BY <1>1, <3>1, <3>3
    <3> QED BY <3>1, <3>7, <3>8 DEF Begins
  <2>2. bad \in SUBSET Nat
    OBVIOUS
  <2>3. bad = {}
    <3> HIDE DEF bad
    <3> QED BY <2>1, <2>2, LeastNatural
  <2> QED BY <1>3, <2>3
<1>7. F \subseteq i..Max(F)
  BY <1>1, <1>3, <1>4
<1> QED BY <1>1, <1>3, <1>4, <1>5, <1>6, <1>7 DEF F, n

\* What is said where a section is has its path.
SectionTells(g, text) ==
    /\ g.start \in Nat /\ g.end \in Nat /\ g.start <= g.end
    /\ g.ends \subseteq Nat
    /\ \A k \in Said(text) : Touches(g, text.lines[k]) => IsPath(g.path, text, k)

LEMMA SectionOfUnits ==
    ASSUME NEW text, IsText(text), NEW us, UnitsHold(us, text, Len(text.lines)),
           NEW i \in DOMAIN us
    PROVE  /\ SectionTells(SectionFrom(us, i), text)
           /\ \A x \in UnitsFrom(us, i) : /\ x \in DOMAIN us
                                         /\ SectionFrom(us, i).start <= us[x].start
                                         /\ us[x].end <= SectionFrom(us, i).end
           /\ SectionFrom(us, i).start = us[i].start
           /\ \A j \in DOMAIN us : j > i /\ Begins(us, j) => SectionFrom(us, i).end < us[j].start
<1> DEFINE n == Len(us)
           F == UnitsFrom(us, i)
           g == SectionFrom(us, i)
           b == Max(F)
<1>1. n \in Nat /\ DOMAIN us = 1..n
  <2>1. IsSequence(us)
    BY DEF UnitsHold
  <2> QED BY <2>1 DEF IsSequence
<1>2. \A x \in DOMAIN us :
        /\ UnitTells(us[x], text)
        /\ us[x].start \in Nat /\ us[x].end \in Nat /\ us[x].start <= us[x].end
  BY DEF UnitsHold, UnitTells
<1>3. \A x, y \in DOMAIN us : x < y => us[x].end < us[y].start
  BY DEF UnitsHold
<1>4. /\ b \in i..n
      /\ \A m \in i..n : m \in F <=> m <= b
      /\ \A m \in F : us[m].path = us[i].path
      /\ F \subseteq i..b
  BY <1>1, UnitsOfSection
<1>5. /\ g.start = us[i].start /\ g.end = us[b].end /\ g.path = us[i].path
      /\ g.ends = {us[m].end : m \in F}
  BY DEF SectionFrom
<1>6. F \subseteq DOMAIN us /\ b \in DOMAIN us /\ i \in Nat /\ b \in Nat /\ i <= b
  BY <1>1, <1>4
<1>7. \A j \in DOMAIN us : j > i /\ Begins(us, j) => b < j
  <2> SUFFICES ASSUME NEW j \in DOMAIN us, j > i, Begins(us, j), ~ (b < j)
               PROVE  FALSE
    OBVIOUS
  <2>1. b \in F
    BY <1>4, <1>6
  <2>2. \A q \in (i + 1)..b : ~ Begins(us, q)
    BY <2>1 DEF UnitsFrom
  <2>3. j \in (i + 1)..b
    BY <1>1, <1>6
  <2> QED BY <2>2, <2>3
<1> HIDE DEF n, F, g, b
<1>8. \A x, y \in DOMAIN us : x <= y => us[x].start <= us[y].start /\ us[x].end <= us[y].end
  <2> SUFFICES ASSUME NEW x \in DOMAIN us, NEW y \in DOMAIN us, x <= y
               PROVE  us[x].start <= us[y].start /\ us[x].end <= us[y].end
    OBVIOUS
  <2>1. x \in Nat /\ y \in Nat /\ (x = y \/ x < y)
    BY <1>1
  <2>2. CASE x = y
    BY <1>2, <2>2
  <2>3. CASE x < y
    <3>1. us[x].end < us[y].start
      BY <1>3, <2>3
    <3> QED BY <1>2, <3>1
  <2> QED BY <2>1, <2>2, <2>3
<1>9. ASSUME NEW x \in F
      PROVE  x \in DOMAIN us /\ g.start <= us[x].start /\ us[x].end <= g.end
  <2>1. x \in DOMAIN us /\ i <= x /\ x <= b
    BY <1>4, <1>6
  <2> QED BY <1>5, <1>6, <1>8, <2>1
<1>10. \A j \in DOMAIN us : j > i /\ Begins(us, j) => g.end < us[j].start
  BY <1>3, <1>5, <1>6, <1>7
<1>11. /\ g.start \in Nat /\ g.end \in Nat /\ g.start <= g.end
       /\ g.ends \subseteq Nat
  <2>1. us[i].start <= us[b].start
    BY <1>6, <1>8
  <2>2. \A m \in F : us[m].end \in Nat
    BY <1>2, <1>6
  <2> QED BY <1>2, <1>5, <1>6, <2>1, <2>2
<1>12. ASSUME NEW k \in Said(text), Touches(g, text.lines[k])
       PROVE  IsPath(g.path, text, k)
  <2>1. k \in DOMAIN text.lines /\ k <= Len(text.lines)
    BY DEF Said, Body, Headings, IsText
  <2>2. /\ text.lines[k].start \in Nat /\ text.lines[k].end \in Nat
        /\ text.lines[k].start <= text.lines[k].end
    BY <2>1 DEF IsText, Line
  <2>3. PICK x \in DOMAIN us :
           us[x].start <= text.lines[k].start /\ text.lines[k].end <= us[x].end
    BY <2>1 DEF UnitsHold
  <2>4. g.start <= text.lines[k].end /\ text.lines[k].start <= g.end
    BY <1>12 DEF Touches
  <2>5. ~ (x < i)
    <3> SUFFICES ASSUME x < i PROVE FALSE
      OBVIOUS
    <3>1. us[x].end < us[i].start
      BY <1>3
    <3> QED BY <1>2, <1>5, <2>2, <2>3, <2>4, <3>1
  <2>6. ~ (b < x)
    <3> SUFFICES ASSUME b < x PROVE FALSE
      OBVIOUS
    <3>1. us[b].end < us[x].start
      BY <1>3, <1>6
    <3> QED BY <1>2, <1>5, <1>6, <2>2, <2>3, <2>4, <3>1
  <2>7. x \in F
    <3>1. x \in i..n /\ x <= b
      BY <1>1, <1>6, <2>5, <2>6
    <3> QED BY <1>4, <3>1
  <2>8. Touches(us[x], text.lines[k])
    BY <1>2, <2>2, <2>3 DEF Touches
  <2>9. IsPath(us[x].path, text, k)
    BY <1>2, <2>1, <2>8 DEF UnitTells
  <2> QED BY <1>4, <1>5, <2>7, <2>9
<1>13. SectionTells(g, text)
  BY <1>11, <1>12 DEF SectionTells
<1> QED BY <1>5, <1>9, <1>10, <1>13 DEF F, g

\* Every unit that holds text is in a section.
LEMMA TextIsInSection ==
    ASSUME NEW text, NEW us, UnitsHold(us, text, Len(text.lines)),
           NEW x \in DOMAIN us, NEW k \in Body(text), Touches(us[x], text.lines[k])
    PROVE  \E i \in SectionStarts(us) : x \in UnitsFrom(us, i)
<1> DEFINE n == Len(us)
           B == {i \in 1..x : Begins(us, i)}
           i == Max(B)
<1>1. n \in Nat /\ DOMAIN us = 1..n /\ x \in 1..n /\ x \in Nat /\ 1 \in 1..x
  <2>1. IsSequence(us)
    BY DEF UnitsHold
  <2>2. n \in Nat /\ DOMAIN us = 1..n
    BY <2>1 DEF IsSequence
  <2> QED BY <2>2
<1>2. 1 \in B
  BY <1>1 DEF Begins
<1>3. B \in SUBSET Nat /\ \A y \in B : y <= x
  BY <1>1
<1>4. i \in B /\ \A y \in B : y <= i
  <2> HIDE DEF B
  <2> QED BY <1>1, <1>2, <1>3, MaxOf
<1>5. i \in 1..x /\ Begins(us, i) /\ i \in 1..n /\ i \in Nat
  BY <1>1, <1>4
<1>6. x \in UnitsFrom(us, i)
  <2>1. \A j \in (i + 1)..x : ~ Begins(us, j)
    <3> SUFFICES ASSUME NEW j \in (i + 1)..x, Begins(us, j) PROVE FALSE
      OBVIOUS
    <3>1. j \in B
      BY <1>1, <1>5
    <3>2. j <= i
      BY <1>4, <3>1
    <3> HIDE DEF i, B
    <3> QED BY <1>1, <1>5, <3>2
  <2>2. x \in i..n
    BY <1>1, <1>5
  <2> HIDE DEF i, B
  <2> QED BY <2>1, <2>2 DEF UnitsFrom
<1> HIDE DEF i, B
<1> HIDE DEF n
<1>8. x # i => i + 1 \in (i + 1)..x /\ i # n
  <2>1. x \in Nat /\ n \in Nat /\ i \in Nat /\ i <= x /\ x <= n
    BY <1>1, <1>5
  <2> QED BY <2>1
<1>7. ~ IsHeadingOnly(us, i)
  <2> SUFFICES ASSUME us[i].heading, i = n \/ Begins(us, i + 1) PROVE FALSE
    BY DEF IsHeadingOnly, n
  <2>1. x = i
    <3> SUFFICES ASSUME x # i PROVE FALSE
      OBVIOUS
    <3>1. i + 1 \in (i + 1)..x /\ i # n
      BY <1>8
    <3>2. ~ Begins(us, i + 1)
      BY <1>6, <3>1 DEF UnitsFrom
    <3> QED BY <3>1, <3>2
  <2>2. UnitTells(us[x], text)
    BY DEF UnitsHold
  <2> QED BY <2>1, <2>2 DEF UnitTells
<1> QED BY <1>1, <1>5, <1>6, <1>7 DEF SectionStarts, n

\* Sections in order that tell what is said where they are, and hold the text.
SectionsTell(gs, text) ==
    /\ IsSequence(gs)
    /\ \A i \in DOMAIN gs : SectionTells(gs[i], text)
    /\ \A i, j \in DOMAIN gs : i < j => gs[i].end < gs[j].start

LEMMA SectionsMade ==
    ASSUME NEW text, IsText(text), NEW us, UnitsHold(us, text, Len(text.lines))
    PROVE  /\ SectionsTell(Sections(us), text)
           /\ \A k \in Body(text) : \E i \in DOMAIN Sections(us) :
                 /\ Sections(us)[i].start <= text.lines[k].start
                 /\ text.lines[k].end <= Sections(us)[i].end
<1> DEFINE n == Len(us)
           starts == SectionStarts(us)
           gs == Sections(us)
           at == [place \in 1..Cardinality(starts) |->
                    CHOOSE i \in starts : UpTo(starts, i) = place]
<1>1. n \in Nat /\ DOMAIN us = 1..n
  <2>1. IsSequence(us)
    BY DEF UnitsHold
  <2> QED BY <2>1 DEF IsSequence
<1>2. starts \in SUBSET (1..n) /\ \A i \in starts : Begins(us, i)
  BY <1>1 DEF SectionStarts
<1> HIDE DEF n
<1>3. gs = [place \in 1..Cardinality(starts) |-> SectionFrom(us, at[place])]
  BY DEF Sections
<1> HIDE DEF starts
<1>4. /\ Cardinality(starts) \in Nat
      /\ \A i \in starts : UpTo(starts, i) \in 1..Cardinality(starts)
      /\ \A i, j \in starts : i < j => UpTo(starts, i) < UpTo(starts, j)
      /\ \A i, j \in starts : UpTo(starts, i) = UpTo(starts, j) => i = j
      /\ \A place \in 1..Cardinality(starts) : \E i \in starts : UpTo(starts, i) = place
  BY <1>1, <1>2, UpToIsPlace
<1>5. \A place \in 1..Cardinality(starts) : at[place] \in starts /\ UpTo(starts, at[place]) = place
  <2> TAKE place \in 1..Cardinality(starts)
  <2>1. PICK i \in starts : UpTo(starts, i) = place
    BY <1>4
  <2>2. at[place] = CHOOSE j \in starts : UpTo(starts, j) = place
    OBVIOUS
  <2> QED BY <2>1, <2>2
<1> HIDE DEF gs, at
<1>6. DOMAIN gs = 1..Cardinality(starts) /\ \A place \in DOMAIN gs : gs[place] = SectionFrom(us, at[place])
  BY <1>3
<1>7. IsSequence(gs)
  <2> DEFINE S == {SectionFrom(us, i) : i \in starts}
  <2>1. \A place \in 1..Cardinality(starts) : SectionFrom(us, at[place]) \in S
    BY <1>5
  <2> HIDE DEF S
  <2>2. gs \in Seq(S)
    BY <1>3, <1>4, <2>1
  <2> QED BY <2>2 DEF IsSequence
<1>8. \A place \in DOMAIN gs : at[place] \in DOMAIN us /\ SectionTells(gs[place], text)
  <2> TAKE place \in DOMAIN gs
  <2>1. at[place] \in DOMAIN us
    BY <1>1, <1>2, <1>5, <1>6
  <2> QED BY <1>6, <2>1, SectionOfUnits
<1>9. ASSUME NEW p \in DOMAIN gs, NEW q \in DOMAIN gs, p < q
      PROVE  gs[p].end < gs[q].start
  <2>1. /\ at[p] \in starts /\ at[q] \in starts
        /\ UpTo(starts, at[p]) = p /\ UpTo(starts, at[q]) = q
    BY <1>5, <1>6
  <2>2. at[p] \in Nat /\ at[q] \in Nat /\ p \in Nat /\ q \in Nat
    <3>1. \A i \in starts : i \in Nat
      BY <1>1, <1>2
    <3>2. \A j \in DOMAIN gs : j \in Nat
      BY <1>4, <1>6
    <3> QED BY <2>1, <3>1, <3>2
  <2>3. at[p] # at[q] /\ ~ (at[q] < at[p])
    BY <1>4, <1>9, <2>1, <2>2
  <2>4. at[q] > at[p] /\ Begins(us, at[q])
    BY <1>2, <2>1, <2>2, <2>3
  <2>5. gs[q].start = us[at[q]].start
    BY <1>6, <1>8, SectionOfUnits
  <2>6. gs[p].end < us[at[q]].start
    BY <1>6, <1>8, <2>4, SectionOfUnits
  <2> QED BY <2>5, <2>6
<1>10. ASSUME NEW k \in Body(text)
       PROVE  \E place \in DOMAIN gs :
                 gs[place].start <= text.lines[k].start /\ text.lines[k].end <= gs[place].end
  <2>1. k \in Said(text) /\ k \in DOMAIN text.lines /\ k <= Len(text.lines)
    BY DEF Said, Body, IsText
  <2>2. /\ text.lines[k].start \in Nat /\ text.lines[k].end \in Nat
        /\ text.lines[k].start <= text.lines[k].end
    BY <2>1 DEF IsText, Line
  <2>3. PICK x \in DOMAIN us :
           us[x].start <= text.lines[k].start /\ text.lines[k].end <= us[x].end
    BY <2>1 DEF UnitsHold
  <2>4. UnitTells(us[x], text)
    BY DEF UnitsHold
  <2>5. us[x].start \in Nat /\ us[x].end \in Nat
    BY <2>4 DEF UnitTells
  <2>6. Touches(us[x], text.lines[k])
    BY <2>2, <2>3, <2>5 DEF Touches
  <2>7. PICK i \in starts : x \in UnitsFrom(us, i)
    BY <2>6, TextIsInSection DEF starts
  <2>8. i \in DOMAIN us
    BY <1>1, <1>2
  <2>9. SectionFrom(us, i).start <= us[x].start /\ us[x].end <= SectionFrom(us, i).end
    BY <2>7, <2>8, SectionOfUnits
  <2>10. SectionFrom(us, i).start \in Nat /\ SectionFrom(us, i).end \in Nat
    <3>1. SectionTells(SectionFrom(us, i), text)
      BY <2>8, SectionOfUnits
    <3> QED BY <3>1 DEF SectionTells
  <2> DEFINE place == UpTo(starts, i)
  <2>11. place \in DOMAIN gs /\ at[place] = i
    <3>1. place \in 1..Cardinality(starts)
      BY <1>4
    <3>2. at[place] \in starts /\ UpTo(starts, at[place]) = UpTo(starts, i)
      BY <1>5, <3>1
    <3>3. at[place] = i
      BY <1>4, <3>2
    <3> QED BY <1>6, <3>1, <3>3
  <2>12. gs[place] = SectionFrom(us, i)
    BY <1>6, <2>11
  <2> HIDE DEF place
  <2> QED BY <2>2, <2>3, <2>5, <2>9, <2>10, <2>11, <2>12
<1>11. SectionsTell(gs, text)
  BY <1>7, <1>8, <1>9 DEF SectionsTell
<1> QED BY <1>10, <1>11 DEF gs

-----------------------------------------------------------------------------
(* Sections are cut into pieces.                                            *)

PieceTells(p, text) ==
    /\ p.start \in Nat /\ p.end \in Nat /\ p.start < p.end /\ p.end - p.start <= MaxChars
    /\ \A k \in Said(text) : Holds(p, text.lines[k]) => IsPath(p.path, text, k)

PiecesTell(ps, text) ==
    /\ IsSequence(ps)
    /\ \A i \in DOMAIN ps : PieceTells(ps[i], text)
    /\ \A i \in 1..(Len(ps) - 1) : ps[i].start < ps[i + 1].start

\* Where a character is: in a piece that tells of its line, or still to be cut.
IsCut(ps, text, k, at) ==
    \E i \in DOMAIN ps : ps[i].start <= at /\ at < ps[i].end /\ IsPath(ps[i].path, text, k)
IsLeft(gs, from, at) ==
    \E j \in DOMAIN gs : /\ gs[j].start <= at /\ at < gs[j].end
                         /\ j = 1 => from <= at

CutHolds(text, gs, from, ps) ==
    /\ IsText(text) /\ SectionsTell(gs, text) /\ PiecesTell(ps, text)
    /\ gs # <<>> => /\ from \in Nat /\ gs[1].start <= from /\ from <= gs[1].end
                    /\ \A i \in DOMAIN ps : ps[i].start < from
    /\ \A k \in Body(text) : \A at \in text.lines[k].start..(text.lines[k].end - 1) :
          IsCut(ps, text, k, at) \/ IsLeft(gs, from, at)

LEMMA SaidIsLine ==
    ASSUME NEW text, IsText(text), NEW k \in Said(text)
    PROVE  /\ text.lines[k].start \in Nat /\ text.lines[k].end \in Nat
           /\ text.lines[k].start <= text.lines[k].end
<1>1. k \in DOMAIN text.lines
  BY DEF Said, Body, Headings
<1> QED BY <1>1 DEF IsText, Line

\* One more piece, of a section.
LEMMA PieceAdded ==
    ASSUME NEW text, IsText(text), NEW g, SectionTells(g, text),
           NEW ps, PiecesTell(ps, text), NEW p,
           p.start \in Nat, p.end \in Nat, p.start < p.end, p.end - p.start <= MaxChars,
           g.start <= p.start, p.end <= g.end, p.path = g.path,
           \A i \in DOMAIN ps : ps[i].start < p.start
    PROVE  /\ PiecesTell(Append(ps, p), text)
           /\ \A i \in DOMAIN Append(ps, p) : Append(ps, p)[i].start <= p.start
           /\ \A k, at : IsCut(ps, text, k, at) => IsCut(Append(ps, p), text, k, at)
           /\ \A k \in Body(text) : \A at \in text.lines[k].start..(text.lines[k].end - 1) :
                 p.start <= at /\ at < p.end => IsCut(Append(ps, p), text, k, at)
<1> DEFINE grown == Append(ps, p)
           n == Len(ps)
<1>1. /\ IsSequence(grown) /\ n \in Nat /\ DOMAIN ps = 1..n
      /\ Len(grown) = n + 1 /\ DOMAIN grown = 1..(n + 1)
      /\ \A i \in 1..n : grown[i] = ps[i]
      /\ grown[n + 1] = p
  <2>1. IsSequence(ps)
    BY DEF PiecesTell
  <2> QED BY <2>1, AppendedTo
<1>2. \A i \in 1..n : PieceTells(ps[i], text) /\ ps[i].start < p.start /\ ps[i].start \in Nat
  BY <1>1 DEF PiecesTell, PieceTells
<1>3. \A i \in 1..(n - 1) : ps[i].start < ps[i + 1].start
  BY DEF PiecesTell
<1>4. g.start \in Nat /\ g.end \in Nat
  BY DEF SectionTells
<1> HIDE DEF grown, n
<1>5. ASSUME NEW k \in Said(text), Holds(p, text.lines[k]) PROVE IsPath(p.path, text, k)
  <2>1. /\ text.lines[k].start \in Nat /\ text.lines[k].end \in Nat
    BY SaidIsLine
  <2>2. p.start < text.lines[k].end /\ text.lines[k].start < p.end
    BY <1>5 DEF Holds
  <2>3. Touches(g, text.lines[k])
    BY <1>4, <2>1, <2>2 DEF Touches
  <2> QED BY <2>3 DEF SectionTells
<1>6. PieceTells(p, text)
  BY <1>5 DEF PieceTells
<1>7. \A i \in 1..(n + 1) : i \in 1..n \/ i = n + 1
  BY <1>1
<1>8. \A i \in DOMAIN grown : PieceTells(grown[i], text) /\ grown[i].start <= p.start
  <2> TAKE i \in DOMAIN grown
  <2>1. i \in 1..n \/ i = n + 1
    BY <1>1, <1>7
  <2> QED BY <1>1, <1>2, <1>6, <2>1
<1>9. ASSUME NEW i \in 1..(Len(grown) - 1) PROVE grown[i].start < grown[i + 1].start
  <2>1. i \in 1..n
    BY <1>1
  <2>2. CASE i = n
    BY <1>1, <1>2, <2>1, <2>2
  <2>3. CASE i # n
    <3>1. i \in 1..(n - 1) /\ i + 1 \in 1..n
      BY <1>1, <2>1, <2>3
    <3> QED BY <1>1, <1>3, <2>1, <3>1
  <2> QED BY <2>2, <2>3
<1>10. PiecesTell(grown, text)
  BY <1>1, <1>8, <1>9 DEF PiecesTell
<1>11. ASSUME NEW k, NEW at, IsCut(ps, text, k, at) PROVE IsCut(grown, text, k, at)
  <2>1. PICK i \in DOMAIN ps : ps[i].start <= at /\ at < ps[i].end /\ IsPath(ps[i].path, text, k)
    BY <1>11 DEF IsCut
  <2>2. i \in DOMAIN grown /\ grown[i] = ps[i]
    BY <1>1
  <2> QED BY <2>1, <2>2 DEF IsCut
<1>12. ASSUME NEW k \in Body(text), NEW at \in text.lines[k].start..(text.lines[k].end - 1),
              p.start <= at, at < p.end
       PROVE  IsCut(grown, text, k, at)
  <2>1. k \in Said(text)
    BY DEF Said
  <2>2. text.lines[k].start \in Nat /\ text.lines[k].end \in Nat
    BY <2>1, SaidIsLine
  <2>3. Holds(p, text.lines[k])
    BY <1>12, <2>2 DEF Holds
  <2>4. n + 1 \in DOMAIN grown /\ grown[n + 1] = p
    BY <1>1
  <2> QED BY <1>5, <1>12, <2>1, <2>3, <2>4 DEF IsCut
<1> QED BY <1>8, <1>10, <1>11, <1>12 DEF grown

\* Where a section is cut: after the last piece's start, within reach, before its end.
LEMMA CutsAhead ==
    ASSUME pos \in Nat, Section.ends \subseteq Nat, LineEnds \subseteq Nat,
           Section.end \in Nat, Section.end - pos > MaxChars
    PROVE  CutAt \in Nat /\ pos < CutAt /\ CutAt <= pos + MaxChars /\ CutAt < Section.end
<1>0. MaxChars \in Nat /\ MaxChars # 0
  BY OverlapIsSmaller
<1>1. \A ends : ends \subseteq Nat /\ InReach(ends) # {} => Max(InReach(ends)) \in InReach(ends)
  <2> TAKE ends
  <2> SUFFICES ASSUME ends \subseteq Nat, InReach(ends) # {}
               PROVE  Max(InReach(ends)) \in InReach(ends)
    OBVIOUS
  <2> DEFINE S == InReach(ends)
  <2>1. S \in SUBSET Nat /\ \A y \in S : y <= pos + MaxChars
    BY DEF InReach
  <2>2. PICK x \in S : TRUE
    OBVIOUS
  <2>3. pos + MaxChars \in Nat
    BY <1>0
  <2> HIDE DEF S
  <2>4. Max(S) \in S
    BY <2>1, <2>2, <2>3, MaxOf
  <2> QED BY <2>4 DEF S
<1>2. \A ends : \A x \in InReach(ends) : ends \subseteq Nat =>
        x \in Nat /\ pos < x /\ x <= pos + MaxChars
  BY DEF InReach
<1>3. CASE InReach(Section.ends) # {}
  <2>1. CutAt = Max(InReach(Section.ends))
    BY <1>3 DEF CutAt
  <2> QED BY <1>0, <1>1, <1>2, <1>3, <2>1
<1>4. CASE InReach(Section.ends) = {} /\ InReach(LineEnds) # {}
  <2>1. CutAt = Max(InReach(LineEnds))
    BY <1>4 DEF CutAt
  <2>2. CutAt \in InReach(LineEnds)
    BY <1>1, <1>4, <2>1
  <2>3. CutAt \in Nat /\ pos < CutAt /\ CutAt <= pos + MaxChars
    BY <1>2, <2>2
  <2> QED BY <1>0, <2>3
<1>5. CASE InReach(Section.ends) = {} /\ InReach(LineEnds) = {}
  <2>1. CutAt = pos + MaxChars
    BY <1>5 DEF CutAt
  <2> QED BY <1>0, <2>1
<1> QED BY <1>3, <1>4, <1>5

CutInv == CutHolds(Text, todo, pos, pieces)

LEMMA FirstTells ==
    ASSUME CutInv, todo # <<>>
    PROVE  /\ IsText(Text) /\ SectionTells(todo[1], Text) /\ PiecesTell(pieces, Text)
           /\ IsSequence(todo) /\ Len(todo) \in Nat /\ DOMAIN todo = 1..Len(todo) /\ 1 \in DOMAIN todo
           /\ pos \in Nat /\ todo[1].start <= pos /\ pos <= todo[1].end
           /\ todo[1].start \in Nat /\ todo[1].end \in Nat
           /\ \A i \in DOMAIN pieces : pieces[i].start < pos
<1>1. IsSequence(todo)
  BY DEF CutInv, CutHolds, SectionsTell
<1>2. Len(todo) \in Nat /\ DOMAIN todo = 1..Len(todo) /\ 1 \in DOMAIN todo
  <2>1. PICK S : todo \in Seq(S)
    BY <1>1 DEF IsSequence
  <2> QED BY <2>1, EmptySeq
<1>3. SectionTells(todo[1], Text)
  BY <1>2 DEF CutInv, CutHolds, SectionsTell
<1>4. todo[1].start \in Nat /\ todo[1].end \in Nat
  BY <1>3 DEF SectionTells
<1> QED BY <1>1, <1>2, <1>3, <1>4 DEF CutInv, CutHolds

\* Every piece but a section's last.
LEMMA PieceCut ==
    ASSUME CutInv, CutPiece
    PROVE  CutInv'
<1> DEFINE text == Text
           g == todo[1]
           p == [start |-> pos, end |-> CutAt, path |-> g.path]
           grown == Append(pieces, p)
<1>1. /\ todo # <<>> /\ g.end - pos > MaxChars
      /\ pieces' = grown /\ pos' = Later(BackFrom(CutAt), pos + 1)
      /\ todo' = todo /\ doc' = doc /\ media' = media
  BY DEF CutPiece, Section
<1>2. /\ IsText(text) /\ SectionTells(g, text) /\ PiecesTell(pieces, text)
      /\ 1 \in DOMAIN todo /\ DOMAIN todo = 1..Len(todo)
      /\ pos \in Nat /\ g.start <= pos /\ pos <= g.end
      /\ g.start \in Nat /\ g.end \in Nat
      /\ \A i \in DOMAIN pieces : pieces[i].start < pos
  BY <1>1, FirstTells
<1>3. CutAt \in Nat /\ pos < CutAt /\ CutAt <= pos + MaxChars /\ CutAt < g.end
  <2>1. Section = g
    BY DEF Section
  <2>2. Section.ends \subseteq Nat
    BY <1>2, <2>1 DEF SectionTells
  <2>3. LineEnds \subseteq Nat
    <3>1. \A l \in ToSet(doc) : l.end \in Nat
      <4>1. text.lines = doc
        BY DEF Text
      <4>2. \A k \in DOMAIN doc : doc[k].end \in Nat
        BY <1>2, <4>1 DEF IsText, Line
      <4> QED BY <4>2 DEF ToSet
    <3> QED BY <3>1 DEF LineEnds
  <2> HIDE DEF g
  <2>4. CutAt \in Nat /\ pos < CutAt /\ CutAt <= pos + MaxChars /\ CutAt < Section.end
    BY <1>1, <1>2, <2>1, <2>2, <2>3, CutsAhead
  <2> QED BY <2>1, <2>4
<1>4. MaxChars \in Nat /\ Overlap \in Nat /\ Overlap <= MaxChars - 1
  BY OverlapIsSmaller
<1>5. pos' \in Nat /\ pos < pos' /\ pos' <= CutAt
  <2>1. BackFrom(CutAt) \in Nat /\ BackFrom(CutAt) <= CutAt
    BY <1>3, <1>4 DEF BackFrom
  <2> QED BY <1>1, <1>2, <1>3, <2>1 DEF Later
<1>6. p.start = pos /\ p.end = CutAt /\ p.path = g.path
  OBVIOUS
<1> HIDE DEF text, g, p
<1>7. /\ p.start \in Nat /\ p.end \in Nat /\ p.start < p.end /\ p.end - p.start <= MaxChars
      /\ g.start <= p.start /\ p.end <= g.end
      /\ \A i \in DOMAIN pieces : pieces[i].start < p.start
  BY <1>2, <1>3, <1>4, <1>6
<1>8. /\ PiecesTell(grown, text)
      /\ \A i \in DOMAIN grown : grown[i].start <= p.start
      /\ \A k, at : IsCut(pieces, text, k, at) => IsCut(grown, text, k, at)
      /\ \A k \in Body(text) : \A at \in text.lines[k].start..(text.lines[k].end - 1) :
            p.start <= at /\ at < p.end => IsCut(grown, text, k, at)
  BY <1>2, <1>6, <1>7, PieceAdded
<1> HIDE DEF grown
<1>9. SectionsTell(todo, text)
  BY DEF CutInv, CutHolds, text
<1>10. /\ g.start <= pos' /\ pos' <= g.end
       /\ \A i \in DOMAIN grown : grown[i].start < pos'
  <2>1. \A i \in DOMAIN grown : grown[i].start \in Nat
    BY <1>8 DEF PiecesTell, PieceTells
  <2> QED BY <1>2, <1>3, <1>5, <1>6, <1>8, <2>1
<1>11. ASSUME NEW k \in Body(text), NEW at \in text.lines[k].start..(text.lines[k].end - 1)
       PROVE  IsCut(grown, text, k, at) \/ IsLeft(todo, pos', at)
  <2>0. at \in Nat
    <3>1. k \in Said(text)
      BY DEF Said
    <3>2. text.lines[k].start \in Nat /\ text.lines[k].end \in Nat
      BY <1>2, <3>1, SaidIsLine
    <3> QED BY <3>2
  <2>1. IsCut(pieces, text, k, at) \/ IsLeft(todo, pos, at)
    BY DEF CutInv, CutHolds, text
  <2>2. CASE IsCut(pieces, text, k, at)
    BY <1>8, <2>2
  <2>3. CASE IsLeft(todo, pos, at)
    <3>1. PICK j \in DOMAIN todo : /\ todo[j].start <= at /\ at < todo[j].end
                                   /\ j = 1 => pos <= at
      BY <2>3 DEF IsLeft
    <3>2. CASE j # 1
      BY <3>1, <3>2 DEF IsLeft
    <3>3. CASE j = 1
      <4>1. CASE at < CutAt
        BY <1>6, <1>8, <3>1, <3>3, <4>1
      <4>2. CASE ~ (at < CutAt)
        <5>1. pos' <= at
          BY <1>3, <1>5, <2>0, <4>2
        <5> QED BY <3>1, <3>3, <5>1 DEF IsLeft
      <4> QED BY <4>1, <4>2
    <3> QED BY <3>2, <3>3
  <2> QED BY <2>1, <2>2, <2>3
<1>12. CutHolds(text, todo, pos', grown)
  BY <1>2, <1>5, <1>8, <1>9, <1>10, <1>11 DEF CutHolds, g
<1>13. Text' = text
  BY <1>1 DEF Text, text
<1> QED BY <1>1, <1>12, <1>13 DEF CutInv

\* What is left of the sections when the first is done.
LEMMA RestTells ==
    ASSUME NEW text, NEW gs, SectionsTell(gs, text), gs # <<>>
    PROVE  /\ SectionsTell(Tail(gs), text)
           /\ DOMAIN gs = 1..Len(gs) /\ Len(gs) \in Nat /\ 1 \in DOMAIN gs
           /\ DOMAIN Tail(gs) = 1..(Len(gs) - 1)
           /\ Tail(gs) # <<>> => Len(gs) > 1
           /\ \A j \in 1..(Len(gs) - 1) : Tail(gs)[j] = gs[j + 1]
<1>1. PICK S : gs \in Seq(S)
  BY DEF SectionsTell, IsSequence
<1> DEFINE rest == Tail(gs)
           n == Len(gs)
<1>2. /\ rest \in Seq(S) /\ Len(rest) = n - 1
      /\ \A j \in 1..Len(rest) : rest[j] = gs[j + 1]
      /\ n \in Nat \ {0}
  BY <1>1, HeadTailProperties, EmptySeq
<1> HIDE DEF rest
<1>3. DOMAIN rest = 1..(n - 1) /\ DOMAIN gs = 1..n
  BY <1>1, <1>2
<1> HIDE DEF n
<1>4. \A j \in 1..(n - 1) : j + 1 \in 1..n /\ rest[j] = gs[j + 1]
  BY <1>2
<1>5. SectionsTell(rest, text)
  <2>1. IsSequence(rest)
    BY <1>2 DEF IsSequence
  <2>2. \A j \in DOMAIN rest : SectionTells(rest[j], text)
    BY <1>3, <1>4 DEF SectionsTell
  <2>3. ASSUME NEW i \in DOMAIN rest, NEW j \in DOMAIN rest, i < j
        PROVE  rest[i].end < rest[j].start
    <3>1. i + 1 \in DOMAIN gs /\ j + 1 \in DOMAIN gs /\ i + 1 < j + 1
      BY <1>2, <1>3, <1>4, <2>3
    <3>2. gs[i + 1].end < gs[j + 1].start
      BY <3>1 DEF SectionsTell
    <3> QED BY <1>3, <1>4, <3>2
  <2> QED BY <2>1, <2>2, <2>3 DEF SectionsTell
<1>6. rest # <<>> => n > 1
  <2> SUFFICES ASSUME rest # <<>> PROVE n > 1
    OBVIOUS
  <2>1. Len(rest) # 0
    BY <1>2, EmptySeq
  <2> QED BY <1>2, <2>1
<1>7. 1 \in DOMAIN gs
  BY <1>2, <1>3
<1> QED BY <1>2, <1>3, <1>4, <1>5, <1>6, <1>7 DEF rest, n

\* A section's last piece.
LEMMA SectionDone ==
    ASSUME CutInv, LastPiece
    PROVE  CutInv'
<1> DEFINE text == Text
           g == todo[1]
           p == [start |-> pos, end |-> g.end, path |-> g.path]
           grown == Append(pieces, p)
           rest == Tail(todo)
<1>1. /\ todo # <<>> /\ g.end - pos <= MaxChars
      /\ pieces' = IF g.end > pos THEN grown ELSE pieces
      /\ todo' = rest /\ doc' = doc /\ media' = media
      /\ pos' = IF Len(todo) > 1 THEN todo[2].start ELSE pos
  BY DEF LastPiece, Section
<1>2. /\ IsText(text) /\ SectionTells(g, text) /\ PiecesTell(pieces, text)
      /\ pos \in Nat /\ g.start <= pos /\ pos <= g.end
      /\ g.start \in Nat /\ g.end \in Nat
      /\ \A i \in DOMAIN pieces : pieces[i].start < pos
  BY <1>1, FirstTells
<1>3. SectionsTell(todo, text)
  BY DEF CutInv, CutHolds
<1>4. p.start = pos /\ p.end = g.end /\ p.path = g.path
  OBVIOUS
<1>5. Text' = text
  BY <1>1 DEF Text
<1> HIDE DEF text, g, p, grown, rest
<1>6. /\ SectionsTell(rest, text)
      /\ DOMAIN todo = 1..Len(todo) /\ Len(todo) \in Nat /\ 1 \in DOMAIN todo
      /\ DOMAIN rest = 1..(Len(todo) - 1)
      /\ rest # <<>> => Len(todo) > 1
      /\ \A j \in 1..(Len(todo) - 1) : rest[j] = todo[j + 1]
  BY <1>1, <1>3, RestTells DEF rest
\* The pieces there are now.
<1>7. /\ PiecesTell(pieces', text)
      /\ \A i \in DOMAIN pieces' : pieces'[i].start <= pos
      /\ \A k, at : IsCut(pieces, text, k, at) => IsCut(pieces', text, k, at)
      /\ \A k \in Body(text) : \A at \in text.lines[k].start..(text.lines[k].end - 1) :
            pos <= at /\ at < g.end => IsCut(pieces', text, k, at)
  <2>1. CASE g.end > pos
    <3>1. /\ p.start \in Nat /\ p.end \in Nat /\ p.start < p.end /\ p.end - p.start <= MaxChars
          /\ g.start <= p.start /\ p.end <= g.end
          /\ \A i \in DOMAIN pieces : pieces[i].start < p.start
      BY <1>1, <1>2, <1>4, <2>1
    <3>2. pieces' = Append(pieces, p)
      BY <1>1, <2>1 DEF grown
    <3> DEFINE longer == Append(pieces, p)
    <3>3. /\ PiecesTell(longer, text)
          /\ \A i \in DOMAIN longer : longer[i].start <= p.start
          /\ \A k, at : IsCut(pieces, text, k, at) => IsCut(longer, text, k, at)
          /\ \A k \in Body(text) : \A at \in text.lines[k].start..(text.lines[k].end - 1) :
                p.start <= at /\ at < p.end => IsCut(longer, text, k, at)
      BY <1>2, <1>4, <3>1, PieceAdded
    <3> HIDE DEF longer
    <3> QED BY <1>4, <3>2, <3>3 DEF longer
  <2>2. CASE ~ (g.end > pos)
    <3>1. pieces' = pieces
      BY <1>1, <2>2
    <3>2. \A i \in DOMAIN pieces : pieces[i].start \in Nat
      BY <1>2 DEF PiecesTell, PieceTells
    <3>3. \A i \in DOMAIN pieces : pieces[i].start <= pos
      BY <1>2, <3>2
    <3>4. ASSUME NEW k \in Body(text), NEW at \in text.lines[k].start..(text.lines[k].end - 1),
                 pos <= at, at < g.end
          PROVE  FALSE
      <4>1. k \in Said(text)
        BY DEF Said
      <4>2. text.lines[k].start \in Nat /\ text.lines[k].end \in Nat
        BY <1>2, <4>1, SaidIsLine
      <4> QED BY <1>2, <2>2, <3>4, <4>2
    <3> QED BY <1>2, <3>1, <3>3, <3>4
  <2> QED BY <2>1, <2>2
\* The next section starts after this one.
<1>8. ASSUME rest # <<>>
      PROVE  /\ pos' = rest[1].start /\ pos' \in Nat /\ pos' <= rest[1].end
             /\ rest[1].start <= pos' /\ pos < pos'
             /\ \A i \in DOMAIN pieces' : pieces'[i].start < pos'
  <2>1. 1 \in 1..(Len(todo) - 1) /\ 1 + 1 = 2 /\ 2 \in DOMAIN todo
    BY <1>6, <1>8
  <2>2. rest[1] = todo[2]
    BY <1>6, <2>1
  <2>3. SectionTells(rest[1], text)
    BY <1>6, <2>1 DEF SectionsTell
  <2>4. g.end < todo[2].start
    BY <1>3, <1>6, <2>1 DEF SectionsTell, g
  <2>5. pos' = todo[2].start
    BY <1>1, <1>6, <1>8
  <2>6. pos' \in Nat /\ rest[1].end \in Nat /\ rest[1].start <= rest[1].end
    BY <2>2, <2>3, <2>5 DEF SectionTells
  <2>7. \A i \in DOMAIN pieces' : pieces'[i].start \in Nat
    BY <1>7 DEF PiecesTell, PieceTells
  <2>8. pos < pos'
    BY <1>2, <2>4, <2>5, <2>6
  <2> QED BY <1>2, <1>7, <2>2, <2>5, <2>6, <2>7, <2>8
<1>9. ASSUME NEW k \in Body(text), NEW at \in text.lines[k].start..(text.lines[k].end - 1)
      PROVE  IsCut(pieces', text, k, at) \/ IsLeft(rest, pos', at)
  <2>1. IsCut(pieces, text, k, at) \/ IsLeft(todo, pos, at)
    BY DEF CutInv, CutHolds, text
  <2>2. CASE IsCut(pieces, text, k, at)
    BY <1>7, <2>2
  <2>3. CASE IsLeft(todo, pos, at)
    <3>1. PICK j \in DOMAIN todo : /\ todo[j].start <= at /\ at < todo[j].end
                                   /\ j = 1 => pos <= at
      BY <2>3 DEF IsLeft
    <3>2. CASE j = 1
      BY <1>7, <3>1, <3>2 DEF g
    <3>3. CASE j # 1
      <4>1. j - 1 \in 1..(Len(todo) - 1) /\ (j - 1) + 1 = j
        BY <1>6, <3>3
      <4>2. rest[j - 1] = todo[j] /\ j - 1 \in DOMAIN rest
        BY <1>6, <4>1
      <4>3. rest # <<>>
        <5>1. DOMAIN <<>> = {}
          OBVIOUS
        <5> QED BY <4>2, <5>1
      <4>4. j - 1 = 1 => pos' <= at
        BY <1>8, <3>1, <4>2, <4>3
      <4> QED BY <3>1, <4>2, <4>4 DEF IsLeft
    <3> QED BY <3>2, <3>3
  <2> QED BY <2>1, <2>2, <2>3
<1>10. CutHolds(text, rest, pos', pieces')
  BY <1>2, <1>6, <1>7, <1>8, <1>9 DEF CutHolds
<1> QED BY <1>1, <1>5, <1>10 DEF CutInv

\* The sections when the text ends.
LEMMA SectionsStart ==
    ASSUME LinesInv, pieces = <<>>, EndOfText
    PROVE  CutInv'
<1> DEFINE text == Text
           all == IF fence # NoFence THEN Append(units, UnitOf(fenced, Path)) ELSE WithParagraph
           gs == Sections(all)
<1>1. /\ todo' = gs /\ pos' = IF gs = <<>> THEN 0 ELSE gs[1].start
      /\ doc' = doc /\ media' = media /\ pieces' = <<>>
  BY DEF EndOfText
<1>2. IsText(text) /\ text.lines = doc
  BY DEF LinesInv, LinesHold, Text
<1>3. UnitsHold(all, text, Len(text.lines))
  BY <1>2, TextEnds
<1>4. Text' = text
  BY <1>1 DEF Text
<1> HIDE DEF text, all
<1>5. /\ SectionsTell(gs, text)
      /\ \A k \in Body(text) : \E i \in DOMAIN gs :
            gs[i].start <= text.lines[k].start /\ text.lines[k].end <= gs[i].end
  BY <1>2, <1>3, SectionsMade
<1> HIDE DEF gs
<1>6. gs # <<>> => 1 \in DOMAIN gs
  BY <1>5, RestTells
<1>7. \A i \in DOMAIN gs : gs[i].start \in Nat /\ gs[i].end \in Nat /\ gs[i].start <= gs[i].end
  BY <1>5 DEF SectionsTell, SectionTells
<1>8. PiecesTell(<<>>, text) /\ DOMAIN <<>> = {}
  <2>1. DOMAIN <<>> = {} /\ Len(<<>>) = 0 /\ IsSequence(<<>>)
    BY EmptySeq DEF IsSequence
  <2>2. \A i \in 1..(0 - 1) : FALSE
    OBVIOUS
  <2> QED BY <2>1, <2>2 DEF PiecesTell
<1>9. ASSUME NEW k \in Body(text), NEW at \in text.lines[k].start..(text.lines[k].end - 1)
      PROVE  IsLeft(gs, pos', at)
  <2>1. k \in Said(text)
    BY DEF Said
  <2>2. text.lines[k].start \in Nat /\ text.lines[k].end \in Nat
    BY <1>2, <2>1, SaidIsLine
  <2>3. PICK i \in DOMAIN gs : gs[i].start <= text.lines[k].start /\ text.lines[k].end <= gs[i].end
    BY <1>5
  <2>4. gs[i].start <= at /\ at < gs[i].end
    BY <1>7, <2>2, <2>3
  <2>5. i = 1 => pos' <= at
    <3>1. gs # <<>>
      BY <1>8, <2>3
    <3> QED BY <1>1, <2>4, <3>1
  <2> QED BY <2>4, <2>5 DEF IsLeft
<1>10. gs # <<>> => pos' \in Nat /\ gs[1].start <= pos' /\ pos' <= gs[1].end
  BY <1>1, <1>6, <1>7
<1>11. CutHolds(text, gs, pos', <<>>)
  BY <1>2, <1>5, <1>8, <1>9, <1>10 DEF CutHolds
<1> QED BY <1>1, <1>4, <1>11 DEF CutInv

-----------------------------------------------------------------------------

ChunkSpec == ChunkInit /\ [][ChunkNext]_chunkVars

\* Where parsing is, and what its variables say there.
ChunkInv ==
    /\ phase \in {"lines", "sections", "parsed"}
    /\ phase = "lines" => LinesInv /\ pieces = <<>>
    /\ phase # "lines" => CutInv
    /\ phase = "parsed" => todo = <<>>

LEMMA ChunkStarts ==
    ASSUME ChunkInit
    PROVE  ChunkInv
<1> DEFINE text == Text
<1>1. /\ text.media \in {"markdown", "plain"} /\ text.lines = <<>>
      /\ fence = NoFence /\ stack = <<>> /\ pending = <<>> /\ fenced = <<>> /\ units = <<>>
      /\ phase = "lines" /\ pieces = <<>>
  BY DEF ChunkInit, Text
<1> HIDE DEF text
<1>2. Len(<<>>) = 0 /\ DOMAIN <<>> = {} /\ IsSequence(<<>>)
  BY EmptySeq DEF IsSequence
<1>3. IsText(text)
  <2>1. DOMAIN <<>> = 1..0
    OBVIOUS
  <2> QED BY <1>1, <1>2, <2>1 DEF IsText
<1>4. text.media = "markdown" => OpenBefore(text.lines)[Len(text.lines) + 1] = NoFence
  <2>1. OpenBefore(text.lines)[1] = NoFence
    BY <1>1, <1>2, FencesFollow
  <2> QED BY <1>1, <1>2, <2>1
<1>5. Above(text, 0) = {} /\ Body(text) = {} /\ Headings(text) = {}
  BY <1>1, <1>2 DEF Above, Body, Headings
<1>6. StackTells(<<>>, text, 0)
  <2>1. Cardinality({}) = 0
    BY FS_EmptySet
  <2>2. DOMAIN <<>> = 1..0
    OBVIOUS
  <2> QED BY <1>2, <1>5, <2>1, <2>2 DEF StackTells
<1>7. OpenLines(<<>>, text, 0) /\ 0 - Len(<<>>) = 0
  <2>1. Len(text.lines) = 0 /\ Len(text.lines) \in Nat /\ 0 \in 0..Len(text.lines)
    BY <1>1, <1>2
  <2> QED BY <2>1, NoneOpen
<1>8. UnitsHold(<<>>, text, 0)
  BY <1>1, <1>2, <1>5 DEF UnitsHold, Said
<1>9. LinesHold(text, NoFence, <<>>, <<>>, <<>>, <<>>)
  BY <1>1, <1>2, <1>3, <1>4, <1>6, <1>7, <1>8 DEF LinesHold
<1>10. LinesInv
  BY <1>1, <1>9 DEF LinesInv, text
<1> QED BY <1>1, <1>10 DEF ChunkInv

LEMMA ChunkSteps ==
    ASSUME ChunkInv, [ChunkNext]_chunkVars
    PROVE  ChunkInv'
<1>1. CASE ReadLine
  <2>1. phase = "lines" /\ phase' = "lines" /\ pieces' = pieces
    BY <1>1 DEF ReadLine
  <2>2. LinesInv'
    BY <1>1, <2>1, LinesRead DEF ChunkInv
  <2> QED BY <2>1, <2>2 DEF ChunkInv
<1>2. CASE EndOfText
  <2>1. phase = "lines" /\ phase' = "sections"
    BY <1>2 DEF EndOfText
  <2>2. CutInv'
    BY <1>2, <2>1, SectionsStart DEF ChunkInv
  <2> QED BY <2>1, <2>2 DEF ChunkInv
<1>3. CASE CutPiece
  <2>1. phase = "sections" /\ phase' = phase
    BY <1>3 DEF CutPiece
  <2>2. CutInv'
    BY <1>3, <2>1, PieceCut DEF ChunkInv
  <2> QED BY <2>1, <2>2 DEF ChunkInv
<1>4. CASE LastPiece
  <2>1. phase = "sections" /\ phase' = phase
    BY <1>4 DEF LastPiece
  <2>2. CutInv'
    BY <1>4, <2>1, SectionDone DEF ChunkInv
  <2> QED BY <2>1, <2>2 DEF ChunkInv
<1>5. CASE Parsed
  <2>1. /\ phase = "sections" /\ phase' = "parsed" /\ todo = <<>>
        /\ media' = media /\ doc' = doc /\ todo' = todo /\ pos' = pos /\ pieces' = pieces
    BY <1>5 DEF Parsed
  <2>2. CutInv
    BY <2>1 DEF ChunkInv
  <2>3. CutInv'
    BY <2>1, <2>2 DEF CutInv, Text
  <2> QED BY <2>1, <2>3 DEF ChunkInv
<1>6. CASE UNCHANGED chunkVars
  BY <1>6 DEF chunkVars, ChunkInv, LinesInv, CutInv, Text
<1> QED BY <1>1, <1>2, <1>3, <1>4, <1>5, <1>6 DEF ChunkNext

LEMMA ChunkCovers ==
    ASSUME ChunkInv
    PROVE  PiecesCover
<1>1. CASE phase = "lines"
  <2>1. pieces = <<>>
    BY <1>1 DEF ChunkInv
  <2>2. ToSet(pieces) = {} /\ Len(pieces) = 0
    BY <2>1, EmptySeq DEF ToSet
  <2>3. \A i \in 1..(0 - 1) : FALSE
    OBVIOUS
  <2> QED BY <1>1, <2>2, <2>3 DEF PiecesCover
<1>2. CASE phase # "lines"
  <2> DEFINE text == Text
  <2>1. CutHolds(text, todo, pos, pieces) /\ text.lines = doc
    BY <1>2 DEF ChunkInv, CutInv, Text
  <2> HIDE DEF text
  <2>2. IsText(text) /\ PiecesTell(pieces, text)
    BY <2>1 DEF CutHolds
  <2>3. /\ \A i \in DOMAIN pieces : PieceTells(pieces[i], text)
        /\ \A i \in 1..(Len(pieces) - 1) : pieces[i].start < pieces[i + 1].start
    BY <2>2 DEF PiecesTell
  <2>4. \A p \in ToSet(pieces) : PieceTells(p, text)
    BY <2>3 DEF ToSet
  <2>5. \A p \in ToSet(pieces) : p.start < p.end /\ p.end - p.start <= MaxChars
    BY <2>4 DEF PieceTells
  <2>6. \A p \in ToSet(pieces) : \A k \in Body(text) \cup Headings(text) :
          Holds(p, doc[k]) => IsPath(p.path, text, k)
    BY <2>1, <2>4 DEF PieceTells, Said
  <2>7. ASSUME phase = "parsed", NEW k \in Body(text), NEW at \in doc[k].start..(doc[k].end - 1)
        PROVE  \E p \in ToSet(pieces) : p.start <= at /\ at < p.end /\ IsPath(p.path, text, k)
    <3>1. todo = <<>>
      BY <2>7 DEF ChunkInv
    <3>2. \A j \in DOMAIN todo : FALSE
      BY <3>1
    <3>3. ~ IsLeft(todo, pos, at)
      BY <3>2 DEF IsLeft
    <3>4. IsCut(pieces, text, k, at)
      BY <2>1, <3>3 DEF CutHolds
    <3>5. PICK i \in DOMAIN pieces :
             pieces[i].start <= at /\ at < pieces[i].end /\ IsPath(pieces[i].path, text, k)
      BY <3>4 DEF IsCut
    <3>6. pieces[i] \in ToSet(pieces)
      BY <3>5 DEF ToSet
    <3> QED BY <3>5, <3>6
  <2> QED BY <2>3, <2>5, <2>6, <2>7 DEF PiecesCover, text
<1> QED BY <1>1, <1>2

\* Parsing loses and mislabels nothing, whatever the document: every character under a heading
\* is in a piece that carries the headings in force at its line, no piece reaches into text
\* under others or beyond the size limit, and the pieces go forward.
THEOREM DocumentsAreCovered == ChunkSpec => []PiecesCover
<1>1. ChunkInit => ChunkInv
  BY ChunkStarts
<1>2. ChunkInv /\ [ChunkNext]_chunkVars => ChunkInv'
  BY ChunkSteps
<1>3. ChunkInv => PiecesCover
  BY ChunkCovers
<1> QED BY <1>1, <1>2, <1>3, PTL DEF ChunkSpec

\* Units go forward, every section has a place to be cut, and cutting goes on somewhere.
ChunkShapes ==
    /\ media \in {"markdown", "plain"}
    /\ Len(doc) <= MaxLines
    /\ phase # "lines" => UnitsHold(units, Text, Len(doc))
    /\ \A g \in ToSet(todo) : g.ends # {}
    /\ pos \in Nat

\* A section holds the unit it begins with.
LEMMA SectionsHaveEnds ==
    ASSUME NEW us, Len(us) \in Nat, DOMAIN us = 1..Len(us), NEW g \in ToSet(Sections(us))
    PROVE  g.ends # {}
<1> DEFINE starts == SectionStarts(us)
<1>1. starts \in SUBSET (1..Len(us))
  BY DEF SectionStarts
<1>2. PICK place \in 1..Cardinality(starts) :
         g = SectionFrom(us, CHOOSE i \in starts : UpTo(starts, i) = place)
  BY DEF Sections, ToSet
<1> HIDE DEF starts
<1>3. \E j \in starts : UpTo(starts, j) = place
  <2>1. \A k \in 1..Cardinality(starts) : \E j \in starts : UpTo(starts, j) = k
    BY <1>1, UpToIsPlace
  <2> QED BY <1>2, <2>1
<1> DEFINE i == CHOOSE j \in starts : UpTo(starts, j) = place
<1>4. i \in starts
  BY <1>3
<1>5. i \in 1..Len(us) /\ g = SectionFrom(us, i)
  BY <1>1, <1>2, <1>4
<1> HIDE DEF i
<1>6. /\ Max(UnitsFrom(us, i)) \in i..Len(us)
      /\ \A m \in i..Len(us) : m \in UnitsFrom(us, i) <=> m <= Max(UnitsFrom(us, i))
  BY <1>5, UnitsOfSection
<1>7. i \in UnitsFrom(us, i)
  BY <1>5, <1>6
<1>8. us[i].end \in {us[m].end : m \in UnitsFrom(us, i)}
  BY <1>7
<1> QED BY <1>5, <1>8 DEF SectionFrom

LEMMA ChunkShapesKept ==
    ASSUME ChunkInv, ChunkShapes, [ChunkNext]_chunkVars
    PROVE  ChunkShapes'
<1>1. CASE ReadLine
  <2>1. /\ phase' = "lines" /\ media' = media /\ todo' = todo /\ pos' = pos
        /\ Len(doc) < MaxLines /\ \E line : doc' = Append(doc, line)
    BY <1>1 DEF ReadLine
  <2>2. IsSequence(doc)
    BY <1>1 DEF ChunkInv, LinesInv, LinesHold, Text, ReadLine
  <2>3. Len(doc') <= MaxLines
    BY <2>1, <2>2, OverlapIsSmaller DEF IsSequence
  <2> QED BY <2>1, <2>3 DEF ChunkShapes
<1>2. CASE EndOfText
  <2> DEFINE all == IF fence # NoFence THEN Append(units, UnitOf(fenced, Path)) ELSE WithParagraph
  <2>1. /\ phase = "lines" /\ phase' = "sections" /\ media' = media /\ doc' = doc
        /\ units' = all /\ todo' = Sections(all)
        /\ pos' = IF Sections(all) = <<>> THEN 0 ELSE Sections(all)[1].start
    BY <1>2 DEF EndOfText
  <2>2. LinesInv /\ CutInv' /\ Text' = Text
    BY <1>2, <2>1, ChunkSteps DEF ChunkInv, Text
  <2>3. UnitsHold(all, Text, Len(doc))
    BY <2>2, TextEnds
  <2> HIDE DEF all
  <2>4. Len(all) \in Nat /\ DOMAIN all = 1..Len(all)
    <3>1. IsSequence(all)
      BY <2>3 DEF UnitsHold
    <3> QED BY <3>1 DEF IsSequence
  <2>5. \A g \in ToSet(todo') : g.ends # {}
    BY <2>1, <2>4, SectionsHaveEnds
  <2>6. pos' \in Nat
    BY <2>1, <2>2 DEF CutInv, CutHolds
  <2> QED BY <2>1, <2>2, <2>3, <2>5, <2>6 DEF ChunkShapes
<1>3. CASE CutPiece
  <2>1. /\ phase = "sections" /\ phase' = phase /\ media' = media /\ doc' = doc /\ units' = units
        /\ todo' = todo /\ todo # <<>>
    BY <1>3 DEF CutPiece
  <2>2. CutInv' /\ Text' = Text
    BY <2>1, ChunkSteps DEF ChunkInv, Text
  <2>3. pos' \in Nat
    BY <2>1, <2>2 DEF CutInv, CutHolds
  <2> QED BY <2>1, <2>2, <2>3 DEF ChunkShapes
<1>4. CASE LastPiece
  <2>1. /\ phase = "sections" /\ phase' = phase /\ media' = media /\ doc' = doc /\ units' = units
        /\ todo' = Tail(todo) /\ todo # <<>>
        /\ pos' = IF Len(todo) > 1 THEN todo[2].start ELSE pos
    BY <1>4 DEF LastPiece
  <2>2. CutInv /\ CutInv' /\ Text' = Text
    BY <2>1, ChunkSteps DEF ChunkInv, Text
  <2>3. PICK S : todo \in Seq(S)
    BY <2>1, <2>2, FirstTells DEF IsSequence
  <2>4. /\ todo' \in Seq(S) /\ Len(todo') = Len(todo) - 1 /\ Len(todo) \in Nat
        /\ DOMAIN todo' = 1..(Len(todo) - 1) /\ DOMAIN todo = 1..Len(todo)
        /\ \A k \in 1..(Len(todo) - 1) : todo'[k] = todo[k + 1]
    BY <2>1, <2>3
  <2>5. \A k \in DOMAIN todo' : todo'[k] \in ToSet(todo)
    BY <2>4 DEF ToSet
  <2>6. ToSet(todo') \subseteq ToSet(todo)
    BY <2>5 DEF ToSet
  <2>7. Len(todo) > 1 => todo' # <<>>
    <3>1. Len(<<>>) = 0
      BY EmptySeq
    <3> QED BY <2>4, <3>1
  <2>8. pos' \in Nat
    BY <2>1, <2>2, <2>7 DEF CutInv, CutHolds, ChunkShapes
  <2> QED BY <2>1, <2>2, <2>6, <2>8 DEF ChunkShapes
<1>5. CASE UNCHANGED <<media, doc, units, todo, pos>> /\ (phase' # "lines" => phase # "lines")
  BY <1>5 DEF ChunkShapes, Text
<1> QED BY <1>1, <1>2, <1>3, <1>4, <1>5 DEF ChunkNext, Parsed, chunkVars

\* A unit never ends before it starts, a section always has a place to be cut, and a text
\* is read to its last line and no further.
THEOREM ChunkTypes == ChunkSpec => []ChunkTypeOK
<1>1. ChunkInit => ChunkInv /\ ChunkShapes
  <2> SUFFICES ASSUME ChunkInit PROVE ChunkShapes
    BY ChunkStarts
  <2>1. /\ media \in {"markdown", "plain"} /\ doc = <<>> /\ phase = "lines" /\ todo = <<>> /\ pos = 0
    BY DEF ChunkInit
  <2>2. Len(<<>>) = 0 /\ ToSet(<<>>) = {}
    BY EmptySeq DEF ToSet
  <2> QED BY <2>1, <2>2, OverlapIsSmaller DEF ChunkShapes
<1>2. ChunkInv /\ ChunkShapes /\ [ChunkNext]_chunkVars => ChunkInv' /\ ChunkShapes'
  BY ChunkSteps, ChunkShapesKept
<1>3. ChunkInv /\ ChunkShapes => ChunkTypeOK
  <2> SUFFICES ASSUME ChunkInv, ChunkShapes PROVE ChunkTypeOK
    OBVIOUS
  <2>1. \E m : UnitsHold(units, Text, m)
    BY DEF ChunkInv, ChunkShapes, LinesInv, LinesHold
  <2>2. \A u \in ToSet(units) : u.start <= u.end /\ u.heading \in BOOLEAN
    BY <2>1 DEF UnitsHold, UnitTells, ToSet
  <2>3. \A p \in ToSet(pieces) : p.start \in Nat /\ p.end \in Nat
    <3>1. CASE phase = "lines"
      BY <3>1, EmptySeq DEF ChunkInv, ToSet
    <3>2. CASE phase # "lines"
      BY <3>2 DEF ChunkInv, CutInv, CutHolds, PiecesTell, PieceTells, ToSet
    <3> QED BY <3>1, <3>2
  <2> QED BY <2>2, <2>3 DEF ChunkInv, ChunkShapes, ChunkTypeOK
<1> QED BY <1>1, <1>2, <1>3, PTL DEF ChunkSpec

=============================================================================
