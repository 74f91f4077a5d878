------------------------------ MODULE Projects ------------------------------
(***************************************************************************)
(* Projects and who may see them: MembershipStore (identity/membership.py)  *)
(* in memory, PostgresMembershipRepository (db/identity_store.py) with the  *)
(* row policies of the migrations, and the routes that create and edit a    *)
(* project.  In postgres a step is a statement or a transaction of one; in  *)
(* memory, where nothing is locked, it is what runs before or after the     *)
(* moment another thread may take over.                                     *)
(***************************************************************************)
EXTENDS Naturals, FiniteSets

CONSTANTS
    Edits,         \* calls that create (with a grant, or found without), grant or edit
    EditOf,        \* call -> [kind, by, tenant, project, version, name, goal]
    EditLoads,     \* the sets of calls that are tried together
    People,        \* principals
    TenantOf,      \* principal -> its tenant
    ProjectIds,
    FirstProject   \* the project that exists and is granted to everybody of its tenant

\* A user acts for the own tenant, a script for the one it names.
ASSUME ProjectsAssumption ==
    /\ IsFiniteSet(Edits) /\ EditLoads \subseteq SUBSET Edits /\ FirstProject \in ProjectIds
    /\ \A e \in Edits :
         /\ EditOf[e].by \in People /\ EditOf[e].project \in ProjectIds
         /\ EditOf[e].version \in Nat
         /\ EditOf[e].kind \in {"create", "edit"} => EditOf[e].tenant = TenantOf[EditOf[e].by]

VARIABLES
    edits,    \* the calls of this behaviour
    shelf,    \* "postgres" or "memory"
    project,  \* id -> its row; version 0: there is none
    granted,  \* <<tenant, principal, project>>
    edit,     \* call -> [pc, seen]: where it is, the project it has read
    writes    \* history: [of, from, over, to], what an edit read, replaced and wrote

projectVars == <<edits, shelf, project, granted, edit, writes>>

Keep == "keep"  \* a field the body leaves out
NoProject == [version |-> 0, tenant |-> "none", name |-> "", goal |-> ""]
NewProject(tenant, name, goal) ==
    [version |-> 1, tenant |-> tenant, name |-> name, goal |-> goal]

ProjectsInit ==
    /\ edits \in EditLoads
    /\ shelf \in {"postgres", "memory"}
    /\ \E t \in {TenantOf[a] : a \in People} :
         /\ project = [p \in ProjectIds |-> IF p = FirstProject THEN NewProject(t, "first", "")
                                                              ELSE NoProject]
         /\ granted = {<<t, a, FirstProject>> : a \in {b \in People : TenantOf[b] = t}}
    /\ edit = [e \in Edits |-> [pc |-> "new", seen |-> NoProject]]
    /\ writes = {}

Ends(e, answer) == edit' = [edit EXCEPT ![e].pc = answer]
Asks(e, kind, pc) == EditOf[e].kind = kind /\ edit[e].pc = pc

\* get: the project exists, is of the tenant of the actor and was granted to it.
Visible(actor, p) ==
    /\ project[p].version > 0
    /\ project[p].tenant = TenantOf[actor]
    /\ <<TenantOf[actor], actor, p>> \in granted

-----------------------------------------------------------------------------
(* Creating and granting.                                                  *)

Insert(e) ==
    project' = [project EXCEPT ![EditOf[e].project] =
                  NewProject(EditOf[e].tenant, EditOf[e].name, EditOf[e].goal)]

Grants(e) == {<<TenantOf[EditOf[e].by], EditOf[e].by, EditOf[e].project>>}

\* An id that is taken is refused.
CreateRefused(e) ==
    /\ Asks(e, "create", "new") \/ Asks(e, "found", "new")
    /\ project[EditOf[e].project].version > 0
    /\ Ends(e, "exists")
    /\ UNCHANGED <<edits, shelf, project, granted, writes>>

\* create_project, the act of a script: nobody is granted what it makes.
CreateUngranted(e) ==
    /\ Asks(e, "found", "new")
    /\ project[EditOf[e].project].version = 0
    /\ Insert(e)
    /\ Ends(e, "ok")
    /\ UNCHANGED <<edits, shelf, granted, writes>>

\* create_project_for: in postgres the project and the grant are one transaction.
CreateAndGrant(e) ==
    /\ shelf = "postgres"
    /\ Asks(e, "create", "new")
    /\ project[EditOf[e].project].version = 0
    /\ Insert(e)
    /\ granted' = granted \cup Grants(e)
    /\ Ends(e, "ok")
    /\ UNCHANGED <<edits, shelf, writes>>

\* In memory they are two assignments.
CreateOnly(e) ==
    /\ shelf = "memory"
    /\ Asks(e, "create", "new")
    /\ project[EditOf[e].project].version = 0
    /\ Insert(e)
    /\ Ends(e, "grant")
    /\ UNCHANGED <<edits, shelf, granted, writes>>

GrantOwn(e) ==
    /\ Asks(e, "create", "grant")
    /\ granted' = granted \cup Grants(e)
    /\ Ends(e, "ok")
    /\ UNCHANGED <<edits, shelf, project, writes>>

\* grant_project, the act of a script in the name of a tenant: the project has to be of
\* that tenant; in postgres a foreign key asks the same of the principal.
MayGrant(e) ==
    LET asked == EditOf[e]
    IN /\ project[asked.project].version > 0
       /\ project[asked.project].tenant = asked.tenant
       /\ shelf = "postgres" => TenantOf[asked.by] = asked.tenant

GrantProject(e) ==
    /\ Asks(e, "grant", "new")
    /\ \/ /\ MayGrant(e)
          /\ granted' = granted \cup {<<EditOf[e].tenant, EditOf[e].by, EditOf[e].project>>}
          /\ Ends(e, "ok")
       \/ ~MayGrant(e) /\ granted' = granted /\ Ends(e, "denied")
    /\ UNCHANGED <<edits, shelf, project, writes>>

-----------------------------------------------------------------------------
(* Editing.                                                                *)

\* What an edit makes of the project it starts from.
Edited(from, e) ==
    [version |-> from.version + 1, tenant |-> from.tenant,
     name |-> IF EditOf[e].name = Keep THEN from.name ELSE EditOf[e].name,
     goal |-> IF EditOf[e].goal = Keep THEN from.goal ELSE EditOf[e].goal]

Write(e, from) ==
    LET p == EditOf[e].project
    IN /\ project' = [project EXCEPT ![p] = Edited(from, e)]
       /\ writes' = writes \cup {[of |-> e, from |-> from, over |-> project[p],
                                  to |-> Edited(from, e)]}
       /\ Ends(e, "ok")

\* update_project: an edit of nothing is refused before anything is read.
EditsNothing(e) == EditOf[e].name = Keep /\ EditOf[e].goal = Keep

RefuseEdit(e) ==
    /\ Asks(e, "edit", "new")
    /\ EditsNothing(e)
    /\ Ends(e, "invalid")
    /\ UNCHANGED <<edits, shelf, project, granted, writes>>

\* An UPDATE that does not ask for the version.
MatchesAnyVersion(e) == Visible(EditOf[e].by, EditOf[e].project)

\* The WHERE of the UPDATE, under the policy that shows only what was granted.
Matches(e) ==
    LET asked == EditOf[e]
    IN Visible(asked.by, asked.project) /\ project[asked.project].version = asked.version

UpdateRow(e) ==
    /\ shelf = "postgres"
    /\ Asks(e, "edit", "new")
    /\ ~EditsNothing(e)
    /\ \/ Matches(e) /\ Write(e, project[EditOf[e].project])
       \/ ~Matches(e) /\ Ends(e, "look") /\ UNCHANGED <<project, writes>>
    /\ UNCHANGED <<edits, shelf, granted>>

\* No row was changed: a second statement asks whether one is visible.
LookAgain(e) ==
    /\ Asks(e, "edit", "look")
    /\ Ends(e, IF Visible(EditOf[e].by, EditOf[e].project) THEN "conflict" ELSE "denied")
    /\ UNCHANGED <<edits, shelf, project, granted, writes>>

\* In memory: visible and of the expected version when it is read...
ReadProject(e) ==
    LET p == EditOf[e].project
    IN /\ shelf = "memory"
       /\ Asks(e, "edit", "new")
       /\ ~EditsNothing(e)
       /\ \/ ~Visible(EditOf[e].by, p) /\ Ends(e, "denied")
          \/ /\ Visible(EditOf[e].by, p)
             /\ project[p].version # EditOf[e].version
             /\ Ends(e, "conflict")
          \/ Matches(e) /\ edit' = [edit EXCEPT ![e] = [pc |-> "write", seen |-> project[p]]]
       /\ UNCHANGED <<edits, shelf, project, granted, writes>>

\* ... and written from what was read.
WriteProject(e) ==
    /\ Asks(e, "edit", "write")
    /\ Write(e, edit[e].seen)
    /\ UNCHANGED <<edits, shelf, granted>>

ProjectsNext ==
    \E e \in edits :
        \/ CreateRefused(e) \/ CreateUngranted(e) \/ CreateAndGrant(e) \/ CreateOnly(e) \/ GrantOwn(e)
        \/ GrantProject(e)
        \/ RefuseEdit(e) \/ UpdateRow(e) \/ LookAgain(e) \/ ReadProject(e) \/ WriteProject(e)

ProjectsSpec == ProjectsInit /\ [][ProjectsNext]_projectVars

-----------------------------------------------------------------------------
(* Properties.                                                             *)

EditPc == {"new", "grant", "look", "write", "ok", "exists", "denied", "conflict", "invalid"}

TenantsNamed == {TenantOf[a] : a \in People} \cup {EditOf[e].tenant : e \in Edits}

ProjectsTypeOK ==
    /\ edits \in EditLoads /\ shelf \in {"postgres", "memory"}
    /\ \A p \in ProjectIds : project[p].version \in 0..(1 + Cardinality(Edits))
    /\ granted \subseteq TenantsNamed \X People \X ProjectIds
    /\ \A e \in Edits : edit[e].pc \in EditPc
    /\ \A w \in writes : w.of \in Edits

\* An edit that is answered was made of the version its author named, by somebody the
\* project was granted to.  In postgres no edit is lost: each starts from the project
\* it replaces, so the versions are one chain.  In memory one may be, to an edit that
\* had read the project before it; then the version may even go back.
\* A project answered as created is visible to its creator, in postgres as soon as it
\* is there.
ProjectsHold ==
    /\ \A w \in writes :
         /\ w.from.version = EditOf[w.of].version
         /\ w.to = Edited(w.from, w.of)
         /\ Visible(EditOf[w.of].by, EditOf[w.of].project)
         /\ w.from # w.over =>
              /\ shelf = "memory"
              /\ \E x \in writes \ {w} : x.to = w.over /\ EditOf[x.of].project = EditOf[w.of].project
    /\ \A v, w \in writes :
         /\ shelf = "postgres" /\ v # w
         /\ EditOf[v.of].project = EditOf[w.of].project
         => v.to.version # w.to.version
    /\ \A e \in edits :
         /\ Asks(e, "create", "ok") => Visible(EditOf[e].by, EditOf[e].project)
         /\ shelf = "postgres" => edit[e].pc # "grant"
=============================================================================
