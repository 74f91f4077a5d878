-------------------------- MODULE Platform_proofs --------------------------
(***************************************************************************)
(* The parts that MCPlatform puts side by side, for any constants: each of  *)
(* its behaviours is a behaviour of every part, with steps of others in     *)
(* between, so what is proved of a part holds of it, its types included.    *)
(***************************************************************************)
EXTENDS MCPlatform, SignIn_proofs, Workspace_proofs

LEMMA SignsIn == Spec => SignSpec
<1>1. Init => SignInit
  BY DEF Init
<1>2. [Next]_vars => [SignNext]_<<trailVars, signVars>>
  BY DEF Next, vars
<1> QED BY <1>1, <1>2, PTL DEF Spec, SignSpec

LEMMA KeepsProducts == Spec => ProductSpec
<1>1. Init => ProductInit
  BY DEF Init
<1>2. [Next]_vars => [ProductNext]_productVars
  BY DEF Next, vars
<1> QED BY <1>1, <1>2, PTL DEF Spec, ProductSpec

LEMMA Parses == Spec => ChunkSpec
<1>1. Init => ChunkInit
  BY DEF Init
<1>2. [Next]_vars => [ChunkNext]_chunkVars
  BY DEF Next, vars
<1> QED BY <1>1, <1>2, PTL DEF Spec, ChunkSpec

LEMMA KeepsProjects == Spec => ProjectsSpec
<1>1. Init => ProjectsInit
  BY DEF Init
<1>2. [Next]_vars => [ProjectsNext]_projectVars
  BY DEF Next, vars
<1> QED BY <1>1, <1>2, PTL DEF Spec, ProjectsSpec

LEMMA Retrieves == Spec => RetrievalSpec
<1>1. Init => RetrievalInit
  BY DEF Init
<1>2. [Next]_vars => [RetrievalNext]_retrievalVars
  BY DEF Next, vars
<1> QED BY <1>1, <1>2, PTL DEF Spec, RetrievalSpec

LEMMA Streams == Spec => StreamSpec
<1>1. Init => StreamInit
  BY DEF Init
<1>2. [Next]_vars => [StreamNext]_streamVars
  BY DEF Next, vars
<1> QED BY <1>1, <1>2, PTL DEF Spec, StreamSpec

\* Every variable of every part keeps its type and its bounds, whatever the calls, people,
\* documents and texts are: no version is ahead of the calls that could have raised it, no
\* plan numbered beyond the calls that make one, no failure, restart or fault beyond its
\* bound, and no record names what there is not.
THEOREM PlatformTypes == Spec => []TypeOK
<1>1. SignTypeOK /\ ProductTypeOK /\ ChunkTypeOK /\ ProjectsTypeOK /\ RetrievalTypeOK /\ StreamTypeOK
      => TypeOK
  BY DEF TypeOK
<1>2. /\ Spec => []SignTypeOK
      /\ Spec => []ProductTypeOK
      /\ Spec => []ChunkTypeOK
      /\ Spec => []ProjectsTypeOK
      /\ Spec => []RetrievalTypeOK
      /\ Spec => []StreamTypeOK
  BY SignsIn, KeepsProducts, Parses, KeepsProjects, Retrieves, Streams, SignInTypes, ProductTypes,
     ChunkTypes, ProjectTypes, RetrievalTypes, StreamTypes
<1> QED BY <1>1, <1>2, PTL

\* What each part promises it keeps when all of them run in one process: a trail that is
\* linked and loses nothing it accepted, one session for an invitation, refusal after a
\* revocation, the limit of a window; plans, tasks and messages without a hole, mastery that
\* is earned; documents cut without loss; projects, answers and streams that stay true.
THEOREM PlatformKeepsItsPromises ==
    Spec => /\ []TrailHolds /\ []EventsAreKept /\ []OneSessionPerInvitation
            /\ []RevokedIsRefused /\ []WindowLimit
            /\ []PlansAndTasks /\ []MasteryIsEarned /\ []PiecesCover
            /\ []ProjectsHold /\ []AnswersStayTrue /\ []EveryEventOnce
<1>1. Spec => /\ []TrailHolds /\ []EventsAreKept /\ []OneSessionPerInvitation
              /\ []RevokedIsRefused /\ []WindowLimit
  BY SignsIn, TrailIsLinked, AcceptedIsKept, InvitationsAreUsedOnce, RevocationHolds, WindowsAreLimited
<1>2. Spec => []PlansAndTasks /\ []MasteryIsEarned
  BY KeepsProducts, PlansAreNumberedAndMovesLegal, MasteryIsEarnedForGood
<1>3. Spec => []PiecesCover /\ []ProjectsHold /\ []AnswersStayTrue /\ []EveryEventOnce
  BY Parses, KeepsProjects, Retrieves, Streams, DocumentsAreCovered, EditsAreNotLost,
     AnswersAreTrueForGood, EventsOnce
<1> QED BY <1>1, <1>2, <1>3
=============================================================================
