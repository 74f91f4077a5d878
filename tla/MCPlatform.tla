----------------------------- MODULE MCPlatform -----------------------------
(***************************************************************************)
(* Small instances of the rest of the platform.  The parts share no   *)
(* state in the code that matters to what is checked here, so a behaviour   *)
(* exercises one of them and the state space is their sum.                  *)
(***************************************************************************)
EXTENDS SignIn, Products, Chunking, Projects, Retrieval, TeachingStream

VARIABLE part

(* Signing in: two or three exchanges of one token, a logout of all devices  *)
(* against an exchange and a call with its cookie, a logout against another, *)
(* and three logouts that fill the buffer of a sink.                         *)
MCRequests == {"e1", "e2", "e3", "all", "all2", "all3", "out", "late", "call"}
MCKindOf == [r \in MCRequests |->
               CASE r \in {"e1", "e2", "e3"} -> "exchange"
                 [] r \in {"all", "all2", "all3"} -> "logoutAll"
                 [] r = "out" -> "logout"
                 [] OTHER -> "call"]
MCTokenOf == [r \in {"e1", "e2", "e3"} |-> "i1"]
MCCookieOf == [r \in MCRequests |-> IF r \in {"out", "late"} THEN "e1" ELSE "s0"]
MCEvents == MCRequests \X {"exchanged", "limited", "declined", "revoked", "denied"}
MCLoads == {[store |-> "postgres", drills |-> 0, load |-> {"e1", "e2"}],
            [store |-> "postgres", drills |-> 0, load |-> {"e1", "all", "late"}],
            [store |-> "postgres", drills |-> 1, load |-> {"all", "call"}],
            [store |-> "postgres", drills |-> 1, load |-> {"e1", "call"}],
            [store |-> "memory", drills |-> 0, load |-> {"e1", "e2", "e3"}],
            [store |-> "memory", drills |-> 1, load |-> {"e1", "out", "late"}],
            [store |-> "memory", drills |-> 1, load |-> {"all", "all2", "all3"}]}

(* Products: plans against plans, moves and reports of two tasks, messages.  *)
MCCalls == {"d1", "d2", "g1", "g2", "p1", "m0", "m1", "m2", "m3", "m4", "m5",
            "s1", "s2", "s3", "s4", "a1", "a2", "o1", "o2", "v1"}
MCCallKind == [c \in MCCalls |->
    CASE c \in {"d1", "d2"} -> "diagnose"
      [] c \in {"g1", "g2"} -> "generate"
      [] c = "p1" -> "replace"
      [] c \in {"m0", "m1", "m2", "m3", "m4", "m5"} -> "move"
      [] c \in {"s1", "s2", "s3", "s4"} -> "submit"
      [] c \in {"a1", "a2"} -> "append"
      [] c \in {"o1", "o2"} -> "observe"
      [] OTHER -> "mastery"]
MCTaskCalled == [c \in {"m0", "m1", "m2", "m3", "m4", "m5", "s1", "s2", "s3", "s4"} |->
    CASE c \in {"m4", "s3"} -> <<"g0", 2>>
      [] c \in {"m5", "s4"} -> <<"p1", 1>>
      [] OTHER -> <<"g0", 1>>]
MCMoveFrom == [m0 |-> "done", m1 |-> "pending", m2 |-> "pending",
               m3 |-> "in_progress", m4 |-> "pending", m5 |-> "pending"]
MCMoveTo == [m0 |-> "pending", m1 |-> "in_progress", m2 |-> "skipped",
             m3 |-> "done", m4 |-> "in_progress", m5 |-> "in_progress"]
MCComponentOf == <<"k1", "k2">>
Verdict(c, valid, direction, level) ==
    [component |-> c, valid |-> valid, direction |-> direction, level |-> level, group |-> "old"]
MCPriorEvents ==
    {[seq |-> 1, by |-> "b1", task |-> <<"g0", 2>>, kind |-> "learning",
      verdicts |-> <<Verdict("k1", TRUE, "negative", "practiced"),
                     Verdict("k2", FALSE, "positive", "demonstrated")>>],
     [seq |-> 2, by |-> "b2", task |-> <<"g0", 1>>, kind |-> "project",
      verdicts |-> <<Verdict("k1", TRUE, "positive", "demonstrated")>>],
     [seq |-> 3, by |-> "b3", task |-> <<"g0", 1>>, kind |-> "learning",
      verdicts |-> <<Verdict("k1", TRUE, "positive", "practiced")>>]}
MCSuperseded == {<<"b3", "k1">>}
MCObserved ==
    [o1 |-> [task |-> <<"g0", 1>>, kind |-> "learning",
             verdicts |-> <<Verdict("k1", TRUE, "positive", "practiced")>>],
     o2 |-> [task |-> <<"g0", 1>>, kind |-> "learning",
             verdicts |-> <<Verdict("k1", TRUE, "negative", "demonstrated")>>]]
MCCallLoads ==
    {[backing |-> b, calls |-> l] : b \in {"postgres", "memory"},
        l \in {{"d1", "d2", "g1", "g2", "p1"}, {"p1", "g1", "d1", "m5", "s4"},
               {"m1", "m2", "m3", "s1", "s2", "v1"},
               {"m1", "m4", "s1", "s3", "v1"}, {"m1", "s1", "o1", "o2", "v1"}, {"a1", "a2", "m0"}}}

(* Chunking: paragraphs short and too long, headings of two levels, fences   *)
(* that do and do not close one another.                                     *)
Kind(kind, size, level, title, char, run, info) ==
    [kind |-> kind, size |-> size, level |-> level, title |-> title,
     char |-> char, run |-> run, info |-> info]
MCLineKinds ==
    {Kind("blank", 0, 0, "", "", 0, ""),
     Kind("text", 2, 0, "", "", 0, ""),
     Kind("text", 7, 0, "", "", 0, ""),
     Kind("heading", 3, 1, "A", "", 0, ""),
     Kind("heading", 4, 2, "B", "", 0, ""),
     Kind("fence", 3, 0, "", "backtick", 3, "none"),
     Kind("fence", 4, 0, "", "backtick", 4, "none"),
     Kind("fence", 3, 0, "", "tilde", 3, "none"),
     Kind("fence", 5, 0, "", "backtick", 3, "backtick")}

(* Projects: two edits of one version and a third of the next, an edit of    *)
(* nothing, creations of one id, grants inside a tenant and across.          *)
Edit(kind, by, tenant, p, version, name, goal) ==
    [kind |-> kind, by |-> by, tenant |-> tenant, project |-> p,
     version |-> version, name |-> name, goal |-> goal]
MCEdits == {"x1", "x2", "x3", "x4", "y1", "x5", "c1", "c2", "f1", "g1", "g2", "g3"}
MCEditOf ==
    [x1 |-> Edit("edit", "ann", "t1", "p0", 1, "n1", Keep),
     x2 |-> Edit("edit", "bob", "t1", "p0", 1, Keep, "g1"),
     x3 |-> Edit("edit", "ann", "t1", "p0", 2, "n2", Keep),
     x4 |-> Edit("edit", "cat", "t2", "p0", 1, "n3", "g3"),
     x5 |-> Edit("edit", "bob", "t1", "p1", 1, "n7", Keep),
     y1 |-> Edit("edit", "bob", "t1", "p1", 1, Keep, Keep),
     c1 |-> Edit("create", "ann", "t1", "p1", 0, "n4", ""),
     c2 |-> Edit("create", "cat", "t2", "p1", 0, "n5", ""),
     f1 |-> Edit("found", "bob", "t1", "p1", 0, "n6", ""),
     g1 |-> Edit("grant", "bob", "t1", "p1", 0, "", ""),
     g2 |-> Edit("grant", "cat", "t2", "p0", 0, "", ""),
     g3 |-> Edit("grant", "cat", "t1", "p0", 0, "", "")]
MCTenantOf == [ann |-> "t1", bob |-> "t1", cat |-> "t2"]

(* Retrieval: two sources, one in two versions with pieces at the same places, a *)
(* version without pieces, ties between sources and inside one.              *)
Chunk(from, to, heading, body, text) ==
    [from |-> from, to |-> to, heading |-> heading, body |-> body, text |-> text]
MCChunksOf ==
    [a1 |-> <<Chunk(0, 9, {}, {"roll"}, "old"), Chunk(9, 18, {"roll"}, {"roll", "back"}, "step")>>,
     a2 |-> <<Chunk(0, 9, {}, {"roll", "back", "roll back"}, "new"), Chunk(9, 18, {}, {"back"}, "last")>>,
     a3 |-> <<>>,
     b1 |-> <<Chunk(0, 9, {}, {"back"}, "other"), Chunk(9, 18, {}, {"back", "..."}, "twin")>>]
MCSourceRank == [a1 |-> 1, a2 |-> 1, a3 |-> 1, b1 |-> 2]
MCVersionOf == [a1 |-> 1, a2 |-> 2, a3 |-> 3, b1 |-> 1]
MCLookupKind == [s1 |-> "search", s2 |-> "search", s3 |-> "search", s4 |-> "search",
                 r1 |-> "read", j1 |-> "judge"]
RollBack == [phrase |-> "roll back", terms |-> {"roll", "back"}]
MCQueryOf == [s1 |-> RollBack, s2 |-> RollBack, s3 |-> RollBack, s4 |-> [phrase |-> "...", terms |-> {}]]
MCLimitOf == [s1 |-> 4, s2 |-> 4, s3 |-> 1, s4 |-> 4]

-----------------------------------------------------------------------------
vars == <<part, trailVars, signVars, productVars, chunkVars, projectVars, retrievalVars, streamVars>>

\* Where the parts that a behaviour does not exercise stay.
SignRests == load = {"all", "call"}
ProductsRest == callers = {"a1", "a2", "m0"} /\ backing = "memory"
ChunkingRests == media = "plain"
ProjectsRest == edits = {"x4"} /\ shelf = "memory" /\ project[FirstProject].tenant = "t1"
RetrievalRests == lookups = {"j1"}
StreamRests == logged = 0

Init ==
    /\ SignInit /\ ProductInit /\ ChunkInit /\ ProjectsInit /\ RetrievalInit /\ StreamInit
    /\ part \in {"signIn", "products", "chunking", "projects", "retrieval", "stream"}
    /\ part # "signIn" => SignRests
    /\ part # "products" => ProductsRest
    /\ part # "chunking" => ChunkingRests
    /\ part # "projects" => ProjectsRest
    /\ part # "retrieval" => RetrievalRests
    /\ part # "stream" => StreamRests

Next ==
    /\ \/ part = "signIn" /\ SignNext
          /\ UNCHANGED <<productVars, chunkVars, projectVars, retrievalVars, streamVars>>
       \/ part = "products" /\ ProductNext
          /\ UNCHANGED <<trailVars, signVars, chunkVars, projectVars, retrievalVars, streamVars>>
       \/ part = "chunking" /\ ChunkNext
          /\ UNCHANGED <<trailVars, signVars, productVars, projectVars, retrievalVars, streamVars>>
       \/ part = "projects" /\ ProjectsNext
          /\ UNCHANGED <<trailVars, signVars, productVars, chunkVars, retrievalVars, streamVars>>
       \/ part = "retrieval" /\ RetrievalNext
          /\ UNCHANGED <<trailVars, signVars, productVars, chunkVars, projectVars, streamVars>>
       \/ part = "stream" /\ StreamNext
          /\ UNCHANGED <<trailVars, signVars, productVars, chunkVars, projectVars, retrievalVars>>
    /\ UNCHANGED part

Spec == Init /\ [][Next]_vars

\* Every variable of the parts keeps its type and its bounds.
TypeOK ==
    /\ SignTypeOK /\ ProductTypeOK /\ ChunkTypeOK
    /\ ProjectsTypeOK /\ RetrievalTypeOK /\ StreamTypeOK
=============================================================================
