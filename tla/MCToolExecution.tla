-------------------------- MODULE MCToolExecution --------------------------
(***************************************************************************)
(* Model values for ToolExecution, with the nodes of the registry.  r1 and *)
(* r2 are one request to validate_and_record and its retry under the same  *)
(* key; r3 refers to the same confirmation without a key; r4 retrieves and *)
(* tries to fetch from outside.                                            *)
(***************************************************************************)
EXTENDS ToolExecution, TLC

CONSTANTS r1, r2, r3, r4, project, k1, validator, append, chunks, fetch, c1

MCProjectOf == [r \in Runs |-> project]
MCTenantLimit == (Counter :> 9) @@ (Cost :> 9)
MCCompletionReserve == (Counter :> 0) @@ (Cost :> 1)
MCProjectGrant == (Counter :> 6) @@ (Cost :> 6)
MCKeyOf == (r1 :> k1) @@ (r2 :> k1) @@ (r3 :> NoKey) @@ (r4 :> k1)
MCContentOf == (r1 :> "record") @@ (r2 :> "record") @@ (r3 :> "again") @@ (r4 :> "retrieve")
MCParamsOf == (r1 :> "artifact") @@ (r2 :> "artifact") @@ (r3 :> "artifact") @@ (r4 :> "url")
MCLoads == {{r1, r2}, {r1, r3}, {r1, r4}, {r3, r4}}
MCMaxFaults == [l \in Loads |-> IF l = {r1, r4} THEN 2 ELSE 1]
MCScript == [r \in Runs |-> IF r = r4 THEN <<chunks, fetch>> ELSE <<validator, append>>]
MCNodeGrant == [r \in Runs |-> (Counter :> 2) @@ (Cost :> IF r = r4 THEN 4 ELSE 3)]
MCCallCost == [t \in Tools |-> (Counter :> 1) @@ (Cost :> IF t = fetch THEN 2 ELSE 1)]
MCSpends == [t \in Tools |-> {1}]
MCConfirmationOf == [r \in Runs |-> IF r = r4 THEN NoConfirmation ELSE c1]
MCCovers == (c1 :> {<<r, append>> : r \in {r1, r2, r3}})
MCCeiling == (c1 :> 1)

=============================================================================
