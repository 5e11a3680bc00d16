---------------------------- MODULE MCDelegation ----------------------------
(***************************************************************************)
(* The loop and the Telegram thread, two keys and six requests: two plans  *)
(* under one key, one of them with the approval of another decision first, *)
(* that approval used again with a plan that needs none, two objectives of *)
(* one agent, a blocked plan.                                              *)
(***************************************************************************)
EXTENDS ExecutiveDelegation, TLC

CONSTANTS http, telegram, k1, k2, a1, read, write, deploy, wipe, web, ops, run

MCRisk  == (read :> "none") @@ (write :> "external") @@ (deploy :> "high")
           @@ (wipe :> "blocked")
MCAgent == (read :> web) @@ (write :> web) @@ (deploy :> ops) @@ (wipe :> ops)

Plan(objectives, external) == [objectives |-> objectives, external |-> external]
Req(key, plan, approval) == [key |-> key, plan |-> plan, approval |-> approval]
Yes(decision) == [id |-> a1, decision |-> decision, approved |-> TRUE]

MCRequests ==
    { Req(k1, Plan(<<read>>, FALSE), None),
      Req(k1, Plan(<<deploy>>, FALSE), Yes(<<write>>)),
      Req(k1, Plan(<<deploy>>, FALSE), Yes(<<deploy>>)),
      Req(k2, Plan(<<write>>, TRUE), Yes(<<deploy>>)),
      Req(k2, Plan(<<read, write>>, TRUE), None),
      Req(k2, Plan(<<wipe>>, FALSE), None) }
MCCategories == {"task_started", "task_completed", "guardian_blocked"}
=============================================================================
