----------------------------- MODULE MCPushTxs -----------------------------
(***************************************************************************)
(* The handler alone, for what the page says of its answer: requests with  *)
(* bodies that overlap in one transaction, bring one twice, bring one that *)
(* pays too little, and exceed MaxTerms (2).                               *)
(***************************************************************************)
EXTENDS PushTxs

CONSTANTS c1, c2, c3, will, heir, cheap, home, away

MCTxs    == {will, heir, cheap}
MCBodies == {<<will>>, <<cheap, will>>, <<will, heir>>, <<heir, heir>>,
             <<Junk, heir, will, heir>>}
MCPays   == [t \in MCTxs |-> IF t = heir THEN away ELSE home]
MCFee    == [t \in MCTxs |-> IF t = cheap THEN 1 ELSE 2]
=============================================================================
