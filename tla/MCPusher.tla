------------------------------ MODULE MCPusher ------------------------------
(***************************************************************************)
(* A small chain for TLC.  Heights run from 1 to 3 and times from 11 to    *)
(* 12, Threshold is 10, and each transaction is named for its locktime:    *)
(* none, a height the chain passes, a time it passes, the threshold.       *)
(***************************************************************************)
EXTENDS Pusher

CONSTANTS noLock, byHeight, byTime, atThreshold

MCTxs == {byHeight, byTime}

MCTxsThree == {noLock, byHeight, byTime}

MCTxsThreshold == {byHeight, atThreshold}

MCLocktime ==
  [t \in Txs |-> CASE t = noLock -> 0 [] t = byHeight -> 2 [] t = byTime -> 11
                   [] t = atThreshold -> 10]

AllFaults    == FaultKinds
NoFaults     == {}
PolicyAndKey == {"refuse", "badKey"}
CrashOnly    == {"crash"}
OutageOnly   == {"outage"}
EvictionOnly == {"evict"}
=============================================================================
