----------------------- MODULE PusherRefinementProofs -----------------------
(***************************************************************************)
(* The pusher implements WillLifecycle: every step of main_result, of the  *)
(* server and of the node is a step of the lifecycle or changes nothing    *)
(* that the dashboard shows.                                               *)
(***************************************************************************)
EXTENDS PusherProofs

Fates == [t \in Txs |-> Fate(t)]

\* Changing one row changes the state shown of that transaction only.
LEMMA OneFate ==
  ASSUME NEW t \in Txs, \A s \in Txs \ {t} : Fate(s)' = Fate(s)
  PROVE  Fates' = [Fates EXCEPT ![t] = Fate(t)']
BY DEF Fates

\* A step that leaves the rows and the tip alone shows nothing new.
LEMMA NothingShown ==
  ASSUME UNCHANGED <<height, mtp, stored, status, confs>>
  PROVE  UNCHANGED Will!vars
BY DEF Will!vars, Fate, ResolveState

LEMMA InitRefines == Init => Will!Init
BY BoundsAssumption DEF Init, NodeInit, Will!Init, Fate

\* A block is a tick of the abstract clock.
LEMMA BlockRefines ==
  ASSUME Inv, MineBlock, UNCHANGED <<stored, status, confs>>
  PROVE  Will!Tick
BY BlocksOnlyAdvance DEF Inv, Will!Tick, Fate, ResolveState

LEMMA ArriveRefines ==
  ASSUME Inv, NEW t \in Txs, Arrive(t)
  PROVE  Will!Store(t)
<1>. USE DEF Inv, TypeOK, Arrive, nodeVars
<1>1. Fate(t) = "unknown" /\ Fate(t)' = "waiting"
  BY DEF RowInv, Fate, ResolveState, Waiting, Sent, Failed
<1>2. \A s \in Txs \ {t} : Fate(s)' = Fate(s)
  BY DEF Fate, ResolveState
<1>. QED
  BY <1>1, <1>2, OneFate DEF Will!Store, Will!Becomes, Fates

LEMMA StoreSentRefines ==
  ASSUME Inv, NEW t \in Txs, StoreSent(t)
  PROVE  Will!Broadcast(t) \/ UNCHANGED Will!vars
<1>. USE DEF Inv, TypeOK, Waiting, Sent, Failed
<1>1. t \in stored /\ status[t] = Waiting /\ confs[t] = 0 /\ Ripe(t)
  BY DEF StoreSent, RowInv
<1>2. CASE UNCHANGED <<status, confs>>
  BY <1>2, NothingShown DEF StoreSent
<1>3. CASE status' = [status EXCEPT ![t] = Sent] /\ confs' = confs
  <2>1. Fate(t) = "waiting" /\ Fate(t)' = "mempool"
    BY <1>1, <1>3 DEF StoreSent, Fate, ResolveState
  <2>2. \A s \in Txs \ {t} : Fate(s)' = Fate(s)
    BY <1>3 DEF StoreSent, Fate, ResolveState
  <2>3. Will!Mature(t)
    BY <1>1 DEF Ripe, Mature, Will!Mature
  <2>. QED
    BY <2>1, <2>2, <2>3, OneFate
       DEF StoreSent, Will!Broadcast, Will!Becomes, Fates
<1>. QED
  BY <1>2, <1>3 DEF StoreSent, Update

LEMMA StoreFailedRefines ==
  ASSUME Inv, NEW t \in Txs, StoreFailed(t)
  PROVE  Will!Refuse(t) \/ UNCHANGED Will!vars
<1>. USE DEF Inv, TypeOK, Waiting, Sent, Failed
<1>1. t \in stored /\ status[t] = Waiting /\ Ripe(t)
  BY DEF StoreFailed, RowInv
<1>2. CASE UNCHANGED <<status, confs>>
  BY <1>2, NothingShown DEF StoreFailed
<1>3. CASE status' = [status EXCEPT ![t] = Failed] /\ confs' = confs
  <2>1. Fate(t) = "waiting" /\ Fate(t)' = "elsewhere"
    BY <1>1, <1>3 DEF StoreFailed, Fate, ResolveState
  <2>2. \A s \in Txs \ {t} : Fate(s)' = Fate(s)
    BY <1>3 DEF StoreFailed, Fate, ResolveState
  <2>3. Will!Mature(t)
    BY <1>1 DEF Ripe, Mature, Will!Mature
  <2>. QED
    BY <2>1, <2>2, <2>3, OneFate
       DEF StoreFailed, Will!Refuse, Will!Becomes, Fates
<1>. QED
  BY <1>2, <1>3 DEF StoreFailed, Update

\* Confirmations appear, and those that have appeared do not go away.
LEMMA TrackRefines ==
  ASSUME Inv, NEW t \in Txs, Track(t)
  PROVE  Will!Confirm(t) \/ UNCHANGED Will!vars
<1>. USE DEF Inv, TypeOK, Waiting, Sent, Failed
<1>1. t \in stored /\ status[t] = Sent
  BY DEF Track, RowInv
<1>2. \A s \in Txs \ {t} : Fate(s)' = Fate(s)
  BY DEF Track, Update, Fate, ResolveState
<1>3. CASE Fate(t)' = Fate(t)
  <2>1. Fates' = Fates
    BY <1>2, <1>3 DEF Fates
  <2>. QED
    BY <2>1 DEF Track, Fates, Will!vars
<1>4. CASE Fate(t)' # Fate(t)
  <2>1. Fate(t) = "mempool" /\ Fate(t)' = "confirmed"
    BY <1>1, <1>4
       DEF Track, Update, RawConfirmations, ConfsInv, Mined, Confirmations,
           Fate, ResolveState
  <2>. QED
    BY <2>1, <1>2, OneFate DEF Track, Will!Confirm, Will!Becomes, Fates
<1>. QED
  BY <1>3, <1>4

\* Only a node that stops or has no index takes a confirmation back.
LEMMA ProbeRefines ==
  ASSUME Inv, NEW t \in Txs, t = probed, ProbeMisses
  PROVE  Will!Displace(t) \/ Will!TakeBack(t) \/ UNCHANGED Will!vars
<1>. USE DEF Inv, TypeOK, Waiting, Sent, Failed
<1>1. t \in stored /\ status[t] = Sent
  BY DEF ProbeMisses, RowInv
<1>2. CASE UNCHANGED <<status, confs>>
  BY <1>2, NothingShown DEF ProbeMisses
<1>3. CASE /\ status' = [status EXCEPT ![t] = Failed]
           /\ confs' = [confs EXCEPT ![t] = -1]
  <2>1. \A s \in Txs \ {t} : Fate(s)' = Fate(s)
    BY <1>3 DEF ProbeMisses, Fate, ResolveState
  <2>2. Fate(t)' = "elsewhere"
    BY <1>1, <1>3 DEF ProbeMisses, Fate, ResolveState
  <2>3. CASE confs[t] > 0
    <3>1. ~Durable /\ Fate(t) = "confirmed"
      BY <1>1, <2>3 DEF ProbeInv, ProbeMisses, Fate, ResolveState
    <3>. QED
      BY <2>1, <2>2, <3>1, OneFate
         DEF ProbeMisses, Will!TakeBack, Will!Becomes, Fates
  <2>4. CASE ~(confs[t] > 0)
    <3>1. Fate(t) = "mempool"
      BY <1>1, <2>4 DEF Fate, ResolveState
    <3>. QED
      BY <2>1, <2>2, <3>1, OneFate
         DEF ProbeMisses, Will!Displace, Will!Becomes, Fates
  <2>. QED
    BY <2>3, <2>4
<1>. QED
  BY <1>2, <1>3 DEF ProbeMisses, Update

LEMMA StepRefines ==
  ASSUME Inv, [Next]_vars
  PROVE  [Will!Next]_(Will!vars)
<1>1. ASSUME NEW t \in Txs, Arrive(t) PROVE [Will!Next]_(Will!vars)
  BY <1>1, ArriveRefines DEF Will!Next
<1>2. CASE HeardBlock \/ UnheardBlock
  BY <1>2, BlockRefines DEF HeardBlock, UnheardBlock, tableVars, Will!Next
<1>3. ASSUME NEW t \in Txs, StoreSent(t) \/ StoreFailed(t)
      PROVE  [Will!Next]_(Will!vars)
  BY <1>3, StoreSentRefines, StoreFailedRefines DEF Will!Next
<1>4. ASSUME NEW t \in Txs, Track(t) PROVE [Will!Next]_(Will!vars)
  BY <1>4, TrackRefines DEF Will!Next
<1>5. CASE ProbeMisses
  <2>1. probed \in Txs
    BY <1>5 DEF ProbeMisses, Inv, TypeOK
  <2>. QED
    BY <1>5, <2>1, ProbeRefines DEF Will!Next
<1>6. CASE NodeFails \/ NodeReturns \/ Crash \/ Panic
  BY <1>6, NothingShown
     DEF NodeFails, NodeReturns, Crash, Panic, Die, Evict, Relay, NodeStop,
         NodeStart, tableVars
<1>7. CASE Start \/ Receive \/ Connect \/ ConnectFails \/ Select \/ SelectFails
           \/ SendDone \/ StoreDone \/ List \/ ProbeFinds \/ TrackDone
           \/ DeleteStats \/ InsertStats
  BY <1>7, NothingShown
     DEF Start, Receive, Connect, ConnectFails, Select, SelectFails, SendDone,
         StoreDone, List, ProbeFinds, TrackDone, DeleteStats, InsertStats,
         nodeVars, tableVars
<1>8. ASSUME NEW t \in Txs,
             Send(t) \/ SendUnanswered(t) \/ SendReplyLost(t) \/ TrackMiss(t)
      PROVE  [Will!Next]_(Will!vars)
  BY <1>8, NothingShown
     DEF Send, SendUnanswered, SendReplyLost, TrackMiss, nodeVars, tableVars
<1>9. CASE UNCHANGED vars
  BY <1>9, NothingShown DEF vars, nodeVars, tableVars
<1>. QED
  BY <1>1, <1>2, <1>3, <1>4, <1>5, <1>6, <1>7, <1>8, <1>9
     DEF Next, PusherStep, SendStep, StoreStep, TrackStep

\* The states shown of each transaction follow the promised lifecycle: nothing
\* leaves "waiting" before it has matured, "elsewhere" is final, and so is
\* "confirmed" when the node is up and indexed (bal-pusher.rs 206-415).
THEOREM Refinement == Spec => ImplementsWill
<1>. QED
  BY InitRefines, StepRefines, Invariance, PTL
     DEF Spec, ImplementsWill, Will!Spec
=============================================================================
