---------------------- MODULE PusherEnvironmentProofs ----------------------
(***************************************************************************)
(* What the pusher's reports are worth when the faults that falsify them   *)
(* do not occur.  Each theorem names, in its assumptions, the faults it    *)
(* excludes; every other fault may occur any number of times.              *)
(***************************************************************************)
EXTENDS PusherProofs

\* A block leaves a transaction that is neither in the mempool nor in the chain
\* out of both, and loses track of none.
LEMMA BlockPlaces ==
  ASSUME TypeOK, NodeInv, MineBlock, NEW t \in Txs
  PROVE  /\ t \in rivals => t \in rivals'
         /\ t \notin mempool /\ ~Mined(t) => t \notin mempool' /\ ~Mined(t)'
         /\ (t \in mempool \/ Mined(t) \/ t \in rivals)
              => (t \in mempool' \/ Mined(t)' \/ t \in rivals')
BY BlocksOnlyAdvance DEF TypeOK, NodeInv, MineBlock, Mined

-----------------------------------------------------------------------------
(* Done elsewhere *)

\* Without evictions what the node has accepted is in its mempool, in the
\* chain, or in conflict with the chain.
ElsewhereInv ==
  /\ \A t \in accepted : t \in mempool \/ Mined(t) \/ t \in rivals
  /\ pc = "probe" => probed \in rivals
  /\ \A t \in Txs : status[t] = Failed /\ confs[t] = -1 => t \in rivals

LEMMA ElsewhereStep ==
  ASSUME TxIndex, "outage" \notin Faults, "evict" \notin Faults,
         Inv, Inv', ElsewhereInv, [Next]_vars
  PROVE  ElsewhereInv'
<1>. USE DEF Inv, TypeOK, ElsewhereInv, Mined, Waiting, Sent, Failed
<1>1. CASE HeardBlock \/ UnheardBlock
  BY <1>1, BlockPlaces
     DEF HeardBlock, UnheardBlock, tableVars, passVars, pusherVars, MineBlock
<1>2. CASE NodeFails \/ NodeReturns \/ Crash \/ Panic
  BY <1>2
     DEF NodeFails, NodeReturns, Crash, Panic, Die, Evict, Relay, NodeStop,
         NodeStart, Fault, tableVars, pusherVars
<1>3. CASE Start \/ Receive \/ Connect \/ ConnectFails \/ Select \/ SelectFails
           \/ SendDone \/ StoreDone \/ List \/ ProbeFinds \/ TrackDone
           \/ DeleteStats \/ InsertStats
  BY <1>3
     DEF Start, Receive, Connect, ConnectFails, Select, SelectFails, SendDone,
         StoreDone, List, ProbeFinds, TrackDone, DeleteStats, InsertStats,
         nodeVars, tableVars, passVars, Phases
<1>4. ASSUME NEW t \in Txs,
             Arrive(t) \/ Send(t) \/ SendUnanswered(t) \/ SendReplyLost(t)
      PROVE  ElsewhereInv'
  BY <1>4
     DEF Arrive, Send, SendUnanswered, SendReplyLost, NodeTakes, nodeVars,
         tableVars, pusherVars
<1>5. ASSUME NEW t \in Txs, StoreSent(t) PROVE ElsewhereInv'
  BY <1>5 DEF StoreSent, Update
\* A row that fails here has never had confirmations, not even -1.
<1>6. ASSUME NEW t \in Txs, StoreFailed(t) PROVE ElsewhereInv'
  <2>1. confs[t] = 0
    BY <1>6 DEF StoreFailed, RowInv
  <2>. QED
    BY <1>6, <2>1 DEF StoreFailed, Update
<1>7. ASSUME NEW t \in Txs, Track(t) PROVE ElsewhereInv'
  <2>1. status[t] = Sent
    BY <1>7 DEF Track, RowInv
  <2>. QED
    BY <1>7, <2>1 DEF Track, Update
\* The node is up and indexed: what it does not find is nowhere but spent.
<1>8. ASSUME NEW t \in Txs, TrackMiss(t) PROVE ElsewhereInv'
  <2>1. t \in accepted
    BY <1>8 DEF TrackMiss, RowInv, AcceptedInv
  <2>2. up
    BY Zenon DEF NodeInv
  <2>3. t \in rivals
    BY <1>8, <2>1, <2>2 DEF TrackMiss, HasRaw
  <2>. QED
    BY <1>8, <2>3 DEF TrackMiss, nodeVars, tableVars
<1>9. CASE ProbeMisses
  BY <1>9 DEF ProbeMisses, Update
<1>10. CASE UNCHANGED vars
  BY <1>10 DEF vars, nodeVars, tableVars, pusherVars
<1>. QED
  BY <1>1, <1>2, <1>3, <1>4, <1>5, <1>6, <1>7, <1>8, <1>9, <1>10
     DEF Next, PusherStep, SendStep, StoreStep, TrackStep

\* With an indexed node that is always up and drops nothing, "evicted" means
\* that another transaction took the inputs (bal-pusher.rs 348-351, 381-397).
THEOREM ElsewhereIsTrue ==
  ASSUME TxIndex, "outage" \notin Faults, "evict" \notin Faults
  PROVE  Spec => []DoneElsewhereMeansRival
<1>1. Init => ElsewhereInv
  BY DEF Init, NodeInit, ElsewhereInv, Waiting, Failed
<1>2. Inv /\ ElsewhereInv => DoneElsewhereMeansRival
  BY DEF Inv, TypeOK, ElsewhereInv, DoneElsewhereMeansRival
<1>3. Inv /\ Inv' /\ ElsewhereInv /\ [Next]_vars => ElsewhereInv'
  BY ElsewhereStep
<1>. QED
  BY <1>1, <1>2, <1>3, Invariance, PTL DEF Spec

-----------------------------------------------------------------------------
(* Failed *)

\* Nobody else broadcasts a transaction, and every outcome reaches its row.
FailedInv ==
  /\ \A t \in Txs :
       \/ status[t] = Failed
       \/ status[t] = Waiting /\ verdict[t] # "accepted"
       => t \notin mempool /\ ~Mined(t)
  /\ pc = "probe" => probed \notin mempool /\ ~Mined(probed)

LEMMA FailedStep ==
  ASSUME TxIndex, Faults \subseteq {"refuse", "evict", "unheard", "badKey"},
         Inv, Inv', FailedInv, [Next]_vars
  PROVE  FailedInv'
<1>. USE DEF Inv, TypeOK, FailedInv, Waiting, Sent, Failed
<1>1. CASE HeardBlock \/ UnheardBlock
  BY <1>1, BlockPlaces
     DEF HeardBlock, UnheardBlock, tableVars, passVars, pusherVars
<1>2. CASE NodeFails \/ NodeReturns \/ Crash
  BY <1>2
     DEF NodeFails, NodeReturns, Crash, Evict, Relay, NodeStop, NodeStart,
         Fault, tableVars, pusherVars, Mined
<1>3. CASE Start \/ Receive \/ Connect \/ ConnectFails \/ Select \/ SelectFails
           \/ SendDone \/ StoreDone \/ List \/ ProbeFinds \/ TrackDone
           \/ DeleteStats
  BY <1>3
     DEF Start, Receive, Connect, ConnectFails, Select, SelectFails, SendDone,
         StoreDone, List, ProbeFinds, TrackDone, DeleteStats, nodeVars,
         tableVars, passVars, Mined
\* No outcome is lost with the locals: all have been recorded.
<1>4. CASE Panic \/ InsertStats
  <2>1. \A t \in Txs : verdict[t] = "none"
    BY <1>4 DEF Panic, InsertStats, PhaseInv
  <2>. QED
    BY <1>4, <2>1 DEF Panic, Die, InsertStats, ClearPass, tableVars, Mined
<1>5. ASSUME NEW t \in Txs, Arrive(t) PROVE FailedInv'
  BY <1>5 DEF Arrive, nodeVars, pusherVars, Mined
<1>6. ASSUME NEW t \in Txs, Send(t) PROVE FailedInv'
  <2>1. status[t] = Waiting /\ verdict[t] = "none"
    BY <1>6 DEF Send, RowInv, PhaseInv
  <2>. QED
    BY <1>6, <2>1 DEF Send, Learn, NodeTakes, tableVars, Mined
<1>7. ASSUME NEW t \in Txs, SendUnanswered(t) PROVE FailedInv'
  <2>1. up
    BY Zenon DEF NodeInv
  <2>. QED
    BY <1>7, <2>1 DEF SendUnanswered
<1>8. ASSUME NEW t \in Txs, SendReplyLost(t) PROVE FailedInv'
  BY <1>8 DEF SendReplyLost, Fault
<1>9. ASSUME NEW t \in Txs, StoreSent(t) \/ StoreFailed(t) PROVE FailedInv'
  <2>1. status[t] = Waiting
    BY <1>9 DEF StoreSent, StoreFailed, RowInv
  <2>. QED
    BY <1>9, <2>1 DEF StoreSent, StoreFailed, Update, Fault, Mined
<1>10. ASSUME NEW t \in Txs, Track(t) PROVE FailedInv'
  BY <1>10 DEF Track, Update, Mined
<1>11. ASSUME NEW t \in Txs, TrackMiss(t) PROVE FailedInv'
  <2>1. up
    BY Zenon DEF NodeInv
  <2>. QED
    BY <1>11, <2>1 DEF TrackMiss, HasRaw, nodeVars, tableVars, Mined
<1>12. CASE ProbeMisses
  BY <1>12 DEF ProbeMisses, Update, Mined
<1>13. CASE UNCHANGED vars
  BY <1>13 DEF vars, nodeVars, tableVars, pusherVars, Mined
<1>. QED
  BY <1>1, <1>2, <1>3, <1>4, <1>5, <1>6, <1>7, <1>8, <1>9, <1>10, <1>11,
     <1>12, <1>13
     DEF Next, PusherStep, SendStep, StoreStep, TrackStep

\* When no answer and no UPDATE is lost and the node is indexed, a transaction
\* shown as failed is not in the chain (bal-pusher.rs 274-346, 381-397).
THEOREM FailedIsTrue ==
  ASSUME TxIndex, Faults \subseteq {"refuse", "evict", "unheard", "badKey"}
  PROVE  Spec => []FailedNeverMined
<1>1. Init => FailedInv
  BY DEF Init, NodeInit, FailedInv, Mined, Waiting, Failed
<1>2. Inv /\ FailedInv => FailedNeverMined
  BY DEF Inv, TypeOK, FailedInv, FailedNeverMined
<1>3. Inv /\ Inv' /\ FailedInv /\ [Next]_vars => FailedInv'
  BY FailedStep
<1>. QED
  BY <1>1, <1>2, <1>3, Invariance, PTL DEF Spec

-----------------------------------------------------------------------------
(* No block is missed *)

\* From the moment a pass has read the tip, a newer one is announced in the
\* queue.
CurrentInv == pc \notin {"down", "client"} /\ pending = 0 => tipFile = height

LEMMA CurrentStep ==
  ASSUME "outage" \notin Faults, "unheard" \notin Faults,
         Inv, CurrentInv, [Next]_vars
  PROVE  CurrentInv'
<1>. USE PendingAssumption DEF Inv, TypeOK, CurrentInv, Phases
<1>1. CASE HeardBlock
  BY <1>1 DEF HeardBlock, Queued, Bump
<1>2. CASE UnheardBlock
  BY <1>2 DEF UnheardBlock, Fault, pusherVars
<1>3. CASE Connect
  BY <1>3 DEF Connect, nodeVars
<1>4. CASE ConnectFails
  <2>1. up
    BY Zenon DEF NodeInv
  <2>. QED
    BY <1>4, <2>1 DEF ConnectFails
<1>5. CASE NodeFails \/ NodeReturns \/ Crash \/ Panic
  BY <1>5
     DEF NodeFails, NodeReturns, Crash, Panic, Die, Evict, Relay, NodeStop,
         NodeStart, tableVars, pusherVars
<1>6. CASE Start \/ Receive \/ Select \/ SelectFails \/ SendDone \/ StoreDone
           \/ List \/ ProbeFinds \/ ProbeMisses \/ TrackDone \/ DeleteStats
           \/ InsertStats
  BY <1>6
     DEF Start, Receive, Select, SelectFails, SendDone, StoreDone, List,
         ProbeFinds, ProbeMisses, TrackDone, DeleteStats, InsertStats,
         nodeVars, tableVars
<1>7. ASSUME NEW t \in Txs,
             \/ Arrive(t) \/ Send(t) \/ SendUnanswered(t) \/ SendReplyLost(t)
             \/ StoreSent(t) \/ StoreFailed(t) \/ Track(t) \/ TrackMiss(t)
      PROVE  CurrentInv'
  BY <1>7
     DEF Arrive, Send, SendUnanswered, SendReplyLost, StoreSent, StoreFailed,
         Track, TrackMiss, nodeVars, tableVars, pusherVars
<1>8. CASE UNCHANGED vars
  BY <1>8 DEF vars, nodeVars, tableVars, pusherVars
<1>. QED
  BY <1>1, <1>2, <1>3, <1>4, <1>5, <1>6, <1>7, <1>8
     DEF Next, PusherStep, SendStep, StoreStep, TrackStep

\* Crashes, a full queue and blocks found during a pass included, the pusher
\* never sits idle on an old tip (bal-pusher.rs 691-756).
THEOREM NoBlockIsMissed ==
  ASSUME "outage" \notin Faults, "unheard" \notin Faults
  PROVE  Spec => []TipIsCurrent
<1>1. Init => CurrentInv
  BY DEF Init, CurrentInv
<1>2. CurrentInv => TipIsCurrent
  BY DEF CurrentInv, TipIsCurrent
<1>3. Inv /\ CurrentInv /\ [Next]_vars => CurrentInv'
  BY CurrentStep
<1>. QED
  BY <1>1, <1>2, <1>3, Invariance, PTL DEF Spec
-----------------------------------------------------------------------------
(* Nothing is sent twice *)

\* What the node has taken is on its way to its row, or there already.
TakenInv ==
  \A t \in accepted :
    t \notin todo /\ (verdict[t] # "none" \/ status[t] # Waiting)

\* A row never goes back to waiting (for any faults).
LEMMA WaitingIsLeft ==
  ASSUME Inv, [Next]_vars, NEW t \in Txs, status[t] # Waiting
  PROVE  status'[t] # Waiting
<1>. USE DEF Inv, TypeOK, Waiting, Sent, Failed
<1>1. ASSUME NEW s \in Txs,
             StoreSent(s) \/ StoreFailed(s) \/ Track(s)
      PROVE  status'[t] # Waiting
  BY <1>1 DEF StoreSent, StoreFailed, Track, Update
<1>2. CASE ProbeMisses
  BY <1>2 DEF ProbeMisses, Update
<1>3. CASE UNCHANGED status
  BY <1>3
<1>. QED
  BY <1>1, <1>2, <1>3
     DEF Next, HeardBlock, UnheardBlock, NodeFails, NodeReturns, PusherStep,
         SendStep, StoreStep, TrackStep, Arrive, Crash, Panic, Die, Start,
         Receive, Connect, ConnectFails, Select, SelectFails, Send, SendUnanswered,
         SendReplyLost, SendDone, StoreDone, List, TrackMiss, ProbeFinds,
         TrackDone, DeleteStats, InsertStats, tableVars, vars

LEMMA TakenStep ==
  ASSUME "crash" \notin Faults, "busy" \notin Faults,
         Inv, TakenInv, [Next]_vars
  PROVE  TakenInv'
<1>. USE DEF Inv, TypeOK, TakenInv, Waiting, Sent, Failed
<1>1. ASSUME UNCHANGED <<accepted, verdict>>, todo' \subseteq todo
      PROVE  TakenInv'
  BY <1>1, WaitingIsLeft
<1>2. CASE HeardBlock \/ UnheardBlock \/ NodeFails \/ NodeReturns
  BY <1>1, <1>2 DEF HeardBlock, UnheardBlock, NodeFails, NodeReturns, passVars,
                    pusherVars
<1>3. ASSUME NEW t \in Txs, Arrive(t) \/ Track(t) \/ TrackMiss(t)
      PROVE  TakenInv'
  BY <1>1, <1>3 DEF Arrive, Track, TrackMiss, pusherVars
<1>4. CASE Start \/ Receive \/ Connect \/ ConnectFails \/ SelectFails
           \/ SendDone \/ StoreDone \/ List \/ ProbeFinds \/ ProbeMisses
           \/ TrackDone \/ DeleteStats
  BY <1>1, <1>4
     DEF Start, Receive, Connect, ConnectFails, SelectFails, SendDone, StoreDone,
         List, ProbeFinds, ProbeMisses, TrackDone, DeleteStats, passVars
\* A pass begins with all that was taken before recorded.
<1>5. CASE Select
  <2>1. \A t \in Txs : verdict[t] = "none"
    BY <1>5 DEF Select, PhaseInv
  <2>. QED
    BY <1>5, <2>1 DEF Select, Matured, tableVars
<1>6. ASSUME NEW t \in Txs, Send(t) \/ SendReplyLost(t) PROVE TakenInv'
  <2>1. /\ todo' = todo \ {t} /\ accepted' \subseteq accepted \cup {t}
        /\ status' = status
        /\ \E v \in Verdicts \ {"none"} : verdict' = [verdict EXCEPT ![t] = v]
    <3>1. \A answer \in Answers(t) : answer \in Verdicts \ {"none"}
      BY DEF Answers, Verdicts, Rejections
    <3>2. "unreachable" \in Verdicts \ {"none"}
      BY DEF Verdicts
    <3>. QED
      BY <1>6, <3>1, <3>2
         DEF Send, SendReplyLost, Learn, NodeTakes, tableVars
  <2>. QED
    BY <2>1
<1>7. ASSUME NEW t \in Txs, SendUnanswered(t) PROVE TakenInv'
  BY <1>7 DEF SendUnanswered, Learn, nodeVars, tableVars
<1>8. ASSUME NEW t \in Txs, StoreSent(t) \/ StoreFailed(t) PROVE TakenInv'
  BY <1>8 DEF StoreSent, StoreFailed, Update, Fault
\* A pass ends with nothing in hand: a panic comes too late to lose an outcome.
<1>9. CASE Panic \/ InsertStats
  <2>1. \A t \in Txs : verdict[t] = "none"
    BY <1>9 DEF Panic, InsertStats, PhaseInv
  <2>. QED
    BY <1>9, <2>1 DEF Panic, Die, InsertStats, ClearPass, tableVars
<1>10. CASE Crash
  BY <1>10 DEF Crash, Fault
<1>11. CASE UNCHANGED vars
  BY <1>1, <1>11 DEF vars, pusherVars
<1>. QED
  BY <1>2, <1>3, <1>4, <1>5, <1>6, <1>7, <1>8, <1>9, <1>10, <1>11
     DEF Next, PusherStep, SendStep, StoreStep, TrackStep

\* Outages, lost answers, evictions and reports that panic do not make the
\* pusher hand over a second time what the node has taken; only its death and
\* a failed UPDATE can (bal-pusher.rs 257-346).
THEOREM NothingIsSentTwice ==
  ASSUME "crash" \notin Faults, "busy" \notin Faults
  PROVE  Spec => []NeverSentTwice
<1>1. Init => TakenInv
  BY DEF Init, TakenInv
<1>2. TakenInv => NeverSentTwice
  BY DEF TakenInv, NeverSentTwice
<1>3. Inv /\ TakenInv /\ [Next]_vars => TakenInv'
  BY TakenStep
<1>. QED
  BY <1>1, <1>2, <1>3, Invariance, PTL DEF Spec

-----------------------------------------------------------------------------
(* Rejected *)

\* While the node is there every answer comes from it.
AnswerInv ==
  /\ \A t \in Txs : verdict[t] # "unreachable"
  /\ \A t \in Txs : status[t] = Failed /\ confs[t] # -1 =>
       pushErr[t] \in Rejections

LEMMA AnswerStep ==
  ASSUME "outage" \notin Faults, "lostReply" \notin Faults,
         Inv, AnswerInv, [Next]_vars
  PROVE  AnswerInv'
<1>. USE DEF Inv, TypeOK, AnswerInv, Waiting, Sent, Failed
<1>1. up
  BY Zenon DEF NodeInv
<1>2. ASSUME UNCHANGED <<status, confs, pushErr>>,
             \A t \in Txs : verdict'[t] # "unreachable"
      PROVE  AnswerInv'
  BY <1>2
<1>3. CASE HeardBlock \/ UnheardBlock \/ NodeFails \/ NodeReturns
  BY <1>2, <1>3 DEF HeardBlock, UnheardBlock, NodeFails, NodeReturns, passVars,
                    pusherVars, tableVars
<1>4. ASSUME NEW t \in Txs, Arrive(t) \/ TrackMiss(t) PROVE AnswerInv'
  BY <1>2, <1>4 DEF Arrive, TrackMiss, pusherVars, tableVars
<1>5. CASE Start \/ Receive \/ Connect \/ ConnectFails \/ Select \/ SelectFails
           \/ SendDone \/ StoreDone \/ List \/ ProbeFinds \/ TrackDone
           \/ DeleteStats
  BY <1>2, <1>5
     DEF Start, Receive, Connect, ConnectFails, Select, SelectFails, SendDone,
         StoreDone, List, ProbeFinds, TrackDone, DeleteStats, passVars,
         tableVars
<1>6. CASE Crash \/ Panic \/ InsertStats
  BY <1>2, <1>6 DEF Crash, Panic, Die, InsertStats, ClearPass, tableVars
<1>7. ASSUME NEW t \in Txs, Send(t) PROVE AnswerInv'
  <2>1. \A answer \in Answers(t) : answer # "unreachable"
    BY DEF Answers
  <2>. QED
    BY <1>2, <1>7, <2>1 DEF Send, Learn, tableVars
<1>8. ASSUME NEW t \in Txs, SendUnanswered(t) \/ SendReplyLost(t)
      PROVE  AnswerInv'
  BY <1>1, <1>8 DEF SendUnanswered, SendReplyLost, Fault
<1>9. ASSUME NEW t \in Txs, StoreSent(t) PROVE AnswerInv'
  BY <1>9 DEF StoreSent, Update
\* What is stored with a failed row is what the node has said.
<1>10. ASSUME NEW t \in Txs, StoreFailed(t) PROVE AnswerInv'
  <2>1. verdict[t] \in Rejections
    BY <1>10 DEF StoreFailed, Verdicts
  <2>. QED
    BY <1>10, <2>1 DEF StoreFailed, Update
<1>11. ASSUME NEW t \in Txs, Track(t) PROVE AnswerInv'
  <2>1. status[t] = Sent
    BY <1>11 DEF Track, RowInv
  <2>. QED
    BY <1>11, <2>1 DEF Track, Update
<1>12. CASE ProbeMisses
  BY <1>12 DEF ProbeMisses, Update
<1>13. CASE UNCHANGED vars
  BY <1>2, <1>13 DEF vars, pusherVars, tableVars
<1>. QED
  BY <1>3, <1>4, <1>5, <1>6, <1>7, <1>8, <1>9, <1>10, <1>11, <1>12, <1>13
     DEF Next, PusherStep, SendStep, StoreStep, TrackStep

\* "A genuine broadcast rejection" (index.html 1331-1332) is what a failed row
\* shows, if every call of sendrawtransaction is answered: kills, evictions and
\* failed UPDATEs do not falsify it (bal-pusher.rs 274-346).
THEOREM RejectionIsTrue ==
  ASSUME "outage" \notin Faults, "lostReply" \notin Faults
  PROVE  Spec => []FailureIsARejection
<1>1. Init => AnswerInv
  BY DEF Init, AnswerInv, Waiting, Failed
<1>2. Inv /\ AnswerInv => FailureIsARejection
  BY DEF Inv, TypeOK, AnswerInv, FailureIsARejection
<1>3. Inv /\ AnswerInv /\ [Next]_vars => AnswerInv'
  BY AnswerStep
<1>. QED
  BY <1>1, <1>2, <1>3, Invariance, PTL DEF Spec
=============================================================================
