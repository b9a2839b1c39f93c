---------------------------- MODULE PusherProofs ----------------------------
(***************************************************************************)
(* Safety of the pusher, for every set of transactions, every locktime,    *)
(* every kind and number of faults.  Inv is inductive: two lemmas about    *)
(* the chain say why what a pass has read stays true while it works, then  *)
(* the main proof has one step per action.                                 *)
(***************************************************************************)
EXTENDS Pusher, TLAPS

-----------------------------------------------------------------------------
(* Time only moves forward *)

\* A block moves height and median time forward, within the bounds, and leaves
\* the place of the transactions that are already in the chain alone.
LEMMA BlocksOnlyAdvance ==
  ASSUME TypeOK, NodeInv, MineBlock
  PROVE  /\ height' \in Nat /\ height <= height' /\ height' <= MaxHeight
         /\ mtp' \in Nat /\ mtp <= mtp'
         /\ minedAt' \in [Txs -> Nat]
         /\ mempool' \subseteq Txs /\ rivals' \subseteq Txs
         /\ \A t \in Txs : Mined(t) => minedAt'[t] = minedAt[t]
         /\ \A t \in mempool' : minedAt'[t] = 0
<1>1. height' \in Nat /\ height <= height' /\ height' <= MaxHeight
  BY BoundsAssumption DEF TypeOK, NodeInv, MineBlock, Bump
<1>2. mtp' \in Nat /\ mtp <= mtp'
  BY BoundsAssumption DEF TypeOK, MineBlock, Bump
<1>3. PICK confirmed \in SUBSET mempool :
      \E lost \in SUBSET {t \in Txs \ confirmed : ~Mined(t)} :
        /\ minedAt' = [t \in Txs |->
                         IF t \in confirmed THEN height' ELSE minedAt[t]]
        /\ rivals' = rivals \cup lost
        /\ mempool' = mempool \ (confirmed \cup lost)
  BY DEF MineBlock
<1>4. \A t \in confirmed : ~Mined(t)
  BY DEF NodeInv
<1>. QED
  BY <1>1, <1>2, <1>3, <1>4 DEF TypeOK, NodeInv, Mined

\* What has matured stays so.
LEMMA RipeStays ==
  ASSUME TypeOK, height' \in Nat, height <= height',
         mtp' \in Nat, mtp <= mtp', NEW t \in Txs, Ripe(t)
  PROVE  Ripe(t)'
BY LocktimeAssumption, ThresholdAssumption DEF TypeOK, Ripe, Mature

\* The WHERE clause is never more generous than the consensus rule: this is
\* where heights must stay below LOCKTIME_THRESHOLD.
LEMMA RipeIsFinal ==
  ASSUME TypeOK, NodeInv, NEW t \in Txs, Ripe(t)
  PROVE  Final(t)
<1>. USE LocktimeAssumption, ThresholdAssumption, BoundsAssumption
       DEF TypeOK, NodeInv, Final
<1>1. CASE Locktime[t] < height
  BY <1>1
<1>2. CASE Locktime[t] > Threshold /\ Locktime[t] < mtp
  BY <1>2
<1>. QED
  BY <1>1, <1>2 DEF Ripe, Mature

\* What a pass selects with the tip it has read is ripe at the node's tip.
LEMMA MatureIsRipe ==
  ASSUME TypeOK, TipInv, NEW t \in Txs, Mature(Locktime[t], tip)
  PROVE  Ripe(t)
BY LocktimeAssumption, ThresholdAssumption DEF TypeOK, TipInv, Ripe, Mature

-----------------------------------------------------------------------------
(* Inv is an invariant *)

LEMMA InitInv == Init => Inv
BY BoundsAssumption, NoTxAssumption
   DEF Init, NodeInit, Inv, TypeOK, NodeInv, TipInv, PhaseInv, RowInv,
       AcceptedInv, NeverPremature, ConfsInv, ProbeInv, StatsNeverAhead,
       NoStats, Phases, Verdicts, Errors, Mined, Durable, Waiting, Sent, Failed

\* A block found disturbs nothing that speaks of the chain.
LEMMA BlockInv ==
  ASSUME Inv, MineBlock, pending' \in Nat, faults' \in Nat,
         UNCHANGED <<tableVars, accepted, pc, passVars>>
  PROVE  Inv'
<1>. USE DEF Inv, tableVars, passVars
<1>1. TypeOK'
  BY BlocksOnlyAdvance DEF TypeOK, MineBlock
<1>2. ("outage" \notin Faults => up)'
  BY Zenon DEF NodeInv, MineBlock
<1>3. NodeInv' /\ TipInv'
  BY <1>2, BlocksOnlyAdvance DEF NodeInv, TipInv, TypeOK, Mined
<1>4. \A t \in Txs : Ripe(t) => Ripe(t)'
  BY BlocksOnlyAdvance, RipeStays
<1>5. RowInv'
  BY <1>4 DEF RowInv, TypeOK
<1>6. ConfsInv'
  <2>1. \A t \in Txs : Mined(t) =>
          Mined(t)' /\ Confirmations(t) <= Confirmations(t)'
    BY BlocksOnlyAdvance DEF Mined, Confirmations, TypeOK
  <2>2. \A t \in Txs : Mined(t) =>
          Confirmations(t) \in Int /\ Confirmations(t)' \in Int
    BY <1>1 DEF Confirmations, TypeOK
  <2>. QED
    BY <2>1, <2>2 DEF ConfsInv, TypeOK
<1>7. PhaseInv' /\ AcceptedInv' /\ NeverPremature' /\ ProbeInv'
      /\ StatsNeverAhead'
  BY DEF PhaseInv, AcceptedInv, NeverPremature, ProbeInv, StatsNeverAhead
<1>. QED
  BY <1>1, <1>3, <1>5, <1>6, <1>7

\* Losing a pass's locals loses nothing that has to hold.
LEMMA ClearPassInv ==
  ASSUME Inv, ClearPass, pc' \in {"down", "idle"}, pending' \in Nat,
         faults' \in Nat, TypeOK', StatsNeverAhead',
         UNCHANGED <<height, mtp, mempool, minedAt, rivals, up, stored,
                     status, confs, pushErr, accepted>>
  PROVE  Inv'
BY NoTxAssumption
   DEF Inv, ClearPass, TypeOK, NodeInv, TipInv, PhaseInv, RowInv, AcceptedInv,
       NeverPremature, ConfsInv, ProbeInv, Mined, Confirmations, Waiting

LEMMA NextInv ==
  ASSUME Inv, [Next]_vars
  PROVE  Inv'
<1>. USE NoTxAssumption, PendingAssumption
     DEF Inv, TypeOK, Phases, Waiting, Sent, Failed
<1>1. ASSUME NEW t \in Txs, Arrive(t) PROVE Inv'
  <2>. USE <1>1 DEF Arrive, nodeVars, pusherVars
  <2>1. RowInv' /\ StatsNeverAhead'
    BY DEF RowInv, Ripe, StatsNeverAhead
  <2>. QED
    BY <2>1 DEF NodeInv, TipInv, PhaseInv, AcceptedInv, NeverPremature,
                ConfsInv, ProbeInv, Mined, Confirmations
<1>2. CASE HeardBlock
  BY <1>2, BlockInv DEF HeardBlock, Queued, Bump
<1>3. CASE UnheardBlock
  BY <1>3, BlockInv DEF UnheardBlock, Fault, pusherVars, passVars
<1>4. CASE NodeFails
  <2>1. ASSUME NEW t \in Txs, Evict(t) PROVE Inv'
    BY <1>4, <2>1
       DEF NodeFails, Evict, Fault, tableVars, pusherVars, NodeInv, TipInv,
           PhaseInv, RowInv, Ripe, AcceptedInv, NeverPremature, ConfsInv,
           ProbeInv, StatsNeverAhead, Mined, Confirmations
  <2>2. ASSUME NEW t \in Txs, Relay(t) PROVE Inv'
    BY <1>4, <2>2
       DEF NodeFails, Relay, Fault, tableVars, pusherVars, NodeInv, TipInv,
           PhaseInv, RowInv, Ripe, AcceptedInv, NeverPremature, ConfsInv,
           ProbeInv, StatsNeverAhead, Mined, Confirmations
  <2>3. CASE NodeStop
    <3>1. "outage" \in Faults /\ up' \in BOOLEAN
      BY <2>3, Zenon DEF NodeStop, Fault
    <3>2. TypeOK'
      BY <1>4, <2>3, <3>1
         DEF NodeFails, NodeStop, Fault, tableVars, pusherVars, NodeInv
    <3>. QED
      BY <1>4, <2>3, <3>1, <3>2
       DEF NodeFails, NodeStop, Fault, tableVars, pusherVars, NodeInv, TipInv,
           PhaseInv, RowInv, Ripe, AcceptedInv, NeverPremature, ConfsInv,
           ProbeInv, StatsNeverAhead, Mined, Confirmations
  <2>. QED
    BY <1>4, <2>1, <2>2, <2>3 DEF NodeFails
<1>5. CASE NodeReturns
  BY <1>5
     DEF NodeReturns, NodeStart, tableVars, pusherVars, NodeInv, TipInv,
         PhaseInv, RowInv, Ripe, AcceptedInv, NeverPremature, ConfsInv,
         ProbeInv, StatsNeverAhead, Mined, Confirmations
<1>6. CASE Crash \/ Panic
  <2>. Die /\ faults' \in Nat
    BY <1>6 DEF Crash, Panic, Fault
  <2>1. TypeOK' /\ StatsNeverAhead'
    BY DEF Die, ClearPass, tableVars, Verdicts, StatsNeverAhead
  <2>. QED
    BY <2>1, ClearPassInv DEF Die, tableVars
<1>7. CASE Start \/ Receive \/ ConnectFails \/ SelectFails \/ SendDone
           \/ StoreDone \/ TrackDone
  BY <1>7
     DEF Start, Receive, ConnectFails, SelectFails, SendDone, StoreDone, TrackDone,
         Fault, nodeVars, tableVars, passVars, NodeInv, TipInv, PhaseInv, RowInv,
         Ripe, AcceptedInv, NeverPremature, ConfsInv, ProbeInv,
         StatsNeverAhead, Mined, Confirmations
<1>8. CASE Connect
  <2>. USE <1>8 DEF Connect, nodeVars
  <2>1. TipInv'
    BY DEF TipInv
  <2>. QED
    BY <2>1 DEF NodeInv, PhaseInv, RowInv, Ripe, AcceptedInv, NeverPremature,
                ConfsInv, ProbeInv, StatsNeverAhead, Mined, Confirmations
<1>9. CASE Select
  <2>. USE <1>9 DEF Select, tableVars
  <2>1. \A t \in todo' : t \in stored /\ status[t] = Waiting /\ Ripe(t)
    BY MatureIsRipe DEF Matured
  <2>0. faults' \in Nat
    BY DEF Reads, Fault
  <2>2. RowInv' /\ PhaseInv'
    BY <2>1 DEF RowInv, PhaseInv, Ripe
  <2>. QED
    BY <2>0, <2>1, <2>2
       DEF NodeInv, TipInv, AcceptedInv, NeverPremature, ConfsInv, ProbeInv,
           StatsNeverAhead, Mined, Confirmations
<1>10. ASSUME NEW t \in Txs, Send(t) PROVE Inv'
  <2>. USE <1>10 DEF Send, Learn, NodeTakes
  <2>1. Final(t)
    BY RipeIsFinal DEF RowInv
  <2>2. PICK answer \in Answers(t) :
          /\ NodeTakes(t, answer)
          /\ IF answer = "refused" THEN Fault("refuse") ELSE UNCHANGED faults
          /\ Learn(t, answer)
    OBVIOUS
  <2>3. /\ answer \in {"known", "spent", "refused", "accepted"}
        /\ answer = "accepted" => ~Mined(t)
    BY <2>1 DEF Answers
  <2>4. TypeOK'
    BY <2>2, <2>3 DEF tableVars, Verdicts, Rejections, Fault
  <2>5. NodeInv' /\ AcceptedInv' /\ NeverPremature'
    BY <2>2, <2>3 DEF tableVars, NodeInv, AcceptedInv, NeverPremature, Mined
  <2>6. RowInv' /\ PhaseInv'
    BY <2>2, <2>3 DEF tableVars, RowInv, PhaseInv, Ripe
  <2>. QED
    BY <2>4, <2>5, <2>6 DEF tableVars, TipInv, ConfsInv, ProbeInv,
                            StatsNeverAhead, Mined, Confirmations
<1>11. ASSUME NEW t \in Txs, SendUnanswered(t) PROVE Inv'
  <2>. USE <1>11 DEF SendUnanswered, Learn, nodeVars, tableVars
  <2>1. RowInv' /\ PhaseInv' /\ AcceptedInv' /\ NeverPremature'
    BY DEF RowInv, PhaseInv, AcceptedInv, NeverPremature, Ripe
  <2>. QED
    BY <2>1 DEF Verdicts, NodeInv, TipInv, ConfsInv, ProbeInv,
                StatsNeverAhead, Mined, Confirmations
<1>12. ASSUME NEW t \in Txs, SendReplyLost(t) PROVE Inv'
  <2>. USE <1>12 DEF SendReplyLost, Learn, NodeTakes, tableVars
  <2>1. NodeInv'
    BY DEF NodeInv, Answers, Mined
  <2>2. RowInv' /\ PhaseInv' /\ AcceptedInv' /\ NeverPremature'
    BY DEF RowInv, PhaseInv, AcceptedInv, NeverPremature, Ripe
  <2>. QED
    BY <2>1, <2>2 DEF Verdicts, Fault, TipInv, ConfsInv, ProbeInv,
                      StatsNeverAhead, Mined, Confirmations
<1>13. ASSUME NEW t \in Txs, StoreSent(t) PROVE Inv'
  <2>. USE <1>13 DEF StoreSent, Update
  <2>1. TypeOK'
    BY DEF Verdicts, Fault
  <2>2. RowInv' /\ PhaseInv' /\ AcceptedInv' /\ NeverPremature'
    BY DEF RowInv, PhaseInv, AcceptedInv, NeverPremature, Ripe
  <2>3. StatsNeverAhead'
    BY DEF StatsNeverAhead, RowInv
  <2>. QED
    BY <2>1, <2>2, <2>3 DEF NodeInv, TipInv, ConfsInv, ProbeInv, Mined,
                            Confirmations
<1>14. ASSUME NEW t \in Txs, StoreFailed(t) PROVE Inv'
  <2>. USE <1>14 DEF StoreFailed, Update
  <2>1. verdict[t] \in Errors
    BY DEF Verdicts, Errors
  <2>2. TypeOK'
    BY <2>1 DEF Verdicts, Fault
  <2>3. RowInv' /\ PhaseInv' /\ AcceptedInv' /\ NeverPremature'
    BY DEF RowInv, PhaseInv, AcceptedInv, NeverPremature, Ripe
  <2>4. StatsNeverAhead'
    BY DEF StatsNeverAhead, RowInv
  <2>. QED
    BY <2>2, <2>3, <2>4 DEF NodeInv, TipInv, ConfsInv, ProbeInv, Mined,
                            Confirmations
<1>15. CASE List
  <2>. USE <1>15 DEF List, tableVars
  <2>1. (\A t \in tracked' : t \in stored /\ status[t] = Sent) /\ faults' \in Nat
    BY DEF SentRows, Reads, Fault
  <2>2. RowInv' /\ PhaseInv'
    BY <2>1 DEF RowInv, PhaseInv, Ripe
  <2>. QED
    BY <2>1, <2>2
       DEF NodeInv, TipInv, AcceptedInv, NeverPremature, ConfsInv, ProbeInv,
           StatsNeverAhead, Mined, Confirmations
<1>16. ASSUME NEW t \in Txs, Track(t) PROVE Inv'
  <2>. USE <1>16 DEF Track, Update, RawConfirmations
  <2>1. TypeOK'
    BY DEF Fault, Confirmations
  <2>2. ConfsInv'
    BY DEF ConfsInv, Mined, Confirmations
  <2>3. RowInv' /\ PhaseInv'
    BY DEF RowInv, PhaseInv, Ripe
  <2>. QED
    BY <2>1, <2>2, <2>3 DEF NodeInv, TipInv, AcceptedInv, NeverPremature,
                            ProbeInv, StatsNeverAhead, Mined
<1>17. ASSUME NEW t \in Txs, TrackMiss(t) PROVE Inv'
  <2>. USE <1>17 DEF TrackMiss, nodeVars, tableVars
  <2>1. ProbeInv'
    BY DEF ProbeInv, NodeInv, ConfsInv, Durable, HasRaw
  <2>2. RowInv' /\ PhaseInv'
    BY DEF RowInv, PhaseInv, Ripe
  <2>. QED
    BY <2>1, <2>2 DEF NodeInv, TipInv, AcceptedInv, NeverPremature, ConfsInv,
                      StatsNeverAhead, Mined, Confirmations
<1>18. CASE ProbeFinds
  BY <1>18
     DEF ProbeFinds, nodeVars, tableVars, NodeInv, TipInv, PhaseInv, RowInv,
         Ripe, AcceptedInv, NeverPremature, ConfsInv, ProbeInv,
         StatsNeverAhead, Mined, Confirmations
<1>19. CASE ProbeMisses
  <2>. USE <1>19 DEF ProbeMisses, Update
  <2>1. TypeOK'
    BY DEF Fault, Errors
  <2>2. RowInv' /\ PhaseInv'
    BY DEF RowInv, PhaseInv, Ripe
  <2>3. AcceptedInv' /\ NeverPremature' /\ ConfsInv' /\ StatsNeverAhead'
    BY DEF AcceptedInv, NeverPremature, ConfsInv, StatsNeverAhead, Mined,
           Confirmations
  <2>. QED
    BY <2>1, <2>2, <2>3 DEF NodeInv, TipInv, ProbeInv, Mined
<1>20. CASE DeleteStats
  BY <1>20
     DEF DeleteStats, Fault, passVars, NoStats, NodeInv, TipInv, PhaseInv,
         RowInv, Ripe, AcceptedInv, NeverPremature, ConfsInv, ProbeInv,
         StatsNeverAhead, Mined, Confirmations
<1>21. CASE InsertStats
  <2>1. TypeOK' /\ StatsNeverAhead'
    BY <1>21
       DEF InsertStats, Fault, ClearPass, StatsOf, Verdicts, StatsNeverAhead
  <2>. QED
    BY <1>21, <2>1, ClearPassInv DEF InsertStats, Fault
<1>22. CASE UNCHANGED vars
  BY <1>22
     DEF vars, nodeVars, tableVars, pusherVars, NodeInv, TipInv, PhaseInv,
         RowInv, Ripe, AcceptedInv, NeverPremature, ConfsInv, ProbeInv,
         StatsNeverAhead, Mined, Confirmations
<1>. QED
  BY <1>1, <1>2, <1>3, <1>4, <1>5, <1>6, <1>7, <1>8, <1>9, <1>10, <1>11,
     <1>12, <1>13, <1>14, <1>15, <1>16, <1>17, <1>18, <1>19, <1>20, <1>21,
     <1>22
     DEF Next, PusherStep, SendStep, StoreStep, TrackStep

\* Inv holds in every reachable state, whatever fails.
THEOREM Invariance == Spec => []Inv
<1>. QED
  BY InitInv, NextInv, PTL DEF Spec

-----------------------------------------------------------------------------
(* The properties the runs check *)

\* Every variable keeps to its type (bal-pusher.rs 206-415).
THEOREM TypeCorrectness == Spec => []TypeOK
<1>. QED
  BY Invariance, PTL DEF Inv

\* A row says "sent" only of a transaction the node has accepted (274-327).
THEOREM SentIsAccepted == Spec => []SentWasAccepted
<1>1. Inv => SentWasAccepted
  BY DEF Inv, TypeOK, AcceptedInv, SentWasAccepted
<1>. QED
  BY <1>1, Invariance, PTL

\* No transaction is handed to the node before its locktime by the node's own
\* rule, so none is marked failed for that (257).
THEOREM NothingIsPremature == Spec => []NeverPremature
<1>. QED
  BY Invariance, PTL DEF Inv

\* A sent row never shows more confirmations than the chain has (366-380).
THEOREM ConfirmationsAreReal == Spec => []ConfsNeverOverstated
<1>1. Inv => ConfsNeverOverstated
  BY DEF Inv, TypeOK, ConfsInv, ConfsNeverOverstated
<1>. QED
  BY <1>1, Invariance, PTL

\* The statistics never count as sent or failed what still waits (416-470).
THEOREM StatsLagBehind == Spec => []StatsNeverAhead
<1>. QED
  BY Invariance, PTL DEF Inv
-----------------------------------------------------------------------------
(* What is selected is settled, and what never ripens is not *)

Selected(t) == t \in todo \/ verdict[t] # "none"

\* The steps that touch what a pass has selected, or a row's status.
LEMMA WhoSettles ==
  ASSUME TypeOK, [Next]_vars
  PROVE  \/ UNCHANGED <<status, todo, verdict>>
         \/ Select \/ Crash \/ Panic \/ InsertStats \/ ProbeMisses
         \/ \E t \in Txs : \/ Send(t) \/ SendUnanswered(t) \/ SendReplyLost(t)
                          \/ StoreSent(t) \/ StoreFailed(t) \/ Track(t)
BY DEF Next, HeardBlock, UnheardBlock, NodeFails, NodeReturns, PusherStep,
       SendStep, StoreStep, TrackStep, Arrive, Start, Receive, Connect,
       ConnectFails, SelectFails, SendDone, StoreDone, List, TrackMiss, ProbeFinds,
       TrackDone, DeleteStats, tableVars, passVars, pusherVars, vars

\* A step that changes none of them has dropped nothing and settled nothing.
LEMMA SelectedStaysOrSettles ==
  ASSUME Inv, [Next]_vars, NEW t \in Txs, Selected(t), ~Selected(t)'
  PROVE  \/ status'[t] # Waiting
         \/ Crash
         \/ Fault("busy") /\ (StoreSent(t) \/ StoreFailed(t))
<1>. USE DEF Inv, TypeOK, Selected
<1>1. CASE UNCHANGED <<status, todo, verdict>>
  BY <1>1
<1>2. CASE Select
  BY <1>2 DEF Select, PhaseInv
<1>3. CASE Panic \/ InsertStats \/ ProbeMisses
  <2>1. pc \notin {"send", "store"}
    BY <1>3 DEF Panic, InsertStats, ProbeMisses
  <2>. QED
    BY <2>1 DEF PhaseInv
\* What has been sent has a verdict.
<1>4. ASSUME NEW s \in Txs, Send(s) \/ SendUnanswered(s) \/ SendReplyLost(s)
      PROVE  FALSE
  <2>1. /\ todo' = todo \ {s}
        /\ \E v \in Verdicts \ {"none"} : verdict' = [verdict EXCEPT ![s] = v]
    <3>1. \A answer \in Answers(s) : answer \in Verdicts \ {"none"}
      BY DEF Answers, Verdicts, Rejections
    <3>2. "unreachable" \in Verdicts \ {"none"}
      BY DEF Verdicts
    <3>. QED
      BY <1>4, <3>1, <3>2 DEF Send, SendUnanswered, SendReplyLost, Learn
  <2>. QED
    BY <2>1
\* What has a verdict has it until its UPDATE.
<1>5. ASSUME NEW s \in Txs, StoreSent(s) \/ StoreFailed(s)
      PROVE  \/ status'[t] # Waiting
             \/ Fault("busy") /\ (StoreSent(t) \/ StoreFailed(t))
  <2>1. s = t
    BY <1>5 DEF StoreSent, StoreFailed
  <2>. QED
    BY <1>5, <2>1 DEF StoreSent, StoreFailed, Update, Waiting, Sent, Failed
<1>6. ASSUME NEW s \in Txs, Track(s) PROVE FALSE
  BY <1>6 DEF Track
<1>. QED
  BY <1>1, <1>2, <1>3, <1>4, <1>5, <1>6, WhoSettles

\* A transaction that a pass has selected leaves the pass with an outcome in
\* its row: whatever the node answers or fails to answer, only the death of the
\* process and a failed UPDATE leave it waiting for a later pass (257-346).
THEOREM SelectedIsSettled ==
  Spec => [][\A t \in Txs :
               Selected(t) /\ ~Selected(t)' =>
                 \/ status'[t] # Waiting
                 \/ Crash
                 \/ Fault("busy") /\ (StoreSent(t) \/ StoreFailed(t))]_vars
<1>1. Inv /\ [Next]_vars =>
        [\A t \in Txs :
           Selected(t) /\ ~Selected(t)' =>
             \/ status'[t] # Waiting
             \/ Crash
             \/ Fault("busy") /\ (StoreSent(t) \/ StoreFailed(t))]_vars
  BY SelectedStaysOrSettles
<1>. QED
  BY <1>1, Invariance, PTL DEF Spec

\* A row has left "waiting" only if its transaction has matured.
LeftRipe == \A t \in Txs : status[t] # Waiting => Ripe(t)

LEMMA LeftRipeStep ==
  ASSUME Inv, LeftRipe, [Next]_vars
  PROVE  LeftRipe'
<1>. USE DEF Inv, TypeOK, LeftRipe, Waiting, Sent, Failed
<1>0. MineBlock \/ UNCHANGED <<height, mtp>>
  <2>1. ASSUME HeardBlock \/ UnheardBlock PROVE MineBlock
    BY <2>1 DEF HeardBlock, UnheardBlock
  <2>2. ASSUME NodeFails \/ NodeReturns \/ Crash \/ (\E t \in Txs : Arrive(t))
        PROVE  UNCHANGED <<height, mtp>>
    BY <2>2 DEF NodeFails, NodeReturns, Crash, Die, Arrive, Evict, Relay,
         NodeStop, NodeStart, nodeVars
  <2>3. ASSUME PusherStep PROVE UNCHANGED <<height, mtp>>
    BY <2>3
       DEF PusherStep, SendStep, StoreStep, TrackStep, Panic, Die, Start,
           Receive, Connect, ConnectFails, Select, SelectFails, Send,
           SendUnanswered, SendReplyLost, SendDone, StoreSent, StoreFailed,
           StoreDone, List, Track, TrackMiss, ProbeFinds, ProbeMisses,
           TrackDone, DeleteStats, InsertStats, nodeVars
  <2>. QED
    BY <2>1, <2>2, <2>3 DEF Next, vars, nodeVars
<1>1. height <= height' /\ mtp <= mtp' /\ height' \in Nat /\ mtp' \in Nat
  BY <1>0, BlocksOnlyAdvance
<1>2. \A t \in Txs : Ripe(t) => Ripe(t)'
  BY <1>1, RipeStays
<1>3. ASSUME NEW t \in Txs, status'[t] # status[t]
      PROVE  Ripe(t)
  <2>1. ASSUME NEW s \in Txs, StoreSent(s) \/ StoreFailed(s) PROVE Ripe(t)
    BY <1>3, <2>1 DEF StoreSent, StoreFailed, Update, RowInv
  <2>2. CASE ProbeMisses
    BY <1>3, <2>2 DEF ProbeMisses, Update, RowInv
  <2>. QED
    BY <1>3, <2>1, <2>2, WhoSettles
       DEF Select, Crash, Panic, Die, InsertStats, Send, SendUnanswered,
           SendReplyLost, Track, Update, tableVars
<1>. QED
  BY <1>2, <1>3

\* A locktime of exactly LOCKTIME_THRESHOLD matures neither as a height nor as
\* a time: such a row waits for ever, whatever blocks are found (257-266).
THEOREM ThresholdWaitsForEver ==
  Spec => [](\A t \in Txs : Locktime[t] = Threshold => status[t] = Waiting)
<1>1. Init => LeftRipe
  BY DEF Init, LeftRipe
<1>2. Inv /\ LeftRipe =>
        \A t \in Txs : Locktime[t] = Threshold => status[t] = Waiting
  <2>. SUFFICES ASSUME Inv, NEW t \in Txs, Locktime[t] = Threshold, Ripe(t)
                PROVE  FALSE
    BY DEF LeftRipe
  <2>1. height <= Threshold /\ height \in Nat
    BY BoundsAssumption, ThresholdAssumption DEF Inv, TypeOK, NodeInv
  <2>. QED
    BY <2>1, ThresholdAssumption DEF Ripe, Mature
<1>3. Inv /\ LeftRipe /\ [Next]_vars => LeftRipe'
  BY LeftRipeStep
<1>. QED
  BY <1>1, <1>2, <1>3, Invariance, PTL DEF Spec
=============================================================================
