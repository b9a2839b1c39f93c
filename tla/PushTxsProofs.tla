---------------------------- MODULE PushTxsProofs ----------------------------
(***************************************************************************)
(* Safety of POST /pushtxs for any number of requests and any bodies: the  *)
(* mutex keeps the transaction of execute_insert to one request (LockInv), *)
(* WorkInv says how far it has got, and COMMIT publishes all of it.        *)
(***************************************************************************)
EXTENDS PushTxs, TLAPS

InTx == {"tx", "inp", "out", "commit"}

-----------------------------------------------------------------------------
(* The operators *)

\* Knowing more addresses never makes a transaction unacceptable.
LEMMA OursGrows ==
  ASSUME NEW t, NEW S, NEW T, S \subseteq T, Ours(t, Mine(S))
  PROVE  Ours(t, Mine(T))
BY DEF Ours, Mine

\* What a call brings depends on its own lines only.
LEMMA SameLines ==
  ASSUME NEW c \in Calls,
         body'[c] = body[c], parsed'[c] = parsed[c], dups'[c] = dups[c]
  PROVE  Brought(c)' = Brought(c) /\ Batch(c)' = Batch(c) /\ New(c)' = New(c)
BY DEF Brought, Batch, New, On

\* What is new is part of what was accepted.
LEMMA NewIsBrought ==
  ASSUME TypeOK, NEW c \in Calls
  PROVE  New(c) \subseteq Txs /\ New(c) \subseteq Brought(c)
BY DEF TypeOK, New, Brought, On, Batch

LEMMA AddRowsAdds ==
  ASSUME NEW c \in Calls, NEW rows \in [Txs -> Nat]
  PROVE  AddRows(rows, c) \in [Txs -> Nat]
         /\ OneMore(rows, AddRows(rows, c), New(c))
BY DEF AddRows, OneMore

\* Load reads some of the addresses, all of them unless it fails ...
LEMMA LoadDoes ==
  ASSUME NEW c \in Calls, Load(c)
  PROVE  /\ pc[c] = "load" /\ lock = NoCall
         /\ UNCHANGED <<db, work, known, body, parsed, dups>>
         /\ faults' = faults \/ Fault
         /\ \/ /\ \E read \in SUBSET known : addrs' = [addrs EXCEPT ![c] = read]
               /\ pc' = [pc EXCEPT ![c] = "parse"] /\ UNCHANGED <<lock, reply>>
            \/ Answer(c, "error") /\ UNCHANGED addrs
<1>1. Loadable \subseteq known
  BY DEF Loadable
<1>. QED
  BY <1>1 DEF Load

\* ... and Check some of the transactions that are stored.
Sees(c, found) ==
  /\ found \subseteq Brought(c) \cap db.tx
  /\ IF found = Brought(c) \cap db.tx THEN faults' = faults ELSE Fault
  /\ dups' = [dups EXCEPT ![c] = found]
  /\ \/ Brought(c) \subseteq found /\ Answer(c, "already present")
     \/ /\ ~(Brought(c) \subseteq found)
        /\ pc' = [pc EXCEPT ![c] = "begin"] /\ UNCHANGED <<lock, reply>>

LEMMA CheckDoes ==
  ASSUME NEW c \in Calls, Check(c)
  PROVE  /\ pc[c] = "check" /\ lock = NoCall
         /\ UNCHANGED <<db, work, known, body, addrs, parsed>>
         /\ faults' = faults \/ Fault
         /\ \/ \E found : Sees(c, found)
            \/ Answer(c, "error") /\ UNCHANGED dups
<1>1. ASSUME NEW found \in SUBSET (Brought(c) \cap db.tx),
             IF found = Brought(c) \cap db.tx THEN UNCHANGED faults ELSE Fault,
             dups' = [dups EXCEPT ![c] = found],
             IF AllPresent(c, found)
             THEN Answer(c, "already present")
             ELSE pc' = [pc EXCEPT ![c] = "begin"] /\ UNCHANGED <<lock, reply>>
      PROVE  Sees(c, found) /\ (faults' = faults \/ Fault)
  BY <1>1 DEF Sees, AllPresent
<1>. QED
  BY <1>1 DEF Check

-----------------------------------------------------------------------------
(* Types *)

RowTypes  == db \in Tables /\ work \in Tables
CallTypes ==
  /\ lock \in Calls \cup {NoCall}
  /\ pc \in [Calls -> Phases]
  /\ reply \in [Calls -> Replies]
  /\ faults \in Nat
LineTypes ==
  /\ known \subseteq Addresses
  /\ body \in [Calls -> Bodies \cup {<<>>}]
  /\ addrs \in [Calls -> SUBSET Addresses]
  /\ parsed \in [Calls -> SUBSET Nat]
  /\ \A c \in Calls : \A i \in parsed[c] : body[c][i] \in Txs
  /\ dups \in [Calls -> SUBSET Txs]

LEMMA RowTypesStep ==
  ASSUME TypeOK, [Next]_vars
  PROVE  RowTypes'
<1>. USE DEF TypeOK, RowTypes
<1>1. ASSUME NEW c \in Calls, InsertTx(c) PROVE RowTypes'
  <2>1. CASE work' = [work EXCEPT !.tx = @ \cup New(c)] /\ UNCHANGED db
    <3>1. work.tx \cup New(c) \subseteq Txs
      BY NewIsBrought DEF Tables
    <3>. QED
      BY <2>1, <3>1 DEF Tables
  <2>2. CASE Rollback
    BY <2>2 DEF Rollback
  <2>. QED
    BY <1>1, <2>1, <2>2 DEF InsertTx
<1>2. ASSUME NEW c \in Calls, InsertInp(c) \/ InsertOut(c) PROVE RowTypes'
  <2>1. AddRows(work.inp, c) \in [Txs -> Nat]
        /\ AddRows(work.out, c) \in [Txs -> Nat]
    BY AddRowsAdds DEF Tables
  <2>. QED
    BY <1>2, <2>1 DEF InsertInp, InsertOut, Rollback, Tables
<1>3. ASSUME NEW c \in Calls, Commit(c) \/ Begin(c) PROVE RowTypes'
  BY <1>3 DEF Commit, Begin, Rollback
<1>4. CASE Crash
  BY <1>4 DEF Crash
<1>5. CASE UNCHANGED <<db, work>>
  BY <1>5
<1>. QED
  BY <1>1, <1>2, <1>3, <1>4, <1>5
     DEF Next, Step, SaveAddress, Push, Load, Parse, Check, vars

LEMMA AnswerTypes ==
  ASSUME TypeOK, NEW c \in Calls, NEW text \in Replies, Answer(c, text)
  PROVE  /\ lock' \in Calls \cup {NoCall}
         /\ pc' \in [Calls -> Phases]
         /\ reply' \in [Calls -> Replies]
BY DEF TypeOK, Answer, Phases

LEMMA CallTypesStep ==
  ASSUME TypeOK, [Next]_vars
  PROVE  CallTypes'
<1>. USE DEF CallTypes, TypeOK
<1>1. ASSUME NEW c \in Calls, NEW text \in Replies, Answer(c, text),
             faults' = faults \/ Fault
      PROVE  CallTypes'
  BY <1>1, AnswerTypes DEF Fault
<1>2. ASSUME NEW c \in Calls, NEW p \in Phases, pc' = [pc EXCEPT ![c] = p],
             lock' = lock \/ lock' = c, UNCHANGED reply,
             faults' = faults \/ Fault
      PROVE  CallTypes'
  BY <1>2 DEF Fault
<1>3. "error" \in Replies /\ "already present" \in Replies /\ "thx" \in Replies
  BY DEF Replies
<1>4. /\ "load" \in Phases /\ "parse" \in Phases /\ "check" \in Phases
      /\ "begin" \in Phases /\ "tx" \in Phases /\ "inp" \in Phases
      /\ "out" \in Phases /\ "commit" \in Phases
  BY DEF Phases
<1>5. ASSUME NEW c \in Calls, Step(c) PROVE CallTypes'
  <2>1. \/ \E text \in Replies :
             Answer(c, text) /\ (faults' = faults \/ Fault)
        \/ \E p \in Phases :
             /\ pc' = [pc EXCEPT ![c] = p] /\ (lock' = lock \/ lock' = c)
             /\ UNCHANGED reply /\ (faults' = faults \/ Fault)
    <3>1. CASE Load(c)
      BY <3>1, <1>3, <1>4, LoadDoes
    <3>2. CASE Parse(c)
      BY <3>2, <1>3, <1>4 DEF Parse
    <3>3. CASE Check(c)
      BY <3>3, <1>3, <1>4, CheckDoes DEF Sees
    <3>4. CASE Begin(c)
      BY <3>4, <1>4 DEF Begin
    <3>5. CASE InsertTx(c)
      BY <3>5, <1>3, <1>4 DEF InsertTx
    <3>6. CASE InsertInp(c)
      BY <3>6, <1>3, <1>4 DEF InsertInp
    <3>7. CASE InsertOut(c)
      BY <3>7, <1>3, <1>4 DEF InsertOut
    <3>8. CASE Commit(c)
      BY <3>8, <1>3 DEF Commit
    <3>. QED
      BY <1>5, <3>1, <3>2, <3>3, <3>4, <3>5, <3>6, <3>7, <3>8 DEF Step
  <2>. QED
    BY <2>1, <1>1, <1>2
<1>6. ASSUME NEW c \in Calls, NEW b \in Bodies, Push(c, b) PROVE CallTypes'
  BY <1>6, <1>2, <1>4 DEF Push
<1>7. CASE Crash
  BY <1>7 DEF Crash, Fault, Phases
<1>8. CASE UNCHANGED <<lock, pc, reply, faults>>
  BY <1>8
<1>. QED
  BY <1>5, <1>6, <1>7, <1>8 DEF Next, SaveAddress, vars

LEMMA LineTypesStep ==
  ASSUME TypeOK, LinesInv, [Next]_vars
  PROVE  LineTypes'
<1>. USE DEF LineTypes, TypeOK
<1>1. ASSUME NEW a \in Addresses, SaveAddress(a) PROVE LineTypes'
  BY <1>1 DEF SaveAddress
<1>2. ASSUME NEW c \in Calls, NEW b \in Bodies, Push(c, b) PROVE LineTypes'
  BY <1>2 DEF Push, LinesInv
<1>3. ASSUME NEW c \in Calls, Load(c) PROVE LineTypes'
  BY <1>3, LoadDoes
<1>4. ASSUME NEW c \in Calls, Parse(c) PROVE LineTypes'
  <2>1. DOMAIN body[c] \subseteq Nat
    BY BodiesAssumption
  <2>. QED
    BY <1>4, <2>1 DEF Parse
<1>5. ASSUME NEW c \in Calls, Check(c) PROVE LineTypes'
  <2>1. UNCHANGED <<known, body, addrs, parsed>>
    BY <1>5, CheckDoes
  <2>2. dups' = dups \/ \E found \in SUBSET Txs : dups' = [dups EXCEPT ![c] = found]
    BY <1>5, CheckDoes DEF Sees, Brought, On
  <2>. QED
    BY <2>1, <2>2
<1>6. CASE UNCHANGED <<known, body, addrs, parsed, dups>>
  BY <1>6
<1>. QED
  BY <1>1, <1>2, <1>3, <1>4, <1>5, <1>6
     DEF Next, Step, Begin, InsertTx, InsertInp, InsertOut, Commit, Crash, vars
-----------------------------------------------------------------------------
(* The mutex *)

\* A call that takes the mutex finds it free; one that answers gives it back.
LEMMA LockStep ==
  ASSUME TypeOK, LockInv, [Next]_vars
  PROVE  LockInv'
<1>. USE CallsAssumption DEF LockInv, TypeOK
<1>1. ASSUME NEW c \in Calls, Load(c) PROVE LockInv'
  BY <1>1, LoadDoes DEF Answer
<1>2. ASSUME NEW c \in Calls, Parse(c) PROVE LockInv'
  BY <1>2 DEF Parse, Answer
<1>3. ASSUME NEW c \in Calls, Check(c) PROVE LockInv'
  BY <1>3, CheckDoes DEF Sees, Answer
<1>4. ASSUME NEW c \in Calls, Begin(c) PROVE LockInv'
  BY <1>4 DEF Begin
<1>5. ASSUME NEW c \in Calls, InsertTx(c) PROVE LockInv'
  BY <1>5 DEF InsertTx, Answer, Rollback
<1>6. ASSUME NEW c \in Calls, InsertInp(c) \/ InsertOut(c) PROVE LockInv'
  BY <1>6 DEF InsertInp, InsertOut, Answer, Rollback
<1>7. ASSUME NEW c \in Calls, Commit(c) PROVE LockInv'
  BY <1>7 DEF Commit, Answer, Rollback
<1>8. ASSUME NEW c \in Calls, NEW b \in Bodies, Push(c, b) PROVE LockInv'
  BY <1>8 DEF Push
<1>9. CASE Crash
  BY <1>9 DEF Crash
<1>10. CASE UNCHANGED <<db, work, lock, pc>>
  BY <1>10
<1>. QED
  BY <1>1, <1>2, <1>3, <1>4, <1>5, <1>6, <1>7, <1>8, <1>9, <1>10
     DEF Next, Step, SaveAddress, vars

-----------------------------------------------------------------------------
(* The addresses *)

\* What was accepted on an old copy of the addresses is acceptable now.
LEMMA PaidStep ==
  ASSUME TypeOK, LinesInv, PaidInv, [Next]_vars
  PROVE  PaidInv'
<1>1. known \subseteq known'
  BY DEF Next, Step, SaveAddress, Push, Load, Parse, Check, Begin, InsertTx,
         InsertInp, InsertOut, Commit, Crash, vars
<1>2. \A c \in Calls : \A i \in parsed[c] : Ours(body[c][i], Mine(known'))
  BY <1>1, OursGrows DEF PaidInv
<1>. USE DEF PaidInv, TypeOK
<1>3. ASSUME NEW a \in Addresses, SaveAddress(a) PROVE PaidInv'
  BY <1>2, <1>3 DEF SaveAddress, Ours, Mine
<1>4. ASSUME NEW c \in Calls, Load(c) PROVE PaidInv'
  BY <1>4, LoadDoes DEF Answer
<1>5. ASSUME NEW c \in Calls, Parse(c) PROVE PaidInv'
  <2>1. ASSUME NEW i \in parsed'[c]
        PROVE  Ours(body[c][i], Mine(known))
    <3>1. addrs[c] \subseteq known /\ Ours(body[c][i], Mine(addrs[c]))
      BY <1>5, <2>1 DEF Parse
    <3>. QED
      BY <3>1, OursGrows
  <2>. QED
    BY <1>5, <2>1 DEF Parse, Answer
<1>6. ASSUME NEW c \in Calls, NEW b \in Bodies, Push(c, b) PROVE PaidInv'
  BY <1>6 DEF Push, LinesInv
<1>7. ASSUME UNCHANGED <<known, body, addrs, parsed>> PROVE PaidInv'
  BY <1>7
<1>8. CASE Crash
  BY <1>7, <1>8 DEF Crash
<1>9. ASSUME NEW c \in Calls, Check(c) \/ Begin(c) PROVE PaidInv'
  BY <1>7, <1>9 DEF Check, Begin, Answer
<1>10. ASSUME NEW c \in Calls,
              InsertTx(c) \/ InsertInp(c) \/ InsertOut(c) \/ Commit(c)
       PROVE  PaidInv'
  BY <1>7, <1>10 DEF InsertTx, InsertInp, InsertOut, Commit, Answer
<1>11. CASE UNCHANGED vars
  BY <1>7, <1>11 DEF vars
<1>. QED
  BY <1>3, <1>4, <1>5, <1>6, <1>8, <1>9, <1>10, <1>11 DEF Next, Step
-----------------------------------------------------------------------------
(* The open transaction *)

\* Only the call that holds the mutex is inside execute_insert.
LEMMA OneInTx ==
  ASSUME LockInv, NEW c \in Calls, pc[c] \in InTx, NEW d \in Calls, d # c
  PROVE  pc[d] \notin InTx
BY DEF LockInv, InTx

\* A call whose transaction passes the PRIMARY KEY brings nothing stored.
LEMMA NoConflict ==
  ASSUME NEW c \in Calls, ~Conflict(c)
  PROVE  New(c) \cap work.tx = {}
BY DEF Conflict, New, On

LEMMA WorkStep ==
  ASSUME TypeOK, LockInv, WorkInv, [Next]_vars
  PROVE  WorkInv'
<1>1. ASSUME UNCHANGED <<db, work>>,
             \A d \in Calls : pc'[d] \in InTx =>
               /\ pc'[d] = pc[d] /\ body'[d] = body[d]
               /\ parsed'[d] = parsed[d] /\ dups'[d] = dups[d]
      PROVE  WorkInv'
  <2>1. SUFFICES ASSUME NEW d \in Calls, pc'[d] \in InTx
                 PROVE  pc'[d] = pc[d] /\ New(d)' = New(d)
    BY <1>1, <2>1 DEF WorkInv, InTx, OneMore
  <2>. QED
    BY <1>1, <2>1, SameLines
<1>2. ASSUME NEW c \in Calls, Load(c) \/ Parse(c) \/ Check(c) PROVE WorkInv'
  BY <1>1, <1>2 DEF Load, Parse, Check, Answer, InTx, TypeOK
<1>3. ASSUME NEW c \in Calls, NEW b \in Bodies, Push(c, b) PROVE WorkInv'
  BY <1>1, <1>3 DEF Push, InTx, TypeOK
<1>4. ASSUME NEW c \in Calls, Begin(c) PROVE WorkInv'
  <2>1. pc' = [pc EXCEPT ![c] = "tx"] /\ work' = db' /\ lock = NoCall
    BY <1>4 DEF Begin
  <2>2. \A d \in Calls : pc[d] \notin InTx
    BY <2>1, CallsAssumption DEF LockInv, InTx
  <2>3. pc'[c] = "tx" /\ \A d \in Calls \ {c} : pc'[d] \notin InTx
    BY <2>1, <2>2 DEF TypeOK
  <2>. QED
    BY <2>1, <2>3 DEF WorkInv, InTx
<1>5. ASSUME NEW c \in Calls, pc[c] \in InTx,
             \A d \in Calls \ {c} : pc'[d] = pc[d], pc'[c] \notin InTx
      PROVE  WorkInv'
  <2>1. \A d \in Calls : pc'[d] \notin InTx
    BY <1>5, OneInTx
  <2>. QED
    BY <2>1 DEF WorkInv, InTx
<1>6. ASSUME NEW c \in Calls, NEW text, pc[c] \in InTx, Answer(c, text)
      PROVE  WorkInv'
  BY <1>5, <1>6 DEF Answer, InTx, TypeOK
<1>7. ASSUME NEW c \in Calls, pc[c] \in InTx,
             UNCHANGED <<body, parsed, dups>>,
             \A d \in Calls \ {c} : pc'[d] = pc[d],
             pc'[c] = "inp" =>
               /\ New(c) \cap db'.tx = {} /\ work'.tx = db'.tx \cup New(c)
               /\ work'.inp = db'.inp /\ work'.out = db'.out,
             pc'[c] = "out" =>
               /\ New(c) \cap db'.tx = {} /\ work'.tx = db'.tx \cup New(c)
               /\ OneMore(db'.inp, work'.inp, New(c)) /\ work'.out = db'.out,
             pc'[c] = "commit" =>
               /\ New(c) \cap db'.tx = {} /\ work'.tx = db'.tx \cup New(c)
               /\ OneMore(db'.inp, work'.inp, New(c))
               /\ OneMore(db'.out, work'.out, New(c)),
             pc'[c] # "tx"
      PROVE  WorkInv'
  <2>1. New(c)' = New(c)
    BY <1>7, SameLines
  <2>2. \A d \in Calls \ {c} : pc'[d] \notin InTx
    BY <1>7, OneInTx
  <2>. QED
    BY <1>7, <2>1, <2>2 DEF WorkInv, InTx, OneMore
<1>8. ASSUME NEW c \in Calls, InsertTx(c) PROVE WorkInv'
  <2>1. pc[c] = "tx" /\ work = db /\ pc[c] \in InTx
    BY <1>8 DEF InsertTx, WorkInv, InTx
  <2>2. CASE \E text : Answer(c, text)
    BY <1>6, <2>1, <2>2
  <2>3. CASE /\ ~Conflict(c) /\ UNCHANGED <<db, body, parsed, dups>>
             /\ work' = [work EXCEPT !.tx = @ \cup New(c)]
             /\ pc' = [pc EXCEPT ![c] = "inp"]
    <3>1. New(c) \cap work.tx = {}
      BY <2>3, NoConflict
    <3>. QED
      BY <1>7, <2>1, <2>3, <3>1 DEF Tables, TypeOK
  <2>. QED
    BY <1>8, <2>2, <2>3 DEF InsertTx
<1>9. ASSUME NEW c \in Calls, InsertInp(c) PROVE WorkInv'
  <2>1. /\ pc[c] = "inp" /\ pc[c] \in InTx
        /\ New(c) \cap db.tx = {} /\ work.tx = db.tx \cup New(c)
        /\ work.inp = db.inp /\ work.out = db.out
    BY <1>9 DEF InsertInp, WorkInv, InTx
  <2>2. CASE Answer(c, "error")
    BY <1>6, <2>1, <2>2
  <2>3. CASE /\ UNCHANGED <<db, body, parsed, dups>>
             /\ work' = [work EXCEPT !.inp = AddRows(@, c)]
             /\ pc' = [pc EXCEPT ![c] = "out"]
    <3>1. OneMore(work.inp, AddRows(work.inp, c), New(c))
      BY AddRowsAdds DEF TypeOK, Tables
    <3>. QED
      BY <1>7, <2>1, <2>3, <3>1 DEF Tables, TypeOK
  <2>. QED
    BY <1>9, <2>2, <2>3 DEF InsertInp
<1>10. ASSUME NEW c \in Calls, InsertOut(c) PROVE WorkInv'
  <2>1. /\ pc[c] = "out" /\ pc[c] \in InTx
        /\ New(c) \cap db.tx = {} /\ work.tx = db.tx \cup New(c)
        /\ OneMore(db.inp, work.inp, New(c)) /\ work.out = db.out
    BY <1>10 DEF InsertOut, WorkInv, InTx
  <2>2. CASE Answer(c, "error")
    BY <1>6, <2>1, <2>2
  <2>3. CASE /\ UNCHANGED <<db, body, parsed, dups>>
             /\ work' = [work EXCEPT !.out = AddRows(@, c)]
             /\ pc' = [pc EXCEPT ![c] = "commit"]
    <3>1. OneMore(work.out, AddRows(work.out, c), New(c))
      BY AddRowsAdds DEF TypeOK, Tables
    <3>. QED
      BY <1>7, <2>1, <2>3, <3>1 DEF Tables, TypeOK
  <2>. QED
    BY <1>10, <2>2, <2>3 DEF InsertOut
<1>11. ASSUME NEW c \in Calls, Commit(c) PROVE WorkInv'
  BY <1>6, <1>11 DEF Commit, InTx
<1>12. CASE Crash
  BY <1>12 DEF Crash, WorkInv
<1>13. ASSUME UNCHANGED <<db, work, pc, body, parsed, dups>> PROVE WorkInv'
  BY <1>1, <1>13
<1>. QED
  BY <1>2, <1>3, <1>4, <1>8, <1>9, <1>10, <1>11, <1>12, <1>13
     DEF Next, Step, SaveAddress, vars
-----------------------------------------------------------------------------
(* The tables *)

\* COMMIT is the only statement that changes what is stored.
LEMMA OnlyCommitStores ==
  ASSUME [Next]_vars
  PROVE  db' = db \/ \E c \in Calls : Commit(c) /\ db' = work
BY DEF Next, Step, SaveAddress, Push, Load, Parse, Check, Begin, InsertTx,
       InsertInp, InsertOut, Commit, Crash, Rollback, vars

\* It stores a batch none of which was there, with its rows, once.
LEMMA CommitStores ==
  ASSUME WorkInv, NEW c \in Calls, Commit(c), db' = work
  PROVE  /\ New(c) \cap db.tx = {}
         /\ db'.tx = db.tx \cup New(c)
         /\ OneMore(db.inp, db'.inp, New(c))
         /\ OneMore(db.out, db'.out, New(c))
BY DEF Commit, WorkInv

LEMMA TablesStep ==
  ASSUME TypeOK, WorkInv, TablesAgree, [Next]_vars
  PROVE  TablesAgree'
<1>1. CASE db' = db
  BY <1>1 DEF TablesAgree
<1>2. ASSUME NEW c \in Calls, Commit(c), db' = work PROVE TablesAgree'
  <2>1. SUFFICES ASSUME NEW t \in Txs
                 PROVE  LET n == IF t \in db'.tx THEN 1 ELSE 0
                        IN  db'.inp[t] = n /\ db'.out[t] = n
    BY DEF TablesAgree
  <2>2. /\ New(c) \cap db.tx = {}
        /\ db'.tx = db.tx \cup New(c)
        /\ db'.inp[t] = IF t \in New(c) THEN db.inp[t] + 1 ELSE db.inp[t]
        /\ db'.out[t] = IF t \in New(c) THEN db.out[t] + 1 ELSE db.out[t]
    BY <1>2, CommitStores DEF OneMore
  <2>3. CASE t \in New(c)
    BY <2>2, <2>3 DEF TablesAgree
  <2>4. CASE t \notin New(c)
    BY <2>2, <2>4 DEF TablesAgree
  <2>. QED
    BY <2>3, <2>4
<1>. QED
  BY <1>1, <1>2, OnlyCommitStores

LEMMA StoredOnlyGrows ==
  ASSUME WorkInv, [Next]_vars
  PROVE  db.tx \subseteq db'.tx
BY OnlyCommitStores, CommitStores

\* An answer "already present" was given on what was stored, and no row goes.
LEMMA AnsweredStep ==
  ASSUME TypeOK, AnsweredInv, [Next]_vars
  PROVE  AnsweredInv'
<1>. USE DEF AnsweredInv, TypeOK
<1>1. ASSUME NEW c \in Calls, NEW text, Answer(c, text) PROVE AnsweredInv'
  BY <1>1 DEF Answer
<1>2. ASSUME NEW c \in Calls, NEW p, pc[c] # "done", UNCHANGED reply,
             pc' = [pc EXCEPT ![c] = p]
      PROVE  AnsweredInv'
  BY <1>2
<1>3. ASSUME NEW c \in Calls, Step(c) PROVE AnsweredInv'
  BY <1>1, <1>2, <1>3
     DEF Step, Load, Parse, Check, Begin, InsertTx, InsertInp, InsertOut, Commit
<1>4. ASSUME NEW c \in Calls, NEW b \in Bodies, Push(c, b) PROVE AnsweredInv'
  BY <1>2, <1>4 DEF Push
<1>5. CASE Crash
  BY <1>5 DEF Crash
<1>6. CASE UNCHANGED <<pc, reply>>
  BY <1>6
<1>. QED
  BY <1>3, <1>4, <1>5, <1>6 DEF Next, SaveAddress, vars

\* The lines of a call that has ended are left alone.
LEMMA DoneStays ==
  ASSUME [Next]_vars, TypeOK, NEW d \in Calls, pc[d] = "done"
  PROVE  body'[d] = body[d] /\ parsed'[d] = parsed[d] /\ dups'[d] = dups[d]
<1>1. ASSUME NEW c \in Calls, Step(c) \/ \E b \in Bodies : Push(c, b)
      PROVE  body'[d] = body[d] /\ parsed'[d] = parsed[d] /\ dups'[d] = dups[d]
  BY <1>1 DEF Step, Push, Load, Parse, Check, Begin, InsertTx, InsertInp,
              InsertOut, Commit, TypeOK
<1>. QED
  BY <1>1 DEF Next, SaveAddress, Crash, vars

\* An answer "already present" is given by Check, on what is then stored.
LEMMA SaidPresent ==
  ASSUME [Next]_vars, TypeOK, NEW d \in Calls,
         reply'[d] = "already present", reply[d] # "already present"
  PROVE  Brought(d) \subseteq db.tx /\ UNCHANGED <<body, parsed, db>>
<1>1. ASSUME NEW c \in Calls, NEW text, Answer(c, text)
      PROVE  c = d /\ text = "already present"
  BY <1>1 DEF Answer, TypeOK
<1>2. reply' # reply
  OBVIOUS
<1>3. PICK c \in Calls : Step(c)
  BY <1>2 DEF Next, SaveAddress, Crash, Push, vars
<1>4. "error" # "already present" /\ "thx" # "already present"
  OBVIOUS
<1>5. CASE Check(c)
  <2>1. Answer(c, "already present") \/ Answer(c, "error")
    BY <1>2, <1>5 DEF Check
  <2>2. c = d /\ ~Answer(c, "error")
    BY <1>1, <1>4, <2>1
  <2>. QED
    BY <1>2, <1>5, <2>2 DEF Check, AllPresent
<1>6. CASE Load(c) \/ Parse(c)
  BY <1>1, <1>2, <1>4, <1>6 DEF Load, Parse
<1>7. CASE Begin(c) \/ InsertTx(c)
  BY <1>1, <1>2, <1>4, <1>7 DEF Begin, InsertTx
<1>8. CASE InsertInp(c) \/ InsertOut(c) \/ Commit(c)
  BY <1>1, <1>2, <1>4, <1>8 DEF InsertInp, InsertOut, Commit
<1>. QED
  BY <1>3, <1>5, <1>6, <1>7, <1>8 DEF Step

\* And no row goes.
LEMMA PresentStep ==
  ASSUME TypeOK, WorkInv, AnsweredInv, PresentIsStored, [Next]_vars
  PROVE  PresentIsStored'
<1>1. SUFFICES ASSUME NEW d \in Calls, reply'[d] = "already present"
               PROVE  Brought(d)' \subseteq db'.tx
  BY DEF PresentIsStored
<1>2. CASE reply[d] = "already present"
  <2>1. pc[d] = "done" /\ Brought(d) \subseteq db.tx
    BY <1>2 DEF AnsweredInv, PresentIsStored
  <2>. QED
    BY <2>1, DoneStays, SameLines, StoredOnlyGrows
<1>3. CASE reply[d] # "already present"
  <2>1. Brought(d) \subseteq db.tx /\ UNCHANGED <<body, parsed, db>>
    BY <1>1, <1>3, SaidPresent
  <2>. QED
    BY <2>1 DEF Brought, On
<1>. QED
  BY <1>2, <1>3

\* The lines that a request accepts are its first, and so are the duplicates.
LEMMA LinesStep ==
  ASSUME TypeOK, LinesInv, [Next]_vars
  PROVE  LinesInv'
<1>. USE DEF LinesInv, TypeOK
<1>1. ASSUME NEW c \in Calls, Load(c) \/ Begin(c) PROVE LinesInv'
  BY <1>1, LoadDoes DEF Begin, Answer
<1>2. ASSUME NEW c \in Calls, Parse(c) PROVE LinesInv'
  BY <1>2 DEF Parse, Answer
<1>3. ASSUME NEW c \in Calls, Check(c) PROVE LinesInv'
  BY <1>3, CheckDoes DEF Sees, Answer
<1>4. ASSUME NEW c \in Calls,
             InsertTx(c) \/ InsertInp(c) \/ InsertOut(c) \/ Commit(c)
      PROVE  LinesInv'
  BY <1>4 DEF InsertTx, InsertInp, InsertOut, Commit, Answer
<1>5. ASSUME NEW c \in Calls, NEW b \in Bodies, Push(c, b) PROVE LinesInv'
  BY <1>5 DEF Push
<1>6. CASE Crash
  BY <1>6 DEF Crash
<1>7. CASE UNCHANGED <<pc, parsed, dups>>
  BY <1>7
<1>. QED
  BY <1>1, <1>2, <1>3, <1>4, <1>5, <1>6, <1>7 DEF Next, Step, SaveAddress, vars

\* What the check has found to be new stays so until the call is answered.
LEMMA NewStep ==
  ASSUME TypeOK, NewInv, [Next]_vars
  PROVE  NewInv'
<1>. DEFINE Checked == {"begin", "tx", "inp", "out", "commit"}
<1>. USE DEF TypeOK, Checked
<1>1. ASSUME NEW d \in Calls, New(d) # {}, body'[d] = body[d],
             parsed'[d] = parsed[d], dups'[d] = dups[d]
      PROVE  New(d)' # {}
  BY <1>1, SameLines
<1>2. ASSUME \A d \in Calls : pc'[d] \in Checked =>
               /\ pc[d] \in Checked /\ body'[d] = body[d]
               /\ parsed'[d] = parsed[d] /\ dups'[d] = dups[d]
      PROVE  NewInv'
  BY <1>1, <1>2 DEF NewInv
<1>3. ASSUME NEW c \in Calls, Check(c) PROVE NewInv'
  <2>1. UNCHANGED <<body, parsed>> /\ pc[c] = "check"
    BY <1>3, CheckDoes
  <2>2. CASE dups' = dups /\ Answer(c, "error")
    BY <1>2, <2>1, <2>2 DEF Answer
  <2>3. ASSUME NEW found, Sees(c, found) PROVE NewInv'
    <3>1. CASE Answer(c, "already present")
      BY <1>2, <2>1, <2>3, <3>1 DEF Sees, Answer
    <3>2. CASE /\ ~(Brought(c) \subseteq found)
               /\ pc' = [pc EXCEPT ![c] = "begin"]
      <4>1. PICK t \in Brought(c) : t \notin found
        BY <3>2
      <4>2. t \notin dups'[c]
        BY <2>3, <4>1 DEF Sees
      <4>3. t \in New(c)'
        BY <2>1, <4>1, <4>2 DEF Brought, New, Batch, On
      <4>4. \A d \in Calls \ {c} : pc'[d] = pc[d] /\ dups'[d] = dups[d]
        BY <2>3, <3>2 DEF Sees
      <4>. QED
        BY <1>1, <2>1, <4>3, <4>4 DEF NewInv
    <3>. QED
      BY <2>3, <3>1, <3>2 DEF Sees
  <2>. QED
    BY <1>3, <2>2, <2>3, CheckDoes
<1>4. ASSUME NEW c \in Calls, Load(c) \/ Parse(c) PROVE NewInv'
  BY <1>2, <1>4, LoadDoes DEF Parse, Answer
<1>5. ASSUME NEW c \in Calls, NEW b \in Bodies, Push(c, b) PROVE NewInv'
  BY <1>2, <1>5 DEF Push
<1>6. ASSUME NEW c \in Calls, Begin(c) \/ InsertTx(c) PROVE NewInv'
  BY <1>2, <1>6 DEF Begin, InsertTx, Answer
<1>7. ASSUME NEW c \in Calls, InsertInp(c) \/ InsertOut(c) \/ Commit(c)
      PROVE  NewInv'
  BY <1>2, <1>7 DEF InsertInp, InsertOut, Commit, Answer
<1>8. CASE Crash
  BY <1>2, <1>8 DEF Crash
<1>9. CASE UNCHANGED <<pc, body, parsed, dups>>
  BY <1>2, <1>9
<1>. QED
  BY <1>3, <1>4, <1>5, <1>6, <1>7, <1>8, <1>9 DEF Next, Step, SaveAddress, vars

LEMMA FaultsAreCounted ==
  ASSUME [Next]_vars
  PROVE  faults' = faults \/ Fault
<1>1. ASSUME NEW c \in Calls, Load(c) \/ Parse(c) \/ Check(c) \/ Begin(c)
      PROVE  faults' = faults \/ Fault
  BY <1>1, LoadDoes, CheckDoes DEF Parse, Begin
<1>2. ASSUME NEW c \in Calls,
             InsertTx(c) \/ InsertInp(c) \/ InsertOut(c) \/ Commit(c)
      PROVE  faults' = faults \/ Fault
  BY <1>2 DEF InsertTx, InsertInp, InsertOut, Commit
<1>. QED
  BY <1>1, <1>2 DEF Next, Step, SaveAddress, Push, Crash, vars

\* An answer "thx" is given by InsertTx for a conflict, or by Commit.
LEMMA SaidThx ==
  ASSUME [Next]_vars, TypeOK, NEW d \in Calls,
         reply'[d] = "thx", reply[d] # "thx", faults' = 0
  PROVE  \/ InsertTx(d) /\ Conflict(d) /\ db' = db
         \/ Commit(d) /\ db' = work
<1>1. ASSUME NEW c \in Calls, NEW text, Answer(c, text)
      PROVE  c = d /\ text = "thx"
  BY <1>1 DEF Answer, TypeOK
<1>2. reply' # reply
  OBVIOUS
<1>3. PICK c \in Calls : Step(c)
  BY <1>2 DEF Next, SaveAddress, Crash, Push, vars
<1>4. "error" # "thx" /\ "already present" # "thx"
  OBVIOUS
<1>5. ~Fault
  BY DEF Fault, TypeOK
<1>6. CASE InsertTx(c)
  <2>1. ~Answer(c, "error") /\ \E text : Answer(c, text)
    BY <1>1, <1>2, <1>4, <1>6 DEF InsertTx
  <2>. QED
    BY <1>1, <1>5, <1>6, <2>1, <1>2 DEF InsertTx, Rollback
<1>7. CASE Commit(c)
  BY <1>1, <1>5, <1>7 DEF Commit
<1>8. CASE Load(c) \/ Parse(c) \/ Check(c)
  BY <1>1, <1>2, <1>4, <1>8 DEF Load, Parse, Check
<1>9. CASE Begin(c) \/ InsertInp(c) \/ InsertOut(c)
  BY <1>1, <1>2, <1>4, <1>9 DEF Begin, InsertInp, InsertOut
<1>. QED
  BY <1>3, <1>6, <1>7, <1>8, <1>9 DEF Step

\* Then a part of what was new is stored: by a request that came before, or
\* by this one.
LEMMA ThxStep ==
  ASSUME TypeOK, WorkInv, AnsweredInv, NewInv, ThxStoredSome, [Next]_vars
  PROVE  ThxStoredSome'
<1>1. SUFFICES ASSUME NEW d \in Calls, reply'[d] = "thx", faults' = 0,
                      \A i, j \in parsed'[d] :
                        body'[d][i] = body'[d][j] => i = j
               PROVE  (Brought(d)' \ dups'[d]) \cap db'.tx # {}
  BY DEF ThxStoredSome
<1>2. CASE reply[d] = "thx"
  <2>1. pc[d] = "done"
    BY <1>2 DEF AnsweredInv
  <2>2. body'[d] = body[d] /\ parsed'[d] = parsed[d] /\ dups'[d] = dups[d]
    BY <2>1, DoneStays
  <2>3. faults = 0
    BY <1>1, FaultsAreCounted DEF Fault, TypeOK
  <2>4. (Brought(d) \ dups[d]) \cap db.tx # {}
    BY <1>1, <1>2, <2>2, <2>3 DEF ThxStoredSome
  <2>. QED
    BY <2>2, <2>4, SameLines, StoredOnlyGrows
<1>3. ASSUME InsertTx(d), Conflict(d), db' = db
      PROVE  (Brought(d)' \ dups'[d]) \cap db'.tx # {}
  <2>1. UNCHANGED <<body, parsed, dups>> /\ work = db
    BY <1>3 DEF InsertTx, WorkInv
  <2>2. PICK i \in Batch(d) : body[d][i] \in db.tx
    BY <1>1, <1>3, <2>1 DEF Conflict, Batch
  <2>3. body[d][i] \in Brought(d) \ dups[d]
    BY <2>2 DEF Batch, Brought, On, TypeOK
  <2>. QED
    BY <1>3, <2>1, <2>2, <2>3, SameLines
<1>4. ASSUME Commit(d), db' = work
      PROVE  (Brought(d)' \ dups'[d]) \cap db'.tx # {}
  <2>1. UNCHANGED <<body, parsed, dups>> /\ pc[d] = "commit"
    BY <1>4 DEF Commit
  <2>2. PICK t : t \in New(d)
    BY <2>1 DEF NewInv
  <2>3. t \in db'.tx
    BY <1>4, <2>2, CommitStores
  <2>4. t \in Brought(d) \ dups[d]
    BY <2>2 DEF New, Batch, Brought, On
  <2>. QED
    BY <2>1, <2>3, <2>4, SameLines
<1>. QED
  BY <1>1, <1>2, <1>3, <1>4, SaidThx

LEMMA PaidStays ==
  ASSUME TypeOK, WorkInv, PaidInv, PaidInv', StoredIsPaid, [Next]_vars
  PROVE  StoredIsPaid'
<1>1. \A t \in db.tx :
        FixedFee = 0 \/ (Pays[t] \in Mine(known') /\ Fee[t] >= FixedFee)
  <2>1. known \subseteq known'
    BY DEF Next, Step, SaveAddress, Push, Load, Parse, Check, Begin, InsertTx,
           InsertInp, InsertOut, Commit, Crash, vars
  <2>. QED
    BY <2>1 DEF StoredIsPaid, Mine
<1>2. CASE db' = db
  BY <1>1, <1>2 DEF StoredIsPaid, Mine
<1>3. ASSUME NEW c \in Calls, Commit(c), db' = work PROVE StoredIsPaid'
  <2>1. db'.tx = db.tx \cup New(c) /\ UNCHANGED <<body, parsed, known>>
    BY <1>3, CommitStores DEF Commit
  <2>2. \A t \in New(c) : Ours(t, Mine(known))
    BY DEF New, On, Batch, PaidInv
  <2>. QED
    BY <1>1, <2>1, <2>2 DEF StoredIsPaid, Ours, Mine
<1>. QED
  BY <1>2, <1>3, OnlyCommitStores
-----------------------------------------------------------------------------
(* The invariant *)

LEMMA InitPush == Init => PushInv
<1>. SUFFICES ASSUME Init PROVE PushInv
  OBVIOUS
<1>1. NoRows \in Tables
  BY DEF NoRows, Tables
<1>2. TypeOK
  BY <1>1 DEF Init, TypeOK, Phases, Replies
<1>3. LockInv /\ WorkInv
  BY CallsAssumption DEF Init, LockInv, WorkInv
<1>4. /\ PaidInv /\ LinesInv /\ AnsweredInv /\ NewInv
      /\ PresentIsStored /\ ThxStoredSome
  BY DEF Init, PaidInv, LinesInv, AnsweredInv, NewInv, PresentIsStored,
         ThxStoredSome
<1>5. TablesAgree /\ StoredIsPaid
  BY DEF Init, TablesAgree, StoredIsPaid, NoRows
<1>. QED
  BY <1>2, <1>3, <1>4, <1>5 DEF PushInv

LEMMA NextPush == PushInv /\ [Next]_vars => PushInv'
<1>. SUFFICES ASSUME PushInv, [Next]_vars PROVE PushInv'
  OBVIOUS
<1>. USE DEF PushInv
<1>1. RowTypes' /\ CallTypes' /\ LineTypes'
  BY RowTypesStep, CallTypesStep, LineTypesStep
<1>2. TypeOK'
  BY <1>1 DEF TypeOK, RowTypes, CallTypes, LineTypes
<1>3. LockInv' /\ WorkInv' /\ PaidInv' /\ LinesInv' /\ AnsweredInv' /\ NewInv'
  BY LockStep, WorkStep, PaidStep, LinesStep, AnsweredStep, NewStep
<1>4. TablesAgree' /\ PresentIsStored' /\ ThxStoredSome' /\ StoredIsPaid'
  BY <1>3, TablesStep, PresentStep, ThxStep, PaidStays
<1>. QED
  BY <1>2, <1>3, <1>4

\* Whatever a request has read or decided holds when it acts on it.
THEOREM PushInvariance == Spec => []PushInv
<1>. QED
  BY InitPush, NextPush, PTL DEF Spec

\* Every variable keeps to its type.
THEOREM PushTypes == Spec => []TypeOK
<1>1. PushInv => TypeOK
  BY DEF PushInv
<1>. QED
  BY <1>1, PushInvariance, PTL

\* execute_insert keeps tbl_tx, tbl_inp and tbl_out consistent.
THEOREM TablesAlwaysAgree == Spec => []TablesAgree
<1>1. PushInv => TablesAgree
  BY DEF PushInv
<1>. QED
  BY <1>1, PushInvariance, PTL

\* The answer "already present" is true, and stays so.
THEOREM PresentMeansStored == Spec => []PresentIsStored
<1>1. PushInv => PresentIsStored
  BY DEF PushInv
<1>. QED
  BY <1>1, PushInvariance, PTL

\* The answer "thx" is a promise for at least a part of what was new, as long
\* as nothing fails (bal-server.rs 755-830, db.rs 324-392).
THEOREM ThxMeansStoredSome == Spec => []ThxStoredSome
<1>1. PushInv => ThxStoredSome
  BY DEF PushInv
<1>. QED
  BY <1>1, PushInvariance, PTL

\* Nothing is stored that does not pay one of our addresses the fee.
THEOREM StoredAlwaysPaid == Spec => []StoredIsPaid
<1>1. PushInv => StoredIsPaid
  BY DEF PushInv
<1>. QED
  BY <1>1, PushInvariance, PTL
-----------------------------------------------------------------------------
(* When "thx" is true *)

\* No other request brings a transaction that c brings.
Alone(c) == \A d \in Calls \ {c} : Brought(c) \cap Brought(d) = {}

ThxIsTrueAlone ==
  \A c \in Calls :
    reply[c] = "thx" /\ faults = 0 /\ c \notin Doubles /\ Alone(c)
    => Brought(c) \subseteq db.tx

\* What is stored was brought by a request that has ended, and what was found
\* to be stored still is.
OwnedInv ==
  /\ \A t \in db.tx : \E c \in Calls : pc[c] = "done" /\ t \in Brought(c)
  /\ \A c \in Calls : dups[c] \subseteq db.tx

LEMMA DoneForEver ==
  ASSUME [Next]_vars, TypeOK, NEW d \in Calls, pc[d] = "done"
  PROVE  pc'[d] = "done" /\ Brought(d)' = Brought(d)
<1>1. ASSUME NEW c \in Calls, NEW text, Answer(c, text) PROVE pc'[d] = "done"
  BY <1>1 DEF Answer, TypeOK
<1>2. ASSUME NEW c \in Calls, c # d, NEW p, pc' = [pc EXCEPT ![c] = p]
      PROVE  pc'[d] = "done"
  BY <1>2 DEF TypeOK
<1>3. ASSUME NEW c \in Calls, Step(c) PROVE pc'[d] = "done"
  BY <1>1, <1>2, <1>3
     DEF Step, Load, Parse, Check, Begin, InsertTx, InsertInp, InsertOut, Commit
<1>4. ASSUME NEW c \in Calls, NEW b \in Bodies, Push(c, b)
      PROVE  pc'[d] = "done"
  BY <1>2, <1>4 DEF Push
<1>5. pc'[d] = "done"
  BY <1>3, <1>4 DEF Next, SaveAddress, Crash, vars
<1>. QED
  BY <1>5, DoneStays, SameLines

LEMMA OwnedStep ==
  ASSUME PushInv, OwnedInv, [Next]_vars
  PROVE  OwnedInv'
<1>. USE DEF PushInv
<1>1. ASSUME NEW t \in db.tx
      PROVE  \E c \in Calls : pc'[c] = "done" /\ t \in Brought(c)'
  BY DoneForEver DEF OwnedInv
<1>2. ASSUME NEW t \in db'.tx, t \notin db.tx
      PROVE  \E c \in Calls : pc'[c] = "done" /\ t \in Brought(c)'
  <2>1. PICK c \in Calls : Commit(c) /\ db' = work
    BY <1>2, OnlyCommitStores
  <2>2. t \in Brought(c)
    BY <1>2, <2>1, CommitStores, NewIsBrought
  <2>3. pc'[c] = "done" /\ UNCHANGED <<body, parsed, dups>>
    BY <2>1 DEF Commit, Answer, TypeOK
  <2>. QED
    BY <2>2, <2>3, SameLines
<1>3. ASSUME NEW c \in Calls PROVE dups'[c] \subseteq db'.tx
  <2>1. ASSUME NEW d \in Calls, Check(d) PROVE dups'[c] \subseteq db.tx
    BY <2>1 DEF Check, OwnedInv, TypeOK
  <2>2. dups' = dups \/ \E d \in Calls : Check(d)
    BY DEF Next, Step, SaveAddress, Push, Load, Parse, Begin, InsertTx,
           InsertInp, InsertOut, Commit, Crash, vars
  <2>. QED
    BY <2>1, <2>2, StoredOnlyGrows DEF OwnedInv
<1>. QED
  BY <1>1, <1>2, <1>3 DEF OwnedInv

LEMMA ThxAloneStep ==
  ASSUME PushInv, OwnedInv, ThxIsTrueAlone, [Next]_vars
  PROVE  ThxIsTrueAlone'
<1>. USE DEF PushInv
<1>1. SUFFICES ASSUME NEW d \in Calls, reply'[d] = "thx", faults' = 0,
                      (d \notin Doubles)', Alone(d)'
               PROVE  Brought(d)' \subseteq db'.tx
  BY DEF ThxIsTrueAlone
<1>2. CASE reply[d] = "thx"
  <2>1. pc[d] = "done" /\ faults = 0
    BY <1>1, <1>2, FaultsAreCounted DEF AnsweredInv, Fault, TypeOK
  <2>2. Brought(d)' = Brought(d) /\ d \notin Doubles
    BY <1>1, <2>1, DoneStays, SameLines DEF Doubles
  <2>3. ASSUME NEW c \in Calls \ {d}, NEW t \in Brought(c) \cap Brought(d)
        PROVE  FALSE
    <3>1. CASE parsed'[c] = parsed[c] /\ body'[c] = body[c]
      BY <1>1, <2>2, <2>3, <3>1 DEF Alone, Brought, On
    <3>2. CASE parsed[c] = {}
      BY <2>3, <3>2 DEF Brought, On
    <3>3. \/ parsed'[c] = parsed[c] /\ body'[c] = body[c]
          \/ parsed[c] = {}
      BY DEF Next, Step, SaveAddress, Push, Load, Parse, Check, Begin,
             InsertTx, InsertInp, InsertOut, Commit, Crash, vars, LinesInv,
             TypeOK
    <3>. QED
      BY <3>1, <3>2, <3>3
  <2>. QED
    BY <1>2, <2>1, <2>2, <2>3, StoredOnlyGrows DEF ThxIsTrueAlone, Alone
<1>3. ASSUME InsertTx(d), Conflict(d), db' = db PROVE FALSE
  <2>1. UNCHANGED <<body, parsed, dups>> /\ work = db /\ pc[d] = "tx"
    BY <1>3 DEF InsertTx, WorkInv
  <2>2. d \notin Doubles /\ Alone(d)
    BY <1>1, <2>1 DEF Doubles, Alone, Brought, On
  <2>3. PICK i \in Batch(d) : body[d][i] \in db.tx
    BY <1>3, <2>1, <2>2 DEF Conflict, Batch, Doubles
  <2>4. PICK c \in Calls : pc[c] = "done" /\ body[d][i] \in Brought(c)
    BY <2>3 DEF OwnedInv
  <2>5. body[d][i] \in Brought(d)
    BY <2>3 DEF Batch, Brought, On, TypeOK
  <2>. QED
    BY <2>1, <2>2, <2>4, <2>5 DEF Alone
<1>4. ASSUME Commit(d), db' = work PROVE Brought(d)' \subseteq db'.tx
  <2>1. UNCHANGED <<body, parsed, dups>>
    BY <1>4 DEF Commit
  <2>2. Brought(d) \subseteq New(d) \cup dups[d]
    BY DEF Brought, New, Batch, On
  <2>3. New(d) \subseteq db'.tx /\ dups[d] \subseteq db'.tx
    BY <1>4, CommitStores DEF OwnedInv
  <2>. QED
    BY <2>1, <2>2, <2>3, SameLines
<1>. QED
  BY <1>1, <1>2, <1>3, <1>4, SaidThx

\* The answer "thx" is as good as the page says, unless SQLite has failed, the
\* server has died, the request has brought a transaction twice, or another
\* request has brought one of its own (bal-server.rs 755-830, db.rs 324-392).
THEOREM ThxMeansStoredAlone ==
  Spec => [](\A c \in Calls :
               reply[c] = "thx" =>
                 \/ Brought(c) \subseteq db.tx
                 \/ faults > 0
                 \/ \E i, j \in parsed[c] : i # j /\ body[c][i] = body[c][j]
                 \/ \E d \in Calls \ {c} : Brought(c) \cap Brought(d) # {})
<1>1. Init => OwnedInv /\ ThxIsTrueAlone
  BY DEF Init, OwnedInv, ThxIsTrueAlone, NoRows
<1>2. /\ PushInv /\ OwnedInv /\ ThxIsTrueAlone /\ [Next]_vars
      => OwnedInv' /\ ThxIsTrueAlone'
  BY OwnedStep, ThxAloneStep
<1>3. PushInv /\ ThxIsTrueAlone =>
        \A c \in Calls :
          reply[c] = "thx" =>
            \/ Brought(c) \subseteq db.tx
            \/ faults > 0
            \/ \E i, j \in parsed[c] : i # j /\ body[c][i] = body[c][j]
            \/ \E d \in Calls \ {c} : Brought(c) \cap Brought(d) # {}
  BY DEF ThxIsTrueAlone, Alone, Doubles, PushInv, TypeOK
<1>. QED
  BY <1>1, <1>2, <1>3, PushInvariance, PTL DEF Spec

-----------------------------------------------------------------------------
(* The handler is atomic: it implements TxStore *)

Stored == {t \in db.tx : db.inp[t] = 1 /\ db.out[t] = 1}
States == [c \in Calls |-> Progress(c)]
Wanted == [c \in Calls |-> New(c)]

LEMMA StoredIsAll ==
  ASSUME TypeOK, TablesAgree
  PROVE  Stored = db.tx
BY DEF Stored, TablesAgree, TypeOK, Tables

\* Steps that leave the lines alone leave alone what is wanted.
LEMMA SameWanted ==
  ASSUME UNCHANGED <<body, parsed, dups>>
  PROVE  Wanted' = Wanted /\ Doubles' = Doubles
BY DEF Wanted, Doubles, New, On, Batch

\* And a step of one request leaves alone what the others want.
LEMMA OneWanted ==
  ASSUME NEW c \in Calls,
         \A d \in Calls \ {c} : /\ body'[d] = body[d]
                                /\ parsed'[d] = parsed[d] /\ dups'[d] = dups[d]
  PROVE  /\ Wanted' = [Wanted EXCEPT ![c] = New(c)']
         /\ Doubles' \ {c} = Doubles \ {c}
<1>1. \A d \in Calls \ {c} : New(d)' = New(d)
  BY SameLines
<1>. QED
  BY <1>1 DEF Wanted, Doubles

LEMMA OneState ==
  ASSUME TypeOK, NEW c \in Calls, NEW p, pc' = [pc EXCEPT ![c] = p]
  PROVE  States' = [States EXCEPT ![c] = Progress(c)']
BY DEF States, Progress, TypeOK

LEMMA StaysOpen ==
  ASSUME TypeOK, NEW c \in Calls, NEW p, pc' = [pc EXCEPT ![c] = p],
         pc[c] \notin {"ready", "done"}, p \notin {"ready", "done"}
  PROVE  States' = States
BY DEF States, Progress, TypeOK

LEMMA AnswerEnds ==
  ASSUME TypeOK, NEW c \in Calls, NEW text, Answer(c, text),
         pc[c] \notin {"ready", "done"}
  PROVE  Store!End(c, text)
<1>1. States' = [States EXCEPT ![c] = "ended"] /\ States[c] = "open"
  BY OneState DEF Answer, Progress, States, TypeOK
<1>. QED
  BY <1>1 DEF Store!End, States, Answer

\* A failure is counted, and stays so.
LEMMA FailuresStay ==
  ASSUME TypeOK, [Next]_vars
  PROVE  (faults > 0 => faults' > 0) /\ (Fault => faults' > 0)
BY FaultsAreCounted DEF Fault, TypeOK

LEMMA ErrorRefines ==
  ASSUME TypeOK, [Next]_vars, NEW c \in Calls, Answer(c, "error"),
         pc[c] \notin {"ready", "done"}, db' = db,
         UNCHANGED <<body, parsed, dups>>
  PROVE  Store!TurnDown(c)
<1>1. Wanted' = Wanted /\ Doubles' = Doubles /\ Stored' = Stored
  BY SameWanted DEF Stored
<1>2. Store!End(c, "error") /\ Store!MayFail
  BY AnswerEnds, FailuresStay DEF Store!MayFail
<1>. QED
  BY <1>1, <1>2 DEF Store!TurnDown, Wanted, Stored

LEMMA HiddenStep ==
  ASSUME States' = States, db' = db, UNCHANGED <<body, parsed, dups>>,
         UNCHANGED <<reply, faults>>
  PROVE  UNCHANGED Store!vars
<1>1. Wanted' = Wanted /\ Doubles' = Doubles /\ Stored' = Stored
  BY SameWanted DEF Stored
<1>. QED
  BY <1>1 DEF Store!vars, Wanted, Stored, States

LEMMA PushRefines ==
  ASSUME TypeOK, LinesInv, NEW c \in Calls, NEW b \in Bodies, Push(c, b)
  PROVE  Store!Arrive(c)
<1>1. States[c] = "new" /\ States' = [States EXCEPT ![c] = "open"]
  BY OneState DEF Push, Progress, States, TypeOK
<1>2. parsed[c] = {} /\ parsed' = parsed /\ dups' = dups
  BY DEF Push, LinesInv
<1>3. Wanted' = Wanted /\ Doubles' = Doubles
  <2>1. New(c)' = New(c) /\ c \notin Doubles /\ c \notin Doubles'
    BY <1>2 DEF New, On, Batch, Doubles
  <2>2. \A d \in Calls \ {c} : body'[d] = body[d]
    BY DEF Push, TypeOK
  <2>. QED
    BY <1>2, <2>1, <2>2, OneWanted DEF Wanted, Doubles
<1>. QED
  BY <1>1, <1>3 DEF Push, Store!Arrive, States, Wanted

LEMMA GoesOn ==
  ASSUME TypeOK, [Next]_vars, States' = States, db' = db, Fault,
         UNCHANGED <<body, parsed, dups, reply>>
  PROVE  Store!GoOn
<1>1. Wanted' = Wanted /\ Doubles' = Doubles /\ Stored' = Stored
  BY SameWanted DEF Stored
<1>2. faults' > 0
  BY FailuresStay
<1>. QED
  BY <1>1, <1>2 DEF Store!GoOn, Wanted, Stored, States

LEMMA LoadRefines ==
  ASSUME TypeOK, [Next]_vars, NEW c \in Calls, Load(c)
  PROVE  Store!TurnDown(c) \/ Store!GoOn \/ UNCHANGED Store!vars
<1>1. /\ pc[c] = "load" /\ db' = db /\ UNCHANGED <<body, parsed, dups>>
      /\ faults' = faults \/ Fault
  BY LoadDoes
<1>2. CASE Answer(c, "error")
  BY <1>1, <1>2, ErrorRefines
<1>3. CASE pc' = [pc EXCEPT ![c] = "parse"] /\ UNCHANGED reply
  <2>1. States' = States
    BY <1>1, <1>3, StaysOpen
  <2>. QED
    BY <1>1, <1>3, <2>1, HiddenStep, GoesOn
<1>. QED
  BY <1>2, <1>3, LoadDoes

\* What is accepted is wanted from then on.
LEMMA ParseRefines ==
  ASSUME TypeOK, LinesInv, [Next]_vars, NEW c \in Calls, Parse(c)
  PROVE  Store!TurnDown(c) \/ \E S \in SUBSET Txs : Store!Accept(c, S)
<1>1. parsed[c] = {} /\ dups[c] = {} /\ UNCHANGED <<db, body, dups, faults>>
  BY DEF Parse, LinesInv
<1>2. CASE parsed' = [parsed EXCEPT ![c] = {}] /\ Answer(c, "error")
  <2>1. parsed' = parsed
    BY <1>1, <1>2 DEF TypeOK
  <2>. QED
    BY <1>1, <1>2, <2>1, ErrorRefines DEF Parse
<1>3. CASE /\ parsed'[c] # {} /\ pc' = [pc EXCEPT ![c] = "check"]
           /\ UNCHANGED reply
  <2>1. States[c] = "open" /\ States' = States
    BY <1>3, StaysOpen DEF Parse, States, Progress
  <2>2. \A d \in Calls \ {c} : parsed'[d] = parsed[d]
    BY DEF Parse, TypeOK
  <2>3. /\ Wanted' = [Wanted EXCEPT ![c] = New(c)']
        /\ Doubles' \ {c} = Doubles \ {c}
    BY <1>1, <2>2, OneWanted
  <2>4. New(c) = {} /\ c \notin Doubles
    BY <1>1 DEF New, On, Batch, Doubles
  <2>5. New(c)' \in SUBSET Txs /\ New(c)' # {}
    <3>1. PICK i \in parsed'[c] : body[c][i] \in Txs
      BY <1>3 DEF Parse, TypeOK
    <3>. QED
      BY <1>1, <3>1 DEF New, On, Batch
  <2>6. Doubles' = Doubles \/ Doubles' = Doubles \cup {c}
    BY <2>3, <2>4
  <2>7. Store!Accept(c, New(c)')
    BY <1>1, <1>3, <2>1, <2>3, <2>4, <2>5, <2>6
       DEF Store!Accept, States, Wanted, Stored
  <2>. QED
    BY <2>5, <2>7
<1>. QED
  BY <1>2, <1>3 DEF Parse, TypeOK

\* What is found stored is wanted no longer; all that is stored is found, unless
\* the query fails.
LEMMA CheckRefines ==
  ASSUME TypeOK, LinesInv, TablesAgree, [Next]_vars, NEW c \in Calls, Check(c)
  PROVE  \/ Store!TurnDown(c) \/ Store!AlreadyPresent(c) \/ Store!Look(c)
         \/ UNCHANGED Store!vars
<1>1. /\ parsed[c] # {} /\ dups[c] = {} /\ UNCHANGED <<db, body, parsed>>
      /\ pc[c] = "check"
  BY CheckDoes DEF LinesInv
<1>2. New(c) = Brought(c) /\ New(c) # {}
  BY <1>1 DEF New, Brought, Batch, On, TypeOK
<1>3. CASE dups' = dups /\ Answer(c, "error")
  BY <1>1, <1>3, ErrorRefines
<1>4. ASSUME NEW found, Sees(c, found)
      PROVE  Store!AlreadyPresent(c) \/ Store!Look(c)
  <2>1. /\ \A d \in Calls \ {c} : dups'[d] = dups[d]
        /\ dups'[c] = found /\ found \subseteq Brought(c) \cap db.tx
    BY <1>4 DEF Sees, TypeOK
  <2>2. New(c)' = New(c) \ found
    BY <1>1, <1>2, <2>1 DEF New, Brought, Batch, On
  <2>3. Wanted' = [Wanted EXCEPT ![c] = New(c)'] /\ Doubles' = Doubles
    BY <1>1, <2>1, OneWanted DEF Doubles
  <2>4. Stored = db.tx /\ Stored' = Stored /\ Wanted[c] = Brought(c)
    BY <1>1, <1>2, StoredIsAll DEF Stored, Wanted
  <2>5. CASE Brought(c) \subseteq found /\ Answer(c, "already present")
    <3>1. Store!End(c, "already present")
      BY <1>1, <2>5, AnswerEnds
    <3>2. /\ Wanted[c] # {} /\ Wanted[c] \subseteq Stored /\ New(c)' = {}
          /\ faults' = faults
      BY <1>2, <1>4, <2>1, <2>2, <2>4, <2>5 DEF Sees
    <3>3. Wanted' = [Wanted EXCEPT ![c] = {}]
      BY <2>3, <3>2
    <3>. QED
      BY <2>3, <2>4, <3>1, <3>2, <3>3 DEF Store!AlreadyPresent, Wanted, Stored
  <2>6. CASE /\ ~(Brought(c) \subseteq found)
             /\ pc' = [pc EXCEPT ![c] = "begin"] /\ UNCHANGED reply
    <3>1. States' = States /\ States[c] = "open"
      BY <1>1, <2>6, StaysOpen DEF States, Progress
    <3>2. /\ found \in SUBSET (Wanted[c] \cap Stored) /\ found # Wanted[c]
          /\ Wanted' = [Wanted EXCEPT ![c] = @ \ found]
      BY <1>2, <2>1, <2>2, <2>3, <2>4, <2>6 DEF Wanted
    <3>3. IF found = Wanted[c] \cap Stored THEN faults' = faults ELSE faults' > 0
      BY <1>4, <2>4, FailuresStay DEF Sees
    <3>. QED
      BY <2>3, <2>4, <2>6, <3>1, <3>2, <3>3
         DEF Store!Look, Wanted, Stored, States
  <2>. QED
    BY <1>4, <2>5, <2>6 DEF Sees
<1>. QED
  BY <1>3, <1>4, CheckDoes

\* A request that is thanked for what is not stored has had a conflict.
LEMMA DropRefines ==
  ASSUME TypeOK, NewInv, TablesAgree, [Next]_vars, NEW c \in Calls,
         pc[c] \in InTx, Answer(c, "thx"), db' = db,
         UNCHANGED <<body, parsed, dups>>,
         Fault \/ c \in Doubles \/ New(c) \cap db.tx # {}
  PROVE  Store!Drop(c)
<1>1. Wanted' = Wanted /\ Doubles' = Doubles /\ Stored' = Stored
  BY SameWanted DEF Stored
<1>2. Stored = db.tx /\ Wanted[c] = New(c) /\ New(c) # {}
  BY StoredIsAll DEF Wanted, NewInv, InTx
<1>3. Store!End(c, "thx") /\ Store!MayFail
  BY AnswerEnds, FailuresStay DEF Store!MayFail, InTx
<1>4. faults' > 0 \/ c \in Doubles \/ Wanted[c] \cap Stored # {}
  BY <1>2, FailuresStay
<1>. QED
  BY <1>1, <1>2, <1>3, <1>4 DEF Store!Drop, Wanted, Stored

LEMMA InsertTxRefines ==
  ASSUME TypeOK, WorkInv, NewInv, TablesAgree, [Next]_vars,
         NEW c \in Calls, InsertTx(c)
  PROVE  Store!TurnDown(c) \/ Store!Drop(c) \/ UNCHANGED Store!vars
<1>1. /\ pc[c] = "tx" /\ pc[c] \in InTx /\ work = db /\ db' = db
      /\ UNCHANGED <<body, parsed, dups>>
  BY DEF InsertTx, InTx, WorkInv, Rollback
<1>2. CASE Answer(c, "error")
  BY <1>1, <1>2, ErrorRefines
<1>3. CASE Answer(c, "thx") /\ (Conflict(c) \/ Fault)
  <2>1. Conflict(c) => c \in Doubles \/ New(c) \cap db.tx # {}
    BY <1>1 DEF Conflict, Doubles, New, On, Batch, TypeOK
  <2>. QED
    BY <1>1, <1>3, <2>1, DropRefines
<1>4. CASE pc' = [pc EXCEPT ![c] = "inp"] /\ UNCHANGED <<reply, faults>>
  <2>1. States' = States
    BY <1>1, <1>4, StaysOpen
  <2>. QED
    BY <1>1, <1>4, <2>1, HiddenStep
<1>. QED
  BY <1>2, <1>3, <1>4 DEF InsertTx

LEMMA InsertRefines ==
  ASSUME TypeOK, [Next]_vars, NEW c \in Calls,
         Begin(c) \/ InsertInp(c) \/ InsertOut(c)
  PROVE  Store!TurnDown(c) \/ UNCHANGED Store!vars
<1>1. /\ pc[c] \in {"begin", "inp", "out"} /\ db' = db
      /\ UNCHANGED <<body, parsed, dups>>
  BY DEF Begin, InsertInp, InsertOut, Rollback
<1>2. CASE Answer(c, "error")
  BY <1>1, <1>2, ErrorRefines
<1>3. CASE /\ \E p \in {"tx", "out", "commit"} : pc' = [pc EXCEPT ![c] = p]
           /\ UNCHANGED <<reply, faults>>
  <2>1. States' = States
    BY <1>1, <1>3, StaysOpen
  <2>. QED
    BY <1>1, <1>3, <2>1, HiddenStep
<1>. QED
  BY <1>2, <1>3 DEF Begin, InsertInp, InsertOut

\* COMMIT stores all that is wanted, or, if it fails, nothing.
LEMMA CommitRefines ==
  ASSUME PushInv, TablesAgree', [Next]_vars, NEW c \in Calls, Commit(c)
  PROVE  Store!Store(c) \/ Store!Drop(c)
<1>. USE DEF PushInv
<1>1. /\ pc[c] = "commit" /\ pc[c] \in InTx /\ Answer(c, "thx")
      /\ UNCHANGED <<body, parsed, dups>>
  BY DEF Commit, InTx
<1>2. CASE db' = db /\ Fault
  BY <1>1, <1>2, DropRefines
<1>3. CASE db' = work /\ UNCHANGED faults
  <2>1. /\ New(c) \cap db.tx = {} /\ db'.tx = db.tx \cup New(c)
        /\ db' \in Tables
    BY <1>3, CommitStores DEF TypeOK
  <2>2. Stored = db.tx /\ Stored' = db'.tx
    BY <2>1, StoredIsAll DEF Stored, TablesAgree, Tables
  <2>3. Wanted' = Wanted /\ Doubles' = Doubles /\ Wanted[c] = New(c)
    BY <1>1, SameWanted DEF Wanted
  <2>4. Store!End(c, "thx") /\ New(c) # {}
    BY <1>1, AnswerEnds DEF NewInv
  <2>. QED
    BY <1>3, <2>1, <2>2, <2>3, <2>4 DEF Store!Store, Stored, Wanted
<1>. QED
  BY <1>2, <1>3 DEF Commit, Rollback

LEMMA CrashRefines ==
  ASSUME TypeOK, Crash
  PROVE  Store!CutOff
<1>1. States' = [c \in Calls |-> IF States[c] = "new" THEN "new" ELSE "ended"]
  BY DEF Crash, States, Progress, TypeOK
<1>2. Wanted' = Wanted /\ Doubles' = Doubles /\ Stored' = Stored
  BY SameWanted DEF Crash, Stored
<1>3. faults' > 0
  BY DEF Crash, Fault, TypeOK
<1>. QED
  BY <1>1, <1>2, <1>3 DEF Crash, Store!CutOff, States, Wanted, Stored

LEMMA InitStore == Init => Store!Init
<1>. SUFFICES ASSUME Init PROVE Store!Init
  OBVIOUS
<1>1. Stored = {} /\ Doubles = {}
  BY DEF Init, Stored, Doubles, NoRows
<1>2. States = [c \in Calls |-> "new"] /\ Wanted = [c \in Calls |-> {}]
  BY DEF Init, States, Progress, Wanted, New, On, Batch
<1>. QED
  BY <1>1, <1>2 DEF Init, Store!Init, Stored, States, Wanted

LEMMA NextStore ==
  ASSUME PushInv, PushInv', [Next]_vars
  PROVE  [Store!Next]_(Store!vars)
<1>. USE DEF PushInv
<1>1. ASSUME NEW c \in Calls, NEW b \in Bodies, Push(c, b)
      PROVE  Store!Next
  BY <1>1, PushRefines DEF Store!Next
<1>2. ASSUME NEW c \in Calls, Load(c) \/ Parse(c) \/ Check(c)
      PROVE  [Store!Next]_(Store!vars)
  BY <1>2, LoadRefines, ParseRefines, CheckRefines DEF Store!Next
<1>3. ASSUME NEW c \in Calls, Begin(c) \/ InsertInp(c) \/ InsertOut(c)
      PROVE  [Store!Next]_(Store!vars)
  BY <1>3, InsertRefines DEF Store!Next
<1>4. ASSUME NEW c \in Calls, InsertTx(c) \/ Commit(c)
      PROVE  [Store!Next]_(Store!vars)
  BY <1>4, InsertTxRefines, CommitRefines DEF Store!Next
<1>5. CASE Crash
  BY <1>5, CrashRefines DEF Store!Next
<1>6. CASE UNCHANGED <<db, pc, body, parsed, dups, reply, faults>>
  BY <1>6, HiddenStep DEF States, Progress
<1>. QED
  BY <1>1, <1>2, <1>3, <1>4, <1>5, <1>6 DEF Next, Step, SaveAddress, vars

\* Each request is one atomic step on the set of stored transactions, whatever
\* requests run between its three locks and whatever fails (bal-server.rs
\* 614-830, db.rs 280-392).
THEOREM RequestsAreAtomic == Spec => ImplementsTxStore
<1>1. PushInv /\ [Next]_vars => [Store!Next]_(Store!vars)
  BY NextPush, NextStore
<1>. QED
  BY <1>1, InitStore, PushInvariance, PTL
     DEF Spec, ImplementsTxStore, Store!Spec
=============================================================================
