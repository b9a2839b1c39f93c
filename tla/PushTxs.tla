------------------------------- MODULE PushTxs -------------------------------
(***************************************************************************)
(* POST /{network}/pushtxs (echo_push in bin/bal-server.rs): concurrent    *)
(* requests of one network that store transactions.  A request takes the   *)
(* mutex around the one database connection three times: to load the       *)
(* addresses it accepts, to look for transactions already stored, and to   *)
(* insert the others (execute_insert in db.rs).  In between other requests *)
(* run.  A request is a value of Calls and is used once: a client that     *)
(* tries again makes another call.                                         *)
(*                                                                         *)
(* A definition whose comment begins with "Bug:" is a plausible mistake in *)
(* the definition after it; no action uses it.                             *)
(***************************************************************************)
EXTENDS Integers, FiniteSets

CONSTANTS
  Calls,       \* the requests of a behaviour
  NoCall,      \* no request
  Txs,         \* transactions
  Junk,        \* a line that is no transaction (not hex, not decodable)
  Bodies,      \* request bodies: functions from line numbers to lines
  Pays,        \* the address an output of a transaction pays ...
  Fee,         \* ... and how much
  XPub,        \* the network is configured with an xpub, not with an address
  OurAddress,  \* that address
  FixedFee,    \* fixed_fee of the network
  MaxTerms,    \* most terms SQLite takes in a compound SELECT
  MaxFaults    \* database errors and crashes of the server in a behaviour

ASSUME CallsAssumption  == NoCall \notin Calls
ASSUME BodiesAssumption ==
  \A b \in Bodies :
    DOMAIN b \subseteq Nat /\ \A i \in DOMAIN b : b[i] \in Txs \cup {Junk}
ASSUME FeeAssumption ==
  Fee \in [Txs -> Nat] /\ FixedFee \in Nat /\ XPub \in BOOLEAN
ASSUME JunkAssumption   == Junk \notin Txs
ASSUME LimitAssumption  == MaxTerms \in Nat /\ MaxFaults \in Nat

VARIABLES
  db,       \* the committed rows: [tx: set of txids, inp and out: how many
            \* times the rows of each transaction are in tbl_inp and tbl_out]
  work,     \* the same as the open transaction sees them
  lock,     \* the call that holds the mutex
  known,    \* tbl_address: the addresses of the network's xpub
  pc,       \* where each call is
  body,     \* its lines
  addrs,    \* known_addresses, as loaded
  parsed,   \* the numbers of the lines that were accepted
  dups,     \* duplicates, as found
  reply,
  faults

vars == <<db, work, lock, known, pc, body, addrs, parsed, dups, reply, faults>>

Addresses == {Pays[t] : t \in Txs} \cup {OurAddress}
Replies   == {"none", "error", "already present", "thx"}
Phases    == {"ready", "load", "parse", "check", "begin", "tx", "inp", "out",
              "commit", "done"}
Tables    == [tx : SUBSET Txs, inp : [Txs -> Nat], out : [Txs -> Nat]]

NoRows == [tx |-> {}, inp |-> [t \in Txs |-> 0], out |-> [t \in Txs |-> 0]]

Fault == faults < MaxFaults /\ faults' = faults + 1

Init ==
  /\ db = NoRows /\ work = NoRows
  /\ lock = NoCall
  /\ known = {}
  /\ pc = [c \in Calls |-> "ready"]
  /\ body = [c \in Calls |-> <<>>]
  /\ addrs = [c \in Calls |-> {}]
  /\ parsed = [c \in Calls |-> {}]
  /\ dups = [c \in Calls |-> {}]
  /\ reply = [c \in Calls |-> "none"]
  /\ faults = 0

-----------------------------------------------------------------------------
(* The surroundings *)

\* /info derives an address for a client and saves it.
SaveAddress(a) ==
  /\ a \notin known
  /\ known' = known \cup {a}
  /\ UNCHANGED <<db, work, lock, pc, body, addrs, parsed, dups, reply, faults>>

\* The server dies and restarts: requests are cut off, SQLite rolls back.
Crash ==
  /\ Fault
  /\ work' = db
  /\ lock' = NoCall
  /\ pc' = [c \in Calls |-> IF pc[c] = "ready" THEN "ready" ELSE "done"]
  /\ UNCHANGED <<db, known, body, addrs, parsed, dups, reply>>

-----------------------------------------------------------------------------
(* The handler *)

\* A request for an enabled network, in UTF-8 (the others end here).
Push(c, b) ==
  /\ pc[c] = "ready"
  /\ body' = [body EXCEPT ![c] = b]
  /\ pc' = [pc EXCEPT ![c] = "load"]
  /\ UNCHANGED <<db, work, lock, known, addrs, parsed, dups, reply, faults>>

\* Bug: an early return keeps the mutex.
AnswerLocked(c, text) ==
  /\ reply' = [reply EXCEPT ![c] = text]
  /\ pc' = [pc EXCEPT ![c] = "done"]
  /\ UNCHANGED lock

\* The call answers; if it held the mutex it gives it back.
Answer(c, text) ==
  /\ reply' = [reply EXCEPT ![c] = text]
  /\ pc' = [pc EXCEPT ![c] = "done"]
  /\ lock' = IF lock = c THEN NoCall ELSE lock

\* get_all_addresses_by_xpub, which is asked of an xpub only.
Loadable == IF XPub THEN known ELSE {}

\* Phase 1, under the mutex.  A query that cannot be prepared answers "error",
\* but one that fails at a row ends there, and the request goes on with the
\* addresses it has read.
Load(c) ==
  /\ pc[c] = "load"
  /\ lock = NoCall
  /\ \/ /\ \E read \in SUBSET Loadable :
             /\ addrs' = [addrs EXCEPT ![c] = read]
             /\ IF read = Loadable THEN UNCHANGED faults ELSE Fault
        /\ pc' = [pc EXCEPT ![c] = "parse"]
        /\ UNCHANGED <<lock, reply>>
     \/ XPub /\ Fault /\ Answer(c, "error") /\ UNCHANGED addrs
  /\ UNCHANGED <<db, work, known, body, parsed, dups>>

\* The addresses to pay: those loaded of the xpub, or the configured one.
Mine(book) == IF XPub THEN book ELSE {OurAddress}

\* Bug: the fee is not looked at.
OursAnyFee(t, mine) == Pays[t] \in mine

\* parse_request_transactions keeps a transaction that pays one of our
\* addresses the fee; with a fee of zero it keeps every transaction.
Ours(t, mine) == FixedFee = 0 \/ (Pays[t] \in mine /\ Fee[t] >= FixedFee)

\* Bug: a line that cannot be decoded is not skipped.
ParseJunk(c) ==
  /\ pc[c] = "parse"
  /\ parsed' = [parsed EXCEPT ![c] = DOMAIN body[c]]
  /\ pc' = [pc EXCEPT ![c] = "check"]
  /\ UNCHANGED <<db, work, lock, known, body, addrs, dups, reply, faults>>

Parse(c) ==
  /\ pc[c] = "parse"
  /\ LET kept == {i \in DOMAIN body[c] :
                    body[c][i] \in Txs /\ Ours(body[c][i], Mine(addrs[c]))}
     IN  /\ parsed' = [parsed EXCEPT ![c] = kept]
         /\ IF kept = {}
            THEN Answer(c, "error")
            ELSE pc' = [pc EXCEPT ![c] = "check"] /\ UNCHANGED <<lock, reply>>
  /\ UNCHANGED <<db, work, known, body, addrs, dups, faults>>

\* The transactions the request brings, and those of its lines to be inserted.
On(c, lines) == {t \in Txs : \E i \in lines : body[c][i] = t}
Brought(c)   == On(c, parsed[c])

\* Bug: the loop over the lines ends at a duplicate instead of skipping it.
BatchToDuplicate(c) ==
  {i \in parsed[c] : \A j \in parsed[c] : j <= i => body[c][j] \notin dups[c]}

Batch(c)     == {i \in parsed[c] : body[c][i] \notin dups[c]}
New(c)       == On(c, Batch(c))

\* Bug: all_present is computed with any instead of all.
AllPresentAny(c, found) == Brought(c) \cap found # {}

AllPresent(c, found) == Brought(c) \subseteq found

\* Phase 2, under the mutex.  Here too a query that fails at a row has found
\* what it found before.
Check(c) ==
  /\ pc[c] = "check"
  /\ lock = NoCall
  /\ \/ \E found \in SUBSET (Brought(c) \cap db.tx) :
          /\ IF found = Brought(c) \cap db.tx THEN UNCHANGED faults ELSE Fault
          /\ dups' = [dups EXCEPT ![c] = found]
          /\ IF AllPresent(c, found)
             THEN Answer(c, "already present")
             ELSE pc' = [pc EXCEPT ![c] = "begin"] /\ UNCHANGED <<lock, reply>>
     \/ Fault /\ Answer(c, "error") /\ UNCHANGED dups
  /\ UNCHANGED <<db, work, known, body, addrs, parsed>>

\* Phase 3 takes the mutex and keeps it to the end; BEGIN TRANSACTION.
Begin(c) ==
  /\ pc[c] = "begin"
  /\ lock = NoCall
  /\ lock' = c
  /\ work' = db
  /\ pc' = [pc EXCEPT ![c] = "tx"]
  /\ UNCHANGED <<db, known, body, addrs, parsed, dups, reply, faults>>

\* Bug: the error path returns without the ROLLBACK, and the connection's next
\* COMMIT stores what is there.
RollbackForgotten == db' = work /\ work' = work

Rollback == work' = db /\ UNCHANGED db

\* One transaction twice, or one stored since the check: txid is PRIMARY KEY.
Conflict(c) ==
  \/ \E i, j \in Batch(c) : i # j /\ body[c][i] = body[c][j]
  \/ \E i \in Batch(c) : body[c][i] \in work.tx

\* The INSERT into tbl_tx.  prepare refuses a statement of too many terms; an
\* error of next() rolls back, but falls through to COMMIT and Ok(()).
InsertTx(c) ==
  /\ pc[c] = "tx"
  /\ \/ /\ Cardinality(Batch(c)) > MaxTerms
        /\ Rollback /\ Answer(c, "error")
        /\ UNCHANGED faults
     \/ /\ Cardinality(Batch(c)) <= MaxTerms
        /\ IF Conflict(c) THEN UNCHANGED faults ELSE Fault
        /\ Rollback /\ Answer(c, "thx")
     \/ /\ Cardinality(Batch(c)) <= MaxTerms
        /\ ~Conflict(c)
        /\ work' = [work EXCEPT !.tx = @ \cup New(c)]
        /\ pc' = [pc EXCEPT ![c] = "inp"]
        /\ UNCHANGED <<db, lock, reply, faults>>
  /\ UNCHANGED <<known, body, addrs, parsed, dups>>

\* Bug: the rows of every accepted line are built, duplicates included.
AddRowsOfAll(rows, c) ==
  [t \in Txs |-> IF t \in Brought(c) THEN rows[t] + 1 ELSE rows[t]]

\* The rows of a batch that has passed the PRIMARY KEY, once per transaction.
AddRows(rows, c) ==
  [t \in Txs |-> IF t \in New(c) THEN rows[t] + 1 ELSE rows[t]]

\* The INSERT into tbl_inp; it has no working UNIQUE index.  How many inputs a
\* transaction has is left out, so any batch may have too many terms, or fail.
InsertInp(c) ==
  /\ pc[c] = "inp"
  /\ \/ /\ work' = [work EXCEPT !.inp = AddRows(@, c)]
        /\ pc' = [pc EXCEPT ![c] = "out"]
        /\ UNCHANGED <<db, lock, reply, faults>>
     \/ Rollback /\ Answer(c, "error") /\ UNCHANGED faults
  /\ UNCHANGED <<known, body, addrs, parsed, dups>>

\* The same of tbl_out.
InsertOut(c) ==
  /\ pc[c] = "out"
  /\ \/ /\ work' = [work EXCEPT !.out = AddRows(@, c)]
        /\ pc' = [pc EXCEPT ![c] = "commit"]
        /\ UNCHANGED <<db, lock, reply, faults>>
     \/ Rollback /\ Answer(c, "error") /\ UNCHANGED faults
  /\ UNCHANGED <<known, body, addrs, parsed, dups>>

\* Bug: the COMMIT at the end is forgotten.
CommitForgotten(c) ==
  /\ pc[c] = "commit"
  /\ Rollback
  /\ Answer(c, "thx")
  /\ UNCHANGED <<known, body, addrs, parsed, dups, faults>>

\* COMMIT, whose result is ignored: the disk may be full.
Commit(c) ==
  /\ pc[c] = "commit"
  /\ \/ db' = work /\ UNCHANGED <<work, faults>>
     \/ Fault /\ Rollback
  /\ Answer(c, "thx")
  /\ UNCHANGED <<known, body, addrs, parsed, dups>>

-----------------------------------------------------------------------------
Step(c) ==
  \/ Load(c) \/ Parse(c) \/ Check(c) \/ Begin(c)
  \/ InsertTx(c) \/ InsertInp(c) \/ InsertOut(c) \/ Commit(c)

Next ==
  \/ \E a \in Addresses : SaveAddress(a)
  \/ Crash
  \/ \E c \in Calls : Step(c) \/ \E b \in Bodies : Push(c, b)

Spec == Init /\ [][Next]_vars

\* Each worker thread goes on; calls being finitely many, none starves.
FairSpec == Spec /\ \A c \in Calls : WF_vars(Step(c))

-----------------------------------------------------------------------------
(* Properties *)

\* Every variable keeps to its type; what was parsed is a transaction.
TypeOK ==
  /\ db \in Tables /\ work \in Tables
  /\ lock \in Calls \cup {NoCall}
  /\ known \subseteq Addresses
  /\ pc \in [Calls -> Phases]
  /\ body \in [Calls -> Bodies \cup {<<>>}]
  /\ addrs \in [Calls -> SUBSET Addresses]
  /\ parsed \in [Calls -> SUBSET Nat]
  /\ \A c \in Calls : \A i \in parsed[c] : body[c][i] \in Txs
  /\ dups \in [Calls -> SUBSET Txs]
  /\ reply \in [Calls -> Replies]
  /\ faults \in Nat

\* The three tables always agree: a transaction has its rows in tbl_inp and
\* tbl_out exactly once if it has one in tbl_tx and not at all otherwise,
\* although nothing but the transaction of execute_insert keeps them together
\* (the UNIQUE indexes of create_database, 156 and 160, do not exist).
TablesAgree ==
  \A t \in Txs :
    LET n == IF t \in db.tx THEN 1 ELSE 0
    IN  db.inp[t] = n /\ db.out[t] = n

\* Who is told "already present" has every transaction stored, even though the
\* check and the answer are not one step with what other requests do.
PresentIsStored ==
  \A c \in Calls : reply[c] = "already present" => Brought(c) \subseteq db.tx

\* "thx" is no promise that the batch is stored (see ThxMeansStored), but when
\* nothing has failed and no line came twice, a part of what was new is stored,
\* by this request or by the one that took its place.
ThxStoredSome ==
  \A c \in Calls :
    /\ reply[c] = "thx" /\ faults = 0
    /\ \A i, j \in parsed[c] : body[c][i] = body[c][j] => i = j
    => (Brought(c) \ dups[c]) \cap db.tx # {}

\* Every stored transaction pays one of our addresses at least the fee, though
\* it was accepted on a copy of the addresses and stored two locks later.
StoredIsPaid ==
  \A t \in db.tx :
    FixedFee = 0 \/ (Pays[t] \in Mine(known) /\ Fee[t] >= FixedFee)

(* The inductive invariant behind them *)

\* Lines are accepted once, and then there are some until the call is answered.
LinesInv ==
  \A c \in Calls :
    /\ pc[c] \in {"ready", "load", "parse"} => parsed[c] = {} /\ dups[c] = {}
    /\ pc[c] = "check" => parsed[c] # {} /\ dups[c] = {}

OneMore(rows, more, S) ==
  \A t \in Txs : more[t] = IF t \in S THEN rows[t] + 1 ELSE rows[t]

\* The mutex is held exactly during phase 3, and then by one request.
LockInv ==
  /\ \A c \in Calls : pc[c] \in {"tx", "inp", "out", "commit"} <=> lock = c
  /\ lock = NoCall => work = db

\* How far the open transaction has got at each step of execute_insert.
WorkInv ==
  \A c \in Calls :
    /\ pc[c] = "tx" => work = db
    /\ pc[c] \in {"inp", "out", "commit"} =>
         New(c) \cap db.tx = {} /\ work.tx = db.tx \cup New(c)
    /\ pc[c] = "inp" => work.inp = db.inp /\ work.out = db.out
    /\ pc[c] = "out" => OneMore(db.inp, work.inp, New(c)) /\ work.out = db.out
    /\ pc[c] = "commit" => /\ OneMore(db.inp, work.inp, New(c))
                            /\ OneMore(db.out, work.out, New(c))

\* What a request has loaded or decided stays true: addresses are not removed.
PaidInv ==
  \A c \in Calls :
    /\ addrs[c] \subseteq known
    /\ \A i \in parsed[c] : Ours(body[c][i], Mine(known))

\* A call is answered at its end.
AnsweredInv == \A c \in Calls : reply[c] # "none" => pc[c] = "done"

\* A call that has passed the check brings something new.
NewInv ==
  \A c \in Calls :
    pc[c] \in {"begin", "tx", "inp", "out", "commit"} => New(c) # {}

PushInv ==
  /\ TypeOK /\ LockInv /\ WorkInv /\ PaidInv /\ LinesInv /\ AnsweredInv
  /\ NewInv
  /\ TablesAgree /\ PresentIsStored /\ ThxStoredSome /\ StoredIsPaid

(* What the handler promises *)

\* How far a request is, as its client may know.
Progress(c) ==
  IF pc[c] = "ready" THEN "new" ELSE IF pc[c] = "done" THEN "ended" ELSE "open"

Doubles == {c \in Calls : \E i, j \in parsed[c] :
              i # j /\ body[c][i] = body[c][j]}

Store == INSTANCE TxStore
           WITH stored <- {t \in db.tx : db.inp[t] = 1 /\ db.out[t] = 1},
                request <- [c \in Calls |-> Progress(c)],
                wanted <- [c \in Calls |-> New(c)],
                twice <- Doubles, answer <- reply, failed <- faults > 0

\* Requests are atomic, though each takes the mutex three times and others run
\* in between: it stores all it found new, with all rows and in one step, or
\* nothing, and loses what it was thanked for only to a failure, to a line that
\* came twice or to a request that was faster, also when a query it decides by
\* was cut short (bal-server.rs 614-830, db.rs 11-38).
ImplementsTxStore == Store!Spec

\* What the page says of the answer "thx" (index.html 1634-1635): "Transaction
\* accepted and stored."
ThxMeansStored ==
  \A c \in Calls : reply[c] = "thx" => Brought(c) \subseteq db.tx

\* Every request is answered or cut off, and none waits for the mutex for ever:
\* again and again a moment comes when none is under way.  (Requests being
\* finitely many, that is when each has ended.)
Answered == []<>(\A c \in Calls : pc[c] \in {"ready", "done"})
=============================================================================
