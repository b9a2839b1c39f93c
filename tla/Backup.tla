------------------------------- MODULE Backup -------------------------------
(***************************************************************************)
(* Snapshots of the database and their way back into it (umbrel_api.rs):   *)
(* the thread that writes bal-YYYYMMDD.db every week and keeps the newest  *)
(* ones, POST /restore of such a file and POST /merge of an uploaded one,  *)
(* while the server stores transactions and the pusher moves their rows on.*)
(* A merge is one SQLite transaction; a restore finds its file first and   *)
(* attaches it later.  /backup, the download, only reads: what it returns  *)
(* may come back as an upload.  So may what an operator puts into the      *)
(* directory under a name of his own: nothing removes it while it is       *)
(* restored, and it is an upload here.                                     *)
(*                                                                         *)
(* A definition whose comment begins with "Bug:" is a plausible mistake in *)
(* the definition after it; no action uses it.                             *)
(***************************************************************************)
EXTENDS Integers, FiniteSets

CONSTANTS
  Txs,         \* transactions
  Uploads,     \* databases the operator may upload
  Week,        \* AUTO_BACKUP_EVERY_DAYS
  Keep,        \* AUTO_BACKUP_KEEP
  MaxDay,      \* the clock stops there
  MaxMerges,   \* merges and restores begun
  MaxFaults    \* interrupted or failing steps

(* tbl_tx.status *)
Waiting == 0
Sent    == 1
Failed  == 2

\* tbl_tx with its statuses, and how many times the rows of a transaction are
\* in tbl_inp and in tbl_out.
Tables == [tx : SUBSET Txs, status : [Txs -> {Waiting, Sent, Failed}],
           rows : [Txs -> Nat]]

\* Every transaction has its rows, and there are no others.
Sound(tables) == \A t \in Txs : t \in tables.tx <=> tables.rows[t] > 0

NoRows == [tx |-> {}, status |-> [t \in Txs |-> Waiting],
           rows |-> [t \in Txs |-> 0]]

\* A file that holds no database, or a part of one.
Broken == [part |-> TRUE]

\* What a file of the name of a database holds.
Contents == Tables \cup {Broken}

ASSUME UploadsAssumption == \A u \in Uploads : u \in Tables /\ Sound(u)
ASSUME BoundsAssumption  ==
  /\ Week \in Nat \ {0} /\ Keep \in Nat \ {0}
  /\ MaxDay \in Nat /\ MaxMerges \in Nat /\ MaxFaults \in Nat

Days    == 0..MaxDay
NoDay   == -1
TmpFile == -1   \* in the place of a date: bal-YYYYMMDD.db.tmp

VARIABLES
  db,        \* the live tables
  stats,     \* tbl_stats, {} when it has no row
  day,       \* Utc::now().date_naive()
  files,     \* the automatic backups: a function from their dates
  tmp,       \* the .tmp file, and whether there is one
  thread,    \* where the backup thread is
  today,     \* its locals: the date it runs for ...
  excess,    \* ... and the files it is going to remove
  restoring, \* the files that restores have found, by their dates
  merges,
  faults

dbVars     == <<db, stats>>
threadVars == <<tmp, thread, today, excess>>
vars == <<dbVars, day, files, threadVars, restoring, merges, faults>>

Fault == faults < MaxFaults /\ faults' = faults + 1

\* Bug: the INSERT into tbl_stats leaves a column out.
StatsOfNarrow(tables) == [sent |-> {t \in tables.tx : tables.status[t] = Sent}]

StatsOf(tables) == [sent   |-> {t \in tables.tx : tables.status[t] = Sent},
                    failed |-> {t \in tables.tx : tables.status[t] = Failed}]

Init ==
  /\ db = NoRows
  /\ stats = {}
  /\ day = 0
  /\ files = [d \in {} |-> NoRows]
  /\ tmp = {}
  /\ thread = "asleep"
  /\ today = NoDay
  /\ excess = {}
  /\ restoring = {}
  /\ merges = 0
  /\ faults = 0

-----------------------------------------------------------------------------
(* The surroundings *)

Midnight ==
  /\ day < MaxDay
  /\ day' = day + 1
  /\ UNCHANGED <<dbVars, files, threadVars, restoring, merges, faults>>

\* execute_insert, committed: a new transaction and its rows.
Arrive(t) ==
  /\ t \notin db.tx
  /\ db' = [tx     |-> db.tx \cup {t},
            status |-> [db.status EXCEPT ![t] = Waiting],
            rows   |-> [db.rows EXCEPT ![t] = @ + 1]]
  /\ UNCHANGED <<stats, day, files, threadVars, restoring, merges, faults>>

\* The pusher moves a row on (see Pusher: sent, failed, done elsewhere) ...
Settle(t, status) ==
  /\ t \in db.tx
  /\ db.status[t] < status
  /\ db' = [db EXCEPT !.status[t] = status]
  /\ UNCHANGED <<stats, day, files, threadVars, restoring, merges, faults>>

\* ... and writes the statistics of its network.
CalculateStats ==
  /\ stats' \in {{}, {StatsOf(db)}}
  /\ UNCHANGED <<db, day, files, threadVars, restoring, merges, faults>>

-----------------------------------------------------------------------------
(* run_auto_backup *)

\* Bug: the newest are removed, as sorting in the other direction would do.
ExcessNewest(dates) ==
  {d \in dates : Cardinality({e \in dates : e < d}) >= Keep}

\* The dates before the newest Keep of them.
Excess(dates) == {d \in dates : Cardinality({e \in dates : e > d}) >= Keep}

\* Bug: the day the week ends does not count.
DueLate(dates, date) == \A d \in dates : date - d > Week

\* The newest is a week old, or there is none.
Due(dates, date) == \A d \in dates : date - d >= Week

\* The hourly look at the directory.
Check ==
  /\ thread = "asleep"
  /\ Due(DOMAIN files, day)
  /\ thread' = "snapshot"
  /\ today' = day
  /\ excess' = Excess(DOMAIN files \cup {day})
  /\ UNCHANGED <<dbVars, day, files, tmp, restoring, merges, faults>>

Sleep ==
  /\ thread' = "asleep"
  /\ today' = NoDay
  /\ excess' = {}

\* Bug: VACUUM INTO writes to the final name.
SnapshotInPlace ==
  /\ thread = "snapshot"
  /\ \/ /\ files' = [d \in DOMAIN files \cup {today} |-> IF d = today THEN db ELSE files[d]]
        /\ tmp' = {db}
        /\ thread' = "rename"
        /\ UNCHANGED <<today, excess, faults>>
     \/ /\ files' = [d \in DOMAIN files \cup {today} |-> IF d = today THEN Broken ELSE files[d]]
        /\ UNCHANGED tmp
        /\ Fault /\ Sleep
  /\ UNCHANGED <<dbVars, day, restoring, merges>>

\* An old .tmp of the same day is removed (one of another day stays, for nobody
\* but a restore: it is an upload from then on), VACUUM INTO writes a new one;
\* the disk may be full or the process die, and leave a part of it.
Snapshot ==
  /\ thread = "snapshot"
  /\ \/ tmp' = {db} /\ thread' = "rename" /\ UNCHANGED <<today, excess, faults>>
     \/ tmp' = {Broken} /\ Fault /\ Sleep
  /\ UNCHANGED <<dbVars, day, files, restoring, merges>>

Rename ==
  /\ thread = "rename"
  /\ \/ /\ \E content \in tmp :
             files' = [d \in DOMAIN files \cup {today} |->
                         IF d = today THEN content ELSE files[d]]
        /\ tmp' = {}
        /\ thread' = "prune"
        /\ UNCHANGED <<today, excess, faults>>
     \/ Fault /\ Sleep /\ UNCHANGED <<files, tmp>>
  /\ UNCHANGED <<dbVars, day, restoring, merges>>

Without(date) == [d \in DOMAIN files \ {date} |-> files[d]]

\* One file after the other, the oldest first; one that cannot be removed is
\* left alone.
Prune ==
  /\ thread = "prune"
  /\ \E oldest \in excess :
       /\ \A d \in excess : oldest <= d
       /\ excess' = excess \ {oldest}
       /\ \/ files' = Without(oldest) /\ UNCHANGED faults
          \/ UNCHANGED files /\ Fault
  /\ UNCHANGED <<dbVars, day, tmp, thread, today, restoring, merges>>

PruneDone ==
  /\ thread = "prune"
  /\ excess = {}
  /\ Sleep
  /\ UNCHANGED <<dbVars, day, files, tmp, restoring, merges, faults>>

\* The server dies and starts again; its thread begins anew.
Crash ==
  /\ Fault
  /\ thread # "asleep" \/ restoring # {}
  /\ Sleep
  /\ restoring' = {}
  /\ UNCHANGED <<dbVars, day, files, tmp, merges>>

-----------------------------------------------------------------------------
(* merge_from_db *)

\* Bug: INSERT OR REPLACE.
MergedReplacing(src) ==
  [tx     |-> db.tx \cup src.tx,
   status |-> [t \in Txs |-> IF t \in src.tx THEN src.status[t] ELSE db.status[t]],
   rows   |-> [t \in Txs |-> db.rows[t] + src.rows[t]]]

\* INSERT OR IGNORE: tbl_tx has its PRIMARY KEY to go by, while tbl_inp and
\* tbl_out have nothing and take every row.
Merged(src) ==
  [tx     |-> db.tx \cup src.tx,
   status |-> [t \in Txs |-> IF t \in src.tx \ db.tx THEN src.status[t]
                                                     ELSE db.status[t]],
   rows   |-> [t \in Txs |-> db.rows[t] + src.rows[t]]]

\* Bug: no transaction, so that a step that fails leaves the ones before.
MergeFromUnchecked(src) ==
  \/ /\ src # Broken
     /\ db' = Merged(src)
     /\ stats' = {StatsOf(Merged(src))}
     /\ UNCHANGED faults
  \/ /\ IF src = Broken THEN UNCHANGED faults ELSE Fault
     /\ db' = IF src = Broken THEN db ELSE [Merged(src) EXCEPT !.rows = db.rows]
     /\ UNCHANGED stats

\* Bug: the statistics are written outside the transaction.
MergeFromStatsApart(src) ==
  \/ /\ src # Broken
     /\ db' = Merged(src)
     /\ stats' = {StatsOf(Merged(src))}
     /\ UNCHANGED faults
  \/ /\ IF src = Broken THEN UNCHANGED faults ELSE Fault
     /\ stats' = IF src = Broken THEN stats ELSE {StatsOf(Merged(src))}
     /\ UNCHANGED db

\* BEGIN IMMEDIATE to COMMIT, with the statistics; a step that fails rolls
\* back, and so does a file that is no database.
MergeFrom(src) ==
  \/ /\ src # Broken
     /\ db' = Merged(src)
     /\ stats' = {StatsOf(Merged(src))}
     /\ UNCHANGED faults
  \/ /\ IF src = Broken THEN UNCHANGED faults ELSE Fault
     /\ UNCHANGED dbVars

\* POST /merge; what db_has_our_tables turns down changes nothing.
MergeUpload(src) ==
  /\ merges < MaxMerges
  /\ merges' = merges + 1
  /\ MergeFrom(src)
  /\ UNCHANGED <<day, files, threadVars, restoring>>

\* What is in a file of the directory, {} when it is not there; VACUUM INTO may
\* be writing the .tmp file.
Seen(d) ==
  IF d = TmpFile
  THEN tmp \cup {content \in {Broken} : thread = "snapshot"}
  ELSE {files[e] : e \in {d} \cap DOMAIN files}

\* POST /restore/{file}: the file exists ...  (A second restore of the same
\* file at the same time would find and change nothing else.)
FindFile(d) ==
  /\ merges < MaxMerges
  /\ merges' = merges + 1
  /\ Seen(d) # {}
  /\ d \notin restoring
  /\ restoring' = restoring \cup {d}
  /\ UNCHANGED <<dbVars, day, files, threadVars, faults>>

\* ... when it is attached too ...
Restore(d) ==
  /\ d \in restoring
  /\ \E content \in Seen(d) : MergeFrom(content)
  /\ restoring' = restoring \ {d}
  /\ UNCHANGED <<day, files, threadVars, merges>>

\* ... or it was pruned or renamed in between: ATTACH creates an empty file of
\* that name.
RestoreTooLate(d) ==
  /\ d \in restoring
  /\ Seen(d) = {}
  /\ \/ d = TmpFile /\ tmp' = {Broken} /\ UNCHANGED files
     \/ /\ d # TmpFile
        /\ files' = [e \in DOMAIN files \cup {d} |->
                       IF e = d THEN Broken ELSE files[e]]
        /\ UNCHANGED tmp
  /\ restoring' = restoring \ {d}
  /\ UNCHANGED <<dbVars, day, thread, today, excess, merges, faults>>

-----------------------------------------------------------------------------
ThreadStep == Check \/ Snapshot \/ Rename \/ Prune \/ PruneDone

Next ==
  \/ Midnight \/ CalculateStats \/ ThreadStep \/ Crash
  \/ \E t \in Txs : Arrive(t) \/ Settle(t, Sent) \/ Settle(t, Failed)
  \/ \E u \in Uploads : MergeUpload(u)
  \/ \E d \in Days \cup {TmpFile} : FindFile(d) \/ Restore(d) \/ RestoreTooLate(d)

Spec == Init /\ [][Next]_vars

\* The thread is scheduled, and looks again within the hour.
FairSpec == Spec /\ WF_vars(ThreadStep)

-----------------------------------------------------------------------------
(* Properties *)

\* Every variable keeps to its type.
TypeOK ==
  /\ db \in Tables
  /\ stats \subseteq [sent : SUBSET Txs, failed : SUBSET Txs]
  /\ day \in Days
  /\ DOMAIN files \subseteq Days
  /\ files \in [DOMAIN files -> Contents]
  /\ tmp \subseteq Contents
  /\ thread \in {"asleep", "snapshot", "rename", "prune"}
  /\ today \in Days \cup {NoDay}
  /\ excess \subseteq Days
  /\ restoring \subseteq Days \cup {TmpFile}
  /\ merges \in Nat /\ faults \in Nat

\* "Only new transactions are added - existing ones are preserved"
\* (index.html 1160-1161): whatever is merged, and whatever the pusher does
\* meanwhile, a row of tbl_tx stays and its status never goes back.
RowsOnlyAdvance ==
  [][\A t \in db.tx : t \in db'.tx /\ db.status[t] <= db'.status[t]]_vars

\* Every transaction keeps its inputs and outputs, and none are left over,
\* although three INSERTs without a key carry them through every merge.
RowsComplete == Sound(db)

\* What tbl_stats counts as sent or failed has left the state before, whether
\* the pusher or a merge computed it.
StatsNeverAhead ==
  \A s \in stats :
    /\ s.sent \subseteq {t \in db.tx : db.status[t] # Waiting}
    /\ s.failed \subseteq {t \in db.tx : db.status[t] = Failed}

\* A database that holds nothing the live one has not got.
WholeOf(tables) ==
  /\ tables # Broken
  /\ Sound(tables)
  /\ tables.tx \subseteq db.tx
  /\ \A t \in tables.tx : tables.status[t] <= db.status[t]

\* Keep files are newer than the file of a date.
Outdated(date) == Cardinality({e \in DOMAIN files : e > date}) >= Keep

\* The newest Keep files are whole databases that hold nothing the live one
\* has not got: no crash, full disk or restore that comes too late has put
\* another file among them.
NewestWhole == \A d \in DOMAIN files : Outdated(d) \/ WholeOf(files[d])

\* A file goes only when Keep newer ones are there.
NewestStay ==
  [][\A d \in DOMAIN files \ DOMAIN files' : Outdated(d)]_vars

\* However many steps fail, a day without a backup of its last week is
\* followed by one with it: "a backup missed while offline is caught up"
\* (umbrel_api.rs 710).  A thread that is late may date it within the week.
BackedUp ==
  \A d \in Days :
    (day = d /\ \A e \in DOMAIN files : e + Week <= d)
      ~> \E e \in DOMAIN files : e + Week > d
-----------------------------------------------------------------------------
(* The inductive invariant *)

\* The dates of the locals: the thread removes files older than the one it
\* makes, and each has Keep newer ones once that is there.
ExcessInv ==
  /\ (today = NoDay) <=> (thread = "asleep")
  /\ thread = "asleep" => excess = {}
  /\ thread = "prune" => today \in DOMAIN files
  /\ \A d \in excess :
       /\ d < today
       /\ Cardinality({e \in DOMAIN files \cup {today} : e > d}) >= Keep

\* The file about to be renamed is there and whole; the newest are; and a file
\* that a restore has found is gone only if it was outdated.
SnapshotInv ==
  /\ thread = "rename" => tmp # {} /\ \A content \in tmp : WholeOf(content)
  /\ \A content \in tmp : content # Broken => Sound(content)
  /\ \A d \in DOMAIN files : files[d] # Broken => Sound(files[d])
  /\ NewestWhole
  /\ \A d \in restoring \ {TmpFile} : d \in DOMAIN files \/ Outdated(d)

BackupInv == TypeOK /\ RowsComplete /\ ExcessInv /\ SnapshotInv
=============================================================================
