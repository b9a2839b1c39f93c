---------------------------- MODULE BackupProofs ----------------------------
(***************************************************************************)
(* Backup.tla for every set of transactions and uploads, every week and    *)
(* number of files kept, and any number of merges and faults.              *)
(***************************************************************************)
EXTENDS Backup, FiniteSetTheorems, TLAPS

USE UploadsAssumption, BoundsAssumption

\* Nothing is lost from tbl_tx, and no status goes back.
Forward == /\ db.tx \subseteq db'.tx
           /\ \A t \in db.tx : db.status[t] <= db'.status[t]

-----------------------------------------------------------------------------
(* Facts about tables and dates *)

LEMMA BrokenIsNoTables == Broken \notin Tables
<1>1. \A u \in Tables : DOMAIN u = {"tx", "status", "rows"}
  BY DEF Tables
<1>2. DOMAIN Broken = {"part"}
  BY DEF Broken
<1> QED BY <1>1, <1>2

LEMMA WholeIsTables ==
  ASSUME NEW c \in Contents, c # Broken
  PROVE  c \in Tables
  BY DEF Contents

\* A merge yields tables again, with the rows of every transaction, and takes
\* nothing back.
LEMMA MergedTables ==
  ASSUME db \in Tables, Sound(db), NEW src \in Tables, Sound(src)
  PROVE  /\ Merged(src) \in Tables
         /\ Sound(Merged(src))
         /\ db.tx \subseteq Merged(src).tx
         /\ \A t \in db.tx : Merged(src).status[t] = db.status[t]
<1>1. /\ db.tx \subseteq Txs /\ src.tx \subseteq Txs
      /\ \A t \in Txs : /\ db.rows[t] \in Nat /\ src.rows[t] \in Nat
                        /\ db.status[t] \in {Waiting, Sent, Failed}
                        /\ src.status[t] \in {Waiting, Sent, Failed}
  BY DEF Tables
<1>2. /\ Merged(src).tx = db.tx \cup src.tx
      /\ \A t \in Txs : /\ Merged(src).rows[t] = db.rows[t] + src.rows[t]
                        /\ t \in db.tx => Merged(src).status[t] = db.status[t]
  BY DEF Merged
<1>3. Merged(src) \in Tables
  BY <1>1 DEF Merged, Tables
<1>4. Sound(Merged(src))
  BY <1>1, <1>2 DEF Sound
<1> QED BY <1>1, <1>2, <1>3, <1>4

LEMMA StatsType ==
  ASSUME NEW c \in Tables
  PROVE  StatsOf(c) \in [sent : SUBSET Txs, failed : SUBSET Txs]
  BY DEF StatsOf, Tables

\* More dates are more newer ones.
LEMMA MoreDates ==
  ASSUME NEW A \in SUBSET Days, NEW B \in SUBSET Days, A \subseteq B,
         Cardinality(A) >= Keep
  PROVE  Cardinality(B) >= Keep
<1>1. IsFiniteSet(Days)
  BY FS_Interval DEF Days
<1>2. IsFiniteSet(B)
  BY <1>1, FS_Subset
<1>3. Cardinality(A) <= Cardinality(B) /\ IsFiniteSet(A)
  BY <1>2, FS_Subset
<1>4. Cardinality(A) \in Nat /\ Cardinality(B) \in Nat
  BY <1>2, <1>3, FS_CardinalityType
<1> QED BY <1>3, <1>4

\* What was whole stays whole while the tables go forward.
LEMMA StaysWhole ==
  ASSUME db \in Tables, db' \in Tables, Forward, NEW c \in Contents, WholeOf(c)
  PROVE  WholeOf(c)'
<1>1. c \in Tables
  BY WholeIsTables DEF WholeOf
<1>2. /\ c.tx \subseteq db'.tx
      /\ \A t \in c.tx : c.status[t] <= db'.status[t]
  <2>1. c.tx \subseteq db.tx /\ db.tx \subseteq db'.tx
    BY DEF WholeOf, Forward
  <2>2. ASSUME NEW t \in c.tx PROVE c.status[t] <= db'.status[t]
    <3>1. t \in Txs
      BY <1>1 DEF Tables
    <3>2. {c.status[t], db.status[t], db'.status[t]} \subseteq 0..2
      BY <1>1, <3>1 DEF Tables, Waiting, Sent, Failed
    <3>3. c.status[t] <= db.status[t] /\ db.status[t] <= db'.status[t]
      BY <2>1 DEF WholeOf, Forward
    <3> QED BY <3>2, <3>3
  <2> QED BY <2>1, <2>2
<1> QED BY <1>2 DEF WholeOf

-----------------------------------------------------------------------------
(* The initial state *)

LEMMA InitInv == Init => BackupInv
<1> SUFFICES ASSUME Init PROVE BackupInv
  OBVIOUS
<1>1. NoRows \in Tables /\ Sound(NoRows)
  BY DEF NoRows, Tables, Sound, Waiting
<1>2. DOMAIN files = {} /\ tmp = {} /\ excess = {}
  BY DEF Init
<1>3. TypeOK
  BY <1>1, <1>2 DEF Init, TypeOK, Days, NoDay
<1>4. RowsComplete
  BY <1>1 DEF Init, RowsComplete
<1>5. ExcessInv
  BY <1>2 DEF Init, ExcessInv
<1>6. SnapshotInv
  BY <1>2 DEF Init, SnapshotInv, NewestWhole
<1> QED BY <1>3, <1>4, <1>5, <1>6 DEF BackupInv

-----------------------------------------------------------------------------
(* A step of the tables: the files and the thread stay as they are *)

LEMMA TablesStepInv ==
  ASSUME BackupInv, db' \in Tables, Sound(db'), Forward,
         stats' \subseteq [sent : SUBSET Txs, failed : SUBSET Txs],
         UNCHANGED <<day, files, threadVars>>,
         restoring' \subseteq restoring,
         merges' \in Nat, faults' \in Nat
  PROVE  BackupInv'
<1>1. TypeOK'
  BY DEF BackupInv, TypeOK, threadVars
<1>2. RowsComplete'
  BY DEF RowsComplete, Sound
<1>3. ExcessInv'
  BY DEF BackupInv, ExcessInv, threadVars
<1>4. \A c \in Contents : WholeOf(c) => WholeOf(c)'
  BY StaysWhole DEF BackupInv, TypeOK
<1>5. \A d : Outdated(d) => Outdated(d)'
  BY DEF Outdated
<1>6. NewestWhole'
  BY <1>4, <1>5 DEF BackupInv, SnapshotInv, NewestWhole, TypeOK
<1>7. SnapshotInv'
  BY <1>4, <1>5, <1>6 DEF BackupInv, SnapshotInv, TypeOK, threadVars
<1> QED BY <1>1, <1>2, <1>3, <1>7 DEF BackupInv

LEMMA ArriveInv ==
  ASSUME BackupInv, NEW t \in Txs, Arrive(t)
  PROVE  BackupInv' /\ Forward
<1>1. db \in Tables /\ Sound(db) /\ t \notin db.tx
  BY DEF BackupInv, TypeOK, RowsComplete, Arrive
<1>2. /\ db'.tx = db.tx \cup {t}
      /\ db'.status = [db.status EXCEPT ![t] = Waiting]
      /\ db'.rows = [db.rows EXCEPT ![t] = @ + 1]
      /\ db' = [tx |-> db'.tx, status |-> db'.status, rows |-> db'.rows]
  BY DEF Arrive
<1>3. db' \in Tables
  BY <1>1, <1>2 DEF Tables, Waiting
<1>4. Sound(db')
  BY <1>1, <1>2 DEF Sound, Tables
<1>5. Forward
  BY <1>1, <1>2 DEF Forward, Tables, Waiting, Sent, Failed
<1> QED BY <1>3, <1>4, <1>5, TablesStepInv DEF Arrive, BackupInv, TypeOK

LEMMA SettleInv ==
  ASSUME BackupInv, NEW t \in Txs, NEW status \in {Sent, Failed},
         Settle(t, status)
  PROVE  BackupInv' /\ Forward
<1>1. db \in Tables /\ Sound(db) /\ db.status[t] < status
  BY DEF BackupInv, TypeOK, RowsComplete, Settle
<1>2. db' \in Tables
  BY <1>1 DEF Tables, Settle
<1>3. /\ db'.tx = db.tx /\ db'.rows = db.rows
      /\ db'.status = [db.status EXCEPT ![t] = status]
  BY <1>1 DEF Tables, Settle
<1>4. Sound(db')
  BY <1>1, <1>3 DEF Sound
<1>5. Forward
  BY <1>1, <1>3 DEF Forward, Tables, Waiting, Sent, Failed
<1> QED BY <1>2, <1>4, <1>5, TablesStepInv DEF Settle, BackupInv, TypeOK

LEMMA CalculateStatsInv ==
  ASSUME BackupInv, CalculateStats
  PROVE  BackupInv' /\ Forward
<1>1. db \in Tables /\ Sound(db) /\ db' = db
  BY DEF BackupInv, TypeOK, RowsComplete, CalculateStats
<1>2. stats' \subseteq [sent : SUBSET Txs, failed : SUBSET Txs]
  BY <1>1, StatsType DEF CalculateStats
<1>3. Forward
  BY <1>1 DEF Forward, Tables, Waiting, Sent, Failed
<1> QED BY <1>1, <1>2, <1>3, TablesStepInv
        DEF CalculateStats, BackupInv, TypeOK

\* What a merge, successful or not, does to the tables.
LEMMA MergeStep ==
  ASSUME BackupInv, NEW src \in Contents, src # Broken => Sound(src),
         MergeFrom(src)
  PROVE  /\ db' \in Tables /\ Sound(db') /\ Forward
         /\ stats' \subseteq [sent : SUBSET Txs, failed : SUBSET Txs]
         /\ faults' \in Nat
<1>1. db \in Tables /\ Sound(db)
  BY DEF BackupInv, TypeOK, RowsComplete
<1>2. faults' \in Nat
  BY DEF MergeFrom, Fault, BackupInv, TypeOK
<1>3. CASE src # Broken /\ db' = Merged(src) /\ stats' = {StatsOf(Merged(src))}
  <2>1. src \in Tables
    BY <1>3, WholeIsTables
  <2>2. db' \in Tables /\ Sound(db')
    BY <1>1, <1>3, <2>1, MergedTables
  <2>3. Forward
    BY <1>1, <1>3, <2>1, MergedTables DEF Forward, Tables, Waiting, Sent, Failed
  <2>4. stats' \subseteq [sent : SUBSET Txs, failed : SUBSET Txs]
    BY <1>3, <2>2, StatsType
  <2> QED BY <1>2, <2>2, <2>3, <2>4
<1>4. CASE UNCHANGED dbVars
  <2>1. Forward
    BY <1>1, <1>4 DEF Forward, dbVars, Tables, Waiting, Sent, Failed
  <2> QED BY <1>1, <1>2, <1>4, <2>1 DEF dbVars, BackupInv, TypeOK
<1> QED BY <1>3, <1>4 DEF MergeFrom

LEMMA MergeUploadInv ==
  ASSUME BackupInv, NEW u \in Uploads, MergeUpload(u)
  PROVE  BackupInv' /\ Forward
<1>1. u \in Contents /\ Sound(u)
  BY DEF Contents
<1> QED BY <1>1, MergeStep, TablesStepInv DEF MergeUpload, BackupInv, TypeOK

LEMMA RestoreInv ==
  ASSUME BackupInv, NEW d \in Days \cup {TmpFile}, Restore(d)
  PROVE  BackupInv' /\ Forward
<1>1. PICK content \in Seen(d) : MergeFrom(content)
  BY DEF Restore
<1>2. content \in Contents /\ (content # Broken => Sound(content))
  BY DEF Seen, Contents, BackupInv, TypeOK, SnapshotInv
<1> QED BY <1>1, <1>2, MergeStep, TablesStepInv DEF Restore, BackupInv, TypeOK

-----------------------------------------------------------------------------
(* A step of the files or the thread: the tables stay as they are *)

LEMMA SameTables ==
  ASSUME BackupInv, UNCHANGED dbVars
  PROVE  /\ Forward /\ RowsComplete'
         /\ \A c \in Contents : WholeOf(c) <=> WholeOf(c)'
<1>1. db' = db /\ db \in Tables
  BY DEF dbVars, BackupInv, TypeOK
<1> QED BY <1>1 DEF Forward, RowsComplete, WholeOf, BackupInv, Sound, Tables,
           Waiting, Sent, Failed

\* What is outdated stays so while no file goes.
LEMMA StaysOutdated ==
  ASSUME TypeOK, TypeOK', DOMAIN files \subseteq DOMAIN files', NEW d, Outdated(d)
  PROVE  Outdated(d)'
  BY MoreDates DEF Outdated, TypeOK

\* The files stay as they are too.
LEMMA ThreadStepInv ==
  ASSUME BackupInv, TypeOK', ExcessInv', UNCHANGED <<dbVars, files>>,
         thread' = "rename" =>
           tmp' # {} /\ \A content \in tmp' : WholeOf(content)',
         \A content \in tmp' : content # Broken => Sound(content)',
         restoring' \subseteq restoring \cup DOMAIN files \cup {TmpFile}
  PROVE  BackupInv' /\ Forward
<1>1. \A d : Outdated(d) => Outdated(d)'
  BY DEF Outdated
<1>2. NewestWhole'
  BY <1>1, SameTables DEF BackupInv, SnapshotInv, NewestWhole, TypeOK
<1>3. SnapshotInv'
  BY <1>1, <1>2 DEF BackupInv, SnapshotInv
<1> QED BY <1>3, SameTables DEF BackupInv

\* So does the .tmp file.
LEMMA SameTmp ==
  ASSUME BackupInv, UNCHANGED <<dbVars, tmp>>, thread' = "rename" => thread = "rename"
  PROVE  /\ thread' = "rename" =>
              tmp' # {} /\ \A content \in tmp' : WholeOf(content)'
         /\ \A content \in tmp' : content # Broken => Sound(content)'
  BY SameTables DEF BackupInv, TypeOK, SnapshotInv, Sound

LEMMA MidnightInv ==
  ASSUME BackupInv, Midnight
  PROVE  BackupInv' /\ Forward
<1>1. TypeOK'
  BY DEF BackupInv, TypeOK, Midnight, dbVars, threadVars, Days
<1>2. ExcessInv'
  BY DEF BackupInv, ExcessInv, Midnight, threadVars
<1> QED BY <1>1, <1>2, SameTmp, ThreadStepInv DEF Midnight, threadVars

LEMMA CheckInv ==
  ASSUME BackupInv, Check
  PROVE  BackupInv' /\ Forward
<1>1. TypeOK'
  BY DEF BackupInv, TypeOK, Check, dbVars, Excess
<1>2. ExcessInv'
  <2>1. ASSUME NEW d \in excess'
        PROVE  /\ d < today'
               /\ Cardinality({e \in DOMAIN files' \cup {today'} : e > d}) >= Keep
    <3>1. /\ d \in DOMAIN files \cup {day}
          /\ Cardinality({e \in DOMAIN files \cup {day} : e > d}) >= Keep
      BY <2>1 DEF Check, Excess
    <3>2. \A e \in DOMAIN files : e < day
      BY DEF Check, Due, BackupInv, TypeOK, Days
    <3>3. d # day
      <4> SUFFICES ASSUME d = day PROVE FALSE
        OBVIOUS
      <4>1. {e \in DOMAIN files \cup {day} : e > d} = {}
        BY <3>2 DEF BackupInv, TypeOK, Days
      <4> QED BY <4>1, <3>1, FS_EmptySet
    <3> QED BY <3>1, <3>2, <3>3 DEF Check
  <2> QED BY <2>1 DEF Check, ExcessInv, BackupInv, TypeOK, Days, NoDay
<1> QED BY <1>1, <1>2, SameTmp, ThreadStepInv DEF Check

LEMMA SnapshotStepInv ==
  ASSUME BackupInv, Snapshot
  PROVE  BackupInv' /\ Forward
<1>1. TypeOK'
  BY DEF BackupInv, TypeOK, Snapshot, dbVars, Sleep, Fault, Contents
<1>2. ExcessInv'
  BY DEF BackupInv, ExcessInv, TypeOK, Snapshot, Sleep
<1>3. ASSUME thread' = "rename", NEW content \in tmp' PROVE WholeOf(content)'
  <2>1. content = db /\ db' = db /\ db \in Tables
    BY <1>3 DEF Snapshot, Sleep, dbVars, BackupInv, TypeOK
  <2>2. \A t \in db.tx : db.status[t] <= db.status[t]
    BY <2>1 DEF Tables, Waiting, Sent, Failed
  <2> QED BY <2>1, <2>2, BrokenIsNoTables DEF WholeOf, BackupInv, RowsComplete
<1>4. \A content \in tmp' : content # Broken => Sound(content)'
  BY DEF Snapshot, dbVars, BackupInv, RowsComplete, Sound
<1>5. thread' = "rename" => tmp' # {}
  BY DEF Snapshot, Sleep
<1> QED BY <1>1, <1>2, <1>3, <1>4, <1>5, ThreadStepInv DEF Snapshot

LEMMA PruneDoneInv ==
  ASSUME BackupInv, PruneDone
  PROVE  BackupInv' /\ Forward
<1>1. TypeOK'
  BY DEF BackupInv, TypeOK, PruneDone, dbVars, Sleep
<1>2. ExcessInv'
  BY DEF ExcessInv, PruneDone, Sleep
<1> QED BY <1>1, <1>2, SameTmp, ThreadStepInv DEF PruneDone, Sleep

LEMMA CrashInv ==
  ASSUME BackupInv, Crash
  PROVE  BackupInv' /\ Forward
<1>1. TypeOK'
  BY DEF BackupInv, TypeOK, Crash, dbVars, Sleep, Fault
<1>2. ExcessInv'
  BY DEF ExcessInv, Crash, Sleep
<1> QED BY <1>1, <1>2, SameTmp, ThreadStepInv DEF Crash, Sleep

LEMMA FindFileInv ==
  ASSUME BackupInv, NEW d \in Days \cup {TmpFile}, FindFile(d)
  PROVE  BackupInv' /\ Forward
<1>1. TypeOK'
  BY DEF BackupInv, TypeOK, FindFile, dbVars, threadVars
<1>2. ExcessInv'
  BY DEF BackupInv, ExcessInv, FindFile, threadVars
<1>3. d \in DOMAIN files \cup {TmpFile}
  BY DEF FindFile, Seen
<1> QED BY <1>1, <1>2, <1>3, SameTmp, ThreadStepInv DEF FindFile, threadVars

-----------------------------------------------------------------------------
(* The steps that make and remove files *)

\* One more file, or one in the place of another: what it has in it is whole
\* or nobody counts on it.
LEMMA NewFileInv ==
  ASSUME BackupInv, TypeOK', ExcessInv', UNCHANGED dbVars,
         thread' = "rename" => tmp' # {} /\ \A c \in tmp' : WholeOf(c)',
         \A c \in tmp' : c # Broken => Sound(c)',
         NEW date \in Days, NEW content \in Contents,
         files' = [d \in DOMAIN files \cup {date} |->
                     IF d = date THEN content ELSE files[d]],
         content # Broken => Sound(content),
         WholeOf(content) \/ Outdated(date),
         restoring' \subseteq restoring
  PROVE  BackupInv' /\ Forward
<1>1. DOMAIN files' = DOMAIN files \cup {date}
  OBVIOUS
<1>2. \A d : Outdated(d) => Outdated(d)'
  BY <1>1, StaysOutdated DEF BackupInv
<1>3. NewestWhole'
  <2> SUFFICES ASSUME NEW d \in DOMAIN files'
               PROVE  Outdated(d)' \/ WholeOf(files[d])'
    BY DEF NewestWhole
  <2>1. CASE d = date
    <3>1. files'[d] = content
      BY <1>1, <2>1
    <3>2. WholeOf(content) => WholeOf(content)'
      BY SameTables
    <3>3. Outdated(date) => Outdated(d)'
      BY <1>2, <2>1
    <3>4. WholeOf(files[d])' <=> WholeOf(content)'
      BY <3>1 DEF WholeOf, Sound
    <3> QED BY <3>2, <3>3, <3>4
  <2>2. CASE d # date
    <3>1. d \in DOMAIN files /\ files'[d] = files[d] /\ files[d] \in Contents
      BY <1>1, <2>2 DEF BackupInv, TypeOK
    <3>2. Outdated(d) \/ WholeOf(files[d])
      BY <3>1 DEF BackupInv, SnapshotInv, NewestWhole
    <3>3. WholeOf(files[d])' <=> WholeOf(files[d])
      BY <3>1 DEF WholeOf, Sound, dbVars
    <3> QED BY <1>2, <3>2, <3>3
  <2> QED BY <2>1, <2>2
<1>4. \A d \in DOMAIN files' : files'[d] # Broken => Sound(files'[d])
  BY DEF BackupInv, SnapshotInv
<1>5. \A d \in restoring' \ {TmpFile} : d \in DOMAIN files' \/ Outdated(d)'
  BY <1>1, <1>2 DEF BackupInv, SnapshotInv
<1>6. SnapshotInv'
  BY <1>3, <1>4, <1>5 DEF SnapshotInv, Sound
<1> QED BY <1>6, SameTables DEF BackupInv

LEMMA RenameInv ==
  ASSUME BackupInv, Rename
  PROVE  BackupInv' /\ Forward
<1>1. today \in Days
  BY DEF BackupInv, TypeOK, ExcessInv, Rename
<1>2. ASSUME NEW content \in tmp, thread' = "prune", tmp' = {},
             files' = [d \in DOMAIN files \cup {today} |->
                         IF d = today THEN content ELSE files[d]],
             UNCHANGED <<today, excess, faults>>
      PROVE  BackupInv' /\ Forward
  <2>1. content \in Contents /\ WholeOf(content) /\ Sound(content)
    BY DEF BackupInv, TypeOK, SnapshotInv, Rename, WholeOf
  <2>2. DOMAIN files' = DOMAIN files \cup {today}
    BY <1>2
  <2>3. TypeOK'
    <3>1. files' \in [DOMAIN files' -> Contents]
      BY <1>2, <2>1, <2>2 DEF BackupInv, TypeOK
    <3> QED BY <1>1, <1>2, <2>2, <3>1 DEF BackupInv, TypeOK, Rename, dbVars
  <2>4. ExcessInv'
    BY <1>2, <2>2 DEF BackupInv, ExcessInv, Rename
  <2> QED BY <1>1, <1>2, <2>1, <2>3, <2>4, NewFileInv DEF Rename
<1>3. ASSUME Fault, Sleep, UNCHANGED <<files, tmp>>
      PROVE  BackupInv' /\ Forward
  <2>1. TypeOK'
    BY <1>3 DEF BackupInv, TypeOK, Rename, dbVars, Sleep, Fault
  <2>2. ExcessInv'
    BY <1>3 DEF ExcessInv, Sleep
  <2> QED BY <1>3, <2>1, <2>2, SameTmp, ThreadStepInv DEF Rename, Sleep
<1> QED BY <1>2, <1>3 DEF Rename

LEMMA RestoreTooLateInv ==
  ASSUME BackupInv, NEW date \in Days, RestoreTooLate(date)
  PROVE  BackupInv' /\ Forward
<1>0. date # TmpFile
  BY DEF Days, TmpFile
<1>1. date \notin DOMAIN files /\ Outdated(date)
  BY <1>0 DEF BackupInv, TypeOK, SnapshotInv, RestoreTooLate, Seen
<1>2. DOMAIN files' = DOMAIN files \cup {date}
  BY <1>0 DEF RestoreTooLate
<1>3. TypeOK'
  <2>1. files' \in [DOMAIN files' -> Contents]
    BY <1>0, <1>2 DEF BackupInv, TypeOK, RestoreTooLate, Contents
  <2> QED BY <1>0, <1>2, <2>1 DEF BackupInv, TypeOK, RestoreTooLate, dbVars
<1>4. ExcessInv'
  <2>1. ASSUME NEW d \in excess
        PROVE  Cardinality({e \in DOMAIN files' \cup {today} : e > d}) >= Keep
    <3>1. today \in Days
      BY DEF BackupInv, TypeOK, ExcessInv
    <3>2. /\ {e \in DOMAIN files \cup {today} : e > d} \in SUBSET Days
          /\ {e \in DOMAIN files' \cup {today} : e > d} \in SUBSET Days
          /\ Cardinality({e \in DOMAIN files \cup {today} : e > d}) >= Keep
      BY <1>3, <3>1 DEF BackupInv, TypeOK, ExcessInv
    <3>3. {e \in DOMAIN files \cup {today} : e > d}
            \subseteq {e \in DOMAIN files' \cup {today} : e > d}
      BY <1>2
    <3> QED BY <3>2, <3>3, MoreDates
  <2> QED BY <1>2, <2>1 DEF BackupInv, ExcessInv, RestoreTooLate
<1>5. /\ UNCHANGED <<dbVars, tmp, thread>> /\ restoring' \subseteq restoring
      /\ files' = [d \in DOMAIN files \cup {date} |->
                     IF d = date THEN Broken ELSE files[d]]
  BY <1>0 DEF RestoreTooLate
<1> QED BY <1>1, <1>3, <1>4, <1>5, SameTmp, NewFileInv DEF Contents

\* The .tmp file is gone only when nobody is about to rename it.
LEMMA RestoreTmpTooLateInv ==
  ASSUME BackupInv, RestoreTooLate(TmpFile)
  PROVE  BackupInv' /\ Forward /\ files' = files
<1>1. tmp = {} /\ thread' = thread /\ thread # "rename"
  BY DEF RestoreTooLate, Seen, BackupInv, SnapshotInv
<1>2. tmp' = {Broken} /\ UNCHANGED <<dbVars, files>> /\ restoring' \subseteq restoring
  BY DEF RestoreTooLate
<1>3. TypeOK'
  BY <1>2 DEF BackupInv, TypeOK, RestoreTooLate, dbVars, Contents
<1>4. ExcessInv'
  BY <1>2 DEF BackupInv, ExcessInv, RestoreTooLate
<1> QED BY <1>1, <1>2, <1>3, <1>4, ThreadStepInv

\* The oldest of the excess has Keep newer files, and neither for them nor for
\* an older file does its removal count.
LEMMA PruneInv ==
  ASSUME BackupInv, Prune
  PROVE  /\ BackupInv' /\ Forward
         /\ \A d \in DOMAIN files \ DOMAIN files' : Outdated(d)
<1>1. PICK oldest \in excess :
        /\ \A d \in excess : oldest <= d
        /\ excess' = excess \ {oldest}
        /\ \/ files' = Without(oldest) /\ UNCHANGED faults
           \/ UNCHANGED files /\ Fault
  BY DEF Prune
<1>2. /\ today \in DOMAIN files /\ DOMAIN files \subseteq Days
      /\ oldest \in Days /\ oldest < today /\ Outdated(oldest)
  <2>1. today \in DOMAIN files /\ oldest \in Days /\ oldest < today
    BY DEF BackupInv, TypeOK, ExcessInv, Prune
  <2>2. DOMAIN files \cup {today} = DOMAIN files
    BY <2>1
  <2> QED BY <2>1, <2>2 DEF BackupInv, TypeOK, ExcessInv, Outdated
<1>3. UNCHANGED <<dbVars, day, tmp, thread, today, restoring, merges>>
  BY DEF Prune
<1>4. CASE files' = Without(oldest) /\ UNCHANGED faults
  <2>1. /\ DOMAIN files' = DOMAIN files \ {oldest}
        /\ \A d \in DOMAIN files' : files'[d] = files[d]
    BY <1>4 DEF Without
  <2>2. files' \in [DOMAIN files' -> Contents]
    BY <1>4, <2>1 DEF Without, BackupInv, TypeOK
  <2>3. TypeOK'
    BY <1>1, <1>3, <1>4, <2>1, <2>2 DEF BackupInv, TypeOK, dbVars
  <2>4. ASSUME NEW d \in Days,
               Cardinality({e \in DOMAIN files : e > d}) >= Keep
        PROVE  Cardinality({e \in DOMAIN files' : e > d}) >= Keep
    <3>1. CASE d >= oldest
      <4>1. {e \in DOMAIN files' : e > d} = {e \in DOMAIN files : e > d}
        BY <1>2, <2>1, <3>1 DEF Days
      <4> QED BY <2>4, <4>1
    <3>2. CASE d < oldest
      <4>1. {e \in DOMAIN files : e > oldest} \subseteq {e \in DOMAIN files' : e > d}
        BY <1>2, <2>1, <3>2 DEF Days
      <4>2. Cardinality({e \in DOMAIN files : e > oldest}) >= Keep
        BY <1>2 DEF Outdated
      <4> QED BY <1>2, <2>1, <4>1, <4>2, MoreDates
    <3> QED BY <1>2, <3>1, <3>2 DEF Days
  <2>5. \A d \in Days : Outdated(d) => Outdated(d)'
    BY <2>4 DEF Outdated
  <2>6. ExcessInv'
    <3>1. today \in DOMAIN files' /\ today \in DOMAIN files
      BY <1>2, <2>1 DEF Days
    <3>2. /\ DOMAIN files' \cup {today} = DOMAIN files'
          /\ DOMAIN files \cup {today} = DOMAIN files
      BY <3>1
    <3>3. excess \subseteq Days
      BY DEF BackupInv, TypeOK
    <3> QED BY <1>1, <1>3, <2>4, <3>1, <3>2, <3>3 DEF BackupInv, ExcessInv, Prune
  <2>7. NewestWhole'
    <3> SUFFICES ASSUME NEW d \in DOMAIN files'
                 PROVE  Outdated(d)' \/ WholeOf(files[d])'
      BY DEF NewestWhole
    <3>1. d \in DOMAIN files /\ d \in Days /\ files'[d] = files[d]
      BY <1>2, <2>1
    <3>2. WholeOf(files[d])' <=> WholeOf(files[d])
      BY <1>3, <3>1 DEF WholeOf, Sound, dbVars
    <3> QED BY <2>5, <3>1, <3>2 DEF BackupInv, SnapshotInv, NewestWhole
  <2>8. \A d \in DOMAIN files' : files'[d] # Broken => Sound(files'[d])
    BY <2>1 DEF BackupInv, SnapshotInv
  <2>9. \A d \in restoring' \ {TmpFile} : d \in DOMAIN files' \/ Outdated(d)'
    <3> SUFFICES ASSUME NEW d \in restoring \ {TmpFile}, d \notin DOMAIN files'
                 PROVE  Outdated(d)'
      BY <1>3
    <3>1. d \in Days /\ Outdated(d)
      BY <1>2, <2>1 DEF BackupInv, TypeOK, SnapshotInv
    <3> QED BY <2>5, <3>1
  <2>10. SnapshotInv'
    BY <1>3, <2>7, <2>8, <2>9, SameTmp DEF SnapshotInv, Sound, Prune
  <2> QED BY <1>2, <1>3, <2>1, <2>3, <2>6, <2>10, SameTables DEF BackupInv
<1>5. CASE UNCHANGED files /\ Fault
  <2>1. TypeOK'
    BY <1>1, <1>3, <1>5 DEF BackupInv, TypeOK, dbVars, Fault
  <2>2. ExcessInv'
    BY <1>1, <1>3, <1>5 DEF BackupInv, ExcessInv, Prune
  <2> QED BY <1>3, <1>5, <2>1, <2>2, SameTmp, ThreadStepInv DEF Prune
<1> QED BY <1>1, <1>4, <1>5

-----------------------------------------------------------------------------
(* Every step *)

LEMMA NextInv ==
  ASSUME BackupInv, [Next]_vars
  PROVE  /\ BackupInv' /\ Forward
         /\ \A d \in DOMAIN files \ DOMAIN files' : Outdated(d)
<1>1. CASE UNCHANGED vars
  <2>1. UNCHANGED <<dbVars, day, files, threadVars, restoring, merges, faults>>
    BY <1>1 DEF vars
  <2>2. TypeOK'
    BY <2>1 DEF BackupInv, TypeOK, dbVars, threadVars
  <2>3. ExcessInv'
    BY <2>1 DEF BackupInv, ExcessInv, threadVars
  <2> QED BY <2>1, <2>2, <2>3, SameTmp, ThreadStepInv DEF threadVars
<1>2. CASE Midnight
  BY <1>2, MidnightInv DEF Midnight
<1>3. CASE CalculateStats
  BY <1>3, CalculateStatsInv DEF CalculateStats
<1>4. CASE Check
  BY <1>4, CheckInv DEF Check
<1>5. CASE Snapshot
  BY <1>5, SnapshotStepInv DEF Snapshot
<1>6. CASE Rename
  <2>1. DOMAIN files \subseteq DOMAIN files'
    BY <1>6 DEF Rename
  <2> QED BY <1>6, <2>1, RenameInv
<1>7. CASE Prune
  BY <1>7, PruneInv
<1>8. CASE PruneDone
  BY <1>8, PruneDoneInv DEF PruneDone
<1>9. CASE Crash
  BY <1>9, CrashInv DEF Crash
<1>10. ASSUME NEW t \in Txs, Arrive(t)
       PROVE  BackupInv' /\ Forward /\ files' = files
  BY <1>10, ArriveInv DEF Arrive
<1>11. ASSUME NEW t \in Txs, Settle(t, Sent) \/ Settle(t, Failed)
       PROVE  BackupInv' /\ Forward /\ files' = files
  BY <1>11, SettleInv DEF Settle
<1>12. ASSUME NEW u \in Uploads, MergeUpload(u)
       PROVE  BackupInv' /\ Forward /\ files' = files
  BY <1>12, MergeUploadInv DEF MergeUpload
<1>13. ASSUME NEW d \in Days \cup {TmpFile}, FindFile(d)
       PROVE  BackupInv' /\ Forward /\ files' = files
  BY <1>13, FindFileInv DEF FindFile
<1>14. ASSUME NEW d \in Days \cup {TmpFile}, Restore(d)
       PROVE  BackupInv' /\ Forward /\ files' = files
  BY <1>14, RestoreInv DEF Restore
<1>15. ASSUME NEW d \in Days \cup {TmpFile}, RestoreTooLate(d)
       PROVE  BackupInv' /\ Forward /\ DOMAIN files \subseteq DOMAIN files'
  <2>1. DOMAIN files \subseteq DOMAIN files'
    BY <1>15 DEF RestoreTooLate
  <2> QED BY <1>15, <2>1, RestoreTooLateInv, RestoreTmpTooLateInv
<1> QED BY <1>1, <1>2, <1>3, <1>4, <1>5, <1>6, <1>7, <1>8, <1>9, <1>10, <1>11,
           <1>12, <1>13, <1>14, <1>15 DEF Next, ThreadStep

LEMMA InvAlways == Spec => []BackupInv
<1>1. BackupInv /\ [Next]_vars => BackupInv'
  BY NextInv
<1> QED BY InitInv, <1>1, PTL DEF Spec

\* The statistics stay, go, or are those of the tables of the new state.
LEMMA StatsStep ==
  ASSUME BackupInv, [Next]_vars
  PROVE  stats' \in {stats, {}, {StatsOf(db')}}
<1>1. CASE CalculateStats
  BY <1>1 DEF CalculateStats
<1>2. ASSUME NEW src, MergeFrom(src)
      PROVE  stats' \in {stats, {}, {StatsOf(db')}}
  BY <1>2 DEF MergeFrom, dbVars
<1>3. CASE stats' = stats
  BY <1>3
<1> QED BY <1>1, <1>2, <1>3 DEF Next, vars, dbVars, ThreadStep, Midnight, Check,
  Snapshot, Rename, Prune, PruneDone, Crash, Arrive, Settle, MergeUpload,
  FindFile, Restore, RestoreTooLate

LEMMA StatsNext ==
  ASSUME BackupInv, StatsNeverAhead, [Next]_vars
  PROVE  StatsNeverAhead'
<1>1. /\ db \in Tables /\ db' \in Tables /\ Forward
      /\ stats \subseteq [sent : SUBSET Txs, failed : SUBSET Txs]
  BY NextInv DEF BackupInv, TypeOK
<1>2. CASE stats' = stats
  <2> SUFFICES ASSUME NEW s \in stats
               PROVE  /\ s.sent \subseteq {t \in db'.tx : db'.status[t] # Waiting}
                      /\ s.failed \subseteq {t \in db'.tx : db'.status[t] = Failed}
    BY <1>2 DEF StatsNeverAhead
  <2>1. /\ s.sent \subseteq {t \in db.tx : db.status[t] # Waiting}
        /\ s.failed \subseteq {t \in db.tx : db.status[t] = Failed}
    BY DEF StatsNeverAhead
  <2>2. \A t \in db.tx : /\ t \in db'.tx
                         /\ db.status[t] # Waiting => db'.status[t] # Waiting
                         /\ db.status[t] = Failed => db'.status[t] = Failed
    BY <1>1 DEF Forward, Tables, Waiting, Sent, Failed
  <2> QED BY <2>1, <2>2
<1>3. CASE stats' = {}
  BY <1>3 DEF StatsNeverAhead
<1>4. CASE stats' = {StatsOf(db')}
  BY <1>1, <1>4 DEF StatsNeverAhead, StatsOf, Waiting, Sent, Failed
<1> QED BY <1>2, <1>3, <1>4, StatsStep

-----------------------------------------------------------------------------
(* The theorems *)

\* Every variable of the backups and of the merges keeps to its type.
THEOREM BackupTypes == Spec => []TypeOK
<1>1. BackupInv => TypeOK
  BY DEF BackupInv
<1> QED BY <1>1, InvAlways, PTL

\* Every transaction has its inputs and outputs, whatever is merged, whenever
\* a merge fails.
THEOREM RowsAlwaysComplete == Spec => []RowsComplete
<1>1. BackupInv => RowsComplete
  BY DEF BackupInv
<1> QED BY <1>1, InvAlways, PTL

\* The newest Keep files are always whole databases of the past.
THEOREM NewestAlwaysWhole == Spec => []NewestWhole
<1>1. BackupInv => NewestWhole
  BY DEF BackupInv, SnapshotInv
<1> QED BY <1>1, InvAlways, PTL

\* tbl_stats counts no transaction as further than it is, whoever computed it.
THEOREM StatsAlwaysLag == Spec => []StatsNeverAhead
<1>1. Init => StatsNeverAhead
  BY DEF Init, StatsNeverAhead
<1>2. BackupInv /\ StatsNeverAhead /\ [Next]_vars => StatsNeverAhead'
  BY StatsNext
<1> QED BY <1>1, <1>2, InvAlways, PTL DEF Spec

\* No merge, restore or step of the pusher takes a row of tbl_tx back.
THEOREM RowsAlwaysAdvance == Spec => RowsOnlyAdvance
<1>1. BackupInv /\ [Next]_vars =>
        [\A t \in db.tx : t \in db'.tx /\ db.status[t] <= db'.status[t]]_vars
  BY NextInv DEF Forward
<1> QED BY <1>1, InvAlways, PTL DEF Spec, RowsOnlyAdvance

\* A file is removed only when Keep newer ones are there.
THEOREM NewestAlwaysStay == Spec => NewestStay
<1>1. BackupInv /\ [Next]_vars =>
        [\A d \in DOMAIN files \ DOMAIN files' : Outdated(d)]_vars
  BY NextInv
<1> QED BY <1>1, InvAlways, PTL DEF Spec, NewestStay
=============================================================================
