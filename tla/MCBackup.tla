------------------------------- MODULE MCBackup -------------------------------
(***************************************************************************)
(* Two transactions, one of which an uploaded database knows as sent.  The *)
(* newest backup is kept, so that the second week prunes the first.        *)
(***************************************************************************)
EXTENDS Backup

CONSTANTS mine, theirs

MCTxs     == {mine, theirs}
MCUploads ==
  {[tx     |-> {theirs},
    status |-> [t \in MCTxs |-> IF t = theirs THEN Sent ELSE Waiting],
    rows   |-> [t \in MCTxs |-> IF t = theirs THEN 1 ELSE 0]]}
=============================================================================
