----------------------------- MODULE DeskReader -----------------------------
(***************************************************************************)
(* A reader of the desk (status views, recaps): read() of desk-store.ts    *)
(* takes no lock.  It reads ledger.json and then opens the segment files,  *)
(* while instances commit, crash and are recovered.                        *)
(***************************************************************************)
EXTENDS Desk

VARIABLE view       \* the ledger.json the reader has read

ReaderInit == Init /\ view = ledger

\* read(), first half: ledger.json is read.  The segments are read after it,
\* in whatever state they are then.
ReadLedgerFile == view' = ledger /\ UNCHANGED vars

ReaderNext == (Next /\ UNCHANGED view) \/ ReadLedgerFile

ReaderSpec == ReaderInit /\ [][ReaderNext]_<<vars, view>>

(***************************************************************************)
(* The ledger.json a reader has read stays verifiable against the segment  *)
(* files however late it opens them, with commits and orphaned segments of *)
(* crashed commits arriving in between: no false "corrupt".                *)
(***************************************************************************)
LocklessReadVerifies == ReadsClean(view, segments)
=============================================================================
