------------------------------ MODULE DeskLock ------------------------------
(***************************************************************************)
(* The lock file of one repository desk (<repoDir>/lock) and how its       *)
(* holder is judged: runtime/lock-holder.ts.  The desk store creates and   *)
(* removes the file around a commit (module DeskStore); operator recovery  *)
(* removes the file of a dead holder (module DeskRecovery).                *)
(*                                                                         *)
(* A store instance is one incarnation of a daemon process: it is named by *)
(* its pid AND its instance nonce, so a restarted daemon is another        *)
(* element of Instances and a dead instance never comes back.  Its PID may *)
(* come back, which is why a probe of a dead holder can answer "alive".    *)
(***************************************************************************)
EXTENDS Integers, FiniteSets

CONSTANTS
    Instances,      \* incarnations of processes that run a desk store
    Recoverers,     \* runs of the operator's desk-recover command or RPC
    Nobody          \* the holder named by no lock record

ASSUME ProcessAssumption ==
    /\ Nobody \notin Instances
    /\ Nobody \notin Recoverers

VARIABLES
    live,           \* the instances whose process still runs
    lock            \* the lock file: [file |-> ..., by |-> ...]

lockVars == <<live, lock>>

(***************************************************************************)
(* Contents of a lock file.  openSync(path, "wx") creates it empty and a   *)
(* separate writeSync fills it, so a file that exists may hold bytes that  *)
(* are not a holder record: "blank".  `by' is the process that created the *)
(* file; only a "record" lets a reader learn it.                           *)
(***************************************************************************)
LockFile(S) ==
    [file: {"absent"}, by: {Nobody}] \cup [file: {"blank", "record"}, by: S]

Absent    == [file |-> "absent", by |-> Nobody]
Blank(p)  == [file |-> "blank",  by |-> p]
Record(p) == [file |-> "record", by |-> p]

\* parseLockHolder: bytes that are not a complete holder record parse to null.
ParseLockHolder(f) == IF f.file = "record" THEN f.by ELSE Nobody

(***************************************************************************)
(* classifyLockHolderProcess: kill(pid, 0) says "esrch" only of a process  *)
(* that is gone (one PID namespace owns the stable root).  Everything else *)
(* may be answered for a dead holder too: its PID may have been reused by  *)
(* a process of this or another user.                                      *)
(***************************************************************************)
ClassifyLockHolderProcess(p) ==
    {"alive", "eperm", "undetermined"} \cup
        (IF p \in live THEN {} ELSE {"esrch"})

LockInit ==
    /\ live = Instances
    /\ lock = Absent

LockTypeOK ==
    /\ live \subseteq Instances
    /\ lock \in LockFile(Instances)
=============================================================================
