---------------------------- MODULE DeskRecovery ----------------------------
(***************************************************************************)
(* Operator recovery of a desk lock left by a dead process                 *)
(* (plugin/server/runtime/desk-recovery.ts, recoverLockSteps).  A recoverer*)
(* serialises itself with others through recover.lock, reads the lock,     *)
(* proves its holder gone, reads it again, appends an audit line and only  *)
(* then unlinks it.  Each file operation is a step of its own: other       *)
(* processes run between any two of them, a recoverer may crash, and every *)
(* operation may fail.                                                     *)
(*                                                                         *)
(* A recover.lock that already exists refuses the call without a change of *)
(* state (busy, recover-lock-orphan), so those answers are not steps.      *)
(***************************************************************************)
EXTENDS DeskLock

VARIABLES
    recoverLock,    \* the file recover.lock
    rpc,            \* where each recoverer is in recoverLockSteps
    seen,           \* the lock bytes it has judged
    audit           \* the holders named by lines of the audit file

recoveryVars == <<recoverLock, rpc, seen, audit>>

RecoveryInit ==
    /\ recoverLock = Absent
    /\ rpc = [r \in Recoverers |-> "idle"]
    /\ seen = [r \in Recoverers |-> Absent]
    /\ audit = {}

Step(r, from, to) ==
    /\ rpc[r] = from
    /\ rpc' = [rpc EXCEPT ![r] = to]

\* Step 2: openSync(recoverLockPath, "wx").
CreateRecoverLock(r) ==
    /\ Step(r, "idle", "writeRecoverLock")
    /\ recoverLock = Absent
    /\ recoverLock' = Blank(r)
    /\ UNCHANGED <<lockVars, seen, audit>>

WriteRecoverLock(r) ==
    /\ Step(r, "writeRecoverLock", "readLock")
    /\ recoverLock' = Record(r)
    /\ UNCHANGED <<lockVars, seen, audit>>

\* recover-lock-io: the file just created is unlinked, best effort.
WriteRecoverLockFails(r) ==
    /\ Step(r, "writeRecoverLock", "idle")
    /\ recoverLock' \in {Absent, Blank(r), Record(r)}
    /\ UNCHANGED <<lockVars, seen, audit>>

\* Mutant: every answer but "alive" is taken for a holder that is gone.
ReadSilentLock(r) ==
    /\ Step(r, "readLock", "recheck")
    /\ ParseLockHolder(lock) # Nobody
    /\ ClassifyLockHolderProcess(ParseLockHolder(lock)) # {"alive"}
    /\ seen' = [seen EXCEPT ![r] = lock]
    /\ UNCHANGED <<lockVars, recoverLock, audit>>

\* Steps 3 and 4: the holder read from the lock is proven gone.
ReadDeadLock(r) ==
    /\ Step(r, "readLock", "recheck")
    /\ ParseLockHolder(lock) # Nobody
    /\ "esrch" \in ClassifyLockHolderProcess(ParseLockHolder(lock))
    /\ seen' = [seen EXCEPT ![r] = lock]
    /\ UNCHANGED <<lockVars, recoverLock, audit>>

\* Steps 3 and 4, every other answer: no-lock, unreadable, held or
\* undetermined (a dead holder whose PID is in use again is "held").
ReadOtherLock(r) ==
    /\ Step(r, "readLock", "releaseRecoverLock")
    /\ UNCHANGED <<lockVars, recoverLock, seen, audit>>

\* Step 5: the bytes are still the ones that were judged.
Recheck(r) ==
    /\ Step(r, "recheck", "audit")
    /\ lock = seen[r]
    /\ UNCHANGED <<lockVars, recoverLock, seen, audit>>

\* Step 5 otherwise: changed or unreadable.
RecheckRefused(r) ==
    /\ Step(r, "recheck", "releaseRecoverLock")
    /\ UNCHANGED <<lockVars, recoverLock, seen, audit>>

\* Step 6: the audit line is written and synced before the unlink.
AppendAudit(r) ==
    /\ Step(r, "audit", "unlink")
    /\ audit' = audit \cup {seen[r].by}
    /\ UNCHANGED <<lockVars, recoverLock, seen>>

\* Mutant: the lock is unlinked although the audit line failed.
AppendAuditFailsUnnoticed(r) ==
    /\ Step(r, "audit", "unlink")
    /\ audit' \in {audit, audit \cup {seen[r].by}}
    /\ UNCHANGED <<lockVars, recoverLock, seen>>

\* audit-failed: the line may have been written and not synced.
AppendAuditFails(r) ==
    /\ Step(r, "audit", "releaseRecoverLock")
    /\ audit' \in {audit, audit \cup {seen[r].by}}
    /\ UNCHANGED <<lockVars, recoverLock, seen>>

\* Step 7: unlinkSync(lockPath) removes whatever file is there by now.
UnlinkLock(r) ==
    /\ Step(r, "unlink", "releaseRecoverLock")
    /\ lock' = Absent
    /\ UNCHANGED <<live, recoverLock, seen, audit>>

UnlinkLockFails(r) ==
    /\ Step(r, "unlink", "releaseRecoverLock")
    /\ UNCHANGED <<lockVars, recoverLock, seen, audit>>

\* Group E, the finally block: remove recover.lock while it still names us.
ReleaseRecoverLock(r) ==
    /\ Step(r, "releaseRecoverLock", "idle")
    /\ recoverLock' = IF ParseLockHolder(recoverLock) = r
                        THEN Absent ELSE recoverLock
    /\ seen' = [seen EXCEPT ![r] = Absent]
    /\ UNCHANGED <<lockVars, audit>>

\* recover-lock-release-failed.
ReleaseRecoverLockFails(r) ==
    /\ Step(r, "releaseRecoverLock", "idle")
    /\ seen' = [seen EXCEPT ![r] = Absent]
    /\ UNCHANGED <<lockVars, recoverLock, audit>>

\* The recoverer's process dies; recover.lock stays.
RecovererCrash(r) ==
    /\ rpc[r] # "dead"
    /\ rpc' = [rpc EXCEPT ![r] = "dead"]
    /\ seen' = [seen EXCEPT ![r] = Absent]
    /\ UNCHANGED <<lockVars, recoverLock, audit>>

NoRecovererRuns == \A r \in Recoverers : rpc[r] \in {"idle", "dead"}

\* The operator follows the message of recover-lock-orphan: "remove it
\* manually only after confirming no recoverer is running".
OperatorRemovesRecoverLock ==
    /\ recoverLock # Absent
    /\ NoRecovererRuns
    /\ recoverLock' = Absent
    /\ UNCHANGED <<lockVars, rpc, seen, audit>>

RecoveryStep(r) ==
    \/ WriteRecoverLock(r) \/ WriteRecoverLockFails(r)
    \/ ReadDeadLock(r) \/ ReadOtherLock(r)
    \/ Recheck(r) \/ RecheckRefused(r)
    \/ AppendAudit(r) \/ AppendAuditFails(r)
    \/ UnlinkLock(r) \/ UnlinkLockFails(r)
    \/ ReleaseRecoverLock(r) \/ ReleaseRecoverLockFails(r)

RecoveryNext ==
    \/ \E r \in Recoverers :
         CreateRecoverLock(r) \/ RecoveryStep(r) \/ RecovererCrash(r)
    \/ OperatorRemovesRecoverLock
=============================================================================
