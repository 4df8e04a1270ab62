----------------------------- MODULE DeskProofs -----------------------------
(***************************************************************************)
(* Proofs about modules Desk and DeskReader, for any number of instances,  *)
(* recoverers, keys, bodies and events, and for any capacity of the        *)
(* requests table.                                                         *)
(***************************************************************************)
EXTENDS DeskReader, FiniteSetTheorems, WellFoundedInduction, TLAPS

-----------------------------------------------------------------------------
(* The initial state *)

(***************************************************************************)
(* The fresh ledger, and the ledger an earlier release left, satisfy the   *)
(* inductive invariant while nobody works on them (freshLedger, StoreInit).*)
(***************************************************************************)
LEMMA InitInv == Init => DeskInv
  <1> SUFFICES ASSUME Init PROVE DeskInv
      OBVIOUS
  <1> USE ProcessAssumption, StoreAssumption
  <1>1. IsLedger(ledger) /\ RequestsOnce /\ ledger.revision = Len(ledger.requests)
    <2>1. CASE ledger = FreshLedger
          BY <2>1 DEF FreshLedger, IsLedger, RequestsOnce
    <2>2. ASSUME NEW k \in Keys, NEW b \in Bodies, ledger = LegacyLedger(k, b)
          PROVE  IsLedger(ledger) /\ RequestsOnce /\ ledger.revision = Len(ledger.requests)
          BY <2>2 DEF LegacyLedger, IsLedger, RequestsOnce, RequestRecord
    <2> QED BY <2>1, <2>2 DEF Init, StoreInit
  <1>2. TypeOK
        BY <1>1 DEF Init, LockInit, StoreInit, RecoveryInit, TypeOK, LockTypeOK,
                    LockFile, Absent
  <1>3. OneWriter /\ AcknowledgedIsRecorded /\ CommitsFollow /\ RepliesRecorded
        BY DEF Init, LockInit, StoreInit, OneWriter, Holders,
               AcknowledgedIsRecorded, CommitsFollow, RepliesRecorded
  <1>4. OneRecoverer /\ RecovererJudged
        BY DEF Init, RecoveryInit, OneRecoverer, RecovererJudged
  <1> QED BY <1>1, <1>2, <1>3, <1>4 DEF DeskInv

-----------------------------------------------------------------------------
(* Steps of an instance *)

\* The part of the invariant that is about the lock files and the processes.
LockPart == LockTypeOK /\ OneWriter /\ OneRecoverer /\ RecovererJudged

\* The part about the ledger, the commits in progress and the callers.
LedgerPart ==
    /\ IsLedger(ledger)
    /\ pc \in [Instances -> {"idle", "acquire", "writeLock", "locked",
                             "segment", "commit", "release", "dead"}]
    /\ job \in [Instances -> Job \cup {None}]
    /\ DOMAIN draft = Instances
    /\ reply \in [Instances -> RequestRecord \cup {None}]
    /\ acks \subseteq RequestRecord
    /\ RequestsOnce
    /\ ledger.revision = Len(ledger.requests)
    /\ AcknowledgedIsRecorded
    /\ CommitsFollow
    /\ RepliesRecorded

(***************************************************************************)
(* acquireLock and releaseLock: an instance touches the lock file only     *)
(* when the file is absent or its own, so it disturbs neither another      *)
(* writer nor a recoverer that has judged the file.                        *)
(***************************************************************************)
LEMMA StoreLock ==
    ASSUME DeskInv, NEW i \in Instances, UNCHANGED recoveryVars,
           StoreStep(i) \/ Crash(i) \/ \E k \in Keys, b \in Bodies : Transact(i, k, b)
    PROVE  LockPart'
  <1> USE ProcessAssumption DEF DeskInv, TypeOK, LockTypeOK, LockPart, OneWriter,
          Holders, OneRecoverer, RecovererJudged, CommitsFollow, recoveryVars,
          lockVars, At, Goto, Leave, LockFile, Absent, Blank, Record, ParseLockHolder
  <1>1. CASE OpenLock(i)         BY <1>1 DEF OpenLock
  <1>2. CASE WriteLock(i)        BY <1>2 DEF WriteLock
  <1>3. CASE WriteLockFails(i)   BY <1>3 DEF WriteLockFails
  <1>4. CASE ReleaseLock(i)      BY <1>4 DEF ReleaseLock
  <1>5. CASE ReleaseFails(i)     BY <1>5 DEF ReleaseFails
  <1>6. CASE Crash(i)            BY <1>6 DEF Crash
  <1>7. CASE \E k \in Keys, b \in Bodies : Transact(i, k, b)
        BY <1>7 DEF Transact
  <1>8. CASE LockRefused(i) \/ Refuse(i) \/ Replay(i) \/ DecideRejected(i)
               \/ RenameSegment(i) \/ RenameLedger(i) \/ WriteFails(i)
               \/ CommitUnsynced(i)
        BY <1>8 DEF LockRefused, Refuse, Replay, DecideRejected, MayDecide,
                    RenameSegment, RenameLedger, WriteFails, CommitUnsynced
  <1>9. CASE DecideCommitted(i)  BY <1>9 DEF DecideCommitted, MayDecide
  <1> QED BY <1>1, <1>2, <1>3, <1>4, <1>5, <1>6, <1>7, <1>8, <1>9 DEF StoreStep

(***************************************************************************)
(* decide: whatever it answers, the ledger the instance drafts has one     *)
(* row more than the ledger on disk, for a key that was not there.         *)
(***************************************************************************)
LEMMA DraftFollows ==
    ASSUME DeskInv, NEW i \in Instances, MayDecide(i),
           DecideRejected(i) \/ DecideCommitted(i)
    PROVE  IsLedger(draft'[i].ledger) /\ Follows(draft'[i].ledger, ledger)
  <1> USE StoreAssumption DEF DeskInv, TypeOK
  <1>1. /\ IsLedger(ledger)
        /\ job[i] \in Job
        /\ \A n \in 1..Len(ledger.requests) :
             ledger.requests[n].key # job[i].key
        BY DEF CommitsFollow, MayDecide, At, PriorRecords
  <1>2. ASSUME NEW version \in {"legacy", "current"}, NEW last \in Nat, NEW tip,
               NEW record \in RequestRecord, record.key = job[i].key,
               record.revision = ledger.revision + 1,
               last >= ledger.lastEventSeq
        PROVE  LET led == Candidate(version, last, tip, record)
               IN  IsLedger(led) /\ Follows(led, ledger)
        BY <1>1, <1>2 DEF Candidate, Follows, LastRecord, IsLedger
  <1>3. CASE DecideRejected(i)
    <2> DEFINE record == RequestOf(i, "rejected", NoSeqs)
    <2>1. draft'[i].ledger = Candidate(ledger.version, ledger.lastEventSeq,
                                       ledger.lastEventSha256, record)
          BY <1>3 DEF DecideRejected
    <2>2. /\ record \in RequestRecord
          /\ record.key = job[i].key /\ record.revision = ledger.revision + 1
          BY <1>1 DEF RequestOf, RequestRecord, Job, IsLedger, NoSeqs
    <2> QED BY <1>1, <1>2, <2>1, <2>2 DEF IsLedger
  <1>4. CASE DecideCommitted(i)
    <2>1. PICK n \in EventCounts, at \in Times :
            LET count  == IF ledger.version = "legacy" THEN n + 1 ELSE n
                events == BuildEvents(ledger, job[i].key, count, at)
                last   == ledger.lastEventSeq + count
                seqs   == IF count = 0 THEN NoSeqs
                                       ELSE <<ledger.lastEventSeq + 1, last>>
                tip    == IF count = 0 THEN ledger.lastEventSha256
                                       ELSE Sha256(events[count])
            IN  draft' = [draft EXCEPT ![i] =
                  [ledger |-> Candidate("current", last, tip,
                                        RequestOf(i, "committed", seqs)),
                   events |-> events]]
          BY <1>4, Zenon DEF DecideCommitted
    <2> DEFINE count  == IF ledger.version = "legacy" THEN n + 1 ELSE n
               events == BuildEvents(ledger, job[i].key, count, at)
               last   == ledger.lastEventSeq + count
               seqs   == IF count = 0 THEN NoSeqs
                                      ELSE <<ledger.lastEventSeq + 1, last>>
               tip    == IF count = 0 THEN ledger.lastEventSha256
                                      ELSE Sha256(events[count])
               record == RequestOf(i, "committed", seqs)
    <2>2. last \in Nat /\ last >= ledger.lastEventSeq /\ seqs \in Nat \X Nat
          BY <1>1 DEF IsLedger, NoSeqs
    <2>3. draft'[i].ledger = Candidate("current", last, tip, record)
          BY <2>1
    <2> HIDE DEF last, tip, seqs
    <2>4. /\ record \in RequestRecord
          /\ record.key = job[i].key /\ record.revision = ledger.revision + 1
          BY <1>1, <2>2 DEF RequestOf, RequestRecord, Job, IsLedger
    <2> HIDE DEF record
    <2> QED BY <1>2, <2>2, <2>3, <2>4
  <1> QED BY <1>3, <1>4

(***************************************************************************)
(* A ledger that follows another keeps its rows, and its keys and          *)
(* revisions stay unique: what the rename of ledger.json does.             *)
(***************************************************************************)
LEMMA FollowsKeepsRows ==
    ASSUME NEW old, NEW new, IsLedger(old), IsLedger(new), Follows(new, old),
           old.revision = Len(old.requests),
           \A m, n \in 1..Len(old.requests) :
              old.requests[m].key = old.requests[n].key => m = n,
           \A n \in 1..Len(old.requests) : old.requests[n].revision = n
    PROVE  /\ new.revision = Len(new.requests)
           /\ \A n \in 1..Len(old.requests) : new.requests[n] = old.requests[n]
           /\ new.requests[Len(new.requests)] = LastRecord(new)
           /\ LastRecord(new) \in RequestRecord
           /\ \A m, n \in 1..Len(new.requests) :
                 new.requests[m].key = new.requests[n].key => m = n
           /\ \A n \in 1..Len(new.requests) : new.requests[n].revision = n
  <1>1. /\ Len(old.requests) \in Nat
        /\ Len(new.requests) = Len(old.requests) + 1
        /\ new.revision = Len(new.requests)
        BY DEF Follows, IsLedger
  <1>2. \A n \in 1..Len(old.requests) : new.requests[n] = old.requests[n]
        BY DEF Follows, IsLedger
  <1>3. new.requests[Len(new.requests)] = LastRecord(new)
        BY DEF LastRecord
  <1>4. LastRecord(new) \in RequestRecord
        BY <1>1, <1>3 DEF IsLedger
  <1> QED BY <1>1, <1>2, <1>3, <1>4 DEF Follows

(***************************************************************************)
(* transact and commit: only the holder of the lock replaces the ledger,   *)
(* with one that follows it, so no draft of another instance goes stale    *)
(* and every outcome promised or shown stays a row of the ledger.          *)
(***************************************************************************)
LEMMA StoreLedger ==
    ASSUME DeskInv, NEW i \in Instances,
           StoreStep(i) \/ Crash(i) \/ \E k \in Keys, b \in Bodies : Transact(i, k, b)
    PROVE  LedgerPart'
  <1> USE DEF DeskInv, TypeOK, LedgerPart, lockVars, At, Goto, Leave
  <1>1. ASSUME ledger' = ledger, live' = live, UNCHANGED <<acks, reply>>,
               UNCHANGED draft, UNCHANGED job, job[i] \in Job,
               NEW l \in {"acquire", "writeLock", "locked", "commit", "release"},
               l = "commit" => pc[i] = "segment",
               pc[i] \notin {"idle", "dead"},
               pc' = [pc EXCEPT ![i] = l]
        PROVE  LedgerPart'
        BY <1>1 DEF RequestsOnce, AcknowledgedIsRecorded, CommitsFollow,
                    RepliesRecorded
  <1>2. ASSUME ledger' = ledger, NEW l \in {"idle", "dead"}, Leave(i, l),
               live' = IF l = "dead" THEN live \ {i} ELSE live,
               acks' = acks \/ acks' = acks \cup ({reply[i]} \ {None}),
               i \in live
        PROVE  LedgerPart'
        BY <1>2 DEF RequestsOnce, AcknowledgedIsRecorded, CommitsFollow,
                    RepliesRecorded
  <1>3. ASSUME pc[i] = "commit", i \in live, ledger' = draft[i].ledger,
               live' = live, UNCHANGED <<acks, draft, job>>,
               \/ reply' = reply
               \/ reply' = [reply EXCEPT ![i] = LastRecord(draft[i].ledger)],
               pc' = [pc EXCEPT ![i] = "release"]
        PROVE  LedgerPart'
    <2>1. IsLedger(ledger') /\ Follows(ledger', ledger)
          BY <1>3 DEF CommitsFollow
    <2>2. /\ ledger'.revision = Len(ledger'.requests)
          /\ \A n \in 1..Len(ledger.requests) :
               ledger'.requests[n] = ledger.requests[n]
          /\ ledger'.requests[Len(ledger'.requests)] = LastRecord(ledger')
          /\ LastRecord(ledger') \in RequestRecord
          /\ RequestsOnce'
          BY <2>1, FollowsKeepsRows DEF RequestsOnce
    <2>3. /\ Len(ledger.requests) \in Nat
          /\ Len(ledger'.requests) = Len(ledger.requests) + 1
          BY <2>1 DEF Follows, IsLedger
    <2>4. \A j \in Instances \ {i} : pc[j] \notin {"segment", "commit"}
          BY <1>3 DEF OneWriter, Holders, CommitsFollow
    <2>5. CommitsFollow'
          BY <1>3, <2>4 DEF CommitsFollow
    <2>6. AcknowledgedIsRecorded'
          BY <1>3, <2>2, <2>3 DEF AcknowledgedIsRecorded
    <2>7. RepliesRecorded'
      <3>1. SUFFICES ASSUME NEW j \in Instances, reply'[j] # None
                     PROVE  \E n \in 1..Len(ledger'.requests) :
                              ledger'.requests[n] = reply'[j]
            BY DEF RepliesRecorded
      <3>2. CASE reply'[j] = reply[j]
        <4>1. PICK n \in 1..Len(ledger.requests) : ledger.requests[n] = reply[j]
              BY <3>1, <3>2 DEF RepliesRecorded
        <4> QED BY <3>2, <4>1, <2>2, <2>3
      <3>3. CASE reply'[j] # reply[j]
            BY <1>3, <2>2, <2>3, <3>3
      <3> QED BY <3>2, <3>3
    <2> QED BY <1>3, <2>1, <2>2, <2>5, <2>6, <2>7
  <1>4. CASE \E k \in Keys, b \in Bodies : Transact(i, k, b)
        BY <1>4 DEF Transact, Job, RequestsOnce, AcknowledgedIsRecorded,
                    CommitsFollow, RepliesRecorded
  <1>5. CASE OpenLock(i)        BY <1>1, <1>5 DEF OpenLock, CommitsFollow
  <1>6. CASE LockRefused(i)     BY <1>2, <1>6 DEF LockRefused
  <1>7. CASE WriteLock(i)       BY <1>1, <1>7 DEF WriteLock, CommitsFollow
  <1>8. CASE WriteLockFails(i)  BY <1>2, <1>8 DEF WriteLockFails
  <1>9. CASE Refuse(i)          BY <1>1, <1>9 DEF Refuse, CommitsFollow
  <1>10. CASE Replay(i)
    <2>1. PICK n \in PriorRecords(ledger, job[i].key) :
               reply' = [reply EXCEPT ![i] = ledger.requests[n]]
          BY <1>10 DEF Replay
    <2>2. n \in 1..Len(ledger.requests) /\ ledger.requests[n] \in RequestRecord
          BY <2>1 DEF PriorRecords, IsLedger
    <2> QED BY <1>10, <2>1, <2>2 DEF Replay, RequestsOnce,
               AcknowledgedIsRecorded, CommitsFollow, RepliesRecorded
  <1>11. CASE DecideRejected(i) \/ DecideCommitted(i)
    <2>1. MayDecide(i)
          BY <1>11 DEF DecideRejected, DecideCommitted
    <2>2. IsLedger(draft'[i].ledger) /\ Follows(draft'[i].ledger, ledger)
          BY <1>11, <2>1, DraftFollows
    <2>3. /\ UNCHANGED <<lockVars, ledger, segments, job, reply, acks>>
          /\ DOMAIN draft' = Instances
          /\ \A j \in Instances \ {i} : draft'[j] = draft[j]
          /\ \E l \in {"segment", "commit"} : pc' = [pc EXCEPT ![i] = l]
          BY <1>11 DEF DecideRejected, DecideCommitted
    <2>4. CommitsFollow'
          BY <2>1, <2>2, <2>3 DEF CommitsFollow, MayDecide
    <2> QED BY <2>3, <2>4 DEF RequestsOnce, AcknowledgedIsRecorded,
               RepliesRecorded
  <1>12. CASE RenameSegment(i)  BY <1>1, <1>12 DEF RenameSegment, CommitsFollow
  <1>13. CASE RenameLedger(i)   BY <1>3, <1>13 DEF RenameLedger
  <1>14. CASE WriteFails(i)     BY <1>1, <1>14 DEF WriteFails, CommitsFollow
  <1>15. CASE CommitUnsynced(i) BY <1>3, <1>15 DEF CommitUnsynced
  <1>16. CASE ReleaseLock(i)    BY <1>2, <1>16 DEF ReleaseLock
  <1>17. CASE ReleaseFails(i)   BY <1>2, <1>17 DEF ReleaseFails
  <1>18. CASE Crash(i)          BY <1>2, <1>18 DEF Crash
  <1> QED BY <1>4, <1>5, <1>6, <1>7, <1>8, <1>9, <1>10, <1>11, <1>12, <1>13,
             <1>14, <1>15, <1>16, <1>17, <1>18 DEF StoreStep

-----------------------------------------------------------------------------
(* Steps of a recoverer and of the operator *)

(***************************************************************************)
(* recoverLockSteps: recover.lock admits one recoverer, which has proven   *)
(* the holder of the lock dead before it comes to unlink the file, so it   *)
(* never takes the lock from a writer.                                     *)
(***************************************************************************)
LEMMA RecoveryLock ==
    ASSUME DeskInv, RecoveryNext, UNCHANGED storeVars
    PROVE  /\ LockPart'
           /\ recoverLock' \in LockFile(Recoverers)
           /\ rpc' \in [Recoverers -> {"idle", "writeRecoverLock", "readLock",
                                       "recheck", "audit", "unlink",
                                       "releaseRecoverLock", "dead"}]
           /\ seen' \in [Recoverers -> LockFile(Instances)]
           /\ audit' \subseteq Instances
           /\ live' = live
  <1> USE ProcessAssumption DEF DeskInv, TypeOK, LockTypeOK, LockPart, OneWriter,
          Holders, OneRecoverer, RecovererJudged, storeVars, lockVars, Step,
          LockFile, Absent, Blank, Record, ParseLockHolder
  <1>1. CASE OperatorRemovesRecoverLock
        BY <1>1 DEF OperatorRemovesRecoverLock, NoRecovererRuns
  <1>2. ASSUME NEW r \in Recoverers,
               CreateRecoverLock(r) \/ RecoveryStep(r) \/ RecovererCrash(r)
        PROVE  /\ LockPart'
               /\ recoverLock' \in LockFile(Recoverers)
               /\ rpc' \in [Recoverers -> {"idle", "writeRecoverLock", "readLock",
                                           "recheck", "audit", "unlink",
                                           "releaseRecoverLock", "dead"}]
               /\ seen' \in [Recoverers -> LockFile(Instances)]
               /\ audit' \subseteq Instances
               /\ live' = live
    <2>1. CASE CreateRecoverLock(r)       BY <2>1 DEF CreateRecoverLock
    <2>2. CASE WriteRecoverLock(r)        BY <2>2 DEF WriteRecoverLock
    <2>3. CASE WriteRecoverLockFails(r)   BY <2>3 DEF WriteRecoverLockFails
    <2>4. CASE ReadDeadLock(r)
          BY <2>4 DEF ReadDeadLock, ClassifyLockHolderProcess
    <2>5. CASE ReadOtherLock(r)           BY <2>5 DEF ReadOtherLock
    <2>6. CASE Recheck(r)                 BY <2>6 DEF Recheck
    <2>7. CASE RecheckRefused(r)          BY <2>7 DEF RecheckRefused
    <2>8. CASE AppendAudit(r)             BY <2>8 DEF AppendAudit
    <2>9. CASE AppendAuditFails(r)        BY <2>9 DEF AppendAuditFails
    <2>10. CASE UnlinkLock(r)             BY <2>10 DEF UnlinkLock
    <2>11. CASE UnlinkLockFails(r)        BY <2>11 DEF UnlinkLockFails
    <2>12. CASE ReleaseRecoverLock(r)     BY <2>12 DEF ReleaseRecoverLock
    <2>13. CASE ReleaseRecoverLockFails(r)
           BY <2>13 DEF ReleaseRecoverLockFails
    <2>14. CASE RecovererCrash(r)         BY <2>14 DEF RecovererCrash
    <2> QED BY <1>2, <2>1, <2>2, <2>3, <2>4, <2>5, <2>6, <2>7, <2>8, <2>9,
               <2>10, <2>11, <2>12, <2>13, <2>14 DEF RecoveryStep
  <1> QED BY <1>1, <1>2 DEF RecoveryNext

-----------------------------------------------------------------------------
(* The invariant and the theorems *)

(***************************************************************************)
(* The invariant is inductive: every step of the desk preserves it.        *)
(***************************************************************************)
LEMMA NextInv == DeskInv /\ [Next]_vars => DeskInv'
  <1> SUFFICES ASSUME DeskInv, [Next]_vars PROVE DeskInv'
      OBVIOUS
  <1>1. CASE UNCHANGED vars
        BY <1>1 DEF vars, lockVars, storeVars, recoveryVars, DeskInv, TypeOK,
           LockTypeOK, OneWriter, Holders, RequestsOnce, AcknowledgedIsRecorded,
           CommitsFollow, RepliesRecorded, OneRecoverer, RecovererJudged
  <1>2. CASE StoreNext /\ UNCHANGED recoveryVars
    <2>1. PICK i \in Instances :
            StoreStep(i) \/ Crash(i) \/ \E k \in Keys, b \in Bodies : Transact(i, k, b)
          BY <1>2 DEF StoreNext
    <2>2. LockPart' /\ LedgerPart'
          BY <1>2, <2>1, StoreLock, StoreLedger
    <2> QED BY <1>2, <2>2 DEF LockPart, LedgerPart, DeskInv, TypeOK, recoveryVars
  <1>3. CASE RecoveryNext /\ UNCHANGED storeVars
    <2>1. LockPart' /\ live' = live
          BY <1>3, RecoveryLock
    <2>2. LedgerPart'
          BY <1>3, <2>1 DEF storeVars, DeskInv, TypeOK, LedgerPart, RequestsOnce,
             AcknowledgedIsRecorded, CommitsFollow, RepliesRecorded
    <2> QED BY <1>3, <2>1, <2>2, RecoveryLock DEF LockPart, LedgerPart, DeskInv, TypeOK
  <1> QED BY <1>1, <1>2, <1>3 DEF Next

(***************************************************************************)
(* Every reachable state of the desk satisfies the inductive invariant.    *)
(***************************************************************************)
THEOREM DeskInvariant == Spec => []DeskInv
  <1> QED BY InitInv, NextInv, PTL DEF Spec

(***************************************************************************)
(* The variables of the desk keep their types.                             *)
(***************************************************************************)
THEOREM TypeCorrect == Spec => []TypeOK
  <1>1. DeskInv => TypeOK
        BY DEF DeskInv
  <1> QED BY <1>1, DeskInvariant, PTL

(***************************************************************************)
(* One writer: the O_EXCL lock file and the recovery protocol together     *)
(* exclude a second writer, for any number of processes and crashes.       *)
(***************************************************************************)
THEOREM WriterExclusion == Spec => []OneWriter
  <1>1. DeskInv => OneWriter
        BY DEF DeskInv
  <1> QED BY <1>1, DeskInvariant, PTL

(***************************************************************************)
(* An acknowledged mutation is never lost and a request takes effect at    *)
(* most once (the contract at the head of desk-store.ts).                  *)
(***************************************************************************)
THEOREM Durability == Spec => [](AcknowledgedIsRecorded /\ RequestsOnce)
  <1>1. DeskInv => AcknowledgedIsRecorded /\ RequestsOnce
        BY DEF DeskInv
  <1> QED BY <1>1, DeskInvariant, PTL

-----------------------------------------------------------------------------
(* Action properties and the abstract specification *)

(***************************************************************************)
(* How the ledger and the callers see a step: nothing happens, or one      *)
(* instance renames ledger.json to a ledger that follows it, or one        *)
(* instance returns an outcome that is a row of the ledger.                *)
(***************************************************************************)
LEMMA VisibleStep ==
    ASSUME DeskInv, [Next]_vars
    PROVE  \/ UNCHANGED <<ledger, acks>>
           \/ IsLedger(ledger') /\ Follows(ledger', ledger) /\ acks' = acks
           \/ /\ ledger' = ledger
              /\ \E n \in 1..Len(ledger.requests) :
                   acks' = acks \cup {ledger.requests[n]}
  <1>1. CASE UNCHANGED vars
        BY <1>1 DEF vars, storeVars
  <1>2. CASE RecoveryNext /\ UNCHANGED storeVars
        BY <1>2 DEF storeVars
  <1>3. CASE StoreNext
    <2>1. PICK i \in Instances :
            StoreStep(i) \/ Crash(i) \/ \E k \in Keys, b \in Bodies : Transact(i, k, b)
          BY <1>3 DEF StoreNext
    <2>2. CASE RenameLedger(i) \/ CommitUnsynced(i)
          BY <2>2 DEF RenameLedger, CommitUnsynced, At, DeskInv, CommitsFollow
    <2>3. CASE ReleaseLock(i)
      <3>1. CASE reply[i] = None
            BY <2>3, <3>1 DEF ReleaseLock
      <3>2. CASE reply[i] # None
        <4>1. PICK n \in 1..Len(ledger.requests) : ledger.requests[n] = reply[i]
              BY <3>2 DEF DeskInv, RepliesRecorded
        <4>2. acks' = acks \cup {ledger.requests[n]} /\ ledger' = ledger
              BY <2>3, <3>2, <4>1 DEF ReleaseLock
        <4> QED BY <4>1, <4>2
      <3> QED BY <3>1, <3>2
    <2>4. CASE OpenLock(i) \/ LockRefused(i) \/ WriteLock(i) \/ WriteLockFails(i)
                 \/ Refuse(i) \/ Replay(i) \/ RenameSegment(i) \/ WriteFails(i)
                 \/ ReleaseFails(i) \/ Crash(i)
          BY <2>4 DEF OpenLock, LockRefused, WriteLock, WriteLockFails, Refuse,
                      Replay, RenameSegment, WriteFails, ReleaseFails, Crash
    <2>5. CASE DecideRejected(i) \/ DecideCommitted(i)
          BY <2>5 DEF DecideRejected, DecideCommitted
    <2>6. CASE \E k \in Keys, b \in Bodies : Transact(i, k, b)
          BY <2>6 DEF Transact
    <2> QED BY <2>1, <2>2, <2>3, <2>4, <2>5, <2>6 DEF StoreStep
  <1> QED BY <1>1, <1>2, <1>3 DEF Next

(***************************************************************************)
(* A commit only appends: no step changes or drops a row of the ledger or  *)
(* moves its event tip back.                                               *)
(***************************************************************************)
THEOREM AppendOnly == Spec => LedgerOnlyGrows
  <1> DEFINE Grows ==
        /\ \E n \in 0..1 : Len(ledger'.requests) = Len(ledger.requests) + n
        /\ \A n \in 1..Len(ledger.requests) :
             ledger'.requests[n] = ledger.requests[n]
        /\ ledger'.lastEventSeq >= ledger.lastEventSeq
  <1>1. DeskInv /\ [Next]_vars => [Grows]_ledger
    <2> SUFFICES ASSUME DeskInv, [Next]_vars, ledger' # ledger PROVE Grows
        OBVIOUS
    <2>1. IsLedger(ledger') /\ Follows(ledger', ledger)
          BY VisibleStep
    <2>2. \A n \in 1..Len(ledger.requests) :
            ledger'.requests[n] = ledger.requests[n]
          BY <2>1, FollowsKeepsRows DEF DeskInv, TypeOK, RequestsOnce
    <2> QED BY <2>1, <2>2 DEF Follows, IsLedger
  <1> QED BY <1>1, DeskInvariant, PTL DEF Spec, LedgerOnlyGrows

(***************************************************************************)
(* Recovery removes only the lock of a dead instance whose audit line is   *)
(* in place; every other disappearance of the lock is its owner's release. *)
(***************************************************************************)
THEOREM RecoverySound == Spec => RecoveryOnlyOfTheDead
  <1> DEFINE Sound ==
        lock # Absent /\ lock' = Absent =>
          \/ \E i \in live : lock.by = i /\ pc[i] = "release" /\ pc'[i] = "idle"
          \/ lock.by \notin live /\ lock.by \in audit
  <1>1. DeskInv /\ [Next]_vars => [Sound]_vars
    <2> SUFFICES ASSUME DeskInv, [Next]_vars, lock # Absent, lock' = Absent
                 PROVE  Sound
        OBVIOUS
    <2>1. CASE UNCHANGED vars
          BY <2>1 DEF vars, lockVars
    <2>2. CASE RecoveryNext
      <3>1. PICK r \in Recoverers : UnlinkLock(r)
            BY <2>2 DEF RecoveryNext, RecoveryStep, CreateRecoverLock,
               WriteRecoverLock, WriteRecoverLockFails, ReadDeadLock,
               ReadOtherLock, Recheck, RecheckRefused, AppendAudit,
               AppendAuditFails, UnlinkLockFails, ReleaseRecoverLock,
               ReleaseRecoverLockFails, RecovererCrash,
               OperatorRemovesRecoverLock, lockVars
      <3> QED BY <3>1 DEF UnlinkLock, Step, DeskInv, RecovererJudged
    <2>3. CASE StoreNext
      <3>1. PICK i \in Instances :
              StoreStep(i) \/ Crash(i) \/ \E k \in Keys, b \in Bodies : Transact(i, k, b)
            BY <2>3 DEF StoreNext
      <3>2. ReleaseLock(i) \/ ReleaseFails(i)
            BY <3>1 DEF StoreStep, OpenLock, LockRefused, WriteLock,
               WriteLockFails, Refuse, Replay, DecideRejected, DecideCommitted,
               RenameSegment, RenameLedger, WriteFails, CommitUnsynced, Crash,
               Transact, lockVars, Absent, Blank, Record
      <3> QED BY <3>2, ProcessAssumption DEF ReleaseLock, ReleaseFails, At, Leave,
               ParseLockHolder, Absent, DeskInv, TypeOK, LockTypeOK, LockFile
    <2> QED BY <2>1, <2>2, <2>3 DEF Next
  <1> QED BY <1>1, DeskInvariant, PTL DEF Spec, RecoveryOnlyOfTheDead

(***************************************************************************)
(* The desk implements the abstract idempotent log of module DeskLedger.   *)
(***************************************************************************)
THEOREM Refinement == Spec => ImplementsLedger
  <1>1. Init => Promise!LedgerInit
    <2> SUFFICES ASSUME Init PROVE Promise!LedgerInit
        OBVIOUS
    <2>1. ledger.requests \in Seq(RequestRecord) /\ acks = {}
          BY InitInv DEF DeskInv, TypeOK, IsLedger, Init, StoreInit
    <2>2. Len(ledger.requests) <= 1
          BY DEF Init, StoreInit, FreshLedger, LegacyLedger
    <2> QED BY <2>1, <2>2 DEF Promise!LedgerInit
  <1>2. DeskInv /\ [Next]_vars =>
          [Promise!LedgerNext]_<<ledger.requests, acks>>
    <2> SUFFICES ASSUME DeskInv, [Next]_vars
                 PROVE  [Promise!LedgerNext]_<<ledger.requests, acks>>
        OBVIOUS
    <2>1. CASE UNCHANGED <<ledger, acks>>
          BY <2>1
    <2>2. CASE IsLedger(ledger') /\ Follows(ledger', ledger) /\ acks' = acks
      <3>1. /\ LastRecord(ledger') \in RequestRecord
            /\ ledger'.requests[Len(ledger.requests) + 1] = LastRecord(ledger')
            BY <2>2, FollowsKeepsRows DEF DeskInv, TypeOK, RequestsOnce, Follows
      <3>2. Promise!Commit
            BY <2>2, <3>1 DEF Promise!Commit, Follows, DeskInv
      <3> QED BY <3>2 DEF Promise!LedgerNext
    <2>3. CASE /\ ledger' = ledger
               /\ \E n \in 1..Len(ledger.requests) :
                    acks' = acks \cup {ledger.requests[n]}
          BY <2>3 DEF Promise!LedgerNext, Promise!Show
    <2> QED BY <2>1, <2>2, <2>3, VisibleStep
  <1> QED BY <1>1, <1>2, DeskInvariant, PTL
          DEF Spec, ImplementsLedger, Promise!LedgerSpec

-----------------------------------------------------------------------------
(* What a reader finds (module DeskReader).  Segments are only ever added   *)
(* or replaced, so a file that a crashed commit left is there for good; a   *)
(* read is upset by it only when a commit of another length starts where it *)
(* starts.                                                                  *)

\* The event that a segment file has under a number.
Line(segs, s, n) == segs[s][n - s[1] + 1]

\* No two segment files start with the same event.
StartsOnce == \A s, t \in DOMAIN segments : s[1] = t[1] => s = t

\* A segment file has the events its name says, linked to each other, and
\* starts no later than the next commit would.
SegmentsWhole ==
    \A s \in DOMAIN segments :
        /\ s = <<s[1], s[2]>> /\ s[1] \in Nat \ {0} /\ s[2] \in Nat
        /\ s[1] <= s[2] /\ s[1] <= ledger.lastEventSeq + 1
        /\ \A n \in s[1]..s[2] : Line(segments, s, n).seq = n
        /\ \A n \in s[1]..s[2] : n > s[1] =>
              Line(segments, s, n).prevSha256 = Sha256(Line(segments, s, n - 1))

\* A file that starts where the next commit would was made for that commit.
OrphansFit ==
    \A s \in DOMAIN segments : s[1] = ledger.lastEventSeq + 1 =>
        \E n \in EventCounts :
            s[2] = ledger.lastEventSeq + (IF ledger.version = "legacy" THEN n + 1 ELSE n)

\* The last event up to a tip has the digest that is recorded with the tip.
TipOf(led) ==
    led.lastEventSeq > 0 =>
        \E s \in DOMAIN segments :
            /\ s[1] <= led.lastEventSeq /\ led.lastEventSeq <= s[2]
            /\ Sha256(Line(segments, s, led.lastEventSeq)) = led.lastEventSha256

\* The committed files: they end before the next one starts, leave nothing
\* out, and are linked to each other.
Chained ==
    /\ \A s, t \in DOMAIN segments : s[1] < t[1] => s[2] < t[1]
    /\ \A s \in DOMAIN segments : s[1] <= ledger.lastEventSeq => s[2] <= ledger.lastEventSeq
    /\ \A n \in 1..ledger.lastEventSeq : \E s \in DOMAIN segments : s[1] <= n /\ n <= s[2]
    /\ \A s \in DOMAIN segments : s[1] <= ledger.lastEventSeq =>
          IF s[1] = 1 THEN Line(segments, s, 1).prevSha256 = NoSha
          ELSE \E t \in DOMAIN segments :
                 /\ t[1] <= s[1] - 1 /\ s[1] - 1 <= t[2]
                 /\ Line(segments, s, s[1]).prevSha256 = Sha256(Line(segments, t, s[1] - 1))
    /\ ledger.lastEventSeq = 0 => ledger.lastEventSha256 = NoSha
    /\ TipOf(ledger)

\* The requests of a ledger end at its tip.
RowsBelow(led) ==
    \A n \in 1..Len(led.requests) : led.requests[n].seqs[2] <= led.lastEventSeq

\* What is about to be written continues what is on disk.
SegmentDrafted(d) ==
    LET tip == ledger.lastEventSeq
        count == d.ledger.lastEventSeq - tip
    IN  /\ d.ledger.lastEventSeq \in Nat /\ count >= 1
        /\ \E n \in EventCounts : count = (IF ledger.version = "legacy" THEN n + 1 ELSE n)
        /\ d.events[1].prevSha256 = ledger.lastEventSha256
        /\ \A n \in 1..count : d.events[n].seq = tip + n
        /\ \A n \in 1..count : n > 1 => d.events[n].prevSha256 = Sha256(d.events[n - 1])
        /\ d.ledger.lastEventSha256 = Sha256(d.events[count])
LedgerDrafted(d) ==
    LET tip == ledger.lastEventSeq
        last == d.ledger.lastEventSeq
    IN  \/ /\ last = tip /\ d.ledger.lastEventSha256 = ledger.lastEventSha256
           /\ d.ledger.version = ledger.version
        \/ /\ last \in Nat /\ last > tip /\ <<tip + 1, last>> \in DOMAIN segments
           /\ Line(segments, <<tip + 1, last>>, tip + 1).prevSha256 = ledger.lastEventSha256
           /\ Sha256(Line(segments, <<tip + 1, last>>, last)) = d.ledger.lastEventSha256
Drafted ==
    \A i \in Instances :
        /\ pc[i] \in {"segment", "commit"} =>
             LastRecord(draft[i].ledger).seqs[2] <= draft[i].ledger.lastEventSeq
        /\ pc[i] = "segment" => SegmentDrafted(draft[i])
        /\ pc[i] = "commit" => LedgerDrafted(draft[i])

\* A ledger.json that was read is one that was written: its tip is not
\* after the present one.
ViewFits ==
    /\ view.lastEventSeq \in Nat /\ view.lastEventSeq <= ledger.lastEventSeq
    /\ RequestsRefine(view)

ReaderInv ==
    /\ DeskInv /\ SegmentsWhole /\ OrphansFit /\ Drafted
    /\ RowsBelow(ledger) /\ ViewFits
    /\ StartsOnce => Chained /\ TipOf(view)

\* Every successful decide returns as many events as any other.
CommitsAlike == \A m, n \in EventCounts : m = n

\* A set of numbers that is not empty has a least one.
LEMMA LeastOne == ASSUME NEW S \in SUBSET Nat, S # {} PROVE \E x \in S : \A y \in S : x <= y
  <1> DEFINE R == {ss \in Nat \X Nat : ss[1] < ss[2]}
  <1>1. IsWellFoundedOn(R, Nat)
        BY NatLessThanWellFounded DEF OpToRel
  <1> HIDE DEF R
  <1>2. PICK x \in S : \A y \in S : ~(<<y, x>> \in R)
        BY <1>1, WFMin
  <1>3. ASSUME NEW y \in S PROVE x <= y
    <2>1. <<y, x>> \notin R /\ x \in Nat /\ y \in Nat
          BY <1>2
    <2>2. ~(y < x)
          BY <2>1 DEF R
    <2> QED BY <2>1, <2>2
  <1> QED BY <1>3

\* The event that the recursion of BuildEvents puts after those of f, and
\* the sequences that obey it.
Event(f, led, k, n, at) ==
    [seq |-> led.lastEventSeq + n,
     prevSha256 |-> IF n = 1 THEN led.lastEventSha256 ELSE Sha256(f[n - 1]),
     at |-> at, key |-> k]
Solves(f, led, k, count, at) == f = [n \in 1..count |-> Event(f, led, k, n, at)]

(***************************************************************************)
(* The recursion of BuildEvents has a solution for any number of events:   *)
(* one more event can be put behind those of a shorter commit.             *)
(***************************************************************************)
LEMMA EventsExist ==
    ASSUME NEW led, NEW at, NEW k, NEW count \in Nat
    PROVE  \E f : Solves(f, led, k, count, at)
  <1> DEFINE E(f, n) == Event(f, led, k, n, at)
             Solved(c) == \E f : Solves(f, led, k, c, at)
             Bad == {c \in Nat : ~Solved(c)}
  <1>1. Solved(0)
    <2>1. [n \in 1..0 |-> E(<<>>, n)] = [n \in 1..0 |-> E([m \in 1..0 |-> E(<<>>, m)], n)]
          OBVIOUS
    <2> QED BY <2>1 DEF Solves
  <1>2. ASSUME NEW c \in Nat, c > 0, Solved(c - 1) PROVE Solved(c)
    <2>1. PICK f : f = [n \in 1..(c - 1) |-> E(f, n)]
          BY <1>2 DEF Solves
    <2> DEFINE g == [n \in 1..c |-> IF n < c THEN f[n] ELSE E(f, c)]
    <2>2. \A n \in 1..(c - 1) : f[n] = E(f, n)
          BY <2>1
    <2>3. \A n \in 1..(c - 1) : g[n] = f[n]
          BY <1>2
    <2>4. \A n \in 1..c : n # 1 => n - 1 \in 1..(c - 1)
          BY <1>2
    <2>5. \A n \in 1..c : E(g, n) = E(f, n)
          BY <2>3, <2>4 DEF Event
    <2>6. ASSUME NEW n \in 1..c PROVE g[n] = E(g, n)
      <3>1. CASE n < c
        <4>1. n \in 1..(c - 1)
              BY <3>1
        <4>2. g[n] = f[n] /\ f[n] = E(f, n)
              BY <4>1, <2>2, <2>3
        <4> QED BY <4>2, <2>5
      <3>2. CASE n = c
        <4>1. g[n] = E(f, c)
              BY <3>2
        <4> QED BY <4>1, <3>2, <2>5
      <3> QED BY <3>1, <3>2, <1>2
    <2>7. g = [n \in 1..c |-> g[n]]
          OBVIOUS
    <2> HIDE DEF g
    <2>8. g = [n \in 1..c |-> E(g, n)]
          BY <2>6, <2>7
    <2> QED BY <2>8 DEF Solves
  <1> HIDE DEF Solved
  <1>3. Bad = {}
    <2> SUFFICES ASSUME Bad # {} PROVE FALSE
        OBVIOUS
    <2>1. PICK c \in Bad : \A d \in Bad : c <= d
          BY LeastOne
    <2>2. c # 0
          BY <1>1
    <2>3. c - 1 \in Nat /\ c - 1 \notin Bad
          BY <2>1, <2>2
    <2> QED BY <2>1, <2>2, <2>3, <1>2
  <1>4. Solved(count)
        BY <1>3
  <1> QED BY <1>4 DEF Solved

\* The events of a commit: numbered from the tip on, linked to it and to
\* each other.
LEMMA Built ==
    ASSUME NEW led, NEW k, NEW count \in Nat, NEW at, NEW e, e = BuildEvents(led, k, count, at)
    PROVE  \A n \in 1..count :
              /\ e[n].seq = led.lastEventSeq + n
              /\ e[n].prevSha256 = IF n = 1 THEN led.lastEventSha256 ELSE Sha256(e[n - 1])
  <1>1. e = CHOOSE f : Solves(f, led, k, count, at)
        BY DEF BuildEvents, Solves, Event
  <1>2. Solves(e, led, k, count, at)
        BY <1>1, EventsExist
  <1>3. ASSUME NEW n \in 1..count
        PROVE  /\ e[n].seq = led.lastEventSeq + n
               /\ e[n].prevSha256 = IF n = 1 THEN led.lastEventSha256 ELSE Sha256(e[n - 1])
    <2> DEFINE prev == IF n = 1 THEN led.lastEventSha256 ELSE Sha256(e[n - 1])
    <2>1. e[n] = Event(e, led, k, n, at)
          BY <1>2 DEF Solves
    <2>2. e[n] = [seq |-> led.lastEventSeq + n, prevSha256 |-> prev, at |-> at, key |-> k]
          BY <2>1 DEF Event
    <2> HIDE DEF prev
    <2>3. e[n].seq = led.lastEventSeq + n /\ e[n].prevSha256 = prev
          BY <2>2
    <2> QED BY <2>3 DEF prev
  <1> QED BY <1>3

-----------------------------------------------------------------------------
(* Steps under a reader's eyes *)

ReaderPart ==
    /\ SegmentsWhole /\ OrphansFit /\ Drafted
    /\ RowsBelow(ledger) /\ ViewFits
    /\ StartsOnce => Chained /\ TipOf(view)

\* While one instance writes, no other has anything to write.
LEMMA OthersDoNotWrite ==
    ASSUME DeskInv, NEW i \in Instances, At(i, "segment") \/ At(i, "commit"),
           NEW j \in Instances \ {i}
    PROVE  pc[j] \notin {"segment", "commit"}
  BY DEF DeskInv, OneWriter, Holders, CommitsFollow, At

\* A fresh desk has no segments, and one an earlier release left has one.
LEMMA InitReads == ReaderInit => ReaderInv
  <1> SUFFICES ASSUME ReaderInit PROVE ReaderInv
      OBVIOUS
  <1>1. DeskInv
        BY InitInv DEF ReaderInit
  <1>2. Drafted
        BY DEF ReaderInit, Init, StoreInit, Drafted
  <1>3. CASE ledger = FreshLedger /\ segments = <<>>
    <2>1. DOMAIN segments = {} /\ ledger.lastEventSeq = 0 /\ Len(ledger.requests) = 0
          BY <1>3 DEF FreshLedger
    <2> QED BY <1>1, <1>2, <1>3, <2>1 DEF ReaderInv, SegmentsWhole, OrphansFit, RowsBelow,
               ViewFits, Chained, TipOf, ReaderInit, FreshLedger, RequestsRefine
  <1>4. ASSUME NEW k \in Keys, NEW b \in Bodies, ledger = LegacyLedger(k, b),
               segments = [s \in {<<1, 1>>} |-> <<LegacyEvent(k)>>]
        PROVE  ReaderInv
    <2>1. /\ DOMAIN segments = {<<1, 1>>} /\ segments[<<1, 1>>] = <<LegacyEvent(k)>>
          /\ ledger.lastEventSeq = 1 /\ Len(ledger.requests) = 1
          /\ ledger.requests[1].seqs[2] = 1 /\ ledger.lastEventSha256 = Sha256(LegacyEvent(k))
          BY <1>4 DEF LegacyLedger
    <2>2. Line(segments, <<1, 1>>, 1) = LegacyEvent(k)
          BY <2>1 DEF Line
    <2>3. LegacyEvent(k).seq = 1 /\ LegacyEvent(k).prevSha256 = NoSha
          BY DEF LegacyEvent
    <2>4. SegmentsWhole /\ OrphansFit /\ RowsBelow(ledger)
          BY <2>1, <2>2, <2>3 DEF SegmentsWhole, OrphansFit, RowsBelow
    <2>5. Chained /\ TipOf(ledger)
          BY <2>1, <2>2, <2>3 DEF Chained, TipOf
    <2>6. ViewFits /\ TipOf(view)
          BY <2>1, <2>5 DEF ViewFits, ReaderInit, RequestsRefine
    <2> QED BY <1>1, <1>2, <2>4, <2>5, <2>6 DEF ReaderInv
  <1> QED BY <1>3, <1>4 DEF ReaderInit, Init, StoreInit

\* A step that writes neither the ledger nor a segment, and drafts nothing.
LEMMA NothingWritten ==
    ASSUME ReaderInv, UNCHANGED <<ledger, segments, view>>,
           \A j \in Instances : pc'[j] \in {"segment", "commit"} =>
              pc'[j] = pc[j] /\ draft'[j] = draft[j]
    PROVE  ReaderPart'
  <1>1. SegmentsWhole' /\ OrphansFit' /\ RowsBelow(ledger)' /\ ViewFits'
        BY DEF ReaderInv, SegmentsWhole, OrphansFit, RowsBelow, ViewFits
  <1>2. StartsOnce' => Chained' /\ TipOf(view)'
        BY DEF ReaderInv, StartsOnce, Chained, TipOf
  <1>3. Drafted'
        BY DEF ReaderInv, Drafted, SegmentDrafted, LedgerDrafted
  <1> QED BY <1>1, <1>2, <1>3 DEF ReaderPart

\* decide: what is drafted continues the ledger on disk.
LEMMA DecideKeeps ==
    ASSUME ReaderInv, NEW i \in Instances, DecideRejected(i) \/ DecideCommitted(i), view' = view
    PROVE  ReaderPart'
  <1> USE StoreAssumption
  <1>1. /\ UNCHANGED <<ledger, segments>> /\ MayDecide(i)
        /\ \A j \in Instances \ {i} : pc'[j] = pc[j] /\ draft'[j] = draft[j]
        BY DEF DecideRejected, DecideCommitted, Goto, ReaderInv, DeskInv, TypeOK
  <1>2. /\ IsLedger(ledger) /\ ledger.lastEventSeq \in Nat
        /\ ledger.version \in {"legacy", "current"}
        BY DEF ReaderInv, DeskInv, TypeOK, IsLedger
  <1>3. ASSUME NEW v, NEW last, NEW tip, NEW r
        PROVE  /\ LastRecord(Candidate(v, last, tip, r)) = r
               /\ Candidate(v, last, tip, r).lastEventSeq = last
               /\ Candidate(v, last, tip, r).lastEventSha256 = tip
               /\ Candidate(v, last, tip, r).version = v
        BY <1>2 DEF LastRecord, Candidate, IsLedger
  <1>4. SegmentsWhole' /\ OrphansFit' /\ RowsBelow(ledger)' /\ ViewFits'
        BY <1>1 DEF ReaderInv, SegmentsWhole, OrphansFit, RowsBelow, ViewFits
  <1>5. StartsOnce' => Chained' /\ TipOf(view)'
        BY <1>1 DEF ReaderInv, StartsOnce, Chained, TipOf
  <1>6. SUFFICES /\ pc'[i] \in {"segment", "commit"} =>
                     LastRecord(draft'[i].ledger).seqs[2] <= draft'[i].ledger.lastEventSeq
                 /\ pc'[i] = "segment" => SegmentDrafted(draft'[i])
                 /\ pc'[i] = "commit" => LedgerDrafted(draft'[i])
    <2>1. \A j \in Instances \ {i} :
             /\ pc'[j] \in {"segment", "commit"} =>
                  LastRecord(draft'[j].ledger).seqs[2] <= draft'[j].ledger.lastEventSeq
             /\ pc'[j] = "segment" => SegmentDrafted(draft'[j])
             /\ pc'[j] = "commit" => LedgerDrafted(draft'[j])
          BY <1>1 DEF ReaderInv, Drafted
    <2>2. \A j \in Instances : /\ SegmentDrafted(draft[j])' <=> SegmentDrafted(draft'[j])
                               /\ LedgerDrafted(draft[j])' <=> LedgerDrafted(draft'[j])
          BY <1>1 DEF SegmentDrafted, LedgerDrafted
    <2>3. (\A j \in Instances :
             /\ pc'[j] \in {"segment", "commit"} =>
                  LastRecord(draft'[j].ledger).seqs[2] <= draft'[j].ledger.lastEventSeq
             /\ pc'[j] = "segment" => SegmentDrafted(draft'[j])
             /\ pc'[j] = "commit" => LedgerDrafted(draft'[j])) => Drafted'
          BY <2>2 DEF Drafted
    <2> QED BY <2>1, <2>3, <1>4, <1>5 DEF ReaderPart
  <1>7. CASE DecideRejected(i)
    <2> DEFINE record == RequestOf(i, "rejected", NoSeqs)
    <2>1. /\ draft'[i].ledger = Candidate(ledger.version, ledger.lastEventSeq,
                                         ledger.lastEventSha256, record)
          /\ pc'[i] = "commit"
          BY <1>7 DEF DecideRejected, Goto, ReaderInv, DeskInv, TypeOK
    <2>2. record.seqs[2] = 0
          BY DEF RequestOf, NoSeqs
    <2> QED BY <2>1, <2>2, <1>2, <1>3 DEF LedgerDrafted
  <1>8. CASE DecideCommitted(i)
    <2>1. PICK n \in EventCounts, at \in Times :
            LET count  == IF ledger.version = "legacy" THEN n + 1 ELSE n
                events == BuildEvents(ledger, job[i].key, count, at)
                last   == ledger.lastEventSeq + count
                seqs   == IF count = 0 THEN NoSeqs
                                       ELSE <<ledger.lastEventSeq + 1, last>>
                tip    == IF count = 0 THEN ledger.lastEventSha256
                                       ELSE Sha256(events[count])
            IN  /\ draft' = [draft EXCEPT ![i] =
                  [ledger |-> Candidate("current", last, tip,
                                        RequestOf(i, "committed", seqs)),
                   events |-> events]]
                /\ pc' = [pc EXCEPT ![i] = IF count = 0 THEN "commit" ELSE "segment"]
          BY <1>8, Zenon DEF DecideCommitted, Goto
    <2> DEFINE count  == IF ledger.version = "legacy" THEN n + 1 ELSE n
               events == BuildEvents(ledger, job[i].key, count, at)
               last   == ledger.lastEventSeq + count
               seqs   == IF count = 0 THEN NoSeqs
                                      ELSE <<ledger.lastEventSeq + 1, last>>
               tip    == IF count = 0 THEN ledger.lastEventSha256
                                      ELSE Sha256(events[count])
               record == RequestOf(i, "committed", seqs)
    <2>2. count \in Nat /\ last \in Nat /\ (count = 0 => ledger.version = "current")
          BY <1>2
    <2>3. record.seqs[2] <= last
          BY <1>2, <2>2 DEF RequestOf, NoSeqs
    <2>4. /\ draft'[i] = [ledger |-> Candidate("current", last, tip, record), events |-> events]
          /\ pc'[i] = IF count = 0 THEN "commit" ELSE "segment"
          BY <2>1 DEF ReaderInv, DeskInv, TypeOK
    <2>5. PICK e : e = events
          OBVIOUS
    <2>6. \A m \in 1..count :
              /\ e[m].seq = ledger.lastEventSeq + m
              /\ e[m].prevSha256 = IF m = 1 THEN ledger.lastEventSha256 ELSE Sha256(e[m - 1])
          BY <2>2, <2>5, Built
    <2>7. /\ draft'[i].events = e /\ draft'[i].ledger.version = "current"
          /\ draft'[i].ledger.lastEventSeq = last
          /\ draft'[i].ledger.lastEventSha256 = tip
          /\ LastRecord(draft'[i].ledger) = record
          BY <2>4, <2>5, <1>3
    <2>8. /\ \E m \in EventCounts : count = IF ledger.version = "legacy" THEN m + 1 ELSE m
          /\ count # 0 => tip = Sha256(e[count])
          /\ count = 0 => tip = ledger.lastEventSha256
          /\ last - ledger.lastEventSeq = count
          BY <2>5, <2>2, <1>2
    <2>9. last = ledger.lastEventSeq + count
          OBVIOUS
    <2> HIDE DEF count, events, last, seqs, tip, record
    <2>10. CASE count = 0
           BY <2>2, <2>3, <2>4, <2>7, <2>8, <2>9, <2>10, <1>2 DEF LedgerDrafted
    <2>11. CASE count # 0
      <3>1. 1 \in 1..count /\ \A m \in 1..count : m > 1 => m # 1
            BY <2>2, <2>11
      <3>2. SegmentDrafted(draft'[i])
            BY <2>2, <2>6, <2>7, <2>8, <2>11, <3>1, <1>2 DEF SegmentDrafted
      <3> QED BY <2>3, <2>4, <2>7, <2>11, <3>2
    <2> QED BY <2>10, <2>11
  <1> QED BY <1>7, <1>8

\* RenameSegment: a file for the commit in hand is added, or takes the place
\* of one that a crashed commit made under the same name.
LEMMA SegmentKeeps ==
    ASSUME ReaderInv, NEW i \in Instances, RenameSegment(i), view' = view
    PROVE  ReaderPart'
  <1> USE StoreAssumption
  <1> DEFINE tip == ledger.lastEventSeq
             last == draft[i].ledger.lastEventSeq
             e == draft[i].events
             name == <<tip + 1, last>>
  <1>1. /\ pc[i] = "segment" /\ pc'[i] = "commit" /\ UNCHANGED <<ledger, draft>>
        /\ \A j \in Instances \ {i} : pc'[j] = pc[j] /\ pc[j] \notin {"segment", "commit"}
        BY OthersDoNotWrite DEF RenameSegment, At, Goto, ReaderInv, DeskInv, TypeOK
  <1>2. /\ tip \in Nat /\ last \in Nat /\ last > tip
        /\ \E n \in EventCounts : last = tip + (IF ledger.version = "legacy" THEN n + 1 ELSE n)
        /\ e[1].prevSha256 = ledger.lastEventSha256
        /\ \A n \in 1..(last - tip) : e[n].seq = tip + n
        /\ \A n \in 1..(last - tip) : n > 1 => e[n].prevSha256 = Sha256(e[n - 1])
        /\ draft[i].ledger.lastEventSha256 = Sha256(e[last - tip])
    <2>1. SegmentDrafted(draft[i]) /\ tip \in Nat
          BY <1>1 DEF ReaderInv, Drafted, DeskInv, TypeOK, IsLedger
    <2>2. PICK n \in EventCounts : last - tip = (IF ledger.version = "legacy" THEN n + 1 ELSE n)
          BY <2>1 DEF SegmentDrafted
    <2>3. last \in Nat /\ last - tip >= 1
          BY <2>1 DEF SegmentDrafted
    <2>4. last > tip /\ last = tip + (IF ledger.version = "legacy" THEN n + 1 ELSE n)
          BY <2>1, <2>2, <2>3
    <2>5. /\ e[1].prevSha256 = ledger.lastEventSha256
          /\ \A m \in 1..(last - tip) : e[m].seq = tip + m
          /\ \A m \in 1..(last - tip) : m > 1 => e[m].prevSha256 = Sha256(e[m - 1])
          /\ draft[i].ledger.lastEventSha256 = Sha256(e[last - tip])
          BY <2>1, Zenon DEF SegmentDrafted
    <2> QED BY <2>1, <2>3, <2>4, <2>5
  <1>3. e[1].seq = tip + 1
        BY <1>2
  <1>4. /\ DOMAIN segments' = DOMAIN segments \cup {name}
        /\ segments'[name] = e
        /\ \A s \in DOMAIN segments : s # name => segments'[s] = segments[s]
        BY <1>3 DEF RenameSegment
  <1>5. \A n \in (tip + 1)..last : Line(segments', name, n) = e[n - tip]
        BY <1>2, <1>4 DEF Line
  <1>6. \A s \in DOMAIN segments : \A n : s # name => Line(segments', s, n) = Line(segments, s, n)
        BY <1>4 DEF Line
  <1>7. name[1] = tip + 1 /\ name[2] = last
        OBVIOUS
  <1> HIDE DEF e, name
  <1>8. SegmentsWhole'
    <2>1. ASSUME NEW s \in DOMAIN segments, s # name
          PROVE  /\ s = <<s[1], s[2]>> /\ s[1] \in Nat \ {0} /\ s[2] \in Nat
                 /\ s[1] <= s[2] /\ s[1] <= tip + 1
                 /\ \A n \in s[1]..s[2] : Line(segments', s, n).seq = n
                 /\ \A n \in s[1]..s[2] : n > s[1] =>
                      Line(segments', s, n).prevSha256 = Sha256(Line(segments', s, n - 1))
          BY <2>1, <1>6 DEF ReaderInv, SegmentsWhole
    <2>2. /\ name = <<name[1], name[2]>> /\ name[1] \in Nat \ {0} /\ name[2] \in Nat
          /\ name[1] <= name[2] /\ name[1] <= tip + 1
          BY <1>2, <1>7 DEF name
    <2>3. \A n \in name[1]..name[2] : Line(segments', name, n).seq = n
          BY <1>2, <1>5, <1>7
    <2>4. ASSUME NEW n \in name[1]..name[2], n > name[1]
          PROVE  Line(segments', name, n).prevSha256 = Sha256(Line(segments', name, n - 1))
      <3>1. /\ n \in (tip + 1)..last /\ n - 1 \in (tip + 1)..last
            /\ n - tip \in 1..(last - tip) /\ n - tip > 1 /\ (n - tip) - 1 = (n - 1) - tip
            BY <2>4, <1>2, <1>7
      <3>2. Line(segments', name, n) = e[n - tip] /\ Line(segments', name, n - 1) = e[(n - 1) - tip]
            BY <3>1, <1>5
      <3> QED BY <3>1, <3>2, <1>2
    <2>5. \A s \in DOMAIN segments' : s \in DOMAIN segments \/ s = name
          BY <1>4
    <2>6. ledger' = ledger
          BY <1>1
    <2> HIDE DEF last
    <2> QED BY <2>1, <2>2, <2>3, <2>4, <2>5, <2>6 DEF SegmentsWhole
  <1>9. OrphansFit'
        BY <1>1, <1>2, <1>4, <1>7 DEF ReaderInv, OrphansFit
  <1>10. RowsBelow(ledger)' /\ ViewFits'
        BY <1>1 DEF ReaderInv, RowsBelow, ViewFits
  <1>11. Drafted'
    <2>1. LedgerDrafted(draft[i])'
      <3>1. /\ last - tip \in 1..(last - tip) /\ 1 \in 1..(last - tip)
            /\ tip + 1 \in (tip + 1)..last /\ last \in (tip + 1)..last
            /\ (tip + 1) - tip = 1
            BY <1>2
      <3>2. /\ Line(segments', name, tip + 1) = e[1]
            /\ Line(segments', name, last) = e[last - tip]
            BY <3>1, <1>5
      <3>3. name \in DOMAIN segments' /\ name = <<tip + 1, last>>
            BY <1>4 DEF name
      <3> QED BY <3>2, <3>3, <1>1, <1>2 DEF LedgerDrafted
    <2> QED BY <2>1, <1>1 DEF ReaderInv, Drafted
  <1>12. ASSUME StartsOnce' PROVE Chained' /\ TipOf(view)'
    <2>1. StartsOnce
          BY <1>12, <1>4 DEF StartsOnce
    <2>2. Chained /\ TipOf(view) /\ view.lastEventSeq \in Nat /\ view.lastEventSeq <= tip
          BY <2>1 DEF ReaderInv, ViewFits
    <2>3. \A s \in DOMAIN segments' :
             \/ s = name
             \/ /\ s # name /\ s \in DOMAIN segments /\ s[1] \in Nat \ {0} /\ s[1] <= tip
                /\ s[2] \in Nat /\ s[2] <= tip
      <3>1. ASSUME NEW s \in DOMAIN segments, s # name
            PROVE  s[1] \in Nat \ {0} /\ s[1] <= tip /\ s[2] \in Nat
        <4>1. s[1] # tip + 1
              BY <1>12, <1>4, <1>7, <3>1 DEF StartsOnce
        <4>2. s[1] \in Nat \ {0} /\ s[1] <= tip + 1 /\ s[2] \in Nat
              BY DEF ReaderInv, SegmentsWhole
        <4> QED BY <4>1, <4>2, <1>2
      <3>2. \A s \in DOMAIN segments : s[1] <= tip => s[2] <= tip
            BY <2>2 DEF Chained
      <3> QED BY <3>1, <3>2, <1>4
    <2>4. \A s \in DOMAIN segments : s[1] <= tip => s # name
          BY <1>2, <1>7
    <2>5. \A n : n \in Nat /\ n <= tip =>
            \A s \in DOMAIN segments : \A d :
               s[1] <= n /\ n <= s[2] /\ d = Sha256(Line(segments, s, n)) =>
               s \in DOMAIN segments' /\ d = Sha256(Line(segments', s, n))
      <3> SUFFICES ASSUME NEW n \in Nat, n <= tip, NEW s \in DOMAIN segments, s[1] <= n
                   PROVE  s \in DOMAIN segments' /\ Line(segments', s, n) = Line(segments, s, n)
          OBVIOUS
      <3>1. s # name
        <4>1. s[1] \in Nat
              BY DEF ReaderInv, SegmentsWhole
        <4> QED BY <4>1, <2>4, <1>2
      <3> QED BY <3>1, <1>4, <1>6
    <2>6. TipOf(view)'
      <3> SUFFICES ASSUME view.lastEventSeq > 0
                   PROVE  \E s \in DOMAIN segments' :
                            /\ s[1] <= view.lastEventSeq /\ view.lastEventSeq <= s[2]
                            /\ view.lastEventSha256 = Sha256(Line(segments', s, view.lastEventSeq))
          BY DEF TipOf
      <3> QED BY <2>2, <2>5 DEF TipOf
    <2>7. TipOf(ledger)'
      <3> SUFFICES ASSUME tip > 0
                   PROVE  \E s \in DOMAIN segments' :
                            /\ s[1] <= tip /\ tip <= s[2]
                            /\ ledger.lastEventSha256 = Sha256(Line(segments', s, tip))
          BY <1>1 DEF TipOf
      <3> QED BY <2>2, <2>5, <1>2 DEF Chained, TipOf
    <2>8. \A s, t \in DOMAIN segments' : s[1] < t[1] => s[2] < t[1]
      <3>1. \A s, t \in DOMAIN segments : s[1] < t[1] => s[2] < t[1]
            BY <2>2 DEF Chained
      <3> QED BY <2>3, <3>1, <1>2, <1>7
    <2>9. \A s \in DOMAIN segments' : s[1] <= tip => s[2] <= tip
          BY <2>3, <1>2, <1>7
    <2>10. \A n \in 1..tip : \E s \in DOMAIN segments' : s[1] <= n /\ n <= s[2]
          BY <2>2, <1>4 DEF Chained
    <2>11. ASSUME NEW s \in DOMAIN segments', s[1] <= tip
           PROVE  IF s[1] = 1 THEN Line(segments', s, 1).prevSha256 = NoSha
                  ELSE \E t \in DOMAIN segments' :
                    /\ t[1] <= s[1] - 1 /\ s[1] - 1 <= t[2]
                    /\ Line(segments', s, s[1]).prevSha256 = Sha256(Line(segments', t, s[1] - 1))
      <3>1. s # name /\ s \in DOMAIN segments /\ s[1] \in Nat \ {0}
            BY <2>3, <2>11, <1>2, <1>7
      <3>2. /\ Line(segments', s, 1) = Line(segments, s, 1)
            /\ Line(segments', s, s[1]) = Line(segments, s, s[1])
            BY <3>1, <1>6
      <3>3. IF s[1] = 1 THEN Line(segments, s, 1).prevSha256 = NoSha
            ELSE \E t \in DOMAIN segments :
                    /\ t[1] <= s[1] - 1 /\ s[1] - 1 <= t[2]
                    /\ Line(segments, s, s[1]).prevSha256 = Sha256(Line(segments, t, s[1] - 1))
            BY <3>1, <2>2, <2>11 DEF Chained
      <3>4. CASE s[1] = 1
            BY <3>2, <3>3, <3>4
      <3>5. CASE s[1] # 1
        <4>1. PICK t \in DOMAIN segments :
                    /\ t[1] <= s[1] - 1 /\ s[1] - 1 <= t[2]
                    /\ Line(segments, s, s[1]).prevSha256 = Sha256(Line(segments, t, s[1] - 1))
              BY <3>3, <3>5
        <4>2. s[1] - 1 \in Nat /\ s[1] - 1 <= tip
              BY <3>1, <2>11, <1>2
        <4>3. /\ t \in DOMAIN segments'
              /\ Sha256(Line(segments, t, s[1] - 1)) = Sha256(Line(segments', t, s[1] - 1))
              BY <4>1, <4>2, <2>5
        <4> QED BY <4>1, <4>3, <3>2, <3>5
      <3> QED BY <3>4, <3>5
    <2>12. tip = 0 => ledger.lastEventSha256 = NoSha
          BY <2>2 DEF Chained
    <2>13. Chained'
          BY <2>7, <2>8, <2>9, <2>10, <2>11, <2>12, <1>1 DEF Chained
    <2> QED BY <2>6, <2>13
  <1> QED BY <1>8, <1>9, <1>10, <1>11, <1>12 DEF ReaderPart

\* The rename of ledger.json: the tip moves over the file just renamed, or
\* stays where it is.
LEMMA LedgerKeeps ==
    ASSUME ReaderInv, NEW i \in Instances, RenameLedger(i) \/ CommitUnsynced(i), view' = view
    PROVE  ReaderPart'
  <1> USE StoreAssumption
  <1> DEFINE tip == ledger.lastEventSeq
             new == draft[i].ledger
             last == new.lastEventSeq
             name == <<tip + 1, last>>
  <1>1. /\ pc[i] = "commit" /\ ledger' = new /\ UNCHANGED <<segments, draft>>
        /\ \A j \in Instances : pc'[j] \notin {"segment", "commit"}
        BY OthersDoNotWrite DEF RenameLedger, CommitUnsynced, At, Goto, ReaderInv, DeskInv, TypeOK
  <1>2. /\ IsLedger(ledger) /\ IsLedger(new) /\ Follows(new, ledger)
        /\ tip \in Nat /\ last \in Nat /\ last >= tip
        BY <1>1 DEF ReaderInv, DeskInv, TypeOK, CommitsFollow, IsLedger, Follows
  <1>3. LedgerDrafted(draft[i]) /\ LastRecord(new).seqs[2] <= last
        BY <1>1 DEF ReaderInv, Drafted
  <1>4. Drafted'
        BY <1>1 DEF Drafted
  <1>5. RowsBelow(new)
    <2>1. /\ Len(ledger.requests) \in Nat /\ Len(new.requests) = Len(ledger.requests) + 1
          /\ \A n \in 1..Len(ledger.requests) : new.requests[n] = ledger.requests[n]
          /\ new.requests[Len(new.requests)] = LastRecord(new)
          BY <1>2 DEF Follows, IsLedger, LastRecord
    <2>2. ASSUME NEW n \in 1..Len(new.requests) PROVE new.requests[n].seqs[2] <= last
      <3>1. CASE n = Len(new.requests)
            BY <3>1, <2>1, <1>3
      <3>2. CASE n \in 1..Len(ledger.requests)
        <4>1. new.requests[n] = ledger.requests[n] /\ ledger.requests[n] \in RequestRecord
              BY <3>2, <2>1, <1>2 DEF IsLedger
        <4>2. new.requests[n].seqs[2] \in Nat /\ new.requests[n].seqs[2] <= tip
              BY <4>1, <3>2 DEF RequestRecord, ReaderInv, RowsBelow
        <4> QED BY <4>2, <1>2
      <3> QED BY <3>1, <3>2, <2>1
    <2> QED BY <2>2 DEF RowsBelow
  <1>6. ViewFits'
        BY <1>1, <1>2 DEF ReaderInv, ViewFits
  <1>7. CASE last = tip
    <2>1. new.lastEventSha256 = ledger.lastEventSha256 /\ new.version = ledger.version
          BY <1>2, <1>3, <1>7 DEF LedgerDrafted
    <2>2. SegmentsWhole' /\ OrphansFit'
          BY <1>1, <1>7, <2>1 DEF ReaderInv, SegmentsWhole, OrphansFit
    <2>3. StartsOnce' => Chained' /\ TipOf(view)'
          BY <1>1, <1>7, <2>1 DEF ReaderInv, StartsOnce, Chained, TipOf
    <2> QED BY <2>2, <2>3, <1>1, <1>4, <1>5, <1>6 DEF ReaderPart
  <1>8. CASE last > tip
    <2>1. /\ name \in DOMAIN segments
          /\ Line(segments, name, tip + 1).prevSha256 = ledger.lastEventSha256
          /\ Sha256(Line(segments, name, last)) = new.lastEventSha256
          BY <1>2, <1>3, <1>8 DEF LedgerDrafted
    <2>2. name[1] = tip + 1 /\ name[2] = last
          OBVIOUS
    <2> HIDE DEF name
    <2>3. \A s \in DOMAIN segments : /\ s[1] \in Nat \ {0} /\ s[2] \in Nat
                                     /\ s[1] <= s[2] /\ s[1] <= tip + 1
          BY DEF ReaderInv, SegmentsWhole
    <2>4. \A s \in DOMAIN segments : s[1] <= last + 1 /\ s[1] # last + 1
          BY <2>3, <1>2, <1>8
    <2>5. SegmentsWhole'
          BY <1>1, <2>4 DEF ReaderInv, SegmentsWhole
    <2>6. OrphansFit'
          BY <1>1, <2>4 DEF OrphansFit
    <2>7. ASSUME StartsOnce' PROVE Chained' /\ TipOf(view)'
      <3>1. StartsOnce
            BY <2>7, <1>1 DEF StartsOnce
      <3>2. Chained /\ TipOf(view)
            BY <3>1 DEF ReaderInv
      <3>3. \A s \in DOMAIN segments : s = name \/ (s[1] <= tip /\ s[2] <= tip)
        <4>1. \A s \in DOMAIN segments : s[1] <= tip => s[2] <= tip
              BY <3>2 DEF Chained
        <4>2. \A s \in DOMAIN segments : s[1] = tip + 1 => s = name
              BY <3>1, <2>1, <2>2 DEF StartsOnce
        <4> QED BY <4>1, <4>2, <2>3, <1>2
      <3>4. TipOf(view)'
            BY <3>2, <1>1 DEF TipOf
      <3>5. TipOf(ledger)'
            BY <1>1, <1>2, <1>8, <2>1, <2>2 DEF TipOf
      <3>6. \A s, t \in DOMAIN segments : s[1] < t[1] => s[2] < t[1]
            BY <3>2 DEF Chained
      <3>7. \A s \in DOMAIN segments : s[1] <= last => s[2] <= last
            BY <3>3, <2>2, <2>3, <1>2, <1>8
      <3>8. ASSUME NEW n \in 1..last PROVE \E s \in DOMAIN segments : s[1] <= n /\ n <= s[2]
        <4>1. CASE n \in 1..tip
              BY <4>1, <3>2 DEF Chained
        <4>2. CASE n > tip
              BY <4>2, <2>1, <2>2, <1>2
        <4> QED BY <4>1, <4>2, <1>2
      <3>9. ASSUME NEW s \in DOMAIN segments
            PROVE  IF s[1] = 1 THEN Line(segments, s, 1).prevSha256 = NoSha
                   ELSE \E t \in DOMAIN segments :
                     /\ t[1] <= s[1] - 1 /\ s[1] - 1 <= t[2]
                     /\ Line(segments, s, s[1]).prevSha256 = Sha256(Line(segments, t, s[1] - 1))
        <4>1. CASE s = name /\ tip = 0
          <5>1. s[1] = 1 /\ Line(segments, s, 1).prevSha256 = ledger.lastEventSha256
                BY <4>1, <2>1, <2>2
          <5>2. ledger.lastEventSha256 = NoSha
                BY <4>1, <3>2 DEF Chained
          <5> QED BY <5>1, <5>2
        <4>2. CASE s = name /\ tip # 0
          <5>1. PICK t \in DOMAIN segments : /\ t[1] <= tip /\ tip <= t[2]
                                             /\ Sha256(Line(segments, t, tip)) = ledger.lastEventSha256
                BY <4>2, <3>2, <1>2 DEF Chained, TipOf
          <5>2. s[1] = tip + 1 /\ s[1] # 1 /\ s[1] - 1 = tip
                BY <4>2, <2>2, <1>2
          <5>3. Line(segments, s, s[1]).prevSha256 = Sha256(Line(segments, t, s[1] - 1))
                BY <4>2, <5>1, <5>2, <2>1
          <5> QED BY <5>1, <5>2, <5>3
        <4>3. CASE s # name
          <5>1. s[1] <= tip
                BY <4>3, <3>3
          <5> QED BY <5>1, <3>2 DEF Chained
        <4> QED BY <4>1, <4>2, <4>3
      <3>10. last # 0
             BY <1>2, <1>8
      <3>11. ledger'.lastEventSeq = last /\ segments' = segments
             BY <1>1
      <3> HIDE DEF last
      <3>12. Chained'
             BY <3>5, <3>6, <3>7, <3>8, <3>9, <3>10, <3>11 DEF Chained
      <3> QED BY <3>4, <3>12
    <2> QED BY <2>5, <2>6, <2>7, <1>1, <1>4, <1>5, <1>6 DEF ReaderPart
  <1> QED BY <1>2, <1>7, <1>8

\* Reading ledger.json: the view is the ledger of that moment.
LEMMA ReadKeeps ==
    ASSUME ReaderInv, ReadLedgerFile
    PROVE  ReaderInv'
  <1>1. view' = ledger /\ UNCHANGED vars
        BY DEF ReadLedgerFile
  <1>2. DeskInv'
        BY <1>1, NextInv DEF ReaderInv
  <1>3. UNCHANGED <<ledger, segments, pc, draft>>
        BY <1>1 DEF vars, storeVars
  <1>4. SegmentsWhole' /\ OrphansFit' /\ RowsBelow(ledger)'
        BY <1>3 DEF ReaderInv, SegmentsWhole, OrphansFit, RowsBelow
  <1>5. Drafted'
        BY <1>3 DEF ReaderInv, Drafted, SegmentDrafted, LedgerDrafted
  <1>6. ViewFits'
    <2>1. ledger.lastEventSeq \in Nat /\ RequestsRefine(ledger)
          BY DEF ReaderInv, DeskInv, TypeOK, IsLedger, RequestsOnce, RowsBelow, RequestsRefine
    <2> QED BY <2>1, <1>1, <1>3 DEF ViewFits, RequestsRefine
  <1>7. StartsOnce' => Chained' /\ TipOf(view)'
        BY <1>1, <1>3 DEF ReaderInv, StartsOnce, Chained, TipOf
  <1> QED BY <1>2, <1>4, <1>5, <1>6, <1>7 DEF ReaderInv

\* Every step keeps what a reader relies on.
LEMMA ReaderKeeps == ReaderInv /\ [ReaderNext]_<<vars, view>> => ReaderInv'
  <1> SUFFICES ASSUME ReaderInv, [ReaderNext]_<<vars, view>> PROVE ReaderInv'
      OBVIOUS
  <1>1. CASE ReadLedgerFile
        BY <1>1, ReadKeeps
  <1>2. ASSUME ReaderPart', [Next]_vars PROVE ReaderInv'
        BY <1>2, NextInv DEF ReaderInv, ReaderPart
  <1>3. CASE UNCHANGED <<vars, view>>
        BY <1>2, <1>3, NothingWritten DEF vars, storeVars
  <1>4. CASE RecoveryNext /\ UNCHANGED storeVars /\ UNCHANGED view
        BY <1>2, <1>4, NothingWritten DEF storeVars, Next
  <1>5. CASE StoreNext /\ UNCHANGED recoveryVars /\ UNCHANGED view
    <2>1. PICK i \in Instances :
            StoreStep(i) \/ Crash(i) \/ \E k \in Keys, b \in Bodies : Transact(i, k, b)
          BY <1>5 DEF StoreNext
    <2>2. CASE DecideRejected(i) \/ DecideCommitted(i)
          BY <1>2, <1>5, <2>2, DecideKeeps DEF Next
    <2>3. CASE RenameSegment(i)
          BY <1>2, <1>5, <2>3, SegmentKeeps DEF Next
    <2>4. CASE RenameLedger(i) \/ CommitUnsynced(i)
          BY <1>2, <1>5, <2>4, LedgerKeeps DEF Next
    <2>5. CASE OpenLock(i) \/ LockRefused(i) \/ WriteLock(i) \/ WriteLockFails(i)
                 \/ Refuse(i) \/ Replay(i) \/ WriteFails(i) \/ ReleaseLock(i)
                 \/ ReleaseFails(i) \/ Crash(i) \/ \E k \in Keys, b \in Bodies : Transact(i, k, b)
      <3>1. UNCHANGED <<ledger, segments>>
            BY <2>5 DEF OpenLock, LockRefused, WriteLock, WriteLockFails, Refuse, Replay,
               WriteFails, ReleaseLock, ReleaseFails, Crash, Transact
      <3>2. /\ \A j \in Instances \ {i} : pc'[j] = pc[j] /\ draft'[j] = draft[j]
            /\ pc'[i] \notin {"segment", "commit"}
            BY <2>5 DEF OpenLock, LockRefused, WriteLock, WriteLockFails, Refuse, Replay,
               WriteFails, ReleaseLock, ReleaseFails, Crash, Transact, Goto, Leave,
               ReaderInv, DeskInv, TypeOK
      <3> QED BY <1>2, <1>5, <3>1, <3>2, NothingWritten DEF Next
    <2> QED BY <2>1, <2>2, <2>3, <2>4, <2>5 DEF StoreStep
  <1> QED BY <1>1, <1>3, <1>4, <1>5 DEF ReaderNext, Next

-----------------------------------------------------------------------------
(* Reading *)

\* Each number up to the tip lies in one segment file.
LEMMA OneFile ==
    ASSUME ReaderInv, StartsOnce, NEW s \in DOMAIN segments, NEW n \in 1..ledger.lastEventSeq,
           s[1] <= n, n <= s[2]
    PROVE  {t \in DOMAIN segments : t[1] <= n /\ n <= t[2]} = {s}
  <1>1. Chained
        BY DEF ReaderInv
  <1>2. \A t, u \in DOMAIN segments : t[1] < u[1] => t[2] < u[1]
        BY <1>1 DEF Chained
  <1>3. \A t \in DOMAIN segments : t[1] \in Nat /\ t[2] \in Nat
        BY DEF ReaderInv, SegmentsWhole
  <1>4. ledger.lastEventSeq \in Nat
        BY DEF ReaderInv, DeskInv, TypeOK, IsLedger
  <1>5. ASSUME NEW t \in DOMAIN segments, t[1] <= n, n <= t[2] PROVE t = s
    <2>1. t[1] = s[1]
          BY <1>2, <1>3, <1>4, <1>5
    <2> QED BY <2>1 DEF StartsOnce
  <1> QED BY <1>5

\* verifyChain accepts a ledger of which the tip is known, present or past.
LEMMA ChainIsThere ==
    ASSUME ReaderInv, StartsOnce, NEW led, led.lastEventSeq \in Nat,
           led.lastEventSeq <= ledger.lastEventSeq, TipOf(led)
    PROVE  ChainVerifies(led, segments)
  <1> DEFINE tip == led.lastEventSeq
             files == {s \in DOMAIN segments : s[1] <= tip}
             Over(n) == {s \in files : s[1] <= n /\ n <= s[2]}
             Found(n) == LET s == CHOOSE s \in Over(n) : TRUE IN segments[s][n - s[1] + 1]
  <1> SUFFICES ASSUME tip > 0
               PROVE  /\ \A n \in 1..tip : Cardinality(Over(n)) = 1
                      /\ \A n \in 1..tip : /\ Found(n).seq = n
                                           /\ Found(n).prevSha256 =
                                                IF n = 1 THEN NoSha ELSE Sha256(Found(n - 1))
                      /\ Sha256(Found(tip)) = led.lastEventSha256
      BY DEF ChainVerifies
  <1>1. ledger.lastEventSeq \in Nat /\ Chained
        BY DEF ReaderInv, DeskInv, TypeOK, IsLedger
  <1>2. \A s \in DOMAIN segments : s[1] \in Nat \ {0} /\ s[2] \in Nat
        BY DEF ReaderInv, SegmentsWhole
  <1>3. ASSUME NEW n \in 1..tip, NEW s \in DOMAIN segments, s[1] <= n, n <= s[2]
        PROVE  Over(n) = {s} /\ Found(n) = Line(segments, s, n)
    <2>1. n \in 1..ledger.lastEventSeq
          BY <1>1
    <2>2. {t \in DOMAIN segments : t[1] <= n /\ n <= t[2]} = {s}
          BY <2>1, <1>3, OneFile
    <2>3. Over(n) = {t \in DOMAIN segments : t[1] <= n /\ n <= t[2]}
          BY <1>2
    <2>4. Over(n) = {s}
          BY <2>2, <2>3
    <2> HIDE DEF Over
    <2>5. (CHOOSE t \in Over(n) : TRUE) = s
          BY <2>4
    <2> QED BY <2>4, <2>5 DEF Line
  <1>4. \A n \in 1..tip : \E s \in DOMAIN segments : s[1] <= n /\ n <= s[2]
    <2>1. \A n \in 1..ledger.lastEventSeq : \E s \in DOMAIN segments : s[1] <= n /\ n <= s[2]
          BY <1>1 DEF Chained
    <2> QED BY <2>1, <1>1
  <1> HIDE DEF Over, Found
  <1>5. ASSUME NEW n \in 1..tip PROVE Cardinality(Over(n)) = 1
    <2>1. PICK s \in DOMAIN segments : s[1] <= n /\ n <= s[2]
          BY <1>4
    <2>2. Over(n) = {s}
          BY <2>1, <1>3
    <2> QED BY <2>2, FS_Singleton
  <1>6. ASSUME NEW n \in 1..tip
        PROVE  Found(n).seq = n /\ Found(n).prevSha256 = IF n = 1 THEN NoSha ELSE Sha256(Found(n - 1))
    <2>1. PICK s \in DOMAIN segments : s[1] <= n /\ n <= s[2]
          BY <1>4
    <2>2. Found(n) = Line(segments, s, n) /\ n \in s[1]..s[2] /\ s[1] \in Nat \ {0}
          BY <2>1, <1>2, <1>3
    <2>3. Found(n).seq = n
          BY <2>2 DEF ReaderInv, SegmentsWhole
    <2>4. CASE n > s[1]
      <3>1. n - 1 \in 1..tip /\ s[1] <= n - 1 /\ n - 1 <= s[2] /\ n # 1
            BY <2>1, <2>2, <2>4, <1>2
      <3>2. Found(n - 1) = Line(segments, s, n - 1)
            BY <3>1, <1>3
      <3>3. Line(segments, s, n).prevSha256 = Sha256(Line(segments, s, n - 1))
            BY <2>2, <2>4 DEF ReaderInv, SegmentsWhole
      <3> QED BY <2>2, <2>3, <3>1, <3>2, <3>3
    <2>5. CASE n = s[1]
      <3>1. IF n = 1 THEN Line(segments, s, 1).prevSha256 = NoSha
            ELSE \E t \in DOMAIN segments :
                   /\ t[1] <= n - 1 /\ n - 1 <= t[2]
                   /\ Line(segments, s, n).prevSha256 = Sha256(Line(segments, t, n - 1))
            BY <2>5, <1>1 DEF Chained
      <3>2. CASE n = 1
            BY <3>1, <3>2, <2>2, <2>3
      <3>3. CASE n # 1
        <4>1. PICK t \in DOMAIN segments :
                   /\ t[1] <= n - 1 /\ n - 1 <= t[2]
                   /\ Line(segments, s, n).prevSha256 = Sha256(Line(segments, t, n - 1))
              BY <3>1, <3>3
        <4>2. n - 1 \in 1..tip
              BY <3>3
        <4>3. Found(n - 1) = Line(segments, t, n - 1)
              BY <4>1, <4>2, <1>3
        <4> QED BY <4>1, <4>3, <2>2, <2>3, <3>3
      <3> QED BY <3>2, <3>3
    <2> QED BY <2>2, <2>4, <2>5
  <1>7. Sha256(Found(tip)) = led.lastEventSha256
    <2>1. PICK s \in DOMAIN segments :
            /\ s[1] <= tip /\ tip <= s[2] /\ Sha256(Line(segments, s, tip)) = led.lastEventSha256
          BY DEF TipOf
    <2>2. Found(tip) = Line(segments, s, tip)
          BY <2>1, <1>3
    <2> QED BY <2>1, <2>2
  <1> QED BY <1>5, <1>6, <1>7

\* A reader's ledger.json, and the present one, read cleanly.
LEMMA ReadsAreClean ==
    ASSUME ReaderInv, StartsOnce PROVE LocklessReadVerifies /\ LedgerReadsBack
  <1>1. /\ ledger.lastEventSeq \in Nat /\ ledger.lastEventSeq <= ledger.lastEventSeq
        /\ RequestsRefine(ledger) /\ TipOf(ledger)
        BY DEF ReaderInv, DeskInv, TypeOK, IsLedger, RequestsOnce, RowsBelow, RequestsRefine, Chained
  <1>2. /\ view.lastEventSeq \in Nat /\ view.lastEventSeq <= ledger.lastEventSeq
        /\ RequestsRefine(view) /\ TipOf(view)
        BY DEF ReaderInv, ViewFits
  <1> QED BY <1>1, <1>2, ChainIsThere DEF LocklessReadVerifies, LedgerReadsBack, ReadsClean

(***************************************************************************)
(* The inductive invariant of commits and their readers (read, commit and  *)
(* verifyChain of desk-store.ts): whatever was committed is chained in the *)
(* segment files, and every draft continues it.                            *)
(***************************************************************************)
THEOREM ReadersInvariant == ReaderSpec => []ReaderInv
  <1> QED BY InitReads, ReaderKeeps, PTL DEF ReaderSpec

(***************************************************************************)
(* read() without the lock, and after every crash, failed write and        *)
(* recovery: as long as no crashed commit left a segment file that starts  *)
(* where a file of another length starts, ledger.json verifies against the *)
(* segments, however late they are opened.  So the orphan that a commit of *)
(* another length meets is the only way to a false "corrupt".              *)
(***************************************************************************)
THEOREM OnlyOrphansMislead ==
    ReaderSpec => [](StartsOnce => LocklessReadVerifies /\ LedgerReadsBack)
  <1>1. ReaderInv => (StartsOnce => LocklessReadVerifies /\ LedgerReadsBack)
        BY ReadsAreClean
  <1> QED BY <1>1, ReadersInvariant, PTL

\* When commits are alike, an orphan is replaced by the next commit.
LEMMA AlikeKeeps ==
    ASSUME CommitsAlike
    PROVE  ReaderInv /\ StartsOnce /\ [ReaderNext]_<<vars, view>> => StartsOnce'
  <1> USE StoreAssumption
  <1> SUFFICES ASSUME ReaderInv, StartsOnce, [ReaderNext]_<<vars, view>> PROVE StartsOnce'
      OBVIOUS
  <1>1. CASE segments' = segments
        BY <1>1 DEF StartsOnce
  <1>2. ASSUME NEW i \in Instances, RenameSegment(i) PROVE StartsOnce'
    <2> DEFINE tip == ledger.lastEventSeq
               last == draft[i].ledger.lastEventSeq
               name == <<tip + 1, last>>
    <2>1. SegmentDrafted(draft[i]) /\ tip \in Nat
          BY <1>2 DEF RenameSegment, At, ReaderInv, Drafted, DeskInv, TypeOK, IsLedger
    <2>2. last \in Nat /\ last - tip >= 1 /\ draft[i].events[1].seq = tip + 1
      <3>1. last \in Nat /\ last - tip >= 1
            BY <2>1 DEF SegmentDrafted
      <3>2. 1 \in 1..(last - tip)
            BY <3>1, <2>1
      <3> QED BY <3>1, <3>2, <2>1, Zenon DEF SegmentDrafted
    <2>3. DOMAIN segments' = DOMAIN segments \cup {name}
          BY <1>2, <2>2 DEF RenameSegment
    <2>4. PICK n \in EventCounts : last - tip = IF ledger.version = "legacy" THEN n + 1 ELSE n
          BY <2>1 DEF SegmentDrafted
    <2>5. ASSUME NEW s \in DOMAIN segments, s[1] = tip + 1 PROVE s = name
      <3>1. PICK m \in EventCounts : s[2] = tip + (IF ledger.version = "legacy" THEN m + 1 ELSE m)
            BY <2>5 DEF ReaderInv, OrphansFit
      <3>2. m = n
            BY DEF CommitsAlike
      <3>3. s[2] = last
            BY <3>1, <3>2, <2>1, <2>2, <2>4
      <3>4. s = <<s[1], s[2]>>
            BY DEF ReaderInv, SegmentsWhole
      <3> QED BY <3>3, <3>4, <2>5
    <2>6. name[1] = tip + 1
          OBVIOUS
    <2> HIDE DEF name
    <2> QED BY <2>3, <2>5, <2>6 DEF StartsOnce
  <1>3. segments' = segments \/ \E i \in Instances : RenameSegment(i)
    <2>1. CASE UNCHANGED <<vars, view>> \/ ReadLedgerFile \/ UNCHANGED storeVars
          BY <2>1 DEF vars, storeVars, ReadLedgerFile
    <2>2. CASE StoreNext
      <3>1. PICK i \in Instances :
              StoreStep(i) \/ Crash(i) \/ \E k \in Keys, b \in Bodies : Transact(i, k, b)
            BY <2>2 DEF StoreNext
      <3> QED BY <3>1 DEF StoreStep, OpenLock, LockRefused, WriteLock, WriteLockFails, Refuse,
                 Replay, DecideRejected, DecideCommitted, RenameLedger, WriteFails,
                 CommitUnsynced, ReleaseLock, ReleaseFails, Crash, Transact
    <2> QED BY <2>1, <2>2 DEF ReaderNext, Next
  <1> QED BY <1>1, <1>2, <1>3

(***************************************************************************)
(* When every commit has as many events as any other, no orphan misleads:  *)
(* a read without the lock verifies, however late it opens the segments.   *)
(***************************************************************************)
THEOREM AlikeCommitsReadBack ==
    ASSUME CommitsAlike PROVE ReaderSpec => [](LocklessReadVerifies /\ LedgerReadsBack)
  <1>1. ReaderInit => StartsOnce
    <2> SUFFICES ASSUME ReaderInit PROVE StartsOnce
        OBVIOUS
    <2>1. \A s, t \in DOMAIN segments : s = t
          BY DEF ReaderInit, Init, StoreInit
    <2> QED BY <2>1 DEF StartsOnce
  <1>2. ReaderInv /\ StartsOnce /\ [ReaderNext]_<<vars, view>> => StartsOnce'
        BY AlikeKeeps
  <1>3. ReaderInv /\ StartsOnce => LocklessReadVerifies /\ LedgerReadsBack
        BY ReadsAreClean
  <1> QED BY <1>1, <1>2, <1>3, ReadersInvariant, PTL DEF ReaderSpec
=============================================================================
