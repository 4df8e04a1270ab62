-------------------------------- MODULE Desk --------------------------------
(***************************************************************************)
(* The desk of one repository: the store instances that commit to its      *)
(* ledger (DeskStore) and the operator runs that recover its lock          *)
(* (DeskRecovery), sharing the lock file.                                  *)
(***************************************************************************)
EXTENDS DeskStore, DeskRecovery

vars == <<lockVars, storeVars, recoveryVars>>

Init == LockInit /\ StoreInit /\ RecoveryInit

Next ==
    \/ StoreNext /\ UNCHANGED recoveryVars
    \/ RecoveryNext /\ UNCHANGED storeVars

Spec == Init /\ [][Next]_vars

\* Every file operation returns and the event loop goes on, so a call that
\* was accepted keeps taking steps while its process lives.
Fairness ==
    /\ \A i \in Instances : WF_vars(StoreStep(i) /\ UNCHANGED recoveryVars)
    /\ \A r \in Recoverers : WF_vars(RecoveryStep(r) /\ UNCHANGED storeVars)

FairSpec == Spec /\ Fairness

-----------------------------------------------------------------------------
Job == [key: Keys, body: Bodies]

\* A ledger record; nothing is said of the digest of its last event.
IsLedger(led) ==
    /\ led = [version |-> led.version, revision |-> led.revision,
              lastEventSeq |-> led.lastEventSeq,
              lastEventSha256 |-> led.lastEventSha256,
              requests |-> led.requests]
    /\ led.version \in {"legacy", "current"}
    /\ led.revision \in Nat
    /\ led.lastEventSeq \in Nat
    /\ led.requests \in Seq(RequestRecord)

TypeOK ==
    /\ LockTypeOK
    /\ IsLedger(ledger)
    /\ pc \in [Instances -> {"idle", "acquire", "writeLock", "locked",
                             "segment", "commit", "release", "dead"}]
    /\ job \in [Instances -> Job \cup {None}]
    /\ DOMAIN draft = Instances
    /\ reply \in [Instances -> RequestRecord \cup {None}]
    /\ acks \subseteq RequestRecord
    /\ recoverLock \in LockFile(Recoverers)
    /\ rpc \in [Recoverers -> {"idle", "writeRecoverLock", "readLock",
                               "recheck", "audit", "unlink",
                               "releaseRecoverLock", "dead"}]
    /\ seen \in [Recoverers -> LockFile(Instances)]
    /\ audit \subseteq Instances

\* The instances between the creation of the lock file and its release.
Holders == {i \in live :
              pc[i] \in {"writeLock", "locked", "segment", "commit", "release"}}

(***************************************************************************)
(* One writer: while a live instance is inside its commit, the lock file   *)
(* exists and is its own, so no other instance can be inside; no recovery, *)
(* however it interleaves, has taken the lock away from it.                *)
(***************************************************************************)
OneWriter == \A i \in Holders : lock.by = i

(***************************************************************************)
(* An acknowledged mutation is never lost: every outcome a caller was ever *)
(* told (committed, rejected or replayed) is in the ledger, through        *)
(* crashes, failed writes and recoveries.  With distinct keys this also    *)
(* means that every repeat of a request is told the same outcome.          *)
(***************************************************************************)
AcknowledgedIsRecorded ==
    \A a \in acks : \E n \in 1..Len(ledger.requests) : ledger.requests[n] = a

(***************************************************************************)
(* A request takes effect at most once: no two ledger rows share a key,    *)
(* and the rows carry the consecutive revisions 1, 2, 3, ...  Two commits  *)
(* decided against the same ledger would break it.                         *)
(***************************************************************************)
RequestsOnce ==
    /\ \A m, n \in 1..Len(ledger.requests) :
         ledger.requests[m].key = ledger.requests[n].key => m = n
    /\ \A n \in 1..Len(ledger.requests) : ledger.requests[n].revision = n

(***************************************************************************)
(* A commit only appends: no step of any process changes or drops a row of *)
(* the ledger or moves its event tip back.                                 *)
(***************************************************************************)
LedgerOnlyGrows ==
    [][/\ \E n \in 0..1 : Len(ledger'.requests) = Len(ledger.requests) + n
       /\ \A n \in 1..Len(ledger.requests) :
            ledger'.requests[n] = ledger.requests[n]
       /\ ledger'.lastEventSeq >= ledger.lastEventSeq]_ledger

(***************************************************************************)
(* Recovery removes only the lock of a dead instance, and only after its   *)
(* audit line is in place: whenever a lock file that was not the acting    *)
(* instance's own disappears, its creator is dead and audited.             *)
(***************************************************************************)
RecoveryOnlyOfTheDead ==
    [][lock # Absent /\ lock' = Absent =>
          \/ \E i \in live : lock.by = i /\ pc[i] = "release" /\ pc'[i] = "idle"
          \/ lock.by \notin live /\ lock.by \in audit]_vars

(***************************************************************************)
(* The ledger can be read back after every crash, failed write and         *)
(* recovery: its event chain verifies and its requests table refines.      *)
(***************************************************************************)
LedgerReadsBack == ReadsClean(ledger, segments)

-----------------------------------------------------------------------------
(* The inductive invariant: what every reachable state has in common that   *)
(* makes the properties above hold after the next step too.                 *)

\* The ledger `new' is `old' with one more row, for a key that `old' lacks.
Follows(new, old) ==
    /\ Len(new.requests) = Len(old.requests) + 1
    /\ new.requests = Append(old.requests, LastRecord(new))
    /\ \A n \in 1..Len(old.requests) :
         old.requests[n].key # LastRecord(new).key
    /\ LastRecord(new).revision = new.revision
    /\ new.revision = old.revision + 1
    /\ new.lastEventSeq >= old.lastEventSeq

\* A commit in progress has a request in hand and will write a ledger that
\* follows the one on disk, which therefore nobody else has replaced.
CommitsFollow ==
    \A i \in Instances :
        /\ pc[i] # "dead" => i \in live
        /\ pc[i] \notin {"idle", "dead"} => job[i] \in Job
        /\ pc[i] \in {"segment", "commit"} =>
             IsLedger(draft[i].ledger) /\ Follows(draft[i].ledger, ledger)

\* The outcome an instance is about to return is a row of the ledger.
RepliesRecorded ==
    \A i \in Instances : reply[i] # None =>
        \E n \in 1..Len(ledger.requests) : ledger.requests[n] = reply[i]

\* A running recoverer owns recover.lock, so there is at most one.
OneRecoverer ==
    \A r \in Recoverers : rpc[r] \notin {"idle", "dead"} => recoverLock.by = r

\* A recoverer acts on the record of a dead instance only, the lock file
\* does not change under it once it has rechecked it, and it has audited
\* the holder by the time it unlinks the file.
RecovererJudged ==
    \A r \in Recoverers :
        /\ rpc[r] \in {"recheck", "audit", "unlink"} =>
             seen[r].file = "record" /\ seen[r].by \in Instances \ live
        /\ rpc[r] \in {"audit", "unlink"} => lock = seen[r]
        /\ rpc[r] = "unlink" => seen[r].by \in audit

DeskInv ==
    /\ TypeOK
    /\ OneWriter
    /\ RequestsOnce
    /\ ledger.revision = Len(ledger.requests)
    /\ AcknowledgedIsRecorded
    /\ CommitsFollow
    /\ RepliesRecorded
    /\ OneRecoverer
    /\ RecovererJudged

-----------------------------------------------------------------------------
(***************************************************************************)
(* Every accepted transaction and every recovery call returns or dies with *)
(* its process: the wait for the lock is bounded, a lock that recovery     *)
(* cannot take ends it, and no path leaves the in-process mutex taken.     *)
(***************************************************************************)
CallsReturn ==
    /\ \A i \in Instances : pc[i] \notin {"idle", "dead"} ~> pc[i] \in {"idle", "dead"}
    /\ \A r \in Recoverers :
          rpc[r] \notin {"idle", "dead"} ~> rpc[r] \in {"idle", "dead"}

(***************************************************************************)
(* The desk implements the abstract log: the rename of ledger.json is the  *)
(* commit, the reply to the caller is the showing, and everything else is  *)
(* invisible.                                                              *)
(***************************************************************************)
Promise == INSTANCE DeskLedger
             WITH log <- ledger.requests, shown <- acks, Outcome <- RequestRecord

ImplementsLedger == Promise!LedgerSpec
=============================================================================
