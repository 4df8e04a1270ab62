----------------------------- MODULE DeskStore ------------------------------
(***************************************************************************)
(* The durable desk store kernel (plugin/server/desk-store.ts): how one    *)
(* repository's ledger is committed.  ledger.json is replaced by a rename, *)
(* which is the commit point; the events of a commit are written before it *)
(* to their own segment file events/<first>-<last>.jsonl; both happen      *)
(* while the instance holds the O_EXCL lock file.  An instance may crash   *)
(* between any two steps and every file operation may fail.                *)
(*                                                                         *)
(* Abstracted: `decide' (the desk's commands) is a choice among its        *)
(* outcomes, the tables it replaces are not represented, a digest is an    *)
(* injective constructor, and temporary files (never read) are left out.   *)
(***************************************************************************)
EXTENDS DeskLock, Sequences

CONSTANTS
    Keys,           \* idempotency keys (actorKey, assignmentId, requestId)
    Bodies,         \* digests of a request's body
    Times,          \* readings of the clock, stamped on events
    EventCounts,    \* how many events a successful decide may return
    RequestsLimit,  \* LEDGER_LIMITS.requests
    None            \* no request in hand, no draft, no outcome to return

ASSUME StoreAssumption ==
    /\ EventCounts \subseteq Nat
    /\ RequestsLimit \in Nat

VARIABLES
    ledger,         \* the contents of ledger.json
    segments,       \* the segment files: <<first, last>> -> events
    pc,             \* where each instance is in `transact'
    job,            \* the request each instance is working on
    draft,          \* what each instance is about to write
    reply,          \* the recorded outcome it will return, or None
    acks            \* the recorded outcomes callers have been shown

storeVars == <<ledger, segments, pc, job, draft, reply, acks>>

-----------------------------------------------------------------------------
(* Records, events and ledgers *)

\* RequestRecordSchema; seqs is <<0, 0>> where the code has eventSeqs: null.
RequestRecord ==
    [key: Keys, body: Bodies, revision: Nat,
     outcome: {"committed", "rejected"}, seqs: Nat \X Nat]

NoSeqs == <<0, 0>>

\* canonicalSha256 of an event: different events have different digests.
Sha256(event) == <<"sha256", event>>
NoSha         == <<>>

\* freshLedger: what an absent ledger.json stands for.
FreshLedger ==
    [version |-> "current", revision |-> 0, lastEventSeq |-> 0,
     lastEventSha256 |-> NoSha, requests |-> <<>>]

\* A ledger persisted by an earlier release, with one committed request.
LegacyEvent(k) == [seq |-> 1, prevSha256 |-> NoSha, at |-> 0, key |-> k]
LegacyLedger(k, b) ==
    [version |-> "legacy", revision |-> 1, lastEventSeq |-> 1,
     lastEventSha256 |-> Sha256(LegacyEvent(k)),
     requests |-> <<[key |-> k, body |-> b, revision |-> 1,
                     outcome |-> "committed", seqs |-> <<1, 1>>]>>]

(***************************************************************************)
(* verifyChain: the segments that start at or below the ledger's last      *)
(* sequence number must lie end to end from 1 (a segment that reaches      *)
(* beyond the tip is read up to it), and the events in them must link by   *)
(* digest from null to the recorded tip.  Segments that start above the    *)
(* tip are orphans and are skipped.                                        *)
(***************************************************************************)
ChainVerifies(led, segs) ==
    LET tip      == led.lastEventSeq
        files    == {s \in DOMAIN segs : s[1] <= tip}
        Over(n)  == {s \in files : s[1] <= n /\ n <= s[2]}
        Event(n) == LET s == CHOOSE s \in Over(n) : TRUE
                    IN  segs[s][n - s[1] + 1]
    IN  tip > 0 =>
           /\ \A n \in 1..tip : Cardinality(Over(n)) = 1
           /\ \A n \in 1..tip :
                /\ Event(n).seq = n
                /\ Event(n).prevSha256 =
                       IF n = 1 THEN NoSha ELSE Sha256(Event(n - 1))
           /\ Sha256(Event(tip)) = led.lastEventSha256

\* checkRefinements, the part about the requests table.
RequestsRefine(led) ==
    /\ \A m, n \in 1..Len(led.requests) :
         led.requests[m].key = led.requests[n].key => m = n
    /\ \A n \in 1..Len(led.requests) :
         led.requests[n].seqs[2] <= led.lastEventSeq

\* read() answers ok (or absent): everything else is corrupt.
ReadsClean(led, segs) == ChainVerifies(led, segs) /\ RequestsRefine(led)

\* The record of an earlier run of the same request, if there is one.
PriorRecords(led, k) == {n \in 1..Len(led.requests) : led.requests[n].key = k}

\* The events of a commit, chained to the ledger's tip.
BuildEvents(led, k, count, at) ==
    LET built[n \in 1..count] ==
          [seq |-> led.lastEventSeq + n,
           prevSha256 |-> IF n = 1 THEN led.lastEventSha256
                                   ELSE Sha256(built[n - 1]),
           at |-> at, key |-> k]
    IN  built

-----------------------------------------------------------------------------
(* transact and commit *)

StoreInit ==
    /\ \/ /\ ledger = FreshLedger
          /\ segments = <<>>
       \/ \E k \in Keys, b \in Bodies :
            /\ ledger = LegacyLedger(k, b)
            /\ segments = [s \in {<<1, 1>>} |-> <<LegacyEvent(k)>>]
    /\ pc = [i \in Instances |-> "idle"]
    /\ job = [i \in Instances |-> None]
    /\ draft = [i \in Instances |-> None]
    /\ reply = [i \in Instances |-> None]
    /\ acks = {}

Goto(i, label) == pc' = [pc EXCEPT ![i] = label]

\* commit() has returned or thrown: its locals are gone.
Leave(i, label) ==
    /\ pc' = [pc EXCEPT ![i] = label]
    /\ job' = [job EXCEPT ![i] = None]
    /\ draft' = [draft EXCEPT ![i] = None]
    /\ reply' = [reply EXCEPT ![i] = None]

At(i, label) == i \in live /\ pc[i] = label

\* transact: the in-process mutex lets one commit of an instance run at a time.
Transact(i, k, b) ==
    /\ At(i, "idle")
    /\ job' = [job EXCEPT ![i] = [key |-> k, body |-> b]]
    /\ Goto(i, "acquire")
    /\ UNCHANGED <<lockVars, ledger, segments, draft, reply, acks>>

\* acquireLock: openSync(path, "wx").
OpenLock(i) ==
    /\ At(i, "acquire")
    /\ lock = Absent
    /\ lock' = Blank(i)
    /\ Goto(i, "writeLock")
    /\ UNCHANGED <<live, ledger, segments, job, draft, reply, acks>>

\* Mutant: the wait expires only when the holder is found dead.
LockRefusedOfTheDead(i) ==
    /\ At(i, "acquire")
    /\ lock.by \notin live
    /\ Leave(i, "idle")
    /\ UNCHANGED <<lockVars, ledger, segments, acks>>

(***************************************************************************)
(* The wait for the lock expires (desk-busy when the holder is or may be   *)
(* alive, RECOVERY_REQUIRED otherwise), or the directory or the lock file  *)
(* cannot be created.  Nothing is recorded and the file is left in place.  *)
(***************************************************************************)
LockRefused(i) ==
    /\ At(i, "acquire")
    /\ Leave(i, "idle")
    /\ UNCHANGED <<lockVars, ledger, segments, acks>>

WriteLock(i) ==
    /\ At(i, "writeLock")
    /\ lock' = Record(i)
    /\ Goto(i, "locked")
    /\ UNCHANGED <<live, ledger, segments, job, draft, reply, acks>>

\* writeSync or fsyncSync throws: the commit fails before its try block, so
\* no releaseLock runs and the file stays, with or without the record.
WriteLockFails(i) ==
    /\ At(i, "writeLock")
    /\ lock' \in {Blank(i), Record(i)}
    /\ Leave(i, "idle")
    /\ UNCHANGED <<live, ledger, segments, acks>>

\* The ledger reads cleanly and has a record of this request with this body.
CanReplay(i) ==
    /\ ReadsClean(ledger, segments)
    /\ \E n \in PriorRecords(ledger, job[i].key) :
         ledger.requests[n].body = job[i].body

\* Any return of commit() that leaves the durable state alone and shows the
\* caller no recorded outcome: unreadable ledger, a key reused for another
\* body, a full requests table, an invalid decision, or a commit that would
\* eat into the reserved capacity or the byte limit.
Refuse(i) ==
    /\ At(i, "locked")
    /\ ~CanReplay(i)
    /\ Goto(i, "release")
    /\ UNCHANGED <<lockVars, ledger, segments, job, draft, reply, acks>>

\* The request was recorded before with this body: its outcome is replayed.
Replay(i) ==
    /\ At(i, "locked")
    /\ CanReplay(i)
    /\ \E n \in PriorRecords(ledger, job[i].key) :
         /\ ledger.requests[n].body = job[i].body
         /\ reply' = [reply EXCEPT ![i] = ledger.requests[n]]
    /\ Goto(i, "release")
    /\ UNCHANGED <<lockVars, ledger, segments, job, draft, acks>>

\* The guards every recorded decision has passed.
MayDecide(i) ==
    /\ At(i, "locked")
    /\ ReadsClean(ledger, segments)
    /\ PriorRecords(ledger, job[i].key) = {}
    /\ Len(ledger.requests) < RequestsLimit

\* commit's `record': the row a decision adds to the requests table.
RequestOf(i, outcome, seqs) ==
    [key |-> job[i].key, body |-> job[i].body,
     revision |-> ledger.revision + 1, outcome |-> outcome, seqs |-> seqs]

\* commit's `candidate': the ledger that would replace ledger.json.
Candidate(version, last, tip, record) ==
    [version |-> version, revision |-> ledger.revision + 1,
     lastEventSeq |-> last, lastEventSha256 |-> tip,
     requests |-> Append(ledger.requests, record)]

\* Mutant: a rejection is answered without being recorded.
DecideRejectedUnrecorded(i) ==
    /\ MayDecide(i)
    /\ reply' = [reply EXCEPT ![i] = RequestOf(i, "rejected", NoSeqs)]
    /\ Goto(i, "release")
    /\ UNCHANGED <<lockVars, ledger, segments, job, draft, acks>>

\* decide rejects: the rejection is recorded, without events, and a legacy
\* ledger keeps its persisted version (persistedLedgerShape).
DecideRejected(i) ==
    /\ MayDecide(i)
    /\ draft' = [draft EXCEPT ![i] =
         [ledger |-> Candidate(ledger.version, ledger.lastEventSeq,
                               ledger.lastEventSha256,
                               RequestOf(i, "rejected", NoSeqs)),
          events |-> <<>>]]
    /\ Goto(i, "commit")
    /\ UNCHANGED <<lockVars, ledger, segments, job, reply, acks>>

\* decide succeeds with n events; the first success on a legacy ledger also
\* migrates it and is led by a schema-migrated event.
DecideCommitted(i) ==
    /\ MayDecide(i)
    /\ \E n \in EventCounts, at \in Times :
         LET count  == IF ledger.version = "legacy" THEN n + 1 ELSE n
             events == BuildEvents(ledger, job[i].key, count, at)
             last   == ledger.lastEventSeq + count
             seqs   == IF count = 0 THEN NoSeqs
                                    ELSE <<ledger.lastEventSeq + 1, last>>
             tip    == IF count = 0 THEN ledger.lastEventSha256
                                    ELSE Sha256(events[count])
         IN  /\ draft' = [draft EXCEPT ![i] =
                  [ledger |-> Candidate("current", last, tip,
                                        RequestOf(i, "committed", seqs)),
                   events |-> events]]
             /\ Goto(i, IF count = 0 THEN "commit" ELSE "segment")
    /\ UNCHANGED <<lockVars, ledger, segments, job, reply, acks>>

\* renameSync(temp, segmentPath): replaces an orphan only of the same name.
RenameSegment(i) ==
    /\ At(i, "segment")
    /\ LET name == <<draft[i].events[1].seq, draft[i].ledger.lastEventSeq>>
       IN  segments' = [s \in DOMAIN segments \cup {name} |->
                          IF s = name THEN draft[i].events ELSE segments[s]]
    /\ Goto(i, "commit")
    /\ UNCHANGED <<lockVars, ledger, job, draft, reply, acks>>

LastRecord(led) == led.requests[Len(led.requests)]

\* atomicWrite(ledgerPath): the commit point.
RenameLedger(i) ==
    /\ At(i, "commit")
    /\ ledger' = draft[i].ledger
    /\ reply' = [reply EXCEPT ![i] = LastRecord(draft[i].ledger)]
    /\ Goto(i, "release")
    /\ UNCHANGED <<lockVars, segments, job, draft, acks>>

\* Mutant: the outcome is returned whether or not the write failed.
WriteFailsUnnoticed(i) ==
    /\ pc[i] \in {"segment", "commit"} /\ i \in live
    /\ reply' = [reply EXCEPT ![i] = LastRecord(draft[i].ledger)]
    /\ Goto(i, "release")
    /\ UNCHANGED <<lockVars, ledger, segments, job, draft, acks>>

\* A file operation fails before its rename (or the segment's directory
\* cannot be synced): IO_FAILURE, nothing is undone.
WriteFails(i) ==
    /\ pc[i] \in {"segment", "commit"} /\ i \in live
    /\ Goto(i, "release")
    /\ UNCHANGED <<lockVars, ledger, segments, job, draft, reply, acks>>

\* Mutant: every failed write removes the segment it had written.
CommitUnsyncedCleansUp(i) ==
    /\ At(i, "commit")
    /\ ledger' = draft[i].ledger
    /\ segments' = [s \in {s \in DOMAIN segments : s[1] <= ledger.lastEventSeq}
                      |-> segments[s]]
    /\ Goto(i, "release")
    /\ UNCHANGED <<lockVars, job, draft, reply, acks>>

\* The ledger was renamed and its directory could not be synced: the commit
\* has happened although the caller is told IO_FAILURE.
CommitUnsynced(i) ==
    /\ At(i, "commit")
    /\ ledger' = draft[i].ledger
    /\ Goto(i, "release")
    /\ UNCHANGED <<lockVars, segments, job, draft, reply, acks>>

\* releaseLock: only a lock file that still names this instance is removed.
ReleaseLock(i) ==
    /\ At(i, "release")
    /\ ParseLockHolder(lock) = i
    /\ lock' = Absent
    /\ acks' = acks \cup ({reply[i]} \ {None})
    /\ Leave(i, "idle")
    /\ UNCHANGED <<live, ledger, segments>>

\* releaseLock throws from the finally block: the file cannot be read or
\* unlinked, is not ours, or its directory cannot be synced.  IO_FAILURE
\* replaces the outcome.
ReleaseFails(i) ==
    /\ At(i, "release")
    /\ \/ lock' = lock
       \/ ParseLockHolder(lock) = i /\ lock' = Absent
    /\ Leave(i, "idle")
    /\ UNCHANGED <<live, ledger, segments, acks>>

\* The process dies; its files stay as they are.
Crash(i) ==
    /\ i \in live
    /\ live' = live \ {i}
    /\ Leave(i, "dead")
    /\ UNCHANGED <<lock, ledger, segments, acks>>

\* The steps an instance takes by itself once a request has been accepted.
StoreStep(i) ==
    \/ OpenLock(i) \/ LockRefused(i) \/ WriteLock(i) \/ WriteLockFails(i)
    \/ Refuse(i) \/ Replay(i) \/ DecideRejected(i) \/ DecideCommitted(i)
    \/ RenameSegment(i) \/ RenameLedger(i) \/ WriteFails(i)
    \/ CommitUnsynced(i) \/ ReleaseLock(i) \/ ReleaseFails(i)

StoreNext ==
    \/ \E i \in Instances, k \in Keys, b \in Bodies : Transact(i, k, b)
    \/ \E i \in Instances : StoreStep(i) \/ Crash(i)
=============================================================================
