------------------------------- MODULE Manager -------------------------------
(***************************************************************************)
(* The lifecycle manager (plugin/server/manager.ts): activate, deactivate  *)
(* and reconcile, each accepted by one journal write and carried out by a  *)
(* worker that patches the daemon's config.  There is one step for each    *)
(* stretch between two awaits or two journal writes, so that a crash, a    *)
(* host that answers late and an edit from outside can fall between them.  *)
(*                                                                         *)
(* Abstracted: runtime files, launchers and executables are checks that    *)
(* pass or fail; conflict texts, time stamps, `retained',                  *)
(* `activeOperationId' and `lastDeactivatedBindingSha256' (which only say  *)
(* what status shows and which repeated deactivate is recognised) are left *)
(* out; a repeated operationId is answered from the journal and changes    *)
(* nothing.                                                                *)
(***************************************************************************)
EXTENDS Receipt

CONSTANTS
    MaxOps,         \* bound: operations accepted
    MaxBoots,       \* bound: manager boots
    MaxWriteFails,  \* bound: receipt writes that fail before the rename
    MaxSyncFails,   \* bound: receipt writes whose directory fsync fails
    MaxDrifts,      \* bound: edits of the config by somebody else
    MaxFaults       \* bound: all of these together

ASSUME ManagerAssumption ==
    /\ None \notin Providers \cup Prefs
    /\ {MaxOps, MaxBoots, MaxWriteFails, MaxSyncFails, MaxDrifts,
         MaxFaults} \subseteq Nat

VARIABLES
    receipt,        \* state/receipt.json
    disk, live,     \* config.json, and what the daemon is running with
    flight,         \* operations whose patch the host may still be running
    boot,           \* bootId of the running manager
    dead,           \* deadOps: workers that could not even record a failure
    worker,         \* inFlightOpId, and where that worker is
    faults          \* how often each bounded fault has happened

vars == <<receipt, disk, live, flight, boot, dead, worker, faults>>
host == <<disk, live, flight>>

Steps == {"start", "read", "plan", "recheck", "threw", "await", "mark",
          "settle", "verify", "commit", "fail", "classify", "guard",
          "judge", "note", "close", "verdict"}

\* A worker remembers what it read of the config and how it was asked.
Workers  == [op: Nat, at: Steps, disk: Projections, live: Projections,
             adopt: BOOLEAN]
NoWorker == [op |-> 0, at |-> "start", disk |-> Absent, live |-> Absent,
             adopt |-> FALSE]

ops == receipt.operations
Op  == ops[worker.op]

Init ==
    /\ receipt = EmptyReceipt
    /\ disk \in Projections /\ live = disk
    /\ flight = {}
    /\ boot = 1
    /\ dead = {}
    /\ worker = NoWorker
    /\ faults = [write |-> 0, sync |-> 0, drift |-> 0]

-----------------------------------------------------------------------------
(* The journal: write is a sibling file, an fsync, a rename and an fsync of *)
(* the directory; the last can fail when the new receipt is in place.       *)

FaultLeft == faults.write + faults.sync + faults.drift < MaxFaults

Written(new) == receipt' = new /\ UNCHANGED faults

NotWritten(new) ==
    \/ /\ faults.write < MaxWriteFails /\ FaultLeft
       /\ faults' = [faults EXCEPT !.write = @ + 1]
       /\ UNCHANGED receipt
    \/ /\ faults.sync < MaxSyncFails /\ FaultLeft
       /\ faults' = [faults EXCEPT !.sync = @ + 1]
       /\ receipt' = new

\* A worker's journal write: go on to the next step, or to recordFailure.
Journal(new, next) ==
    \/ Written(new) /\ worker' = next
    \/ NotWritten(new) /\ worker' = [worker EXCEPT !.at = "fail"]

\* The write that ends a worker.
JournalLast(new) == Journal(new, NoWorker)

Amend(op)        == [receipt EXCEPT !.operations[worker.op] = op]
Conclude(op, st) == [Amend(op) EXCEPT !.state = st]

Goto(step) ==
    /\ worker' = [worker EXCEPT !.at = step]
    /\ UNCHANGED <<receipt, faults>>

-----------------------------------------------------------------------------
(* Admission *)

\* isInterrupted: another boot's operation, or one whose worker has died.
Interrupted(i) == ops[i].bootId # boot \/ i \in dead

\* assertMutationAdmission: an idle manager and nothing to recover, except
\* that adopting identical entries is the way out of a bindingless recovery.
MutationAdmitted(adopt) ==
    /\ worker = NoWorker
    /\ Pending(receipt) = {}
    /\ receipt.state = "RECOVERY_REQUIRED" =>
          adopt /\ receipt.binding = Absent /\ Unresolved(receipt) = {}

\* assertReconcileAdmission: only an interrupted operation may be pending.
ReconcileAdmitted ==
    /\ worker = NoWorker
    /\ \A i \in Pending(receipt) : Interrupted(i)

\* acceptedIntent
Intent(kind, of, plan, prior) ==
    [kind |-> kind, bootId |-> boot, phase |-> "accepted",
     outcome |-> "pending", of |-> of, plan |-> plan, priorState |-> prior,
     attempt |-> "none"]

\* The accepting write; the worker is scheduled only if it succeeds.
Accept(r, intent, adopt) ==
    LET new == [r EXCEPT !.operations = Append(@, intent)]
    IN  /\ Len(ops) < MaxOps
        /\ Refined(new)
        /\ \/ /\ Written(new)
              /\ worker' = [NoWorker EXCEPT !.op = Len(ops) + 1, !.adopt = adopt]
           \/ NotWritten(new) /\ UNCHANGED worker
        /\ UNCHANGED <<host, boot, dead>>

Activate(adopt) ==
    /\ MutationAdmitted(adopt)
    /\ Accept([receipt EXCEPT !.state = "ACTIVATING"],
              Intent("activate", 0, NoPlan, receipt.state), adopt)

\* Mutant: deactivation enters under the state of an activation.
DeactivateAsActivating ==
    /\ MutationAdmitted(FALSE)
    /\ receipt.binding # Absent
    /\ Accept([receipt EXCEPT !.state = "ACTIVATING"],
              Intent("deactivate", 0, NoPlan, receipt.state), FALSE)

Deactivate ==
    /\ MutationAdmitted(FALSE)
    /\ receipt.binding # Absent
    /\ Accept([receipt EXCEPT !.state = "DEACTIVATING"],
              Intent("deactivate", 0, NoPlan, receipt.state), FALSE)

\* deactivate with nothing bound and nothing there: recorded as a no-op.
DeactivateNothing ==
    LET intent == [Intent("deactivate", 0, NoPlan, receipt.state)
                      EXCEPT !.phase = "terminal", !.outcome = "no-op"]
        new    == [receipt EXCEPT !.operations = Append(@, intent)]
    IN  /\ MutationAdmitted(FALSE)
        /\ receipt.binding = Absent
        /\ disk = Absent
        /\ Len(ops) < MaxOps
        /\ Written(new) \/ NotWritten(new)
        /\ UNCHANGED <<host, boot, dead, worker>>

\* What an inspect takes up: the interrupted operation, or one an earlier
\* inspect left unresolved before it had a plan.
Subjects ==
    IF Pending(receipt) # {} THEN Pending(receipt)
    ELSE {i \in Unresolved(receipt) : ops[i].plan = NoPlan}

Inspect ==
    /\ ReconcileAdmitted
    /\ IF Subjects = {}
         THEN Accept(receipt, Intent("inspect", 0, NoPlan, receipt.state), FALSE)
         ELSE \E i \in Subjects :
                 /\ \A j \in Subjects : i <= j
                 /\ Accept([receipt EXCEPT
                               !.state = "RECOVERY_REQUIRED",
                               !.operations[i].outcome = "recovery-required"],
                           Intent("inspect", i, NoPlan, "RECOVERY_REQUIRED"),
                           FALSE)

\* The same-boot gate of reconcile: somewhere in the chain is a patch of this
\* boot that may still be running.
ChainMayBeRunning(i) ==
    \E j \in DOMAIN ops :
       /\ ops[j].bootId = boot
       /\ OneChain(ops, i, j)
       /\ ops[j].attempt \in {"pending", "outcome-unknown"}

Reconcile(i, action) ==
    /\ ReconcileAdmitted
    /\ ops[i].outcome \in {"pending", "recovery-required"}
    /\ ops[i].plan # NoPlan
    /\ ~ChainMayBeRunning(i)
    /\ Accept([receipt EXCEPT !.state = "RECOVERY_REQUIRED",
                              !.operations[i].outcome = "recovery-required"],
              Intent(action, i, ops[i].plan, "RECOVERY_REQUIRED"), FALSE)

-----------------------------------------------------------------------------
(* Steps every worker shares *)

Worker(kinds, step) ==
    /\ worker # NoWorker
    /\ Op.kind \in kinds
    /\ worker.at = step

\* The inspect at work has a subject that never got as far as a plan.
PlanlessSubject == Op.of # 0 /\ ops[Op.of].plan = NoPlan

Mutations  == {"activate", "deactivate"}
Recoveries == {"complete", "restore-before"}

\* Runtime, launchers or executables failed a check, or the host an answer.
CheckFails ==
    /\ worker # NoWorker
    /\ \/ worker.at \in {"start", "guard"}
       \/ worker.at \in {"plan", "recheck", "settle", "classify"}
       \/ worker.at = "verify" /\ BindingReached(ops, worker.op) # Absent
       \/ worker.at = "judge" /\ ~PlanlessSubject
    /\ Goto("fail")
    /\ UNCHANGED <<host, boot, dead>>

\* Mutant: a patch whose answer is outstanding counts as never sent.
FailedOpIgnoresPending(op) ==
    IF op.attempt \in {"outcome-unknown", "returned"}
      THEN [op EXCEPT !.outcome = "recovery-required"]
      ELSE [op EXCEPT !.outcome = "failed", !.phase = "terminal"]

\* recordFailure: an operation whose patch was sent waits for recovery; any
\* other failed, and the state it was accepted in comes back.
FailedOp(op) ==
    IF op.attempt \in {"pending", "outcome-unknown", "returned"}
      THEN [op EXCEPT !.outcome = "recovery-required"]
      ELSE [op EXCEPT !.outcome = "failed", !.phase = "terminal"]

\* Mutant: a worker that cannot record its failure is not remembered.
RecordFailureSilently ==
    LET op  == FailedOp(Op)
        new == Conclude(op, IF op.outcome = "failed" THEN op.priorState
                                                     ELSE "RECOVERY_REQUIRED")
    IN  /\ worker # NoWorker
        /\ worker.at = "fail"
        /\ Written(new) \/ NotWritten(new)
        /\ worker' = NoWorker
        /\ UNCHANGED <<host, boot, dead>>

RecordFailure ==
    LET op  == FailedOp(Op)
        new == Conclude(op, IF op.outcome = "failed" THEN op.priorState
                                                     ELSE "RECOVERY_REQUIRED")
    IN  /\ worker # NoWorker
        /\ worker.at = "fail"
        /\ \/ Written(new) /\ UNCHANGED dead
           \/ NotWritten(new) /\ dead' = dead \cup {worker.op}
        /\ worker' = NoWorker
        /\ UNCHANGED <<host, boot>>

\* dispatchPatch: the attempt is in the journal before the host sees it; a
\* call that throws at once never reached the host.
Dispatch ==
    LET new == Amend([Op EXCEPT !.phase = "patch-dispatched",
                                !.attempt = "pending"])
    IN  /\ \/ /\ Journal(new, [worker EXCEPT !.at = "await"])
              /\ flight' = IF worker'.at = "await" THEN flight \cup {worker.op}
                                                   ELSE flight
           \/ /\ Journal(new, [worker EXCEPT !.at = "threw"])
              /\ UNCHANGED flight
        /\ UNCHANGED <<disk, live, boot, dead>>

DispatchThrew ==
    /\ worker # NoWorker
    /\ worker.at = "threw"
    /\ Journal(Amend([Op EXCEPT !.attempt = "threw"]),
               [worker EXCEPT !.at = "fail"])
    /\ UNCHANGED <<host, boot, dead>>

\* The patch is answered: the host is done with it.
PatchReturned ==
    /\ worker # NoWorker
    /\ worker.at = "await"
    /\ worker.op \notin flight
    /\ Journal(Amend([Op EXCEPT !.attempt = "returned"]),
               [worker EXCEPT !.at = "settle"])
    /\ UNCHANGED <<host, boot, dead>>

\* The patch is refused or its answer is lost: it may still be running.
PatchRejected ==
    /\ worker # NoWorker
    /\ worker.at = "await"
    /\ Journal(Amend([Op EXCEPT !.attempt = "outcome-unknown"]),
               [worker EXCEPT !.at = "mark"])
    /\ UNCHANGED <<host, boot, dead>>

\* markRecovery and requireRecovery
MarkRecovery ==
    Conclude([Op EXCEPT !.outcome = "recovery-required"], "RECOVERY_REQUIRED")

MarkUnknown ==
    /\ worker # NoWorker
    /\ worker.at = "mark"
    /\ JournalLast(MarkRecovery)
    /\ UNCHANGED <<host, boot, dead>>

\* settleAfterPatch, and the check that follows an inverse patch: go on at
\* the target, fail where nothing changed, ask for recovery in between.
Settle ==
    LET class == ClassifyState(disk, live, Op.plan)
        failed == Conclude([Op EXCEPT !.outcome = "failed", !.phase = "terminal"],
                           Op.priorState)
    IN  /\ worker # NoWorker
        /\ worker.at = "settle"
        /\ IF ChainTarget(ops, worker.op) = "before"
             THEN Goto(IF class = "before" THEN "verify" ELSE "fail")
             ELSE CASE class \in {"after", "equal"} -> Goto("verify")
                    [] class = "before"             -> JournalLast(failed)
                    [] OTHER                        -> JournalLast(MarkRecovery)
        /\ UNCHANGED <<host, boot, dead>>

-----------------------------------------------------------------------------
(* runActivate and runDeactivate *)

\* Published assets are verified and reused, or made and journalled.
Prepare ==
    /\ Worker(Mutations, "start")
    /\ \/ receipt.binding # Absent /\ Goto("read")
       \/ /\ Op.kind = "activate"
          /\ Journal(Amend([Op EXCEPT !.phase = "materialized"]),
                     [worker EXCEPT !.at = "read"])
    /\ UNCHANGED <<host, boot, dead>>

ReadRaw ==
    /\ Worker(Mutations, "read")
    /\ worker' = [worker EXCEPT !.at = "plan", !.disk = disk]
    /\ UNCHANGED <<receipt, faults, host, boot, dead>>

\* The live config has come back: plan, or refuse.
Plan ==
    /\ Worker(Mutations, "plan")
    /\ \E after \in IF Op.kind = "activate" THEN Shapes ELSE {Absent} :
          IF \/ /\ Op.kind = "activate"
                /\ MayActivate(receipt.binding, worker.adopt, worker.disk, live, after)
             \/ /\ Op.kind = "deactivate"
                /\ MayDeactivate(receipt.binding, worker.disk, live)
            THEN Journal(
                   Amend([Op EXCEPT !.phase = "prepared",
                                    !.plan = [before |-> worker.disk,
                                              after |-> after,
                                              previousBinding |-> receipt.binding]]),
                   [worker EXCEPT !.at = "recheck", !.live = live])
            ELSE Goto("fail")
    /\ UNCHANGED <<host, boot, dead>>

\* assertPlanCurrent, then the one patch unless the plan is met already.
Recheck ==
    /\ Worker(Mutations, "recheck")
    /\ IF disk = Op.plan.before /\ live = worker.live
         THEN IF disk = Op.plan.after
                THEN Goto("verify") /\ UNCHANGED <<host, boot, dead>>
                ELSE Dispatch
         ELSE Goto("fail") /\ UNCHANGED <<host, boot, dead>>

Verify ==
    /\ Worker(Mutations, "verify")
    /\ Journal(Amend([Op EXCEPT !.phase = "verified"]),
               [worker EXCEPT !.at = "commit"])
    /\ UNCHANGED <<host, boot, dead>>

\* The binding, the state and the outcome in one write.
Commit ==
    LET target  == Op.plan.after
        noop    == Op.attempt = "none" /\
                      (Op.kind = "activate" => receipt.binding = target)
        done    == [Op EXCEPT !.phase = "terminal",
                              !.outcome = IF noop THEN "no-op" ELSE "succeeded"]
    IN  /\ Worker(Mutations, "commit")
        /\ JournalLast([Conclude(done, IF target # Absent THEN "ACTIVE"
                                                          ELSE "INACTIVE")
                           EXCEPT !.binding = target])
        /\ UNCHANGED <<host, boot, dead>>

-----------------------------------------------------------------------------
(* runReconcile: complete and restore-before *)

ReadForRecovery ==
    /\ Worker(Recoveries, "start")
    /\ worker' = [worker EXCEPT !.at = "classify", !.disk = disk]
    /\ UNCHANGED <<receipt, faults, host, boot, dead>>

Classify ==
    LET class  == ClassifyState(worker.disk, live, Op.plan)
        target == ChainTarget(ops, worker.op)
        failed == Conclude([Op EXCEPT !.outcome = "failed", !.phase = "terminal"],
                           "RECOVERY_REQUIRED")
    IN  /\ Worker(Recoveries, "classify")
        /\ CASE class \in {"divergent", "partial"} -> JournalLast(failed)
             [] class \in {"equal", target}        -> Goto("verify")
             [] OTHER                              -> Goto("guard")
        /\ UNCHANGED <<host, boot, dead>>

\* The checks before a recovery's own patch have passed.
Redispatch == Worker(Recoveries, "guard") /\ Dispatch

VerifyRecovered ==
    /\ Worker(Recoveries, "verify")
    /\ Goto("commit")
    /\ UNCHANGED <<host, boot, dead>>

\* finalizeIntended and finalizePrevious
Finalize ==
    LET target  == ChainTarget(ops, worker.op)
        binding == BindingReached(ops, worker.op)
        settled == SettleChain(ops, Op.of, target)
        done    == [Op EXCEPT !.phase = "terminal", !.outcome = "succeeded"]
    IN  /\ Worker(Recoveries, "commit")
        /\ JournalLast([state |-> IF binding # Absent THEN "ACTIVE" ELSE "INACTIVE",
                        binding |-> binding,
                        operations |-> [settled EXCEPT ![worker.op] = done]])
        /\ UNCHANGED <<host, boot, dead>>

-----------------------------------------------------------------------------
(* runInspect *)

ReadForInspect ==
    /\ Worker({"inspect"}, "start")
    /\ worker' = [worker EXCEPT !.at = "judge", !.disk = disk]
    /\ UNCHANGED <<receipt, faults, host, boot, dead>>

InspectDone(st) ==
    Conclude([Op EXCEPT !.outcome = "succeeded", !.phase = "terminal"], st)

\* What the config must be for the verdict not to be a conflict; a binding
\* whose operation was interrupted may not have edited profiles either.
InspectClean ==
    /\ worker.disk = live
    /\ IF receipt.binding = Absent THEN live = Absent
       ELSE IF Op.of = 0 THEN live[1] = receipt.binding[1]
       ELSE live = receipt.binding

\* A conflict, a failed asset check, or a subject that has a plan: recovery.
InspectConflict ==
    /\ Worker({"inspect"}, "judge")
    /\ IF PlanlessSubject
         THEN Journal(InspectDone("RECOVERY_REQUIRED"),
                      [worker EXCEPT !.at = "note"])
         ELSE JournalLast(InspectDone("RECOVERY_REQUIRED"))
    /\ UNCHANGED <<host, boot, dead>>

\* The conflicts are added to a subject without a plan in a second write.
InspectNote ==
    /\ Worker({"inspect"}, "note")
    /\ JournalLast(receipt)
    /\ UNCHANGED <<host, boot, dead>>

\* inspectInterrupted: the subject never had a plan, so it failed, and the
\* state it was accepted in comes back; the inspect ends in a second write.
InspectSubject ==
    /\ Worker({"inspect"}, "judge")
    /\ PlanlessSubject
    /\ InspectClean
    /\ Journal([receipt EXCEPT
                   !.state = ops[Op.of].priorState,
                   !.operations[Op.of].outcome = "failed",
                   !.operations[Op.of].phase = "terminal"],
               [worker EXCEPT !.at = "close"])
    /\ UNCHANGED <<host, boot, dead>>

InspectClose ==
    /\ Worker({"inspect"}, "close")
    /\ JournalLast(InspectDone(ops[Op.of].priorState))
    /\ UNCHANGED <<host, boot, dead>>

\* A clean healthy inspect takes over the user's profile edits.
InspectRefresh ==
    /\ Worker({"inspect"}, "judge")
    /\ Op.of = 0
    /\ InspectClean
    /\ IF live # receipt.binding
         THEN Journal([receipt EXCEPT !.binding = live],
                      [worker EXCEPT !.at = "verdict"])
         ELSE Goto("verdict")
    /\ UNCHANGED <<host, boot, dead>>

InspectVerdict ==
    LET others == (Pending(receipt) \cup Unresolved(receipt)) \ {worker.op}
    IN  /\ Worker({"inspect"}, "verdict")
        /\ JournalLast(InspectDone(
              IF others # {} THEN "RECOVERY_REQUIRED"
              ELSE IF receipt.binding # Absent THEN "ACTIVE" ELSE "INACTIVE"))
        /\ UNCHANGED <<host, boot, dead>>

-----------------------------------------------------------------------------
(* The host, the machine and other people *)

\* The host works off a patch: file and daemon, file only, or not at all.
HostPatch(i) ==
    /\ i \in flight
    /\ flight' = flight \ {i}
    /\ \/ disk' = PatchTarget(ops, i) /\ live' = disk'
       \/ disk' = PatchTarget(ops, i) /\ UNCHANGED live
       \/ UNCHANGED <<disk, live>>
    /\ UNCHANGED <<receipt, boot, dead, worker, faults>>

\* The host process ends and starts again: a patch it was running is in the
\* file or is not, and the daemon runs with what the file holds.
Restart ==
    /\ boot < MaxBoots
    /\ boot' = boot + 1
    /\ worker' = NoWorker
    /\ dead' = {}
    /\ flight' = {}
    /\ disk' \in {disk} \cup {PatchTarget(ops, i) : i \in flight}
    /\ live' = disk'
    /\ UNCHANGED <<receipt, faults>>

\* Somebody edits the file, with or without the daemon taking it over.
Drift ==
    /\ faults.drift < MaxDrifts /\ FaultLeft
    /\ faults' = [faults EXCEPT !.drift = @ + 1]
    /\ disk' \in Projections \ {disk}
    /\ live' \in {live, disk'}
    /\ UNCHANGED <<receipt, flight, boot, dead, worker>>

-----------------------------------------------------------------------------
WorkerStep ==
    \/ CheckFails \/ RecordFailure
    \/ DispatchThrew \/ PatchReturned \/ PatchRejected \/ MarkUnknown \/ Settle
    \/ Prepare \/ ReadRaw \/ Plan \/ Recheck \/ Verify \/ Commit
    \/ ReadForRecovery \/ Classify \/ Redispatch \/ VerifyRecovered \/ Finalize
    \/ ReadForInspect \/ InspectConflict \/ InspectNote
    \/ InspectSubject \/ InspectClose \/ InspectRefresh \/ InspectVerdict

Request ==
    \/ \E adopt \in BOOLEAN : Activate(adopt)
    \/ Deactivate
    \/ DeactivateNothing
    \/ Inspect
    \/ \E i \in DOMAIN ops, action \in Recoveries : Reconcile(i, action)

Next ==
    \/ Request
    \/ WorkerStep
    \/ \E i \in flight : HostPatch(i)
    \/ Restart
    \/ Drift

Spec == Init /\ [][Next]_vars

-----------------------------------------------------------------------------
(* Properties *)

\* Every variable has its type.
TypeOK ==
    /\ receipt \in [state: States, binding: Projections, operations: Seq(Intents)]
    /\ disk \in Projections /\ live \in Projections
    /\ flight \subseteq DOMAIN ops
    /\ boot \in Nat \ {0}
    /\ dead \subseteq DOMAIN ops
    /\ worker \in Workers /\ worker.op \in {0} \cup DOMAIN ops
    /\ faults \in [write: Nat, sync: Nat, drift: Nat]

\* No worker ever hands the journal a receipt that its schema or
\* assertReceiptRefinements refuses: such a write would leave the operation
\* without a recorded end.
ReceiptRefined == TypeOK /\ Refined(receipt)

\* status: what a reader is told.
StatusState ==
    IF \/ \E i \in Pending(receipt) : Interrupted(i)
       \/ /\ receipt.state \in {"ACTIVATING", "DEACTIVATING"}
          /\ Pending(receipt) = {}
      THEN "RECOVERY_REQUIRED" ELSE receipt.state

\* A patch that may still be running is one the journal says may still be
\* running, of an operation it has not ended, and no other operation of its
\* recovery chain has one: a second would race the first for the config (the
\* chain-wide same-boot gate of reconcile).
OneGuardedPatch ==
    \A i \in flight :
       /\ ops[i].bootId = boot
       /\ ops[i].attempt \in {"pending", "outcome-unknown"}
       /\ ops[i].outcome \in {"pending", "recovery-required"}
       /\ \A j \in flight : OneChain(ops, i, j) => i = j

\* The journal is never refused a receipt and tells the truth about patches:
\* recovery may act on what it says.
JournalIsSound == ReceiptRefined /\ OneGuardedPatch

\* No receipt write has failed when the new receipt was in place already: the
\* worker then goes on from a receipt that is not the one in the file, and
\* the properties below that say `Synced' are lost.
Synced == faults.sync = 0

\* No recovery was left behind.  An operation that is recovered twice may
\* leave the first recovery open when the second succeeds (settleChain follows
\* recoveryOf only); the manager then admits mutations, and a patch of theirs
\* that may still be running does not keep the open recovery from sending
\* another, as that is of another chain.  A first recovery that had ended
\* before the second was asked for is no such thing.
NothingLeftOpen ==
    \A i, j \in DOMAIN ops :
       {ops[i].kind, ops[j].kind} \subseteq Recoveries /\ i < j /\ OneChain(ops, i, j) =>
          \/ i \in Chain(ops, j)
          \/ /\ ops[i].outcome \notin {"pending", "recovery-required"}
             /\ \A k \in DOMAIN ops : ops[k].of # i

\* The manager has the config to itself: nobody else edits it, every receipt
\* is the one its writer took it for, and no recovery was left behind.
Undisturbed == faults.drift = 0 /\ Synced /\ NothingLeftOpen

\* As long as it is undisturbed, a settled receipt means that no patch is
\* still to land, ACTIVE that file and daemon both hold what the binding owns,
\* and INACTIVE that nothing is bound.
SettledMatchesConfig ==
    Undisturbed =>
       /\ StatusState \in {"ACTIVE", "INACTIVE"} => flight = {}
       /\ receipt.state = "ACTIVE" =>
             /\ receipt.binding # Absent
             /\ disk = receipt.binding /\ live = receipt.binding
       /\ receipt.state = "INACTIVE" => receipt.binding = Absent /\ disk = live

\* readInjectionBinding: the binding new managed seats are given.
InjectionBinding ==
    IF receipt.state \in {"ACTIVE", "ACTIVATING"} THEN receipt.binding ELSE Absent

\* As long as it is undisturbed, a binding handed to a new seat is the one
\* the daemon runs with or the one a pending activation is replacing.
InjectionIsCurrent ==
    Undisturbed /\ InjectionBinding # Absent =>
       \/ live = InjectionBinding
       \/ \E i \in Pending(receipt) :
             /\ ops[i].kind = "activate"
             /\ ops[i].plan.previousBinding = InjectionBinding
             /\ live \in {ops[i].plan.before, ops[i].plan.after}

\* A recovery that succeeded settled everything it recovered (settleChain).
ChainsSettle ==
    Synced => \A i \in DOMAIN ops :
       ops[i].kind \in Recoveries /\ ops[i].outcome = "succeeded" =>
          \A j \in Chain(ops, i) : ops[j].outcome \in {"succeeded", "failed"}

Fairness ==
    /\ WF_vars(WorkerStep)
    /\ WF_vars(\E i \in flight : HostPatch(i))

FairSpec == Spec /\ Fairness

\* Every operation under way gets a recorded outcome, or is known to have been
\* interrupted (by a restart, or because its failure could not be recorded),
\* if no receipt write fails after its rename (start, recordFailure).
RequestsEnd ==
    \A i \in 1..MaxOps :
       (i \in Pending(receipt) /\ ~Interrupted(i))
          ~> (i \notin Pending(receipt) \/ Interrupted(i) \/ ~Synced)
=============================================================================
