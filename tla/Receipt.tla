------------------------------- MODULE Receipt -------------------------------
(***************************************************************************)
(* The activation journal and what it says about the daemon's config       *)
(* (plugin/server/journal.ts, config-transaction.ts): the receipt, its     *)
(* operations, the plans they carry and how an observed config is judged   *)
(* against a plan.                                                         *)
(*                                                                         *)
(* A config is the projection of config.json onto the entries the plugin   *)
(* owns: which providers were generated and what the profile slots hold.   *)
(* A binding is named by the projection it owns.                           *)
(***************************************************************************)
EXTENDS Naturals, Sequences, FiniteSets

CONSTANTS
    Providers,      \* the provider entries an activation may generate
    Prefs,          \* the preferences a profile slot may hold
    None            \* no entry

\* extractProjection: what one document holds in the owned slots.
Shapes      == Providers \X Prefs
Absent      == <<None, None>>
Projections == Shapes \cup {Absent}

States   == {"INACTIVE", "ACTIVATING", "ACTIVE", "DEACTIVATING",
             "RECOVERY_REQUIRED"}
Kinds    == {"activate", "deactivate", "inspect", "complete", "restore-before"}
Phases   == {"accepted", "materialized", "prepared", "patch-dispatched",
             "verified", "terminal"}
Outcomes == {"pending", "succeeded", "no-op", "failed", "recovery-required"}
Attempts == {"none", "pending", "returned", "threw", "outcome-unknown"}

\* PlanValue: the config the plan starts from, the one it leads to (which is
\* also the binding an activation leads to) and the binding it replaces.
Plans  == [before: Projections, after: Projections, previousBinding: Projections]
NoPlan == [before |-> Absent, after |-> Absent, previousBinding |-> Absent]

\* IntentValue.  `of' is the position of recoveryOf in the journal, or 0.
\* Every worker dispatches at most one patch, so patchAttempts is one result.
Intents == [kind: Kinds, bootId: Nat, phase: Phases, outcome: Outcomes,
            of: Nat, plan: Plans, priorState: States, attempt: Attempts]

Receipts == [state: States, binding: Projections, operations: Seq(Intents)]

EmptyReceipt ==
    [state |-> "INACTIVE", binding |-> Absent, operations |-> <<>>]

Pending(r)    == {i \in DOMAIN r.operations : r.operations[i].outcome = "pending"}
Unresolved(r) ==
    {i \in DOMAIN r.operations : r.operations[i].outcome = "recovery-required"}

\* assertReceiptRefinements, which every read and every write runs.
Refined(r) ==
    /\ \A i, j \in Pending(r) : i = j
    /\ \A i \in DOMAIN r.operations :
          LET op == r.operations[i]
          IN  /\ op.phase \in {"prepared", "patch-dispatched", "verified"}
                    => op.plan # NoPlan
              /\ \/ op.phase # "terminal"
                 \/ op.kind = "inspect"
                 \/ op.outcome \notin {"succeeded", "recovery-required"}
                 \/ op.plan # NoPlan

-----------------------------------------------------------------------------
(* Plans and observed configs *)

\* planActivation: the config must be the one the journal knows, on disk and
\* live.  Under a binding the providers must be its own (the profile slots
\* are the user's to edit); without one the slots must be free, or hold
\* exactly what is wanted and be adopted.
MayActivate(binding, adoptIdentical, disk, live, after) ==
    /\ disk = live
    /\ IF binding # Absent
         THEN disk[1] = binding[1]
         ELSE disk = Absent \/ (adoptIdentical /\ disk = after)

\* planDeactivation: every owned entry must be exactly the recorded one.
MayDeactivate(binding, disk, live) == disk = live /\ disk = binding

\* Mutant: the running daemon is not asked.
ClassifyDiskOnly(disk, live, plan) ==
    CASE disk = plan.after -> "after" [] disk = plan.before -> "before"
      [] OTHER -> "partial"

\* classifyState: disk and live must agree on an endpoint of the plan.
ClassifyState(disk, live, plan) ==
    LET At(endpoint) == disk = endpoint /\ live = endpoint
    IN  CASE At(plan.before) /\ At(plan.after)       -> "equal"
          [] At(plan.before) /\ ~At(plan.after)      -> "before"
          [] At(plan.after) /\ ~At(plan.before)      -> "after"
          [] /\ ~At(plan.before) /\ ~At(plan.after)
             /\ {disk, live} \cap {plan.before, plan.after} # {} -> "divergent"
          [] OTHER                                   -> "partial"

-----------------------------------------------------------------------------
(* Recovery chains *)

\* The operation and every operation it recovers, directly or not: the least
\* set with the operation in it that holds what each of its members recovers.
Chain(ops, i) ==
    {j \in DOMAIN ops : \A S \in SUBSET DOMAIN ops :
        i \in S /\ (\A k \in S : ops[k].of # 0 => ops[k].of \in S) => j \in S}

\* chainRootIdOf: two operations have one root when their chains meet.
OneChain(ops, i, j) == Chain(ops, i) \cap Chain(ops, j) # {}

\* targetOfChain: the endpoint an operation is driving at.  Recovery goes the
\* way of what it recovers, unless some link was told to restore.
ChainTarget(ops, i) ==
    IF \E j \in Chain(ops, i) : ops[j].kind = "restore-before" THEN "before"
                                                               ELSE "after"

\* patchForDirection: the projection the operation's patch writes.
PatchTarget(ops, i) ==
    IF ChainTarget(ops, i) = "before" THEN ops[i].plan.before
                                      ELSE ops[i].plan.after

\* The binding the journal holds once the operation has reached its target.
BindingReached(ops, i) ==
    IF ChainTarget(ops, i) = "before" THEN ops[i].plan.previousBinding
                                      ELSE ops[i].plan.after

\* Mutant: only the operation named by the request is settled.
SettleOne(ops, i, reached) ==
    [ops EXCEPT ![i].phase = "terminal",
                ![i].outcome = IF ChainTarget(ops, i) = reached
                                 THEN "succeeded" ELSE "failed"]

\* settleChain: every operation the recovery recovered ends with the outcome
\* its own target earned; what already ended is left alone.
SettleChain(ops, i, reached) ==
    [j \in DOMAIN ops |->
        IF j \in Chain(ops, i) /\ ops[j].phase # "terminal"
          THEN [ops[j] EXCEPT !.phase = "terminal",
                              !.outcome = IF ChainTarget(ops, j) = reached
                                            THEN "succeeded" ELSE "failed"]
          ELSE ops[j]]
=============================================================================
