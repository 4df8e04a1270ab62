----------------------------- MODULE MCIntegrate -----------------------------
(***************************************************************************)
(* An integration from its first request, and from three later points that *)
(* requests long answered have left behind: staged, landed, and with the   *)
(* account of its cleanup verified.                                        *)
(***************************************************************************)
EXTENDS Discharge, TLC

CONSTANTS a1

Perms == Permutations(Slots)

StagedRow(kind) ==
    [NoRow EXCEPT !.state = "observed", !.phase = "stage", !.kind = kind, !.stageDir = TRUE,
                  !.receipt = Receipt("stage", "none", "observed", "none")]

LandedRow(kind) ==
    [StagedRow(kind) EXCEPT !.phase = "land", !.plan = TRUE, !.landed = TRUE,
                  !.body = [NoBody EXCEPT !.phase = "land"],
                  !.receipt = Receipt("land", "none", "observed", "full-applied")]

VerifiedRow(kind) ==
    [LandedRow(kind) EXCEPT !.phase = "discharge", !.verified = TRUE,
                  !.body = [NoBody EXCEPT !.phase = "discharge", !.step = "verify-account"],
                  !.receipt = Receipt("discharge", "verify-account", "observed", "none")]

Rest == /\ drifted = {} /\ orig = [a \in Actions |-> Base]
        /\ qual = TRUE /\ tip = None /\ reqs = <<>> /\ journal = {}
        /\ call = [c \in Slots |-> Idle] /\ stale = {}
        /\ used = [retries |-> 0, edits |-> 0, moves |-> 0, crashes |-> 0]

Staged == \E kind \in StageKinds :
    /\ Rest /\ target = Base /\ artifact = [a \in Actions |-> "missing"]
    /\ row = [a \in Actions |-> IF a = a1 THEN StagedRow(kind) ELSE NoRow]
    /\ disp = [a \in Actions |-> [stage |-> IF a = a1 THEN "retained" ELSE "none", backup |-> "none"]]
    /\ hist = [a \in Actions |-> IF a = a1 THEN [NoHist EXCEPT !.proof = "stage"] ELSE NoHist]
    /\ dir = [a \in Actions |-> [stage |-> IF a = a1 THEN "full" ELSE "none", backup |-> "none"]]

LandedHist == [NoHist EXCEPT !.proof = "full-applied", !.landIssued = TRUE]
Full == [r \in Res |-> "full"]

Landed == \E kind \in StageKinds, verified \in BOOLEAN :
    /\ Rest /\ target = Combined(a1)
    /\ artifact = [a \in Actions |-> IF a = a1 /\ verified THEN "full" ELSE "missing"]
    /\ row = [a \in Actions |-> IF a # a1 THEN NoRow
                                ELSE IF verified THEN VerifiedRow(kind) ELSE LandedRow(kind)]
    /\ disp = [a \in Actions |-> [r \in Res |-> IF a = a1 THEN "retained" ELSE "none"]]
    /\ hist = [a \in Actions |-> IF a # a1 THEN NoHist
                                ELSE IF verified
                                  THEN [LandedHist EXCEPT !.verifies = 1,
                                            !.cand = [target |-> Combined(a1), dirs |-> Full]]
                                  ELSE LandedHist]
    /\ dir = [a \in Actions |-> [r \in Res |-> IF a = a1 THEN "full" ELSE "none"]]

MCInit == Init \/ Staged \/ Landed
MCSpec == MCInit /\ [][Next]_vars
=============================================================================
