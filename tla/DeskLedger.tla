----------------------------- MODULE DeskLedger -----------------------------
(***************************************************************************)
(* What the desk store promises its callers, without files, locks or       *)
(* crashes: an append-only log of request outcomes, one for each           *)
(* idempotency key, and callers are only ever shown outcomes of the log.   *)
(* Module Desk implements it with log = ledger.requests.                   *)
(***************************************************************************)
EXTENDS Integers, Sequences

CONSTANT Outcome    \* the request outcomes that can be recorded

VARIABLES
    log,            \* the recorded outcomes, in commit order
    shown           \* the outcomes callers have been told

LedgerInit ==
    /\ log \in Seq(Outcome)
    /\ Len(log) <= 1
    /\ shown = {}

\* A transaction takes effect: its key is new and its revision is the next.
Commit ==
    /\ Len(log') = Len(log) + 1
    /\ LET r == log'[Len(log) + 1]
       IN  /\ r \in Outcome
           /\ \A n \in 1..Len(log) : log[n].key # r.key
           /\ r.revision = Len(log) + 1
           /\ log' = Append(log, r)
    /\ UNCHANGED shown

\* A caller is told a recorded outcome, for the first time or as a replay.
Show ==
    /\ \E n \in 1..Len(log) : shown' = shown \cup {log[n]}
    /\ UNCHANGED log

LedgerNext == Commit \/ Show

LedgerSpec == LedgerInit /\ [][LedgerNext]_<<log, shown>>
=============================================================================
