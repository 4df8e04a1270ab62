------------------------------ MODULE Release -------------------------------
(***************************************************************************)
(* An assignment, its scopes, the rollouts of its candidates and its       *)
(* settlements as one system: what a row of one of them rests on can be    *)
(* undone by any of the others.                                            *)
(***************************************************************************)
EXTENDS Rollout, Settlement

vars == <<custodyVars, handbackVars, scopeVars, rolloutVars, settlementVars>>

Init == RolloutInit /\ SettlementInit

CustodyStep == CustodyNext /\ UNCHANGED <<scopeVars, rolloutVars, settlementVars>>
ScopeStep == ScopeCommands /\ UNCHANGED <<rolloutVars, settlementVars>>
RolloutStep == RolloutNext /\ UNCHANGED settlementVars
SettleStep == SettlementNext /\ UNCHANGED <<scopeVars, rolloutVars>>

Next == CustodyStep \/ ScopeStep \/ RolloutStep \/ SettleStep

Spec == Init /\ [][Next]_vars

TypeOK == RolloutTypeOK /\ SettlementTypeOK

\* Every ledger that the commands produce is one the loader accepts: what
\* desk-scope.ts, desk-ownership.ts and desk-handback.ts let through one
\* command at a time adds up to rows that checkRefinements reads back.  In
\* particular two scopes that move never claim one surface, even when one
\* of them was advanced while the other was declared, and comes back; no
\* check run is recorded twice or past its retries, and no settlement twice,
\* whatever changed while the run or the call was on its way
\* (desk-rollout.ts, desk-check-runner.ts, desk-settlement.ts).
LedgerReads ==
    /\ CustodyReads
    /\ DeclarationsRead /\ ReviewsRead /\ MovesRead
    /\ GraphReads /\ SurfacesRead
    /\ DefinitionsRead /\ RolloutsRead /\ RunsRead /\ RetriesRead
    /\ RolloutMovesRead
    /\ SettlementsRead

\* Every row was right when it was written: its author owned the assignment,
\* a gated move belongs to a round of the current declaration and brief, and
\* an approval rests on observations of agents that are at that moment
\* neither the owner nor the declared writer, whoever owned it before.  So it
\* is of rollouts: a promotion had the current declaration, brief and approval
\* behind it, and its reviewers are independent still.
RowsAreTimely ==
    [][ /\ OwnersRows
        /\ \A s \in Scopes :
             /\ DeclarationTimely(s)
             /\ \A i \in DOMAIN moves'[s] \ DOMAIN moves[s] : MoveTimely(s, i)
        /\ \A i \in DOMAIN reviews' \ DOMAIN reviews : ReviewTimely(i)
        /\ \A i \in DOMAIN settlements' \ DOMAIN settlements : SettlementTimely(i)
        /\ \A r \in Rollouts : \A i \in DOMAIN rmoves'[r] \ DOMAIN rmoves[r] :
              RolloutMoveTimely(r, i) ]_vars
=============================================================================
