----------------------------- MODULE MCRelease ------------------------------
(***************************************************************************)
(* Three stories of one assignment.  "review": two scopes from their first *)
(* declaration on.  "rollout": a scope that was claimed, submitted,        *)
(* reviewed by the lead k and approved by such commands, and its rollout.  *)
(* "settle": settlements of a seat that handed back a candidate.           *)
(***************************************************************************)
EXTENDS Release, TLC
CONSTANTS l, k, a, c, bare, s, u, p, x, roll, q, id, log
VARIABLE story

MCForm == [seat |-> a, writer |-> a, paths |-> {p}, deps |-> {}, plan |-> {x}]
MCForms ==
    (s :> { MCForm, [seat |-> None, writer |-> None, paths |-> {}, deps |-> {}, plan |-> {}] })
    @@ (u :> { [seat |-> None, writer |-> l, paths |-> {p}, deps |-> {s}, plan |-> {}] })
MCDelivered == <<>>
MCDecls == s :> 2 @@ u :> 1
MCMoves == s :> 6 @@ u :> 1
MCDefinition == [retries |-> 1, evidence |-> TRUE]
MCDefinitions == {MCDefinition}
MCPins == {[snap |-> c, required |-> {<<q, MCDefinition>>}], [snap |-> bare, required |-> {}]}

MCClaim(export, delivery, handle, H) ==
    [seat |-> a, export |-> export, delivery |-> delivery, rework |-> TRUE, sink |-> TRUE,
     decision |-> FALSE, unknown |-> FALSE, handle |-> handle, handbacks |-> H, candidates |-> H]
MCClaims == {MCClaim(log, TRUE, FALSE, {1}), MCClaim(None, TRUE, TRUE, {3}), MCClaim(None, FALSE, FALSE, {})}

MCMove(cmd, from, to, snap, D) ==
    [command |-> cmd, from |-> from, to |-> to, rev |-> 1, brief |-> 0, plan |-> {x},
     snap |-> snap, discharged |-> D, by |-> l]

\* Two candidates of the seat a are in.
HandedBack ==
    /\ open = TRUE /\ live = Agents /\ seats = Agents /\ owners = <<l>> /\ offers = {} /\ brief = 0
    /\ tree = [o \in Agents |-> c] /\ captures = {}
    /\ handbacks = [i \in 1..2 |-> [seat |-> a, observed |-> "ok"]]
    /\ candidates = << [handback |-> 1, seat |-> a, snap |-> bare], [handback |-> 2, seat |-> a, snap |-> c] >>

NoScopes == /\ decls = [o \in Scopes |-> <<>>] /\ moves = [o \in Scopes |-> <<>>]
            /\ reviews = <<>> /\ bound = [o \in Scopes |-> 0]
NoRollouts == /\ defs = q :> <<>> /\ rollouts = roll :> <<>> /\ rmoves = roll :> <<>>
              /\ runs = <<>> /\ jobs = {}

Approved ==
    /\ decls = (s :> <<[form |-> MCForm, by |-> l, brief |-> 0]>> @@ u :> <<>>)
    /\ moves = (s :> << MCMove("declare", None, "declared", None, {}),
                        MCMove("claim", "declared", "claimed", None, {}),
                        MCMove("submit-for-review", "claimed", "submitted-for-review", c, {}),
                        MCMove("review-observed", "submitted-for-review", "review-observed", None, {1}),
                        MCMove("approve", "review-observed", "approved", None, {1}) >> @@ u :> <<>>)
    /\ reviews = <<[scope |-> s, lens |-> x, by |-> k, rev |-> 1, brief |-> 0,
                    plan |-> {x}, snap |-> c]>>
    /\ bound = [o \in Scopes |-> 0]

MCInit ==
    \/ story = "review" /\ Init
    \/ story = "rollout" /\ HandedBack /\ Approved /\ NoRollouts /\ SettlementInit
    \/ story = "settle" /\ HandedBack /\ NoScopes /\ NoRollouts /\ SettlementInit

\* What a story leaves aside.  A closed assignment takes only commands that
\* carry no gate, and so does a rollout that is held, failed or ended.
InStory ==
    CASE story = "review" ->
           /\ open
           /\ \A o \in Agents : tree[o] = tree[l]
           /\ (offers = {} \/ live = Agents)
           /\ brief + Len(owners) + Cardinality(Agents \ live) <= 2
      [] story = "rollout" ->
           /\ open
           /\ brief = 0 /\ live = Agents /\ (offers # {} => Cardinality(jobs) <= 1)
           /\ \A o \in Rollouts : rmoves[o] # <<>> => RolloutState(o) \notin
                {"held", "checks-failed", "canary-failed", "rolled-back", "closed"}
      [] story = "settle" ->
           /\ brief = 0 /\ tree[a] = c

MCNext == \/ CustodyStep /\ UNCHANGED story
          \/ story = "review" /\ ScopeStep /\ UNCHANGED story
          \/ story = "rollout" /\ RolloutStep /\ UNCHANGED story
          \/ story = "settle" /\ SettleStep /\ UNCHANGED story
MCSpec == MCInit /\ [][MCNext]_<<vars, story>>
=============================================================================
