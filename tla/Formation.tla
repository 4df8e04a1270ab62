----------------------------- MODULE Formation ------------------------------
(***************************************************************************)
(* slp_seat_create and slp_task_deliver as a native caller sees them: the  *)
(* operation journal (desk-operation.ts), the steps of one formation       *)
(* (desk-formation.ts) with its placement (desk-placement.ts) and its paid *)
(* route decision (runtime/cli/seat-selection.ts), the guard the bridge    *)
(* gives it, and the composition of one task delivery (desk-delivery.ts),  *)
(* for one requestId of one caller.                                        *)
(*                                                                         *)
(* Every call of that requestId, concurrent, repeated, with another body,  *)
(* from a later epoch of the caller or after a crash, meets the same       *)
(* receipt.  Only the call that publishes the intent executes: it follows  *)
(* Path(shape), where a phase is a durable record, a check compares what   *)
(* was pinned with the world as it is, an effect is a host call that may   *)
(* fail or expire and still happen later, and a result ends the call.      *)
(***************************************************************************)
EXTENDS Integers, Sequences, FiniteSets, SequencesExt

CONSTANTS
    Calls,      \* tool calls that carry the requestId
    Shapes,     \* body -> [kind, place, auto, jev, waits, delivery]: what a request asks for
    MaxEpoch,   \* epochs of the caller's membership
    None

VARIABLES
    receipt,    \* None or [epoch, body, phases, result]
    call,       \* call -> None or [epoch, body, at, todo, pins, waited]
    shown,      \* the requests, as [epoch, body], that were answered with the receipt
    world,      \* facet -> version
    epoch, revoked, stopped,
    host,       \* calls: effect -> calls issued; done: what happened; late: what still may
    registered  \* the child has a live membership row

formationVars == <<receipt, call, shown, world, epoch, revoked, stopped, host, registered>>

Bodies == DOMAIN Shapes
Facets == {"binding", "plan", "pool", "source", "target", "pins"}
\* The paid request for a decision and its one repetition by the transport.
Decisions == {"decide", "decide-again"}
Effects == {"open", "create", "send"} \cup Decisions
Checks == {"guard", "row", "plan", "pool", "source", "place", "pins"}
Results == {"refused", "open-uncertain", "create-uncertain", "identity-uncertain", "send-uncertain",
            "seat-pending", "awaiting-caller-delivery", "host-accepted"}
\* The steps that pin a facet, and what a call ends with when nobody knows.
PinStep == [source |-> "pin-source", target |-> "pin-target", pool |-> "pin-pool",
            plan |-> "pin-plan", pins |-> "pin-pins"]
Uncertain == [open |-> "open-uncertain", create |-> "create-uncertain", send |-> "send-uncertain"]

(***************************************************************************)
(* The steps of one invocation, in order.                                  *)
(***************************************************************************)
\* The bridge's guard reads the binding and the row, awaits the caller's
\* identity and reads the row again.
Guarded == <<"guard", "row">>
Placed(s) == s.place \in {"caller", "open"}

\* Qualification before create and before delivery: guard, replan, guard,
\* placement; a placed target is observed again after another guard.
Qualify(s) == Guarded \o <<"plan">> \o Guarded \o <<"place">>
              \o (IF Placed(s) THEN Guarded \o <<"place">> ELSE <<>>)
\* After a wait for registration the world is qualified once more.
Requalify == Guarded \o <<"plan", "place">> \o Guarded \o <<"reread">>

Resolve(s) ==
    CASE s.place = "none" -> <<>>
      [] s.place = "inherit" -> <<"pin-source">>
      [] OTHER -> <<"pin-source", "placement-planned">>
                  \o (IF s.place = "open"
                      THEN Guarded \o <<"source", "workspace-open-issued", "open", "workspace-open-returned">>
                      ELSE <<>>)
                  \o <<"pin-target", "place", "target-observed">>

\* An automatic Peer: the decision guard, the pool and mode as read, one paid
\* decision when Jev is on, and the same inputs read again.
Select(s) ==
    IF ~s.auto THEN <<>>
    ELSE Guarded \o (IF Placed(s) THEN <<"place">> \o Guarded ELSE <<"source">>)
         \o <<"pin-pool">> \o (IF s.jev = "off" THEN <<>> ELSE <<"route-issued", "decide">>)
         \o <<"pool", "route-selected">>

Register(s) == (IF s.waits THEN <<"member">> ELSE <<>>)
               \o (IF Placed(s) THEN <<"membership-observed">> ELSE <<>>)
Deliver(s) == IF s.delivery = "caller" THEN <<"delivery-handed-off", "awaiting-caller-delivery">>
              ELSE <<"send-issued", "send", "host-accepted">>

SeatPath(s) ==
    IF s.place = "worktree" THEN Guarded \o <<"refused">>
    ELSE Guarded \o Resolve(s) \o Select(s) \o <<"plan", "pin-plan", "prepared">> \o Qualify(s)
         \o <<"create-issued", "create", "create-returned", "create-observed", "observe">>
         \o Qualify(s) \o Register(s) \o Deliver(s)

\* Define, bootstrap and send cross the task core, which may refuse each.
TaskPath == <<"pin-pins", "define-issued", "defined", "core">>
            \o <<"bootstrap-issued", "core", "create", "bootstrapped">>
            \o <<"pins", "send-issued", "core", "send", "sent", "host-accepted">>
Path(s) == IF s.kind = "task" THEN TaskPath ELSE SeatPath(s)

Phases == {"placement-planned", "workspace-open-issued", "workspace-open-returned", "target-observed",
           "route-issued", "route-declined", "route-mismatch", "route-selected", "prepared",
           "create-issued", "create-returned", "create-observed", "membership-observed",
           "delivery-handed-off", "send-issued",
           "define-issued", "defined", "bootstrap-issued", "bootstrapped", "sent"}

Steps == Checks \cup Effects \cup Results \cup Phases \cup {"core", "observe", "member", "reread"}
         \cup {PinStep[f] : f \in DOMAIN PinStep}

\* What can be on disk under the requestId, and what a call is.
Receipts == [epoch : Nat, body : Bodies \cup {None}, phases : Seq(Phases), result : Results \cup {None}]
ToolCalls == [epoch : Nat, body : Bodies, at : {"preflight", "admit", "run"}, todo : Seq(Steps),
              pins : [Facets -> Nat \cup {None}], waited : BOOLEAN]
ASSUME FormationAssumption == None \notin Receipts \cup ToolCalls \cup Results

HasPreflight(s) == s.kind = "seat" /\ s.place # "worktree" /\ (s.auto \/ Placed(s))

(***************************************************************************)
(* The journal.                                                            *)
(***************************************************************************)
Request(k) == [epoch |-> k.epoch, body |-> k.body]
Intent(k) == [epoch |-> k.epoch, body |-> k.body, phases |-> <<>>, result |-> None]

\* inspect for a mutation: another epoch and another body are refused, the
\* same request is shown what is recorded.
Inspect(c) ==
    /\ shown' = IF Request(receipt) = Request(call[c]) THEN shown \cup {Request(call[c])} ELSE shown
    /\ call' = [call EXCEPT ![c] = None]

\* The caller's tool call.  The binding is pinned as the call finds it, an
\* omitted placement means the workspace the caller was bound to.
Start(c, b) ==
    /\ call[c] = None /\ ~stopped /\ ~revoked
    /\ call' = [call EXCEPT ![c] =
         [epoch |-> epoch, body |-> b, at |-> IF HasPreflight(Shapes[b]) THEN "preflight" ELSE "admit",
          todo |-> Path(Shapes[b]), waited |-> FALSE,
          pins |-> [f \in Facets |-> IF f = "binding" THEN world[f]
                                     ELSE IF f = "target" /\ ~Placed(Shapes[b]) THEN 0 ELSE None]]]
    /\ UNCHANGED <<receipt, shown, world, epoch, revoked, stopped, host, registered>>

\* The intent is published without O_EXCL, by whoever saw none.
AdmitUnlocated(c) ==
    /\ call[c] # None /\ call[c].at = "admit"
    /\ receipt' = Intent(call[c])
    /\ call' = [call EXCEPT ![c].at = "run"]
    /\ UNCHANGED <<shown, world, epoch, revoked, stopped, host, registered>>
\* The intent is published with O_EXCL, whoever looked first.
Admit(c) ==
    /\ call[c] # None /\ call[c].at = "admit"
    /\ IF receipt # None THEN Inspect(c) /\ UNCHANGED receipt
       ELSE receipt' = Intent(call[c]) /\ call' = [call EXCEPT ![c].at = "run"] /\ UNCHANGED shown
    /\ UNCHANGED <<world, epoch, revoked, stopped, host, registered>>

\* The process dies inside that publication: the torn intent is never
\* readable, and its requestId admits nothing any more.
AdmitTorn(c) ==
    /\ call[c] # None /\ call[c].at = "admit" /\ receipt = None
    /\ receipt' = [Intent(call[c]) EXCEPT !.body = None]
    /\ call' = [d \in Calls |-> None]
    /\ UNCHANGED <<shown, world, epoch, revoked, stopped, host, registered>>

\* The preflight awaits its guard, placement and choice discovery.  A receipt
\* that was there before or appeared meanwhile wins over what it found.
Preflight(c, ok) ==
    /\ call[c] # None /\ call[c].at = "preflight"
    /\ IF receipt # None THEN Inspect(c)
       ELSE call' = [call EXCEPT ![c] = IF ok THEN [@ EXCEPT !.at = "admit"] ELSE None] /\ UNCHANGED shown
    /\ UNCHANGED <<receipt, world, epoch, revoked, stopped, host, registered>>

(***************************************************************************)
(* The executing call.                                                     *)
(***************************************************************************)
Runs(c) == call[c] # None /\ call[c].at = "run"
Step(c) == Head(call[c].todo)
Goes(c) == call' = [call EXCEPT ![c].todo = Tail(@)]
Turns(c, todo) == call' = [call EXCEPT ![c].todo = todo]
Shape(c) == Shapes[call[c].body]

\* The result is recorded once, last; a failed write leaves it partial.
Return(c, written) ==
    /\ Runs(c) /\ Step(c) \in Results
    /\ receipt' = IF written THEN [receipt EXCEPT !.result = Step(c)] ELSE receipt
    /\ shown' = shown \cup {Request(call[c])}
    /\ call' = [call EXCEPT ![c] = None]
    /\ UNCHANGED <<world, epoch, revoked, stopped, host, registered>>

RowCurrent(c) == ~revoked /\ epoch = call[c].epoch
Same(c, f) == call[c].pins[f] \in {None, world[f]}

\* What a check compares: the plan is made again from the candidate, the
\* profile and the providers; a placed source belongs to its target's pin; a
\* target is observed live, in its repository and configuration.
SourceHolds(c) == Same(c, "source")
PlanHolds(c) == Same(c, "plan") /\ Same(c, "pool") /\ (Placed(Shape(c)) \/ SourceHolds(c))
PlaceHolds(c) == SourceHolds(c) /\ Same(c, "target")
Holds(c, check) ==
    CASE check = "guard" -> ~stopped /\ Same(c, "binding") /\ RowCurrent(c)
      [] check = "row" -> RowCurrent(c)
      [] check = "plan" -> PlanHolds(c)
      [] check = "place" -> PlaceHolds(c)
      [] OTHER -> Same(c, check)

Check(c) ==
    /\ Runs(c) /\ Step(c) \in Checks
    /\ IF Holds(c, Step(c)) THEN Goes(c) ELSE Turns(c, <<"refused">>)
    /\ UNCHANGED <<receipt, shown, world, epoch, revoked, stopped, host, registered>>

Pin(c) ==
    /\ Runs(c)
    /\ \E f \in DOMAIN PinStep :
         /\ Step(c) = PinStep[f]
         /\ call' = [call EXCEPT ![c].todo = Tail(@), ![c].pins[f] = world[f]]
    /\ UNCHANGED <<receipt, shown, world, epoch, revoked, stopped, host, registered>>

\* A phase is durable before the call goes on.
Phase(c) ==
    /\ Runs(c) /\ Step(c) \in Phases
    /\ receipt' = [receipt EXCEPT !.phases = Append(@, Step(c))]
    /\ Goes(c)
    /\ UNCHANGED <<shown, world, epoch, revoked, stopped, host, registered>>
\* A failed write ends the call; no second write can turn it into success.
PhaseFails(c) ==
    /\ Runs(c) /\ Step(c) \in Phases
    /\ call' = [call EXCEPT ![c] = None]
    /\ shown' = shown \cup {Request(call[c])}
    /\ UNCHANGED <<receipt, world, epoch, revoked, stopped, host, registered>>

\* What a composition still records about a bootstrap or a send that failed.
Closing(c, e) == CASE Shape(c).kind = "task" /\ e = "create" -> <<"bootstrapped">>
                   [] Shape(c).kind = "task" /\ e = "send" -> <<"sent">>
                   [] OTHER -> <<>>

\* The task core refuses the next transition and nothing is asked of the host.
Core(c, ok) ==
    /\ Runs(c) /\ Step(c) = "core"
    /\ IF ok THEN Goes(c)
       ELSE Turns(c, Closing(c, call[c].todo[2]) \o <<"refused">>)
    /\ UNCHANGED <<receipt, shown, world, epoch, revoked, stopped, host, registered>>

\* A host call that is answered.
Effect(c, e) ==
    /\ Runs(c) /\ Step(c) = e
    /\ host' = [host EXCEPT !.calls[e] = @ + 1, !.done = @ \cup {e}]
    /\ Goes(c)
    /\ UNCHANGED <<receipt, shown, world, epoch, revoked, stopped, registered>>

\* What an expired or failed call leaves at the host.
Fated(e, fate) == [host EXCEPT !.calls[e] = @ + 1,
                               !.done = @ \cup (IF fate = "done" THEN {e} ELSE {}),
                               !.late = @ \cup (IF fate = "late" THEN {e} ELSE {})]
\* A call that timed out is taken for one that was not made.
EffectRefused(c, e, fate) ==
    /\ Runs(c) /\ Step(c) = e /\ e \notin Decisions
    /\ host' = Fated(e, fate)
    /\ Turns(c, Closing(c, e) \o <<"refused">>)
    /\ UNCHANGED <<receipt, shown, world, epoch, revoked, stopped, registered>>
\* One that fails or expires: nobody knows whether it happened, or will.
EffectUncertain(c, e, fate) ==
    /\ Runs(c) /\ Step(c) = e /\ e \notin Decisions
    /\ host' = Fated(e, fate)
    /\ Turns(c, Closing(c, e) \o <<Uncertain[e]>>)
    /\ UNCHANGED <<receipt, shown, world, epoch, revoked, stopped, registered>>
LateEffect(e) ==
    /\ e \in host.late
    /\ host' = [host EXCEPT !.late = @ \ {e}, !.done = @ \cup {e}]
    /\ UNCHANGED <<receipt, call, shown, world, epoch, revoked, stopped, registered>>

\* The decision is refused before any request: no key, no candidate, a secret
\* in its payload.
DecisionUnsent(c) ==
    /\ Runs(c) /\ Step(c) = "decide"
    /\ Turns(c, <<"refused">>)
    /\ UNCHANGED <<receipt, shown, world, epoch, revoked, stopped, host, registered>>
\* The request times out, meets no network, or is answered 429 or 5xx: it is
\* sent once more.  A request that left counts as decided and paid for, whatever
\* became of it.
DecisionRetried(c) ==
    /\ Runs(c) /\ Step(c) = "decide"
    /\ host' = Fated("decide", "done")
    /\ Turns(c, <<"decide-again">> \o Tail(call[c].todo))
    /\ UNCHANGED <<receipt, shown, world, epoch, revoked, stopped, registered>>
\* It fails for good, or its answer does not fit: there is no fallback.
DecisionFailed(c, e) ==
    /\ Runs(c) /\ Step(c) = e /\ e \in Decisions
    /\ host' = Fated(e, "done")
    /\ Turns(c, <<"refused">>)
    /\ UNCHANGED <<receipt, shown, world, epoch, revoked, stopped, registered>>
\* Jev is armed and declines, or chooses other than the caller's selection.
Decided(c, e, reply) ==
    /\ Runs(c) /\ Step(c) = e /\ e \in Decisions /\ Shape(c).jev = "armed"
    /\ host' = Fated(e, "done")
    /\ Turns(c, <<reply, "refused">>)
    /\ UNCHANGED <<receipt, shown, world, epoch, revoked, stopped, registered>>

\* verifySeat: the created tuple is observed as it was asked for, or not.
Observe(c, ok) ==
    /\ Runs(c) /\ Step(c) = "observe"
    /\ IF ok THEN Goes(c) ELSE Turns(c, <<"identity-uncertain">>)
    /\ UNCHANGED <<receipt, shown, world, epoch, revoked, stopped, host, registered>>

\* The child's membership row: there at once, there after a wait (the world is
\* then qualified again and the row read again), or not within the budget.
Pending(c) == (IF Placed(Shape(c)) THEN <<"membership-observed">> ELSE <<>>) \o <<"seat-pending">>
Member(c, patient) ==
    /\ Runs(c) /\ Step(c) \in {"member", "reread"}
    /\ CASE registered -> Turns(c, (IF call[c].waited /\ Step(c) = "member" THEN Requalify ELSE <<>>)
                                   \o Tail(call[c].todo))
         [] ~registered /\ patient -> /\ Step(c) = "member" /\ ~call[c].waited
                                      /\ call' = [call EXCEPT ![c].waited = TRUE]
         [] OTHER -> Turns(c, Pending(c))
    /\ UNCHANGED <<receipt, shown, world, epoch, revoked, stopped, host, registered>>

(***************************************************************************)
(* What else happens.                                                      *)
(***************************************************************************)
\* The world changes once under the formation, in a facet that it pinned.
Drift(f) ==
    /\ \A g \in Facets : world[g] = 0
    /\ \E c \in Calls : call[c] # None /\ call[c].pins[f] # None
    /\ world' = [world EXCEPT ![f] = 1]
    /\ UNCHANGED <<receipt, call, shown, epoch, revoked, stopped, host, registered>>

\* The caller's membership ends, and its agent comes back in a new epoch.
Revoke ==
    /\ ~revoked /\ epoch < MaxEpoch /\ revoked' = TRUE
    /\ UNCHANGED <<receipt, call, shown, world, epoch, stopped, host, registered>>
Rebind ==
    /\ revoked /\ revoked' = FALSE /\ epoch' = epoch + 1
    /\ UNCHANGED <<receipt, call, shown, world, stopped, host, registered>>

\* The created agent's hook registers it while its formation may wait for that;
\* a registration can end again.
Registers ==
    /\ "create" \in host.done /\ (\E c \in Calls : Runs(c)) /\ registered' = ~registered
    /\ UNCHANGED <<receipt, call, shown, world, epoch, revoked, stopped, host>>

\* The bridge is stopped under its calls; the plugin process ends with them,
\* their host calls may still land, and a new bridge serves the same journal.
Stop ==
    /\ ~stopped /\ stopped' = TRUE /\ \E c \in Calls : Runs(c)
    /\ UNCHANGED <<receipt, call, shown, world, epoch, revoked, host, registered>>
Restart ==
    /\ call' = [c \in Calls |-> None] /\ stopped' = FALSE
    /\ UNCHANGED <<receipt, shown, world, epoch, revoked, host, registered>>

FormationInit ==
    /\ receipt = None /\ call = [c \in Calls |-> None] /\ shown = {}
    /\ world = [f \in Facets |-> 0] /\ epoch = 1 /\ revoked = FALSE /\ stopped = FALSE
    /\ host = [calls |-> [e \in Effects |-> 0], done |-> {}, late |-> {}]
    /\ registered = FALSE

FormationNext ==
    \/ \E c \in Calls :
        \/ \E b \in Bodies : Start(c, b)
        \/ Admit(c) \/ AdmitTorn(c) \/ Check(c) \/ Pin(c) \/ Phase(c) \/ PhaseFails(c)
        \/ \E ok \in BOOLEAN : Preflight(c, ok) \/ Core(c, ok) \/ Observe(c, ok) \/ Member(c, ok) \/ Return(c, ok)
        \/ DecisionUnsent(c) \/ DecisionRetried(c)
        \/ \E e \in Decisions :
             DecisionFailed(c, e) \/ \E reply \in {"route-declined", "route-mismatch"} : Decided(c, e, reply)
        \/ \E e \in Effects : Effect(c, e) \/ \E fate \in {"done", "late", "none"} : EffectUncertain(c, e, fate)
    \/ \E e \in Effects : LateEffect(e)
    \/ \E f \in Facets : Drift(f)
    \/ Revoke \/ Rebind \/ Registers \/ Stop \/ Restart

(***************************************************************************)
(* Properties.                                                             *)
(***************************************************************************)
Recorded(phase) == receipt # None /\ phase \in ToSet(receipt.phases)
Happens(e) == e \in host.done \cup host.late

\* "Only the winner of the exclusive intent publication executes. A crash or
\* concurrent replay reads partial evidence and NEVER continues effects"
\* (desk-operation.ts:3): at most one call executes; nothing is asked of the
\* host twice; the decision is invoked once, which may be paid for twice, as
\* its transport repeats a failed request once by default and no more (jev.ts
\* askJev, postDecision); whatever the host did, or may still do, is preceded
\* by its durable phase, a send by its create; and a mutating call is only ever
\* answered with the receipt of its own body and its own epoch.
FormedOnce ==
    /\ \A c, d \in Calls : Runs(c) /\ Runs(d) => c = d
    /\ \A e \in Effects : host.calls[e] <= 1
    /\ Happens("open") => Recorded("workspace-open-issued")
    /\ \A e \in Decisions : Happens(e) => Recorded("route-issued")
    /\ Happens("create") => Recorded("create-issued") \/ Recorded("bootstrap-issued")
    /\ Happens("send") => Recorded("send-issued") /\ "create" \in host.done
    /\ \A k \in shown : k = Request(receipt)

\* What a recorded result says is what happened, for ever, whatever the host
\* does later with a call that expired: no assignment reached the child when
\* the receipt says refused, pending or uncertain before delivery; an accepted
\* delivery was sent to a child that exists; a refusal before the create was
\* issued means there is no child; and the phases never outgrow their budget
\* of 16, which would lose the result of an effect that happened.
ReceiptsTellTheTruth ==
    receipt # None =>
        /\ Len(receipt.phases) <= 16
        /\ receipt.result \in Results \ {"host-accepted", "send-uncertain"} => ~Happens("send")
        /\ receipt.result = "host-accepted" => {"create", "send"} \subseteq host.done
        /\ receipt.result = "refused" /\ ~Recorded("create-issued") /\ ~Recorded("bootstrap-issued")
             => ~Happens("create")
=============================================================================
