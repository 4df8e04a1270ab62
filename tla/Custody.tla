------------------------------ MODULE Custody -------------------------------
(***************************************************************************)
(* One assignment of a repository desk: who owns it, which agents have a   *)
(* seat on it, its brief, and the candidates its seats hand back           *)
(* (plugin/server/desk-assignment.ts, desk-ownership.ts, desk-handback.ts, *)
(* desk-command.ts).                                                       *)
(*                                                                         *)
(* A command is one step: the store decides and commits it under the       *)
(* writer lock (the Desk modules).  What is not one step is a handback:    *)
(* the submit commits, the working tree is measured by a child process,    *)
(* and the observation commits later, or never.                            *)
(*                                                                         *)
(* An agent has one membership; a revoked one does not come back.  A       *)
(* snapshot digests the tree together with its head, so it stands for both.*)
(***************************************************************************)
EXTENDS Naturals, Sequences, FiniteSets

CONSTANTS
    Leads, Founder,         \* agents of role lead; the one that registered
    Seats,                  \* the other agents
    Attached,               \* agents attached before the story begins
    Revocable,              \* agents whose membership may be revoked
    Editors,                \* agents whose working tree may change
    Delivered,              \* candidates handed back before the story begins
    Snapshots,              \* contents a working tree can have
    None,
    MaxBrief, MaxOwnership, MaxHandbacks, MaxCaptures     \* bounds

ASSUME CustodyAssumption ==
    /\ Founder \in Leads
    /\ Attached \subseteq Leads \cup Seats /\ IsFiniteSet(Attached)
    /\ Revocable \cup Editors \subseteq Leads \cup Seats
    /\ None \notin Leads \cup Seats \cup Snapshots /\ Snapshots # {}
    /\ Delivered \in Seq([seat : Attached, snap : Snapshots])
    /\ {MaxBrief, MaxOwnership, MaxHandbacks, MaxCaptures} \subseteq Nat

VARIABLES
    open,           \* is the assignment open?
    live,           \* agents with a live registered membership
    seats,          \* agents attached to the assignment
    owners,         \* the lineage of owners, the registered one first
    offers,         \* offers of ownership made
    brief,          \* the revision of the operative brief
    tree,           \* contents of each agent's working tree
    handbacks,      \* submitted handbacks, in order
    candidates,     \* observed candidates, in order
    captures        \* measurements taken and not yet recorded

custodyVars == <<open, live, seats, owners, offers, brief>>
handbackVars == <<tree, handbacks, candidates, captures>>

Agents == Leads \cup Seats

OfferRow == [from : Leads, to : Leads, rev : Nat]
HandbackRow == [seat : Agents, observed : {"pending", "ok", "failed"}]
CandidateRow == [handback : Nat, seat : Agents, snap : Snapshots]
Capture == [handback : Nat, snap : Snapshots \cup {None}]

CustodyTypeOK ==
    /\ open \in BOOLEAN
    /\ live \subseteq Agents /\ seats \subseteq Agents
    /\ owners \in Seq(Leads)
    /\ offers \subseteq OfferRow
    /\ brief \in 0..MaxBrief
    /\ tree \in [Agents -> Snapshots]
    /\ handbacks \in Seq(HandbackRow)
    /\ candidates \in Seq(CandidateRow)
    /\ captures \subseteq Capture

CustodyInit ==
    /\ open = TRUE
    /\ live = Agents
    /\ seats = Attached
    /\ owners = <<Founder>>
    /\ offers = {}
    /\ brief = 0
    /\ tree = [a \in Agents |-> IF Delivered = <<>> THEN CHOOSE c \in Snapshots : TRUE
                               ELSE Delivered[Len(Delivered)].snap]
    /\ handbacks = [h \in DOMAIN Delivered |-> [seat |-> Delivered[h].seat, observed |-> "ok"]]
    /\ candidates = [h \in DOMAIN Delivered |->
          [handback |-> h, seat |-> Delivered[h].seat, snap |-> Delivered[h].snap]]
    /\ captures = {}

-----------------------------------------------------------------------------
(* Authority. *)

EffectiveOwner == owners[Len(owners)]
OwnershipRevision == Len(owners) - 1

\* The owner under whose membership every command about the assignment runs.
Owner(l) == l \in live \cap Leads /\ l = EffectiveOwner

OwnsOpen(l) == Owner(l) /\ open

StructuralRevision == 1 + Cardinality(seats) + (IF open THEN 0 ELSE 1)

\* An attached agent, or the owner, whose membership is still live.
CurrentLiveSeat(a) == a = EffectiveOwner \/ a \in seats \cap live

-----------------------------------------------------------------------------
(* The assignment. *)

Attach(l, a) ==
    /\ OwnsOpen(l)
    /\ a \in live \ seats
    /\ seats' = seats \cup {a}
    /\ UNCHANGED <<open, live, owners, offers, brief, handbackVars>>

CloseAssignment(l) ==
    /\ OwnsOpen(l)
    /\ open' = FALSE
    /\ UNCHANGED <<live, seats, owners, offers, brief, handbackVars>>

Amend(l) ==
    /\ OwnsOpen(l)
    /\ brief < MaxBrief
    /\ brief' = brief + 1
    /\ UNCHANGED <<open, live, seats, owners, offers, handbackVars>>

Offer(l, to) ==
    /\ OwnsOpen(l)
    /\ to \in (live \cap Leads) \ {l}
    /\ OwnershipRevision < MaxOwnership
    /\ offers' = offers \cup {[from |-> l, to |-> to, rev |-> OwnershipRevision]}
    /\ UNCHANGED <<open, live, seats, owners, brief, handbackVars>>

\* The accept names the offer and the ownership, brief and ledger revisions
\* its author read: it takes effect only if none of them moved since.
Accept(to) ==
    /\ open /\ to \in live \cap Leads
    /\ \E o \in offers : o.to = to /\ o.rev = OwnershipRevision
    /\ owners' = Append(owners, to)
    /\ UNCHANGED <<open, live, seats, offers, brief, handbackVars>>

\* The host archives the agent, or its seat expires.
Revoke(a) ==
    /\ a \in Revocable \cap live
    /\ live' = live \ {a}
    /\ UNCHANGED <<open, seats, owners, offers, brief, handbackVars>>

-----------------------------------------------------------------------------
(* Handbacks. *)

\* An agent works: its tree becomes anything.
Edit(a, c) ==
    /\ a \in Editors /\ tree[a] # c
    /\ tree' = [tree EXCEPT ![a] = c]
    /\ UNCHANGED <<custodyVars, handbacks, candidates, captures>>

SubmitHandback(a) ==
    /\ a \in live \cap seats /\ open
    /\ Len(handbacks) < MaxHandbacks
    /\ handbacks' = Append(handbacks, [seat |-> a, observed |-> "pending"])
    /\ UNCHANGED <<custodyVars, tree, candidates, captures>>

\* The runner of a submit, or of a repeat of it, measures the tree while the
\* handback is pending; the measurement may fail, and the process that took
\* it may die before it records anything.
CaptureTree(h) ==
    /\ handbacks[h].observed = "pending"
    /\ Cardinality(captures) < MaxCaptures
    /\ \E c \in {tree[handbacks[h].seat], None} :
         captures' = captures \cup {[handback |-> h, snap |-> c]}
    /\ UNCHANGED <<custodyVars, tree, handbacks, candidates>>

\* The observation commits.  The first one stands; it is recorded also when
\* the assignment has been closed meanwhile, but not for a revoked seat.
Observe(m) ==
    /\ m \in captures
    /\ captures' = captures \ {m}
    /\ LET h == m.handback
           due == handbacks[h].observed = "pending" /\ handbacks[h].seat \in live
       IN /\ handbacks' = IF due
               THEN [handbacks EXCEPT ![h].observed = IF m.snap = None THEN "failed" ELSE "ok"]
               ELSE handbacks
          /\ candidates' = IF due /\ m.snap # None
               THEN Append(candidates, [handback |-> h, seat |-> handbacks[h].seat, snap |-> m.snap])
               ELSE candidates
    /\ UNCHANGED <<custodyVars, tree>>

CustodyNext ==
    \/ \E l \in Leads :
         \/ \E a \in Agents : Attach(l, a)
         \/ CloseAssignment(l)
         \/ Amend(l)
         \/ \E to \in Leads : Offer(l, to)
         \/ Accept(l)
    \/ \E a \in Agents :
         \/ Revoke(a)
         \/ \E c \in Snapshots : Edit(a, c)
         \/ SubmitHandback(a)
    \/ \E h \in DOMAIN handbacks : CaptureTree(h)
    \/ \E m \in captures : Observe(m)

-----------------------------------------------------------------------------
(* What the loader checks of these rows (desk-store.ts, checkRefinements). *)

Lineage == {owners[i] : i \in DOMAIN owners}

OffersRead ==
    \A o \in offers : o.rev < Len(owners) /\ owners[o.rev + 1] = o.from

LineageReads ==
    \A i \in 2..Len(owners) :
       \E o \in offers : o.rev = i - 2 /\ o.to = owners[i]

CandidatesRead ==
    /\ \A i \in DOMAIN candidates : candidates[i].seat \in seats
    /\ \A i, j \in DOMAIN candidates :
         candidates[i].handback = candidates[j].handback => i = j

HandbacksRead ==
    \A h \in DOMAIN handbacks :
       /\ handbacks[h].seat \in seats
       /\ handbacks[h].observed = "ok" <=>
            \E i \in DOMAIN candidates :
               candidates[i].handback = h /\ candidates[i].seat = handbacks[h].seat

CustodyReads == OffersRead /\ LineageReads /\ CandidatesRead /\ HandbacksRead
=============================================================================
