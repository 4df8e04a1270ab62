----------------------------- MODULE MCProvision ----------------------------
(***************************************************************************)
(* What must be in place before a seat works, for TLC: three stories that  *)
(* do not mix, each with the others at rest.                               *)
(*   config:    the planner's operations on a document that others edit;   *)
(*   publish:   two activations publish their directories;                 *)
(*   formation: two calls form one seat.                                   *)
(*                                                                         *)
(* Formation: four requests under one requestId: a Peer whose source is    *)
(* inherited and who is selected without Jev, one that opens a workspace   *)
(* and is chosen by Jev, a refused worktree, a task delivery.  A seat with *)
(* explicit pins takes the inherited Peer's steps less some of its checks. *)
(*                                                                         *)
(* Config: a user without profiles and without routing, one with a profile *)
(* of his own, the flag on and a routing; a first request, one that moves  *)
(* a seat to another family and pins a release, one that adopts.           *)
(***************************************************************************)
EXTENDS Formation, Publish, ConfigPlan, TLC

CONSTANTS
    linked, opened, tree, job
VARIABLE story

MCShape(kind, place, auto, jev, waits, delivery) ==
    [kind |-> kind, place |-> place, auto |-> auto, jev |-> jev, waits |-> waits, delivery |-> delivery]
MCShapes == (linked :> MCShape("seat", "inherit", TRUE, "off", TRUE, "server"))
            @@ (opened :> MCShape("seat", "open", TRUE, "armed", TRUE, "caller"))
            @@ (tree :> MCShape("seat", "worktree", FALSE, "off", FALSE, "caller"))
            @@ (job :> MCShape("task", "none", FALSE, "off", FALSE, "server"))
MCSymmetry == Permutations(Calls) \cup Permutations(Publishers)

MCFamilies == <<"codex", "antigravity">>
MCKeep == [family |-> Unset, thinking |-> "keep"]
MCRequest(adopt, supervisor, codex) ==
    [adopt |-> adopt, initial |-> Unset, prefs |-> [supervisor |-> supervisor, lead |-> MCKeep],
     binaries |-> [codex |-> codex, antigravity |-> "any"]]
MCRequests == {MCRequest(FALSE, MCKeep, "any"), MCRequest(TRUE, MCKeep, "any"),
               MCRequest(TRUE, [family |-> "antigravity", thinking |-> "high"], "release")}
MCRoutings == {Unset, [supervisor |-> [family |-> "codex", thinking |-> "low"],
                       lead |-> [family |-> "codex", thinking |-> Unset]]}
MCProfile(name, family, seat) == [id |-> name, provider |-> <<family, seat>>, thinking |-> Unset]
MCUserProfiles == {MCProfile("mine", "antigravity", "lead")}
MCDocument(profiles, listed, inject) ==
    [providers |-> [id \in Ids |-> Unset], profiles |-> profiles, listed |-> listed,
     inject |-> inject, enabled |-> TRUE, refs |-> {}, rest |-> "plain"]
MCDocuments == {MCDocument(<<>>, FALSE, "absent"),
                MCDocument(<<MCProfile("old", "codex", "base")>>, TRUE, "on")}

Init ==
    /\ story \in {"config", "publish", "formation"}
    /\ FormationInit /\ PublishInit /\ PlanInit
    /\ live.listed <=> routing # Unset
    /\ story # "config" => ~live.listed
    /\ story # "publish" => parents.made = {}

Next ==
    /\ UNCHANGED story
    /\ \/ story = "config" /\ PlanNext /\ UNCHANGED <<publishVars, formationVars>>
       \/ story = "publish" /\ PublishNext /\ UNCHANGED <<planVars, formationVars>>
       \/ story = "formation" /\ FormationNext /\ UNCHANGED <<planVars, publishVars>>

Spec == Init /\ [][Next]_<<story, planVars, publishVars, formationVars>>
=============================================================================
