----------------------------- MODULE ConfigPlan -----------------------------
(***************************************************************************)
(* What the manager's operations do to the daemon's config, entry by entry: *)
(* the planner (config-transaction.ts), the views it compares              *)
(* (config-view.ts) and the executables a plan freezes (executables.ts).   *)
(* Module Manager has the journal around it, with configs that are one     *)
(* value; here a config is a document and the journal one operation.       *)
(*                                                                         *)
(* A provider entry is the launch set it starts, which stands for all its  *)
(* fields; of a profile's fields `thinking' stands for those that can be   *)
(* left out; `rest' is what the plugin never looks at.  There is one       *)
(* vocabulary of provider ids: the older ones of historical receipts and   *)
(* the choice of Node are left out.                                        *)
(***************************************************************************)
EXTENDS Integers, Sequences, SequencesExt

CONSTANTS
    Families,       \* provider families, in the registry's order
    Codex, Antigravity,
    Bases,          \* families whose own provider the user has enabled
    Requests,       \* activation requests: [adopt, initial, prefs, binaries]
    Routings,       \* contents of role-routing.json: Unset or seat -> [family, thinking]
    UserProfiles,   \* saved profiles the user may add
    Documents,      \* configs the user starts with
    MaxOperations, MaxEdits, Unset

VARIABLES
    disk, live,     \* config.json, and the config the daemon runs with
    binding,        \* NoBinding or [launch, owned, injected]
    operation,      \* NoOperation or the operation under way, with its plan
    routing, candidate,
    found,          \* family -> the paths that probe clean
    own,            \* what the user set daemon.mcp.injectIntoAgents to
    spent           \* bounds

docs == <<disk, live>>
surroundings == <<routing, candidate, found>>
planVars == <<disk, live, binding, operation, routing, candidate, found, own, spent>>

Family == ToSet(Families)
Seats == <<"supervisor", "lead">>               \* OWNED_PROFILE_IDS
Ids == Family \X {"supervisor", "lead", "peer"} \* OWNED_PROVIDER_IDS
Paths == {"alias", "current", "release"}
\* What a provider entry starts.
Launches == [candidate : Nat, binaries : [Family -> Paths \cup {Unset}]]
DocFields == {"providers", "profiles", "listed", "inject", "enabled", "refs", "rest"}

\* The families of requests and routings are the registry's; Unset is none
\* of the values it stands beside.
ASSUME PlanAssumption ==
    /\ Families # <<>> /\ Families \in Seq(Family)
    /\ Unset \notin Launches /\ Unset \notin Family
    /\ \A request \in Requests :
          /\ request.initial \in Family \cup {Unset}
          /\ \A seat \in ToSet(Seats) : request.prefs[seat].family \in Family \cup {Unset}
          /\ \A f \in Family : request.binaries[f] \in Paths \cup {"any"}
    /\ \A chosen \in Routings \ {Unset} : \A seat \in ToSet(Seats) : chosen[seat].family \in Family
    /\ \A doc \in Documents : doc = [field \in DocFields |-> doc[field]]

NoBinding == [launch |-> Unset, owned |-> Unset, injected |-> FALSE]
NoOperation == [kind |-> "none", plan |-> Unset, at |-> "none", sent |-> Unset, took |-> "none"]

(***************************************************************************)
(* Executables.  A binary is reached through an alias in PATH, the vendor's *)
(* `current' handle, or one release.                                       *)
(***************************************************************************)

Clean(f, path) == path \in found[f]

\* A release that was recorded is followed to the current one.
Tracked(f, path) == IF path = "release" /\ Clean(f, "current") THEN "current" ELSE path

\* An explicit path, else PATH, else the path of the binding.
Binary(f, asked, prior) ==
    IF asked # "any" THEN asked
    ELSE IF Clean(f, "alias") THEN "alias"
    ELSE IF Clean(f, prior) THEN Tracked(f, prior) ELSE Unset
Resolution(request) ==
    [f \in Family |-> Binary(f, request.binaries[f],
                             IF binding = NoBinding THEN Unset ELSE binding.launch.binaries[f])]
Available(launch) == {f \in Family : launch.binaries[f] # Unset}

\* probeRecordedExecutables: what a binding froze is still there.
Probes(launch) == \A f \in Available(launch) : Clean(f, launch.binaries[f])

(***************************************************************************)
(* Documents: [providers, profiles, listed, inject, enabled, refs, rest].  *)
(* `listed' is the presence of the profile array, `refs' the providers     *)
(* that metadata generation names.                                         *)
(***************************************************************************)

Injects(doc) == doc.inject = "on"
Absent(providers) == {id \in Ids : providers[id] = Unset}
IsOwned(profile) == profile.id \in ToSet(Seats)
Others(profiles) == SelectSeq(profiles, LAMBDA profile : ~IsOwned(profile))
Places(profiles, seat) == {i \in DOMAIN profiles : profiles[i].id = seat}
Place(profiles, seat) == CHOOSE i \in Places(profiles, seat) : TRUE

SlotsOf(profiles) ==
    {[index |-> i, value |-> profiles[i]] : i \in {i \in DOMAIN profiles : IsOwned(profiles[i])}}
Projectable(doc) == \A n \in DOMAIN Seats : Cardinality(Places(doc.profiles, Seats[n])) <= 1
Projection(doc) == [providers |-> doc.providers, slots |-> SlotsOf(doc.profiles),
                    listed |-> doc.listed, inject |-> doc.inject]
Unrelated(doc) == <<Others(doc.profiles), doc.refs, doc.enabled, doc.rest>>

\* Slots of the profiles a plan wants: their place, or behind the whole array.
ComputeSlots(profiles, wanted) ==
    LET new == {n \in DOMAIN wanted : Places(profiles, wanted[n].id) = {}}
        Index(n) == IF n \in new THEN Len(profiles) + Cardinality(new \cap 1..n)
                    ELSE Place(profiles, wanted[n].id)
    IN  {[index |-> Index(n), value |-> wanted[n]] : n \in DOMAIN wanted}

ApplyOwnedSlots(profiles, slots) ==
    FoldLeft(LAMBDA list, slot : InsertAt(list, Min({slot.index, Len(list) + 1}), slot.value),
             Others(profiles), SetToSortSeq(slots, LAMBDA s, t : s.index < t.index))

(***************************************************************************)
(* Endpoints: [owned, profiles, listed], an owned projection and the whole *)
(* array of profiles around it.                                            *)
(***************************************************************************)

\* An empty list is as good as none: a patch can write one but not unwrite it.
SameList(listed, list, listed2, list2, empty) == list = list2 /\ (listed = listed2 \/ list = empty)

DiskAt(doc, end, unrelated) ==
    /\ Projectable(doc)
    /\ doc.providers = end.owned.providers
    /\ SameList(doc.listed, SlotsOf(doc.profiles), end.owned.listed, end.owned.slots, {})
    /\ Injects(doc) = Injects(end.owned)
    /\ SameList(doc.listed, doc.profiles, end.listed, end.profiles, <<>>)
    /\ Unrelated(doc) = unrelated
LiveAt(doc, end, enabled) ==
    /\ doc.enabled = enabled
    /\ doc.providers = end.owned.providers
    /\ SameList(doc.listed, doc.profiles, end.listed, end.profiles, <<>>)
    /\ Injects(doc) = Injects(end.owned)

ClassOf(raw, effective, plan) ==
    LET DB == DiskAt(raw, plan.before, plan.unrelated)
        DA == DiskAt(raw, plan.after, plan.unrelated)
        LB == LiveAt(effective, plan.before, plan.enabled)
        LA == LiveAt(effective, plan.after, plan.enabled)
    IN  CASE DB /\ LB /\ DA /\ LA -> "equal"
          [] DB /\ LB /\ ~(DA /\ LA) -> "before"
          [] DA /\ LA /\ ~(DB /\ LB) -> "after"
          [] OTHER -> "neither"

Patch(doc, owned, injects) ==
    [providers |-> owned.providers, profiles |-> ApplyOwnedSlots(doc.profiles, owned.slots),
     inject |-> IF injects THEN "on" ELSE "off"]
PatchForDirection(plan, direction, doc) ==
    IF direction = "forward" THEN Patch(doc, plan.after.owned, Injects(plan.after.owned))
    ELSE Patch(doc, plan.before.owned, plan.injects)

\* The host merges the entries, writes the array and the flag, and drops the
\* references of metadata generation to what it removes.
Patched(doc, patch) ==
    [doc EXCEPT !.providers = patch.providers, !.profiles = patch.profiles, !.listed = TRUE,
                !.inject = patch.inject, !.refs = @ \ Absent(patch.providers)]

(***************************************************************************)
(* Guards                                                                  *)
(***************************************************************************)

RawLiveAgreement ==
    /\ live.enabled = disk.enabled /\ Injects(live) = Injects(disk)
    /\ live.providers = disk.providers /\ live.profiles = disk.profiles
MetadataAgreement == live.refs = disk.refs

NoDependentReferences(doc, removed) ==
    /\ \A i \in DOMAIN doc.profiles :
          ~IsOwned(doc.profiles[i]) => doc.profiles[i].provider \notin removed
    /\ doc.refs \cap removed = {}

(***************************************************************************)
(* The plan of an activation                                               *)
(***************************************************************************)

\* Mutant: the stored routing alone chooses what is generated.
EffectiveStored(request) ==
    IF routing = Unset THEN Unset ELSE [seat \in ToSet(Seats) |-> routing[seat].family]
\* Routing with the families the request asks for, the later override.
Effective(request) ==
    IF routing = Unset THEN Unset
    ELSE [seat \in ToSet(Seats) |->
            IF request.prefs[seat].family = Unset THEN routing[seat].family
            ELSE request.prefs[seat].family]

\* A stored routing chooses the Supervisor and the Lead; Peers are a pool.
DesiredProviderEntries(launch, chosen) ==
    [id \in Ids |-> IF chosen = Unset \/ id[2] = "peer" THEN launch
                    ELSE IF id[1] = chosen[id[2]] THEN launch ELSE Unset]

\* The first available family whose own provider is enabled, then Codex.
FirstOf(S) == Families[Min({n \in DOMAIN Families : Families[n] \in S})]
ProfileFamily(request, launch) ==
    LET based == Available(launch) \cap Bases
    IN  IF request.initial # Unset THEN request.initial
        ELSE IF based # {} THEN FirstOf(based)
        ELSE IF Codex \in Available(launch) THEN Codex ELSE FirstOf(Available(launch))

\* An absent preference keeps what there is, a given one, Unset included,
\* replaces it; Antigravity's thinking is part of its model.
Preferred(thinking, pref) ==
    IF pref.thinking # "keep" THEN pref.thinking
    ELSE IF pref.family = Antigravity THEN Unset ELSE thinking
ApplyProfilePrefs(profile, pref) ==
    [id |-> profile.id,
     provider |-> IF pref.family = Unset THEN profile.provider ELSE <<pref.family, profile.id>>,
     thinking |-> Preferred(profile.thinking, pref)]
ApplyRoleRouting(profile, choice) ==
    [id |-> profile.id, provider |-> <<choice.family, profile.id>>,
     thinking |-> IF choice.thinking # Unset THEN choice.thinking
                  ELSE IF choice.family = Antigravity THEN Unset ELSE profile.thinking]
DesiredProfile(seat, request, launch) ==
    LET choice == IF routing = Unset THEN [family |-> ProfileFamily(request, launch), thinking |-> Unset]
                  ELSE routing[seat]
    IN  ApplyProfilePrefs([id |-> seat, provider |-> <<choice.family, seat>>, thinking |-> choice.thinking],
                          request.prefs[seat])
LiveProfile(seat, request) ==
    LET profile == disk.profiles[Place(disk.profiles, seat)]
    IN  ApplyProfilePrefs(IF routing = Unset THEN profile ELSE ApplyRoleRouting(profile, routing[seat]),
                          request.prefs[seat])
DesiredProfiles(request, launch) ==
    [n \in DOMAIN Seats |-> IF binding = NoBinding THEN DesiredProfile(Seats[n], request, launch)
                            ELSE LiveProfile(Seats[n], request)]

\* assertRoutingAvailable
RoutingAvailable(request, launch) ==
    routing # Unset => \A seat \in ToSet(Seats) : Effective(request)[seat] \in Available(launch)
\* A rebind finds what it recorded; its profiles are the user's to edit.
OwnedAsRecorded ==
    disk.providers = binding.owned.providers /\ disk.inject = binding.owned.inject
ValidOwnedProfiles(launch) ==
    \A seat \in ToSet(Seats) : \E i \in DOMAIN disk.profiles, f \in Available(launch) :
        Places(disk.profiles, seat) = {i} /\ disk.profiles[i].provider = <<f, seat>>
MayRebind(request, launch) ==
    /\ request.initial = Unset
    /\ OwnedAsRecorded /\ ValidOwnedProfiles(launch)
    /\ RoutingAvailable(request, launch)
    /\ \A seat \in ToSet(Seats) : request.prefs[seat].family \in Available(launch) \cup {Unset}
\* A first binding takes over only what is exactly what it would write.
MayBind(request, launch) ==
    /\ routing = Unset => IF request.initial # Unset THEN request.initial \in Available(launch)
                         ELSE Available(launch) # {}
    /\ RoutingAvailable(request, launch)
    /\ \A id \in Ids : disk.providers[id] # Unset =>
          request.adopt /\ disk.providers[id] = DesiredProviderEntries(launch, Effective(request))[id]
    /\ \A n \in DOMAIN Seats : \A i \in Places(disk.profiles, Seats[n]) :
          request.adopt /\ disk.profiles[i] = DesiredProfiles(request, launch)[n]

\* What both endpoints of a plan are measured with, and where it starts.
PlanFrom(after, previous, next, doc) ==
    [before |-> [owned |-> Projection(doc), profiles |-> doc.profiles, listed |-> doc.listed],
     after |-> after, unrelated |-> Unrelated(doc), enabled |-> live.enabled,
     injects |-> Injects(live), read |-> docs, previous |-> previous, next |-> next]

Launch(request) == [candidate |-> candidate, binaries |-> Resolution(request)]
PlanActivation(request) ==
    LET launch == Launch(request)
        slots  == ComputeSlots(disk.profiles, DesiredProfiles(request, launch))
        owned  == [providers |-> DesiredProviderEntries(launch, Effective(request)),
                   slots |-> slots, listed |-> TRUE, inject |-> "on"]
    IN  PlanFrom([owned |-> owned, listed |-> TRUE,
                  profiles |-> ApplyOwnedSlots(disk.profiles, slots)],
                 binding,
                 [launch |-> launch, owned |-> owned,
                  injected |-> IF binding = NoBinding THEN Injects(live) ELSE binding.injected],
                 disk)
PlanDeactivation ==
    PlanFrom([owned |-> [providers |-> [id \in Ids |-> Unset], slots |-> {}, listed |-> TRUE,
                         inject |-> IF binding.injected THEN "on" ELSE "off"],
              listed |-> TRUE, profiles |-> Others(disk.profiles)],
             binding, NoBinding, disk)

\* The config is there already: no patch.
AlreadyThere(plan) ==
    DiskAt(disk, plan.after, plan.unrelated) /\ Injects(live) = Injects(plan.after.owned)

-----------------------------------------------------------------------------
(* The operations *)

PlanInit ==
    /\ disk \in Documents /\ live = disk
    /\ binding = NoBinding /\ operation = NoOperation
    /\ routing \in Routings /\ candidate = 1
    /\ found = [f \in Family |-> {"alias"}]
    /\ own = Injects(disk)
    /\ spent = [operations |-> 0, edits |-> 0]

\* Preflight of both plans: MCP is on, the host would persist every field,
\* and nothing owned is there twice.
PersistedCompatible == disk.rest # "lossy"
MayPlan == live.enabled /\ PersistedCompatible /\ RawLiveAgreement /\ Projectable(disk)

Prepare(kind, plan) ==
    /\ operation = NoOperation /\ spent.operations < MaxOperations
    /\ spent' = [spent EXCEPT !.operations = @ + 1]
    /\ operation' = [kind |-> kind, plan |-> plan, at |-> "prepared", sent |-> Unset, took |-> "none"]
    /\ UNCHANGED <<docs, binding, surroundings, own>>

\* Entries that are no longer generated go: nothing may point at them.
Activate(request) ==
    LET plan == PlanActivation(request)
        launch == Launch(request)
    IN  /\ \A f \in Family : request.binaries[f] = "any" \/ Clean(f, request.binaries[f])
        /\ MayPlan
        /\ IF binding = NoBinding THEN MayBind(request, launch) ELSE MayRebind(request, launch)
        /\ ~AlreadyThere(plan) => NoDependentReferences(disk, Absent(plan.after.owned.providers))
        /\ Prepare("activate", plan)

Deactivate ==
    /\ binding # NoBinding
    /\ MayPlan /\ MetadataAgreement
    /\ OwnedAsRecorded /\ SlotsOf(disk.profiles) = binding.owned.slots
    /\ NoDependentReferences(disk, Ids)
    /\ Prepare("deactivate", PlanDeactivation)

Finish(next) ==
    /\ binding' = next /\ operation' = NoOperation
    /\ UNCHANGED <<docs, surroundings, spent>>

\* The host takes a patch whole, writes the file and dies, or takes nothing.
Send(direction, took) ==
    LET patch == PatchForDirection(operation.plan, direction, disk)
    IN  /\ disk' = IF took = "none" THEN disk ELSE Patched(disk, patch)
        /\ live' = IF took = "both" THEN Patched(live, patch) ELSE live
        /\ operation' = [operation EXCEPT !.at = IF operation.at = "prepared" THEN "sent" ELSE @,
                                          !.sent = direction, !.took = took]
        /\ UNCHANGED <<binding, surroundings, own, spent>>

\* effectiveSnapshotEqual, and the bytes of config.json.
StillCurrent == docs = operation.plan.read
AtStage(place) == operation.at = place
Dispatch(took) ==
    /\ AtStage("prepared") /\ StillCurrent /\ ~AlreadyThere(operation.plan)
    /\ Send("forward", took)
NothingToSend ==
    /\ AtStage("prepared") /\ StillCurrent /\ AlreadyThere(operation.plan)
    /\ Finish(operation.plan.next) /\ UNCHANGED own
\* Nothing was sent: what the user set meanwhile is what he set.
PlanIsStale ==
    /\ AtStage("prepared") /\ ~StillCurrent /\ Finish(binding)
    /\ own' = IF binding = NoBinding THEN Injects(disk) ELSE own

\* Back from the host: done, nothing happened, or a case for recovery.
Class == ClassOf(disk, live, operation.plan)
Settle ==
    /\ AtStage("sent")
    /\ \/ Class \in {"after", "equal"} /\ Finish(operation.plan.next) /\ UNCHANGED own
       \/ Class = "before" /\ Finish(binding) /\ UNCHANGED own
       \/ /\ Class = "neither"
          /\ operation' = [operation EXCEPT !.at = "recovery"]
          /\ UNCHANGED <<docs, binding, surroundings, own, spent>>
Crash ==
    /\ operation.at \in {"prepared", "sent"}
    /\ operation' = [operation EXCEPT !.at = "recovery"]
    /\ UNCHANGED <<docs, binding, surroundings, own, spent>>

\* Recovery towards either endpoint: it is reached and its files are whole,
\* or the patch is sent from the other one.  Removals are guarded again.
Intact(bound) == bound # NoBinding => Probes(bound.launch)
Complete(took) ==
    /\ AtStage("recovery")
    /\ operation.kind = "activate" => Intact(operation.plan.next)
    /\ \/ Class \in {"after", "equal"} /\ took = "none" /\ Finish(operation.plan.next) /\ UNCHANGED own
       \/ /\ Class = "before"
          /\ IF operation.kind = "activate" THEN live.enabled
             ELSE MetadataAgreement /\ NoDependentReferences(disk, Ids)
          /\ Send("forward", took)
Inverted == Absent(operation.plan.before.owned.providers)
\* Mutant: the guard is left to the operation that was planned.
RestoreUnguarded(took) ==
    /\ AtStage("recovery") /\ Intact(operation.plan.previous)
    /\ \/ Class \in {"before", "equal"} /\ took = "none" /\ Finish(operation.plan.previous) /\ UNCHANGED own
       \/ Class = "after" /\ Send("inverse", took)
RestoreBefore(took) ==
    /\ AtStage("recovery") /\ Intact(operation.plan.previous)
    /\ \/ Class \in {"before", "equal"} /\ took = "none" /\ Finish(operation.plan.previous) /\ UNCHANGED own
       \/ /\ Class = "after"
          /\ Inverted # {} => MetadataAgreement /\ NoDependentReferences(disk, Inverted)
          /\ Send("inverse", took)

-----------------------------------------------------------------------------
(* Everybody else: each edit counts. *)

Edits ==
    /\ spent.edits < MaxEdits
    /\ spent' = [spent EXCEPT !.edits = @ + 1]
    /\ UNCHANGED operation

\* What an edit does to the list of profiles: one more, one of SLP's moved to
\* another family, one less; and the providers somebody may come to name.
Longer(list) == {InsertAt(list, i, profile) : i \in 1..Len(list) + 1, profile \in UserProfiles}
Moved(list) == {[list EXCEPT ![i].provider = <<f, list[i].id>>] :
                   i \in {i \in DOMAIN list : IsOwned(list[i])}, f \in Family}
Fewer(list) == {RemoveAt(list, i) : i \in DOMAIN list}
Named == {{}} \cup {{profile.provider} : profile \in UserProfiles}
\* One edit of a document, through the host, of the file, or of the daemon.
Edited(doc) ==
    {[doc EXCEPT !.profiles = l, !.listed = TRUE] : l \in Longer(doc.profiles)}
    \cup {[doc EXCEPT !.profiles = l] : l \in Moved(doc.profiles) \cup Fewer(doc.profiles)}
    \cup {[doc EXCEPT !.refs = refs] : refs \in Named}
    \cup {[doc EXCEPT !.inject = inject] : inject \in {"on", "off"}}
    \cup {[doc EXCEPT !.enabled = ~@], [doc EXCEPT !.rest = "lossy"]}
\* The flag is the user's while nothing of SLP is there, or planned.
FlagIsHis == Absent(disk.providers) = Ids \/ (binding = NoBinding /\ operation = NoOperation)
EditConfig(where) ==
    /\ Edits
    /\ CASE where = "both" -> disk = live /\ disk' \in Edited(disk) /\ live' = disk'
         [] where = "file" -> disk' \in Edited(disk) /\ UNCHANGED live
         [] where = "daemon" -> live' \in Edited(live) /\ UNCHANGED disk
    /\ own' = IF FlagIsHis THEN Injects(disk') ELSE own
    /\ UNCHANGED <<binding, surroundings>>
Reload ==
    /\ live # disk /\ live' = disk /\ UNCHANGED disk
    /\ Edits /\ UNCHANGED <<binding, surroundings, own>>

\* The receipt is lost; what it owned is the user's, who may adopt it.
Forget ==
    /\ binding # NoBinding /\ operation = NoOperation /\ binding' = NoBinding
    /\ own' = Injects(disk)
    /\ Edits /\ UNCHANGED <<docs, surroundings>>

ChangeWorld ==
    /\ \/ routing' \in Routings \ {routing} /\ UNCHANGED <<candidate, found>>
       \/ candidate' = candidate + 1 /\ UNCHANGED <<routing, found>>
       \/ /\ \E f \in Family, path \in Paths :
                found' = [found EXCEPT ![f] = IF path \in @ THEN @ \ {path} ELSE @ \cup {path}]
          /\ UNCHANGED <<routing, candidate>>
    /\ Edits /\ UNCHANGED <<docs, binding, own>>

PlanNext ==
    \/ \E request \in Requests : Activate(request)
    \/ Deactivate
    \/ NothingToSend \/ PlanIsStale \/ Settle \/ Crash
    \/ \E took \in {"none", "disk", "both"} : Dispatch(took) \/ Complete(took) \/ RestoreBefore(took)
    \/ \E where \in {"both", "file", "daemon"} : EditConfig(where)
    \/ Reload \/ Forget \/ ChangeWorld

-----------------------------------------------------------------------------
(* Properties *)

\* What a patch does to the config: the plugin's own step, not an edit.
Patches == docs' # docs /\ spent' = spent
Arrives ==
    operation'.took = "both" =>
        ClassOf(disk', live', operation'.plan)
            \in {"equal", IF operation'.sent = "forward" THEN "after" ELSE "before"}
SparesReferences ==
    LET gone == Absent(disk'.providers) \ Absent(disk.providers)
    IN  /\ NoDependentReferences(disk, gone)
        /\ operation.kind = "deactivate" \/ operation'.sent = "inverse" => live.refs \cap gone = {}

\* A patch both the file and the daemon took is found at the endpoint it was
\* for, forward or inverse, whatever the list of profiles looked like and
\* whether fields were absent or empty (classifyState, patchForDirection,
\* applyOwnedSlots, computeSlots).  It takes no entry from the file that a
\* profile of the user or metadata generation names there; and that of a
\* deactivation or a restore none that only the daemon's metadata generation
\* names (assertNoDependentReferences, assertMetadataGenerationAgreement,
\* also when the operation is recovered).
PatchesAreSafe == [][Patches => Arrives /\ SparesReferences]_planVars

\* A binding's saved profiles name providers it has generated, whatever
\* routing, preferences and the user's edits of them said (planActivation).
SeatsExist ==
    binding # NoBinding => \A slot \in binding.owned.slots :
        binding.owned.providers[slot.value.provider] # Unset

\* When nothing of SLP is left, the flag is what the user had set, whatever
\* sequence of activations, rebinds, recoveries and deactivations was between.
FlagComesBack ==
    binding = NoBinding /\ operation = NoOperation /\ Absent(disk.providers) = Ids => (Injects(disk) <=> own)

\* Between operations a binding and the config it left agree with its owner.
ConfigIsSound == SeatsExist /\ FlagComesBack
=============================================================================
